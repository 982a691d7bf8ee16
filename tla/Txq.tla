---------------------------------- MODULE Txq ----------------------------------
(***************************************************************************)
(* The transmit queue of net/src/txq.c on its loop: a ring of datagrams    *)
(* that doubles when full, a flush hook registered while something is      *)
(* queued, and the NET_WR interest (or a retry timer) that wakes the loop  *)
(* when the kernel pushed back.  The loop is reduced to what the queue     *)
(* sees of it: the hook runs at the top of a step, then the loop sleeps    *)
(* until something wakes it.                                               *)
(***************************************************************************)
EXTENDS Naturals, Sequences

CONSTANTS
    InitCap,        \* first ring size (NET_TXQ_BATCH in the code)
    Batch,          \* NET_TXQ_BATCH
    MaxBytes,       \* max_bytes
    Lens,           \* payload lengths
    MaxSends        \* bound: datagrams offered

ASSUME TxqAssumption ==
    /\ InitCap \in Nat \ {0} /\ Batch \in Nat \ {0} /\ MaxBytes \in Nat
    /\ Lens \subseteq Nat /\ MaxSends \in Nat

VARIABLES
    q,          \* [ring, head, n, bytes]; ring is indexed from 0
    st,         \* [sent, dropped]: the counters
    attached,   \* q->l is set
    hook,       \* pre_tramp is registered
    wr_armed, retry,
    interest,   \* what epoll has for the descriptor: none, rd, rdwr
    full,       \* why the kernel takes no more: no, sock (EAGAIN), qdisc (ENOBUFS)
    pc, back,   \* where the loop is; where a flush returns to
    wire, lost, \* datagrams handed over and refused for good, in order
    offered     \* datagrams offered so far

vars == <<q, st, attached, hook, wr_armed, retry, interest, full, pc, back, wire, lost, offered>>
watch == <<hook, wr_armed, retry, interest>>
env == <<attached, full, offered>>

cap == Len(q.ring)
At(i) == q.ring[1 + ((q.head + i) % cap)]
Contents == [i \in 1 .. q.n |-> At(i - 1)]

Bytes(s) ==
    LET sum[k \in 0 .. Len(s)] == IF k = 0 THEN 0 ELSE sum[k - 1] + s[k].len
    IN  sum[Len(s)]

NoMsg == [id |-> 0, len |-> 0]

Init ==
    /\ q = [ring |-> [i \in 1 .. InitCap |-> NoMsg], head |-> 0, n |-> 0, bytes |-> 0]
    /\ st = [sent |-> 0, dropped |-> 0]
    /\ attached = TRUE /\ hook = FALSE /\ wr_armed = FALSE /\ retry = FALSE
    /\ interest \in {"none", "rd"}
    /\ full = "no" /\ pc = "top" /\ back = "top"
    /\ wire = <<>> /\ lost = <<>> /\ offered = 0

-------------------------------------------------------------------------------
(* Mutant: the ring is doubled in place. *)
Grown_inplace(x) ==
    [x EXCEPT !.ring = [i \in 1 .. 2 * Len(@) |-> IF i <= Len(x.ring) THEN x.ring[i] ELSE NoMsg]]

(* grow: twice the slots, the contents moved to the front. *)
Grown(x) ==
    [ring |-> [i \in 1 .. 2 * Len(x.ring) |-> IF i <= x.n THEN At(i - 1) ELSE NoMsg],
     head |-> 0, n |-> x.n, bytes |-> x.bytes]

Pushed(x, m) ==
    [ring |-> [x.ring EXCEPT ![1 + ((x.head + x.n) % Len(x.ring))] = m],
     head |-> x.head, n |-> x.n + 1, bytes |-> x.bytes + m.len]

(* Mutant: the bytes of the whole batch are not given back. *)
Popped_one(x, k) ==
    [x EXCEPT !.head = (@ + k) % Len(x.ring), !.n = @ - k, !.bytes = @ - At(0).len]

(* pop: the k oldest leave. *)
Popped(x, k) ==
    [ring |-> x.ring, head |-> (x.head + k) % Len(x.ring), n |-> x.n - k,
     bytes |-> x.bytes - Bytes(SubSeq(Contents, 1, k))]

Fits(len) == q.bytes + len <= MaxBytes

(* net_txq_send: refused at the byte cap or without memory; the first      *)
(* datagram of an empty queue registers the hook, and the result of that   *)
(* is not looked at.                                                       *)
net_txq_send(len, nomem) ==
    LET m == [id |-> offered + 1, len |-> len] IN
    /\ pc = "top" /\ offered < MaxSends
    /\ offered' = offered + 1
    /\ IF ~Fits(len) \/ nomem
       THEN st' = [st EXCEPT !.dropped = @ + 1] /\ UNCHANGED <<q, hook>>
       ELSE /\ q' = Pushed(IF q.n = cap THEN Grown(q) ELSE q, m)
            /\ hook' = (hook \/ (q.n = 0 /\ attached))
            /\ UNCHANGED st
    /\ UNCHANGED <<attached, wr_armed, retry, interest, full, pc, back, wire, lost>>

(* Mutant: nothing stands in for a descriptor the loop does not know. *)
arm_wr_noretry ==
    /\ IF attached /\ ~wr_armed /\ interest # "none"
       THEN wr_armed' = TRUE /\ interest' = "rdwr" ELSE UNCHANGED <<wr_armed, interest>>
    /\ UNCHANGED retry

(* arm_wr: NET_WR on the owner's descriptor, or a retry timer without one. *)
arm_wr ==
    IF ~attached \/ wr_armed THEN UNCHANGED <<wr_armed, interest, retry>>
    ELSE IF interest # "none"
    THEN wr_armed' = TRUE /\ interest' = "rdwr" /\ UNCHANGED retry
    ELSE retry' = TRUE /\ UNCHANGED <<wr_armed, interest>>

(* disarm_wr and the hook dropped: an empty queue costs the loop nothing.  *)
drained ==
    /\ IF attached /\ wr_armed
       THEN wr_armed' = FALSE /\ interest' = IF interest = "none" THEN "none" ELSE "rd"
       ELSE UNCHANGED <<wr_armed, interest>>
    /\ hook' = (hook /\ ~attached)
    /\ UNCHANGED retry

(* One turn of the flush: sendmmsg takes r of the k it is offered.  After  *)
(* a short count the kernel may be full, or refuse the next one for good.  *)
flush_sent(r) ==
    LET k == IF q.n < Batch THEN q.n ELSE Batch IN
    /\ pc = "flush" /\ q.n > 0 /\ full = "no" /\ r \in 1 .. k
    /\ wire' = wire \o SubSeq(Contents, 1, r)
    /\ q' = Popped(q, r)
    /\ st' = [st EXCEPT !.sent = @ + r]
    /\ IF r < k THEN /\ full' \in {"no", "sock", "qdisc"}
                     /\ pc' = back /\ arm_wr /\ UNCHANGED hook
       ELSE UNCHANGED <<full, pc, watch>>
    /\ UNCHANGED <<attached, offered, back, lost>>

flush_again ==
    /\ pc = "flush" /\ q.n > 0 /\ full # "no"
    /\ arm_wr
    /\ pc' = back
    /\ UNCHANGED <<q, st, env, hook, back, wire, lost>>

(* The datagram at the head is undeliverable. *)
flush_dropped ==
    /\ pc = "flush" /\ q.n > 0 /\ full = "no"
    /\ lost' = Append(lost, At(0))
    /\ q' = Popped(q, 1)
    /\ st' = [st EXCEPT !.dropped = @ + 1]
    /\ UNCHANGED <<env, watch, pc, back, wire>>

flush_drained ==
    /\ pc = "flush" /\ q.n = 0
    /\ drained
    /\ pc' = back
    /\ UNCHANGED <<q, st, env, back, wire, lost>>

(* net_txq_flush called by the owner. *)
net_txq_flush ==
    /\ pc = "top"
    /\ pc' = "flush" /\ back' = "top"
    /\ UNCHANGED <<q, st, env, watch, wire, lost>>

-------------------------------------------------------------------------------
(* The loop: hooks, then sleep, until the descriptor is writable, the      *)
(* retry timer is due or something else wakes it.                          *)
loop_hooks ==
    /\ attached /\ pc = "top"
    /\ IF hook THEN pc' = "flush" /\ back' = "sleep" ELSE pc' = "sleep" /\ UNCHANGED back
    /\ UNCHANGED <<q, st, env, watch, wire, lost>>

wake_writable ==
    /\ attached /\ pc = "sleep" /\ interest = "rdwr" /\ full # "sock"
    /\ pc' = "top"
    /\ UNCHANGED <<q, st, env, watch, back, wire, lost>>

retry_tramp ==
    /\ attached /\ pc = "sleep" /\ retry
    /\ retry' = FALSE
    /\ pc' = "flush" /\ back' = "top"
    /\ UNCHANGED <<q, st, env, hook, wr_armed, interest, wire, lost>>

wake_other ==
    /\ attached /\ pc = "sleep"
    /\ pc' = "top"
    /\ UNCHANGED <<q, st, env, watch, back, wire, lost>>

kernel_drains ==
    /\ full # "no" /\ full' = "no"
    /\ UNCHANGED <<q, st, attached, offered, watch, pc, back, wire, lost>>

(* The owner registers its descriptor, which it does once. *)
owner_add ==
    /\ pc = "top" /\ attached
    /\ interest = "none" /\ interest' = "rd"
    /\ UNCHANGED <<q, st, env, hook, wr_armed, retry, pc, back, wire, lost>>

(* net_txq_detach: the loop is gone, and with it what was registered. *)
net_txq_detach ==
    /\ pc = "top" /\ attached
    /\ attached' = FALSE /\ wr_armed' = FALSE /\ retry' = FALSE
    /\ hook' = FALSE /\ interest' = "none"
    /\ UNCHANGED <<q, st, full, offered, pc, back, wire, lost>>

Next ==
    \/ \E len \in Lens, nomem \in BOOLEAN : net_txq_send(len, nomem)
    \/ \E r \in 1 .. Batch : flush_sent(r)
    \/ flush_again \/ flush_dropped \/ flush_drained \/ net_txq_flush
    \/ loop_hooks \/ wake_writable \/ retry_tramp \/ wake_other
    \/ kernel_drains \/ owner_add \/ net_txq_detach

Flush == flush_again \/ flush_dropped \/ flush_drained \/ \E r \in 1 .. Batch : flush_sent(r)

(* A flush runs to its end and the loop goes on; the kernel's buffer       *)
(* drains.  Nothing else need ever wake the loop.                          *)
Fairness ==
    /\ WF_vars(Flush) /\ WF_vars(loop_hooks) /\ WF_vars(wake_writable)
    /\ WF_vars(retry_tramp) /\ WF_vars(kernel_drains)

Spec == Init /\ [][Next]_vars /\ Fairness

-------------------------------------------------------------------------------
(* The ring, through wrapping, popping and growing, is the promised FIFO. *)
Promise == INSTANCE TxqSpec WITH
    queue <- Contents, Datagrams <- [id : 1 .. MaxSends, len : Lens]
ImplementsFifo == Promise!Spec

(* The byte count that limits the queue is that of what is queued. *)
BytesExact == q.bytes = Bytes(Contents)

(* net_txq.h: "nothing waits in the queue while the loop sleeps": a        *)
(* backlog always has the hook, and a sleeping loop something to wake it;  *)
(* an empty queue costs the loop nothing.                                  *)
BacklogWatched ==
    pc # "flush" =>
        IF q.n > 0 THEN attached => hook /\ (pc = "sleep" => wr_armed \/ retry)
                   ELSE ~hook /\ ~wr_armed

(* Every datagram is counted once, and a backlog is watched. *)
TxqAccounted == BytesExact /\ BacklogWatched

(* A backlog leaves, though nothing but the socket ever wakes the loop. *)
BacklogDrains == q.n > 0 ~> q.n = 0 \/ ~attached
===============================================================================
