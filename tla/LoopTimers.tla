------------------------------ MODULE LoopTimers ------------------------------
(***************************************************************************)
(* The timers of net/src/loop.c: a binary heap on the due time, a table of *)
(* handle slots that knows where in the heap each timer sits, a free list  *)
(* through that table, and the due pass of net_loop_step.  Slots and heap  *)
(* positions count from 0, as in the code.                                 *)
(***************************************************************************)
EXTENDS Integers, Sequences, FiniteSets

CONSTANTS
    InitSlots,      \* size of the first slot table (16 in the code)
    GenMod,         \* generations are counted modulo this (2^32 in the code)
    Delays,         \* delays the callers ask for
    MaxArms,        \* bound: timers armed
    MaxSlots,       \* bound: slots handed out
    MaxNow          \* bound: the clock

ASSUME TimerAssumption ==
    /\ InitSlots \in Nat \ {0} /\ GenMod \in Nat \ {0, 1}
    /\ Delays \subseteq Nat /\ MaxArms \in Nat /\ MaxSlots \in Nat \ {0} /\ MaxNow \in Nat

(* Fewer timers are armed than a slot has generations, so that no slot     *)
(* comes round to a handle it gave out before.                             *)
ASSUME FewArms == MaxArms < GenMod

NoPos == -1
NoSlot == -1

VARIABLES
    l,          \* the loop's fields: heap, slot, freeslot
    now,        \* net_now_ms
    pass,       \* the clock value the due pass works with, or none
    issued,     \* handles returned so far
    last        \* what the last call did

vars == <<l, now, pass, issued, last>>

None == -1
TMR_ID(gen, s) == <<gen, s>>
Ids == (0 .. GenMod - 1) \X (0 .. MaxSlots - 1)

Init ==
    /\ l = [heap |-> <<>>, slot |-> <<>>, freeslot |-> NoSlot]
    /\ now = 0 /\ pass = None /\ issued = {}
    /\ last = [op |-> "none", id |-> <<0, 0>>, ok |-> TRUE]

At(h, i) == h[i + 1]        \* entry i of an array kept as a sequence

(* The slot of entry i learns where it is. *)
tmr_place(x, i) == [x EXCEPT !.slot[At(x.heap, i).slot + 1].pos = i]

Exchanged(x, i, j) ==
    [x EXCEPT !.heap = [@ EXCEPT ![i + 1] = At(x.heap, j), ![j + 1] = At(x.heap, i)]]

(* Mutant: only the entry that moves up is placed. *)
Swap_halfplaced(x, i, j) == tmr_place(Exchanged(x, i, j), j)

(* Two heap entries change places and tmr_place records both. *)
Swap(x, i, j) == tmr_place(tmr_place(Exchanged(x, i, j), i), j)

Parent(i) == (i - 1) \div 2

(* One turn of tmr_up: the entry at p.at rises if its parent is due later. *)
Rise(p) ==
    IF p.at > 0 /\ At(p.l.heap, p.at).due < At(p.l.heap, Parent(p.at)).due
    THEN [l |-> Swap(p.l, p.at, Parent(p.at)), at |-> Parent(p.at)] ELSE p

(* tmr_up: the entry rises while it can, which is at most i times. *)
tmr_up(x, i) ==
    LET sift[k \in 0 .. i] == IF k = 0 THEN [l |-> x, at |-> i] ELSE Rise(sift[k - 1])
    IN  sift[i].l

(* The child tmr_down looks at: the earlier one, the left one when even. *)
Child(x, i) ==
    IF 2 * i + 2 < Len(x.heap) /\ At(x.heap, 2 * i + 2).due < At(x.heap, 2 * i + 1).due
    THEN 2 * i + 2 ELSE 2 * i + 1

(* One turn of tmr_down: the entry at p.at sinks if a child is due earlier. *)
Sink(p) ==
    LET c == Child(p.l, p.at) IN
    IF 2 * p.at + 1 < Len(p.l.heap) /\ At(p.l.heap, c).due < At(p.l.heap, p.at).due
    THEN [l |-> Swap(p.l, p.at, c), at |-> c] ELSE p

(* tmr_down: the entry sinks while it can, fewer times than there are entries. *)
tmr_down(x, i) ==
    LET sift[k \in 0 .. Len(x.heap)] ==
            IF k = 0 THEN [l |-> x, at |-> i] ELSE Sink(sift[k - 1])
    IN  sift[Len(x.heap)].l

(* ++gen, 0 skipped. *)
NextGen(g) == IF (g + 1) % GenMod = 0 THEN 1 ELSE (g + 1) % GenMod

(* Mutant: the slot is linked but not made the head. *)
Release_leak(x, s) ==
    [x EXCEPT !.slot[s + 1] = [pos |-> NoPos, gen |-> NextGen(@.gen), next |-> x.freeslot]]

(* Slot s goes to the head of the free list under its next generation. *)
Release(x, s) ==
    [x EXCEPT !.slot[s + 1] = [pos |-> NoPos, gen |-> NextGen(@.gen), next |-> x.freeslot],
              !.freeslot = s]

(* Entry i leaves; the last one takes its place, not yet in heap order. *)
Filled(x, i) ==
    LET n == Len(x.heap) - 1 IN
    IF i = n THEN [x EXCEPT !.heap = SubSeq(@, 1, n)]
    ELSE tmr_place([x EXCEPT !.heap = SubSeq([@ EXCEPT ![i + 1] = At(x.heap, n)], 1, n)], i)

tmr_remove(x, i) ==
    LET y == Filled(Release(x, At(x.heap, i).slot), i) IN
    IF i < Len(y.heap) THEN tmr_up(tmr_down(y, i), i) ELSE y

(* The slot table doubled, the new slots chained into the free list. *)
Grown(x) ==
    LET old == Len(x.slot)
        new == IF old = 0 THEN InitSlots ELSE 2 * old
    IN  [x EXCEPT !.slot = [k \in 1 .. new |->
                      IF k <= old THEN x.slot[k]
                      ELSE [pos |-> NoPos, gen |-> 1, next |-> IF k < new THEN k ELSE NoSlot]],
                  !.freeslot = old]

(* net_loop_after: take a slot and put the timer at the end of the heap. *)
net_loop_after(ms) ==
    LET x == IF l.freeslot = NoSlot THEN Grown(l) ELSE l
        s == x.freeslot
        id == TMR_ID(At(x.slot, s).gen, s)
        n == Len(x.heap)
        y == [x EXCEPT !.freeslot = At(x.slot, s).next,
                       !.heap = Append(@, [due |-> now + ms, slot |-> s, id |-> id]),
                       !.slot[s + 1].pos = n]
    IN  /\ now + ms <= MaxNow /\ s < MaxSlots
        /\ l' = tmr_up(y, n)
        /\ issued' = issued \cup {id}
        /\ last' = [op |-> "after", id |-> id, ok |-> TRUE]
        /\ UNCHANGED <<now, pass>>

(* Growing the heap or the table fails, which only a full table asks for. *)
net_loop_after_nomem ==
    /\ l.freeslot = NoSlot
    /\ last' = [op |-> "after", id |-> <<0, 0>>, ok |-> FALSE]
    /\ UNCHANGED <<l, now, pass, issued>>

(* Mutant: the generation of the handle is not looked at. *)
net_loop_cancel_anygen(id) ==
    LET s == id[2]
        ok == s < Len(l.slot) /\ At(l.slot, s).pos # NoPos
    IN  /\ last' = [op |-> "cancel", id |-> id, ok |-> ok]
        /\ l' = IF ok THEN tmr_remove(l, At(l.slot, s).pos) ELSE l
        /\ UNCHANGED <<now, pass, issued>>

(* net_loop_cancel, with any handle a caller may hold, 0 included. *)
net_loop_cancel(id) ==
    LET s == id[2]
        ok == s < Len(l.slot) /\ At(l.slot, s).gen = id[1] /\ At(l.slot, s).pos # NoPos
    IN  /\ last' = [op |-> "cancel", id |-> id, ok |-> ok]
        /\ l' = IF ok THEN tmr_remove(l, At(l.slot, s).pos) ELSE l
        /\ UNCHANGED <<now, pass, issued>>

(* net_loop_step after the poll: the clock is read once for the due pass. *)
due_pass ==
    /\ pass = None /\ l.heap # <<>>
    /\ pass' = now
    /\ UNCHANGED <<l, now, issued, last>>

(* The timer is popped before its callback; what the callback arms or      *)
(* cancels are the calls made before the pass goes on.                     *)
fire ==
    /\ pass # None /\ l.heap # <<>> /\ Head(l.heap).due <= pass
    /\ l' = tmr_remove(l, 0)
    /\ last' = [op |-> "fire", id |-> Head(l.heap).id, ok |-> TRUE]
    /\ UNCHANGED <<now, pass, issued>>

pass_over ==
    /\ pass # None
    /\ l.heap # <<>> => Head(l.heap).due > pass
    /\ pass' = None
    /\ UNCHANGED <<l, now, issued, last>>

Tick ==
    /\ now < MaxNow
    /\ now' = now + 1
    /\ UNCHANGED <<l, pass, issued, last>>

Next ==
    \/ Cardinality(issued) < MaxArms /\ \E ms \in Delays : net_loop_after(ms)
    \/ net_loop_after_nomem
    \/ \E id \in issued \cup {<<0, 0>>} : net_loop_cancel(id)
    \/ due_pass \/ fire \/ pass_over
    \/ Tick

(* The loop runs, its callbacks return, and time passes. *)
Spec ==
    /\ Init /\ [][Next]_vars
    /\ WF_vars(due_pass) /\ WF_vars(fire) /\ WF_vars(pass_over) /\ WF_vars(Tick)

-------------------------------------------------------------------------------
(* The slot serves a timer. *)
Armed(s) == At(l.slot, s).pos # NoPos

(* No parent is due after its child, so the head is the earliest timer;    *)
(* and the slot table finds every timer where it is, through all the moves *)
(* of the heap, and knows of no other: what makes cancelling O(1) sound.   *)
HeapSound ==
    /\ \A i \in 1 .. Len(l.heap) - 1 : At(l.heap, Parent(i)).due <= At(l.heap, i).due
    /\ \A i \in 0 .. Len(l.heap) - 1 :
          LET t == At(l.heap, i) IN
          At(l.slot, t.slot).pos = i /\ t.id = TMR_ID(At(l.slot, t.slot).gen, t.slot)
    /\ Cardinality({s \in 0 .. Len(l.slot) - 1 : Armed(s)}) = Len(l.heap)

(* The free list runs through exactly the slots that are not armed, once:  *)
(* no slot leaks and none is handed out twice.                             *)
FreeListExact ==
    LET N == Len(l.slot)
        chain[k \in 0 .. N] == IF k = 0 THEN l.freeslot
                               ELSE IF chain[k - 1] = NoSlot THEN NoSlot
                               ELSE At(l.slot, chain[k - 1]).next
    IN  /\ {chain[k] : k \in 0 .. N} \ {NoSlot} = {s \in 0 .. N - 1 : ~Armed(s)}
        /\ chain[N] = NoSlot

(* Heap, slots and free list describe the same timers. *)
TimersSound == HeapSound /\ FreeListExact

(* The heap and the handle table implement the promised set of timers. *)
Promise == INSTANCE TimerSpec WITH
    armed <- {[id |-> l.heap[k].id, due |-> l.heap[k].due] : k \in DOMAIN l.heap}
ImplementsTimers == Promise!Spec

(* Every timer ends, also one armed with no delay from inside a callback:  *)
(* once nothing more is armed, the heap runs empty.                        *)
TimersEnd == <>[](l.heap = <<>>)
===============================================================================
