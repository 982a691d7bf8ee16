----------------------------- MODULE LoopDispatch -----------------------------
(***************************************************************************)
(* net_loop_step of net/src/loop.c around its callbacks: the pre-poll      *)
(* hooks with their gaps and compaction, the poll, the timers' turn and    *)
(* the dispatch of the events polled.  Hooks and callbacks may register    *)
(* and drop hooks and descriptors, and stop the loop, at any point of a    *)
(* step.  The timers themselves are LoopTimers.                            *)
(***************************************************************************)
EXTENDS Naturals, Sequences, FiniteSets, Functions

CONSTANTS
    Hooks,      \* (cb, ud) pairs
    Fds,        \* descriptor numbers
    MaxCalls    \* bound: registrations and removals

None == "none"

VARIABLES
    pre,        \* the hook array up to npre; a dropped hook leaves None
    gaps,       \* pre_gaps
    reg,        \* the descriptor table: the registration in force, 0 when none
    evs,        \* events of the poll: [fd, reg], reg being what was polled
    stop,
    pc, i,      \* where net_loop_run is, and the index of its loop
    ran,        \* hooks run in this step, in order
    owed,       \* hooks registered when the step began and not dropped since
    called,     \* the last descriptor callback: [polled, called]
    calls       \* registrations and removals so far

vars == <<pre, gaps, reg, evs, stop, pc, i, ran, owed, called, calls>>
user == <<pre, gaps, reg, stop, owed, calls>>

Init ==
    /\ pre = <<>> /\ gaps = FALSE
    /\ reg = [fd \in Fds |-> 0] /\ evs = <<>>
    /\ stop = FALSE /\ pc = "out" /\ i = 0
    /\ ran = <<>> /\ owed = {}
    /\ called = [polled |-> 0, called |-> 0] /\ calls = 0

Registered == {pre[k] : k \in DOMAIN pre} \ {None}

-------------------------------------------------------------------------------
(* Calls the hooks, the callbacks and the loop's owner make. *)
Calling == calls < MaxCalls /\ calls' = calls + 1

(* net_loop_pre_add: a known pair is left alone, the first gap is reused,  *)
(* else the hook goes to the end.                                          *)
net_loop_pre_add(h) ==
    LET free == {k \in DOMAIN pre : pre[k] = None} IN
    /\ Calling
    /\ IF h \in Registered THEN UNCHANGED pre
       ELSE /\ pre' = IF free # {} THEN [pre EXCEPT ![CHOOSE k \in free : \A j \in free : k <= j] = h]
                      ELSE Append(pre, h)
    /\ UNCHANGED <<gaps, reg, evs, stop, pc, i, ran, owed, called>>

(* Mutant: removal closes the gap at once. *)
net_loop_pre_del_shift(h) ==
    /\ Calling /\ h \in Registered
    /\ pre' = SelectSeq(pre, LAMBDA x : x # h)
    /\ owed' = owed \ {h}
    /\ UNCHANGED <<gaps, reg, evs, stop, pc, i, ran, called>>

(* net_loop_pre_del: the slot is only cleared. *)
net_loop_pre_del(h) ==
    /\ Calling /\ h \in Registered
    /\ pre' = [k \in DOMAIN pre |-> IF pre[k] = h THEN None ELSE pre[k]]
    /\ gaps' = TRUE
    /\ owed' = owed \ {h}
    /\ UNCHANGED <<reg, evs, stop, pc, i, ran, called>>

net_loop_add(fd) ==
    /\ Calling /\ reg[fd] = 0
    /\ reg' = [reg EXCEPT ![fd] = calls + 1]
    /\ UNCHANGED <<pre, gaps, evs, stop, pc, i, ran, owed, called>>

net_loop_del(fd) ==
    /\ Calling /\ reg[fd] # 0
    /\ reg' = [reg EXCEPT ![fd] = 0]
    /\ UNCHANGED <<pre, gaps, evs, stop, pc, i, ran, owed, called>>

net_loop_stop ==
    /\ ~stop /\ stop' = TRUE
    /\ UNCHANGED <<pre, gaps, reg, evs, pc, i, ran, owed, called, calls>>

-------------------------------------------------------------------------------
(* net_loop_run: begin a step, or return and forget the stop. *)
run_step ==
    /\ pc = "out" /\ ~stop
    /\ pc' = "hooks" /\ i' = 1 /\ ran' = <<>> /\ owed' = Registered
    /\ UNCHANGED <<pre, gaps, reg, evs, stop, called, calls>>

(* Mutant: the stop outlives the run it ended. *)
run_return_sticky ==
    /\ pc = "out" /\ stop
    /\ UNCHANGED vars

run_return ==
    /\ pc = "out" /\ stop
    /\ stop' = FALSE
    /\ UNCHANGED <<pre, gaps, reg, evs, pc, i, ran, owed, called, calls>>

step_hook ==
    /\ pc = "hooks" /\ i <= Len(pre)
    /\ ran' = IF pre[i] = None THEN ran ELSE Append(ran, pre[i])
    /\ i' = i + 1
    /\ UNCHANGED <<evs, pc, called>> /\ UNCHANGED user

(* The hooks moved down over the gaps: moved[k] is what the first k slots  *)
(* become.                                                                 *)
pre_compact ==
    LET moved[k \in 0 .. Len(pre)] ==
          IF k = 0 THEN <<>>
          ELSE IF pre[k] = None THEN moved[k - 1]
          ELSE Append(moved[k - 1], pre[k])
    IN  moved[Len(pre)]

(* The hooks are done: compact, and poll any of the registered descriptors. *)
step_poll ==
    /\ pc = "hooks" /\ i > Len(pre)
    /\ pre' = IF gaps THEN pre_compact ELSE pre
    /\ gaps' = FALSE
    /\ \E ready \in SUBSET {fd \in Fds : reg[fd] # 0} :
          \E s \in Bijection(1 .. Cardinality(ready), ready) :
             evs' = [k \in DOMAIN s |-> [fd |-> s[k], reg |-> reg[s[k]]]]
    /\ pc' = "fds" /\ i' = 1
    /\ UNCHANGED <<reg, stop, ran, owed, called, calls>>

(* An event goes to whoever holds the descriptor by now. *)
step_event ==
    LET r == reg[evs[i].fd] IN
    /\ pc = "fds" /\ i <= Len(evs)
    /\ called' = IF r = 0 THEN called ELSE [polled |-> evs[i].reg, called |-> r]
    /\ i' = i + 1
    /\ UNCHANGED <<evs, pc, ran>> /\ UNCHANGED user

step_return ==
    /\ pc = "fds" /\ i > Len(evs)
    /\ pc' = "out" /\ i' = 0 /\ evs' = <<>>
    /\ UNCHANGED <<ran, called>> /\ UNCHANGED user

Next ==
    \/ \E h \in Hooks : net_loop_pre_add(h) \/ net_loop_pre_del(h)
    \/ \E fd \in Fds : net_loop_add(fd) \/ net_loop_del(fd)
    \/ net_loop_stop
    \/ run_step \/ run_return
    \/ step_hook \/ step_poll \/ step_event \/ step_return

Step == run_step \/ run_return \/ step_hook \/ step_poll \/ step_event \/ step_return

(* The thread that runs the loop goes on; hooks and callbacks return. *)
Spec == Init /\ [][Next]_vars /\ WF_vars(Step)

-------------------------------------------------------------------------------
(* No hook that was registered when the step began, and stayed, is passed  *)
(* over or run twice, whatever the hooks add and drop meanwhile.           *)
EachHookOnce ==
    pc = "fds" => \A h \in owed : Cardinality({k \in DOMAIN ran : ran[k] = h}) = 1

(* The loop reaches the poll again and again, so what is queued is flushed *)
(* and what is ready is served, or it returns to its caller.               *)
StepsEnd == (pc = "hooks" ~> pc = "out") /\ (stop ~> ~stop)

(* loop.c: the table indexed by descriptor means "no lifetime races".  An  *)
(* event polled for one registration is not given to a later one.          *)
NoLifetimeRace == called.called = called.polled
===============================================================================
