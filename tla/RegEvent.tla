-------------------------------- MODULE RegEvent --------------------------------
(***************************************************************************)
(* The registration-event phase of bindings/examples/ims/reg_event.lua:    *)
(* each subscriber sends a SUBSCRIBE, in one burst or spaced by a rate,    *)
(* and settles when both the 200 OK and the first NOTIFY have come, in     *)
(* either order, or when one fails or its timer does.  The phase calls     *)
(* back when the last has settled.  The network loses, repeats and         *)
(* reorders.                                                               *)
(***************************************************************************)
EXTENDS Integers, FiniteSets

CONSTANT Watchers   \* eligible subscribers, 1 .. n in the order of the list

ASSUME WatchersInOrder == IsFiniteSet(Watchers) /\ Watchers = 1 .. Cardinality(Watchers)

VARIABLES
    ev,             \* u: the subscriptions; pending, guard, finished;
                    \* due: the spaced SUBSCRIBEs and the sentinel to come
    sent            \* responses and NOTIFYs the network has sent

evars == <<ev, sent>>

NewSubscription == [t1 |-> FALSE, t2 |-> FALSE, timer |-> FALSE, done |-> FALSE]

dec(e) ==
    LET p == e.pending - 1
    IN  IF p > 0 THEN [e EXCEPT !.pending = p]
        ELSE [e EXCEPT !.pending = p, !.guard = FALSE, !.finished = @ + 1]

(* Mutant: a subscription may settle again. *)
Settled_again(e, s) == dec([e EXCEPT !.u[s].done = TRUE, !.u[s].timer = FALSE])

(* settle_fail, and the end of settle. *)
Settled(e, s) ==
    IF e.u[s].done THEN e
    ELSE dec([e EXCEPT !.u[s].done = TRUE, !.u[s].timer = FALSE])

settle(e, s) == IF e.u[s].t1 /\ e.u[s].t2 THEN Settled(e, s) ELSE e

(* The subscription is counted before its SUBSCRIBE can fail. *)
subscribe(e, s, ok) ==
    LET q == [e EXCEPT !.u = [w \in DOMAIN e.u \cup {s} |->
                                IF w = s THEN NewSubscription ELSE e.u[w]],
                       !.pending = @ + 1]
    IN  IF ok THEN [q EXCEPT !.u[s].timer = TRUE] ELSE Settled(q, s)

(* P.begin: pending starts at 1, the scheduler's own unit.  A burst sends  *)
(* every SUBSCRIBE and gives the unit back at once; bad: those that cannot *)
(* be sent.                                                                *)
begin(spaced, bad) ==
    LET fresh == [u |-> <<>>, pending |-> 1, guard |-> TRUE, finished |-> 0,
                  due |-> Cardinality(Watchers) + 1]
    IN  IF spaced THEN fresh
        ELSE dec([fresh EXCEPT
                    !.u = [w \in Watchers |->
                             [NewSubscription EXCEPT !.timer = w \notin bad,
                                                     !.done = w \in bad]],
                    !.pending = 1 + Cardinality(Watchers \ bad), !.due = 0])

EventInit ==
    /\ \E spaced \in BOOLEAN, bad \in SUBSET Watchers : ev = begin(spaced, bad)
    /\ sent = {}

-------------------------------------------------------------------------------
(* The timers of the schedule, in order: the SUBSCRIBEs, then dec. *)
scheduled(ok) ==
    /\ ev.due > 0
    /\ LET s == Cardinality(Watchers) + 2 - ev.due
           e == [ev EXCEPT !.due = @ - 1]
       IN  ev' = IF ev.due = 1 THEN dec(e) ELSE subscribe(e, s, ok)
    /\ UNCHANGED sent

(* One final response to a SUBSCRIBE, and NOTIFYs once it is accepted. *)
Network(s, what) ==
    /\ s \in DOMAIN ev.u
    /\ <<s, what>> \notin sent
    /\ what = "refused" => <<s, "accepted">> \notin sent
    /\ what \in {"accepted", "good", "bad"} => <<s, "refused">> \notin sent
    /\ sent' = sent \cup {<<s, what>>}
    /\ UNCHANGED ev

(* P.response: a provisional or repeated response changes nothing. *)
response(s, what) ==
    /\ <<s, what>> \in sent
    /\ ev' = IF what = "refused" THEN Settled(ev, s)
             ELSE IF ev.u[s].t1 THEN ev
             ELSE settle([ev EXCEPT !.u[s].t1 = TRUE], s)
    /\ UNCHANGED sent

(* P.request: the first NOTIFY is the measurement, and its document is     *)
(* this subscriber's registration or it is not.                            *)
notify(s, what) ==
    /\ <<s, what>> \in sent
    /\ ev' = IF ev.u[s].done \/ ev.u[s].t2 THEN ev
             ELSE LET e == [ev EXCEPT !.u[s].t2 = TRUE]
                  IN  IF what = "good" THEN settle(e, s) ELSE Settled(e, s)
    /\ UNCHANGED sent

expires(s) ==
    /\ s \in DOMAIN ev.u /\ ev.u[s].timer
    /\ ev' = Settled([ev EXCEPT !.u[s].timer = FALSE], s)
    /\ UNCHANGED sent

(* The phase deadline; it lies beyond every timer of the schedule. *)
guard_fires ==
    /\ ev.guard /\ ev.due = 0
    /\ LET open == {s \in DOMAIN ev.u : ~ev.u[s].done}
           e == [ev EXCEPT !.guard = FALSE,
                    !.u = [s \in DOMAIN ev.u |->
                             [ev.u[s] EXCEPT !.done = TRUE, !.timer = FALSE]],
                    !.pending = @ - Cardinality(open)]
       IN  ev' = IF e.pending > 0 \/ open # {}
                 THEN [e EXCEPT !.pending = 0, !.finished = @ + 1] ELSE e
    /\ UNCHANGED sent

EventNext ==
    \/ \E ok \in BOOLEAN : scheduled(ok)
    \/ \E s \in Watchers, what \in {"accepted", "refused", "good", "bad"} : Network(s, what)
    \/ \E s \in Watchers, what \in {"accepted", "refused"} : response(s, what)
    \/ \E s \in Watchers, what \in {"good", "bad"} : notify(s, what)
    \/ \E s \in Watchers : expires(s)
    \/ guard_fires

(* The loop fires armed timers. *)
EventFairness ==
    /\ WF_evars(\E ok \in BOOLEAN : scheduled(ok))
    /\ \A s \in Watchers : WF_evars(expires(s))

EventSpec == EventInit /\ [][EventNext]_evars /\ EventFairness

-------------------------------------------------------------------------------
(* The phase calls back once, when every SUBSCRIBE of the list has been    *)
(* sent and settled and not before; a subscription that is over has no     *)
(* timer left, and a phase that is over no deadline.                       *)
EventPhaseEndsOnce ==
    LET open == {s \in DOMAIN ev.u : ~ev.u[s].done}
    IN  /\ ev.pending = Cardinality(open) + (IF ev.due > 0 THEN 1 ELSE 0)
        /\ ev.finished = (IF ev.pending = 0 THEN 1 ELSE 0)
        /\ ev.guard <=> ev.pending > 0
        /\ \A s \in DOMAIN ev.u : ev.u[s].done => ~ev.u[s].timer

(* The phase ends, whatever the network loses. *)
EventPhaseEnds == <>(ev.finished = 1)
===============================================================================
