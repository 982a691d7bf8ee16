-------------------------------- MODULE ImsRun ---------------------------------
(***************************************************************************)
(* A run of ims_test_s5.lua from its first phase to the end of its loop:   *)
(* the phases one after the other, the 504s any phase's request may draw,  *)
(* the restorations they start, counted by the run, the teardown that      *)
(* waits for the last of them, the de-REGISTERs, and access.lua's Delete   *)
(* Sessions, the last of which stops the loop.  What a restoration does to *)
(* its subscriber is RegFlow's matter; here it ends, at once or later, in  *)
(* either way.                                                             *)
(***************************************************************************)
EXTENDS Integers, FiniteSets

CONSTANTS
    Subs,           \* subscribers, all registered in the attach burst
    Phases,         \* the phases that are switched on, a subset of 1 .. 3
    Dereg,          \* cfg.dereg
    MaxStarts       \* bound: restorations started

VARIABLE
    run             \* ue, pdn: by subscriber; restoring, after_restore, phase,
                    \* dpending, tguard: the scripts' own; started, over:
                    \* stats.restore; wait: begin_deregister's timer

TEARDOWN == 4

Deleting(r) == {s \in Subs : r.pdn[s] = "deleting"}

(* When the last Delete Session settles, the loop stops. *)
del_done(r, s) ==
    LET q == [r EXCEPT !.pdn[s] = "deleted", !.dpending = @ - 1]
    IN  IF q.dpending > 0 THEN q
        ELSE [q EXCEPT !.tguard = "off", !.stopped = TRUE]

(* Mutant: each request is counted as it goes out. *)
teardown_counting(r, bad) ==
    LET del == {s \in Subs : r.pdn[s] = "up"}
        out == [r EXCEPT !.pdn = [s \in Subs |-> IF s \notin del THEN r.pdn[s]
                                     ELSE IF s \in bad THEN "deleted" ELSE "deleting"],
                         !.dpending = Cardinality(del \ bad), !.tguard = "on"]
    IN  IF del \subseteq bad \/ del \cap bad # {}
        THEN [out EXCEPT !.tguard = "off", !.stopped = TRUE] ELSE out

(* bad: the subscribers whose delete_session throws; they are done at once *)
(* but counted with the others before any is sent.                         *)
teardown(r, bad) ==
    LET del == {s \in Subs : r.pdn[s] = "up"}
        out == [r EXCEPT !.pdn = [s \in Subs |-> IF s \notin del THEN r.pdn[s]
                                     ELSE IF s \in bad THEN "deleted" ELSE "deleting"],
                         !.dpending = Cardinality(del \ bad), !.tguard = "on"]
    IN  IF del \subseteq bad THEN [out EXCEPT !.tguard = "off", !.stopped = TRUE]
        ELSE out

(* The de-REGISTERs are given a moment to leave. *)
begin_deregister(r, bad) ==
    IF \E s \in Subs : r.ue[s] = "registered" THEN [r EXCEPT !.wait = TRUE]
    ELSE teardown(r, bad)

(* Mutant: the run ends whatever is under way. *)
next_phase_hasty(r, i, bad) ==
    LET on  == {p \in Phases : p >= i}
        end == [r EXCEPT !.phase = TEARDOWN]
    IN  IF on # {} THEN [r EXCEPT !.phase = CHOOSE p \in on : \A q \in on : p <= q]
        ELSE IF Dereg THEN begin_deregister(end, bad) ELSE teardown(end, bad)

(* after_restore is next_phase(i) with i past the last phase. *)
next_phase(r, i, bad) ==
    LET on  == {p \in Phases : p >= i}
        end == [r EXCEPT !.phase = TEARDOWN]
    IN  IF on # {} THEN [r EXCEPT !.phase = CHOOSE p \in on : \A q \in on : p <= q]
        ELSE IF r.restoring > 0 THEN [r EXCEPT !.after_restore = TRUE]
        ELSE IF Dereg THEN begin_deregister(end, bad) ELSE teardown(end, bad)

on_restored(r, bad) ==
    LET q == [r EXCEPT !.restoring = @ - 1, !.over = @ + 1]
    IN  IF q.restoring = 0 /\ q.after_restore
        THEN next_phase([q EXCEPT !.after_restore = FALSE], TEARDOWN, bad)
        ELSE q

Init ==
    run = next_phase([ue |-> [s \in Subs |-> "registered"],
                      pdn |-> [s \in Subs |-> "up"],
                      restoring |-> 0, after_restore |-> FALSE, phase |-> 0,
                      started |-> 0, over |-> 0, wait |-> FALSE,
                      dpending |-> 0, tguard |-> "off", stopped |-> FALSE], 1, {})

-------------------------------------------------------------------------------
(* The three tests a 504 must pass to be acted on. *)
Tests == {"own network", "content type", "initial registration"}

check(m) == Tests \subseteq m

(* Mutant: a 504 that passed the tests counts, started or not. *)
dispatch_504_counted(s, m, ok, bad) ==
    /\ run.started < MaxStarts
    /\ check(m)
    /\ LET starts == run.ue[s] = "registered"
           r == [run EXCEPT !.ue[s] = IF ~starts THEN @ ELSE IF ok THEN "restoring" ELSE "lost"]
           q == IF starts /\ ~ok THEN on_restored(r, bad) ELSE r
       IN  run' = [q EXCEPT !.started = @ + 1, !.restoring = @ + 1]

(* flow.restore sends the REGISTER; when it cannot, on_restored runs       *)
(* before the restoration is counted.                                      *)
dispatch_504(s, m, ok, bad) ==
    /\ run.started < MaxStarts
    /\ check(m)
    /\ run.ue[s] = "registered"
    /\ LET r == [run EXCEPT !.ue[s] = IF ok THEN "restoring" ELSE "lost"]
           q == IF ok THEN r ELSE on_restored(r, bad)
       IN  run' = [q EXCEPT !.started = @ + 1, !.restoring = @ + 1]

(* The end of a restoration, by a response or by its step deadline. *)
restored(s, ok, bad) ==
    /\ run.ue[s] = "restoring"
    /\ run' = on_restored([run EXCEPT !.ue[s] = IF ok THEN "registered" ELSE "lost"], bad)

(* A phase calls back when it is done, once. *)
phase_done(bad) ==
    /\ run.phase \in Phases /\ ~run.after_restore
    /\ run' = next_phase(run, run.phase + 1, bad)

(* A Delete Bearer Request with a linked EBI: the PDN connection is gone. *)
pdn_gone(s) ==
    /\ run.pdn[s] = "up"
    /\ run' = [run EXCEPT !.pdn[s] = "gone"]

deregistered(bad) ==
    /\ run.wait
    /\ run' = teardown([run EXCEPT !.wait = FALSE], bad)

(* A Delete Session is answered, or the session layer gives it up. *)
delete_settled(s) ==
    /\ s \in Deleting(run)
    /\ run' = del_done(run, s)

guard_expires ==
    /\ run.tguard = "on"
    /\ run' = [run EXCEPT !.tguard = "fired", !.stopped = TRUE]

Next ==
    /\ ~run.stopped
    /\ \/ \E s \in Subs, m \in SUBSET Tests, ok \in BOOLEAN, bad \in SUBSET Subs :
             dispatch_504(s, m, ok, bad)
       \/ \E s \in Subs, ok \in BOOLEAN, bad \in SUBSET Subs : restored(s, ok, bad)
       \/ \E bad \in SUBSET Subs : phase_done(bad)
       \/ \E bad \in SUBSET Subs : deregistered(bad)
       \/ \E s \in Subs : pdn_gone(s) \/ delete_settled(s)
       \/ guard_expires

(* Timers fire: SIP_T_MS bounds each step of a registration, and the end   *)
(* of the run has its two.                                                 *)
Fairness ==
    /\ \A s \in Subs :
          WF_run(~run.stopped /\ \E ok \in BOOLEAN, bad \in SUBSET Subs : restored(s, ok, bad))
    /\ WF_run(~run.stopped /\ \E bad \in SUBSET Subs : deregistered(bad))
    /\ WF_run(~run.stopped /\ guard_expires)

-------------------------------------------------------------------------------
(* The counts the run decides by are true after every message: that of the *)
(* restorations under way, one that failed inside flow.restore included,   *)
(* and that of the Delete Sessions outstanding.                            *)
RunCounts ==
    /\ run.restoring = Cardinality({s \in Subs : run.ue[s] = "restoring"})
    /\ run.started = run.over + run.restoring
    /\ run.dpending = Cardinality(Deleting(run))

(* The loop stops with every Delete Session settled, those that could not  *)
(* be sent included, unless the guard timer ran out.                       *)
StopsSettled == run.stopped => run.tguard = "fired" \/ Deleting(run) = {}

(* "The run does not de-register and tear the bearers down under a         *)
(* REGISTER exchange it started": teardown begins with no restoration      *)
(* under way.  The one exception the code makes is the 504 whose REGISTER  *)
(* cannot be sent: uncounted as yet, it takes the place of the last.       *)
TeardownWaits ==
    [][run'.phase = TEARDOWN /\ run.phase # TEARDOWN
        => \/ \A s \in Subs : run'.ue[s] # "restoring"
           \/ \E s \in Subs : run.ue[s] = "registered" /\ run'.ue[s] = "lost"]_run

(* A run that has done its phases stops: a teardown that waits for         *)
(* restorations is not forgotten, nor is the loop held by a lost answer.   *)
RunEnds == (run.after_restore \/ run.phase = TEARDOWN) ~> run.stopped
===============================================================================
