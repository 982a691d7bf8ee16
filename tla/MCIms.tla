--------------------------------- MODULE MCIms ---------------------------------
(***************************************************************************)
(* The phases of the IMS scripts, checked together: the call series of     *)
(* call_phase.lua, a registration of regflow.lua, the media filters of a   *)
(* subscriber (access.lua), the registration-event phase (reg_event.lua),  *)
(* and a whole run of the S5 script.  They share no state in the models,   *)
(* so a behaviour runs one, chosen at first.                               *)
(***************************************************************************)
EXTENDS CallPhase

CONSTANTS Finals, Provisional, AuthCap, Outcomes, MaxCSeq, Subs, Phases, Dereg, MaxStarts

VARIABLES turn, sub, answers, run

Reg == INSTANCE RegFlow
Run == INSTANCE ImsRun

regVars == <<sub, answers>>

(* What a component that is not run may choose at first is fixed; its      *)
(* phase is then over.                                                     *)
ImsInit ==
    /\ turn \in {"call", "reg", "run", "media", "event"}
    /\ Init /\ Reg!Init /\ Run!Init /\ MediaInit /\ EventInit
    /\ turn # "media" => conf.auto /\ conf.rtcp_on_media
    /\ turn # "event" => ev = begin(FALSE, Watchers)

CallStep ==
    turn = "call" /\ Next /\ UNCHANGED <<turn, regVars, run, mvars, evars>>
RegStep ==
    turn = "reg" /\ Reg!Next /\ UNCHANGED <<turn, vars, run, mvars, evars>>
RunStep ==
    turn = "run" /\ Run!Next /\ UNCHANGED <<turn, vars, regVars, mvars, evars>>
MediaStep ==
    turn = "media" /\ MediaNext /\ UNCHANGED <<turn, vars, regVars, run, evars>>
EventStep ==
    turn = "event" /\ EventNext /\ UNCHANGED <<turn, vars, regVars, run, mvars>>

ImsSpec ==
    /\ ImsInit
    /\ [][CallStep \/ RegStep \/ RunStep \/ MediaStep \/ EventStep]_<<
          turn, vars, regVars, run, mvars, evars>>
    /\ Fairness /\ Reg!Fairness /\ Run!Fairness /\ EventFairness

-------------------------------------------------------------------------------
(* A subscriber becomes terminal once, whatever races or repeats, and its  *)
(* registration, digest and transaction machines move in lock-step.        *)
RegInStep == Reg!TerminalOnce /\ Reg!LockStep

(* Nothing is left behind: the kernel holds no security associations the   *)
(* subscriber forgot, the run's counts of restorations and of Delete       *)
(* Sessions are true, and its loop stops with every one of them settled or *)
(* the guard timer gone.                                                   *)
NothingLeft == Reg!NoOrphanSAs /\ Run!RunCounts /\ Run!StopsSettled

(* Every call that was placed, and every step of a registration or         *)
(* restoration, ends by its own timer; the teardown of the run waits for   *)
(* the restorations it started and comes after the last of them, and the   *)
(* run's loop stops; so does the registration-event phase.                 *)
FlowsEnd ==
    /\ CallEnds /\ Reg!StepBounded /\ EventPhaseEnds
    /\ Run!TeardownWaits /\ Run!RunEnds
===============================================================================
