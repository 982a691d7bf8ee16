------------------------------- MODULE FsmEngine -------------------------------
(***************************************************************************)
(* The engine of task/src/fsm.c with everything an entry may carry: a      *)
(* condition, an exec hook that may fail and may itself call back into the *)
(* machine, the on-terminated callback, and fsm_set_current_state, which   *)
(* sip::Transaction::restart uses to re-arm a machine.                     *)
(***************************************************************************)
EXTENDS Fsm

CONSTANTS
    Table,      \* sequence of <<from, action, to, condition>>
    States,
    Actions,
    Conds,      \* conditions that depend on the caller's data
    Start,
    Term,
    Depth       \* bound: fsm_act calls open at once (1: hooks call nothing)

(* The tables name states of the machine. *)
ASSUME EngineAssumption ==
    /\ Start \in States /\ Term \in States
    /\ {Any, Current} \cap States = {}
    /\ \A i \in DOMAIN Table : Table[i][3] \in States \cup {Any, Current}
    /\ Depth \in Nat \ {0}

Always == "always"      \* fsm_cond_always

VARIABLES
    current,    \* the machine's state
    open,       \* fsm_act calls whose exec hook is running
    told,       \* callbacks since the state was last set from outside
    forced,     \* the state was last set to Term from outside
    rc          \* what the last call returned

EngineVars == <<current, open, told, forced, rc>>

EngineInit ==
    /\ current = Start
    /\ open = 0
    /\ told = 0
    /\ forced = (Start = Term)
    /\ rc = "OK"

(* The entries that match, given the conditions that hold. *)
Matching(ev, ok) ==
    {i \in DOMAIN Table : /\ Matches(Table[i], current, ev)
                          /\ Table[i][4] \in ok \cup {Always}}

(* Mutant: a terminated machine is not refused. *)
fsm_act_begin_unchecked(ev, ok) ==
    /\ open < Depth
    /\ UNCHANGED <<told, forced>>
    /\ IF Matching(ev, ok) = {}
       THEN rc' = "E_NOMATCH" /\ UNCHANGED <<current, open>>
       ELSE \E i \in Matching(ev, ok) :
               /\ \A j \in Matching(ev, ok) : i <= j
               /\ current' = Target(Table[i], current)
               /\ open' = open + 1
               /\ rc' = "RUNNING"

(* fsm_act up to the call of the exec hook: the move comes first. *)
fsm_act_begin(ev, ok) ==
    /\ open < Depth
    /\ UNCHANGED <<told, forced>>
    /\ IF current = Term THEN rc' = "E_FINAL" /\ UNCHANGED <<current, open>>
       ELSE IF Matching(ev, ok) = {}
       THEN rc' = "E_NOMATCH" /\ UNCHANGED <<current, open>>
       ELSE \E i \in Matching(ev, ok) :
               /\ \A j \in Matching(ev, ok) : i <= j
               /\ current' = Target(Table[i], current)
               /\ open' = open + 1
               /\ rc' = "RUNNING"

(* Mutant: only a failing hook fires the callback. *)
fsm_act_end_silent(ret) ==
    /\ open > 0
    /\ open' = open - 1
    /\ rc' = ret
    /\ UNCHANGED forced
    /\ IF ret # "OK" THEN current' = Term /\ told' = told + 1
       ELSE UNCHANGED <<current, told>>

(* fsm_act from the hook's return: a non-zero return, or a machine that is *)
(* now in its terminal state, terminates it and fires the callback.        *)
fsm_act_end(ret) ==
    /\ open > 0
    /\ open' = open - 1
    /\ rc' = ret
    /\ UNCHANGED forced
    /\ IF ret # "OK" \/ current = Term
       THEN current' = Term /\ told' = told + 1
       ELSE UNCHANGED <<current, told>>

fsm_set_current_state(st) ==
    /\ current' = st
    /\ told' = 0
    /\ forced' = (st = Term)
    /\ rc' = "OK"
    /\ UNCHANGED open

EngineNext ==
    \/ \E ev \in Actions, ok \in SUBSET Conds : fsm_act_begin(ev, ok)
    \/ \E ret \in {"OK", "FAIL"} : fsm_act_end(ret)
    \/ \E st \in States : fsm_set_current_state(st)

EngineSpec == EngineInit /\ [][EngineNext]_EngineVars

-------------------------------------------------------------------------------
EngineTypeOK ==
    /\ current \in States
    /\ open \in 0 .. Depth
    /\ told \in Nat
    /\ forced \in BOOLEAN
    /\ rc \in {"OK", "FAIL", "E_FINAL", "E_NOMATCH", "RUNNING"}

(* A termination is announced at most once per fsm_act call that was under *)
(* way: once when hooks leave the machine alone (Depth = 1), and never     *)
(* again by a later fsm_act, whatever the table.                           *)
AnnouncedOncePerCall == told <= Depth

(* Once the callback has fired the machine is in its terminal state, until *)
(* fsm_set_current_state takes it out.                                     *)
AnnouncedIsFinal == told > 0 => current = Term

(* A machine that came to its terminal state through fsm_act, by an entry  *)
(* or by a failing hook, has fired its callback once no call is under way. *)
FinalIsAnnounced == current = Term /\ open = 0 => forced \/ told > 0

(* The two together: the callback tells of every termination and of        *)
(* nothing else.                                                           *)
AnnouncedExactly == AnnouncedIsFinal /\ FinalIsAnnounced
===============================================================================
