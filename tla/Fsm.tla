---------------------------------- MODULE Fsm ----------------------------------
(***************************************************************************)
(* The table-driven machine of task/src/fsm.c as an operator, for the      *)
(* protocol tables: their entries all carry fsm_cond_always and an exec    *)
(* hook that cannot fail.  FsmEngine models the engine with guards, hooks  *)
(* and the on-terminated callback.                                         *)
(*                                                                         *)
(* An entry is <<from, action, to>>; a machine is [table, start, term].    *)
(***************************************************************************)
EXTENDS Naturals, Sequences

Any == "any"            \* fsm_state_any and fsm_action_any
Current == "current"    \* fsm_state_current: do not move
NoEvent == "none"       \* a message that moves no machine

(* Does the entry match the state and the action? *)
Matches(e, st, ev) == e[1] \in {Any, Current, st} /\ e[2] \in {Any, ev}

(* Where the entry takes a machine that is in state st. *)
Target(e, st) == IF e[3] \in {Any, Current} THEN st ELSE e[3]

(* fsm_act: the first entry that matches fires; a terminated machine and   *)
(* an action without an entry are refused, and the state stays.            *)
fsm_act(m, st, ev) ==
    LET hits == {i \in DOMAIN m.table : Matches(m.table[i], st, ev)} IN
    IF st = m.term THEN [rc |-> "E_FINAL", to |-> st]
    ELSE IF hits = {} THEN [rc |-> "E_NOMATCH", to |-> st]
    ELSE [rc |-> "OK",
          to |-> Target(m.table[CHOOSE i \in hits : \A j \in hits : i <= j], st)]

(* An object of the bindings that maps a message to an event, or to none:  *)
(* with none it moves no machine, and a refused event is thrown away by    *)
(* the caller with the state as it was.                                    *)
Feed(m, st, ev) == IF ev = NoEvent THEN st ELSE fsm_act(m, st, ev).to
===============================================================================
