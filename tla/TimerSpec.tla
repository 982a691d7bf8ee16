------------------------------- MODULE TimerSpec -------------------------------
(***************************************************************************)
(* What the loop promises about one-shot timers (net/inc/net_loop.h): a    *)
(* set of armed timers, each known by a handle that is never given out     *)
(* again.  Cancelling succeeds exactly for an armed timer, and a timer     *)
(* fires at or after its time, the earliest first.                         *)
(***************************************************************************)
EXTENDS Naturals

CONSTANTS
    Ids,        \* handles
    Delays      \* delays the callers ask for

VARIABLES
    armed,      \* [id, due] of each armed timer
    issued,     \* handles given out so far
    now,        \* the monotonic clock
    last        \* what the last call did: [op, id, ok]

vars == <<armed, issued, now, last>>

(* Some timers may be armed already. *)
Init ==
    /\ {t.id : t \in armed} \subseteq issued
    /\ now = 0 /\ last = [op |-> "none", id |-> <<0, 0>>, ok |-> TRUE]

After ==
    \/ \E id \in Ids \ (issued \cup {<<0, 0>>}), ms \in Delays :
          /\ armed' = armed \cup {[id |-> id, due |-> now + ms]}
          /\ issued' = issued \cup {id}
          /\ last' = [op |-> "after", id |-> id, ok |-> TRUE]
          /\ UNCHANGED now
    \/ /\ last' = [op |-> "after", id |-> <<0, 0>>, ok |-> FALSE]
       /\ UNCHANGED <<armed, issued, now>>

Cancel(id) ==
    /\ armed' = {t \in armed : t.id # id}
    /\ last' = [op |-> "cancel", id |-> id, ok |-> \E t \in armed : t.id = id]
    /\ UNCHANGED <<issued, now>>

Fire ==
    \E t \in armed :
        /\ t.due <= now
        /\ \A u \in armed : t.due <= u.due
        /\ armed' = armed \ {t}
        /\ last' = [op |-> "fire", id |-> t.id, ok |-> TRUE]
        /\ UNCHANGED <<issued, now>>

Tick == now' = now + 1 /\ UNCHANGED <<armed, issued, last>>

Next == After \/ (\E id \in Ids : Cancel(id)) \/ Fire \/ Tick

Spec == Init /\ [][Next]_vars
===============================================================================
