------------------------------ MODULE IpPoolSpec ------------------------------
(***************************************************************************)
(* What an address pool (task/inc/ippool.h) promises, without its bitmap:  *)
(* a circle of Size slots, the set of slots that are out, and the slot at  *)
(* which the next search starts.  An allocation hands out the first free   *)
(* slot met going round the circle from there, and fails only when there   *)
(* is none.                                                                *)
(***************************************************************************)
EXTENDS Integers

CONSTANT Size

VARIABLES taken, next, ret, out

vars == <<taken, next, ret, out>>

Slots == 0 .. (Size - 1)
NoSlot == -1

(* How far a slot is ahead of slot c, going round the circle. *)
Ahead(c, s) == IF s >= c THEN s - c ELSE s + Size - c

Init == taken = {} /\ next = 0 /\ ret = "OK" /\ out = NoSlot

Alloc(s) ==
    /\ s \notin taken
    /\ \A t \in Slots \ taken : Ahead(next, s) <= Ahead(next, t)
    /\ taken' = taken \cup {s}
    /\ next' = IF s + 1 < Size THEN s + 1 ELSE 0
    /\ ret' = "OK" /\ out' = s

AllocFull ==
    /\ Slots \subseteq taken
    /\ ret' = "E_FULL" /\ out' = NoSlot
    /\ UNCHANGED <<taken, next>>

Reserve(s) ==
    /\ taken' = taken \cup {s}
    /\ ret' = IF s \in taken THEN "E_INUSE" ELSE "OK"
    /\ out' = NoSlot
    /\ UNCHANGED next

Free(s) ==
    /\ taken' = taken \ {s}
    /\ ret' = IF s \in taken THEN "OK" ELSE "E_FREE"
    /\ out' = NoSlot
    /\ UNCHANGED next

Foreign == ret' = "E_RANGE" /\ out' = NoSlot /\ UNCHANGED <<taken, next>>

Reset == taken' = {} /\ next' = 0 /\ ret' = "OK" /\ out' = NoSlot

Next ==
    \/ \E s \in Slots : Alloc(s) \/ Reserve(s) \/ Free(s)
    \/ AllocFull
    \/ Foreign
    \/ Reset

Spec == Init /\ [][Next]_vars
===============================================================================
