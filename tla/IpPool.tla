-------------------------------- MODULE IpPool --------------------------------
(***************************************************************************)
(* The address pool of task/src/ippool.c: an occupancy bitmap read a word  *)
(* at a time, a count of the slots in use and a rotating cursor.  A slot   *)
(* stands for the address ippool_addr_at gives it; the byte arithmetic     *)
(* between the two is left out.                                            *)
(***************************************************************************)
EXTENDS Integers, FiniteSets

CONSTANTS
    Size,       \* slots of the pool
    WordBits    \* bits of one bitmap word: 64 in the code

ASSUME PoolAssumption == Size \in Nat \ {0} /\ WordBits \in Nat \ {0}

VARIABLES
    bits,       \* the set bits of the bitmap, numbered across its words
    used,       \* slots in use, counted
    cursor,     \* slot the next search starts at
    ret,        \* what the last call returned
    out         \* the slot ippool_alloc handed out, or NoSlot

vars == <<bits, used, cursor, ret, out>>

Slots == 0 .. (Size - 1)
NoSlot == -1

WordOf(b) == b \div WordBits
Words == WordOf(Size + WordBits - 1)

(* Padding bits of the last word. *)
Padding == {b \in Size .. (Size + WordBits) : WordOf(b) < Words}
Bits == Slots \cup Padding

(* mark_tail: the padding is set for good, so no scan can pick it. *)
mark_tail == Padding

Least(S) == CHOOSE x \in S : \A y \in S : x <= y

-------------------------------------------------------------------------------
Init ==
    /\ bits = mark_tail
    /\ used = 0
    /\ cursor = 0
    /\ ret = "OK"
    /\ out = NoSlot

(* The n-th word of the sweep, wrapping after the last one. *)
SweepWord(n) ==
    LET w == WordOf(cursor) + n IN IF w < Words THEN w ELSE w - Words

(* Mutant: every probe reads its word whole. *)
FreeBits_unmasked(n) == {b \in Bits \ bits : WordOf(b) = SweepWord(n)}

(* free_bits of the n-th probe.  Only the first probe is masked to the bits *)
(* at or after the cursor; the last one visits that word again, whole.      *)
FreeBits(n) ==
    {b \in Bits \ bits : WordOf(b) = SweepWord(n) /\ (n = 0 => b >= cursor)}

(* Mutant: the sweep stops before it comes back to the cursor's word. *)
Probes_short == 0 .. (Words - 1)

Probes == 0 .. Words

Hits == {n \in Probes : FreeBits(n) # {}}

(* The lowest free bit of the first probe that has one. *)
SweepSlot == Least(FreeBits(Least(Hits)))

ippool_alloc ==
    IF used = Size \/ Hits = {}
    THEN /\ ret' = "E_FULL" /\ out' = NoSlot
         /\ UNCHANGED <<bits, used, cursor>>
    ELSE /\ bits' = bits \cup {SweepSlot}
         /\ used' = used + 1
         /\ cursor' = IF SweepSlot + 1 < Size THEN SweepSlot + 1 ELSE 0
         /\ ret' = "OK" /\ out' = SweepSlot

(* i is what ippool_index_of made of the caller's address: a slot, or -1    *)
(* for an address that is not one of the pool's.                            *)
ippool_reserve(i) ==
    /\ out' = NoSlot
    /\ UNCHANGED cursor
    /\ IF i < 0 THEN ret' = "E_RANGE" /\ UNCHANGED <<bits, used>>
       ELSE IF i \in bits THEN ret' = "E_INUSE" /\ UNCHANGED <<bits, used>>
       ELSE ret' = "OK" /\ bits' = bits \cup {i} /\ used' = used + 1

(* Mutant: releasing an address twice is not noticed. *)
ippool_free_unchecked(i) ==
    /\ out' = NoSlot
    /\ UNCHANGED cursor
    /\ IF i < 0 THEN ret' = "E_RANGE" /\ UNCHANGED <<bits, used>>
       ELSE ret' = "OK" /\ bits' = bits \ {i} /\ used' = used - 1

ippool_free(i) ==
    /\ out' = NoSlot
    /\ UNCHANGED cursor
    /\ IF i < 0 THEN ret' = "E_RANGE" /\ UNCHANGED <<bits, used>>
       ELSE IF i \notin bits THEN ret' = "E_FREE" /\ UNCHANGED <<bits, used>>
       ELSE ret' = "OK" /\ bits' = bits \ {i} /\ used' = used - 1

ippool_reset ==
    /\ bits' = mark_tail
    /\ used' = 0
    /\ cursor' = 0
    /\ ret' = "OK" /\ out' = NoSlot

Next ==
    \/ ippool_alloc
    \/ \E i \in Slots \cup {-1} : ippool_reserve(i) \/ ippool_free(i)
    \/ ippool_reset

Spec == Init /\ [][Next]_vars

-------------------------------------------------------------------------------
TypeOK ==
    /\ bits \in SUBSET Bits
    /\ used \in 0 .. Size
    /\ cursor \in Slots
    /\ ret \in {"OK", "E_FULL", "E_RANGE", "E_INUSE", "E_FREE"}
    /\ out \in Slots \cup {NoSlot}

(* The counter that answers exhaustion without a scan agrees with the      *)
(* bitmap after every mix of alloc, reserve, free and reset, and the       *)
(* padding of the last word stays set (mark_tail, ippool_free).            *)
CountExact ==
    /\ used = Cardinality(bits \cap Slots)
    /\ Padding \subseteq bits

(* ippool_alloc reports E_FULL only when every address is out: the return  *)
(* after its sweep is "unreachable while used < size".                     *)
FullOnlyWhenFull == ret = "E_FULL" => Slots \subseteq bits

(* The word-at-a-time sweep is next-fit over a circle of slots: with the   *)
(* padding left out of the bitmap the pool implements IpPoolSpec.          *)
Abstract == INSTANCE IpPoolSpec
    WITH taken <- bits \cap Slots, next <- cursor
ImplementsNextFit == Abstract!Spec
===============================================================================
