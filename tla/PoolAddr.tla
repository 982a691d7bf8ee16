-------------------------------- MODULE PoolAddr --------------------------------
(***************************************************************************)
(* Addresses of an IP pool (task/src/ippool.c, and IpPool of               *)
(* bindings/cxx/src/netxx.cpp): which addresses a CIDR scope or a range    *)
(* makes a pool of, and which slot an address is.  An address is its       *)
(* octets in network order; the octet's width, the two address sizes and   *)
(* the eight octets of a uint64_t are parameters, so that small ones can   *)
(* be enumerated.  A pool is [base, len, size]; a pool that cannot be made *)
(* is NoPool.                                                              *)
(***************************************************************************)
EXTENDS Integers, Sequences, SequencesExt

CONSTANTS
    Bits,               \* bits of an octet
    IPPOOL_V4,          \* octets of the shorter address
    IPPOOL_V6,          \* octets of the longer one
    Wide,               \* octets of the integer a difference must fit
    IPPOOL_MAX_SIZE     \* slots of the largest pool

Octet == 2 ^ Bits
NoPool == [base |-> <<>>, len |-> 0, size |-> 0]
Families == {IPPOOL_V4, IPPOOL_V6}

(* Mutant: the carry stops at the last octet. *)
addr_offset_nocarry(addr, index) ==
    [addr EXCEPT ![Len(addr)] = (@ + index) % Octet]

(* addr + index, from the last octet with carry. *)
addr_offset(addr, index) ==
    LET n == Len(addr)
        carry[i \in 1 .. n] == IF i = n THEN index ELSE (carry[i + 1] + addr[i + 1]) \div Octet
    IN  [i \in 1 .. n |-> (addr[i] + carry[i]) % Octet]

(* a - b with borrow: -1 when b is past a or the difference is wider than  *)
(* the integer.                                                            *)
addr_delta(a, b) ==
    LET n == Len(a)
        borrow[i \in 1 .. n + 1] ==
            IF i = n + 1 THEN 0 ELSE IF a[i] - b[i] - borrow[i + 1] < 0 THEN 1 ELSE 0
        diff == [i \in 1 .. n |-> (a[i] - b[i] - borrow[i + 1]) % Octet]
    IN  IF borrow[1] = 1 \/ \E i \in 1 .. n - Wide : diff[i] # 0 THEN -1
        ELSE FoldLeft(LAMBDA d, x : d * Octet + x, 0, diff)

pool_new(base, len, size) ==
    IF size = 0 THEN NoPool
    ELSE [base |-> base, len |-> len,
          size |-> IF size > IPPOOL_MAX_SIZE THEN IPPOOL_MAX_SIZE ELSE size]

(* The host part off, so that any address inside the prefix names it. *)
masked(addr, plen) ==
    [i \in DOMAIN addr |->
        LET keep == plen - (i - 1) * Bits IN
        IF keep >= Bits THEN addr[i]
        ELSE IF keep <= 0 THEN 0
        ELSE (addr[i] \div 2 ^ (Bits - keep)) * 2 ^ (Bits - keep)]

(* ippool_create: without its first and last address for an IPv4 scope     *)
(* shorter than all but one bit; a scope too wide to count is clamped.     *)
ippool_create(prefix, plen) ==
    LET len  == Len(prefix)
        net  == masked(prefix, plen)
        host == len * Bits - plen
    IN  IF len \notin Families \/ plen > len * Bits THEN NoPool
        ELSE IF host >= Wide * Bits THEN pool_new(net, len, IPPOOL_MAX_SIZE)
        ELSE IF len = IPPOOL_V4 /\ host >= 2 THEN pool_new(addr_offset(net, 1), len, 2 ^ host - 2)
        ELSE pool_new(net, len, 2 ^ host)

ippool_create_range(first, last) ==
    LET delta == addr_delta(last, first) IN
    IF Len(first) # Len(last) \/ Len(first) \notin Families THEN NoPool
    ELSE IF delta < 0 THEN NoPool
    ELSE IF delta = Octet ^ Wide - 1 THEN pool_new(first, Len(first), IPPOOL_MAX_SIZE)
    ELSE pool_new(first, Len(first), delta + 1)

ippool_addr_at(p, index) == IF index >= p.size THEN <<>> ELSE addr_offset(p.base, index)

ippool_index_of(p, addr) ==
    IF Len(addr) # p.len THEN -1
    ELSE LET delta == addr_delta(addr, p.base) IN
         IF delta < 0 \/ delta >= p.size THEN -1 ELSE delta

-------------------------------------------------------------------------------
(* The number an address is. *)
Number(a) == FoldLeft(LAMBDA v, x : v * Octet + x, 0, a)
Addresses(len) == [1 .. len -> 0 .. Octet - 1]

(* Slots and addresses are each other's inverse: ippool_addr_at gives the  *)
(* pool's addresses in order, ippool_index_of finds exactly those, and any *)
(* other address, of either family, is none of the pool's.                 *)
Bijective(p) ==
    /\ \A i \in 0 .. p.size - 1 :
        /\ Number(ippool_addr_at(p, i)) = Number(p.base) + i
        /\ ippool_index_of(p, ippool_addr_at(p, i)) = i
    /\ \A len \in Families : \A a \in Addresses(len) :
        LET i == ippool_index_of(p, a) IN
        i # -1 => i < p.size /\ ippool_addr_at(p, i) = a

(* ippool.h's geometry: the addresses of the scope that share its prefix,  *)
(* less the network and the broadcast address of an IPv4 scope shorter     *)
(* than /31, and of a scope larger than a pool the head.                   *)
ScopeExact(prefix, plen) ==
    LET p     == ippool_create(prefix, plen)
        len   == Len(prefix)
        host  == len * Bits - plen
        block == 2 ^ host
        low   == (Number(prefix) \div block) * block
        skip  == IF len = IPPOOL_V4 /\ host >= 2 THEN 1 ELSE 0
        want  == block - 2 * skip
    IN  /\ p # NoPool
        /\ Number(p.base) = low + skip
        /\ p.size = IF want > IPPOOL_MAX_SIZE THEN IPPOOL_MAX_SIZE ELSE want
        /\ Bijective(p)

(* The addresses from first to last, or no pool when last precedes first   *)
(* or lies further off than a difference can say.                          *)
RangeExact(first, last) ==
    LET p == ippool_create_range(first, last)
        n == Number(last) - Number(first) + 1
    IN  IF n < 1 \/ n > Octet ^ Wide THEN p = NoPool
        ELSE /\ p.size = IF n > IPPOOL_MAX_SIZE THEN IPPOOL_MAX_SIZE ELSE n
             /\ Number(p.base) = Number(first) /\ Bijective(p)
===============================================================================
