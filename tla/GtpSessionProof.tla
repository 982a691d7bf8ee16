--------------------------- MODULE GtpSessionProof ---------------------------
(***************************************************************************)
(* Proofs about the GTPv2-C endpoint (GtpSession): its index and its       *)
(* sessions, the one outcome of a request, and whose answer a session is   *)
(* given.                                                                  *)
(***************************************************************************)
EXTENDS GtpSession, Integers, TLAPS

-------------------------------------------------------------------------------
(* Remainders, for the sequence numbers that wrap. *)

(* Quotient and remainder are unique. *)
LEMMA DivUnique ==
    ASSUME NEW c \in Nat, c > 0, NEW m \in Int, NEW n \in Int,
           NEW r \in 0 .. c - 1, NEW s \in 0 .. c - 1, c * m + r = c * n + s
    PROVE  m = n /\ r = s
<1>1. c * (m - n) = s - r
  OBVIOUS
<1>2. CASE m - n >= 1
  <2>1. c * (m - n) >= c
    BY <1>2
  <2> QED BY <1>1, <2>1
<1>3. CASE m - n <= -1
  <2>1. c * (m - n) <= -c
    BY <1>3
  <2> QED BY <1>1, <2>1
<1>4. CASE m = n
  BY <1>1, <1>4
<1> QED BY <1>2, <1>3, <1>4

(* A number is its quotient times the divisor and a remainder in one way   *)
(* only.                                                                   *)
LEMMA ModUnique ==
    ASSUME NEW c \in Nat, c > 0, NEW m \in Int, NEW r \in 0 .. c - 1, NEW b \in Int, b = c * m + r
    PROVE  b % c = r
<1>1. b = c * (b \div c) + (b % c) /\ b \div c \in Int /\ b % c \in 0 .. c - 1
  OBVIOUS
<1> QED BY <1>1, DivUnique

(* Adding less than the modulus wraps at most once. *)
LEMMA ModShift ==
    ASSUME NEW c \in Nat, c > 0, NEW b \in Int, NEW d \in 0 .. c - 1
    PROVE  /\ b % c \in 0 .. c - 1
           /\ (b + d) % c = IF (b % c) + d < c THEN (b % c) + d ELSE ((b % c) + d) - c
<1>1. b = c * (b \div c) + (b % c) /\ b \div c \in Int /\ b % c \in 0 .. c - 1
  OBVIOUS
<1> DEFINE m == b \div c
           r == b % c
<1> HIDE DEF m, r
<1>2. m \in Int /\ r \in 0 .. c - 1 /\ b = c * m + r
  BY <1>1 DEF m, r
<1>3. CASE r + d < c
  <2>1. r + d \in 0 .. c - 1 /\ b + d = c * m + (r + d) /\ b + d \in Int
    BY <1>2, <1>3
  <2>2. (b + d) % c = r + d
    BY <1>2, <2>1, ModUnique
  <2> QED BY <1>1, <1>3, <2>2 DEF r
<1>4. CASE ~(r + d < c)
  <2> DEFINE n == m + 1
             s == (r + d) - c
             e == b + d
  <2>1. s \in 0 .. c - 1 /\ e = c * n + s /\ e \in Int /\ n \in Int
    BY <1>2, <1>4
  <2>2. e % c = s
    <3> HIDE DEF n, s, e
    <3> QED BY <2>1, ModUnique
  <2> QED BY <1>1, <1>4, <2>2 DEF r
<1> QED BY <1>3, <1>4

(* Numbers less than the modulus apart have different remainders. *)
LEMMA ModApart ==
    ASSUME NEW c \in Nat, c > 0, NEW b \in Int, NEW d \in 1 .. c - 1
    PROVE  (b + d) % c # b % c
<1>1. d \in 0 .. c - 1
  OBVIOUS
<1> DEFINE r == b % c
<1>2. r \in 0 .. c - 1 /\ (b + d) % c = IF r + d < c THEN r + d ELSE (r + d) - c
  BY <1>1, ModShift, Zenon
<1> HIDE DEF r
<1>3. (b + d) % c # r
  BY <1>2
<1> QED BY <1>3 DEF r

-------------------------------------------------------------------------------

States == {"CREATING", "ACTIVE", "DELETING", "DELETED", "FAILED"}
Ended == {"DELETED", "FAILED"}
Teids == Nat \cup CallerTeids
Types == {"create", "modify", "delete"}

SessRec ==
    [state : States, teid : Teids, req : Nat, remote : Nat, mod : Nat, tun : Nat \X Nat]

TxnRec == [mt : Types, teid : Teids, sends : Nat, timer : BOOLEAN, own : Nat, threw : BOOLEAN]

(* The k-th sequence number of an endpoint, and the first n of them. *)
Nth(k) == 1 + ((FirstSeq + (SeqMod - 2) + k) % (SeqMod - 1))
Spent(n) == {Nth(k) : k \in 1 .. n}

(* What the endpoint knows in its sessions.  A number it keeps was spent,  *)
(* and what was asked under it was asked by the session itself.            *)
SessOk(s, x) ==
    /\ x \in SessRec /\ x.teid = teids[s]
    /\ {x.req, x.mod, x.tun[1], x.tun[2]} \subseteq Spent(used) \cup {0}
    /\ \A r \in asked : r.mt = "create" /\ r.own = s => r.seq = x.req
    /\ \A r \in asked : r.seq = x.mod => r.own = s /\ r.mt = "modify"
    /\ ~Shared(s) =>
          /\ x.remote \in {0, s}
          /\ \A r \in asked : r.seq = x.tun[2] =>
                /\ r.own = s
                /\ r.mt = "create" => x.tun[1] = r.seq
                /\ \A o \in asked : o.seq = x.tun[1] => o.own = s /\ o.mt = r.mt

CountInv ==
    /\ used \in 0 .. MaxSeqs
    /\ seq = IF used = 0 THEN FirstSeq ELSE Nth(used)
    /\ teids \in Seq(Teids) /\ ctrl_teid \in Nat

SessInv ==
    /\ DOMAIN sessions \subseteq 1 .. Len(teids)
    /\ \A s \in DOMAIN sessions : SessOk(s, sessions[s])

IndexInv ==
    /\ \A t \in DOMAIN by_teid : by_teid[t] \in DOMAIN sessions /\ sessions[by_teid[t]].teid = t
    /\ \A s \in DOMAIN sessions : sessions[s].state \in Ended =>
          sessions[s].teid \in DOMAIN by_teid /\ by_teid[sessions[s].teid] = s
    /\ cb # <<>> /\ cb[2] \notin Ended =>
          cb[1] \in DOMAIN sessions /\ sessions[cb[1]].state \notin Ended

AskedInv ==
    /\ asked \subseteq [seq : Spent(used), mt : Types, own : 1 .. Len(teids)]
    /\ \A r, o \in asked : r.seq = o.seq => r = o

TxnInv ==
    /\ calls \in [1 .. SeqMod - 1 -> {0, 1}]
    /\ \A q \in 1 .. SeqMod - 1 : calls[q] = 1 => q \in Spent(used)
    /\ \A q \in DOMAIN txns :
          /\ q \in Spent(used) /\ calls[q] = 0 /\ txns[q] \in TxnRec
          /\ txns[q].own \in 1 .. Len(teids) /\ txns[q].teid = teids[txns[q].own]
          /\ [seq |-> q, mt |-> txns[q].mt, own |-> txns[q].own] \in asked

GInv == CountInv /\ SessInv /\ IndexInv /\ AskedInv /\ TxnInv

-------------------------------------------------------------------------------
(* Functions with an entry more or some less. *)
LEMMA Adds ==
    ASSUME NEW f, NEW x, NEW v
    PROVE  /\ DOMAIN Put(f, x, v) = DOMAIN f \cup {x} /\ Put(f, x, v)[x] = v
           /\ \A y \in DOMAIN f : y # x => Put(f, x, v)[y] = f[y]
BY DEF Put

(* emplace adds an entry and keeps the ones there are. *)
LEMMA Emplaces ==
    ASSUME NEW f, NEW x, NEW v
    PROVE  /\ DOMAIN Emplace(f, x, v) = DOMAIN f \cup {x}
           /\ \A y \in DOMAIN f : Emplace(f, x, v)[y] = f[y]
           /\ x \notin DOMAIN f => Emplace(f, x, v)[x] = v
BY DEF Emplace, Put

(* Erasing entries keeps the others. *)
LEMMA Drops ==
    ASSUME NEW f, NEW S
    PROVE  DOMAIN Drop(f, S) = DOMAIN f \ S /\ \A y \in DOMAIN f \ S : Drop(f, S)[y] = f[y]
BY DEF Drop

(* The next sequence number is none of those used before: fewer are drawn  *)
(* than there are.                                                         *)
LEMMA NextSeq ==
    ASSUME CountInv, used < MaxSeqs
    PROVE  /\ next_seq = Nth(used + 1) /\ next_seq \in 1 .. SeqMod - 1
           /\ next_seq \notin Spent(used) \cup {0}
           /\ Spent(used + 1) = Spent(used) \cup {next_seq}
<1> DEFINE M == SeqMod - 1
           a == FirstSeq + (SeqMod - 2)
<1>1. /\ M \in Nat /\ M > 0 /\ a \in Int /\ SeqMod = M + 1 /\ used \in Nat /\ used + 1 <= M - 0
      /\ a + used \in Int /\ used + 1 < M + 1 /\ FirstSeq \in 0 .. M /\ a = FirstSeq + (M - 1)
  BY SeqsDiffer DEF CountInv
<1>2. \A k \in Nat : Nth(k) = 1 + ((a + k) % M)
  BY DEF Nth
<1> HIDE DEF M, a
<1>3. next_seq = Nth(used + 1) /\ next_seq \in 1 .. M
  <2>1. CASE used # 0
    <3> DEFINE r == (a + used) % M
    <3>1. seq = 1 + r
      BY <1>1, <1>2, <2>1 DEF CountInv
    <3>2. CASE M = 1
      <4>1. seq = 1 /\ (a + (used + 1)) % M = 0
        BY <1>1, <3>1, <3>2
      <4> QED BY <1>1, <1>2, <3>2, <4>1 DEF next_seq
    <3>3. CASE M # 1
      <4>1. 1 \in 0 .. M - 1
        BY <1>1, <3>3
      <4>2. r \in 0 .. M - 1 /\ ((a + used) + 1) % M = IF r + 1 < M THEN r + 1 ELSE (r + 1) - M
        BY <1>1, <4>1, ModShift, Zenon
      <4>3. (a + used) + 1 = a + (used + 1)
        BY <1>1
      <4> HIDE DEF r
      <4>4. (1 + r) + 1 = M + 1 <=> ~(r + 1 < M)
        BY <1>1, <4>2
      <4>5. ((1 + r) + 1) % (M + 1) = IF r + 1 < M THEN (1 + r) + 1 ELSE 0
        BY <1>1, <4>2
      <4>6. Nth(used + 1) = 1 + (IF r + 1 < M THEN r + 1 ELSE (r + 1) - M)
        BY <1>1, <1>2, <4>2, <4>3
      <4> QED BY <1>1, <3>1, <4>2, <4>5, <4>6 DEF next_seq
    <3> QED BY <3>2, <3>3
  <2>2. CASE used = 0
    <3>1. seq = FirstSeq
      BY <2>2 DEF CountInv
    <3>2. (FirstSeq + 1) % (M + 1) = IF FirstSeq = M THEN 0 ELSE FirstSeq + 1
      BY <1>1
    <3>3. (FirstSeq + M) % M = IF FirstSeq = M THEN 0 ELSE FirstSeq
      <4>1. CASE FirstSeq = M
        <5>1. FirstSeq + M = M * 2 + 0 /\ 0 \in 0 .. M - 1 /\ FirstSeq + M \in Int
          BY <1>1, <4>1
        <5>2. (FirstSeq + M) % M = 0
          BY <1>1, <5>1, ModUnique
        <5> QED BY <4>1, <5>2
      <4>2. CASE FirstSeq # M
        <5>1. FirstSeq + M = M * 1 + FirstSeq /\ FirstSeq \in 0 .. M - 1 /\ FirstSeq + M \in Int
          BY <1>1, <4>2
        <5>2. (FirstSeq + M) % M = FirstSeq
          BY <1>1, <5>1, ModUnique
        <5> QED BY <4>2, <5>2
      <4> QED BY <4>1, <4>2
    <3>4. a + (used + 1) = FirstSeq + M
      BY <1>1, <2>2
    <3>5. Nth(used + 1) = 1 + ((FirstSeq + M) % M)
      BY <1>1, <1>2, <3>4
    <3> QED BY <1>1, <3>1, <3>2, <3>3, <3>5 DEF next_seq
  <2> QED BY <2>1, <2>2
<1>4. ASSUME NEW k \in 1 .. used PROVE Nth(k) # Nth(used + 1)
  <2>1. (used + 1) - k \in 1 .. M - 1 /\ a + k \in Int /\ (a + k) + ((used + 1) - k) = a + (used + 1)
    BY <1>1
  <2>2. ((a + k) + ((used + 1) - k)) % M # (a + k) % M
    BY <1>1, <2>1, ModApart, Zenon
  <2>3. (a + (used + 1)) % M \in Int /\ (a + k) % M \in Int
    BY <1>1
  <2>4. Nth(k) = 1 + ((a + k) % M) /\ Nth(used + 1) = 1 + ((a + (used + 1)) % M)
    BY <1>1, <1>2
  <2> QED BY <2>1, <2>2, <2>3, <2>4
<1>5. next_seq \notin Spent(used) \cup {0}
  BY <1>3, <1>4 DEF Spent
<1>6. Spent(used + 1) = Spent(used) \cup {next_seq}
  <2>1. 1 .. used + 1 = (1 .. used) \cup {used + 1}
    BY <1>1
  <2> QED BY <1>3, <2>1 DEF Spent
<1> QED BY <1>3, <1>5, <1>6 DEF M

(* 0 is never a sequence number. *)
LEMMA SpentPositive ==
    ASSUME NEW n \in Nat
    PROVE  Spent(n) \subseteq 1 .. SeqMod - 1 /\ 0 \notin Spent(n)
<1>1. ASSUME NEW k \in 1 .. n PROVE Nth(k) \in 1 .. SeqMod - 1
  <2> DEFINE M == SeqMod - 1
             a == FirstSeq + (SeqMod - 2) + k
  <2>1. M \in Nat /\ M > 0 /\ a \in Int
    BY SeqsDiffer
  <2> HIDE DEF M, a
  <2>2. 1 + (a % M) \in 1 .. M
    BY <2>1
  <2> QED BY <2>2 DEF Nth, M, a
<1>2. Spent(n) \subseteq 1 .. SeqMod - 1
  BY <1>1 DEF Spent
<1>3. 0 \notin 1 .. SeqMod - 1
  BY SeqsDiffer
<1> QED BY <1>2, <1>3

(* The sessions there were keep their TEIDs. *)
Extends == /\ teids' \in Seq(Teids) /\ Len(teids) <= Len(teids')
           /\ \A k \in 1 .. Len(teids) : teids'[k] = teids[k]

(* A request is started by session s: its number is new, and it is the     *)
(* only one that was asked under it.                                       *)
AskedBy(s, mt) ==
    /\ asked \subseteq asked'
    /\ \A r \in asked' : r \in asked \/ (r.seq = next_seq /\ r.mt = mt /\ r.own = s)

(* start_txn asks under a number never used before. *)
LEMMA Starts ==
    ASSUME CountInv, AskedInv, TxnInv, NEW s, NEW mt \in Types, NEW fault,
           Extends, s \in 1 .. Len(teids'), ctrl_teid' \in Nat, calls' = calls,
           start_txn(s, mt, teids'[s], fault)
    PROVE  /\ used < MaxSeqs /\ used' = used + 1
           /\ CountInv' /\ AskedInv' /\ TxnInv' /\ AskedBy(s, mt)
<1> DEFINE n == next_seq
           new == [seq |-> n, mt |-> mt, own |-> s]
<1>1. used < MaxSeqs /\ used' = used + 1 /\ seq' = n /\ used \in Nat
  BY DEF start_txn, UseSeq, CountInv
<1>2. /\ n = Nth(used + 1) /\ n \in 1 .. SeqMod - 1 /\ n \notin Spent(used)
      /\ Spent(used + 1) = Spent(used) \cup {n}
  BY <1>1, NextSeq
<1>3. asked' = asked \/ (fault # "send" /\ asked' = asked \cup {new})
  BY DEF start_txn
<1>4. \/ txns' = txns
      \/ /\ txns' = Put(txns, n, [mt |-> mt, teid |-> teids'[s], sends |-> 1,
                                  timer |-> TRUE, own |-> s, threw |-> FALSE])
         /\ asked' = asked \cup {new}
  BY DEF start_txn
<1> HIDE DEF n
<1>5. CountInv'
  <2>1. used' \in 0 .. MaxSeqs /\ used' # 0
    BY <1>1, SeqsDiffer
  <2> QED BY <1>1, <1>2, <2>1 DEF CountInv, Extends
<1>6. 1 .. Len(teids) \subseteq 1 .. Len(teids') /\ Len(teids) \in Nat /\ Len(teids') \in Nat
  BY DEF Extends, CountInv
<1>7. new \in [seq : Spent(used'), mt : Types, own : 1 .. Len(teids')]
  BY <1>1, <1>2
<1>8. new.seq = n /\ new.mt = mt /\ new.own = s
  OBVIOUS
<1> HIDE DEF new
<1>9. \A r \in asked : r.seq # n /\ r \in [seq : Spent(used'), mt : Types, own : 1 .. Len(teids')]
  <2> TAKE r \in asked
  <2>1. r \in [seq : Spent(used), mt : Types, own : 1 .. Len(teids)]
    BY DEF AskedInv
  <2> QED BY <1>1, <1>2, <1>6, <2>1
<1>10. AskedInv'
  <2>1. asked' \subseteq [seq : Spent(used'), mt : Types, own : 1 .. Len(teids')]
    BY <1>3, <1>7, <1>9
  <2>2. \A r, o \in asked' : r.seq = o.seq => r = o
    BY <1>3, <1>8, <1>9 DEF AskedInv
  <2> QED BY <2>1, <2>2 DEF AskedInv
<1>11. AskedBy(s, mt)
  BY <1>3, <1>8 DEF AskedBy, n
<1>12. calls[n] = 0
  BY <1>2 DEF TxnInv
<1>13. ASSUME NEW q \in DOMAIN txns'
       PROVE  /\ q \in Spent(used') /\ calls'[q] = 0 /\ txns'[q] \in TxnRec
              /\ txns'[q].own \in 1 .. Len(teids') /\ txns'[q].teid = teids'[txns'[q].own]
              /\ [seq |-> q, mt |-> txns'[q].mt, own |-> txns'[q].own] \in asked'
  <2>1. CASE q \in DOMAIN txns /\ txns'[q] = txns[q] /\ asked \subseteq asked'
    <3>1. /\ q \in Spent(used) /\ calls[q] = 0 /\ txns[q] \in TxnRec
          /\ txns[q].own \in 1 .. Len(teids) /\ txns[q].teid = teids[txns[q].own]
          /\ [seq |-> q, mt |-> txns[q].mt, own |-> txns[q].own] \in asked
      BY <2>1 DEF TxnInv
    <3> QED BY <1>1, <1>2, <1>6, <2>1, <3>1 DEF Extends
  <2>2. CASE q = n /\ asked' = asked \cup {new} /\ txns'[q].mt = mt /\ txns'[q].own = s
             /\ txns'[q].teid = teids'[s] /\ txns'[q] \in TxnRec
    BY <1>1, <1>2, <1>12, <2>2 DEF new
  <2>3. CASE txns' = txns
    BY <1>11, <2>1, <2>3, SMTT(30) DEF AskedBy
  <2>4. CASE txns' # txns
    <3> DEFINE v == [mt |-> mt, teid |-> teids'[s], sends |-> 1,
                     timer |-> TRUE, own |-> s, threw |-> FALSE]
    <3>1. txns' = Put(txns, n, v) /\ asked' = asked \cup {new} /\ v.mt = mt /\ v.own = s /\ v.teid = teids'[s]
      BY <1>4, <2>4
    <3>0. v \in TxnRec
      <4>1. s \in Nat /\ teids'[s] \in Teids
        BY <1>6 DEF Extends
      <4> QED BY <4>1 DEF TxnRec
    <3> HIDE DEF v
    <3>2. /\ DOMAIN txns' = DOMAIN txns \cup {n} /\ txns'[n] = v
          /\ \A y \in DOMAIN txns : y # n => txns'[y] = txns[y]
      BY <3>1, ZenonT(40) DEF Put
    <3>3. CASE q = n
      BY <2>2, <3>0, <3>1, <3>2, <3>3, SMTT(30)
    <3>4. CASE q # n
      BY <2>1, <3>1, <3>2, <3>4
    <3> QED BY <3>3, <3>4
  <2> QED BY <2>3, <2>4
<1>14. TxnInv'
  <2>1. \A q \in 1 .. SeqMod - 1 : calls'[q] = 1 => q \in Spent(used')
    BY <1>1, <1>2 DEF TxnInv
  <2>2. calls' \in [1 .. SeqMod - 1 -> {0, 1}]
    BY DEF TxnInv
  <2> QED BY <1>13, <2>1, <2>2, SMTT(30) DEF TxnInv
<1> QED BY <1>1, <1>5, <1>10, <1>11, <1>14

(* What a session holds stays right when another request is started, or    *)
(* nothing is asked.                                                       *)
LEMMA SessKept ==
    ASSUME CountInv, AskedInv, Extends, NEW s \in 1 .. Len(teids), NEW x, SessOk(s, x),
           \/ used' = used /\ asked' = asked
           \/ /\ used < MaxSeqs /\ used' = used + 1
              /\ \E o, mt : AskedBy(o, mt) /\ ~(mt = "create" /\ o = s)
    PROVE  SessOk(s, x)'
<1>1. teids'[s] = teids[s]
  BY DEF Extends
<1>2. Spent(used) \subseteq Spent(used')
  BY NextSeq
<1>3. Shared(s) => Shared(s)'
  BY DEF Shared, Extends, CountInv
<1>4. CASE asked' = asked
  BY <1>1, <1>2, <1>3, <1>4 DEF SessOk
<1>5. CASE /\ used < MaxSeqs
           /\ \E o, mt : AskedBy(o, mt) /\ ~(mt = "create" /\ o = s)
  <2>1. next_seq \notin Spent(used) \cup {0}
    BY <1>5, NextSeq
  <2>2. \A r \in asked' : r.seq \in Spent(used) \cup {0} \/ (r.mt = "create" /\ r.own = s) => r \in asked
    BY <1>5, <2>1 DEF AskedBy
  <2>3. {x.req, x.mod, x.tun[1], x.tun[2]} \subseteq Spent(used) \cup {0}
    BY DEF SessOk
  <2>4. x.mod \in Spent(used) \cup {0} /\ x.tun[1] \in Spent(used) \cup {0} /\ x.tun[2] \in Spent(used) \cup {0}
    BY <2>3
  <2>5. x \in SessRec /\ x.teid = teids'[s] /\ {x.req, x.mod, x.tun[1], x.tun[2]} \subseteq Spent(used') \cup {0}
    BY <1>1, <1>2, <2>3 DEF SessOk
  <2>6. \A r \in asked' : r.mt = "create" /\ r.own = s => r.seq = x.req
    BY <2>2 DEF SessOk
  <2>7. \A r \in asked' : r.seq = x.mod => r.own = s /\ r.mt = "modify"
    BY <2>2, <2>4 DEF SessOk
  <2>8. ASSUME ~Shared(s)'
        PROVE  /\ x.remote \in {0, s}
               /\ \A r \in asked' : r.seq = x.tun[2] =>
                     /\ r.own = s
                     /\ r.mt = "create" => x.tun[1] = r.seq
                     /\ \A o \in asked' : o.seq = x.tun[1] => o.own = s /\ o.mt = r.mt
    <3>1. ~Shared(s)
      BY <1>3, <2>8
    <3>2. /\ x.remote \in {0, s}
          /\ \A r \in asked : r.seq = x.tun[2] =>
                /\ r.own = s
                /\ r.mt = "create" => x.tun[1] = r.seq
                /\ \A o \in asked : o.seq = x.tun[1] => o.own = s /\ o.mt = r.mt
      BY <3>1, Zenon DEF SessOk
    <3>3. \A r \in asked' : r.seq \in {x.tun[1], x.tun[2]} => r \in asked
      BY <2>2, <2>4
    <3> QED BY <3>2, <3>3, Zenon
  <2> QED BY <2>5, <2>6, <2>7, <2>8, Zenon DEF SessOk
<1> QED BY <1>4, <1>5

(* A request of one session leaves what is known of the others. *)
LEMMA Others ==
    ASSUME CountInv, AskedInv, SessInv, Extends, NEW s, NEW mt,
           \/ used' = used /\ asked' = asked
           \/ used < MaxSeqs /\ used' = used + 1 /\ AskedBy(s, mt)
    PROVE  \A o \in DOMAIN sessions : \A z :
              z = sessions[o] /\ (o # s \/ mt # "create") => SessOk(o, z)'
<1> TAKE o \in DOMAIN sessions
<1> TAKE z
<1> HAVE z = sessions[o] /\ (o # s \/ mt # "create")
<1>1. o \in 1 .. Len(teids) /\ SessOk(o, z)
  BY DEF SessInv
<1> QED BY <1>1, SessKept

(* One session changes, its TEID stays: the index and the other sessions   *)
(* are as right as before.                                                 *)
LEMMA SessSet ==
    ASSUME SessInv, IndexInv, Extends, NEW s \in DOMAIN sessions, NEW y,
           sessions' = [sessions EXCEPT ![s] = y], by_teid' = by_teid,
           SessOk(s, y)', \A o \in DOMAIN sessions : \A z : z = sessions[o] /\ o # s => SessOk(o, z)',
           y.teid = sessions[s].teid,
           y.state \in Ended => y.teid \in DOMAIN by_teid /\ by_teid[y.teid] = s,
           cb' # <<>> /\ cb'[2] \notin Ended =>
              cb'[1] \in DOMAIN sessions /\ sessions'[cb'[1]].state \notin Ended
    PROVE  SessInv' /\ IndexInv'
<1>1. /\ DOMAIN sessions' = DOMAIN sessions /\ sessions'[s] = y
      /\ \A o \in DOMAIN sessions : o # s => sessions'[o] = sessions[o]
  OBVIOUS
<1>2. DOMAIN sessions' \subseteq 1 .. Len(teids')
  BY <1>1 DEF SessInv, Extends
<1>3. ASSUME NEW o \in DOMAIN sessions' PROVE SessOk(o, sessions[o])'
  <2>1. PICK z : z = sessions'[o]
    OBVIOUS
  <2>2. SessOk(o, z)'
    <3>1. CASE o = s
      BY <1>1, <2>1, <3>1
    <3>2. CASE o # s
      BY <1>1, <2>1, <3>2
    <3> QED BY <3>1, <3>2
  <2> QED BY <2>1, <2>2
<1>4. SessInv'
  BY <1>2, <1>3, Zenon DEF SessInv
<1>5. \A o \in DOMAIN sessions : sessions'[o].teid = sessions[o].teid
  BY <1>1
<1>6. IndexInv'
  BY <1>1, <1>5 DEF IndexInv
<1> QED BY <1>4, <1>6

(* Sessions already created keep their TEIDs. *)
LEMMA Same ==
    ASSUME CountInv, teids' = teids
    PROVE  Extends
BY DEF Extends, CountInv

(* create_session *)
LEMMA GCreate ==
    ASSUME GInv, NEW chosen \in CallerTeids \cup {0}, NEW f, create_session(chosen, f)
    PROVE  GInv'
<1>1. PICK s, teid, n, x :
         /\ s = Len(teids) + 1 /\ teid = (IF chosen # 0 THEN chosen ELSE ctrl_teid + 1)
         /\ n = next_seq
         /\ x = [state |-> "CREATING", teid |-> teid, req |-> n, remote |-> 0, mod |-> 0, tun |-> <<0, 0>>]
  BY Zenon
<1>2. CountInv /\ SessInv /\ IndexInv /\ AskedInv /\ TxnInv
  BY DEF GInv
<1>3. /\ sessions' = Put(sessions, s, x) /\ by_teid' = Emplace(by_teid, teid, s)
      /\ teids' = Append(teids, teid) /\ start_txn(s, "create", teid, f)
      /\ cb' = cb /\ calls' = calls /\ ctrl_teid' \in {ctrl_teid, ctrl_teid + 1}
  BY <1>1 DEF create_session
<1>4. teid \in Teids /\ ctrl_teid' \in Nat
  BY <1>1, <1>2, <1>3 DEF CountInv, Teids
<1>5. /\ Extends /\ s \in 1 .. Len(teids') /\ teids'[s] = teid
      /\ Len(teids') = s /\ Len(teids) \in Nat /\ s \notin 1 .. Len(teids)
  BY <1>1, <1>2, <1>3, <1>4 DEF CountInv, Extends
<1>6. used < MaxSeqs /\ used' = used + 1 /\ CountInv' /\ AskedInv' /\ TxnInv' /\ AskedBy(s, "create")
  BY <1>2, <1>3, <1>4, <1>5, Starts DEF Types
<1>7. /\ DOMAIN sessions' = DOMAIN sessions \cup {s} /\ sessions'[s] = x /\ s \notin DOMAIN sessions
      /\ \A o \in DOMAIN sessions : sessions'[o] = sessions[o]
  BY <1>2, <1>3, <1>5 DEF Put, SessInv
<1>8. /\ x.state = "CREATING" /\ x.teid = teid /\ x.req = n /\ x.remote = 0 /\ x.mod = 0
      /\ x.tun[1] = 0 /\ x.tun[2] = 0
  BY <1>1
<1>9. n \in Nat /\ used' \in Nat /\ n \in Spent(used')
  BY <1>1, <1>2, <1>6, NextSeq, SeqsDiffer DEF CountInv
<1>10. x \in SessRec
  BY <1>1, <1>4, <1>9 DEF SessRec, States
<1>11. SessOk(s, x)'
  <2>1. \A r \in asked' : r.seq # 0
    BY <1>6, <1>9, SpentPositive DEF AskedInv
  <2>2. \A r \in asked : r.own # s
    BY <1>2, <1>5 DEF AskedInv
  <2>3. \A r \in asked' : r.own = s => r.seq = x.req
    BY <1>1, <1>6, <1>8, <2>2 DEF AskedBy
  <2>4. x.teid = teids'[s] /\ {x.req, x.mod, x.tun[1], x.tun[2]} \subseteq Spent(used') \cup {0}
    BY <1>5, <1>8, <1>9
  <2>5. \A r \in asked' : r.seq # x.mod /\ r.seq # x.tun[2]
    BY <1>8, <2>1
  <2>6. x.remote \in {0, s}
    BY <1>8
  <2> QED BY <1>10, <2>3, <2>4, <2>5, <2>6, Zenon DEF SessOk
<1>12. ASSUME NEW o \in DOMAIN sessions' PROVE SessOk(o, sessions[o])'
  <2>1. PICK z : z = sessions'[o]
    OBVIOUS
  <2>2. SessOk(o, z)'
    <3>1. CASE o = s
      BY <1>7, <1>11, <2>1, <3>1
    <3>2. CASE o # s
      BY <1>2, <1>5, <1>6, <1>7, <2>1, <3>2, Others
    <3> QED BY <3>1, <3>2
  <2> QED BY <2>1, <2>2
<1>13. SessInv'
  <2>1. DOMAIN sessions' \subseteq 1 .. Len(teids')
    BY <1>2, <1>5, <1>7 DEF SessInv, Extends
  <2> QED BY <1>12, <2>1, Zenon DEF SessInv
<1>14. /\ DOMAIN by_teid' = DOMAIN by_teid \cup {teid}
       /\ \A t \in DOMAIN by_teid : by_teid'[t] = by_teid[t]
       /\ teid \notin DOMAIN by_teid => by_teid'[teid] = s
  BY <1>3 DEF Emplace, Put
<1>15. IndexInv'
  <2>1. \A t \in DOMAIN by_teid' : by_teid'[t] \in DOMAIN sessions' /\ sessions'[by_teid'[t]].teid = t
    BY <1>2, <1>7, <1>8, <1>14, SMTT(30) DEF IndexInv
  <2>2. \A o \in DOMAIN sessions' : sessions'[o].state \in Ended =>
           sessions'[o].teid \in DOMAIN by_teid' /\ by_teid'[sessions'[o].teid] = o
    BY <1>2, <1>7, <1>8, <1>14, SMTT(30) DEF IndexInv, Ended
  <2>3. cb' # <<>> /\ cb'[2] \notin Ended =>
          cb'[1] \in DOMAIN sessions' /\ sessions'[cb'[1]].state \notin Ended
    BY <1>2, <1>3, <1>7 DEF IndexInv
  <2> QED BY <2>1, <2>2, <2>3, SMTT(30) DEF IndexInv
<1> QED BY <1>6, <1>13, <1>15 DEF GInv

(* modify_bearer *)
LEMMA GModify ==
    ASSUME GInv, NEW s, NEW f, modify_bearer(s, f)
    PROVE  GInv'
<1>1. PICK n, x, y : n = next_seq /\ x = sessions[s] /\ y = [x EXCEPT !.mod = n]
  BY Zenon
<1>2. CountInv /\ SessInv /\ IndexInv /\ AskedInv /\ TxnInv
  BY DEF GInv
<1>3. /\ s \in DOMAIN sessions /\ sessions' = [sessions EXCEPT ![s] = y] /\ by_teid' = by_teid
      /\ start_txn(s, "modify", x.teid, f) /\ teids' = teids /\ ctrl_teid' = ctrl_teid
      /\ cb' = cb /\ calls' = calls
  BY <1>1 DEF modify_bearer
<1>4. s \in 1 .. Len(teids) /\ SessOk(s, x) /\ x.teid = teids[s] /\ x \in SessRec
  BY <1>1, <1>2, <1>3 DEF SessInv, SessOk
<1>5. Extends /\ ctrl_teid' \in Nat /\ s \in 1 .. Len(teids')
  BY <1>2, <1>3, <1>4, Same DEF CountInv
<1>6. used < MaxSeqs /\ used' = used + 1 /\ CountInv' /\ AskedInv' /\ TxnInv' /\ AskedBy(s, "modify")
  BY <1>2, <1>3, <1>4, <1>5, Starts DEF Types
<1>7. \A o \in DOMAIN sessions : \A z : z = sessions[o] => SessOk(o, z)'
  BY <1>2, <1>5, <1>6, Others
<1>8. n \in Nat /\ used' \in Nat /\ n \in Spent(used') /\ n \notin Spent(used)
  BY <1>1, <1>2, <1>6, NextSeq, SeqsDiffer DEF CountInv
<1>9. /\ y \in SessRec /\ y.mod = n /\ y.state = x.state /\ y.teid = x.teid /\ y.req = x.req
      /\ y.tun = x.tun /\ y.remote = x.remote
  BY <1>1, <1>4, <1>8, Zenon DEF SessRec
<1>10. SessOk(s, y)'
  <2>1. SessOk(s, x)'
    BY <1>1, <1>3, <1>7
  <2>2. \A r \in asked' : r.seq = y.mod => r.own = s /\ r.mt = "modify"
    BY <1>1, <1>2, <1>6, <1>8, <1>9 DEF AskedBy, AskedInv
  <2> HIDE DEF SessRec
  <2> QED BY <1>8, <1>9, <2>1, <2>2 DEF SessOk
<1>11. cb' # <<>> /\ cb'[2] \notin Ended =>
          cb'[1] \in DOMAIN sessions /\ sessions'[cb'[1]].state \notin Ended
  BY <1>1, <1>2, <1>3, <1>9 DEF IndexInv
<1>12. y.state \in Ended => y.teid \in DOMAIN by_teid /\ by_teid[y.teid] = s
  BY <1>1, <1>2, <1>3, <1>9 DEF IndexInv
<1>13. SessInv' /\ IndexInv'
  BY <1>1, <1>2, <1>3, <1>5, <1>7, <1>9, <1>10, <1>11, <1>12, SessSet, ZenonT(40)
<1> QED BY <1>6, <1>13 DEF GInv

(* delete_session *)
LEMMA GDelete ==
    ASSUME GInv, NEW s, NEW f, delete_session(s, f)
    PROVE  GInv'
<1>1. PICK x, y : x = sessions[s] /\ y = [x EXCEPT !.state = "DELETING"]
  BY Zenon
<1>2. CountInv /\ SessInv /\ IndexInv /\ AskedInv /\ TxnInv
  BY DEF GInv
<1>3. /\ s \in DOMAIN sessions /\ sessions' = [sessions EXCEPT ![s] = y] /\ by_teid' = by_teid
      /\ start_txn(s, "delete", x.teid, f) /\ teids' = teids /\ ctrl_teid' = ctrl_teid
      /\ cb' = cb /\ calls' = calls
  BY <1>1 DEF delete_session
<1>4. s \in 1 .. Len(teids) /\ SessOk(s, x) /\ x.teid = teids[s] /\ x \in SessRec
  BY <1>1, <1>2, <1>3 DEF SessInv, SessOk
<1>5. Extends /\ ctrl_teid' \in Nat /\ s \in 1 .. Len(teids')
  BY <1>2, <1>3, <1>4, Same DEF CountInv
<1>6. used < MaxSeqs /\ used' = used + 1 /\ CountInv' /\ AskedInv' /\ TxnInv' /\ AskedBy(s, "delete")
  BY <1>2, <1>3, <1>4, <1>5, Starts DEF Types
<1>7. \A o \in DOMAIN sessions : \A z : z = sessions[o] => SessOk(o, z)'
  BY <1>2, <1>5, <1>6, Others
<1>8. /\ y \in SessRec /\ y.mod = x.mod /\ y.state \notin Ended /\ y.teid = x.teid /\ y.req = x.req
      /\ y.tun = x.tun /\ y.remote = x.remote
  BY <1>1, <1>4, Zenon DEF SessRec, States, Ended
<1>9. SessOk(s, y)'
  <2>1. SessOk(s, x)'
    BY <1>1, <1>3, <1>7
  <2> QED BY <1>8, <2>1 DEF SessOk
<1>10. cb' # <<>> /\ cb'[2] \notin Ended =>
          cb'[1] \in DOMAIN sessions /\ sessions'[cb'[1]].state \notin Ended
  BY <1>1, <1>2, <1>3, <1>8 DEF IndexInv
<1>11. SessInv' /\ IndexInv'
  BY <1>1, <1>2, <1>3, <1>5, <1>7, <1>8, <1>9, <1>10, SessSet, ZenonT(40)
<1> QED BY <1>6, <1>11 DEF GInv

(* The sessions that stay are as they were: send_echo, purge, ~Endpoint.   *)
LEMMA SessStay ==
    ASSUME SessInv, DOMAIN sessions' \subseteq DOMAIN sessions, Extends,
           \A o \in DOMAIN sessions' : sessions'[o] = sessions[o],
           \A o \in DOMAIN sessions : \A z : z = sessions[o] => SessOk(o, z)'
    PROVE  SessInv'
<1>1. DOMAIN sessions' \subseteq 1 .. Len(teids')
  BY DEF SessInv, Extends
<1>2. ASSUME NEW o \in DOMAIN sessions' PROVE SessOk(o, sessions[o])'
  <2>1. PICK z : z = sessions'[o]
    OBVIOUS
  <2>2. SessOk(o, z)'
    BY <2>1
  <2> QED BY <2>1, <2>2
<1> QED BY <1>1, <1>2, Zenon DEF SessInv

(* An Echo uses up a number. *)
LEMMA GEcho ==
    ASSUME GInv, send_echo
    PROVE  GInv'
<1>1. CountInv /\ SessInv /\ IndexInv /\ AskedInv /\ TxnInv
  BY DEF GInv
<1>2. /\ used < MaxSeqs /\ used' = used + 1 /\ seq' = next_seq /\ sessions' = sessions
      /\ by_teid' = by_teid /\ txns' = txns /\ cb' = cb /\ teids' = teids /\ asked' = asked
      /\ calls' = calls /\ ctrl_teid' = ctrl_teid
  BY DEF send_echo, UseSeq
<1>3. Extends
  BY <1>1, <1>2, Same
<1>4. next_seq = Nth(used + 1) /\ Spent(used) \subseteq Spent(used')
  BY <1>1, <1>2, NextSeq
<1>5. CountInv'
  <2>1. used' \in 0 .. MaxSeqs /\ used' # 0
    BY <1>1, <1>2, SeqsDiffer DEF CountInv
  <2> QED BY <1>1, <1>2, <1>4, <2>1 DEF CountInv
<1>6. AskedBy(0, "none")
  BY <1>2 DEF AskedBy
<1>7. \A o \in DOMAIN sessions : \A z : z = sessions[o] => SessOk(o, z)'
  BY <1>1, <1>2, <1>3, <1>6, Others
<1>8. SessInv'
  BY <1>1, <1>2, <1>3, <1>7, SessStay
<1>9. IndexInv'
  BY <1>1, <1>2 DEF IndexInv
<1>10. AskedInv'
  <2>1. ASSUME NEW r \in asked PROVE r \in [seq : Spent(used'), mt : Types, own : 1 .. Len(teids)]
    <3>1. r \in [seq : Spent(used), mt : Types, own : 1 .. Len(teids)]
      BY <1>1 DEF AskedInv
    <3> QED BY <1>4, <3>1
  <2> QED BY <1>1, <1>2, <2>1 DEF AskedInv
<1>11. TxnInv'
  BY <1>1, <1>2, <1>4 DEF TxnInv
<1> QED BY <1>5, <1>8, <1>9, <1>10, <1>11 DEF GInv

(* Nothing is asked and no number is spent. *)
Quiet == /\ used' = used /\ seq' = seq /\ asked' = asked /\ teids' = teids
         /\ ctrl_teid' = ctrl_teid

(* A step without a new request leaves what is known of the sessions it    *)
(* does not touch.                                                         *)
LEMMA Quietly ==
    ASSUME GInv, Quiet
    PROVE  /\ CountInv' /\ AskedInv' /\ Extends
           /\ \A o \in DOMAIN sessions : \A z : z = sessions[o] => SessOk(o, z)'
<1>1. CountInv /\ SessInv /\ AskedInv
  BY DEF GInv
<1>2. CountInv' /\ AskedInv'
  BY <1>1 DEF CountInv, AskedInv, Quiet
<1>3. Extends
  BY <1>1, Same DEF Quiet
<1>4. \A o \in DOMAIN sessions : \A z : z = sessions[o] => SessOk(o, z)'
  <2>1. used' = used /\ asked' = asked
    BY DEF Quiet
  <2>2. \A o \in DOMAIN sessions : \A z : z = sessions[o] /\ (o # 0 \/ "none" # "create") => SessOk(o, z)'
    BY <1>1, <1>3, <2>1, Others
  <2> QED BY <2>2
<1> QED BY <1>2, <1>3, <1>4

(* purge frees ended sessions only, each with its index entry. *)
LEMMA GPurge ==
    ASSUME GInv, purge
    PROVE  GInv'
<1> DEFINE P == {t \in DOMAIN by_teid : by_teid[t] \in Purgeable}
<1>1. CountInv /\ SessInv /\ IndexInv /\ AskedInv /\ TxnInv
  BY DEF GInv
<1>2. /\ sessions' = Drop(sessions, Purgeable) /\ by_teid' = Drop(by_teid, P)
      /\ txns' = txns /\ cb' = cb /\ calls' = calls /\ Quiet
  BY DEF purge, Quiet
<1>3. CountInv' /\ AskedInv' /\ Extends /\ \A o \in DOMAIN sessions : \A z : z = sessions[o] => SessOk(o, z)'
  BY <1>2, Quietly
<1>4. /\ DOMAIN sessions' = DOMAIN sessions \ Purgeable
      /\ \A o \in DOMAIN sessions' : sessions'[o] = sessions[o]
  BY <1>2 DEF Drop
<1>5. DOMAIN by_teid' = DOMAIN by_teid \ P /\ \A t \in DOMAIN by_teid' : by_teid'[t] = by_teid[t]
  BY <1>2 DEF Drop
<1>6. SessInv'
  BY <1>1, <1>3, <1>4, SessStay
<1>7. \A o \in DOMAIN sessions : o \in Purgeable <=> sessions[o].state \in Ended
  BY DEF Purgeable, Ended
<1>8. \A t \in DOMAIN by_teid : t \in DOMAIN by_teid' <=> by_teid[t] \notin Purgeable
  BY <1>5, SMTT(30)
<1> HIDE DEF P
<1>9. IndexInv'
  BY <1>1, <1>2, <1>4, <1>5, <1>7, <1>8, SMTT(30) DEF IndexInv
<1>10. TxnInv'
  BY <1>1, <1>2 DEF TxnInv, Quiet
<1> QED BY <1>3, <1>6, <1>9, <1>10 DEF GInv

(* The destructor leaves nothing. *)
LEMMA GDestroy ==
    ASSUME GInv, destroy
    PROVE  GInv'
<1>1. CountInv /\ SessInv /\ IndexInv /\ AskedInv /\ TxnInv
  BY DEF GInv
<1>2. /\ sessions' = <<>> /\ by_teid' = <<>> /\ txns' = <<>> /\ cb' = <<>> /\ calls' = calls /\ Quiet
  BY DEF destroy, Quiet
<1>3. CountInv' /\ AskedInv' /\ Extends
  BY <1>2, Quietly
<1>4. DOMAIN sessions' = {} /\ DOMAIN by_teid' = {} /\ DOMAIN txns' = {}
  BY <1>2
<1>5. SessInv'
  BY <1>4, Zenon DEF SessInv
<1>6. IndexInv'
  BY <1>2, <1>4 DEF IndexInv
<1>7. TxnInv'
  BY <1>1, <1>2, <1>4 DEF TxnInv, Quiet
<1> QED BY <1>3, <1>5, <1>6, <1>7 DEF GInv

(* A request ends: its completion is the first, if it is delivered.        *)
LEMMA TxnEnds ==
    ASSUME CountInv, TxnInv, NEW q \in DOMAIN txns, txns' = Drop(txns, {q}), Quiet,
           calls' = calls \/ Called(q)
    PROVE  TxnInv'
<1>0. Spent(used) \subseteq 1 .. SeqMod - 1
  BY SpentPositive DEF CountInv
<1>1. calls \in [1 .. SeqMod - 1 -> {0, 1}] /\ calls[q] = 0 /\ q \in Spent(used)
      /\ DOMAIN txns \subseteq 1 .. SeqMod - 1
  BY <1>0, Zenon DEF TxnInv
<1>2. DOMAIN txns' = DOMAIN txns \ {q} /\ \A o \in DOMAIN txns' : txns'[o] = txns[o]
  BY DEF Drop
<1>3. /\ calls' \in [1 .. SeqMod - 1 -> {0, 1}]
      /\ \A o \in 1 .. SeqMod - 1 : o # q => calls'[o] = calls[o]
  <2>1. CASE calls' = calls
    BY <1>1, <2>1
  <2>2. CASE Called(q)
    <3>1. calls' = [calls EXCEPT ![q] = 1]
      BY <1>1, <2>2, SMTT(30) DEF Called
    <3> QED BY <1>1, <3>1
  <2> QED BY <2>1, <2>2
<1>4. \A o \in 1 .. SeqMod - 1 : calls'[o] = 1 => o \in Spent(used')
  BY <1>1, <1>3 DEF TxnInv, Quiet
<1>5. ASSUME NEW o \in DOMAIN txns'
      PROVE  /\ o \in Spent(used') /\ calls'[o] = 0 /\ txns'[o] \in TxnRec
             /\ txns'[o].own \in 1 .. Len(teids') /\ txns'[o].teid = teids'[txns'[o].own]
             /\ [seq |-> o, mt |-> txns'[o].mt, own |-> txns'[o].own] \in asked'
  <2>1. o \in DOMAIN txns /\ txns'[o] = txns[o] /\ calls'[o] = calls[o]
    BY <1>1, <1>2, <1>3, ZenonT(40)
  <2> QED BY <2>1, ZenonT(40) DEF TxnInv, Quiet
<1> QED BY <1>3, <1>4, <1>5, Zenon DEF TxnInv

(* on_txn_timer *)
LEMMA GTimer ==
    ASSUME GInv, NEW q \in DOMAIN txns, NEW f, on_txn_timer(q, f)
    PROVE  GInv'
<1> DEFINE t == txns[q]
<1>1. CountInv /\ SessInv /\ IndexInv /\ AskedInv /\ TxnInv
  BY DEF GInv
<1>2. Quiet /\ by_teid' = by_teid /\ cb' = <<>>
  BY DEF on_txn_timer, Quiet
<1>3. CountInv' /\ AskedInv' /\ Extends /\ \A o \in DOMAIN sessions : \A z : z = sessions[o] => SessOk(o, z)'
  BY <1>2, Quietly
<1>4. SessInv' /\ IndexInv'
  <2>1. CASE sessions' = sessions
    BY <1>1, <1>2, <1>3, <2>1, SessStay DEF IndexInv
  <2>2. CASE Resolves(t) /\ sessions' = [sessions EXCEPT ![by_teid[t.teid]].state = "FAILED"]
    <3>1. PICK s, x, y : s = by_teid[t.teid] /\ x = sessions[s] /\ y = [x EXCEPT !.state = "FAILED"]
      BY Zenon
    <3>2. /\ s \in DOMAIN sessions /\ sessions' = [sessions EXCEPT ![s] = y]
          /\ t.teid \in DOMAIN by_teid /\ x.teid = t.teid
      BY <1>1, <2>2, <3>1, SMTT(30) DEF IndexInv, Resolves
    <3>3. SessOk(s, x)' /\ x \in SessRec
      BY <1>1, <1>3, <3>1, <3>2, SMTT(30) DEF SessInv, SessOk
    <3>4. /\ y \in SessRec /\ y.mod = x.mod /\ y.teid = x.teid /\ y.req = x.req
          /\ y.tun = x.tun /\ y.remote = x.remote
      BY <3>1, <3>3, Zenon DEF SessRec, States
    <3>5. SessOk(s, y)'
      BY <3>3, <3>4 DEF SessOk
    <3>6. y.teid = sessions[s].teid /\ y.teid \in DOMAIN by_teid /\ by_teid[y.teid] = s
      BY <3>1, <3>2, <3>4
    <3> HIDE DEF t
    <3> QED BY <1>1, <1>2, <1>3, <3>2, <3>5, <3>6, SessSet, Zenon
  <2>3. \/ sessions' = sessions
        \/ Resolves(t) /\ sessions' = [sessions EXCEPT ![by_teid[t.teid]].state = "FAILED"]
    BY DEF on_txn_timer
  <2> QED BY <2>1, <2>2, <2>3, Zenon
<1>5. TxnInv'
  <2>1. CASE txns' = Drop(txns, {q}) /\ (calls' = calls \/ Called(q))
    BY <1>1, <1>2, <2>1, TxnEnds, Zenon
  <2>2. ASSUME NEW b, b \in BOOLEAN, NEW n, n = t.sends \/ n = t.sends + 1, calls' = calls,
               txns' = [txns EXCEPT ![q] = [t EXCEPT !.timer = b, !.threw = ~b, !.sends = n]]
        PROVE  TxnInv'
    <3>1. PICK x, y : x = t /\ y = [x EXCEPT !.timer = b, !.threw = ~b, !.sends = n]
      BY Zenon
    <3>2. x \in TxnRec /\ n \in Nat /\ (~b) \in BOOLEAN
      <4>1. x \in TxnRec
        BY <1>1, <3>1, Zenon DEF TxnInv
      <4>2. x.sends \in Nat
        BY <4>1 DEF TxnRec
      <4>3. n \in Nat
        BY <2>2, <3>1, <4>2
      <4>4. (~b) \in BOOLEAN
        BY Zenon
      <4> QED BY <4>1, <4>3, <4>4
    <3>3. y \in TxnRec /\ y.mt = x.mt /\ y.own = x.own /\ y.teid = x.teid
      BY <2>2, <3>1, <3>2, Zenon DEF TxnRec
    <3>4. /\ DOMAIN txns' = DOMAIN txns /\ txns'[q] = y
          /\ \A o \in DOMAIN txns : o # q => txns'[o] = txns[o]
      BY <2>2, <3>1
    <3>5. \A o \in DOMAIN txns : /\ txns[o] \in TxnRec => txns'[o] \in TxnRec
                                 /\ txns'[o].mt = txns[o].mt /\ txns'[o].own = txns[o].own
                                 /\ txns'[o].teid = txns[o].teid
      BY <3>1, <3>3, <3>4, Zenon
    <3> QED BY <1>1, <1>2, <2>2, <3>4, <3>5 DEF TxnInv, Quiet
  <2>3. \/ txns' = Drop(txns, {q}) /\ (calls' = calls \/ Called(q))
        \/ /\ calls' = calls
           /\ \E b \in BOOLEAN, n \in {t.sends, t.sends + 1} :
                 txns' = [txns EXCEPT ![q] = [t EXCEPT !.timer = b, !.threw = ~b, !.sends = n]]
    <3>1. \/ txns' = Drop(txns, {q}) /\ (calls' = calls \/ Called(q))
          \/ /\ calls' = calls
             /\ txns' = [txns EXCEPT ![q] = [t EXCEPT !.timer = (f = "none"), !.threw = (f # "none"),
                                      !.sends = IF f = "send" THEN t.sends ELSE t.sends + 1]]
      BY DEF on_txn_timer
    <3>2. (f = "none") \in BOOLEAN /\ (f # "none") = ~(f = "none")
          /\ (IF f = "send" THEN t.sends ELSE t.sends + 1) \in {t.sends, t.sends + 1}
      OBVIOUS
    <3> QED BY <3>1, <3>2, Zenon
  <2> QED BY <2>1, <2>2, <2>3, Zenon
<1> QED BY <1>3, <1>4, <1>5 DEF GInv

(* handle_response: what an answer makes of a session is known to it.      *)
LEMMA GAnswered ==
    ASSUME CountInv, AskedInv, NEW s, NEW x, SessOk(s, x), NEW r \in asked, NEW a,
           ~Shared(s) => r.own = s, NEW y, y = Answered(x, r, a)
    PROVE  SessOk(s, y) /\ y.teid = x.teid
<1>1. x \in SessRec /\ r \in [seq : Spent(used), mt : Types, own : 1 .. Len(teids)]
  BY DEF SessOk, AskedInv
<1>2. \A o \in asked : o.seq = r.seq => o = r
  BY DEF AskedInv
<1>3. r.own \in Nat /\ r.seq \in Nat /\ r.seq \in Spent(used) /\ r.mt \in Types
  <2>1. Spent(used) \subseteq 1 .. SeqMod - 1
    BY SpentPositive DEF CountInv
  <2> QED BY <1>1, <2>1, SeqsDiffer
<1>4. CASE y = x
  BY <1>4, Zenon
<1>5. CASE \E e \in States : y = [x EXCEPT !.state = e]
  <2>1. PICK e \in States : y = [x EXCEPT !.state = e]
    BY <1>5
  <2>2. /\ y \in SessRec /\ y.mod = x.mod /\ y.teid = x.teid /\ y.req = x.req
        /\ y.tun = x.tun /\ y.remote = x.remote
    BY <1>1, <2>1 DEF SessRec
  <2> QED BY <2>2 DEF SessOk
<1>6. CASE /\ r.mt = "create"
           /\ \E e \in {r.own, x.remote} :
                 y = [x EXCEPT !.state = "ACTIVE", !.tun = <<x.req, r.seq>>, !.remote = e]
  <2>1. PICK e \in {r.own, x.remote} :
             y = [x EXCEPT !.state = "ACTIVE", !.tun = <<x.req, r.seq>>, !.remote = e]
    BY <1>6, Zenon
  <2>2. e \in Nat /\ x.req \in Nat /\ <<x.req, r.seq>> \in Nat \X Nat
    BY <1>1, <1>3 DEF SessRec
  <2>3. /\ y \in SessRec /\ y.mod = x.mod /\ y.teid = x.teid /\ y.req = x.req
        /\ y.tun = <<x.req, r.seq>> /\ y.remote = e
    BY <1>1, <1>3, <2>1, <2>2, ZenonT(40) DEF SessRec, States
  <2>4. y.tun[1] = x.req /\ y.tun[2] = r.seq
    BY <2>3, SMTT(30)
  <2>5. {y.req, y.mod, y.tun[1], y.tun[2]} \subseteq Spent(used) \cup {0}
    BY <1>3, <2>3, <2>4 DEF SessOk
  <2>6. ~Shared(s) => y.remote \in {0, s} /\ r.own = s /\ x.req = r.seq
    BY <1>6, <2>3 DEF SessOk
  <2> QED BY <1>2, <1>6, <2>3, <2>4, <2>5, <2>6 DEF SessOk
<1>7. CASE r.mt = "modify" /\ y = [x EXCEPT !.tun = <<x.mod, r.seq>>]
  <2>1. /\ y \in SessRec /\ y.mod = x.mod /\ y.teid = x.teid /\ y.req = x.req
        /\ y.tun = <<x.mod, r.seq>> /\ y.remote = x.remote
    BY <1>1, <1>3, <1>7, SMTT(30) DEF SessRec
  <2>2. y.tun[1] = x.mod /\ y.tun[2] = r.seq
    BY <2>1, SMTT(30)
  <2>3. {y.req, y.mod, y.tun[1], y.tun[2]} \subseteq Spent(used) \cup {0}
    BY <1>3, <2>1, <2>2, ZenonT(40) DEF SessOk
  <2>4. \A o \in asked : o.seq = x.mod => o.own = s /\ o.mt = "modify"
    BY DEF SessOk
  <2> QED BY <1>2, <1>7, <2>1, <2>2, <2>3, <2>4 DEF SessOk
<1>8. \/ y = x \/ \E e \in States : y = [x EXCEPT !.state = e]
      \/ /\ r.mt = "create"
         /\ \E e \in {r.own, x.remote} :
                 y = [x EXCEPT !.state = "ACTIVE", !.tun = <<x.req, r.seq>>, !.remote = e]
      \/ r.mt = "modify" /\ y = [x EXCEPT !.tun = <<x.mod, r.seq>>]
  BY <1>3 DEF Answered, States, Types
<1> QED BY <1>4, <1>5, <1>6, <1>7, <1>8, Zenon

(* A response is given to the request of its number, once. *)
LEMMA GResponse ==
    ASSUME GInv, NEW r \in asked, NEW a, handle_response(r, a)
    PROVE  GInv'
<1> DEFINE q == r.seq
           t == txns[q]
<1>1. CountInv /\ SessInv /\ IndexInv /\ AskedInv /\ TxnInv
  BY Zenon DEF GInv
<1>2. Quiet /\ by_teid' = by_teid /\ cb = <<>> /\ q \in DOMAIN txns /\ txns' = Drop(txns, {q})
  BY DEF handle_response, Quiet
<1>3. CountInv' /\ AskedInv' /\ Extends /\ \A o \in DOMAIN sessions : \A z : z = sessions[o] => SessOk(o, z)'
  BY <1>2, Quietly, Zenon
<1>4. calls' = calls \/ Called(q)
  BY DEF handle_response
<1>5. TxnInv'
  BY <1>1, <1>2, <1>4, TxnEnds, Zenon
<1>6. SessInv' /\ IndexInv'
  <2>1. CASE sessions' = sessions /\ cb' = cb
    BY <1>1, <1>2, <1>3, <2>1, SessStay DEF IndexInv
  <2>2. CASE Resolves(t) /\ a # "bad"
    <3>1. PICK s, x, y : s = by_teid[t.teid] /\ x = sessions[s] /\ y = Answered(x, r, a)
      BY Zenon
    <3>2. /\ sessions' = [sessions EXCEPT ![s] = y] /\ cb' \in {<<>>, <<s, sessions'[s].state>>}
      BY <2>2, <3>1, Zenon DEF handle_response
    <3>3. /\ t.teid \in DOMAIN by_teid /\ s \in DOMAIN sessions /\ x.teid = t.teid
      BY <1>1, <2>2, <3>1, Zenon DEF IndexInv, Resolves
    <3>4. SessOk(s, x) /\ x.teid = teids[s]
      <4>1. SessOk(s, x)
        BY <1>1, <3>1, <3>3, SMTT(30) DEF SessInv
      <4> QED BY <4>1, Zenon DEF SessOk
    <3>5. t.own = r.own /\ t.own \in 1 .. Len(teids) /\ t.teid = teids[t.own]
      <4>1. /\ t.own \in 1 .. Len(teids) /\ t.teid = teids[t.own]
            /\ [seq |-> q, mt |-> t.mt, own |-> t.own] \in asked
        BY <1>1, <1>2, Zenon DEF TxnInv
      <4>2. [seq |-> q, mt |-> t.mt, own |-> t.own].seq = r.seq
            /\ [seq |-> q, mt |-> t.mt, own |-> t.own].own = t.own
        BY Zenon
      <4>3. [seq |-> q, mt |-> t.mt, own |-> t.own] = r
        BY <1>1, <4>1, <4>2 DEF AskedInv
      <4> QED BY <4>1, <4>2, <4>3, SMTT(30)
    <3>6. ~Shared(s) => r.own = s
      BY <3>3, <3>4, <3>5, Zenon DEF Shared
    <3>7. SessOk(s, y) /\ y.teid = x.teid
      <4> HIDE DEF t, q
      <4>1. CountInv /\ AskedInv /\ SessOk(s, x) /\ (~Shared(s) => r.own = s) /\ y = Answered(x, r, a)
        BY <1>1, <3>1, <3>4, <3>6, Zenon
      <4> QED BY ONLY <4>1, r \in asked, GAnswered, SMTT(30)
    <3>8. SessOk(s, y)'
      BY <1>2, <3>7, Zenon DEF SessOk, Quiet, Shared
    <3>9. y.teid = sessions[s].teid /\ y.teid \in DOMAIN by_teid /\ by_teid[y.teid] = s
      BY <3>1, <3>3, <3>7
    <3>10. cb' # <<>> /\ cb'[2] \notin Ended =>
              cb'[1] \in DOMAIN sessions /\ sessions'[cb'[1]].state \notin Ended
      BY <3>2, <3>3, SMTT(30)
    <3> HIDE DEF t, q
    <3> QED BY <1>1, <1>2, <1>3, <3>2, <3>3, <3>8, <3>9, <3>10, SessSet, ZenonT(40)
  <2>3. (sessions' = sessions /\ cb' = cb) \/ (Resolves(t) /\ a # "bad")
    BY DEF handle_response
  <2> QED BY <2>1, <2>2, <2>3, Zenon
<1> QED BY <1>3, <1>5, <1>6 DEF GInv

(* A new endpoint has no session and no request. *)
LEMMA GInit ==
    ASSUME Init
    PROVE  GInv
<1>1. /\ DOMAIN sessions = {} /\ DOMAIN by_teid = {} /\ DOMAIN txns = {} /\ cb = <<>> /\ asked = {}
      /\ used = 0 /\ teids = <<>> /\ seq = FirstSeq /\ ctrl_teid = 0
      /\ calls = [q \in 1 .. SeqMod - 1 |-> 0]
  BY DEF Init
<1>2. CountInv
  BY <1>1, SeqsDiffer DEF CountInv
<1>3. SessInv
  BY <1>1, ZenonT(40) DEF SessInv
<1>4. IndexInv
  BY <1>1 DEF IndexInv
<1>5. AskedInv
  BY <1>1 DEF AskedInv
<1>6. TxnInv
  BY <1>1 DEF TxnInv
<1> QED BY <1>2, <1>3, <1>4, <1>5, <1>6 DEF GInv

(* Every call, answer and timeout keeps the invariant. *)
LEMMA GStep ==
    ASSUME GInv, [Next]_vars
    PROVE  GInv'
<1>1. ASSUME NEW chosen \in CallerTeids \cup {0}, NEW f, create_session(chosen, f) PROVE GInv'
  BY <1>1, GCreate
<1>2. ASSUME NEW s, NEW f, modify_bearer(s, f) PROVE GInv'
  BY <1>2, GModify
<1>3. ASSUME NEW s, NEW f, delete_session(s, f) PROVE GInv'
  BY <1>3, GDelete
<1>4. CASE send_echo
  BY <1>4, GEcho
<1>5. CASE purge
  BY <1>5, GPurge
<1>6. CASE destroy
  BY <1>6, GDestroy
<1>7. ASSUME NEW q \in DOMAIN txns, NEW f, on_txn_timer(q, f) PROVE GInv'
  BY <1>7, GTimer
<1>8. ASSUME NEW r \in asked, NEW a, handle_response(r, a) PROVE GInv'
  BY <1>8, GResponse
<1>9. CASE on_user_plane \/ UNCHANGED vars
  <2>1. /\ Quiet /\ sessions' = sessions /\ by_teid' = by_teid /\ txns' = txns /\ calls' = calls
        /\ cb' = cb \/ cb' = <<>>
    BY <1>9 DEF on_user_plane, vars, Quiet
  <2>2. SessInv /\ IndexInv /\ TxnInv
    BY DEF GInv
  <2>3. CountInv' /\ AskedInv' /\ Extends /\ \A o \in DOMAIN sessions : \A z : z = sessions[o] => SessOk(o, z)'
    BY <2>1, Quietly
  <2>4. SessInv'
    BY <2>1, <2>2, <2>3, SessStay, SMTT(30)
  <2>5. IndexInv'
    BY <2>1, <2>2, Zenon DEF IndexInv
  <2>6. TxnInv'
    BY <2>1, <2>2 DEF TxnInv, Quiet
  <2> QED BY <2>3, <2>4, <2>5, <2>6 DEF GInv
<1> QED BY <1>1, <1>2, <1>3, <1>4, <1>5, <1>6, <1>7, <1>8, <1>9, ZenonT(40) DEF Next

-------------------------------------------------------------------------------
(* What the endpoint's index finds exists: a completion, a timeout and     *)
(* purge() never reach a session that was freed, and on_user_plane is      *)
(* called for a session that is still there, unless it had ended before.   *)
THEOREM IndexIsLive == Spec => []PointersLive
<1>1. GInv => PointersLive
  BY DEF GInv, IndexInv, PointersLive, Purgeable, Ended
<1> QED BY <1>1, GInit, GStep, PTL DEF Spec

(* A request is completed at most once, and a session is told the answers  *)
(* to its own requests, however many answers arrive, whenever they arrive  *)
(* and whatever the handlers do meanwhile.                                 *)
THEOREM RequestsAnsweredOnce == Spec => []AnsweredOnce
<1>1. ASSUME GInv PROVE AnsweredOnce
  <2>1. OneOutcome
    BY <1>1, SMTT(30) DEF GInv, TxnInv, OneOutcome
  <2>2. OwnAnswers
    BY <1>1 DEF GInv, SessInv, SessOk, OwnAnswers
  <2> QED BY <2>1, <2>2, SMTT(30) DEF AnsweredOnce
<1> QED BY <1>1, GInit, GStep, PTL DEF Spec

(* A session that has ended, with nothing outstanding for its TEID, is not *)
(* brought back by an answer or a timer: only its owner's delete_session   *)
(* changes it, with a new request.                                         *)
THEOREM EndedStaysEnded == Spec => SettledStays
<1> DEFINE A(s) ==
       ~(\E q \in DOMAIN txns : txns[q].teid = sessions[s].teid) =>
           \/ sessions'[s].state = sessions[s].state
           \/ sessions'[s].state = "DELETING" /\ used' > used
<1>1. ASSUME GInv, [Next]_vars, NEW s \in Purgeable \cap DOMAIN sessions',
             \A q \in DOMAIN txns : txns[q].teid # sessions[s].teid
      PROVE  \/ sessions'[s].state = sessions[s].state
             \/ sessions'[s].state = "DELETING" /\ used' > used
  <2>1. /\ s \in DOMAIN sessions /\ DOMAIN sessions \subseteq 1 .. Len(teids) /\ used \in Nat /\ Len(teids) \in Nat
        /\ \A t \in DOMAIN by_teid : by_teid[t] \in DOMAIN sessions /\ sessions[by_teid[t]].teid = t
        /\ \A o \in DOMAIN sessions : sessions[o] \in SessRec
    BY <1>1 DEF GInv, SessInv, IndexInv, Purgeable, CountInv, SessOk
  <2>2. CASE sessions' = sessions
    BY <2>2
  <2>3. ASSUME NEW chosen, NEW f, create_session(chosen, f)
        PROVE  sessions'[s].state = sessions[s].state
    <3>1. \E n, v : n = Len(teids) + 1 /\ sessions' = Put(sessions, n, v)
      BY <2>3, Zenon DEF create_session
    <3>2. PICK n, v : n = Len(teids) + 1 /\ sessions' = Put(sessions, n, v)
      BY <3>1
    <3>3. s # n
      BY <2>1, <3>2
    <3> QED BY <2>1, <3>2, <3>3 DEF Put
  <2>4. ASSUME NEW o, NEW f, modify_bearer(o, f)
        PROVE  sessions'[s].state = sessions[s].state
    BY <2>1, <2>4 DEF modify_bearer, SessRec
  <2>5. ASSUME NEW o, NEW f, delete_session(o, f)
        PROVE  \/ sessions'[s].state = sessions[s].state
               \/ sessions'[s].state = "DELETING" /\ used' > used
    BY <2>1, <2>5, SMTT(30) DEF delete_session, SessRec, start_txn, UseSeq
  <2>6. CASE purge
    BY <1>1, <2>1, <2>6 DEF purge, Drop
  <2>7. CASE destroy
    BY <1>1, <2>7, SMTT(30) DEF destroy
  <2>8. ASSUME NEW q \in DOMAIN txns, txns[q].teid \in DOMAIN by_teid,
               NEW y, sessions' = [sessions EXCEPT ![by_teid[txns[q].teid]] = y]
        PROVE  sessions'[s].state = sessions[s].state
    BY <1>1, <2>1, <2>8
  <2>9. ASSUME NEW q \in DOMAIN txns, NEW f, on_txn_timer(q, f)
        PROVE  sessions'[s].state = sessions[s].state
    BY <2>2, <2>8, <2>9 DEF on_txn_timer, Resolves
  <2>10. ASSUME NEW r \in asked, NEW a, handle_response(r, a)
         PROVE  sessions'[s].state = sessions[s].state
    BY <2>2, <2>8, <2>10, ZenonT(40) DEF handle_response, Resolves
  <2>11. CASE send_echo \/ on_user_plane \/ UNCHANGED vars
    BY <2>11, SMTT(30) DEF send_echo, on_user_plane, vars
  <2> QED BY <1>1, <2>3, <2>4, <2>5, <2>6, <2>7, <2>9, <2>10, <2>11, ZenonT(40) DEF Next
<1>2. GInv /\ [Next]_vars => \A s \in Purgeable \cap DOMAIN sessions' : A(s)
  BY <1>1
<1>3. GInv /\ [Next]_vars => [\A s \in Purgeable \cap DOMAIN sessions' : A(s)]_vars
  BY <1>2
<1> QED BY <1>3, GInit, GStep, PTL DEF Spec, SettledStays

===============================================================================
