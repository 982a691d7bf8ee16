----------------------------- MODULE TrafficProof -----------------------------
(***************************************************************************)
(* Proofs about what an endpoint sends and receives. The transmit queue of *)
(* a socket: the ring is the promised FIFO through wrapping, popping and   *)
(* growing, its byte count is exact, and a backlog never sleeps unwatched. *)
(* The receiver of a media stream: its reports count exactly what the      *)
(* sender numbered, whatever was lost, late or repeated.                   *)
(***************************************************************************)
EXTENDS Txq, RtpStream, TLAPS

-------------------------------------------------------------------------------
(* Remainders, for the sequence numbers and the ring that wrap. *)

(* Quotient and remainder are unique. *)
LEMMA DivUnique ==
    ASSUME NEW c \in Nat, c > 0, NEW m \in Int, NEW n \in Int,
           NEW r \in 0 .. c - 1, NEW s \in 0 .. c - 1, c * m + r = c * n + s
    PROVE  m = n /\ r = s
<1>1. c * (m - n) = s - r
  OBVIOUS
<1>2. CASE m - n >= 1
  <2>1. c * (m - n) >= c
    BY <1>2
  <2> QED BY <1>1, <2>1
<1>3. CASE m - n <= -1
  <2>1. c * (m - n) <= -c
    BY <1>3
  <2> QED BY <1>1, <2>1
<1>4. CASE m = n
  BY <1>1, <1>4
<1> QED BY <1>2, <1>3, <1>4

(* A number is its quotient times the divisor and a remainder in one way   *)
(* only.                                                                   *)
LEMMA ModUnique ==
    ASSUME NEW c \in Nat, c > 0, NEW m \in Int, NEW r \in 0 .. c - 1, NEW b \in Int, b = c * m + r
    PROVE  b % c = r
<1>1. b = c * (b \div c) + (b % c) /\ b \div c \in Int /\ b % c \in 0 .. c - 1
  OBVIOUS
<1> QED BY <1>1, DivUnique

(* Adding less than the modulus wraps at most once. *)
LEMMA ModShift ==
    ASSUME NEW c \in Nat, c > 0, NEW b \in Int, NEW d \in 0 .. c - 1
    PROVE  /\ b % c \in 0 .. c - 1
           /\ (b + d) % c = IF (b % c) + d < c THEN (b % c) + d ELSE ((b % c) + d) - c
<1>1. b = c * (b \div c) + (b % c) /\ b \div c \in Int /\ b % c \in 0 .. c - 1
  OBVIOUS
<1> DEFINE m == b \div c
           r == b % c
<1> HIDE DEF m, r
<1>2. m \in Int /\ r \in 0 .. c - 1 /\ b = c * m + r
  BY <1>1 DEF m, r
<1>3. CASE r + d < c
  <2>1. r + d \in 0 .. c - 1 /\ b + d = c * m + (r + d) /\ b + d \in Int
    BY <1>2, <1>3
  <2>2. (b + d) % c = r + d
    BY <1>2, <2>1, ModUnique
  <2> QED BY <1>1, <1>3, <2>2 DEF r
<1>4. CASE ~(r + d < c)
  <2> DEFINE n == m + 1
             s == (r + d) - c
             e == b + d
  <2>1. s \in 0 .. c - 1 /\ e = c * n + s /\ e \in Int /\ n \in Int
    BY <1>2, <1>4
  <2>2. e % c = s
    <3> HIDE DEF n, s, e
    <3> QED BY <2>1, ModUnique
  <2> QED BY <1>1, <1>4, <2>2 DEF r
<1> QED BY <1>3, <1>4

-------------------------------------------------------------------------------
(* The reception statistics of rtp.c and the reports of rtp.cpp. *)

SrcRec ==
    [max_seq : 0 .. RtpSeqMod - 1, cycles : Nat, base_seq : 0 .. RtpSeqMod - 1, bad_seq : Nat,
     probation : 0 .. MinSeq, received : Nat, expected_prior : Nat, received_prior : Nat]

(* A source after n packets, of which h is the last in order and o the one *)
(* it counts from.  Without a packet since the last report nothing more is *)
(* expected either.                                                        *)
SrcOk(s, h, o, n) ==
    /\ s.max_seq = h % RtpSeqMod
    /\ s.probation # 0 => s.received = 0
    /\ s.probation = 0 =>
          /\ o <= h /\ (h - o) + 1 <= n * Dropout /\ s.received <= n * Dropout
          /\ s.cycles + s.max_seq - s.base_seq = h - o
          /\ s.received_prior <= s.received
          /\ s.expected_prior <= (h - o) + 1
          /\ s.received = s.received_prior => s.expected_prior = (h - o) + 1

(* The invariant of a stream. *)
MInv ==
    /\ high \in Nat /\ origin \in Nat /\ npkts \in 0 .. MaxPackets
    /\ src # <<>> => src \in SrcRec /\ src.probation < MinSeq /\ SrcOk(src, high, origin, npkts)
    /\ ReportsGoOn

(* One packet more: the counters have room for it. *)
LEMMA MRoom ==
    ASSUME NEW n \in 0 .. MaxPackets - 1
    PROVE  /\ n * Dropout \in Nat /\ (n + 1) * Dropout = n * Dropout + Dropout
           /\ (n + 1) * Dropout < Word \div 2
<1>1. n * Dropout \in Nat /\ (n + 1) * Dropout = n * Dropout + Dropout
  BY RtpAssumption
<1>2. (n + 1) * Dropout <= MaxPackets * Dropout
  <2>1. (MaxPackets - (n + 1)) * Dropout >= 0
    BY RtpAssumption
  <2> QED BY <2>1, RtpAssumption
<1>3. (n + 1) * Dropout \in Nat /\ MaxPackets * Dropout \in Nat /\ Word \div 2 \in Nat
  BY RtpAssumption
<1> QED BY <1>1, <1>2, <1>3, RtpAssumption

(* A number below half the word is its own remainder. *)
LEMMA Unwrapped ==
    ASSUME NEW x \in Nat, x < Word \div 2 + Word \div 2
    PROVE  U32(x) = x
<1>1. Word \in Nat /\ Word > 0 /\ x < Word
  BY RtpAssumption
<1> QED BY <1>1 DEF U32

(* The distance of two sequence numbers on the wire, for packets less than *)
(* a turn apart.                                                           *)
LEMMA WireDistance ==
    ASSUME NEW h \in Nat, NEW d \in 0 .. RtpSeqMod - 1
    PROVE  /\ U16(((h + d) % RtpSeqMod) - (h % RtpSeqMod)) = d
           /\ d # 0 => U16((h % RtpSeqMod) - ((h + d) % RtpSeqMod)) = RtpSeqMod - d
           /\ (h + d) % RtpSeqMod = IF (h % RtpSeqMod) + d < RtpSeqMod
                                    THEN (h % RtpSeqMod) + d ELSE ((h % RtpSeqMod) + d) - RtpSeqMod
           /\ h % RtpSeqMod \in 0 .. RtpSeqMod - 1
<1> DEFINE M == RtpSeqMod
           r == h % M
           w == (h + d) % M
<1>0. M \in Nat /\ M > 0 /\ h \in Int
  BY RtpAssumption
<1>1. r \in 0 .. M - 1 /\ w = IF r + d < M THEN r + d ELSE (r + d) - M
  BY <1>0, ModShift, Zenon
<1> HIDE DEF r, w
<1>2. (w - r) % M = d
  <2>1. CASE w - r = d
    <3>1. w - r = M * 0 + d
      BY <1>0, <2>1
    <3> QED BY <1>0, <1>1, <3>1, ModUnique
  <2>2. CASE w - r = d - M
    <3>1. w - r = M * (-1) + d
      BY <1>0, <2>2
    <3> QED BY <1>0, <1>1, <3>1, ModUnique
  <2> QED BY <1>0, <1>1, <2>1, <2>2
<1>3. ASSUME d # 0 PROVE (r - w) % M = M - d
  <2>0. M - d \in 0 .. M - 1
    BY <1>0, <1>3
  <2>1. CASE r - w = -d
    <3>1. r - w = M * (-1) + (M - d)
      BY <1>0, <2>1
    <3> QED BY <1>0, <1>1, <2>0, <3>1, ModUnique
  <2>2. CASE r - w = M - d
    <3>1. r - w = M * 0 + (M - d)
      BY <1>0, <2>2
    <3> QED BY <1>0, <1>1, <2>0, <3>1, ModUnique
  <2> QED BY <1>0, <1>1, <2>1, <2>2
<1> QED BY <1>1, <1>2, <1>3 DEF r, w, U16

(* The field types of a source. *)
LEMMA SrcTypes ==
    ASSUME NEW s \in SrcRec
    PROVE  /\ s.max_seq \in 0 .. RtpSeqMod - 1 /\ s.cycles \in Nat
           /\ s.base_seq \in 0 .. RtpSeqMod - 1 /\ s.bad_seq \in Nat /\ s.probation \in 0 .. MinSeq
           /\ s.received \in Nat /\ s.expected_prior \in Nat /\ s.received_prior \in Nat
BY Zenon DEF SrcRec

(* The invariant of a stream holds at first. *)
LEMMA MInit == RtpInit => MInv
BY RtpAssumption DEF RtpInit, MInv, ReportsGoOn

(* A source begins to count with the packet numbered n. *)
LEMMA MStart ==
    ASSUME NEW y \in SrcRec, y.probation = 0, NEW n \in Nat, NEW k \in 0 .. MaxPackets - 1
    PROVE  LET x == Counted(source_reset(y, U16(n))) IN
           x \in SrcRec /\ x.probation = 0 /\ SrcOk(x, n, n, k + 1)
<1> DEFINE w == U16(n)
           z == source_reset(y, w)
           x == [z EXCEPT !.received = 1]
<1>1. w \in 0 .. RtpSeqMod - 1 /\ w = n % RtpSeqMod
  BY RtpAssumption DEF U16
<1>2. U32(1) = 1
  BY Unwrapped, RtpAssumption
<1>3. RtpSeqMod + 1 \in Nat /\ 0 \in 0 .. MinSeq
  BY RtpAssumption
<1> HIDE DEF w
<1>4. /\ z \in SrcRec /\ z.max_seq = w /\ z.base_seq = w /\ z.cycles = 0 /\ z.received = 0
      /\ z.received_prior = 0 /\ z.expected_prior = 0 /\ z.probation = 0
  BY <1>1, <1>3, ZenonT(40) DEF source_reset, SrcRec
<1>5. Counted(z) = x
  <2>1. z.received + 1 = 1
    BY <1>4
  <2>2. U32(z.received + 1) = 1
    BY <1>2, <2>1
  <2> QED BY <2>2, Zenon DEF Counted
<1> HIDE DEF z
<1>6. /\ x \in SrcRec /\ x.max_seq = w /\ x.base_seq = w /\ x.cycles = 0 /\ x.received = 1
      /\ x.received_prior = 0 /\ x.expected_prior = 0 /\ x.probation = 0
  BY <1>4, ZenonT(40) DEF SrcRec
<1> HIDE DEF x
<1>7. 1 <= (k + 1) * Dropout
  BY MRoom, RtpAssumption
<1>8. SrcOk(x, n, n, k + 1)
  BY <1>1, <1>6, <1>7 DEF SrcOk
<1> QED BY <1>5, <1>6, <1>8 DEF w, z

(* A source on probation counts nothing yet. *)
LEMMA MProbation ==
    ASSUME NEW s \in SrcRec, s.received = 0, NEW b \in 1 .. MinSeq, NEW n \in Nat, NEW o, NEW k
    PROVE  LET x == [s EXCEPT !.probation = b, !.max_seq = U16(n)] IN
           x \in SrcRec /\ x.probation = b /\ SrcOk(x, n, o, k)
<1> DEFINE w == U16(n)
           x == [s EXCEPT !.probation = b, !.max_seq = w]
<1>1. w \in 0 .. RtpSeqMod - 1 /\ w = n % RtpSeqMod
  BY RtpAssumption DEF U16
<1>2. b \in 0 .. MinSeq /\ b # 0
  BY RtpAssumption
<1> HIDE DEF w
<1>3. x \in SrcRec /\ x.probation = b /\ x.max_seq = w /\ x.received = 0
  BY <1>1, <1>2, ZenonT(40) DEF SrcRec
<1> HIDE DEF x
<1>4. SrcOk(x, n, o, k)
  BY <1>1, <1>2, <1>3 DEF SrcOk
<1> QED BY <1>3, <1>4 DEF w, x

(* A packet in order, d after the last one. *)
LEMMA MInOrder ==
    ASSUME NEW s \in SrcRec, s.probation = 0, NEW h \in Nat, NEW o \in Nat,
           NEW k \in 0 .. MaxPackets - 1, SrcOk(s, h, o, k), NEW d \in 0 .. Dropout - 1
    PROVE  LET x == Counted(InOrder(s, U16(h + d))) IN
           x \in SrcRec /\ x.probation = 0 /\ SrcOk(x, h + d, o, k + 1)
<1> DEFINE w == U16(h + d)
           m == IF w < s.max_seq THEN U32(s.cycles + RtpSeqMod) ELSE s.cycles
           c == U32(s.received + 1)
           y == [s EXCEPT !.cycles = m, !.max_seq = w]
           x == [y EXCEPT !.received = c]
<1>0. d \in 0 .. RtpSeqMod - 1 /\ RtpSeqMod \in Nat /\ RtpSeqMod < Word \div 2 /\ Word \div 2 \in Nat
  BY RtpAssumption
<1>1. /\ w \in 0 .. RtpSeqMod - 1 /\ w = (h + d) % RtpSeqMod
      /\ w = IF s.max_seq + d < RtpSeqMod THEN s.max_seq + d ELSE (s.max_seq + d) - RtpSeqMod
  <2>1. w = (h + d) % RtpSeqMod
    BY DEF U16
  <2> DEFINE r == h % RtpSeqMod
             e == (h + d) % RtpSeqMod
  <2>2. r \in 0 .. RtpSeqMod - 1 /\ e = IF r + d < RtpSeqMod THEN r + d ELSE (r + d) - RtpSeqMod
    BY <1>0, WireDistance
  <2>3. s.max_seq = r
    BY DEF SrcOk
  <2> HIDE DEF r, e
  <2>4. e \in 0 .. RtpSeqMod - 1
    BY <1>0, <2>2
  <2> QED BY <2>1, <2>2, <2>3, <2>4 DEF e
<1>2. /\ s.max_seq \in 0 .. RtpSeqMod - 1 /\ s.cycles \in Nat /\ s.base_seq \in 0 .. RtpSeqMod - 1
      /\ s.received \in Nat /\ s.expected_prior \in Nat /\ s.received_prior \in Nat
  BY SrcTypes
<1>3. /\ o <= h /\ (h - o) + 1 <= k * Dropout /\ s.received <= k * Dropout
      /\ s.cycles + s.max_seq - s.base_seq = h - o /\ s.received_prior <= s.received
      /\ s.expected_prior <= (h - o) + 1
  BY DEF SrcOk
<1>4. /\ k * Dropout \in Nat /\ (k + 1) * Dropout = k * Dropout + Dropout
      /\ (k + 1) * Dropout < Word \div 2 /\ Dropout \in Nat /\ Dropout > 0
  BY MRoom, RtpAssumption
<1> HIDE DEF w
<1>5. c = s.received + 1
  <2>1. s.received + 1 \in Nat /\ s.received + 1 < Word \div 2 + Word \div 2
    BY <1>0, <1>2, <1>3, <1>4
  <2> QED BY <2>1, Unwrapped
<1>6. w < s.max_seq => m = s.cycles + RtpSeqMod
  <2> SUFFICES ASSUME w < s.max_seq PROVE U32(s.cycles + RtpSeqMod) = s.cycles + RtpSeqMod
    OBVIOUS
  <2>1. w = (s.max_seq + d) - RtpSeqMod
    BY <1>0, <1>1, <1>2
  <2>2. s.cycles + RtpSeqMod \in Nat /\ s.cycles + RtpSeqMod < Word \div 2 + Word \div 2
    BY <1>0, <1>1, <1>2, <1>3, <1>4, <2>1
  <2> QED BY <2>2, Unwrapped
<1>7. m \in Nat /\ m + w - s.base_seq = (h + d) - o
  <2>0. d \in Nat /\ w \in Nat /\ s.max_seq \in Nat /\ s.base_seq \in Nat
    BY <1>0, <1>1, <1>2
  <2>a. s.cycles \in Nat /\ s.cycles + s.max_seq - s.base_seq = h - o
    BY <1>2, <1>3
  <2>1. CASE w < s.max_seq
    <3>1. w = (s.max_seq + d) - RtpSeqMod
      BY <1>0, <1>1, <1>2, <2>1
    <3>2. m = s.cycles + RtpSeqMod
      BY <1>6, <2>1
    <3> HIDE DEF m
    <3> QED BY <1>0, <2>0, <2>a, <3>1, <3>2
  <2>2. CASE ~(w < s.max_seq)
    <3>1. w = s.max_seq + d
      BY <1>0, <1>1, <1>2, <2>2
    <3>2. m = s.cycles
      BY <2>2
    <3> HIDE DEF m
    <3> QED BY <2>0, <2>a, <3>1, <3>2
  <2> QED BY <2>1, <2>2
<1>8. c \in Nat
  BY <1>2, <1>5
<1>9. Counted(InOrder(s, w)) = x
  <2>1. y.received = s.received /\ InOrder(s, w) = y
    BY Zenon DEF InOrder, SrcRec
  <2> QED BY <2>1, Zenon DEF Counted
<1> HIDE DEF m, c
<1>10. /\ x \in SrcRec /\ x.max_seq = w /\ x.cycles = m /\ x.received = c
       /\ x.base_seq = s.base_seq /\ x.probation = s.probation
       /\ x.received_prior = s.received_prior /\ x.expected_prior = s.expected_prior
  BY <1>1, <1>7, <1>8, ZenonT(40) DEF SrcRec
<1> HIDE DEF x
<1>11. SrcOk(x, h + d, o, k + 1)
  <2>1. /\ o <= h + d /\ ((h + d) - o) + 1 <= (k + 1) * Dropout /\ c <= (k + 1) * Dropout
        /\ s.received_prior <= c /\ s.expected_prior <= ((h + d) - o) + 1
        /\ c # s.received_prior
    BY <1>0, <1>2, <1>3, <1>4, <1>5
  <2> QED BY <1>1, <1>7, <1>10, <2>1 DEF SrcOk
<1> QED BY <1>9, <1>10, <1>11 DEF w

(* A late packet is counted and moves nothing. *)
LEMMA MLate ==
    ASSUME NEW s \in SrcRec, s.probation = 0, NEW h \in Nat, NEW o \in Nat,
           NEW k \in 0 .. MaxPackets - 1, SrcOk(s, h, o, k)
    PROVE  Counted(s) \in SrcRec /\ Counted(s).probation = 0 /\ SrcOk(Counted(s), h, o, k + 1)
<1> DEFINE c == U32(s.received + 1)
           x == [s EXCEPT !.received = c]
<1>1. /\ s.received \in Nat /\ s.expected_prior \in Nat /\ s.received_prior \in Nat
      /\ s.received <= k * Dropout /\ s.received_prior <= s.received
      /\ o <= h /\ (h - o) + 1 <= k * Dropout
  BY SrcTypes DEF SrcOk
<1>2. /\ k * Dropout \in Nat /\ (k + 1) * Dropout = k * Dropout + Dropout
      /\ (k + 1) * Dropout < Word \div 2 /\ Dropout \in Nat /\ Dropout > 0 /\ Word \div 2 \in Nat
  BY MRoom, RtpAssumption
<1>3. c = s.received + 1 /\ c \in Nat
  <2>1. s.received + 1 \in Nat /\ s.received + 1 < Word \div 2 + Word \div 2
    BY <1>1, <1>2
  <2> QED BY <2>1, Unwrapped
<1>4. Counted(s) = x
  BY Zenon DEF Counted
<1> HIDE DEF c
<1>5. /\ x \in SrcRec /\ x.received = c /\ x.max_seq = s.max_seq /\ x.cycles = s.cycles
      /\ x.base_seq = s.base_seq /\ x.probation = s.probation
      /\ x.received_prior = s.received_prior /\ x.expected_prior = s.expected_prior
  BY <1>3, ZenonT(40) DEF SrcRec
<1> HIDE DEF x
<1>6. SrcOk(x, h, o, k + 1)
  <2>1. /\ (h - o) + 1 <= (k + 1) * Dropout /\ c <= (k + 1) * Dropout
        /\ s.received_prior <= c /\ c # s.received_prior
    BY <1>1, <1>2, <1>3
  <2> QED BY <1>5, <2>1 DEF SrcOk
<1> QED BY <1>4, <1>5, <1>6

(* A jump is only remembered. *)
LEMMA MJump ==
    ASSUME NEW s \in SrcRec, s.probation = 0, NEW h \in Nat, NEW o \in Nat,
           NEW k \in 0 .. MaxPackets - 1, SrcOk(s, h, o, k), NEW v \in Nat
    PROVE  LET x == [s EXCEPT !.bad_seq = v] IN
           x \in SrcRec /\ x.probation = 0 /\ SrcOk(x, h, o, k + 1)
<1> DEFINE x == [s EXCEPT !.bad_seq = v]
<1>1. /\ s.received \in Nat /\ s.received <= k * Dropout /\ (h - o) + 1 <= k * Dropout
  BY SrcTypes DEF SrcOk
<1>2. /\ k * Dropout \in Nat /\ (k + 1) * Dropout = k * Dropout + Dropout /\ Dropout \in Nat
  BY MRoom, RtpAssumption
<1>3. /\ x \in SrcRec /\ x.received = s.received /\ x.max_seq = s.max_seq /\ x.cycles = s.cycles
      /\ x.base_seq = s.base_seq /\ x.probation = s.probation
      /\ x.received_prior = s.received_prior /\ x.expected_prior = s.expected_prior
  BY ZenonT(40) DEF SrcRec
<1> HIDE DEF x
<1>4. SrcOk(x, h, o, k + 1)
  <2>1. (h - o) + 1 <= (k + 1) * Dropout /\ s.received <= (k + 1) * Dropout
    BY <1>1, <1>2
  <2> QED BY <1>3, <2>1 DEF SrcOk
<1> QED BY <1>3, <1>4 DEF x

(* A packet of on_rtp_readable: first, on probation, in order, late, ahead *)
(* or after a restart.                                                     *)
LEMMA MPacket ==
    ASSUME MInv, NEW n \in Nat, on_rtp_readable(n)
    PROVE  MInv'
<1> DEFINE s == IF src = <<>> THEN rtp_source_init(U16(n)) ELSE src
           u == rtp_source_update(s, U16(n))
           w == U16(n)
<1>1. /\ npkts < MaxPackets /\ src' = u.s /\ npkts' = npkts + 1
      /\ high' = (IF u.as \in {"jump", "late"} THEN high ELSE n)
      /\ origin' = (IF u.as = "start" THEN n ELSE origin)
      /\ src # <<>> => n - high > -Misorder /\ n - high <= RtpSeqMod - Misorder
      /\ UNCHANGED <<peer, on, ms, timer, lapsed, nreps>>
  BY DEF on_rtp_readable, stream
<1>2. npkts \in 0 .. MaxPackets - 1 /\ high \in Nat /\ origin \in Nat /\ npkts' \in 0 .. MaxPackets
  BY <1>1, RtpAssumption DEF MInv
<1>3. w \in 0 .. RtpSeqMod - 1 /\ w = n % RtpSeqMod /\ MinSeq \in Nat /\ MinSeq > 0
  BY RtpAssumption DEF U16
<1>4. ReportsGoOn'
  BY <1>1 DEF MInv, ReportsGoOn
<1> SUFFICES /\ high' \in Nat /\ origin' \in Nat
             /\ src' \in SrcRec /\ src'.probation < MinSeq /\ SrcOk(src', high', origin', npkts')
  BY <1>2, <1>4 DEF MInv
<1> HIDE DEF w
<1>5. ASSUME NEW y \in SrcRec, y.probation = 0,
             u = [s |-> Counted(source_reset(y, w)), as |-> "start"]
      PROVE  /\ high' \in Nat /\ origin' \in Nat
             /\ src' \in SrcRec /\ src'.probation < MinSeq /\ SrcOk(src', high', origin', npkts')
  <2>1. src' = Counted(source_reset(y, U16(n))) /\ high' = n /\ origin' = n
    BY <1>1, <1>5 DEF w
  <2> QED BY <1>1, <1>2, <1>3, <1>5, <2>1, MStart, ZenonT(40)
<1>6. ASSUME s \in SrcRec, s.received = 0, NEW b \in 1 .. MinSeq - 1,
             u = [s |-> [s EXCEPT !.probation = b, !.max_seq = w], as |-> "probation"]
      PROVE  /\ high' \in Nat /\ origin' \in Nat
             /\ src' \in SrcRec /\ src'.probation < MinSeq /\ SrcOk(src', high', origin', npkts')
  <2>1. src' = [s EXCEPT !.probation = b, !.max_seq = U16(n)] /\ high' = n /\ origin' = origin
    BY <1>1, <1>6 DEF w
  <2> HIDE DEF s, u
  <2>2. b \in 1 .. MinSeq /\ b < MinSeq
    BY <1>3, <1>6
  <2>3. src' \in SrcRec /\ src'.probation = b /\ SrcOk(src', n, origin, npkts')
    BY <1>6, <2>1, <2>2, MProbation, Zenon
  <2> QED BY <1>2, <2>1, <2>2, <2>3
<1>7. CASE src = <<>>
  <2>1. /\ s \in SrcRec /\ s.max_seq = U16(w - 1) /\ s.probation = MinSeq /\ s.received = 0
    <3>1. U16(w - 1) \in 0 .. RtpSeqMod - 1 /\ RtpSeqMod + 1 \in Nat /\ MinSeq \in 0 .. MinSeq
      BY <1>3, RtpAssumption DEF U16
    <3>2. s = rtp_source_init(w)
      BY <1>7 DEF w
    <3> QED BY <1>3, <3>1, <3>2 DEF rtp_source_init, SrcRec
  <2>2. w = U16(s.max_seq + 1)
    <3>1. w # 0 => U16(w - 1) = w - 1
      BY <1>3, RtpAssumption DEF U16
    <3>2. w = 0 => U16(w - 1) = RtpSeqMod - 1
      <4> SUFFICES ASSUME w = 0 PROVE (0 - 1) % RtpSeqMod = RtpSeqMod - 1
        BY DEF U16
      <4>1. 0 - 1 = RtpSeqMod * (-1) + (RtpSeqMod - 1) /\ RtpSeqMod > 0
        BY RtpAssumption
      <4> QED BY <4>1, ModUnique, RtpAssumption
    <3>3. U16(RtpSeqMod) = 0
      BY RtpAssumption DEF U16
    <3>4. U16(w) = w
      BY <1>3, RtpAssumption DEF U16
    <3>5. CASE w # 0
      <4>1. s.max_seq + 1 = w
        BY <1>3, <2>1, <3>1, <3>5
      <4> QED BY <3>4, <4>1
    <3>6. CASE w = 0
      <4>1. s.max_seq + 1 = RtpSeqMod
        BY <2>1, <3>2, <3>6, RtpAssumption
      <4> QED BY <3>3, <3>6, <4>1
    <3> QED BY <3>5, <3>6
  <2> HIDE DEF s
  <2>3. CASE MinSeq = 1
    <3> DEFINE y == [s EXCEPT !.probation = 0]
    <3>1. y \in SrcRec /\ y.probation = 0
      <4>1. 0 \in 0 .. MinSeq
        BY <1>3
      <4> QED BY <2>1, <4>1, ZenonT(40) DEF SrcRec
    <3>2. u = [s |-> Counted(source_reset(y, w)), as |-> "start"]
      BY <2>1, <2>2, <2>3 DEF rtp_source_update, w
    <3> HIDE DEF y, u
    <3> QED BY <1>5, <3>1, <3>2
  <2>4. CASE MinSeq # 1
    <3> DEFINE b == MinSeq - 1
    <3>1. b \in 1 .. MinSeq - 1
      BY <1>3, <2>4
    <3>2. u = [s |-> [s EXCEPT !.probation = b, !.max_seq = w], as |-> "probation"]
      BY <1>3, <2>1, <2>2, <2>4 DEF rtp_source_update, w
    <3> HIDE DEF b, u
    <3> QED BY <1>6, <2>1, <3>1, <3>2, Zenon
  <2> QED BY <2>3, <2>4
<1>8. CASE src # <<>> /\ src.probation # 0
  <2>1. /\ s = src /\ s \in SrcRec /\ s.probation \in 1 .. MinSeq - 1 /\ s.received = 0
    BY <1>3, <1>8, SrcTypes DEF MInv, SrcOk
  <2> HIDE DEF s
  <2>2. CASE w = U16(s.max_seq + 1) /\ s.probation = 1
    <3> DEFINE y == [s EXCEPT !.probation = 0]
    <3>1. y \in SrcRec /\ y.probation = 0
      <4>1. 0 \in 0 .. MinSeq
        BY <1>3
      <4> QED BY <2>1, <4>1, ZenonT(40) DEF SrcRec
    <3>2. u = [s |-> Counted(source_reset(y, w)), as |-> "start"]
      BY <2>1, <2>2 DEF rtp_source_update, w
    <3> HIDE DEF y, u
    <3> QED BY <1>5, <3>1, <3>2
  <2>3. CASE w = U16(s.max_seq + 1) /\ s.probation # 1
    <3> DEFINE b == s.probation - 1
    <3>1. b \in 1 .. MinSeq - 1
      BY <1>3, <2>1, <2>3
    <3>2. u = [s |-> [s EXCEPT !.probation = b, !.max_seq = w], as |-> "probation"]
      BY <2>1, <2>3 DEF rtp_source_update, w
    <3> HIDE DEF b, u
    <3> QED BY <1>6, <2>1, <3>1, <3>2, Zenon
  <2>4. CASE w # U16(s.max_seq + 1)
    <3> DEFINE b == MinSeq - 1
    <3>1. b \in 1 .. MinSeq - 1
      BY <1>3, <2>1
    <3>2. u = [s |-> [s EXCEPT !.probation = b, !.max_seq = w], as |-> "probation"]
      BY <2>1, <2>4 DEF rtp_source_update, w
    <3> HIDE DEF b, u
    <3> QED BY <1>6, <2>1, <3>1, <3>2, Zenon
  <2> QED BY <2>2, <2>3, <2>4
<1>9. CASE src # <<>> /\ src.probation = 0
  <2> DEFINE udelta == U16(w - src.max_seq)
  <2>1. /\ s = src /\ src \in SrcRec /\ SrcOk(src, high, origin, npkts)
        /\ src.max_seq = high % RtpSeqMod
    BY <1>9 DEF MInv, SrcOk
  <2>2. /\ RtpSeqMod \in Nat /\ Dropout \in Nat \ {0} /\ Misorder \in Nat \ {0}
        /\ Dropout + Misorder <= RtpSeqMod
    BY RtpAssumption
  <2>a. n - high > -Misorder /\ n - high <= RtpSeqMod - Misorder /\ high \in Nat
    BY <1>1, <1>2, <1>9, Zenon
  <2>3. /\ n >= high => udelta = n - high /\ udelta <= RtpSeqMod - Misorder
        /\ n < high => udelta = RtpSeqMod - (high - n) /\ udelta > RtpSeqMod - Misorder
    <3>1. ASSUME n >= high PROVE udelta = n - high /\ n - high <= RtpSeqMod - Misorder
      <4> DEFINE d == n - high
      <4>1. d \in 0 .. RtpSeqMod - 1 /\ high + d = n /\ d <= RtpSeqMod - Misorder
        BY <2>a, <2>2, <3>1
      <4> HIDE DEF d
      <4>2. U16(((high + d) % RtpSeqMod) - (high % RtpSeqMod)) = d
        BY <1>2, <4>1, WireDistance
      <4>3. w = (high + d) % RtpSeqMod
        BY <1>3, <4>1, Zenon
      <4>4. udelta = d
        BY <2>1, <4>2, <4>3, Zenon
      <4> HIDE DEF udelta
      <4> QED BY <4>1, <4>4 DEF d
    <3>2. ASSUME n < high PROVE udelta = RtpSeqMod - (high - n) /\ high - n < Misorder
      <4> DEFINE d == high - n
      <4>1. d \in 0 .. RtpSeqMod - 1 /\ d # 0 /\ n + d = high /\ d < Misorder
        BY <2>a, <2>2, <3>2
      <4> HIDE DEF d
      <4>2. U16((n % RtpSeqMod) - ((n + d) % RtpSeqMod)) = RtpSeqMod - d
        BY <4>1, WireDistance
      <4>3. w = n % RtpSeqMod /\ src.max_seq = (n + d) % RtpSeqMod
        BY <1>3, <2>1, <4>1, Zenon
      <4>4. udelta = RtpSeqMod - d
        BY <4>2, <4>3, Zenon
      <4> HIDE DEF udelta
      <4> QED BY <4>1, <4>4 DEF d
    <3> HIDE DEF udelta
    <3> QED BY <1>2, <2>2, <3>1, <3>2
  <2>4. \/ u = [s |-> Counted(InOrder(src, w)), as |-> "next"] /\ udelta < Dropout
        \/ u = [s |-> Counted(source_reset(src, w)), as |-> "start"]
        \/ u = [s |-> [src EXCEPT !.bad_seq = U16(w + 1)], as |-> "jump"]
        \/ u = [s |-> Counted(src), as |-> "late"]
    <3> HIDE DEF s
    <3> QED BY <1>9, <2>1, Zenon DEF rtp_source_update, w
  <2> HIDE DEF u, udelta, s
  <2>5. CASE u = [s |-> Counted(InOrder(src, w)), as |-> "next"] /\ udelta < Dropout
    <3> DEFINE d == n - high
    <3>1. d \in 0 .. Dropout - 1 /\ high + d = n
      BY <1>2, <2>2, <2>3, <2>5
    <3>2. src' = Counted(InOrder(src, U16(high + d))) /\ high' = high + d /\ origin' = origin
      BY <1>1, <2>5, <3>1 DEF w
    <3> HIDE DEF d
    <3>3. src' \in SrcRec /\ src'.probation = 0 /\ SrcOk(src', high + d, origin, npkts + 1)
      BY <1>2, <1>9, <2>1, <3>1, <3>2, MInOrder
    <3> QED BY <1>1, <1>2, <1>3, <3>1, <3>2, <3>3
  <2>6. CASE u = [s |-> Counted(source_reset(src, w)), as |-> "start"]
    BY <1>5, <1>9, <2>1, <2>6
  <2>7. CASE u = [s |-> [src EXCEPT !.bad_seq = U16(w + 1)], as |-> "jump"]
    <3>1. U16(w + 1) \in Nat
      BY <1>3, <2>2 DEF U16
    <3>2. src' = [src EXCEPT !.bad_seq = U16(w + 1)] /\ high' = high /\ origin' = origin
      BY <1>1, <2>7
    <3>3. src' \in SrcRec /\ src'.probation = 0 /\ SrcOk(src', high, origin, npkts + 1)
      BY <1>2, <1>9, <2>1, <3>1, <3>2, MJump
    <3> QED BY <1>1, <1>2, <1>3, <3>2, <3>3
  <2>8. CASE u = [s |-> Counted(src), as |-> "late"]
    <3>1. src' = Counted(src) /\ high' = high /\ origin' = origin
      BY <1>1, <2>8
    <3>2. src' \in SrcRec /\ src'.probation = 0 /\ SrcOk(src', high, origin, npkts + 1)
      BY <1>2, <1>9, <2>1, <3>1, MLate, Zenon
    <3> QED BY <1>1, <1>2, <1>3, <3>1, <3>2
  <2> QED BY <2>4, <2>5, <2>6, <2>7, <2>8
<1> QED BY <1>7, <1>8, <1>9

(* What has been counted is far from wrapping. *)
LEMMA MBound ==
    ASSUME NEW n \in 0 .. MaxPackets
    PROVE  n * Dropout \in Nat /\ n * Dropout < Word \div 2
<1>1. (MaxPackets - n) * Dropout >= 0 /\ n * Dropout \in Nat
  BY RtpAssumption
<1>2. n * Dropout <= MaxPackets * Dropout
  BY <1>1, RtpAssumption
<1>3. MaxPackets * Dropout \in Nat /\ Word \div 2 \in Nat
  BY RtpAssumption
<1> QED BY <1>1, <1>2, <1>3, RtpAssumption

(* What a report expects is what was sent since the source began to count. *)
LEMMA ExpectedIs ==
    ASSUME src \in SrcRec, src.probation = 0, SrcOk(src, high, origin, npkts), MInv
    PROVE  Expected = (high - origin) + 1
<1>1. high \in Nat /\ origin \in Nat /\ npkts \in 0 .. MaxPackets
  BY DEF MInv
<1>2. /\ src.cycles + src.max_seq - src.base_seq = high - origin
      /\ origin <= high /\ (high - origin) + 1 <= npkts * Dropout
  BY DEF SrcOk
<1>3. npkts * Dropout \in Nat /\ npkts * Dropout < Word \div 2 /\ Word \div 2 \in Nat
  BY <1>1, MBound, RtpAssumption
<1>4. (high - origin) + 1 \in Nat /\ (high - origin) + 1 < Word \div 2 + Word \div 2
  BY <1>1, <1>2, <1>3
<1>5. U32((high - origin) + 1) = (high - origin) + 1
  BY <1>4, Unwrapped
<1> QED BY <1>2, <1>5 DEF Expected

(* Making a report closes the interval. *)
LEMMA MReport ==
    ASSUME MInv, rtp_source_report
    PROVE  src' # <<>> => src' \in SrcRec /\ src'.probation < MinSeq /\ SrcOk(src', high, origin, npkts)
<1>1. CASE src' = src
  BY <1>1 DEF MInv
<1>2. CASE src' # src
  <2> DEFINE e == Expected
             x == [src EXCEPT !.expected_prior = e, !.received_prior = src.received]
  <2>1. src # <<>> /\ src.received > 0 /\ src' = x
    BY <1>2, Zenon DEF rtp_source_report
  <2>2. /\ src \in SrcRec /\ src.probation = 0 /\ src.probation < MinSeq
        /\ SrcOk(src, high, origin, npkts) /\ src.received \in Nat
    BY <2>1, SrcTypes DEF MInv, SrcOk
  <2>3. e = (high - origin) + 1
    BY <2>2, ExpectedIs
  <2>4. e \in Nat
    BY <2>2, <2>3 DEF MInv, SrcOk
  <2> HIDE DEF e
  <2>5. /\ x \in SrcRec /\ x.received = src.received /\ x.max_seq = src.max_seq
        /\ x.cycles = src.cycles /\ x.base_seq = src.base_seq /\ x.probation = src.probation
        /\ x.received_prior = src.received /\ x.expected_prior = e
    BY <2>2, <2>4, ZenonT(40) DEF SrcRec
  <2> HIDE DEF x
  <2>6. SrcOk(x, high, origin, npkts)
    BY <2>2, <2>3, <2>5 DEF SrcOk
  <2> QED BY <2>1, <2>2, <2>5, <2>6
<1> QED BY <1>1, <1>2

(* Packets, reports, the interval and BYE keep the invariant of a stream. *)
LEMMA MStep == MInv /\ [RtpNext]_rtpVars => MInv'
<1> SUFFICES ASSUME MInv, [RtpNext]_rtpVars PROVE MInv'
  BY Zenon
<1>1. ASSUME NEW n \in 0 .. high + RtpSeqMod, on_rtp_readable(n) PROVE MInv'
  <2>1. n \in Nat
    BY RtpAssumption DEF MInv
  <2> QED BY <1>1, <2>1, MPacket
<1>2. ASSUME UNCHANGED <<src, high, origin, npkts>>, ReportsGoOn' PROVE MInv'
  BY <1>2 DEF MInv
<1>3. ASSUME UNCHANGED <<high, origin, npkts>>, UNCHANGED src \/ rtp_source_report, ReportsGoOn'
      PROVE  MInv'
  <2>1. CASE UNCHANGED src
    BY <1>2, <1>3, <2>1
  <2>2. CASE rtp_source_report
    BY <1>3, <2>2, MReport DEF MInv
  <2> QED BY <1>3, <2>1, <2>2
<1>4. CASE set_peer
  <2>1. ReportsGoOn'
    BY <1>4, Zenon DEF set_peer, arm_timer, ReportsGoOn
  <2> QED BY <1>2, <1>4, <2>1 DEF set_peer
<1>5. CASE set_peer_fails
  <2>1. ReportsGoOn'
    BY <1>5 DEF set_peer_fails, ReportsGoOn
  <2> QED BY <1>2, <1>5, <2>1 DEF set_peer_fails
<1>6. CASE set_rtcp_interval
  <2>1. ReportsGoOn'
    BY <1>6 DEF set_rtcp_interval, ReportsGoOn, MInv
  <2> QED BY <1>2, <1>6, <2>1 DEF set_rtcp_interval
<1>7. ASSUME NEW sent \in BOOLEAN, on_report_timer(sent) PROVE MInv'
  <2>1. ReportsGoOn'
    BY <1>7, Zenon DEF on_report_timer, arm_timer, ReportsGoOn, MInv
  <2>2. UNCHANGED <<high, origin, npkts>> /\ (UNCHANGED src \/ rtp_source_report)
    BY <1>7, Zenon DEF on_report_timer
  <2> QED BY <1>3, <2>1, <2>2
<1>8. ASSUME NEW sent \in BOOLEAN, bye(sent) PROVE MInv'
  <2>1. ReportsGoOn'
    BY <1>8 DEF bye, ReportsGoOn, MInv
  <2>2. UNCHANGED <<high, origin, npkts>> /\ (UNCHANGED src \/ rtp_source_report)
    BY <1>8, Zenon DEF bye
  <2> QED BY <1>3, <2>1, <2>2
<1>9. CASE UNCHANGED rtpVars
  <2>1. ReportsGoOn'
    BY <1>9 DEF rtpVars, ReportsGoOn, MInv
  <2> QED BY <1>2, <1>9, <2>1 DEF rtpVars
<1> QED BY <1>1, <1>4, <1>5, <1>6, <1>7, <1>8, <1>9 DEF RtpNext

(* An interval without packets expects none, so no interval loses all of   *)
(* what it expected.                                                       *)
LEMMA MFraction == MInv => FractionFits
<1> SUFFICES ASSUME MInv, src # <<>>, src.received > 0, ExpectedInterval # 0
             PROVE  LostInterval < ExpectedInterval
  BY Zenon DEF FractionFits
<1> DEFINE E == (high - origin) + 1
           x == E - src.expected_prior
           y == src.received - src.received_prior
           half == Word \div 2
<1>1. /\ src \in SrcRec /\ src.probation = 0 /\ SrcOk(src, high, origin, npkts)
      /\ high \in Nat /\ origin \in Nat /\ npkts \in 0 .. MaxPackets
      /\ src.received \in Nat /\ src.received_prior \in Nat /\ src.expected_prior \in Nat
  BY SrcTypes DEF MInv, SrcOk
<1>2. Expected = E
  BY <1>1, ExpectedIs
<1>3. half \in Nat /\ npkts * Dropout \in Nat /\ npkts * Dropout < half /\ Word \in Nat /\ half + half <= Word
  BY <1>1, MBound, RtpAssumption
<1>4. /\ origin <= high /\ E <= npkts * Dropout /\ src.received <= npkts * Dropout
      /\ src.received_prior <= src.received /\ src.expected_prior <= E
      /\ src.received = src.received_prior => src.expected_prior = E
  BY <1>1 DEF SrcOk
<1>5. x \in Nat /\ y \in Nat /\ x < half /\ y < half /\ (y = 0 => x = 0)
  <2>1. E \in Nat
    BY <1>1, <1>4
  <2> HIDE DEF E, half
  <2> QED BY <1>1, <1>3, <1>4, <2>1, SMTT(30)
<1>6. ExpectedInterval = x
  <2>1. ExpectedInterval = U32(x)
    BY <1>2 DEF ExpectedInterval
  <2> HIDE DEF x
  <2> QED BY <1>3, <1>5, <2>1, Unwrapped
<1>7. U32(src.received - src.received_prior) = y
  <2> HIDE DEF x
  <2>1. U32(y) = y
    <3> HIDE DEF y
    <3> QED BY <1>3, <1>5, Unwrapped
  <2> QED BY <2>1
<1>8. LostInterval = I32(x - y)
  BY <1>6, <1>7 DEF LostInterval
<1> HIDE DEF x, y, E
<1>9. I32(x - y) = x - y
  <2>1. CASE x >= y
    <3> DEFINE d == x - y
    <3>1. d \in Nat /\ d < half
      BY <1>3, <1>5, <2>1
    <3> HIDE DEF d
    <3>2. U32(d) = d
      BY <1>3, <3>1, Unwrapped
    <3>3. I32(d) = d
      BY <1>3, <3>1, <3>2 DEF I32
    <3> QED BY <3>3 DEF d
  <2>2. CASE x < y
    <3> DEFINE d == x - y
               r == Word + d
    <3>1. d \in Int /\ d < 0 /\ d > -half
      BY <1>3, <1>5, <2>2
    <3> HIDE DEF d, half
    <3>2. Word > 0 /\ r \in 0 .. Word - 1 /\ d = Word * (-1) + r /\ r >= half
      BY <1>3, <3>1
    <3> HIDE DEF r
    <3>3. U32(d) = r
      BY <1>3, <3>1, <3>2, ModUnique DEF U32
    <3>4. I32(d) = r - Word
      BY <3>2, <3>3 DEF I32, half
    <3>5. I32(d) = d
      BY <1>3, <3>1, <3>4 DEF r
    <3> QED BY <3>5 DEF d
  <2> QED BY <1>5, <2>1, <2>2
<1> QED BY <1>5, <1>6, <1>8, <1>9

(* For any sizes of the windows and of the counters, while the counters do *)
(* not wrap: over losses, repeats, reordering and restarts the extended    *)
(* number of rtp_source_update counts the sender's packets, the fraction   *)
(* of a report fits its octet, and reports stop only at a BYE or a failure.*)
THEOREM ReportsAreExact == RtpSpec => []MediaReports
<1>1. MInv => ExtendedExact
  <2> SUFFICES ASSUME MInv, src # <<>>, src.probation = 0
               PROVE  U32(src.cycles + src.max_seq - src.base_seq) = high - origin
    BY Zenon DEF ExtendedExact
  <2>1. /\ high - origin \in Nat /\ high - origin < Word \div 2 + Word \div 2
        /\ src.cycles + src.max_seq - src.base_seq = high - origin
    BY MBound, RtpAssumption DEF MInv, SrcOk
  <2> QED BY <2>1, Unwrapped
<1>2. MInv => MediaReports
  BY <1>1, MFraction DEF MInv, MediaReports
<1> QED BY MInit, MStep, <1>2, PTL DEF RtpSpec

Msg == [id : 0 .. MaxSends, len : Nat]

RingOk(x) ==
    /\ x.ring \in Seq(Msg) /\ Len(x.ring) > 0
    /\ x.head \in 0 .. Len(x.ring) - 1
    /\ x.n \in 0 .. Len(x.ring)
    /\ x.bytes \in Nat

(* The ring of x read from its head. *)
Slot(x, i) == x.ring[1 + ((x.head + i) % Len(x.ring))]
Queued(x) == [i \in 1 .. x.n |-> Slot(x, i - 1)]

(* Indices around a ring of c slots from head h. *)
LEMMA Wraps ==
    ASSUME NEW c \in Nat, NEW h \in 0 .. c - 1, NEW i \in 0 .. c
    PROVE  /\ 1 + ((h + i) % c) \in 1 .. c /\ (h + i) % c \in 0 .. c - 1
           /\ (h + i) % c = IF h + i < c THEN h + i ELSE (h + i) - c
OBVIOUS

(* Two places of the ring are two places. *)
LEMMA Apart ==
    ASSUME NEW c \in Nat, NEW h \in 0 .. c - 1, NEW i \in 0 .. c - 1, NEW j \in 0 .. c - 1, i # j
    PROVE  1 + ((h + i) % c) # 1 + ((h + j) % c)
<1>1. i \in 0 .. c /\ j \in 0 .. c
  OBVIOUS
<1>2. /\ (h + i) % c = IF h + i < c THEN h + i ELSE (h + i) - c
      /\ (h + j) % c = IF h + j < c THEN h + j ELSE (h + j) - c
  BY <1>1, Wraps, Zenon
<1> QED BY <1>2

(* Counting on from a later head is counting on from the head. *)
LEMMA Shifts ==
    ASSUME NEW c \in Nat, NEW h \in 0 .. c - 1, NEW k \in 0 .. c, NEW i \in 0 .. c - 1, k + i < c
    PROVE  (((h + k) % c) + i) % c = (h + (k + i)) % c
<1>1. k + i \in 0 .. c /\ i \in 0 .. c
  OBVIOUS
<1>2. /\ (h + k) % c = IF h + k < c THEN h + k ELSE (h + k) - c
      /\ (h + (k + i)) % c = IF h + (k + i) < c THEN h + (k + i) ELSE (h + (k + i)) - c
      /\ (h + k) % c \in 0 .. c - 1
  BY <1>1, Wraps, Zenon
<1>3. (((h + k) % c) + i) % c = IF ((h + k) % c) + i < c THEN ((h + k) % c) + i ELSE (((h + k) % c) + i) - c
  BY <1>1, <1>2, Wraps, Zenon
<1> QED BY <1>2, <1>3

(* Two sequences of the same length and elements are equal. *)
LEMMA SameSeq ==
    ASSUME NEW S, NEW s \in Seq(S), NEW t \in Seq(S), Len(s) = Len(t),
           \A k \in 1 .. Len(s) : s[k] = t[k]
    PROVE  s = t
OBVIOUS

(* What is read round the ring is a sequence of datagrams. *)
LEMMA QueuedType ==
    ASSUME NEW x, RingOk(x)
    PROVE  /\ Queued(x) \in Seq(Msg) /\ Len(Queued(x)) = x.n
           /\ \A i \in 1 .. x.n : Queued(x)[i] = Slot(x, i - 1)
<1>1. ASSUME NEW i \in 1 .. x.n PROVE Slot(x, i - 1) \in Msg
  <2>1. x.head \in 0 .. Len(x.ring) - 1 /\ Len(x.ring) \in Nat /\ i - 1 \in 0 .. Len(x.ring)
    BY DEF RingOk
  <2>2. 1 + ((x.head + (i - 1)) % Len(x.ring)) \in 1 .. Len(x.ring)
    BY <2>1, Wraps, Zenon
  <2> QED BY <2>2 DEF RingOk, Slot
<1>2. x.n \in Nat
  BY DEF RingOk
<1> QED BY <1>1, <1>2 DEF Queued

(* grow keeps what is queued and makes room. *)
LEMMA GrowKeeps ==
    ASSUME RingOk(q)
    PROVE  /\ RingOk(Grown(q)) /\ Queued(Grown(q)) = Queued(q)
           /\ Grown(q).n = q.n /\ Grown(q).bytes = q.bytes /\ q.n < Len(Grown(q).ring)
<1> DEFINE r == [i \in 1 .. 2 * Len(q.ring) |-> IF i <= q.n THEN At(i - 1) ELSE NoMsg]
           g == Grown(q)
<1>0. q.n \in Nat /\ Len(q.ring) \in Nat /\ q.n <= Len(q.ring) /\ Len(q.ring) > 0 /\ q.bytes \in Nat
  BY DEF RingOk
<1>1. NoMsg \in Msg
  BY TxqAssumption DEF NoMsg, Msg
<1>2. \A i \in 1 .. q.n : At(i - 1) = Slot(q, i - 1) /\ Slot(q, i - 1) \in Msg
  <2>1. Queued(q) \in Seq(Msg) /\ Len(Queued(q)) = q.n
    BY QueuedType
  <2>2. \A i \in 1 .. q.n : Queued(q)[i] \in Msg /\ Queued(q)[i] = Slot(q, i - 1)
    BY <1>0, <2>1, QueuedType
  <2> QED BY <2>2 DEF At, Slot, cap
<1>3. r \in Seq(Msg) /\ Len(r) = 2 * Len(q.ring) /\ \A i \in 1 .. q.n : r[i] = At(i - 1)
  BY <1>0, <1>1, <1>2
<1>4. g.ring = r /\ g.head = 0 /\ g.n = q.n /\ g.bytes = q.bytes
  BY DEF Grown
<1> HIDE DEF r, g
<1>5. RingOk(g) /\ q.n < Len(g.ring)
  BY <1>0, <1>3, <1>4 DEF RingOk
<1>6. ASSUME NEW i \in 1 .. q.n PROVE Slot(g, i - 1) = Slot(q, i - 1)
  <2>1. (0 + (i - 1)) % Len(r) = i - 1
    <3>1. Len(r) \in Nat /\ 0 \in 0 .. Len(r) - 1 /\ i - 1 \in 0 .. Len(r) /\ i - 1 < Len(r)
      BY <1>0, <1>3
    <3>2. (0 + (i - 1)) % Len(r) = IF 0 + (i - 1) < Len(r) THEN 0 + (i - 1) ELSE (0 + (i - 1)) - Len(r)
      BY <3>1, Wraps, Zenon
    <3> QED BY <3>1, <3>2
  <2>2. Slot(g, i - 1) = r[1 + (i - 1)]
    BY <1>4, <2>1 DEF Slot
  <2> QED BY <1>2, <1>3, <2>2
<1>7. Queued(g) = Queued(q)
  BY <1>4, <1>6 DEF Queued
<1> QED BY <1>4, <1>5, <1>7 DEF g

(* A datagram put into a ring with room is the last of the queue. *)
LEMMA PushAppends ==
    ASSUME NEW x, RingOk(x), x.n < Len(x.ring), NEW m \in Msg
    PROVE  RingOk(Pushed(x, m)) /\ Queued(Pushed(x, m)) = Append(Queued(x), m)
<1> DEFINE at == 1 + ((x.head + x.n) % Len(x.ring))
           y == Pushed(x, m)
<1>0. /\ x.n \in Nat /\ Len(x.ring) \in Nat /\ x.head \in Nat /\ x.head < Len(x.ring)
      /\ x.ring \in Seq(Msg) /\ x.bytes \in Nat /\ m.len \in Nat
  BY SMTT(30) DEF RingOk, Msg
<1>1. y.ring = [x.ring EXCEPT ![at] = m] /\ y.head = x.head /\ y.n = x.n + 1 /\ y.bytes = x.bytes + m.len
  BY DEF Pushed
<1>2. at \in 1 .. Len(x.ring)
  <2>1. x.head \in 0 .. Len(x.ring) - 1 /\ x.n \in 0 .. Len(x.ring)
    BY <1>0
  <2> QED BY <1>0, <2>1, Wraps, Zenon
<1>3. /\ y.ring \in Seq(Msg) /\ Len(y.ring) = Len(x.ring) /\ y.ring[at] = m
      /\ \A k \in 1 .. Len(x.ring) : k # at => y.ring[k] = x.ring[k]
  BY <1>0, <1>1, <1>2, SMTT(30)
<1>4. ASSUME NEW i \in 1 .. x.n
      PROVE  1 + ((x.head + (i - 1)) % Len(x.ring)) \in (1 .. Len(x.ring)) \ {at}
  <2>1. /\ x.head \in 0 .. Len(x.ring) - 1 /\ i - 1 \in 0 .. Len(x.ring) /\ i - 1 # x.n
        /\ i - 1 \in 0 .. Len(x.ring) - 1 /\ x.n \in 0 .. Len(x.ring) - 1
    BY <1>0
  <2>2. 1 + ((x.head + (i - 1)) % Len(x.ring)) \in 1 .. Len(x.ring)
    BY <1>0, <2>1, Wraps, Zenon
  <2>3. 1 + ((x.head + (i - 1)) % Len(x.ring)) # at
    BY <1>0, <2>1, Apart, Zenon
  <2> QED BY <2>2, <2>3, Zenon
<1> HIDE DEF y
<1>5. RingOk(y)
  <2>1. y.n \in 0 .. Len(y.ring) /\ y.head \in 0 .. Len(y.ring) - 1 /\ y.bytes \in Nat
    <3>1. x.n + 1 \in 0 .. Len(x.ring) /\ x.head \in 0 .. Len(x.ring) - 1
      BY <1>0, SMTT(30)
    <3>2. \A a, b \in Nat : a + b \in Nat
      OBVIOUS
    <3>3. x.bytes + m.len \in Nat
      BY <1>0, <3>2, Zenon
    <3> QED BY <1>1, <1>3, <3>1, <3>3, Zenon
  <2> QED BY <1>0, <1>3, <2>1 DEF RingOk
<1>6. \A i \in 1 .. x.n : Slot(y, i - 1) = Slot(x, i - 1)
  BY <1>1, <1>3, <1>4 DEF Slot
<1>7. Slot(y, x.n) = m
  BY <1>1, <1>3 DEF Slot
<1>8. /\ Queued(y) \in Seq(Msg) /\ Len(Queued(y)) = x.n + 1
      /\ \A i \in 1 .. x.n + 1 : Queued(y)[i] = Slot(y, i - 1)
  BY <1>1, <1>5, QueuedType, Zenon
<1>9. /\ Append(Queued(x), m) \in Seq(Msg) /\ Len(Append(Queued(x), m)) = x.n + 1
      /\ \A i \in 1 .. x.n : Append(Queued(x), m)[i] = Slot(x, i - 1)
      /\ Append(Queued(x), m)[x.n + 1] = m
  BY <1>0, QueuedType
<1>10. \A i \in 1 .. x.n + 1 : Queued(y)[i] = Append(Queued(x), m)[i]
  BY <1>0, <1>6, <1>7, <1>8, <1>9
<1>11. Queued(y) = Append(Queued(x), m)
  BY <1>8, <1>9, <1>10, SameSeq, Zenon
<1> QED BY <1>5, <1>11 DEF y

(* pop: the k oldest leave, the others stay in order. *)
LEMMA PopDrops ==
    ASSUME RingOk(q), NEW k \in 0 .. q.n, NEW b \in Nat
    PROVE  LET x == [ring |-> q.ring, head |-> (q.head + k) % Len(q.ring), n |-> q.n - k, bytes |-> b] IN
           RingOk(x) /\ Queued(x) = SubSeq(Queued(q), k + 1, q.n)
<1> DEFINE c == Len(q.ring)
           x == [ring |-> q.ring, head |-> (q.head + k) % Len(q.ring), n |-> q.n - k, bytes |-> b]
<1>0. c \in Nat /\ q.head \in 0 .. c - 1 /\ q.n \in Nat /\ q.n <= c /\ k \in 0 .. c /\ c > 0
  BY DEF RingOk
<1>1. x.ring = q.ring /\ x.head = (q.head + k) % c /\ x.n = q.n - k /\ x.bytes = b
  OBVIOUS
<1> HIDE DEF x, c
<1>2. (q.head + k) % c \in 0 .. c - 1
  BY <1>0, Wraps, Zenon
<1>3. RingOk(x)
  <2>1. q.n - k \in 0 .. c
    BY <1>0
  <2> QED BY <1>0, <1>1, <1>2, <2>1 DEF RingOk, c
<1>4. ASSUME NEW i \in 1 .. q.n - k PROVE Slot(x, i - 1) = Slot(q, (k + i) - 1)
  <2>1. i - 1 \in 0 .. c - 1 /\ k + (i - 1) < c /\ k + (i - 1) = (k + i) - 1
    BY <1>0
  <2>2. (((q.head + k) % c) + (i - 1)) % c = (q.head + (k + (i - 1))) % c
    BY <1>0, <2>1, Shifts, Zenon
  <2> QED BY <1>1, <2>1, <2>2 DEF Slot, c
<1>5. /\ Queued(x) \in Seq(Msg) /\ Len(Queued(x)) = q.n - k
      /\ \A i \in 1 .. q.n - k : Queued(x)[i] = Slot(x, i - 1)
  BY <1>1, <1>3, QueuedType
<1>6. /\ Queued(q) \in Seq(Msg) /\ Len(Queued(q)) = q.n
      /\ \A i \in 1 .. q.n : Queued(q)[i] = Slot(q, i - 1)
  BY QueuedType
<1> DEFINE t == SubSeq(Queued(q), k + 1, q.n)
<1>7. t \in Seq(Msg) /\ Len(t) = q.n - k /\ \A i \in 1 .. q.n - k : t[i] = Queued(q)[k + i]
  BY <1>0, <1>6, SMTT(30)
<1> HIDE DEF t
<1>8. \A i \in 1 .. q.n - k : Queued(x)[i] = t[i]
  <2> TAKE i \in 1 .. q.n - k
  <2>1. k + i \in 1 .. q.n
    BY <1>0
  <2> QED BY <1>4, <1>5, <1>6, <1>7, <2>1
<1>9. Queued(x) = t
  BY <1>5, <1>7, <1>8, SameSeq
<1> QED BY <1>3, <1>9 DEF t, x

(* Lengths are numbers. *)
LEMMA MsgLen == \A m \in Msg : m.len \in Nat
BY DEF Msg

-------------------------------------------------------------------------------
(* Induction and definition by recursion up to a bound, for the loops of   *)
(* the code: stated with sets and functions, which the provers can apply,  *)
(* and from the fact that the naturals are well ordered.  The fact is the  *)
(* library's; it is a hypothesis up to the theorems, because everything in *)
(* the library's modules is carried along by every step that follows them. *)

(* A non-empty set of naturals has a least element. *)
WellOrdered == \A S \in SUBSET Nat : S # {} => \E x \in S : \A y \in S : x <= y

(* A set that holds 0 and with every number below N its successor holds    *)
(* all numbers up to N.                                                    *)
LEMMA BoundedInduction ==
    ASSUME WellOrdered, NEW N \in Nat, NEW S, 0 \in S, \A n \in 0 .. N - 1 : n \in S => n + 1 \in S
    PROVE  0 .. N \subseteq S
<1> DEFINE Out == {n \in 0 .. N : n \notin S}
<1> SUFFICES ASSUME Out # {} PROVE FALSE
  OBVIOUS
<1>1. Out \in SUBSET Nat
  OBVIOUS
<1>2. PICK x \in Out : \A y \in Out : x <= y
  <2> HIDE DEF Out
  <2> QED BY <1>1, Zenon DEF WellOrdered
<1>3. x # 0 /\ x - 1 \in 0 .. N - 1
  BY <1>2
<1>4. x - 1 \in S
  BY <1>2, <1>3
<1>5. (x - 1) + 1 \in S
  BY <1>3, <1>4
<1> QED BY <1>2, <1>5

(* f starts at v0 and follows the step functions, N times. *)
Iterate(f, V, v0, N, step) ==
    /\ f \in [0 .. N -> V]
    /\ f[0] = v0
    /\ \A k \in 1 .. N : f[k] = step[k][f[k - 1]]

(* A step function and a first value determine a function of the naturals  *)
(* up to a bound.                                                          *)
LEMMA Iterates ==
    ASSUME WellOrdered, NEW V, NEW v0 \in V, NEW N \in Nat, NEW step \in [1 .. N -> [V -> V]]
    PROVE  \E f : Iterate(f, V, v0, N, step)
<1> DEFINE Good(n) == \E f \in [0 .. n -> V] :
                         f[0] = v0 /\ \A k \in 1 .. n : f[k] = step[k][f[k - 1]]
           S == {n \in Nat : Good(n)}
<1>1. 0 \in S
  <2> DEFINE g == [k \in 0 .. 0 |-> v0]
  <2>1. g \in [0 .. 0 -> V] /\ g[0] = v0 /\ 1 .. 0 = {}
    OBVIOUS
  <2>2. Good(0)
    <3> HIDE DEF g
    <3> QED BY <2>1
  <2> QED BY <2>2
<1>2. ASSUME NEW n \in 0 .. N - 1, n \in S PROVE n + 1 \in S
  <2>1. PICK f \in [0 .. n -> V] : f[0] = v0 /\ \A k \in 1 .. n : f[k] = step[k][f[k - 1]]
    BY <1>2
  <2> DEFINE g == [k \in 0 .. n + 1 |-> IF k = n + 1 THEN step[n + 1][f[n]] ELSE f[k]]
  <2>2. step[n + 1][f[n]] \in V
    BY <2>1
  <2>3. g \in [0 .. n + 1 -> V] /\ g[0] = v0
    BY <2>1, <2>2
  <2>4. \A k \in 1 .. n + 1 : g[k] = step[k][g[k - 1]]
    BY <2>1
  <2>5. Good(n + 1)
    <3> HIDE DEF g
    <3> QED BY <2>3, <2>4, Zenon
  <2>6. n + 1 \in Nat
    OBVIOUS
  <2> HIDE DEF Good
  <2> QED BY <2>5, <2>6, SMTT(30)
<1>3. 0 .. N \subseteq S
  <2> HIDE DEF S
  <2> QED BY <1>1, <1>2, BoundedInduction, Zenon
<1> QED BY <1>3 DEF Iterate

-------------------------------------------------------------------------------
(* Bytes(s) adds up the lengths: sums of parts of a sequence. *)
Sums(s) == CHOOSE g : g = [k \in 0 .. Len(s) |-> IF k = 0 THEN 0 ELSE g[k - 1] + s[k].len]

(* The byte count of a sequence by its parts. *)
LEMMA SumsDef ==
    ASSUME WellOrdered,
           NEW s \in Seq(Msg)
    PROVE  /\ Bytes(s) = Sums(s)[Len(s)] /\ Sums(s) \in [0 .. Len(s) -> Nat] /\ Sums(s)[0] = 0
           /\ \A k \in 1 .. Len(s) : Sums(s)[k] = Sums(s)[k - 1] + s[k].len
<1> DEFINE N == Len(s)
           len(k) == s[k].len
           Body(g) == [k \in 0 .. N |-> IF k = 0 THEN 0 ELSE g[k - 1] + len(k)]
           step == [k \in 1 .. N |-> [v \in Nat |-> v + len(k)]]
<1>1. N \in Nat /\ \A k \in 1 .. N : len(k) \in Nat
  <2>1. N \in Nat /\ \A k \in 1 .. N : s[k] \in Msg
    OBVIOUS
  <2> QED BY <2>1, MsgLen, Zenon
<1>2. Bytes(s) = Sums(s)[N] /\ Sums(s) = CHOOSE g : g = Body(g)
  BY DEF Bytes, Sums
<1> HIDE DEF N, len
<1>3. step \in [1 .. N -> [Nat -> Nat]] /\ \A k \in 1 .. N, v \in Nat : step[k][v] = v + len(k)
  BY <1>1
<1> HIDE DEF step
<1>4. PICK f : Iterate(f, Nat, 0, N, step)
  BY <1>1, <1>3, Iterates, Zenon
<1>5. f = Body(f)
  <2>1. \A k \in 1 .. N : f[k] = f[k - 1] + len(k)
    <3> TAKE k \in 1 .. N
    <3>1. k - 1 \in 0 .. N
      BY <1>1
    <3>2. f[k - 1] \in Nat /\ f[k] = step[k][f[k - 1]]
      BY <1>4, <3>1 DEF Iterate
    <3> QED BY <1>3, <3>2
  <2> QED BY <1>1, <1>4, <2>1 DEF Iterate
<1>6. Sums(s) = Body(Sums(s))
  <2> HIDE DEF Body
  <2> QED BY <1>2, <1>5
<1>7. Sums(s)[0] = 0 /\ \A k \in 1 .. N : Sums(s)[k] = Sums(s)[k - 1] + len(k)
  BY <1>1, <1>6
<1>8. DOMAIN Sums(s) = 0 .. N /\ Sums(s) = [k \in 0 .. N |-> Sums(s)[k]]
  BY <1>6
<1> DEFINE S == {k \in 0 .. N : Sums(s)[k] \in Nat}
<1>9. 0 .. N \subseteq S
  <2>1. 0 \in S
    BY <1>1, <1>7
  <2>2. \A k \in 0 .. N - 1 : k \in S => k + 1 \in S
    BY <1>1, <1>7, SMTT(30)
  <2> HIDE DEF S
  <2> QED BY <1>1, <2>1, <2>2, BoundedInduction, Zenon
<1>10. Sums(s) \in [0 .. N -> Nat]
  BY <1>8, <1>9
<1> QED BY <1>2, <1>7, <1>10 DEF N, len

(* The sum up to a place is the sum up to an earlier one and that of what  *)
(* lies between.                                                           *)
LEMMA SumsSplit ==
    ASSUME WellOrdered,
           NEW s \in Seq(Msg), NEW t \in Seq(Msg), NEW d \in Nat, d + Len(t) <= Len(s),
           \A i \in 1 .. Len(t) : t[i] = s[d + i]
    PROVE  Sums(s)[d + Len(t)] = Sums(s)[d] + Bytes(t)
<1> DEFINE S == {k \in 0 .. Len(t) : Sums(s)[d + k] = Sums(s)[d] + Sums(t)[k]}
<1>0. Len(t) \in Nat /\ Len(s) \in Nat
  OBVIOUS
<1>1. /\ \A k \in 0 .. Len(s) : Sums(s)[k] \in Nat
      /\ \A k \in 1 .. Len(s) : Sums(s)[k] = Sums(s)[k - 1] + s[k].len
      /\ \A k \in 0 .. Len(t) : Sums(t)[k] \in Nat
      /\ \A k \in 1 .. Len(t) : Sums(t)[k] = Sums(t)[k - 1] + t[k].len
      /\ Sums(t)[0] = 0
  BY SumsDef, Zenon
<1>2. 0 \in S
  <2>1. d \in 0 .. Len(s)
    BY <1>0
  <2> QED BY <1>0, <1>1, <2>1
<1>3. ASSUME NEW k \in 0 .. Len(t) - 1, k \in S PROVE k + 1 \in S
  <2>1. k + 1 \in 1 .. Len(t) /\ d + (k + 1) \in 1 .. Len(s) /\ (d + (k + 1)) - 1 = d + k /\ (k + 1) - 1 = k
    BY <1>0
  <2>2. Sums(s)[d + (k + 1)] = Sums(s)[d + k] + s[d + (k + 1)].len
    BY <1>1, <2>1, Zenon
  <2>3. Sums(t)[k + 1] = Sums(t)[k] + t[k + 1].len
    BY <1>1, <2>1, Zenon
  <2>4. t[k + 1] = s[d + (k + 1)]
    BY <2>1
  <2>5. t[k + 1].len \in Nat /\ Sums(t)[k] \in Nat /\ Sums(s)[d] \in Nat
    <3>1. t[k + 1] \in Msg /\ k \in 0 .. Len(t) /\ d \in 0 .. Len(s)
      BY <1>0, <2>1
    <3> QED BY <1>1, <3>1, MsgLen
  <2>6. Sums(s)[d + k] = Sums(s)[d] + Sums(t)[k]
    BY <1>3
  <2>7. \A a, b, e \in Nat : (a + b) + e = a + (b + e)
    OBVIOUS
  <2> QED BY <2>1, <2>2, <2>3, <2>4, <2>5, <2>6, <2>7, SMTT(30)
<1>4. Len(t) \in S
  <2> HIDE DEF S
  <2>1. 0 .. Len(t) \subseteq S
    BY <1>0, <1>2, <1>3, BoundedInduction, Zenon
  <2> QED BY <1>0, <2>1
<1> QED BY <1>4, SumsDef

-------------------------------------------------------------------------------
(* The invariant of the data, and that of the control. *)
DataInv ==
    /\ RingOk(q) /\ q.bytes = Bytes(Queued(q))
    /\ offered \in 0 .. MaxSends

WatchInv ==
    /\ attached \in BOOLEAN /\ hook \in BOOLEAN /\ wr_armed \in BOOLEAN /\ retry \in BOOLEAN
    /\ ~attached => ~hook /\ ~wr_armed /\ ~retry
    /\ q.n # 0 /\ attached => hook
    /\ pc # "flush" /\ q.n = 0 => ~hook /\ ~wr_armed
    /\ pc = "sleep" /\ q.n # 0 /\ attached => wr_armed \/ retry

(* What the refinement reads is what is queued. *)
LEMMA SameContents == Contents = Queued(q) /\ cap = Len(q.ring)
BY DEF Contents, At, Queued, Slot, cap

(* An empty queue holds no bytes. *)
LEMMA EmptyQueue ==
    ASSUME WellOrdered,
           NEW x, RingOk(x), x.n = 0
    PROVE  Queued(x) = <<>> /\ Bytes(Queued(x)) = 0
<1>1. Queued(x) \in Seq(Msg) /\ Len(Queued(x)) = 0
  BY QueuedType
<1>2. Queued(x) = <<>>
  BY <1>1
<1>3. Bytes(Queued(x)) = Sums(Queued(x))[0] /\ Sums(Queued(x))[0] = 0
  BY <1>1, SumsDef, Zenon
<1> QED BY <1>2, <1>3

(* A new queue is empty. *)
LEMMA DataInit ==
    ASSUME WellOrdered
    PROVE  Init => DataInv /\ Contents = <<>>
<1> SUFFICES ASSUME Init PROVE DataInv /\ Contents = <<>>
  OBVIOUS
<1>1. NoMsg \in Msg
  BY TxqAssumption DEF NoMsg, Msg
<1> DEFINE r == [i \in 1 .. InitCap |-> NoMsg]
<1>2. r \in Seq(Msg) /\ Len(r) = InitCap
  BY <1>1, TxqAssumption
<1>3. q.ring = r /\ q.head = 0 /\ q.n = 0 /\ q.bytes = 0 /\ offered = 0
  BY DEF Init
<1>4. RingOk(q)
  BY <1>2, <1>3, TxqAssumption DEF RingOk
<1> QED BY <1>3, <1>4, EmptyQueue, SameContents, TxqAssumption DEF DataInv

(* What a push adds to the sum. *)
LEMMA BytesAppend ==
    ASSUME WellOrdered,
           NEW s \in Seq(Msg), NEW m \in Msg
    PROVE  Bytes(Append(s, m)) = Bytes(s) + m.len
<1> DEFINE t == Append(s, m)
<1>1. /\ t \in Seq(Msg) /\ Len(t) = Len(s) + 1 /\ t[Len(s) + 1] = m /\ Len(s) \in Nat
      /\ \A i \in 1 .. Len(s) : t[i] = s[i]
  OBVIOUS
<1> HIDE DEF t
<1>2. Sums(t)[0 + Len(s)] = Sums(t)[0] + Bytes(s)
  <2>1. 0 + Len(s) <= Len(t) /\ \A i \in 1 .. Len(s) : s[i] = t[0 + i]
    BY <1>1
  <2> QED BY <1>1, <2>1, SumsSplit, ZenonT(40)
<1>3. /\ Bytes(t) = Sums(t)[Len(t)] /\ Sums(t)[0] = 0
      /\ Sums(t)[Len(s) + 1] = Sums(t)[(Len(s) + 1) - 1] + t[Len(s) + 1].len
  BY <1>1, SumsDef, SMTT(30)
<1>4. Bytes(s) \in Nat
  BY <1>1, SumsDef
<1>5. Sums(t)[Len(s)] = Bytes(s) /\ (Len(s) + 1) - 1 = Len(s)
  BY <1>1, <1>2, <1>3, <1>4
<1> QED BY <1>1, <1>3, <1>5 DEF t

(* What a pop takes from it. *)
LEMMA BytesSplit ==
    ASSUME WellOrdered,
           NEW s \in Seq(Msg), NEW k \in 0 .. Len(s)
    PROVE  /\ Bytes(SubSeq(s, 1, k)) \in Nat /\ Bytes(SubSeq(s, k + 1, Len(s))) \in Nat
           /\ Bytes(s) = Bytes(SubSeq(s, 1, k)) + Bytes(SubSeq(s, k + 1, Len(s)))
<1> DEFINE a == SubSeq(s, 1, k)
           z == SubSeq(s, k + 1, Len(s))
<1>1. /\ a \in Seq(Msg) /\ Len(a) = k /\ \A i \in 1 .. k : a[i] = s[i]
      /\ z \in Seq(Msg) /\ Len(z) = Len(s) - k /\ \A i \in 1 .. Len(s) - k : z[i] = s[k + i]
      /\ Len(s) \in Nat /\ k \in Nat
  OBVIOUS
<1> HIDE DEF a, z
<1>2. Sums(s)[0 + Len(a)] = Sums(s)[0] + Bytes(a)
  <2>1. 0 + Len(a) <= Len(s) /\ \A i \in 1 .. Len(a) : a[i] = s[0 + i]
    BY <1>1
  <2> QED BY <1>1, <2>1, SumsSplit, SMTT(30)
<1>3. Sums(s)[k + Len(z)] = Sums(s)[k] + Bytes(z)
  <2>1. k + Len(z) <= Len(s) /\ \A i \in 1 .. Len(z) : z[i] = s[k + i]
    BY <1>1
  <2> QED BY <1>1, <2>1, SumsSplit, Zenon
<1>4. Bytes(s) = Sums(s)[Len(s)] /\ Sums(s)[0] = 0
  BY SumsDef
<1>5. Bytes(a) \in Nat /\ Bytes(z) \in Nat
  BY <1>1, SumsDef, SMTT(30)
<1>6. 0 + Len(a) = k /\ k + Len(z) = Len(s)
  BY <1>1
<1> QED BY <1>2, <1>3, <1>4, <1>5, <1>6 DEF a, z

(* net_txq_send appends the datagram or leaves the queue alone. *)
LEMMA SendStep ==
    ASSUME WellOrdered,
           DataInv, NEW len \in Lens, NEW nomem \in BOOLEAN, net_txq_send(len, nomem)
    PROVE  /\ DataInv' /\ UNCHANGED <<wire, lost>>
           /\ \/ Contents' = Contents /\ q'.n = q.n
              \/ /\ Contents' = Append(Contents, [id |-> offered + 1, len |-> len])
                 /\ [id |-> offered + 1, len |-> len] \in [id : 1 .. MaxSends, len : Lens]
<1> DEFINE m == [id |-> offered + 1, len |-> len]
<1>1. offered' = offered + 1 /\ offered' \in 0 .. MaxSends /\ UNCHANGED <<wire, lost>>
  BY TxqAssumption DEF net_txq_send, DataInv
<1>2. m \in Msg /\ m \in [id : 1 .. MaxSends, len : Lens] /\ m.len = len
  BY TxqAssumption, SMTT(30) DEF net_txq_send, DataInv, Msg
<1>3. CASE q' = q
  <2>1. Queued(q)' = Queued(q)
    BY <1>3 DEF Queued, Slot
  <2>2. RingOk(q') /\ Bytes(Queued(q')) = Bytes(Queued(q)) /\ q'.bytes = q.bytes
    BY <1>3, Zenon DEF DataInv
  <2> QED BY <1>1, <1>3, <2>1, <2>2, SameContents, SMTT(30) DEF DataInv, Contents, At, cap
<1>4. CASE q' = Pushed(IF q.n = cap THEN Grown(q) ELSE q, m)
  <2> DEFINE x == IF q.n = cap THEN Grown(q) ELSE q
  <2>1. /\ RingOk(x) /\ Queued(x) = Queued(q) /\ x.n < Len(x.ring) /\ x.bytes = q.bytes
    <3>1. CASE q.n = cap
      BY <3>1, GrowKeeps DEF DataInv
    <3>2. CASE q.n # cap
      BY <3>2, SameContents DEF DataInv, RingOk
    <3> QED BY <3>1, <3>2
  <2> HIDE DEF x, m
  <2>2. RingOk(Pushed(x, m)) /\ Queued(Pushed(x, m)) = Append(Queued(q), m)
    BY <1>2, <2>1, PushAppends, Zenon
  <2>3. Pushed(x, m).bytes = q.bytes + m.len
    BY <2>1 DEF Pushed
  <2>4. Bytes(Append(Queued(q), m)) = Bytes(Queued(q)) + m.len
    BY <1>2, QueuedType, BytesAppend DEF DataInv
  <2>5. q' = Pushed(x, m)
    BY <1>4 DEF x
  <2>6. DataInv'
    BY <1>1, <2>2, <2>3, <2>4, <2>5, ZenonT(40) DEF DataInv
  <2>7. Contents' = Append(Contents, m)
    BY <2>2, <2>5, SameContents, Zenon DEF Contents, At, cap, Queued, Slot
  <2> QED BY <1>1, <1>2, <2>6, <2>7 DEF m
<1> QED BY <1>3, <1>4 DEF net_txq_send

(* pop gives the k oldest away. *)
LEMMA PopStep ==
    ASSUME WellOrdered,
           DataInv, NEW k \in 1 .. q.n, q' = Popped(q, k), offered' = offered
    PROVE  /\ DataInv' /\ Contents' = SubSeq(Contents, k + 1, Len(Contents))
           /\ Len(Contents) = q.n
<1> DEFINE b == Bytes(SubSeq(Queued(q), 1, k))
<1>1. RingOk(q) /\ q.bytes = Bytes(Queued(q)) /\ Queued(q) \in Seq(Msg) /\ Len(Queued(q)) = q.n
  BY QueuedType DEF DataInv
<1>2. k \in 0 .. q.n /\ k \in 0 .. Len(Queued(q))
  BY <1>1 DEF RingOk
<1>3. /\ b \in Nat /\ Bytes(SubSeq(Queued(q), k + 1, q.n)) \in Nat
      /\ q.bytes = b + Bytes(SubSeq(Queued(q), k + 1, q.n))
  BY <1>1, <1>2, BytesSplit, SMTT(30)
<1> HIDE DEF b
<1>4. q.bytes - b \in Nat /\ q.bytes - b = Bytes(SubSeq(Queued(q), k + 1, q.n))
  BY <1>3
<1>5. q' = [ring |-> q.ring, head |-> (q.head + k) % Len(q.ring), n |-> q.n - k, bytes |-> q.bytes - b]
  BY SameContents DEF Popped, b
<1>6. RingOk(q') /\ Queued(q') = SubSeq(Queued(q), k + 1, q.n)
  BY <1>1, <1>2, <1>4, <1>5, PopDrops, ZenonT(40)
<1>7. q'.bytes = Bytes(Queued(q'))
  <2>1. q'.bytes = q.bytes - b
    BY <1>5
  <2> QED BY <1>4, <1>6, <2>1, ZenonT(40)
<1>8. DataInv'
  BY <1>6, <1>7 DEF DataInv
<1>9. Contents' = Queued(q')
  BY Zenon DEF Contents, At, cap, Queued, Slot
<1> QED BY <1>1, <1>6, <1>8, <1>9, SameContents

(* Everything else leaves the ring alone. *)
Others ==
    \/ flush_again \/ flush_drained \/ net_txq_flush
    \/ loop_hooks \/ wake_writable \/ retry_tramp \/ wake_other
    \/ kernel_drains \/ owner_add \/ net_txq_detach

(* Arming, waking and draining leave the data alone. *)
LEMMA OthersKeep ==
    ASSUME DataInv, Others \/ UNCHANGED vars
    PROVE  DataInv' /\ Contents' = Contents /\ UNCHANGED <<wire, lost>>
<1>1. UNCHANGED <<q, offered, wire, lost>>
  BY DEF Others, flush_again, flush_drained, net_txq_flush, loop_hooks, wake_writable, retry_tramp,
         wake_other, kernel_drains, owner_add, net_txq_detach, vars, env
<1> QED BY <1>1, ZenonT(40) DEF DataInv, Contents, At, cap

(* The steps, by what they do to the data. *)
LEMMA NextCases ==
    Next <=> \/ \E len \in Lens, nomem \in BOOLEAN : net_txq_send(len, nomem)
             \/ \E r \in 1 .. Batch : flush_sent(r)
             \/ flush_dropped
             \/ Others
BY DEF Next, Others

(* A flush that sent r datagrams pops them. *)
LEMMA SentStep ==
    ASSUME DataInv, NEW r \in 1 .. Batch, flush_sent(r)
    PROVE  r \in 1 .. q.n /\ q' = Popped(q, r) /\ offered' = offered /\ lost' = lost
           /\ wire' = wire \o SubSeq(Contents, 1, r)
BY TxqAssumption, SMTT(30) DEF flush_sent, DataInv, RingOk

(* A flush that gives up on the first datagram pops it. *)
LEMMA DroppedStep ==
    ASSUME DataInv, flush_dropped
    PROVE  1 \in 1 .. q.n /\ q' = Popped(q, 1) /\ offered' = offered /\ wire' = wire
           /\ lost' = Append(lost, Contents[1])
BY DEF flush_dropped, DataInv, RingOk, env, Contents, At

(* Every step keeps the data sound. *)
LEMMA DataStep ==
    ASSUME WellOrdered
    PROVE  DataInv /\ [Next]_vars => DataInv'
BY NextCases, SendStep, SentStep, DroppedStep, PopStep, OthersKeep, Zenon

(* At the beginning there is no backlog. *)
LEMMA WatchInit == Init => WatchInv
<1>1. Init => q.n = 0
  BY DEF Init
<1> QED BY <1>1, Zenon DEF Init, WatchInv

(* Every step is one of the FIFO, or leaves it alone. *)
LEMMA FifoStep ==
    ASSUME WellOrdered
    PROVE  DataInv /\ [Next]_vars => [Promise!Next]_(Promise!vars)
<1> SUFFICES ASSUME DataInv, [Next]_vars PROVE [Promise!Next]_(Promise!vars)
  OBVIOUS
<1>1. ASSUME NEW len \in Lens, NEW nomem \in BOOLEAN, net_txq_send(len, nomem)
      PROVE  Promise!Accept \/ UNCHANGED Promise!vars
  BY <1>1, SendStep, Zenon DEF Promise!Accept, Promise!vars
<1>2. ASSUME NEW r \in 1 .. Batch, flush_sent(r) PROVE Promise!Push
  <2>1. /\ r \in 1 .. Len(Contents) /\ wire' = wire \o SubSeq(Contents, 1, r) /\ lost' = lost
        /\ Contents' = SubSeq(Contents, r + 1, Len(Contents))
    BY <1>2, SentStep, PopStep, Zenon
  <2> QED BY <2>1, Zenon DEF Promise!Push
<1>3. ASSUME flush_dropped PROVE Promise!Lose
  <2>1. /\ 1 <= Len(Contents) /\ lost' = Append(lost, Contents[1]) /\ wire' = wire
        /\ Contents' = SubSeq(Contents, 1 + 1, Len(Contents))
    BY <1>3, DroppedStep, PopStep
  <2>2. Contents \in Seq(Msg)
    BY SameContents, QueuedType DEF DataInv
  <2>3. Head(Contents) = Contents[1] /\ Tail(Contents) = SubSeq(Contents, 2, Len(Contents)) /\ Contents # <<>>
    BY <2>1, <2>2
  <2> QED BY <2>1, <2>3 DEF Promise!Lose
<1>4. ASSUME Others \/ UNCHANGED vars PROVE UNCHANGED Promise!vars
  BY <1>4, OthersKeep DEF Promise!vars
<1> QED BY <1>1, <1>2, <1>3, <1>4, NextCases, SMTT(30) DEF Promise!Next

(* A backlog stays watched. *)
LEMMA WatchStep == DataInv /\ WatchInv /\ [Next]_vars => WatchInv'
<1> SUFFICES ASSUME DataInv, WatchInv, [Next]_vars PROVE WatchInv'
  OBVIOUS
<1>0. q.n \in Nat
  BY DEF DataInv, RingOk
<1>1. ASSUME NEW len \in Lens, NEW nomem \in BOOLEAN, net_txq_send(len, nomem)
      PROVE  WatchInv'
  <2>1. q' = q \/ (hook' = (hook \/ (q.n = 0 /\ attached)) /\ q'.n = q.n + 1)
    BY <1>1, GrowKeeps, SMTT(30) DEF net_txq_send, Pushed, DataInv
  <2>2. pc = "top" /\ UNCHANGED <<attached, wr_armed, retry, pc>> /\ (q' = q => hook' = hook)
    BY <1>1, <1>0, GrowKeeps DEF net_txq_send, Pushed, DataInv
  <2> QED BY <1>0, <2>1, <2>2, SMTT(30) DEF WatchInv
<1>2. ASSUME NEW r \in 1 .. Batch, flush_sent(r) PROVE WatchInv'
  <2>1. q'.n = q.n - r /\ r \in 1 .. q.n
    BY <1>2, SentStep DEF Popped
  <2> DEFINE k == IF q.n < Batch THEN q.n ELSE Batch
  <2>2. q.n # 0 /\ (r < k => q'.n # 0)
    BY <1>0, <2>1, TxqAssumption
  <2>3. /\ pc = "flush" /\ UNCHANGED <<attached, back>>
        /\ IF r < k THEN pc' = back /\ arm_wr /\ UNCHANGED hook ELSE UNCHANGED <<pc, watch>>
    BY <1>2, Zenon DEF flush_sent
  <2> HIDE DEF k
  <2> QED BY <2>2, <2>3, ZenonT(40) DEF WatchInv, arm_wr, watch
<1>3. CASE flush_dropped
  <2>1. q'.n = q.n - 1 /\ 1 \in 1 .. q.n
    BY <1>3, DroppedStep DEF Popped
  <2> QED BY <1>0, <1>3, <2>1 DEF WatchInv, flush_dropped, env, watch
<1>4. CASE flush_again
  <2>1. q.n # 0
    BY <1>0, <1>4 DEF flush_again
  <2> QED BY <1>4, <2>1, Zenon DEF WatchInv, flush_again, arm_wr, env
<1>5. CASE flush_drained
  BY <1>5, Zenon DEF WatchInv, flush_drained, drained, env
<1>6. CASE Others /\ ~flush_again /\ ~flush_drained
  <2>1. CASE net_txq_flush
    BY <2>1, Zenon DEF WatchInv, net_txq_flush, env, watch
  <2>2. CASE loop_hooks
    BY <2>2, Zenon DEF WatchInv, loop_hooks, env, watch
  <2>3. CASE wake_writable
    BY <2>3, Zenon DEF WatchInv, wake_writable, env, watch
  <2>4. CASE retry_tramp
    BY <2>4, Zenon DEF WatchInv, retry_tramp, env, watch
  <2>5. CASE wake_other
    BY <2>5, Zenon DEF WatchInv, wake_other, env, watch
  <2>6. CASE kernel_drains
    BY <2>6, Zenon DEF WatchInv, kernel_drains, env, watch
  <2>7. CASE owner_add
    BY <2>7, Zenon DEF WatchInv, owner_add, env, watch
  <2>8. CASE net_txq_detach
    BY <2>8, Zenon DEF WatchInv, net_txq_detach, env, watch
  <2> QED BY <1>6, <2>1, <2>2, <2>3, <2>4, <2>5, <2>6, <2>7, <2>8, SMTT(30) DEF Others
<1>7. CASE UNCHANGED vars
  BY <1>7 DEF WatchInv, vars
<1> QED BY <1>1, <1>2, <1>3, <1>4, <1>5, <1>6, <1>7, NextCases, SMTT(30)

(* What is promised of the queue. *)
LEMMA Accounted == DataInv /\ WatchInv => TxqAccounted
<1> SUFFICES ASSUME DataInv, WatchInv PROVE TxqAccounted
  OBVIOUS
<1>1. BytesExact
  BY SameContents DEF DataInv, BytesExact
<1>2. q.n \in Nat
  BY DEF DataInv, RingOk
<1>3. BacklogWatched
  BY <1>2 DEF WatchInv, BacklogWatched
<1> QED BY <1>1, <1>3 DEF TxqAccounted

-------------------------------------------------------------------------------
INSTANCE WellFoundedInduction

(* The naturals are well ordered. *)
LEMMA NatWellOrdered == WellOrdered
<1> SUFFICES ASSUME NEW S \in SUBSET Nat, S # {} PROVE \E x \in S : \A y \in S : x <= y
  BY DEF WellOrdered
<1> DEFINE Lt == {ss \in Nat \X Nat : ss[1] < ss[2]}
<1>1. IsWellFoundedOn(Lt, Nat)
  BY NatLessThanWellFounded, Zenon DEF OpToRel
<1>2. PICK x \in S : \A y \in S : ~(<<y, x>> \in Lt)
  BY <1>1, WFMin, Zenon
<1>3. ASSUME NEW y \in S, y < x PROVE FALSE
  <2>1. <<y, x>> \in Nat \X Nat
    OBVIOUS
  <2>2. <<y, x>> \in Lt
    BY <1>3, <2>1
  <2> QED BY <1>2, <2>2
<1> QED BY <1>3

(* The ring of net_txq is the FIFO of net_txq.h: for every ring size,      *)
(* batch, byte limit and set of lengths, datagrams leave in the order they *)
(* were accepted and each once, and only the head is ever lost.            *)
THEOREM QueueIsFifo == Spec => ImplementsFifo
<1>1. Init => Promise!Init /\ DataInv
  BY NatWellOrdered, DataInit, Zenon DEF Init, Promise!Init
<1>2. DataInv /\ [Next]_vars => DataInv' /\ [Promise!Next]_(Promise!vars)
  BY NatWellOrdered, DataStep, FifoStep
<1> QED BY <1>1, <1>2, PTL DEF Spec, ImplementsFifo, Promise!Spec

(* The byte count is that of what is queued at every moment, and a backlog *)
(* has its hook, and a sleeping loop what wakes it: net_txq.h's "nothing   *)
(* waits in the queue while the loop sleeps", whatever the kernel does.    *)
THEOREM BacklogAccounted == Spec => []TxqAccounted
<1>1. (Init => DataInv) /\ (DataInv /\ [Next]_vars => DataInv')
  BY NatWellOrdered, DataInit, DataStep
<1> QED BY <1>1, WatchInit, WatchStep, Accounted, PTL DEF Spec
===============================================================================
