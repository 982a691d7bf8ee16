----------------------------- MODULE LibraryProof -----------------------------
(***************************************************************************)
(* Proofs about the libraries of task/ and net/ that stand alone: the      *)
(* address pool, for every pool size and word width, the table-driven      *)
(* machine, for every table and every nesting of hooks, the resolver, for  *)
(* every number of queries, and the stream sockets, for every number of    *)
(* objects and descriptors.                                                *)
(***************************************************************************)
EXTENDS IpPool, FsmEngine, Dns, Stream, TLAPS

-------------------------------------------------------------------------------
(* The machine of fsm.c.  Its invariant:                                   *)
(* Every announcement since the state was last set used up one open call,  *)
(* and a terminal machine that nobody announced still has a call open that *)
(* will.                                                                   *)
EInv ==
    /\ EngineTypeOK
    /\ told > 0 => current = Term /\ told + open <= Depth
    /\ current = Term => forced \/ told > 0 \/ open > 0

(* An entry takes a machine to a state of its own, never to a sentinel. *)
LEMMA TargetState ==
    ASSUME NEW i \in DOMAIN Table, NEW st \in States
    PROVE  Target(Table[i], st) \in States
BY EngineAssumption DEF Target

(* The engine's invariant holds of a new machine. *)
LEMMA InitEInv == EngineInit => EInv
<1> SUFFICES ASSUME EngineInit PROVE EInv
  OBVIOUS
<1>1. forced \in BOOLEAN /\ (current = Term => forced)
  BY ZenonT(40) DEF EngineInit
<1> QED
  BY <1>1, EngineAssumption DEF EngineInit, EInv, EngineTypeOK

(* fsm_act, before and after its hook, and the owner's setting keep it. *)
LEMMA StepEInv == EInv /\ [EngineNext]_EngineVars => EInv'
<1> SUFFICES ASSUME EInv, [EngineNext]_EngineVars PROVE EInv'
  OBVIOUS
<1> USE EngineAssumption DEF EInv, EngineTypeOK
<1>1. ASSUME NEW ev \in Actions, NEW ok \in SUBSET Conds, fsm_act_begin(ev, ok)
      PROVE  EInv'
  <2>1. CASE current = Term \/ Matching(ev, ok) = {}
    BY <1>1, <2>1, SMTT(30) DEF fsm_act_begin
  <2>2. CASE current # Term /\ Matching(ev, ok) # {}
    <3>1. PICK i \in Matching(ev, ok) : current' = Target(Table[i], current)
      BY <1>1, <2>2, SMTT(30) DEF fsm_act_begin
    <3>2. current' \in States
      BY <3>1, TargetState, SMTT(30) DEF Matching
    <3> QED
      BY <1>1, <2>2, <3>2, SMTT(30) DEF fsm_act_begin
  <2> QED
    BY <2>1, <2>2, SMTT(30)
<1>2. ASSUME NEW r \in {"OK", "FAIL"}, fsm_act_end(r) PROVE EInv'
  BY <1>2 DEF fsm_act_end
<1>3. ASSUME NEW st \in States, fsm_set_current_state(st) PROVE EInv'
  <2>1. forced' \in BOOLEAN /\ (current' = Term => forced')
    BY <1>3, ZenonT(40) DEF fsm_set_current_state
  <2> QED
    BY <1>3, <2>1 DEF fsm_set_current_state
<1>4. CASE UNCHANGED EngineVars
  BY <1>4 DEF EngineVars
<1> QED
  BY <1>1, <1>2, <1>3, <1>4, SMTT(30) DEF EngineNext

(* Whatever the table and however deep fsm_act is called from its own      *)
(* hooks, every announcement used up one open call and a terminal machine  *)
(* is announced or about to be.                                            *)
THEOREM EngineInvariant == EngineSpec => []EInv
BY InitEInv, StepEInv, PTL DEF EngineSpec

(* Whatever the table, the callback announces a termination at most once   *)
(* per open fsm_act call.                                                  *)
THEOREM EngineAnnouncesOnce == EngineSpec => []AnnouncedOncePerCall
<1>1. EInv => AnnouncedOncePerCall
  BY EngineAssumption, SMTT(30) DEF EInv, EngineTypeOK, AnnouncedOncePerCall
<1> QED
  BY EngineInvariant, <1>1, PTL

(* Whatever the table, a machine whose callback fired is terminal and no   *)
(* termination through fsm_act goes unannounced.                           *)
THEOREM EngineAnnouncesExactly == EngineSpec => []AnnouncedExactly
<1>1. EInv => AnnouncedExactly
  BY DEF EInv, EngineTypeOK, AnnouncedExactly, AnnouncedIsFinal, FinalIsAnnounced
<1> QED
  BY EngineInvariant, <1>1, PTL

-------------------------------------------------------------------------------
(* The stream sockets of sock.c and netxx.cpp. *)
SockRec == [open : BOOLEAN, fd : Fds \cup {NoFd}, id : Nat]
TlsRec == [open : BOOLEAN, up : BOOLEAN, fd : Fds \cup {NoFd}]
Holds(o) == sock[o].open /\ sock[o].fd # NoFd
IsSeq(s) == Len(s) \in Nat /\ DOMAIN s = 1 .. Len(s) /\ s = [i \in DOMAIN s |-> s[i]]

(* The invariant of the sockets: StreamsOwned during the calls too, and    *)
(* that no two objects hold one descriptor and no session outlives its     *)
(* socket.                                                                 *)
SInv ==
    /\ file \in [Fds -> Nat] /\ sock \in [Socks -> SockRec] /\ tls \in [Socks -> TlsRec]
    /\ IsSeq(link)
    /\ \A o \in Socks : Holds(o) => sock[o].id # 0 /\ file[sock[o].fd] = sock[o].id
    /\ \A o, p \in Socks : Holds(o) /\ Holds(p) /\ sock[o].fd = sock[p].fd => o = p
    /\ \A fd \in Fds : file[fd] # 0 => \E o \in Socks : sock[o].open /\ sock[o].fd = fd
    /\ \A o \in Socks : tls[o].open => sock[o].open /\ tls[o].fd = sock[o].fd

(* The sockets' invariant holds at first. *)
LEMMA SInit == StreamInit => SInv
<1> SUFFICES ASSUME StreamInit PROVE SInv
  OBVIOUS
<1>1. IsSeq(<<>>)
  BY DEF IsSeq
<1>2. NoSock \in SockRec /\ NoTls \in TlsRec /\ ~NoSock.open /\ ~NoTls.open
  BY DEF NoSock, NoTls, SockRec, TlsRec
<1> QED BY <1>1, <1>2 DEF StreamInit, SInv, Holds

(* What is promised of the sockets. *)
LEMMA SOwned == SInv => StreamsOwned
<1>1. ASSUME SInv, NEW fd \in Fds, file[fd] # 0
      PROVE  \E p \in Socks : {o \in Socks : sock[o].open /\ sock[o].fd = fd} = {p}
  <2>1. PICK p \in Socks : sock[p].open /\ sock[p].fd = fd
    BY <1>1 DEF SInv
  <2>2. fd # NoFd
    BY StreamAssumption DEF NoFd
  <2>3. {o \in Socks : sock[o].open /\ sock[o].fd = fd} = {p}
    BY <1>1, <2>1, <2>2 DEF SInv, Holds
  <2> QED BY <2>1, <2>3
<1> QED BY <1>1 DEF SInv, Holds, StreamsOwned

(* The kernel's sockets are a sequence, whatever they hold. *)
LEMMA SeqIsSeq == ASSUME NEW S, NEW s \in Seq(S) PROVE IsSeq(s)
<1>1. Len(s) \in Nat /\ s \in [1 .. Len(s) -> S]
  OBVIOUS
<1>2. DOMAIN s = 1 .. Len(s) /\ s = [i \in DOMAIN s |-> s[i]]
  BY <1>1, Zenon
<1> QED BY <1>1, <1>2 DEF IsSeq

(* One more socket of the kernel. *)
LEMMA LinkGrows ==
    ASSUME NEW l, IsSeq(l), NEW r
    PROVE  IsSeq(Append(l, r))
<1> DEFINE S == {l[i] : i \in DOMAIN l} \cup {r}
<1>1. l \in Seq(S)
  BY DEF IsSeq
<1>2. Append(l, r) \in Seq(S)
  BY <1>1
<1> QED BY <1>2, SeqIsSeq, Zenon

(* One of the kernel's sockets changes. *)
LEMMA LinkChanges ==
    ASSUME NEW l, IsSeq(l), NEW m, DOMAIN m = DOMAIN l, m = [i \in DOMAIN m |-> m[i]]
    PROVE  IsSeq(m)
<1> DEFINE S == {m[i] : i \in DOMAIN m}
<1>1. m \in Seq(S)
  BY DEF IsSeq
<1> QED BY <1>1, SeqIsSeq, Zenon

(* What an object holds goes, and it may be given a descriptor that is     *)
(* free then.                                                              *)
Freed(o) == [fd \in Fds |-> IF sock[o].open /\ fd = sock[o].fd THEN 0 ELSE file[fd]]

LEMMA SChange ==
    ASSUME SInv, NEW o \in Socks, ~tls[o].open, NEW s \in SockRec, sock' = [sock EXCEPT ![o] = s],
           tls' = tls, IsSeq(link'),
           file' = IF s.open /\ s.fd # NoFd THEN [Freed(o) EXCEPT ![s.fd] = s.id] ELSE Freed(o),
           s.open /\ s.fd # NoFd => Freed(o)[s.fd] = 0 /\ s.id # 0
    PROVE  SInv'
<1>0. \A p \in Socks : sock[p] \in SockRec
  BY DEF SInv
<1>1. Freed(o) \in [Fds -> Nat]
  BY DEF SInv, Freed
<1>2. s.fd \in Fds \cup {NoFd} /\ s.id \in Nat
  BY DEF SockRec
<1>3. \A fd \in Fds : Freed(o)[fd] = IF sock[o].open /\ fd = sock[o].fd THEN 0 ELSE file[fd]
  BY DEF Freed
<1>4. /\ file' \in [Fds -> Nat]
      /\ \A fd \in Fds : file'[fd] = IF s.open /\ fd = s.fd THEN s.id
                                     ELSE IF sock[o].open /\ fd = sock[o].fd THEN 0 ELSE file[fd]
  BY <1>1, <1>2, <1>3, StreamAssumption DEF NoFd
<1>5. sock' \in [Socks -> SockRec] /\ sock'[o] = s /\ \A p \in Socks \ {o} : sock'[p] = sock[p]
  BY DEF SInv
<1>6. ASSUME NEW p \in Socks \ {o}, Holds(p)
      PROVE  /\ sock[p].fd \in Fds /\ sock[p].id # 0 /\ file[sock[p].fd] = sock[p].id
             /\ ~(sock[o].open /\ sock[p].fd = sock[o].fd)
             /\ ~(s.open /\ sock[p].fd = s.fd)
  <2>1. /\ sock[p].fd \in Fds /\ sock[p].id # 0 /\ file[sock[p].fd] = sock[p].id
        /\ ~(sock[o].open /\ sock[p].fd = sock[o].fd)
    BY <1>0, <1>6 DEF SInv, Holds, SockRec
  <2>2. Freed(o)[sock[p].fd] # 0
    BY <1>3, <2>1
  <2> QED BY <2>1, <2>2, <1>6 DEF Holds
<1>7. \A p \in Socks : Holds(p)' => sock'[p].id # 0 /\ file'[sock'[p].fd] = sock'[p].id
  <2> SUFFICES ASSUME NEW p \in Socks, Holds(p)'
               PROVE  sock'[p].id # 0 /\ file'[sock'[p].fd] = sock'[p].id
    OBVIOUS
  <2>1. CASE p = o
    BY <1>2, <1>4, <1>5, <2>1 DEF Holds
  <2>2. CASE p # o
    <3>1. Holds(p) /\ sock'[p] = sock[p]
      BY <1>5, <2>2 DEF Holds
    <3> QED BY <1>4, <1>6, <2>2, <3>1
  <2> QED BY <2>1, <2>2
<1>8. \A p, q \in Socks : Holds(p)' /\ Holds(q)' /\ sock'[p].fd = sock'[q].fd => p = q
  <2> SUFFICES ASSUME NEW p \in Socks, NEW q \in Socks, Holds(p)', Holds(q)', p # q,
                      sock'[p].fd = sock'[q].fd
               PROVE  FALSE
    BY Zenon
  <2>1. ASSUME NEW x \in Socks \ {o}, Holds(x)', Holds(o)' PROVE sock'[x].fd # sock'[o].fd
    BY <1>5, <1>6, <2>1 DEF Holds
  <2>2. CASE p # o /\ q # o
    BY <1>5, <2>2 DEF SInv, Holds
  <2> QED BY <2>1, <2>2
<1>9. \A fd \in Fds : file'[fd] # 0 => \E p \in Socks : sock'[p].open /\ sock'[p].fd = fd
  <2> SUFFICES ASSUME NEW fd \in Fds, file'[fd] # 0
               PROVE  \E p \in Socks : sock'[p].open /\ sock'[p].fd = fd
    OBVIOUS
  <2>1. CASE s.open /\ fd = s.fd
    BY <1>5, <2>1
  <2>2. CASE ~(s.open /\ fd = s.fd)
    <3>1. file[fd] # 0 /\ ~(sock[o].open /\ fd = sock[o].fd)
      BY <1>4, <2>2
    <3>2. PICK p \in Socks : sock[p].open /\ sock[p].fd = fd
      BY <3>1 DEF SInv
    <3> QED BY <1>5, <3>1, <3>2
  <2> QED BY <2>1, <2>2
<1>10. \A p \in Socks : tls'[p].open => sock'[p].open /\ tls'[p].fd = sock'[p].fd
  BY <1>5 DEF SInv
<1> QED BY <1>4, <1>5, <1>7, <1>8, <1>9, <1>10 DEF SInv

(* An object with no descriptor has none to lose. *)
LEMMA NoneFreed ==
    ASSUME SInv, NEW o \in Socks, ~sock[o].open
    PROVE  Freed(o) = file /\ ~tls[o].open
BY DEF SInv, Freed

(* The record of an object that is given s. *)
Given(fd) == [open |-> TRUE, fd |-> fd, id |-> Len(link) + 1]

LEMMA GivenRec ==
    ASSUME SInv, NEW fd \in Fds \cup {NoFd}
    PROVE  /\ Given(fd) \in SockRec /\ Given(fd).open /\ Given(fd).fd = fd
           /\ Given(fd).id = Len(link) + 1 /\ Given(fd).id # 0
BY DEF SInv, IsSeq, Given, SockRec

-------------------------------------------------------------------------------
(* Division by the word width: the word a bit lies in. *)

(* A word holds the WordBits bits from its first one on (cursor >> 6). *)
LEMMA DivBounds ==
  ASSUME NEW a \in Nat, NEW w \in Nat \ {0}
  PROVE  /\ a \div w \in Nat
         /\ (a \div w) * w <= a
         /\ a < (a \div w) * w + w
BY SMT

(* Going up the slots never goes back to an earlier word. *)
LEMMA WordMonotone ==
  ASSUME NEW a \in Nat, NEW b \in Nat, a <= b
  PROVE  WordOf(a) <= WordOf(b)
BY DivBounds, PoolAssumption DEF WordOf

(* Every slot lies in one of the words pool_new allocates. *)
LEMMA SlotWord ==
  ASSUME NEW s \in Slots
  PROVE  WordOf(s) \in 0 .. (Words - 1)
<1>1. WordOf(s) \in Nat /\ Words \in Nat
  BY DivBounds, PoolAssumption DEF WordOf, Words, Slots
<1>2. (WordOf(s) + 1) * WordBits <= Size - 1 + WordBits
  <2>1. WordOf(s) * WordBits <= s
    BY DivBounds, PoolAssumption DEF WordOf, Slots
  <2> QED BY <2>1, <1>1, PoolAssumption DEF Slots
<1>3. Size - 1 + WordBits < Words * WordBits + WordBits
  BY DivBounds, PoolAssumption DEF WordOf, Words
<1> HIDE DEF WordOf, Words
<1>4. CASE WordOf(s) >= Words
  <2>1. WordOf(s) * WordBits >= Words * WordBits
    BY <1>1, <1>4, PoolAssumption
  <2> QED BY <2>1, <1>1, <1>2, <1>3, PoolAssumption
<1> QED BY <1>1, <1>4

-------------------------------------------------------------------------------
(* The inductive invariant: the types, and the counter and padding facts. *)
IInv == TypeOK /\ CountExact

(* A bit outside the set bits is a slot: the padding is always set. *)
LEMMA FreeBitIsSlot ==
  ASSUME IInv, NEW b \in Bits \ bits
  PROVE  b \in Slots
BY DEF IInv, CountExact, Bits

(* Where the cursor and the sweep are. *)
LEMMA SweepRange ==
  ASSUME IInv
  PROVE  /\ cursor \in Nat /\ Size \in Nat
         /\ Words \in Nat
         /\ WordOf(cursor) \in 0 .. (Words - 1)
         /\ \A b \in Slots : b \in Nat /\ b < Size /\ WordOf(b) \in 0 .. (Words - 1)
<1>1. cursor \in Slots
  BY DEF IInv, TypeOK
<1>2. \A b \in Slots : b \in Nat /\ b < Size
  BY PoolAssumption DEF Slots
<1>3. \A b \in Slots : WordOf(b) \in 0 .. (Words - 1)
  BY SlotWord
<1>4. Words \in Nat
  BY DivBounds, PoolAssumption DEF WordOf, Words
<1> QED BY <1>1, <1>2, <1>3, <1>4, PoolAssumption

(* The probe of the sweep that meets slot t first. *)
ProbeOf(t) ==
  IF WordOf(t) = WordOf(cursor)
  THEN IF t >= cursor THEN 0 ELSE Words
  ELSE IF WordOf(t) > WordOf(cursor) THEN WordOf(t) - WordOf(cursor)
  ELSE WordOf(t) - WordOf(cursor) + Words

(* Every free slot is met by one of the words + 1 probes. *)
LEMMA ProbeMeets ==
  ASSUME IInv, NEW t \in Slots \ bits
  PROVE  /\ ProbeOf(t) \in Hits
         /\ t \in FreeBits(ProbeOf(t))
<1>1. ProbeOf(t) \in Probes
  BY SweepRange DEF ProbeOf, Probes
<1>2. WordOf(t) = SweepWord(ProbeOf(t))
  BY SweepRange DEF ProbeOf, SweepWord
<1>3. ProbeOf(t) = 0 => t >= cursor
  BY SweepRange DEF ProbeOf
<1>4. t \in FreeBits(ProbeOf(t))
  BY <1>2, <1>3 DEF FreeBits, Bits
<1> QED BY <1>1, <1>4 DEF Hits

-------------------------------------------------------------------------------
(* The abstract slots are the slots. *)
LEMMA SameSlots == Abstract!Slots = Slots /\ Abstract!NoSlot = NoSlot
BY DEF Abstract!Slots, Slots, Abstract!NoSlot, NoSlot

-------------------------------------------------------------------------------
(* The resolver of dns.c. *)
Labels == Names \cup {CHOOSE n \in Names : TRUE}
QueryRec ==
    [st : {"new", "out", "done", "dropped"}, id : 0 .. IdMod - 1,
     name : [labels : Labels, dot : Dots \cup {FALSE}],
     tries : Nat, tmr : BOOLEAN, calls : Nat, got : SUBSET Labels]

QueryOk(r) ==
    /\ r.tmr => r.st = "out"
    /\ r.calls = IF r.st = "done" THEN 1 ELSE 0
    /\ r.st # "done" => r.got = {}
    /\ r.got \subseteq {r.name.labels}

(* The invariant of the resolver: DnsAnswers, and that only an outstanding *)
(* query has a timer and only a finished one an answer.                    *)
RInv ==
    /\ query \in [Queries -> QueryRec]
    /\ seq \in 0 .. IdMod - 1
    /\ answered \in SUBSET [id : 0 .. IdMod - 1, labels : Labels]
    /\ asked \in SUBSET [id : 0 .. IdMod - 1, labels : Labels]
    /\ \A q1 \in Queries : QueryOk(query[q1])
    /\ \A q1, q2 \in Queries :
          query[q1].st = "out" /\ query[q2].st = "out" /\ query[q1].id = query[q2].id => q1 = q2

(* The resolver's invariant holds at first. *)
LEMMA RInit == DnsInit => RInv
BY DnsAssumption DEF DnsInit, New, RInv, QueryOk, QueryRec, Labels

(* What is promised of the queries. *)
LEMMA RAnswers == RInv => DnsAnswers
BY DEF RInv, QueryOk, DnsAnswers, OneCallback, OwnAnswer, IdsApart, Outstanding

(* Every id comes up in one turn of the counter. *)
LEMMA Around ==
    ASSUME seq \in 0 .. IdMod - 1, NEW r \in 0 .. IdMod - 1
    PROVE  \E k \in 1 .. IdMod : (seq + k) % IdMod = r
<1>1. CASE r > seq
  <2>1. r - seq \in 1 .. IdMod /\ (seq + (r - seq)) % IdMod = r
    BY <1>1, DnsAssumption
  <2> QED BY <2>1
<1>2. CASE ~(r > seq)
  <2>1. (r - seq) + IdMod \in 1 .. IdMod /\ (seq + ((r - seq) + IdMod)) % IdMod = r
    BY <1>2, DnsAssumption
  <2> QED BY <2>1
<1> QED BY <1>1, <1>2

(* One query changes, and keeps its id or takes one that is free. *)
LEMMA RChange ==
    ASSUME RInv, NEW q1 \in Queries, NEW r \in QueryRec, QueryOk(r),
           r.st = "out" => \A q2 \in Queries \ {q1} :
                              query[q2].st = "out" => query[q2].id # r.id,
           query' = [query EXCEPT ![q1] = r], seq' \in 0 .. IdMod - 1,
           asked' \in SUBSET [id : 0 .. IdMod - 1, labels : Labels], answered' = answered
    PROVE  RInv'
BY DEF RInv

(* What dns_detach and the callback leave of a query's record. *)
Ended(x, g) == [x EXCEPT !.st = "done", !.tmr = FALSE, !.calls = @ + 1, !.got = g]

(* A query that ends has had its one callback and nobody else's answer. *)
LEMMA REnds ==
    ASSUME NEW x \in QueryRec, x.calls = 0, NEW g \in SUBSET Labels, g \subseteq {x.name.labels}
    PROVE  /\ Ended(x, g) \in QueryRec /\ Ended(x, g).id = x.id
           /\ Ended(x, g).st = "done" /\ QueryOk(Ended(x, g))
<1> DEFINE y == [x EXCEPT !.st = "done", !.tmr = FALSE, !.calls = 1, !.got = g]
<1>1. x.calls + 1 = 1
  OBVIOUS
<1>2. Ended(x, g) = y
  BY <1>1, Zenon DEF Ended
<1>3. /\ y \in QueryRec /\ y.id = x.id /\ y.name = x.name
      /\ y.st = "done" /\ y.tmr = FALSE /\ y.calls = 1 /\ y.got = g
  BY Zenon DEF QueryRec
<1> HIDE DEF y
<1>4. QueryOk(y)
  BY <1>3 DEF QueryOk
<1> QED BY <1>2, <1>3, <1>4

(* One more try. *)
LEMMA RTries ==
    ASSUME NEW x \in QueryRec, NEW t \in Nat
    PROVE  LET y == [x EXCEPT !.tries = t, !.tmr = FALSE] IN
           /\ y \in QueryRec /\ y.id = x.id /\ y.name = x.name
           /\ y.st = x.st /\ y.calls = x.calls /\ y.got = x.got
BY Zenon DEF QueryRec

-------------------------------------------------------------------------------
(* The values of a function on a finite set are finitely many. *)
FiniteImages ==
    \A S, T, f : IsFiniteSet(S) /\ (\A z \in T : \E x \in S : z = f[x]) => IsFiniteSet(T)

(* What the proofs use of sets of numbers and of cardinality.  The library *)
(* has it, but everything in its modules is carried along by every step    *)
(* that follows them, so it is a hypothesis up to the theorems.            *)
SetFacts ==
    /\ \A S \in SUBSET Nat : S # {} => \E x \in S : \A y \in S : x <= y
    /\ IsFiniteSet({}) /\ Cardinality({}) = 0
    /\ \A S : IsFiniteSet(S) => Cardinality(S) \in Nat /\ (Cardinality(S) = 0 <=> S = {})
    /\ \A S, x : IsFiniteSet(S) =>
          /\ IsFiniteSet(S \cup {x})
          /\ Cardinality(S \cup {x}) = IF x \in S THEN Cardinality(S) ELSE Cardinality(S) + 1
    /\ \A S, x : IsFiniteSet(S) =>
          /\ IsFiniteSet(S \ {x})
          /\ Cardinality(S \ {x}) = IF x \in S THEN Cardinality(S) - 1 ELSE Cardinality(S)
    /\ \A S, T : IsFiniteSet(S) /\ T \subseteq S =>
          /\ IsFiniteSet(T) /\ Cardinality(T) <= Cardinality(S)
          /\ Cardinality(S) = Cardinality(T) => S = T
    /\ \A a, b \in Int : /\ IsFiniteSet(a .. b)
                         /\ Cardinality(a .. b) = IF a > b THEN 0 ELSE b - a + 1
    /\ FiniteImages

(* The empty set. *)
LEMMA CardEmpty ==
    ASSUME SetFacts
    PROVE  /\ IsFiniteSet({}) /\ Cardinality({}) = 0
           /\ \A S : IsFiniteSet(S) => (Cardinality(S) = 0 <=> S = {})
BY Zenon DEF SetFacts

(* The number of elements is a natural number. *)
LEMMA CardType ==
    ASSUME SetFacts, NEW S, IsFiniteSet(S)
    PROVE  Cardinality(S) \in Nat
BY DEF SetFacts

(* One element more. *)
LEMMA CardAdd ==
    ASSUME SetFacts, NEW S, NEW x, IsFiniteSet(S)
    PROVE  /\ IsFiniteSet(S \cup {x})
           /\ Cardinality(S \cup {x}) = IF x \in S THEN Cardinality(S) ELSE Cardinality(S) + 1
BY Zenon DEF SetFacts

(* One element less. *)
LEMMA CardRemove ==
    ASSUME SetFacts, NEW S, NEW x, IsFiniteSet(S)
    PROVE  /\ IsFiniteSet(S \ {x})
           /\ Cardinality(S \ {x}) = IF x \in S THEN Cardinality(S) - 1 ELSE Cardinality(S)
BY Zenon DEF SetFacts

(* A subset of a finite set. *)
LEMMA CardSubset ==
    ASSUME SetFacts, NEW S, IsFiniteSet(S), NEW T \in SUBSET S
    PROVE  /\ IsFiniteSet(T) /\ Cardinality(T) <= Cardinality(S)
           /\ Cardinality(S) = Cardinality(T) => S = T
BY Zenon DEF SetFacts

(* An interval of numbers. *)
LEMMA CardInterval ==
    ASSUME SetFacts, NEW a \in Int, NEW b \in Int
    PROVE  IsFiniteSet(a .. b) /\ Cardinality(a .. b) = IF a > b THEN 0 ELSE b - a + 1
BY Zenon DEF SetFacts

(* The values of a function on a finite set are finitely many. *)
LEMMA CardImage ==
    ASSUME SetFacts, NEW S, NEW T, NEW f, IsFiniteSet(S), \A z \in T : \E x \in S : z = f[x]
    PROVE  IsFiniteSet(T)
<1>1. FiniteImages
  BY Zenon DEF SetFacts
<1> QED BY <1>1 DEF FiniteImages

(* A non-empty set of naturals has a least element (IPPOOL_CTZ64). *)
LEMMA LeastElement ==
    ASSUME SetFacts, NEW S \in SUBSET Nat, S # {}
    PROVE  Least(S) \in S /\ \A y \in S : Least(S) <= y
BY Zenon DEF SetFacts, Least

(* socket() gives a number that was free. *)
LEMMA NewDescriptor ==
    ASSUME SetFacts,
           NEW f \in [Fds -> Nat], \E fd \in Fds : f[fd] = 0
    PROVE  /\ LowestFree(f) \in Fds /\ f[LowestFree(f)] = 0
           /\ LowestFree(f) # NoFd
<1> DEFINE S == {fd \in Fds : f[fd] = 0}
<1>1. S \in SUBSET Nat /\ S # {}
  BY StreamAssumption, Zenon
<1>2. Least(S) \in S /\ \A y \in S : Least(S) <= y
  BY <1>1, LeastElement
<1>3. \E fd \in Fds : f[fd] = 0 /\ \A x \in Fds : f[x] = 0 => fd <= x
  BY <1>2
<1>4. LowestFree(f) \in Fds /\ f[LowestFree(f)] = 0
  BY <1>3 DEF LowestFree
<1> QED BY <1>4, StreamAssumption DEF NoFd

(* stream_conn and stream_bind either give a free descriptor or leave the  *)
(* table as it was.                                                        *)
LEMMA SockNew ==
    ASSUME SetFacts,
           SInv, NEW f \in [Fds -> Nat], \E fd \in Fds : f[fd] = 0
    PROVE  LET s == sock_new(f)  t == net_sock_close(s) IN
           /\ s.fd \in Fds /\ s.fd # NoFd /\ f[s.fd] = 0
           /\ s.file = [f EXCEPT ![s.fd] = Len(link) + 1]
           /\ t.fd = NoFd /\ t.file = f
           /\ net_sock_close(t).file = f
<1> DEFINE fd == LowestFree(f)
           g == [f EXCEPT ![fd] = Len(link) + 1]
<1>1. fd \in Fds /\ f[fd] = 0 /\ fd # NoFd
  BY NewDescriptor
<1>2. sock_new(f).fd = fd /\ sock_new(f).file = g
  BY DEF sock_new
<1> HIDE DEF fd
<1>3. [x \in Fds |-> IF x = fd THEN 0 ELSE g[x]] = f
  BY <1>1
<1>4. net_sock_close(sock_new(f)) = [file |-> f, fd |-> NoFd]
  BY <1>2, <1>3 DEF net_sock_close
<1>5. [x \in Fds |-> IF x = NoFd THEN 0 ELSE f[x]] = f
  BY StreamAssumption DEF NoFd
<1>6. net_sock_close([file |-> f, fd |-> NoFd]).file = f
  BY <1>5 DEF net_sock_close
<1> QED BY <1>1, <1>2, <1>4, <1>6

(* Dialling, listening, accepting, redialling, closing, the sessions and   *)
(* what happens in a call keep the sockets' invariant.                     *)
LEMMA SStep ==
    ASSUME SetFacts
    PROVE  SInv /\ [StreamNext]_streamVars => SInv'
<1> SUFFICES ASSUME SInv, [StreamNext]_streamVars PROVE SInv'
  OBVIOUS
<1>a. file \in [Fds -> Nat] /\ IsSeq(link)
  BY DEF SInv
<1>b. ASSUME NEW st PROVE Made(st) => IsSeq(link')
  BY <1>a, LinkGrows DEF Made
<1>c. ASSUME NEW o \in Socks, NEW fd \in Fds, ~sock[o].open, file[fd] = 0, tls' = tls, IsSeq(link'),
             sock' = [sock EXCEPT ![o] = Given(fd)], file' = [file EXCEPT ![fd] = Len(link) + 1]
      PROVE  SInv'
  <2>1. Freed(o) = file /\ ~tls[o].open
    BY <1>c, NoneFreed
  <2>2. /\ Given(fd) \in SockRec /\ Given(fd).open /\ Given(fd).fd = fd
        /\ Given(fd).id = Len(link) + 1 /\ Given(fd).id # 0
    BY GivenRec
  <2>3. fd # NoFd
    BY StreamAssumption, SMTT(30) DEF NoFd
  <2> QED BY <1>c, <2>1, <2>2, <2>3, SChange, Zenon
<1>d. ASSUME UNCHANGED <<file, sock, tls>>, IsSeq(link') PROVE SInv'
  BY <1>d DEF SInv, Holds
<1>1. ASSUME NEW o \in Socks, NEW r \in {NET_OK, NET_ERR, NET_TIMEOUT, NET_WANT}, stream_connect(o, r)
      PROVE  SInv'
  <2>1. CanOpen /\ ~sock[o].open /\ tls' = tls /\ IsSeq(link')
    BY <1>1, <1>b DEF stream_connect
  <2>2. \E fd \in Fds : file[fd] = 0
    BY <2>1 DEF CanOpen
  <2>3. CASE r = NET_OK
    <3>1. file' = sock_new(file).file /\ sock' = [sock EXCEPT ![o] = Given(sock_new(file).fd)]
      BY <1>1, <2>3 DEF stream_connect, stream_conn, Held, Given
    <3> QED BY <1>a, <1>c, <2>1, <2>2, <3>1, SockNew, Zenon
  <2>4. CASE r # NET_OK
    <3>1. file' = net_sock_close(stream_conn(file, r)).file /\ sock' = sock
      BY <1>1, <2>4 DEF stream_connect
    <3>2. file' = file
      BY <1>a, <2>2, <3>1, SockNew, ZenonT(40) DEF stream_conn
    <3> QED BY <1>d, <2>1, <3>1, <3>2
  <2> QED BY <2>3, <2>4
<1>2. ASSUME NEW o \in Socks, NEW r \in {NET_OK, NET_ERR}, StreamListener(o, r)
      PROVE  SInv'
  <2>1. CanOpen /\ ~sock[o].open /\ tls' = tls /\ IsSeq(link')
    BY <1>2, <1>b DEF StreamListener
  <2>2. \E fd \in Fds : file[fd] = 0
    BY <2>1 DEF CanOpen
  <2>3. CASE r = NET_OK
    <3>1. file' = sock_new(file).file /\ sock' = [sock EXCEPT ![o] = Given(sock_new(file).fd)]
      BY <1>2, <2>3 DEF StreamListener, stream_bind, Held, Given
    <3> QED BY <1>a, <1>c, <2>1, <2>2, <3>1, SockNew, Zenon
  <2>4. CASE r # NET_OK
    <3>1. file' = net_sock_close(sock_new(file)).file /\ sock' = sock
      BY <1>2, <2>4 DEF StreamListener, stream_bind
    <3> QED BY <1>a, <1>d, <2>1, <2>2, <3>1, SockNew, Zenon
  <2> QED BY <2>3, <2>4
<1>3. ASSUME NEW o \in Socks, NEW r \in {NET_OK, NET_ERR, NET_TIMEOUT, NET_WANT}, net_sock_reconn(o, r)
      PROVE  SInv'
  <2> DEFINE f == Freed(o)
             s == stream_conn(f, r)
  <2>1. sock[o].open /\ sock[o].fd # NoFd /\ ~tls[o].open /\ tls' = tls /\ IsSeq(link')
    BY <1>3, <1>b DEF net_sock_reconn
  <2>2. sock[o].fd \in Fds
    BY <2>1, ZenonT(40) DEF SInv, SockRec
  <2>3. f \in [Fds -> Nat] /\ f[sock[o].fd] = 0
    BY <2>1, <2>2 DEF SInv, Freed
  <2>4. net_sock_close([file |-> file, fd |-> sock[o].fd]).file = f
    BY <2>1 DEF net_sock_close, Freed
  <2>5. file' = s.file /\ sock' = [sock EXCEPT ![o] = Given(s.fd)]
    BY <1>3, <2>4, Zenon DEF net_sock_reconn, Held, Given
  <2>6. \/ s.fd \in Fds /\ s.fd # NoFd /\ f[s.fd] = 0 /\ s.file = [f EXCEPT ![s.fd] = Len(link) + 1]
        \/ s.fd = NoFd /\ s.file = f
    BY <2>2, <2>3, SockNew, ZenonT(40) DEF stream_conn
  <2>7. /\ Given(s.fd) \in SockRec /\ Given(s.fd).open /\ Given(s.fd).fd = s.fd
        /\ Given(s.fd).id = Len(link) + 1 /\ Given(s.fd).id # 0
    BY <2>6, GivenRec
  <2> HIDE DEF s
  <2> QED BY <2>1, <2>5, <2>6, <2>7, SChange, ZenonT(40)
<1>4. ASSUME NEW o \in Socks, close(o) PROVE SInv'
  <2>1. /\ sock[o].open /\ ~tls[o].open /\ tls' = tls /\ link' = link
        /\ sock' = [sock EXCEPT ![o] = NoSock]
    BY <1>4, ZenonT(40) DEF close
  <2>2. file' = Freed(o)
    BY <1>4 DEF close, net_sock_close, Freed
  <2>3. NoSock \in SockRec /\ ~NoSock.open
    BY Zenon DEF NoSock, SockRec
  <2> QED BY <1>a, <2>1, <2>2, <2>3, SChange, Zenon
<1>5. ASSUME NEW o \in Socks, net_tls_new(o) PROVE SInv'
  <2> DEFINE t == [open |-> TRUE, up |-> FALSE, fd |-> sock[o].fd]
  <2>1. t \in TlsRec /\ t.fd = sock[o].fd
    BY DEF SInv, SockRec, TlsRec
  <2>2. UNCHANGED <<file, link, sock>> /\ sock[o].open /\ tls' = [tls EXCEPT ![o] = t]
    BY <1>5, Zenon DEF net_tls_new
  <2> HIDE DEF t
  <2> QED BY <2>1, <2>2, ZenonT(40) DEF SInv, Holds
<1>6. ASSUME NEW o \in Socks, net_tls_free(o) PROVE SInv'
  <2>1. NoTls \in TlsRec /\ ~NoTls.open
    BY DEF NoTls, TlsRec
  <2>2. UNCHANGED <<file, link, sock>> /\ tls' = [tls EXCEPT ![o] = NoTls]
    BY <1>6 DEF net_tls_free
  <2> QED BY <2>1, <2>2 DEF SInv, Holds
<1>7. ASSUME NEW o \in Socks, NEW t \in {Poll, Patience}, begin_call(o, t) PROVE SInv'
  <2>1. UNCHANGED <<file, link, sock, tls>>
    BY <1>7, Zenon DEF begin_call, Begin
  <2> QED BY <1>a, <1>d, <2>1, SMTT(30)
<1>8. CASE send_end \/ done_end \/ tick
  <2>1. UNCHANGED <<file, link, sock, tls>>
    BY <1>8 DEF send_end, done_end, tick
  <2> QED BY <1>a, <1>d, <2>1
<1>9. CASE send_some \/ rekey \/ recv_end \/ other_end
  <2>1. UNCHANGED <<file, sock, tls>>
    BY <1>9, Zenon DEF send_some, rekey, recv_end, other_end
  <2>2. CASE send_some
    <3>1. DOMAIN link' = DOMAIN link /\ link' = [i \in DOMAIN link' |-> link'[i]]
      BY <2>2, Zenon DEF send_some
    <3> QED BY <1>a, <1>d, <2>1, <3>1, LinkChanges
  <2>3. CASE rekey
    <3>1. DOMAIN link' = DOMAIN link /\ link' = [i \in DOMAIN link' |-> link'[i]]
      BY <2>3, Zenon DEF rekey
    <3> QED BY <1>a, <1>d, <2>1, <3>1, LinkChanges
  <2>4. CASE recv_end
    <3>1. \/ link' = link
          \/ DOMAIN link' = DOMAIN link /\ link' = [i \in DOMAIN link' |-> link'[i]]
      BY <2>4 DEF recv_end
    <3> QED BY <1>a, <1>d, <2>1, <3>1, LinkChanges
  <2>5. CASE other_end
    <3>1. DOMAIN link' = DOMAIN link /\ link' = [i \in DOMAIN link' |-> link'[i]]
      BY <2>5, ZenonT(40) DEF other_end
    <3> QED BY <1>a, <1>d, <2>1, <3>1, LinkChanges
  <2> QED BY <1>9, <2>2, <2>3, <2>4, <2>5, SMTT(30)
<1>10. CASE shake_end
  <2>1. UNCHANGED <<file, sock>>
    BY <1>10 DEF shake_end
  <2>2. \/ link' = link
        \/ DOMAIN link' = DOMAIN link /\ link' = [i \in DOMAIN link' |-> link'[i]]
    BY <1>10 DEF shake_end
  <2>3. IsSeq(link')
    BY <1>a, <2>2, LinkChanges
  <2>4. tls' = tls \/ tls' = [tls EXCEPT ![call.o].up = TRUE]
    BY <1>10 DEF shake_end
  <2>5. /\ tls' \in [Socks -> TlsRec]
        /\ \A o \in Socks : tls'[o].open = tls[o].open /\ tls'[o].fd = tls[o].fd
    <3>1. CASE tls' = tls
      BY <3>1 DEF SInv
    <3>2. CASE tls' = [tls EXCEPT ![call.o].up = TRUE]
      <4> DEFINE t == [tls[call.o] EXCEPT !.up = TRUE]
      <4>1. tls' = [tls EXCEPT ![call.o] = t] /\ tls \in [Socks -> TlsRec]
        BY <3>2 DEF SInv
      <4>2. call.o \in Socks => t \in TlsRec /\ t.open = tls[call.o].open /\ t.fd = tls[call.o].fd
        BY <4>1, ZenonT(40) DEF TlsRec
      <4> HIDE DEF t
      <4> QED BY <4>1, <4>2, ZenonT(40)
    <3> QED BY <2>4, <3>1, <3>2, ZenonT(40)
  <2> QED BY <2>1, <2>3, <2>5 DEF SInv, Holds
<1>11. ASSUME NEW o \in Socks, accept_end(o) PROVE SInv'
  <2>1. CASE UNCHANGED <<file, link, sock>>
    BY <1>11, <1>a, <1>d, <2>1 DEF accept_end
  <2>2. CASE ~UNCHANGED <<file, link, sock>>
    <3>1. /\ CanOpen /\ ~sock[o].open /\ file' = sock_new(file).file /\ tls' = tls
          /\ sock' = [sock EXCEPT ![o] = Given(sock_new(file).fd)]
          /\ link' = Append([link EXCEPT ![Here].in = @ - 1], Fresh("up"))
      BY <1>11, <2>2 DEF accept_end, Held, Given
    <3>2. IsSeq([link EXCEPT ![Here].in = @ - 1])
      BY <1>a, LinkChanges
    <3>3. IsSeq(link')
      BY <3>1, <3>2, LinkGrows
    <3>4. \E fd \in Fds : file[fd] = 0
      BY <3>1 DEF CanOpen
    <3> QED BY <1>a, <1>c, <3>1, <3>3, <3>4, SockNew, ZenonT(40)
  <2> QED BY <2>1, <2>2, ZenonT(40)
<1>12. CASE UNCHANGED streamVars
  BY <1>12, <1>a, <1>d DEF streamVars
<1> QED BY <1>1, <1>2, <1>3, <1>4, <1>5, <1>6, <1>7, <1>8, <1>9, <1>10, <1>11, <1>12, Zenon
        DEF StreamNext, Returns

(* What the sweep returns: a free slot, and the lowest one of the first    *)
(* probe that met any.                                                     *)
LEMMA SweepSlotFound ==
    ASSUME SetFacts,
           IInv, Hits # {}
  PROVE  /\ Least(Hits) \in Hits
         /\ \A m \in Hits : Least(Hits) <= m
         /\ SweepSlot \in FreeBits(Least(Hits))
         /\ \A b \in FreeBits(Least(Hits)) : SweepSlot <= b
         /\ SweepSlot \in Slots \ bits
<1>1. Hits \in SUBSET Nat
  BY SweepRange DEF Hits, Probes
<1>2. Least(Hits) \in Hits /\ \A m \in Hits : Least(Hits) <= m
  BY <1>1, LeastElement
<1>3. FreeBits(Least(Hits)) # {}
  BY <1>2 DEF Hits
<1>4. \A n : FreeBits(n) \subseteq Slots \ bits
  BY FreeBitIsSlot DEF FreeBits
<1>5. FreeBits(Least(Hits)) \in SUBSET Nat
  BY <1>4, SweepRange
<1>6. /\ SweepSlot \in FreeBits(Least(Hits))
      /\ \A b \in FreeBits(Least(Hits)) : SweepSlot <= b
  BY <1>3, <1>5, LeastElement DEF SweepSlot
<1> QED BY <1>2, <1>4, <1>6

(* The word sweep is next-fit: no free slot lies between the cursor and    *)
(* the slot ippool_alloc hands out, going round the circle.                *)
LEMMA SweepIsNextFit ==
    ASSUME SetFacts,
           IInv, Hits # {}, NEW t \in Slots \ bits
  PROVE  Abstract!Ahead(cursor, SweepSlot) <= Abstract!Ahead(cursor, t)
<1> DEFINE n == Least(Hits)
           s == SweepSlot
           c == WordOf(cursor)
<1>1. /\ n \in Hits /\ s \in FreeBits(n) /\ s \in Slots
      /\ n <= ProbeOf(t) /\ (n = ProbeOf(t) => s <= t)
  BY SweepSlotFound, ProbeMeets, Zenon
<1>2. n \in 0 .. Words /\ WordOf(s) = SweepWord(n) /\ (n = 0 => s >= cursor)
  BY <1>1 DEF Hits, Probes, FreeBits
<1>3. n <= ProbeOf(s)
  BY SweepSlotFound, ProbeMeets, SMTT(30)
<1>4. /\ s \in Nat /\ t \in Nat /\ cursor \in Nat
      /\ s < Size /\ t < Size /\ cursor < Size
      /\ c \in 0 .. (Words - 1) /\ WordOf(s) \in 0 .. (Words - 1)
      /\ WordOf(t) \in 0 .. (Words - 1) /\ Words \in Nat /\ Size \in Nat
  BY <1>1, SweepRange DEF IInv, TypeOK
<1>5. /\ WordOf(s) < WordOf(t) => s < t
      /\ WordOf(s) < c => s < cursor
      /\ WordOf(t) < c => t < cursor
      /\ c < WordOf(s) => cursor < s
      /\ c < WordOf(t) => cursor < t
  BY <1>4, WordMonotone
<1>6. WordOf(s) = IF c + n < Words THEN c + n ELSE c + n - Words
  BY <1>2, <1>4, SMTT(30) DEF SweepWord
<1>7. /\ ProbeOf(t) = IF WordOf(t) = c THEN IF t >= cursor THEN 0 ELSE Words
                      ELSE IF WordOf(t) > c THEN WordOf(t) - c
                      ELSE WordOf(t) - c + Words
      /\ ProbeOf(s) = IF WordOf(s) = c THEN IF s >= cursor THEN 0 ELSE Words
                      ELSE IF WordOf(s) > c THEN WordOf(s) - c
                      ELSE WordOf(s) - c + Words
  BY Zenon DEF ProbeOf
<1> HIDE DEF n, s, c
<1>8. (t >= cursor /\ s >= cursor) \/ (t < cursor /\ s < cursor) => s <= t
  BY <1>1, <1>2, <1>3, <1>4, <1>5, <1>6, <1>7, SMTT(30)
<1>9. t >= cursor => s >= cursor
  BY <1>1, <1>2, <1>3, <1>4, <1>5, <1>6, <1>7, SMTT(30)
<1> QED BY <1>4, <1>8, <1>9 DEF Abstract!Ahead, s

(* The counter stands at Size exactly when every slot is out, which is     *)
(* what lets ippool_alloc answer exhaustion without a scan.                *)
LEMMA FullCount ==
    ASSUME SetFacts,
           IInv
  PROVE  used = Size <=> Slots \subseteq bits
<1>1. IsFiniteSet(Slots) /\ Cardinality(Slots) = Size
  BY CardInterval, PoolAssumption DEF Slots
<1>2. bits \cap Slots \in SUBSET Slots
  OBVIOUS
<1>3. Cardinality(Slots) = Cardinality(bits \cap Slots) => Slots = bits \cap Slots
  BY <1>1, <1>2, CardSubset
<1>4. used = Cardinality(bits \cap Slots)
  BY DEF IInv, CountExact
<1>5. ASSUME Slots \subseteq bits PROVE used = Size
  <2>1. bits \cap Slots = Slots
    BY <1>5
  <2> QED BY <2>1, <1>1, <1>4
<1>6. ASSUME used = Size PROVE Slots \subseteq bits
  BY <1>1, <1>3, <1>4, <1>6
<1> QED BY <1>5, <1>6

-------------------------------------------------------------------------------
(* The invariant holds initially: pool_new sets the padding and nothing    *)
(* else.                                                                   *)
LEMMA InitIInv ==
    ASSUME SetFacts
    PROVE  Init => IInv
<1> SUFFICES ASSUME Init PROVE IInv
  OBVIOUS
<1>1. Padding \cap Slots = {}
  BY PoolAssumption DEF Padding, Slots
<1>2. bits = Padding /\ Cardinality(bits \cap Slots) = 0
  BY <1>1, CardEmpty DEF Init, mark_tail
<1> QED BY <1>2, PoolAssumption DEF Init, IInv, TypeOK, CountExact, Bits, Slots

(* Counting one more and one less slot in use. *)
LEMMA CountChange ==
    ASSUME SetFacts,
           IInv, NEW i \in Slots
  PROVE  /\ i \notin bits => /\ Cardinality((bits \cup {i}) \cap Slots) = used + 1
                             /\ used + 1 \in 0 .. Size
         /\ i \in bits => /\ Cardinality((bits \ {i}) \cap Slots) = used - 1
                          /\ used - 1 \in 0 .. Size
<1>1. IsFiniteSet(Slots)
  BY CardInterval, PoolAssumption DEF Slots
<1>2. IsFiniteSet(bits \cap Slots)
  BY <1>1, CardSubset
<1>3. /\ (bits \cup {i}) \cap Slots = (bits \cap Slots) \cup {i}
      /\ (bits \ {i}) \cap Slots = (bits \cap Slots) \ {i}
  OBVIOUS
<1>4. used \in 0 .. Size /\ used = Cardinality(bits \cap Slots)
  BY DEF IInv, TypeOK, CountExact
<1>5. i \in bits => used > 0
  BY <1>2, <1>4, CardEmpty
<1>6. i \notin bits => used < Size
  BY <1>4, FullCount, PoolAssumption
<1>7. i \notin bits => Cardinality((bits \cup {i}) \cap Slots) = used + 1
  BY <1>2, <1>3, <1>4, CardAdd, ZenonT(40)
<1>8. i \in bits => Cardinality((bits \ {i}) \cap Slots) = used - 1
  BY <1>2, <1>3, <1>4, CardRemove, ZenonT(40)
<1> QED BY <1>4, <1>5, <1>6, <1>7, <1>8, PoolAssumption, SMTT(30)

(* Every call keeps the types, the count and the padding. *)
LEMMA StepIInv ==
    ASSUME SetFacts
    PROVE  IInv /\ [Next]_vars => IInv'
<1> SUFFICES ASSUME IInv, [Next]_vars PROVE IInv'
  OBVIOUS
<1>0. /\ NoSlot = -1 /\ Slots \cap Padding = {} /\ Slots \subseteq Bits
      /\ Padding \subseteq Bits /\ 0 \in Slots
  BY PoolAssumption DEF Slots, Padding, Bits, NoSlot
<1>1. CASE ippool_alloc
  <2>1. CASE used = Size \/ Hits = {}
    BY <1>1, <2>1, Zenon DEF ippool_alloc, IInv, TypeOK, CountExact
  <2>2. CASE ~(used = Size \/ Hits = {})
    <3>1. SweepSlot \in Slots /\ SweepSlot \notin bits
      BY <2>2, SweepSlotFound, Zenon
    <3>2. /\ bits' = bits \cup {SweepSlot} /\ used' = used + 1
          /\ cursor' = IF SweepSlot + 1 < Size THEN SweepSlot + 1 ELSE 0
          /\ ret' = "OK" /\ out' = SweepSlot
      BY <1>1, <2>2 DEF ippool_alloc
    <3>3. cursor' \in Slots
      BY <3>1, <3>2, PoolAssumption DEF Slots
    <3>4. used' = Cardinality(bits' \cap Slots) /\ used' \in 0 .. Size
      BY <3>1, <3>2, CountChange, Zenon
    <3> QED BY <1>0, <3>1, <3>2, <3>3, <3>4 DEF IInv, TypeOK, CountExact
  <2> QED BY <2>1, <2>2
<1>2. ASSUME NEW i \in Slots \cup {-1}, ippool_reserve(i) PROVE IInv'
  <2>1. CASE i \in Slots /\ i \notin bits
    <3>1. /\ bits' = bits \cup {i} /\ used' = used + 1 /\ cursor' = cursor
          /\ ret' = "OK" /\ out' = NoSlot
      BY <1>2, <2>1, PoolAssumption DEF ippool_reserve, Slots
    <3>2. used' = Cardinality(bits' \cap Slots) /\ used' \in 0 .. Size
      BY <2>1, <3>1, CountChange, ZenonT(40)
    <3> QED BY <1>0, <2>1, <3>1, <3>2 DEF IInv, TypeOK, CountExact
  <2>2. CASE i \notin Slots \/ i \in bits
    <3>1. /\ UNCHANGED <<bits, used, cursor>> /\ out' = NoSlot
          /\ ret' \in {"E_RANGE", "E_INUSE"}
      BY <1>2, <2>2 DEF ippool_reserve
    <3> QED BY <3>1 DEF IInv, TypeOK, CountExact
  <2> QED BY <2>1, <2>2
<1>3. ASSUME NEW i \in Slots \cup {-1}, ippool_free(i) PROVE IInv'
  <2>1. CASE i \in Slots /\ i \in bits
    <3>1. /\ bits' = bits \ {i} /\ used' = used - 1 /\ cursor' = cursor
          /\ ret' = "OK" /\ out' = NoSlot
      BY <1>3, <2>1, PoolAssumption DEF ippool_free, Slots
    <3>2. used' = Cardinality(bits' \cap Slots) /\ used' \in 0 .. Size
      BY <2>1, <3>1, CountChange, ZenonT(40)
    <3> QED BY <1>0, <2>1, <3>1, <3>2, Zenon DEF IInv, TypeOK, CountExact
  <2>2. CASE i \notin Slots \/ i \notin bits
    <3>1. /\ UNCHANGED <<bits, used, cursor>> /\ out' = NoSlot
          /\ ret' \in {"E_RANGE", "E_FREE"}
      BY <1>3, <2>2 DEF ippool_free
    <3> QED BY <3>1 DEF IInv, TypeOK, CountExact
  <2> QED BY <2>1, <2>2, Zenon
<1>4. CASE ippool_reset
  <2>1. bits' = Padding /\ used' = 0 /\ cursor' = 0 /\ ret' = "OK" /\ out' = NoSlot
    BY <1>4 DEF ippool_reset, mark_tail
  <2>2. Cardinality(bits' \cap Slots) = 0
    BY <1>0, <2>1, CardEmpty, Zenon
  <2> QED BY <1>0, <2>1, <2>2, PoolAssumption DEF IInv, TypeOK, CountExact
<1>5. CASE UNCHANGED vars
  BY <1>5 DEF vars, IInv, TypeOK, CountExact
<1> QED BY <1>1, <1>2, <1>3, <1>4, <1>5 DEF Next

(* The sweep fails only when every slot is out. *)
LEMMA FullStep ==
    ASSUME SetFacts
    PROVE  IInv /\ FullOnlyWhenFull /\ [Next]_vars => FullOnlyWhenFull'
<1> SUFFICES ASSUME IInv, FullOnlyWhenFull, [Next]_vars, ret' = "E_FULL"
             PROVE  Slots \subseteq bits'
  BY DEF FullOnlyWhenFull
<1>1. CASE ippool_alloc
  <2>1. Hits = {} => Slots \subseteq bits
    BY ProbeMeets
  <2>2. (used = Size \/ Hits = {}) /\ bits' = bits
    BY <1>1 DEF ippool_alloc
  <2> QED BY <2>1, <2>2, FullCount
<1>2. ASSUME NEW i \in Slots \cup {-1}, ippool_reserve(i) \/ ippool_free(i)
      PROVE  FALSE
  BY <1>2 DEF ippool_reserve, ippool_free
<1>3. CASE ippool_reset
  BY <1>3 DEF ippool_reset
<1>4. CASE UNCHANGED vars
  BY <1>4 DEF vars, FullOnlyWhenFull
<1> QED BY <1>1, <1>2, <1>3, <1>4, SMTT(30) DEF Next

(* Every call of the bitmap pool is a call of the circle of slots. *)
LEMMA StepRefines ==
    ASSUME SetFacts
    PROVE  IInv /\ IInv' /\ [Next]_vars => [Abstract!Next]_(Abstract!vars)
<1> SUFFICES ASSUME IInv, IInv', [Next]_vars
             PROVE  Abstract!Next \/ UNCHANGED Abstract!vars
  OBVIOUS
<1>0. Slots \cap Padding = {} /\ (\A i \in Slots : i >= 0) /\ Size \in Nat
  BY PoolAssumption DEF Slots, Padding
<1>1. CASE ippool_alloc
  <2>1. CASE used = Size \/ Hits = {}
    <3>1. Slots \subseteq bits
      BY <2>1, FullCount, ProbeMeets, ZenonT(40)
    <3>2. Abstract!AllocFull
      BY <1>1, <2>1, <3>1, SameSlots, Zenon DEF ippool_alloc, Abstract!AllocFull
    <3> QED BY <3>2 DEF Abstract!Next
  <2>2. CASE ~(used = Size \/ Hits = {})
    <3>1. SweepSlot \in Slots /\ SweepSlot \notin bits
      BY <2>2, SweepSlotFound
    <3>2. \A t \in Slots \ (bits \cap Slots) :
             Abstract!Ahead(cursor, SweepSlot) <= Abstract!Ahead(cursor, t)
      BY <2>2, SweepIsNextFit, Zenon
    <3>3. /\ bits' = bits \cup {SweepSlot}
          /\ cursor' = IF SweepSlot + 1 < Size THEN SweepSlot + 1 ELSE 0
          /\ ret' = "OK" /\ out' = SweepSlot
      BY <1>1, <2>2 DEF ippool_alloc
    <3>4. bits' \cap Slots = (bits \cap Slots) \cup {SweepSlot}
      BY <3>1, <3>3
    <3>5. Abstract!Alloc(SweepSlot)
      BY <3>1, <3>2, <3>3, <3>4, SameSlots, ZenonT(40) DEF Abstract!Alloc
    <3> QED BY <3>1, <3>5, SameSlots, Zenon DEF Abstract!Next
  <2> QED BY <2>1, <2>2
<1>2. ASSUME NEW i \in Slots \cup {-1}, ippool_reserve(i)
      PROVE  Abstract!Next
  <2>1. CASE i \in Slots
    <3>1. /\ ~(i < 0) /\ i \in Slots /\ out' = NoSlot /\ cursor' = cursor
      BY <1>0, <1>2, <2>1 DEF ippool_reserve, Slots
    <3>2. bits' \cap Slots = (bits \cap Slots) \cup {i}
      BY <1>2, <3>1 DEF ippool_reserve
    <3>3. ret' = IF i \in bits \cap Slots THEN "E_INUSE" ELSE "OK"
      BY <1>2, <3>1 DEF ippool_reserve
    <3>4. Abstract!Reserve(i)
      BY <3>1, <3>2, <3>3, SameSlots, Zenon DEF Abstract!Reserve
    <3> QED BY <2>1, <3>4, SameSlots DEF Abstract!Next
  <2>2. CASE i = -1
    BY <1>2, <2>2, SameSlots, SMTT(30) DEF ippool_reserve, Abstract!Next, Abstract!Foreign
  <2> QED BY <2>1, <2>2
<1>3. ASSUME NEW i \in Slots \cup {-1}, ippool_free(i)
      PROVE  Abstract!Next
  <2>1. CASE i \in Slots
    <3>1. /\ ~(i < 0) /\ i \in Slots /\ out' = NoSlot /\ cursor' = cursor
      BY <1>0, <1>3, <2>1 DEF ippool_free, Slots
    <3>2. bits' \cap Slots = (bits \cap Slots) \ {i}
      BY <1>3, <3>1, Zenon DEF ippool_free
    <3>3. ret' = IF i \in bits \cap Slots THEN "OK" ELSE "E_FREE"
      BY <1>3, <3>1 DEF ippool_free
    <3>4. Abstract!Free(i)
      BY <3>1, <3>2, <3>3, SameSlots, Zenon DEF Abstract!Free
    <3> QED BY <2>1, <3>4, SameSlots, Zenon DEF Abstract!Next
  <2>2. CASE i = -1
    BY <1>3, <2>2, SameSlots, SMTT(30) DEF ippool_free, Abstract!Next, Abstract!Foreign
  <2> QED BY <2>1, <2>2
<1>4. CASE ippool_reset
  <2>1. Abstract!Reset
    BY <1>0, <1>4, SameSlots, SMTT(30) DEF ippool_reset, mark_tail, Abstract!Reset
  <2> QED BY <2>1 DEF Abstract!Next
<1>5. CASE UNCHANGED vars
  BY <1>5 DEF vars, Abstract!vars
<1> QED BY <1>1, <1>2, <1>3, <1>4, <1>5 DEF Next

(* While fewer ids than there are outstand, the search ends, with one that *)
(* no outstanding query has.                                               *)
LEMMA FreeId ==
    ASSUME SetFacts,
           RInv, Cardinality(Used) < IdMod
    PROVE  NextId \in (0 .. IdMod - 1) \ Used
<1> DEFINE ahead(k) == (seq + k) % IdMod
           free == {k \in 1 .. IdMod : ahead(k) \notin Used}
<1>1. IsFiniteSet(Used)
  <2>1. IsFiniteSet(Outstanding)
    <3>1. IsFiniteSet(Queries)
      BY Zenon, DnsAssumption
    <3>2. Outstanding \subseteq Queries
      BY DEF Outstanding
    <3> QED BY <3>1, <3>2, CardSubset, ZenonT(40)
  <2> DEFINE f == [q1 \in Outstanding |-> query[q1].id]
  <2>2. \A z \in Used : \E q1 \in Outstanding : z = f[q1]
    BY DEF Used
  <2> HIDE DEF f
  <2> QED BY <2>1, <2>2, CardImage, Zenon
<1>2. free # {}
  <2> SUFFICES ASSUME free = {} PROVE FALSE
    OBVIOUS
  <2>1. 0 .. IdMod - 1 \subseteq Used
    BY Around DEF RInv
  <2>2. Cardinality(0 .. IdMod - 1) <= Cardinality(Used)
    BY <1>1, <2>1, CardSubset, ZenonT(40)
  <2>3. Cardinality(0 .. IdMod - 1) = IdMod
    BY CardInterval, DnsAssumption
  <2>4. Cardinality(Used) \in Nat
    BY <1>1, CardType
  <2> QED BY <2>2, <2>3, <2>4, DnsAssumption
<1>3. \E k \in free : \A j \in free : k <= j
  <2>1. free \in SUBSET Nat
    OBVIOUS
  <2> HIDE DEF free
  <2> QED BY <1>2, <2>1, LeastElement, Zenon
<1>4. PICK k \in free : NextId = ahead(k)
  BY <1>3 DEF NextId
<1> QED BY <1>4, DnsAssumption DEF RInv

(* Every call, response and timeout keeps the resolver's invariant. *)
LEMMA RStep ==
    ASSUME SetFacts
    PROVE  RInv /\ [DnsNext]_dnsVars => RInv'
<1> SUFFICES ASSUME RInv, [DnsNext]_dnsVars PROVE RInv'
  OBVIOUS
<1>0. ASSUME NEW q1 \in Queries PROVE query[q1] \in QueryRec /\ QueryOk(query[q1])
  BY DEF RInv
<1>1. ASSUME NEW q1 \in Queries, NEW n \in Names, NEW dot \in Dots, net_dns_query(q1, n, dot)
      PROVE  RInv'
  <2> DEFINE r == [query[q1] EXCEPT !.st = "out", !.id = NextId, !.tmr = TRUE,
                                    !.name = [labels |-> n, dot |-> dot]]
  <2>1. /\ query' = [query EXCEPT ![q1] = r] /\ seq' = NextId
        /\ asked' = asked \cup {[id |-> r.id, labels |-> r.name.labels]} /\ answered' = answered
        /\ query[q1].st = "new"
    BY <1>1 DEF net_dns_query, dns_send
  <2>2. NextId \in (0 .. IdMod - 1) \ Used
    BY <1>1, FreeId DEF net_dns_query
  <2>3. /\ r \in QueryRec /\ r.id = NextId /\ r.name.labels = n
        /\ r.st = "out" /\ r.calls = query[q1].calls /\ r.got = query[q1].got
    BY <1>0, <2>2, ZenonT(40) DEF QueryRec, Labels
  <2> HIDE DEF r
  <2>4. QueryOk(r)
    BY <1>0, <2>1, <2>3, Zenon DEF QueryOk
  <2>5. \A q2 \in Queries \ {q1} : query[q2].st = "out" => query[q2].id # r.id
    BY <2>2, <2>3, ZenonT(40) DEF Used, Outstanding
  <2>6. asked' \in SUBSET [id : 0 .. IdMod - 1, labels : Labels]
    BY <2>1, <2>2, <2>3 DEF RInv, Labels
  <2> QED BY <2>1, <2>2, <2>3, <2>4, <2>5, <2>6, RChange, ZenonT(40)
<1>2. ASSUME NEW q1 \in Queries, dns_timeo(q1) PROVE RInv'
  <2> DEFINE r == [query[q1] EXCEPT !.tries = @ + 1, !.tmr = FALSE]
  <2>1. query[q1].tmr /\ query[q1].st = "out" /\ query[q1].calls = 0 /\ query[q1].got = {}
    BY <1>0, <1>2, SMTT(30) DEF dns_timeo, QueryOk
  <2>2. r \in QueryRec /\ r.id = query[q1].id /\ r.st = "out" /\ r.calls = 0 /\ r.got = {}
    <3>1. query[q1].tries + 1 \in Nat
      <4>1. query[q1] \in QueryRec
        BY <1>0
      <4>2. query[q1].tries \in Nat
        BY <4>1, Zenon DEF QueryRec
      <4> QED BY <4>2
    <3> QED BY <1>0, <2>1, <3>1, RTries, ZenonT(40)
  <2>3. /\ seq' = seq /\ answered' = answered
        /\ \/ /\ query' = [query EXCEPT ![q1] = [r EXCEPT !.tmr = TRUE]]
              /\ asked' = asked \cup {[id |-> r.id, labels |-> r.name.labels]}
           \/ /\ query' = [query EXCEPT ![q1] = [r EXCEPT !.st = "done", !.tmr = FALSE,
                                                          !.calls = @ + 1, !.got = {}]]
              /\ asked' = asked
    BY <1>2 DEF dns_timeo, dns_send, Done
  <2> HIDE DEF r
  <2>4. asked' \in SUBSET [id : 0 .. IdMod - 1, labels : Labels]
    BY <2>2, <2>3 DEF RInv, QueryRec
  <2>5. ASSUME NEW x \in QueryRec, x.id = r.id, QueryOk(x), query' = [query EXCEPT ![q1] = x]
        PROVE  RInv'
    <3>1. \A q2 \in Queries \ {q1} : query[q2].st = "out" => query[q2].id # x.id
      BY <2>1, <2>2, <2>5 DEF RInv
    <3>2. seq' \in 0 .. IdMod - 1
      BY <2>3 DEF RInv
    <3> QED BY <2>3, <2>4, <2>5, <3>1, <3>2, RChange, ZenonT(40)
  <2>6. /\ [r EXCEPT !.tmr = TRUE] \in QueryRec
        /\ [r EXCEPT !.tmr = TRUE].id = r.id /\ QueryOk([r EXCEPT !.tmr = TRUE])
    BY <2>2, ZenonT(40) DEF QueryRec, QueryOk
  <2> DEFINE x == [r EXCEPT !.st = "done", !.tmr = FALSE, !.calls = @ + 1, !.got = {}]
  <2>7. x \in QueryRec /\ x.id = r.id /\ QueryOk(x)
    <3>1. x = Ended(r, {})
      BY Zenon DEF Ended
    <3> HIDE DEF x
    <3> QED BY <2>2, <3>1, REnds
  <2> QED BY <2>3, <2>5, <2>6, <2>7, ZenonT(40)
<1>3. ASSUME NEW m \in answered, dns_parse(m) PROVE RInv'
  <2>1. PICK q1 \in Queries :
           /\ query[q1].st = "out" /\ m.labels = query[q1].name.labels
           /\ query' = [query EXCEPT ![q1] = [query[q1] EXCEPT
                           !.st = "done", !.tmr = FALSE, !.calls = @ + 1, !.got = {m.labels}]]
    BY <1>3, Zenon DEF dns_parse, dns_find, Outstanding, Echoes,
                Done
  <2> DEFINE x == [query[q1] EXCEPT
                      !.st = "done", !.tmr = FALSE, !.calls = @ + 1, !.got = {m.labels}]
  <2>2. m.labels \in Labels
    BY <1>3 DEF RInv
  <2>3. x \in QueryRec /\ x.st = "done" /\ QueryOk(x)
    <3>1. x = Ended(query[q1], {m.labels})
      BY Zenon DEF Ended
    <3>2. query[q1].calls = 0
      BY <1>0, <2>1, Zenon DEF QueryOk
    <3> HIDE DEF x
    <3> QED BY <1>0, <2>1, <2>2, <3>1, <3>2, REnds, ZenonT(40)
  <2>4. /\ seq' \in 0 .. IdMod - 1 /\ answered' = answered
        /\ asked' \in SUBSET [id : 0 .. IdMod - 1, labels : Labels]
    BY <1>3 DEF dns_parse, RInv
  <2>5. query' = [query EXCEPT ![q1] = x]
    BY <2>1, Zenon
  <2> HIDE DEF x
  <2> QED BY <2>3, <2>4, <2>5, RChange, ZenonT(40)
<1>4. CASE \E n \in 1 .. MaxTries : net_dns_conf(n)
  BY <1>4, ZenonT(40) DEF net_dns_conf, RInv
<1>5. CASE net_dns_query_refused
  BY <1>5, FreeId DEF net_dns_query_refused, RInv
<1>6. CASE net_dns_free
  <2>1. /\ UNCHANGED <<seq, asked, answered>>
        /\ query' = [q1 \in Queries |-> IF query[q1].st = "out"
                                        THEN [query[q1] EXCEPT !.st = "dropped", !.tmr = FALSE]
                                        ELSE query[q1]]
    BY <1>6, ZenonT(40) DEF net_dns_free, Outstanding
  <2>2. ASSUME NEW q1 \in Queries
        PROVE  query'[q1] \in QueryRec /\ QueryOk(query'[q1]) /\ query'[q1].st # "out"
    <3>1. CASE query[q1].st = "out"
      <4>1. query'[q1] = [query[q1] EXCEPT !.st = "dropped", !.tmr = FALSE]
        BY <2>1, <3>1, ZenonT(40)
      <4> QED BY <1>0, <3>1, <4>1, ZenonT(40) DEF QueryRec, QueryOk
    <3>2. CASE query[q1].st # "out"
      BY <1>0, <2>1, <3>2, ZenonT(40)
    <3> QED BY <3>1, <3>2
  <2>3. query' \in [Queries -> QueryRec]
    BY <2>1, <2>2, ZenonT(40)
  <2> HIDE DEF QueryOk
  <2> QED BY <2>1, <2>2, <2>3, ZenonT(40) DEF RInv
<1>7. ASSUME NEW m \in asked, server(m) PROVE RInv'
  BY <1>7, ZenonT(40) DEF server, RInv
<1>8. CASE UNCHANGED dnsVars
  BY <1>8 DEF dnsVars, RInv
<1> QED BY <1>1, <1>2, <1>3, <1>4, <1>5, <1>6, <1>7, <1>8, ZenonT(40) DEF DnsNext

-------------------------------------------------------------------------------
INSTANCE FiniteSetTheorems

(* What the library says of sets of numbers and of cardinality. *)
LEMMA SetsAreCounted == SetFacts
<1>0. ASSUME NEW S \in SUBSET Nat, S # {} PROVE \E x \in S : \A y \in S : x <= y
  <2> DEFINE Lt == {ss \in Nat \X Nat : ss[1] < ss[2]}
  <2>1. IsWellFoundedOn(Lt, Nat)
    BY NatLessThanWellFounded, Zenon DEF OpToRel
  <2>2. PICK x \in S : \A y \in S : ~(<<y, x>> \in Lt)
    BY <1>0, <2>1, WFMin, ZenonT(40)
  <2>3. ASSUME NEW y \in S, y < x PROVE FALSE
    <3>1. <<y, x>> \in Nat \X Nat
      OBVIOUS
    <3>2. <<y, x>> \in Lt
      BY <2>3, <3>1, Zenon
    <3> QED BY <2>2, <3>2, Zenon
  <2> QED BY <2>3
<1>1. IsFiniteSet({}) /\ Cardinality({}) = 0
  BY FS_EmptySet, Zenon
<1>2. ASSUME NEW S, IsFiniteSet(S) PROVE Cardinality(S) \in Nat /\ (Cardinality(S) = 0 <=> S = {})
  BY <1>2, FS_CardinalityType, FS_EmptySet, Zenon
<1>3. ASSUME NEW S, NEW x, IsFiniteSet(S)
      PROVE  /\ IsFiniteSet(S \cup {x})
             /\ Cardinality(S \cup {x}) = IF x \in S THEN Cardinality(S) ELSE Cardinality(S) + 1
  BY <1>3, FS_AddElement, Zenon
<1>4. ASSUME NEW S, NEW x, IsFiniteSet(S)
      PROVE  /\ IsFiniteSet(S \ {x})
             /\ Cardinality(S \ {x}) = IF x \in S THEN Cardinality(S) - 1 ELSE Cardinality(S)
  BY <1>4, FS_RemoveElement, Zenon
<1>5. ASSUME NEW S, NEW T, IsFiniteSet(S), T \subseteq S
      PROVE  /\ IsFiniteSet(T) /\ Cardinality(T) <= Cardinality(S)
             /\ Cardinality(S) = Cardinality(T) => S = T
  <2>1. T \in SUBSET S
    BY <1>5
  <2> QED BY <1>5, <2>1, FS_Subset, ZenonT(40)
<1>6. ASSUME NEW a \in Int, NEW b \in Int
      PROVE  IsFiniteSet(a .. b) /\ Cardinality(a .. b) = IF a > b THEN 0 ELSE b - a + 1
  BY FS_Interval, Zenon
<1>7. ASSUME NEW S, NEW T, NEW f, IsFiniteSet(S), \A z \in T : \E x \in S : z = f[x]
      PROVE  IsFiniteSet(T)
  <2> DEFINE R == {x \in S : f[x] \in T}
             g == [x \in R |-> f[x]]
  <2>1. g \in Surjection(R, T)
    BY <1>7 DEF Surjection
  <2>2. R \in SUBSET S
    OBVIOUS
  <2> HIDE DEF g, R
  <2>3. IsFiniteSet(R)
    BY <1>7, <2>2, FS_Subset, ZenonT(40)
  <2> QED BY <2>1, <2>3, FS_Surjection, ZenonT(40)
<1>8. FiniteImages
  BY <1>7 DEF FiniteImages
<1> QED BY <1>0, <1>1, <1>2, <1>3, <1>4, <1>5, <1>6, <1>8, ZenonT(40) DEF SetFacts

(* After dials, redials, accepts and closes in any order and with any      *)
(* outcome, for any number of objects and descriptors: every open          *)
(* descriptor is one object's, every object's is its own socket's, and no  *)
(* session is on another's.                                                *)
THEOREM StreamsAreOwned == StreamSpec => []StreamsOwned
<1>1. SInv /\ [StreamNext]_streamVars => SInv'
  BY SetsAreCounted, SStep
<1> QED BY SInit, SOwned, <1>1, PTL DEF StreamSpec

(* For every pool size and word width, the types hold, the used counter    *)
(* equals the number of set slots and the padding stays set.               *)
THEOREM PoolInvariant == Spec => []IInv
<1>1. (Init => IInv) /\ (IInv /\ [Next]_vars => IInv')
  BY SetsAreCounted, InitIInv, StepIInv, ZenonT(40)
<1> QED BY <1>1, PTL DEF Spec

(* The counter and the bitmap never drift apart (ippool_alloc,             *)
(* ippool_reserve, ippool_free, ippool_reset).                             *)
THEOREM PoolCountExact == Spec => [](TypeOK /\ CountExact)
<1>1. IInv => TypeOK /\ CountExact
  BY DEF IInv
<1> QED BY <1>1, PoolInvariant, PTL

(* E_FULL is returned only when every slot is out: a call that passes the  *)
(* counter test always finds a free bit in its sweep, so the return after  *)
(* the loop of ippool_alloc is never reached.                              *)
THEOREM PoolFullOnlyWhenFull == Spec => []FullOnlyWhenFull
<1>1. Init => FullOnlyWhenFull
  BY DEF Init, FullOnlyWhenFull
<1>2. IInv /\ FullOnlyWhenFull /\ [Next]_vars => FullOnlyWhenFull'
  BY SetsAreCounted, FullStep
<1> QED BY <1>1, <1>2, PoolInvariant, PTL DEF Spec

(* The bitmap pool implements the circle of slots, for every size and word *)
(* width: the masked sweep of ippool_alloc is next-fit.                    *)
THEOREM PoolImplementsNextFit == Spec => ImplementsNextFit
<1>1. Init => Abstract!Init
  <2>1. Padding \cap Slots = {}
    BY PoolAssumption, SMTT(30) DEF Slots, Padding
  <2> QED BY <2>1, SameSlots, Zenon DEF Init, mark_tail, Abstract!Init
<1>2. IInv /\ IInv' /\ [Next]_vars => [Abstract!Next]_(Abstract!vars)
  BY SetsAreCounted, StepRefines, ZenonT(40)
<1> QED BY <1>1, <1>2, PoolInvariant, PTL DEF Spec, ImplementsNextFit, Abstract!Spec

(* Whatever is lost, repeated, late or given up, and however often the id  *)
(* counter wraps: every query of net_dns_query ends with at most one       *)
(* callback, is given no other question's answer, and has an id of its own *)
(* while it is outstanding.                                                *)
THEOREM QueriesAnswered == DnsSpec => []DnsAnswers
<1>1. RInv /\ [DnsNext]_dnsVars => RInv'
  BY SetsAreCounted, RStep
<1> QED BY RInit, RAnswers, <1>1, PTL DEF DnsSpec
===============================================================================
