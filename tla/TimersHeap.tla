------------------------------ MODULE TimersHeap ------------------------------
(***************************************************************************)
(* The timer heap of net/src/loop.c, piece by piece: what tmr_place,       *)
(* tmr_up, tmr_down, tmr_remove, tmr_slot_alloc and the insertion of       *)
(* net_loop_after do to a sound loop, for heaps and slot tables of any     *)
(* size. The two sifting loops are functions of the number of turns, and   *)
(* the lemmas about them inductions over it. TimersProof draws the         *)
(* conclusions.                                                            *)
(***************************************************************************)
EXTENDS LoopTimers, TLAPS

(* Parents and children in a binary heap kept as an array. *)
LEMMA ParentFacts ==
    /\ \A j \in Nat \ {0} : /\ Parent(j) \in Nat /\ Parent(j) < j
                            /\ j = 2 * Parent(j) + 1 \/ j = 2 * Parent(j) + 2
    /\ \A i \in Nat : Parent(2 * i + 1) = i /\ Parent(2 * i + 2) = i
BY DEF Parent

(* An entry is one of the two children of its parent. *)
LEMMA ChildrenOf ==
    ASSUME NEW n \in Nat, NEW o \in 1 .. n - 1
    PROVE  o = 2 * Parent(o) + 1 \/ o = 2 * Parent(o) + 2
BY DEF Parent

(* The parent of an entry is an entry, and comes before it. *)
LEMMA ParentIn ==
    ASSUME NEW n \in Nat, NEW j \in 1 .. n - 1
    PROVE  Parent(j) \in 0 .. n - 1 /\ Parent(j) < j
BY DEF Parent

-------------------------------------------------------------------------------
(* The due times d of a heap of n entries are in order but for entry a,    *)
(* which may be due before its parent, though its children are not.        *)
UpOrder(d, n, a) ==
    /\ \A j \in 1 .. n - 1 : j # a => d[Parent(j)] <= d[j]
    /\ \A j \in 1 .. n - 1 : Parent(j) = a /\ a > 0 => d[Parent(a)] <= d[j]

(* They are in order but for entry a, which may be due after its children, *)
(* and, as long as nothing sank from i, before its parent.                 *)
DownOrder(d, n, a, i) ==
    /\ \A j \in 1 .. n - 1 : Parent(j) # a /\ (a = i => j # i) => d[Parent(j)] <= d[j]
    /\ \A j \in 1 .. n - 1 : Parent(j) = a /\ a > 0 => d[Parent(a)] <= d[j]

(* e is d with entries a and b exchanged. *)
Exchange(d, e, n, a, b) ==
    /\ e[a] = d[b] /\ e[b] = d[a]
    /\ \A k \in 0 .. n - 1 : k # a /\ k # b => e[k] = d[k]

(* One turn of tmr_up's loop: what was out of order is so one level up. *)
LEMMA UpStep ==
    ASSUME NEW n \in Nat, NEW d \in [0 .. n - 1 -> Nat], NEW e \in [0 .. n - 1 -> Nat],
           NEW a \in 1 .. n - 1, UpOrder(d, n, a), d[a] < d[Parent(a)],
           Exchange(d, e, n, a, Parent(a))
    PROVE  UpOrder(e, n, Parent(a))
<1> DEFINE p == Parent(a)
<1>1. p \in 0 .. n - 1 /\ p < a
  BY ParentIn
<1>2. \A j \in 1 .. n - 1 : Parent(j) \in 0 .. n - 1 /\ Parent(j) < j
  BY ParentIn
<1>3. \A k \in 0 .. n - 1 : d[k] \in Nat /\ e[k] \in Nat
  OBVIOUS
<1>4. ASSUME NEW j \in 1 .. n - 1, j # p PROVE e[Parent(j)] <= e[j]
  <2>1. CASE j = a
    BY <1>1, <1>3, <2>1 DEF Exchange
  <2>2. CASE j # a /\ Parent(j) = p
    BY <1>1, <1>2, <1>3, <1>4, <2>2 DEF Exchange, UpOrder
  <2>3. CASE Parent(j) = a
    BY <1>1, <1>2, <1>3, <1>4, <2>3 DEF Exchange, UpOrder
  <2>4. CASE j # a /\ Parent(j) # p /\ Parent(j) # a
    <3>1. e[j] = d[j] /\ e[Parent(j)] = d[Parent(j)]
      <4>1. j \in 0 .. n - 1 /\ Parent(j) \in 0 .. n - 1
        BY <1>2, SMTT(30)
      <4> QED BY <1>4, <2>4, <4>1 DEF Exchange
    <3> QED BY <2>4, <3>1 DEF UpOrder
  <2> QED BY <2>1, <2>2, <2>3, <2>4
<1>5. ASSUME NEW j \in 1 .. n - 1, Parent(j) = p, p > 0 PROVE e[Parent(p)] <= e[j]
  <2>1. Parent(p) \in 0 .. n - 1 /\ Parent(p) < p /\ d[Parent(p)] <= d[p]
    BY <1>1, <1>2, <1>5, SMTT(30) DEF UpOrder
  <2>2. e[Parent(p)] = d[Parent(p)]
    BY <1>1, <2>1 DEF Exchange
  <2>3. CASE j = a
    BY <1>1, <1>3, <2>1, <2>2, <2>3 DEF Exchange
  <2>4. CASE j # a
    <3>1. e[j] = d[j] /\ d[p] <= d[j]
      BY <1>1, <1>2, <1>5, <2>4 DEF Exchange, UpOrder
    <3> QED BY <1>1, <1>3, <2>1, <2>2, <3>1, SMTT(30)
  <2> QED BY <2>3, <2>4
<1> QED BY <1>4, <1>5 DEF UpOrder

(* When tmr_up's loop stops the heap is in order. *)
LEMMA UpEnd ==
    ASSUME NEW n \in Nat, NEW d \in [0 .. n - 1 -> Nat], NEW a \in 0 .. n - 1, UpOrder(d, n, a),
           ~(a > 0 /\ d[a] < d[Parent(a)])
    PROVE  \A j \in 1 .. n - 1 : d[Parent(j)] <= d[j]
<1>1. \A j \in 1 .. n - 1 : Parent(j) \in 0 .. n - 1
  BY ParentIn
<1> QED BY <1>1 DEF UpOrder

(* One turn of tmr_down's loop: what was out of order is so one level      *)
(* down, since the child moved up is the earlier of the two.               *)
LEMMA DownStep ==
    ASSUME NEW n \in Nat, NEW d \in [0 .. n - 1 -> Nat], NEW e \in [0 .. n - 1 -> Nat],
           NEW i \in 0 .. n - 1, NEW a \in i .. n - 1, NEW c \in 0 .. n - 1, c = 2 * a + 1 \/ c = 2 * a + 2,
           \A o \in 1 .. n - 1 : Parent(o) = a => d[c] <= d[o],
           DownOrder(d, n, a, i), d[c] < d[a], Exchange(d, e, n, a, c)
    PROVE  DownOrder(e, n, c, i)
<1>1. c \in 1 .. n - 1 /\ a < c /\ Parent(c) = a /\ c # i /\ a \in 0 .. n - 1
  <2>1. a \in Nat /\ i \in Nat
    OBVIOUS
  <2>2. Parent(c) = a
    BY <2>1, ParentFacts, Zenon
  <2> QED BY <2>1, <2>2, SMTT(30)
<1>2. \A j \in 1 .. n - 1 : Parent(j) \in 0 .. n - 1 /\ Parent(j) < j
  BY ParentIn, Zenon
<1>3. \A k \in 0 .. n - 1 : d[k] \in Nat /\ e[k] \in Nat
  BY Zenon
<1>4. ASSUME NEW j \in 1 .. n - 1, Parent(j) # c PROVE e[Parent(j)] <= e[j]
  <2>1. CASE j = c
    BY <1>1, <1>3, <2>1 DEF Exchange
  <2>2. CASE j # c /\ Parent(j) = a
    BY <1>1, <1>2, <1>3, <2>2 DEF Exchange
  <2>3. CASE j = a
    <3>1. Parent(a) \in 0 .. n - 1 /\ Parent(a) < a /\ a > 0
      BY <1>2, <2>3
    <3>2. e[Parent(a)] = d[Parent(a)] /\ e[a] = d[c]
      BY <1>1, <3>1 DEF Exchange
    <3> QED BY <1>1, <2>3, <3>1, <3>2 DEF DownOrder
  <2>4. CASE j # c /\ j # a /\ Parent(j) # a
    <3>1. d[Parent(j)] <= d[j]
      BY <2>4 DEF DownOrder
    <3>2. e[Parent(j)] = d[Parent(j)] /\ e[j] = d[j]
      <4>1. j \in 0 .. n - 1 /\ Parent(j) \in 0 .. n - 1
        BY ParentIn, SMTT(30)
      <4> QED BY <1>4, <2>4, <4>1, Zenon DEF Exchange
    <3> QED BY <3>1, <3>2
  <2> QED BY <2>1, <2>2, <2>3, <2>4
<1>5. ASSUME NEW j \in 1 .. n - 1, Parent(j) = c PROVE e[a] <= e[j]
  <2>1. c < j
    BY <1>2, <1>5
  <2>2. d[c] <= d[j]
    <3>1. Parent(j) # a /\ (a = i => j # i)
      BY <1>1, <1>5, <2>1
    <3> QED BY <1>5, <3>1, Zenon DEF DownOrder
  <2>3. e[a] = d[c] /\ e[j] = d[j]
    BY <1>1, <2>1 DEF Exchange
  <2> QED BY <2>2, <2>3
<1> QED BY <1>1, <1>4, <1>5 DEF DownOrder

(* What has sunk as far as it can is left to rise from where it began. *)
LEMMA DownEnd ==
    ASSUME NEW n \in Nat, NEW d \in [0 .. n - 1 -> Nat],
           NEW i \in 0 .. n - 1, NEW a \in i .. n - 1, DownOrder(d, n, a, i),
           \A o \in 1 .. n - 1 : Parent(o) = a => d[a] <= d[o]
    PROVE  UpOrder(d, n, i)
<1>1. \A j \in 1 .. n - 1 : Parent(j) \in 0 .. n - 1 /\ Parent(j) < j
  BY ParentIn
<1>2. \A k \in 0 .. n - 1 : d[k] \in Nat
  OBVIOUS
<1>3. \A j \in 1 .. n - 1 : j # i => d[Parent(j)] <= d[j]
  BY DEF DownOrder
<1>4. ASSUME NEW j \in 1 .. n - 1, Parent(j) = i, i > 0 PROVE d[Parent(i)] <= d[j]
  <2>1. CASE a = i
    BY <1>4, <2>1 DEF DownOrder
  <2>2. CASE a # i
    <3>1. j # i /\ d[i] <= d[j]
      BY <1>1, <1>3, <1>4
    <3>2. d[Parent(i)] <= d[i]
      <4>1. CASE Parent(i) = a
        BY <1>1, <1>4, <4>1
      <4>2. CASE Parent(i) # a
        BY <1>4, <2>2, <4>2 DEF DownOrder
      <4> QED BY <4>1, <4>2
    <3> QED BY <1>1, <1>2, <1>4, <3>1, <3>2, SMTT(30)
  <2> QED BY <2>1, <2>2
<1> QED BY <1>3, <1>4 DEF UpOrder

-------------------------------------------------------------------------------
Timer == [due : Nat, slot : Nat, id : Nat \X Nat]
Slot == [pos : Int, gen : Nat, next : Int]
Loop == [heap : Seq(Timer), slot : Seq(Slot), freeslot : Int]

(* Every timer is where its slot says, and every armed slot has its timer. *)
Placed(x) ==
    /\ \A k \in 1 .. Len(x.heap) :
          /\ x.heap[k].slot + 1 \in 1 .. Len(x.slot)
          /\ x.slot[x.heap[k].slot + 1].pos = k - 1
          /\ x.heap[k].id = <<x.slot[x.heap[k].slot + 1].gen, x.heap[k].slot>>
    /\ \A s \in 1 .. Len(x.slot) :
          x.slot[s].pos # NoPos => /\ x.slot[s].pos + 1 \in 1 .. Len(x.heap)
                                   /\ x.heap[x.slot[s].pos + 1].slot + 1 = s

Entries(x) == {x.heap[k] : k \in 1 .. Len(x.heap)}

(* y has the timers of x, and differs from x in where they are. *)
Moved(x, y) ==
    /\ Len(y.heap) = Len(x.heap) /\ Len(y.slot) = Len(x.slot) /\ y.freeslot = x.freeslot
    /\ \A s \in 1 .. Len(x.slot) :
          /\ y.slot[s].gen = x.slot[s].gen /\ y.slot[s].next = x.slot[s].next
          /\ y.slot[s].pos = NoPos <=> x.slot[s].pos = NoPos
    /\ Entries(y) = Entries(x)

Dues(x) == [k \in 0 .. Len(x.heap) - 1 |-> x.heap[k + 1].due]

(* The fields of a loop's record have their types. *)
LEMMA LoopFields ==
    ASSUME NEW x \in Loop
    PROVE  /\ x.heap \in Seq(Timer) /\ Len(x.heap) \in Nat /\ x.slot \in Seq(Slot) /\ Len(x.slot) \in Nat
           /\ x.freeslot \in Int
           /\ \A k \in 1 .. Len(x.heap) : /\ x.heap[k] \in Timer /\ x.heap[k].due \in Nat
                                         /\ x.heap[k].slot \in Nat /\ x.heap[k].id \in Nat \X Nat
           /\ \A s \in 1 .. Len(x.slot) : /\ x.slot[s] \in Slot /\ x.slot[s].pos \in Int
                                         /\ x.slot[s].gen \in Nat /\ x.slot[s].next \in Int
<1>1. x.heap \in Seq(Timer) /\ x.slot \in Seq(Slot) /\ x.freeslot \in Int
  BY DEF Loop
<1>2. \A k \in 1 .. Len(x.heap) : x.heap[k] \in Timer
  BY <1>1
<1>3. \A s \in 1 .. Len(x.slot) : x.slot[s] \in Slot
  BY <1>1
<1>4. \A t \in Timer : t.due \in Nat /\ t.slot \in Nat /\ t.id \in Nat \X Nat
  BY DEF Timer
<1>5. \A t \in Slot : t.pos \in Int /\ t.gen \in Nat /\ t.next \in Int
  BY DEF Slot
<1>6. Len(x.heap) \in Nat /\ Len(x.slot) \in Nat
  BY <1>1
<1>7. \A k \in 1 .. Len(x.heap) : /\ x.heap[k].due \in Nat
                                 /\ x.heap[k].slot \in Nat /\ x.heap[k].id \in Nat \X Nat
  BY <1>2, <1>4, Zenon
<1>8. \A s \in 1 .. Len(x.slot) : x.slot[s].pos \in Int /\ x.slot[s].gen \in Nat /\ x.slot[s].next \in Int
  BY <1>3, <1>5, Zenon
<1> QED BY <1>1, <1>2, <1>3, <1>6, <1>7, <1>8, Zenon

(* y is x with the slot of entry i told where the entry is. *)
ToldAt(x, i, y) ==
    /\ y \in Loop /\ y.heap = x.heap /\ y.freeslot = x.freeslot /\ Len(y.slot) = Len(x.slot)
    /\ \A s \in 1 .. Len(x.slot) :
          /\ y.slot[s].gen = x.slot[s].gen /\ y.slot[s].next = x.slot[s].next
          /\ y.slot[s].pos = IF s = x.heap[i + 1].slot + 1 THEN i ELSE x.slot[s].pos

(* tmr_place tells the slot of an entry where the entry is, and changes    *)
(* nothing else.                                                           *)
LEMMA PlaceFacts ==
    ASSUME NEW x \in Loop, NEW i \in 0 .. Len(x.heap) - 1, x.heap[i + 1].slot + 1 \in 1 .. Len(x.slot),
           NEW y, y = tmr_place(x, i)
    PROVE  ToldAt(x, i, y)
<1> DEFINE q == x.heap[i + 1].slot + 1
           r == [x.slot[q] EXCEPT !.pos = i]
           t == [x.slot EXCEPT ![q] = r]
           S == [pos : Int, gen : Nat, next : Int]
<1>1. y = [x EXCEPT !.slot = t]
  BY DEF tmr_place, At
<1>2. q \in 1 .. Len(x.slot) /\ i \in Int
  BY LoopFields
<1> HIDE DEF q
<1>3. (\A s \in 1 .. Len(x.slot) : x.slot[s] \in S) /\ x.slot \in Seq(S)
  BY LoopFields, Zenon DEF Slot
<1>r. r \in S /\ r.gen = x.slot[q].gen /\ r.next = x.slot[q].next /\ r.pos = i
  BY <1>2, <1>3, Zenon
<1> HIDE DEF r, S
<1>4. /\ t \in Seq(S) /\ Len(t) = Len(x.slot)
      /\ \A s \in 1 .. Len(x.slot) : t[s] = IF s = q THEN r ELSE x.slot[s]
  BY <1>2, <1>3, <1>r
<1> HIDE DEF t
<1>5. y \in Loop /\ y.heap = x.heap /\ y.freeslot = x.freeslot /\ y.slot = t
  BY <1>1, <1>4, Zenon DEF Loop, Slot, S
<1>6. \A s \in 1 .. Len(x.slot) :
                 /\ y.slot[s].gen = x.slot[s].gen /\ y.slot[s].next = x.slot[s].next
                 /\ y.slot[s].pos = IF s = q THEN i ELSE x.slot[s].pos
  BY <1>r, <1>4, <1>5
<1> QED BY <1>4, <1>5, <1>6, SMTT(30) DEF q, ToldAt

(* Exchanging two entries, each told where it is, keeps slots and entries  *)
(* pointing at each other.                                                 *)
LEMMA SwapFacts ==
    ASSUME NEW x \in Loop, Placed(x), NEW i \in 0 .. Len(x.heap) - 1, NEW j \in 0 .. Len(x.heap) - 1, i # j,
           NEW y, y = Swap(x, i, j)
    PROVE  y \in Loop /\ Placed(y) /\ Moved(x, y) /\ Exchange(Dues(x), Dues(y), Len(x.heap), i, j)
<1> DEFINE n == Len(x.heap)
           N == Len(x.slot)
           h == [x.heap EXCEPT ![i + 1] = x.heap[j + 1], ![j + 1] = x.heap[i + 1]]
           w == [x EXCEPT !.heap = h]
           u == tmr_place(w, i)
           a == x.heap[j + 1].slot + 1
           b == x.heap[i + 1].slot + 1
<1>1. /\ n \in Nat /\ N \in Nat /\ i + 1 \in 1 .. n /\ j + 1 \in 1 .. n
      /\ x.heap \in Seq(Timer) /\ i \in Nat /\ j \in Nat
  BY LoopFields
<1>2. /\ h \in Seq(Timer) /\ Len(h) = n
      /\ h[i + 1] = x.heap[j + 1] /\ h[j + 1] = x.heap[i + 1]
      /\ \A k \in 1 .. n : k # i + 1 /\ k # j + 1 => h[k] = x.heap[k]
  BY <1>1
<1>3. y = tmr_place(u, j)
  BY DEF Swap, Exchanged, At
<1> HIDE DEF h
<1>4. w \in Loop /\ w.heap = h /\ w.slot = x.slot /\ w.freeslot = x.freeslot
  BY <1>2, Zenon DEF Loop
<1> HIDE DEF w
<1>5. a \in 1 .. N /\ b \in 1 .. N /\ a # b /\ x.slot[a].pos = j /\ x.slot[b].pos = i
  <2>1. /\ a \in 1 .. N /\ x.slot[a].pos = (j + 1) - 1
        /\ b \in 1 .. N /\ x.slot[b].pos = (i + 1) - 1
    BY <1>1, Zenon DEF Placed
  <2> QED BY <1>1, <2>1, SMTT(30)
<1>i. /\ x.heap[j + 1].id = <<x.slot[a].gen, x.heap[j + 1].slot>>
      /\ x.heap[i + 1].id = <<x.slot[b].gen, x.heap[i + 1].slot>>
  BY <1>1, Zenon DEF Placed
<1>d. a = x.heap[j + 1].slot + 1 /\ b = x.heap[i + 1].slot + 1
  OBVIOUS
<1> HIDE DEF a, b, u
<1>6. /\ u \in Loop /\ u.heap = h /\ u.freeslot = x.freeslot /\ Len(u.slot) = N
      /\ \A s \in 1 .. N : /\ u.slot[s].gen = x.slot[s].gen /\ u.slot[s].next = x.slot[s].next
                           /\ u.slot[s].pos = IF s = a THEN i ELSE x.slot[s].pos
  <2>1. i \in 0 .. Len(w.heap) - 1 /\ w.heap[i + 1].slot + 1 = a /\ Len(w.slot) = N
    BY <1>1, <1>2, <1>4, <1>d
  <2>2. ToldAt(w, i, u)
    <3>1. w.heap[i + 1].slot + 1 \in 1 .. Len(w.slot)
      BY <1>5, <2>1, ZenonT(40)
    <3>2. u = tmr_place(w, i)
      BY DEF u
    <3> QED BY <1>4, <2>1, <3>1, <3>2, PlaceFacts, SMTT(30)
  <2> QED BY <1>4, <2>1, <2>2 DEF ToldAt
<1>7. /\ y \in Loop /\ y.heap = h /\ y.freeslot = x.freeslot /\ Len(y.slot) = N
      /\ \A s \in 1 .. N : /\ y.slot[s].gen = x.slot[s].gen /\ y.slot[s].next = x.slot[s].next
                           /\ y.slot[s].pos = IF s = b THEN j ELSE IF s = a THEN i ELSE x.slot[s].pos
  <2>1. j \in 0 .. Len(u.heap) - 1 /\ u.heap[j + 1].slot + 1 = b
    BY <1>1, <1>2, <1>6, <1>d, SMTT(30)
  <2>2. ToldAt(u, j, y)
    <3>1. u \in Loop /\ u.heap[j + 1].slot + 1 \in 1 .. Len(u.slot)
      BY <1>5, <1>6, <2>1, SMTT(30)
    <3> QED BY <1>3, <2>1, <3>1, PlaceFacts
  <2> QED BY <1>6, <2>1, <2>2 DEF ToldAt
<1>8. Placed(y)
  <2>1. ASSUME NEW k \in 1 .. n
        PROVE  /\ y.heap[k].slot + 1 \in 1 .. N
               /\ y.slot[y.heap[k].slot + 1].pos = k - 1
               /\ y.heap[k].id = <<y.slot[y.heap[k].slot + 1].gen, y.heap[k].slot>>
    <3>1. CASE k = i + 1
      <4>1. y.heap[k] = x.heap[j + 1] /\ y.heap[k].slot + 1 = a
        BY <1>2, <1>7, <1>d, <3>1
      <4>2. y.slot[a].gen = x.slot[a].gen /\ y.slot[a].pos = i
        BY <1>5, <1>7, SMTT(30)
      <4>3. k - 1 = i
        BY <1>1, <3>1
      <4> QED BY <1>5, <1>i, <4>1, <4>2, <4>3, ZenonT(40)
    <3>2. CASE k = j + 1
      <4>1. y.heap[k] = x.heap[i + 1] /\ y.heap[k].slot + 1 = b
        BY <1>2, <1>7, <1>d, <3>2
      <4>2. y.slot[b].gen = x.slot[b].gen /\ y.slot[b].pos = j
        BY <1>5, <1>7, Zenon
      <4>3. k - 1 = j
        BY <1>1, <3>2, SMTT(30)
      <4> QED BY <1>5, <1>i, <4>1, <4>2, <4>3, Zenon
    <3>3. CASE k # i + 1 /\ k # j + 1
      <4> DEFINE q == x.heap[k].slot + 1
      <4>1. q \in 1 .. N /\ x.slot[q].pos = k - 1 /\ x.heap[k].id = <<x.slot[q].gen, x.heap[k].slot>>
        BY Zenon DEF Placed
      <4>d. q = x.heap[k].slot + 1
        OBVIOUS
      <4> HIDE DEF q
      <4>2. q # a /\ q # b
        <5>1. x.slot[q].pos = k - 1 /\ k - 1 # i /\ k - 1 # j
          BY <1>1, <3>3, <4>1, SMTT(30)
        <5> QED BY <1>5, <5>1, Zenon
      <4>3. y.heap[k] = x.heap[k]
        BY <1>2, <1>7, <3>3
      <4>4. y.slot[q].gen = x.slot[q].gen /\ y.slot[q].pos = x.slot[q].pos
        BY <1>7, <4>1, <4>2, Zenon
      <4> QED BY <4>1, <4>3, <4>4, <4>d
    <3> QED BY <3>1, <3>2, <3>3
  <2>2. ASSUME NEW s \in 1 .. N, y.slot[s].pos # NoPos
        PROVE  y.slot[s].pos + 1 \in 1 .. n /\ y.heap[y.slot[s].pos + 1].slot + 1 = s
    <3>1. CASE s = b
      <4>1. y.slot[s].pos = j
        BY <1>7, <3>1, SMTT(30)
      <4> QED BY <1>1, <1>2, <1>7, <1>d, <3>1, <4>1, Zenon
    <3>2. CASE s = a /\ s # b
      <4>1. y.slot[s].pos = i
        BY <1>7, <3>2
      <4> QED BY <1>1, <1>2, <1>7, <1>d, <3>2, <4>1, Zenon
    <3>3. CASE s # a /\ s # b
      <4> DEFINE k == x.slot[s].pos + 1
      <4>1. y.slot[s].pos = x.slot[s].pos
        BY <1>7, <3>3
      <4>2. k \in 1 .. n /\ x.heap[k].slot + 1 = s
        BY <2>2, <4>1 DEF Placed
      <4>3. k # i + 1 /\ k # j + 1
        BY <1>d, <3>3, <4>2, Zenon
      <4> QED BY <1>2, <1>7, <4>1, <4>2, <4>3, ZenonT(40)
    <3> QED BY <3>1, <3>2, <3>3, SMTT(30)
  <2> QED BY <1>2, <1>7, <2>1, <2>2, ZenonT(40) DEF Placed
<1>9. Moved(x, y)
  <2>1. \A s \in 1 .. N : y.slot[s].pos = NoPos <=> x.slot[s].pos = NoPos
    <3> TAKE s \in 1 .. N
    <3>1. CASE s = a \/ s = b
      BY <1>1, <1>5, <1>7, <3>1, SMTT(30) DEF NoPos
    <3>2. CASE s # a /\ s # b
      BY <1>7, <3>2
    <3> QED BY <3>1, <3>2
  <2>2. Entries(y) = Entries(x)
    <3>1. \A k \in 1 .. n : \E m \in 1 .. n : h[k] = x.heap[m]
      BY <1>1, <1>2, Zenon
    <3>2. \A k \in 1 .. n : \E m \in 1 .. n : x.heap[k] = h[m]
      BY <1>1, <1>2, Zenon
    <3>3. Entries(y) = {h[k] : k \in 1 .. n} /\ Entries(x) = {x.heap[k] : k \in 1 .. n}
      BY <1>2, <1>7, SMTT(30) DEF Entries
    <3> HIDE DEF n
    <3>4. Entries(y) \subseteq Entries(x)
      BY <3>1, <3>3, Zenon
    <3>5. Entries(x) \subseteq Entries(y)
      BY <3>2, <3>3, Zenon
    <3> QED BY <3>4, <3>5, Zenon
  <2> QED BY <1>2, <1>7, <2>1, <2>2 DEF Moved
<1>10. Exchange(Dues(x), Dues(y), n, i, j)
  <2>1. \A k \in 0 .. n - 1 : Dues(x)[k] = x.heap[k + 1].due /\ Dues(y)[k] = h[k + 1].due /\ k + 1 \in 1 .. n
    BY <1>1, <1>2, <1>7 DEF Dues
  <2>2. ASSUME NEW k \in 0 .. n - 1, k # i, k # j PROVE h[k + 1] = x.heap[k + 1]
    <3>1. k + 1 \in 1 .. n /\ k + 1 # i + 1 /\ k + 1 # j + 1
      BY <1>1, <2>2
    <3> QED BY <1>2, <3>1
  <2> QED BY <1>2, <2>1, <2>2, ZenonT(40) DEF Exchange
<1> QED BY <1>7, <1>8, <1>9, <1>10

(* Timers that move and move again have moved. *)
LEMMA MovedTwice ==
    ASSUME NEW x, NEW y, NEW z, Moved(x, y), Moved(y, z)
    PROVE  Moved(x, z)
BY DEF Moved

(* A loop that stays as it is has its own timers. *)
LEMMA MovedNot ==
    ASSUME NEW x
    PROVE  Moved(x, x)
BY DEF Moved

(* The due times of a loop's heap. *)
LEMMA DuesType ==
    ASSUME NEW x \in Loop
    PROVE  /\ Dues(x) \in [0 .. Len(x.heap) - 1 -> Nat]
           /\ \A k \in 0 .. Len(x.heap) - 1 : At(x.heap, k).due = Dues(x)[k]
<1>1. \A k \in 0 .. Len(x.heap) - 1 : k + 1 \in 1 .. Len(x.heap)
  BY LoopFields
<1>2. \A k \in 0 .. Len(x.heap) - 1 : x.heap[k + 1].due \in Nat
  BY <1>1, LoopFields
<1> QED BY <1>2 DEF Dues, At

InOrder(x) == \A k \in 1 .. Len(x.heap) - 1 : Dues(x)[Parent(k)] <= Dues(x)[k]

(* Where tmr_up may be on its way from x. *)
Rising(x) ==
    {p \in [l : Loop, at : Nat] :
        /\ p.at < Len(p.l.heap) /\ Placed(p.l) /\ Moved(x, p.l)
        /\ UpOrder(Dues(p.l), Len(p.l.heap), p.at)}

Rises(p) == p.at > 0 /\ Dues(p.l)[p.at] < Dues(p.l)[Parent(p.at)]

(* One turn of tmr_up's loop keeps what is known of a rising entry, and    *)
(* takes it closer to the root or stops.                                   *)
LEMMA RiseStep ==
    ASSUME NEW x, NEW p \in Rising(x)
    PROVE  /\ Rise(p) \in Rising(x)
           /\ Rises(p) => Rise(p).at < p.at
           /\ ~Rises(p) => Rise(p) = p
<1> DEFINE z == p.l
           n == Len(z.heap)
           a == p.at
           q == Parent(a)
           y == Swap(z, a, q)
<1>1. z \in Loop /\ a \in 0 .. n - 1 /\ n \in Nat /\ Placed(z) /\ Moved(x, z) /\ UpOrder(Dues(z), n, a)
  BY LoopFields DEF Rising
<1>2. \A k \in 0 .. n - 1 : At(z.heap, k).due = Dues(z)[k]
  BY <1>1, DuesType
<1>3. a > 0 => q \in 0 .. n - 1 /\ q < a
  BY <1>1, ParentIn
<1>4. CASE ~Rises(p)
  <2>1. ~(a > 0 /\ At(z.heap, a).due < At(z.heap, q).due)
    BY <1>1, <1>2, <1>3, <1>4 DEF Rises
  <2>2. Rise(p) = p
    BY <2>1 DEF Rise
  <2> QED BY <1>4, <2>2
<1>5. CASE Rises(p)
  <2>1. a > 0 /\ At(z.heap, a).due < At(z.heap, q).due
    BY <1>1, <1>2, <1>3, <1>5, SMTT(30) DEF Rises
  <2>2. Rise(p) = [l |-> y, at |-> q]
    BY <2>1 DEF Rise
  <2>3. y \in Loop /\ Placed(y) /\ Moved(z, y) /\ Exchange(Dues(z), Dues(y), n, a, q)
    BY <1>1, <1>3, <2>1, SwapFacts, SMTT(30)
  <2> HIDE DEF y
  <2>4. Moved(x, y) /\ Len(y.heap) = n
    BY <1>1, <2>3, MovedTwice DEF Moved
  <2>5. UpOrder(Dues(y), n, q)
    <3>1. Dues(z) \in [0 .. n - 1 -> Nat] /\ Dues(y) \in [0 .. n - 1 -> Nat]
      BY <1>1, <2>3, <2>4, DuesType, SMTT(30)
    <3>2. a \in 1 .. n - 1 /\ Dues(z)[a] < Dues(z)[q]
      BY <1>1, <1>5, <2>1 DEF Rises
    <3> QED BY <1>1, <2>3, <3>1, <3>2, UpStep, Zenon
  <2>6. Rise(p).l = y /\ Rise(p).at = q /\ Rise(p) \in [l : Loop, at : Nat]
    BY <1>3, <2>1, <2>2, <2>3
  <2>7. Rise(p).at < Len(Rise(p).l.heap)
    BY <1>3, <2>1, <2>4, <2>6, SMTT(30)
  <2> QED BY <1>3, <1>5, <2>1, <2>3, <2>4, <2>5, <2>6, <2>7, SMTT(30) DEF Rising
<1> QED BY <1>4, <1>5

(* The child tmr_down compares with is one of the two, and no later than   *)
(* the other.                                                              *)
LEMMA ChildFacts ==
    ASSUME NEW x \in Loop, NEW a \in 0 .. Len(x.heap) - 1, 2 * a + 1 < Len(x.heap), NEW c, c = Child(x, a)
    PROVE  /\ c \in 0 .. Len(x.heap) - 1 /\ (c = 2 * a + 1 \/ c = 2 * a + 2)
           /\ \A o \in 1 .. Len(x.heap) - 1 : Parent(o) = a => Dues(x)[c] <= Dues(x)[o]
<1> DEFINE n == Len(x.heap)
           d == Dues(x)
<1>1. n \in Nat /\ a \in Nat /\ d \in [0 .. n - 1 -> Nat] /\ \A k \in 0 .. n - 1 : At(x.heap, k).due = d[k]
  BY LoopFields, DuesType
<1> HIDE DEF d
<1>2. 2 * a + 1 \in 0 .. n - 1
  BY <1>1
<1>3. \A k \in 0 .. n - 1 : d[k] \in Nat
  BY <1>1
<1>4. ASSUME NEW o \in 1 .. n - 1, Parent(o) = a PROVE o = 2 * a + 1 \/ o = 2 * a + 2
  BY <1>1, <1>4, ChildrenOf, Zenon
<1>5. CASE 2 * a + 2 < n /\ At(x.heap, 2 * a + 2).due < At(x.heap, 2 * a + 1).due
  <2>1. c = 2 * a + 2 /\ 2 * a + 2 \in 0 .. n - 1
    BY <1>1, <1>5 DEF Child
  <2>2. d[2 * a + 2] < d[2 * a + 1]
    BY <1>1, <1>2, <1>5, <2>1
  <2>3. \A o \in 1 .. n - 1 : Parent(o) = a => d[c] <= d[o]
    <3> SUFFICES ASSUME NEW o \in 1 .. n - 1, Parent(o) = a PROVE d[c] <= d[o]
      OBVIOUS
    <3>1. o = 2 * a + 1 \/ o = 2 * a + 2
      BY <1>4
    <3>2. d[2 * a + 1] \in Nat /\ d[2 * a + 2] \in Nat
      BY <1>2, <1>3, <2>1
    <3>3. CASE o = 2 * a + 1
      BY <2>1, <2>2, <3>2, <3>3
    <3>4. CASE o = 2 * a + 2
      BY <2>1, <3>2, <3>4
    <3> QED BY <3>1, <3>3, <3>4
  <2> QED BY <2>1, <2>3 DEF d
<1>6. CASE ~(2 * a + 2 < n /\ At(x.heap, 2 * a + 2).due < At(x.heap, 2 * a + 1).due)
  <2>1. c = 2 * a + 1
    BY <1>6 DEF Child
  <2>2. ASSUME NEW o \in 1 .. n - 1, Parent(o) = a PROVE d[c] <= d[o]
    <3>1. CASE o = 2 * a + 1
      BY <1>2, <1>3, <2>1, <3>1
    <3>2. CASE o = 2 * a + 2
      <4>1. 2 * a + 2 \in 0 .. n - 1 /\ ~(d[2 * a + 2] < d[2 * a + 1])
        BY <1>1, <1>2, <1>6, <3>2
      <4> QED BY <1>2, <1>3, <2>1, <3>2, <4>1
    <3> QED BY <1>4, <2>2, <3>1, <3>2
  <2> QED BY <1>2, <2>1, <2>2 DEF d
<1> QED BY <1>5, <1>6

(* Where tmr_down may be on its way from entry i of x. *)
Sinking(x, i) ==
    {p \in [l : Loop, at : Nat] :
        /\ i <= p.at /\ p.at < Len(p.l.heap) /\ Placed(p.l) /\ Moved(x, p.l)
        /\ DownOrder(Dues(p.l), Len(p.l.heap), p.at, i)}

Sinks(p) == 2 * p.at + 1 < Len(p.l.heap) /\ Dues(p.l)[Child(p.l, p.at)] < Dues(p.l)[p.at]

(* One turn of tmr_down's loop keeps what is known of a sinking entry, and *)
(* takes it further from the root or stops.                                *)
LEMMA SinkStep ==
    ASSUME NEW x, NEW i \in Nat, NEW p \in Sinking(x, i)
    PROVE  /\ Sink(p) \in Sinking(x, i)
           /\ Sinks(p) => Sink(p).at > p.at
           /\ ~Sinks(p) => Sink(p) = p
<1> DEFINE z == p.l
           n == Len(z.heap)
           a == p.at
           c == Child(z, a)
           y == Swap(z, a, c)
<1>1. /\ z \in Loop /\ a \in 0 .. n - 1 /\ a \in i .. n - 1 /\ i \in 0 .. n - 1 /\ n \in Nat
      /\ Placed(z) /\ Moved(x, z) /\ DownOrder(Dues(z), n, a, i)
  BY LoopFields DEF Sinking
<1>2. \A k \in 0 .. n - 1 : At(z.heap, k).due = Dues(z)[k]
  BY <1>1, DuesType, SMTT(30)
<1>3. 2 * a + 1 < n => /\ c \in 0 .. n - 1 /\ (c = 2 * a + 1 \/ c = 2 * a + 2)
                       /\ \A o \in 1 .. n - 1 : Parent(o) = a => Dues(z)[c] <= Dues(z)[o]
  BY <1>1, ChildFacts, Zenon
<1> HIDE DEF c
<1>4. CASE ~Sinks(p)
  <2>1. ~(2 * a + 1 < n /\ At(z.heap, c).due < At(z.heap, a).due)
    BY <1>1, <1>2, <1>3, <1>4, Zenon DEF Sinks, c
  <2>2. Sink(p) = p
    BY <2>1 DEF Sink, c
  <2> QED BY <1>4, <2>2
<1>5. CASE Sinks(p)
  <2>1. 2 * a + 1 < n /\ At(z.heap, c).due < At(z.heap, a).due /\ Dues(z)[c] < Dues(z)[a]
    BY <1>1, <1>2, <1>3, <1>5, Zenon DEF Sinks, c
  <2>2. Sink(p) = [l |-> y, at |-> c]
    BY <2>1 DEF Sink, c
  <2>3. a # c /\ c > a /\ c \in Nat /\ c >= i
    BY <1>1, <1>3, <2>1, SMTT(30)
  <2>4. y \in Loop /\ Placed(y) /\ Moved(z, y) /\ Exchange(Dues(z), Dues(y), n, a, c)
    BY <1>1, <1>3, <2>1, <2>3, SwapFacts, Zenon
  <2> HIDE DEF y
  <2>5. Moved(x, y) /\ Len(y.heap) = n
    BY <1>1, <2>4, MovedTwice, Zenon DEF Moved
  <2>6. DownOrder(Dues(y), n, c, i)
    <3>1. Dues(z) \in [0 .. n - 1 -> Nat] /\ Dues(y) \in [0 .. n - 1 -> Nat]
      BY <1>1, <2>4, <2>5, DuesType, ZenonT(40)
    <3> QED BY <1>1, <1>3, <2>1, <2>4, <3>1, DownStep, ZenonT(40)
  <2>7. Sink(p).l = y /\ Sink(p).at = c /\ Sink(p) \in [l : Loop, at : Nat]
    BY <2>2, <2>3, <2>4, SMTT(30)
  <2>8. Sink(p).at < Len(Sink(p).l.heap)
    BY <1>1, <1>3, <2>1, <2>5, <2>7, SMTT(30)
  <2> QED BY <1>5, <2>3, <2>4, <2>5, <2>6, <2>7, <2>8 DEF Sinking
<1> QED BY <1>4, <1>5

(* The free list is c[1] .. c[M], every slot that is not armed once. *)
Free(x, M, c) ==
    /\ M \in Nat /\ c \in [1 .. M + 1 -> Int]
    /\ x.freeslot = c[1] /\ c[M + 1] = NoSlot
    /\ \A k \in 1 .. M : /\ c[k] + 1 \in 1 .. Len(x.slot)
                         /\ x.slot[c[k] + 1].pos = NoPos /\ x.slot[c[k] + 1].next = c[k + 1]
    /\ \A j, k \in 1 .. M : c[j] = c[k] => j = k
    /\ \A s \in 1 .. Len(x.slot) : x.slot[s].pos = NoPos => \E k \in 1 .. M : c[k] + 1 = s

(* Moving timers about in the heap leaves the free list alone. *)
LEMMA FreeMoved ==
    ASSUME NEW x, NEW y, NEW M, NEW c, Moved(x, y), Free(x, M, c)
    PROVE  Free(y, M, c)
<1>1. /\ Len(y.slot) = Len(x.slot) /\ y.freeslot = x.freeslot
      /\ \A s \in 1 .. Len(x.slot) : /\ y.slot[s].next = x.slot[s].next
                                     /\ y.slot[s].pos = NoPos <=> x.slot[s].pos = NoPos
  BY DEF Moved
<1> QED BY <1>1, Zenon DEF Free

Sound(x) == x \in Loop /\ Placed(x) /\ InOrder(x) /\ \E M, c : Free(x, M, c)

(* y is x without the timer at heap entry i; the timer's slot is free and  *)
(* has its next generation.                                                *)
Removed(x, i, y) ==
    LET q == x.heap[i + 1].slot + 1 IN
    /\ Len(y.slot) = Len(x.slot)
    /\ y.slot[q].pos = NoPos /\ y.slot[q].gen = NextGen(x.slot[q].gen)
    /\ \A s \in 1 .. Len(x.slot) : s # q => /\ y.slot[s].gen = x.slot[s].gen
                                            /\ y.slot[s].pos = NoPos <=> x.slot[s].pos = NoPos
    /\ Entries(y) = Entries(x) \ {x.heap[i + 1]}

(* A generation is never 0, so that no handle is 0. *)
LEMMA NextGenType == \A g \in Nat : NextGen(g) \in Nat /\ 1 <= NextGen(g) /\ NextGen(g) < GenMod
<1> TAKE g \in Nat
<1>1. GenMod \in Nat /\ GenMod > 1
  BY TimerAssumption
<1>2. (g + 1) % GenMod \in 0 .. GenMod - 1
  BY <1>1
<1> QED BY <1>1, <1>2 DEF NextGen

(* y is x with slot s released. *)
Freed(x, s, y) ==
    /\ y \in Loop /\ y.heap = x.heap /\ y.freeslot = s /\ Len(y.slot) = Len(x.slot)
    /\ y.slot[s + 1].pos = NoPos /\ y.slot[s + 1].next = x.freeslot
    /\ y.slot[s + 1].gen = NextGen(x.slot[s + 1].gen)
    /\ \A k \in 1 .. Len(x.slot) : k # s + 1 => y.slot[k] = x.slot[k]

(* Releasing a slot puts it at the head of the free list, in its next      *)
(* generation.                                                             *)
LEMMA ReleaseFacts ==
    ASSUME NEW x \in Loop, NEW s \in Nat, s + 1 \in 1 .. Len(x.slot), NEW y, y = Release(x, s)
    PROVE  Freed(x, s, y)
<1> DEFINE r == [pos |-> NoPos, gen |-> NextGen(x.slot[s + 1].gen), next |-> x.freeslot]
           t == [x.slot EXCEPT ![s + 1] = r]
<1>1. y = [x EXCEPT !.slot = t, !.freeslot = s]
  BY DEF Release
<1>2. r \in Slot /\ r.pos = NoPos /\ r.next = x.freeslot /\ r.gen = NextGen(x.slot[s + 1].gen)
  <2>1. NextGen(x.slot[s + 1].gen) \in Nat
    <3>1. x.slot[s + 1].gen \in Nat
      BY LoopFields
    <3> QED BY <3>1, NextGenType, Zenon
  <2>2. x.freeslot \in Int /\ NoPos \in Int
    BY LoopFields DEF NoPos
  <2> QED BY <2>1, <2>2 DEF Slot
<1> HIDE DEF r
<1>3. /\ t \in Seq(Slot) /\ Len(t) = Len(x.slot) /\ t[s + 1] = r
      /\ \A k \in 1 .. Len(x.slot) : k # s + 1 => t[k] = x.slot[k]
  BY <1>2, LoopFields
<1> HIDE DEF t
<1>4. y \in Loop /\ y.heap = x.heap /\ y.freeslot = s /\ y.slot = t
  <2>1. x \in [heap : Seq(Timer), slot : Seq(Slot), freeslot : Int] /\ s \in Int
    BY DEF Loop
  <2>2. y \in [heap : Seq(Timer), slot : Seq(Slot), freeslot : Int]
    BY <1>1, <1>3, <2>1, Zenon
  <2> QED BY <1>1, <2>1, <2>2 DEF Loop
<1> QED BY <1>2, <1>3, <1>4 DEF Freed

(* y is x with the last heap entry in the place of entry i. *)
LastAt(x, i, y) ==
    LET n == Len(x.heap) IN
    /\ y \in Loop /\ y.freeslot = x.freeslot /\ Len(y.slot) = Len(x.slot) /\ Len(y.heap) = n - 1
    /\ \A k \in 1 .. n - 1 : y.heap[k] = IF k = i + 1 THEN x.heap[n] ELSE x.heap[k]
    /\ \A s \in 1 .. Len(x.slot) :
          /\ y.slot[s].gen = x.slot[s].gen /\ y.slot[s].next = x.slot[s].next
          /\ y.slot[s].pos = IF i < n - 1 /\ s = x.heap[n].slot + 1 THEN i ELSE x.slot[s].pos

(* The last entry takes the place of the one that is removed. *)
LEMMA FilledFacts ==
    ASSUME NEW x \in Loop, NEW i \in 0 .. Len(x.heap) - 1,
           x.heap[Len(x.heap)].slot + 1 \in 1 .. Len(x.slot), NEW y, y = Filled(x, i)
    PROVE  LastAt(x, i, y)
<1> DEFINE n == Len(x.heap)
           g == [x.heap EXCEPT ![i + 1] = x.heap[n]]
           h == SubSeq(g, 1, n - 1)
           w == [x EXCEPT !.heap = h]
<1>1. n \in Nat /\ n > 0 /\ i \in Nat /\ i + 1 \in 1 .. n /\ x.heap \in Seq(Timer) /\ x.heap[n] \in Timer
  BY LoopFields, SMTT(30)
<1>2. CASE i = n - 1
  <2>1. y = [x EXCEPT !.heap = SubSeq(x.heap, 1, n - 1)]
    BY <1>1, <1>2 DEF Filled
  <2>2. /\ SubSeq(x.heap, 1, n - 1) \in Seq(Timer) /\ Len(SubSeq(x.heap, 1, n - 1)) = n - 1
        /\ \A k \in 1 .. n - 1 : SubSeq(x.heap, 1, n - 1)[k] = x.heap[k]
    BY <1>1
  <2>3. y \in Loop /\ y.heap = SubSeq(x.heap, 1, n - 1) /\ y.slot = x.slot /\ y.freeslot = x.freeslot
    BY <2>1, <2>2, ZenonT(40) DEF Loop
  <2> QED BY <1>1, <1>2, <2>2, <2>3, SMTT(30) DEF LastAt
<1>3. CASE i # n - 1
  <2>1. y = tmr_place(w, i)
    BY <1>1, <1>3, SMTT(30) DEF Filled, At
  <2>2. /\ g \in Seq(Timer) /\ Len(g) = n /\ g[i + 1] = x.heap[n]
        /\ \A k \in 1 .. n : k # i + 1 => g[k] = x.heap[k]
    BY <1>1
  <2> HIDE DEF g
  <2>3. h \in Seq(Timer) /\ Len(h) = n - 1 /\ \A k \in 1 .. n - 1 : h[k] = g[k]
    BY <1>1, <2>2
  <2> HIDE DEF h
  <2>4. w \in Loop /\ w.heap = h /\ w.slot = x.slot /\ w.freeslot = x.freeslot
    BY <2>3, ZenonT(40) DEF Loop
  <2> HIDE DEF w
  <2>5. i \in 0 .. Len(w.heap) - 1 /\ w.heap[i + 1] = x.heap[n] /\ i < n - 1
    BY <1>1, <1>3, <2>2, <2>3, <2>4, SMTT(30)
  <2>6. ToldAt(w, i, y)
    BY <2>1, <2>4, <2>5, PlaceFacts, SMTT(30)
  <2>7. \A k \in 1 .. n - 1 : y.heap[k] = IF k = i + 1 THEN x.heap[n] ELSE x.heap[k]
    BY <1>1, <2>2, <2>3, <2>4, <2>6 DEF ToldAt
  <2> QED BY <2>3, <2>4, <2>5, <2>6, <2>7, SMTT(30) DEF ToldAt, LastAt
<1> QED BY <1>2, <1>3

(* The free list is empty exactly when its head is NoSlot, and its head is *)
(* a slot otherwise.                                                       *)
LEMMA FreeIsSlot ==
    ASSUME NEW x \in Loop, NEW M, NEW c, Free(x, M, c)
    PROVE  /\ x.freeslot = NoSlot <=> M = 0
           /\ x.freeslot # NoSlot => x.freeslot \in Nat /\ x.freeslot + 1 \in 1 .. Len(x.slot)
<1>1. M \in Nat /\ x.freeslot = c[1] /\ Len(x.slot) \in Nat /\ c[1] \in Int
  BY LoopFields DEF Free
<1>2. CASE M = 0
  <2>1. c[1] = NoSlot
    BY <1>2 DEF Free
  <2> QED BY <1>1, <1>2, <2>1
<1>3. CASE M # 0
  <2>1. c[1] + 1 \in 1 .. Len(x.slot)
    BY <1>1, <1>3 DEF Free
  <2> QED BY <1>1, <1>3, <2>1 DEF NoSlot
<1> QED BY <1>2, <1>3, SMTT(30)

(* y has the timers of x and more slots, none of them armed. *)
Grew(x, y) ==
    /\ y.heap = x.heap /\ Len(x.slot) <= Len(y.slot)
    /\ \A s \in 1 .. Len(x.slot) : y.slot[s] = x.slot[s]
    /\ \A s \in Len(x.slot) + 1 .. Len(y.slot) : y.slot[s].pos = NoPos /\ y.slot[s].gen = 1

(* A table that grows gains idle slots, chained into the free list, and is *)
(* sound.                                                                  *)
LEMMA GrownFacts ==
    ASSUME NEW x, Sound(x), x.freeslot = NoSlot, NEW y, y = Grown(x)
    PROVE  Sound(y) /\ Grew(x, y) /\ y.freeslot # NoSlot
<1> DEFINE o == Len(x.slot)
           w == IF o = 0 THEN InitSlots ELSE 2 * o
           t == [k \in 1 .. w |-> IF k <= o THEN x.slot[k]
                      ELSE [pos |-> NoPos, gen |-> 1, next |-> IF k < w THEN k ELSE NoSlot]]
<1>1. x \in Loop /\ Placed(x) /\ InOrder(x)
  BY DEF Sound
<1>2. o \in Nat /\ w \in Nat /\ o < w
  BY <1>1, LoopFields, TimerAssumption
<1>3. y = [x EXCEPT !.slot = t, !.freeslot = o]
  BY DEF Grown
<1>4. \A s \in 1 .. o : x.slot[s] \in Slot
  BY <1>1, LoopFields
<1> HIDE DEF w, o
<1>5. \A k \in 1 .. w : [pos |-> NoPos, gen |-> 1, next |-> IF k < w THEN k ELSE NoSlot] \in Slot
  BY <1>2, SMTT(30) DEF Slot, NoPos, NoSlot
<1>6. t \in [1 .. w -> Slot]
  BY <1>2, <1>4, <1>5, SMTT(30)
<1>7. t \in Seq(Slot) /\ Len(t) = w
  BY <1>2, <1>6
<1>8. \A s \in 1 .. o : t[s] = x.slot[s]
  BY <1>2, SMTT(30)
<1>9. \A s \in o + 1 .. w : t[s].pos = NoPos /\ t[s].gen = 1 /\ t[s].next = IF s < w THEN s ELSE NoSlot
  BY <1>2
<1> HIDE DEF t
<1>10. y \in Loop /\ y.heap = x.heap /\ y.slot = t /\ y.freeslot = o
  <2>1. x \in [heap : Seq(Timer), slot : Seq(Slot), freeslot : Int] /\ o \in Int
    BY <1>1, <1>2 DEF Loop
  <2>2. y \in [heap : Seq(Timer), slot : Seq(Slot), freeslot : Int]
    BY <1>3, <1>7, <2>1, ZenonT(40)
  <2> QED BY <1>3, <2>1, <2>2, SMTT(30) DEF Loop
<1>11. Grew(x, y)
  BY <1>2, <1>7, <1>8, <1>9, <1>10, SMTT(30) DEF Grew, o
<1>12. Placed(y)
  <2>1. ASSUME NEW k \in 1 .. Len(x.heap)
        PROVE  /\ x.heap[k].slot + 1 \in 1 .. w
               /\ t[x.heap[k].slot + 1].pos = k - 1
               /\ x.heap[k].id = <<t[x.heap[k].slot + 1].gen, x.heap[k].slot>>
    <3> DEFINE p == x.heap[k].slot + 1
    <3>1. p \in 1 .. o /\ x.slot[p].pos = k - 1 /\ x.heap[k].id = <<x.slot[p].gen, x.heap[k].slot>>
      BY <1>1, SMTT(30) DEF Placed, o
    <3>2. t[p] = x.slot[p] /\ p \in 1 .. w
      BY <1>2, <1>8, <3>1, SMTT(30)
    <3> QED BY <3>1, <3>2, Zenon
  <2>2. ASSUME NEW s \in 1 .. w, t[s].pos # NoPos
        PROVE  t[s].pos + 1 \in 1 .. Len(x.heap) /\ x.heap[t[s].pos + 1].slot + 1 = s
    <3>1. s \in 1 .. o
      BY <1>2, <1>9, <2>2
    <3>2. t[s] = x.slot[s]
      BY <1>8, <3>1, SMTT(30)
    <3> QED BY <1>1, <2>2, <3>1, <3>2, SMTT(30) DEF Placed, o
  <2> QED BY <1>7, <1>10, <2>1, <2>2, ZenonT(40) DEF Placed
<1>13. InOrder(y)
  BY <1>1, <1>10, SMTT(30) DEF InOrder, Dues
<1>14. \A s \in 1 .. o : x.slot[s].pos # NoPos
  <2>1. PICK M, c : Free(x, M, c)
    BY DEF Sound
  <2>2. M = 0
    BY <1>1, <2>1, FreeIsSlot
  <2> QED BY <2>1, <2>2 DEF Free, o
<1>15. \E M, c : Free(y, M, c)
  <2> DEFINE M == w - o
             c == [k \in 1 .. M + 1 |-> IF k <= M THEN (o + k) - 1 ELSE NoSlot]
  <2>1. M \in Nat /\ M > 0 /\ w = o + M
    BY <1>2
  <2> HIDE DEF M
  <2>2. c \in [1 .. M + 1 -> Int] /\ c[M + 1] = NoSlot /\ (\A k \in 1 .. M : c[k] = (o + k) - 1)
    BY <1>2, <2>1 DEF NoSlot
  <2> HIDE DEF c
  <2>3. y.freeslot = c[1]
    BY <1>2, <1>10, <2>1, <2>2, SMTT(30)
  <2>4. ASSUME NEW k \in 1 .. M
        PROVE  c[k] + 1 \in 1 .. w /\ t[c[k] + 1].pos = NoPos /\ t[c[k] + 1].next = c[k + 1]
    <3>1. c[k] + 1 = o + k /\ o + k \in o + 1 .. w /\ o + k \in 1 .. w
      BY <1>2, <2>1, <2>2, SMTT(30)
    <3>2. CASE k = M
      <4>1. ~(o + k < w) /\ c[k + 1] = NoSlot
        BY <1>2, <2>1, <2>2, <3>2, SMTT(30)
      <4> QED BY <1>9, <3>1, <4>1, SMTT(30)
    <3>3. CASE k # M
      <4>1. o + k < w /\ c[k + 1] = o + k
        BY <1>2, <2>1, <2>2, <3>3, SMTT(30)
      <4> QED BY <1>9, <3>1, <4>1
    <3> QED BY <3>2, <3>3
  <2>5. \A j, k \in 1 .. M : c[j] = c[k] => j = k
    BY <1>2, <2>1, <2>2
  <2>6. ASSUME NEW s \in 1 .. w, t[s].pos = NoPos PROVE \E k \in 1 .. M : c[k] + 1 = s
    <3>1. s > o
      BY <1>2, <1>8, <1>14, <2>6, SMTT(30)
    <3>2. s - o \in 1 .. M /\ c[s - o] + 1 = s
      BY <1>2, <2>1, <2>2, <3>1, SMTT(30)
    <3> QED BY <3>2
  <2>7. Free(y, M, c)
    BY <1>7, <1>10, <2>1, <2>2, <2>3, <2>4, <2>5, <2>6, ZenonT(40) DEF Free
  <2> QED BY <2>7
<1> QED BY <1>2, <1>10, <1>11, <1>12, <1>13, <1>15, SMTT(30) DEF Sound, NoSlot

(* y is x with a new timer in the slot that was first in the free list. *)
Inserted(x, e, y) ==
    LET s == x.freeslot + 1 IN
    /\ Len(y.slot) = Len(x.slot)
    /\ y.slot[s].pos # NoPos /\ x.slot[s].pos = NoPos
    /\ \A k \in 1 .. Len(x.slot) : y.slot[k].gen = x.slot[k].gen
    /\ \A k \in 1 .. Len(x.slot) : k # s => (y.slot[k].pos = NoPos <=> x.slot[k].pos = NoPos)
    /\ Entries(y) = Entries(x) \cup {e}

(* The timer net_loop_after makes, and the loop with it, out of order. *)
NewTimer(x, d) ==
    [due |-> d, slot |-> x.freeslot, id |-> TMR_ID(At(x.slot, x.freeslot).gen, x.freeslot)]

Added(x, d) ==
    [x EXCEPT !.freeslot = At(x.slot, x.freeslot).next,
              !.heap = Append(@, NewTimer(x, d)),
              !.slot[x.freeslot + 1].pos = Len(x.heap)]

-------------------------------------------------------------------------------
(* Induction and definition by recursion up to a bound, for the loops of   *)
(* the code: stated with sets and functions, which the provers can apply,  *)
(* and from the fact that the naturals are well ordered.  The fact is the  *)
(* library's; it is a hypothesis up to the theorems, because everything in *)
(* the library's modules is carried along by every step that follows them. *)

(* A non-empty set of naturals has a least element. *)
WellOrdered == \A S \in SUBSET Nat : S # {} => \E x \in S : \A y \in S : x <= y

(* A set that holds 0 and with every number below N its successor holds    *)
(* all numbers up to N.                                                    *)
LEMMA BoundedInduction ==
    ASSUME WellOrdered, NEW N \in Nat, NEW S, 0 \in S, \A n \in 0 .. N - 1 : n \in S => n + 1 \in S
    PROVE  0 .. N \subseteq S
<1> DEFINE Out == {n \in 0 .. N : n \notin S}
<1> SUFFICES ASSUME Out # {} PROVE FALSE
  OBVIOUS
<1>1. Out \in SUBSET Nat
  OBVIOUS
<1>2. PICK x \in Out : \A y \in Out : x <= y
  <2> HIDE DEF Out
  <2> QED BY <1>1, Zenon DEF WellOrdered
<1>3. x # 0 /\ x - 1 \in 0 .. N - 1
  BY <1>2
<1>4. x - 1 \in S
  BY <1>2, <1>3
<1>5. (x - 1) + 1 \in S
  BY <1>3, <1>4
<1> QED BY <1>2, <1>5

(* f starts at v0 and follows the step functions, N times. *)
Iterate(f, V, v0, N, step) ==
    /\ f \in [0 .. N -> V]
    /\ f[0] = v0
    /\ \A k \in 1 .. N : f[k] = step[k][f[k - 1]]

(* A step function and a first value determine a function of the naturals  *)
(* up to a bound.                                                          *)
LEMMA Iterates ==
    ASSUME WellOrdered, NEW V, NEW v0 \in V, NEW N \in Nat, NEW step \in [1 .. N -> [V -> V]]
    PROVE  \E f : Iterate(f, V, v0, N, step)
<1> DEFINE Good(n) == \E f \in [0 .. n -> V] :
                         f[0] = v0 /\ \A k \in 1 .. n : f[k] = step[k][f[k - 1]]
           S == {n \in Nat : Good(n)}
<1>1. 0 \in S
  <2> DEFINE g == [k \in 0 .. 0 |-> v0]
  <2>1. g \in [0 .. 0 -> V] /\ g[0] = v0 /\ 1 .. 0 = {}
    OBVIOUS
  <2>2. Good(0)
    <3> HIDE DEF g
    <3> QED BY <2>1
  <2> QED BY <2>2
<1>2. ASSUME NEW n \in 0 .. N - 1, n \in S PROVE n + 1 \in S
  <2>1. PICK f \in [0 .. n -> V] : f[0] = v0 /\ \A k \in 1 .. n : f[k] = step[k][f[k - 1]]
    BY <1>2
  <2> DEFINE g == [k \in 0 .. n + 1 |-> IF k = n + 1 THEN step[n + 1][f[n]] ELSE f[k]]
  <2>2. step[n + 1][f[n]] \in V
    BY <2>1
  <2>3. g \in [0 .. n + 1 -> V] /\ g[0] = v0
    BY <2>1, <2>2
  <2>4. \A k \in 1 .. n + 1 : g[k] = step[k][g[k - 1]]
    BY <2>1
  <2>5. Good(n + 1)
    <3> HIDE DEF g
    <3> QED BY <2>3, <2>4, ZenonT(40)
  <2>6. n + 1 \in Nat
    OBVIOUS
  <2> HIDE DEF Good
  <2> QED BY <2>5, <2>6, SMTT(30)
<1>3. 0 .. N \subseteq S
  <2> HIDE DEF S
  <2> QED BY <1>1, <1>2, BoundedInduction, Zenon
<1> QED BY <1>3 DEF Iterate

-------------------------------------------------------------------------------
(* The loops, and the pieces that use them. *)

(* tmr_up puts a heap in order, and nothing else. *)
LEMMA UpLoop ==
    ASSUME WellOrdered,
           NEW x \in Loop, Placed(x), NEW i \in 0 .. Len(x.heap) - 1, UpOrder(Dues(x), Len(x.heap), i),
           NEW y, y = tmr_up(x, i)
    PROVE  y \in Loop /\ Placed(y) /\ Moved(x, y) /\ InOrder(y)
<1> DEFINE e == [l |-> x, at |-> i]
           V == Rising(x)
           Body(g) == [k \in 0 .. i |-> IF k = 0 THEN e ELSE Rise(g[k - 1])]
           step == [k \in 1 .. i |-> [v \in V |-> Rise(v)]]
           sift == CHOOSE g : g = Body(g)
<1>1. i \in Nat /\ Len(x.heap) \in Nat
  BY LoopFields
<1>2. e \in V
  BY <1>1, MovedNot DEF Rising
<1>3. y = sift[i].l
  BY DEF tmr_up
<1>4. e.at = i
  OBVIOUS
<1> HIDE DEF V, e
<1>5. \A v \in V : Rise(v) \in V /\ (Rises(v) => Rise(v).at < v.at) /\ (~Rises(v) => Rise(v) = v)
  BY RiseStep DEF V
<1>6. step \in [1 .. i -> [V -> V]] /\ \A k \in 1 .. i, v \in V : step[k][v] = Rise(v)
  BY <1>5
<1> HIDE DEF step
<1>7. PICK f : Iterate(f, V, e, i, step)
  BY <1>1, <1>2, <1>6, Iterates
<1>8. f = Body(f)
  <2>1. \A k \in 1 .. i : f[k] = Rise(f[k - 1])
    <3> TAKE k \in 1 .. i
    <3>1. k - 1 \in 0 .. i
      BY <1>1
    <3>2. f[k - 1] \in V /\ f[k] = step[k][f[k - 1]]
      BY <1>7, <3>1 DEF Iterate
    <3> QED BY <1>6, <3>2
  <2> QED BY <1>1, <1>7, <2>1 DEF Iterate
<1>9. sift = Body(sift)
  <2> HIDE DEF Body
  <2> QED BY <1>8
<1> HIDE DEF sift
<1>10. sift[0] = e /\ \A k \in 1 .. i : sift[k] = Rise(sift[k - 1])
  BY <1>1, <1>9
<1> DEFINE S == {k \in 0 .. i : sift[k] \in V /\ (sift[k].at + k <= i \/ ~Rises(sift[k]))}
<1>11. 0 \in S
  BY <1>1, <1>2, <1>4, <1>10
<1>12. ASSUME NEW k \in 0 .. i - 1, k \in S PROVE k + 1 \in S
  <2> DEFINE v == sift[k]
  <2>1. sift[k + 1] = Rise(v) /\ v \in V
    BY <1>1, <1>10, <1>12, SMTT(30)
  <2>2. v.at \in Nat /\ Rise(v) \in V /\ Rise(v).at \in Nat
    BY <1>5, <2>1, Zenon DEF V, Rising
  <2>3. CASE ~Rises(v)
    BY <1>1, <1>5, <2>1, <2>2, <2>3, SMTT(30)
  <2>4. CASE Rises(v)
    <3>1. v.at + k <= i /\ Rise(v).at < v.at
      BY <1>5, <1>12, <2>1, <2>4
    <3> QED BY <1>1, <2>1, <2>2, <3>1
  <2> QED BY <2>3, <2>4
<1>13. 0 .. i \subseteq S
  <2> HIDE DEF S
  <2> QED BY <1>1, <1>11, <1>12, BoundedInduction, Zenon
<1>14. sift[i] \in V /\ ~Rises(sift[i])
  <2>1. sift[i] \in V /\ (sift[i].at + i <= i \/ ~Rises(sift[i]))
    BY <1>1, <1>13
  <2>2. sift[i].at \in Nat
    BY <2>1, Zenon DEF V, Rising
  <2> QED BY <1>1, <2>1, <2>2 DEF Rises
<1> DEFINE w == sift[i]
<1>15. /\ w.l \in Loop /\ w.at \in 0 .. Len(w.l.heap) - 1 /\ Placed(w.l) /\ Moved(x, w.l) /\ Len(w.l.heap) \in Nat
       /\ UpOrder(Dues(w.l), Len(w.l.heap), w.at)
  BY <1>14, LoopFields DEF V, Rising
<1>16. ~(w.at > 0 /\ Dues(w.l)[w.at] < Dues(w.l)[Parent(w.at)])
  BY <1>14 DEF Rises
<1>17. InOrder(w.l)
  BY <1>15, <1>16, DuesType, UpEnd, Zenon DEF InOrder
<1> QED BY <1>3, <1>15, <1>17

(* tmr_down leaves at most entry i above its place, and only moves timers. *)
LEMMA DownLoop ==
    ASSUME WellOrdered,
           NEW x \in Loop, Placed(x), NEW i \in 0 .. Len(x.heap) - 1, DownOrder(Dues(x), Len(x.heap), i, i),
           NEW y, y = tmr_down(x, i)
    PROVE  y \in Loop /\ Placed(y) /\ Moved(x, y) /\ UpOrder(Dues(y), Len(y.heap), i)
<1> DEFINE n == Len(x.heap)
           e == [l |-> x, at |-> i]
           V == Sinking(x, i)
           Body(g) == [k \in 0 .. n |-> IF k = 0 THEN e ELSE Sink(g[k - 1])]
           step == [k \in 1 .. n |-> [v \in V |-> Sink(v)]]
           sift == CHOOSE g : g = Body(g)
<1>1. i \in Nat /\ n \in Nat /\ i < n
  BY LoopFields
<1>2. e \in V
  BY <1>1, MovedNot DEF Sinking
<1>3. y = sift[n].l
  BY DEF tmr_down
<1>4. e.at = i
  OBVIOUS
<1> HIDE DEF V, e, n
<1>5. \A v \in V : Sink(v) \in V /\ (Sinks(v) => Sink(v).at > v.at) /\ (~Sinks(v) => Sink(v) = v)
  BY <1>1, SinkStep DEF V
<1>6. step \in [1 .. n -> [V -> V]] /\ \A k \in 1 .. n, v \in V : step[k][v] = Sink(v)
  BY <1>5
<1> HIDE DEF step
<1>7. PICK f : Iterate(f, V, e, n, step)
  BY <1>1, <1>2, <1>6, Iterates
<1>8. f = Body(f)
  <2>1. \A k \in 1 .. n : f[k] = Sink(f[k - 1])
    <3> TAKE k \in 1 .. n
    <3>1. k - 1 \in 0 .. n
      BY <1>1
    <3>2. f[k - 1] \in V /\ f[k] = step[k][f[k - 1]]
      BY <1>7, <3>1 DEF Iterate
    <3> QED BY <1>6, <3>2
  <2> QED BY <1>1, <1>7, <2>1 DEF Iterate
<1>9. sift = Body(sift)
  <2> HIDE DEF Body
  <2> QED BY <1>8
<1> HIDE DEF sift
<1>10. sift[0] = e /\ \A k \in 1 .. n : sift[k] = Sink(sift[k - 1])
  BY <1>1, <1>9
<1> DEFINE S == {k \in 0 .. n : sift[k] \in V /\ (sift[k].at >= i + k \/ ~Sinks(sift[k]))}
<1>11. 0 \in S
  BY <1>1, <1>2, <1>4, <1>10
<1>12. ASSUME NEW k \in 0 .. n - 1, k \in S PROVE k + 1 \in S
  <2> DEFINE v == sift[k]
  <2>1. sift[k + 1] = Sink(v) /\ v \in V
    BY <1>1, <1>10, <1>12, SMTT(30)
  <2>2. v.at \in Nat /\ Sink(v) \in V /\ Sink(v).at \in Nat
    BY <1>5, <2>1, Zenon DEF V, Sinking
  <2>3. CASE ~Sinks(v)
    BY <1>1, <1>5, <2>1, <2>2, <2>3
  <2>4. CASE Sinks(v)
    <3>1. v.at >= i + k /\ Sink(v).at > v.at
      BY <1>5, <1>12, <2>1, <2>4
    <3> QED BY <1>1, <2>1, <2>2, <3>1, SMTT(30)
  <2> QED BY <2>3, <2>4, SMTT(30)
<1>13. 0 .. n \subseteq S
  <2> HIDE DEF S
  <2> QED BY <1>1, <1>11, <1>12, BoundedInduction, Zenon
<1> DEFINE w == sift[n]
<1>14. w \in V /\ (w.at >= i + n \/ ~Sinks(w))
  BY <1>1, <1>13
<1> HIDE DEF w
<1>15. /\ w.l \in Loop /\ w.at \in i .. Len(w.l.heap) - 1 /\ Placed(w.l) /\ Moved(x, w.l) /\ Len(w.l.heap) \in Nat
       /\ DownOrder(Dues(w.l), Len(w.l.heap), w.at, i) /\ w.at \in Nat
  BY <1>1, <1>14, LoopFields, SMTT(30) DEF V, Sinking
<1>16. Len(w.l.heap) = n
  BY <1>15 DEF Moved, n
<1>17. ~Sinks(w)
  BY <1>1, <1>14, <1>15, <1>16, SMTT(30)
<1>18. \A o \in 1 .. n - 1 : Parent(o) = w.at => Dues(w.l)[w.at] <= Dues(w.l)[o]
  <2> SUFFICES ASSUME NEW o \in 1 .. n - 1, Parent(o) = w.at PROVE Dues(w.l)[w.at] <= Dues(w.l)[o]
    OBVIOUS
  <2> DEFINE c == Child(w.l, w.at)
  <2>1. 2 * w.at + 1 < n
    <3>1. o = 2 * w.at + 1 \/ o = 2 * w.at + 2
      BY <1>1, ChildrenOf
    <3> QED BY <1>1, <1>15, <3>1
  <2>2. w.at \in 0 .. n - 1
    BY <1>1, <1>15, <1>16
  <2>3. c \in 0 .. n - 1 /\ Dues(w.l)[c] <= Dues(w.l)[o]
    BY <1>15, <1>16, <2>1, <2>2, ChildFacts, Zenon
  <2>4. Dues(w.l) \in [0 .. n - 1 -> Nat]
    BY <1>15, <1>16, DuesType, Zenon
  <2>5. ~(Dues(w.l)[c] < Dues(w.l)[w.at])
    BY <1>16, <1>17, <2>1 DEF Sinks
  <2>6. Dues(w.l)[c] \in Nat /\ Dues(w.l)[w.at] \in Nat /\ Dues(w.l)[o] \in Nat
    BY <1>1, <2>2, <2>3, <2>4, SMTT(30)
  <2> QED BY <2>3, <2>5, <2>6
<1>19. UpOrder(Dues(w.l), n, i)
  <2>1. i \in 0 .. n - 1 /\ w.at \in i .. n - 1 /\ Dues(w.l) \in [0 .. n - 1 -> Nat]
    <3>1. Dues(w.l) \in [0 .. n - 1 -> Nat]
      BY <1>15, <1>16, DuesType
    <3> QED BY <1>1, <1>15, <1>16, <3>1
  <2> QED BY <1>1, <1>15, <1>16, <1>18, <2>1, DownEnd, Zenon
<1> QED BY <1>3, <1>15, <1>16, <1>19, SMTT(30) DEF w

(* tmr_remove takes out one timer and leaves the others sound. *)
LEMMA RemoveFacts ==
    ASSUME WellOrdered,
           NEW x, Sound(x), NEW i \in 0 .. Len(x.heap) - 1, NEW y, y = tmr_remove(x, i)
    PROVE  Sound(y) /\ Removed(x, i, y)
<1> DEFINE n == Len(x.heap)
           N == Len(x.slot)
           s0 == x.heap[i + 1].slot
           q == s0 + 1
           r == Release(x, s0)
           f == Filled(r, i)
           m == x.heap[n].slot + 1
<1>1. x \in Loop /\ Placed(x) /\ InOrder(x)
  BY DEF Sound
<1>2. n \in Nat /\ n > 0 /\ N \in Nat /\ i \in Nat /\ i + 1 \in 1 .. n /\ n \in 1 .. n
  BY <1>1, LoopFields, SMTT(30)
<1>3. s0 \in Nat /\ q \in 1 .. N /\ m \in 1 .. N /\ x.slot[q].pos = i /\ x.slot[m].pos = n - 1
  <2>1. s0 \in Nat
    BY <1>1, <1>2, LoopFields
  <2>2. /\ q \in 1 .. N /\ x.slot[q].pos = (i + 1) - 1
        /\ m \in 1 .. N /\ x.slot[m].pos = n - 1
    BY <1>1, <1>2, ZenonT(40) DEF Placed
  <2> QED BY <1>2, <2>1, <2>2
<1>4. y = IF i < Len(f.heap) THEN tmr_up(tmr_down(f, i), i) ELSE f
  BY SMTT(30) DEF tmr_remove, At
<1>5. Freed(x, s0, r)
  BY <1>1, <1>3, ReleaseFacts, Zenon
<1> HIDE DEF r
<1>6. LastAt(r, i, f)
  <2>1. r \in Loop /\ Len(r.heap) = n /\ r.heap = x.heap /\ Len(r.slot) = N
    BY <1>5, Zenon DEF Freed
  <2>2. r.heap[Len(r.heap)].slot + 1 \in 1 .. Len(r.slot)
    BY <1>3, <2>1
  <2> QED BY <2>1, <2>2, FilledFacts, ZenonT(40)
<1> HIDE DEF f
<1>d. q = x.heap[i + 1].slot + 1 /\ m = x.heap[n].slot + 1 /\ q = s0 + 1
  BY SMTT(30)
<1> HIDE DEF q, m
<1>7. /\ f \in Loop /\ f.freeslot = s0 /\ Len(f.slot) = N /\ Len(f.heap) = n - 1
      /\ \A k \in 1 .. n - 1 : f.heap[k] = IF k = i + 1 THEN x.heap[n] ELSE x.heap[k]
  BY <1>5, <1>6, ZenonT(40) DEF Freed, LastAt
<1>8. \A s \in 1 .. N : f.slot[s].pos = IF i < n - 1 /\ s = m THEN i ELSE r.slot[s].pos
  BY <1>5, <1>6, <1>d, ZenonT(40) DEF Freed, LastAt
<1>9. \A s \in 1 .. N : f.slot[s].gen = r.slot[s].gen /\ f.slot[s].next = r.slot[s].next
  BY <1>5, <1>6, Zenon DEF Freed, LastAt
<1>10. /\ r.slot[q].pos = NoPos /\ r.slot[q].next = x.freeslot /\ r.slot[q].gen = NextGen(x.slot[q].gen)
       /\ \A s \in 1 .. N : s # q => r.slot[s] = x.slot[s]
  BY <1>5, <1>d, Zenon DEF Freed
<1>11. (i < n - 1 => m # q) /\ (i = n - 1 => m = q)
  <2>1. (i < n - 1 => i # n - 1) /\ (i = n - 1 => i + 1 = n)
    BY <1>2
  <2>2. (i # n - 1 => m # q) /\ (i + 1 = n => m = q)
    BY <1>3, <1>d, Zenon
  <2> QED BY <2>1, <2>2, Zenon
<1>12. \A k \in 1 .. n : k # i + 1 => x.heap[k].slot + 1 # q
  <2> SUFFICES ASSUME NEW k \in 1 .. n, k # i + 1 PROVE x.heap[k].slot + 1 # q
    BY ZenonT(40)
  <2>1. x.slot[x.heap[k].slot + 1].pos = k - 1 /\ k - 1 # i
    BY <1>1, <1>2, SMTT(30) DEF Placed
  <2> QED BY <1>3, <2>1, Zenon
<1>13. f.slot[q].pos = NoPos /\ f.slot[q].gen = NextGen(x.slot[q].gen) /\ f.slot[q].next = x.freeslot
  BY <1>3, <1>8, <1>9, <1>10, <1>11, Zenon
<1>14. \A s \in 1 .. N : s # q => /\ f.slot[s].gen = x.slot[s].gen /\ f.slot[s].next = x.slot[s].next
                                  /\ f.slot[s].pos = IF i < n - 1 /\ s = m THEN i ELSE x.slot[s].pos
  BY <1>8, <1>9, <1>10, Zenon
<1>15. Placed(f)
  <2>1. ASSUME NEW k \in 1 .. n - 1
        PROVE  /\ f.heap[k].slot + 1 \in 1 .. N
               /\ f.slot[f.heap[k].slot + 1].pos = k - 1
               /\ f.heap[k].id = <<f.slot[f.heap[k].slot + 1].gen, f.heap[k].slot>>
    <3>1. CASE k = i + 1
      <4>1. i < n - 1 /\ k - 1 = i /\ f.heap[k] = x.heap[n]
        BY <1>2, <1>7, <3>1, SMTT(30)
      <4>2. f.slot[m].pos = i /\ f.slot[m].gen = x.slot[m].gen
        BY <1>3, <1>11, <1>14, <4>1
      <4>3. x.heap[n].id = <<x.slot[m].gen, x.heap[n].slot>>
        BY <1>1, <1>2, <1>d, Zenon DEF Placed
      <4> QED BY <1>3, <1>d, <4>1, <4>2, <4>3, ZenonT(40)
    <3>2. CASE k # i + 1
      <4> DEFINE p == x.heap[k].slot + 1
      <4>1. p \in 1 .. N /\ x.slot[p].pos = k - 1 /\ x.heap[k].id = <<x.slot[p].gen, x.heap[k].slot>> /\ k \in 1 .. n
        BY <1>1, <1>2, SMTT(30) DEF Placed
      <4>2. f.heap[k] = x.heap[k] /\ p # q
        BY <1>7, <1>12, <3>2, <4>1, Zenon
      <4>d. p = x.heap[k].slot + 1
        OBVIOUS
      <4> HIDE DEF p
      <4>3. p # m
        <5>1. k - 1 # n - 1
          BY <1>2, SMTT(30)
        <5> QED BY <1>3, <4>1, <5>1, Zenon
      <4>4. f.slot[p].gen = x.slot[p].gen /\ f.slot[p].pos = x.slot[p].pos
        BY <1>14, <4>1, <4>2, <4>3, Zenon
      <4> QED BY <4>1, <4>2, <4>4, <4>d, ZenonT(40)
    <3> QED BY <3>1, <3>2
  <2>2. ASSUME NEW s \in 1 .. N, f.slot[s].pos # NoPos
        PROVE  f.slot[s].pos + 1 \in 1 .. n - 1 /\ f.heap[f.slot[s].pos + 1].slot + 1 = s
    <3>1. s # q
      BY <1>13, <2>2, SMTT(30)
    <3>2. CASE i < n - 1 /\ s = m
      <4>1. f.slot[s].pos = i /\ i + 1 \in 1 .. n - 1
        BY <1>2, <1>14, <3>1, <3>2, SMTT(30)
      <4>2. f.heap[i + 1] = x.heap[n]
        BY <1>7, <4>1, Zenon
      <4> QED BY <1>d, <3>2, <4>1, <4>2, SMTT(30)
    <3>3. CASE ~(i < n - 1 /\ s = m)
      <4> DEFINE k == x.slot[s].pos + 1
      <4>1. f.slot[s].pos = x.slot[s].pos
        BY <1>14, <3>1, <3>3, ZenonT(40)
      <4>2. k \in 1 .. n /\ x.heap[k].slot + 1 = s
        BY <1>1, <2>2, <4>1, SMTT(30) DEF Placed
      <4>3. k # i + 1 /\ k # n
        <5>1. s # m
          BY <1>2, <1>11, <3>1, <3>3
        <5> QED BY <1>d, <3>1, <4>2, <5>1, Zenon
      <4>4. k \in 1 .. n - 1
        BY <1>2, <4>2, <4>3, SMTT(30)
      <4>5. f.heap[k] = x.heap[k]
        BY <1>7, <4>3, <4>4, Zenon
      <4> QED BY <4>1, <4>2, <4>4, <4>5, SMTT(30)
    <3> QED BY <3>2, <3>3
  <2> QED BY <1>7, <2>1, <2>2, ZenonT(40) DEF Placed
<1>16. \E M, c : Free(f, M, c)
  <2>1. PICK M, c : Free(x, M, c)
    BY SMTT(30) DEF Sound
  <2>2. /\ M \in Nat /\ c \in [1 .. M + 1 -> Int]
        /\ x.freeslot = c[1] /\ c[M + 1] = NoSlot
        /\ \A k \in 1 .. M : /\ c[k] + 1 \in 1 .. N
                             /\ x.slot[c[k] + 1].pos = NoPos /\ x.slot[c[k] + 1].next = c[k + 1]
        /\ \A j, k \in 1 .. M : c[j] = c[k] => j = k
        /\ \A s \in 1 .. N : x.slot[s].pos = NoPos => \E k \in 1 .. M : c[k] + 1 = s
    BY <2>1 DEF Free
  <2> DEFINE b == [k \in 1 .. M + 2 |-> IF k = 1 THEN s0 ELSE c[k - 1]]
  <2>b. \A k \in 1 .. M + 2 : b[k] = IF k = 1 THEN s0 ELSE c[k - 1]
    OBVIOUS
  <2>e. b = [k \in 1 .. M + 2 |-> b[k]]
    OBVIOUS
  <2> HIDE DEF b
  <2>3. /\ b \in [1 .. M + 2 -> Int] /\ b[1] = s0
        /\ \A k \in 2 .. M + 2 : b[k] = c[k - 1]
    <3>1. ASSUME NEW k \in 2 .. M + 2 PROVE b[k] = c[k - 1] /\ c[k - 1] \in Int
      <4>1. k \in 1 .. M + 2 /\ k # 1 /\ k - 1 \in 1 .. M + 1
        BY <2>2, <3>1, SMTT(30)
      <4> QED BY <2>2, <2>b, <4>1, Zenon
    <3>2. b[1] = s0 /\ s0 \in Int
      BY <1>3, <2>2, <2>b, SMTT(30)
    <3>3. \A k \in 1 .. M + 2 : b[k] \in Int
      <4> TAKE k \in 1 .. M + 2
      <4>1. k = 1 \/ k \in 2 .. M + 2
        BY <2>2
      <4> QED BY <3>1, <3>2, <4>1, SMTT(30)
    <3> HIDE DEF s0, n, N
    <3> QED BY <2>e, <3>1, <3>2, <3>3, ZenonT(40)
  <2>4. \A s \in 1 .. N : s # q => /\ f.slot[s].next = x.slot[s].next
                                   /\ f.slot[s].pos = NoPos <=> x.slot[s].pos = NoPos
    <3> SUFFICES ASSUME NEW s \in 1 .. N, s # q
                 PROVE  f.slot[s].next = x.slot[s].next /\ (f.slot[s].pos = NoPos <=> x.slot[s].pos = NoPos)
      BY SMTT(30)
    <3>1. CASE i < n - 1 /\ s = m
      BY <1>2, <1>3, <1>14, <3>1, SMTT(30) DEF NoPos
    <3>2. CASE ~(i < n - 1 /\ s = m)
      BY <1>14, <3>2
    <3> QED BY <3>1, <3>2, SMTT(30)
  <2>5. \A k \in 1 .. M : c[k] + 1 # q
    <3>1. i # NoPos
      BY <1>2 DEF NoPos
    <3> TAKE k \in 1 .. M
    <3>2. x.slot[c[k] + 1].pos = NoPos
      BY <2>2, SMTT(30)
    <3> QED BY <1>3, <3>1, <3>2, Zenon
  <2>6. f.freeslot = b[1] /\ b[M + 2] = NoSlot
    BY <1>7, <2>2, <2>3, SMTT(30)
  <2>7. ASSUME NEW k \in 1 .. M + 1
        PROVE  /\ b[k] + 1 \in 1 .. N
               /\ f.slot[b[k] + 1].pos = NoPos /\ f.slot[b[k] + 1].next = b[k + 1]
    <3>1. CASE k = 1
      <4>1. b[k] + 1 = q /\ b[k + 1] = c[1]
        BY <1>d, <2>2, <2>3, <3>1, SMTT(30)
      <4> QED BY <1>3, <1>13, <2>2, <4>1, ZenonT(40)
    <3>2. CASE k # 1
      <4>1. k - 1 \in 1 .. M /\ b[k] = c[k - 1] /\ b[k + 1] = c[(k - 1) + 1]
        BY <2>2, <2>3, <3>2, SMTT(30)
      <4> DEFINE j == k - 1
      <4> HIDE DEF j
      <4>2. j \in 1 .. M /\ b[k] = c[j] /\ b[k + 1] = c[j + 1]
        BY <4>1 DEF j
      <4>3. c[j] + 1 \in 1 .. N /\ x.slot[c[j] + 1].pos = NoPos /\ x.slot[c[j] + 1].next = c[j + 1] /\ c[j] + 1 # q
        BY <2>2, <2>5, <4>2
      <4> QED BY <2>4, <4>2, <4>3, Zenon
    <3> QED BY <3>1, <3>2
  <2>8. ASSUME NEW j \in 1 .. M + 1, NEW k \in 1 .. M + 1, b[j] = b[k]
        PROVE  j = k
    <3>1. \A o \in 2 .. M + 1 : o - 1 \in 1 .. M /\ b[o] = c[o - 1] /\ c[o - 1] + 1 # q
      BY <2>2, <2>3, <2>5, SMTT(30)
    <3>0. b[1] + 1 = q /\ (j # 1 => j \in 2 .. M + 1) /\ (k # 1 => k \in 2 .. M + 1)
      BY <1>d, <2>2, <2>3, SMTT(30)
    <3>2. CASE j = 1 \/ k = 1
      <4>1. CASE j = 1 /\ k # 1
        BY <2>8, <3>0, <3>1, <4>1
      <4>2. CASE k = 1 /\ j # 1
        BY <2>8, <3>0, <3>1, <4>2, SMTT(30)
      <4> QED BY <3>2, <4>1, <4>2
    <3>3. CASE j # 1 /\ k # 1
      <4>1. j - 1 \in 1 .. M /\ k - 1 \in 1 .. M /\ c[j - 1] = c[k - 1]
        BY <2>2, <2>8, <3>1, <3>3, SMTT(30)
      <4>2. j - 1 = k - 1
        BY <2>2, <4>1
      <4> QED BY <2>2, <4>2, SMTT(30)
    <3> QED BY <3>2, <3>3, SMTT(30)
  <2>9. ASSUME NEW s \in 1 .. N, f.slot[s].pos = NoPos PROVE \E k \in 1 .. M + 1 : b[k] + 1 = s
    <3>1. CASE s = q
      <4>1. b[1] + 1 = s /\ 1 \in 1 .. M + 1
        BY <1>d, <2>2, <2>3, <3>1, SMTT(30)
      <4> QED BY <4>1, Zenon
    <3>2. CASE s # q
      <4>1. PICK k \in 1 .. M : c[k] + 1 = s
        BY <2>2, <2>4, <2>9, <3>2, SMTT(30)
      <4>2. k + 1 \in 1 .. M + 1 /\ b[k + 1] = c[k]
        BY <2>2, <2>3, SMTT(30)
      <4> QED BY <4>1, <4>2, SMTT(30)
    <3> QED BY <3>1, <3>2
  <2>10. Free(f, M + 1, b)
    <3>1. M + 1 \in Nat /\ (M + 1) + 1 = M + 2
      BY <2>2, SMTT(30)
    <3> QED BY <1>7, <2>3, <2>6, <2>7, <2>8, <2>9, <3>1, Zenon DEF Free
  <2> QED BY <2>10
<1>17. Removed(x, i, f)
  <2>1. \A s \in 1 .. N : s # q => /\ f.slot[s].gen = x.slot[s].gen
                                   /\ f.slot[s].pos = NoPos <=> x.slot[s].pos = NoPos
    <3> SUFFICES ASSUME NEW s \in 1 .. N, s # q
                 PROVE  f.slot[s].gen = x.slot[s].gen /\ (f.slot[s].pos = NoPos <=> x.slot[s].pos = NoPos)
      BY SMTT(30)
    <3>1. CASE i < n - 1 /\ s = m
      BY <1>2, <1>3, <1>14, <3>1, SMTT(30) DEF NoPos
    <3>2. CASE ~(i < n - 1 /\ s = m)
      BY <1>14, <3>2, SMTT(30)
    <3> QED BY <3>1, <3>2, SMTT(30)
  <2>2. Entries(f) = Entries(x) \ {x.heap[i + 1]}
    <3>1. \A k \in 1 .. n : k # i + 1 => x.heap[k] # x.heap[i + 1]
      BY <1>12, <1>d, SMTT(30)
    <3>2. ASSUME NEW k \in 1 .. n - 1
          PROVE  \E j \in 1 .. n : j # i + 1 /\ f.heap[k] = x.heap[j]
      <4>1. CASE k = i + 1
        BY <1>2, <1>7, <4>1, SMTT(30)
      <4>2. CASE k # i + 1
        BY <1>2, <1>7, <4>2, SMTT(30)
      <4> QED BY <4>1, <4>2, SMTT(30)
    <3>3. ASSUME NEW k \in 1 .. n, k # i + 1
          PROVE  \E j \in 1 .. n - 1 : f.heap[j] = x.heap[k]
      <4>1. CASE k = n
        <5>1. i + 1 \in 1 .. n - 1
          BY <1>2, <3>3, <4>1
        <5> QED BY <1>7, <4>1, <5>1, Zenon
      <4>2. CASE k # n
        BY <1>2, <1>7, <3>3, <4>2, SMTT(30)
      <4> QED BY <4>1, <4>2, SMTT(30)
    <3>4. Entries(f) = {f.heap[k] : k \in 1 .. n - 1} /\ Entries(x) = {x.heap[k] : k \in 1 .. n}
      BY <1>7 DEF Entries
    <3> HIDE DEF n
    <3>5. Entries(f) \subseteq Entries(x) \ {x.heap[i + 1]}
      BY <3>1, <3>2, <3>4, SMTT(30)
    <3>6. Entries(x) \ {x.heap[i + 1]} \subseteq Entries(f)
      BY <3>3, <3>4
    <3> QED BY <3>5, <3>6, SMTT(30)
  <2> QED BY <1>7, <1>13, <1>d, <2>1, <2>2, ZenonT(40) DEF Removed
<1> DEFINE d == Dues(x)
           e == Dues(f)
<1>18. /\ d \in [0 .. n - 1 -> Nat] /\ e \in [0 .. n - 2 -> Nat]
       /\ \A k \in 0 .. n - 2 : k # i => e[k] = d[k]
  <2>1. d \in [0 .. n - 1 -> Nat] /\ e \in [0 .. (n - 1) - 1 -> Nat]
    BY <1>1, <1>7, DuesType, ZenonT(40)
  <2>2. ASSUME NEW k \in 0 .. n - 2, k # i PROVE e[k] = d[k]
    <3>1. k + 1 \in 1 .. n - 1 /\ k + 1 # i + 1
      BY <1>2, <2>2
    <3>2. f.heap[k + 1] = x.heap[k + 1]
      BY <1>7, <3>1, Zenon
    <3>3. e[k] = f.heap[k + 1].due /\ d[k] = x.heap[k + 1].due
      BY <1>2, <1>7 DEF Dues
    <3> QED BY <3>2, <3>3
  <2>3. (n - 1) - 1 = n - 2
    BY <1>2
  <2> QED BY <2>1, <2>2, <2>3, Zenon
<1>19. \A j \in 1 .. n - 1 : d[Parent(j)] <= d[j] /\ Parent(j) \in 0 .. n - 1 /\ Parent(j) < j
  BY <1>1, <1>2, ParentIn, ZenonT(40) DEF InOrder
<1> HIDE DEF d, e
<1>20. CASE i = n - 1
  <2>1. y = f
    BY <1>2, <1>4, <1>7, <1>20
  <2>2. InOrder(f)
    <3> SUFFICES ASSUME NEW j \in 1 .. n - 2 PROVE e[Parent(j)] <= e[j]
      BY <1>2, <1>7, SMTT(30) DEF InOrder, e
    <3>1. Parent(j) \in 0 .. n - 2 /\ j \in 1 .. n - 1 /\ j \in 0 .. n - 2 /\ j # i /\ Parent(j) # i
      BY <1>2, <1>19, <1>20
    <3> QED BY <1>18, <1>19, <3>1, ZenonT(40)
  <2> QED BY <1>7, <1>15, <1>16, <1>17, <2>1, <2>2, Zenon DEF Sound
<1>21. CASE i # n - 1
  <2> DEFINE g == tmr_down(f, i)
  <2>1. y = tmr_up(g, i) /\ i \in 0 .. (n - 1) - 1
    BY <1>2, <1>4, <1>7, <1>21
  <2>2. DownOrder(e, n - 1, i, i)
    <3>1. ASSUME NEW j \in 1 .. (n - 1) - 1, Parent(j) # i, j # i PROVE e[Parent(j)] <= e[j]
      <4>1. Parent(j) \in 0 .. n - 2 /\ j \in 1 .. n - 1 /\ j \in 0 .. n - 2
        BY <1>2, <1>19
      <4> QED BY <1>18, <1>19, <3>1, <4>1, ZenonT(40)
    <3>2. ASSUME NEW j \in 1 .. (n - 1) - 1, Parent(j) = i, i > 0 PROVE e[Parent(i)] <= e[j]
      <4>1. j \in 1 .. n - 1 /\ j \in 0 .. n - 2 /\ i < j /\ i \in 1 .. n - 1
        BY <1>2, <1>19, <3>2
      <4>2. Parent(i) \in 0 .. n - 2 /\ Parent(i) # i /\ d[Parent(i)] <= d[i] /\ d[i] <= d[j]
        BY <1>2, <1>19, <3>2, <4>1, SMTT(30)
      <4>3. e[Parent(i)] = d[Parent(i)] /\ e[j] = d[j] /\ d[j] \in Nat /\ d[i] \in Nat /\ d[Parent(i)] \in Nat
        <5>1. i \in 0 .. n - 1 /\ Parent(i) \in 0 .. n - 1 /\ j \in 0 .. n - 1 /\ j # i
          BY <1>2, <4>1, <4>2, SMTT(30)
        <5> QED BY <1>18, <4>1, <4>2, <5>1, Zenon
      <4> QED BY <4>2, <4>3
    <3> QED BY <3>1, <3>2 DEF DownOrder
  <2>3. g \in Loop /\ Placed(g) /\ Moved(f, g) /\ UpOrder(Dues(g), Len(g.heap), i)
    BY <1>7, <1>15, <2>1, <2>2, DownLoop, ZenonT(40) DEF e
  <2> HIDE DEF g
  <2>4. i \in 0 .. Len(g.heap) - 1
    BY <1>7, <2>1, <2>3 DEF Moved
  <2>5. y \in Loop /\ Placed(y) /\ Moved(g, y) /\ InOrder(y)
    BY <2>1, <2>3, <2>4, UpLoop
  <2>6. Moved(f, y)
    BY <2>3, <2>5, MovedTwice
  <2>7. Sound(y)
    BY <1>16, <2>5, <2>6, FreeMoved, SMTT(30) DEF Sound
  <2>8. Removed(x, i, y)
    <3>1. /\ Len(y.slot) = Len(f.slot) /\ Entries(y) = Entries(f)
          /\ \A s \in 1 .. N : /\ y.slot[s].gen = f.slot[s].gen
                               /\ y.slot[s].pos = NoPos <=> f.slot[s].pos = NoPos
      BY <1>7, <2>6, SMTT(30) DEF Moved
    <3> QED BY <1>3, <1>7, <1>17, <1>d, <3>1, ZenonT(40) DEF Removed
  <2> QED BY <2>7, <2>8
<1> QED BY <1>20, <1>21

(* net_loop_after's insertion: the new timer takes the first free slot and *)
(* rises to its place; the others stay armed.                              *)
LEMMA InsertFacts ==
    ASSUME WellOrdered,
           NEW x, Sound(x), x.freeslot # NoSlot, NEW d \in Nat,
           NEW e, e = NewTimer(x, d), NEW f, f = Added(x, d), NEW y, y = tmr_up(f, Len(x.heap))
    PROVE  Sound(y) /\ Inserted(x, e, y)
<1> DEFINE n == Len(x.heap)
           N == Len(x.slot)
           s == x.freeslot
           q == s + 1
           r == [x.slot[q] EXCEPT !.pos = n]
           t == [x.slot EXCEPT ![q] = r]
           h == Append(x.heap, e)
<1>1. x \in Loop /\ Placed(x) /\ InOrder(x) /\ n \in Nat /\ N \in Nat
  BY LoopFields DEF Sound
<1>2. PICK M, c : Free(x, M, c)
  BY DEF Sound
<1>3. s \in Nat /\ q \in 1 .. N /\ M # 0
  BY <1>1, <1>2, FreeIsSlot
<1>4. f = [x EXCEPT !.freeslot = x.slot[q].next, !.heap = h, !.slot = t]
  BY Zenon DEF At, Added
<1>5. e \in Timer /\ e.due = d /\ e.slot = s /\ e.id = <<x.slot[q].gen, s>>
  <2>1. x.slot[q].gen \in Nat
    BY <1>1, <1>3, LoopFields, Zenon
  <2>2. e = [due |-> d, slot |-> s, id |-> <<x.slot[q].gen, s>>]
    BY DEF At, NewTimer, TMR_ID
  <2> QED BY <1>3, <2>1, <2>2, SMTT(30) DEF Timer
<1>6. r \in Slot /\ r.pos = n /\ r.gen = x.slot[q].gen
  <2>1. x.slot[q] \in [pos : Int, gen : Nat, next : Int]
    BY <1>1, <1>3, LoopFields, Zenon DEF Slot
  <2> QED BY <1>1, <2>1, SMTT(30) DEF Slot
<1> HIDE DEF r
<1>7. t \in Seq(Slot) /\ Len(t) = N /\ t[q] = r /\ \A k \in 1 .. N : k # q => t[k] = x.slot[k]
  BY <1>1, <1>3, <1>6, LoopFields, SMTT(30)
<1> HIDE DEF t
<1>8. h \in Seq(Timer) /\ Len(h) = n + 1 /\ h[n + 1] = e /\ \A k \in 1 .. n : h[k] = x.heap[k]
  BY <1>1, <1>5, LoopFields
<1> HIDE DEF h
<1>9. f \in Loop /\ f.heap = h /\ f.slot = t /\ f.freeslot = x.slot[q].next
  <2>1. x \in [heap : Seq(Timer), slot : Seq(Slot), freeslot : Int] /\ x.slot[q].next \in Int
    BY <1>1, <1>3, LoopFields DEF Loop
  <2>2. f \in [heap : Seq(Timer), slot : Seq(Slot), freeslot : Int]
    BY <1>4, <1>7, <1>8, <2>1, Zenon
  <2> QED BY <1>4, <2>1, <2>2, ZenonT(40) DEF Loop
<1>d. q = s + 1
  BY SMTT(30)
<1> HIDE DEF q
<1>10. c[1] = s /\ x.slot[q].pos = NoPos /\ x.slot[q].next = c[2]
  <2>1. 1 \in 1 .. M /\ c[1] = s /\ 1 + 1 = 2
    BY <1>2, <1>3, SMTT(30) DEF Free
  <2>2. x.slot[c[1] + 1].pos = NoPos /\ x.slot[c[1] + 1].next = c[1 + 1]
    BY <1>2, <2>1, Zenon DEF Free
  <2> QED BY <1>d, <2>1, <2>2, ZenonT(40)
<1>11. Placed(f)
  <2>1. ASSUME NEW k \in 1 .. n + 1
        PROVE  /\ h[k].slot + 1 \in 1 .. N
               /\ t[h[k].slot + 1].pos = k - 1
               /\ h[k].id = <<t[h[k].slot + 1].gen, h[k].slot>>
    <3>1. CASE k = n + 1
      <4>1. h[k] = e /\ h[k].slot + 1 = q /\ k - 1 = n
        BY <1>1, <1>5, <1>8, <1>d, <3>1
      <4> QED BY <1>3, <1>5, <1>6, <1>7, <4>1, ZenonT(40)
    <3>2. CASE k # n + 1
      <4> DEFINE p == x.heap[k].slot + 1
      <4>0. k \in 1 .. n
        BY <1>1, <3>2
      <4>1. /\ p \in 1 .. N /\ x.slot[p].pos = k - 1
            /\ x.heap[k].id = <<x.slot[p].gen, x.heap[k].slot>> /\ h[k] = x.heap[k]
        BY <1>1, <1>8, <4>0, Zenon DEF Placed
      <4>2. p # q
        <5>1. k - 1 # NoPos
          BY <1>1, <4>0, SMTT(30) DEF NoPos
        <5> QED BY <1>10, <4>1, <5>1, ZenonT(40)
      <4>3. t[p] = x.slot[p]
        BY <1>7, <4>1, <4>2, Zenon
      <4> QED BY <4>1, <4>3, Zenon
    <3> QED BY <3>1, <3>2
  <2>2. ASSUME NEW k \in 1 .. N, t[k].pos # NoPos
        PROVE  t[k].pos + 1 \in 1 .. n + 1 /\ h[t[k].pos + 1].slot + 1 = k
    <3>1. CASE k = q
      <4>1. t[k].pos = n /\ n + 1 \in 1 .. n + 1
        BY <1>1, <1>6, <1>7, <3>1, SMTT(30)
      <4>2. h[n + 1].slot + 1 = k
        BY <1>5, <1>8, <1>d, <3>1, ZenonT(40)
      <4> QED BY <4>1, <4>2, Zenon
    <3>2. CASE k # q
      <4> DEFINE p == x.slot[k].pos + 1
      <4>1. t[k] = x.slot[k]
        BY <1>7, <3>2, Zenon
      <4>2. p \in 1 .. n /\ x.heap[p].slot + 1 = k
        BY <1>1, <2>2, <4>1, ZenonT(40) DEF Placed
      <4>3. h[p] = x.heap[p] /\ p \in 1 .. n + 1
        BY <1>1, <1>8, <4>2, SMTT(30)
      <4> QED BY <4>1, <4>2, <4>3, SMTT(30)
    <3> QED BY <3>1, <3>2, SMTT(30)
  <2> QED BY <1>7, <1>8, <1>9, <2>1, <2>2, Zenon DEF Placed
<1>12. \E L, b : Free(f, L, b)
  <2> DEFINE L == M - 1
             b == [k \in 1 .. M |-> c[k + 1]]
  <2>1. /\ M \in Nat /\ c \in [1 .. M + 1 -> Int] /\ c[M + 1] = NoSlot
        /\ \A k \in 1 .. M : /\ c[k] + 1 \in 1 .. N
                             /\ x.slot[c[k] + 1].pos = NoPos /\ x.slot[c[k] + 1].next = c[k + 1]
        /\ \A j, k \in 1 .. M : c[j] = c[k] => j = k
        /\ \A k \in 1 .. N : x.slot[k].pos = NoPos => \E j \in 1 .. M : c[j] + 1 = k
    BY <1>2, Zenon DEF Free
  <2>2. L \in Nat /\ M = L + 1
    BY <1>3, <2>1, SMTT(30)
  <2>3. b \in [1 .. M -> Int] /\ \A k \in 1 .. M : b[k] = c[k + 1]
    BY <2>1, SMTT(30)
  <2> HIDE DEF L, b
  <2>4. f.freeslot = b[1] /\ b[L + 1] = NoSlot
    <3>1. 1 \in 1 .. M /\ M \in 1 .. M /\ 1 + 1 = 2
      BY <2>2
    <3>2. b[1] = c[2] /\ b[M] = c[M + 1]
      BY <2>3, <3>1
    <3> QED BY <1>9, <1>10, <2>1, <2>2, <3>2, SMTT(30)
  <2>5. ASSUME NEW k \in 1 .. L
        PROVE  b[k] + 1 \in 1 .. N /\ t[b[k] + 1].pos = NoPos /\ t[b[k] + 1].next = b[k + 1]
    <3>1. k \in 1 .. M /\ k + 1 \in 1 .. M /\ k + 1 # 1 /\ 1 \in 1 .. M
      BY <2>2, SMTT(30)
    <3>2. b[k] = c[k + 1] /\ b[k + 1] = c[(k + 1) + 1] /\ c[k + 1] # c[1]
      BY <2>1, <2>3, <3>1, Zenon
    <3>3. b[k] + 1 # q /\ b[k] + 1 \in 1 .. N
      <4>1. c[k + 1] + 1 \in 1 .. N /\ c[k + 1] \in Int /\ c[1] \in Int
        BY <2>1, <3>1, SMTT(30)
      <4>2. q = c[1] + 1
        BY <1>10, <1>d, Zenon
      <4> QED BY <3>2, <4>1, <4>2
    <3>4. t[b[k] + 1] = x.slot[b[k] + 1]
      BY <1>7, <3>3
    <3>5. x.slot[c[k + 1] + 1].pos = NoPos /\ x.slot[c[k + 1] + 1].next = c[(k + 1) + 1]
      BY <2>1, <3>1, ZenonT(40)
    <3> QED BY <3>2, <3>3, <3>4, <3>5, ZenonT(40)
  <2>6. ASSUME NEW j \in 1 .. L, NEW k \in 1 .. L, b[j] = b[k] PROVE j = k
    <3>1. j + 1 \in 1 .. M /\ k + 1 \in 1 .. M /\ j \in 1 .. M /\ k \in 1 .. M
      BY <2>2, SMTT(30)
    <3>2. j + 1 = k + 1
      BY <2>1, <2>3, <2>6, <3>1, ZenonT(40)
    <3> QED BY <3>2
  <2>7. ASSUME NEW k \in 1 .. N, t[k].pos = NoPos PROVE \E j \in 1 .. L : b[j] + 1 = k
    <3>1. k # q
      BY <1>1, <1>6, <1>7, <2>7, SMTT(30) DEF NoPos
    <3>2. PICK j \in 1 .. M : c[j] + 1 = k
      BY <1>7, <2>1, <2>7, <3>1, Zenon
    <3>3. j # 1
      BY <1>10, <1>d, <3>1, <3>2, SMTT(30)
    <3>4. j - 1 \in 1 .. L /\ j - 1 \in 1 .. M /\ (j - 1) + 1 = j
      BY <2>2, <3>3
    <3>5. b[j - 1] = c[j]
      BY <2>3, <3>4, Zenon
    <3> QED BY <3>2, <3>4, <3>5, Zenon
  <2>8. Free(f, L, b)
    BY <1>7, <1>9, <2>2, <2>3, <2>4, <2>5, <2>6, <2>7, ZenonT(40) DEF Free
  <2> QED BY <2>8
<1>13. UpOrder(Dues(f), Len(f.heap), n)
  <2>1. Len(f.heap) = n + 1
    BY <1>8, <1>9, SMTT(30)
  <2>2. \A k \in 0 .. n - 1 : Dues(f)[k] = Dues(x)[k]
    <3> TAKE k \in 0 .. n - 1
    <3>1. k + 1 \in 1 .. n /\ k \in 0 .. Len(f.heap) - 1
      BY <1>1, <2>1, SMTT(30)
    <3> QED BY <1>8, <1>9, <3>1, SMTT(30) DEF Dues
  <2>3. ASSUME NEW j \in 1 .. (n + 1) - 1, j # n PROVE Dues(f)[Parent(j)] <= Dues(f)[j]
    <3>1. j \in 1 .. n - 1 /\ j \in 0 .. n - 1
      BY <1>1, <2>3
    <3>2. Parent(j) \in 0 .. n - 1
      BY <1>1, <3>1, ParentIn
    <3> QED BY <1>1, <2>2, <3>1, <3>2, SMTT(30) DEF InOrder
  <2>4. ASSUME NEW j \in 1 .. (n + 1) - 1, Parent(j) = n PROVE FALSE
    <3>1. n + 1 \in Nat /\ Parent(j) < j
      BY <1>1, ParentIn, SMTT(30)
    <3> QED BY <1>1, <2>4, <3>1, SMTT(30)
  <2> QED BY <2>1, <2>3, <2>4 DEF UpOrder
<1>14. y \in Loop /\ Placed(y) /\ Moved(f, y) /\ InOrder(y)
  <2>1. n \in 0 .. Len(f.heap) - 1
    BY <1>1, <1>8, <1>9, SMTT(30)
  <2> QED BY <1>9, <1>11, <1>13, <2>1, UpLoop, ZenonT(40)
<1>15. Sound(y)
  BY <1>12, <1>14, FreeMoved DEF Sound
<1>16. Entries(f) = Entries(x) \cup {e}
  <2>1. Entries(f) = {h[k] : k \in 1 .. n + 1} /\ Entries(x) = {x.heap[k] : k \in 1 .. n}
    BY <1>8, <1>9 DEF Entries
  <2>2. \A k \in 1 .. n + 1 : k = n + 1 \/ k \in 1 .. n
    BY <1>1
  <2>3. n + 1 \in 1 .. n + 1 /\ \A k \in 1 .. n : k \in 1 .. n + 1
    BY <1>1, SMTT(30)
  <2> HIDE DEF n
  <2>4. Entries(f) \subseteq Entries(x) \cup {e}
    BY <1>8, <2>1, <2>2, Zenon
  <2>5. Entries(x) \cup {e} \subseteq Entries(f)
    BY <1>8, <2>1, <2>3, ZenonT(40)
  <2> QED BY <2>4, <2>5, SMTT(30)
<1>17. Inserted(x, e, y)
  <2>1. /\ Len(y.slot) = N /\ Entries(y) = Entries(f)
        /\ \A k \in 1 .. N : y.slot[k].gen = t[k].gen /\ (y.slot[k].pos = NoPos <=> t[k].pos = NoPos)
    <3>1. Len(f.slot) = N /\ f.slot = t
      BY <1>7, <1>9, ZenonT(40)
    <3> QED BY <1>14, <3>1, ZenonT(40) DEF Moved
  <2>2. t[q].pos # NoPos /\ y.slot[q].pos # NoPos
    <3>1. n # NoPos
      BY <1>1, SMTT(30) DEF NoPos
    <3> QED BY <1>3, <1>6, <1>7, <2>1, <3>1, SMTT(30)
  <2>3. \A k \in 1 .. N : y.slot[k].gen = x.slot[k].gen
    BY <1>6, <1>7, <2>1, Zenon
  <2>4. \A k \in 1 .. N : k # q => (y.slot[k].pos = NoPos <=> x.slot[k].pos = NoPos)
    BY <1>7, <2>1
  <2> QED BY <1>10, <1>16, <1>d, <2>1, <2>2, <2>3, <2>4, SMTT(30) DEF Inserted
<1> QED BY <1>15, <1>17
===============================================================================
