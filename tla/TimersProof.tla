------------------------------ MODULE TimersProof ------------------------------
(***************************************************************************)
(* Proofs about the timers of net/src/loop.c, for any number of them: the  *)
(* loop stays sound, and implements the plain set of timers of TimerSpec.  *)
(***************************************************************************)
EXTENDS TimersHeap

(* The inductive invariant: the loop is sound, its clock is a number and   *)
(* the handles given out are pairs of numbers.                             *)
LInv ==
    /\ Sound(l) /\ now \in Nat
    /\ issued \subseteq Nat \X Nat

(* A new loop is sound. *)
LEMMA InitSound == Init => LInv
<1> SUFFICES ASSUME Init PROVE LInv
  OBVIOUS
<1>1. l = [heap |-> <<>>, slot |-> <<>>, freeslot |-> NoSlot] /\ now = 0 /\ issued = {}
  BY DEF Init
<1>2. l \in Loop /\ l.heap = <<>> /\ l.slot = <<>> /\ l.freeslot = NoSlot /\ Len(l.heap) = 0 /\ Len(l.slot) = 0
  BY <1>1 DEF Loop, NoSlot
<1>3. Placed(l) /\ InOrder(l)
  BY <1>2 DEF Placed, InOrder
<1> DEFINE c == [k \in 1 .. 0 + 1 |-> NoSlot]
<1>4. Free(l, 0, c)
  BY <1>2 DEF Free, NoSlot
<1> QED BY <1>1, <1>2, <1>3, <1>4 DEF LInv, Sound

(* What a call of net_loop_after does when it succeeds. *)
LEMMA AfterFacts ==
    ASSUME WellOrdered,
           LInv, NEW ms \in Delays, net_loop_after(ms)
    PROVE  \E x : /\ IF l.freeslot = NoSlot THEN Grew(l, x) ELSE x = l
                  /\ Sound(x) /\ x.freeslot # NoSlot /\ Sound(l') /\ Inserted(x, NewTimer(x, now + ms), l')
                  /\ issued' = issued \cup {NewTimer(x, now + ms).id} /\ x.freeslot < MaxSlots
                  /\ last' = [op |-> "after", id |-> NewTimer(x, now + ms).id, ok |-> TRUE]
                  /\ now' = now /\ pass' = pass
<1> DEFINE x == IF l.freeslot = NoSlot THEN Grown(l) ELSE l
<1>1. Sound(x) /\ x.freeslot # NoSlot /\ IF l.freeslot = NoSlot THEN Grew(l, x) ELSE x = l
  <2>1. CASE l.freeslot = NoSlot
    <3>1. x = Grown(l)
      BY <2>1
    <3> QED BY <2>1, <3>1, GrownFacts, SMTT(30) DEF LInv
  <2>2. CASE l.freeslot # NoSlot
    <3>1. x = l
      BY <2>2, SMTT(30)
    <3> QED BY <2>2, <3>1, SMTT(30) DEF LInv
  <2> QED BY <2>1, <2>2
<1>2. /\ l' = tmr_up(Added(x, now + ms), Len(x.heap)) /\ now' = now /\ pass' = pass
      /\ issued' = issued \cup {NewTimer(x, now + ms).id} /\ x.freeslot < MaxSlots
      /\ last' = [op |-> "after", id |-> NewTimer(x, now + ms).id, ok |-> TRUE]
  BY DEF net_loop_after, Added, NewTimer
<1>3. now + ms \in Nat
  BY TimerAssumption DEF LInv
<1> HIDE DEF x
<1>4. Sound(l') /\ Inserted(x, NewTimer(x, now + ms), l')
  BY <1>1, <1>2, <1>3, InsertFacts, SMTT(30)
<1> QED BY <1>1, <1>2, <1>4, ZenonT(40)

(* A call of net_loop_cancel takes out the timer of the handle, if any. *)
LEMMA CancelFacts ==
    ASSUME WellOrdered,
           LInv, NEW id \in issued \cup {<<0, 0>>}, net_loop_cancel(id)
    PROVE  LET ok == \E k \in 1 .. Len(l.heap) : l.heap[k].id = id IN
           /\ last' = [op |-> "cancel", id |-> id, ok |-> ok]
           /\ ok => \E i \in 0 .. Len(l.heap) - 1 : l.heap[i + 1].id = id /\ Sound(l') /\ Removed(l, i, l')
           /\ ~ok => l' = l
           /\ now' = now /\ pass' = pass /\ issued' = issued
<1> DEFINE s == id[2]
           ok1 == s < Len(l.slot) /\ At(l.slot, s).gen = id[1] /\ At(l.slot, s).pos # NoPos
           ok == \E k \in 1 .. Len(l.heap) : l.heap[k].id = id
<1>1. /\ last' = [op |-> "cancel", id |-> id, ok |-> ok1]
      /\ l' = IF ok1 THEN tmr_remove(l, At(l.slot, s).pos) ELSE l
      /\ now' = now /\ pass' = pass /\ issued' = issued
  BY DEF net_loop_cancel
<1>2. /\ id \in Nat \X Nat /\ id = <<id[1], id[2]>> /\ s \in Nat
      /\ l \in Loop /\ Placed(l) /\ Len(l.slot) \in Nat /\ Len(l.heap) \in Nat
  BY LoopFields, SMTT(30) DEF LInv, Sound
<1>3. ASSUME ok1 PROVE /\ At(l.slot, s).pos \in 0 .. Len(l.heap) - 1
                       /\ l.heap[At(l.slot, s).pos + 1].id = id
  <2> DEFINE k == l.slot[s + 1].pos + 1
  <2>1. s + 1 \in 1 .. Len(l.slot) /\ l.slot[s + 1].pos # NoPos /\ l.slot[s + 1].gen = id[1]
    BY <1>2, <1>3, SMTT(30) DEF At
  <2>2. k \in 1 .. Len(l.heap) /\ l.heap[k].slot + 1 = s + 1
    BY <1>2, <2>1, ZenonT(40) DEF Placed
  <2>3. l.heap[k].slot = s /\ l.slot[s + 1].pos \in Int
    <3>1. l.slot[s + 1].pos \in Int
      BY <1>2, <2>1, LoopFields, Zenon
    <3>2. l.heap[k].slot \in Nat
      <4> HIDE DEF k
      <4> QED BY <1>2, <2>2, LoopFields, Zenon
    <3>3. l.heap[k].slot = s
      <4> DEFINE q == l.heap[k].slot
      <4>1. q \in Nat /\ q + 1 = s + 1 /\ s \in Nat
        BY <1>2, <2>2, <3>2, Zenon
      <4> HIDE DEF q
      <4>2. q = s
        BY <4>1, SMTT(30)
      <4> QED BY <4>2 DEF q
    <3> QED BY <3>1, <3>3, Zenon
  <2>4. l.heap[k].id = <<l.slot[l.heap[k].slot + 1].gen, l.heap[k].slot>>
    BY <1>2, <2>2, Zenon DEF Placed
  <2>5. l.heap[k].id = id
    BY <1>2, <2>1, <2>3, <2>4, ZenonT(40)
  <2>6. l.slot[s + 1].pos \in 0 .. Len(l.heap) - 1
    <3> DEFINE p == l.slot[s + 1].pos
    <3> HIDE DEF p
    <3>1. p \in Int /\ p + 1 \in 1 .. Len(l.heap) /\ Len(l.heap) \in Nat
      BY <1>2, <2>2, <2>3 DEF p
    <3>2. p \in 0 .. Len(l.heap) - 1
      BY <3>1, SMTT(30)
    <3> QED BY <3>2, SMTT(30) DEF p
  <2> QED BY <2>5, <2>6 DEF At
<1>4. ASSUME ok PROVE ok1
  <2>1. PICK k \in 1 .. Len(l.heap) : l.heap[k].id = id
    BY <1>4, SMTT(30)
  <2> DEFINE q == l.heap[k].slot + 1
  <2>2. l.heap[k].id = <<l.slot[q].gen, l.heap[k].slot>> /\ q \in 1 .. Len(l.slot) /\ l.slot[q].pos = k - 1
    BY <1>2, ZenonT(40) DEF Placed
  <2>3. id[1] = l.slot[q].gen /\ s = l.heap[k].slot
    BY <2>1, <2>2, SMTT(30)
  <2>4. s + 1 = q /\ k - 1 # NoPos
    BY <1>2, <2>3, SMTT(30) DEF NoPos
  <2> HIDE DEF q
  <2>5. s < Len(l.slot)
    BY <1>2, <2>2, <2>4, SMTT(30)
  <2> QED BY <2>2, <2>3, <2>4, <2>5, Zenon DEF At
<1>5. ok1 => ok
  <2> SUFFICES ASSUME ok1 PROVE ok
    OBVIOUS
  <2>1. At(l.slot, s).pos + 1 \in 1 .. Len(l.heap)
    BY <1>2, <1>3, SMTT(30)
  <2> QED BY <1>3, <2>1, SMTT(30)
<1>6. ok <=> ok1
  BY <1>4, <1>5
<1> HIDE DEF ok1
<1>7. last' = [op |-> "cancel", id |-> id, ok |-> ok]
  <2> HIDE DEF ok
  <2>1. ok \in BOOLEAN /\ ok1 \in BOOLEAN
    BY DEF ok, ok1
  <2>2. ok = ok1
    BY <1>6, <2>1, SMTT(30)
  <2> QED BY <1>1, <2>2
<1>8. ASSUME ok PROVE \E i \in 0 .. Len(l.heap) - 1 : l.heap[i + 1].id = id /\ Sound(l') /\ Removed(l, i, l')
  <2>1. l' = tmr_remove(l, At(l.slot, s).pos)
    BY <1>1, <1>6, <1>8, SMTT(30)
  <2>2. At(l.slot, s).pos \in 0 .. Len(l.heap) - 1 /\ l.heap[At(l.slot, s).pos + 1].id = id
    BY <1>3, <1>6, <1>8, SMTT(30)
  <2>3. Sound(l') /\ Removed(l, At(l.slot, s).pos, l')
    BY <2>1, <2>2, RemoveFacts, SMTT(30) DEF LInv
  <2> QED BY <2>2, <2>3, SMTT(30)
<1>9. ~ok => l' = l
  BY <1>1, <1>6, SMTT(30)
<1> QED BY <1>1, <1>7, <1>8, <1>9, ZenonT(40)

(* The due pass takes out the first timer of the heap. *)
LEMMA FireFacts ==
    ASSUME WellOrdered,
           LInv, fire
    PROVE  /\ 0 \in 0 .. Len(l.heap) - 1 /\ Sound(l') /\ Removed(l, 0, l')
           /\ l.heap[1].due <= pass /\ pass # None
           /\ last' = [op |-> "fire", id |-> l.heap[1].id, ok |-> TRUE]
           /\ now' = now /\ pass' = pass /\ issued' = issued
<1>1. l \in Loop /\ l.heap \in Seq(Timer) /\ Len(l.heap) \in Nat
  BY LoopFields DEF LInv, Sound
<1>2. l.heap # <<>> /\ Head(l.heap) = l.heap[1]
  BY <1>1 DEF fire
<1>3. 0 \in 0 .. Len(l.heap) - 1
  BY <1>1, <1>2, SMTT(30)
<1>4. Sound(l') /\ Removed(l, 0, l')
  BY <1>3, RemoveFacts, SMTT(30) DEF LInv, fire
<1> QED BY <1>2, <1>3, <1>4, SMTT(30) DEF fire

(* Every step of the loop and of its callers keeps it sound. *)
LEMMA StepSound ==
    ASSUME WellOrdered
    PROVE  LInv /\ [Next]_vars => LInv'
<1> SUFFICES ASSUME LInv, [Next]_vars PROVE LInv'
  OBVIOUS
<1>0. Sound(l) /\ now \in Nat /\ issued \subseteq Nat \X Nat
  BY DEF LInv
<1>1. CASE \E ms \in Delays : net_loop_after(ms)
  <2>1. PICK ms \in Delays : net_loop_after(ms)
    BY <1>1
  <2>2. PICK x : /\ Sound(x) /\ x.freeslot # NoSlot /\ Sound(l')
                 /\ issued' = issued \cup {NewTimer(x, now + ms).id} /\ now' = now
    BY <2>1, AfterFacts, SMTT(30)
  <2>3. NewTimer(x, now + ms).id \in Nat \X Nat
    <3>1. PICK M, c : Free(x, M, c)
      BY <2>2, SMTT(30) DEF Sound
    <3>2. x \in Loop /\ x.freeslot \in Nat /\ x.freeslot + 1 \in 1 .. Len(x.slot)
      BY <2>2, <3>1, FreeIsSlot, SMTT(30) DEF Sound
    <3>3. x.slot[x.freeslot + 1].gen \in Nat
      BY <3>2, LoopFields
    <3>4. NewTimer(x, now + ms).id = <<x.slot[x.freeslot + 1].gen, x.freeslot>>
      BY DEF NewTimer, TMR_ID, At
    <3> DEFINE g == x.slot[x.freeslot + 1].gen
    <3> HIDE DEF g
    <3>5. <<g, x.freeslot>> \in Nat \X Nat
      BY <3>2, <3>3 DEF g
    <3> QED BY <3>4, <3>5, SMTT(30) DEF g
  <2> QED BY <1>0, <2>2, <2>3, SMTT(30) DEF LInv
<1>2. CASE net_loop_after_nomem
  BY <1>0, <1>2 DEF net_loop_after_nomem, LInv
<1>3. CASE \E id \in issued \cup {<<0, 0>>} : net_loop_cancel(id)
  <2>1. PICK id \in issued \cup {<<0, 0>>} : net_loop_cancel(id)
    BY <1>3
  <2>2. now' = now /\ issued' = issued /\ (Sound(l') \/ l' = l)
    BY <2>1, CancelFacts, SMTT(30)
  <2> QED BY <1>0, <2>2 DEF LInv
<1>4. CASE due_pass
  BY <1>0, <1>4, SMTT(30) DEF due_pass, LInv
<1>5. CASE fire
  <2>1. now' = now /\ issued' = issued /\ Sound(l')
    BY <1>5, FireFacts, SMTT(30)
  <2> QED BY <1>0, <2>1, SMTT(30) DEF LInv
<1>6. CASE pass_over
  BY <1>0, <1>6 DEF pass_over, LInv
<1>7. CASE Tick
  BY <1>0, <1>7, SMTT(30) DEF Tick, LInv
<1>8. CASE UNCHANGED vars
  BY <1>0, <1>8, SMTT(30) DEF vars, LInv
<1> QED BY <1>1, <1>2, <1>3, <1>4, <1>5, <1>6, <1>7, <1>8, SMTT(30) DEF Next

(* The timers of x as the promise has them. *)
Arm(x) == {[id |-> x.heap[k].id, due |-> x.heap[k].due] : k \in DOMAIN x.heap}

(* The armed timers of the promise are the entries of the heap. *)
LEMMA ArmEntries ==
    ASSUME NEW x \in Loop
    PROVE  Arm(x) = {[id |-> e.id, due |-> e.due] : e \in Entries(x)}
<1>1. DOMAIN x.heap = 1 .. Len(x.heap)
  BY LoopFields
<1> QED BY <1>1, ZenonT(40) DEF Arm, Entries

(* No two entries of the heap have the same handle. *)
LEMMA OneTimerPerId ==
    ASSUME NEW x \in Loop, Placed(x), NEW j \in 1 .. Len(x.heap), NEW k \in 1 .. Len(x.heap),
           x.heap[j].id = x.heap[k].id
    PROVE  j = k
<1>1. /\ x.heap[j].id = <<x.slot[x.heap[j].slot + 1].gen, x.heap[j].slot>>
      /\ x.heap[k].id = <<x.slot[x.heap[k].slot + 1].gen, x.heap[k].slot>>
      /\ x.slot[x.heap[j].slot + 1].pos = j - 1 /\ x.slot[x.heap[k].slot + 1].pos = k - 1
  BY ZenonT(40) DEF Placed
<1>2. x.heap[j].slot = x.heap[k].slot
  <2>1. \A a, b, c, d : <<a, b>> = <<c, d>> => b = d
    OBVIOUS
  <2>2. <<x.slot[x.heap[j].slot + 1].gen, x.heap[j].slot>> = <<x.slot[x.heap[k].slot + 1].gen, x.heap[k].slot>>
    BY <1>1, ZenonT(40)
  <2> QED BY <2>1, <2>2, Zenon
<1>3. j - 1 = k - 1
  BY <1>1, <1>2
<1> QED BY <1>3, LoopFields, SMTT(30)

(* Without the entry of a handle, the timers are those of other handles. *)
LEMMA ArmRemoved ==
    ASSUME NEW x, Sound(x), NEW y, Sound(y), NEW i \in 0 .. Len(x.heap) - 1, Removed(x, i, y),
           NEW id, id = x.heap[i + 1].id
    PROVE  Arm(y) = {t \in Arm(x) : t.id # id}
<1>1. x \in Loop /\ Placed(x) /\ y \in Loop /\ i + 1 \in 1 .. Len(x.heap)
  BY LoopFields, SMTT(30) DEF Sound
<1>2. Entries(y) = Entries(x) \ {x.heap[i + 1]}
  BY DEF Removed
<1>3. ASSUME NEW e \in Entries(x), e.id = id PROVE e = x.heap[i + 1]
  <2>1. PICK k \in 1 .. Len(x.heap) : e = x.heap[k]
    BY DEF Entries
  <2>2. k = i + 1
    BY <1>1, <1>3, <2>1, OneTimerPerId, SMTT(30)
  <2> QED BY <2>1, <2>2, SMTT(30)
<1>4. /\ Arm(x) = {[id |-> e.id, due |-> e.due] : e \in Entries(x)}
      /\ Arm(y) = {[id |-> e.id, due |-> e.due] : e \in Entries(y)}
  BY <1>1, ArmEntries, SMTT(30)
<1>5. Arm(y) \subseteq {t \in Arm(x) : t.id # id}
  <2> SUFFICES ASSUME NEW e \in Entries(y) PROVE [id |-> e.id, due |-> e.due] \in {t \in Arm(x) : t.id # id}
    BY <1>4, ZenonT(40)
  <2>1. e \in Entries(x) /\ e.id # id
    BY <1>2, <1>3, SMTT(30)
  <2> QED BY <1>4, <2>1
<1>6. {t \in Arm(x) : t.id # id} \subseteq Arm(y)
  <2> SUFFICES ASSUME NEW e \in Entries(x), [id |-> e.id, due |-> e.due].id # id
               PROVE  [id |-> e.id, due |-> e.due] \in Arm(y)
    BY <1>4, ZenonT(40)
  <2>1. e \in Entries(y)
    BY <1>2
  <2> QED BY <1>4, <2>1, SMTT(30)
<1> QED BY <1>5, <1>6, SMTT(30)

(* The first timer of the heap is due no later than any other. *)
LEMMA HeadFirst ==
    ASSUME WellOrdered,
           NEW x \in Loop, InOrder(x), NEW k \in 1 .. Len(x.heap)
    PROVE  x.heap[1].due <= x.heap[k].due
<1> DEFINE n == Len(x.heap)
           d == Dues(x)
           S == {m \in 0 .. n - 1 : \A j \in 0 .. m : d[0] <= d[j]}
<1>1. n \in Nat /\ n > 0 /\ n - 1 \in Nat /\ d \in [0 .. n - 1 -> Nat] /\ (\A j \in 0 .. n - 1 : d[j] \in Nat)
  <2>1. n \in Nat /\ d \in [0 .. n - 1 -> Nat]
    BY LoopFields, DuesType, SMTT(30)
  <2> QED BY <2>1
<1>2. \A j \in 1 .. n - 1 : Parent(j) \in 0 .. n - 1 /\ Parent(j) < j /\ d[Parent(j)] <= d[j]
  BY <1>1, ParentIn, SMTT(30) DEF InOrder
<1>3. \A j \in 0 .. n - 1 : d[j] = x.heap[j + 1].due
  BY DuesType DEF At
<1> HIDE DEF d
<1>4. 0 \in S
  BY <1>1
<1>5. ASSUME NEW m \in 0 .. (n - 1) - 1, m \in S PROVE m + 1 \in S
  <2>1. m + 1 \in 1 .. n - 1 /\ m + 1 \in 0 .. n - 1
    BY <1>1
  <2>2. Parent(m + 1) \in 0 .. m
    BY <1>1, <1>2, <2>1, SMTT(30)
  <2>3. d[0] <= d[Parent(m + 1)]
    BY <1>5, <2>2, SMTT(30)
  <2>4. d[Parent(m + 1)] <= d[m + 1] /\ d[0] \in Nat /\ d[Parent(m + 1)] \in Nat /\ d[m + 1] \in Nat
    BY <1>1, <1>2, <2>1, SMTT(30)
  <2>5. d[0] <= d[m + 1]
    BY <2>3, <2>4, SMTT(30)
  <2>6. \A j \in 0 .. m + 1 : j = m + 1 \/ j \in 0 .. m
    OBVIOUS
  <2> QED BY <1>5, <2>1, <2>5, <2>6, SMTT(30)
<1>6. 0 .. n - 1 \subseteq S
  <2> HIDE DEF S, n
  <2> QED BY <1>1, <1>4, <1>5, BoundedInduction, ZenonT(40)
<1>7. n - 1 \in S /\ k - 1 \in 0 .. n - 1 /\ (k - 1) + 1 = k /\ 0 \in 0 .. n - 1
  <2>1. n - 1 \in 0 .. n - 1 /\ k - 1 \in 0 .. n - 1 /\ (k - 1) + 1 = k /\ 0 \in 0 .. n - 1
    BY <1>1
  <2> HIDE DEF S
  <2> QED BY <1>6, <2>1, SMTT(30)
<1>8. d[0] <= d[k - 1]
  BY <1>7, SMTT(30)
<1> QED BY <1>3, <1>7, <1>8, SMTT(30)

(* Slot s of x, at generation g, has given out handle <<h, s - 1>>. *)
Gave(x, s, h) == 1 <= h /\ (h < x.slot[s].gen \/ (h = x.slot[s].gen /\ x.slot[s].pos # NoPos))

(* While more timers may be armed, the handles given out are those of the  *)
(* generations the slots have been through: none comes round.              *)
Handles(x, ids) ==
    /\ \A s \in 1 .. Len(x.slot) : 1 <= x.slot[s].gen /\ x.slot[s].gen < GenMod
    /\ \A id \in ids : id[2] < Len(x.slot)
    /\ Cardinality(ids) < MaxArms =>
          \A s \in 1 .. Len(x.slot), h \in Nat : <<h, s - 1>> \in ids <=> Gave(x, s, h)

(* The invariant of the refinement. *)
HInv ==
    /\ LInv
    /\ pass = None \/ (pass \in Nat /\ pass <= now)
    /\ IsFiniteSet(issued) /\ issued \subseteq Ids
    /\ Handles(l, issued)

(* Growing the slot table gives out no handle. *)
LEMMA HandlesGrow ==
    ASSUME NEW x \in Loop, NEW y \in Loop, NEW ids \in SUBSET (Nat \X Nat), Handles(x, ids), Grew(x, y)
    PROVE  Handles(y, ids)
<1> DEFINE N == Len(x.slot)
           P == Len(y.slot)
<1>1. /\ N \in Nat /\ P \in Nat /\ N <= P
      /\ \A s \in 1 .. N : y.slot[s] = x.slot[s]
      /\ \A s \in N + 1 .. P : y.slot[s].pos = NoPos /\ y.slot[s].gen = 1
  BY LoopFields DEF Grew
<1>2. \A s \in 1 .. P : s \in 1 .. N \/ s \in N + 1 .. P
  BY <1>1, SMTT(30)
<1>3. \A s \in 1 .. P : 1 <= y.slot[s].gen /\ y.slot[s].gen < GenMod
  <2> TAKE s \in 1 .. P
  <2>1. CASE s \in 1 .. N
    BY <1>1, <2>1, SMTT(30) DEF Handles
  <2>2. CASE s \in N + 1 .. P
    <3>1. GenMod \in Nat /\ 1 < GenMod
      BY TimerAssumption
    <3> QED BY <1>1, <2>2, <3>1, SMTT(30)
  <2> QED BY <1>2, <2>1, <2>2, SMTT(30)
<1>4. \A id \in ids : id[2] < P
  <2> TAKE id \in ids
  <2>1. id[2] \in Nat /\ id[2] < N
    BY DEF Handles
  <2> QED BY <1>1, <2>1
<1>5. ASSUME Cardinality(ids) < MaxArms, NEW s \in 1 .. P, NEW h \in Nat
      PROVE  <<h, s - 1>> \in ids <=> Gave(y, s, h)
  <2>1. CASE s \in 1 .. N
    <3>1. <<h, s - 1>> \in ids <=> Gave(x, s, h)
      BY <1>5, <2>1, SMTT(30) DEF Handles
    <3>2. y.slot[s] = x.slot[s]
      BY <1>1, <2>1
    <3> QED BY <3>1, <3>2, SMTT(30) DEF Gave
  <2>2. CASE s \in N + 1 .. P
    <3>1. ~Gave(y, s, h)
      BY <1>1, <2>2, SMTT(30) DEF Gave
    <3>2. ASSUME <<h, s - 1>> \in ids PROVE FALSE
      <4>1. <<h, s - 1>>[2] < N
        BY <3>2 DEF Handles
      <4>2. <<h, s - 1>>[2] = s - 1
        BY SMTT(30)
      <4> QED BY <1>1, <2>2, <4>1, <4>2, SMTT(30)
    <3> QED BY <3>1, <3>2, SMTT(30)
  <2> QED BY <1>2, <2>1, <2>2, SMTT(30)
<1> QED BY <1>3, <1>4, <1>5, SMTT(30) DEF Handles

(* id is a handle that was not given out before. *)
NewHandle(x, y, ids, id) ==
    /\ id \notin ids /\ id[1] \in Nat /\ 1 <= id[1] /\ id[1] < GenMod
    /\ id = <<id[1], id[2]>> /\ id[2] = x.freeslot
    /\ Handles(y, ids \cup {id})

(* A handle given out by net_loop_after is a new one. *)
LEMMA HandlesInsert ==
    ASSUME NEW x, Sound(x), x.freeslot # NoSlot, NEW y, Sound(y), NEW ids \in SUBSET (Nat \X Nat), IsFiniteSet(ids),
           Handles(x, ids), Cardinality(ids) < MaxArms, NEW d, Inserted(x, NewTimer(x, d), y),
           NEW id, id = NewTimer(x, d).id
    PROVE  NewHandle(x, y, ids, id)
<1> DEFINE N == Len(x.slot)
           q == x.freeslot + 1
           g == x.slot[q].gen
<1>1. x \in Loop /\ y \in Loop /\ N \in Nat
  BY LoopFields DEF Sound
<1>2. x.freeslot \in Nat /\ q \in 1 .. N /\ q - 1 = x.freeslot
  <2>1. PICK M, c : Free(x, M, c)
    BY DEF Sound
  <2>2. x.freeslot \in Nat /\ q \in 1 .. N
    BY <1>1, <2>1, FreeIsSlot, SMTT(30)
  <2> QED BY <2>2
<1>3. g \in Nat /\ 1 <= g /\ g < GenMod
  BY <1>1, <1>2, LoopFields, SMTT(30) DEF Handles
<1>4. id = <<g, q - 1>>
  <2>1. id = <<g, x.freeslot>>
    BY DEF NewTimer, TMR_ID, At
  <2> QED BY <1>2, <2>1, SMTT(30)
<1>i. id[1] = g /\ id[2] = q - 1
  BY <1>4, SMTT(30)
<1>5. /\ Len(y.slot) = N /\ y.slot[q].pos # NoPos /\ x.slot[q].pos = NoPos
      /\ \A k \in 1 .. N : y.slot[k].gen = x.slot[k].gen
      /\ \A k \in 1 .. N : k # q => (y.slot[k].pos = NoPos <=> x.slot[k].pos = NoPos)
  BY DEF Inserted
<1> HIDE DEF q, g
<1>6. \A s \in 1 .. N, h \in Nat : <<h, s - 1>> \in ids <=> Gave(x, s, h)
  BY ZenonT(40) DEF Handles
<1>7. id \notin ids
  <2>1. ~Gave(x, q, g)
    BY <1>3, <1>5, SMTT(30) DEF Gave, g
  <2> QED BY <1>2, <1>3, <1>4, <1>6, <2>1, SMTT(30)
<1>8. ASSUME NEW s \in 1 .. N, NEW h \in Nat
      PROVE  <<h, s - 1>> \in ids \cup {id} <=> Gave(y, s, h)
  <2>1. CASE s = q
    <3>1. CASE h = g
      <4>1. Gave(y, s, h)
        BY <1>2, <1>3, <1>5, <2>1, <3>1, SMTT(30) DEF Gave, g
      <4> QED BY <1>4, <2>1, <3>1, <4>1, SMTT(30)
    <3>2. CASE h # g
      <4>1. Gave(y, s, h) <=> Gave(x, s, h)
        BY <1>2, <1>5, <2>1, <3>2, SMTT(30) DEF Gave, g
      <4>2. <<h, s - 1>> # id
        BY <1>4, <3>2, SMTT(30)
      <4> QED BY <1>6, <4>1, <4>2, SMTT(30)
    <3> QED BY <3>1, <3>2, SMTT(30)
  <2>2. CASE s # q
    <3>1. Gave(y, s, h) <=> Gave(x, s, h)
      BY <1>5, <2>2, SMTT(30) DEF Gave
    <3>2. <<h, s - 1>> # id
      <4>1. s - 1 # q - 1
        BY <1>1, <1>2, <2>2, SMTT(30)
      <4> QED BY <1>4, <4>1, SMTT(30)
    <3> QED BY <1>6, <3>1, <3>2
  <2> QED BY <2>1, <2>2, SMTT(30)
<1>9. \A s \in 1 .. N : 1 <= y.slot[s].gen /\ y.slot[s].gen < GenMod
  BY <1>5, SMTT(30) DEF Handles
<1>10. \A a \in ids \cup {id} : a[2] < N
  <2>1. q - 1 < N
    BY <1>1, <1>2, SMTT(30)
  <2> QED BY <1>i, <2>1, SMTT(30) DEF Handles
<1>11. Handles(y, ids \cup {id})
  BY <1>5, <1>8, <1>9, <1>10, SMTT(30) DEF Handles
<1> QED BY <1>2, <1>3, <1>4, <1>i, <1>7, <1>11, SMTT(30) DEF NewHandle

(* Quotient and remainder are unique. *)
LEMMA DivUnique ==
    ASSUME NEW c \in Nat, c > 0, NEW m \in Int, NEW n \in Int,
           NEW r \in 0 .. c - 1, NEW s \in 0 .. c - 1, c * m + r = c * n + s
    PROVE  m = n /\ r = s
<1>1. c * (m - n) = s - r
  OBVIOUS
<1>2. CASE m - n >= 1
  <2>1. c * (m - n) >= c
    BY <1>2
  <2> QED BY <1>1, <2>1
<1>3. CASE m - n <= -1
  <2>1. c * (m - n) <= -c
    BY <1>3
  <2> QED BY <1>1, <2>1
<1>4. CASE m = n
  BY <1>1, <1>4
<1> QED BY <1>2, <1>3, <1>4

(* A number is its quotient times the divisor and a remainder in one way   *)
(* only.                                                                   *)
LEMMA ModUnique ==
    ASSUME NEW c \in Nat, c > 0, NEW m \in Int, NEW r \in 0 .. c - 1, NEW b \in Int, b = c * m + r
    PROVE  b % c = r
<1>1. b = c * (b \div c) + (b % c) /\ b \div c \in Int /\ b % c \in 0 .. c - 1
  OBVIOUS
<1> QED BY <1>1, DivUnique

-------------------------------------------------------------------------------
(* What the proofs use of the cardinality of finite sets.  The library has *)
(* it, but everything in its modules is carried along by every step that   *)
(* follows them, so it is a hypothesis up to the theorems.                 *)

(* f maps S to T, no two elements to the same. *)
OneToOne(f, S, T) == f \in [S -> T] /\ \A j, k \in S : f[j] = f[k] => j = k

(* f meets every element of T. *)
Onto(f, S, T) == \A z \in T : \E x \in S : f[x] = z

CardFacts ==
    /\ IsFiniteSet({})
    /\ \A S, x : IsFiniteSet(S) => IsFiniteSet(S \cup {x})
    /\ \A S : IsFiniteSet(S) => Cardinality(S) \in Nat
    /\ \A m \in Nat : IsFiniteSet(1 .. m) /\ Cardinality(1 .. m) = m
    /\ \A S, T, f : IsFiniteSet(T) /\ OneToOne(f, S, T) => Cardinality(S) <= Cardinality(T)
    /\ \A S, T, f : IsFiniteSet(S) /\ OneToOne(f, S, T) /\ Onto(f, S, T) =>
                       Cardinality(T) = Cardinality(S)

(* There are m numbers from 1 to m. *)
LEMMA FirstNats ==
    ASSUME CardFacts, NEW m \in Nat
    PROVE  IsFiniteSet(1 .. m) /\ Cardinality(1 .. m) = m
BY Zenon DEF CardFacts

(* A set that maps into another, no two elements to the same, is no larger. *)
LEMMA NoLarger ==
    ASSUME CardFacts, NEW S, NEW T, NEW f, IsFiniteSet(T), OneToOne(f, S, T)
    PROVE  Cardinality(S) <= Cardinality(T)
BY Zenon DEF CardFacts

(* And as large, when every element of the other is met. *)
LEMMA AsLarge ==
    ASSUME CardFacts, NEW S, NEW T, NEW f, IsFiniteSet(S), OneToOne(f, S, T), Onto(f, S, T)
    PROVE  Cardinality(T) = Cardinality(S)
BY Zenon DEF CardFacts

(* A sound loop has its timers in heap order, as many as there are slots   *)
(* in use.                                                                 *)
LEMMA SoundHeap ==
    ASSUME CardFacts
    PROVE  Sound(l) => HeapSound
<1> SUFFICES ASSUME Sound(l) PROVE HeapSound
  OBVIOUS
<1> DEFINE n == Len(l.heap)
           N == Len(l.slot)
           h == l.heap
           A == {s \in 0 .. N - 1 : Armed(s)}
           f == [k \in 1 .. n |-> h[k].slot]
<1>1. l \in Loop /\ Placed(l) /\ InOrder(l) /\ n \in Nat /\ N \in Nat
  BY LoopFields DEF Sound
<1>2. \A k \in 1 .. n - 1 : At(h, Parent(k)).due <= At(h, k).due
  <2> TAKE k \in 1 .. n - 1
  <2>0. Parent(k) \in 0 .. n - 1
    BY <1>1, ParentIn, ZenonT(40)
  <2>1. Parent(k) \in 0 .. n - 1 /\ k \in 0 .. n - 1
    BY <1>1, <2>0
  <2> QED BY <1>1, <2>1, DuesType, SMTT(30) DEF InOrder
<1>3. ASSUME NEW i \in 0 .. n - 1
      PROVE  /\ At(l.slot, At(h, i).slot).pos = i
             /\ At(h, i).id = TMR_ID(At(l.slot, At(h, i).slot).gen, At(h, i).slot)
  <2>1. i + 1 \in 1 .. n /\ (i + 1) - 1 = i
    BY <1>1
  <2>2. /\ l.slot[h[i + 1].slot + 1].pos = (i + 1) - 1
        /\ h[i + 1].id = <<l.slot[h[i + 1].slot + 1].gen, h[i + 1].slot>>
    BY <1>1, <2>1, ZenonT(40) DEF Placed
  <2> QED BY <2>1, <2>2, Zenon DEF At, TMR_ID
<1>4. \A k \in 1 .. n : h[k].slot \in Nat /\ h[k].slot + 1 \in 1 .. N /\ l.slot[h[k].slot + 1].pos = k - 1
  BY <1>1, LoopFields DEF Placed
<1>5. f \in [1 .. n -> A]
  <2>1. ASSUME NEW k \in 1 .. n PROVE h[k].slot \in A
    <3>1. h[k].slot \in 0 .. N - 1
      BY <1>1, <1>4, SMTT(30)
    <3>2. Armed(h[k].slot)
      BY <1>1, <1>4, SMTT(30) DEF Armed, At, NoPos
    <3> QED BY <3>1, <3>2, SMTT(30)
  <2> HIDE DEF A
  <2> QED BY <2>1
<1>6. \A j, k \in 1 .. n : f[j] = f[k] => j = k
  <2> SUFFICES ASSUME NEW j \in 1 .. n, NEW k \in 1 .. n, h[j].slot = h[k].slot PROVE j = k
    OBVIOUS
  <2>1. j - 1 = k - 1
    BY <1>4, Zenon
  <2> QED BY <1>1, <2>1
<1>7. \A s \in A : \E k \in 1 .. n : f[k] = s
  <2> SUFFICES ASSUME NEW s \in A PROVE \E k \in 1 .. n : h[k].slot = s
    OBVIOUS
  <2>1. s \in Nat /\ s + 1 \in 1 .. N /\ l.slot[s + 1].pos # NoPos
    <3>1. s \in 0 .. N - 1 /\ l.slot[s + 1].pos # NoPos
      BY Zenon DEF Armed, At
    <3> HIDE DEF N
    <3> QED BY <1>1, <3>1
  <2>2. l.slot[s + 1].pos + 1 \in 1 .. n /\ h[l.slot[s + 1].pos + 1].slot + 1 = s + 1
    BY <1>1, <2>1, Zenon DEF Placed
  <2>3. h[l.slot[s + 1].pos + 1].slot = s
    <3> DEFINE v == h[l.slot[s + 1].pos + 1].slot
    <3>1. v \in Nat /\ s \in Nat /\ v + 1 = s + 1
      BY <1>4, <2>1, <2>2, Zenon
    <3> HIDE DEF v
    <3>2. v = s
      BY <3>1
    <3> QED BY <3>2 DEF v
  <2> QED BY <2>2, <2>3, Zenon
<1> HIDE DEF f, A
<1>8. OneToOne(f, 1 .. n, A)
  BY <1>5, <1>6, Zenon DEF OneToOne
<1>9. IsFiniteSet(1 .. n) /\ Cardinality(1 .. n) = n
  BY <1>1, FirstNats
<1>11. Cardinality(A) = n
  BY <1>7, <1>8, <1>9, AsLarge, Zenon DEF Onto
<1> QED BY <1>2, <1>3, <1>11, SMTT(30) DEF HeapSound, A

(* In a sound loop walking the free list from its head meets exactly the   *)
(* idle slots, and ends.                                                   *)
LEMMA SoundList ==
    ASSUME CardFacts,
           WellOrdered
    PROVE  Sound(l) => FreeListExact
<1> SUFFICES ASSUME Sound(l) PROVE FreeListExact
  OBVIOUS
<1> DEFINE N == Len(l.slot)
           Body(g) == [k \in 0 .. N |-> IF k = 0 THEN l.freeslot
                                        ELSE IF g[k - 1] = NoSlot THEN NoSlot
                                        ELSE At(l.slot, g[k - 1]).next]
           chain == CHOOSE g : g = Body(g)
<1>1. N \in Nat
  BY LoopFields DEF Sound
<1>2. PICK M, c : Free(l, M, c)
  BY DEF Sound
<1>3. /\ M \in Nat /\ c \in [1 .. M + 1 -> Int]
      /\ l.freeslot = c[1] /\ c[M + 1] = NoSlot
      /\ \A k \in 1 .. M : c[k] + 1 \in 1 .. N /\ l.slot[c[k] + 1].pos = NoPos /\ l.slot[c[k] + 1].next = c[k + 1]
      /\ \A j, k \in 1 .. M : c[j] = c[k] => j = k
      /\ \A s \in 1 .. N : l.slot[s].pos = NoPos => \E k \in 1 .. M : c[k] + 1 = s
  BY <1>2 DEF Free
<1>4. M <= N
  <2> DEFINE f == [k \in 1 .. M |-> c[k] + 1]
  <2>1. f \in [1 .. M -> 1 .. N] /\ \A j, k \in 1 .. M : f[j] = f[k] => j = k
    <3>1. \A k \in 1 .. M : c[k] \in Int
      BY <1>3
    <3>2. \A k \in 1 .. M : c[k] + 1 \in 1 .. N
      BY <1>3, Zenon
    <3>3. \A j, k \in 1 .. M : c[j] = c[k] => j = k
      BY <1>3, Zenon
    <3> HIDE DEF N
    <3> QED BY <3>1, <3>2, <3>3
  <2> HIDE DEF f
  <2>2. OneToOne(f, 1 .. M, 1 .. N)
    BY <2>1, Zenon DEF OneToOne
  <2>3. IsFiniteSet(1 .. N) /\ Cardinality(1 .. N) = N /\ Cardinality(1 .. M) = M
    BY <1>1, <1>3, FirstNats
  <2>4. Cardinality(1 .. M) <= Cardinality(1 .. N)
    BY <2>2, <2>3, NoLarger, Zenon
  <2> QED BY <2>3, <2>4, Zenon
<1> DEFINE g == [k \in 0 .. N |-> IF k <= M THEN c[k + 1] ELSE NoSlot]
<1>5. \A k \in 0 .. N : g[k] = IF k <= M THEN c[k + 1] ELSE NoSlot
  OBVIOUS
<1>c. \A k \in 1 .. M : c[k] # NoSlot /\ At(l.slot, c[k]).next = c[k + 1]
  <2> TAKE k \in 1 .. M
  <2>1. c[k] \in Int /\ c[k] + 1 \in 1 .. N /\ l.slot[c[k] + 1].next = c[k + 1]
    BY <1>3
  <2>2. c[k] # NoSlot
    BY <1>1, <2>1, SMTT(30) DEF NoSlot
  <2> QED BY <2>1, <2>2 DEF At
<1>6. ASSUME NEW k \in 1 .. N, NEW v, v = g[k - 1]
      PROVE  g[k] = IF v = NoSlot THEN NoSlot ELSE At(l.slot, v).next
  <2>1. k - 1 \in 0 .. N /\ k \in 0 .. N
    BY <1>1
  <2>2. CASE k <= M
    <3>1. v = c[k] /\ g[k] = c[k + 1] /\ k \in 1 .. M
      BY <1>3, <1>5, <1>6, <2>1, <2>2, SMTT(30)
    <3> QED BY <1>c, <3>1, SMTT(30)
  <2>3. CASE ~(k <= M)
    <3>1. g[k] = NoSlot
      BY <1>5, <2>1, <2>3, Zenon
    <3>2. v = NoSlot
      BY <1>1, <1>3, <1>5, <1>6, <2>1, <2>3, SMTT(30)
    <3> QED BY <3>1, <3>2, SMTT(30)
  <2> QED BY <2>2, <2>3, SMTT(30)
<1>7. g[0] = l.freeslot
  BY <1>1, <1>3, <1>5, SMTT(30)
<1>g. g \in [0 .. N -> Int]
  BY <1>1, <1>3, SMTT(30) DEF NoSlot
<1> HIDE DEF g
<1>8. g = Body(g)
  <2>1. \A k \in 0 .. N : k = 0 \/ k \in 1 .. N
    BY <1>1
  <2> QED BY <1>6, <1>7, <1>g, <2>1, Zenon
<1>9. chain = Body(chain)
  <2> HIDE DEF Body
  <2> QED BY <1>8
<1> HIDE DEF chain
<1> DEFINE S == {k \in 0 .. N : chain[k] = g[k]}
<1>10. 0 \in S
  BY <1>1, <1>7, <1>9, SMTT(30)
<1>11. ASSUME NEW k \in 0 .. N - 1, k \in S PROVE k + 1 \in S
  <2>1. k + 1 \in 1 .. N /\ k + 1 \in 0 .. N /\ (k + 1) - 1 = k /\ chain[k] = g[k]
    BY <1>1, <1>11, SMTT(30)
  <2>2. chain[k + 1] = IF g[k] = NoSlot THEN NoSlot ELSE At(l.slot, g[k]).next
    BY <1>9, <2>1
  <2>3. g[k + 1] = IF g[k] = NoSlot THEN NoSlot ELSE At(l.slot, g[k]).next
    BY <1>6, <2>1
  <2> QED BY <2>1, <2>2, <2>3, Zenon
<1>12. 0 .. N \subseteq S
  <2> HIDE DEF S
  <2> QED BY <1>1, <1>10, <1>11, BoundedInduction, Zenon
<1>13. \A k \in 0 .. N : chain[k] = IF k <= M THEN c[k + 1] ELSE NoSlot
  BY <1>5, <1>12
<1>14. chain[N] = NoSlot
  <2>1. N \in 0 .. N
    BY <1>1
  <2>2. CASE N = M
    BY <1>3, <1>13, <2>1, <2>2, ZenonT(40)
  <2>3. CASE N # M
    <3>1. ~(N <= M)
      BY <1>1, <1>3, <1>4, <2>3, SMTT(30)
    <3> QED BY <1>13, <2>1, <3>1, Zenon
  <2> QED BY <2>2, <2>3
<1>15. {chain[k] : k \in 0 .. N} \ {NoSlot} = {s \in 0 .. N - 1 : ~Armed(s)}
  <2>1. ASSUME NEW k \in 0 .. N, chain[k] # NoSlot
        PROVE  chain[k] \in 0 .. N - 1 /\ ~Armed(chain[k])
    <3>1. k <= M /\ chain[k] = c[k + 1]
      BY <1>13, <2>1, Zenon
    <3>2. k + 1 \in 1 .. M
      BY <1>1, <1>3, <2>1, <3>1, SMTT(30)
    <3>3. c[k + 1] + 1 \in 1 .. N /\ l.slot[c[k + 1] + 1].pos = NoPos /\ c[k + 1] \in Int
      BY <1>3, <3>2
    <3> QED BY <1>1, <3>1, <3>3, SMTT(30) DEF Armed, At
  <2>2. ASSUME NEW s \in 0 .. N - 1, ~Armed(s)
        PROVE  s # NoSlot /\ \E k \in 0 .. N : chain[k] = s
    <3>1. s + 1 \in 1 .. N /\ l.slot[s + 1].pos = NoPos /\ s # NoSlot
      BY <1>1, <2>2, SMTT(30) DEF Armed, At, NoSlot
    <3>2. PICK k \in 1 .. M : c[k] + 1 = s + 1
      BY <1>3, <3>1, ZenonT(40)
    <3>3. c[k] = s /\ k - 1 \in 0 .. N /\ k - 1 <= M /\ (k - 1) + 1 = k
      <4>1. k \in 1 .. M + 1
        BY <1>3, SMTT(30)
      <4>2. c[k] \in Int
        BY <1>3, <4>1, Zenon
      <4>3. c[k] = s
        <5> DEFINE q == c[k]
        <5>1. q \in Int /\ q + 1 = s + 1 /\ s \in Int
          BY <3>2, <4>2
        <5> HIDE DEF q
        <5>2. q = s
          BY <5>1, SMTT(30)
        <5> QED BY <5>2 DEF q
      <4>4. M \in Nat /\ N \in Nat /\ M <= N
        BY <1>1, <1>3, <1>4, Zenon
      <4>5. k - 1 \in 0 .. N /\ k - 1 <= M /\ (k - 1) + 1 = k
        BY <4>4, SMTT(30)
      <4> QED BY <4>3, <4>5, ZenonT(40)
    <3>4. chain[k - 1] = s
      BY <1>13, <3>3, Zenon
    <3> QED BY <3>1, <3>3, <3>4, Zenon
  <2>3. {chain[k] : k \in 0 .. N} \ {NoSlot} \subseteq {s \in 0 .. N - 1 : ~Armed(s)}
    BY <2>1
  <2>4. {s \in 0 .. N - 1 : ~Armed(s)} \subseteq {chain[k] : k \in 0 .. N} \ {NoSlot}
    BY <2>2
  <2> QED BY <2>3, <2>4, SMTT(30)
<1> QED BY <1>14, <1>15, Zenon DEF FreeListExact, chain

(* A slot that has given out its last generation has given out as many     *)
(* handles as timers may be armed.                                         *)
LEMMA LastGeneration ==
    ASSUME CardFacts,
           NEW ids, IsFiniteSet(ids), NEW s, \A h \in 1 .. GenMod - 1 : <<h, s>> \in ids
    PROVE  ~(Cardinality(ids) < MaxArms)
<1> DEFINE m == GenMod - 1
           f == [h \in 1 .. m |-> <<h, s>>]
<1>1. m \in Nat /\ MaxArms \in Nat /\ MaxArms <= m
  BY TimerAssumption, FewArms
<1> HIDE DEF m
<1>2. f \in [1 .. m -> ids]
  BY DEF m
<1>3. \A j, k \in 1 .. m : f[j] = f[k] => j = k
  OBVIOUS
<1> HIDE DEF f
<1>4. OneToOne(f, 1 .. m, ids)
  BY <1>2, <1>3, Zenon DEF OneToOne
<1>5. Cardinality(1 .. m) = m
  BY <1>1, FirstNats, SMTT(30)
<1>6. Cardinality(1 .. m) <= Cardinality(ids)
  BY <1>4, NoLarger, Zenon
<1>7. Cardinality(ids) \in Nat
  BY Zenon DEF CardFacts
<1> QED BY <1>1, <1>5, <1>6, <1>7, SMTT(30)

(* A slot that is released goes on to a generation it has not had. *)
LEMMA HandlesRemove ==
    ASSUME CardFacts,
           NEW x, Sound(x), NEW y, NEW ids \in SUBSET (Nat \X Nat), IsFiniteSet(ids),
           Handles(x, ids), NEW i \in 0 .. Len(x.heap) - 1, Removed(x, i, y)
    PROVE  Handles(y, ids)
<1> DEFINE N == Len(x.slot)
           q == x.heap[i + 1].slot + 1
           g == x.slot[q].gen
<1>1. x \in Loop /\ Placed(x) /\ N \in Nat /\ i + 1 \in 1 .. Len(x.heap) /\ i # NoPos
  BY LoopFields, SMTT(30) DEF Sound, NoPos
<1>2. q \in 1 .. N /\ x.slot[q].pos # NoPos
  <2>1. q \in 1 .. N /\ x.slot[q].pos = (i + 1) - 1
    BY <1>1, ZenonT(40) DEF Placed
  <2>2. (i + 1) - 1 = i
    BY SMTT(30)
  <2> QED BY <1>1, <2>1, <2>2, ZenonT(40)
<1>3. /\ Len(y.slot) = N /\ y.slot[q].pos = NoPos /\ y.slot[q].gen = NextGen(g)
      /\ \A s \in 1 .. N : s # q => /\ y.slot[s].gen = x.slot[s].gen
                                    /\ y.slot[s].pos = NoPos <=> x.slot[s].pos = NoPos
  BY ZenonT(40) DEF Removed
<1>4. g \in Nat /\ 1 <= g /\ g < GenMod /\ GenMod \in Nat
  BY <1>1, <1>2, LoopFields, TimerAssumption, ZenonT(40) DEF Handles
<1>d. g = x.slot[q].gen
  BY SMTT(30)
<1> HIDE DEF q, g
<1>5. \A s \in 1 .. N : 1 <= y.slot[s].gen /\ y.slot[s].gen < GenMod
  <2> TAKE s \in 1 .. N
  <2>1. CASE s = q
    BY <1>3, <1>4, <2>1, NextGenType, ZenonT(40)
  <2>2. CASE s # q
    BY <1>3, <2>2, Zenon DEF Handles
  <2> QED BY <2>1, <2>2, ZenonT(40)
<1>6. ASSUME Cardinality(ids) < MaxArms, NEW s \in 1 .. N, NEW h \in Nat
      PROVE  <<h, s - 1>> \in ids <=> Gave(y, s, h)
  <2>0. \A k \in Nat : <<k, s - 1>> \in ids <=> Gave(x, s, k)
    BY <1>6, SMTT(30) DEF Handles
  <2>1. CASE s = q
    <3>1. g + 1 < GenMod
      <4> SUFFICES ASSUME ~(g + 1 < GenMod) PROVE FALSE
        OBVIOUS
      <4>1. \A k \in 1 .. GenMod - 1 : k \in Nat /\ 1 <= k /\ (k < g \/ k = g)
        BY <1>4, SMTT(30)
      <4>2. \A k \in 1 .. GenMod - 1 : Gave(x, s, k)
        BY <1>2, <1>d, <2>1, <4>1, Zenon DEF Gave
      <4>3. \A k \in 1 .. GenMod - 1 : <<k, s - 1>> \in ids
        BY <2>0, <4>1, <4>2, ZenonT(40)
      <4> QED BY <1>6, <4>3, LastGeneration, ZenonT(40)
    <3>2. NextGen(g) = g + 1
      <4>1. (g + 1) % GenMod = g + 1
        <5>1. g + 1 \in 0 .. GenMod - 1 /\ GenMod > 0 /\ g + 1 \in Int /\ g + 1 = GenMod * 0 + (g + 1)
          BY <1>4, <3>1, SMTT(30)
        <5> QED BY <1>4, <5>1, ModUnique, SMTT(30)
      <4> QED BY <1>4, <4>1, SMTT(30) DEF NextGen
    <3>3. Gave(y, s, h) <=> 1 <= h /\ h < g + 1
      BY <1>3, <2>1, <3>2, Zenon DEF Gave
    <3>4. Gave(x, s, h) <=> 1 <= h /\ (h < g \/ h = g)
      BY <1>2, <1>d, <2>1, Zenon DEF Gave
    <3>5. h < g + 1 <=> (h < g \/ h = g)
      BY <1>4
    <3> QED BY <2>0, <3>3, <3>4, <3>5, ZenonT(40)
  <2>2. CASE s # q
    <3>1. Gave(y, s, h) <=> Gave(x, s, h)
      BY <1>3, <2>2, Zenon DEF Gave
    <3> QED BY <2>0, <3>1, Zenon
  <2> QED BY <2>1, <2>2, Zenon
<1>7. \A id \in ids : id[2] < N
  BY DEF Handles
<1> QED BY <1>3, <1>5, <1>6, <1>7, ZenonT(40) DEF Handles

(* A new loop is the promise's initial state. *)
LEMMA InitHandles ==
    ASSUME CardFacts
    PROVE  Init => HInv /\ Promise!Init
<1> SUFFICES ASSUME Init PROVE HInv /\ Promise!Init
  OBVIOUS
<1>1. LInv
  BY InitSound
<1>2. l.heap = <<>> /\ l.slot = <<>> /\ now = 0 /\ pass = None /\ issued = {}
  BY DEF Init
<1>3. Handles(l, issued)
  BY <1>2, SMTT(30) DEF Handles
<1>4. IsFiniteSet(issued)
  BY <1>2, Zenon DEF CardFacts
<1>5. HInv
  BY <1>1, <1>2, <1>3, <1>4, Zenon DEF HInv
<1>6. Promise!Init
  BY <1>2, SMTT(30) DEF Promise!Init, Init
<1> QED BY <1>5, <1>6

(* Every step of the loop keeps the invariant, and is a step the promise   *)
(* allows or leaves what it speaks of alone.                               *)
LEMMA StepPromised ==
    ASSUME CardFacts,
           WellOrdered
    PROVE  HInv /\ [Next]_vars => HInv' /\ [Promise!Next]_(Promise!vars)
<1> SUFFICES ASSUME HInv, [Next]_vars PROVE HInv' /\ [Promise!Next]_(Promise!vars)
  OBVIOUS
<1> DEFINE A == Arm(l)
           B == Arm(l')
<1>0. /\ LInv /\ Sound(l) /\ now \in Nat /\ issued \subseteq Nat \X Nat
      /\ pass = None \/ (pass \in Nat /\ pass <= now)
      /\ IsFiniteSet(issued) /\ issued \subseteq Ids /\ Handles(l, issued)
  BY DEF HInv, LInv
<1>L. LInv'
  BY <1>0, StepSound, Zenon
<1>t. l \in Loop /\ Placed(l) /\ InOrder(l) /\ l' \in Loop /\ Len(l.heap) \in Nat /\ DOMAIN l.heap = 1 .. Len(l.heap)
  <2>1. l \in Loop /\ Placed(l) /\ InOrder(l) /\ l' \in Loop
    BY <1>0, <1>L, SMTT(30) DEF Sound, LInv
  <2> QED BY <2>1, LoopFields, SMTT(30)
<1>p. GenMod \in Nat /\ MaxSlots \in Nat /\ MaxSlots > 0 /\ GenMod > 1 /\ Delays \subseteq Nat
  BY TimerAssumption
<1>z. <<0, 0>> \in Ids
  BY <1>p, SMTT(30) DEF Ids
<1>a. A = {[id |-> l.heap[k].id, due |-> l.heap[k].due] : k \in DOMAIN l.heap}
  BY DEF Arm
<1>b. B = {[id |-> l'.heap[k].id, due |-> l'.heap[k].due] : k \in DOMAIN l'.heap}
  BY DEF Arm
<1>1. CASE Cardinality(issued) < MaxArms /\ \E ms \in Delays : net_loop_after(ms)
  <2>1. PICK ms \in Delays : net_loop_after(ms)
    BY <1>1, Zenon
  <2>2. PICK x : /\ IF l.freeslot = NoSlot THEN Grew(l, x) ELSE x = l
                 /\ Sound(x) /\ x.freeslot # NoSlot /\ Sound(l') /\ Inserted(x, NewTimer(x, now + ms), l')
                 /\ issued' = issued \cup {NewTimer(x, now + ms).id} /\ x.freeslot < MaxSlots
                 /\ last' = [op |-> "after", id |-> NewTimer(x, now + ms).id, ok |-> TRUE]
                 /\ now' = now /\ pass' = pass
    BY <1>0, <2>1, AfterFacts, Zenon
  <2> DEFINE e == NewTimer(x, now + ms)
             id == e.id
  <2>3. x \in Loop /\ x.heap = l.heap /\ Handles(x, issued)
    <3>1. x \in Loop
      BY <2>2, Zenon DEF Sound
    <3>2. CASE l.freeslot = NoSlot
      <4>1. Grew(l, x)
        BY <2>2, <3>2, Zenon
      <4> QED BY <1>0, <1>t, <3>1, <4>1, HandlesGrow, ZenonT(40) DEF Grew
    <3>3. CASE l.freeslot # NoSlot
      BY <1>0, <2>2, <3>1, <3>3, ZenonT(40)
    <3> QED BY <3>2, <3>3, Zenon
  <2>4. /\ id \notin issued /\ id[1] \in Nat /\ 1 <= id[1] /\ id[1] < GenMod
        /\ id = <<id[1], id[2]>> /\ id[2] = x.freeslot /\ Handles(l', issued \cup {id})
    <3>1. issued \in SUBSET (Nat \X Nat)
      BY <1>0, SMTT(30)
    <3> DEFINE d == now + ms
    <3>2. id = NewTimer(x, d).id /\ Inserted(x, NewTimer(x, d), l')
      BY <2>2, Zenon
    <3> HIDE DEF id, d
    <3>3. NewHandle(x, l', issued, id)
      BY <1>0, <1>1, <2>2, <2>3, <3>1, <3>2, HandlesInsert, ZenonT(40)
    <3> QED BY <3>3 DEF NewHandle
  <2>5. x.freeslot \in Nat
    <3>1. PICK M, c : Free(x, M, c)
      BY <2>2 DEF Sound
    <3> QED BY <2>2, <2>3, <3>1, FreeIsSlot, ZenonT(40)
  <2>6. id \in Ids /\ id # <<0, 0>>
    <3> HIDE DEF id
    <3>1. id[1] \in 0 .. GenMod - 1 /\ id[2] \in 0 .. MaxSlots - 1
      BY <1>p, <2>2, <2>4, <2>5, SMTT(30)
    <3>2. <<id[1], id[2]>> \in Ids
      BY <3>1, SMTT(30) DEF Ids
    <3>3. id[1] # 0
      BY <2>4, SMTT(30)
    <3> QED BY <2>4, <3>2, <3>3, SMTT(30)
  <2>7. B = A \cup {[id |-> id, due |-> now + ms]}
    <3>1. Entries(l') = Entries(l) \cup {e}
      BY <2>2, <2>3, ZenonT(40) DEF Inserted, Entries
    <3>2. /\ A = {[id |-> t.id, due |-> t.due] : t \in Entries(l)}
          /\ B = {[id |-> t.id, due |-> t.due] : t \in Entries(l')}
      BY <1>t, ArmEntries, Zenon
    <3>3. e.due = now + ms
      BY DEF NewTimer
    <3> HIDE DEF A, B, e
    <3> QED BY <3>1, <3>2, <3>3, ZenonT(40)
  <2>8. HInv'
    <3>1. IsFiniteSet(issued \cup {id})
      BY <1>0, Zenon DEF CardFacts
    <3>2. issued' \subseteq Ids /\ IsFiniteSet(issued') /\ Handles(l', issued')
      BY <1>0, <2>2, <2>4, <2>6, <3>1, ZenonT(40)
    <3>3. pass' = None \/ (pass' \in Nat /\ pass' <= now')
      BY <1>0, <2>2, ZenonT(40)
    <3> QED BY <1>L, <3>2, <3>3, Zenon DEF HInv
  <2>9. Promise!After
    <3>1. id \in Ids \ (issued \cup {<<0, 0>>})
      BY <2>4, <2>6, Zenon
    <3> HIDE DEF id, e
    <3>2. issued' = issued \cup {id} /\ last' = [op |-> "after", id |-> id, ok |-> TRUE] /\ now' = now
      BY <2>2 DEF id, e
    <3> QED BY <1>a, <1>b, <2>7, <3>1, <3>2, ZenonT(40) DEF Promise!After
  <2> QED BY <2>8, <2>9, SMTT(30) DEF Promise!Next
<1>2. CASE net_loop_after_nomem
  <2>1. HInv'
    BY <1>0, <1>2, <1>L, ZenonT(40) DEF net_loop_after_nomem, HInv
  <2>2. Promise!After
    BY <1>2 DEF net_loop_after_nomem, Promise!After
  <2> QED BY <2>1, <2>2, Zenon DEF Promise!Next
<1>3. CASE \E id \in issued \cup {<<0, 0>>} : net_loop_cancel(id)
  <2>1. PICK id \in issued \cup {<<0, 0>>} : net_loop_cancel(id)
    BY <1>3
  <2> DEFINE ok == \E k \in 1 .. Len(l.heap) : l.heap[k].id = id
  <2>2. /\ last' = [op |-> "cancel", id |-> id, ok |-> ok]
        /\ ok => \E i \in 0 .. Len(l.heap) - 1 : l.heap[i + 1].id = id /\ Sound(l') /\ Removed(l, i, l')
        /\ ~ok => l' = l
        /\ now' = now /\ pass' = pass /\ issued' = issued
    BY <1>0, <2>1, CancelFacts, ZenonT(40)
  <2>3. ok = (\E t \in A : t.id = id)
    <3>1. A = {[id |-> l.heap[k].id, due |-> l.heap[k].due] : k \in 1 .. Len(l.heap)}
      BY <1>a, <1>t, Zenon
    <3> HIDE DEF A
    <3>2. ASSUME ok PROVE \E t \in A : t.id = id
      <4>1. PICK k \in 1 .. Len(l.heap) : l.heap[k].id = id
        BY <3>2, Zenon
      <4> DEFINE t == [id |-> l.heap[k].id, due |-> l.heap[k].due]
      <4>2. t \in A /\ t.id = id
        BY <3>1, <4>1, Zenon
      <4> QED BY <4>2
    <3>3. (\E t \in A : t.id = id) => ok
      BY <3>1
    <3> QED BY <3>2, <3>3, Zenon
  <2>4. B = {t \in A : t.id # id} /\ Handles(l', issued)
    <3>1. CASE ok
      <4>1. PICK i \in 0 .. Len(l.heap) - 1 : l.heap[i + 1].id = id /\ Sound(l') /\ Removed(l, i, l')
        BY <2>2, <3>1, Zenon
      <4>2. B = {t \in A : t.id # id}
        BY <1>0, <4>1, ArmRemoved, SMTT(30)
      <4>3. issued \in SUBSET (Nat \X Nat)
        BY <1>0, Zenon
      <4> QED BY <1>0, <4>1, <4>2, <4>3, HandlesRemove, ZenonT(40)
    <3>2. CASE ~ok
      <4>1. l' = l
        BY <2>2, <3>2, Zenon
      <4>2. \A t \in A : t.id # id
        BY <2>3, <3>2, Zenon
      <4>3. A = B
        BY <4>1
      <4> HIDE DEF A, B
      <4>4. B = {t \in A : t.id # id}
        BY <4>2, <4>3, Zenon
      <4> QED BY <1>0, <4>1, <4>4, Zenon
    <3> QED BY <3>1, <3>2, Zenon
  <2>5. HInv'
    BY <1>0, <1>L, <2>2, <2>4, Zenon DEF HInv
  <2>6. Promise!Cancel(id)
    <3> HIDE DEF ok, A, B
    <3> QED BY <1>a, <1>b, <2>2, <2>3, <2>4, Zenon DEF Promise!Cancel
  <2>7. id \in Ids
    BY <1>0, <1>z, SMTT(30)
  <2> QED BY <2>5, <2>6, <2>7, ZenonT(40) DEF Promise!Next
<1>4. CASE due_pass
  <2>1. HInv'
    BY <1>0, <1>4, <1>L, SMTT(30) DEF due_pass, HInv
  <2>2. UNCHANGED Promise!vars
    BY <1>4 DEF due_pass, Promise!vars
  <2> QED BY <2>1, <2>2, Zenon
<1>5. CASE fire
  <2>1. /\ 0 \in 0 .. Len(l.heap) - 1 /\ Sound(l') /\ Removed(l, 0, l')
        /\ l.heap[1].due <= pass /\ pass # None
        /\ last' = [op |-> "fire", id |-> l.heap[1].id, ok |-> TRUE]
        /\ now' = now /\ pass' = pass /\ issued' = issued
    BY <1>0, <1>5, FireFacts, ZenonT(40)
  <2> DEFINE t == [id |-> l.heap[1].id, due |-> l.heap[1].due]
  <2>2. 1 \in 1 .. Len(l.heap) /\ l.heap[1].due \in Nat /\ 0 + 1 = 1
    BY <1>t, <2>1, LoopFields, SMTT(30)
  <2>3. t \in A
    BY <1>a, <1>t, <2>2, Zenon
  <2>4. t.due <= now
    BY <1>0, <2>1, <2>2, SMTT(30)
  <2>5. \A u \in A : t.due <= u.due
    <3> SUFFICES ASSUME NEW k \in 1 .. Len(l.heap) PROVE l.heap[1].due <= l.heap[k].due
      BY <1>a, <1>t, SMTT(30)
    <3> QED BY <1>t, HeadFirst, Zenon
  <2>6. B = {u \in A : u.id # l.heap[1].id}
    BY <1>0, <2>1, <2>2, ArmRemoved, SMTT(30)
  <2>7. \A u \in A : u.id = l.heap[1].id => u = t
    <3> SUFFICES ASSUME NEW k \in 1 .. Len(l.heap), l.heap[k].id = l.heap[1].id
                 PROVE  [id |-> l.heap[k].id, due |-> l.heap[k].due] = t
      BY <1>a, <1>t, SMTT(30)
    <3>1. k = 1
      BY <1>t, <2>2, OneTimerPerId, Zenon
    <3> QED BY <3>1, Zenon
  <2>8. t.id = l.heap[1].id
    OBVIOUS
  <2>9. B = A \ {t}
    <3> HIDE DEF A, B, t
    <3> QED BY <2>6, <2>7, <2>8, Zenon
  <2>10. Promise!Fire
    <3>1. last' = [op |-> "fire", id |-> t.id, ok |-> TRUE] /\ now' = now /\ issued' = issued
      BY <2>1, Zenon
    <3> HIDE DEF A, B, t
    <3> QED BY <1>a, <1>b, <2>3, <2>4, <2>5, <2>9, <3>1, ZenonT(40) DEF Promise!Fire
  <2>11. HInv'
    <3>1. issued \in SUBSET (Nat \X Nat)
      BY <1>0, Zenon
    <3>2. Handles(l', issued)
      BY <1>0, <2>1, <3>1, HandlesRemove, Zenon
    <3> QED BY <1>0, <1>L, <2>1, <3>2, Zenon DEF HInv
  <2> QED BY <2>10, <2>11, Zenon DEF Promise!Next
<1>6. CASE pass_over
  <2>1. HInv'
    BY <1>0, <1>6, <1>L, Zenon DEF pass_over, HInv
  <2>2. UNCHANGED Promise!vars
    BY <1>6, SMTT(30) DEF pass_over, Promise!vars
  <2> QED BY <2>1, <2>2
<1>7. CASE Tick
  <2>1. HInv'
    BY <1>0, <1>7, <1>L, SMTT(30) DEF Tick, HInv
  <2>2. Promise!Tick
    BY <1>7, Zenon DEF Tick, Promise!Tick
  <2> QED BY <2>1, <2>2, Zenon DEF Promise!Next
<1>8. CASE UNCHANGED vars
  <2>1. HInv'
    BY <1>0, <1>8, <1>L, Zenon DEF vars, HInv
  <2>2. UNCHANGED Promise!vars
    BY <1>8 DEF vars, Promise!vars
  <2> QED BY <2>1, <2>2
<1> QED BY <1>1, <1>2, <1>3, <1>4, <1>5, <1>6, <1>7, <1>8, Zenon DEF Next

-------------------------------------------------------------------------------
INSTANCE FiniteSetTheorems

(* The naturals are well ordered. *)
LEMMA NatWellOrdered == WellOrdered
<1> SUFFICES ASSUME NEW S \in SUBSET Nat, S # {} PROVE \E x \in S : \A y \in S : x <= y
  BY DEF WellOrdered
<1> DEFINE Lt == {ss \in Nat \X Nat : ss[1] < ss[2]}
<1>1. IsWellFoundedOn(Lt, Nat)
  BY NatLessThanWellFounded, Zenon DEF OpToRel
<1>2. PICK x \in S : \A y \in S : ~(<<y, x>> \in Lt)
  BY <1>1, WFMin, Zenon
<1>3. ASSUME NEW y \in S, y < x PROVE FALSE
  <2>1. <<y, x>> \in Nat \X Nat
    OBVIOUS
  <2>2. <<y, x>> \in Lt
    BY <1>3, <2>1
  <2> QED BY <1>2, <2>2
<1> QED BY <1>3

(* What the library says of the cardinality of finite sets. *)
LEMMA FiniteSets == CardFacts
<1>1. IsFiniteSet({})
  BY FS_EmptySet, Zenon
<1>2. ASSUME NEW S, NEW x, IsFiniteSet(S) PROVE IsFiniteSet(S \cup {x})
  BY <1>2, FS_AddElement, Zenon
<1>3. ASSUME NEW S, IsFiniteSet(S) PROVE Cardinality(S) \in Nat
  BY <1>3, FS_CardinalityType, Zenon
<1>4. ASSUME NEW m \in Nat PROVE IsFiniteSet(1 .. m) /\ Cardinality(1 .. m) = m
  <2>1. 1 \in Int /\ m \in Int
    OBVIOUS
  <2>2. IsFiniteSet(1 .. m) /\ Cardinality(1 .. m) = IF 1 > m THEN 0 ELSE m - 1 + 1
    BY <2>1, FS_Interval, ZenonT(40)
  <2> QED BY <2>2
<1>5. ASSUME NEW S, NEW T, NEW f, IsFiniteSet(T), OneToOne(f, S, T)
      PROVE  Cardinality(S) <= Cardinality(T)
  <2>1. f \in Injection(S, T)
    BY <1>5, Zenon DEF OneToOne, Injection, IsInjective
  <2> QED BY <1>5, <2>1, FS_Injection, ZenonT(40)
<1>6. ASSUME NEW S, NEW T, NEW f, IsFiniteSet(S), OneToOne(f, S, T), Onto(f, S, T)
      PROVE  Cardinality(T) = Cardinality(S)
  <2>1. f \in Bijection(S, T)
    BY <1>6, Zenon DEF OneToOne, Onto, Bijection, Injection, Surjection, IsInjective
  <2>2. ExistsBijection(S, T)
    BY <2>1, Zenon DEF ExistsBijection
  <2> QED BY <1>6, <2>2, FS_Bijection, ZenonT(40)
<1> QED BY <1>1, <1>2, <1>3, <1>4, <1>5, <1>6, ZenonT(40) DEF CardFacts

(* Heap, slot table and free list describe the same timers, whatever is    *)
(* armed, cancelled and fired.                                             *)
THEOREM TimersAreSound == Spec => []TimersSound
<1>1. LInv => TimersSound
  BY NatWellOrdered, FiniteSets, SoundHeap, SoundList, Zenon DEF LInv, TimersSound
<1>2. LInv /\ [Next]_vars => LInv'
  BY NatWellOrdered, StepSound
<1> QED BY <1>1, <1>2, InitSound, PTL DEF Spec

(* The heap, the slot table and the free list implement the promised set   *)
(* of timers.                                                              *)
THEOREM TimersKeepPromise == Spec => ImplementsTimers
<1>1. Init => HInv /\ Promise!Init
  BY FiniteSets, InitHandles
<1>2. HInv /\ [Next]_vars => HInv' /\ [Promise!Next]_(Promise!vars)
  BY NatWellOrdered, FiniteSets, StepPromised
<1> QED BY <1>1, <1>2, PTL DEF Spec, ImplementsTimers, Promise!Spec
===============================================================================
