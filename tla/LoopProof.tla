------------------------------- MODULE LoopProof -------------------------------
(***************************************************************************)
(* Proofs about the C++ face of the event loop (LoopFacade) and about the  *)
(* hooks of a step (LoopDispatch), for every set of descriptors, sockets   *)
(* and hooks and every bound.                                              *)
(***************************************************************************)
EXTENDS MCLoop, TLAPS

-------------------------------------------------------------------------------
(* The facade: contexts and exceptions.                                    *)

FTypes ==
    /\ nctx \in Nat /\ nexc \in Nat /\ pending \in Nat /\ first \in Nat
    /\ heap \subseteq 1 .. nctx /\ timers \subseteq 1 .. nctx
    /\ table \in [Fds -> 0 .. nctx] /\ ios \in [Fds -> 0 .. nctx]
    /\ hooks \subseteq Socks /\ txq \in [Socks -> {"none", "empty", "queued"}]
    /\ fpc \in {"out", "run", "step", "running", "stepping"}

(* No context serves two purposes, so freeing the one a descriptor or a    *)
(* timer gives up frees nobody else's; and a destroyed loop has no hooks.  *)
FSeparate ==
    /\ \A a, b \in Fds : ios[a] = ios[b] /\ ios[a] # 0 => a = b
    /\ \A a \in Fds : ios[a] \notin timers
    /\ ~alive => hooks = {}

(* What is pending inside step() or run() is the first exception of the    *)
(* call, and handlers run inside only.                                     *)
FPending ==
    /\ fpc \in {"out", "run", "step"} => cb = Facade!Idle
    /\ fpc # "out" => pending = first

FInv == FTypes /\ FSeparate /\ FPending /\ FacadeSound

(* One lemma per group of actions; what a group leaves alone is UNCHANGED. *)
LEMMA FInit == Facade!Init => FInv
BY DEF Facade!Init, FInv, FTypes, FSeparate, FPending, FacadeSound, Facade!ContextsOwned,
       Facade!FirstThrown

(* Timers: a context is made for each, and goes with it. *)
LEMMA FTimers ==
    ASSUME FInv, \/ Facade!after
                 \/ \E id \in 1 .. nctx : Facade!cancel(id)
                 \/ \E id \in heap : Facade!timer_tramp(id)
    PROVE  FInv'
<1> USE DEF FInv, FTypes, FSeparate, FPending, FacadeSound, Facade!ContextsOwned,
            Facade!FirstThrown, Facade!call, Facade!Idle
<1>1. CASE Facade!after
  BY <1>1, SMTT(30) DEF Facade!after, Facade!New
<1>2. ASSUME NEW id \in 1 .. nctx, Facade!cancel(id) PROVE FInv'
  BY <1>2, SMTT(30) DEF Facade!cancel
<1>3. ASSUME NEW id \in heap, Facade!timer_tramp(id) PROVE FInv'
  BY <1>3 DEF Facade!timer_tramp
<1> HIDE DEF FInv
<1> QED BY <1>1, <1>2, <1>3, SMTT(30)

(* Descriptors: the context in the C table is the one in ios. *)
LEMMA FDescriptors ==
    ASSUME FInv, NEW fd \in Fds,
           Facade!add_fd(fd) \/ Facade!del_fd(fd) \/ Facade!closed(fd)
    PROVE  FInv'
<1> USE DEF FInv, FTypes, FSeparate, FPending, FacadeSound, Facade!ContextsOwned,
            Facade!FirstThrown, Facade!call, Facade!Idle
<1>1. CASE Facade!add_fd(fd)
  BY <1>1, SMTT(30) DEF Facade!add_fd, Facade!New
<1>2. CASE Facade!del_fd(fd)
  BY <1>2, SMTT(30) DEF Facade!del_fd
<1>3. CASE Facade!closed(fd)
  BY <1>3 DEF Facade!closed
<1> HIDE DEF FInv
<1> QED BY <1>1, <1>2, <1>3, SMTT(30)

(* Queues and their hooks, and the end of the loop. *)
LEMMA FQueues ==
    ASSUME FInv, \/ \E s \in Socks : Facade!tx_loop(s) \/ Facade!send(s) \/ Facade!close(s)
                 \/ Facade!stop_ \/ Facade!destroy \/ Facade!poll
    PROVE  FInv'
<1> USE DEF FInv, FTypes, FSeparate, FPending, FacadeSound, Facade!ContextsOwned,
            Facade!FirstThrown, Facade!call, Facade!held, Facade!Idle
<1>1. ASSUME NEW s \in Socks, Facade!tx_loop(s) PROVE FInv'
  BY <1>1, SMTT(30) DEF Facade!tx_loop
<1>2. ASSUME NEW s \in Socks, Facade!send(s) PROVE FInv'
  BY <1>2, SMTT(30) DEF Facade!send
<1>3. ASSUME NEW s \in Socks, Facade!close(s) PROVE FInv'
  BY <1>3, SMTT(30) DEF Facade!close
<1>4. CASE Facade!stop_
  BY <1>4, SMTT(30) DEF Facade!stop_
<1>5. CASE Facade!destroy
  BY <1>5, SMTT(30) DEF Facade!destroy
<1>6. CASE Facade!poll
  BY <1>6, SMTT(30) DEF Facade!poll
<1> HIDE DEF FInv
<1> QED BY <1>1, <1>2, <1>3, <1>4, <1>5, <1>6, SMTT(30)

(* The calls of the loop, the handlers and what they throw. *)
LEMMA FCalls ==
    ASSUME FInv, \/ \E how \in {"run", "step"} : Facade!enter(how)
                 \/ Facade!io_tramp \/ Facade!returns \/ Facade!throws
                 \/ Facade!iterated \/ Facade!leave
    PROVE  FInv'
<1> USE DEF FInv, FTypes, FSeparate, FPending, FacadeSound, Facade!ContextsOwned,
            Facade!FirstThrown, Facade!held
<1>1. ASSUME NEW how \in {"run", "step"}, Facade!enter(how) PROVE FInv'
  BY <1>1, SMTT(30) DEF Facade!enter
<1>2. CASE Facade!io_tramp
  BY <1>2, SMTT(30) DEF Facade!io_tramp
<1>3. CASE Facade!returns
  BY <1>3, SMTT(30) DEF Facade!returns
<1>4. CASE Facade!throws
  BY <1>4, SMTT(30) DEF Facade!throws, Facade!defer_exception
<1>5. CASE Facade!iterated
  BY <1>5, SMTT(30) DEF Facade!iterated
<1>6. CASE Facade!leave
  BY <1>6, SMTT(30) DEF Facade!leave
<1> HIDE DEF FInv
<1> QED BY <1>1, <1>2, <1>3, <1>4, <1>5, <1>6, ZenonT(40)

(* Every call into the facade, and every callback out of it, keeps FInv. *)
LEMMA FStep == FInv /\ [Facade!Next]_(Facade!vars) => FInv'
<1> SUFFICES ASSUME FInv, [Facade!Next]_(Facade!vars) PROVE FInv'
  BY SMTT(30)
<1>1. CASE UNCHANGED Facade!vars
  BY <1>1, SMTT(30) DEF Facade!vars, Facade!held, Facade!call, FInv, FTypes, FSeparate, FPending,
              FacadeSound, Facade!ContextsOwned, Facade!FirstThrown
<1>2. CASE Facade!Next
  BY <1>2, FTimers, FDescriptors, FQueues, FCalls, SMTT(30) DEF Facade!Next
<1> QED BY <1>1, <1>2, SMTT(30)

(* Whatever descriptors, sockets and handlers there are, and whatever the  *)
(* handlers call, add, drop or throw: the C loop holds exactly the contexts *)
(* the C++ side keeps alive, and the first exception of a step() or run()  *)
(* is the one thrown out of it.                                            *)
THEOREM FacadeIsSound == Facade!Spec => []FacadeSound
<1>1. FInv => FacadeSound
  BY DEF FInv
<1> QED BY FInit, FStep, <1>1, PTL DEF Facade!Spec

-------------------------------------------------------------------------------
(* A step of the loop: its hooks.                                          *)

None_ == Dispatch!None

(* No hook is in the array twice. *)
Once(s) == \A a, b \in DOMAIN s : s[a] = s[b] /\ s[a] # None_ => a = b

(* The hook ran, once. *)
RanOnce(h) == \E m \in DOMAIN ran : ran[m] = h /\ \A n \in DOMAIN ran : ran[n] = h => n = m

(* A hook owed to this step has a slot that stays its own, and has run if  *)
(* the loop of net_loop_step is past that slot, and not otherwise.         *)
DInv ==
    /\ pre \in Seq(Hooks \cup {None_}) /\ ran \in Seq(Hooks) /\ owed \subseteq Hooks
    /\ i \in Nat
    /\ pc \in {"out", "hooks", "fds"}
    /\ Once(pre)
    /\ pc = "hooks" => i > 0
    /\ pc = "hooks" =>
          \A h \in owed : \E k \in DOMAIN pre :
              /\ pre[k] = h
              /\ IF k < i THEN RanOnce(h) ELSE \A m \in DOMAIN ran : ran[m] # h
    /\ pc = "fds" => \A h \in owed : RanOnce(h)

(* A new loop owes no hook. *)
LEMMA DInit == Dispatch!Init => DInv
BY SMTT(30) DEF Dispatch!Init, DInv, Once

(* One turn of the hook loop. *)
LEMMA DRuns ==
    ASSUME DInv, Dispatch!step_hook
    PROVE  DInv'
<1>0. /\ pc = "hooks" /\ i \in DOMAIN pre /\ i' = i + 1 /\ i \in Nat
      /\ UNCHANGED <<pc, pre, owed>>
      /\ ran' = IF pre[i] = None_ THEN ran ELSE Append(ran, pre[i])
  BY SMTT(30) DEF Dispatch!step_hook, Dispatch!user, DInv, None_
<1>1. CASE pre[i] = None_
  <2>1. ASSUME NEW h \in owed, NEW k \in DOMAIN pre, pre[k] = h PROVE k < i <=> k < i'
    BY <1>0, <1>1, <2>1, HooksAssumption, SMTT(30) DEF DInv, None_
  <2> QED BY <1>0, <1>1, <2>1, SMTT(30) DEF DInv, Once, RanOnce
<1>2. CASE pre[i] # None_
  <2>1. /\ ran' \in Seq(Hooks) /\ DOMAIN ran' = 1 .. Len(ran) + 1 /\ DOMAIN ran = 1 .. Len(ran)
        /\ \A m \in DOMAIN ran : ran'[m] = ran[m]
        /\ ran'[Len(ran) + 1] = pre[i] /\ Len(ran) \in Nat
    BY <1>0, <1>2, SMTT(30) DEF DInv
  <2>2. ASSUME NEW h \in owed
        PROVE  \E k \in DOMAIN pre :
                  /\ pre[k] = h
                  /\ IF k < i + 1 THEN RanOnce(h)' ELSE \A m \in DOMAIN ran' : ran'[m] # h
    <3>1. PICK k \in DOMAIN pre :
             /\ pre[k] = h
             /\ IF k < i THEN RanOnce(h) ELSE \A m \in DOMAIN ran : ran[m] # h
      BY <1>0, SMTT(30) DEF DInv
    <3>2. CASE k < i
      <4>1. pre[i] # h
        BY <1>0, <1>2, <3>1, <3>2, SMTT(30) DEF DInv, Once
      <4>2. PICK m \in DOMAIN ran : ran[m] = h /\ \A n \in DOMAIN ran : ran[n] = h => n = m
        BY <3>1, <3>2, SMTT(30) DEF RanOnce
      <4>3. RanOnce(h)'
        BY <2>1, <4>1, <4>2, SMTT(30) DEF RanOnce
      <4>4. k < i + 1
        BY <1>0, <3>2, SMTT(30) DEF DInv
      <4> QED BY <3>1, <4>3, <4>4, Zenon
    <3>3. CASE k = i
      <4>1. RanOnce(h)'
        BY <1>0, <2>1, <3>1, <3>3, SMTT(30) DEF RanOnce
      <4>2. k < i + 1
        BY <1>0, <3>3, SMTT(30)
      <4> QED BY <3>1, <4>1, <4>2, Zenon
    <3>4. CASE k > i
      <4>1. pre[i] # h
        BY <1>0, <1>2, <3>1, <3>4, SMTT(30) DEF DInv, Once
      <4>2. \A m \in DOMAIN ran' : ran'[m] # h
        BY <1>0, <2>1, <3>1, <3>4, <4>1, SMTT(30) DEF DInv
      <4>3. ~(k < i + 1)
        BY <1>0, <3>4, SMTT(30) DEF DInv
      <4> QED BY <3>1, <4>2, <4>3, SMTT(30)
    <3>5. k \in Nat
      BY SMTT(30) DEF DInv
    <3> HIDE DEF RanOnce
    <3> QED BY <1>0, <3>2, <3>3, <3>4, <3>5, SMTT(30)
  <2> QED BY <1>0, <2>1, <2>2, SMTT(30) DEF DInv, Once
<1> QED BY <1>1, <1>2, SMTT(30)

-------------------------------------------------------------------------------
(* Induction and definition by recursion up to a bound, for the loops of   *)
(* the code: stated with sets and functions, which the provers can apply,  *)
(* and from the fact that the naturals are well ordered.  The fact is the  *)
(* library's; it is a hypothesis up to the theorems, because everything in *)
(* the library's modules is carried along by every step that follows them. *)

(* A non-empty set of naturals has a least element. *)
WellOrdered == \A S \in SUBSET Nat : S # {} => \E x \in S : \A y \in S : x <= y

(* A set that holds 0 and with every number below N its successor holds    *)
(* all numbers up to N.                                                    *)
LEMMA BoundedInduction ==
    ASSUME WellOrdered, NEW N \in Nat, NEW S, 0 \in S, \A n \in 0 .. N - 1 : n \in S => n + 1 \in S
    PROVE  0 .. N \subseteq S
<1> DEFINE Out == {n \in 0 .. N : n \notin S}
<1> SUFFICES ASSUME Out # {} PROVE FALSE
  OBVIOUS
<1>1. Out \in SUBSET Nat
  OBVIOUS
<1>2. PICK x \in Out : \A y \in Out : x <= y
  <2> HIDE DEF Out
  <2> QED BY <1>1, Zenon DEF WellOrdered
<1>3. x # 0 /\ x - 1 \in 0 .. N - 1
  BY <1>2
<1>4. x - 1 \in S
  BY <1>2, <1>3
<1>5. (x - 1) + 1 \in S
  BY <1>3, <1>4
<1> QED BY <1>2, <1>5

(* f starts at v0 and follows the step functions, N times. *)
Iterate(f, V, v0, N, step) ==
    /\ f \in [0 .. N -> V]
    /\ f[0] = v0
    /\ \A k \in 1 .. N : f[k] = step[k][f[k - 1]]

(* A step function and a first value determine a function of the naturals  *)
(* up to a bound.                                                          *)
LEMMA Iterates ==
    ASSUME WellOrdered, NEW V, NEW v0 \in V, NEW N \in Nat, NEW step \in [1 .. N -> [V -> V]]
    PROVE  \E f : Iterate(f, V, v0, N, step)
<1> DEFINE Good(n) == \E f \in [0 .. n -> V] :
                         f[0] = v0 /\ \A k \in 1 .. n : f[k] = step[k][f[k - 1]]
           S == {n \in Nat : Good(n)}
<1>1. 0 \in S
  <2> DEFINE g == [k \in 0 .. 0 |-> v0]
  <2>1. g \in [0 .. 0 -> V] /\ g[0] = v0 /\ 1 .. 0 = {}
    OBVIOUS
  <2>2. Good(0)
    <3> HIDE DEF g
    <3> QED BY <2>1
  <2> QED BY <2>2
<1>2. ASSUME NEW n \in 0 .. N - 1, n \in S PROVE n + 1 \in S
  <2>1. PICK f \in [0 .. n -> V] : f[0] = v0 /\ \A k \in 1 .. n : f[k] = step[k][f[k - 1]]
    BY <1>2
  <2> DEFINE g == [k \in 0 .. n + 1 |-> IF k = n + 1 THEN step[n + 1][f[n]] ELSE f[k]]
  <2>2. step[n + 1][f[n]] \in V
    BY <2>1
  <2>3. g \in [0 .. n + 1 -> V] /\ g[0] = v0
    BY <2>1, <2>2
  <2>4. \A k \in 1 .. n + 1 : g[k] = step[k][g[k - 1]]
    BY <2>1
  <2>5. Good(n + 1)
    <3> HIDE DEF g
    <3> QED BY <2>3, <2>4, Zenon
  <2>6. n + 1 \in Nat
    OBVIOUS
  <2> HIDE DEF Good
  <2> QED BY <2>5, <2>6, SMTT(30)
<1>3. 0 .. N \subseteq S
  <2> HIDE DEF S
  <2> QED BY <1>1, <1>2, BoundedInduction, Zenon
<1> QED BY <1>3 DEF Iterate

-------------------------------------------------------------------------------

(* What pre_compact computes: the same hooks, none of them twice. *)
LEMMA Compacted ==
    ASSUME WellOrdered,
           pre \in Seq(Hooks \cup {None_}), Once(pre)
    PROVE  /\ Dispatch!pre_compact \in Seq(Hooks)
           /\ Once(Dispatch!pre_compact)
           /\ {Dispatch!pre_compact[k] : k \in DOMAIN Dispatch!pre_compact} = Dispatch!Registered
<1> DEFINE N == Len(pre)
           V == Seq(Hooks)
           e == <<>>
           Next_(k, v) == IF pre[k] = None_ THEN v ELSE Append(v, pre[k])
           Body(g) == [k \in 0 .. N |-> IF k = 0 THEN e ELSE Next_(k, g[k - 1])]
           step == [k \in 1 .. N |-> [v \in V |-> Next_(k, v)]]
           moved == CHOOSE g : g = Body(g)
<1>1. N \in Nat /\ DOMAIN pre = 1 .. N /\ \A k \in 1 .. N : pre[k] \in Hooks \cup {None_}
  OBVIOUS
<1>2. e \in V /\ \A k \in 1 .. N, v \in V : Next_(k, v) \in V
  BY <1>1
<1>3. Dispatch!pre_compact = moved[N]
  BY DEF Dispatch!pre_compact, None_
<1> HIDE DEF N, V, e, Next_
<1>4. step \in [1 .. N -> [V -> V]]
  BY <1>2, SMTT(30)
<1>5. \A k \in 1 .. N, v \in V : step[k][v] = Next_(k, v)
  OBVIOUS
<1> HIDE DEF step
<1>6. PICK f : Iterate(f, V, e, N, step)
  BY <1>1, <1>2, <1>4, Iterates, Zenon
<1>7. f = Body(f)
  <2>1. \A k \in 1 .. N : f[k] = Next_(k, f[k - 1])
    BY <1>1, <1>5, <1>6, SMTT(30) DEF Iterate
  <2> QED BY <1>1, <1>6, <2>1, SMTT(30) DEF Iterate
<1>8. moved = Body(moved)
  <2> HIDE DEF Body
  <2> QED BY <1>7, SMTT(30)
<1> HIDE DEF moved
<1>9. moved[0] = e /\ \A k \in 1 .. N : moved[k] = Next_(k, moved[k - 1])
  BY <1>1, <1>8, SMTT(30)
<1> USE DEF V, e
<1> DEFINE Good(k) == /\ moved[k] \in Seq(Hooks)
                      /\ Once(moved[k])
                      /\ \A m \in DOMAIN moved[k] : \E j \in 1 .. k : moved[k][m] = pre[j]
                      /\ \A j \in 1 .. k : pre[j] # None_ =>
                            \E m \in DOMAIN moved[k] : moved[k][m] = pre[j]
           S == {k \in 0 .. N : Good(k)}
<1>10. 0 \in S
  <2>1. moved[0] = <<>> /\ moved[0] \in Seq(Hooks) /\ DOMAIN moved[0] = {} /\ 1 .. 0 = {}
    BY <1>9, SMTT(30)
  <2>2. Good(0)
    BY <2>1, Zenon DEF Once
  <2> QED BY <1>1, <2>2, SMTT(30)
<1>11. ASSUME NEW k \in 0 .. N - 1, k \in S PROVE k + 1 \in S
  <2>1. Good(k) /\ k + 1 \in 1 .. N /\ k + 1 \in 0 .. N /\ (k + 1) - 1 = k
    BY <1>1, <1>11
  <2>2. CASE pre[k + 1] = None_
    <3>1. moved[k + 1] = moved[k]
      BY <1>9, <2>1, <2>2, SMTT(30) DEF Next_
    <3>2. \A j \in 1 .. k + 1 : j \in 1 .. k \/ j = k + 1
      OBVIOUS
    <3>3. 1 .. k \subseteq 1 .. k + 1
      OBVIOUS
    <3>4. Good(k + 1)
      BY <2>1, <2>2, <3>1, <3>2, <3>3, ZenonT(40)
    <3> QED BY <2>1, <3>4, Zenon
  <2>3. CASE pre[k + 1] # None_
    <3>1. moved[k + 1] = Append(moved[k], pre[k + 1]) /\ pre[k + 1] \in Hooks
      BY <1>1, <1>9, <2>1, <2>3, ZenonT(40) DEF Next_
    <3>2. ASSUME NEW m \in DOMAIN moved[k] PROVE moved[k][m] # pre[k + 1]
      <4>1. PICK j \in 1 .. k : moved[k][m] = pre[j]
        BY <2>1, Zenon
      <4>2. j \in DOMAIN pre /\ k + 1 \in DOMAIN pre /\ j # k + 1
        BY <1>1, <2>1, SMTT(30)
      <4> QED BY <2>3, <4>1, <4>2, SMTT(30) DEF Once
    <3>4. /\ moved[k + 1] \in Seq(Hooks)
          /\ DOMAIN moved[k + 1] = 1 .. Len(moved[k]) + 1
          /\ DOMAIN moved[k] = 1 .. Len(moved[k])
          /\ \A m \in DOMAIN moved[k] : moved[k + 1][m] = moved[k][m]
          /\ moved[k + 1][Len(moved[k]) + 1] = pre[k + 1]
          /\ Len(moved[k]) \in Nat
      BY <2>1, <3>1, SMTT(30)
    <3>3. Once(moved[k + 1])
      <4> SUFFICES ASSUME NEW a \in DOMAIN moved[k + 1], NEW b \in DOMAIN moved[k + 1],
                          moved[k + 1][a] = moved[k + 1][b], moved[k + 1][a] # None_
                   PROVE  a = b
        BY DEF Once
      <4>1. CASE a \in DOMAIN moved[k] /\ b \in DOMAIN moved[k]
        BY <2>1, <3>4, <4>1, ZenonT(40) DEF Once
      <4>2. CASE ~(a \in DOMAIN moved[k] /\ b \in DOMAIN moved[k])
        BY <3>2, <3>4, <4>2, SMTT(30)
      <4> QED BY <4>1, <4>2, SMTT(30)
    <3>5. \A m \in DOMAIN moved[k + 1] : \E j \in 1 .. k + 1 : moved[k + 1][m] = pre[j]
      <4>1. ASSUME NEW m \in DOMAIN moved[k] PROVE \E j \in 1 .. k + 1 : moved[k + 1][m] = pre[j]
        BY <2>1, <3>4, SMTT(30)
      <4>2. \E j \in 1 .. k + 1 : moved[k + 1][Len(moved[k]) + 1] = pre[j]
        <5>1. k + 1 \in 1 .. k + 1
          BY <2>1, SMTT(30)
        <5> QED BY <3>4, <5>1, Zenon
      <4> QED BY <3>4, <4>1, <4>2, SMTT(30)
    <3>6. \A j \in 1 .. k + 1 : pre[j] # None_ =>
             \E m \in DOMAIN moved[k + 1] : moved[k + 1][m] = pre[j]
      <4>1. ASSUME NEW j \in 1 .. k, pre[j] # None_
            PROVE  \E m \in DOMAIN moved[k + 1] : moved[k + 1][m] = pre[j]
        BY <2>1, <3>4, <4>1, SMTT(30)
      <4>2. \E m \in DOMAIN moved[k + 1] : moved[k + 1][m] = pre[k + 1]
        <5>1. Len(moved[k]) + 1 \in DOMAIN moved[k + 1]
          BY <3>4, SMTT(30)
        <5> QED BY <3>4, <5>1, Zenon
      <4> QED BY <4>1, <4>2, SMTT(30)
    <3>7. Good(k + 1)
      BY <3>3, <3>4, <3>5, <3>6, Zenon
    <3> QED BY <2>1, <3>7
  <2> QED BY <2>2, <2>3, Zenon
<1>12. N \in S
  <2>1. 0 .. N \subseteq S
    <3> HIDE DEF S
    <3> QED BY <1>1, <1>10, <1>11, BoundedInduction, Zenon
  <2> QED BY <1>1, <2>1, SMTT(30)
<1>13. Good(N) /\ \A m \in DOMAIN moved[N] : moved[N][m] # None_
  BY <1>12, HooksAssumption, SMTT(30) DEF None_
<1>14. {moved[N][k] : k \in DOMAIN moved[N]} = Dispatch!Registered
  <2>1. ASSUME NEW k \in DOMAIN moved[N] PROVE moved[N][k] \in Dispatch!Registered
    BY <1>1, <1>13, Zenon DEF Dispatch!Registered, None_
  <2>2. ASSUME NEW k \in DOMAIN pre, pre[k] # None_
        PROVE  pre[k] \in {moved[N][m] : m \in DOMAIN moved[N]}
    BY <1>1, <1>13, <2>2, SMTT(30)
  <2> QED BY <2>1, <2>2, Zenon DEF Dispatch!Registered, None_
<1> QED BY <1>3, <1>13, <1>14, SMTT(30)

(* The first gap of the array, when there is one. *)
LEMMA FirstGap ==
    ASSUME WellOrdered,
           pre \in Seq(Hooks \cup {None_}), NEW free \in SUBSET DOMAIN pre, free # {}
    PROVE  (CHOOSE k \in free : \A j \in free : k <= j) \in free
<1>1. free \in SUBSET Nat
  BY SMTT(30)
<1>2. \E k \in free : \A j \in free : k <= j
  BY <1>1, Zenon DEF WellOrdered
<1> QED BY <1>2, SMTT(30)

(* Hooks come and go in the middle of a step: an owed hook keeps its slot. *)
LEMMA DHooks ==
    ASSUME WellOrdered,
           DInv, NEW h \in Hooks, Dispatch!net_loop_pre_add(h) \/ Dispatch!net_loop_pre_del(h)
    PROVE  DInv'
<1>0. h # None_ /\ \A g \in owed : g # None_
  BY HooksAssumption, SMTT(30) DEF DInv, None_
<1>1. CASE Dispatch!net_loop_pre_add(h)
  <2>0. UNCHANGED <<pc, i, ran, owed>>
    BY <1>1, ZenonT(40) DEF Dispatch!net_loop_pre_add
  <2>1. CASE h \in Dispatch!Registered
    BY <1>1, <2>0, <2>1, SMTT(30) DEF Dispatch!net_loop_pre_add, DInv, Once, RanOnce
  <2>2. CASE h \notin Dispatch!Registered
    <3>1. \A k \in DOMAIN pre : pre[k] # h
      BY <1>0, <2>2, Zenon DEF Dispatch!Registered, None_
    <3>2. /\ pre' \in Seq(Hooks \cup {None_})
          /\ \A k \in DOMAIN pre : k \in DOMAIN pre' /\ (pre[k] # None_ => pre'[k] = pre[k])
          /\ Once(pre')
      <4> DEFINE free == {k \in DOMAIN pre : pre[k] = Dispatch!None}
                 g == CHOOSE k \in free : \A j \in free : k <= j
      <4>1. CASE free # {}
        <5>1. g \in DOMAIN pre /\ pre[g] = None_
          <6>1. free \in SUBSET DOMAIN pre
            BY Zenon
          <6> HIDE DEF free
          <6>2. g \in free
            BY <4>1, <6>1, FirstGap, Zenon DEF DInv
          <6> QED BY <6>2, SMTT(30) DEF free, None_
        <5>2. pre' = [pre EXCEPT ![g] = h]
          BY <1>1, <2>2, <4>1, Zenon DEF Dispatch!net_loop_pre_add
        <5> HIDE DEF g
        <5> QED BY <3>1, <5>1, <5>2, SMTT(30) DEF DInv, Once
      <4>2. CASE free = {}
        <5>1. pre' = Append(pre, h)
          BY <1>1, <2>2, <4>2, ZenonT(40) DEF Dispatch!net_loop_pre_add
        <5> QED BY <3>1, <5>1, SMTT(30) DEF DInv, Once
      <4> QED BY <4>1, <4>2, Zenon
    <3> QED BY <1>0, <2>0, <3>2, SMTT(30) DEF DInv, RanOnce
  <2> QED BY <2>1, <2>2, SMTT(30)
<1>2. CASE Dispatch!net_loop_pre_del(h)
  <2>1. /\ UNCHANGED <<pc, i, ran>> /\ owed' = owed \ {h}
        /\ pre' = [k \in DOMAIN pre |-> IF pre[k] = h THEN None_ ELSE pre[k]]
    BY <1>2, ZenonT(40) DEF Dispatch!net_loop_pre_del, None_
  <2>2. /\ pre' \in Seq(Hooks \cup {None_}) /\ DOMAIN pre' = DOMAIN pre
        /\ \A k \in DOMAIN pre : pre'[k] = IF pre[k] = h THEN None_ ELSE pre[k]
    BY <2>1, SMTT(30) DEF DInv
  <2> QED BY <1>0, <2>1, <2>2, SMTT(30) DEF DInv, Once, RanOnce
<1> QED BY <1>1, <1>2, Zenon

(* Every step of the loop, and every hook added or dropped, keeps DInv. *)
LEMMA DStep ==
    ASSUME WellOrdered
    PROVE  DInv /\ [Dispatch!Next]_(Dispatch!vars) => DInv'
<1> SUFFICES ASSUME DInv, [Dispatch!Next]_(Dispatch!vars) PROVE DInv'
  OBVIOUS
<1>1. ASSUME NEW h \in Hooks, Dispatch!net_loop_pre_add(h) \/ Dispatch!net_loop_pre_del(h)
      PROVE  DInv'
  BY <1>1, DHooks, SMTT(30)
<1>2. CASE Dispatch!step_hook
  BY <1>2, DRuns, Zenon
<1>3. CASE Dispatch!step_poll
  <2>1. /\ pc = "hooks" /\ pc' = "fds" /\ i' = 1 /\ UNCHANGED <<ran, owed>>
        /\ pre' \in {Dispatch!pre_compact, pre} /\ i > Len(pre)
    BY <1>3, Zenon DEF Dispatch!step_poll
  <2>2. pre' \in Seq(Hooks \cup {None_}) /\ Once(pre')
    <3>1. Dispatch!pre_compact \in Seq(Hooks) /\ Once(Dispatch!pre_compact)
      BY Compacted, SMTT(30) DEF DInv
    <3>2. Dispatch!pre_compact \in Seq(Hooks \cup {None_})
      BY <3>1, SMTT(30)
    <3> QED BY <2>1, <3>1, <3>2, Zenon DEF DInv
  <2>3. \A h \in owed : RanOnce(h)
    BY <2>1, SMTT(30) DEF DInv
  <2> QED BY <2>1, <2>2, <2>3, Zenon DEF DInv, RanOnce
<1>4. CASE Dispatch!run_step
  <2>1. /\ pc' = "hooks" /\ i' = 1 /\ ran' = <<>> /\ pre' = pre
        /\ owed' = Dispatch!Registered
    BY <1>4, ZenonT(40) DEF Dispatch!run_step
  <2>2. ASSUME NEW h \in owed' PROVE h \in Hooks /\ \E k \in DOMAIN pre : pre[k] = h
    BY <2>1, <2>2, SMTT(30) DEF Dispatch!Registered, DInv, None_
  <2>3. ran' \in Seq(Hooks) /\ DOMAIN ran' = {}
    BY <2>1, SMTT(30)
  <2>4. ASSUME NEW h \in owed'
        PROVE  \E k \in DOMAIN pre' :
                  /\ pre'[k] = h
                  /\ IF k < i' THEN RanOnce(h)' ELSE \A m \in DOMAIN ran' : ran'[m] # h
    <3>1. PICK k \in DOMAIN pre : pre[k] = h
      BY <2>2, Zenon
    <3>2. ~(k < 1)
      BY SMTT(30) DEF DInv
    <3> QED BY <2>1, <2>3, <3>1, <3>2, SMTT(30)
  <2> QED BY <2>1, <2>2, <2>3, <2>4, SMTT(30) DEF DInv, Once
<1>5. CASE \/ Dispatch!step_event \/ Dispatch!step_return \/ Dispatch!run_return
           \/ Dispatch!net_loop_stop
           \/ \E fd \in Fds : Dispatch!net_loop_add(fd) \/ Dispatch!net_loop_del(fd)
  <2> DEFINE Kept ==
        /\ UNCHANGED <<pre, ran, owed>>
        /\ \/ UNCHANGED <<pc, i>>
           \/ pc = "fds" /\ pc' \in {"out", "fds"} /\ i' \in Nat
  <2>0. i \in Nat
    BY Zenon DEF DInv
  <2>1. Dispatch!step_event => Kept
    BY <2>0, SMTT(30) DEF Dispatch!step_event, Dispatch!user
  <2>2. Dispatch!step_return \/ Dispatch!run_return \/ Dispatch!net_loop_stop => Kept
    BY SMTT(30) DEF Dispatch!step_return, Dispatch!run_return, Dispatch!net_loop_stop, Dispatch!user
  <2>3. (\E fd \in Fds : Dispatch!net_loop_add(fd) \/ Dispatch!net_loop_del(fd)) => Kept
    BY SMTT(30) DEF Dispatch!net_loop_add, Dispatch!net_loop_del, Dispatch!user
  <2>4. Kept
    BY <1>5, <2>1, <2>2, <2>3, Zenon
  <2>5. UNCHANGED <<pre, ran, owed>>
    BY <2>4, Zenon
  <2>6. CASE UNCHANGED <<pc, i>>
    BY <2>5, <2>6, ZenonT(40) DEF DInv, Once, RanOnce
  <2>7. CASE pc = "fds" /\ pc' \in {"out", "fds"} /\ i' \in Nat
    BY <2>5, <2>7, SMTT(30) DEF DInv, Once, RanOnce
  <2> QED BY <2>4, <2>6, <2>7, Zenon
<1>6. CASE UNCHANGED Dispatch!vars
  BY <1>6, ZenonT(40) DEF Dispatch!vars, DInv, Once, RanOnce
<1> QED BY <1>1, <1>2, <1>3, <1>4, <1>5, <1>6, SMTT(30) DEF Dispatch!Next

(* The instance has a Cardinality of its own, which is the usual one. *)
LEMMA Counting == \A S : Dispatch!Cardinality(S) = Cardinality(S)
BY DEF Dispatch!Cardinality, Cardinality, Dispatch!IsFiniteSet, IsFiniteSet

-------------------------------------------------------------------------------
INSTANCE FiniteSetTheorems

(* The naturals are well ordered. *)
LEMMA NatWellOrdered == WellOrdered
<1> SUFFICES ASSUME NEW S \in SUBSET Nat, S # {} PROVE \E x \in S : \A y \in S : x <= y
  BY DEF WellOrdered
<1> DEFINE Lt == {ss \in Nat \X Nat : ss[1] < ss[2]}
<1>1. IsWellFoundedOn(Lt, Nat)
  BY NatLessThanWellFounded, Zenon DEF OpToRel
<1>2. PICK x \in S : \A y \in S : ~(<<y, x>> \in Lt)
  BY <1>1, WFMin, Zenon
<1>3. ASSUME NEW y \in S, y < x PROVE FALSE
  <2>1. <<y, x>> \in Nat \X Nat
    OBVIOUS
  <2>2. <<y, x>> \in Lt
    BY <1>3, <2>1, Zenon
  <2> QED BY <1>2, <2>2, Zenon
<1> QED BY <1>3

(* Whatever hooks there are and whatever they add and drop meanwhile, each *)
(* hook registered when a step began, and not dropped since, has run once  *)
(* when net_loop_step comes to its events.                                 *)
THEOREM HooksRunOnce == Dispatch!Spec => []LoopEachHookOnce
<1>1. DInv => LoopEachHookOnce
  <2> SUFFICES ASSUME DInv, pc = "fds", NEW h \in owed
               PROVE  Cardinality({k \in DOMAIN ran : ran[k] = h}) = 1
    BY Counting, ZenonT(40) DEF LoopEachHookOnce, Dispatch!EachHookOnce
  <2>1. PICK m \in DOMAIN ran : ran[m] = h /\ \A n \in DOMAIN ran : ran[n] = h => n = m
    BY DEF DInv, RanOnce
  <2>2. {k \in DOMAIN ran : ran[k] = h} = {m}
    BY <2>1
  <2> QED BY <2>2, FS_Singleton, Zenon
<1>2. DInv /\ [Dispatch!Next]_(Dispatch!vars) => DInv'
  BY NatWellOrdered, DStep
<1> QED BY DInit, <1>1, <1>2, PTL DEF Dispatch!Spec
===============================================================================
