------------------------------- MODULE GtpuProof -------------------------------
(***************************************************************************)
(* Proofs about the user plane (Gtpu): the forwarding tables agree with    *)
(* one another between the calls that write them, the packet filter tables *)
(* are searched from the most specific key on, and a later fragment takes  *)
(* the tunnel its first fragment took.                                     *)
(***************************************************************************)
EXTENDS Gtpu, TLAPS

-------------------------------------------------------------------------------
(* The forwarding tables of gtpu_ebpf.c. *)

(* The TEID a call is at work on, and whether its decap entry is one the   *)
(* call made itself and may still take back.                               *)
AtWork == IF op.call = "tft_add" THEN op.f.tun.local ELSE op.t.local
OwnEntry == op.call \in {"add", "rollback"} \/ (op.call = "tft_add" /\ ~op.had)

(* What holds while a call is under way: of an add, what its first write   *)
(* left, and that the bearer had nothing before; of an update, that the    *)
(* entries it rewrites are known to be touched.                            *)
CallOk ==
    /\ op.call \in {"none", "add", "update", "rollback", "teid_del", "tft_add", "tft_del"}
    /\ op.call = "none" <=> op = NoCall
    /\ OwnEntry /\ Untouched(AtWork) => Users(AtWork) = {}
    /\ op.call = "add" => AtWork \in DOMAIN rx /\ rx[AtWork] = tun_to_rx(op.t)
    /\ op.call = "update" =>
          /\ ~Untouched(op.t.local)
          /\ tun_lpm(op.t) \in DOMAIN lpm => ~Untouched(lpm[tun_lpm(op.t)].local)
    /\ op.call \in {"teid_del", "tft_del"} => ~Untouched(op.t.local)
    /\ op.call = "tft_add" =>
          /\ op.f \in Filters /\ AtWork \in DOMAIN rx
          /\ rx[AtWork].fam \in {0, op.f.tun.fam} /\ rx[AtWork].check = 0
          /\ op.had /\ Untouched(AtWork) => Users(AtWork) # {}

(* The three clauses of TablesAgree, at every step. *)
EntriesUsed ==
    \A teid \in DOMAIN rx : Untouched(teid) /\ ~(OwnEntry /\ teid = AtWork) => Users(teid) # {}
FiltersReturn ==
    \A k \in DOMAIN tft : Untouched(tft[k].local) => gtpu_decap(tft[k].local, k.fam, k.ue) = "deliver"
TunnelsReturn ==
    \A k \in DOMAIN lpm : Untouched(lpm[k].local) => gtpu_decap(lpm[k].local, k.fam, k.ue) = "deliver"

(* The invariant of the tables. *)
UInv ==
    /\ \A k \in DOMAIN tft : \E f \in Filters : k = tft_key_build(f)
    /\ \A key \in DOMAIN heads : key \in DOMAIN frag /\ frag[key] = heads[key]
    /\ CallOk /\ EntriesUsed /\ FiltersReturn /\ TunnelsReturn

(* The invariant of the tables holds when the maps are empty. *)
LEMMA UInit == UpInit => UInv
BY DEF UpInit, UInv, CallOk, EntriesUsed, FiltersReturn, TunnelsReturn, NoCall, OwnEntry

(* A bearer that has a filter or a tunnel and was not touched has a decap  *)
(* entry.                                                                  *)
LEMMA UsedIsKnown ==
    ASSUME UInv, NEW teid, Untouched(teid), Users(teid) # {}
    PROVE  teid \in DOMAIN rx
BY DEF UInv, FiltersReturn, TunnelsReturn, Users, gtpu_decap

(* Nothing is taken from the history. *)
LEMMA TouchKeeps ==
    ASSUME NEW S, Touch(S), NEW teid, Untouched(teid)'
    PROVE  Untouched(teid) /\ \A how \in {"update", "teid_del", "tft_del", "crash"} : <<teid, how>> \notin S
BY DEF Touch, Untouched

(* A packet on a bearer whose decap entry stays is taken as before. *)
LEMMA DecapKept ==
    ASSUME NEW teid, teid \in DOMAIN rx' <=> teid \in DOMAIN rx,
           teid \in DOMAIN rx => rx'[teid] = rx[teid], NEW fam, NEW dst
    PROVE  gtpu_decap(teid, fam, dst)' = gtpu_decap(teid, fam, dst)
BY DEF gtpu_decap

(* gtpu_teid_add makes an entry for a TEID that has none. *)
LEMMA UAdd ==
    ASSUME UInv, NEW t \in Tunnels, gtpu_teid_add(t) PROVE UInv'
<1>1. /\ op' = [call |-> "add", t |-> t] /\ t.local \notin DOMAIN rx
      /\ rx' = MapUpdate(rx, t.local, tun_to_rx(t))
      /\ UNCHANGED <<lpm, tft, frag, heads, touched>> /\ op = NoCall
  BY DEF gtpu_teid_add, Call, traffic
<1>2. /\ DOMAIN rx' = DOMAIN rx \cup {t.local} /\ rx'[t.local] = tun_to_rx(t)
      /\ \A y \in DOMAIN rx : rx'[y] = rx[y]
  BY <1>1 DEF MapUpdate
<1>3. \A teid : (Untouched(teid)' <=> Untouched(teid)) /\ Users(teid)' = Users(teid)
  BY <1>1 DEF Untouched, Users
<1>4. Untouched(t.local) => Users(t.local) = {}
  BY <1>1, UsedIsKnown
<1>5. op'.call = "add" /\ op'.t = t /\ OwnEntry' /\ AtWork' = t.local /\ ~OwnEntry
  BY <1>1 DEF OwnEntry, AtWork, NoCall
<1>6. CallOk'
  BY <1>1, <1>2, <1>3, <1>4, <1>5 DEF CallOk, NoCall
<1>7. EntriesUsed'
  BY <1>2, <1>3, <1>5 DEF UInv, EntriesUsed
<1>8. ASSUME NEW teid, NEW fam, NEW dst, gtpu_decap(teid, fam, dst) = "deliver"
      PROVE  gtpu_decap(teid, fam, dst)' = "deliver"
  <2>1. teid \in DOMAIN rx
    BY <1>8 DEF gtpu_decap
  <2> QED BY <1>2, <1>8, <2>1, DecapKept
<1>9. FiltersReturn' /\ TunnelsReturn'
  BY <1>1, <1>3, <1>8 DEF UInv, FiltersReturn, TunnelsReturn
<1> QED BY <1>1, <1>6, <1>7, <1>9 DEF UInv

(* A call that ends, or that writes or removes the decap entry of a bearer *)
(* it touches, leaves the others as they were.                             *)
LEMMA UTouched ==
    ASSUME UInv, NEW x, UNCHANGED <<lpm, tft, frag, heads>>, NEW S, Touch(S), ~Untouched(x)',
           \A y \in (DOMAIN rx \cup DOMAIN rx') \ {x} :
              y \in DOMAIN rx /\ y \in DOMAIN rx' /\ rx'[y] = rx[y],
           OwnEntry => AtWork = x, CallOk'
    PROVE  UInv'
<1>1. \A teid : Users(teid)' = Users(teid)
  BY DEF Users
<1>2. \A teid : Untouched(teid)' => Untouched(teid) /\ teid # x
  BY TouchKeeps, Zenon
<1>3. ASSUME NEW teid, Untouched(teid)', NEW fam, NEW dst
      PROVE  gtpu_decap(teid, fam, dst)' = gtpu_decap(teid, fam, dst)
  BY <1>2, <1>3, DecapKept
<1>4. EntriesUsed'
  <2> SUFFICES ASSUME NEW teid \in DOMAIN rx', Untouched(teid)' PROVE Users(teid)' # {}
    BY DEF EntriesUsed
  <2>1. Untouched(teid) /\ teid # x /\ teid \in DOMAIN rx
    BY <1>2
  <2> QED BY <1>1, <2>1 DEF UInv, EntriesUsed
<1>5. FiltersReturn' /\ TunnelsReturn'
  BY <1>2, <1>3 DEF UInv, FiltersReturn, TunnelsReturn
<1> QED BY <1>4, <1>5 DEF UInv

(* gtpu_teid_update rewrites the entry of a bearer it touches. *)
LEMMA UUpdate ==
    ASSUME UInv, NEW t \in Tunnels, gtpu_teid_update(t) PROVE UInv'
<1> DEFINE S == {<<t.local, "update">>}
                \cup {<<lpm[k].local, "update">> : k \in {tun_lpm(t)} \cap DOMAIN lpm}
<1>1. /\ op' = [call |-> "update", t |-> t] /\ op = NoCall
      /\ rx' = MapUpdate(rx, t.local, tun_to_rx(t)) /\ t.local \in DOMAIN rx
      /\ UNCHANGED <<lpm, tft, frag, heads>> /\ Touch(S)
  BY DEF gtpu_teid_update, Call, traffic
<1>2. \A y \in (DOMAIN rx \cup DOMAIN rx') \ {t.local} :
         y \in DOMAIN rx /\ y \in DOMAIN rx' /\ rx'[y] = rx[y]
  BY <1>1 DEF MapUpdate
<1>3. /\ ~Untouched(t.local)'
      /\ tun_lpm(t) \in DOMAIN lpm => ~Untouched(lpm[tun_lpm(t)].local)'
  BY <1>1 DEF Touch, Untouched
<1>4. ~OwnEntry /\ ~OwnEntry' /\ op'.call = "update" /\ op'.t = t
  BY <1>1 DEF OwnEntry, NoCall
<1>5. CallOk'
  <2>1. op' # NoCall
    BY <1>4 DEF NoCall
  <2> QED BY <1>1, <1>3, <1>4, <2>1 DEF CallOk
<1> HIDE DEF S
<1> QED BY <1>1, <1>2, <1>3, <1>4, <1>5, UTouched

(* teid_write's second map write: the tunnel is there, the add is to be    *)
(* taken back, or the update stops half way.                               *)
LEMMA UWriteLpm ==
    ASSUME UInv, teid_write_lpm PROVE UInv'
<1> DEFINE K == tun_lpm(op.t)
<1>1. op.call \in {"add", "update"} /\ UNCHANGED <<rx, tft, frag, heads, touched>>
  BY DEF teid_write_lpm, traffic
<1>2. \A teid : Untouched(teid)' <=> Untouched(teid)
  BY <1>1 DEF Untouched
<1>3. \A teid, fam, dst : gtpu_decap(teid, fam, dst)' = gtpu_decap(teid, fam, dst)
  BY <1>1 DEF gtpu_decap
<1>4. FiltersReturn'
  BY <1>1, <1>2, <1>3 DEF UInv, FiltersReturn
<1>5. CASE lpm' = MapUpdate(lpm, K, op.t) /\ op' = NoCall /\ (K \in DOMAIN lpm <=> op.call = "update")
  <2>1. /\ DOMAIN lpm' = DOMAIN lpm \cup {K} /\ lpm'[K] = op.t
        /\ \A k \in DOMAIN lpm : k # K => lpm'[k] = lpm[k]
    BY <1>5 DEF MapUpdate
  <2>2. ~OwnEntry' /\ CallOk'
    BY <1>5 DEF OwnEntry, CallOk, NoCall
  <2>3. ASSUME NEW teid, Untouched(teid), op.call = "update"
        PROVE  teid # op.t.local /\ (K \in DOMAIN lpm => lpm[K].local # teid)
    BY <2>3 DEF UInv, CallOk
  <2>4. ASSUME NEW teid, Untouched(teid), NEW k \in Users(teid) PROVE k \in Users(teid)'
    <3>1. CASE k \in DOMAIN tft /\ tft[k].local = teid
      BY <1>1, <3>1 DEF Users
    <3>2. CASE k \in DOMAIN lpm /\ lpm[k].local = teid
      <4>1. k # K
        BY <1>1, <1>5, <2>3, <2>4, <3>2
      <4> QED BY <2>1, <3>2, <4>1 DEF Users
    <3> QED BY <2>4, <3>1, <3>2 DEF Users
  <2>5. EntriesUsed'
    <3> SUFFICES ASSUME NEW teid \in DOMAIN rx, Untouched(teid) PROVE Users(teid)' # {}
      BY <1>1, <1>2 DEF EntriesUsed
    <3>1. CASE teid = op.t.local
      BY <2>1, <3>1 DEF Users
    <3>2. CASE teid # op.t.local
      <4>1. Users(teid) # {}
        BY <1>1, <3>2 DEF UInv, EntriesUsed, AtWork
      <4> QED BY <2>4, <4>1
    <3> QED BY <3>1, <3>2
  <2>6. TunnelsReturn'
    <3> SUFFICES ASSUME NEW k \in DOMAIN lpm', Untouched(lpm'[k].local)
                 PROVE  gtpu_decap(lpm'[k].local, k.fam, k.ue)  = "deliver"
      BY <1>1, <1>2, <1>3 DEF TunnelsReturn, Untouched, gtpu_decap
    <3>1. CASE k # K
      BY <2>1, <3>1 DEF UInv, TunnelsReturn
    <3>2. CASE k = K
      <4>1. op.call = "add" /\ Untouched(op.t.local)
        BY <1>1, <2>1, <2>3, <3>2
      <4>2. op.t.local \in DOMAIN rx /\ rx[op.t.local] = tun_to_rx(op.t)
        BY <4>1 DEF UInv, CallOk, AtWork
      <4>3. k.fam = op.t.fam /\ k.ue = op.t.ue /\ lpm'[k] = op.t
        BY <2>1, <3>2 DEF tun_lpm
      <4> QED BY <4>2, <4>3 DEF gtpu_decap, tun_to_rx
    <3> QED BY <3>1, <3>2
  <2> QED BY <1>1, <1>4, <2>2, <2>5, <2>6 DEF UInv
<1>6. CASE lpm' = lpm /\ op' = IF op.call = "add" THEN [call |-> "rollback", t |-> op.t] ELSE NoCall
  <2>1. \A teid : Users(teid)' = Users(teid)
    BY <1>1, <1>6 DEF Users
  <2>2. /\ OwnEntry' <=> OwnEntry
        /\ OwnEntry => AtWork' = AtWork
    BY <1>1, <1>6 DEF OwnEntry, AtWork, NoCall
  <2>3. op' = NoCall \/ (op'.call = "rollback" /\ op.call = "add")
    BY <1>1, <1>6
  <2>4. CallOk'
    BY <1>2, <2>1, <2>2, <2>3 DEF UInv, CallOk, NoCall
  <2>5. EntriesUsed'
    BY <1>1, <1>2, <2>1, <2>2 DEF UInv, EntriesUsed
  <2>6. TunnelsReturn'
    BY <1>2, <1>3, <1>6 DEF UInv, TunnelsReturn
  <2> QED BY <1>1, <1>4, <2>4, <2>5, <2>6 DEF UInv
<1> QED BY <1>5, <1>6 DEF teid_write_lpm

(* What is taken back was this call's own, and nobody uses it. *)
LEMMA URollback ==
    ASSUME UInv, rollback PROVE UInv'
<1>1. /\ op.call = "rollback" /\ op' = NoCall /\ rx' = MapDelete(rx, op.t.local)
      /\ UNCHANGED <<lpm, tft, frag, heads, touched>>
  BY DEF rollback, traffic
<1>2. /\ DOMAIN rx' = DOMAIN rx \ {op.t.local}
      /\ \A y \in DOMAIN rx' : rx'[y] = rx[y]
  BY <1>1 DEF MapDelete
<1>3. \A teid : (Untouched(teid)' <=> Untouched(teid)) /\ Users(teid)' = Users(teid)
  BY <1>1 DEF Untouched, Users
<1>4. Untouched(op.t.local) => Users(op.t.local) = {}
  BY <1>1 DEF UInv, CallOk, OwnEntry, AtWork
<1>5. ~OwnEntry' /\ CallOk'
  BY <1>1 DEF OwnEntry, CallOk, NoCall
<1>6. EntriesUsed'
  BY <1>1, <1>2, <1>3 DEF UInv, EntriesUsed, AtWork
<1>7. ASSUME NEW teid, teid # op.t.local, NEW fam, NEW dst
      PROVE  gtpu_decap(teid, fam, dst)' = gtpu_decap(teid, fam, dst)
  BY <1>2, <1>7, DecapKept
<1>8. FiltersReturn'
  <2> SUFFICES ASSUME NEW k \in DOMAIN tft, Untouched(tft[k].local)
               PROVE  gtpu_decap(tft[k].local, k.fam, k.ue)' = "deliver"
    BY <1>1, <1>3 DEF FiltersReturn
  <2>1. tft[k].local # op.t.local
    BY <1>4 DEF Users
  <2> QED BY <1>1, <1>7, <2>1 DEF UInv, FiltersReturn
<1>9. TunnelsReturn'
  BY <1>1, <1>3, <1>4, <1>7 DEF UInv, TunnelsReturn, Users
<1> QED BY <1>1, <1>5, <1>6, <1>8, <1>9 DEF UInv

(* gtpu_teid_del, and the decap entry that goes with a filter. *)
LEMMA UDel ==
    ASSUME UInv, (\E t \in Tunnels : gtpu_teid_del(t)) \/ tft_del_rx PROVE UInv'
<1>1. ASSUME NEW t \in Tunnels, gtpu_teid_del(t) PROVE UInv'
  <2> DEFINE S == {<<t.local, "teid_del">>}
  <2>1. /\ op' = [call |-> "teid_del", t |-> t] /\ op = NoCall /\ rx' = MapDelete(rx, t.local)
        /\ UNCHANGED <<lpm, tft, frag, heads>> /\ Touch(S)
    BY <1>1 DEF gtpu_teid_del, Call, traffic
  <2>2. \A y \in (DOMAIN rx \cup DOMAIN rx') \ {t.local} :
           y \in DOMAIN rx /\ y \in DOMAIN rx' /\ rx'[y] = rx[y]
    BY <2>1 DEF MapDelete
  <2>3. ~Untouched(t.local)'
    BY <2>1 DEF Touch, Untouched
  <2>4. ~OwnEntry /\ ~OwnEntry' /\ op'.call = "teid_del" /\ op'.t = t
    BY <2>1 DEF OwnEntry, NoCall
  <2>5. CallOk'
    BY <2>3, <2>4 DEF CallOk, NoCall
  <2> HIDE DEF S
  <2> QED BY <2>1, <2>2, <2>3, <2>4, <2>5, UTouched
<1>2. CASE tft_del_rx
  <2>1. /\ op.call = "tft_del" /\ op' = NoCall /\ rx' = MapDelete(rx, op.t.local)
        /\ UNCHANGED <<lpm, tft, frag, heads>> /\ touched' = touched
    BY <1>2 DEF tft_del_rx, traffic
  <2>2. \A y \in (DOMAIN rx \cup DOMAIN rx') \ {op.t.local} :
           y \in DOMAIN rx /\ y \in DOMAIN rx' /\ rx'[y] = rx[y]
    BY <2>1 DEF MapDelete
  <2>3. Touch({})
    BY <2>1 DEF Touch
  <2>4. \E x : x = op.t.local
    OBVIOUS
  <2>5. PICK x : x = op.t.local
    BY <2>4
  <2>6. ~Untouched(x)'
    BY <2>1, <2>5 DEF UInv, CallOk, Untouched
  <2>7. ~OwnEntry /\ CallOk'
    BY <2>1 DEF OwnEntry, CallOk, NoCall
  <2> QED BY <2>1, <2>2, <2>3, <2>5, <2>6, <2>7, UTouched
<1> QED BY <1>1, <1>2

(* The tunnel goes, whose bearer is touched by it. *)
LEMMA UDelLpm ==
    ASSUME UInv, teid_del_lpm PROVE UInv'
<1> DEFINE K == tun_lpm(op.t)
           S == {<<lpm[k].local, "teid_del">> : k \in {K} \cap DOMAIN lpm}
<1>1. /\ op.call = "teid_del" /\ op' = NoCall /\ lpm' = MapDelete(lpm, K) /\ Touch(S)
      /\ UNCHANGED <<rx, tft, frag, heads>>
  BY DEF teid_del_lpm, traffic
<1>2. DOMAIN lpm' = DOMAIN lpm \ {K} /\ \A k \in DOMAIN lpm' : lpm'[k] = lpm[k]
  BY <1>1 DEF MapDelete
<1>3. \A teid : Untouched(teid)' => Untouched(teid) /\ (K \in DOMAIN lpm => lpm[K].local # teid)
  <2>1. K \in DOMAIN lpm => <<lpm[K].local, "teid_del">> \in S
    OBVIOUS
  <2> HIDE DEF K, S
  <2> QED BY <1>1, <2>1, TouchKeeps, ZenonT(40)
<1>4. ~OwnEntry /\ ~OwnEntry' /\ CallOk'
  BY <1>1 DEF OwnEntry, CallOk, NoCall
<1>5. EntriesUsed'
  <2> SUFFICES ASSUME NEW teid \in DOMAIN rx, Untouched(teid)' PROVE Users(teid)' # {}
    BY <1>1 DEF EntriesUsed
  <2>1. PICK k \in Users(teid) : TRUE
    BY <1>3, <1>4 DEF UInv, EntriesUsed
  <2>2. k \in Users(teid)'
    BY <1>1, <1>2, <1>3, <2>1 DEF Users
  <2> QED BY <2>2
<1>6. \A teid, fam, dst : gtpu_decap(teid, fam, dst)' = gtpu_decap(teid, fam, dst)
  BY <1>1, Zenon DEF gtpu_decap
<1>7. FiltersReturn' /\ TunnelsReturn'
  BY <1>1, <1>2, <1>3, <1>6 DEF UInv, FiltersReturn, TunnelsReturn
<1> QED BY <1>1, <1>4, <1>5, <1>7 DEF UInv

(* A filter shares its bearer's decap entry: what came back still does. *)
LEMMA UTftAdd ==
    ASSUME UInv, NEW f \in Filters, gtpu_tft_add(f) PROVE UInv'
<1> DEFINE teid0 == f.tun.local
           e == [fam |-> SharedFamily(f), check |-> 0]
<1>1. /\ op' = [call |-> "tft_add", f |-> f, had |-> teid0 \in DOMAIN rx] /\ op = NoCall
      /\ rx' = MapUpdate(rx, teid0, e) /\ UNCHANGED <<lpm, tft, frag, heads, touched>>
  BY DEF gtpu_tft_add, Call, traffic
<1>2. /\ DOMAIN rx' = DOMAIN rx \cup {teid0} /\ rx'[teid0] = e
      /\ \A y \in DOMAIN rx : y # teid0 => rx'[y] = rx[y]
  BY <1>1 DEF MapUpdate
<1>3. \A teid : (Untouched(teid)' <=> Untouched(teid)) /\ Users(teid)' = Users(teid)
  BY <1>1 DEF Untouched, Users
<1>4. /\ op'.call = "tft_add" /\ op'.f = f /\ (op'.had <=> teid0 \in DOMAIN rx)
      /\ AtWork' = teid0 /\ (OwnEntry' <=> teid0 \notin DOMAIN rx) /\ ~OwnEntry
  BY <1>1, Zenon DEF OwnEntry, AtWork, NoCall
<1>5. e.fam \in {0, f.tun.fam} /\ e.check = 0
  BY DEF SharedFamily
<1>6. Untouched(teid0) => (teid0 \in DOMAIN rx <=> Users(teid0) # {})
  BY <1>4, UsedIsKnown, Zenon DEF UInv, EntriesUsed
<1>7. CallOk'
  <2>1. op' # NoCall
    BY <1>4 DEF NoCall
  <2>2. rx'[teid0].fam \in {0, f.tun.fam} /\ rx'[teid0].check = 0
    BY <1>2, <1>5
  <2> HIDE DEF e
  <2> QED BY <1>2, <1>3, <1>4, <1>6, <2>1, <2>2 DEF CallOk
<1>8. EntriesUsed'
  BY <1>2, <1>3, <1>4 DEF UInv, EntriesUsed
<1>9. ASSUME NEW teid, NEW fam, NEW dst, gtpu_decap(teid, fam, dst) = "deliver"
      PROVE  gtpu_decap(teid, fam, dst)' = "deliver"
  <2>1. teid \in DOMAIN rx /\ rx[teid].fam \in {0, fam}
    BY <1>9 DEF gtpu_decap
  <2>2. CASE teid # teid0
    BY <1>2, <1>9, <2>1, <2>2, DecapKept
  <2>3. CASE teid = teid0
    <3>1. e.fam = 0 \/ e.fam = rx[teid].fam
      BY <2>1, <2>3, Zenon DEF SharedFamily
    <3> QED BY <1>2, <2>1, <2>3, <3>1 DEF gtpu_decap
  <2> QED BY <2>2, <2>3
<1>10. FiltersReturn' /\ TunnelsReturn'
  BY <1>1, <1>3, <1>9 DEF UInv, FiltersReturn, TunnelsReturn
<1> QED BY <1>1, <1>7, <1>8, <1>10 DEF UInv

(* The filter is there, or a decap entry made for it is to be taken back. *)
LEMMA UTftKey ==
    ASSUME UInv, tft_add_key PROVE UInv'
<1> DEFINE K == tft_key_build(op.f)
<1>1. op.call = "tft_add" /\ UNCHANGED <<rx, lpm, frag, heads, touched>>
  BY DEF tft_add_key, traffic
<1>2. \A teid : Untouched(teid)' <=> Untouched(teid)
  BY <1>1 DEF Untouched
<1>3. \A teid, fam, dst : gtpu_decap(teid, fam, dst)' = gtpu_decap(teid, fam, dst)
  BY <1>1 DEF gtpu_decap
<1>4. TunnelsReturn'
  BY <1>1, <1>2, <1>3, Zenon DEF UInv, TunnelsReturn
<1>5. CASE K \notin DOMAIN tft /\ tft' = MapUpdate(tft, K, op.f.tun) /\ op' = NoCall
  <2>1. /\ DOMAIN tft' = DOMAIN tft \cup {K} /\ tft'[K] = op.f.tun
        /\ \A k \in DOMAIN tft : tft'[k] = tft[k]
    BY <1>5 DEF MapUpdate
  <2>2. ~OwnEntry' /\ CallOk'
    BY <1>5 DEF OwnEntry, CallOk, NoCall
  <2>3. ASSUME NEW teid PROVE Users(teid) \subseteq Users(teid)'
    BY <1>1, <2>1 DEF Users
  <2>5. EntriesUsed'
    <3> SUFFICES ASSUME NEW teid \in DOMAIN rx, Untouched(teid) PROVE Users(teid)' # {}
      BY <1>1, <1>2 DEF EntriesUsed
    <3>1. CASE teid = op.f.tun.local
      BY <2>1, <3>1 DEF Users
    <3>2. CASE teid # op.f.tun.local
      <4>1. Users(teid) # {}
        BY <1>1, <3>2 DEF UInv, EntriesUsed, AtWork
      <4> QED BY <2>3, <4>1
    <3> QED BY <3>1, <3>2
  <2>6. FiltersReturn'
    <3> SUFFICES ASSUME NEW k \in DOMAIN tft', Untouched(tft'[k].local)
                 PROVE  gtpu_decap(tft'[k].local, k.fam, k.ue) = "deliver"
      BY <1>1, <1>2, <1>3 DEF FiltersReturn, Untouched, gtpu_decap
    <3>1. CASE k \in DOMAIN tft
      BY <2>1, <3>1 DEF UInv, FiltersReturn
    <3>2. CASE k \notin DOMAIN tft
      <4>1. k = K /\ tft'[k] = op.f.tun
        BY <2>1, <3>2, Zenon
      <4>2. /\ op.f.tun.local \in DOMAIN rx /\ rx[op.f.tun.local].check = 0
            /\ rx[op.f.tun.local].fam \in {0, op.f.tun.fam}
        BY <1>1, Zenon DEF UInv, CallOk, AtWork
      <4>3. k.fam = op.f.tun.fam
        BY <4>1, Zenon DEF tft_key_build
      <4> QED BY <4>1, <4>2, <4>3 DEF gtpu_decap
    <3> QED BY <3>1, <3>2
  <2>7. \A k \in DOMAIN tft' : \E f \in Filters : k = tft_key_build(f)
    BY <1>1, <2>1 DEF UInv, CallOk
  <2> QED BY <1>1, <1>4, <2>2, <2>5, <2>6, <2>7 DEF UInv
<1>6. CASE tft' = tft /\ op' = IF op.had THEN NoCall ELSE [call |-> "rollback", t |-> op.f.tun]
  <2>1. \A teid : Users(teid)' = Users(teid)
    BY <1>1, <1>6 DEF Users
  <2>2. (OwnEntry' <=> OwnEntry) /\ (OwnEntry => AtWork' = AtWork)
    BY <1>1, <1>6 DEF OwnEntry, AtWork, NoCall
  <2>3. op' = NoCall \/ op'.call = "rollback"
    BY <1>1, <1>6, Zenon
  <2>4. CallOk'
    BY <1>2, <2>1, <2>2, <2>3 DEF UInv, CallOk, NoCall
  <2>5. EntriesUsed'
    BY <1>1, <1>2, <2>1, <2>2 DEF UInv, EntriesUsed
  <2>6. FiltersReturn'
    BY <1>2, <1>3, <1>6 DEF UInv, FiltersReturn
  <2> QED BY <1>1, <1>4, <1>6, <2>4, <2>5, <2>6 DEF UInv
<1> QED BY <1>5, <1>6 DEF tft_add_key

(* gtpu_tft_del removes the filter of a bearer it touches. *)
LEMMA UTftDel ==
    ASSUME UInv, NEW f \in Filters, gtpu_tft_del(f) PROVE UInv'
<1> DEFINE K == tft_key_build(f)
           S == {<<f.tun.local, "tft_del">>}
                \cup {<<tft[k].local, "tft_del">> : k \in {K} \cap DOMAIN tft}
<1>1. /\ op' = [call |-> "tft_del", t |-> f.tun] /\ op = NoCall /\ tft' = MapDelete(tft, K)
      /\ Touch(S) /\ UNCHANGED <<rx, lpm, frag, heads>>
  BY DEF gtpu_tft_del, Call, traffic
<1>2. DOMAIN tft' = DOMAIN tft \ {K} /\ \A k \in DOMAIN tft' : tft'[k] = tft[k]
  BY <1>1 DEF MapDelete
<1>3. \A teid : Untouched(teid)' => Untouched(teid) /\ (K \in DOMAIN tft => tft[K].local # teid)
  <2>1. K \in DOMAIN tft => <<tft[K].local, "tft_del">> \in S
    OBVIOUS
  <2> HIDE DEF K, S
  <2> QED BY <1>1, <2>1, TouchKeeps, ZenonT(40)
<1>4. ~Untouched(f.tun.local)'
  BY <1>1 DEF Touch, Untouched
<1>5. ~OwnEntry /\ ~OwnEntry' /\ op'.call = "tft_del" /\ op'.t = f.tun
  BY <1>1 DEF OwnEntry, NoCall
<1>6. CallOk'
  BY <1>4, <1>5 DEF CallOk, NoCall
<1>7. EntriesUsed'
  <2> SUFFICES ASSUME NEW teid \in DOMAIN rx, Untouched(teid)' PROVE Users(teid)' # {}
    BY <1>1, Zenon DEF EntriesUsed
  <2>1. PICK k \in Users(teid) : TRUE
    BY <1>3, <1>5, Zenon DEF UInv, EntriesUsed
  <2>2. k \in Users(teid)'
    BY <1>1, <1>2, <1>3, <2>1 DEF Users
  <2> QED BY <2>2
<1>8. \A teid, fam, dst : gtpu_decap(teid, fam, dst)' = gtpu_decap(teid, fam, dst)
  BY <1>1, Zenon DEF gtpu_decap
<1>9. FiltersReturn' /\ TunnelsReturn'
  BY <1>1, <1>2, <1>3, <1>8 DEF UInv, FiltersReturn, TunnelsReturn
<1>10. \A k \in DOMAIN tft' : \E g \in Filters : k = tft_key_build(g)
  BY <1>2 DEF UInv
<1> QED BY <1>1, <1>6, <1>7, <1>9, <1>10 DEF UInv

(* The loader's death, which touches the bearer it was at work on. *)
LEMMA UCrash ==
    ASSUME UInv, crash PROVE UInv'
<1>1. /\ op' = NoCall /\ UNCHANGED <<rx, lpm, tft, frag, heads>>
      /\ Touch({<<AtWork, "crash">>})
  BY DEF crash, tables, traffic, AtWork
<1>2. PICK x : x = AtWork
  OBVIOUS
<1>3. ~Untouched(x)'
  BY <1>1, <1>2 DEF Touch, Untouched
<1>4. CallOk'
  BY <1>1, Zenon DEF CallOk, OwnEntry, NoCall
<1> QED BY <1>1, <1>2, <1>3, <1>4, UTouched

(* While the loader does nothing its tables stay as they are. *)
LEMMA USame ==
    ASSUME UInv, UNCHANGED <<rx, lpm, tft, op, touched>>
    PROVE  CallOk' /\ EntriesUsed' /\ FiltersReturn' /\ TunnelsReturn'
<1>1. \A teid : (Untouched(teid)' <=> Untouched(teid)) /\ Users(teid)' = Users(teid)
  BY DEF Untouched, Users
<1>2. \A teid, fam, dst : gtpu_decap(teid, fam, dst)' = gtpu_decap(teid, fam, dst)
  BY DEF gtpu_decap
<1>3. (OwnEntry' <=> OwnEntry) /\ AtWork' = AtWork
  BY Zenon DEF OwnEntry, AtWork
<1>4. CallOk'
  BY <1>1, <1>3, Zenon DEF UInv, CallOk
<1> QED BY <1>1, <1>2, <1>3, <1>4 DEF UInv, EntriesUsed, FiltersReturn, TunnelsReturn

(* Packets only change what is remembered of heads. *)
LEMMA UTraffic ==
    ASSUME UInv, \/ \E p \in Packets, id \in Ids : encap_head(p, id)
                 \/ \E key \in DOMAIN frag : evict(key)
    PROVE  UInv'
<1>1. UNCHANGED <<rx, lpm, tft, op, touched>>
  BY Zenon DEF encap_head, evict, tables
<1>2. CallOk' /\ EntriesUsed' /\ FiltersReturn' /\ TunnelsReturn'
  BY <1>1, USame, Zenon
<1>3. \A key \in DOMAIN heads' : key \in DOMAIN frag' /\ frag'[key] = heads'[key]
  <2>1. ASSUME NEW p \in Packets, NEW id \in Ids, encap_head(p, id)
        PROVE  \A key \in DOMAIN heads' : key \in DOMAIN frag' /\ frag'[key] = heads'[key]
    BY <2>1 DEF encap_head, UInv, MapUpdate, MapDelete
  <2>2. ASSUME NEW key \in DOMAIN frag, evict(key)
        PROVE  \A key2 \in DOMAIN heads' : key2 \in DOMAIN frag' /\ frag'[key2] = heads'[key2]
    BY <2>2 DEF evict, UInv, MapDelete
  <2> QED BY <2>1, <2>2, Zenon
<1> QED BY <1>1, <1>2, <1>3 DEF UInv

(* Every map write, the loader's death and every packet keep the tables'   *)
(* invariant.                                                              *)
LEMMA UStep == UInv /\ [UpNext]_upVars => UInv'
<1> SUFFICES ASSUME UInv, [UpNext]_upVars PROVE UInv'
  BY Zenon
<1>1. CASE UNCHANGED upVars
  <2>1. UNCHANGED <<rx, lpm, tft, frag, op, heads, touched>>
    BY <1>1 DEF upVars
  <2> QED BY <2>1, USame DEF UInv
<1>2. CASE UpNext
  BY <1>2, UAdd, UUpdate, UDel, UWriteLpm, URollback, UDelLpm, UTftAdd, UTftKey, UTftDel, UCrash, UTraffic
     DEF UpNext
<1> QED BY <1>1, <1>2

(* Whatever the loader writes, removes or leaves half done when it dies,   *)
(* every tail that gtpu_encap finds a head remembered for goes where the   *)
(* head went.                                                              *)
THEOREM TailsFollowHeads == UpSpec => []UpTailFollowsHead
<1>1. UInv => UpTailFollowsHead
  BY Zenon DEF UInv, UpTailFollowsHead, encap_tail
<1> QED BY UInit, UStep, <1>1, PTL DEF UpSpec

(* The keys of a packet by position, and how close a key is. *)
KeyOf(p, s, u, r) == [fam |-> p.fam, ue |-> p.dst, src |-> s, up |-> u, rp |-> r]
Fits(p, k) ==
    /\ k.fam = p.fam /\ k.ue = p.dst /\ k.src \in {0, p.src}
    /\ k.up \in {0, p.up} /\ k.rp \in {0, p.rp}
Rank(k) ==
    (IF k.src # 0 THEN 4 ELSE 0) + (IF k.up # 0 THEN 2 ELSE 0) + (IF k.rp # 0 THEN 1 ELSE 0)

(* The eight lookups of tx_classify are the keys that fit the packet. *)
LEMMA ProbeFits ==
    ASSUME NEW p
    PROVE  /\ \A i \in 1 .. 8 : Fits(p, ProbeKeys(p)[i])
           /\ \A s \in {0, p.src}, u \in {0, p.up}, r \in {0, p.rp} :
                 \E i \in 1 .. 8 : ProbeKeys(p)[i] = KeyOf(p, s, u, r)
BY SMTT(30) DEF ProbeKeys, Fits, KeyOf

(* The key at a position. *)
LEMMA ProbeAt ==
    ASSUME NEW p
    PROVE  /\ ProbeKeys(p)[1] = KeyOf(p, p.src, p.up, p.rp)
           /\ ProbeKeys(p)[2] = KeyOf(p, p.src, p.up, 0)
           /\ ProbeKeys(p)[3] = KeyOf(p, p.src, 0, p.rp)
           /\ ProbeKeys(p)[4] = KeyOf(p, p.src, 0, 0)
           /\ ProbeKeys(p)[5] = KeyOf(p, 0, p.up, p.rp)
           /\ ProbeKeys(p)[6] = KeyOf(p, 0, p.up, 0)
           /\ ProbeKeys(p)[7] = KeyOf(p, 0, 0, p.rp)
           /\ ProbeKeys(p)[8] = KeyOf(p, 0, 0, 0)
BY DEF ProbeKeys, KeyOf

(* The fields of a key. *)
LEMMA KeyFields ==
    ASSUME NEW p, NEW s, NEW u, NEW r
    PROVE  /\ KeyOf(p, s, u, r).fam = p.fam /\ KeyOf(p, s, u, r).ue = p.dst
           /\ KeyOf(p, s, u, r).src = s /\ KeyOf(p, s, u, r).up = u /\ KeyOf(p, s, u, r).rp = r
BY DEF KeyOf

(* A key that comes up later than another is not closer, unless it came up *)
(* before as well.                                                         *)
LEMMA EarlierIsCloser ==
    ASSUME NEW p, NEW i \in 1 .. 8, NEW s \in {0, p.src}, NEW u \in {0, p.up}, NEW r \in {0, p.rp},
           \A j \in 1 .. 8 : j < i => ProbeKeys(p)[j] # KeyOf(p, s, u, r)
    PROVE  Rank(KeyOf(p, s, u, r)) <= Rank(ProbeKeys(p)[i])
<1>1. Rank(KeyOf(p, s, u, r)) =
        (IF s # 0 THEN 4 ELSE 0) + (IF u # 0 THEN 2 ELSE 0) + (IF r # 0 THEN 1 ELSE 0)
  BY KeyFields DEF Rank
<1>2. ASSUME NEW a, NEW b, NEW c
      PROVE  Rank(KeyOf(p, a, b, c)) =
        (IF a # 0 THEN 4 ELSE 0) + (IF b # 0 THEN 2 ELSE 0) + (IF c # 0 THEN 1 ELSE 0)
  BY KeyFields DEF Rank
<1> HIDE DEF Rank, KeyOf
<1>3. CASE i = 1
  BY <1>1, <1>2, <1>3, ProbeAt
<1>4. CASE i = 2
  BY <1>1, <1>2, <1>4, ProbeAt
<1>5. CASE i = 3
  BY <1>1, <1>2, <1>5, ProbeAt
<1>6. CASE i = 4
  BY <1>1, <1>2, <1>6, ProbeAt
<1>7. CASE i = 5
  BY <1>1, <1>2, <1>7, ProbeAt
<1>8. CASE i = 6
  BY <1>1, <1>2, <1>8, ProbeAt
<1>9. CASE i = 7
  BY <1>1, <1>2, <1>9, ProbeAt
<1>10. CASE i = 8
  BY <1>1, <1>2, <1>10, ProbeAt
<1> QED BY <1>3, <1>4, <1>5, <1>6, <1>7, <1>8, <1>9, <1>10

(* The first of the eight probes that hits. *)
LEMMA EightLeast ==
    ASSUME NEW S \in SUBSET (1 .. 8), S # {}
    PROVE  \E i \in S : \A j \in S : i <= j
<1>1. CASE 1 \in S
  BY <1>1
<1>2. CASE 1 \notin S /\ 2 \in S
  BY <1>2
<1>3. CASE 1 \notin S /\ 2 \notin S /\ 3 \in S
  BY <1>3
<1>4. CASE 1 \notin S /\ 2 \notin S /\ 3 \notin S /\ 4 \in S
  BY <1>4
<1>5. CASE 1 \notin S /\ 2 \notin S /\ 3 \notin S /\ 4 \notin S /\ 5 \in S
  BY <1>5
<1>6. CASE 1 \notin S /\ 2 \notin S /\ 3 \notin S /\ 4 \notin S /\ 5 \notin S
  <2>1. \A j \in S : j \in {6, 7, 8}
    BY <1>6
  <2>2. CASE 6 \in S
    <3>1. \A j \in S : 6 <= j
      BY <2>1
    <3> QED BY <2>2, <3>1, Zenon
  <2>3. CASE 6 \notin S /\ 7 \in S
    <3>1. \A j \in S : 7 <= j
      BY <2>1, <2>3
    <3> QED BY <2>3, <3>1, Zenon
  <2>4. CASE 6 \notin S /\ 7 \notin S
    <3>1. \A j \in S : j = 8
      BY <2>1, <2>4, Zenon
    <3>2. 8 <= 8
      OBVIOUS
    <3> QED BY <3>1, <3>2, Zenon
  <2> QED BY <2>2, <2>3, <2>4, Zenon
<1> QED BY <1>1, <1>2, <1>3, <1>4, <1>5, <1>6, Zenon

(* With any filters installed tx_classify takes the closest that fits. *)
LEMMA ClosestTaken ==
    ASSUME UInv, NEW p \in Packets, NEW o \in DOMAIN tft, Fits(p, o)
    PROVE  \E k \in DOMAIN tft :
              /\ Fits(p, k) /\ tx_classify(p) = tft[k]
              /\ \A x \in DOMAIN tft : Fits(p, x) => Rank(x) <= Rank(k)
<1> DEFINE hits == {i \in 1 .. 8 : ProbeKeys(p)[i] \in DOMAIN tft}
<1>1. ASSUME NEW x \in DOMAIN tft, Fits(p, x)
      PROVE  /\ x = KeyOf(p, x.src, x.up, x.rp)
             /\ x.src \in {0, p.src} /\ x.up \in {0, p.up} /\ x.rp \in {0, p.rp}
  <2>1. PICK f \in Filters : x = tft_key_build(f)
    BY DEF UInv
  <2>2. x = [fam |-> x.fam, ue |-> x.ue, src |-> x.src, up |-> x.up, rp |-> x.rp]
    BY <2>1 DEF tft_key_build
  <2> QED BY <1>1, <2>2 DEF Fits, KeyOf
<1>2. hits # {} /\ hits \in SUBSET (1 .. 8)
  BY <1>1, ProbeFits
<1>3. \E i \in hits : \A j \in hits : i <= j
  <2> HIDE DEF hits
  <2> QED BY <1>2, EightLeast, Zenon
<1>4. FirstOf(hits) \in hits /\ \A j \in hits : FirstOf(hits) <= j
  <2> HIDE DEF hits
  <2> QED BY <1>3, Zenon DEF FirstOf
<1> DEFINE i == FirstOf(hits)
           k == ProbeKeys(p)[i]
<1>5. tx_classify(p) = tft[k]
  BY <1>2, Zenon DEF tx_classify
<1>6. i \in 1 .. 8 /\ k \in DOMAIN tft /\ \A j \in 1 .. 8 : j < i => ProbeKeys(p)[j] \notin DOMAIN tft
  BY <1>4
<1> HIDE DEF i, hits
<1>7. Fits(p, k)
  BY <1>6, ProbeFits
<1>8. ASSUME NEW x \in DOMAIN tft, Fits(p, x) PROVE Rank(x) <= Rank(k)
  <2>1. \A j \in 1 .. 8 : j < i => ProbeKeys(p)[j] # KeyOf(p, x.src, x.up, x.rp)
    BY <1>1, <1>6, <1>8, SMTT(30)
  <2>2. Rank(KeyOf(p, x.src, x.up, x.rp)) <= Rank(k)
    BY <1>1, <1>6, <1>8, <2>1, EarlierIsCloser
  <2> QED BY <1>1, <1>8, <2>2
<1> HIDE DEF k
<1> QED BY <1>5, <1>6, <1>7, <1>8, ZenonT(40)

(* For any tunnels, filters and map sizes, after any calls, failures and   *)
(* deaths of the loader: no add that fails leaves a decap entry behind,    *)
(* what goes out on an untouched bearer can come back on it, and           *)
(* tx_classify takes the closest filter that fits a packet.                *)
THEOREM TablesAreRight == UpSpec => []UpTablesRight
<1>1. UInv => TablesAgree
  BY DEF UInv, TablesAgree, EntriesUsed, FiltersReturn, TunnelsReturn, OwnEntry, NoCall
<1>2. UInv => MostSpecific
  <2>1. ASSUME UInv, NEW p \in Packets, {k \in DOMAIN tft : Fits(p, k)} # {}
        PROVE  \E k \in {x \in DOMAIN tft : Fits(p, x)} :
                  /\ tx_classify(p) = tft[k]
                  /\ \A o \in {x \in DOMAIN tft : Fits(p, x)} : Rank(o) <= Rank(k)
    BY <2>1, ClosestTaken
  <2> QED BY <2>1 DEF MostSpecific, Fits, Rank
<1> QED BY UInit, UStep, <1>1, <1>2, PTL DEF UpSpec, UpTablesRight

====
