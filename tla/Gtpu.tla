---------------------------------- MODULE Gtpu ----------------------------------
(***************************************************************************)
(* The GTP-U forwarding tables: the loader's calls (gtp/u/src/gtpu_ebpf.c) *)
(* write two maps each under a mutex that the datapath                     *)
(* (gtp/u/bpf/gtpu_kern.c) does not take, so every map write is a step of  *)
(* its own and a packet may fall between two.  The maps are pinned and     *)
(* survive the loader, which may die between two writes as well.           *)
(*                                                                         *)
(* A tunnel is its local TEID, inner family and address, the side it is on *)
(* and its peer; a filter adds a source and two ports, 0 meaning any.      *)
(***************************************************************************)
EXTENDS Naturals, FiniteSets

CONSTANTS
    Tunnels,    \* [local, fam, ue, core, peer] the callers use
    Filters,    \* [tun, src, up, rp]
    Packets,    \* inner packets: [fam, dst, src, up, rp]
    Ids,        \* IP identifications of fragmented datagrams
    MaxRx,      \* entries teid_rx_map holds (GTPU_MAX_BEARERS)
    MaxTft,     \* entries teid_tft_map holds (GTPU_MAX_TFT)
    MaxUpCalls  \* bound: calls of the loader

VARIABLES
    rx,         \* teid_rx_map: local TEID -> [fam, check]; fam 0 takes either
    lpm,        \* teid_tx4_map and teid_tx6_map: inner prefix -> tunnel
    tft,        \* teid_tft_map: filter key -> tunnel
    frag,       \* tx_frag_map: datagram -> tunnel
    op,         \* the call that holds the mutex: its next step, or NoCall
    heads,      \* history: datagrams whose head went out on a tunnel -> that tunnel
    touched,    \* history: <<TEID, how>> of bearers rewritten or removed
    ncalls      \* history: calls so far

upVars == <<rx, lpm, tft, frag, op, heads, touched, ncalls>>
tables == <<rx, lpm, tft>>
traffic == <<frag, heads>>

NoCall == [call |-> "none"]
NoTun == [local |-> 0]

UpInit ==
    /\ rx = <<>> /\ lpm = <<>> /\ tft = <<>> /\ frag = <<>>
    /\ op = NoCall /\ touched = {} /\ ncalls = 0
    /\ heads = <<>>

MapDelete(f, x) == [y \in DOMAIN f \ {x} |-> f[y]]
MapUpdate(f, x, v) == [y \in DOMAIN f \cup {x} |-> IF y = x THEN v ELSE f[y]]

(* An anchor-side bearer has no inner destination to check. *)
tun_to_rx(t) == [fam |-> t.fam, check |-> IF t.core THEN 0 ELSE t.ue]
tun_lpm(t) == [fam |-> t.fam, ue |-> t.ue]
tft_key_build(f) == [fam |-> f.tun.fam, ue |-> f.tun.ue, src |-> f.src, up |-> f.up, rp |-> f.rp]
-------------------------------------------------------------------------------
Touch(S) == touched' = touched \cup S
HasRoom(f, x, max) == x \in DOMAIN f \/ Cardinality(DOMAIN f) < max

(* pthread_mutex_lock, and the first map write of a call. *)
Call(next) == op = NoCall /\ ncalls < MaxUpCalls /\ ncalls' = ncalls + 1 /\ op' = next

(* BPF_NOEXIST: the call fails here when the TEID is taken. *)
gtpu_teid_add(t) ==
    /\ Call([call |-> "add", t |-> t])
    /\ t.local \notin DOMAIN rx /\ HasRoom(rx, t.local, MaxRx)
    /\ rx' = MapUpdate(rx, t.local, tun_to_rx(t))
    /\ UNCHANGED <<lpm, tft, traffic, touched>>

(* BPF_EXIST: nothing is brought back that a delete removed. *)
gtpu_teid_update(t) ==
    /\ Call([call |-> "update", t |-> t])
    /\ t.local \in DOMAIN rx
    /\ rx' = MapUpdate(rx, t.local, tun_to_rx(t))
    /\ Touch({<<t.local, "update">>}
             \cup {<<lpm[k].local, "update">> : k \in {tun_lpm(t)} \cap DOMAIN lpm})
    /\ UNCHANGED <<lpm, tft, traffic>>

(* The LPM entry; when it is refused an add takes back the first write, an *)
(* update does not.  Each family has a trie of its own.                    *)
teid_write_lpm ==
    /\ op.call \in {"add", "update"}
    /\ IF /\ (tun_lpm(op.t) \in DOMAIN lpm) = (op.call = "update")
          /\ op.call = "add" => Cardinality({k \in DOMAIN lpm : k.fam = op.t.fam}) < MaxRx
       THEN lpm' = MapUpdate(lpm, tun_lpm(op.t), op.t) /\ op' = NoCall
       ELSE /\ UNCHANGED lpm
            /\ op' = IF op.call = "add" THEN [call |-> "rollback", t |-> op.t] ELSE NoCall
    /\ UNCHANGED <<rx, tft, traffic, touched, ncalls>>

rollback ==
    /\ op.call = "rollback" /\ op' = NoCall
    /\ rx' = MapDelete(rx, op.t.local)
    /\ UNCHANGED <<lpm, tft, traffic, touched, ncalls>>

gtpu_teid_del(t) ==
    /\ Call([call |-> "teid_del", t |-> t])
    /\ rx' = MapDelete(rx, t.local)
    /\ Touch({<<t.local, "teid_del">>})
    /\ UNCHANGED <<lpm, tft, traffic>>

teid_del_lpm ==
    /\ op.call = "teid_del" /\ op' = NoCall
    /\ lpm' = MapDelete(lpm, tun_lpm(op.t))
    /\ Touch({<<lpm[k].local, "teid_del">> : k \in {tun_lpm(op.t)} \cap DOMAIN lpm})
    /\ UNCHANGED <<rx, tft, traffic, ncalls>>

(* Mutant: the decap keeps the family of the last filter added. *)
SharedFamily_last(f) == f.tun.fam

(* Filters of both families on one bearer: the decap takes either. *)
SharedFamily(f) ==
    IF f.tun.local \in DOMAIN rx /\ rx[f.tun.local].fam # f.tun.fam THEN 0 ELSE f.tun.fam

(* The decap entry is shared by the filters of a bearer: created or      *)
(* refreshed, without a check of the inner destination.                  *)
gtpu_tft_add(f) ==
    LET had == f.tun.local \in DOMAIN rx IN
    /\ Call([call |-> "tft_add", f |-> f, had |-> had])
    /\ HasRoom(rx, f.tun.local, MaxRx)
    /\ rx' = MapUpdate(rx, f.tun.local, [fam |-> SharedFamily(f), check |-> 0])
    /\ UNCHANGED <<lpm, tft, traffic, touched>>

(* BPF_NOEXIST; rolled back only when this call made the decap entry. *)
tft_add_key ==
    /\ op.call = "tft_add"
    /\ IF tft_key_build(op.f) \notin DOMAIN tft /\ Cardinality(DOMAIN tft) < MaxTft
       THEN tft' = MapUpdate(tft, tft_key_build(op.f), op.f.tun) /\ op' = NoCall
       ELSE /\ UNCHANGED tft
            /\ op' = IF op.had THEN NoCall ELSE [call |-> "rollback", t |-> op.f.tun]
    /\ UNCHANGED <<rx, lpm, traffic, touched, ncalls>>

(* The filter goes and the decap entry with it, whoever else uses it. *)
gtpu_tft_del(f) ==
    /\ Call([call |-> "tft_del", t |-> f.tun])
    /\ tft' = MapDelete(tft, tft_key_build(f))
    /\ Touch({<<f.tun.local, "tft_del">>}
             \cup {<<tft[k].local, "tft_del">> : k \in {tft_key_build(f)} \cap DOMAIN tft})
    /\ UNCHANGED <<rx, lpm, traffic>>

tft_del_rx ==
    /\ op.call = "tft_del" /\ op' = NoCall
    /\ rx' = MapDelete(rx, op.t.local)
    /\ UNCHANGED <<lpm, tft, traffic, touched, ncalls>>

(* The loader dies with the mutex; the maps are pinned and stay. *)
crash ==
    /\ op # NoCall /\ op' = NoCall
    /\ Touch({<<IF op.call = "tft_add" THEN op.f.tun.local ELSE op.t.local, "crash">>})
    /\ UNCHANGED <<tables, traffic, ncalls>>
-------------------------------------------------------------------------------
(* The keys a packet is looked up under: source-specific ones first, and *)
(* the ports from both given to both wild.                               *)
ProbeKeys(p) ==
    LET k(src, up, rp) == [fam |-> p.fam, ue |-> p.dst, src |-> src, up |-> up, rp |-> rp]
    IN  <<k(p.src, p.up, p.rp), k(p.src, p.up, 0), k(p.src, 0, p.rp), k(p.src, 0, 0),
          k(0, p.up, p.rp), k(0, p.up, 0), k(0, 0, p.rp), k(0, 0, 0)>>

(* The keys are tried in turn and the first that is there decides. *)
FirstOf(hits) == CHOOSE i \in hits : \A j \in hits : i <= j

(* Mutant: the source-wildcard keys are tried only with both ports wild. *)
tx_classify_ports(p) ==
    LET hits == {i \in 1 .. 8 : i \notin {5, 6, 7} /\ ProbeKeys(p)[i] \in DOMAIN tft}
        dst  == [fam |-> p.fam, ue |-> p.dst]
    IN  IF hits # {} THEN tft[ProbeKeys(p)[FirstOf(hits)]]
        ELSE IF dst \in DOMAIN lpm THEN lpm[dst] ELSE NoTun

(* Dedicated bearers by filter, then the default bearer by destination. *)
tx_classify(p) ==
    LET hits == {i \in 1 .. 8 : ProbeKeys(p)[i] \in DOMAIN tft}
        dst  == [fam |-> p.fam, ue |-> p.dst]
    IN  IF hits # {} THEN tft[ProbeKeys(p)[FirstOf(hits)]]
        ELSE IF dst \in DOMAIN lpm THEN lpm[dst] ELSE NoTun

(* What the fragments of a datagram have in common. *)
gtpu_frag_key(p, id) == [fam |-> p.fam, src |-> p.src, dst |-> p.dst, id |-> id]

(* A first fragment: what it matched is remembered, a miss is not. *)
encap_head(p, id) ==
    LET tun == tx_classify(p)
        key == gtpu_frag_key(p, id)
    IN  /\ heads' = IF tun = NoTun THEN MapDelete(heads, key) ELSE MapUpdate(heads, key, tun)
        /\ frag' = IF tun = NoTun THEN frag ELSE MapUpdate(frag, key, tun)
        /\ UNCHANGED <<tables, op, touched, ncalls>>

(* Mutant: a later fragment is classified by what it carries. *)
encap_tail_portless(p, key) == tx_classify([p EXCEPT !.up = 0, !.rp = 0])

(* Where a later fragment goes.  It has no ports and follows the head it  *)
(* finds remembered.                                                      *)
encap_tail(p, key) ==
    IF key \in DOMAIN frag THEN frag[key] ELSE tx_classify([p EXCEPT !.up = 0, !.rp = 0])

(* The LRU map makes room.  A tail may now go where its head did not. *)
evict(key) ==
    /\ key \in DOMAIN frag /\ frag' = MapDelete(frag, key)
    /\ heads' = MapDelete(heads, key)
    /\ UNCHANGED <<tables, op, touched, ncalls>>

(* What gtpu_decap does with a G-PDU: the inner family and destination are *)
(* checked against the decap entry.                                        *)
gtpu_decap(teid, fam, dst) ==
    IF teid \notin DOMAIN rx THEN "unknown"
    ELSE IF rx[teid].fam \in {0, fam} /\ rx[teid].check \in {0, dst} THEN "deliver"
    ELSE "malformed"

UpNext ==
    \/ \E t \in Tunnels : gtpu_teid_add(t) \/ gtpu_teid_update(t) \/ gtpu_teid_del(t)
    \/ \E f \in Filters : gtpu_tft_add(f) \/ gtpu_tft_del(f)
    \/ teid_write_lpm \/ rollback \/ teid_del_lpm \/ tft_add_key \/ tft_del_rx \/ crash
    \/ \E p \in Packets, id \in Ids : encap_head(p, id)
    \/ \E key \in DOMAIN frag : evict(key)

UpSpec == UpInit /\ [][UpNext]_upVars
-------------------------------------------------------------------------------
Users(teid) ==
    {k \in DOMAIN lpm : lpm[k].local = teid} \cup {k \in DOMAIN tft : tft[k].local = teid}

Untouched(teid) == \A how \in {"update", "teid_del", "tft_del", "crash"} : <<teid, how>> \notin touched

(* Between calls, on bearers nothing was removed from: a decap entry has a *)
(* tunnel or a filter (a failed add leaves none behind), and whatever may  *)
(* go out on a bearer of a filter's family can come back on it.            *)
TablesAgree ==
    op = NoCall =>
        /\ \A teid \in DOMAIN rx : Untouched(teid) => Users(teid) # {}
        /\ \A k \in DOMAIN tft : Untouched(tft[k].local) =>
              gtpu_decap(tft[k].local, k.fam, k.ue) = "deliver"
        /\ \A k \in DOMAIN lpm : Untouched(lpm[k].local) =>
              gtpu_decap(lpm[k].local, k.fam, k.ue) = "deliver"

(* A packet takes a filter that fits it, and no installed filter that fits *)
(* is closer: a given source before any, then the UE port, then the other. *)
MostSpecific ==
    \A p \in Packets :
        LET fits == {k \in DOMAIN tft :
                        /\ k.fam = p.fam /\ k.ue = p.dst /\ k.src \in {0, p.src}
                        /\ k.up \in {0, p.up} /\ k.rp \in {0, p.rp}}
            rank(k) == (IF k.src # 0 THEN 4 ELSE 0) + (IF k.up # 0 THEN 2 ELSE 0)
                       + (IF k.rp # 0 THEN 1 ELSE 0)
        IN  fits # {} =>
              \E k \in fits : tx_classify(p) = tft[k] /\ \A o \in fits : rank(o) <= rank(k)

(* The tables are right: they agree between calls, and a packet takes the  *)
(* closest filter installed.                                               *)
UpTablesRight == TablesAgree /\ MostSpecific

(* Every fragment follows the bearer its head selected, whatever the loader *)
(* does in between.  A head that matched nothing is not remembered, and its *)
(* tails may follow an earlier datagram of the same identification.         *)
UpTailFollowsHead ==
    \A p \in Packets, id \in Ids :
        LET key == gtpu_frag_key(p, id)
        IN  key \in DOMAIN heads => encap_tail(p, key) = heads[key]

(* Removing a filter leaves the bearer to the others that share it. *)
UpSharedRxKept ==
    op = NoCall => \A k \in DOMAIN tft :
        \/ tft[k].local \in DOMAIN rx
        \/ <<tft[k].local, "teid_del">> \in touched \/ <<tft[k].local, "crash">> \in touched
===============================================================================
