--------------------------------- MODULE Ipsec ---------------------------------
(***************************************************************************)
(* IPsec as a subscriber meets it.  Below, the netlink requests of         *)
(* nlmsg/xfrm/src/xfrm.c (associations and policies) and of                *)
(* nlmsg/rtnl/src/rtnl.c (addresses and routes): what each builder refuses *)
(* and what it tells the kernel.  Above, the facade                        *)
(* (bindings/cxx/src/ipsec.cpp): Xfrm, one request and one answer of the   *)
(* kernel at a time, and Esp, the four IMS-AKA security associations of a  *)
(* subscriber with the policies that steer traffic onto them.  Subscribers *)
(* of several processes share the kernel's tables with each other and with *)
(* another user of the namespace.                                          *)
(*                                                                         *)
(* A request is [rc, type, excl, fixed, attrs]; rc is its length or an     *)
(* error.  An attribute is [t, v, n], n the octets v takes.  An address is *)
(* [fam, a], of family 0 when the literal does not parse.  Every           *)
(* subscriber uses one UE address; the keys are left out but for their     *)
(* length.                                                                 *)
(***************************************************************************)
EXTENDS Integers, Sequences, FiniteSets, TLC

CONSTANTS
    Subs,       \* subscribers, one Esp each
    Bundles,    \* Bundles[s]: what the Security- headers may settle on
    MaxRuns,    \* bound: calls of establish
    MaxRefused  \* bound: additions refused for reasons of the kernel's own

VARIABLES
    admin,      \* the process has CAP_NET_ADMIN
    sad,        \* the kernel's associations: id -> [own, reqid]
    spd,        \* the kernel's policies: <<selector, dir>> -> [own, reqid]
    refused,    \* additions refused so
    runs,       \* calls of establish so far
    esp         \* per subscriber [pc, todo, sas, pols, errs]

vars == <<admin, sad, spd, refused, runs, esp>>

E_INVAL == -2
E_OVERFLOW == -3

XFRM_BUF_MAX == 2048
RTNL_BUF_MAX == 1024
NLMSG_HDRLEN == 16
AF_INET == 2
AF_INET6 == 10
KEY_MAX == 512

Nowhere == [fam |-> 0, a |-> 0]     \* an empty or unparseable literal

Refuse(e) == [rc |-> e]

align4(n) == ((n + 3) \div 4) * 4

-----------------------------------------------------------------------------
\* The header and the fixed part; the attributes get the aligned remainder.
msg_begin(cap, type, excl, fixed, fixed_len) ==
    LET base == align4(NLMSG_HDRLEN + fixed_len)
    IN  IF base > cap THEN Refuse(E_OVERFLOW)
        ELSE [rc |-> base, type |-> type, excl |-> excl, fixed |-> fixed,
              attrs |-> <<>>, cap |-> cap - base, off |-> 0, overflow |-> FALSE]

\* tlv_put with the netlink profile: what does not fit is dropped for good.
Put(m, t, v, n) ==
    LET size == align4(4 + n)
    IN  IF m.rc < 0 \/ m.overflow THEN m
        ELSE IF m.off + size > m.cap THEN [m EXCEPT !.overflow = TRUE]
        ELSE [m EXCEPT !.off = @ + size,
                       !.attrs = Append(@, [t |-> t, v |-> v, n |-> n])]

PutIf(c, m, t, v, n) == IF c THEN Put(m, t, v, n) ELSE m

msg_end(m) ==
    IF m.rc < 0 THEN m
    ELSE IF m.overflow THEN Refuse(E_OVERFLOW)
    ELSE [rc |-> m.rc + m.off, type |-> m.type, excl |-> m.excl,
          fixed |-> m.fixed, attrs |-> m.attrs]

-----------------------------------------------------------------------------
(* xfrm.  An algorithm is [name, key], key the octets of its key; name 0   *)
(* is none.                                                                *)

put_algo(m, t, alg, len) ==
    IF alg.name = 0 THEN m
    ELSE IF m.rc >= 0 /\ alg.key > KEY_MAX THEN [m EXCEPT !.overflow = TRUE]
    ELSE Put(m, t, [alg |-> alg.name, bits |-> alg.key * 8], len + alg.key)

fill_selector(p) ==
    IF p.src.fam = 0 \/ p.dst.fam = 0 \/ p.src.fam # p.dst.fam THEN Refuse(E_INVAL)
    ELSE [rc |-> p.src.fam, saddr |-> p.src.a, daddr |-> p.dst.a, plen_s |-> p.src_prefix,
          plen_d |-> p.dst_prefix, proto |-> p.sel_proto, sport |-> p.sport,
          dport |-> p.dport]

sa_build(type, excl, sa) ==
    IF \/ sa.aead.name = 0 /\ sa.enc.name = 0 /\ sa.auth.name = 0
       \/ sa.dst.fam = 0 \/ sa.src.fam = 0 \/ sa.src.fam # sa.dst.fam
    THEN Refuse(E_INVAL)
    ELSE LET info == [id |-> [daddr |-> sa.dst, spi |-> sa.spi, proto |-> sa.proto],
                      saddr |-> sa.src, mode |-> sa.mode, reqid |-> sa.reqid]
             m0   == msg_begin(XFRM_BUF_MAX, type, excl, info, 224)
             m1   == put_algo(m0, "ALG_AEAD", sa.aead, 72)
             m2   == put_algo(m1, "ALG_CRYPT", sa.enc, 68)
             m3   == put_algo(m2, "ALG_AUTH", sa.auth, 68)
         IN  msg_end(PutIf(sa.encap # <<0, 0>>, m3, "ENCAP", sa.encap, 24))

xfrm_sa_msg(sa) == sa_build("NEWSA", TRUE, sa)

xfrm_sa_del_msg(id) ==
    IF id.dst.fam = 0 THEN Refuse(E_INVAL)
    ELSE msg_end(msg_begin(XFRM_BUF_MAX, "DELSA", FALSE,
                   [id |-> [daddr |-> id.dst, spi |-> id.spi, proto |-> id.proto]], 24))

policy_build(type, excl, pol) ==
    LET sel == fill_selector(pol)
        m   == msg_begin(XFRM_BUF_MAX, type, excl,
                         [sel |-> sel, dir |-> pol.dir, action |-> pol.action], 168)
    IN  IF sel.rc < 0 THEN sel
        ELSE msg_end(PutIf(pol.has_tmpl, m, "TMPL",
                [reqid |-> pol.tmpl_reqid, proto |-> pol.tmpl_proto,
                 mode |-> pol.tmpl_mode], 64))

xfrm_policy_msg(pol) == policy_build("NEWPOLICY", TRUE, pol)

xfrm_policy_del_msg(id) ==
    LET sel == fill_selector(id)
    IN  IF sel.rc < 0 THEN sel
        ELSE msg_end(msg_begin(XFRM_BUF_MAX, "DELPOLICY", FALSE,
                               [sel |-> sel, dir |-> id.dir], 64))

-----------------------------------------------------------------------------
(* rtnl.  Octets and bits of an address of family f.                       *)

Octets(f) == IF f = AF_INET THEN 4 ELSE 16

addr_build(type, a) ==
    IF a.ifindex = 0 \/ a.addr.fam = 0 \/ a.prefixlen > 8 * Octets(a.addr.fam)
    THEN Refuse(E_INVAL)
    ELSE LET n == Octets(a.addr.fam)
             m == msg_begin(RTNL_BUF_MAX, type, FALSE,
                            [fam |-> a.addr.fam, prefixlen |-> a.prefixlen,
                             scope |-> a.scope, ifindex |-> a.ifindex], 8)
         IN  msg_end(Put(PutIf(a.addr.fam = AF_INET, m, "LOCAL", a.addr.a, n),
                         "ADDRESS", a.addr.a, n))

Or(v, default) == IF v # 0 THEN v ELSE default

RT_TABLE_MAIN == 254
RTPROT_BOOT == 3
RTN_UNICAST == 1
RT_SCOPE_UNIVERSE == 0
RT_SCOPE_LINK == 253
RT_SCOPE_NOWHERE == 255

\* r.dst and r.gateway are sequences of at most one literal.
route_build(type, r) ==
    LET has_dst == r.dst # <<>>
        has_gw  == r.gateway # <<>>
        del     == type = "DELROUTE"
        from    == (r.dst \o r.gateway)[1]
        n       == Octets(from.fam)
        rt      == [fam |-> from.fam, dst_len |-> r.prefixlen,
                    table    |-> Or(r.table, RT_TABLE_MAIN),
                    protocol |-> Or(r.protocol, IF del THEN 0 ELSE RTPROT_BOOT),
                    type     |-> Or(r.type, IF del THEN 0 ELSE RTN_UNICAST),
                    scope    |-> Or(r.scope, IF del THEN RT_SCOPE_NOWHERE
                                             ELSE IF has_gw THEN RT_SCOPE_UNIVERSE
                                             ELSE RT_SCOPE_LINK)]
        m0      == msg_begin(RTNL_BUF_MAX, type, FALSE, rt, 12)
        m1      == PutIf(has_dst, m0, "DST", r.dst[1].a, n)
        m2      == PutIf(has_gw, m1, "GATEWAY", r.gateway[1].a, n)
        m3      == PutIf(r.ifindex # 0, m2, "OIF", r.ifindex, 4)
        m4      == PutIf(r.metric # 0, m3, "PRIORITY", r.metric, 4)
    IN  IF \/ ~has_dst /\ ~has_gw
           \/ has_dst /\ r.dst[1].fam = 0
           \/ has_gw /\ r.gateway[1].fam = 0
           \/ has_dst /\ has_gw /\ r.dst[1].fam # r.gateway[1].fam
           \/ r.prefixlen > 8 * n
           \/ ~has_dst /\ r.prefixlen # 0
        THEN Refuse(E_INVAL)
        ELSE msg_end(PutIf(r.mtu # 0, m4, "METRICS", [mtu |-> r.mtu], 8))

-----------------------------------------------------------------------------
Types(m) == {m.attrs[i].t : i \in DOMAIN m.attrs}

(***************************************************************************)
(* An association the builder should take is sent whole: with keys of any   *)
(* length it admits every attribute fits its buffer, all three algorithms  *)
(* and the encapsulation together; a longer key refuses it, and no request *)
(* leaves an attribute out (put_algo, put_aead, msg_end).                  *)
(***************************************************************************)
SaWhole(sa) ==
    LET algs == {<<"ALG_AEAD", sa.aead>>, <<"ALG_CRYPT", sa.enc>>, <<"ALG_AUTH", sa.auth>>}
        used == {x \in algs : x[2].name # 0}
        want == {x[1] : x \in used} \cup (IF sa.encap = <<0, 0>> THEN {} ELSE {"ENCAP"})
    IN  (used # {} /\ sa.src.fam # 0 /\ sa.src.fam = sa.dst.fam) =>
            \A m \in {xfrm_sa_msg(sa)} :
                IF \E x \in used : x[2].key > KEY_MAX THEN m.rc = E_OVERFLOW
                ELSE m.rc \in 1..XFRM_BUF_MAX /\ Types(m) = want

(***************************************************************************)
(* A route that was added can be deleted by naming it again: the request   *)
(* is taken, means the same destination, gateway, interface and metric, and *)
(* asks for no protocol, type or scope the caller did not name             *)
(* (route_build).                                                          *)
(***************************************************************************)
RouteDeletable(r) ==
    \A add \in {route_build("NEWROUTE", r)}, del \in {route_build("DELROUTE", r)} :
        /\ add.rc = del.rc
        /\ add.rc >= 0 => /\ add.attrs = del.attrs
                          /\ add.fixed.fam = del.fixed.fam /\ add.fixed.dst_len = del.fixed.dst_len
                          /\ <<del.fixed.protocol, del.fixed.type>> = <<r.protocol, r.type>>
                          /\ r.scope = 0 => del.fixed.scope = RT_SCOPE_NOWHERE

(***************************************************************************)
(* An address is taken with any prefix its family has, and every attribute *)
(* the kernel looks it up by when it is deleted says it (addr_build).      *)
(***************************************************************************)
AddrKeyed(a) ==
    \A add \in {addr_build("NEWADDR", a)} :
        /\ add.rc >= 0 <=> a.ifindex # 0 /\ a.addr.fam # 0 /\ a.prefixlen <= 8 * Octets(a.addr.fam)
        /\ add.rc >= 0 => /\ \A i \in DOMAIN add.attrs : add.attrs[i].v = a.addr.a
                          /\ "ADDRESS" \in Types(add)
                          /\ a.addr.fam = AF_INET => "LOCAL" \in Types(add)

-------------------------------------------------------------------------------
Other == "other"
ue == [fam |-> AF_INET, a |-> 1]
PROTO_ESP == 50

-----------------------------------------------------------------------------
(* The kernel's side of a request (external): its answer and its tables.   *)

Policy(req) == <<req.fixed.sel, req.fixed.dir>>

Reqid(attrs) ==
    LET t == SelectSeq(attrs, LAMBDA a : a.t = "TMPL")
    IN  IF t = <<>> THEN 0 ELSE t[1].v.reqid

Without(f, k) == [x \in DOMAIN f \ {k} |-> f[x]]

\* May the kernel do it: the entry must be new, or there.
Possible(req) ==
    /\ admin
    /\ CASE req.type = "NEWSA"     -> req.fixed.id \notin DOMAIN sad
         [] req.type = "NEWPOLICY" -> Policy(req) \notin DOMAIN spd
         [] req.type = "DELSA"     -> req.fixed.id \in DOMAIN sad
         [] req.type = "DELPOLICY" -> Policy(req) \in DOMAIN spd

Done(req, own) ==
    CASE req.type = "NEWSA" ->
           /\ sad' = (req.fixed.id :> [own |-> own, reqid |-> req.fixed.reqid]) @@ sad
           /\ UNCHANGED spd
      [] req.type = "NEWPOLICY" ->
           /\ spd' = (Policy(req) :> [own |-> own, reqid |-> Reqid(req.attrs)]) @@ spd
           /\ UNCHANGED sad
      [] req.type = "DELSA" -> sad' = Without(sad, req.fixed.id) /\ UNCHANGED spd
      [] req.type = "DELPOLICY" -> spd' = Without(spd, Policy(req)) /\ UNCHANGED sad

\* transact: one request, one answer.  An addition may be refused for
\* reasons of the kernel's own; ok says what the caller gets to know.
transact(req, own, ok) ==
    IF req.rc < 0 \/ ~Possible(req)
    THEN ~ok /\ UNCHANGED <<sad, spd, refused>>
    ELSE \/ ok /\ Done(req, own) /\ UNCHANGED refused
         \/ /\ ~ok /\ req.excl /\ refused < MaxRefused
            /\ refused' = refused + 1 /\ UNCHANGED <<sad, spd>>

-----------------------------------------------------------------------------
(* Esp.                                                                    *)

none == [name |-> 0, key |-> 0]

esp_sa(b, src, dst, spi) ==
    [src |-> src, dst |-> dst, spi |-> spi, proto |-> PROTO_ESP, mode |-> "transport",
     reqid |-> spi, enc |-> [name |-> 1, key |-> 0],
     auth |-> [name |-> 2, key |-> b.auth_key], aead |-> none, encap |-> <<0, 0>>]

esp_policy(dir, src, dst, sport, dport, reqid) ==
    LET host == IF src.fam = AF_INET6 THEN 128 ELSE 32
    IN  [src |-> src, src_prefix |-> host, dst |-> dst, dst_prefix |-> host,
         sel_proto |-> 17, sport |-> sport, dport |-> dport, dir |-> dir,
         action |-> "allow", has_tmpl |-> TRUE, tmpl_reqid |-> reqid,
         tmpl_proto |-> PROTO_ESP, tmpl_mode |-> "transport"]

\* SA1..SA4, then the policy for each.
Operations(b) ==
    <<[op |-> "sa", x |-> esp_sa(b, ue, b.pcscf, b.spi_ps)],
      [op |-> "sa", x |-> esp_sa(b, b.pcscf, ue, b.spi_us)],
      [op |-> "sa", x |-> esp_sa(b, b.pcscf, ue, b.spi_uc)],
      [op |-> "sa", x |-> esp_sa(b, ue, b.pcscf, b.spi_pc)],
      [op |-> "pol", x |-> esp_policy("out", ue, b.pcscf, b.port_uc, b.port_ps, b.spi_ps)],
      [op |-> "pol", x |-> esp_policy("in", b.pcscf, ue, b.port_pc, b.port_us, b.spi_us)],
      [op |-> "pol", x |-> esp_policy("in", b.pcscf, ue, b.port_ps, b.port_uc, b.spi_uc)],
      [op |-> "pol", x |-> esp_policy("out", ue, b.pcscf, b.port_us, b.port_pc, b.spi_pc)]>>

\* need: every address, port, SPI and the integrity key is set.
Negotiated(b) ==
    /\ b.pcscf.fam # 0 /\ b.auth_key # 0
    /\ 0 \notin {b.port_uc, b.port_us, b.port_pc, b.port_ps}
    /\ 0 \notin {b.spi_uc, b.spi_us, b.spi_pc, b.spi_ps}

SaKey(id) == [daddr |-> id.dst, spi |-> id.spi, proto |-> id.proto]
PolKey(id) == <<fill_selector(id), id.dir>>

\* The other user's association and policy.
theirs ==
    [esp_policy("in", ue, ue, 0, 0, 7) EXCEPT !.sel_proto = 0]
      @@ [spi |-> 7, proto |-> PROTO_ESP]

Init ==
    /\ admin \in BOOLEAN
    /\ sad = (SaKey(theirs) :> [own |-> Other, reqid |-> theirs.spi])
    /\ spd = (PolKey(theirs) :> [own |-> Other, reqid |-> theirs.spi])
    /\ refused = 0 /\ runs = 0
    /\ esp = [s \in Subs |-> [pc |-> "idle", todo |-> <<>>, sas |-> <<>>,
                              pols |-> <<>>, errs |-> 0]]

\* establish, up to its first request.
establish(s, b) ==
    /\ esp[s].pc = "idle" /\ runs < MaxRuns
    /\ runs' = runs + 1
    /\ esp' = [esp EXCEPT ![s].errs = 0,
                          ![s].todo = IF Negotiated(b) THEN Operations(b) ELSE <<>>,
                          ![s].pc = IF Negotiated(b) THEN "establish" ELSE "idle"]
    /\ UNCHANGED <<admin, sad, spd, refused>>

\* One of the eight: what the kernel took is remembered, what it refused counted.
Install(s) ==
    /\ esp[s].pc = "establish"
    /\ LET o    == Head(esp[s].todo)
           rest == Tail(esp[s].todo)
           next == [esp[s] EXCEPT !.todo = rest,
                                  !.pc = IF rest = <<>> THEN "idle" ELSE @]
           req  == IF o.op = "sa" THEN xfrm_sa_msg(o.x) ELSE xfrm_policy_msg(o.x)
           id   == IF o.op = "sa"
                   THEN [dst |-> o.x.dst, spi |-> o.x.spi, proto |-> o.x.proto]
                   ELSE [f \in {"src", "src_prefix", "dst", "dst_prefix", "sel_proto",
                                "sport", "dport", "dir"} |-> o.x[f]]
       IN  \E ok \in BOOLEAN :
             /\ transact(req, s, ok)
             /\ esp' = [esp EXCEPT ![s] =
                  CASE ~ok -> [next EXCEPT !.errs = @ + 1]
                    [] ok /\ o.op = "sa"  -> [next EXCEPT !.sas = Append(@, id)]
                    [] ok /\ o.op = "pol" -> [next EXCEPT !.pols = Append(@, id)]]
    /\ UNCHANGED <<admin, runs>>

\* Mutant: the associations first.
Removals_sas_first(e) ==
    [i \in DOMAIN e.sas |-> xfrm_sa_del_msg(e.sas[i])]
      \o [i \in DOMAIN e.pols |-> xfrm_policy_del_msg(e.pols[i])]

\* The requests of release, the policies first.
Removals(e) ==
    [i \in DOMAIN e.pols |-> xfrm_policy_del_msg(e.pols[i])]
      \o [i \in DOMAIN e.sas |-> xfrm_sa_del_msg(e.sas[i])]

release(s) ==
    /\ esp[s].pc = "idle" /\ esp[s].pols \o esp[s].sas # <<>>
    /\ esp' = [esp EXCEPT ![s].pc = "release", ![s].todo = Removals(esp[s])]
    /\ UNCHANGED <<admin, sad, spd, refused, runs>>

\* A refusal is ignored; the lists are cleared after the last request.
Remove(s) ==
    /\ esp[s].pc = "release"
    /\ \E ok \in BOOLEAN : transact(Head(esp[s].todo), s, ok)
    /\ LET rest == Tail(esp[s].todo)
       IN  esp' = [esp EXCEPT ![s] = IF rest # <<>> THEN [@ EXCEPT !.todo = rest]
                                     ELSE [@ EXCEPT !.todo = rest, !.pc = "idle",
                                                    !.sas = <<>>, !.pols = <<>>]]
    /\ UNCHANGED <<admin, runs>>

Next ==
    \E s \in Subs :
        \/ \E b \in Bundles[s] : establish(s, b)
        \/ Install(s) \/ release(s) \/ Remove(s)

Spec == Init /\ [][Next]_vars

-----------------------------------------------------------------------------
Owned(f, s) == {k \in DOMAIN f : f[k].own = s}

\* "Delete exactly what establish() installed": between calls an Esp remembers
\* exactly the entries of the kernel that are its own, refused ones excepted,
\* whoever else filled the tables in between; the other user's entries stay.
ReleasesExactlyOwn ==
    /\ \A s \in Subs : esp[s].pc # "release" =>
          /\ Owned(sad, s) = {SaKey(esp[s].sas[i]) : i \in DOMAIN esp[s].sas}
          /\ Owned(spd, s) = {PolKey(esp[s].pols[i]) : i \in DOMAIN esp[s].pols}
    /\ Owned(sad, Other) # {} /\ Owned(spd, Other) # {}

\* "Nothing is steered at an SA that is already gone": while a policy of a
\* subscriber is in place, so is every association of its own it may name.
SteeredAlive ==
    \A s \in Subs, i \in 1..8 :
        (i \in DOMAIN esp[s].sas
           /\ \E k \in Owned(spd, s) : spd[k].reqid = esp[s].sas[i].spi)
        => SaKey(esp[s].sas[i]) \in DOMAIN sad
===============================================================================
