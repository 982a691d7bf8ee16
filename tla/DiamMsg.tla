-------------------------------- MODULE DiamMsg --------------------------------
(***************************************************************************)
(* Diameter messages as a script builds and reads them                     *)
(* (bindings/cxx/src/diam.cpp): a Builder that is started, given AVPs and  *)
(* groups of them and asked for the wire, and parse, which makes a tree of *)
(* AVPs of it by the dictionary.  Every call that fails throws; a script   *)
(* may catch that and go on with the same Builder.                         *)
(***************************************************************************)
EXTENDS Tlv, TLC

CONSTANTS
    MAX_GROUP_DEPTH,    \* groups inside one another
    Capacity,           \* octets of the Builder's buffer
    Typed               \* values put: [kind, v]

VARIABLES w, hdr, groups, started, said, out

vars == <<w, hdr, groups, started, said, out>>

DIAM_E_TYPE == -6
DIAM_HDR_LEN == 20
VENDOR_AUTO == -1
Gpp == 10415

(* The part of the generated dictionary the calls use: a plain AVP, a      *)
(* group, and one of each of a vendor.                                     *)
Dict == {[code |-> 263, vendor |-> 0, flags |-> 64, grouped |-> FALSE],
         [code |-> 443, vendor |-> 0, flags |-> 64, grouped |-> TRUE],
         [code |-> 601, vendor |-> Gpp, flags |-> 192, grouped |-> FALSE],
         [code |-> 873, vendor |-> Gpp, flags |-> 192, grouped |-> TRUE]}

diam_dict_get(code, vendor) == {e \in Dict : e.code = code /\ e.vendor = vendor}

(* The standard registry first, then any vendor. *)
lookup(code) ==
    IF diam_dict_get(code, 0) # {} THEN diam_dict_get(code, 0) ELSE {e \in Dict : e.code = code}

resolve(code, wanted) ==
    LET v == IF wanted = VENDOR_AUTO THEN 0 ELSE wanted
        First(found) == IF found = {} THEN [vendor |-> v, flags |-> Flag(v # 0, 128)]
                        ELSE CHOOSE d \in {[vendor |-> e.vendor, flags |-> e.flags] : e \in found} : TRUE
    IN  First(IF wanted = VENDOR_AUTO THEN lookup(code) ELSE diam_dict_get(code, wanted))

-------------------------------------------------------------------------------
(* Typed data.  A negative integer is stored as its two's complement.      *)
Octets(t) ==
    CASE t.kind = "str" -> t.v
      [] t.kind \in {"u32", "i32"} -> be_store(t.v, 4)
      [] t.kind = "u64" -> be_store(t.v, 8)
      [] t.kind = "addr" -> be_store(1, 2) \o t.v

Signed(s) == FoldLeft(LAMBDA v, x : v * 256 + x, IF s[1] > 127 THEN s[1] - 256 ELSE s[1], Tail(s))

(* The reader of a kind, and DIAM_E_TYPE for data that is not of it. *)
Read(kind, data) ==
    CASE kind = "str" -> <<data>>
      [] kind = "u32" -> <<IF Len(data) # 4 THEN DIAM_E_TYPE ELSE be_load(data)>>
      [] kind = "i32" -> <<IF Len(data) # 4 THEN DIAM_E_TYPE ELSE Signed(data)>>
      [] kind = "u64" -> <<IF Len(data) # 8 THEN DIAM_E_TYPE ELSE be_load(data)>>
      [] kind = "addr" -> IF Len(data) < 2 THEN <<DIAM_E_TYPE>> ELSE <<SubSeq(data, 3, Len(data))>>

diam_avp_put_addr(x, code, flags, vendor, octets) ==
    LET Begun(r) == IF r.rc < 0 THEN r
                    ELSE avp_end(Then(Append_(r.w, be_store(1, 2)), LAMBDA b : Append_(b, octets)), r.rc)
    IN  Begun(diam_avp_begin(x, code, flags, vendor))

Put(x, code, flags, vendor, t) ==
    IF t.kind = "addr" THEN diam_avp_put_addr(x, code, flags, vendor, t.v)
    ELSE diam_avp_put(x, code, flags, vendor, Octets(t))

-------------------------------------------------------------------------------
(* The Builder.                                                            *)

NoHeader == [flags |-> {}, mt |-> 0, app |-> 0, id |-> 0, seq |-> 0]

Init ==
    /\ w = tlv_wbuf_init(Capacity) /\ hdr = NoHeader
    /\ groups = <<>> /\ started = FALSE
    /\ said = <<<<>>>> /\ out = <<>>

(* request and answer start over: the buffer, the groups and the header.   *)
request(is) ==
    /\ out' = <<>>
    /\ hdr' = [NoHeader EXCEPT !.flags = IF is THEN {"request"} ELSE {}, !.mt = 272, !.app = 4]
    /\ w' = Append_(tlv_wbuf_init(Capacity), Zeros(DIAM_HDR_LEN)).w
    /\ groups' = <<>> /\ started' = TRUE /\ said' = <<<<>>>>

(* proxiable, error and retransmit. *)
set_flag(f, on) ==
    /\ out' = <<>> /\ started
    /\ hdr' = [hdr EXCEPT !.flags = IF on THEN @ \cup {f} ELSE @ \ {f}]
    /\ UNCHANGED <<w, groups, started, said>>

ids ==
    /\ out' = <<>> /\ started
    /\ hdr' = [hdr EXCEPT !.id = 16909060, !.seq = 7]
    /\ UNCHANGED <<w, groups, started, said>>

Say(e) == said' = [said EXCEPT ![Len(said)] = Append(@, e)]

(* put_str, put_u32 ..., and put_raw whose flags are the caller's; what    *)
(* throws has said nothing, but may have spent the buffer.                 *)
put(a, t) ==
    /\ out' = <<>> /\ started
    /\ \E r \in {Put(w, a.code, a.flags, a.vendor, t)} :
         /\ w' = r.w
         /\ IF r.rc < 0 THEN UNCHANGED said
            ELSE Say([a EXCEPT !.flags = diam_flags(@, a.vendor)] @@ [t |-> t])
    /\ UNCHANGED <<hdr, groups, started>>

(* Mutant: one group more than parse descends into. *)
TooDeep_late == Len(groups) > MAX_GROUP_DEPTH

TooDeep == Len(groups) >= MAX_GROUP_DEPTH

begin_group(code, wanted) ==
    /\ out' = <<>> /\ started /\ ~TooDeep
    /\ \E d \in {resolve(code, wanted)} : \E h \in {diam_avp_begin(w, code, d.flags, d.vendor)} :
         /\ w' = h.w
         /\ IF h.rc < 0 THEN UNCHANGED <<groups, said>>
            ELSE /\ groups' = Append(groups, [h |-> h.rc, code |-> code, vendor |-> d.vendor,
                                              flags |-> diam_flags(d.flags, d.vendor)])
                 /\ said' = Append(said, <<>>)
    /\ UNCHANGED <<hdr, started>>

end_group ==
    /\ out' = <<>> /\ started /\ groups # <<>>
    /\ \E g \in {Last(groups)} : \E r \in {tlv_end(w, TLV_PROF_DIAMETER, g.h)} :
         /\ w' = r.w
         /\ IF r.rc < 0 THEN UNCHANGED <<groups, said>>
            ELSE /\ groups' = Front(groups)
                 /\ said' = [Front(said) EXCEPT ![Len(said) - 1] = Append(@,
                        [code |-> g.code, vendor |-> g.vendor, flags |-> g.flags, kids |-> Last(said)])]
    /\ UNCHANGED <<hdr, started>>

done ==
    /\ started /\ groups = <<>>
    /\ \E f \in {diam_hdr_finalize([w EXCEPT !.buf = Patch(@, 0, diam_hdr_encode(hdr))])} :
         IF f.rc < 0 THEN out' = <<>> /\ UNCHANGED <<w, started>>
         ELSE out' = f.w.buf /\ w' = f.w /\ started' = FALSE
    /\ UNCHANGED <<hdr, groups, said>>

(* What the puts are asked for: by code, or with the caller's own flags. *)
Asked ==
    {resolve(code, wanted) @@ [code |-> code] :
        code \in {263, 443, 601, 999}, wanted \in {VENDOR_AUTO, 0}}
    \cup [code : {999}, vendor : {0, Gpp}, flags : {0, 128}]

Next ==
    \/ \E is \in BOOLEAN : request(is)
    \/ ids
    \/ \E f \in {"error"}, on \in BOOLEAN : set_flag(f, on)
    \/ \E a \in Asked, t \in Typed : put(a, t)
    \/ \E code \in {443, 873, 999} : begin_group(code, VENDOR_AUTO)
    \/ end_group
    \/ done

Spec == Init /\ [][Next]_vars

-------------------------------------------------------------------------------
(* parse: a group the dictionary knows is descended into; one that does    *)
(* not hold AVPs to its end stays a leaf.                                  *)

Views(b, from, end) ==
    LET walk[cur \in from .. end] ==
          LET From(v) == IF v.ok THEN <<v>> \o walk[v.cur] ELSE <<>>
          IN  From(diam_avp_iter_next(b, cur, end))
    IN  walk[from]

Whole(b, from, end) ==
    LET ToTheEnd(s) == IF s = <<>> THEN from = end ELSE Last(s).cur = end
    IN  ToTheEnd(Views(b, from, end))

Grouped(code, vendor) == \E e \in diam_dict_get(code, vendor) : e.grouped

RECURSIVE parse_avps(_, _, _)
parse_avps(b, views, depth) ==
    LET Avp(v) ==
          [code |-> v.type, vendor |-> v.vendor, flags |-> v.meta,
           data |-> Sub(b, v.value, v.len),
           kids |-> IF /\ Grouped(v.type, v.vendor) /\ depth < MAX_GROUP_DEPTH
                       /\ Whole(b, v.value, v.value + v.len)
                    THEN parse_avps(b, Views(b, v.value, v.value + v.len), depth + 1) ELSE <<>>]
    IN  [i \in DOMAIN views |-> Avp(views[i])]

parse_body(b, h) ==
    IF h.hl < 0 \/ ~Whole(b, DIAM_HDR_LEN, h.end) THEN [ok |-> FALSE]
    ELSE [ok |-> TRUE, hdr |-> [flags |-> h.flags, mt |-> h.mt, app |-> h.app, id |-> h.id, seq |-> h.seq],
          avps |-> parse_avps(b, Views(b, DIAM_HDR_LEN, h.end), 0)]

parse(b) == parse_body(b, diam_hdr_decode(b))

RECURSIVE Matches(_, _)
Matches(want, got) ==
    /\ Len(want) = Len(got)
    /\ \A i \in DOMAIN want :
         LET e == want[i]
             a == got[i]
         IN  /\ e.code = a.code /\ e.vendor = a.vendor /\ e.flags = a.flags
             /\ IF "t" \in DOMAIN e THEN Read(e.t.kind, a.data) = <<e.t.v>>
                ELSE Grouped(e.code, e.vendor) => Matches(e.kids, a.kids)

(* What done() returns parses to the header and to exactly the AVPs of the *)
(* calls since request() or answer() that did not throw, with the vendor,  *)
(* the flags, the typed value and the nesting each was given, however many *)
(* calls failed in between and however deep the Builder let groups nest.   *)
BuiltIsParsed ==
    out # <<>> =>
        \E m \in {parse(out)} : m.ok /\ m.hdr = hdr /\ Matches(said[1], m.avps)
================================================================================
