------------------------------- MODULE GtpMsg -------------------------------
(***************************************************************************)
(* The typed GTPv2-C messages of the C++ facade (bindings/cxx/src/msg.cpp, *)
(* util.cpp, inc/gtpxx.hpp) over the information element codecs of         *)
(* gtp/v2/src/gtp2_ie.c.                                                   *)
(*                                                                         *)
(* Each message class is a row table: its fields in the order encode()     *)
(* writes them.  The optional scalars are -1 when absent, as in the source; *)
(* strings, octet vectors and lists are empty, and a struct with its has_  *)
(* flag is a sequence of at most one.  Digit strings are sequences of      *)
(* digits, dotted names sequences of characters (46 is the dot), literal   *)
(* addresses the octets inet_pton makes of them.                           *)
(***************************************************************************)
EXTENDS Tlv

CONSTANTS
    CS_MAX_BEARERS, \* bearer contexts a decoder keeps (11 in the source)
    Messages,   \* the messages encoded
    MaxEncodes  \* encode() calls that share the scratch buffer

VARIABLES
    scratch,    \* the per-thread scratch buffer, as earlier encodes left it
    msg,        \* the message last encoded
    wire,       \* the octets encode() returned; <<>> when it threw
    got,        \* what decode() made of them
    encodes

vars == <<scratch, msg, wire, got, encodes>>

BC_MAX_FTEID == 4
WIRE_MAX == 65552
BEARER_CONTEXT == 93

-----------------------------------------------------------------------------
(* Text and number formats (util.cpp).                                     *)

\* Low nibble first, an odd digit count padded with 0xF.
bcd_encode(d) ==
    [i \in 1..(Len(d) + 1) \div 2 |->
        d[2 * i - 1] + 16 * (IF 2 * i <= Len(d) THEN d[2 * i] ELSE 15)]

\* The digits before the first nibble that is none.
bcd_decode(b) ==
    LET nibble(i) == IF i % 2 = 1 THEN b[(i + 1) \div 2] % 16 ELSE b[i \div 2] \div 16
        stop == {i \in 1..2 * Len(b) : nibble(i) > 9} \cup {2 * Len(b) + 1}
    IN  [i \in 1..Min(stop) - 1 |-> nibble(i)]

\* Every label gets its length in front, where the dot was.
apn_encode(s) ==
    LET Labels(t) ==
          [i \in 1..Len(t) - 1 |->
              IF t[i] = 46 THEN Min({j \in i + 1..Len(t) : t[j] = 46}) - i - 1 ELSE t[i]]
    IN  Labels(<<46>> \o s \o <<46>>)

\* <<>> also stands for the exception a malformed label raises.
apn_decode(b) ==
    LET walk[off \in 0..Len(b)] ==
          IF off = Len(b) THEN <<>>
          ELSE LET n == b[off + 1]
               IN  IF n = 0 \/ off + 1 + n > Len(b) THEN <<>>
                   ELSE <<46>> \o Sub(b, off + 1, n) \o walk[off + 1 + n]
        Undotted(s) == SubSeq(s, 2, Len(s))
    IN  Undotted(walk[0])

plmn_encode(mcc, mnc) ==
    <<mcc[2] * 16 + mcc[1],
      (IF Len(mnc) = 3 THEN mnc[3] ELSE 15) * 16 + mcc[3],
      mnc[2] * 16 + mnc[1]>>

uli_tai_ecgi(mcc, mnc, tac, eci) ==
    <<24>> \o plmn_encode(mcc, mnc) \o be_store(tac, 2)
      \o plmn_encode(mcc, mnc) \o be_store(eci % 2 ^ 28, 4)

pco_request_pcscf(v4, v6) ==
    <<128>> \o (IF v6 THEN <<0, 1, 0>> ELSE <<>>)
            \o (IF v4 THEN <<0, 12, 0>> ELSE <<>>)

\* The first container want that holds an address; <<>> when there is none.
pco_addr(pco, want, alen) ==
    LET walk[i \in 1..Len(pco)] ==
          IF i + 2 >= Len(pco) THEN <<>>
          ELSE LET len  == pco[i + 3]
                   body == i + 3
               IN  IF body + len > Len(pco) THEN <<>>
                   ELSE IF be_load(Sub(pco, i, 2)) = want /\ len >= alen
                        THEN Sub(pco, body, alen)
                   ELSE walk[body + len]
    IN  IF Len(pco) < 4 THEN <<>> ELSE walk[1]

-----------------------------------------------------------------------------
(* Sub-element structs (gtp2_ie.c).                                        *)

fteid_put(f) ==
    <<Flag(f.addr4 # <<>>, 128) + Flag(f.addr6 # <<>>, 64) + (f.if_type % 64)>>
      \o be_store(f.teid, 4) \o f.addr4 \o f.addr6

fteid_decode(b) ==
    LET v4 == Bit(b[1], 128)
        v6 == Bit(b[1], 64)
        n  == IF v4 THEN 9 ELSE 5
    IN  IF Len(b) < 5 \/ Len(b) < n + Flag(v6, 16) THEN <<>>
        ELSE <<[if_type |-> b[1] % 64, teid |-> be_load(Sub(b, 1, 4)),
                addr4 |-> IF v4 THEN Sub(b, 5, 4) ELSE <<>>,
                addr6 |-> IF v6 THEN Sub(b, n, 16) ELSE <<>>]>>

bearer_qos_put(q) ==
    <<q.pci * 64 + q.pl * 4 + q.pvi, q.qci>> \o be_store(q.mbr_ul, 5)
      \o be_store(q.mbr_dl, 5) \o be_store(q.gbr_ul, 5) \o be_store(q.gbr_dl, 5)

bearer_qos_decode(b) ==
    IF Len(b) < 22 THEN <<>>
    ELSE <<[pci |-> (b[1] \div 64) % 2, pl |-> (b[1] \div 4) % 16,
            pvi |-> b[1] % 2, qci |-> b[2],
            mbr_ul |-> be_load(Sub(b, 2, 5)), mbr_dl |-> be_load(Sub(b, 7, 5)),
            gbr_ul |-> be_load(Sub(b, 12, 5)), gbr_dl |-> be_load(Sub(b, 17, 5))]>>

\* pdn_type 1 is IPv4, 2 IPv6, 3 both; put refuses any other type.
paa_put(p) ==
    <<p.pdn_type % 8>>
      \o (IF p.pdn_type \in {2, 3} THEN <<p.prefix_len>> \o p.addr6 ELSE <<>>)
      \o (IF p.pdn_type \in {1, 3} THEN p.addr4 ELSE <<>>)

paa_decode(b) ==
    LET t    == b[1] % 8
        need == CASE t = 1 -> 5 [] t = 2 -> 18 [] t = 3 -> 22 [] OTHER -> 0
    IN  IF Len(b) < 1 \/ t \notin 1..3 \/ Len(b) < need THEN <<>>
        ELSE <<[pdn_type   |-> t,
                prefix_len |-> IF t = 1 THEN 0 ELSE b[2],
                addr6      |-> IF t = 1 THEN <<>> ELSE Sub(b, 2, 16),
                addr4      |-> CASE t = 1 -> Sub(b, 1, 4)
                                 [] t = 2 -> <<>>
                                 [] t = 3 -> Sub(b, 18, 4)]>>

ambr_put(a) == be_store(a.ul, 4) \o be_store(a.dl, 4)

ambr_decode(b) ==
    IF Len(b) < 8 THEN <<>>
    ELSE <<[ul |-> be_load(Sub(b, 0, 4)), dl |-> be_load(Sub(b, 4, 4))]>>

-----------------------------------------------------------------------------
(* The message classes: [f, ie, inst, k], the field, the element type and  *)
(* instance that carry it and the kind of its value.                       *)

Row(f, ie, inst, k) == [f |-> f, ie |-> ie, inst |-> inst, k |-> k]

imsi       == Row("imsi", 1, 0, "bcd")
cause      == Row("cause", 2, 0, "cause")
recovery   == Row("recovery", 3, 0, "u8")
apn        == Row("apn", 71, 0, "apn")
ambr       == Row("ambr", 72, 0, "ambr")
linked_ebi == Row("linked_ebi", 73, 0, "u8")
mei        == Row("mei", 75, 0, "bcd")
msisdn     == Row("msisdn", 76, 0, "bcd")
indication == Row("indication", 77, 0, "raw")
pco        == Row("pco", 78, 0, "raw")
paa        == Row("paa", 79, 0, "paa")
rat_type   == Row("rat_type", 82, 0, "u8")
serving_network == Row("serving_network", 83, 0, "raw")
uli        == Row("uli", 86, 0, "raw")
sender_fteid == Row("sender_fteid", 87, 0, "fteid")
pgw_fteid  == Row("pgw_fteid", 87, 1, "fteid")
delay_dl_pn == Row("delay_dl_pn", 92, 0, "u8")
bearers    == Row("bearers", BEARER_CONTEXT, 0, "bearers")
charging_char == Row("charging_char", 95, 0, "u16")
pdn_type   == Row("pdn_type", 99, 0, "u8")
pti        == Row("pti", 100, 0, "u8")
apn_restriction == Row("apn_restriction", 127, 0, "u8")
selection_mode == Row("selection_mode", 128, 0, "u8")

CreateSessionRequest ==
    <<imsi, msisdn, mei, uli, serving_network, rat_type, sender_fteid,
      pgw_fteid, apn, selection_mode, pdn_type, paa, apn_restriction, ambr,
      pco, bearers, recovery, charging_char>>

CreateSessionResponse ==
    <<cause, sender_fteid, pgw_fteid, paa, apn_restriction, ambr, pco,
      bearers, recovery>>

ModifyBearerRequest ==
    <<mei, uli, serving_network, rat_type, sender_fteid, ambr, delay_dl_pn,
      bearers, recovery>>

ModifyBearerResponse ==
    <<cause, msisdn, linked_ebi, apn_restriction, ambr, pco, bearers, recovery>>

DeleteSessionRequest ==
    <<cause, linked_ebi, uli, indication, pco, sender_fteid>>

DeleteSessionResponse == <<cause, recovery, pco>>

CreateBearerRequest == <<pti, linked_ebi, ambr, pco, bearers>>

CreateBearerResponse == <<cause, pti, bearers, pco, recovery>>

Types == {32, 33, 34, 35, 36, 37, 95, 96}

Rows(mt) == CASE mt = 32 -> CreateSessionRequest [] mt = 33 -> CreateSessionResponse
              [] mt = 34 -> ModifyBearerRequest  [] mt = 35 -> ModifyBearerResponse
              [] mt = 36 -> DeleteSessionRequest [] mt = 37 -> DeleteSessionResponse
              [] mt = 95 -> CreateBearerRequest  [] mt = 96 -> CreateBearerResponse

BearerContext ==
    <<Row("ebi", 73, 0, "u8"), cause, Row("tft", 84, 0, "raw"),
      Row("qos", 80, 0, "qos"), Row("fteids", 87, 0, "fteids"),
      Row("charging_id", 94, 0, "u32")>>

Scalar == {"u8", "u16", "u32", "cause"}

Absent(k) == IF k \in Scalar THEN -1 ELSE <<>>

\* The bits of a one-octet element that carry its value.
Width(ie) == CASE ie = 73 -> 16 [] ie = 99 -> 8 [] ie = 128 -> 4 [] OTHER -> 256

-----------------------------------------------------------------------------
(* encode().  An exception in the middle keeps what was written: [w, err]. *)

Octets(row, v) ==
    CASE row.k = "bcd"   -> bcd_encode(v)
      [] row.k = "raw"   -> v
      [] row.k = "apn"   -> apn_encode(v)
      [] row.k = "u8"    -> <<v % Width(row.ie)>>
      [] row.k = "u16"   -> be_store(v, 2)
      [] row.k = "u32"   -> be_store(v, 4)
      [] row.k = "cause" -> <<v, 0>>
      [] row.k = "fteid" -> fteid_put(v[1])
      [] row.k = "qos"   -> bearer_qos_put(v[1])
      [] row.k = "paa"   -> paa_put(v[1])
      [] row.k = "ambr"  -> ambr_put(v[1])

ie_put(e, ie, inst, val) == [e EXCEPT !.w = tlv_put(@, TLV_PROF_GTP2C, ie, inst, val).w]

Throw(e) == [e EXCEPT !.err = TRUE]

\* fteid_to_c throws on an F-TEID without an address.
put_fteid(e, inst, f) ==
    IF f.addr4 = <<>> /\ f.addr6 = <<>> THEN Throw(e)
    ELSE ie_put(e, 87, inst, fteid_put(f))

RECURSIVE put_fteids(_, _), put_bearers(_, _), put_rows(_, _, _)

put_fteids(e, fs) ==
    IF e.err \/ fs = <<>> THEN e
    ELSE put_fteids(put_fteid(e, Head(fs).inst, Head(fs).fteid), Tail(fs))

put_bearer(e, b) ==
    LET Ended(kids, h) ==
          IF kids.err THEN kids ELSE [kids EXCEPT !.w = tlv_end(@, TLV_PROF_GTP2C, h).w]
        Begun(h) == Ended(put_rows([e EXCEPT !.w = h.w], BearerContext, b), h.rc)
    IN  IF Len(b.fteids) > BC_MAX_FTEID THEN Throw(e)
        ELSE Begun(tlv_begin(e.w, TLV_PROF_GTP2C, BEARER_CONTEXT, b.inst))

put_bearers(e, bs) ==
    IF e.err \/ bs = <<>> THEN e ELSE put_bearers(put_bearer(e, Head(bs)), Tail(bs))

put_row(e, row, v) ==
    CASE v = Absent(row.k) -> e
      [] row.k = "fteid"   -> put_fteid(e, row.inst, v[1])
      [] row.k = "fteids"  -> put_fteids(e, v)
      [] row.k = "bearers" -> put_bearers(e, v)
      [] OTHER             -> ie_put(e, row.ie, row.inst, Octets(row, v))

put_rows(e, rows, m) ==
    IF e.err \/ rows = <<>> THEN e
    ELSE put_rows(put_row(e, Head(rows), m[Head(rows).f]), Tail(rows), m)

\* A Create Session Request without its APN, a bearer context or the sender's
\* F-TEID throws, the last of them once part of the message is written.
encode(m) ==
    LET bare == m.mt = 32 /\ m.sender_fteid = <<>>
        upto == CHOOSE i \in DOMAIN CreateSessionRequest :
                    CreateSessionRequest[i + 1] = sender_fteid
        Written(e) == IF bare THEN Throw(e) ELSE e
    IN  IF m.mt = 32 /\ (m.apn = <<>> \/ m.bearers = <<>>)
        THEN [w |-> tlv_wbuf_init(WIRE_MAX), err |-> TRUE]
        ELSE Written(put_rows(
               [w |-> Append_(tlv_wbuf_init(WIRE_MAX),
                              gtp2_hdr_encode([has_teid |-> TRUE] @@ m)).w, err |-> FALSE],
               IF bare THEN SubSeq(CreateSessionRequest, 1, upto) ELSE Rows(m.mt), m))

-----------------------------------------------------------------------------
(* decode(): every element of a known type sets its field, the last one of *)
(* a type wins, elements too short for their type are skipped.             *)

Views(b, from, end) ==
    LET walk[cur \in from..end] ==
          LET From(v) == IF v.ok THEN <<v>> \o walk[v.cur] ELSE <<>>
          IN  From(gtp2_ie_iter_next(b, cur, end))
    IN  walk[from]

Taken(old, new) == IF new = <<>> THEN old ELSE new

Value(row, old, b) ==
    CASE row.k = "bcd"   -> bcd_decode(b)
      [] row.k = "raw"   -> b
      [] row.k = "apn"   -> IF b = <<>> THEN old ELSE apn_decode(b)
      [] row.k \in {"u8", "cause"} -> IF b = <<>> THEN old ELSE b[1] % Width(row.ie)
      [] row.k = "u16"   -> IF Len(b) < 2 THEN old ELSE be_load(Sub(b, 0, 2))
      [] row.k = "u32"   -> IF Len(b) < 4 THEN old ELSE be_load(Sub(b, 0, 4))
      [] row.k = "fteid" -> Taken(old, fteid_decode(b))
      [] row.k = "qos"   -> Taken(old, bearer_qos_decode(b))
      [] row.k = "paa"   -> Taken(old, paa_decode(b))
      [] row.k = "ambr"  -> Taken(old, ambr_decode(b))

\* Only F-TEIDs are told apart by their instance.
Matches(row, v) == row.ie = v.type /\ (row.k = "fteid" => row.inst = v.meta)

Kept(s, max) == SubSeq(s, 1, Min({Len(s), max}))

Content(b, v) == Sub(b, v.value, v.len)

RECURSIVE Field(_, _, _), Fields(_, _, _)

\* Those that decode, as many as there is room for.
fteids_from_views(b, vs) ==
    LET Found(s) == [i \in DOMAIN s |-> [inst |-> vs[s[i][1]].meta, fteid |-> s[i][2][1]]]
    IN  Found(Kept(SelectSeq([i \in DOMAIN vs |-> <<i, fteid_decode(Content(b, vs[i]))>>],
                             LAMBDA d : d[2] # <<>>),
                   BC_MAX_FTEID))

bearer_from_view(b, v) ==
    [Fields(BearerContext, b, Views(b, v.value, v.value + v.len)) EXCEPT
        !.ebi = IF @ = -1 THEN 0 ELSE @] @@ [inst |-> v.meta]

bearers_from_views(b, vs) == [i \in DOMAIN vs |-> bearer_from_view(b, vs[i])]

\* The field of a row from the views that match it.
Field(row, b, vs) ==
    CASE row.k = "fteids"  -> fteids_from_views(b, vs)
      [] row.k = "bearers" -> bearers_from_views(b, Kept(vs, CS_MAX_BEARERS))
      [] OTHER -> FoldLeft(LAMBDA old, v : Value(row, old, Content(b, v)), Absent(row.k), vs)

RowOf(rows, f) == rows[CHOOSE i \in DOMAIN rows : rows[i].f = f]

Fields(rows, b, vs) ==
    [f \in {rows[i].f : i \in DOMAIN rows} |->
        Field(RowOf(rows, f), b, SelectSeq(vs, LAMBDA v : Matches(RowOf(rows, f), v)))]

Complete(mt, m) ==
    /\ mt = 32 => m.apn # <<>> /\ m.bearers # <<>>
    /\ mt \in {33, 35, 37, 96} => m.cause # -1

Defaulted(mt, m) == IF mt = 32 /\ m.rat_type = -1 THEN [m EXCEPT !.rat_type = 6] ELSE m

\* <<>> stands for the exception.
Decoded(h, mt, m) ==
    IF h.hl < 0 \/ h.mt # mt \/ ~Complete(mt, m) THEN <<>>
    ELSE <<[mt |-> mt, id |-> h.id, seq |-> h.seq] @@ Defaulted(mt, m)>>

decode_from(h, b, mt) == Decoded(h, mt, Fields(Rows(mt), b, Views(b, h.hl, h.end)))

decode(b, mt) == decode_from(gtp2_hdr_decode(b), b, mt)

-----------------------------------------------------------------------------
(* Raw messages: a tree of elements, children only in the grouped types.   *)

is_grouped(type) == type \in {93, 109, 180, 181, 191}

RECURSIVE walk_ies(_, _, _)
walk_ies(b, from, end) ==
    LET Ie(v) == [type |-> v.type, inst |-> v.meta, value |-> Content(b, v),
                  children |-> IF is_grouped(v.type)
                               THEN walk_ies(b, v.value, v.value + v.len) ELSE <<>>]
        All(s) == [i \in DOMAIN s |-> Ie(s[i])]
    IN  All(Views(b, from, end))

\* Once the buffer has overflowed nothing is added.
RECURSIVE put_ies(_, _)
put_ies(w, ies) ==
    LET Group(h, kids) == tlv_end(put_ies(h.w, kids), TLV_PROF_GTP2C, h.rc).w
        Put(ie) == IF ie.children = <<>>
                   THEN tlv_put(w, TLV_PROF_GTP2C, ie.type, ie.inst, ie.value).w
                   ELSE Group(tlv_begin(w, TLV_PROF_GTP2C, ie.type, ie.inst), ie.children)
    IN  IF w.overflow \/ ies = <<>> THEN w ELSE put_ies(Put(Head(ies)), Tail(ies))

RawDecode(b) ==
    LET Raw(h) == [mt |-> h.mt, has_teid |-> h.has_teid, id |-> h.id, seq |-> h.seq,
                   ies |-> walk_ies(b, h.hl, h.end)]
    IN  Raw(gtp2_hdr_decode(b))

RawEncode(m) ==
    gtp2_hdr_finalize(put_ies(Append_(tlv_wbuf_init(WIRE_MAX), gtp2_hdr_encode(m)).w,
                              m.ies)).w.buf

-----------------------------------------------------------------------------
Init ==
    /\ scratch = <<>> /\ msg = <<>> /\ wire = <<>> /\ got = <<>> /\ encodes = 0

\* Mutant: all of the scratch buffer is copied.
finish_all(w, buf) == buf

\* finish() copies the octets up to off out of the scratch buffer, whose rest
\* is whatever the encodes before left there.
finish(w, buf) == SubSeq(buf, 1, Len(w.buf))

Encode(m) ==
    /\ encodes < MaxEncodes
    /\ encodes' = encodes + 1
    /\ \E e \in {encode(m)} :
       \E done \in {IF e.err THEN e ELSE gtp2_hdr_finalize(e.w)} :
           /\ scratch' = done.w.buf \o SubSeq(scratch, Len(done.w.buf) + 1, Len(scratch))
           /\ wire' = IF e.err \/ done.rc # TLV_OK THEN <<>> ELSE finish(done.w, scratch')
    /\ msg' = m
    /\ got' = <<>>

Decode(b, mt) ==
    /\ wire # <<>> /\ got = <<>>
    /\ got' = decode(b, mt)
    /\ UNCHANGED <<scratch, msg, wire, encodes>>

Next ==
    \/ \E m \in Messages : Encode(m)
    \/ \E cut \in {0, 1, 4} : Decode(SubSeq(wire, 1, Len(wire) - cut), msg.mt)

Spec == Init /\ [][Next]_vars

-----------------------------------------------------------------------------
Whole(m) == IF "bearers" \in DOMAIN m
            THEN [m EXCEPT !.bearers = Kept(@, CS_MAX_BEARERS)] ELSE m

(***************************************************************************)
(* What decode() returns is the message encode() was given, field by       *)
(* field, for every class of message and whatever an earlier encode, whole *)
(* or thrown in the middle, left in the shared scratch buffer              *)
(* (scratch_wbuf, finish); a datagram cut short decodes to nothing.        *)
(***************************************************************************)
DecodedIsSent == got # <<>> => got = <<Whole(msg)>>

(***************************************************************************)
(* A message that was encoded is accepted by the decoder of its class and  *)
(* carried unchanged by the raw one: decoding it to its element tree and   *)
(* encoding the tree gives the same octets (walk_ies, put_ie).             *)
(***************************************************************************)
EncodedIsDecodable ==
    wire # <<>> => /\ decode(wire, msg.mt) # <<>>
                   /\ RawEncode(RawDecode(wire)) = wire

(***************************************************************************)
(* pco_addr finds the first container of the wanted kind that is long      *)
(* enough for an address, wherever it stands among the others.  cs is a    *)
(* sequence of containers <<id, octets>>.                                  *)
(***************************************************************************)
PcscfFound(cs, want, alen) ==
    LET octets == [i \in DOMAIN cs |-> be_store(cs[i][1], 2) \o <<Len(cs[i][2])>> \o cs[i][2]]
        First(fit) == IF fit = <<>> THEN <<>> ELSE SubSeq(fit[1][2], 1, alen)
    IN  pco_addr(<<128>> \o FlattenSeq(octets), want, alen)
            = First(SelectSeq(cs, LAMBDA c : c[1] = want /\ Len(c[2]) >= alen))
=============================================================================
