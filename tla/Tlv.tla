-------------------------------- MODULE Tlv --------------------------------
(***************************************************************************)
(* The generic type-length-value codec (task/inc/tlv.h), the byte-order    *)
(* helpers under it (task/inc/endian.h) and the headers and entries of the *)
(* three protocols bound to it: GTPv2-C (gtp/v2/src/gtp2.c), GTPv1         *)
(* (gtp/v1/src/gtp1.c) and Diameter (diam/src/diam.c).                     *)
(*                                                                         *)
(* Octets are numbers, a buffer is the sequence of the octets written so   *)
(* far (off is its length) and offsets count from 0 as in C.  A function   *)
(* that writes returns [rc, w], one that reads returns [ok, ...].          *)
(***************************************************************************)
EXTENDS Integers, Sequences, SequencesExt, FiniteSetsExt

Sub(b, off, n) == SubSeq(b, off + 1, off + n)

Zeros(n) == [i \in 1..n |-> 0]

Patch(b, off, s) ==
    [i \in DOMAIN b |-> IF i - off \in DOMAIN s THEN s[i - off] ELSE b[i]]

Bit(octet, mask) == (octet \div mask) % 2 = 1

Flag(cond, mask) == IF cond THEN mask ELSE 0

be_load(s) == FoldLeft(LAMBDA v, x : v * 256 + x, 0, s)

be_store(v, n) ==
    LET shr[k \in 0..n] == IF k = 0 THEN v ELSE shr[k - 1] \div 256
    IN  [i \in 1..n |-> shr[n - i] % 256]

-----------------------------------------------------------------------------
(* Wire profiles.                                                          *)

TLV_NO_META == 255

TLV_PROF_GTP2C ==
    [hdr_len |-> 4, type_off |-> 0, type_size |-> 1, len_off |-> 1,
     len_size |-> 2, meta_off |-> 3, align |-> 1, len_incl_hdr |-> FALSE,
     big_endian |-> TRUE]

TLV_PROF_DIAMETER ==
    [hdr_len |-> 8, type_off |-> 0, type_size |-> 4, len_off |-> 5,
     len_size |-> 3, meta_off |-> 4, align |-> 4, len_incl_hdr |-> TRUE,
     big_endian |-> TRUE]

\* The host is little-endian.
Ordered(s, big) == IF big THEN s ELSE Reverse(s)

tlv_load(s, big) == be_load(Ordered(s, big))

tlv_store(v, n, big) == Ordered(be_store(v, n), big)

tlv_len_max(p) == 256 ^ p.len_size - 1

Padded(p, n) == n + ((p.align - (n % p.align)) % p.align)

-----------------------------------------------------------------------------
(* Reading.                                                                *)

\* One step of the iterator standing at cur, over the octets before end.
tlv_iter_next(b, cur, end, p) ==
    LET avail == end - cur
        field(off, n) == tlv_load(Sub(b, cur + off, n), p.big_endian)
        View(lfield, vlen) ==
          IF \/ avail < p.hdr_len
             \/ p.len_incl_hdr /\ lfield < p.hdr_len
             \/ vlen > avail - p.hdr_len
          THEN [ok |-> FALSE]
          ELSE [ok    |-> TRUE,
                type  |-> field(p.type_off, p.type_size),
                meta  |-> IF p.meta_off = TLV_NO_META THEN 0
                          ELSE b[cur + p.meta_off + 1],
                value |-> cur + p.hdr_len,
                len   |-> vlen,
                cur   |-> cur + Min({Padded(p, p.hdr_len + vlen), avail})]
        Sized(lfield) == View(lfield, IF p.len_incl_hdr THEN lfield - p.hdr_len ELSE lfield)
    IN  Sized(field(p.len_off, p.len_size))

\* A Diameter AVP with the V bit starts with its Vendor-ID.
diam_avp_iter_next(b, cur, end) ==
    LET Avp(v) ==
          IF ~v.ok THEN v
          ELSE IF ~Bit(v.meta, 128) THEN v @@ [vendor |-> 0]
          ELSE IF v.len < 4 THEN [ok |-> FALSE]
          ELSE [v EXCEPT !.value = @ + 4, !.len = @ - 4]
                 @@ [vendor |-> be_load(Sub(b, v.value, 4))]
    IN  Avp(tlv_iter_next(b, cur, end, TLV_PROF_DIAMETER))

gtp2_ie_iter_next(b, cur, end) ==
    LET Ie(v) == IF v.ok THEN [v EXCEPT !.meta = @ % 16] ELSE v
    IN  Ie(tlv_iter_next(b, cur, end, TLV_PROF_GTP2C))

\* TV entries have the length the table gives their type; an unknown TV type
\* ends the walk.  TLV entries have a two-octet length.
gtp1_ie_iter_next(b, cur, end, tvlen) ==
    LET type == b[cur + 1]
        Ie(hdr, vlen) ==
          IF end - cur < hdr \/ (type < 128 /\ vlen = 0) \/ vlen > end - cur - hdr
          THEN [ok |-> FALSE]
          ELSE [ok |-> TRUE, type |-> type, meta |-> 0, value |-> cur + hdr,
                len |-> vlen, cur |-> cur + hdr + vlen]
    IN  IF end - cur < 1 THEN [ok |-> FALSE]
        ELSE IF type >= 128 THEN Ie(3, be_load(Sub(b, cur + 1, 2)))
        ELSE Ie(1, IF type \in DOMAIN tvlen THEN tvlen[type] ELSE 0)

-----------------------------------------------------------------------------
(* Writing.                                                                *)

TLV_OK == 0
TLV_E_OVERFLOW == -1
TLV_E_INVAL == -2

tlv_wbuf_init(cap) == [buf |-> <<>>, cap |-> cap, overflow |-> FALSE]

\* Mutant: what does not fit is refused without a trace.
Append_forgets(w, s) ==
    IF Len(s) > w.cap - Len(w.buf) THEN [rc |-> TLV_E_OVERFLOW, w |-> w]
    ELSE [rc |-> TLV_OK, w |-> [w EXCEPT !.buf = @ \o s]]

\* tlv_wbuf_reserve and the append that follows it: overflow is sticky.
Append_(w, s) ==
    IF w.overflow \/ Len(s) > w.cap - Len(w.buf)
    THEN [rc |-> TLV_E_OVERFLOW, w |-> [w EXCEPT !.overflow = TRUE]]
    ELSE [rc |-> TLV_OK, w |-> [w EXCEPT !.buf = @ \o s]]

\* TLV_NO_META lies past every header, so that nothing is patched.
Header(p, type, meta, lfield) ==
    Patch(Patch(Patch(Zeros(p.hdr_len),
                      p.type_off, tlv_store(type, p.type_size, p.big_endian)),
                p.len_off, tlv_store(lfield, p.len_size, p.big_endian)),
          p.meta_off, <<meta>>)

tlv_put(w, p, type, meta, val) ==
    LET lfield == Len(val) + IF p.len_incl_hdr THEN p.hdr_len ELSE 0
        n      == p.hdr_len + Len(val)
    IN  IF lfield > tlv_len_max(p) THEN [rc |-> TLV_E_INVAL, w |-> w]
        ELSE Append_(w, Header(p, type, meta, lfield) \o val
                          \o Zeros(Padded(p, n) - n))

\* The handle is the offset of the header whose length tlv_end fills in.
Handle(r, h) == IF r.rc < 0 THEN r ELSE [r EXCEPT !.rc = h]

tlv_begin(w, p, type, meta) == Handle(Append_(w, Header(p, type, meta, 0)), Len(w.buf))

tlv_end(w, p, h) ==
    LET End(content, lfield) ==
          IF h < 0 \/ content < p.hdr_len THEN [rc |-> TLV_E_INVAL, w |-> w]
          ELSE IF lfield > tlv_len_max(p) THEN [rc |-> TLV_E_OVERFLOW, w |-> w]
          ELSE Append_([w EXCEPT !.buf = Patch(@, h + p.len_off,
                                   tlv_store(lfield, p.len_size, p.big_endian))],
                       Zeros(Padded(p, content) - content))
        Sized(content) == End(content, IF p.len_incl_hdr THEN content ELSE content - p.hdr_len)
    IN  IF w.overflow THEN [rc |-> TLV_E_OVERFLOW, w |-> w] ELSE Sized(Len(w.buf) - h)

\* The first failing call ends a chain of them.
Then(r, Op(_)) == IF r.rc < 0 THEN r ELSE Op(r.w)

\* A Vendor-ID sets the V bit; a V bit without one is refused.
diam_flags(flags, vendor) ==
    IF vendor # 0 THEN (IF Bit(flags, 128) THEN flags ELSE flags + 128)
    ELSE IF Bit(flags, 128) THEN TLV_E_INVAL ELSE flags

diam_avp_begin(w, code, flags, vendor) ==
    LET Vendored(h) == IF vendor = 0 \/ h.rc < 0 THEN h
                       ELSE Handle(Append_(h.w, be_store(vendor, 4)), h.rc)
        Begun(f) == IF f < 0 THEN [rc |-> f, w |-> w]
                    ELSE Vendored(tlv_begin(w, TLV_PROF_DIAMETER, code, f))
    IN  Begun(diam_flags(flags, vendor))

avp_end(r, h) == Then(r, LAMBDA w : tlv_end(w, TLV_PROF_DIAMETER, h))

diam_avp_put(w, code, flags, vendor, val) ==
    LET Begun(r) == IF r.rc < 0 THEN r ELSE avp_end(Append_(r.w, val), r.rc)
    IN  IF vendor = 0 /\ ~Bit(flags, 128)
        THEN tlv_put(w, TLV_PROF_DIAMETER, code, flags, val)
        ELSE Begun(diam_avp_begin(w, code, flags, vendor))

gtp1_ie_put(w, type, val) ==
    Append_(w, IF type < 128 THEN <<type>> \o val
               ELSE <<type>> \o be_store(Len(val), 2) \o val)

-----------------------------------------------------------------------------
(* Message headers: [hl, ...] with hl the length of the header, hl < 0 an  *)
(* error.  id is the TEID or the Hop-by-Hop identifier, seq the sequence   *)
(* number or the End-to-End identifier.                                    *)

E_SHORT == -1
E_VERSION == -2
E_LENGTH == -3

gtp2_hdr_encode(h) ==
    <<64 + Flag(h.has_teid, 8), h.mt>> \o be_store(0, 2)
      \o (IF h.has_teid THEN be_store(h.id, 4) ELSE <<>>)
      \o be_store(h.seq % 256 ^ 3, 3) \o <<0>>

gtp2_hdr_decode(b) ==
    LET has == Bit(b[1], 8)
        hl  == IF has THEN 12 ELSE 8
        Hdr(end) ==
          CASE Len(b) < 8              -> [hl |-> E_SHORT]
            [] b[1] \div 32 # 2        -> [hl |-> E_VERSION]
            [] Len(b) < hl             -> [hl |-> E_SHORT]
            [] end > Len(b) \/ end < hl -> [hl |-> E_LENGTH]
            [] OTHER -> [hl |-> hl, end |-> end, mt |-> b[2], has_teid |-> has,
                         id |-> IF has THEN be_load(Sub(b, 4, 4)) ELSE 0,
                         seq |-> be_load(Sub(b, hl - 4, 3))]
    IN  Hdr(be_load(Sub(b, 2, 2)) + 4)

\* The finalizers fill in the length once every entry is written.
Finalize(w, min, off, n, counted) ==
    LET length == Len(w.buf) - counted
    IN  IF w.overflow THEN [rc |-> TLV_E_OVERFLOW, w |-> w]
        ELSE IF Len(w.buf) < min THEN [rc |-> TLV_E_INVAL, w |-> w]
        ELSE IF length > 256 ^ n - 1 THEN [rc |-> TLV_E_OVERFLOW, w |-> w]
        ELSE [rc |-> TLV_OK,
              w |-> [w EXCEPT !.buf = Patch(@, off, be_store(length, n))]]

gtp2_hdr_finalize(w) == Finalize(w, 8, 2, 2, 4)

gtp1_hdr_finalize(w) == Finalize(w, 8, 2, 2, 8)

diam_hdr_finalize(w) == Finalize(w, 20, 1, 3, 0)

gtp1_hdr_encode(h) ==
    <<32 + 16 + 2, h.mt>> \o be_store(0, 2) \o be_store(h.id, 4)
      \o be_store(h.seq, 2) \o <<0, 0>>

\* The chain of extension headers that starts at off with type next: where
\* the entries begin, or E_LENGTH.
gtp1_ext(b, first, total) ==
    LET skip[off \in 12..total, next \in 0..255] ==
          IF next = 0 THEN off
          ELSE IF off >= total THEN E_LENGTH
          ELSE LET n == b[off + 1] * 4
               IN  IF n = 0 \/ off + n > total THEN E_LENGTH
                   ELSE skip[off + n, b[off + n]]
    IN  skip[12, first]

gtp1_hdr_decode(b) ==
    LET opt == b[1] % 8 # 0
        Hdr(total) ==
          CASE Len(b) < 8                             -> [hl |-> E_SHORT]
            [] b[1] \div 32 # 1 \/ ~Bit(b[1], 16)     -> [hl |-> E_VERSION]
            [] total > Len(b) \/ (opt /\ total < 12)  -> [hl |-> E_LENGTH]
            [] OTHER -> [hl |-> IF ~opt THEN 8
                                ELSE gtp1_ext(b, IF Bit(b[1], 4) THEN b[12] ELSE 0, total),
                         end |-> total, mt |-> b[2], id |-> be_load(Sub(b, 4, 4)),
                         seq |-> IF Bit(b[1], 2) THEN be_load(Sub(b, 8, 2)) ELSE 0]
    IN  Hdr(8 + be_load(Sub(b, 2, 2)))

DIAM_HDR_F == [request |-> 128, proxiable |-> 64, error |-> 32, retransmit |-> 16]

diam_hdr_encode(h) ==
    <<1>> \o be_store(0, 3)
      \o <<MapThenSumSet(LAMBDA f : DIAM_HDR_F[f], h.flags)>> \o be_store(h.mt, 3)
      \o be_store(h.app, 4) \o be_store(h.id, 4) \o be_store(h.seq, 4)

diam_hdr_decode(b) ==
    LET field(off, n) == be_load(Sub(b, off, n))
        Hdr(end) ==
          CASE Len(b) < 20                                  -> [hl |-> E_SHORT]
            [] b[1] # 1                                     -> [hl |-> E_VERSION]
            [] end < 20 \/ end > Len(b) \/ end % 4 # 0      -> [hl |-> E_LENGTH]
            [] OTHER -> [hl |-> 20, end |-> end, mt |-> field(5, 3),
                         flags |-> {f \in DOMAIN DIAM_HDR_F : Bit(b[5], DIAM_HDR_F[f])},
                         app |-> field(8, 4), id |-> field(12, 4), seq |-> field(16, 4)]
    IN  Hdr(field(1, 3))
=============================================================================
