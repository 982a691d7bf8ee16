------------------------------- MODULE SmsRelay -------------------------------
(***************************************************************************)
(* Short messages, from the octets up: the user data (sms/src/sms_ud.c,    *)
(* sms/src/sms_intl.h), the PDUs of the transfer and relay layers          *)
(* (sms/src/sms.c, sms_write.c, sms_rp.c), the flat messages of the C++    *)
(* facade (bindings/cxx/src/sms.cpp), and a sender, a gateway and a        *)
(* recipient that use them the way bindings/examples/ims/sms_phase.lua and *)
(* ipsmgw.lua (loopback) do.  Every MESSAGE may be repeated, delayed,      *)
(* overtaken or lost on either leg.                                        *)
(*                                                                         *)
(* Texts and buffers are sequences of octets.  A function that can fail    *)
(* returns [rc, v]: v is the result when rc is SMS_OK.  A TPDU is the      *)
(* facade's Tpdu, one record with the fields of all six types.  The        *)
(* symbols of a number are their semi-octets (0..9, * # a b c as 10..14);  *)
(* an optional part is a sequence of at most one.                          *)
(*                                                                         *)
(* Timers, latencies and the RP reports are left out: they do not decide   *)
(* what the recipient reads.                                               *)
(***************************************************************************)
EXTENDS Tlv

CONSTANTS
    SMS_UD_MAX, \* octets of user data one message holds (140)
    Items,      \* [text, alphabet]: what the phase submits
    FirstSeq,   \* messages submitted, and settled, before
    MaxSubmits  \* bound on submits

VARIABLES
    mr_seq,     \* messages submitted so far
    groups,     \* sms_groups: concatenation reference -> message in parts
    wait,       \* sms_wait: parts sent and not yet accounted for
    net,        \* RPDUs sent: [to, pdu, of], each deliverable any number of
                \* times; of, the part it is: <<message, part, parts>>
    verified,   \* [n, sent, got]: texts compared by verify, message n in parts
    heard       \* the parts that reached match_delivery

vars == <<mr_seq, groups, wait, net, verified, heard>>

SMS_OK == 0
SMS_E_SHORT == -1
SMS_E_LENGTH == -2
SMS_E_OVERFLOW == -3
SMS_E_INVAL == -4
SMS_E_ALPHABET == -5
SMS_E_MTI == -6

Ok(v) == [rc |-> SMS_OK, v |-> v]
Err(e) == [rc |-> e, v |-> <<>>]

ALPHA_AUTO == -1
ALPHA_GSM7 == 0
ALPHA_8BIT == 1
ALPHA_UCS2 == 2
ALPHA_RESERVED == 3

-----------------------------------------------------------------------------
(* Data coding scheme.                                                     *)

sms_dcs_decode(dcs) ==
    LET group == dcs \div 16
        none  == [alphabet |-> ALPHA_GSM7, compressed |-> FALSE,
                  has_class |-> FALSE, cls |-> 0, auto_delete |-> FALSE,
                  mwi |-> FALSE, mwi_active |-> FALSE, mwi_discard |-> FALSE,
                  mwi_type |-> 0]
    IN  CASE group <= 7 ->
               [none EXCEPT !.auto_delete = group >= 4,
                            !.compressed  = Bit(dcs, 32),
                            !.has_class   = Bit(dcs, 16),
                            !.cls         = dcs % 4,
                            !.alphabet    = IF Bit(dcs, 32) THEN ALPHA_RESERVED
                                            ELSE (dcs \div 4) % 4]
          [] group \in 12..14 ->
               [none EXCEPT !.mwi = TRUE, !.mwi_discard = (group = 12),
                            !.mwi_active = Bit(dcs, 8), !.mwi_type = dcs % 4,
                            !.alphabet = IF group = 14 THEN ALPHA_UCS2 ELSE ALPHA_GSM7]
          [] group = 15 ->
               [none EXCEPT !.has_class = TRUE, !.cls = dcs % 4,
                            !.alphabet = IF Bit(dcs, 4) THEN ALPHA_8BIT ELSE ALPHA_GSM7]
          [] OTHER -> [none EXCEPT !.alphabet = ALPHA_RESERVED]

sms_dcs_make(alphabet, cls) ==
    (CASE alphabet = ALPHA_8BIT -> 4 [] alphabet = ALPHA_UCS2 -> 8 [] OTHER -> 0)
      + (IF cls \in 0..3 THEN 16 + cls ELSE 0)

sms_dcs_alphabet(dcs) == sms_dcs_decode(dcs).alphabet

-----------------------------------------------------------------------------
(* UTF-8.                                                                  *)

\* The value of a sequence: its first octet c without the marker, and more.
utf8_value(c, more) ==
    FoldLeft(LAMBDA acc, x : acc * 64 + (x % 64),
             IF more = <<>> THEN c ELSE c % 2 ^ (6 - Len(more)), more)

\* Continuation octets, no longer than need be, no surrogate, in range.
utf8_sound(v, more) ==
    /\ \A k \in DOMAIN more : more[k] \div 64 = 2
    /\ v >= <<0, 128, 2048, 65536>>[Len(more) + 1]
    /\ v <= 1114111 /\ v \notin 55296..57343

\* The code point at s[i..] and the offset after it; cp = -1 when malformed.
sms_utf8_next(s, i) ==
    LET c == s[i + 1]
        Value(v, more) == IF utf8_sound(v, more) THEN [cp |-> v, i |-> i + 1 + Len(more)]
                          ELSE [cp |-> -1, i |-> i]
        With(more) == Value(utf8_value(c, more), more)
        Took(extra) == IF i + 1 + extra > Len(s) THEN [cp |-> -1, i |-> i]
                       ELSE With(Sub(s, i + 1, extra))
    IN  Took(CASE c < 128 -> 0 [] c \in 192..223 -> 1 [] c \in 224..239 -> 2
               [] c \in 240..247 -> 3 [] OTHER -> Len(s))

\* The code points of s, ended by -1 where s is malformed.
CodePoints(s) ==
    LET walk[i \in 0..Len(s)] ==
          IF i = Len(s) THEN <<>>
          ELSE LET From(n) == IF n.cp < 0 THEN <<-1>> ELSE <<n.cp>> \o walk[n.i]
               IN  From(sms_utf8_next(s, i))
    IN  walk[0]

sms_utf8_put(c) ==
    CASE c < 128   -> <<c>>
      [] c \in 128..2047    -> <<192 + c \div 64, 128 + (c % 64)>>
      [] c \in 2048..65535  -> <<224 + c \div 4096, 128 + ((c \div 64) % 64),
                                 128 + (c % 64)>>
      [] OTHER     -> <<240 + c \div 262144, 128 + ((c \div 4096) % 64),
                        128 + ((c \div 64) % 64), 128 + (c % 64)>>

-----------------------------------------------------------------------------
(* The GSM 7-bit default alphabet and its extension table.                 *)

gsm7_basic ==
    <<64, 163, 36, 165, 232, 233, 249, 236, 242, 199, 10, 216, 248, 13, 197, 229,
      916, 95, 934, 915, 923, 937, 928, 936, 931, 920, 926, 27, 198, 230, 223, 201>>
      \o [i \in 1..4 |-> 31 + i] \o <<164>> \o [i \in 1..27 |-> 36 + i]
      \o <<161>> \o [i \in 1..26 |-> 64 + i] \o <<196, 214, 209, 220, 167>>
      \o <<191>> \o [i \in 1..26 |-> 96 + i] \o <<228, 246, 241, 252, 224>>

gsm7_ext == (10 :> 12) @@ (20 :> 94) @@ (40 :> 123) @@ (41 :> 125) @@ (47 :> 92)
              @@ (60 :> 91) @@ (61 :> 126) @@ (62 :> 93) @@ (64 :> 124)
              @@ (101 :> 8364)

\* One septet, an escape pair, or <<>> when the alphabet has no such character.
sms_gsm7_from_ucs(ucs) ==
    LET First(basic, ext) == IF basic # {} THEN <<Min(basic)>>
                             ELSE IF ext # {} THEN <<27, Min(ext)>> ELSE <<>>
    IN  First({i \in 0..127 \ {27} : gsm7_basic[i + 1] = ucs},
              {e \in DOMAIN gsm7_ext : gsm7_ext[e] = ucs})

sms_gsm7_from_utf8(s) ==
    LET Mapped(cps, sep) ==
          LET bad == {i \in DOMAIN cps : sep[i] = <<>>}
          IN  IF bad = {} THEN Ok(FlattenSeq(sep))
              ELSE Err(IF cps[Min(bad)] = -1 THEN SMS_E_INVAL ELSE SMS_E_ALPHABET)
        Of(cps) == Mapped(cps, [i \in DOMAIN cps |-> sms_gsm7_from_ucs(cps[i])])
    IN  Of(CodePoints(s))

\* An escape onto nothing, or at the end, is a space.
sms_gsm7_to_utf8(sep) ==
    LET walk[i \in 1..Len(sep) + 2] ==
          IF i > Len(sep) THEN <<>>
          ELSE sms_utf8_put(IF sep[i] # 27 THEN gsm7_basic[sep[i] + 1]
                            ELSE IF i < Len(sep) /\ sep[i + 1] \in DOMAIN gsm7_ext
                            THEN gsm7_ext[sep[i + 1]] ELSE 32)
                 \o walk[i + IF sep[i] # 27 THEN 1 ELSE 2]
    IN  walk[1]

-----------------------------------------------------------------------------
(* Septet packing, least significant bit first.                            *)

sms_gsm7_septet_off(udh_len) == (udh_len * 8 + 6) \div 7

BitOf(s, width, i) == (s[(i \div width) + 1] \div 2 ^ (i % width)) % 2

Cells(bit(_), width, n) ==
    [k \in 1..n |-> MapThenSumSet(LAMBDA j : 2 ^ j * bit(width * (k - 1) + j),
                                  0..width - 1)]

\* The septets go into out from septet off on; what lies below stays.
sms_gsm7_pack(sep, off, out) ==
    LET bit(i) == IF i < off * 7 THEN (IF i < 8 * Len(out) THEN BitOf(out, 8, i) ELSE 0)
                  ELSE IF i < (off + Len(sep)) * 7 THEN BitOf(sep, 7, i - off * 7)
                  ELSE 0
    IN  Cells(bit, 8, ((off + Len(sep)) * 7 + 7) \div 8)

sms_gsm7_unpack(in, off, count) ==
    IF count # 0 /\ (off + count) * 7 > Len(in) * 8 THEN Err(SMS_E_LENGTH)
    ELSE Ok(Cells(LAMBDA i : BitOf(in, 8, off * 7 + i), 7, count))

-----------------------------------------------------------------------------
(* User data header and concatenation.                                     *)

\* The header with its length octet; 0 when it claims more than there is.
sms_udh_len(ud) == IF ud = <<>> \/ ud[1] + 1 > Len(ud) THEN 0 ELSE ud[1] + 1

\* The elements up to the first that runs off the end.
UdhElements(ud) ==
    LET Within(end) ==
          LET next[off \in 1..end + 1] ==
                IF off + 2 > end \/ off + 2 + ud[off + 2] > end THEN <<>>
                ELSE <<[iei |-> ud[off + 1], data |-> Sub(ud, off + 2, ud[off + 2])]>>
                       \o next[off + 2 + ud[off + 2]]
          IN  IF end <= 1 THEN <<>> ELSE next[1]
    IN  Within(sms_udh_len(ud))

sms_concat_get(ud) ==
    LET Read(d, n) == [ref |-> be_load(SubSeq(d, 1, n - 2)), total |-> d[n - 1],
                       seq |-> d[n], ref16 |-> n = 4]
        First(ies) == IF ies = <<>> THEN <<>> ELSE <<Read(ies[1].data, Len(ies[1].data))>>
    IN  First(SelectSeq(UdhElements(ud), LAMBDA e :
                  \/ e.iei = 0 /\ Len(e.data) = 3
                  \/ e.iei = 8 /\ Len(e.data) = 4))

sms_concat_udh(c) ==
    IF c.ref16 THEN <<6, 8, 4>> \o be_store(c.ref, 2) \o <<c.total, c.seq>>
    ELSE <<5, 0, 3, c.ref % 256, c.total, c.seq>>

-----------------------------------------------------------------------------
(* TP-UD from and to UTF-8.                                                *)

\* A character outside the basic plane becomes a surrogate pair.
Utf16(c) ==
    IF c < 65536 THEN be_store(c, 2)
    ELSE be_store(55296 + (c - 65536) \div 1024, 2)
           \o be_store(56320 + ((c - 65536) % 1024), 2)

\* GSM 7-bit where the text has only its characters, else UCS-2.
auto_alphabet(s, alphabet) ==
    IF alphabet # ALPHA_AUTO THEN alphabet
    ELSE IF sms_gsm7_from_utf8(s).rc = SMS_OK THEN ALPHA_GSM7 ELSE ALPHA_UCS2

Done(alpha, ud, udl) == Ok([ud |-> ud, udl |-> udl, dcs |-> sms_dcs_make(alpha, -1)])

ud_gsm7(gsm, off, udh) ==
    LET total == off + Len(gsm.v)
    IN  IF gsm.rc < 0 THEN gsm
        ELSE IF total > 255 \/ (total * 7 + 7) \div 8 > SMS_UD_MAX THEN Err(SMS_E_LENGTH)
        ELSE Done(ALPHA_GSM7, sms_gsm7_pack(gsm.v, off, udh), total)

ud_ucs2(cps, udh) ==
    LET Whole(ud) == IF Len(ud) > SMS_UD_MAX THEN Err(SMS_E_OVERFLOW)
                     ELSE Done(ALPHA_UCS2, ud, Len(ud))
    IN  IF \E i \in DOMAIN cps : cps[i] = -1 THEN Err(SMS_E_INVAL)
        ELSE Whole(udh \o FlattenSeq([i \in DOMAIN cps |-> Utf16(cps[i])]))

ud_encode(s, alpha, udh) ==
    CASE alpha = ALPHA_GSM7 ->
           ud_gsm7(sms_gsm7_from_utf8(s), sms_gsm7_septet_off(Len(udh)), udh)
      [] alpha = ALPHA_UCS2 -> ud_ucs2(CodePoints(s), udh)
      [] alpha = ALPHA_8BIT ->
           IF Len(udh) + Len(s) > SMS_UD_MAX THEN Err(SMS_E_LENGTH)
           ELSE Done(ALPHA_8BIT, udh \o s, Len(udh) + Len(s))
      [] OTHER -> Err(SMS_E_ALPHABET)

sms_ud_from_utf8(s, alphabet, udh) == ud_encode(s, auto_alphabet(s, alphabet), udh)

\* UTF-16BE to UTF-8; a lone surrogate becomes U+FFFD, an odd octet is dropped.
FromUtf16(p) ==
    LET unit(i) == be_load(Sub(p, i, 2))
        walk[i \in 0..Len(p) + 1] ==
          IF i + 1 >= Len(p) THEN <<>>
          ELSE IF unit(i) \in 55296..56319 /\ i + 3 < Len(p)
                  /\ unit(i + 2) \in 56320..57343
          THEN sms_utf8_put(65536 + (unit(i) - 55296) * 1024 + unit(i + 2) - 56320)
                 \o walk[i + 4]
          ELSE sms_utf8_put(IF unit(i) \in 55296..57343 THEN 65533 ELSE unit(i))
                 \o walk[i + 2]
    IN  walk[0]

ud_decode(alpha, udhi, udhl, ud, udl) ==
    LET off == sms_gsm7_septet_off(udhl)
        Text(sep) == IF sep.rc < 0 THEN sep ELSE Ok(sms_gsm7_to_utf8(sep.v))
    IN  CASE udhi /\ udhl = 0      -> Err(SMS_E_LENGTH)
          [] udl = 0               -> Ok(<<>>)
          [] alpha = ALPHA_GSM7    ->
               IF udl < off THEN Err(SMS_E_LENGTH)
               ELSE Text(sms_gsm7_unpack(ud, off, udl - off))
          [] alpha \in {ALPHA_UCS2, ALPHA_8BIT} /\ (udl > Len(ud) \/ udl < udhl) ->
               Err(SMS_E_LENGTH)
          [] alpha = ALPHA_UCS2    -> Ok(FromUtf16(Sub(ud, udhl, udl - udhl)))
          [] alpha = ALPHA_8BIT    -> Ok(Sub(ud, udhl, udl - udhl))
          [] OTHER                 -> Err(SMS_E_ALPHABET)

sms_ud_to_utf8(dcs, udhi, ud, udl) ==
    ud_decode(sms_dcs_alphabet(dcs), udhi, IF udhi THEN sms_udh_len(ud) ELSE 0, ud, udl)

-----------------------------------------------------------------------------
(* Splitting.  A text is cut into its characters, as octets with the wire  *)
(* units each takes: septets for GSM 7-bit, octets otherwise.              *)

Chars(s, alphabet) ==
    IF alphabet = ALPHA_8BIT THEN [i \in DOMAIN s |-> [s |-> <<s[i]>>, w |-> 1]]
    ELSE LET Char(c) == [s |-> sms_utf8_put(c),
                         w |-> IF alphabet = ALPHA_GSM7 THEN Len(sms_gsm7_from_ucs(c))
                               ELSE Len(Utf16(c))]
             Each(cps) == [i \in DOMAIN cps |-> Char(cps[i])]
         IN  Each(CodePoints(s))

wire_units(chars) == FoldLeft(LAMBDA n, c : n + c.w, 0, chars)

\* The first character after the part that starts at from.
split_at(chars, from, budget) ==
    Max({e \in from..Len(chars) + 1 : wire_units(SubSeq(chars, from, e - 1)) <= budget})

\* Where the parts begin, and the end; a character wider than a part stops it.
split_cuts(chars, budget) ==
    LET cuts[i \in 1..Len(chars) + 1] ==
          LET From(e) == IF e = i THEN <<i>> ELSE <<i>> \o cuts[e]
          IN  IF i > Len(chars) THEN <<i>> ELSE From(split_at(chars, i, budget))
    IN  cuts[1]

split_parts(chars, at, alpha, ref, ref16, max) ==
    LET count == Len(at) - 1
        text(k) == FlattenSeq([j \in 1..at[k + 1] - at[k] |-> chars[at[k] + j - 1].s])
        udh(k) == sms_concat_udh([ref |-> ref, total |-> count, seq |-> k, ref16 |-> ref16])
    IN  IF Last(at) <= Len(chars) \/ count > max \/ count > 255 THEN Err(SMS_E_LENGTH)
        ELSE Ok([k \in 1..count |-> sms_ud_from_utf8(text(k), alpha, udh(k)).v
                                       @@ [seq |-> k, total |-> count]])

\* One part if it fits; what the alphabet cannot carry fails either way.
split_chars(chars, single, alpha, ref, ref16, max) ==
    LET udhl   == IF ref16 THEN 7 ELSE 6
        octets(units) == IF alpha = ALPHA_GSM7 THEN (units * 7 + 7) \div 8 ELSE units
        budget == IF alpha = ALPHA_GSM7
                  THEN (SMS_UD_MAX * 8) \div 7 - sms_gsm7_septet_off(udhl)
                  ELSE SMS_UD_MAX - udhl
    IN  IF single.rc \in {SMS_E_INVAL, SMS_E_ALPHABET} THEN single
        ELSE IF octets(wire_units(chars)) <= SMS_UD_MAX
             THEN IF single.rc < 0 THEN single
                  ELSE Ok(<<single.v @@ [seq |-> 1, total |-> 1]>>)
        ELSE split_parts(chars, split_cuts(chars, budget), alpha, ref, ref16, max)

split_as(s, alpha, ref, ref16, max) ==
    split_chars(Chars(s, alpha), sms_ud_from_utf8(s, alpha, <<>>), alpha, ref, ref16, max)

\* The parts of s, <<part, ...>>; max is the room the caller has for them.
sms_concat_split(s, alphabet, ref, ref16, max) ==
    split_as(s, auto_alphabet(s, alphabet), ref, ref16, max)

SMS_CD_MAX == 156
SMS_ADDR_MAX_DIGITS == 20
SMS_ADDR_MAX_OCTETS == 12
SMS_TPDU_MAX == 176
SMS_RP_MAX == 256
SMS_RP_ADDR_MAX == 12
SMS_YEAR_PIVOT == 70
TON_INTERNATIONAL == 1
TON_ALPHANUM == 5
MS_TO_SC == 0
SC_TO_MS == 1

\* A decoder's result also says how many octets it took.
Took(v, n) == [rc |-> n, v |-> v]

-----------------------------------------------------------------------------
(* Addresses.                                                              *)

\* Two symbols an octet, the first one low; 15 fills up an odd number.
SemiOctets(d) ==
    [i \in 1..(Len(d) + 1) \div 2 |->
        d[2 * i - 1] + 16 * (IF 2 * i <= Len(d) THEN d[2 * i] ELSE 15)]

Symbols(b) ==
    [i \in 1..2 * Len(b) |-> IF i % 2 = 1 THEN b[(i + 1) \div 2] % 16
                             ELSE b[i \div 2] \div 16]

Toa(a) == 128 + a.ton * 16 + a.npi

sms_addr_encode(a) ==
    LET Packed(text) == IF Len(text) > SMS_ADDR_MAX_OCTETS - 2 THEN Err(SMS_E_LENGTH)
                        ELSE Ok(<<2 * Len(text), Toa(a)>> \o text)
        Name(sep) == IF sep.rc < 0 THEN sep ELSE Packed(sms_gsm7_pack(sep.v, 0, <<>>))
    IN  IF a.ton = TON_ALPHANUM THEN Name(sms_gsm7_from_utf8(a.digits))
        ELSE IF Len(a.digits) > SMS_ADDR_MAX_DIGITS THEN Err(SMS_E_LENGTH)
        ELSE Ok(<<Len(a.digits), Toa(a)>> \o SemiOctets(a.digits))

sms_addr_decode(b) ==
    LET alen == b[1]
        vlen == (alen + 1) \div 2
        ton  == (b[2] \div 16) % 8
        Addr(digits) == Took([ton |-> ton, npi |-> b[2] % 16, digits |-> digits], 2 + vlen)
        Number(syms) == IF \E i \in DOMAIN syms : syms[i] = 15 THEN Err(SMS_E_LENGTH)
                        ELSE Addr(syms)
        val == Sub(b, 2, vlen)
    IN  IF Len(b) < 2 THEN Err(SMS_E_SHORT)
        ELSE IF alen > SMS_ADDR_MAX_DIGITS THEN Err(SMS_E_LENGTH)
        ELSE IF Len(b) < 2 + vlen THEN Err(SMS_E_SHORT)
        ELSE IF ton = TON_ALPHANUM
             THEN Addr(sms_gsm7_to_utf8(sms_gsm7_unpack(val, 0, (vlen * 8) \div 7).v))
        ELSE Number(SubSeq(Symbols(val), 1, alen))

-----------------------------------------------------------------------------
(* Time stamps: local time and its offset tz in quarters of an hour.       *)

sms_bcd2(o) == IF o % 16 > 9 \/ o \div 16 > 9 THEN -1 ELSE (o % 16) * 10 + o \div 16

sms_bcd2_enc(v) == (v % 10) * 16 + ((v \div 10) % 10)

sms_ts_encode(t) ==
    IF \/ t.year \notin 1970..2069 \/ t.mon > 12 \/ t.day > 31
       \/ t.hour > 23 \/ t.min > 59 \/ t.sec > 59 \/ t.tz \notin -48..48
    THEN Err(SMS_E_INVAL)
    ELSE LET qh == IF t.tz < 0 THEN -t.tz ELSE t.tz
         IN  Ok(<<sms_bcd2_enc(t.year % 100), sms_bcd2_enc(t.mon),
                  sms_bcd2_enc(t.day), sms_bcd2_enc(t.hour), sms_bcd2_enc(t.min),
                  sms_bcd2_enc(t.sec),
                  (qh % 10) * 16 + qh \div 10 + Flag(t.tz < 0, 8)>>)

sms_ts_decode(b) ==
    LET f   == [i \in 1..6 |-> sms_bcd2(b[i])]
        qh  == (b[7] % 8) * 10 + b[7] \div 16
    IN  IF Len(b) < 7 THEN Err(SMS_E_SHORT)
        ELSE IF (\E i \in 1..6 : f[i] < 0) \/ b[7] \div 16 > 9 \/ qh > 48
        THEN Err(SMS_E_LENGTH)
        ELSE Took([year |-> (IF f[1] < SMS_YEAR_PIVOT THEN 2000 ELSE 1900) + f[1],
                   mon |-> f[2], day |-> f[3], hour |-> f[4], min |-> f[5],
                   sec |-> f[6], tz |-> IF Bit(b[7], 8) THEN -qh ELSE qh], 7)

\* Days since 1970-01-01, and back; the years the codec accepts are positive.
days_from_civil(y0, m, d) ==
    LET y   == IF m <= 2 THEN y0 - 1 ELSE y0
        era == y \div 400
        yoe == y - era * 400
        doy == (153 * (IF m > 2 THEN m - 3 ELSE m + 9) + 2) \div 5 + d - 1
    IN  era * 146097 + yoe * 365 + yoe \div 4 - yoe \div 100 + doy - 719468

civil_from_days(z0) ==
    LET z == z0 + 719468
        Date(y, doy, mp, m) == [year |-> y + (IF m <= 2 THEN 1 ELSE 0), mon |-> m,
                                day |-> doy - (153 * mp + 2) \div 5 + 1]
        Month(y, doy, mp) == Date(y, doy, mp, IF mp < 10 THEN mp + 3 ELSE mp - 9)
        Day(y, doy) == Month(y, doy, (5 * doy + 2) \div 153)
        Year(era, doe, yoe) == Day(yoe + era * 400, doe - (365 * yoe + yoe \div 4 - yoe \div 100))
        Era(era, doe) ==
          Year(era, doe, (doe - doe \div 1460 + doe \div 36524 - doe \div 146096) \div 365)
    IN  Era(z \div 146097, z % 146097)

sms_ts_unix(t) ==
    IF \/ t.mon \notin 1..12 \/ t.day \notin 1..31
       \/ t.hour > 23 \/ t.min > 59 \/ t.sec > 59
    THEN -1
    ELSE days_from_civil(t.year, t.mon, t.day) * 86400
           + t.hour * 3600 + t.min * 60 + t.sec - t.tz * 900

sms_ts_from_unix(secs, tz0) ==
    LET Day(day, rem, tz) ==
          day @@ [hour |-> rem \div 3600, min |-> (rem % 3600) \div 60,
                  sec |-> rem % 60, tz |-> tz]
        At(local, tz) == Day(civil_from_days(local \div 86400), local % 86400, tz)
        In(tz) == At(secs + tz * 900, tz)
    IN  In(Max({-48, Min({48, tz0})}))

\* Validity periods: the code whose period is the shortest not below secs.
sms_vp_secs(rel) ==
    CASE rel <= 143         -> (rel + 1) * 300
      [] rel \in 144..167   -> 43200 + (rel - 143) * 1800
      [] rel \in 168..196   -> (rel - 166) * 86400
      [] OTHER              -> (rel - 192) * 604800

sms_vp_rel_from_secs(secs) ==
    CASE secs <= 43200             -> Max({1, (secs + 299) \div 300}) - 1
      [] secs \in 43201..86400     -> 143 + (secs - 43200 + 1799) \div 1800
      [] secs \in 86401..2592000   -> 166 + (secs + 86399) \div 86400
      [] OTHER                     -> 192 + Min({63, (secs + 604799) \div 604800})

-----------------------------------------------------------------------------
(* TPDUs: per type the flags of the first octet and the fields after it.   *)

DELIVER == 0
DELIVER_REPORT == 1
SUBMIT == 2
SUBMIT_REPORT == 3
STATUS_REPORT == 4
COMMAND == 5

no_addr == [ton |-> 0, npi |-> 0, digits |-> <<>>]
no_ts == [year |-> 0, mon |-> 0, day |-> 0, hour |-> 0, min |-> 0, sec |-> 0, tz |-> 0]

\* sms_tpdu_init and the facade's defaults.
Tpdu(type) ==
    [type |-> type, mms |-> FALSE, lp |-> FALSE, sri |-> FALSE, udhi |-> FALSE,
     rp |-> FALSE, rd |-> FALSE, srr |-> FALSE, srq |-> FALSE, addr |-> no_addr,
     mr |-> 0, pid |-> 0, dcs |-> 0, st |-> 0, ct |-> 0, mn |-> 0, fcs |-> <<>>,
     scts |-> no_ts, dt |-> no_ts, vpf |-> 0, vp_rel |-> 0, vp_abs |-> no_ts,
     enh |-> <<0, 0, 0, 0, 0, 0, 0>>, has_pi |-> FALSE, has_pid |-> FALSE, has_dcs |-> FALSE,
     has_ud |-> FALSE, ud |-> <<>>, udl |-> 0, cd |-> <<>>]

mti(type) == type \div 2

mti_type(m, dir) ==
    IF m = 3 THEN SMS_E_MTI
    ELSE IF dir = MS_TO_SC THEN <<DELIVER_REPORT, SUBMIT, COMMAND>>[m + 1]
    ELSE <<DELIVER, SUBMIT_REPORT, STATUS_REPORT>>[m + 1]

Flags(type) ==
    CASE type = DELIVER -> {<<"mms", 4>>, <<"lp", 8>>, <<"sri", 32>>, <<"udhi", 64>>,
                            <<"rp", 128>>}
      [] type = SUBMIT  -> {<<"rd", 4>>, <<"srr", 32>>, <<"udhi", 64>>, <<"rp", 128>>}
      [] type = STATUS_REPORT -> {<<"mms", 4>>, <<"lp", 8>>, <<"srq", 32>>, <<"udhi", 64>>}
      [] type = COMMAND -> {<<"srr", 32>>, <<"udhi", 64>>}
      [] OTHER -> {<<"udhi", 64>>}

Fields(type) ==
    CASE type = DELIVER        -> <<"addr", "pid", "dcs", "scts", "ud">>
      [] type = SUBMIT         -> <<"mr", "addr", "pid", "dcs", "vp", "ud">>
      [] type = STATUS_REPORT  -> <<"mr", "addr", "scts", "dt", "st", "tail">>
      [] type = COMMAND        -> <<"mr", "pid", "ct", "mn", "addr", "cd">>
      [] type = DELIVER_REPORT -> <<"fcs", "tail">>
      [] type = SUBMIT_REPORT  -> <<"fcs", "pi", "scts", "rest">>

\* write_ud
write_ud(t) == IF Len(t.ud) > SMS_UD_MAX THEN Err(SMS_E_LENGTH) ELSE Ok(<<t.udl>> \o t.ud)

pi_of(t) == Flag(t.has_pid, 1) + Flag(t.has_dcs, 2) + Flag(t.has_ud, 4)

write_pi_tail(t) ==
    LET head == (IF t.has_pid THEN <<t.pid>> ELSE <<>>)
                  \o (IF t.has_dcs THEN <<t.dcs>> ELSE <<>>)
        With(ud) == IF ud.rc < 0 THEN ud ELSE Ok(head \o ud.v)
    IN  With(IF t.has_ud THEN write_ud(t) ELSE Ok(<<>>))

Piece(t, f) ==
    CASE f = "addr" -> sms_addr_encode(t.addr)
      [] f \in {"scts", "dt"} -> sms_ts_encode(t[f])
      [] f = "vp"   -> <<Ok(<<>>), Ok(t.enh), Ok(<<t.vp_rel>>),
                         sms_ts_encode(t.vp_abs)>>[t.vpf + 1]
      [] f = "ud"   -> write_ud(t)
      [] f = "cd"   -> IF Len(t.cd) > SMS_CD_MAX THEN Err(SMS_E_LENGTH)
                       ELSE Ok(<<Len(t.cd)>> \o t.cd)
      [] f = "fcs"  -> Ok(t.fcs)
      [] f = "pi"   -> Ok(<<pi_of(t)>>)
      [] f = "rest" -> write_pi_tail(t)
      [] f = "tail" ->
           IF t.type = STATUS_REPORT /\ ~t.has_pi /\ pi_of(t) = 0 THEN Ok(<<>>)
           ELSE LET After(tail) == IF tail.rc < 0 THEN tail ELSE Ok(<<pi_of(t)>> \o tail.v)
                IN  After(write_pi_tail(t))
      [] OTHER      -> Ok(<<t[f]>>)

\* The first piece that fails or does not fit ends the encode.
Pieces(cap, s) ==
    FoldLeft(LAMBDA acc, p : IF acc.rc < 0 THEN acc
                             ELSE IF p.rc < 0 THEN p
                             ELSE IF Len(acc.v) + Len(p.v) > cap THEN Err(SMS_E_OVERFLOW)
                             ELSE Ok(acc.v \o p.v),
             Ok(<<>>), s)

sms_tpdu_encode(cap, t) ==
    LET o0 == mti(t.type) + MapThenSumSet(LAMBDA f : Flag(t[f[1]], f[2]), Flags(t.type))
                + (IF t.type = SUBMIT THEN t.vpf * 8 ELSE 0)
    IN  Pieces(cap, <<Ok(<<o0>>)>>
                      \o [i \in DOMAIN Fields(t.type) |-> Piece(t, Fields(t.type)[i])])

-----------------------------------------------------------------------------
(* Decoding: r is the cursor with the message so far, r.rc < 0 an error.   *)

Rest(b, r) == SubSeq(b, r.off + 1, Len(b))

Fail(r, e) == [r EXCEPT !.rc = e]

ReadOctet(b, r, f) ==
    IF r.rc < 0 THEN r
    ELSE IF r.off >= Len(b) THEN Fail(r, SMS_E_SHORT)
    ELSE [r EXCEPT !.m[f] = b[r.off + 1], !.off = @ + 1]

\* What d makes of the rest becomes field f.
ReadWith(r, f, d) ==
    IF d.rc < 0 THEN Fail(r, d.rc) ELSE [r EXCEPT !.m[f] = d.v, !.off = @ + d.rc]

ReadRun(b, r, f, n) ==
    IF Len(b) - r.off < n THEN Fail(r, SMS_E_SHORT)
    ELSE [r EXCEPT !.m[f] = Sub(b, r.off, n), !.off = @ + n]

\* Mutant: TP-UDL counts octets whatever the alphabet.
read_ud_octets(b, r0) ==
    LET From(r) == IF r.rc < 0 THEN r ELSE ReadRun(b, r, "ud", r.m.udl)
    IN  From(ReadOctet(b, r0, "udl"))

read_ud(b, r0) ==
    LET Octets(r, n) == IF n > SMS_UD_MAX THEN Fail(r, SMS_E_LENGTH)
                        ELSE ReadRun(b, r, "ud", n)
        From(r) == IF r.rc < 0 THEN r
                   ELSE Octets(r, IF sms_dcs_alphabet(r.m.dcs) = ALPHA_GSM7
                                  THEN (r.m.udl * 7 + 7) \div 8 ELSE r.m.udl)
    IN  From(ReadOctet(b, r0, "udl"))

\* The fields a TP-PI octet announces.
read_pi_tail(b, r0, pi) ==
    LET Octet(r, bit, f) == IF Bit(pi, bit) THEN ReadOctet(b, r, f) ELSE r
        Ud(r) == IF r.rc >= 0 /\ Bit(pi, 4) THEN read_ud(b, r) ELSE r
    IN  Ud(Octet(Octet([r0 EXCEPT !.m.has_pid = Bit(pi, 1), !.m.has_dcs = Bit(pi, 2),
                                  !.m.has_ud = Bit(pi, 4)], 1, "pid"), 2, "dcs"))

ReadField(b, negative, r, f) ==
    CASE r.rc < 0 -> r
      [] f = "addr" -> ReadWith(r, f, sms_addr_decode(Rest(b, r)))
      [] f \in {"scts", "dt"} -> ReadWith(r, f, sms_ts_decode(Rest(b, r)))
      [] f = "vp" -> (CASE r.m.vpf = 0 -> r
                        [] r.m.vpf = 1 -> ReadRun(b, r, "enh", 7)
                        [] r.m.vpf = 2 -> ReadOctet(b, r, "vp_rel")
                        [] r.m.vpf = 3 -> ReadWith(r, "vp_abs", sms_ts_decode(Rest(b, r))))
      [] f = "ud" -> read_ud(b, r)
      [] f = "cd" -> IF r.off >= Len(b) THEN Fail(r, SMS_E_SHORT)
                     ELSE LET n == b[r.off + 1]
                          IN  IF n > SMS_CD_MAX THEN Fail(r, SMS_E_LENGTH)
                              ELSE ReadRun(b, [r EXCEPT !.off = @ + 1], "cd", n)
      [] f = "fcs" -> IF negative THEN ReadRun(b, r, "fcs", 1) ELSE r
      [] f = "pi" -> ReadOctet(b, r, "pi")
      [] f = "rest" -> read_pi_tail(b, r, r.m.pi)
      [] f = "tail" ->
           IF r.off < Len(b)
           THEN read_pi_tail(b, [r EXCEPT !.off = @ + 1,
                                   !.m.has_pi = (r.m.type = STATUS_REPORT)],
                             b[r.off + 1])
           ELSE IF r.m.type = STATUS_REPORT THEN r ELSE Fail(r, SMS_E_SHORT)
      [] OTHER -> ReadOctet(b, r, f)

\* What the first octet says; pi holds the TP-PI until its parts are read.
first_octet(o0, type) ==
    [f \in {"pi"} \cup DOMAIN Tpdu(type) |->
        CASE f = "pi" -> 0
          [] f = "vpf" -> IF type = SUBMIT THEN (o0 \div 8) % 4 ELSE 0
          [] f \in {g[1] : g \in Flags(type)} ->
               Bit(o0, (CHOOSE g \in Flags(type) : g[1] = f)[2])
          [] OTHER -> Tpdu(type)[f]]

decode_type(b, type, negative) ==
    LET End(r) == IF r.rc < 0 THEN Err(r.rc)
                  ELSE Took([f \in DOMAIN r.m \ {"pi"} |-> r.m[f]], r.off)
    IN  IF type < 0 THEN Err(SMS_E_MTI)
        ELSE End(FoldLeft(LAMBDA acc, f : ReadField(b, negative, acc, f),
                          [off |-> 1, rc |-> SMS_OK, m |-> first_octet(b[1], type)],
                          Fields(type)))

\* negative: the report rides an RP-ERROR and carries a TP-FCS.
sms_tpdu_decode(b, dir, negative) ==
    IF b = <<>> THEN Err(SMS_E_SHORT) ELSE decode_type(b, mti_type(b[1] % 4, dir), negative)

-----------------------------------------------------------------------------
(* RPDUs: [type, from_ms, mr, oa, da, cause, diag, ud].                    *)

RP_DATA == 0
RP_ACK == 1
RP_ERROR == 2
RP_SMMA == 3
IEI_USER_DATA == 65

Rpdu(type, from_ms, mr) ==
    [type |-> type, from_ms |-> from_ms, mr |-> mr, oa |-> <<>>, da |-> <<>>,
     cause |-> 0, diag |-> <<>>, ud |-> <<>>]

\* RP-MTI: even from the MS, odd from the network, which sends no RP-SMMA.
mti_of(type, from_ms) ==
    IF type = RP_SMMA /\ ~from_ms THEN SMS_E_MTI ELSE 2 * type + IF from_ms THEN 0 ELSE 1

sms_rp_addr_encode(a) ==
    IF a = <<>> THEN Ok(<<0>>)
    ELSE IF Len(a[1].digits) > SMS_ADDR_MAX_DIGITS THEN Err(SMS_E_LENGTH)
    ELSE LET d == SemiOctets(a[1].digits) IN Ok(<<1 + Len(d), Toa(a[1])>> \o d)

\* The number ends at the first filler or at the last octet.
sms_rp_addr_decode(b) ==
    LET len == b[1]
        Number(d) == IF Len(d) > SMS_ADDR_MAX_DIGITS THEN Err(SMS_E_LENGTH)
                     ELSE Took(<<[ton |-> (b[2] \div 16) % 8, npi |-> b[2] % 16, digits |-> d]>>,
                               1 + len)
        Upto(syms) == SubSeq(syms, 1, Min({i \in DOMAIN syms : syms[i] = 15}
                                            \cup {Len(syms) + 1}) - 1)
    IN  IF Len(b) < 1 THEN Err(SMS_E_SHORT)
        ELSE IF len = 0 THEN Took(<<>>, 1)
        ELSE IF len > SMS_RP_ADDR_MAX - 1 THEN Err(SMS_E_LENGTH)
        ELSE IF Len(b) < 1 + len THEN Err(SMS_E_SHORT)
        ELSE Number(Upto(Symbols(Sub(b, 2, len - 1))))

sms_rp_encode(p) ==
    LET ud  == IF p.ud = <<>> THEN <<>> ELSE p.ud[1]
        opt == Ok(IF p.ud = <<>> THEN <<>> ELSE <<IEI_USER_DATA, Len(ud)>> \o ud)
    IN  IF mti_of(p.type, p.from_ms) < 0 THEN Err(SMS_E_MTI)
        ELSE Pieces(SMS_RP_MAX, <<Ok(<<mti_of(p.type, p.from_ms), p.mr>>)>> \o
               CASE p.type = RP_DATA  -> <<sms_rp_addr_encode(p.oa),
                                           sms_rp_addr_encode(p.da),
                                           Ok(<<Len(ud)>> \o ud)>>
                 [] p.type = RP_ERROR -> <<Ok(<<1 + Len(p.diag), p.cause % 128>>
                                              \o p.diag), opt>>
                 [] p.type = RP_ACK   -> <<opt>>
                 [] p.type = RP_SMMA  -> <<>>)

\* A run of octets with its length in front.
ReadLv(b, r) ==
    IF r.off >= Len(b) THEN Fail(r, SMS_E_SHORT)
    ELSE LET n == b[r.off + 1]
         IN  IF Len(b) - r.off - 1 < n THEN Fail(r, SMS_E_SHORT)
             ELSE [r EXCEPT !.m.ud = <<Sub(b, r.off + 1, n)>>, !.off = @ + 1 + n]

OptionalUd(b, r) ==
    IF r.rc < 0 \/ r.off >= Len(b) THEN r
    ELSE IF b[r.off + 1] # IEI_USER_DATA THEN Fail(r, SMS_E_LENGTH)
    ELSE ReadLv(b, [r EXCEPT !.off = @ + 1])

ReadCause(b, r) ==
    IF r.off >= Len(b) THEN Fail(r, SMS_E_SHORT)
    ELSE LET n == b[r.off + 1]
         IN  IF n < 1 THEN Fail(r, SMS_E_LENGTH)
             ELSE IF Len(b) - r.off - 1 < n THEN Fail(r, SMS_E_SHORT)
             ELSE [r EXCEPT !.m.cause = b[r.off + 2] % 128, !.off = @ + 1 + n,
                            !.m.diag = IF n >= 2 THEN <<b[r.off + 3]>> ELSE <<>>]

ReadAddr(b, r, f) ==
    IF r.rc < 0 THEN r ELSE ReadWith(r, f, sms_rp_addr_decode(Rest(b, r)))

rp_body(b, r) ==
    LET Data(q) == IF q.rc < 0 THEN q ELSE ReadLv(b, q)
    IN  CASE r.m.type = RP_DATA  -> Data(ReadAddr(b, ReadAddr(b, r, "oa"), "da"))
          [] r.m.type = RP_ERROR -> OptionalUd(b, ReadCause(b, r))
          [] r.m.type = RP_ACK   -> OptionalUd(b, r)
          [] r.m.type = RP_SMMA  -> r

sms_rp_decode(b, dir) ==
    LET m  == b[1] % 8
        ms == m % 2 = 0
        End(r) == IF r.rc < 0 THEN Err(r.rc) ELSE Took(r.m, r.off)
    IN  IF Len(b) < 2 THEN Err(SMS_E_SHORT)
        ELSE IF m = 7 \/ ms # (dir = MS_TO_SC) THEN Err(SMS_E_MTI)
        ELSE End(rp_body(b, [off |-> 2, rc |-> SMS_OK, m |-> Rpdu(m \div 2, ms, b[2])]))

-----------------------------------------------------------------------------
dir_of(type) == IF type \in {DELIVER_REPORT, SUBMIT, COMMAND} THEN MS_TO_SC ELSE SC_TO_MS

(***************************************************************************)
(* A TPDU that encodes is decoded, in its direction, to the same message    *)
(* and takes all of its octets, for every type, validity period format and *)
(* set of optional parts (sms_tpdu_encode, sms_tpdu_decode); cut short it   *)
(* is refused, but for a status report, whose tail may be missing.         *)
(***************************************************************************)
TpduExact(t) ==
    \A e \in {sms_tpdu_encode(SMS_TPDU_MAX, t)} : e.rc >= 0 =>
        \A k \in 0..Len(e.v) :
            \A d \in {sms_tpdu_decode(SubSeq(e.v, 1, k), dir_of(t.type), t.fcs # <<>>)} :
                IF k = Len(e.v) THEN d = Took(t, k)
                ELSE d.rc >= 0 => t.type = STATUS_REPORT /\ ~d.v.has_pi

(***************************************************************************)
(* An RPDU that encodes is decoded to the same message by the side it is   *)
(* for and refused by the other (sms_rp_encode, sms_rp_decode); cut short  *)
(* it is refused, or is the message without its optional user data.        *)
(***************************************************************************)
RpduExact(p) ==
    \A e \in {sms_rp_encode(p)} : e.rc >= 0 =>
        \A k \in 0..Len(e.v), dir \in {MS_TO_SC, SC_TO_MS} :
            \A d \in {sms_rp_decode(SubSeq(e.v, 1, k), dir)} :
                IF (dir = MS_TO_SC) # p.from_ms THEN d.rc < 0 /\ (k = Len(e.v) => d.rc = SMS_E_MTI)
                ELSE IF k = Len(e.v) THEN d = Took(p, k)
                ELSE d.rc >= 0 => d.v = [p EXCEPT !.ud = <<>>]

(***************************************************************************)
(* The time stamp of an instant, in any zone and through its octets, is    *)
(* that instant (sms_ts_from_unix, sms_ts_unix); the validity period of a  *)
(* number of seconds is the shortest that lasts as long                    *)
(* (sms_vp_rel_from_secs), up to the longest there is.                     *)
(***************************************************************************)
TimeExact(secs, tz) ==
    \A t \in {sms_ts_from_unix(secs, tz)}, rel \in {sms_vp_rel_from_secs(secs)} :
        /\ sms_ts_unix(t) = secs
        /\ \A e \in {sms_ts_encode(t)} : e.rc >= 0 => sms_ts_decode(e.v) = Took(t, 7)
        /\ rel \in 0..255
        /\ secs <= sms_vp_secs(255) => sms_vp_secs(rel) >= secs
        /\ rel > 0 => sms_vp_secs(rel - 1) < secs


-----------------------------------------------------------------------------
(* The facade.                                                             *)

Number(digits) == [ton |-> TON_INTERNATIONAL, npi |-> 1, digits |-> digits]

sender == Number(<<4, 9, 1, 7, 1>>)
recipient == Number(<<4, 9, 1, 7, 2, 3>>)
sc == Number(<<4, 9, 0>>)

rp_data(from_ms, mr, tpdu) ==
    sms_rp_encode([Rpdu(RP_DATA, from_ms, mr) EXCEPT
        !.oa = IF from_ms THEN <<>> ELSE <<sc>>,
        !.da = IF from_ms THEN <<sc>> ELSE <<>>,
        !.ud = <<tpdu>>])

submit_part(part, mr) ==
    LET Relayed(t) == IF t.rc < 0 THEN t ELSE rp_data(TRUE, mr, t.v)
    IN  Relayed(sms_tpdu_encode(SMS_TPDU_MAX,
            [Tpdu(SUBMIT) EXCEPT !.mr = mr, !.addr = recipient, !.udhi = part.total > 1,
                !.dcs = part.dcs, !.udl = part.udl, !.ud = part.ud]))

submit_each(ps, mr) ==
    IF ps.rc < 0 THEN <<ps>>
    ELSE [i \in DOMAIN ps.v |-> submit_part(ps.v[i], (mr + i - 1) % 256)]

\* One RP-DATA per part; the first failure is thrown.
submit_parts(item, mr, ref, ref16) ==
    LET All(rp) == IF \E i \in DOMAIN rp : rp[i].rc < 0 THEN Err(SMS_E_INVAL)
                   ELSE Ok([i \in DOMAIN rp |-> rp[i].v])
    IN  All(submit_each(sms_concat_split(item.text, item.alphabet, ref, ref16, 255), mr))

\* Mutant: the user-data-header indicator is not carried over.
deliver_from_submit_noudhi(tpdu, oa, scts, more) ==
    LET Copied(in) ==
          IF in.rc < 0 THEN in
          ELSE sms_tpdu_encode(SMS_TPDU_MAX,
                 [Tpdu(DELIVER) EXCEPT !.mms = ~more, !.addr = oa, !.dcs = in.v.dcs,
                    !.ud = in.v.ud, !.udl = in.v.udl, !.scts = scts])
    IN  Copied(sms_tpdu_decode(tpdu, MS_TO_SC, FALSE))

\* The payload is copied octet by octet.
deliver_of(in, oa, scts, more) ==
    IF in.rc < 0 THEN in
    ELSE IF in.v.type # SUBMIT THEN Err(SMS_E_MTI)
    ELSE sms_tpdu_encode(SMS_TPDU_MAX,
           [Tpdu(DELIVER) EXCEPT !.mms = ~more, !.rp = in.v.rp, !.sri = in.v.srr,
              !.udhi = in.v.udhi, !.addr = oa, !.pid = in.v.pid, !.dcs = in.v.dcs,
              !.ud = in.v.ud, !.udl = in.v.udl, !.scts = scts])

deliver_from_submit(tpdu, oa, scts, more) ==
    deliver_of(sms_tpdu_decode(tpdu, MS_TO_SC, FALSE), oa, scts, more)

text(t) == sms_ud_to_utf8(t.dcs, t.udhi, t.ud, t.udl)

concat(t) == IF t.udhi THEN sms_concat_get(t.ud) ELSE <<>>

\* The TPDU of a decoded RP-DATA; an empty one is none.
TpduOf(p, dir) ==
    IF p.rc < 0 THEN p
    ELSE IF p.v.type # RP_DATA \/ p.v.ud = <<<<>>>> THEN Err(SMS_E_MTI)
    ELSE sms_tpdu_decode(p.v.ud[1], dir, FALSE)

-----------------------------------------------------------------------------
(* The phase.                                                              *)

Now == sms_ts_from_unix(1700000000, 0)

Init ==
    /\ mr_seq = FirstSeq /\ groups = <<>> /\ wait = <<>>
    /\ net = {} /\ verified = {} /\ heard = {}

\* submit: the group is found by its reference, the element carries 8 bits.
submit(item) ==
    /\ mr_seq < FirstSeq + MaxSubmits
    /\ mr_seq' = mr_seq + 1
    /\ \E n \in {mr_seq + 1} : \E parts \in {submit_parts(item, n % 256, n % 65536, FALSE)} :
       LET many  == Len(parts.v) > 1
           group == [n |-> n, total |-> Len(parts.v), parts |-> <<>>]
           recs  == [i \in DOMAIN parts.v |->
                       [n |-> n, text |-> item.text, grouped |-> many]]
       IN  IF parts.rc < 0 THEN UNCHANGED <<groups, wait, net>>
           ELSE /\ groups' = IF many THEN (n % 65536 :> group) @@ groups ELSE groups
                /\ wait' = wait \o recs
                /\ net' = net \cup {[to |-> "gateway", pdu |-> parts.v[i],
                                       of |-> <<n, i, Len(parts.v)>>] : i \in DOMAIN parts.v}
    /\ UNCHANGED <<verified, heard>>

\* on_mo, loopback: the gateway is the service centre.
on_mo(o) ==
    /\ o.to = "gateway"
    /\ \E rp \in {sms_rp_decode(o.pdu, MS_TO_SC)} :
         /\ TpduOf(rp, MS_TO_SC).rc >= 0
         /\ \E out \in {deliver_from_submit(rp.v.ud[1], sender, Now, FALSE)} :
              /\ out.rc >= 0
              /\ net' = net \cup {[to |-> "recipient", of |-> o.of,
                                   pdu |-> rp_data(FALSE, 0, out.v).v]}
    /\ UNCHANGED <<mr_seq, groups, wait, verified, heard>>

\* match_delivery, a part: kept once, compared when the last one is in.
PartIn(c, got) ==
    LET known == c.ref \in DOMAIN groups
        old   == groups[c.ref]
        parts == IF c.seq \in DOMAIN old.parts THEN old.parts
                 ELSE (c.seq :> got) @@ old.parts
        mine(m) == m.n = old.n
        whole == FlattenSeq([i \in 1..old.total |-> parts[i]])
    IN  IF ~known THEN UNCHANGED <<groups, wait, verified>>
        ELSE IF Cardinality(DOMAIN parts) < old.total
        THEN /\ groups' = [groups EXCEPT ![c.ref].parts = parts]
             /\ UNCHANGED <<wait, verified>>
        ELSE /\ groups' = [r \in DOMAIN groups \ {c.ref} |-> groups[r]]
             /\ wait' = SelectSeq(wait, LAMBDA m : ~mine(m))
             /\ verified' = verified \cup
                  {[n |-> old.n, got |-> whole, sent |-> SelectSeq(wait, mine)[1].text]}

\* match_delivery, one part: by content, else the oldest one outstanding.
SingleIn(got) ==
    LET same  == {i \in DOMAIN wait : ~wait[i].grouped /\ wait[i].text = got}
        other == {i \in DOMAIN wait : ~wait[i].grouped}
    IN  /\ wait' = IF other = {} THEN wait
                   ELSE RemoveAt(wait, Min(IF same # {} THEN same ELSE other))
        /\ UNCHANGED <<groups, verified>>

\* P.request, an RP-DATA: nothing is outstanding, a part, or a whole message.
request(o) ==
    /\ o.to = "recipient"
    /\ wait # <<>>
    /\ \E t \in {TpduOf(sms_rp_decode(o.pdu, SC_TO_MS), SC_TO_MS)} :
         /\ t.rc >= 0 /\ t.v.type = DELIVER
         /\ \E read \in {text(t.v)}, c \in {concat(t.v)} :
            \E got \in {IF read.rc < 0 THEN <<>> ELSE read.v} :
               IF c # <<>> THEN PartIn(c[1], got) ELSE SingleIn(got)
    /\ heard' = heard \cup {o.of}
    /\ UNCHANGED <<mr_seq, net>>

Next ==
    \/ \E item \in Items : submit(item)
    \/ \E o \in net : on_mo(o) \/ request(o)

Spec == Init /\ [][Next]_vars

-----------------------------------------------------------------------------
\* verify compares equal texts: a message in parts is put together exactly as
\* it was sent, whatever the alphabet, where the split fell, the order the
\* parts came in, how often each came and what came in between.
TextExact == \A v \in verified : v.got = v.sent

\* match_delivery hands out the reassembled text once every part is in.
PartsComplete ==
    \A h \in heard :
        (h[3] > 1 /\ \A k \in 1..h[3] : <<h[1], k, h[3]>> \in heard)
            => \E v \in verified : v.n = h[1]
===============================================================================
