---------------------------------- MODULE Rtcp ----------------------------------
(***************************************************************************)
(* The packet codec of rtp/src/rtp.c and the compound codec of             *)
(* rtp/src/rtcp.c: sender and receiver reports, source descriptions and    *)
(* goodbyes, written one after the other into a bounded buffer, and walked *)
(* packet by packet, as bindings/cxx/src/rtp.cpp does for its handlers.    *)
(* What cannot be read has a negative rc, or type in a compound.           *)
(***************************************************************************)
EXTENDS Tlv

RTP_E_SHORT == -1
RTP_E_VERSION == -2
RTP_E_FORMAT == -3
RTP_E_OVERFLOW == -4
RTP_E_INVAL == -5
RTP_HDR_LEN == 12
RTP_MAX_CSRC == 15
RTCP_SR == 200
RTCP_RR == 201
RTCP_SDES == 202
RTCP_BYE == 203
RTCP_SDES_CNAME == 1
RTCP_MAX_REPORTS == 31

wr32(v) == be_store(v, 4)
rd32(b, off) == be_load(Sub(b, off, 4))
Words(n) == ((n + 3) \div 4) * 4

-------------------------------------------------------------------------------
(* RTP packets.  A packet is [marker, pt, seq, ts, ssrc, csrc, ext,        *)
(* payload], ext being <<>> or <<profile, octets>>.                        *)

rtp_pkt_encode(p, cap) ==
    LET has  == p.ext # <<>>
        ext  == IF has THEN be_store(p.ext[1], 2) \o be_store(Len(p.ext[2]) \div 4, 2) \o p.ext[2]
                ELSE <<>>
        need == RTP_HDR_LEN + 4 * Len(p.csrc) + Len(ext) + Len(p.payload)
    IN  IF p.pt > 127 \/ (has /\ Len(p.ext[2]) % 4 # 0) THEN [rc |-> RTP_E_INVAL]
        ELSE IF cap < need THEN [rc |-> RTP_E_OVERFLOW]
        ELSE [rc  |-> need,
              buf |-> <<128 + Flag(has, 16) + Len(p.csrc), Flag(p.marker, 128) + p.pt>>
                        \o be_store(p.seq, 2) \o wr32(p.ts) \o wr32(p.ssrc)
                        \o FlattenSeq([i \in DOMAIN p.csrc |-> wr32(p.csrc[i])]) \o ext \o p.payload]

(* Packet::encode: the C++ integers are cut to the C fields, and the       *)
(* buffer is as long as the packet.                                        *)
encode(p) ==
    IF Len(p.csrc) > RTP_MAX_CSRC THEN [rc |-> RTP_E_INVAL]
    ELSE rtp_pkt_encode([p EXCEPT !.pt = @ % 256, !.seq = @ % 65536],
                        RTP_HDR_LEN + 4 * Len(p.csrc) + Len(p.payload)
                          + IF p.ext = <<>> THEN 0 ELSE 4 + Len(p.ext[2]))

(* What is left after the header, less the padding its last octet counts;  *)
(* -1 for a count that is 0 or reaches into the header.                    *)
payload_len(b, off, pad) ==
    LET plen == Len(b) - off IN
    IF ~pad THEN plen
    ELSE IF plen = 0 \/ b[Len(b)] = 0 \/ b[Len(b)] > plen THEN -1 ELSE plen - b[Len(b)]

rtp_pkt_parse(b) ==
    LET has  == Bit(b[1], 16)
        cc   == b[1] % 16
        off  == RTP_HDR_LEN + 4 * cc
        elen == IF has THEN 4 * be_load(Sub(b, off + 2, 2)) ELSE 0
        body == off + IF has THEN 4 + elen ELSE 0
        plen == payload_len(b, body, Bit(b[1], 32))
    IN  CASE Len(b) < RTP_HDR_LEN -> [rc |-> RTP_E_SHORT]
          [] b[1] \div 64 # 2 -> [rc |-> RTP_E_VERSION]
          [] Len(b) < off \/ (has /\ Len(b) < off + 4) -> [rc |-> RTP_E_SHORT]
          [] Len(b) < body -> [rc |-> RTP_E_SHORT]
          [] plen < 0 -> [rc |-> RTP_E_FORMAT]
          [] OTHER -> [rc |-> 0, marker |-> Bit(b[2], 128), pt |-> b[2] % 128,
                       seq |-> be_load(Sub(b, 2, 2)), ts |-> rd32(b, 4), ssrc |-> rd32(b, 8),
                       csrc |-> [i \in 1 .. cc |-> rd32(b, RTP_HDR_LEN + 4 * (i - 1))],
                       ext |-> IF has THEN <<be_load(Sub(b, off, 2)), Sub(b, off + 4, elen)>> ELSE <<>>,
                       payload |-> Sub(b, body, plen)]

-------------------------------------------------------------------------------
(* Writing: put reserves the packet or sets the sticky overflow, and       *)
(* rtcp_end alone tells.                                                   *)
put(w, count, type, body) ==
    IF w.overflow \/ Len(w.buf) + 4 + Len(body) > w.cap THEN [w EXCEPT !.overflow = TRUE]
    ELSE [w EXCEPT !.buf = @ \o <<128 + (count % 32), type>> \o be_store(Len(body) \div 4, 2) \o body]

(* A report block; the loss is 24 bits of two's complement. *)
report_write(r) ==
    wr32(r.ssrc) \o <<r.fraction>> \o be_store((r.lost + 2 ^ 24) % 2 ^ 24, 3)
      \o wr32(r.last_seq) \o wr32(r.jitter) \o wr32(r.lsr) \o wr32(r.dlsr)

reports_write(rs) == FlattenSeq([i \in DOMAIN rs |-> report_write(rs[i])])

rtcp_put_sr(w, p) ==
    IF Len(p.reports) > RTCP_MAX_REPORTS THEN w
    ELSE put(w, Len(p.reports), RTCP_SR,
             wr32(p.ssrc) \o wr32(p.ntp_sec) \o wr32(p.ntp_frac) \o wr32(p.rtp_ts)
               \o wr32(p.pkt_count) \o wr32(p.octet_count) \o reports_write(p.reports))

rtcp_put_rr(w, p) ==
    IF Len(p.reports) > RTCP_MAX_REPORTS THEN w
    ELSE put(w, Len(p.reports), RTCP_RR, wr32(p.ssrc) \o reports_write(p.reports))

(* Mutant: the item list is padded without its end. *)
rtcp_put_sdes_cname_noend(w, p) ==
    IF Len(p.cname) > 255 THEN w
    ELSE LET item == <<RTCP_SDES_CNAME, Len(p.cname)>> \o p.cname IN
         put(w, 1, RTCP_SDES, wr32(p.ssrc) \o item \o Zeros(Words(Len(item)) - Len(item)))

(* The item, at least one END octet, and zeros up to the word. *)
rtcp_put_sdes_cname(w, p) ==
    IF Len(p.cname) > 255 THEN w
    ELSE LET item == <<RTCP_SDES_CNAME, Len(p.cname)>> \o p.cname IN
         put(w, 1, RTCP_SDES, wr32(p.ssrc) \o item \o Zeros(Words(Len(item) + 1) - Len(item)))

rtcp_put_bye(w, p) ==
    IF p.ssrcs = <<>> \/ Len(p.ssrcs) > RTCP_MAX_REPORTS \/ Len(p.reason) > 255 THEN w
    ELSE LET why == IF p.reason = <<>> THEN <<>> ELSE <<Len(p.reason)>> \o p.reason IN
         put(w, Len(p.ssrcs), RTCP_BYE,
             FlattenSeq([i \in DOMAIN p.ssrcs |-> wr32(p.ssrcs[i])])
               \o why \o Zeros(Words(Len(why)) - Len(why)))

rtcp_end(w) == IF w.overflow THEN RTP_E_OVERFLOW ELSE Len(w.buf)

Written(cap, ps) ==
    FoldLeft(LAMBDA w, p : CASE p.type = RTCP_SR -> rtcp_put_sr(w, p)
                             [] p.type = RTCP_RR -> rtcp_put_rr(w, p)
                             [] p.type = RTCP_SDES -> rtcp_put_sdes_cname(w, p)
                             [] p.type = RTCP_BYE -> rtcp_put_bye(w, p),
             tlv_wbuf_init(cap), ps)

-------------------------------------------------------------------------------
(* rtcp_iter_next over b: the view, the octets after it, and what went     *)
(* wrong (0: nothing left).                                                *)
rtcp_iter_next(b) ==
    LET plen == (be_load(Sub(b, 2, 2)) + 1) * 4
        pad  == IF Bit(b[1], 32) THEN b[plen] ELSE 0
        Stop(e) == [rc |-> e]
    IN  CASE b = <<>> -> Stop(0)
          [] Len(b) < 4 -> Stop(RTP_E_SHORT)
          [] b[1] \div 64 # 2 -> Stop(RTP_E_VERSION)
          [] plen > Len(b) -> Stop(RTP_E_SHORT)
          [] Bit(b[1], 32) /\ (plen = 4 \/ pad = 0 \/ pad > plen - 4) -> Stop(RTP_E_FORMAT)
          [] OTHER -> [rc |-> 1, type |-> b[2], count |-> b[1] % 32,
                       body |-> Sub(b, 4, plen - 4 - pad), rest |-> SubSeq(b, plen + 1, Len(b))]

report_parse(b) ==
    LET lost == be_load(Sub(b, 5, 3)) IN
    [ssrc |-> rd32(b, 0), fraction |-> b[5],
     lost |-> IF lost >= 2 ^ 23 THEN lost - 2 ^ 24 ELSE lost,
     last_seq |-> rd32(b, 8), jitter |-> rd32(b, 12), lsr |-> rd32(b, 16), dlsr |-> rd32(b, 20)]

rep_parse(v) ==
    LET sr    == v.type = RTCP_SR
        fixed == IF sr THEN 24 ELSE 4
        all   == [type |-> v.type, ssrc |-> rd32(v.body, 0),
                  reports |-> [i \in 1 .. v.count |-> report_parse(Sub(v.body, fixed + (i - 1) * 24, 24))]]
    IN  IF Len(v.body) < fixed + v.count * 24 THEN [type |-> RTP_E_SHORT]
        ELSE IF ~sr THEN all
        ELSE all @@ [ntp_sec |-> rd32(v.body, 4), ntp_frac |-> rd32(v.body, 8), rtp_ts |-> rd32(v.body, 12),
                     pkt_count |-> rd32(v.body, 16), octet_count |-> rd32(v.body, 20)]

rtcp_bye_parse(v) ==
    LET off  == v.count * 4
        rlen == v.body[off + 1]
    IN  CASE Len(v.body) < off -> [type |-> RTP_E_SHORT]
          [] Len(v.body) > off /\ off + 1 + rlen > Len(v.body) -> [type |-> RTP_E_FORMAT]
          [] OTHER -> [type |-> RTCP_BYE, ssrcs |-> [i \in 1 .. v.count |-> rd32(v.body, (i - 1) * 4)],
                       reason |-> IF Len(v.body) > off THEN Sub(v.body, off + 1, rlen) ELSE <<>>]

(* The END octet and the zeros up to the word, found from what is left. *)
sdes_skip(left) == ((left - 1) % 4) + 1

(* rtcp_sdes_next until it stops: the items of every chunk, and the error. *)
rtcp_sdes_next(v) ==
    LET n == Len(v.body)
        walk[off \in 0 .. n + 1, chunks \in 0 .. v.count, ssrc \in {-1} \cup {rd32(v.body, k) : k \in 0 .. n - 4}] ==
            LET ty  == v.body[off + 1]
                len == v.body[off + 2]
            IN  CASE ssrc = -1 /\ chunks = 0 -> <<>>
                  [] ssrc = -1 -> IF n - off < 4 THEN <<RTP_E_SHORT>>
                                  ELSE walk[off + 4, chunks - 1, rd32(v.body, off)]
                  [] n - off < 1 -> <<RTP_E_SHORT>>
                  [] ty = 0 -> walk[off + sdes_skip(n - off), chunks, -1]
                  [] n - off < 2 \/ 2 + len > n - off -> <<RTP_E_SHORT>>
                  [] OTHER -> <<[ssrc |-> ssrc, item |-> ty, value |-> Sub(v.body, off + 2, len)]>>
                                \o walk[off + 2 + len, chunks, ssrc]
    IN  [type |-> RTCP_SDES, items |-> walk[0, v.count, -1]]

Parsed(v) == CASE v.type \in {RTCP_SR, RTCP_RR} -> rep_parse(v)
               [] v.type = RTCP_SDES -> rtcp_sdes_next(v)
               [] v.type = RTCP_BYE -> rtcp_bye_parse(v)

Compound(b) ==
    LET walk[k \in 0 .. Len(b)] ==
            LET From(v) == IF v.rc = 1 THEN <<Parsed(v)>> \o walk[Len(v.rest)]
                           ELSE IF v.rc = 0 THEN <<>> ELSE <<[type |-> v.rc]>>
            IN  From(rtcp_iter_next(SubSeq(b, Len(b) - k + 1, Len(b))))
    IN  walk[Len(b)]

(* on_rtcp_readable: what the handler hears of a compound.  The walk ends  *)
(* at the first packet it cannot read; descriptions go unheard, and so     *)
(* does a goodbye of nobody.                                               *)
on_rtcp_readable(compound) ==
    SelectSeq(compound, LAMBDA p : p.type \in {RTCP_SR, RTCP_RR, RTCP_BYE}
                                        /\ (p.type = RTCP_BYE => p.ssrcs # <<>>))
-------------------------------------------------------------------------------
Valid(p) == CASE p.type \in {RTCP_SR, RTCP_RR} -> Len(p.reports) <= RTCP_MAX_REPORTS
              [] p.type = RTCP_SDES -> Len(p.cname) <= 255
              [] p.type = RTCP_BYE -> p.ssrcs # <<>> /\ Len(p.ssrcs) <= RTCP_MAX_REPORTS /\ Len(p.reason) <= 255

Said(p) == IF p.type # RTCP_SDES THEN p
           ELSE [type |-> RTCP_SDES,
                 items |-> <<[ssrc |-> p.ssrc, item |-> RTCP_SDES_CNAME, value |-> p.cname]>>]

(* rtcp_end alone tells whether a compound was written whole: what it      *)
(* accepts is walked to exactly the packets put, and of a compound cut     *)
(* short the handler hears no packet it would not hear of the whole.       *)
CompoundExact(cap, ps) ==
    \A w \in {Written(cap, ps)}, want \in {[i \in DOMAIN ps |-> Said(ps[i])]} :
        (\A i \in DOMAIN ps : Valid(ps[i])) /\ rtcp_end(w) >= 0 =>
            \A k \in 0 .. Len(w.buf) : \A got \in {Compound(SubSeq(w.buf, 1, k))} :
                /\ k = Len(w.buf) => got = want
                /\ IsPrefix(on_rtcp_readable(got), on_rtcp_readable(want))

(* A packet that encodes parses back to itself, whatever padding its       *)
(* sender added, and one cut inside its header or its CSRCs is refused.    *)
PacketExact(p, pad) ==
    \A e \in {encode(p)} : e.rc >= 0 =>
        /\ rtp_pkt_parse(IF pad = 0 THEN e.buf
                         ELSE Patch(e.buf, 0, <<e.buf[1] + 32>>) \o Zeros(pad - 1) \o <<pad>>) = [rc |-> 0] @@ p
        /\ \A k \in 0 .. Len(e.buf) - Len(p.payload) - 1 : rtp_pkt_parse(SubSeq(e.buf, 1, k)).rc < 0
===============================================================================
