------------------------------ MODULE MCLibraries ------------------------------
(***************************************************************************)
(* The parts one caller at a time uses: the slots of an address pool, the  *)
(* message builders and parsers (TLV, GTP, Diameter, short messages end to *)
(* end), and the kernel's IPsec tables under the subscribers that share    *)
(* them; and, as probes, codecs without a state of their own.  A behaviour *)
(* runs one of them, chosen at first; the others' variables are off.       *)
(***************************************************************************)
EXTENDS IpPool, Sequences, TLC

CONSTANTS
    Caps, MaxCalls,                         \* TlvStream
    CS_MAX_BEARERS, MaxEncodes,             \* GtpMsg
    MAX_GROUP_DEPTH, Capacity,              \* DiamMsg
    SMS_UD_MAX, FirstSeq, MaxSubmits,       \* SmsRelay
    Subs, MaxRuns, MaxRefused,              \* Ipsec
    OctetBits, IPPOOL_V4, IPPOOL_V6, Wide, IPPOOL_MAX_SIZE  \* PoolAddr

VARIABLES
    turn, probe,
    fmt, w, open, said, calls, wire, got,
    scratch, msg, gwire, ggot, encodes,
    dw, hdr, dgroups, started, dsaid, dout,
    mr_seq, groups, wait, net, verified, heard,
    admin, sad, spd, refused, runs, esp

tlvVars == <<fmt, w, open, said, calls, wire, got>>
gtpVars == <<scratch, msg, gwire, ggot, encodes>>
diamVars == <<dw, hdr, dgroups, started, dsaid, dout>>
smsVars == <<mr_seq, groups, wait, net, verified, heard>>
espVars == <<admin, sad, spd, refused, runs, esp>>

-------------------------------------------------------------------------------
(* What the components are given. *)

MCValues == {<<>>, <<1, 2, 3, 4, 5>>}

MCTyped == {[kind |-> "str", v |-> <<65>>], [kind |-> "i32", v |-> -2],
            [kind |-> "addr", v |-> <<10, 0, 0, 1>>]}

(* Texts that need three septet parts with the euro's escape at a cut,     *)
(* surrogate pairs, and octets that are no text.                           *)
Letters(n) == [i \in 1 .. n |-> 96 + i]
Euro == <<226, 130, 172>>
Smile == <<240, 159, 152, 128>>
MCItems ==
    {[text |-> Letters(5), alphabet |-> -1],
     [text |-> Letters(5) \o Euro \o Letters(5) \o Euro, alphabet |-> -1],
     [text |-> <<97>> \o Smile \o <<98>> \o Smile \o Smile, alphabet |-> -1],
     [text |-> <<195, 169, 1, 128, 255, 0>> \o Letters(3), alphabet |-> 1]}

(* Two subscribers behind one address, one of whom may also be offered an  *)
(* incomplete bundle; their selectors overlap.                             *)
Bundle(n, pc, ps) ==
    [pcscf |-> [fam |-> 2, a |-> 9], auth_key |-> 16, port_uc |-> 51, port_us |-> 51,
     port_pc |-> pc, port_ps |-> ps, spi_uc |-> 10 * n, spi_us |-> 10 * n + 1,
     spi_pc |-> 10 * n + 2, spi_ps |-> 10 * n + 3]
MCBundles ==
    [s \in Subs |-> IF s = "s1" THEN {Bundle(1, 61, 62), [Bundle(1, 0, 62) EXCEPT !.spi_pc = 0]}
                    ELSE {Bundle(2, 61, 61)}]

Addr4 == <<10, 0, 0, 1>>
Addr6 == [i \in 1 .. 16 |-> i]
Fteid(t, a4, a6) == [if_type |-> 10, teid |-> t, addr4 |-> a4, addr6 |-> a6]
Context(e, fs) ==
    [inst |-> 0, ebi |-> e, cause |-> -1, tft |-> <<>>, qos |-> <<>>, fteids |-> fs,
     charging_id |-> -1]
FullContext ==
    [Context(6, <<[inst |-> 0, fteid |-> Fteid(7, Addr4, Addr6)],
                  [inst |-> 2, fteid |-> Fteid(8, <<>>, Addr6)]>>) EXCEPT
        !.inst = 1, !.cause = 16, !.tft = <<33>>, !.charging_id = 66000,
        !.qos = <<[pci |-> 1, pl |-> 9, pvi |-> 0, qci |-> 5, mbr_ul |-> 0,
                   mbr_dl |-> 300, gbr_ul |-> 70000, gbr_dl |-> 1]>>]

-------------------------------------------------------------------------------
Rowed == INSTANCE GtpMsg WITH Messages <- {}, wire <- gwire, got <- ggot

Sample(row) ==
    CASE row.f = "uli" -> Rowed!uli_tai_ecgi(<<2, 6, 2>>, <<0, 1>>, 1, 70000)
      [] row.f = "pco" -> Rowed!pco_request_pcscf(TRUE, TRUE)
      [] row.k = "bcd" -> <<2, 6, 2, 0, 1>>
      [] row.k = "raw" /\ row.f \notin {"uli", "pco"} -> <<128, 0, 12, 0>>
      [] row.k = "apn" -> <<105, 109, 115, 46, 97>>
      [] row.k \in {"u8", "u32", "cause"} -> 3
      [] row.k = "u16" -> 2048
      [] row.k = "fteid" -> <<Fteid(16909060, Addr4, <<>>)>>
      [] row.k = "paa" -> <<[pdn_type |-> 3, prefix_len |-> 64, addr6 |-> Addr6, addr4 |-> Addr4]>>
      [] row.k = "ambr" -> <<[ul |-> 1000, dl |-> 70000]>>
      [] row.k = "bearers" -> <<Context(5, <<>>), FullContext>>

(* A message of type mt with all fields, or those it cannot do without; of *)
(* those, some are given instead.                                          *)
With(mt, all, instead) ==
    LET must == CASE mt = 32 -> {"apn", "bearers", "sender_fteid", "rat_type"}
                  [] mt \in {33, 35, 37, 96} -> {"cause"} [] OTHER -> {}
        Filled(row) == IF all \/ row.f \in must THEN Sample(row) ELSE Rowed!Absent(row.k)
        Of(rows) == [f \in {rows[i].f : i \in DOMAIN rows} |->
                        Filled(rows[CHOOSE i \in DOMAIN rows : rows[i].f = f])]
    IN  instead @@ Of(Rowed!Rows(mt)) @@ [mt |-> mt, id |-> 66051, seq |-> 772]

(* Bare and full messages of every class, Create Session Requests that     *)
(* throw before and after they began to write, bearer contexts with too    *)
(* many F-TEIDs and with one that has no address, and the most contexts a  *)
(* decoder keeps and one more.                                             *)
MCMessages ==
    {With(c[1], c[2], c[3]) : c \in
        (Rowed!Types \X BOOLEAN \X {<<>>})
        \cup {<<32, FALSE, f :> <<>>>> : f \in {"apn", "bearers", "sender_fteid"}}
        \cup {<<34, FALSE, "bearers" :> b>> : b \in
                 {<<Context(5, [i \in 1 .. 5 |-> [inst |-> i, fteid |-> Fteid(i, Addr4, <<>>)]])>>,
                  <<Context(5, <<[inst |-> 0, fteid |-> Fteid(1, <<>>, <<>>)]>>)>>}
                 \cup {[i \in 1 .. k |-> Context(i, <<>>)] : k \in {CS_MAX_BEARERS, CS_MAX_BEARERS + 1}}}}

Stream == INSTANCE TlvStream WITH Values <- MCValues
Gtp == INSTANCE GtpMsg WITH Messages <- MCMessages, wire <- gwire, got <- ggot
Diam == INSTANCE DiamMsg
    WITH Typed <- MCTyped, w <- dw, groups <- dgroups, said <- dsaid, out <- dout
Sms == INSTANCE SmsRelay WITH Items <- MCItems
Esp == INSTANCE Ipsec WITH Bundles <- MCBundles
Media == INSTANCE Rtcp
Geometry == INSTANCE PoolAddr WITH Bits <- OctetBits

-------------------------------------------------------------------------------
(* Codecs without a state: each probe is one input. *)

Stamp == [year |-> 2024, mon |-> 2, day |-> 29, hour |-> 22, min |-> 44, sec |-> 59, tz |-> -5]
National == [ton |-> 2, npi |-> 1, digits |-> <<4, 9, 10, 11, 0>>]
Named == [ton |-> 5, npi |-> 0, digits |-> <<65, 66, 67>>]
Base(type) == [Sms!Tpdu(type) EXCEPT
    !.addr = IF type \in {1, 3} THEN @ ELSE National, !.scts = IF type \in {0, 3, 4} THEN Stamp ELSE @,
    !.dt = IF type = 4 THEN Stamp ELSE @]
Text(t) == [t EXCEPT !.ud = <<200, 50, 155, 253, 70, 151, 217>>, !.udl = 8]  \* eight septets
Tail_(t) == [Text(t) EXCEPT !.has_ud = TRUE, !.has_pid = TRUE, !.has_dcs = TRUE, !.pid = 7,
                            !.has_pi = (t.type = 4)]
Tpdus ==
    {Base(type) : type \in 0 .. 5}
    \cup {[Text(Base(0)) EXCEPT !.addr = Named, !.mms = TRUE, !.rp = TRUE, !.sri = TRUE],
          [Base(0) EXCEPT !.dcs = 8, !.ud = <<0, 65>>, !.udl = 2]}
    \cup {[Text(Base(2)) EXCEPT !.vpf = f, !.rd = TRUE, !.srr = TRUE, !.mr = 255,
              !.vp_rel = IF f = 2 THEN 167 ELSE 0, !.vp_abs = IF f = 3 THEN Stamp ELSE @] : f \in 0 .. 3}
    \cup {Tail_(Base(type)) : type \in {1, 3, 4}}
    \cup {[Tail_(Base(type)) EXCEPT !.fcs = <<211>>] : type \in {1, 3}}
    \cup {[Base(4) EXCEPT !.has_pi = TRUE, !.st = 48], [Base(5) EXCEPT !.cd = <<1, 2>>, !.ct = 2]}

Rpdus ==
    LET to(b, p) == IF b THEN [p EXCEPT !.da = <<National>>] ELSE [p EXCEPT !.oa = <<National>>]
    IN  {to(b, [Sms!Rpdu(0, b, 255) EXCEPT !.ud = <<u>>]) : b \in BOOLEAN, u \in {<<>>, <<1, 2>>}}
        \cup {[Sms!Rpdu(type, b, 3) EXCEPT !.ud = u] : type \in {1, 3}, b \in BOOLEAN, u \in {<<>>}}
        \cup {[Sms!Rpdu(1, b, 3) EXCEPT !.ud = <<<<1>>>>] : b \in BOOLEAN}
        \cup {[Sms!Rpdu(2, TRUE, 0) EXCEPT !.cause = 111, !.diag = d, !.ud = u] :
                  d \in {<<>>, <<9>>}, u \in {<<>>, <<<<1, 2>>>>}}

(* Around every change of unit, the end of a leap February and of 32 bits. *)
Instants == {0, 1, 300, 301, 43200, 43201, 86400, 86401, 2592000, 2592001, 38102400, 38102401,
             951782400, 1709164799, 2146800000}

Report(lost) == [ssrc |-> 5, fraction |-> 255, lost |-> lost, last_seq |-> 65537, jitter |-> 3,
                 lsr |-> 258, dlsr |-> 0]
Reports == {<<>>, <<Report(-1)>>, <<Report(8388607), Report(-8388608)>>}
Texts == {[i \in 1 .. n |-> 64 + i] : n \in 0 .. 4}
RtcpPackets ==
    [type : {200}, ssrc : {7}, ntp_sec : {1}, ntp_frac : {2}, rtp_ts : {3}, pkt_count : {4},
     octet_count : {5}, reports : Reports]
    \cup [type : {201}, ssrc : {7}, reports : Reports]
    \cup [type : {202}, ssrc : {7}, cname : Texts]
    \cup [type : {203}, ssrcs : {<<7>>, <<7, 8>>}, reason : Texts]
RtpPackets ==
    [marker : BOOLEAN, pt : {0, 127, 128}, seq : {65535}, ts : {7}, ssrc : {9},
     csrc : {<<>>, <<1, 2>>, [i \in 1 .. 15 |-> i]},
     ext : {<<>>, <<48862, <<>>>>, <<1, <<1, 2, 3, 4>>>>, <<1, <<1, 2>>>>}, payload : Texts]

Nowhere == [fam |-> 0, a |-> 0]
V4 == [fam |-> 2, a |-> 1]
V6 == [fam |-> 10, a |-> 2]
Algs == {[name |-> 0, key |-> 0], [name |-> 1, key |-> 512], [name |-> 2, key |-> 513]}
Sas == [src : {V4, V6}, dst : {V4}, spi : {1}, proto : {50}, mode : {"transport"}, reqid : {1},
        aead : Algs, enc : Algs, auth : Algs, encap : {<<0, 0>>, <<4500, 0>>}]
Routes == [dst : {<<>>, <<V4>>, <<V6>>, <<Nowhere>>}, gateway : {<<>>, <<V4>>, <<Nowhere>>},
           prefixlen : {0, 32, 33}, ifindex : {0, 3}, metric : {0, 1}, mtu : {0, 1400},
           table : {0}, protocol : {0, 4}, type : {0}, scope : {0, 253}]
Addrs == [addr : {V4, V6, Nowhere}, prefixlen : {0, 32, 33, 128, 129}, ifindex : {0, 3}, scope : {0}]

(* Every short address, and the long ones with extreme octets in front. *)
Bases ==
    Geometry!Addresses(IPPOOL_V4)
    \cup {a \in Geometry!Addresses(IPPOOL_V6) :
             \A i \in 1 .. IPPOOL_V6 - 1 : a[i] \in {0, 2 ^ OctetBits - 1}}
Spans == {-1, 0, 1, 7, 15, 62, 63, 64}

Containers == {<<12, Addr4>>, <<12, <<10, 0>>>>, <<1, Addr6>>, <<13, <<>>>>}

Probes_ ==
    [of : {"tpdu"}, x : Tpdus] \cup [of : {"rpdu"}, x : Rpdus]
    \cup [of : {"time"}, x : Instants, tz : {-60, -48, -1, 0, 5, 48}]
    \cup [of : {"rtcp"}, x : UNION {[1 .. n -> RtcpPackets] : n \in 1 .. 2}, cap : {40, 60, 300}]
    \cup [of : {"rtp"}, x : RtpPackets, pad : {0, 1, 4}]
    \cup [of : {"sa"}, x : Sas] \cup [of : {"route"}, x : Routes] \cup [of : {"addr"}, x : Addrs]
    \cup {[of |-> "scope", x |-> a, plen |-> n] : a \in Bases, n \in 0 .. IPPOOL_V6 * OctetBits}
    \cup [of : {"range"}, x : Bases, span : Spans]
    \cup [of : {"pco"}, x : UNION {[1 .. n -> Containers] : n \in 0 .. 3}]

-------------------------------------------------------------------------------
TlvOff == fmt = 0 /\ w = 0 /\ open = 0 /\ said = 0 /\ calls = 0 /\ wire = 0 /\ got = 0
GtpOff == scratch = 0 /\ msg = 0 /\ gwire = 0 /\ ggot = 0 /\ encodes = 0
DiamOff == dw = 0 /\ hdr = 0 /\ dgroups = 0 /\ started = 0 /\ dsaid = 0 /\ dout = 0
SmsOff == mr_seq = 0 /\ groups = 0 /\ wait = 0 /\ net = 0 /\ verified = 0 /\ heard = 0
EspOff == admin = 0 /\ sad = 0 /\ spd = 0 /\ refused = 0 /\ runs = 0 /\ esp = 0

LibInit ==
    /\ turn \in {"pool", "tlv", "gtp", "diam", "sms", "esp", "probe"}
    /\ Init
    /\ IF turn = "tlv" THEN Stream!Init ELSE TlvOff
    /\ IF turn = "gtp" THEN Gtp!Init ELSE GtpOff
    /\ IF turn = "diam" THEN Diam!Init ELSE DiamOff
    /\ IF turn = "sms" THEN Sms!Init ELSE SmsOff
    /\ IF turn = "esp" THEN Esp!Init ELSE EspOff
    /\ IF turn = "probe" THEN probe \in Probes_ ELSE probe = [of |-> "none"]

PoolStep == turn = "pool" /\ Next /\ UNCHANGED <<tlvVars, gtpVars, diamVars, smsVars, espVars>>
TlvStep == turn = "tlv" /\ Stream!Next /\ UNCHANGED <<vars, gtpVars, diamVars, smsVars, espVars>>
GtpStep == turn = "gtp" /\ Gtp!Next /\ UNCHANGED <<vars, tlvVars, diamVars, smsVars, espVars>>
DiamStep == turn = "diam" /\ Diam!Next /\ UNCHANGED <<vars, tlvVars, gtpVars, smsVars, espVars>>
SmsStep == turn = "sms" /\ Sms!Next /\ UNCHANGED <<vars, tlvVars, gtpVars, diamVars, espVars>>
EspStep == turn = "esp" /\ Esp!Next /\ UNCHANGED <<vars, tlvVars, gtpVars, diamVars, smsVars>>

LibNext ==
    /\ PoolStep \/ TlvStep \/ GtpStep \/ DiamStep \/ SmsStep \/ EspStep
    /\ UNCHANGED <<turn, probe>>

LibSpec ==
    LibInit
    /\ [][LibNext]_<<turn, probe, vars, tlvVars, gtpVars, diamVars, smsVars, espVars>>

(* The short messages alone. *)
SmsSpec == turn = "sms" /\ LibSpec

-------------------------------------------------------------------------------
(* What a TLV writer's finalizer accepts reads back entry by entry, though *)
(* its caller looked at no other return code, and arrives whole or not.    *)
TlvReadsBack == turn = "tlv" => Stream!ReadsBack /\ Stream!WholeAccepted

(* GTPv2-C messages of every class decode to what was encoded, whatever    *)
(* the shared scratch buffer held; P-CSCF addresses are found in a PCO.    *)
GtpDecodesSent ==
    /\ turn = "gtp" => Gtp!DecodedIsSent /\ Gtp!EncodedIsDecodable
    /\ probe.of = "pco" => Gtp!PcscfFound(probe.x, 12, 4) /\ Gtp!PcscfFound(probe.x, 1, 16)

(* A Diameter message the builder hands out is parsed to what was asked    *)
(* for, groups included.                                                   *)
DiamParsesBuilt == turn = "diam" => Diam!BuiltIsParsed

(* Short messages in parts are put together exactly as sent, once every    *)
(* part is in, over a network that repeats, delays, reorders and loses.    *)
SmsArrives == turn = "sms" => Sms!TextExact /\ Sms!PartsComplete

(* The reassembled text is there once every part is in. *)
SmsPartsComplete == Sms!PartsComplete

(* TPDUs, RPDUs, time stamps and validity periods survive their octets. *)
SmsPdusExact ==
    CASE probe.of = "tpdu" -> Sms!TpduExact(probe.x)
      [] probe.of = "rpdu" -> Sms!RpduExact(probe.x)
      [] probe.of = "time" -> Sms!TimeExact(probe.x, probe.tz)
      [] OTHER -> TRUE

(* RTCP compounds and RTP packets are read as written, and a cut one is    *)
(* never read as something else.                                           *)
MediaCodecExact ==
    CASE probe.of = "rtcp" -> Media!CompoundExact(probe.cap, probe.x)
      [] probe.of = "rtp"  -> Media!PacketExact(probe.x, probe.pad)
      [] OTHER -> TRUE

(* A subscriber releases exactly the kernel entries it installed, policies *)
(* before the associations they steer at; what is asked of the kernel      *)
(* is asked whole.                                                         *)
EspReleasesOwn ==
    /\ turn = "esp" => Esp!ReleasesExactlyOwn /\ Esp!SteeredAlive
    /\ CASE probe.of = "sa"    -> Esp!SaWhole(probe.x)
         [] probe.of = "route" -> Esp!RouteDeletable(probe.x)
         [] probe.of = "addr"  -> Esp!AddrKeyed(probe.x)
         [] OTHER -> TRUE

(* A pool made of a scope or of a range holds the addresses it should, one *)
(* to a slot.                                                              *)
PoolGeometry ==
    CASE probe.of = "scope" ->
           probe.plen <= Len(probe.x) * OctetBits => Geometry!ScopeExact(probe.x, probe.plen)
      [] probe.of = "range" ->
           \A last \in Geometry!Addresses(Len(probe.x)) :
               Geometry!Number(last) - Geometry!Number(probe.x) = probe.span
                   => Geometry!RangeExact(probe.x, last)
      [] OTHER -> TRUE
===============================================================================
