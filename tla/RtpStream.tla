-------------------------------- MODULE RtpStream --------------------------------
(***************************************************************************)
(* An RTP stream: the reception statistics of rtp/src/rtp.c (RFC 3550,     *)
(* appendix A) and the reports of bindings/cxx/src/rtp.cpp.  The sender    *)
(* numbers its packets without end and the wire carries the number modulo  *)
(* RtpSeqMod; the network loses, repeats and reorders them, and a sender   *)
(* that restarts jumps ahead.  The handlers of a stream may call it back.  *)
(***************************************************************************)
EXTENDS Integers

CONSTANTS
    RtpSeqMod,      \* sequence numbers (2^16 in the code)
    Dropout,        \* RTP_MAX_DROPOUT
    Misorder,       \* RTP_MAX_MISORDER
    MinSeq,         \* RTP_MIN_SEQUENTIAL
    Word,           \* 32-bit counters are kept modulo this (2^32 in the code)
    First,          \* numbers the first packet may have
    MaxPackets,     \* bound: packets received
    MaxReports      \* bound: reports attempted

(* The windows of a sequence number do not overlap, and the bounds keep    *)
(* the 32-bit counters from wrapping.                                      *)
ASSUME RtpAssumption ==
    /\ RtpSeqMod \in Nat /\ Dropout \in Nat \ {0} /\ Misorder \in Nat \ {0}
    /\ Dropout + Misorder <= RtpSeqMod
    /\ MinSeq \in Nat \ {0} /\ First \in SUBSET Nat
    /\ Word \in Nat /\ RtpSeqMod < Word \div 2
    /\ MaxPackets \in Nat /\ MaxPackets * Dropout < Word \div 2

VARIABLES
    src,        \* rtp_source_t, or <<>> before the first packet
    peer, on,   \* has_peer, reports_on
    ms,         \* rtcp_ms is not 0
    timer,      \* timer_id is not 0
    high,       \* history: the number of the last packet that raised max_seq
    origin,     \* history: the number base_seq stands for
    lapsed,     \* history: reports stopped because one failed or ms was 0
    npkts, nreps

rtpVars == <<src, peer, on, ms, timer, high, origin, lapsed, npkts, nreps>>
stream == <<peer, on, ms, timer, lapsed, nreps>>

RtpInit ==
    /\ src = <<>> /\ peer = FALSE /\ on = FALSE /\ ms = TRUE /\ timer = FALSE
    /\ high = 0 /\ origin = 0 /\ lapsed = FALSE /\ npkts = 0 /\ nreps = 0

U16(n) == n % RtpSeqMod
U32(n) == n % Word
I32(n) == IF U32(n) >= Word \div 2 THEN U32(n) - Word ELSE U32(n)
-------------------------------------------------------------------------------
source_reset(s, seq) ==
    [s EXCEPT !.base_seq = seq, !.max_seq = seq, !.bad_seq = RtpSeqMod + 1, !.cycles = 0,
              !.received = 0, !.received_prior = 0, !.expected_prior = 0]

rtp_source_init(seq) ==
    [max_seq |-> U16(seq - 1), cycles |-> 0, base_seq |-> seq, bad_seq |-> RtpSeqMod + 1,
     probation |-> MinSeq, received |-> 0, expected_prior |-> 0, received_prior |-> 0]

Counted(s) == [s EXCEPT !.received = U32(@ + 1)]

(* Mutant: only the wrap to exactly 0 is noticed. *)
InOrder_zero(s, seq) ==
    [s EXCEPT !.cycles = IF seq = 0 THEN U32(@ + RtpSeqMod) ELSE @, !.max_seq = seq]

(* In order, with a permissible gap. *)
InOrder(s, seq) ==
    [s EXCEPT !.cycles = IF seq < s.max_seq THEN U32(@ + RtpSeqMod) ELSE @, !.max_seq = seq]

(* The new state, and what the packet was taken for. *)
rtp_source_update(s, seq) ==
    LET udelta == U16(seq - s.max_seq) IN
    IF s.probation # 0
    THEN IF seq = U16(s.max_seq + 1)
         THEN IF s.probation = 1
              THEN [s |-> Counted(source_reset([s EXCEPT !.probation = 0], seq)), as |-> "start"]
              ELSE [s |-> [s EXCEPT !.probation = @ - 1, !.max_seq = seq], as |-> "probation"]
         ELSE [s |-> [s EXCEPT !.probation = MinSeq - 1, !.max_seq = seq], as |-> "probation"]
    ELSE IF udelta < Dropout THEN [s |-> Counted(InOrder(s, seq)), as |-> "next"]
    ELSE IF udelta <= RtpSeqMod - Misorder
    THEN IF seq = s.bad_seq
         THEN [s |-> Counted(source_reset(s, seq)), as |-> "start"]
         ELSE [s |-> [s EXCEPT !.bad_seq = U16(seq + 1)], as |-> "jump"]
    ELSE [s |-> Counted(s), as |-> "late"]

(* A packet numbered n: late by less than the misorder window, or ahead,  *)
(* by a gap or by a restart.  Its source is the first one heard.          *)
on_rtp_readable(n) ==
    LET s == IF src = <<>> THEN rtp_source_init(U16(n)) ELSE src
        u == rtp_source_update(s, U16(n))
    IN  /\ npkts < MaxPackets /\ n >= 0
        /\ IF src = <<>> THEN n \in First
           ELSE n - high > -Misorder /\ n - high <= RtpSeqMod - Misorder
        /\ src' = u.s /\ npkts' = npkts + 1
        /\ high' = IF u.as \in {"jump", "late"} THEN high ELSE n
        /\ origin' = IF u.as = "start" THEN n ELSE origin
        /\ UNCHANGED stream

Expected == U32(src.cycles + src.max_seq - src.base_seq + 1)
ExpectedInterval == U32(Expected - src.expected_prior)
LostInterval == I32(ExpectedInterval - U32(src.received - src.received_prior))

(* The interval is closed by making the report, sent or not. *)
rtp_source_report ==
    IF src # <<>> /\ src.received > 0
    THEN src' = [src EXCEPT !.expected_prior = Expected, !.received_prior = src.received]
    ELSE UNCHANGED src
-------------------------------------------------------------------------------
(* No-op when armed, when reports are off or when the interval is 0. *)
arm_timer(armed, reports) == armed \/ (reports /\ ms)

set_peer ==
    /\ peer' = TRUE /\ on' = TRUE
    /\ timer' = arm_timer(timer, TRUE)
    /\ lapsed' = (~timer /\ ~ms)
    /\ UNCHANGED <<src, ms, high, origin, npkts, nreps>>

(* A failed timer in set_peer: net_loop_after returns 0 and it throws. *)
set_peer_fails ==
    /\ ~timer /\ ms
    /\ peer' = TRUE /\ on' = TRUE /\ lapsed' = TRUE
    /\ UNCHANGED <<src, ms, timer, high, origin, npkts, nreps>>

(* Takes effect when the timer is next armed. *)
set_rtcp_interval ==
    /\ ms' = ~ms
    /\ UNCHANGED <<src, peer, on, timer, high, origin, lapsed, npkts, nreps>>

Attempt == nreps < MaxReports /\ nreps' = nreps + 1

(* send_report, then arm_timer; a report that cannot be sent is the last. *)
on_report_timer(sent) ==
    /\ timer /\ Attempt
    /\ UNCHANGED <<peer, on, ms>>
    /\ IF peer THEN rtp_source_report ELSE UNCHANGED src
    /\ timer' = (sent /\ arm_timer(FALSE, on))
    /\ lapsed' = (~sent \/ ~ms)
    /\ UNCHANGED <<high, origin, npkts>>

(* Mutant: the timer is left armed. *)
bye_armed(sent) ==
    /\ Attempt /\ (peer \/ sent)
    /\ IF peer THEN rtp_source_report ELSE UNCHANGED src
    /\ on' = (IF sent THEN FALSE ELSE on)
    /\ UNCHANGED <<peer, ms, timer, high, origin, lapsed, npkts>>

(* A BYE that cannot be sent leaves the reports going; without a peer none *)
(* is sent.                                                                *)
bye(sent) ==
    /\ Attempt /\ (peer \/ sent)
    /\ IF peer THEN rtp_source_report ELSE UNCHANGED src
    /\ on' = (IF sent THEN FALSE ELSE on)
    /\ timer' = (IF sent THEN FALSE ELSE timer)
    /\ UNCHANGED <<peer, ms, high, origin, lapsed, npkts>>

RtpNext ==
    \/ \E n \in 0 .. high + RtpSeqMod : on_rtp_readable(n)
    \/ set_peer \/ set_peer_fails \/ set_rtcp_interval
    \/ \E sent \in BOOLEAN : on_report_timer(sent) \/ bye(sent)

RtpSpec == RtpInit /\ [][RtpNext]_rtpVars
-------------------------------------------------------------------------------
(* The extended sequence number reported counts the sender's packets       *)
(* exactly, over wraps, losses, repeats, reordering and restarts.          *)
ExtendedExact ==
    src # <<>> /\ src.probation = 0 =>
        U32(src.cycles + src.max_seq - src.base_seq) = high - origin

(* The fraction lost fits its 8 bits: no interval loses all it expected,   *)
(* so the cast in rtp_source_report never turns a total loss into none.    *)
FractionFits ==
    src # <<>> /\ src.received > 0 /\ ExpectedInterval # 0 =>
        LostInterval < ExpectedInterval

(* A timer runs only while reports are on; while they are on one runs,     *)
(* unless a report failed or the interval was 0 when it was to be armed.   *)
ReportsGoOn ==
    /\ timer => on
    /\ on /\ ~lapsed => timer

(* Reception statistics are exact: the extended sequence number counts the *)
(* sender's packets, no interval loses everything it expected, and reports *)
(* go on until a BYE.                                                      *)
MediaReports == ExtendedExact /\ FractionFits /\ ReportsGoOn
===============================================================================
