------------------------------ MODULE MediaBearer -------------------------------
(***************************************************************************)
(* The media filters of one subscriber in bindings/examples/ims/access.lua *)
(* over the forwarding tables: the media tuple learnt from an SDP and the  *)
(* dedicated bearer brought by a Create Bearer Request race, the network   *)
(* releases bearers and brings others, and calls follow one another.  Each *)
(* handler runs to its end; Gtpu has the map writes one by one.            *)
(***************************************************************************)
EXTENDS Integers, FiniteSets

CONSTANTS
    Tuples,         \* media addresses an SDP may name
    MaxBearers      \* bound: dedicated bearers given to the subscriber

ASSUME TupleNamed == "none" \notin Tuples

VARIABLES
    conf,           \* media_bearer is not "default"; rtcp_bearer is "media"
    ms,             \* the subscriber: ded_n, ded_bearer, ded_released, media_tft
    tables,         \* teid_tft_map and the keys of teid_rx_map
    past            \* history: tuples of earlier calls; the default bearer
                    \* lost its media filter to a dedicated one

mvars == <<conf, ms, tables, past>>

Default == 0        \* the default bearer; dedicated ones are numbered from 1
NoBearer == -1
NoMedia == [tuple |-> "none"]
SIP == <<"SIP", "P-CSCF">>

(* A filter that is there already is refused; an entry of the decap the    *)
(* refused call made is taken back.                                        *)
add_filter(t, key, b) ==
    IF key \in DOMAIN t.tft THEN t
    ELSE [tft |-> [k \in DOMAIN t.tft \cup {key} |-> IF k = key THEN b ELSE t.tft[k]],
          rx |-> t.rx \cup {b}]

(* Deletes the decap entry of the bearer with the filter, shared or not. *)
del_filter(t, key, b) ==
    [tft |-> [k \in DOMAIN t.tft \ {key} |-> t.tft[k]], rx |-> t.rx \ {b}]

media_bearer(s) ==
    IF conf.auto /\ s.ded_bearer # NoBearer /\ ~s.ded_released THEN s.ded_bearer ELSE Default

(* program_filter has steered the signalling onto the default bearer. *)
MediaInit ==
    /\ conf \in [auto : BOOLEAN, rtcp_on_media : BOOLEAN]
    /\ ms = [ded_n |-> 0, ded_bearer |-> NoBearer, ded_released |-> FALSE,
             media_tft |-> NoMedia]
    /\ tables = add_filter([tft |-> <<>>, rx |-> {}], SIP, Default)
    /\ past = [tuples |-> {}, off_default |-> FALSE]

-------------------------------------------------------------------------------
(* An SDP names the media tuple of a call; the filters of an earlier call  *)
(* are forgotten, not removed.                                             *)
program_media_tfts(c) ==
    LET b == media_bearer(ms)
        r == IF conf.rtcp_on_media THEN b ELSE Default
    IN  /\ ms' = [ms EXCEPT !.media_tft = [tuple |-> c, rtp |-> b, rtcp |-> r]]
        /\ tables' = add_filter(add_filter(tables, <<"RTP", c>>, b), <<"RTCP", c>>, r)
        /\ past' = [past EXCEPT !.tuples = @ \cup ({ms.media_tft.tuple} \ {"none", c})]
        /\ UNCHANGED conf

(* Moves what follows the media onto the bearer, RTP before RTCP. *)
rehome(t, m, b) ==
    LET rtp == <<"RTP", m.tuple>>
        rtcp == <<"RTCP", m.tuple>>
        out == del_filter(t, rtp, m.rtp)
    IN  IF conf.rtcp_on_media
        THEN add_filter(add_filter(del_filter(out, rtcp, m.rtcp), rtp, b), rtcp, b)
        ELSE add_filter(out, rtp, b)

(* Mutant: only media on the default bearer is moved. *)
on_create_bearer_request_once ==
    LET n == ms.ded_n + 1
        m == ms.media_tft
        moves == m # NoMedia /\ conf.auto /\ m.rtp = Default
    IN  /\ n <= MaxBearers
        /\ ms' = [ded_n |-> n, ded_bearer |-> n, ded_released |-> FALSE,
                  media_tft |-> IF ~moves THEN m
                                ELSE [m EXCEPT !.rtp = n,
                                         !.rtcp = IF conf.rtcp_on_media THEN n ELSE @]]
        /\ tables' = IF moves THEN rehome(tables, m, n) ELSE tables
        /\ past' = [past EXCEPT !.off_default = @ \/ (moves /\ m.rtp = Default)]
        /\ UNCHANGED conf

(* Every request, one repeated by the network included, is given a bearer  *)
(* of its own, which becomes the home of the media (rehome_media).         *)
on_create_bearer_request ==
    LET n == ms.ded_n + 1
        m == ms.media_tft
        moves == m # NoMedia /\ conf.auto /\ m.rtp # n
    IN  /\ n <= MaxBearers
        /\ ms' = [ded_n |-> n, ded_bearer |-> n, ded_released |-> FALSE,
                  media_tft |-> IF ~moves THEN m
                                ELSE [m EXCEPT !.rtp = n,
                                         !.rtcp = IF conf.rtcp_on_media THEN n ELSE @]]
        /\ tables' = IF moves THEN rehome(tables, m, n) ELSE tables
        /\ past' = [past EXCEPT !.off_default = @ \/ (moves /\ m.rtp = Default)]
        /\ UNCHANGED conf

(* Delete Bearer Request: only the last bearer is remembered, and media    *)
(* already on it stays there.                                              *)
on_delete_bearer_request(b) ==
    /\ ms' = [ms EXCEPT !.ded_released = @ \/ b = ms.ded_bearer]
    /\ UNCHANGED <<conf, tables, past>>

MediaNext ==
    \/ \E c \in Tuples : program_media_tfts(c)
    \/ on_create_bearer_request
    \/ \E b \in 1 .. ms.ded_n : on_delete_bearer_request(b)

MediaSpec == MediaInit /\ [][MediaNext]_mvars

-------------------------------------------------------------------------------
(* "The Create Bearer Request and the SDP answer race, and both orders     *)
(* have to work": once both have come, in whatever order and however often *)
(* bearers come and go, the media rides the newest bearer, up and down.    *)
(* A tuple an earlier call left behind is excepted: its old filter is in   *)
(* the way of the new one.                                                 *)
MediaHomed ==
    LET m == ms.media_tft IN
    m # NoMedia /\ conf.auto /\ ms.ded_bearer # NoBearer /\ ~ms.ded_released
        => /\ m.rtp = ms.ded_bearer
           /\ m.tuple \notin past.tuples
                => tables.tft[<<"RTP", m.tuple>>] = m.rtp /\ m.rtp \in tables.rx

(* The media of a call can be received on the bearer it is sent on, and    *)
(* the signalling on the default bearer, unless media was moved away from  *)
(* there: that takes the shared decap entry along.                         *)
DownlinkKept ==
    /\ Default \in tables.rx \/ past.off_default
    /\ \A k \in DOMAIN tables.tft :
          k[1] = "RTP" /\ k[2] \notin past.tuples /\ tables.tft[k] # Default
             => tables.tft[k] \in tables.rx
===============================================================================
