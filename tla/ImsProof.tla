-------------------------------- MODULE ImsProof --------------------------------
(***************************************************************************)
(* Proofs about the phases of the IMS scripts (CallPhase).                 *)
(***************************************************************************)
EXTENDS CallPhase, TLAPS

-------------------------------------------------------------------------------
(* The media filters. *)
LEMMA Adds ==
    ASSUME NEW t, NEW k, NEW b
    PROVE  LET x == add_filter(t, k, b)
           IN  /\ DOMAIN x.tft = DOMAIN t.tft \cup {k}
               /\ x.tft[k] = IF k \in DOMAIN t.tft THEN t.tft[k] ELSE b
               /\ \A o \in DOMAIN t.tft : x.tft[o] = t.tft[o]
               /\ \A o \in t.rx : o \in x.rx
               /\ k \notin DOMAIN t.tft => b \in x.rx
BY DEF add_filter

(* Deleting a filter keeps the others, and takes the downlink entry of its *)
(* bearer along.                                                           *)
LEMMA Deletes ==
    ASSUME NEW t, NEW k, NEW b
    PROVE  LET x == del_filter(t, k, b)
           IN  /\ DOMAIN x.tft = DOMAIN t.tft \ {k}
               /\ \A o \in DOMAIN t.tft : o # k => x.tft[o] = t.tft[o]
               /\ x.rx = t.rx \ {b}
BY SMTT(30) DEF del_filter

(* What rehome leaves: the media on its new bearer, with a way down, and   *)
(* nothing else lost but the ways down of the bearers it left.             *)
LEMMA Rehomes ==
    ASSUME NEW t, NEW m, NEW b, NEW x, x = rehome(t, m, b),
           conf.rtcp_on_media => m.rtcp = m.rtp
    PROVE  LET rtp == <<"RTP", m.tuple>>
               rtcp == <<"RTCP", m.tuple>>
           IN  /\ rtp \in DOMAIN x.tft /\ x.tft[rtp] = b /\ b \in x.rx
               /\ \A k \in DOMAIN x.tft : k \in DOMAIN t.tft \/ k = rtp \/ k = rtcp
               /\ \A o \in t.rx : o # m.rtp => o \in x.rx
<1> DEFINE rtp == <<"RTP", m.tuple>>
           rtcp == <<"RTCP", m.tuple>>
           o1 == del_filter(t, rtp, m.rtp)
<1>1. DOMAIN o1.tft = DOMAIN t.tft \ {rtp} /\ o1.rx = t.rx \ {m.rtp}
  BY Deletes, SMTT(30)
<1>2. rtp # rtcp
  BY SMTT(30)
<1>3. CASE conf.rtcp_on_media
  <2> DEFINE o2 == del_filter(o1, rtcp, m.rtcp)
             o3 == add_filter(o2, rtp, b)
  <2>1. x = add_filter(o3, rtcp, b)
    BY <1>3, SMTT(30) DEF rehome
  <2> HIDE DEF o1, rtp, rtcp
  <2>2. DOMAIN o2.tft = DOMAIN o1.tft \ {rtcp} /\ o2.rx = o1.rx \ {m.rtcp}
    BY Deletes, SMTT(30)
  <2> HIDE DEF o2
  <2>3. /\ DOMAIN o3.tft = DOMAIN o2.tft \cup {rtp} /\ \A o \in o2.rx : o \in o3.rx
        /\ rtp \notin DOMAIN o2.tft => b \in o3.rx /\ o3.tft[rtp] = b
    BY Adds, SMTT(30)
  <2> HIDE DEF o3
  <2>4. /\ DOMAIN x.tft = DOMAIN o3.tft \cup {rtcp} /\ \A o \in o3.rx : o \in x.rx
        /\ \A o \in DOMAIN o3.tft : x.tft[o] = o3.tft[o]
    BY <2>1, Adds, SMTT(30)
  <2>5. /\ rtp \in DOMAIN x.tft /\ x.tft[rtp] = b /\ b \in x.rx
        /\ \A k \in DOMAIN x.tft : k \in DOMAIN t.tft \/ k = rtp \/ k = rtcp
    BY <1>1, <1>2, <2>2, <2>3, <2>4, SMTT(30)
  <2>6. \A o \in t.rx : o # m.rtp => o \in x.rx
    BY <1>1, <1>3, <2>2, <2>3, <2>4, SMTT(30)
  <2> QED BY <2>5, <2>6, SMTT(30) DEF rtp, rtcp
<1>4. CASE ~conf.rtcp_on_media
  <2>1. x = add_filter(o1, rtp, b)
    BY <1>4, SMTT(30) DEF rehome
  <2> HIDE DEF o1, rtp, rtcp
  <2>2. /\ DOMAIN x.tft = DOMAIN o1.tft \cup {rtp} /\ \A o \in o1.rx : o \in x.rx
        /\ rtp \notin DOMAIN o1.tft => b \in x.rx /\ x.tft[rtp] = b
    BY <2>1, Adds, SMTT(30)
  <2>3. /\ rtp \in DOMAIN x.tft /\ x.tft[rtp] = b /\ b \in x.rx
        /\ \A k \in DOMAIN x.tft : k \in DOMAIN t.tft \/ k = rtp \/ k = rtcp
        /\ \A o \in t.rx : o # m.rtp => o \in x.rx
    BY <1>1, <2>2, SMTT(30)
  <2> QED BY <2>3 DEF rtp, rtcp
<1> QED BY <1>3, <1>4, SMTT(30)

MsFields == {"ded_n", "ded_bearer", "ded_released", "media_tft"}
Homed == conf.auto /\ ms.ded_bearer # NoBearer /\ ~ms.ded_released

(* The current tuple m.tuple is the only one with an RTP filter that is    *)
(* not past, and its filter has a way down.                                *)
FiltersOk(t, tuple, old) ==
    \A k \in DOMAIN t.tft : k[1] = "RTP" =>
        /\ k = <<"RTP", k[2]>> /\ k[2] \in Tuples
        /\ k[2] \in old \/ (k[2] = tuple /\ (t.tft[k] = Default \/ t.tft[k] \in t.rx))

MediaInv ==
    LET m == ms.media_tft
    IN  /\ DOMAIN ms = MsFields
        /\ ms.ded_n \in Nat /\ ms.ded_bearer \in Int /\ ms.ded_bearer <= ms.ded_n
        /\ m # NoMedia => /\ DOMAIN m = {"tuple", "rtp", "rtcp"} /\ m.tuple \in Tuples
                          /\ m.rtp \in Int /\ m.rtp <= ms.ded_n
        /\ m # NoMedia /\ conf.rtcp_on_media => m.rtcp = m.rtp
        /\ m # NoMedia => <<"RTP", m.tuple>> \in DOMAIN tables.tft
        /\ m # NoMedia /\ Homed => m.rtp = ms.ded_bearer
        /\ m # NoMedia /\ Homed /\ m.tuple \notin past.tuples
              => tables.tft[<<"RTP", m.tuple>>] = m.rtp /\ m.rtp \in tables.rx
        /\ DOMAIN past = {"tuples", "off_default"}
        /\ FiltersOk(tables, m.tuple, past.tuples)
        /\ Default \in tables.rx \/ past.off_default

(* At first there is no media. *)
LEMMA MInit == MediaInit => MediaInv
<1> SUFFICES ASSUME MediaInit PROVE MediaInv
  OBVIOUS
<1> DEFINE t == [tft |-> <<>>, rx |-> {}]
<1>1. tables = add_filter(t, SIP, Default) /\ DOMAIN t.tft = {}
  BY SMTT(30) DEF MediaInit
<1> HIDE DEF t
<1>2. DOMAIN tables.tft = {SIP} /\ Default \in tables.rx
  BY <1>1, Adds, SMTT(30)
<1>3. FiltersOk(tables, ms.media_tft.tuple, past.tuples)
  <2>1. SIP[1] # "RTP"
    BY SMTT(30) DEF SIP
  <2> QED BY <1>2, <2>1 DEF FiltersOk
<1>4. /\ DOMAIN ms = MsFields /\ ms.ded_n = 0 /\ ms.ded_bearer = -1 /\ ms.media_tft = NoMedia
      /\ DOMAIN past = {"tuples", "off_default"}
  BY SMTT(30) DEF MediaInit, MsFields, NoBearer
<1> QED BY <1>2, <1>3, <1>4, SMTT(30) DEF MediaInv

(* program_media_tfts, for a new tuple or the same one. *)
LEMMA MProgram ==
    ASSUME MediaInv, NEW c \in Tuples, program_media_tfts(c)
    PROVE  MediaInv'
<1> DEFINE m == ms.media_tft
           b == media_bearer(ms)
           r == IF conf.rtcp_on_media THEN b ELSE Default
           rtp == <<"RTP", c>>
           rtcp == <<"RTCP", c>>
           t1 == add_filter(tables, rtp, b)
<1>1. /\ ms' = [ms EXCEPT !.media_tft = [tuple |-> c, rtp |-> b, rtcp |-> r]]
      /\ tables' = add_filter(t1, rtcp, r)
      /\ past' = [past EXCEPT !.tuples = @ \cup ({m.tuple} \ {"none", c})]
      /\ conf' = conf
  BY SMTT(30) DEF program_media_tfts
<1>2. b \in Int /\ b <= ms.ded_n /\ (Homed => b = ms.ded_bearer) /\ (conf.rtcp_on_media => r = b)
  BY DEF media_bearer, MediaInv, Default, Homed
<1>3. /\ DOMAIN ms' = MsFields /\ ms'.media_tft = [tuple |-> c, rtp |-> b, rtcp |-> r]
      /\ ms'.ded_n = ms.ded_n /\ ms'.ded_bearer = ms.ded_bearer /\ ms'.ded_released = ms.ded_released
  BY <1>1 DEF MediaInv, MsFields
<1>4. /\ DOMAIN past' = {"tuples", "off_default"} /\ past'.off_default = past.off_default
      /\ past'.tuples = past.tuples \cup ({m.tuple} \ {"none", c})
  BY <1>1 DEF MediaInv
<1>5. rtp # rtcp /\ rtcp[1] # "RTP" /\ rtp[1] = "RTP" /\ rtp[2] = c /\ rtp = <<"RTP", rtp[2]>>
  BY SMTT(30)
<1>6. c # "none" /\ (m = NoMedia => m.tuple = "none") /\ (m # NoMedia => m.tuple # "none")
  BY TupleNamed, SMTT(30) DEF NoMedia, MediaInv
<1> DEFINE mm == ms'.media_tft
<1>7. /\ DOMAIN mm = {"tuple", "rtp", "rtcp"} /\ mm.tuple = c /\ mm.rtp = b /\ mm.rtcp = r /\ mm # NoMedia
  BY <1>3, SMTT(30) DEF NoMedia
<1> HIDE DEF b, r, m, mm
<1>8. /\ DOMAIN t1.tft = DOMAIN tables.tft \cup {rtp}
      /\ t1.tft[rtp] = IF rtp \in DOMAIN tables.tft THEN tables.tft[rtp] ELSE b
      /\ \A o \in DOMAIN tables.tft : t1.tft[o] = tables.tft[o]
      /\ \A o \in tables.rx : o \in t1.rx
      /\ rtp \notin DOMAIN tables.tft => b \in t1.rx
  BY Adds, SMTT(30)
<1> HIDE DEF t1
<1>9. /\ DOMAIN tables'.tft = DOMAIN t1.tft \cup {rtcp}
      /\ \A o \in DOMAIN t1.tft : tables'.tft[o] = t1.tft[o]
      /\ \A o \in t1.rx : o \in tables'.rx
  BY <1>1, Adds, SMTT(30)
<1> HIDE DEF rtp, rtcp
<1>10. rtp \in DOMAIN tables.tft /\ c \notin past.tuples
         => m # NoMedia /\ m.tuple = c /\ (tables.tft[rtp] = Default \/ tables.tft[rtp] \in tables.rx)
  BY <1>5, <1>6, SMTT(30) DEF MediaInv, FiltersOk, m
<1>11. Homed /\ c \notin past'.tuples => tables'.tft[rtp] = b /\ b \in tables'.rx
  <2> SUFFICES ASSUME Homed, c \notin past.tuples PROVE tables'.tft[rtp] = b /\ b \in tables'.rx
    BY <1>4, SMTT(30)
  <2>1. CASE rtp \in DOMAIN tables.tft
    <3>1. m # NoMedia /\ m.tuple = c
      BY <1>10, <2>1, SMTT(30)
    <3>2. tables.tft[rtp] = m.rtp /\ m.rtp \in tables.rx /\ m.rtp = b
      BY <1>2, <3>1, SMTT(30) DEF MediaInv, m, rtp
    <3> QED BY <1>8, <1>9, <2>1, <3>2, SMTT(30)
  <2>2. CASE rtp \notin DOMAIN tables.tft
    BY <1>8, <1>9, <2>2, SMTT(30)
  <2> QED BY <2>1, <2>2, SMTT(30)
<1>12. FiltersOk(tables', c, past'.tuples)
  <2> SUFFICES ASSUME NEW k \in DOMAIN tables'.tft, k[1] = "RTP"
               PROVE  /\ k = <<"RTP", k[2]>> /\ k[2] \in Tuples
                      /\ k[2] \in past'.tuples
                         \/ (k[2] = c /\ (tables'.tft[k] = Default \/ tables'.tft[k] \in tables'.rx))
    BY ZenonT(40) DEF FiltersOk
  <2>1. CASE k = rtp
    <3>1. CASE rtp \in DOMAIN tables.tft
      BY <1>4, <1>5, <1>8, <1>9, <1>10, <2>1, <3>1, SMTT(30)
    <3>2. CASE rtp \notin DOMAIN tables.tft
      BY <1>5, <1>8, <1>9, <2>1, <3>2, SMTT(30)
    <3> QED BY <3>1, <3>2, SMTT(30)
  <2>2. CASE k # rtp
    <3>1. k \in DOMAIN tables.tft
      BY <1>5, <1>8, <1>9, <2>2, SMTT(30)
    <3>2. k = <<"RTP", k[2]>> /\ k[2] \in Tuples /\ (k[2] \in past.tuples \/ k[2] = m.tuple)
      BY <3>1, SMTT(30) DEF MediaInv, FiltersOk, m
    <3>3. k[2] # c /\ k[2] # "none"
      BY <2>2, <3>2, TupleNamed, SMTT(30) DEF rtp
    <3> QED BY <1>4, <3>2, <3>3, SMTT(30)
  <2> QED BY <2>1, <2>2
<1>13. Default \in tables'.rx \/ past'.off_default
  BY <1>4, <1>8, <1>9, SMTT(30) DEF MediaInv
<1>14. Homed' <=> Homed
  BY <1>1, <1>3, SMTT(30) DEF Homed
<1>15. rtp \in DOMAIN tables'.tft
  BY <1>8, <1>9, SMTT(30)
<1> QED
  <2>1. ms'.ded_n \in Nat /\ ms'.ded_bearer \in Int /\ ms'.ded_bearer <= ms'.ded_n
    BY <1>3, Zenon DEF MediaInv
  <2>2. mm.rtp \in Int /\ mm.rtp <= ms'.ded_n /\ (conf'.rtcp_on_media => mm.rtcp = mm.rtp)
    BY <1>1, <1>2, <1>3, <1>7, SMTT(30)
  <2>3. Homed' => mm.rtp = ms'.ded_bearer
    BY <1>2, <1>3, <1>7, <1>14, SMTT(30)
  <2> QED BY <1>3, <1>4, <1>7, <1>11, <1>12, <1>13, <1>14, <1>15, <2>1, <2>2, <2>3, SMTT(30) DEF MediaInv, mm, rtp

(* A dedicated bearer is set up, and takes the media over. *)
LEMMA MCreate ==
    ASSUME MediaInv, on_create_bearer_request
    PROVE  MediaInv'
<1> DEFINE m == ms.media_tft
           n == ms.ded_n + 1
           moves == m # NoMedia /\ conf.auto /\ m.rtp # n
           mm == ms'.media_tft
<1>1. /\ ms' = [ded_n |-> n, ded_bearer |-> n, ded_released |-> FALSE,
                media_tft |-> IF ~moves THEN m
                              ELSE [m EXCEPT !.rtp = n, !.rtcp = IF conf.rtcp_on_media THEN n ELSE @]]
      /\ tables' = IF moves THEN rehome(tables, m, n) ELSE tables
      /\ past' = [past EXCEPT !.off_default = @ \/ (moves /\ m.rtp = Default)]
      /\ conf' = conf
  BY SMTT(30) DEF on_create_bearer_request
<1>2. n \in Nat /\ (m # NoMedia => m.rtp # n)
  BY DEF MediaInv
<1>3. /\ DOMAIN ms' = MsFields /\ ms'.ded_n = n /\ ms'.ded_bearer = n
  BY <1>1 DEF MsFields
<1>4. /\ DOMAIN past' = {"tuples", "off_default"} /\ past'.tuples = past.tuples
      /\ past'.off_default <=> past.off_default \/ (moves /\ m.rtp = Default)
  BY <1>1, ZenonT(40) DEF MediaInv
<1>5. CASE moves
  <2>1. /\ mm = [m EXCEPT !.rtp = n, !.rtcp = IF conf.rtcp_on_media THEN n ELSE @]
        /\ tables' = rehome(tables, m, n)
    BY <1>1, <1>5, SMTT(30)
  <2>2. m # NoMedia /\ DOMAIN m = {"tuple", "rtp", "rtcp"} /\ m.tuple \in Tuples
    BY <1>5 DEF MediaInv
  <2>3. /\ DOMAIN mm = {"tuple", "rtp", "rtcp"} /\ mm.tuple = m.tuple /\ mm.rtp = n
        /\ conf.rtcp_on_media => mm.rtcp = n
    BY <2>1, <2>2, SMTT(30)
  <2>4. mm # NoMedia
    BY <2>3, SMTT(30) DEF NoMedia
  <2> DEFINE rtp == <<"RTP", m.tuple>>
             rtcp == <<"RTCP", m.tuple>>
  <2>5. rtp # rtcp /\ rtcp[1] # "RTP" /\ rtp[1] = "RTP" /\ rtp[2] = m.tuple /\ rtp = <<"RTP", rtp[2]>>
    BY SMTT(30)
  <2>6. /\ rtp \in DOMAIN tables'.tft /\ tables'.tft[rtp] = n /\ n \in tables'.rx
        /\ \A k \in DOMAIN tables'.tft : k \in DOMAIN tables.tft \/ k = rtp \/ k = rtcp
        /\ \A o \in tables.rx : o # m.rtp => o \in tables'.rx
    <3>1. conf.rtcp_on_media => m.rtcp = m.rtp
      BY <2>2 DEF MediaInv
    <3>2. tables' = rehome(tables, m, n)
      BY <2>1
    <3> HIDE DEF m, n, mm
    <3>4. PICK x, t, mc, b : x = tables' /\ t = tables /\ mc = m /\ b = n
      BY SMTT(30)
    <3>5. x = rehome(t, mc, b) /\ (conf.rtcp_on_media => mc.rtcp = mc.rtp)
      BY <3>1, <3>2, <3>4, SMTT(30)
    <3>3. /\ <<"RTP", mc.tuple>> \in DOMAIN x.tft /\ x.tft[<<"RTP", mc.tuple>>] = b /\ b \in x.rx
          /\ \A k \in DOMAIN x.tft : k \in DOMAIN t.tft \/ k = <<"RTP", mc.tuple>> \/ k = <<"RTCP", mc.tuple>>
          /\ \A o \in t.rx : o # mc.rtp => o \in x.rx
      BY <3>5, Rehomes, SMTT(30)
    <3> QED BY <3>3, <3>4, SMTT(30)
  <2> HIDE DEF mm, m, n
  <2>7. Default \in tables'.rx \/ past'.off_default
    BY <1>4, <1>5, <2>6, SMTT(30) DEF MediaInv
  <2>8. FiltersOk(tables', m.tuple, past'.tuples)
    <3> SUFFICES ASSUME NEW k \in DOMAIN tables'.tft, k[1] = "RTP"
                 PROVE  /\ k = <<"RTP", k[2]>> /\ k[2] \in Tuples
                        /\ k[2] \in past'.tuples
                           \/ (k[2] = m.tuple /\ (tables'.tft[k] = Default \/ tables'.tft[k] \in tables'.rx))
      BY ZenonT(40) DEF FiltersOk
    <3> HIDE DEF rtp, rtcp
    <3>1. CASE k = rtp
      BY <2>2, <2>5, <2>6, <3>1, SMTT(30)
    <3>2. CASE k # rtp
      <4>1. k \in DOMAIN tables.tft
        BY <2>5, <2>6, <3>2, SMTT(30)
      <4>2. k = <<"RTP", k[2]>> /\ k[2] \in Tuples /\ (k[2] \in past.tuples \/ k[2] = m.tuple)
        BY <4>1 DEF MediaInv, FiltersOk, m
      <4>3. k[2] # m.tuple
        BY <3>2, <4>2, SMTT(30) DEF rtp
      <4> QED BY <1>4, <4>2, <4>3, SMTT(30)
    <3> QED BY <3>1, <3>2
  <2> QED BY <1>1, <1>2, <1>3, <1>4, <2>2, <2>3, <2>4, <2>6, <2>7, <2>8, SMTT(30) DEF MediaInv, mm
<1>6. CASE ~moves
  <2>1. mm = m /\ tables' = tables /\ past'.tuples = past.tuples
    BY <1>1, <1>4, <1>6, SMTT(30)
  <2>2. past'.off_default <=> past.off_default
    BY <1>4, <1>6, SMTT(30)
  <2>3. m # NoMedia => ~conf.auto
    BY <1>2, <1>6
  <2>4. m # NoMedia => ~Homed'
    BY <1>1, <2>3, SMTT(30) DEF Homed
  <2>5. m # NoMedia => m.rtp \in Int /\ m.rtp <= n
    BY SMTT(30) DEF MediaInv
  <2> HIDE DEF m, mm, n, moves
  <2> QED BY <1>1, <1>2, <1>3, <1>4, <2>1, <2>2, <2>4, <2>5, SMTT(30) DEF MediaInv, mm, m
<1> QED BY <1>5, <1>6

(* A bearer that is released keeps its filters. *)
LEMMA MDelete ==
    ASSUME MediaInv, NEW b, on_delete_bearer_request(b)
    PROVE  MediaInv'
<1>1. /\ DOMAIN ms' = MsFields /\ ms'.ded_n = ms.ded_n /\ ms'.ded_bearer = ms.ded_bearer
      /\ ms'.media_tft = ms.media_tft /\ (ms.ded_released => ms'.ded_released)
      /\ conf' = conf /\ tables' = tables /\ past' = past
  BY ZenonT(40) DEF on_delete_bearer_request, MediaInv, MsFields
<1>2. Homed' => Homed
  BY <1>1 DEF Homed
<1> QED BY <1>1, <1>2 DEF MediaInv

(* Every SDP and bearer request keeps MediaInv. *)
LEMMA MediaStepKeeps ==
    ASSUME MediaInv, [MediaNext]_mvars
    PROVE  MediaInv'
<1>1. CASE UNCHANGED mvars
  BY <1>1 DEF MediaInv, mvars, Homed
<1> QED BY <1>1, MProgram, MCreate, MDelete, SMTT(30) DEF MediaNext

(* MediaInv implies what is promised of the media. *)
LEMMA MediaProps ==
    ASSUME MediaInv
    PROVE  MediaHomed /\ DownlinkKept
<1>1. MediaHomed
  BY SMTT(30) DEF MediaInv, MediaHomed, Homed
<1>2. DownlinkKept
  BY DEF MediaInv, DownlinkKept, FiltersOk
<1> QED BY <1>1, <1>2, SMTT(30)

CallFields == {"dlg_mo", "dlg_mt", "txn_mo", "txn_mt", "fired", "t2", "t6", "done", "timer",
               "answer", "media_timer", "media_stop", "cut"}

(* What is known of a call's record r and of what was sent for it. *)
CallOk(r, sent_) ==
    /\ DOMAIN r = CallFields
    /\ r.done => r.timer = "off" /\ ~r.media_timer
    /\ ~r.fired => sent_ = {} /\ ~r.answer /\ ~r.t6 /\ ~r.done /\ r.timer = "off"
    /\ r.timer = "hold" => r.t6
    /\ r.timer = "bye" => "BYE" \in sent_
    /\ r.timer = "setup" => ~r.t6
    /\ "200 (BYE)" \in sent_ => "BYE" \in sent_
    /\ "BYE" \in sent_ => r.t6
    /\ r.t6 => "200" \in sent_ /\ "486" \notin sent_
    /\ r.done /\ r.t6 /\ ~r.cut => "BYE" \in sent_

Open == {c \in Calls : ~call[c].done}
Fired == {c \in Calls : call[c].fired}
Answered == {c \in Calls : call[c].t6}
Over == {c \in Calls : call[c].t6 /\ call[c].done}

CallInv ==
    /\ DOMAIN call = Calls /\ DOMAIN net = Calls
    /\ \A c \in Calls : CallOk(call[c], net[c])
    /\ pending = Cardinality(Open) /\ finished = (IF pending = 0 THEN 1 ELSE 0)
    /\ guard <=> pending > 0
    /\ stat \in [attempted : Nat, answered : Nat, released : Nat]
    /\ stat.attempted = Cardinality(Fired) /\ stat.answered = Cardinality(Answered)
    /\ stat.released <= Cardinality(Over)

(* One call is left as r and m was sent for it; the counters follow. *)
Becomes(c, r) ==
    DOMAIN call' = Calls /\ call'[c] = r /\ \A o \in Calls : o # c => call'[o] = call[o]
Sent(c, m) ==
    DOMAIN net' = Calls /\ net'[c] = net[c] \cup m /\ \A o \in Calls : o # c => net'[o] = net[o]

Steps(c, r, m) ==
    /\ Becomes(c, r) /\ Sent(c, m) /\ CallOk(r, net[c] \cup m)
    /\ call[c].fired => r.fired
    /\ call[c].t6 => r.t6
    /\ call[c].done => r.done

Counts(c, r, what) ==
    /\ \/ /\ r.done <=> call[c].done
          /\ UNCHANGED <<pending, guard, finished>>
       \/ /\ r.done /\ ~call[c].done
          /\ pending' = pending - 1
          /\ guard' = (guard /\ pending > 1)
          /\ finished' = IF pending <= 1 THEN finished + 1 ELSE finished
    /\ r.fired /\ ~call[c].fired <=> what = "attempted"
    /\ r.t6 /\ ~call[c].t6 <=> what = "answered"
    /\ what = "released" => r.t6 /\ r.done /\ ~call[c].done
    /\ IF what = "none" THEN stat' = stat
       ELSE what \in {"attempted", "answered", "released"} /\ Count(what)

(* What the models of sending and updating do, said with Sent and Becomes. *)
LEMMA Sending ==
    ASSUME CallInv, NEW c \in Calls
    PROVE  /\ net' = net => Sent(c, {})
           /\ \A m : Sends(c, m) => Sent(c, {m})
           /\ \A r : call' = [call EXCEPT ![c] = r] => Becomes(c, r)
BY DEF CallInv, Sends, Sent, Becomes

(* The counters of the series when a call is over (more), or is not. *)
Ends == /\ pending' = pending - 1
        /\ guard' = (guard /\ pending > 1)
        /\ finished' = IF pending <= 1 THEN finished + 1 ELSE finished
Goes == UNCHANGED <<pending, guard, finished>>

(* A call that is not over leaves the series as it is. *)
LEMMA Keeping ==
    ASSUME CallInv, NEW c \in Calls, NEW r, Keep(c, r)
    PROVE  Becomes(c, r) /\ Goes
BY Sending, Zenon DEF Keep, Goes

(* call_finish ends a call, once: a call already done is left alone. *)
LEMMA Finishing ==
    ASSUME CallInv, NEW c \in Calls, NEW q, DOMAIN q = CallFields, call_finish(c, q)
    PROVE  \E r : /\ Becomes(c, r) /\ DOMAIN r = CallFields /\ r.done
                  /\ IF q.done THEN r = q /\ Goes ELSE Ends /\ r.timer = "off" /\ ~r.media_timer
                  /\ (r.fired <=> q.fired) /\ (r.t6 <=> q.t6) /\ (r.cut <=> q.cut) /\ (r.answer <=> q.answer)
<1>1. CASE q.done
  <2>1. call' = [call EXCEPT ![c] = q] /\ Goes
    BY <1>1 DEF call_finish, Goes
  <2>2. Becomes(c, q)
    BY <2>1, Sending, Zenon
  <2> QED BY <1>1, <2>1, <2>2, Zenon
<1>2. CASE ~q.done
  <2> DEFINE r == stop_media([q EXCEPT !.done = TRUE, !.timer = "off"])
  <2>1. call' = [call EXCEPT ![c] = r] /\ Ends
    BY <1>2 DEF call_finish, Ends
  <2>2. /\ DOMAIN r = CallFields /\ r.done = TRUE /\ r.timer = "off" /\ r.media_timer = FALSE
        /\ r.fired = q.fired /\ r.t6 = q.t6 /\ r.cut = q.cut /\ r.answer = q.answer
    BY DEF stop_media, CallFields
  <2> HIDE DEF r
  <2>3. Becomes(c, r)
    BY <2>1, Sending, Zenon
  <2> QED BY <1>2, <2>1, <2>2, <2>3, Zenon
<1> QED BY <1>1, <1>2

Messages(t6, sent_) ==
    /\ "200 (BYE)" \in sent_ => "BYE" \in sent_
    /\ "BYE" \in sent_ => t6
    /\ t6 => "200" \in sent_ /\ "486" \notin sent_

(* The caller's machines are fed a response; the rest of the record stays. *)
LEMMA FedFields ==
    ASSUME NEW c, NEW s, DOMAIN call[c] = CallFields
    PROVE  /\ DOMAIN Fed(c, s) = CallFields
           /\ Fed(c, s).done = call[c].done /\ Fed(c, s).fired = call[c].fired /\ Fed(c, s).t6 = call[c].t6
           /\ Fed(c, s).timer = call[c].timer /\ Fed(c, s).cut = call[c].cut
           /\ Fed(c, s).answer = call[c].answer /\ Fed(c, s).media_timer = call[c].media_timer
BY DEF Fed, CallFields

(* What the core sends concerns the messages only. *)
LEMMA CCore ==
    ASSUME CallInv, NEW c \in Calls, NEW m \in {"100", "486", "CANCEL"}, core(c, m)
    PROVE  CallInv'
<1>1. /\ Sent(c, {m}) /\ "INVITE" \in net[c] /\ (m = "486" => "200" \notin net[c])
      /\ call' = call /\ Goes /\ stat' = stat
  BY Sending DEF core, Goes
<1>2. CallOk(call[c], net[c] \cup {m})
  BY <1>1, Zenon DEF CallInv, CallOk
<1>3. \A o \in Calls : CallOk(call'[o], net'[o])
  BY <1>1, <1>2, ZenonT(40) DEF CallInv, Sent
<1>4. Open' = Open /\ Fired' = Fired /\ Answered' = Answered /\ Over' = Over
  BY <1>1 DEF Open, Fired, Answered, Over
<1> QED BY <1>1, <1>3, <1>4 DEF CallInv, Goes, Sent

-------------------------------------------------------------------------------
(* The registration-event phase. *)
Subscription == [t1 : BOOLEAN, t2 : BOOLEAN, timer : BOOLEAN, done : BOOLEAN]
EvFields == {"u", "pending", "guard", "finished", "due"}

OpenOf(e) == {s \in DOMAIN e.u : ~e.u[s].done}
Unit(e) == IF e.due > 0 THEN 1 ELSE 0

EvShape(e, D) ==
    /\ IsFiniteSet(D)
    /\ DOMAIN e = EvFields
    /\ DOMAIN e.u = D
    /\ \A s \in D : e.u[s] \in Subscription /\ (e.u[s].done => ~e.u[s].timer)
    /\ e.due \in Nat

(* A subscription that is over has no timer. *)
LEMMA Finished ==
    ASSUME NEW r \in Subscription
    PROVE  LET q == [r EXCEPT !.done = TRUE, !.timer = FALSE]
           IN  q \in Subscription /\ q.done /\ ~q.timer
BY Zenon DEF Subscription

(* The phase as it stands between two events, and just before a dec. *)
Good(e, D) ==
    /\ EvShape(e, D)
    /\ e.pending = Cardinality(OpenOf(e)) + Unit(e)
    /\ e.finished = (IF e.pending = 0 THEN 1 ELSE 0)
    /\ e.guard <=> e.pending > 0

Owing(e, D) ==
    /\ EvShape(e, D)
    /\ e.pending = Cardinality(OpenOf(e)) + Unit(e) + 1
    /\ e.finished = 0
    /\ e.guard

EvInv ==
    LET n == Cardinality(Watchers)
        D == IF ev.due > 0 THEN 1 .. (n + 1 - ev.due) ELSE 1 .. n
    IN  /\ Good(ev, D)
        /\ ev.due <= n + 1
        /\ \A p \in sent : p[1] \in D

(* Which subscriptions are open, when the last has been started. *)
LEMMA OpenIs ==
    ASSUME NEW e, NEW D, DOMAIN e.u = D, e.due = 0, NEW B,
           \A s \in D : e.u[s].done <=> s \in B
    PROVE  OpenOf(e) = D \ B /\ Unit(e) = 0
BY DEF OpenOf, Unit

(* Flags of one open subscription change, not whether it is done. *)
LEMMA Marks ==
    ASSUME NEW e, NEW D, Good(e, D), NEW s \in D, NEW r \in Subscription,
           r.done = e.u[s].done, r.done => ~r.timer, NEW x,
           x = [e EXCEPT !.u = [e.u EXCEPT ![s] = r]]
    PROVE  Good(x, D) /\ x.due = e.due /\ x.u[s] = r
<1>1. /\ DOMAIN x = EvFields /\ DOMAIN x.u = D /\ x.u[s] = r /\ x.due = e.due
      /\ x.pending = e.pending /\ x.guard = e.guard /\ x.finished = e.finished
      /\ \A w \in D : w # s => x.u[w] = e.u[w]
  BY DEF Good, EvShape, EvFields
<1>2. OpenOf(x) = OpenOf(e) /\ Unit(x) = Unit(e)
  BY <1>1 DEF OpenOf, Unit, Good, EvShape
<1>3. EvShape(x, D)
  BY <1>1 DEF Good, EvShape
<1> QED BY <1>1, <1>2, <1>3 DEF Good

(* A step that leaves the schedule alone. *)
LEMMA EKeeps ==
    ASSUME EvInv, NEW D, D = DOMAIN ev.u, Good(ev', D), ev'.due = ev.due, \A p \in sent' : p[1] \in D
    PROVE  EvInv'
BY SMTT(30) DEF EvInv, Good, EvShape

(* Answers come for subscriptions that were started. *)
LEMMA EDomain ==
    ASSUME EvInv
    PROVE  Good(ev, DOMAIN ev.u) /\ \A p \in sent : p[1] \in DOMAIN ev.u
BY SMTT(30) DEF EvInv, Good, EvShape

(* EvInv implies what is promised of the phase. *)
LEMMA EventProps ==
    ASSUME EvInv
    PROVE  EventPhaseEndsOnce
<1>1. Good(ev, DOMAIN ev.u)
  BY EDomain
<1> QED BY <1>1, SMTT(30) DEF Good, EvShape, OpenOf, Unit, EventPhaseEndsOnce

-------------------------------------------------------------------------------
(* What the proofs use of the cardinality of finite sets.  The library has *)
(* it, but everything in its modules is carried along by every step that   *)
(* follows them, so it is a hypothesis up to the theorems.                 *)
CardFacts ==
    /\ IsFiniteSet({}) /\ Cardinality({}) = 0
    /\ \A S : IsFiniteSet(S) => Cardinality(S) \in Nat /\ (Cardinality(S) = 0 <=> S = {})
    /\ \A S, x : IsFiniteSet(S) =>
          /\ IsFiniteSet(S \cup {x})
          /\ Cardinality(S \cup {x}) = IF x \in S THEN Cardinality(S) ELSE Cardinality(S) + 1
    /\ \A S, x : IsFiniteSet(S) =>
          /\ IsFiniteSet(S \ {x})
          /\ Cardinality(S \ {x}) = IF x \in S THEN Cardinality(S) - 1 ELSE Cardinality(S)
    /\ \A S, T : IsFiniteSet(S) /\ T \subseteq S =>
          /\ IsFiniteSet(T) /\ Cardinality(T) <= Cardinality(S)
          /\ Cardinality(S) = Cardinality(T) => S = T
    /\ \A a, b \in Int : /\ IsFiniteSet(a .. b)
                         /\ Cardinality(a .. b) = IF a > b THEN 0 ELSE b - a + 1

(* The empty set. *)
LEMMA CardEmpty ==
    ASSUME CardFacts
    PROVE  /\ IsFiniteSet({}) /\ Cardinality({}) = 0
           /\ \A S : IsFiniteSet(S) => (Cardinality(S) = 0 <=> S = {})
BY Zenon DEF CardFacts

(* The number of elements is a natural number. *)
LEMMA CardType ==
    ASSUME CardFacts, NEW S, IsFiniteSet(S)
    PROVE  Cardinality(S) \in Nat
BY DEF CardFacts

(* One element more. *)
LEMMA CardAdd ==
    ASSUME CardFacts, NEW S, NEW x, IsFiniteSet(S)
    PROVE  /\ IsFiniteSet(S \cup {x})
           /\ Cardinality(S \cup {x}) = IF x \in S THEN Cardinality(S) ELSE Cardinality(S) + 1
BY Zenon DEF CardFacts

(* One element less. *)
LEMMA CardRemove ==
    ASSUME CardFacts, NEW S, NEW x, IsFiniteSet(S)
    PROVE  /\ IsFiniteSet(S \ {x})
           /\ Cardinality(S \ {x}) = IF x \in S THEN Cardinality(S) - 1 ELSE Cardinality(S)
BY Zenon DEF CardFacts

(* A subset of a finite set. *)
LEMMA CardSubset ==
    ASSUME CardFacts, NEW S, IsFiniteSet(S), NEW T \in SUBSET S
    PROVE  /\ IsFiniteSet(T) /\ Cardinality(T) <= Cardinality(S)
           /\ Cardinality(S) = Cardinality(T) => S = T
BY Zenon DEF CardFacts

(* An interval of numbers. *)
LEMMA CardInterval ==
    ASSUME CardFacts, NEW a \in Int, NEW b \in Int
    PROVE  IsFiniteSet(a .. b) /\ Cardinality(a .. b) = IF a > b THEN 0 ELSE b - a + 1
BY Zenon DEF CardFacts

(* The series begins with every call open and nothing counted. *)
LEMMA CInit ==
    ASSUME CardFacts
    PROVE  Init => CallInv
<1> SUFFICES ASSUME Init PROVE CallInv
  OBVIOUS
<1>1. /\ DOMAIN NewCall = CallFields /\ ~NewCall.done /\ ~NewCall.fired /\ ~NewCall.t6
      /\ ~NewCall.media_timer /\ ~NewCall.answer /\ NewCall.timer = "off"
  BY DEF NewCall, CallFields
<1>2. call = [c \in Calls |-> NewCall] /\ net = [c \in Calls |-> {}]
  BY DEF Init
<1>3. \A c \in Calls : call[c] = NewCall /\ net[c] = {}
  BY <1>2
<1>4. CallOk(NewCall, {})
  BY <1>1 DEF CallOk
<1>5. Open = Calls /\ Fired = {} /\ Answered = {} /\ Over = {}
  BY <1>1, <1>3 DEF Open, Fired, Answered, Over
<1>6. Cardinality(Calls) \in Nat /\ Cardinality(Calls) # 0 /\ Cardinality({}) = 0
  BY SomeCalls, CardType, CardEmpty
<1>7. /\ pending = Cardinality(Calls) /\ guard = TRUE /\ finished = 0
      /\ stat = [attempted |-> 0, answered |-> 0, released |-> 0]
  BY DEF Init
<1> QED BY <1>2, <1>3, <1>4, <1>5, <1>6, <1>7 DEF CallInv

(* A flag of one call that may be raised and is never lowered. *)
LEMMA Raised ==
    ASSUME CardFacts,
           NEW A, NEW B, NEW c \in Calls, A \subseteq Calls, B \subseteq Calls,
           c \in A => c \in B, \A o \in Calls : o # c => (o \in A <=> o \in B)
    PROVE  /\ Cardinality(A) \in Nat
           /\ Cardinality(B) = IF c \in B /\ c \notin A THEN Cardinality(A) + 1 ELSE Cardinality(A)
<1>1. IsFiniteSet(A) /\ Cardinality(A) \in Nat
  BY SomeCalls, CardSubset, CardType
<1>2. CASE c \in B /\ c \notin A
  <2>1. B = A \cup {c}
    BY <1>2
  <2> QED BY <1>1, <1>2, <2>1, CardAdd, SMTT(30)
<1>3. CASE ~(c \in B /\ c \notin A)
  <2>1. B = A
    BY <1>3
  <2> QED BY <1>1, <1>3, <2>1
<1> QED BY <1>2, <1>3

(* A step of one call keeps CallInv when its record stays consistent and   *)
(* the counters follow it.                                                 *)
LEMMA CStep ==
    ASSUME CardFacts,
           CallInv, NEW c \in Calls, NEW r, NEW m, NEW what, Steps(c, r, m), Counts(c, r, what)
    PROVE  CallInv'
<1>1. /\ DOMAIN call' = Calls /\ DOMAIN net' = Calls /\ call'[c] = r /\ net'[c] = net[c] \cup m
      /\ \A o \in Calls : o # c => call'[o] = call[o] /\ net'[o] = net[o]
  BY DEF Steps, Becomes, Sent
<1>2. \A o \in Calls : CallOk(call[o], net[o])'
  <2> SUFFICES ASSUME NEW o \in Calls PROVE CallOk(call'[o], net'[o])
    BY Zenon DEF CallOk
  <2>1. CASE o = c
    BY <1>1, <2>1, SMTT(30) DEF Steps
  <2>2. CASE o # c
    BY <1>1, <2>2 DEF CallInv
  <2> QED BY <2>1, <2>2
<1>3. /\ Open \subseteq Calls /\ Open' \subseteq Calls /\ Fired \subseteq Calls /\ Fired' \subseteq Calls
      /\ Answered \subseteq Calls /\ Answered' \subseteq Calls /\ Over \subseteq Calls /\ Over' \subseteq Calls
  BY DEF Open, Fired, Answered, Over
<1>4. /\ c \in Open <=> ~call[c].done
      /\ c \in Open' <=> ~r.done
      /\ c \in Fired <=> call[c].fired
      /\ c \in Fired' <=> r.fired
      /\ c \in Answered <=> call[c].t6
      /\ c \in Answered' <=> r.t6
      /\ c \in Over <=> call[c].t6 /\ call[c].done
      /\ c \in Over' <=> r.t6 /\ r.done
  BY <1>1 DEF Open, Fired, Answered, Over
<1>5. \A o \in Calls : o # c =>
         /\ (o \in Open <=> o \in Open') /\ (o \in Fired <=> o \in Fired')
         /\ (o \in Answered <=> o \in Answered') /\ (o \in Over <=> o \in Over')
  BY <1>1 DEF Open, Fired, Answered, Over
<1>6. /\ Cardinality(Open') \in Nat
      /\ Cardinality(Open) = IF c \in Open /\ c \notin Open' THEN Cardinality(Open') + 1 ELSE Cardinality(Open')
  <2>1. c \in Open' => c \in Open
    BY <1>4, Zenon DEF Steps
  <2>2. \A o \in Calls : o # c => (o \in Open' <=> o \in Open)
    BY <1>5
  <2> QED BY <1>3, <2>1, <2>2, Raised
<1>7. /\ Cardinality(Fired) \in Nat
      /\ Cardinality(Fired') = IF c \in Fired' /\ c \notin Fired THEN Cardinality(Fired) + 1 ELSE Cardinality(Fired)
  <2>1. c \in Fired => c \in Fired'
    BY <1>4, Zenon DEF Steps
  <2>2. \A o \in Calls : o # c => (o \in Fired <=> o \in Fired')
    BY <1>5
  <2> QED BY <1>3, <2>1, <2>2, Raised
<1>8. /\ Cardinality(Answered) \in Nat
      /\ Cardinality(Answered') = IF c \in Answered' /\ c \notin Answered THEN Cardinality(Answered) + 1
                                  ELSE Cardinality(Answered)
  <2>1. c \in Answered => c \in Answered'
    BY <1>4, Zenon DEF Steps
  <2>2. \A o \in Calls : o # c => (o \in Answered <=> o \in Answered')
    BY <1>5
  <2> QED BY <1>3, <2>1, <2>2, Raised
<1>9. /\ Cardinality(Over) \in Nat
      /\ Cardinality(Over') = IF c \in Over' /\ c \notin Over THEN Cardinality(Over) + 1 ELSE Cardinality(Over)
  <2>1. c \in Over => c \in Over'
    BY <1>4, Zenon DEF Steps
  <2>2. \A o \in Calls : o # c => (o \in Over <=> o \in Over')
    BY <1>5
  <2> QED BY <1>3, <2>1, <2>2, Raised
<1>10. /\ pending' = Cardinality(Open') /\ finished' = (IF pending' = 0 THEN 1 ELSE 0)
       /\ guard' <=> pending' > 0
  <2>1. CASE r.done /\ ~call[c].done
    <3>1. Cardinality(Open) = Cardinality(Open') + 1
      BY <1>4, <1>6, <2>1
    <3>2. /\ pending' = pending - 1 /\ guard' = (guard /\ pending > 1)
          /\ finished' = IF pending <= 1 THEN finished + 1 ELSE finished
      BY <2>1 DEF Counts
    <3>3. pending = Cardinality(Open) /\ (guard <=> pending > 0) /\ finished = (IF pending = 0 THEN 1 ELSE 0)
      BY DEF CallInv
    <3>4. pending' = Cardinality(Open') /\ finished' = (IF pending' = 0 THEN 1 ELSE 0)
      BY <1>6, <3>1, <3>2, <3>3
    <3>5. (pending > 1 <=> pending' > 0) /\ pending > 0
      BY <1>6, <3>1, <3>2, <3>3
    <3>6. guard' <=> guard /\ pending > 1
      BY <3>2, Zenon
    <3> QED BY <3>3, <3>4, <3>5, <3>6, Zenon
  <2>2. CASE r.done <=> call[c].done
    <3>1. Cardinality(Open) = Cardinality(Open')
      BY <1>4, <1>6, <2>2
    <3>2. pending' = pending /\ guard' = guard /\ finished' = finished
      BY <2>2 DEF Counts
    <3> QED BY <3>1, <3>2 DEF CallInv
  <2> QED BY <2>1, <2>2, Zenon DEF Counts
<1>11. /\ stat' \in [attempted : Nat, answered : Nat, released : Nat]
       /\ stat'.attempted = (IF what = "attempted" THEN stat.attempted + 1 ELSE stat.attempted)
       /\ stat'.answered = (IF what = "answered" THEN stat.answered + 1 ELSE stat.answered)
       /\ stat'.released = (IF what = "released" THEN stat.released + 1 ELSE stat.released)
  <2>1. CASE what = "none"
    BY <2>1 DEF Counts, CallInv
  <2>2. CASE what = "attempted"
    BY <2>2 DEF Counts, CallInv, Count
  <2>3. CASE what = "answered"
    BY <2>3 DEF Counts, CallInv, Count
  <2>4. CASE what = "released"
    BY <2>4 DEF Counts, CallInv, Count
  <2> QED BY <2>1, <2>2, <2>3, <2>4, ZenonT(40) DEF Counts
<1>12. stat'.attempted = Cardinality(Fired') /\ stat'.answered = Cardinality(Answered')
  BY <1>4, <1>7, <1>8, <1>11 DEF Counts, CallInv
<1>13. stat'.released <= Cardinality(Over')
  <2>1. CASE what = "released"
    <3>1. c \in Over' /\ c \notin Over
      BY <1>4, <2>1, Zenon DEF Counts
    <3> QED BY <1>9, <1>11, <2>1, <3>1 DEF CallInv
  <2>2. CASE what # "released"
    BY <1>9, <1>11, <2>2 DEF CallInv
  <2> QED BY <2>1, <2>2
<1> QED BY <1>1, <1>2, <1>10, <1>11, <1>12, <1>13, SMTT(30) DEF CallInv

(* fire starts a call and counts the attempt. *)
LEMMA CFire ==
    ASSUME CardFacts,
           CallInv, NEW c \in Calls, NEW ok, fire(c, ok)
    PROVE  CallInv'
<1> DEFINE x == call[c]
           q == [x EXCEPT !.fired = TRUE, !.txn_mo = Feed(INVITE_CLIENT, @, "SEND_REQUEST")]
<1>1. CallOk(x, net[c]) /\ ~x.fired /\ Count("attempted")
  BY DEF fire, CallInv
<1>2. net[c] = {} /\ ~x.answer /\ ~x.t6 /\ ~x.done /\ x.timer = "off" /\ DOMAIN x = CallFields
  BY <1>1, Zenon DEF CallOk
<1>3. /\ DOMAIN q = CallFields /\ q.fired = TRUE /\ q.done = x.done /\ q.t6 = x.t6 /\ q.answer = x.answer
      /\ q.timer = x.timer
  BY <1>2 DEF CallFields
<1>4. CASE ok
  <2> DEFINE r == [q EXCEPT !.timer = "setup"]
  <2>1. Keep(c, r) /\ Sends(c, "INVITE")
    BY <1>4 DEF fire
  <2>2. /\ DOMAIN r = CallFields /\ r.fired = TRUE /\ r.done = x.done /\ r.t6 = x.t6 /\ r.timer = "setup"
    BY <1>3 DEF CallFields
  <2> HIDE DEF r, q, x
  <2>3. Becomes(c, r) /\ Goes /\ Sent(c, {"INVITE"})
    BY <2>1, Keeping, Sending
  <2>4. CallOk(r, net[c] \cup {"INVITE"})
    BY <1>2, <2>2, Zenon DEF CallOk
  <2>5. Steps(c, r, {"INVITE"}) /\ Counts(c, r, "attempted")
    BY <1>1, <1>2, <2>2, <2>3, <2>4 DEF Steps, Counts, Goes, x
  <2> QED BY <2>5, CStep
<1>5. CASE ~ok
  <2>1. call_finish(c, q) /\ net' = net
    BY <1>5, Zenon DEF fire
  <2> HIDE DEF q, x
  <2>2. PICK r : /\ Becomes(c, r) /\ DOMAIN r = CallFields /\ r.done
                 /\ Ends /\ r.timer = "off" /\ ~r.media_timer /\ (r.fired <=> q.fired) /\ (r.t6 <=> q.t6)
    BY <1>2, <1>3, <2>1, Finishing
  <2>3. Sent(c, {})
    BY <2>1, Sending
  <2>4. CallOk(r, net[c] \cup {})
    BY <1>2, <1>3, <2>2, Zenon DEF CallOk
  <2>5. Steps(c, r, {}) /\ Counts(c, r, "attempted")
    BY <1>1, <1>2, <1>3, <2>2, <2>3, <2>4, Zenon DEF Steps, Counts, Ends, x
  <2> QED BY <2>5, CStep
<1> QED BY <1>4, <1>5

(* A call that goes on, and a call that ends if it had not. *)
LEMMA CKeep ==
    ASSUME CardFacts,
           CallInv, NEW c \in Calls, NEW r, NEW m, Keep(c, r), Sent(c, m), stat' = stat,
           CallOk(r, net[c] \cup m), r.done = call[c].done, r.fired = call[c].fired,
           r.t6 = call[c].t6
    PROVE  CallInv'
<1>1. Becomes(c, r) /\ Goes
  BY Keeping
<1>2. Steps(c, r, m)
  BY <1>1, ZenonT(40) DEF Steps
<1>3. Counts(c, r, "none")
  BY <1>1 DEF Counts, Goes
<1> QED BY <1>2, <1>3, CStep, SMTT(30)

(* A call that finishes in order is counted once. *)
LEMMA CFinish ==
    ASSUME CardFacts,
           CallInv, NEW c \in Calls, NEW q, NEW m, call_finish(c, q), Sent(c, m),
           DOMAIN q = CallFields, q.done = call[c].done, q.fired = call[c].fired,
           q.t6 = call[c].t6, q.fired, Messages(q.t6, net[c] \cup m),
           q.done => q.timer = "off" /\ ~q.media_timer,
           q.t6 /\ ~q.cut => "BYE" \in net[c] \cup m,
           \/ stat' = stat
           \/ Count("released") /\ ~call[c].done /\ q.t6
    PROVE  CallInv'
<1>1. PICK r : /\ Becomes(c, r) /\ DOMAIN r = CallFields /\ r.done
               /\ IF q.done THEN r = q /\ Goes ELSE Ends /\ r.timer = "off" /\ ~r.media_timer
               /\ (r.fired <=> q.fired) /\ (r.t6 <=> q.t6) /\ (r.cut <=> q.cut)
  BY Finishing
<1>2. CallOk(r, net[c] \cup m)
  <2>1. r.timer = "off" /\ ~r.media_timer
    BY <1>1, Zenon
  <2> QED BY <1>1, <2>1, Zenon DEF CallOk, Messages
<1>3. Steps(c, r, m)
  BY <1>1, <1>2, Zenon DEF Steps
<1>4. CASE stat' = stat
  <2>1. Counts(c, r, "none")
    BY <1>1, <1>4, Zenon DEF Counts, Goes, Ends
  <2> QED BY <1>3, <2>1, CStep, Zenon
<1>5. CASE Count("released") /\ ~call[c].done /\ q.t6
  <2>1. Counts(c, r, "released")
    BY <1>1, <1>5 DEF Counts, Goes, Ends
  <2> QED BY <1>3, <2>1, CStep, Zenon
<1> QED BY <1>4, <1>5, Zenon

(* The handlers that leave the flags and timers of a call alone, or start  *)
(* its media while it lasts.                                               *)
LEMMA CHandlers ==
    ASSUME CardFacts,
           CallInv, NEW c \in Calls,
           \/ on_invite(c) \/ send_answer(c) \/ request_ack(c) \/ hold_over(c)
           \/ \E s \in {100, 180} : response_1xx(c, s)
    PROVE  CallInv'
<1>0. PICK x : x = call[c]
  OBVIOUS
<1>1. CallOk(x, net[c]) /\ DOMAIN x = CallFields
  BY <1>0, ZenonT(40) DEF CallInv, CallOk
<1>2. CASE on_invite(c)
  <2>1. PICK r, u, v, w :
           /\ r = [x EXCEPT !.t2 = TRUE, !.answer = TRUE, !.txn_mt = u, !.dlg_mt = v]
           /\ Keep(c, r) /\ Sends(c, "180") /\ stat' = stat /\ "INVITE" \in net[c]
    BY <1>0, <1>2, ZenonT(40) DEF on_invite
  <2>2. /\ DOMAIN r = CallFields /\ r.done = x.done /\ r.fired = x.fired /\ r.t6 = x.t6 /\ r.timer = x.timer
        /\ r.media_timer = x.media_timer /\ r.cut = x.cut
    BY <1>1, <2>1 DEF CallFields
  <2>3. CallOk(r, net[c] \cup {"180"})
    BY <1>1, <2>1, <2>2, ZenonT(40) DEF CallOk
  <2>4. Sent(c, {"180"})
    BY <2>1, Sending
  <2>5. r.done = call[c].done /\ r.fired = call[c].fired /\ r.t6 = call[c].t6
    BY <1>0, <2>2
  <2> QED BY <2>1, <2>3, <2>4, <2>5, CKeep, Zenon
<1>3. CASE send_answer(c)
  <2>1. CASE x.done
    <3>1. PICK r : r = [x EXCEPT !.answer = FALSE] /\ Keep(c, r) /\ net' = net /\ stat' = stat
      BY <1>0, <1>3, <2>1 DEF send_answer
    <3>2. /\ DOMAIN r = CallFields /\ r.done = x.done /\ r.fired = x.fired /\ r.t6 = x.t6 /\ r.timer = x.timer
          /\ r.media_timer = x.media_timer /\ r.cut = x.cut /\ r.answer = FALSE
      BY <1>1, <3>1 DEF CallFields
    <3>3. CallOk(r, net[c] \cup {})
      BY <1>1, <3>2, ZenonT(40) DEF CallOk
    <3>4. Sent(c, {})
      BY <3>1, Sending
    <3>5. r.done = call[c].done /\ r.fired = call[c].fired /\ r.t6 = call[c].t6
      BY <1>0, <3>2
    <3> QED BY <3>1, <3>3, <3>4, <3>5, CKeep, Zenon
  <2>2. CASE ~x.done
    <3> DEFINE q == [[x EXCEPT !.answer = FALSE] EXCEPT !.txn_mt = Feed(INVITE_SERVER, @, "SEND_2XX"),
                                                        !.dlg_mt = Feed(Dialog, @, "CONFIRM")]
               r == start_media(q)
    <3>1. Keep(c, r) /\ Sends(c, "200") /\ stat' = stat /\ x.answer
      BY <1>0, <1>3, <2>2 DEF send_answer
    <3>2. /\ DOMAIN q = CallFields /\ q.done = x.done /\ q.fired = x.fired /\ q.t6 = x.t6 /\ q.timer = x.timer
          /\ q.cut = x.cut
      BY <1>1, <3>1 DEF CallFields
    <3>3. /\ DOMAIN r = CallFields /\ r.done = q.done /\ r.fired = q.fired /\ r.t6 = q.t6 /\ r.timer = q.timer
          /\ r.cut = q.cut
      BY <3>2 DEF CallFields, start_media
    <3> HIDE DEF q, r
    <3>4. CallOk(r, net[c] \cup {"200"})
      BY <1>1, <2>2, <3>1, <3>2, <3>3, ZenonT(40) DEF CallOk
    <3>5. Sent(c, {"200"})
      BY <3>1, Sending
    <3>6. r.done = call[c].done /\ r.fired = call[c].fired /\ r.t6 = call[c].t6
      BY <1>0, <3>2, <3>3
    <3> QED BY <3>1, <3>4, <3>5, <3>6, CKeep, Zenon
  <2> QED BY <2>1, <2>2
<1>4. CASE request_ack(c)
  <2>1. PICK r, u : r = [x EXCEPT !.txn_mt = u] /\ Keep(c, r) /\ net' = net /\ stat' = stat
    BY <1>0, <1>4, Zenon DEF request_ack
  <2>2. /\ DOMAIN r = CallFields /\ r.done = x.done /\ r.fired = x.fired /\ r.t6 = x.t6 /\ r.timer = x.timer
        /\ r.media_timer = x.media_timer /\ r.cut = x.cut /\ r.answer = x.answer
    BY <1>1, <2>1 DEF CallFields
  <2>3. CallOk(r, net[c] \cup {})
    BY <1>1, <2>2, ZenonT(40) DEF CallOk
  <2>4. Sent(c, {})
    BY <2>1, Sending
  <2>5. r.done = call[c].done /\ r.fired = call[c].fired /\ r.t6 = call[c].t6
    BY <1>0, <2>2
  <2> QED BY <2>1, <2>3, <2>4, <2>5, CKeep, ZenonT(40)
<1>5. CASE hold_over(c)
  <2>1. PICK r, u :
           /\ r = stop_media([x EXCEPT !.timer = "bye", !.dlg_mo = u])
           /\ Keep(c, r) /\ Sends(c, "BYE") /\ stat' = stat /\ x.timer = "hold"
    BY <1>0, <1>5, Zenon DEF hold_over
  <2>2. /\ DOMAIN r = CallFields /\ r.done = x.done /\ r.fired = x.fired /\ r.t6 = x.t6 /\ r.timer = "bye"
        /\ r.cut = x.cut /\ r.answer = x.answer
    BY <1>1, <2>1 DEF CallFields, stop_media
  <2>3. CallOk(r, net[c] \cup {"BYE"})
    BY <1>1, <2>1, <2>2, ZenonT(40) DEF CallOk
  <2>4. Sent(c, {"BYE"})
    BY <2>1, Sending
  <2>5. r.done = call[c].done /\ r.fired = call[c].fired /\ r.t6 = call[c].t6
    BY <1>0, <2>2
  <2> QED BY <2>1, <2>3, <2>4, <2>5, CKeep, Zenon
<1>6. ASSUME NEW s \in {100, 180}, response_1xx(c, s) PROVE CallInv'
  <2> DEFINE q == Fed(c, s)
             r == IF s = 100 THEN q ELSE [q EXCEPT !.timer = "ring"]
  <2>1. Keep(c, r) /\ net' = net /\ stat' = stat /\ ~x.done /\ net[c] # {}
    BY <1>0, <1>6 DEF response_1xx
  <2>2. /\ DOMAIN r = CallFields /\ r.done = x.done /\ r.fired = x.fired /\ r.t6 = x.t6
        /\ r.timer \in {x.timer, "ring"} /\ r.cut = x.cut /\ r.answer = x.answer
    <3>1. /\ DOMAIN q = CallFields /\ q.done = x.done /\ q.fired = x.fired /\ q.t6 = x.t6
          /\ q.timer = x.timer /\ q.cut = x.cut /\ q.answer = x.answer
      BY <1>0, <1>1, FedFields
    <3> HIDE DEF q
    <3> QED BY <3>1, Zenon DEF CallFields
  <2> HIDE DEF q, r
  <2>3. CallOk(r, net[c] \cup {})
    BY <1>1, <2>1, <2>2, ZenonT(40) DEF CallOk
  <2>4. Sent(c, {})
    BY <2>1, Sending
  <2>5. r.done = call[c].done /\ r.fired = call[c].fired /\ r.t6 = call[c].t6
    BY <1>0, <2>2
  <2> QED BY <2>1, <2>3, <2>4, <2>5, CKeep, ZenonT(40)
<1> QED BY <1>2, <1>3, <1>4, <1>5, <1>6

(* The first 200 answers the call. *)
LEMMA CAnswered ==
    ASSUME CardFacts,
           CallInv, NEW c \in Calls, response_2xx(c)
    PROVE  CallInv'
<1>0. PICK x : x = call[c]
  BY Zenon
<1>1. CallOk(x, net[c]) /\ DOMAIN x = CallFields /\ ~x.done /\ "200" \in net[c] /\ "486" \notin net[c]
  BY <1>0, ZenonT(40) DEF CallInv, CallOk, response_2xx
<1> DEFINE q == Fed(c, 200)
<1>2. /\ DOMAIN q = CallFields /\ q.done = x.done /\ q.fired = x.fired /\ q.t6 = x.t6
      /\ q.timer = x.timer /\ q.cut = x.cut /\ q.answer = x.answer
  BY <1>0, <1>1, FedFields, SMTT(30)
<1>3. CASE x.t6
  <2>1. Keep(c, q) /\ net' = net /\ stat' = stat
    BY <1>0, <1>3 DEF response_2xx
  <2> HIDE DEF q
  <2>2. CallOk(q, net[c] \cup {})
    BY <1>1, <1>2, Zenon DEF CallOk
  <2>3. Sent(c, {})
    BY <2>1, Sending
  <2> QED BY <1>0, <1>2, <2>1, <2>2, <2>3, CKeep, SMTT(30)
<1>4. CASE ~x.t6
  <2> DEFINE y == [q EXCEPT !.t6 = TRUE, !.timer = "hold"]
             r == start_media(y)
  <2>1. Keep(c, r) /\ Sends(c, "ACK") /\ Count("answered")
    BY <1>0, <1>4 DEF response_2xx
  <2> HIDE DEF q
  <2>2. /\ DOMAIN y = CallFields /\ y.done = x.done /\ y.fired = x.fired /\ y.t6 = TRUE /\ y.timer = "hold"
        /\ y.cut = x.cut
    BY <1>2 DEF CallFields
  <2> HIDE DEF y
  <2>3. /\ DOMAIN r = CallFields /\ r.done = x.done /\ r.fired = x.fired /\ r.t6 = TRUE /\ r.timer = "hold"
        /\ r.cut = x.cut
    BY <2>2 DEF CallFields, start_media
  <2> HIDE DEF r
  <2>4. CallOk(r, net[c] \cup {"ACK"})
    BY <1>1, <2>3, Zenon DEF CallOk
  <2>5. Becomes(c, r) /\ Goes /\ Sent(c, {"ACK"})
    BY <2>1, Keeping, Sending, SMTT(30)
  <2>6. Steps(c, r, {"ACK"})
    BY <1>0, <2>3, <2>4, <2>5, Zenon DEF Steps
  <2>7. Counts(c, r, "answered")
    BY <1>0, <1>1, <1>4, <2>1, <2>3, <2>5, SMTT(30) DEF Counts, Goes
  <2> QED BY <2>6, <2>7, CStep
<1> QED BY <1>3, <1>4

(* The ways a call ends: the BYE or its answer, a CANCEL, a rejection, a   *)
(* deadline of its own.                                                    *)
LEMMA CEnds ==
    ASSUME CardFacts,
           CallInv, NEW c \in Calls,
           request_bye(c) \/ response_bye(c) \/ request_cancel(c) \/ response_reject(c) \/ step_deadline(c)
    PROVE  CallInv'
<1>0. PICK x : x = call[c]
  BY Zenon
<1>1. CallOk(x, net[c]) /\ DOMAIN x = CallFields
  BY <1>0, Zenon DEF CallInv, CallOk
<1>2. CASE request_bye(c)
  <2>1. Sent(c, {"200 (BYE)"}) /\ "BYE" \in net[c]
    BY <1>2, Sending, Zenon DEF request_bye
  <2>2. CASE x.done
    <3>1. Keep(c, x) /\ stat' = stat
      BY <1>0, <1>2, <2>2, Zenon DEF request_bye
    <3>2. CallOk(x, net[c] \cup {"200 (BYE)"})
      BY <1>1, <2>1, Zenon DEF CallOk
    <3> QED BY <1>0, <2>1, <3>1, <3>2, CKeep, Zenon
  <2>3. CASE ~x.done
    <3> DEFINE q == [x EXCEPT !.dlg_mt = Feed(Dialog, @, "TERMINATE")]
    <3>1. call_finish(c, q) /\ Count("released")
      BY <1>0, <1>2, <2>3, Zenon DEF request_bye
    <3>2. /\ DOMAIN q = CallFields /\ q.done = x.done /\ q.fired = x.fired /\ q.t6 = x.t6
          /\ q.timer = x.timer /\ q.media_timer = x.media_timer
      BY <1>1 DEF CallFields
    <3> HIDE DEF q
    <3>3. Messages(q.t6, net[c] \cup {"200 (BYE)"}) /\ q.fired /\ q.t6 /\ ~q.done
      BY <1>1, <2>1, <2>3, <3>2, ZenonT(40) DEF CallOk, Messages
    <3>4. q.done = call[c].done /\ q.fired = call[c].fired /\ q.t6 = call[c].t6 /\ ~call[c].done
      BY <1>0, <2>3, <3>2
    <3>5. "BYE" \in net[c] \cup {"200 (BYE)"}
      BY <2>1, Zenon
    <3> QED BY <2>1, <3>1, <3>2, <3>3, <3>4, <3>5, CFinish, ZenonT(40)
  <2> QED BY <2>2, <2>3
<1>3. CASE response_bye(c)
  <2>1. Sent(c, {}) /\ "200 (BYE)" \in net[c] /\ call_finish(c, x) /\ Count("released") /\ ~x.done
    BY <1>0, <1>3, Sending, ZenonT(40) DEF response_bye
  <2>2. Messages(x.t6, net[c] \cup {}) /\ x.fired /\ x.t6 /\ "BYE" \in net[c] \cup {}
    BY <1>1, <2>1, Zenon DEF CallOk, Messages
  <2> QED BY <1>0, <1>1, <2>1, <2>2, CFinish, ZenonT(40)
<1>4. CASE request_cancel(c)
  <2> DEFINE q == [x EXCEPT !.cut = TRUE]
  <2>1. Sent(c, {}) /\ "CANCEL" \in net[c] /\ call_finish(c, q) /\ stat' = stat
    BY <1>0, <1>4, Sending DEF request_cancel
  <2>2. /\ DOMAIN q = CallFields /\ q.done = x.done /\ q.fired = x.fired /\ q.t6 = x.t6 /\ q.cut = TRUE
        /\ q.timer = x.timer /\ q.media_timer = x.media_timer
    BY <1>1 DEF CallFields
  <2> HIDE DEF q
  <2>3. Messages(q.t6, net[c] \cup {}) /\ q.fired /\ (q.done => q.timer = "off" /\ ~q.media_timer)
    BY <1>1, <2>1, <2>2, Zenon DEF CallOk, Messages
  <2>4. q.done = call[c].done /\ q.fired = call[c].fired /\ q.t6 = call[c].t6 /\ q.cut
    BY <1>0, <2>2
  <2> QED BY <2>1, <2>2, <2>3, <2>4, CFinish, ZenonT(40)
<1>5. CASE response_reject(c)
  <2> DEFINE q == Fed(c, 486)
  <2>1. /\ Sent(c, {"ACK (non-2xx)"}) /\ "486" \in net[c] /\ call_finish(c, q) /\ stat' = stat /\ ~x.done
    BY <1>0, <1>5, Sending, ZenonT(40) DEF response_reject
  <2>2. /\ DOMAIN q = CallFields /\ q.done = x.done /\ q.fired = x.fired /\ q.t6 = x.t6
    BY <1>0, <1>1, FedFields
  <2> HIDE DEF q
  <2>3. Messages(q.t6, net[c] \cup {"ACK (non-2xx)"}) /\ q.fired /\ ~q.t6 /\ ~q.done
    BY <1>1, <2>1, <2>2, ZenonT(40) DEF CallOk, Messages
  <2>4. q.done = call[c].done /\ q.fired = call[c].fired /\ q.t6 = call[c].t6
    BY <1>0, <2>2
  <2> QED BY <2>1, <2>2, <2>3, <2>4, CFinish, ZenonT(40)
<1>6. CASE step_deadline(c)
  <2> DEFINE q == [x EXCEPT !.timer = "off", !.cut = (x.timer = "ring")]
  <2>1. Sent(c, {}) /\ x.timer \in {"setup", "ring", "bye"} /\ call_finish(c, q) /\ stat' = stat
    BY <1>0, <1>6, Sending DEF step_deadline
  <2>2. /\ DOMAIN q = CallFields /\ q.done = x.done /\ q.fired = x.fired /\ q.t6 = x.t6
        /\ q.cut = (x.timer = "ring")
    BY <1>1 DEF CallFields
  <2> HIDE DEF q
  <2>3. Messages(q.t6, net[c] \cup {}) /\ q.fired /\ ~q.done
    BY <1>1, <2>1, <2>2, Zenon DEF CallOk, Messages
  <2>4. q.t6 /\ ~q.cut => "BYE" \in net[c] \cup {}
    BY <1>1, <2>1, <2>2, Zenon DEF CallOk
  <2>5. q.done = call[c].done /\ q.fired = call[c].fired /\ q.t6 = call[c].t6
    BY <1>0, <2>2
  <2> QED BY <2>1, <2>2, <2>3, <2>4, <2>5, CFinish, ZenonT(40)
<1> QED BY <1>2, <1>3, <1>4, <1>5, <1>6

(* The series deadline ends the series, once. *)
LEMMA CSeries ==
    ASSUME CardFacts,
           CallInv, series_deadline
    PROVE  CallInv'
<1>1. /\ guard /\ pending' = 0 /\ guard' = FALSE /\ net' = net /\ stat' = stat
      /\ finished' = IF pending > 0 THEN finished + 1 ELSE finished
      /\ \A c \in Calls : call[c].fired
  BY Zenon DEF series_deadline
<1>2. /\ DOMAIN call' = Calls
      /\ \A c \in Calls : call'[c] = IF call[c].done THEN call[c]
                  ELSE stop_media([call[c] EXCEPT !.done = TRUE, !.timer = "off", !.cut = TRUE])
  BY Zenon DEF series_deadline
<1>3. ASSUME NEW c \in Calls
      PROVE  CallOk(call'[c], net[c]) /\ call'[c].done /\ call'[c].fired /\ (call'[c].t6 <=> call[c].t6)
  <2>0. PICK x, r : x = call[c] /\ r = call'[c]
    BY Zenon
  <2>1. CallOk(x, net[c]) /\ x.fired /\ DOMAIN x = CallFields
    BY <1>1, <2>0, Zenon DEF CallInv, CallOk
  <2>2. CASE x.done
    BY <1>2, <2>0, <2>1, <2>2, ZenonT(40)
  <2>3. CASE ~x.done
    <3>1. r = stop_media([x EXCEPT !.done = TRUE, !.timer = "off", !.cut = TRUE])
      BY <1>2, <2>0, <2>3, ZenonT(40)
    <3>2. /\ DOMAIN r = CallFields /\ r.done = TRUE /\ r.timer = "off" /\ r.cut = TRUE /\ r.media_timer = FALSE
          /\ r.fired = x.fired /\ r.t6 = x.t6 /\ r.answer = x.answer
      BY <2>1, <3>1, Zenon DEF stop_media, CallFields
    <3>3. CallOk(r, net[c])
      BY <2>1, <3>2, ZenonT(40) DEF CallOk
    <3> QED BY <2>0, <2>1, <3>2, <3>3, SMTT(30)
  <2> QED BY <2>2, <2>3
<1>4. Open' = {} /\ Fired' = Fired /\ Answered' = Answered /\ Over' = Answered
  BY <1>1, <1>3 DEF Open, Fired, Answered, Over
<1>5. Cardinality(Open') = 0 /\ Cardinality(Over) <= Cardinality(Answered)
      /\ Cardinality(Over) \in Nat /\ Cardinality(Answered) \in Nat
  <2>1. Answered \subseteq Calls /\ Over \subseteq Answered
    BY DEF Answered, Over
  <2>2. IsFiniteSet(Answered) /\ IsFiniteSet(Over)
    BY <2>1, SomeCalls, CardSubset
  <2> QED BY <1>4, <2>1, <2>2, CardSubset, CardEmpty, CardType, SMTT(30)
<1>6. pending > 0 /\ finished = 0 /\ finished' = 1
  BY <1>1 DEF CallInv
<1>7. \A c \in Calls : CallOk(call'[c], net'[c])
  BY <1>1, <1>3
<1>8. pending' = Cardinality(Open') /\ finished' = (IF pending' = 0 THEN 1 ELSE 0) /\ (guard' <=> pending' > 0)
  BY <1>1, <1>5, <1>6, SMTT(30)
<1>9. /\ stat' \in [attempted : Nat, answered : Nat, released : Nat]
      /\ stat'.attempted = Cardinality(Fired') /\ stat'.answered = Cardinality(Answered')
      /\ stat'.released <= Cardinality(Over')
  BY <1>1, <1>4, <1>5, SMTT(30) DEF CallInv
<1>10. DOMAIN net' = Calls
  BY <1>1 DEF CallInv
<1> QED BY <1>2, <1>7, <1>8, <1>9, <1>10, ZenonT(40) DEF CallInv

(* Every event of a call keeps CallInv. *)
LEMMA CallStepKeeps ==
    ASSUME CardFacts,
           CallInv, [Next]_vars
    PROVE  CallInv'
<1>1. CASE UNCHANGED vars
  <2>1. Open' = Open /\ Fired' = Fired /\ Answered' = Answered /\ Over' = Over
    BY <1>1 DEF Open, Fired, Answered, Over, vars
  <2> QED BY <1>1, <2>1, ZenonT(40) DEF CallInv, vars, CallOk
<1>2. ASSUME NEW c \in Calls, NEW ok, fire(c, ok) PROVE CallInv'
  BY <1>2, CFire
<1>3. ASSUME NEW c \in Calls,
             \/ on_invite(c) \/ send_answer(c) \/ request_ack(c) \/ hold_over(c)
             \/ \E s \in {100, 180} : response_1xx(c, s)
      PROVE  CallInv'
  BY <1>3, CHandlers
<1>4. ASSUME NEW c \in Calls, response_2xx(c) PROVE CallInv'
  BY <1>4, CAnswered
<1>5. ASSUME NEW c \in Calls,
             request_bye(c) \/ response_bye(c) \/ request_cancel(c) \/ response_reject(c) \/ step_deadline(c)
      PROVE  CallInv'
  BY <1>5, CEnds
<1>6. ASSUME NEW c \in Calls, NEW m \in {"100", "486", "CANCEL"}, core(c, m) PROVE CallInv'
  BY <1>6, CCore
<1>7. CASE series_deadline
  BY <1>7, CSeries
<1> QED BY <1>1, <1>2, <1>3, <1>4, <1>5, <1>6, <1>7, ZenonT(40) DEF Next

(* CallInv implies what is promised of a series. *)
LEMMA CallProps ==
    ASSUME CardFacts,
           CallInv
    PROVE  SeriesEndsOnce /\ CountsNest /\ AnsweredEndsByBye
<1>1. SeriesEndsOnce
  BY Zenon DEF CallInv, Open, CallOk, SeriesEndsOnce
<1>2. CountsNest
  <2>1. Answered \subseteq Calls /\ Over \subseteq Answered
    BY DEF Answered, Over
  <2>2. IsFiniteSet(Answered) /\ IsFiniteSet(Over)
    BY <2>1, SomeCalls, CardSubset
  <2>3. Cardinality(Over) <= Cardinality(Answered) /\ Cardinality(Over) \in Nat /\ Cardinality(Answered) \in Nat
    BY <2>1, <2>2, CardSubset, CardType, SMTT(30)
  <2>4. stat.released <= stat.answered
    BY <2>3 DEF CallInv
  <2> QED BY <2>4 DEF CallInv, CountsNest, Answered, Fired
<1>3. AnsweredEndsByBye
  BY Zenon DEF CallInv, CallOk, AnsweredEndsByBye
<1> QED BY <1>1, <1>2, <1>3

(* The open subscriptions can be counted. *)
LEMMA OpenCount ==
    ASSUME CardFacts,
           NEW e, NEW D, EvShape(e, D)
    PROVE  IsFiniteSet(OpenOf(e)) /\ Cardinality(OpenOf(e)) \in Nat
<1>1. OpenOf(e) \subseteq D /\ IsFiniteSet(D)
  BY DEF OpenOf, EvShape
<1> QED BY <1>1, CardSubset, CardType

(* dec gives back one of the units pending, and ends the phase at the last. *)
LEMMA DecSettles ==
    ASSUME CardFacts,
           NEW e, NEW D, Owing(e, D)
    PROVE  Good(dec(e), D) /\ dec(e).due = e.due
<1> DEFINE x == dec(e)
<1>1. /\ DOMAIN x = EvFields /\ x.u = e.u /\ x.due = e.due /\ x.pending = e.pending - 1
      /\ IF e.pending - 1 > 0 THEN x.guard = e.guard ELSE x.guard = FALSE
      /\ x.finished = (IF e.pending - 1 > 0 THEN e.finished ELSE e.finished + 1)
  BY Zenon DEF dec, Owing, EvShape, EvFields
<1> HIDE DEF x
<1>2. Cardinality(OpenOf(e)) \in Nat /\ Unit(e) \in {0, 1}
  BY OpenCount DEF Owing, Unit
<1>3. OpenOf(x) = OpenOf(e) /\ Unit(x) = Unit(e)
  BY <1>1 DEF OpenOf, Unit
<1>4. EvShape(x, D)
  BY <1>1 DEF EvShape, Owing
<1>5. /\ x.pending = Cardinality(OpenOf(x)) + Unit(x)
      /\ x.finished = (IF x.pending = 0 THEN 1 ELSE 0)
      /\ x.guard <=> x.pending > 0
  <2>1. /\ e.pending = Cardinality(OpenOf(e)) + Unit(e) + 1 /\ e.finished = 0
        /\ x.pending = Cardinality(OpenOf(e)) + Unit(e)
    BY <1>1, <1>2 DEF Owing
  <2>2. CASE e.pending - 1 > 0
    <3>1. x.guard /\ x.pending > 0
      BY <1>1, <2>2, ZenonT(40) DEF Owing
    <3> QED BY <1>1, <1>2, <1>3, <2>1, <2>2, <3>1
  <2>3. CASE ~(e.pending - 1 > 0)
    <3>1. x.pending = 0 /\ x.finished = 1
      BY <1>1, <1>2, <2>1, <2>3
    <3> QED BY <1>1, <1>3, <2>1, <2>3, <3>1, ZenonT(40)
  <2> QED BY <2>2, <2>3
<1>6. Good(x, D)
  BY <1>4, <1>5 DEF Good
<1> QED BY <1>1, <1>6 DEF x

(* Settling a subscription, a second time or the first, keeps the count. *)
LEMMA Settles ==
    ASSUME CardFacts,
           NEW e, NEW D, Good(e, D), NEW s \in D
    PROVE  Good(Settled(e, s), D) /\ Settled(e, s).due = e.due
<1>1. CASE e.u[s].done
  BY <1>1 DEF Settled
<1>2. CASE ~e.u[s].done
  <2> DEFINE x == [e EXCEPT !.u[s].done = TRUE, !.u[s].timer = FALSE]
  <2>1. /\ DOMAIN x = EvFields /\ DOMAIN x.u = D /\ x.due = e.due
        /\ x.pending = e.pending /\ x.guard = e.guard /\ x.finished = e.finished
        /\ x.u[s] = [e.u[s] EXCEPT !.done = TRUE, !.timer = FALSE]
        /\ \A w \in D : w # s => x.u[w] = e.u[w]
    BY Zenon DEF Good, EvShape, EvFields
  <2>0. e.u[s] \in Subscription
    BY DEF Good, EvShape
  <2>2. x.u[s] \in Subscription /\ x.u[s].done /\ ~x.u[s].timer
    BY <2>0, <2>1, Finished, Zenon
  <2>3. Settled(e, s) = dec(x)
    BY <1>2 DEF Settled
  <2> HIDE DEF x
  <2>4. EvShape(x, D)
    BY <2>1, <2>2, Zenon DEF Good, EvShape
  <2>5. OpenOf(x) = OpenOf(e) \ {s} /\ s \in OpenOf(e) /\ Unit(x) = Unit(e)
    BY <1>2, <2>1, <2>2, Zenon DEF OpenOf, Unit, Good, EvShape
  <2>6. /\ Cardinality(OpenOf(e)) \in Nat /\ Cardinality(OpenOf(x)) \in Nat
        /\ Cardinality(OpenOf(x)) = Cardinality(OpenOf(e)) - 1
    BY <2>4, <2>5, OpenCount, CardRemove, ZenonT(40) DEF Good
  <2>7. Unit(e) \in {0, 1}
    BY DEF Unit
  <2>8. Owing(x, D)
    BY <2>1, <2>4, <2>5, <2>6, <2>7, SMTT(30) DEF Owing, Good
  <2> QED BY <2>1, <2>3, <2>8, DecSettles, SMTT(30)
<1> QED BY <1>1, <1>2

(* The same of settle. *)
LEMMA SettlesBoth ==
    ASSUME CardFacts,
           NEW e, NEW D, Good(e, D), NEW s \in D
    PROVE  Good(settle(e, s), D) /\ settle(e, s).due = e.due
BY Settles DEF settle

(* A subscription started is one more pending. *)
LEMMA Subscribes ==
    ASSUME CardFacts,
           NEW e, NEW D, Good(e, D), e.due > 0, NEW s, s \notin D, NEW ok
    PROVE  Good(subscribe(e, s, ok), D \cup {s}) /\ subscribe(e, s, ok).due = e.due
<1> DEFINE q == [e EXCEPT !.u = [w \in DOMAIN e.u \cup {s} |->
                                    IF w = s THEN NewSubscription ELSE e.u[w]],
                          !.pending = @ + 1]
<1>1. /\ DOMAIN q = EvFields /\ DOMAIN q.u = D \cup {s} /\ q.due = e.due
      /\ q.pending = e.pending + 1 /\ q.guard = e.guard /\ q.finished = e.finished
      /\ q.u[s] = NewSubscription
      /\ \A w \in D : q.u[w] = e.u[w]
  BY DEF Good, EvShape, EvFields
<1>2. NewSubscription \in Subscription /\ ~NewSubscription.done /\ ~NewSubscription.timer
  BY DEF NewSubscription, Subscription
<1> HIDE DEF q
<1>3. IsFiniteSet(D \cup {s})
  BY CardAdd, ZenonT(40) DEF Good, EvShape
<1>4. EvShape(q, D \cup {s})
  BY <1>1, <1>2, <1>3, ZenonT(40) DEF Good, EvShape
<1>5. OpenOf(q) = OpenOf(e) \cup {s} /\ s \notin OpenOf(e) /\ Unit(q) = Unit(e)
  BY <1>1, <1>2 DEF OpenOf, Unit, Good, EvShape
<1>6. Cardinality(OpenOf(q)) = Cardinality(OpenOf(e)) + 1 /\ Cardinality(OpenOf(e)) \in Nat
  BY <1>5, OpenCount, CardAdd, ZenonT(40) DEF Good
<1>7. Unit(e) \in {0, 1}
  BY DEF Unit
<1>8. Good(q, D \cup {s})
  BY <1>1, <1>4, <1>5, <1>6, <1>7, SMTT(30) DEF Good, Unit
<1>9. CASE ok
  <2> DEFINE x == [q EXCEPT !.u[s].timer = TRUE]
             r == [NewSubscription EXCEPT !.timer = TRUE]
  <2>1. subscribe(e, s, ok) = x
    BY <1>9 DEF subscribe, q
  <2>2. r \in Subscription /\ r.done = NewSubscription.done /\ ~r.done
    BY Zenon DEF NewSubscription, Subscription
  <2>3. x = [q EXCEPT !.u = [q.u EXCEPT ![s] = r]]
    BY <1>1, SMTT(30)
  <2> HIDE DEF x, r
  <2>4. r.done = q.u[s].done /\ (r.done => ~r.timer)
    BY <1>1, <2>2
  <2>5. Good(x, D \cup {s}) /\ x.due = q.due
    BY <1>8, <2>2, <2>3, <2>4, Marks, SMTT(30)
  <2> QED BY <1>1, <2>1, <2>5
<1>10. CASE ~ok
  <2>1. subscribe(e, s, ok) = Settled(q, s)
    BY <1>10 DEF subscribe, q
  <2> QED BY <1>1, <1>8, <2>1, Settles
<1> QED BY <1>9, <1>10

(* The phase begins with one unit pending and its deadline armed. *)
LEMMA EInit ==
    ASSUME CardFacts
    PROVE  EventInit => EvInv
<1> SUFFICES ASSUME NEW spaced \in BOOLEAN, NEW bad \in SUBSET Watchers,
                    ev = begin(spaced, bad), sent = {}
             PROVE  EvInv
  BY DEF EventInit
<1>1. PICK n \in Nat : Watchers = 1 .. n
  BY WatchersInOrder, CardType
<1>2. IsFiniteSet(Watchers) /\ Cardinality(Watchers) = n
  BY <1>1, CardInterval
<1> DEFINE fresh == [u |-> <<>>, pending |-> 1, guard |-> TRUE, finished |-> 0,
                     due |-> Cardinality(Watchers) + 1]
<1>3. CASE spaced
  <2>1. ev = fresh
    BY <1>3 DEF begin
  <2>2. /\ DOMAIN ev = EvFields /\ DOMAIN ev.u = {} /\ ev.due = n + 1
        /\ ev.pending = 1 /\ ev.finished = 0 /\ ev.guard
    BY <1>2, <2>1 DEF EvFields
  <2>3. OpenOf(ev) = {} /\ Unit(ev) = 1 /\ Cardinality({}) = 0 /\ IsFiniteSet({})
    BY <2>2, CardEmpty DEF OpenOf, Unit
  <2>4. EvShape(ev, {})
    BY <2>2, <2>3 DEF EvShape
  <2>5. Good(ev, {})
    BY <2>2, <2>3, <2>4 DEF Good
  <2>6. 1 .. (n + 1 - ev.due) = {} /\ ev.due > 0
    BY <2>2
  <2> QED BY <1>2, <2>2, <2>5, <2>6 DEF EvInv
<1>4. CASE ~spaced
  <2> DEFINE x == [fresh EXCEPT
                    !.u = [w \in Watchers |->
                             [NewSubscription EXCEPT !.timer = w \notin bad,
                                                     !.done = w \in bad]],
                    !.pending = 1 + Cardinality(Watchers \ bad), !.due = 0]
  <2>1. ev = dec(x)
    BY <1>4 DEF begin
  <2>2. /\ DOMAIN x = EvFields /\ DOMAIN x.u = Watchers /\ x.due = 0 /\ x.finished = 0 /\ x.guard = TRUE
        /\ x.pending = 1 + Cardinality(Watchers \ bad)
        /\ \A w \in Watchers : x.u[w] = [NewSubscription EXCEPT !.timer = w \notin bad, !.done = w \in bad]
    BY DEF EvFields
  <2>9. \A w \in Watchers : x.u[w] = [t1 |-> FALSE, t2 |-> FALSE, timer |-> w \notin bad, done |-> w \in bad]
    BY <2>2, Zenon DEF NewSubscription
  <2> HIDE DEF x
  <2>3. \A w \in Watchers : x.u[w] \in Subscription /\ (x.u[w].done <=> w \in bad) /\ (x.u[w].timer <=> w \notin bad)
    <3> SUFFICES ASSUME NEW w \in Watchers
                 PROVE  x.u[w] \in Subscription /\ (x.u[w].done <=> w \in bad) /\ (x.u[w].timer <=> w \notin bad)
      OBVIOUS
    <3>1. CASE w \in bad
      <4>1. (w \notin bad) = FALSE /\ (w \in bad) = TRUE
        BY <3>1, Zenon
      <4>2. x.u[w] = [t1 |-> FALSE, t2 |-> FALSE, timer |-> FALSE, done |-> TRUE]
        BY <2>9, <4>1, ZenonT(40)
      <4> QED BY <3>1, <4>2 DEF Subscription
    <3>2. CASE w \notin bad
      <4>1. (w \notin bad) = TRUE /\ (w \in bad) = FALSE
        BY <3>2
      <4>2. x.u[w] = [t1 |-> FALSE, t2 |-> FALSE, timer |-> TRUE, done |-> FALSE]
        BY <2>9, <4>1, Zenon
      <4> QED BY <3>2, <4>2 DEF Subscription
    <3> QED BY <3>1, <3>2
  <2>10. /\ DOMAIN x = EvFields /\ DOMAIN x.u = Watchers /\ x.due = 0 /\ x.finished = 0 /\ x.guard
         /\ x.pending = 1 + Cardinality(Watchers \ bad)
    BY <2>2, ZenonT(40)
  <2>4. OpenOf(x) = Watchers \ bad /\ Unit(x) = 0
    BY <2>3, <2>10, OpenIs
  <2>5. EvShape(x, Watchers)
    BY <1>2, <2>3, <2>10 DEF EvShape
  <2>6. Cardinality(OpenOf(x)) \in Nat
    BY <2>5, OpenCount
  <2>7. Owing(x, Watchers)
    BY <2>4, <2>5, <2>6, <2>10, SMTT(30) DEF Owing
  <2>8. Good(ev, Watchers) /\ ev.due = 0
    BY <2>1, <2>7, <2>10, DecSettles
  <2> QED BY <1>1, <1>2, <2>8 DEF EvInv
<1> QED BY <1>3, <1>4

(* The spacing timer starts the next subscription. *)
LEMMA EScheduled ==
    ASSUME CardFacts,
           EvInv, NEW ok, scheduled(ok)
    PROVE  EvInv'
<1>1. PICK n \in Nat : Watchers = 1 .. n
  BY WatchersInOrder, CardType
<1>2. Cardinality(Watchers) = n
  BY <1>1, CardInterval
<1> DEFINE D == 1 .. (n + 1 - ev.due)
           e == [ev EXCEPT !.due = @ - 1]
           s == n + 2 - ev.due
<1>3. Good(ev, D) /\ ev.due > 0 /\ ev.due <= n + 1 /\ ev.due \in Nat /\ \A p \in sent : p[1] \in D
  BY <1>2, Zenon DEF EvInv, Good, EvShape, scheduled
<1>4. ev' = (IF ev.due = 1 THEN dec(e) ELSE subscribe(e, s, ok)) /\ sent' = sent
  BY <1>2 DEF scheduled
<1>5. /\ DOMAIN e = EvFields /\ e.u = ev.u /\ e.due = ev.due - 1 /\ e.pending = ev.pending
      /\ e.guard = ev.guard /\ e.finished = ev.finished
  BY <1>3 DEF Good, EvShape, EvFields
<1>6. EvShape(e, D) /\ OpenOf(e) = OpenOf(ev) /\ Cardinality(OpenOf(e)) \in Nat
  <2>1. EvShape(e, D) /\ OpenOf(e) = OpenOf(ev)
    BY <1>3, <1>5, SMTT(30) DEF Good, EvShape, OpenOf
  <2> QED BY <2>1, OpenCount
<1> HIDE DEF e
<1>7. CASE ev.due = 1
  <2>1. Owing(e, D)
    BY <1>3, <1>5, <1>6, <1>7, SMTT(30) DEF Owing, Good, Unit
  <2>2. D = 1 .. n /\ e.due = 0
    BY <1>5, <1>7
  <2>3. Good(ev', D) /\ ev'.due = 0
    BY <1>4, <1>7, <2>1, <2>2, DecSettles, SMTT(30)
  <2> HIDE DEF D
  <2> QED BY <1>2, <1>3, <1>4, <2>2, <2>3, SMTT(30) DEF EvInv
<1>8. CASE ev.due # 1
  <2>1. Good(e, D) /\ e.due > 0
    BY <1>3, <1>5, <1>6, <1>8, SMTT(30) DEF Good, Unit
  <2>2. s \notin D /\ D \cup {s} = 1 .. (n + 1 - e.due)
    BY <1>3, <1>5, <1>8, SMTT(30)
  <2>6. ev' = subscribe(e, s, ok) /\ e.due <= n + 1
    BY <1>3, <1>4, <1>5, <1>8
  <2> HIDE DEF D, s
  <2>3. Good(ev', D \cup {s}) /\ ev'.due = e.due
    BY <2>1, <2>2, <2>6, Subscribes, ZenonT(40)
  <2>4. Good(ev', 1 .. (n + 1 - ev'.due)) /\ ev'.due > 0 /\ ev'.due <= n + 1
    BY <2>1, <2>2, <2>3, <2>6, Zenon
  <2>5. \A p \in sent' : p[1] \in 1 .. (n + 1 - ev'.due)
    BY <1>3, <1>4, <2>2, <2>3, SMTT(30)
  <2> QED BY <1>2, <2>4, <2>5, ZenonT(40) DEF EvInv
<1> QED BY <1>7, <1>8

(* Responses and NOTIFYs, in any order and repeated, keep the count. *)
LEMMA EAnswers ==
    ASSUME CardFacts,
           EvInv, NEW s, NEW what, response(s, what) \/ notify(s, what)
    PROVE  EvInv'
<1> DEFINE D == DOMAIN ev.u
<1>1. Good(ev, D) /\ s \in D /\ sent' = sent /\ \A p \in sent : p[1] \in D
  <2>1. <<s, what>> \in sent /\ sent' = sent
    BY Zenon DEF response, notify
  <2> QED BY <2>1, EDomain
<1>2. ev.u[s] \in Subscription /\ (ev.u[s].done => ~ev.u[s].timer)
  BY <1>1 DEF Good, EvShape
<1>3. ASSUME NEW f \in {"t1", "t2"}, NEW x, x = [ev EXCEPT !.u = [ev.u EXCEPT ![s] = [ev.u[s] EXCEPT ![f] = TRUE]]]
      PROVE  Good(x, D) /\ x.due = ev.due
  <2> DEFINE r == [ev.u[s] EXCEPT ![f] = TRUE]
  <2>1. r \in Subscription /\ r.done = ev.u[s].done /\ r.timer = ev.u[s].timer
    BY <1>2, <1>3, Zenon DEF Subscription
  <2> HIDE DEF r
  <2>2. r.done => ~r.timer
    BY <1>2, <2>1
  <2>3. x = [ev EXCEPT !.u = [ev.u EXCEPT ![s] = r]]
    BY <1>3 DEF r
  <2> HIDE DEF D
  <2> QED BY <1>1, <2>1, <2>2, <2>3, Marks
<1> DEFINE x1 == [ev EXCEPT !.u[s].t1 = TRUE]
           x2 == [ev EXCEPT !.u[s].t2 = TRUE]
<1>4. /\ x1 = [ev EXCEPT !.u = [ev.u EXCEPT ![s] = [ev.u[s] EXCEPT !["t1"] = TRUE]]]
      /\ x2 = [ev EXCEPT !.u = [ev.u EXCEPT ![s] = [ev.u[s] EXCEPT !["t2"] = TRUE]]]
  BY Zenon
<1>5. ev' \in {ev, Settled(ev, s), settle(x1, s), settle(x2, s), Settled(x2, s)}
  BY DEF response, notify
<1> HIDE DEF x1, x2, D
<1>6. Good(x1, D) /\ x1.due = ev.due /\ Good(x2, D) /\ x2.due = ev.due
  BY <1>3, <1>4, SMTT(30)
<1>7. Good(ev', D) /\ ev'.due = ev.due
  BY <1>1, <1>5, <1>6, Settles, SettlesBoth, SMTT(30)
<1> QED BY <1>1, <1>7, EKeeps DEF D

(* A subscription's timer settles it. *)
LEMMA EExpires ==
    ASSUME CardFacts,
           EvInv, NEW s, expires(s)
    PROVE  EvInv'
<1> DEFINE D == DOMAIN ev.u
           r == [ev.u[s] EXCEPT !.timer = FALSE]
           x == [ev EXCEPT !.u[s].timer = FALSE]
<1>1. Good(ev, D) /\ s \in D /\ sent' = sent /\ \A p \in sent : p[1] \in D
  BY EDomain, ZenonT(40) DEF expires
<1>2. ev.u[s] \in Subscription
  BY <1>1 DEF Good, EvShape
<1>3. r \in Subscription /\ r.done = ev.u[s].done /\ ~r.timer
  BY <1>2, Zenon DEF Subscription
<1>4. x = [ev EXCEPT !.u = [ev.u EXCEPT ![s] = r]]
  BY Zenon
<1>5. ev' = Settled(x, s)
  BY DEF expires
<1> HIDE DEF x, r, D
<1>6. Good(x, D) /\ x.due = ev.due
  BY <1>1, <1>3, <1>4, Marks, SMTT(30)
<1>7. Good(ev', D) /\ ev'.due = ev.due
  BY <1>1, <1>5, <1>6, Settles, SMTT(30)
<1> QED BY <1>1, <1>7, EKeeps DEF D

(* The deadline of the phase settles all that are open. *)
LEMMA EGuard ==
    ASSUME CardFacts,
           EvInv, guard_fires
    PROVE  EvInv'
<1> DEFINE D == DOMAIN ev.u
           e == [ev EXCEPT !.guard = FALSE,
                    !.u = [s \in DOMAIN ev.u |->
                             [ev.u[s] EXCEPT !.done = TRUE, !.timer = FALSE]],
                    !.pending = @ - Cardinality(OpenOf(ev))]
<1>1. Good(ev, D) /\ sent' = sent /\ ev.guard /\ ev.due = 0 /\ \A p \in sent : p[1] \in D
  BY EDomain DEF guard_fires
<1>2. Cardinality(OpenOf(ev)) \in Nat
  BY <1>1, OpenCount, ZenonT(40) DEF Good
<1>3. ev.pending = Cardinality(OpenOf(ev)) /\ ev.pending > 0 /\ ev.finished = 0
  BY <1>1, <1>2, SMTT(30) DEF Good, Unit
<1>4. OpenOf(ev) # {}
  BY <1>2, <1>3, CardEmpty
<1>5. ev' = [e EXCEPT !.pending = 0, !.finished = @ + 1]
  BY <1>4 DEF guard_fires, OpenOf
<1>6. /\ DOMAIN ev' = EvFields /\ DOMAIN ev'.u = D /\ ev'.pending = 0 /\ ev'.finished = 1
      /\ ev'.guard = FALSE /\ ev'.due = 0
      /\ \A s \in D : ev'.u[s] = [ev.u[s] EXCEPT !.done = TRUE, !.timer = FALSE]
  BY <1>1, <1>3, <1>5 DEF Good, EvShape, EvFields
<1>7. \A s \in D : ev'.u[s] \in Subscription /\ ev'.u[s].done /\ ~ev'.u[s].timer
  <2> SUFFICES ASSUME NEW s \in D PROVE ev'.u[s] \in Subscription /\ ev'.u[s].done /\ ~ev'.u[s].timer
    OBVIOUS
  <2>1. PICK r \in Subscription : r = ev.u[s]
    BY <1>1 DEF Good, EvShape
  <2>2. ev'.u[s] = [r EXCEPT !.done = TRUE, !.timer = FALSE]
    BY <1>6, <2>1, Zenon
  <2> QED BY <2>2, Finished, Zenon
<1>11. /\ DOMAIN ev' = EvFields /\ DOMAIN ev'.u = D /\ ev'.pending = 0 /\ ev'.finished = 1
       /\ ~ev'.guard /\ ev'.due = 0
  BY <1>6, Zenon
<1> HIDE DEF D, e
<1>8. OpenOf(ev') = {} /\ Unit(ev') = 0 /\ Cardinality({}) = 0
  <2>1. OpenOf(ev') = D \ D /\ Unit(ev') = 0
    BY <1>7, <1>11, OpenIs, SMTT(30)
  <2> QED BY <2>1, CardEmpty
<1>9. EvShape(ev', D)
  BY <1>1, <1>7, <1>11, SMTT(30) DEF Good, EvShape
<1>10. Good(ev', D)
  BY <1>8, <1>9, <1>11 DEF Good
<1> QED BY <1>1, <1>10, <1>11, EKeeps DEF D

(* Every event of the phase keeps EvInv. *)
LEMMA EventStepKeeps ==
    ASSUME CardFacts,
           EvInv, [EventNext]_evars
    PROVE  EvInv'
<1>1. CASE UNCHANGED evars
  BY <1>1, EDomain, EKeeps, SMTT(30) DEF evars
<1>2. ASSUME NEW ok, scheduled(ok) PROVE EvInv'
  BY <1>2, EScheduled, SMTT(30)
<1>3. ASSUME NEW s, NEW what, Network(s, what) PROVE EvInv'
  BY <1>3, EDomain, EKeeps, SMTT(30) DEF Network
<1>4. ASSUME NEW s, NEW what, response(s, what) \/ notify(s, what) PROVE EvInv'
  BY <1>4, EAnswers, SMTT(30)
<1>5. ASSUME NEW s, expires(s) PROVE EvInv'
  BY <1>5, EExpires
<1>6. CASE guard_fires
  BY <1>6, EGuard
<1> QED BY <1>1, <1>2, <1>3, <1>4, <1>5, <1>6, ZenonT(40) DEF EventNext

-------------------------------------------------------------------------------
INSTANCE FiniteSetTheorems

(* What the library says of the cardinality of finite sets. *)
LEMMA FiniteSets == CardFacts
<1>1. IsFiniteSet({}) /\ Cardinality({}) = 0
  BY FS_EmptySet, Zenon
<1>2. ASSUME NEW S, IsFiniteSet(S) PROVE Cardinality(S) \in Nat /\ (Cardinality(S) = 0 <=> S = {})
  BY <1>2, FS_CardinalityType, FS_EmptySet, Zenon
<1>3. ASSUME NEW S, NEW x, IsFiniteSet(S)
      PROVE  /\ IsFiniteSet(S \cup {x})
             /\ Cardinality(S \cup {x}) = IF x \in S THEN Cardinality(S) ELSE Cardinality(S) + 1
  BY <1>3, FS_AddElement, Zenon
<1>4. ASSUME NEW S, NEW x, IsFiniteSet(S)
      PROVE  /\ IsFiniteSet(S \ {x})
             /\ Cardinality(S \ {x}) = IF x \in S THEN Cardinality(S) - 1 ELSE Cardinality(S)
  BY <1>4, FS_RemoveElement, Zenon
<1>5. ASSUME NEW S, NEW T, IsFiniteSet(S), T \subseteq S
      PROVE  /\ IsFiniteSet(T) /\ Cardinality(T) <= Cardinality(S)
             /\ Cardinality(S) = Cardinality(T) => S = T
  <2>1. T \in SUBSET S
    BY <1>5
  <2> QED BY <1>5, <2>1, FS_Subset, Zenon
<1>6. ASSUME NEW a \in Int, NEW b \in Int
      PROVE  IsFiniteSet(a .. b) /\ Cardinality(a .. b) = IF a > b THEN 0 ELSE b - a + 1
  BY FS_Interval, Zenon
<1> QED BY <1>1, <1>2, <1>3, <1>4, <1>5, <1>6, ZenonT(40) DEF CardFacts

(* Both phases call back once, when their last call or subscription is     *)
(* over, and leave no timer behind: call_finish of call_phase.lua and dec  *)
(* of reg_event.lua, for any number of calls and subscribers.              *)
THEOREM PhasesAreOverOnce == PhasesSpec => []PhasesEndOnce
<1>1. Spec => []CallInv
  <2>1. (Init => CallInv) /\ (CallInv /\ [Next]_vars => CallInv')
    BY FiniteSets, CInit, CallStepKeeps, Zenon
  <2> QED BY <2>1, PTL DEF Spec
<1>2. EventSpec => []EvInv
  <2>1. (EventInit => EvInv) /\ (EvInv /\ [EventNext]_evars => EvInv')
    BY FiniteSets, EInit, EventStepKeeps
  <2> QED BY <2>1, PTL DEF EventSpec
<1>3. CallInv /\ EvInv => PhasesEndOnce
  BY FiniteSets, CallProps, EventProps, Zenon DEF PhasesEndOnce
<1> QED BY <1>1, <1>2, <1>3, PTL DEF PhasesSpec

(* Whatever the core and the network do: the report of call_phase.lua      *)
(* counts every call once, an answered call ends by a BYE, and access.lua  *)
(* keeps the media of the current call on the newest bearer, with a way    *)
(* back, for any number of calls, media addresses and bearers.             *)
THEOREM CallsAreAccounted == PhasesSpec => []CallsAccounted
<1>1. Spec => []CallInv
  <2>1. (Init => CallInv) /\ (CallInv /\ [Next]_vars => CallInv')
    BY FiniteSets, CInit, CallStepKeeps
  <2> QED BY <2>1, PTL DEF Spec
<1>2. MediaSpec => []MediaInv
  BY MInit, MediaStepKeeps, PTL DEF MediaSpec
<1>3. CallInv /\ MediaInv => CallsAccounted
  BY FiniteSets, CallProps, MediaProps DEF CallsAccounted
<1> QED BY <1>1, <1>2, <1>3, PTL DEF PhasesSpec
===============================================================================
