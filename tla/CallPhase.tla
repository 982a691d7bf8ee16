------------------------------- MODULE CallPhase -------------------------------
(***************************************************************************)
(* One series of calls of bindings/examples/ims/call_phase.lua.  Both ends *)
(* of a call live in one process and share its record: the caller's and    *)
(* the callee's transaction and dialog objects, the one call timer, the    *)
(* media timer, and the series' counters.  The IMS core between the two    *)
(* loses, repeats and reorders what it forwards, and may itself answer     *)
(* 100, reject the INVITE or cancel it.  The reversed series is the same   *)
(* code over another set of calls.  The registration-event phase of        *)
(* reg_event.lua and the media filters of access.lua go on beside it; the  *)
(* three share the loop and the report, and no state of the models.        *)
(***************************************************************************)
EXTENDS SipMachines, RegEvent, MediaBearer, FiniteSets

CONSTANT Calls

ASSUME SomeCalls == IsFiniteSet(Calls) /\ Calls # {}

VARIABLES
    call,       \* the record of each call
    net,        \* what was sent for each call
    pending,    \* calls of the series that are not done
    guard,      \* the series deadline is armed
    finished,   \* times series_done was called
    stat        \* st.attempted, st.answered, st.released

vars == <<call, net, pending, guard, finished, stat>>

NewCall ==
    [dlg_mo |-> Dialog.start, dlg_mt |-> Dialog.start,
     txn_mo |-> INVITE_CLIENT.start, txn_mt |-> INVITE_SERVER.start,
     fired |-> FALSE, t2 |-> FALSE, t6 |-> FALSE, done |-> FALSE,
     timer |-> "off",           \* what c.timer will do: setup, ring, hold, bye
     answer |-> FALSE,          \* send_answer is scheduled
     media_timer |-> FALSE, media_stop |-> FALSE,
     cut |-> FALSE]             \* ended by a CANCEL, the ringing or the series deadline

Init ==
    /\ call = [c \in Calls |-> NewCall]
    /\ net = [c \in Calls |-> {}]
    /\ pending = Cardinality(Calls)
    /\ guard = TRUE
    /\ finished = 0
    /\ stat = [attempted |-> 0, answered |-> 0, released |-> 0]

stop_media(r) == [r EXCEPT !.media_stop = TRUE, !.media_timer = FALSE]
start_media(r) == IF r.media_stop THEN r ELSE [r EXCEPT !.media_timer = TRUE]

(* Mutant: the call timer survives the call. *)
call_finish_timed(c, r) ==
    IF r.done THEN call' = [call EXCEPT ![c] = r] /\ UNCHANGED <<pending, guard, finished>>
    ELSE /\ call' = [call EXCEPT ![c] = stop_media([r EXCEPT !.done = TRUE])]
         /\ pending' = pending - 1
         /\ guard' = (guard /\ pending > 1)
         /\ finished' = IF pending <= 1 THEN finished + 1 ELSE finished

(* call_finish and, as far as state goes, call_fail: r is the call as the  *)
(* handler left it.  The last call ends the series.                        *)
call_finish(c, r) ==
    IF r.done THEN call' = [call EXCEPT ![c] = r] /\ UNCHANGED <<pending, guard, finished>>
    ELSE /\ call' = [call EXCEPT ![c] =
                        stop_media([r EXCEPT !.done = TRUE, !.timer = "off"])]
         /\ pending' = pending - 1
         /\ guard' = (guard /\ pending > 1)
         /\ finished' = IF pending <= 1 THEN finished + 1 ELSE finished

Keep(c, r) == call' = [call EXCEPT ![c] = r] /\ UNCHANGED <<pending, guard, finished>>
Sends(c, m) == net' = [net EXCEPT ![c] = @ \cup {m}]
Count(k) == stat' = [stat EXCEPT ![k] = @ + 1]

-------------------------------------------------------------------------------
(* fire: the caller's INVITE; a send that fails fails the call. *)
fire(c, ok) ==
    LET r == [call[c] EXCEPT !.fired = TRUE,
                 !.txn_mo = Feed(INVITE_CLIENT, @, "SEND_REQUEST")]
    IN  /\ ~call[c].fired
        /\ Count("attempted")
        /\ IF ok THEN Keep(c, [r EXCEPT !.timer = "setup"]) /\ Sends(c, "INVITE")
           ELSE call_finish(c, r) /\ UNCHANGED net

(* P.request with an INVITE: the first one rings and schedules the answer, *)
(* whether or not the call is over.                                        *)
on_invite(c) ==
    /\ "INVITE" \in net[c]
    /\ ~call[c].t2
    /\ Keep(c, [call[c] EXCEPT
           !.t2 = TRUE, !.answer = TRUE,
           !.txn_mt = Feed(INVITE_SERVER, Feed(INVITE_SERVER, @, "RECV_REQUEST"), "SEND_1XX"),
           !.dlg_mt = Feed(Dialog, @, "EARLY")])
    /\ Sends(c, "180")
    /\ UNCHANGED stat

send_answer(c) ==
    LET r == [call[c] EXCEPT !.answer = FALSE] IN
    /\ call[c].answer
    /\ UNCHANGED stat
    /\ IF call[c].done THEN Keep(c, r) /\ UNCHANGED net
       ELSE /\ Keep(c, start_media([r EXCEPT
                   !.txn_mt = Feed(INVITE_SERVER, @, "SEND_2XX"),
                   !.dlg_mt = Feed(Dialog, @, "CONFIRM")]))
            /\ Sends(c, "200")

request_ack(c) ==
    /\ net[c] \cap {"ACK", "ACK (non-2xx)"} # {}
    /\ Keep(c, [call[c] EXCEPT !.txn_mt = Feed(INVITE_SERVER, @, "RECV_ACK")])
    /\ UNCHANGED <<net, stat>>

(* P.request with the BYE: answered in any case, the call ends once. *)
request_bye(c) ==
    /\ "BYE" \in net[c]
    /\ Sends(c, "200 (BYE)")
    /\ IF call[c].done THEN Keep(c, call[c]) /\ UNCHANGED stat
       ELSE /\ Count("released")
            /\ call_finish(c, [call[c] EXCEPT !.dlg_mt = Feed(Dialog, @, "TERMINATE")])

request_cancel(c) ==
    /\ "CANCEL" \in net[c]
    /\ call_finish(c, [call[c] EXCEPT !.cut = TRUE])
    /\ UNCHANGED <<net, stat>>

-------------------------------------------------------------------------------
(* P.response: what the caller's machines make of an INVITE response. *)
Fed(c, status) ==
    LET m == Rsp(status, "INVITE") IN
    [call[c] EXCEPT !.txn_mo = Feed(INVITE_CLIENT, @, Transaction_recv(m)),
                    !.dlg_mo = Feed(Dialog, @, dialog_event(m, @))]

(* 100 and 180; the latter sets the call timer afresh, whatever it was for. *)
response_1xx(c, status) ==
    /\ (IF status = 100 THEN "100" ELSE "180") \in net[c]
    /\ ~call[c].done
    /\ Keep(c, IF status = 100 THEN Fed(c, status)
               ELSE [Fed(c, status) EXCEPT !.timer = "ring"])
    /\ UNCHANGED <<net, stat>>

(* Mutant: a repeated 200 answers the call again. *)
response_2xx_again(c) ==
    /\ "200" \in net[c] /\ "486" \notin net[c]
    /\ ~call[c].done
    /\ stat.answered < 3
    /\ Keep(c, start_media([Fed(c, 200) EXCEPT !.t6 = TRUE, !.timer = "hold"]))
    /\ Sends(c, "ACK")
    /\ Count("answered")

(* on_answered for the first 200: acknowledge, start media, hold the call. *)
response_2xx(c) ==
    /\ "200" \in net[c] /\ "486" \notin net[c]
    /\ ~call[c].done
    /\ IF call[c].t6 THEN Keep(c, Fed(c, 200)) /\ UNCHANGED <<net, stat>>
       ELSE /\ Keep(c, start_media([Fed(c, 200) EXCEPT !.t6 = TRUE, !.timer = "hold"]))
            /\ Sends(c, "ACK")
            /\ Count("answered")

response_reject(c) ==
    /\ "486" \in net[c]
    /\ ~call[c].done
    /\ call_finish(c, Fed(c, 486))
    /\ Sends(c, "ACK (non-2xx)")
    /\ UNCHANGED stat

response_bye(c) ==
    /\ "200 (BYE)" \in net[c]
    /\ ~call[c].done
    /\ Count("released")
    /\ call_finish(c, call[c])
    /\ UNCHANGED net

-------------------------------------------------------------------------------
(* Mutant: the call ends without a word to the network. *)
hold_over_silent(c) ==
    /\ call[c].timer = "hold"
    /\ call_finish(c, [call[c] EXCEPT !.timer = "off"])
    /\ UNCHANGED <<net, stat>>

(* The hold timer: release the call. *)
hold_over(c) ==
    /\ call[c].timer = "hold"
    /\ Keep(c, stop_media([call[c] EXCEPT
           !.timer = "bye", !.dlg_mo = Feed(Dialog, @, "TERMINATE")]))
    /\ Sends(c, "BYE")
    /\ UNCHANGED stat

(* The other uses of the call timer end the call. *)
step_deadline(c) ==
    /\ call[c].timer \in {"setup", "ring", "bye"}
    /\ call_finish(c, [call[c] EXCEPT !.timer = "off", !.cut = (call[c].timer = "ring")])
    /\ UNCHANGED <<net, stat>>

(* The series deadline fails what is left, and the last one ends it. *)
series_deadline ==
    /\ guard
    /\ call' = [c \in Calls |->
                  IF call[c].done THEN call[c]
                  ELSE stop_media([call[c] EXCEPT !.done = TRUE, !.timer = "off",
                                                  !.cut = TRUE])]
    /\ \A c \in Calls : call[c].fired
    /\ pending' = 0 /\ guard' = FALSE
    /\ finished' = IF pending > 0 THEN finished + 1 ELSE finished
    /\ UNCHANGED <<net, stat>>

(* The core: what it may originate for a call, one final answer at most. *)
core(c, m) ==
    /\ "INVITE" \in net[c]
    /\ m = "486" => "200" \notin net[c]
    /\ Sends(c, m)
    /\ UNCHANGED <<call, pending, guard, finished, stat>>

Next ==
    \/ \E c \in Calls :
          \/ \E ok \in BOOLEAN : fire(c, ok)
          \/ on_invite(c) \/ send_answer(c)
          \/ request_ack(c) \/ request_bye(c) \/ request_cancel(c)
          \/ \E s \in {100, 180} : response_1xx(c, s)
          \/ response_2xx(c) \/ response_reject(c) \/ response_bye(c)
          \/ hold_over(c) \/ step_deadline(c)
          \/ \E m \in {"100", "486", "CANCEL"} : core(c, m)
    \/ series_deadline

(* The loop fires the call timers in the end.  Nothing is asked of the     *)
(* series deadline: the calls must end without it.                         *)
Fairness == \A c \in Calls : WF_vars(hold_over(c)) /\ WF_vars(step_deadline(c))

Spec == Init /\ [][Next]_vars /\ Fairness

-------------------------------------------------------------------------------
(* The series is over exactly when its last call is, and says so once: the *)
(* counter, the records and the deadline never disagree.  A call that is   *)
(* over has no timer of its own left on the loop.                          *)
SeriesEndsOnce ==
    /\ pending = Cardinality({c \in Calls : ~call[c].done})
    /\ finished = (IF pending = 0 THEN 1 ELSE 0)
    /\ guard <=> pending > 0
    /\ \A c \in Calls : call[c].done => call[c].timer = "off" /\ ~call[c].media_timer

(* The report's ratios make sense: no call is answered that was not        *)
(* attempted, none is released that was not answered, none counts twice.   *)
CountsNest ==
    /\ stat.released <= stat.answered
    /\ stat.answered = Cardinality({c \in Calls : call[c].t6})
    /\ stat.attempted = Cardinality({c \in Calls : call[c].fired})

(* "Always BYE: rtpengine holds a port pair per call": an answered call    *)
(* ends with a BYE unless the network cancelled it or the series ran out.  *)
(* The code has one more way out: a 180 that arrives after the 200 puts    *)
(* the ringing deadline in the place of the hold timer.                    *)
AnsweredEndsByBye ==
    \A c \in Calls : call[c].done /\ call[c].t6 /\ ~call[c].cut => "BYE" \in net[c]

(* Every call that was placed ends by its own timers, whatever the core    *)
(* loses and without the series deadline.                                  *)
CallEnds == \A c \in Calls : call[c].fired ~> call[c].done

-------------------------------------------------------------------------------
(* The phases side by side. *)
PhasesSpec == Spec /\ EventSpec /\ MediaSpec

(* A phase is over exactly when its last call or subscription is, and says *)
(* so once: the counter, the records and the deadline never disagree.      *)
PhasesEndOnce == SeriesEndsOnce /\ EventPhaseEndsOnce

(* The counters of a series nest and an answered call ends by a BYE; its   *)
(* media rides the newest bearer the network gave the subscriber, in both  *)
(* directions.                                                             *)
CallsAccounted == CountsNest /\ AnsweredEndsByBye /\ MediaHomed /\ DownlinkKept
===============================================================================
