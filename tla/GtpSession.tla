------------------------------- MODULE GtpSession -------------------------------
(***************************************************************************)
(* The GTPv2-C endpoint of bindings/cxx/src/session.cpp: sessions found by *)
(* their local control TEID, requests matched to responses by sequence     *)
(* number, T3/N3 retransmission, and handlers that call back into the      *)
(* endpoint.  The peer answers any request it was sent, any number of      *)
(* times and at any later moment; an answer is accepting ("ok", or "bare"  *)
(* when it carries no control F-TEID), rejecting or undecodable.           *)
(***************************************************************************)
EXTENDS Naturals, Sequences, FiniteSets

CONSTANTS
    N3,             \* n3_
    CallerTeids,    \* control TEIDs a caller may choose itself
    Faults,         \* what may fail: a subset of {"send", "timer"}
    FirstSeq,       \* the sequence counter at first
    SeqMod,         \* sequence numbers are counted modulo this (2^24 in the code)
    MaxSessions,    \* bound: sessions created
    MaxSeqs         \* bound: sequence numbers used

ASSUME SeqsDiffer ==
    /\ SeqMod \in Nat /\ FirstSeq \in 0 .. SeqMod - 1
    /\ MaxSeqs \in Nat /\ MaxSeqs < SeqMod - 1

VARIABLES
    sessions,   \* live sessions by order of creation: state, teid, req, remote, mod, tun
    by_teid,    \* the index: local control TEID -> session
    txns,       \* outstanding requests: sequence -> mt, teid, sends, timer, own, threw
    seq,        \* impl_->seq, below SeqMod
    ctrl_teid,  \* the TEID allocator
    cb,         \* the session whose on_user_plane is to be called and its state, or <<>>
    open,       \* the endpoint exists
    teids,      \* history: the TEID of every session created
    asked,      \* history: the requests that reached the socket
    calls,      \* history: completions delivered for each sequence number
    used        \* history: sequence numbers used

vars == <<sessions, by_teid, txns, seq, ctrl_teid, cb, open, teids, asked, calls, used>>

Init ==
    /\ sessions = <<>> /\ by_teid = <<>> /\ txns = <<>>
    /\ seq = FirstSeq /\ ctrl_teid = 0 /\ cb = <<>> /\ open = TRUE
    /\ teids = <<>> /\ asked = {} /\ used = 0
    /\ calls = [q \in 1 .. SeqMod - 1 |-> 0]

Drop(f, S) == [x \in DOMAIN f \ S |-> f[x]]
Put(f, x, v) == [y \in DOMAIN f \cup {x} |-> IF y = x THEN v ELSE f[y]]

(* emplace: what is there already stays. *)
Emplace(f, x, v) == IF x \in DOMAIN f THEN f ELSE Put(f, x, v)

(* ++seq & mask, 0 skipped. *)
next_seq == IF (seq + 1) % SeqMod = 0 THEN 1 ELSE (seq + 1) % SeqMod

UseSeq == used < MaxSeqs /\ seq' = next_seq /\ used' = used + 1

(* send_to, net_loop_after and the entry in txns; either call may throw. *)
start_txn(s, mt, teid, fault) ==
    /\ UseSeq
    /\ asked' = IF fault = "send" THEN asked
                ELSE asked \cup {[seq |-> next_seq, mt |-> mt, own |-> s]}
    /\ txns' = IF fault # "none" THEN txns
               ELSE Put(txns, next_seq, [mt |-> mt, teid |-> teid, sends |-> 1,
                                         timer |-> TRUE, own |-> s, threw |-> FALSE])

(* The first session to claim a TEID stays resolvable.  A session whose *)
(* request could not be started stays in the list.                      *)
create_session(chosen, fault) ==
    LET s    == Len(teids) + 1
        teid == IF chosen # 0 THEN chosen ELSE ctrl_teid + 1
    IN  /\ open /\ s <= MaxSessions
        /\ ctrl_teid' = IF chosen # 0 THEN ctrl_teid ELSE ctrl_teid + 1
        /\ sessions' = Put(sessions, s, [state |-> "CREATING", teid |-> teid, req |-> next_seq,
                                         remote |-> 0, mod |-> 0, tun |-> <<0, 0>>])
        /\ by_teid' = Emplace(by_teid, teid, s)
        /\ teids' = Append(teids, teid)
        /\ start_txn(s, "create", teid, fault)
        /\ UNCHANGED <<cb, open, calls>>

(* mod_bearers_ is the list of the last request, whichever is answered. *)
modify_bearer(s, fault) ==
    /\ s \in DOMAIN sessions
    /\ sessions' = [sessions EXCEPT ![s].mod = next_seq]
    /\ start_txn(s, "modify", sessions[s].teid, fault)
    /\ UNCHANGED <<by_teid, ctrl_teid, cb, open, teids, calls>>

(* DELETING before the request is started. *)
delete_session(s, fault) ==
    /\ s \in DOMAIN sessions
    /\ sessions' = [sessions EXCEPT ![s].state = "DELETING"]
    /\ start_txn(s, "delete", sessions[s].teid, fault)
    /\ UNCHANGED <<by_teid, ctrl_teid, cb, open, teids, calls>>

(* Fire and forget: only the sequence number is spent. *)
send_echo ==
    /\ open /\ UseSeq
    /\ UNCHANGED <<sessions, by_teid, txns, ctrl_teid, cb, open, teids, asked, calls>>

(* Mutant: sessions being deleted are freed as well. *)
Purgeable_deleting == {s \in DOMAIN sessions : sessions[s].state \in {"DELETING", "DELETED", "FAILED"}}

Purgeable == {s \in DOMAIN sessions : sessions[s].state \in {"DELETED", "FAILED"}}

purge ==
    /\ Purgeable # {}
    /\ sessions' = Drop(sessions, Purgeable)
    /\ by_teid' = Drop(by_teid, {t \in DOMAIN by_teid : by_teid[t] \in Purgeable})
    /\ UNCHANGED <<txns, seq, ctrl_teid, cb, open, teids, asked, calls, used>>

(* ~Endpoint: every timer is cancelled, the sessions go. *)
destroy ==
    /\ open /\ cb = <<>>
    /\ open' = FALSE /\ sessions' = <<>> /\ by_teid' = <<>> /\ txns' = <<>>
    /\ UNCHANGED <<seq, ctrl_teid, cb, teids, asked, calls, used>>
-------------------------------------------------------------------------------
Called(q) == calls' = [calls EXCEPT ![q] = @ + 1]

Resolves(t) == t.teid \in DOMAIN by_teid

(* Mutant: the timer is not armed again after a retransmission. *)
on_txn_timer_last(q, fault) ==
    LET t == txns[q] IN
    /\ cb = <<>> /\ t.timer
    /\ \/ /\ t.sends < N3
          /\ txns' = [txns EXCEPT ![q].timer = FALSE, ![q].sends = @ + 1]
          /\ UNCHANGED <<sessions, calls>>
       \/ /\ t.sends >= N3 /\ fault = "none"
          /\ txns' = Drop(txns, {q})
          /\ IF Resolves(t)
             THEN sessions' = [sessions EXCEPT ![by_teid[t.teid]].state = "FAILED"] /\ Called(q)
             ELSE UNCHANGED <<sessions, calls>>
    /\ UNCHANGED <<by_teid, seq, ctrl_teid, cb, open, teids, asked, used>>

(* T3 expires.  A retransmission that throws leaves the request without a *)
(* timer; after N3 sends the session fails, whatever the request was.     *)
on_txn_timer(q, fault) ==
    LET t == txns[q] IN
    /\ cb = <<>> /\ t.timer
    /\ \/ /\ t.sends < N3
          /\ txns' = [txns EXCEPT ![q] =
                         [t EXCEPT !.timer = (fault = "none"), !.threw = (fault # "none"),
                                   !.sends = IF fault = "send" THEN t.sends ELSE t.sends + 1]]
          /\ UNCHANGED <<sessions, calls>>
       \/ /\ t.sends >= N3 /\ fault = "none"
          /\ txns' = Drop(txns, {q})
          /\ IF Resolves(t)
             THEN sessions' = [sessions EXCEPT ![by_teid[t.teid]].state = "FAILED"] /\ Called(q)
             ELSE UNCHANGED <<sessions, calls>>
    /\ UNCHANGED <<by_teid, seq, ctrl_teid, cb, open, teids, asked, used>>

Accepts(answer) == answer \in {"ok", "bare"}

(* Mutant: a Create is paired with the bearers of a Modify. *)
Answered_mod(s, r, answer) ==
    CASE r.mt = "create" /\ Accepts(answer) ->
            [s EXCEPT !.state = "ACTIVE", !.tun = <<s.mod, r.seq>>,
                      !.remote = IF answer = "ok" THEN r.own ELSE @]
      [] r.mt = "create" -> [s EXCEPT !.state = "FAILED"]
      [] r.mt = "modify" /\ Accepts(answer) -> [s EXCEPT !.tun = <<s.mod, r.seq>>]
      [] r.mt = "delete" -> [s EXCEPT !.state = "DELETED"]
      [] OTHER -> s

(* What an answer makes of the session it is applied to.  The peer's TEID *)
(* for a session is known by the session that asked for it.               *)
Answered(s, r, answer) ==
    CASE r.mt = "create" /\ Accepts(answer) ->
            [s EXCEPT !.state = "ACTIVE", !.tun = <<s.req, r.seq>>,
                      !.remote = IF answer = "ok" THEN r.own ELSE @]
      [] r.mt = "create" -> [s EXCEPT !.state = "FAILED"]
      [] r.mt = "modify" /\ Accepts(answer) -> [s EXCEPT !.tun = <<s.mod, r.seq>>]
      [] r.mt = "delete" -> [s EXCEPT !.state = "DELETED"]
      [] OTHER -> s

(* Mutant: the request is left among the outstanding ones. *)
handle_response_kept(r, answer) ==
    /\ cb = <<>> /\ r.seq \in DOMAIN txns
    /\ LET t == txns[r.seq] IN
       IF Resolves(t) /\ answer # "bad"
       THEN LET s == by_teid[t.teid] IN
            /\ sessions' = [sessions EXCEPT ![s] = Answered(@, r, answer)]
            /\ Called(r.seq)
            /\ cb' = IF Accepts(answer) /\ r.mt # "delete"
                     THEN <<s, sessions'[s].state>> ELSE <<>>
       ELSE UNCHANGED <<sessions, calls, cb>>
    /\ UNCHANGED <<by_teid, txns, seq, ctrl_teid, open, teids, asked, used>>

(* Mutant: an answer that matches no request still sets its session. *)
handle_response_late(r, answer) ==
    /\ cb = <<>> /\ r.own \in DOMAIN sessions /\ r.seq \notin DOMAIN txns
    /\ by_teid[sessions[r.own].teid] = r.own
    /\ sessions' = [sessions EXCEPT ![r.own] = Answered(@, r, answer)]
    /\ UNCHANGED <<by_teid, txns, seq, ctrl_teid, cb, open, teids, asked, calls, used>>

(* The request is detached and its timer cancelled before the answer is   *)
(* decoded: an undecodable one ends it without a word.  The completion is *)
(* delivered, then on_user_plane for the tunnels of an accepting answer.  *)
(* An answer that matches nothing goes to on_message.                     *)
handle_response(r, answer) ==
    /\ cb = <<>> /\ r.seq \in DOMAIN txns
    /\ txns' = Drop(txns, {r.seq})
    /\ LET t == txns[r.seq] IN
       IF Resolves(t) /\ answer # "bad"
       THEN LET s == by_teid[t.teid] IN
            /\ sessions' = [sessions EXCEPT ![s] = Answered(@, r, answer)]
            /\ Called(r.seq)
            /\ cb' = IF Accepts(answer) /\ r.mt # "delete"
                     THEN <<s, sessions'[s].state>> ELSE <<>>
       ELSE UNCHANGED <<sessions, calls, cb>>
    /\ UNCHANGED <<by_teid, seq, ctrl_teid, open, teids, asked, used>>

(* The completion handler returned; the loop over s->tunnels_ runs. *)
on_user_plane ==
    /\ cb # <<>> /\ cb' = <<>>
    /\ UNCHANGED <<sessions, by_teid, txns, seq, ctrl_teid, open, teids, asked, calls, used>>

Next ==
    \/ \E chosen \in CallerTeids \cup {0}, f \in Faults \cup {"none"} : create_session(chosen, f)
    \/ \E s \in 1 .. MaxSessions, f \in Faults \cup {"none"} : modify_bearer(s, f) \/ delete_session(s, f)
    \/ send_echo \/ purge \/ destroy \/ on_user_plane
    \/ \E q \in DOMAIN txns, f \in Faults \cup {"none"} : on_txn_timer(q, f)
    \/ \E r \in asked, a \in {"ok", "bare", "no", "bad"} : handle_response(r, a)

(* The loop runs due timers and a handler returns. *)
Fairness ==
    /\ WF_vars(on_user_plane)
    /\ \A q \in 1 .. SeqMod - 1 : WF_vars(q \in DOMAIN txns /\ on_txn_timer(q, "none"))

Spec == Init /\ [][Next]_vars /\ Fairness
-------------------------------------------------------------------------------
Shared(s) == \E o \in 1 .. Len(teids) : o # s /\ teids[o] = teids[s]

(* At most one completion reaches the handler for a request, however often *)
(* the peer answers and however the answer races T3.                       *)
OneOutcome == \A q \in DOMAIN calls : calls[q] <= 1

(* The index only ever holds live sessions, and a session purge may free  *)
(* can be found in it.  A handler that purges does not free the session   *)
(* whose tunnels are then signalled, unless it had ended before its       *)
(* Modify was answered.                                                   *)
PointersLive ==
    /\ \A t \in DOMAIN by_teid : by_teid[t] \in DOMAIN sessions /\ sessions[by_teid[t]].teid = t
    /\ \A s \in Purgeable : by_teid[sessions[s].teid] = s
    /\ cb # <<>> /\ cb[2] \notin {"DELETED", "FAILED"} => cb[1] \in DOMAIN sessions

(* What a session knows of its peer it asked for itself, unless its TEID   *)
(* was chosen twice.  The tunnels of a Create pair that very request with  *)
(* its answer; those of a Modify pair the answer with the session's own    *)
(* last attempt at a Modify, which may be a later one.                     *)
OwnAnswers ==
    \A s \in DOMAIN sessions :
        ~Shared(s) =>
            /\ sessions[s].remote \in {0, s}
            /\ \A r \in asked : r.seq = sessions[s].tun[2] =>
                  /\ r.own = s
                  /\ r.mt = "create" => sessions[s].tun[1] = r.seq
                  /\ \A o \in asked : o.seq = sessions[s].tun[1] => o.own = s /\ o.mt = r.mt

(* A request has one outcome, from its own answer. *)
AnsweredOnce == OneOutcome /\ OwnAnswers

(* A session that has ended with nothing outstanding changes only when its *)
(* owner asks again: no late answer and no timer brings it back.           *)
SettledStays ==
    [][\A s \in Purgeable \cap DOMAIN sessions' :
          ~(\E q \in DOMAIN txns : txns[q].teid = sessions[s].teid) =>
              \/ sessions'[s].state = sessions[s].state
              \/ sessions'[s].state = "DELETING" /\ used' > used]_vars

(* A request ends, unless sending it again failed. *)
RequestsEnd ==
    \A q \in 1 .. SeqMod - 1 :
        (q \in DOMAIN txns) ~> (q \notin DOMAIN txns \/ txns[q].threw)
===============================================================================
