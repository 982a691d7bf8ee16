-------------------------------- MODULE RegFlow --------------------------------
(***************************************************************************)
(* The IMS registration exchange of bindings/examples/ims/regflow.lua for  *)
(* one subscriber: the Registration, AuthChallenge and Transaction objects *)
(* fed in lock-step, the step deadline, the ESP associations the kernel    *)
(* holds, S-CSCF restoration, and the run's own bookkeeping (finish in     *)
(* ims_test_gm.lua and ims_test_s5.lua).  The registrar answers each       *)
(* REGISTER or not; its answers may be lost, repeated and reordered.       *)
(***************************************************************************)
EXTENDS SipMachines

CONSTANTS
    Finals,         \* final statuses the registrar may give
    Provisional,    \* TRUE: it may send a 100 first
    AuthCap,        \* cfg.auth_cap
    Outcomes,       \* what on_401 may meet, see on_401
    MaxCSeq         \* bound: REGISTERs sent

VARIABLES
    sub,            \* the subscriber record of ue.lua
    answers         \* responses sent by the registrar, <<status, cseq>>

vars == <<sub, answers>>

NewSub == [reg |-> Registration.start, auth |-> AuthChallenge.start,
           txn |-> NON_INVITE_CLIENT.start, timer |-> FALSE, attempts |-> 0,
           cseq |-> 0, registered |-> FALSE, done |-> FALSE,
           restoring |-> FALSE, ch |-> FALSE, authz |-> FALSE, esp |-> FALSE,
           sas |-> FALSE, terminal |-> 0, credit |-> 0, dereg |-> FALSE]

Init == sub = NewSub /\ answers = {}

(* on_terminal, which is the test script's finish. *)
on_terminal(s) ==
    [s EXCEPT !.terminal = @ + 1, !.done = TRUE,
              !.timer = IF s.done THEN @ ELSE FALSE]

restored(s) == [s EXCEPT !.restoring = FALSE]

fail(s) == IF s.restoring THEN restored(s) ELSE on_terminal(s)

(* credit: the REGISTER whose 200 OK registered the subscriber. *)
succeed(s, cseq) ==
    LET t == [s EXCEPT !.registered = TRUE, !.credit = cseq]
    IN  IF s.restoring THEN restored(t) ELSE on_terminal(t)

(* Mutant: the digest machine is not told of the retry. *)
feed_sent_noauth(s, dereg) ==
    [s EXCEPT !.reg = Feed(Registration, @, Registration_send(@, dereg)),
              !.txn = Feed(NON_INVITE_CLIENT, "INIT", "SEND_REQUEST")]

(* Every event is injected under a pcall; the transaction is re-armed. *)
feed_sent(s, dereg) ==
    [s EXCEPT !.reg = Feed(Registration, @, Registration_send(@, dereg)),
              !.auth = Feed(AuthChallenge, @, "SEND"),
              !.txn = Feed(NON_INVITE_CLIENT, "INIT", "SEND_REQUEST")]

(* Mutant: a REGISTER goes out without a deadline. *)
send_undated(s, ok) == IF ok THEN feed_sent(s, FALSE) ELSE fail(feed_sent(s, FALSE))

send(s, ok) ==
    LET t == feed_sent(s, FALSE)
    IN  IF ok THEN [t EXCEPT !.timer = TRUE] ELSE fail(t)

(* The outcomes of a 401, in the order the code meets them: "bad" - no     *)
(* challenge, a bad AUTN or no netlink socket; "abandon" - IMS_ABANDON;    *)
(* "plain" - no Security-Server and none required; "refused" - the kernel  *)
(* took some of the eight operations; "esp" - it took them all.            *)
on_401(s, outcome, ok) ==
    LET dated == [s EXCEPT !.cseq = @ + 1, !.ch = TRUE, !.authz = TRUE]
        raised == [dated EXCEPT !.esp = TRUE, !.sas = TRUE]
    IN  CASE outcome = "bad" -> fail(s)
          [] outcome = "abandon" -> on_terminal(s)
          [] outcome = "plain" -> send(dated, ok)
          [] outcome = "refused" -> fail(raised)
          [] OTHER -> send(raised, ok)

first_register(s, ok) == send([s EXCEPT !.cseq = @ + 1], ok)

-------------------------------------------------------------------------------
(* begin_registration: a socket that cannot be bound fails the subscriber. *)
begin_registration(bound, ok) ==
    /\ sub.cseq = 0 /\ ~sub.done
    /\ sub' = IF bound THEN first_register(sub, ok) ELSE fail(sub)
    /\ UNCHANGED answers

(* The registrar: one final answer per REGISTER, a 100 before it if any. *)
registrar(status, cseq) ==
    /\ cseq \in 1 .. sub.cseq
    /\ ~ \E f \in Finals : <<f, cseq>> \in answers
    /\ answers' = answers \cup {<<status, cseq>>}
    /\ UNCHANGED sub

(* What handle does with a response once the machines have taken it. *)
Dispatch(s, m, outcome, ok) ==
    IF s.reg = "CHALLENGED"
    THEN LET t == [s EXCEPT !.attempts = @ + 1] IN
         IF t.attempts > AuthCap
         THEN fail([t EXCEPT !.auth = Feed(AuthChallenge, @, "GIVE_UP")])
         ELSE on_401(t, outcome, ok)
    ELSE IF s.reg = "REGISTERED" THEN succeed(s, m[2])
    ELSE IF s.reg = "FAILED" THEN fail(s)
    ELSE s

(* Mutant: a response that comes after the end is handled all the same. *)
handle_late(m, outcome, ok) ==
    /\ m \in answers
    /\ m[1] = 401 => sub.cseq < MaxCSeq
    /\ LET r == Rsp(m[1], "REGISTER")
           s == [sub EXCEPT !.timer = FALSE,
                    !.reg = Feed(Registration, @, Registration_recv(r))]
       IN  sub' = Dispatch(s, m, outcome, ok)
    /\ UNCHANGED answers

(* A response the registration machine refuses is logged and dropped, the  *)
(* deadline already off.                                                   *)
handle(m, outcome, ok) ==
    /\ m \in answers
    /\ ~ (sub.done /\ ~sub.restoring)
    /\ m[1] = 401 => sub.cseq < MaxCSeq
    /\ LET r  == Rsp(m[1], "REGISTER")
           ev == Registration_recv(r)
           s  == [sub EXCEPT
                    !.timer = FALSE,
                    !.txn = Feed(NON_INVITE_CLIENT, @, Transaction_recv(r)),
                    !.auth = Feed(AuthChallenge, @, AuthChallenge_recv(r)),
                    !.reg = Feed(Registration, @, ev)]
       IN  sub' = IF ev # NoEvent /\ fsm_act(Registration, sub.reg, ev).rc # "OK"
                  THEN s ELSE Dispatch(s, m, outcome, ok)
    /\ UNCHANGED answers

deadline ==
    /\ sub.timer
    /\ sub' = fail([sub EXCEPT !.timer = FALSE])
    /\ UNCHANGED answers

(* Mutant: restoration forgets the associations without releasing them. *)
restore_leaky(ok) ==
    /\ ~sub.restoring /\ sub.registered /\ sub.cseq < MaxCSeq
    /\ sub' = first_register([sub EXCEPT
                  !.restoring = TRUE, !.timer = FALSE, !.registered = FALSE,
                  !.esp = FALSE, !.ch = FALSE, !.authz = FALSE,
                  !.reg = Registration.start, !.auth = AuthChallenge.start,
                  !.attempts = 0], ok)
    /\ UNCHANGED answers

(* A 504 to some other request of this subscriber asks for it. *)
restore(ok) ==
    /\ ~sub.restoring /\ sub.registered /\ sub.cseq < MaxCSeq
    /\ sub' = first_register([sub EXCEPT
                  !.restoring = TRUE, !.timer = FALSE, !.registered = FALSE,
                  !.sas = IF sub.esp THEN FALSE ELSE @,
                  !.esp = FALSE, !.ch = FALSE, !.authz = FALSE,
                  !.reg = Registration.start, !.auth = AuthChallenge.start,
                  !.attempts = 0], ok)
    /\ UNCHANGED answers

(* Fire and forget: no deadline, and the answer finds the subscriber done. *)
deregister ==
    /\ sub.done /\ ~sub.restoring /\ ~sub.dereg
    /\ sub.registered /\ sub.ch /\ sub.authz
    /\ sub.cseq < MaxCSeq
    /\ sub' = feed_sent([sub EXCEPT !.cseq = @ + 1, !.dereg = TRUE], TRUE)
    /\ UNCHANGED answers

Next ==
    \/ \E bound, ok \in BOOLEAN : begin_registration(bound, ok)
    \/ \E c \in 1 .. MaxCSeq :
          \E f \in Finals \cup (IF Provisional THEN {100} ELSE {}) : registrar(f, c)
    \/ \E m \in answers, o \in Outcomes, ok \in BOOLEAN : handle(m, o, ok)
    \/ deadline
    \/ \E ok \in BOOLEAN : restore(ok)
    \/ deregister

(* The loop fires an armed timer in the end. *)
Fairness == WF_vars(deadline)

Spec == Init /\ [][Next]_vars /\ Fairness

-------------------------------------------------------------------------------
(* on_terminal is called once for the whole life of a subscriber: never    *)
(* again for a late or repeated response, a deadline that raced one, or a  *)
(* restoration.                                                            *)
TerminalOnce == sub.terminal = (IF sub.done THEN 1 ELSE 0)

(* "The three machines, in lock-step with the wire": while a REGISTER is   *)
(* out all three wait for its answer, and a registered subscriber is       *)
(* authenticated in the eyes of the digest machine.                        *)
LockStep ==
    /\ sub.reg \in {"REGISTERING", "AUTHENTICATING", "DEREGISTERING"}
          => sub.auth = "PENDING"
    /\ sub.reg = "REGISTERED" => sub.auth = "AUTHENTICATED"
    /\ sub.timer => sub.txn \in {"TRYING", "PROCEEDING"}

(* What teardown releases is all there is: the kernel holds associations   *)
(* of a subscriber only while the subscriber remembers them.               *)
NoOrphanSAs == sub.sas => sub.esp

(* ims_test_s5.lua: each step of a registration or restoration is bounded  *)
(* by SIP_T_MS, so every one of them ends.                                 *)
StepBounded ==
    (sub.cseq > 0 /\ (~sub.done \/ sub.restoring)) ~> (sub.done /\ ~sub.restoring)

(* regflow.lua: a restoration leaves the subscriber registered again or    *)
(* not at all, "the binding the 504 said was lost is not one it can fall   *)
(* back on": the 200 OK that registers a subscriber answers the last       *)
(* REGISTER it sent, not one from before the restoration.                  *)
SuccessIsCurrent ==
    [][sub'.registered /\ ~sub.registered /\ sub.restoring
        => sub'.credit = sub'.cseq]_vars
===============================================================================
