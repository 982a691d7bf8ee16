------------------------------ MODULE SipMachines ------------------------------
(***************************************************************************)
(* The SIP state tables of sip/src/sip_fsm.c and sip/src/sip_dialog.c, and *)
(* the objects of bindings/cxx/src/sip.cpp that turn a message into the    *)
(* event of each.  A message is a record: [kind |-> "req", method] or      *)
(* [kind |-> "rsp", status, cseq, tag]; status is the code, cseq the       *)
(* method of its CSeq, tag whether the To header carries one.              *)
(***************************************************************************)
EXTENDS Fsm

invite_client_table == <<
    <<"INIT", "SEND_REQUEST", "CALLING">>,
    <<"CALLING", "TIMER_RETRANSMIT", "CALLING">>,
    <<"CALLING", "RECV_1XX", "PROCEEDING">>,
    <<"CALLING", "RECV_2XX", "TERMINATED">>,
    <<"CALLING", "RECV_3XX_6XX", "COMPLETED">>,
    <<"CALLING", "TIMER_TIMEOUT", "TERMINATED">>,
    <<"PROCEEDING", "RECV_1XX", "PROCEEDING">>,
    <<"PROCEEDING", "RECV_2XX", "TERMINATED">>,
    <<"PROCEEDING", "RECV_3XX_6XX", "COMPLETED">>,
    <<"COMPLETED", "RECV_3XX_6XX", "COMPLETED">>,
    <<"COMPLETED", "TIMER_TERMINATE", "TERMINATED">>,
    <<Any, "TRANSPORT_ERR", "TERMINATED">> >>

invite_server_table == <<
    <<"INIT", "RECV_REQUEST", "PROCEEDING">>,
    <<"PROCEEDING", "RECV_REQUEST", "PROCEEDING">>,
    <<"PROCEEDING", "SEND_1XX", "PROCEEDING">>,
    <<"PROCEEDING", "SEND_2XX", "TERMINATED">>,
    <<"PROCEEDING", "SEND_3XX_6XX", "COMPLETED">>,
    <<"COMPLETED", "RECV_REQUEST", "COMPLETED">>,
    <<"COMPLETED", "TIMER_RETRANSMIT", "COMPLETED">>,
    <<"COMPLETED", "RECV_ACK", "CONFIRMED">>,
    <<"COMPLETED", "TIMER_TIMEOUT", "TERMINATED">>,
    <<"CONFIRMED", "RECV_ACK", "CONFIRMED">>,
    <<"CONFIRMED", "TIMER_TERMINATE", "TERMINATED">>,
    <<Any, "TRANSPORT_ERR", "TERMINATED">> >>

client_table == <<
    <<"INIT", "SEND_REQUEST", "TRYING">>,
    <<"TRYING", "TIMER_RETRANSMIT", "TRYING">>,
    <<"TRYING", "RECV_1XX", "PROCEEDING">>,
    <<"TRYING", "RECV_2XX", "COMPLETED">>,
    <<"TRYING", "RECV_3XX_6XX", "COMPLETED">>,
    <<"TRYING", "TIMER_TIMEOUT", "TERMINATED">>,
    <<"PROCEEDING", "TIMER_RETRANSMIT", "PROCEEDING">>,
    <<"PROCEEDING", "RECV_1XX", "PROCEEDING">>,
    <<"PROCEEDING", "RECV_2XX", "COMPLETED">>,
    <<"PROCEEDING", "RECV_3XX_6XX", "COMPLETED">>,
    <<"PROCEEDING", "TIMER_TIMEOUT", "TERMINATED">>,
    <<"COMPLETED", "RECV_2XX", "COMPLETED">>,
    <<"COMPLETED", "RECV_3XX_6XX", "COMPLETED">>,
    <<"COMPLETED", "TIMER_TERMINATE", "TERMINATED">>,
    <<Any, "TRANSPORT_ERR", "TERMINATED">> >>

server_table == <<
    <<"INIT", "RECV_REQUEST", "TRYING">>,
    <<"TRYING", "RECV_REQUEST", "TRYING">>,
    <<"TRYING", "SEND_1XX", "PROCEEDING">>,
    <<"TRYING", "SEND_2XX", "COMPLETED">>,
    <<"TRYING", "SEND_3XX_6XX", "COMPLETED">>,
    <<"PROCEEDING", "RECV_REQUEST", "PROCEEDING">>,
    <<"PROCEEDING", "SEND_1XX", "PROCEEDING">>,
    <<"PROCEEDING", "SEND_2XX", "COMPLETED">>,
    <<"PROCEEDING", "SEND_3XX_6XX", "COMPLETED">>,
    <<"COMPLETED", "RECV_REQUEST", "COMPLETED">>,
    <<"COMPLETED", "TIMER_TERMINATE", "TERMINATED">>,
    <<Any, "TRANSPORT_ERR", "TERMINATED">> >>

Trans(t) == [table |-> t, start |-> "INIT", term |-> "TERMINATED"]

(* A table without the entries of an action: what the mutants leave out. *)
Without(t, ev) == SelectSeq(t, LAMBDA e : e[2] # ev)

INVITE_CLIENT == Trans(invite_client_table)

INVITE_SERVER == Trans(invite_server_table)

NON_INVITE_CLIENT == Trans(client_table)

(* Mutant: a repeated request is unknown once the answer is out. *)
NON_INVITE_SERVER_deaf ==
    Trans(SelectSeq(server_table, LAMBDA e : e[1] # "COMPLETED" \/ e[2] # "RECV_REQUEST"))

NON_INVITE_SERVER == Trans(server_table)

dialog_table == <<
    <<"INIT", "EARLY", "EARLY">>,
    <<"INIT", "CONFIRM", "CONFIRMED">>,
    <<"INIT", "TERMINATE", "TERMINATED">>,
    <<"EARLY", "EARLY", "EARLY">>,
    <<"EARLY", "CONFIRM", "CONFIRMED">>,
    <<"EARLY", "TERMINATE", "TERMINATED">>,
    <<"CONFIRMED", "CONFIRM", "CONFIRMED">>,
    <<"CONFIRMED", "TERMINATE", "TERMINATED">> >>

Dialog == [table |-> dialog_table, start |-> "INIT", term |-> "TERMINATED"]

reg_table == <<
    <<"IDLE", "SEND", "REGISTERING">>,
    <<"REGISTERING", "CHALLENGE", "CHALLENGED">>,
    <<"REGISTERING", "OK", "REGISTERED">>,
    <<"REGISTERING", "FAIL", "FAILED">>,
    <<"CHALLENGED", "AUTH", "AUTHENTICATING">>,
    <<"CHALLENGED", "FAIL", "FAILED">>,
    <<"AUTHENTICATING", "OK", "REGISTERED">>,
    <<"AUTHENTICATING", "CHALLENGE", "CHALLENGED">>,
    <<"AUTHENTICATING", "FAIL", "FAILED">>,
    <<"REGISTERED", "REFRESH", "REFRESHING">>,
    <<"REGISTERED", "DEREGISTER", "DEREGISTERING">>,
    <<"REFRESHING", "OK", "REGISTERED">>,
    <<"REFRESHING", "CHALLENGE", "CHALLENGED">>,
    <<"REFRESHING", "FAIL", "FAILED">>,
    <<"DEREGISTERING", "OK", "DONE">>,
    <<"DEREGISTERING", "FAIL", "FAILED">> >>

Registration == [table |-> reg_table, start |-> "IDLE", term |-> "FAILED"]

auth_table == <<
    <<"INIT", "SEND", "PENDING">>,
    <<"PENDING", "CHALLENGE", "CHALLENGED">>,
    <<"PENDING", "SUCCESS", "AUTHENTICATED">>,
    <<"PENDING", "FAILURE", "FAILED">>,
    <<"CHALLENGED", "SEND", "PENDING">>,
    <<"CHALLENGED", "GIVE_UP", "FAILED">>,
    <<"AUTHENTICATED", "SEND", "PENDING">> >>

AuthChallenge == [table |-> auth_table, start |-> "INIT", term |-> "FAILED"]

-------------------------------------------------------------------------------
(* The messages of the compositions. *)
Req(method) == [kind |-> "req", method |-> method]
Rsp(status, cseq) ==
    [kind |-> "rsp", status |-> status, cseq |-> cseq, tag |-> status > 100]

IsReq(m) == m.kind = "req"

(* status_event *)
status_event(m, sending) ==
    LET class == IF m.status < 200 THEN "1XX"
                 ELSE IF m.status < 300 THEN "2XX" ELSE "3XX_6XX"
    IN  IF sending
        THEN CASE class = "1XX" -> "SEND_1XX" [] class = "2XX" -> "SEND_2XX"
               [] OTHER -> "SEND_3XX_6XX"
        ELSE CASE class = "1XX" -> "RECV_1XX" [] class = "2XX" -> "RECV_2XX"
               [] OTHER -> "RECV_3XX_6XX"

Transaction_send(m) ==
    IF IsReq(m) THEN IF m.method = "ACK" THEN NoEvent ELSE "SEND_REQUEST"
    ELSE status_event(m, TRUE)

Transaction_recv(m) ==
    IF IsReq(m) THEN IF m.method = "ACK" THEN "RECV_ACK" ELSE "RECV_REQUEST"
    ELSE status_event(m, FALSE)

(* Mutant: ringing is taken for an answer. *)
dialog_event_eager(m, state) ==
    IF IsReq(m) THEN IF m.method = "BYE" THEN "TERMINATE" ELSE NoEvent
    ELSE IF m.cseq # "INVITE" \/ m.status <= 100 THEN NoEvent
    ELSE IF m.status < 300 THEN "CONFIRM"
    ELSE IF state = "CONFIRMED" THEN NoEvent ELSE "TERMINATE"

(* Mutant: any failure ends the dialog. *)
dialog_event_strict(m, state) ==
    IF IsReq(m) THEN IF m.method = "BYE" THEN "TERMINATE" ELSE NoEvent
    ELSE IF m.cseq # "INVITE" \/ m.status <= 100 THEN NoEvent
    ELSE IF m.status < 200 THEN IF m.tag THEN "EARLY" ELSE NoEvent
    ELSE IF m.status < 300 THEN "CONFIRM" ELSE "TERMINATE"

(* The same for both directions; state decides what a failure means. *)
dialog_event(m, state) ==
    IF IsReq(m) THEN IF m.method = "BYE" THEN "TERMINATE" ELSE NoEvent
    ELSE IF m.cseq # "INVITE" \/ m.status <= 100 THEN NoEvent
    ELSE IF m.status < 200 THEN IF m.tag THEN "EARLY" ELSE NoEvent
    ELSE IF m.status < 300 THEN "CONFIRM"
    ELSE IF state = "CONFIRMED" THEN NoEvent ELSE "TERMINATE"

Registration_send(state, dereg) ==
    CASE state = "IDLE" -> "SEND"
      [] state = "CHALLENGED" -> "AUTH"
      [] state = "REGISTERED" -> IF dereg THEN "DEREGISTER" ELSE "REFRESH"
      [] OTHER -> NoEvent

Registration_recv(m) ==
    IF m.status \in {401, 407} THEN "CHALLENGE"
    ELSE IF m.status >= 300 THEN "FAIL"
    ELSE IF m.status >= 200 THEN "OK" ELSE NoEvent

AuthChallenge_recv(m) ==
    IF m.status \in {401, 407} THEN "CHALLENGE"
    ELSE IF m.status >= 300 THEN "FAILURE"
    ELSE IF m.status >= 200 THEN "SUCCESS" ELSE NoEvent
===============================================================================
