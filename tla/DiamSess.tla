------------------------------- MODULE DiamSess -------------------------------
(***************************************************************************)
(* The Diameter authorization session machines (diam/src/diam_fsm.c),      *)
(* driven by the messages as diam::Session does (bindings/cxx/src/         *)
(* diam.cpp): a client and a server session over one connection, which     *)
(* delivers in order both ways.  What one side sends crosses what the      *)
(* other sends; an event the machine refuses is thrown to the caller,      *)
(* which drops the message.                                                *)
(***************************************************************************)
EXTENDS Fsm, Sequences, FiniteSets

CONSTANTS
    MaxSends        \* bound: messages either side sends on its own

VARIABLES
    cli, srv,       \* the two machines
    c2s, s2c,       \* the connection
    owed,           \* requests the server has yet to answer
    refused,        \* <<side, state, event>> thrown so far
    str,            \* the client has tried to send its STR
    sends           \* messages the sides started

vars == <<cli, srv, c2s, s2c, owed, refused, str, sends>>

client_table == <<
    <<"IDLE", "SEND_REQUEST", "PENDING">>,
    <<"PENDING", "ANSWER_OK", "OPEN">>,
    <<"PENDING", "ANSWER_FAIL", "CLOSED">>,
    <<"PENDING", "TIMEOUT", "CLOSED">>,
    <<"OPEN", "REAUTH", "OPEN">>,
    <<"OPEN", "SEND_REQUEST", "OPEN">>,
    <<"OPEN", "ANSWER_OK", "OPEN">>,
    <<"OPEN", "ANSWER_FAIL", "CLOSED">>,
    <<"OPEN", "SEND_STR", "DISCON">>,
    <<"OPEN", "ABORT", "DISCON">>,
    <<"OPEN", "TIMEOUT", "CLOSED">>,
    <<"DISCON", "RECV_STA", "CLOSED">>,
    <<"DISCON", "TIMEOUT", "CLOSED">> >>

server_table == <<
    <<"IDLE", "RECV_REQUEST", "PENDING">>,
    <<"PENDING", "ANSWER_OK", "OPEN">>,
    <<"PENDING", "ANSWER_FAIL", "CLOSED">>,
    <<"OPEN", "REAUTH", "OPEN">>,
    <<"OPEN", "RECV_REQUEST", "OPEN">>,
    <<"OPEN", "ANSWER_OK", "OPEN">>,
    <<"OPEN", "ANSWER_FAIL", "CLOSED">>,
    <<"OPEN", "RECV_STR", "CLOSED">>,
    <<"OPEN", "ABORT", "DISCON">>,
    <<"OPEN", "TIMEOUT", "CLOSED">>,
    <<"DISCON", "RECV_STR", "CLOSED">>,
    <<"DISCON", "TIMEOUT", "CLOSED">> >>

Machine(t) == [table |-> t, start |-> "IDLE", term |-> "CLOSED"]

Client == Machine(client_table)

(* Mutant: nothing ends an abort that is never answered. *)
Server_patient ==
    Machine(SelectSeq(server_table, LAMBDA e : e[1] # "DISCON" \/ e[2] # "TIMEOUT"))

Server == Machine(server_table)

(* msg_event: a message is its command, AUTH standing for the application's *)
(* own; an answer carries whether answer_ok holds of it.                    *)
Req(cmd) == [request |-> TRUE, cmd |-> cmd, ok |-> TRUE]
Ans(cmd, ok) == [request |-> FALSE, cmd |-> cmd, ok |-> ok]

msg_event(m, sending) ==
    CASE m.request /\ m.cmd = "ST" -> IF sending THEN "SEND_STR" ELSE "RECV_STR"
      [] m.request /\ m.cmd = "AS" -> "ABORT"
      [] m.request /\ m.cmd = "RA" -> "REAUTH"
      [] m.request /\ m.cmd = "AUTH" -> IF sending THEN "SEND_REQUEST" ELSE "RECV_REQUEST"
      [] ~m.request /\ m.cmd = "ST" -> IF sending THEN NoEvent ELSE "RECV_STA"
      [] ~m.request /\ m.cmd \in {"AS", "RA"} -> NoEvent
      [] ~m.request /\ m.cmd = "AUTH" -> IF m.ok THEN "ANSWER_OK" ELSE "ANSWER_FAIL"

(* Session::event: throws when the machine refuses. *)
Taken(m, st, ev) == ev = NoEvent \/ fsm_act(m, st, ev).rc = "OK"
Refusal(side, m, st, ev) == refused' = refused \cup (IF Taken(m, st, ev) THEN {} ELSE {<<side, st, ev>>})

Init ==
    /\ cli = Client.start /\ srv = Server.start
    /\ c2s = <<>> /\ s2c = <<>>
    /\ owed = <<>> /\ refused = {} /\ str = FALSE /\ sends = 0

-------------------------------------------------------------------------------
(* Session::send on the client: an authorization request, or the STR, also *)
(* the one that answers an abort.  What the machine refuses is not sent.   *)
client_send(cmd) ==
    LET ev == msg_event(Req(cmd), TRUE) IN
    /\ sends < MaxSends /\ sends' = sends + 1
    /\ \/ cmd = "AUTH" /\ cli \in {"IDLE", "OPEN"}
       \/ cmd = "ST" /\ cli \in {"OPEN", "DISCON"} /\ ~str
    /\ str' = (str \/ cmd = "ST")
    /\ cli' = Feed(Client, cli, ev)
    /\ Refusal("client", Client, cli, ev)
    /\ c2s' = IF Taken(Client, cli, ev) THEN Append(c2s, Req(cmd)) ELSE c2s
    /\ UNCHANGED <<srv, s2c, owed>>

(* Session::recv on the client; ASA and RAA go back without an event. *)
client_recv ==
    LET m == Head(s2c)
        ev == msg_event(m, FALSE)
    IN  /\ s2c # <<>>
        /\ s2c' = Tail(s2c)
        /\ cli' = Feed(Client, cli, ev)
        /\ Refusal("client", Client, cli, ev)
        /\ c2s' = IF m.request THEN Append(c2s, Ans(m.cmd, TRUE)) ELSE c2s
        /\ UNCHANGED <<srv, owed, str, sends>>

(* Session::recv on the server; the STR is answered at once. *)
server_recv ==
    LET m == Head(c2s)
        ev == msg_event(m, FALSE)
    IN  /\ c2s # <<>>
        /\ c2s' = Tail(c2s)
        /\ srv' = Feed(Server, srv, ev)
        /\ Refusal("server", Server, srv, ev)
        /\ s2c' = IF m.request /\ m.cmd = "ST" THEN Append(s2c, Ans("ST", TRUE)) ELSE s2c
        /\ owed' = IF m.request /\ m.cmd = "AUTH" /\ Taken(Server, srv, ev)
                   THEN Append(owed, m.cmd) ELSE owed
        /\ UNCHANGED <<cli, str, sends>>

(* Session::send on the server: the answer to a request, while it lives. *)
server_answer(ok) ==
    LET ev == msg_event(Ans("AUTH", ok), TRUE) IN
    /\ owed # <<>> /\ owed' = Tail(owed)
    /\ srv' = Feed(Server, srv, ev)
    /\ Refusal("server", Server, srv, ev)
    /\ s2c' = IF Taken(Server, srv, ev) THEN Append(s2c, Ans("AUTH", ok)) ELSE s2c
    /\ UNCHANGED <<cli, c2s, str, sends>>

(* Session::send on the server: an abort or a re-authorization. *)
server_send(cmd) ==
    LET ev == msg_event(Req(cmd), TRUE) IN
    /\ sends < MaxSends /\ sends' = sends + 1
    /\ srv = "OPEN"
    /\ srv' = Feed(Server, srv, ev)
    /\ Refusal("server", Server, srv, ev)
    /\ s2c' = Append(s2c, Req(cmd))
    /\ UNCHANGED <<cli, c2s, owed, str>>

(* The callers' timers, fed as TIMEOUT while a session waits or lives. *)
client_timeout ==
    /\ cli \in {"PENDING", "OPEN", "DISCON"}
    /\ cli' = Feed(Client, cli, "TIMEOUT")
    /\ Refusal("client", Client, cli, "TIMEOUT")
    /\ UNCHANGED <<srv, c2s, s2c, owed, str, sends>>

server_timeout ==
    /\ srv \in {"PENDING", "OPEN", "DISCON"}
    /\ srv' = Feed(Server, srv, "TIMEOUT")
    /\ Refusal("server", Server, srv, "TIMEOUT")
    /\ UNCHANGED <<cli, c2s, s2c, owed, str, sends>>

Next ==
    \/ \E cmd \in {"AUTH", "ST"} : client_send(cmd)
    \/ client_recv \/ server_recv
    \/ \E ok \in BOOLEAN : server_answer(ok)
    \/ \E cmd \in {"AS", "RA"} : server_send(cmd)
    \/ client_timeout \/ server_timeout

(* A timer the caller started expires in the end, and the server answers   *)
(* what it owes.                                                           *)
Fairness ==
    /\ WF_vars(client_timeout) /\ WF_vars(server_timeout)
    /\ WF_vars(\E ok \in BOOLEAN : server_answer(ok))

Spec == Init /\ [][Next]_vars /\ Fairness

-------------------------------------------------------------------------------
(* Service is delivered only under a grant: the client is never open while *)
(* the server has yet to decide.                                           *)
GrantedBeforeOpen ==
    cli \in {"OPEN", "DISCON"} => srv \notin {"IDLE", "PENDING"}

(* On an ordered connection the only messages a session refuses are those  *)
(* that crossed or came after a termination: a machine that has not begun  *)
(* to end knows every message its peer may legally send it, and every      *)
(* timeout except that of a server whose application has not answered.     *)
OnlyEndingRefuses ==
    \A r \in refused : r[2] \in {"DISCON", "CLOSED"} \/ r = <<"server", "PENDING", "TIMEOUT">>

(* A session that was asked for ends: no state other than IDLE is one the  *)
(* caller's timers leave it in.                                            *)
SessionsEnd == (cli # "IDLE" ~> cli = "CLOSED") /\ (srv # "IDLE" ~> srv = "CLOSED")
===============================================================================
