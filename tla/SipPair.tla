-------------------------------- MODULE SipPair --------------------------------
(***************************************************************************)
(* One SIP transaction end to end: a sip::Transaction client and server,   *)
(* and for an INVITE the sip::Dialog each side keeps, fed by a network     *)
(* that loses, repeats and reorders datagrams.  The two transaction users  *)
(* are the scripts that own the objects: they answer once, acknowledge     *)
(* what their machine accepted and turn armed timers into timer events.    *)
(***************************************************************************)
EXTENDS SipMachines

VARIABLES
    invite,         \* the kind of transaction: TRUE for INVITE
    cst, sst,       \* client and server transaction
    dc, ds,         \* client and server dialog
    net,            \* every datagram sent: any may arrive, any number of times
    got,            \* final statuses the client machine accepted
    refused         \* the last event a live machine had no entry for

vars == <<invite, cst, sst, dc, ds, net, got, refused>>

Client == IF invite THEN INVITE_CLIENT ELSE NON_INVITE_CLIENT
Server == IF invite THEN INVITE_SERVER ELSE NON_INVITE_SERVER
Method == IF invite THEN "INVITE" ELSE "OPTIONS"
Nothing == <<>>

Responses == {Rsp(s, Method) : s \in {100, 180, 200, 486}}
Rejection == Rsp(488, "INVITE")     \* of a later INVITE inside the dialog

Init ==
    /\ invite \in BOOLEAN
    /\ cst = Client.start /\ sst = Server.start
    /\ dc = Dialog.start /\ ds = Dialog.start
    /\ net = {} /\ got = {} /\ refused = Nothing

(* What a machine's refusal leaves behind: the facade's exception. *)
Refusal(side, r, st, ev) ==
    IF r.rc = "E_NOMATCH" THEN <<side, st, ev>> ELSE Nothing

client_send ==
    LET r == fsm_act(Client, cst, Transaction_send(Req(Method))) IN
    /\ r.rc = "OK"
    /\ cst' = r.to
    /\ net' = net \cup {Req(Method)}
    /\ UNCHANGED <<invite, sst, dc, ds, got, refused>>

(* Transaction::recv and Dialog::recv on a response.  A final one that the *)
(* INVITE machine accepted is acknowledged.                                *)
client_recv(m) ==
    LET ev == Transaction_recv(m)
        r  == fsm_act(Client, cst, ev)
    IN  /\ m \in net
        /\ cst' = r.to
        /\ dc' = Feed(Dialog, dc, dialog_event(m, dc))
        /\ refused' = Refusal("client", r, cst, ev)
        /\ LET final == r.rc = "OK" /\ m.status >= 200 IN
           /\ got' = IF final THEN got \cup {m.status} ELSE got
           /\ net' = IF final /\ invite THEN net \cup {Req("ACK")} ELSE net
        /\ UNCHANGED <<invite, sst, ds>>

server_recv(m) ==
    LET ev == Transaction_recv(m)
        r  == fsm_act(Server, sst, ev)
    IN  /\ m \in net
        /\ sst' = r.to
        /\ ds' = Feed(Dialog, ds, dialog_event(m, ds))
        /\ refused' = Refusal("server", r, sst, ev)
        /\ UNCHANGED <<invite, cst, dc, net, got>>

(* Only what the server machine accepts is put on the wire. *)
server_send(m) ==
    LET r == fsm_act(Server, sst, Transaction_send(m)) IN
    /\ r.rc = "OK"
    /\ sst' = r.to
    /\ ds' = Feed(Dialog, ds, dialog_event(m, ds))
    /\ net' = net \cup {m}
    /\ UNCHANGED <<invite, cst, dc, got, refused>>

-------------------------------------------------------------------------------
(* Inside a confirmed dialog: a BYE from either side, and a later INVITE   *)
(* that the far side turns down.                                           *)
bye(side) ==
    /\ invite
    /\ net' = net \cup {[kind |-> "req", method |-> "BYE", from |-> side]}
    /\ \/ /\ side = "client" /\ dc = "CONFIRMED"
          /\ dc' = Feed(Dialog, dc, dialog_event(Req("BYE"), dc))
          /\ UNCHANGED ds
       \/ /\ side = "server" /\ ds = "CONFIRMED"
          /\ ds' = Feed(Dialog, ds, dialog_event(Req("BYE"), ds))
          /\ UNCHANGED dc
    /\ UNCHANGED <<invite, cst, sst, got, refused>>

bye_recv(side) ==
    /\ [kind |-> "req", method |-> "BYE",
        from |-> IF side = "client" THEN "server" ELSE "client"] \in net
    /\ IF side = "client"
       THEN dc' = Feed(Dialog, dc, dialog_event(Req("BYE"), dc)) /\ UNCHANGED ds
       ELSE ds' = Feed(Dialog, ds, dialog_event(Req("BYE"), ds)) /\ UNCHANGED dc
    /\ UNCHANGED <<invite, cst, sst, net, got, refused>>

reinvite_rejected ==
    /\ dc = "CONFIRMED" /\ ds = "CONFIRMED"
    /\ ds' = Feed(Dialog, ds, dialog_event(Rejection, ds))
    /\ net' = net \cup {Rejection}
    /\ UNCHANGED <<invite, cst, sst, dc, got, refused>>

reinvite_recv ==
    /\ Rejection \in net
    /\ dc' = Feed(Dialog, dc, dialog_event(Rejection, dc))
    /\ UNCHANGED <<invite, cst, sst, ds, net, got, refused>>

(* Timers are armed for the states whose table has an entry for them. *)
client_timer(ev) ==
    LET r == fsm_act(Client, cst, ev) IN
    /\ r.rc = "OK" /\ cst' = r.to
    /\ UNCHANGED <<invite, sst, dc, ds, net, got, refused>>

server_timer(ev) ==
    LET r == fsm_act(Server, sst, ev) IN
    /\ r.rc = "OK" /\ sst' = r.to
    /\ UNCHANGED <<invite, cst, dc, ds, net, got, refused>>

Next ==
    \/ client_send
    \/ \E m \in Responses : client_recv(m) \/ server_send(m)
    \/ \E m \in {Req(Method), Req("ACK")} : server_recv(m)
    \/ \E side \in {"client", "server"} : bye(side) \/ bye_recv(side)
    \/ reinvite_rejected
    \/ reinvite_recv
    \/ \E ev \in {"TIMER_RETRANSMIT", "TIMER_TIMEOUT", "TIMER_TERMINATE",
                  "TRANSPORT_ERR"} : client_timer(ev) \/ server_timer(ev)

(* An armed timer fires in the end; nothing else is promised. *)
Fairness ==
    \A ev \in {"TIMER_TIMEOUT", "TIMER_TERMINATE"} :
        WF_vars(client_timer(ev)) /\ WF_vars(server_timer(ev))

Spec == Init /\ [][Next]_vars /\ Fairness

-------------------------------------------------------------------------------
(* The server machine lets one final answer out, so the client never acts  *)
(* on two: whatever is lost, repeated or reordered, the statuses the two   *)
(* sides settled on are the same one.                                      *)
OneFinal ==
    /\ ~ {Rsp(200, Method), Rsp(486, Method)} \subseteq net
    /\ \A s \in got : Rsp(s, Method) \in net

(* The caller's dialog is confirmed only when the callee's was, and never  *)
(* after a rejection.                                                      *)
DialogsAgree ==
    dc = "CONFIRMED" => ds \in {"CONFIRMED", "TERMINATED"} /\ 486 \notin got

(* "A confirmed dialog survives a re-INVITE failure" (dialog_event): only  *)
(* a BYE ends it, on either side.                                          *)
OnlyByeEnds ==
    [][\A side \in {"client", "server"} :
        LET was == IF side = "client" THEN dc ELSE ds
            is  == IF side = "client" THEN dc' ELSE ds'
        IN  was = "CONFIRMED" /\ is = "TERMINATED"
            => \E m \in net' : IsReq(m) /\ m.method = "BYE"]_vars

(* sip_fsm.h: a repeated request on the server side and a repeated final   *)
(* response on the client side are legal self-transitions, so a live       *)
(* machine refuses neither.  The one exception is an INVITE repeated or    *)
(* delayed past its ACK, for which CONFIRMED has no entry.                 *)
RepeatsAbsorbed ==
    refused # Nothing =>
        /\ ~ (refused[1] = "server" /\ refused[3] = "RECV_REQUEST" /\ refused[2] # "CONFIRMED")
        /\ ~ (refused[1] = "client" /\ refused[3] \in {"RECV_2XX", "RECV_3XX_6XX"})

(* Every wait that has a timer ends.  The INVITE client leaves CALLING and *)
(* COMPLETED and its server does not wait for the ACK for ever; a          *)
(* non-INVITE client that sent its request ends, answered or not, and so   *)
(* does its server once it has answered.                                   *)
TimersSettle ==
    /\ (cst \in {"CALLING", "COMPLETED"}) ~> (cst \in {"PROCEEDING", "TERMINATED"})
    /\ (sst \in {"COMPLETED", "CONFIRMED"}) ~> (sst = "TERMINATED")
    /\ (~invite /\ cst # "INIT") ~> (cst = "TERMINATED")
===============================================================================
