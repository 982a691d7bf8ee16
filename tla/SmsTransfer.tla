------------------------------ MODULE SmsTransfer ------------------------------
(***************************************************************************)
(* The two short message transfer machines of sms/src/sms_fsm.c, a         *)
(* submitting side and a delivering side that report to each other: the    *)
(* RP-DATA may be repeated, delayed or lost on the way, and so may the     *)
(* report.  Timers and aborts come from the callers.                       *)
(***************************************************************************)
EXTENDS Fsm, FiniteSets

CONSTANT MaxOwed        \* bound: RP-DATA taken and not yet answered

VARIABLES
    mo, mt,     \* the machines
    net,        \* RP messages sent, each deliverable any number of times
    owed,       \* RP-DATA the receiver took and has not answered
    refused     \* <<machine, state, event>> returned FSM_E_NOMATCH so far

vars == <<mo, mt, net, owed, refused>>

mo_table == <<
    <<"IDLE", "SEND_DATA", "WAIT_ACK">>,
    <<"WAIT_ACK", "RECV_ACK", "DELIVERED">>,
    <<"WAIT_ACK", "RECV_ERROR", "FAILED">>,
    <<"WAIT_ACK", "TIMER", "FAILED">>,
    <<Any, "ABORT", "ABORTED">> >>

mt_table == <<
    <<"IDLE", "RECV_DATA", "WAIT_ACK">>,
    <<"IDLE", "SEND_DATA", "WAIT_ACK">>,
    <<"WAIT_ACK", "RECV_DATA", "WAIT_ACK">>,
    <<"WAIT_ACK", "SEND_ACK", "DELIVERED">>,
    <<"WAIT_ACK", "RECV_ACK", "DELIVERED">>,
    <<"WAIT_ACK", "SEND_ERROR", "FAILED">>,
    <<"WAIT_ACK", "RECV_ERROR", "FAILED">>,
    <<"WAIT_ACK", "TIMER", "FAILED">>,
    <<Any, "ABORT", "ABORTED">> >>

Trans(t) == [table |-> t, start |-> "IDLE", term |-> "ABORTED"]

MO == Trans(mo_table)

MT == Trans(mt_table)

Init ==
    /\ mo = MO.start /\ mt = MT.start
    /\ net = {} /\ owed = 0 /\ refused = {}

Refusal(who, m, st, ev) ==
    refused' = refused \cup
        (IF fsm_act(m, st, ev).rc = "E_NOMATCH" THEN {<<who, st, ev>>} ELSE {})

SubmitterActs(ev) ==
    /\ mo' = fsm_act(MO, mo, ev).to
    /\ Refusal("mo", MO, mo, ev)
    /\ UNCHANGED mt

ReceiverActs(ev) ==
    /\ mt' = fsm_act(MT, mt, ev).to
    /\ Refusal("mt", MT, mt, ev)
    /\ UNCHANGED mo

submit ==
    /\ mo = "IDLE"
    /\ SubmitterActs("SEND_DATA")
    /\ net' = net \cup {"DATA"}
    /\ UNCHANGED owed

(* A report arrives, perhaps late or again; the caller feeds it as it comes. *)
report(rp) ==
    /\ rp \in net
    /\ SubmitterActs(IF rp = "ACK" THEN "RECV_ACK" ELSE "RECV_ERROR")
    /\ UNCHANGED <<net, owed>>

tr1m ==
    /\ mo = "WAIT_ACK"
    /\ SubmitterActs("TIMER")
    /\ UNCHANGED <<net, owed>>

deliver ==
    /\ "DATA" \in net /\ owed < MaxOwed
    /\ ReceiverActs("RECV_DATA")
    /\ owed' = IF fsm_act(MT, mt, "RECV_DATA").rc = "OK" THEN owed + 1 ELSE owed
    /\ UNCHANGED net

(* The receiver answers each RP-DATA it took; the answer goes out when its *)
(* machine allows the move.                                                *)
answer(rp) ==
    LET ev == IF rp = "ACK" THEN "SEND_ACK" ELSE "SEND_ERROR" IN
    /\ owed > 0
    /\ ReceiverActs(ev)
    /\ net' = IF fsm_act(MT, mt, ev).rc = "OK" THEN net \cup {rp} ELSE net
    /\ owed' = owed - 1

tr2m ==
    /\ mt = "WAIT_ACK"
    /\ ReceiverActs("TIMER")
    /\ UNCHANGED <<net, owed>>

abort(who) ==
    /\ IF who = "mo" THEN SubmitterActs("ABORT") ELSE ReceiverActs("ABORT")
    /\ UNCHANGED <<net, owed>>

Next ==
    \/ submit \/ tr1m \/ deliver \/ tr2m
    \/ \E rp \in {"ACK", "ERROR"} : report(rp) \/ answer(rp)
    \/ \E who \in {"mo", "mt"} : abort(who)

(* The timers the caller runs expire. *)
Fairness == WF_vars(tr1m) /\ WF_vars(tr2m)

Spec == Init /\ [][Next]_vars /\ Fairness

-------------------------------------------------------------------------------
(* The submitter reports a delivery only of a message the receiver took:   *)
(* no report of a transfer that failed at the far end turns into one.      *)
NoFalseDelivery == mo = "DELIVERED" => mt \in {"DELIVERED", "ABORTED"}

(* An outcome stands: a report after TR1M, or a second one, moves nothing. *)
OutcomeStands ==
    [][(mo \in {"DELIVERED", "FAILED"}) => (mo' \in {mo, "ABORTED"})]_vars

(* A repeated RP-DATA is absorbed while the receiver decides. *)
RepeatsAbsorbed == <<"mt", "WAIT_ACK", "RECV_DATA">> \notin refused

(* Neither side waits for ever. *)
TransfersSettle ==
    (mo = "WAIT_ACK" ~> mo # "WAIT_ACK") /\ (mt = "WAIT_ACK" ~> mt # "WAIT_ACK")
===============================================================================
