------------------------------ MODULE MCMachines ------------------------------
(***************************************************************************)
(* The FSM engine on a table of its own (a lock with a guarded entry, two  *)
(* wildcards and an entry that stays put), and the protocol machines built *)
(* on it: a SIP transaction pair, a Diameter session pair and an SMS       *)
(* transfer pair.  They share no state, so a behaviour runs one of them,   *)
(* chosen at first.                                                        *)
(***************************************************************************)
EXTENDS FsmEngine

CONSTANTS MaxSends, MaxOwed

LockStates == {"closed", "open", "locked", "broken"}
LockActions == {"push", "turn", "kick"}
LockConds == {"has_key"}
LockTable == <<
    <<"closed", "push", "open", Always>>,
    <<"closed", "turn", "locked", "has_key">>,
    <<"locked", "turn", "closed", "has_key">>,
    <<"open", "push", "closed", Always>>,
    <<Any, "kick", "broken", "has_key">>,
    <<"locked", Any, Current, Always>> >>

VARIABLES
    turn,
    invite, cst, sst, dc, ds, sipNet, got, sipRefused,
    cli, srv, c2s, s2c, diamOwed, diamRefused, str, sends,
    mo, mt, smsNet, smsOwed, smsRefused

Sip == INSTANCE SipPair WITH net <- sipNet, refused <- sipRefused
Diam == INSTANCE DiamSess WITH owed <- diamOwed, refused <- diamRefused
Sms == INSTANCE SmsTransfer WITH net <- smsNet, owed <- smsOwed, refused <- smsRefused

sipVars == <<invite, cst, sst, dc, ds, sipNet, got, sipRefused>>
diamVars == <<cli, srv, c2s, s2c, diamOwed, diamRefused, str, sends>>
smsVars == <<mo, mt, smsNet, smsOwed, smsRefused>>

MachinesInit ==
    /\ turn \in {"engine", "sip", "diam", "sms"}
    /\ EngineInit
    /\ Sip!Init /\ (turn # "sip" => invite)
    /\ Diam!Init
    /\ Sms!Init

EngineStep == turn = "engine" /\ EngineNext /\ UNCHANGED <<turn, sipVars, diamVars, smsVars>>
SipStep == turn = "sip" /\ Sip!Next /\ UNCHANGED <<turn, EngineVars, diamVars, smsVars>>
DiamStep == turn = "diam" /\ Diam!Next /\ UNCHANGED <<turn, EngineVars, sipVars, smsVars>>
SmsStep == turn = "sms" /\ Sms!Next /\ UNCHANGED <<turn, EngineVars, sipVars, diamVars>>

(* The fairness of each, none of which asks for anything in its initial    *)
(* state.                                                                  *)
MachinesSpec ==
    /\ MachinesInit
    /\ [][EngineStep \/ SipStep \/ DiamStep \/ SmsStep]_<<turn, EngineVars, sipVars, diamVars, smsVars>>
    /\ Sip!Fairness /\ Diam!Fairness /\ Sms!Fairness

-------------------------------------------------------------------------------
(* No side acts on an outcome its peer did not reach: both sides of a SIP  *)
(* transaction settle on one final status and the caller's dialog is       *)
(* confirmed only when the callee's was, a Diameter client is open only    *)
(* under a grant, and no short message is reported delivered that the      *)
(* receiver did not take.                                                  *)
SidesAgree ==
    Sip!OneFinal /\ Sip!DialogsAgree /\ Diam!GrantedBeforeOpen /\ Sms!NoFalseDelivery

(* A live machine refuses no event its peer or the network may bring: a    *)
(* repeated SIP message (but for an INVITE repeated past its ACK), a       *)
(* Diameter message that did not cross or follow the end of the session, a *)
(* repeated RP-DATA.                                                       *)
LegalIsAccepted ==
    Sip!RepeatsAbsorbed /\ Diam!OnlyEndingRefuses /\ Sms!RepeatsAbsorbed

(* Only a BYE ends a confirmed dialog, and no late report changes the      *)
(* outcome of a short message transfer.                                    *)
OutcomesStand == Sip!OnlyByeEnds /\ Sms!OutcomeStands

(* Every wait that has a timer ends. *)
WaitsEnd == Sip!TimersSettle /\ Diam!SessionsEnd /\ Sms!TransfersSettle
===============================================================================
