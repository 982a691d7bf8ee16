---------------------------------- MODULE MCIo ----------------------------------
(***************************************************************************)
(* What sends and receives: the transmit queue, the resolver and the       *)
(* stream sockets.  They share no state; a behaviour runs one of them,     *)
(* chosen at first.                                                        *)
(***************************************************************************)
EXTENDS Txq, Dns, Stream

VARIABLE turn

IoInit ==
    /\ turn \in {"txq", "dns", "stream"} /\ Init /\ DnsInit /\ StreamInit
    /\ turn # "dns" => seq = 0 /\ tries = 1
    /\ turn # "txq" => interest = "none"

TxqStep == turn = "txq" /\ Next /\ UNCHANGED <<turn, dnsVars, streamVars>>
DnsStep == turn = "dns" /\ DnsNext /\ UNCHANGED <<turn, vars, streamVars>>
StreamStep == turn = "stream" /\ StreamNext /\ UNCHANGED <<turn, vars, dnsVars>>

(* As in each component; in the other's turn the loop does not begin. *)
IoFairness ==
    /\ WF_vars(Flush) /\ WF_vars(turn = "txq" /\ loop_hooks) /\ WF_vars(wake_writable)
    /\ WF_vars(retry_tramp) /\ WF_vars(kernel_drains)
    /\ DnsFairness
    /\ StreamFairness

IoSpec ==
    /\ IoInit
    /\ [][TxqStep \/ DnsStep \/ StreamStep]_<<turn, vars, dnsVars, streamVars>>
    /\ IoFairness

-------------------------------------------------------------------------------
(* A backlog leaves, every query ends and every call that waits returns. *)
IoDrains == BacklogDrains /\ QueriesEnd /\ CallsReturn
===============================================================================
