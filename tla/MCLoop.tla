-------------------------------- MODULE MCLoop --------------------------------
(***************************************************************************)
(* The event loop: its timers from an empty loop, its timers from every    *)
(* heap of Size timers due at 0 .. MaxDue (two are cancelled and one is    *)
(* armed, so that sifting goes through more than one level), and the hooks *)
(* and descriptors of a step; and the facade's contexts and exceptions     *)
(* above it.  A behaviour runs one of the four.                            *)
(***************************************************************************)
EXTENDS LoopTimers

CONSTANTS Size, MaxDue, Hooks, Fds, MaxCalls, Socks, MaxCtx, MaxThrows

VARIABLES
    turn,
    pre, gaps, reg, evs, stop, pc, i, ran, owed, called, calls,
    alive, heap, table, epoll, hooks, fstop, timers, ios, live, pending, txq, fpc, fevs,
    due, cb, nctx, nexc, first, raised

dispatchVars == <<pre, gaps, reg, evs, stop, pc, i, ran, owed, called, calls>>

facadeVars ==
    <<alive, heap, table, epoll, hooks, fstop, timers, ios, live, pending, txq, fpc, fevs,
      due, cb, nctx, nexc, first, raised>>

Dispatch == INSTANCE LoopDispatch
Facade == INSTANCE LoopFacade WITH stop <- fstop, pc <- fpc, evs <- fevs

ASSUME HooksAssumption == Dispatch!None \notin Hooks

AnyHeap ==
    /\ \E at \in [0 .. Size - 1 -> 0 .. MaxDue] :
          /\ \A k \in 1 .. Size - 1 : at[Parent(k)] <= at[k]
          /\ l = [heap |-> [k \in 1 .. Size |->
                               [due |-> at[k - 1], slot |-> k - 1, id |-> TMR_ID(1, k - 1)]],
                  slot |-> [k \in 1 .. Size |-> [pos |-> k - 1, gen |-> 1, next |-> NoSlot]],
                  freeslot |-> NoSlot]
    /\ issued = {TMR_ID(1, s) : s \in 0 .. Size - 1}
    /\ now = 0 /\ pass = None
    /\ last = [op |-> "none", id |-> <<0, 0>>, ok |-> TRUE]

LoopInit ==
    /\ Dispatch!Init /\ Facade!Init
    /\ \/ turn \in {"timers", "dispatch", "facade"} /\ Init
       \/ turn = "heap" /\ AnyHeap

TimersStep == turn = "timers" /\ Next /\ UNCHANGED <<turn, dispatchVars, facadeVars>>

HeapStep ==
    /\ turn = "heap"
    /\ \/ \E id \in issued : Len(l.heap) > Size - 2 /\ net_loop_cancel(id) /\ last'.ok
       \/ Cardinality(issued) <= Size /\ \E ms \in Delays : net_loop_after(ms)
    /\ UNCHANGED <<turn, dispatchVars, facadeVars>>

DispatchStep == turn = "dispatch" /\ Dispatch!Next /\ UNCHANGED <<turn, vars, facadeVars>>

FacadeStep == turn = "facade" /\ Facade!Next /\ UNCHANGED <<turn, vars, dispatchVars>>

LoopFairness ==
    /\ WF_vars(turn = "timers" /\ due_pass) /\ WF_vars(turn = "timers" /\ fire)
    /\ WF_vars(turn = "timers" /\ pass_over) /\ WF_vars(turn = "timers" /\ Tick)
    /\ WF_dispatchVars(turn = "dispatch" /\ Dispatch!Step)

LoopSpec ==
    /\ LoopInit
    /\ [][TimersStep \/ HeapStep \/ DispatchStep \/ FacadeStep]_<<turn, vars, dispatchVars, facadeVars>>
    /\ LoopFairness

-------------------------------------------------------------------------------
(* What the C loop holds of the facade is alive and its own, and the first *)
(* exception of a call is the one thrown out of it.                        *)
FacadeSound == Facade!ContextsOwned /\ Facade!FirstThrown

(* A hook registered when a step began runs in it once. *)
LoopEachHookOnce == Dispatch!EachHookOnce

(* Once nothing more is armed the heap runs empty; steps end, and a stop   *)
(* is consumed by the run it ends.                                         *)
LoopGoesOn == (turn = "timers" => TimersEnd) /\ Dispatch!StepsEnd
===============================================================================
