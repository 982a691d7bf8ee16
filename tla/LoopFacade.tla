------------------------------ MODULE LoopFacade ------------------------------
(***************************************************************************)
(* net::Loop and the loop side of net::UdpSocket                           *)
(* (bindings/cxx/src/netxx.cpp): the contexts behind the C callbacks, the  *)
(* exceptions of handlers, which must not cross the C frames of the loop,  *)
(* and the token by which sockets learn that the loop is gone.  A handler  *)
(* may call anything here before it returns or throws.                     *)
(***************************************************************************)
EXTENDS Naturals, Sequences, FiniteSets, Functions

CONSTANTS
    Fds,        \* descriptors
    Socks,      \* UdpSockets
    MaxCtx,     \* bound: contexts allocated
    MaxThrows   \* bound: exceptions thrown

Idle == [kind |-> "none", ctx |-> 0]

VARIABLES
    alive,      \* the loop has not been destroyed
    heap,       \* net_loop: the contexts of the timers armed; id = context
    table,      \* net_loop: the context of each descriptor, 0 when none
    epoll,      \* descriptors the kernel watches
    hooks,      \* net_loop: queues that have a pre-poll hook
    stop,       \* net_loop: to stop
    timers,     \* Impl::timers
    ios,        \* Impl::ios, 0 when there is none
    live,       \* contexts allocated and not freed
    pending,    \* Impl::pending, 0 when none
    txq,        \* UdpSocket::txq_: "none", "empty" or "queued"
    pc, evs,    \* "out", or in "run" or "step"; events of the poll still to go
    due,        \* the timers have their turn, before the events
    cb,         \* the callback running
    nctx, nexc, \* contexts allocated, exceptions thrown
    first,      \* history: the first exception since step() or run() began
    raised      \* history: what the last step() or run() threw

held == <<heap, table, epoll, timers, ios, live, nctx>>
call == <<pc, evs, due, cb, first, raised>>
vars == <<alive, held, hooks, stop, pending, txq, call, nexc>>

Init ==
    /\ alive = TRUE /\ heap = {} /\ table = [fd \in Fds |-> 0] /\ epoll = {}
    /\ hooks = {} /\ stop = FALSE /\ timers = {} /\ ios = [fd \in Fds |-> 0] /\ live = {}
    /\ pending = 0 /\ txq = [s \in Socks |-> "none"]
    /\ pc = "out" /\ evs = <<>> /\ due = FALSE /\ cb = Idle /\ nctx = 0 /\ nexc = 0 /\ first = 0 /\ raised = 0

(* Code runs outside step() and run(), or in a callback. *)
Running == pc = "out" \/ cb # Idle

New == nctx + 1
-------------------------------------------------------------------------------
(* The calls of a script.  One that throws for an argument changes nothing. *)

after ==
    /\ Running /\ alive /\ nctx < MaxCtx
    /\ nctx' = New /\ live' = live \cup {New}
    /\ heap' = heap \cup {New} /\ timers' = timers \cup {New}
    /\ UNCHANGED <<alive, table, epoll, ios, hooks, stop, pending, txq, call, nexc>>

(* Of a timer that is armed, has fired or was cancelled before. *)
cancel(id) ==
    /\ Running /\ alive
    /\ heap' = heap \ {id} /\ timers' = timers \ {id}
    /\ live' = IF id \in timers THEN live \ {id} ELSE live
    /\ UNCHANGED <<alive, table, epoll, ios, nctx, hooks, stop, pending, txq, call, nexc>>

(* Mutant: the context is kept although the loop took no descriptor. *)
add_fd_kept(fd) ==
    /\ Running /\ alive /\ nctx < MaxCtx
    /\ nctx' = New
    /\ table' = IF fd \in epoll THEN table ELSE [table EXCEPT ![fd] = New]
    /\ epoll' = epoll \cup {fd}
    /\ ios' = [ios EXCEPT ![fd] = New]
    /\ live' = (live \ {ios[fd]}) \cup {New}
    /\ UNCHANGED <<alive, heap, timers, hooks, stop, pending, txq, call, nexc>>

(* The kernel refuses a descriptor it watches, and add_fd throws; else the *)
(* new context takes the place of one left by a descriptor closed without  *)
(* del_fd.                                                                 *)
add_fd(fd) ==
    /\ Running /\ alive /\ nctx < MaxCtx
    /\ nctx' = New
    /\ IF fd \in epoll THEN UNCHANGED <<table, epoll, ios, live>>
       ELSE /\ table' = [table EXCEPT ![fd] = New] /\ epoll' = epoll \cup {fd}
            /\ ios' = [ios EXCEPT ![fd] = New]
            /\ live' = (live \ {ios[fd]}) \cup {New}
    /\ UNCHANGED <<alive, heap, timers, hooks, stop, pending, txq, call, nexc>>

del_fd(fd) ==
    /\ Running /\ alive
    /\ table' = [table EXCEPT ![fd] = 0]
    /\ epoll' = IF table[fd] # 0 THEN epoll \ {fd} ELSE epoll
    /\ ios' = [ios EXCEPT ![fd] = 0] /\ live' = live \ {ios[fd]}
    /\ UNCHANGED <<alive, heap, timers, nctx, hooks, stop, pending, txq, call, nexc>>

(* The owner of a descriptor closes it; the kernel forgets it. *)
closed(fd) ==
    /\ Running /\ fd \in epoll
    /\ epoll' = epoll \ {fd}
    /\ UNCHANGED <<alive, heap, table, timers, ios, live, nctx, hooks, stop, pending, txq, call, nexc>>

stop_ ==
    /\ Running /\ alive /\ stop' = TRUE
    /\ UNCHANGED <<alive, held, hooks, pending, txq, call, nexc>>

tx_loop(s) ==
    /\ Running /\ alive /\ txq[s] = "none"
    /\ txq' = [txq EXCEPT ![s] = "empty"]
    /\ UNCHANGED <<alive, held, hooks, stop, pending, call, nexc>>

(* sendto and send: the first datagram queued registers the hook. *)
send(s) ==
    /\ Running /\ alive /\ txq[s] = "empty"
    /\ txq' = [txq EXCEPT ![s] = "queued"] /\ hooks' = hooks \cup {s}
    /\ UNCHANGED <<alive, held, stop, pending, call, nexc>>

(* UdpSocket::close: with the loop gone the queue is detached and freed;   *)
(* else it is flushed, freed and its hook, retry and interest dropped.     *)
close(s) ==
    /\ Running /\ txq[s] # "none"
    /\ txq' = [txq EXCEPT ![s] = "none"]
    /\ hooks' = IF alive THEN hooks \ {s} ELSE hooks
    /\ UNCHANGED <<alive, held, stop, pending, call, nexc>>

(* ~Loop, in whatever order a garbage collector takes its dependents. *)
destroy ==
    /\ alive /\ pc = "out"
    /\ alive' = FALSE
    /\ heap' = {} /\ table' = [fd \in Fds |-> 0] /\ epoll' = {} /\ hooks' = {}
    /\ timers' = {} /\ ios' = [fd \in Fds |-> 0] /\ live' = {}
    /\ UNCHANGED <<nctx, stop, pending, txq, call, nexc>>

-------------------------------------------------------------------------------
(* step() and run(): the loop, and the trampolines under it.               *)

enter(how) ==
    /\ alive /\ pc = "out" /\ pc' = how /\ first' = 0
    /\ UNCHANGED <<alive, held, hooks, stop, pending, txq, evs, due, cb, nexc, raised>>

(* The hooks flush what they can, then the poll.  run() polls unless it is *)
(* to stop, step() whatever stop says.                                     *)
poll ==
    /\ pc = "step" \/ (pc = "run" /\ ~stop)
    /\ pc' = IF pc = "run" THEN "running" ELSE "stepping"
    /\ \E sent \in SUBSET hooks :
          /\ hooks' = hooks \ sent
          /\ txq' = [s \in Socks |-> IF s \in sent THEN "empty" ELSE txq[s]]
    /\ \E ready \in SUBSET epoll : evs' \in Bijection(1 .. Cardinality(ready), ready)
    /\ due' = TRUE
    /\ UNCHANGED <<alive, held, stop, pending, cb, nexc, first, raised>>

(* timer_tramp: the context dies before the handler is called. *)
timer_tramp(id) ==
    /\ pc \in {"running", "stepping"} /\ cb = Idle /\ due /\ id \in heap
    /\ heap' = heap \ {id} /\ timers' = timers \ {id} /\ live' = live \ {id}
    /\ cb' = [kind |-> "timer", ctx |-> id]
    /\ UNCHANGED <<alive, table, epoll, ios, nctx, hooks, stop, pending, txq, pc, evs, due, nexc, first, raised>>

(* io_tramp, for the context that is in the table by now. *)
io_tramp ==
    /\ pc \in {"running", "stepping"} /\ cb = Idle /\ evs # <<>>
    /\ evs' = Tail(evs) /\ due' = FALSE
    /\ cb' = IF table[Head(evs)] = 0 THEN Idle ELSE [kind |-> "io", ctx |-> table[Head(evs)]]
    /\ UNCHANGED <<alive, held, hooks, stop, pending, txq, pc, nexc, first, raised>>

returns ==
    /\ cb # Idle /\ cb' = Idle
    /\ UNCHANGED <<alive, held, hooks, stop, pending, txq, pc, evs, due, nexc, first, raised>>

(* Mutant: the last exception of an iteration replaces the first. *)
defer_exception_last(e) == pending' = e /\ stop' = TRUE

(* The first is kept, and the loop told to stop. *)
defer_exception(e) ==
    /\ pending' = IF pending = 0 THEN e ELSE pending
    /\ stop' = TRUE

(* io_tramp reads its context again to defer: a handler that has dropped   *)
(* or replaced its own descriptor, which frees the context, must not throw.*)
throws ==
    /\ cb # Idle /\ cb' = Idle /\ nexc < MaxThrows
    /\ cb.kind = "io" => cb.ctx \in live
    /\ nexc' = nexc + 1 /\ defer_exception(nexc + 1)
    /\ first' = IF first = 0 THEN nexc + 1 ELSE first
    /\ UNCHANGED <<alive, held, hooks, txq, pc, evs, due, raised>>

iterated ==
    /\ pc = "running" /\ cb = Idle /\ evs = <<>>
    /\ pc' = "run" /\ due' = FALSE
    /\ UNCHANGED <<alive, held, hooks, stop, pending, txq, evs, cb, nexc, first, raised>>

(* rethrow_pending, after net_loop_run has taken the stop or after one     *)
(* net_loop_step, which leaves it.                                         *)
leave ==
    /\ \/ pc = "run" /\ stop /\ stop' = FALSE
       \/ pc = "stepping" /\ cb = Idle /\ evs = <<>> /\ UNCHANGED stop
    /\ due' = FALSE
    /\ pc' = "out" /\ raised' = pending /\ pending' = 0
    /\ UNCHANGED <<alive, held, hooks, txq, evs, cb, nexc, first>>

Next ==
    \/ after \/ (\E id \in 1 .. nctx : cancel(id))
    \/ \E fd \in Fds : add_fd(fd) \/ del_fd(fd) \/ closed(fd)
    \/ stop_ \/ destroy
    \/ \E s \in Socks : tx_loop(s) \/ send(s) \/ close(s)
    \/ (\E how \in {"run", "step"} : enter(how)) \/ poll
    \/ (\E id \in heap : timer_tramp(id)) \/ io_tramp
    \/ returns \/ throws \/ iterated \/ leave

Spec == Init /\ [][Next]_vars

-------------------------------------------------------------------------------
(* What the C loop holds of the C++ side is exactly what the C++ side      *)
(* keeps: an armed timer's and a registered descriptor's context is alive  *)
(* and its own, a context nothing can call any more has been freed, and a  *)
(* hook's queue exists (after, cancel, add_fd, del_fd, timer_tramp,        *)
(* UdpSocket::close, ~Loop).                                               *)
ContextsOwned ==
    /\ heap = timers /\ table = ios
    /\ live = timers \cup ({ios[fd] : fd \in Fds} \ {0})
    /\ \A s \in hooks : txq[s] = "queued"

(* A handler's exception reaches the caller of step() or run() once: the   *)
(* first thrown in the call is the one thrown out of it, and none is left  *)
(* for a later call (defer_exception, rethrow_pending).                    *)
FirstThrown == pc = "out" => pending = 0 /\ raised = first
===============================================================================
