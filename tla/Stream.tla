--------------------------------- MODULE Stream ---------------------------------
(***************************************************************************)
(* The stream sockets of net/src/sock.c with their owners in               *)
(* bindings/cxx/src/netxx.cpp: dialling, listening, accepting, redialling  *)
(* and closing, and the calls that emulate blocking with poll() up to a    *)
(* timeout; and the same loops of net/src/tls.c.  The process has one      *)
(* thread: while a call waits only the kernel, the peer and the clock      *)
(* move.  A descriptor is the lowest free number, so one that was closed   *)
(* is soon another's.                                                      *)
(***************************************************************************)
EXTENDS Integers, Sequences, FiniteSets

CONSTANTS
    Socks,      \* the objects that own a net_sock
    Fds,        \* descriptor numbers
    StreamLens, \* lengths of the messages sent
    Room,       \* octets the kernel takes before the peer reads
    Patience,   \* timeout_ms >= 0, in ticks of the clock
    MaxFiles,   \* bound: sockets the kernel ever makes
    MaxCalls    \* bound: calls that wait

ASSUME StreamAssumption == Fds \in SUBSET Nat

NoFd == -1
Poll == -1              \* timeout_ms < 0
NET_OK == 0
NET_ERR == -1
NET_TIMEOUT == -2
NET_WANT == -3          \* NET_WANT_RD, NET_WANT_WR

VARIABLES
    file,       \* the descriptor table: the kernel's socket, 0 for none
    link,       \* the kernel's sockets, in the order they were made
    sock,       \* [open, fd, id]: open_, s_.fd and the socket it was given for
    tls,        \* sessions: [up, fd], fd copied from the socket
    call,       \* the call under way
    rets,       \* what the k-th waiting call returned, when it sent a message
    msgs        \* octets of the k-th call's message, 0 for the other calls

streamVars == <<file, link, sock, tls, call, rets, msgs>>

Idle == [op |-> "none", o |-> "none", fd |-> NoFd, left |-> 0, off |-> 0, tls |-> FALSE]
NoSock == [open |-> FALSE, fd |-> NoFd, id |-> 0]
NoTls == [open |-> FALSE, up |-> FALSE, fd |-> NoFd]

StreamInit ==
    /\ file = [fd \in Fds |-> 0] /\ link = <<>>
    /\ sock = [o \in Socks |-> NoSock] /\ tls = [o \in Socks |-> NoTls]
    /\ call = Idle /\ rets = <<>> /\ msgs = <<>>

-------------------------------------------------------------------------------
(* sock_new: a descriptor for a new socket of the kernel. *)
CanOpen == Len(link) < MaxFiles /\ \E fd \in Fds : file[fd] = 0
LowestFree(f) == CHOOSE fd \in Fds : f[fd] = 0 /\ \A x \in Fds : f[x] = 0 => fd <= x
sock_new(f) ==
    LET fd == LowestFree(f) IN
    [file |-> [f EXCEPT ![fd] = Len(link) + 1], fd |-> fd]

net_sock_close(s) ==
    [file |-> [fd \in Fds |-> IF fd = s.fd THEN 0 ELSE s.file[fd]], fd |-> NoFd]

(* stream_conn, r being what connect() and the wait for it came to: a      *)
(* failure or a timeout closes the descriptor (fail); a connect under way  *)
(* with timeout_ms < 0 leaves it.                                          *)
stream_conn(f, r) ==
    IF r \in {NET_OK, NET_WANT} THEN sock_new(f) ELSE net_sock_close(sock_new(f))

(* stream_bind: without a socket, an address or a backlog, no descriptor. *)
stream_bind(f, r) == IF r = NET_OK THEN sock_new(f) ELSE net_sock_close(sock_new(f))

Fresh(st) == [st |-> st, room |-> Room, put |-> <<>>, in |-> 0, flights |-> 0, want |-> "wr"]
Made(st) == link' = Append(link, Fresh(st))
Held(o, s) == [sock EXCEPT ![o] = [open |-> TRUE, fd |-> s.fd, id |-> Len(link) + 1]]

(* Mutant: what stream_conn left is not closed. *)
stream_connect_leak(o, r) ==
    LET s == stream_conn(file, r) IN
    /\ call = Idle /\ ~sock[o].open /\ CanOpen
    /\ file' = s.file
    /\ sock' = IF r = NET_OK THEN Held(o, s) ELSE sock
    /\ Made(IF r = NET_OK THEN "up" ELSE "gone")
    /\ UNCHANGED <<tls, call, rets, msgs>>

(* stream_connect: only NET_OK yields a StreamConn; whatever else          *)
(* stream_conn left is closed.                                             *)
stream_connect(o, r) ==
    LET s == stream_conn(file, r)
        kept == IF r = NET_OK THEN s ELSE net_sock_close(s) IN
    /\ call = Idle /\ ~sock[o].open /\ CanOpen
    /\ file' = kept.file
    /\ sock' = IF r = NET_OK THEN Held(o, s) ELSE sock
    /\ Made(IF r = NET_OK THEN "up" ELSE "gone")
    /\ UNCHANGED <<tls, call, rets, msgs>>

(* StreamListener: a constructor that throws leaves no object. *)
StreamListener(o, r) ==
    LET s == stream_bind(file, r) IN
    /\ call = Idle /\ ~sock[o].open /\ CanOpen
    /\ file' = s.file
    /\ sock' = IF r = NET_OK THEN Held(o, s) ELSE sock
    /\ Made(IF r = NET_OK THEN "listen" ELSE "gone")
    /\ UNCHANGED <<tls, call, rets, msgs>>

(* net_sock_reconn by a socket's owner, who frees the session first: the   *)
(* old connection goes, and whatever stream_conn leaves is the owner's;    *)
(* net_sock_done later decides a connect under way.                        *)
net_sock_reconn(o, r) ==
    LET s == stream_conn(net_sock_close([file |-> file, fd |-> sock[o].fd]).file, r) IN
    /\ call = Idle /\ sock[o].open /\ ~tls[o].open /\ sock[o].fd # NoFd
    /\ link[sock[o].id].st # "listen" /\ Len(link) < MaxFiles
    /\ file' = s.file
    /\ sock' = Held(o, s)
    /\ Made(CASE r = NET_OK -> "up" [] r = NET_WANT -> "dialing" [] OTHER -> "gone")
    /\ UNCHANGED <<tls, call, rets, msgs>>

(* StreamConn::close, StreamListener::close and their destructors. *)
close(o) ==
    /\ call = Idle /\ ~tls[o].open /\ sock[o].open
    /\ file' = net_sock_close([file |-> file, fd |-> sock[o].fd]).file
    /\ sock' = [sock EXCEPT ![o] = NoSock]
    /\ UNCHANGED <<link, tls, call, rets, msgs>>

(* A session sits on a connected socket and never owns its descriptor. *)
net_tls_new(o) ==
    /\ call = Idle /\ sock[o].open /\ ~tls[o].open
    /\ sock[o].fd # NoFd /\ link[sock[o].id].st = "up"
    /\ tls' = [tls EXCEPT ![o] = [open |-> TRUE, up |-> FALSE, fd |-> sock[o].fd]]
    /\ UNCHANGED <<file, link, sock, call, rets, msgs>>

net_tls_free(o) ==
    /\ call = Idle /\ tls[o].open
    /\ tls' = [tls EXCEPT ![o] = NoTls]
    /\ UNCHANGED <<file, link, sock, call, rets, msgs>>

-------------------------------------------------------------------------------
(* Calls that wait.  Each runs its loop on the descriptor it was given;    *)
(* due is counted down by the clock, and timeout_ms < 0 never waits.       *)
Begin(op, o, over, t, n) ==
    /\ call = Idle /\ Len(msgs) < MaxCalls
    /\ call' = [op |-> op, o |-> o, fd |-> IF over THEN tls[o].fd ELSE sock[o].fd,
                left |-> IF t = Poll THEN 0 ELSE t, off |-> 0, tls |-> over]
    /\ msgs' = Append(msgs, n)
    /\ UNCHANGED <<file, link, sock, tls, rets>>

begin_call(o, t) ==
    LET st == link[sock[o].id].st IN
    /\ sock[o].open /\ sock[o].fd # NoFd
    /\ \/ st = "listen" /\ (\E c \in Socks : ~sock[c].open) /\ Begin("accept", o, FALSE, t, 0)
       \/ st = "dialing" /\ Begin("done", o, FALSE, t, 0)
       \/ /\ st \notin {"listen", "dialing"} /\ ~tls[o].open
          /\ (Begin("recv", o, FALSE, t, 0) \/ \E n \in StreamLens : Begin("send", o, FALSE, t, n))
       \/ tls[o].open /\ ~tls[o].up /\ Begin("shake", o, TRUE, t, 0)
       \/ tls[o].up /\ (Begin("recv", o, TRUE, t, 0) \/ \E n \in StreamLens : Begin("send", o, TRUE, t, n))

Here == file[call.fd]
On(op) == call.op = op
Message == msgs[Len(msgs)]
Lesser(a, b) == IF a < b THEN a ELSE b

Return(r) ==
    /\ call' = Idle /\ UNCHANGED msgs
    /\ rets' = Append(rets, IF On("send") THEN r ELSE NET_OK)

(* The loop of net_sock_send, and of net_tls_send, where a write may have  *)
(* to wait for something to read first.                                    *)
Octets(from, to) == [i \in 1 .. to - from |-> <<Len(msgs), from + i>>]
Writable == link[Here].room > 0 /\ (call.tls => link[Here].want # "rd")

send_some ==
    LET l == link[Here] IN
    /\ On("send") /\ call.off < Message /\ l.st # "gone" /\ Writable
    /\ \E n \in 1 .. Lesser(l.room, Message - call.off) :
        /\ link' = [link EXCEPT ![Here].room = @ - n,
                               ![Here].put = @ \o Octets(call.off, call.off + n)]
        /\ call' = [call EXCEPT !.off = @ + n]
    /\ UNCHANGED <<file, sock, tls, rets, msgs>>

(* Mutant: a timeout is reported as one, whatever already went out. *)
send_end_timeout ==
    LET l == link[Here] IN
    /\ On("send")
    /\ \/ call.off = Message /\ Return(call.off)
       \/ call.off < Message /\ l.st = "gone" /\ Return(NET_ERR)
       \/ call.off < Message /\ l.st # "gone" /\ ~Writable /\ call.left = 0 /\ Return(NET_TIMEOUT)
    /\ UNCHANGED <<file, link, sock, tls>>

send_end ==
    LET l == link[Here] IN
    /\ On("send")
    /\ \/ call.off = Message /\ Return(call.off)
       \/ call.off < Message /\ l.st = "gone" /\ Return(NET_ERR)
       \/ /\ call.off < Message /\ l.st # "gone" /\ ~Writable /\ call.left = 0
          /\ Return(IF call.off > 0 THEN call.off ELSE NET_TIMEOUT)
    /\ UNCHANGED <<file, link, sock, tls>>

(* net_sock_recv and net_tls_recv: octets, 0 at an orderly end, an error   *)
(* or a timeout.                                                           *)
recv_end ==
    LET l == link[Here] IN
    /\ On("recv")
    /\ \/ \E n \in 1 .. l.in : link' = [link EXCEPT ![Here].in = @ - n] /\ Return(n)
       \/ l.in = 0 /\ l.st = "fin" /\ Return(0) /\ UNCHANGED link
       \/ l.in = 0 /\ l.st = "gone" /\ Return(NET_ERR) /\ UNCHANGED link
       \/ l.in = 0 /\ l.st = "up" /\ call.left = 0 /\ Return(NET_TIMEOUT) /\ UNCHANGED link
    /\ UNCHANGED <<file, sock, tls>>

(* net_sock_done: the connect under way is decided, or not yet. *)
done_end ==
    /\ On("done")
    /\ \/ link[Here].st \in {"up", "fin"} /\ Return(NET_OK)
       \/ link[Here].st = "gone" /\ Return(NET_ERR)
       \/ link[Here].st = "dialing" /\ call.left = 0 /\ Return(NET_TIMEOUT)
    /\ UNCHANGED <<file, link, sock, tls>>

(* net_tls_shake: up once the peer's flight is in; timeout_ms < 0 says     *)
(* what it wants.                                                          *)
shake_end ==
    LET l == link[Here] IN
    /\ On("shake")
    /\ \/ /\ l.flights > 0
          /\ link' = [link EXCEPT ![Here].flights = @ - 1]
          /\ tls' = [tls EXCEPT ![call.o].up = TRUE] /\ Return(NET_OK)
       \/ l.flights = 0 /\ l.st # "up" /\ Return(NET_ERR) /\ UNCHANGED <<link, tls>>
       \/ /\ l.flights = 0 /\ l.st = "up" /\ call.left = 0
          /\ Return(NET_TIMEOUT) /\ UNCHANGED <<link, tls>>
    /\ UNCHANGED <<file, sock>>

(* A write that waits for the peer goes on once its flight is in. *)
rekey ==
    /\ On("send") /\ call.tls /\ link[Here].want = "rd" /\ link[Here].flights > 0
    /\ link' = [link EXCEPT ![Here].want = "rekeyed", ![Here].flights = @ - 1]
    /\ UNCHANGED <<file, sock, tls, call, rets, msgs>>

(* StreamListener::accept: a connection becomes a new StreamConn's, or     *)
(* there is no descriptor for it.                                          *)
accept_end(o) ==
    /\ On("accept")
    /\ \/ /\ link[Here].in > 0 /\ CanOpen /\ ~sock[o].open
          /\ file' = sock_new(file).file /\ sock' = Held(o, sock_new(file))
          /\ link' = Append([link EXCEPT ![Here].in = @ - 1], Fresh("up"))
          /\ Return(NET_OK)
       \/ link[Here].in > 0 /\ ~CanOpen /\ Return(NET_ERR) /\ UNCHANGED <<file, link, sock>>
       \/ link[Here].in = 0 /\ call.left = 0 /\ Return(NET_TIMEOUT) /\ UNCHANGED <<file, link, sock>>
    /\ UNCHANGED tls

-------------------------------------------------------------------------------
(* The clock, and the other end of the socket a call is about: what        *)
(* happens to it between calls is seen by the next one.  A peer asks for a *)
(* new key at most once.                                                   *)
tick ==
    /\ call.left > 0 /\ call' = [call EXCEPT !.left = @ - 1]
    /\ UNCHANGED <<file, link, sock, tls, rets, msgs>>

Moves(l) ==
    CASE l.st = "up" ->
            {[l EXCEPT !.st = "gone"], [l EXCEPT !.st = "fin"]}
            \cup (IF l.room = 0 THEN {[l EXCEPT !.room = Room]} ELSE {})
            \cup (IF On("recv") THEN {[l EXCEPT !.in = 1]} ELSE {})
            \cup (IF call.tls THEN {[l EXCEPT !.flights = 1]} ELSE {})
            \cup (IF call.tls /\ l.want = "wr" THEN {[l EXCEPT !.want = "rd"]} ELSE {})
      [] l.st = "fin" -> {[l EXCEPT !.st = "gone"]}
      [] l.st = "listen" -> {[l EXCEPT !.in = 1]}
      [] l.st = "dialing" -> {[l EXCEPT !.st = "up"], [l EXCEPT !.st = "gone"]}
      [] OTHER -> {}

other_end ==
    /\ call # Idle
    /\ \E l \in Moves(link[Here]) \ {link[Here]} : link' = [link EXCEPT ![Here] = l]
    /\ UNCHANGED <<file, sock, tls, call, rets, msgs>>

Returns ==
    \/ send_end \/ send_some \/ rekey \/ recv_end \/ done_end \/ shake_end
    \/ \E o \in Socks : accept_end(o)

StreamNext ==
    \/ \E o \in Socks :
        \/ \E r \in {NET_OK, NET_ERR, NET_TIMEOUT, NET_WANT} : stream_connect(o, r) \/ net_sock_reconn(o, r)
        \/ \E r \in {NET_OK, NET_ERR} : StreamListener(o, r)
        \/ \E t \in {Poll, Patience} : begin_call(o, t)
        \/ close(o) \/ net_tls_new(o) \/ net_tls_free(o)
    \/ Returns \/ tick \/ other_end

(* A call's own steps and the clock go on; the peer need never move. *)
StreamFairness == WF_streamVars(Returns) /\ WF_streamVars(tick)

StreamSpec == StreamInit /\ [][StreamNext]_streamVars /\ StreamFairness

-------------------------------------------------------------------------------
(* netxx.cpp: "nothing but NET_OK may keep a descriptor".  Every open      *)
(* descriptor is the one an open object was given, and no object holds     *)
(* the number of a socket that is not its own, nor a session one that has  *)
(* left its socket: after failed dials, redials and closes in any order.   *)
StreamsOwned ==
    call = Idle =>
        /\ \A fd \in Fds : file[fd] # 0 =>
            \E p \in Socks : {o \in Socks : sock[o].open /\ sock[o].fd = fd} = {p}
        /\ \A o \in Socks : sock[o].open /\ sock[o].fd # NoFd => file[sock[o].fd] = sock[o].id
        /\ \A o \in Socks : tls[o].open => tls[o].fd = sock[o].fd

(* What net_sock_send and net_tls_send return is what the connection was   *)
(* given: the whole message, its first octets when short, none of it on    *)
(* NET_TIMEOUT (so that it may be sent again), and each octet once and in  *)
(* order whatever was taken in between.                                    *)
On_the_wire(k) ==
    LET all == [id \in DOMAIN link |-> SelectSeq(link[id].put, LAMBDA x : x[1] = k)] IN
    {all[id] : id \in DOMAIN link} \ {<<>>}
StreamSendExact ==
    \A k \in DOMAIN rets : msgs[k] > 0 =>
        LET first(n) == [i \in 1 .. n |-> <<k, i>>] IN
        CASE rets[k] > 0 -> On_the_wire(k) = {first(rets[k])} /\ rets[k] <= msgs[k]
          [] rets[k] = NET_TIMEOUT -> On_the_wire(k) = {}
          [] OTHER -> \A s \in On_the_wire(k) : \E n \in 1 .. msgs[k] : s = first(n)

(* A call with a timeout, or without one, comes back though the peer stays *)
(* silent.                                                                 *)
CallsReturn == call # Idle ~> call = Idle
===============================================================================
