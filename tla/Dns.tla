---------------------------------- MODULE Dns ----------------------------------
(***************************************************************************)
(* The resolver of net/src/dns.c: outstanding queries known by a 16-bit    *)
(* id, retransmission on a timer, and responses matched by id and by the   *)
(* question they echo.  The network loses, repeats and delays both ways,   *)
(* so a response may arrive after its query ended and its id is in use     *)
(* again.  A name is its labels and whether it was written with a final    *)
(* dot, which the wire format does not carry.                              *)
(***************************************************************************)
EXTENDS Naturals, FiniteSets

CONSTANTS
    Queries,        \* calls of net_dns_query
    Names,          \* the labels a name stands for
    Dots,           \* how names end: a subset of BOOLEAN
    IdMod,          \* ids are counted modulo this (2^16 in the code)
    MaxTries        \* bound: the largest number of tries configured

(* Some ids, finitely many calls. *)
ASSUME DnsAssumption == IdMod \in Nat \ {0} /\ IsFiniteSet(Queries) /\ MaxTries \in Nat

VARIABLES
    query,      \* each query: st, id, name, tries, tmr, calls, got
    seq,        \* d->seq
    tries,      \* d->tries
    freed,      \* net_dns_free was called
    asked,      \* packets sent: [id, labels]
    answered    \* responses on their way: [id, labels]

dnsVars == <<query, seq, tries, freed, asked, answered>>

New == [st |-> "new", id |-> 0, name |-> [labels |-> CHOOSE n \in Names : TRUE, dot |-> FALSE],
        tries |-> 0, tmr |-> FALSE, calls |-> 0, got |-> {}]

DnsInit ==
    /\ query = [q \in Queries |-> New]
    /\ seq \in 0 .. IdMod - 1           \* getentropy
    /\ tries \in 1 .. MaxTries
    /\ freed = FALSE /\ asked = {} /\ answered = {}

Outstanding == {q \in Queries : query[q].st = "out"}
Used == {query[q].id : q \in Outstanding}

(* dns_send: the stored packet, verbatim; the name goes out as labels. *)
dns_send(r) == asked' = asked \cup {[id |-> r.id, labels |-> r.name.labels]}

(* ++seq until the id is not outstanding. *)
NextId ==
    LET ahead(k) == (seq + k) % IdMod
        free == {k \in 1 .. IdMod : ahead(k) \notin Used}
    IN  ahead(CHOOSE k \in free : \A j \in free : k <= j)

(* With every id outstanding the search for one does not end. *)
net_dns_query(q, labels, dot) ==
    LET r == [query[q] EXCEPT !.st = "out", !.id = NextId, !.tmr = TRUE,
                              !.name = [labels |-> labels, dot |-> dot]]
    IN  /\ ~freed /\ query[q].st = "new"
        /\ Cardinality(Used) < IdMod
        /\ seq' = NextId
        /\ query' = [query EXCEPT ![q] = r]
        /\ dns_send(r)
        /\ UNCHANGED <<tries, freed, answered>>

(* A name dns_qname does not encode: the id is spent, nothing is sent. *)
net_dns_query_refused ==
    /\ ~freed /\ Cardinality(Used) < IdMod
    /\ seq' = NextId
    /\ UNCHANGED <<query, tries, freed, asked, answered>>

(* dns_detach and the callback, with the names the answer is about (none   *)
(* for a timeout).                                                         *)
Done(q, rr, r) ==
    query' = [query EXCEPT ![q] = [r EXCEPT !.st = "done", !.tmr = FALSE,
                                            !.calls = @ + 1, !.got = rr]]

(* Mutant: the timer is not set again after a retransmission. *)
dns_timeo_last(q) ==
    LET r == [query[q] EXCEPT !.tries = @ + 1, !.tmr = FALSE] IN
    /\ query[q].tmr
    /\ IF r.tries < tries
       THEN query' = [query EXCEPT ![q] = r] /\ dns_send(r)
       ELSE Done(q, {}, r) /\ UNCHANGED asked
    /\ UNCHANGED <<seq, tries, freed, answered>>

dns_timeo(q) ==
    LET r == [query[q] EXCEPT !.tries = @ + 1, !.tmr = FALSE] IN
    /\ query[q].tmr
    /\ IF r.tries < tries
       THEN query' = [query EXCEPT ![q] = [r EXCEPT !.tmr = TRUE]] /\ dns_send(r)
       ELSE Done(q, {}, r) /\ UNCHANGED asked
    /\ UNCHANGED <<seq, tries, freed, answered>>

(* Mutant: the id alone decides. *)
Echoes_id(m, r) == TRUE

(* The question of a response is ours when its labels, written without a   *)
(* final dot, are the name as the caller wrote it.                         *)
Echoes(m, r) == m.labels = r.name.labels /\ ~r.name.dot

(* Mutant: a response is looked up among all queries. *)
dns_find_any(id) == {q \in Queries : query[q].st # "new" /\ query[q].id = id}

dns_find(id) == {q \in Outstanding : query[q].id = id}

(* dns_parse of a response that arrives, perhaps late or again. *)
dns_parse(m) ==
    /\ m \in answered /\ ~freed
    /\ \E q \in dns_find(m.id) :
          Echoes(m, query[q]) /\ Done(q, {m.labels}, query[q])
    /\ UNCHANGED <<seq, tries, freed, asked, answered>>

net_dns_conf(n) ==
    /\ ~freed /\ n # tries
    /\ tries' = n
    /\ UNCHANGED <<query, seq, freed, asked, answered>>

(* net_dns_free: what is outstanding is dropped without a callback. *)
net_dns_free ==
    /\ ~freed /\ freed' = TRUE
    /\ query' = [q \in Queries |-> IF q \in Outstanding
                                   THEN [query[q] EXCEPT !.st = "dropped", !.tmr = FALSE]
                                   ELSE query[q]]
    /\ UNCHANGED <<seq, tries, asked, answered>>

(* The name server. *)
server(m) ==
    /\ m \in asked
    /\ answered' = answered \cup {[id |-> m.id, labels |-> m.labels]}
    /\ UNCHANGED <<query, seq, tries, freed, asked>>

DnsNext ==
    \/ \E q \in Queries : dns_timeo(q) \/ \E n \in Names, dot \in Dots : net_dns_query(q, n, dot)
    \/ \E m \in answered : dns_parse(m)
    \/ \E n \in 1 .. MaxTries : net_dns_conf(n)
    \/ net_dns_query_refused
    \/ net_dns_free
    \/ \E m \in asked : server(m)

(* The loop fires the timers. *)
DnsFairness == \A q \in Queries : WF_dnsVars(dns_timeo(q))

DnsSpec == DnsInit /\ [][DnsNext]_dnsVars /\ DnsFairness

-------------------------------------------------------------------------------
(* A query ends with one callback: the answer, the rcode or the timeout,   *)
(* however late and however often the responses arrive.                    *)
OneCallback ==
    \A q \in Queries : query[q].calls = (IF query[q].st = "done" THEN 1 ELSE 0)

(* No query is given the answer to another question, though its id was     *)
(* another query's before.                                                 *)
OwnAnswer ==
    \A q \in Queries : query[q].got \subseteq {query[q].name.labels}

(* No two outstanding queries share an id, however the counter wraps. *)
IdsApart ==
    \A q1, q2 \in Outstanding : query[q1].id = query[q2].id => q1 = q2

(* A query ends with one callback, is never given the answer to another    *)
(* question, and shares its id with no other that is outstanding.          *)
DnsAnswers == OneCallback /\ OwnAnswer /\ IdsApart

(* Every query ends, whether or not the server answers. *)
QueriesEnd == \A q \in Queries : query[q].st = "out" ~> query[q].st # "out"

(* dns.c: a response is dropped when it does not echo the question, for    *)
(* then "it is stale or forged".  A response to the packet of a query      *)
(* still outstanding is neither.                                           *)
EchoAccepted ==
    \A m \in answered : \A q \in dns_find(m.id) :
        m.labels = query[q].name.labels => Echoes(m, query[q])
===============================================================================
