----------------------------- MODULE TlvStream -----------------------------
(***************************************************************************)
(* A message written entry by entry into a bounded buffer and read back.   *)
(*                                                                         *)
(* The writer is the caller the codec documents (task/inc/tlv.h: "return   *)
(* codes can be chained and checked once at the end") and the one          *)
(* bindings/cxx/src/msg.cpp is: it writes a header, ignores what every put, *)
(* begin and end returns, and asks the finalizer at the end.  The reader   *)
(* gets what was finalized whole, cut short, or followed by other octets.  *)
(***************************************************************************)
EXTENDS Tlv

CONSTANTS
    Caps,       \* capacities beyond the header
    Values,     \* entry values
    MaxCalls    \* puts, begins and ends of one message

VARIABLES
    fmt,    \* the protocol of the message
    w,      \* the write buffer
    open,   \* handles of the groups begun and not ended
    said,   \* what the caller asked for: one entry list per open group
    calls,  \* calls made
    wire,   \* the finalized message
    got     \* what the reader made of it

vars == <<fmt, w, open, said, calls, wire, got>>

Formats == {"gtp2", "gtp1", "diam"}

hdr == [mt |-> 32, id |-> 16909060, seq |-> 258, has_teid |-> TRUE,
        flags |-> {"request"}, app |-> 4]

hdr_encode(f) == CASE f = "gtp2" -> gtp2_hdr_encode(hdr)
                   [] f = "gtp1" -> gtp1_hdr_encode(hdr)
                   [] f = "diam" -> diam_hdr_encode(hdr)

\* GTPv1 TV types with their fixed lengths (generated gtp1_msg.h).
tvlen == (14 :> 1) @@ (16 :> 4)

\* The entries a caller writes.  meta is the instance or the AVP flags.
Entries(f) ==
    CASE f = "gtp2" -> [type : {1, 73}, meta : {0, 1}, vendor : {0}, val : Values]
      [] f = "gtp1" -> [type : {133}, meta : {0}, vendor : {0}, val : Values]
                         \cup {[type |-> t, meta |-> 0, vendor |-> 0,
                                val |-> be_store(7, tvlen[t])] : t \in DOMAIN tvlen}
      [] f = "diam" -> [type : {1}, meta : {64}, vendor : {0, 10415}, val : Values]

Groups(f) ==
    CASE f = "gtp2" -> [type : {93}, meta : {1}, vendor : {0}]
      [] f = "gtp1" -> {}
      [] f = "diam" -> [type : {443}, meta : {0}, vendor : {0, 10415}]

-----------------------------------------------------------------------------
Init ==
    /\ fmt \in Formats
    /\ \E room \in Caps, h \in {hdr_encode(fmt)} :
         w = Append_(tlv_wbuf_init(Len(h) + room), h).w
    /\ open = <<>> /\ said = <<<<>>>> /\ calls = 0
    /\ wire = <<>> /\ got = <<>>

Writing == wire = <<>> /\ calls < MaxCalls /\ calls' = calls + 1

Say(e) == said' = [said EXCEPT ![Len(said)] = Append(@, e)]

Put(e) ==
    /\ Writing
    /\ w' = CASE fmt = "gtp2" -> tlv_put(w, TLV_PROF_GTP2C, e.type, e.meta, e.val).w
              [] fmt = "gtp1" -> gtp1_ie_put(w, e.type, e.val).w
              [] fmt = "diam" -> diam_avp_put(w, e.type, e.meta, e.vendor, e.val).w
    /\ Say(e)
    /\ UNCHANGED <<fmt, open, wire, got>>

begin(g) ==
    IF fmt = "gtp2" THEN tlv_begin(w, TLV_PROF_GTP2C, g.type, g.meta)
    ELSE diam_avp_begin(w, g.type, g.meta, g.vendor)

Begin(g) ==
    /\ Writing
    /\ \E r \in {begin(g)} : w' = r.w /\ open' = Append(open, [h |-> r.rc, g |-> g])
    /\ said' = Append(said, <<>>)
    /\ UNCHANGED <<fmt, wire, got>>

End ==
    /\ Writing /\ open # <<>>
    /\ LET top == Last(open)
           p   == IF fmt = "gtp2" THEN TLV_PROF_GTP2C ELSE TLV_PROF_DIAMETER
       IN  /\ w' = tlv_end(w, p, top.h).w
           /\ open' = Front(open)
           /\ said' = [Front(said) EXCEPT ![Len(said) - 1] =
                           Append(@, top.g @@ [kids |-> Last(said)])]
    /\ UNCHANGED <<fmt, wire, got>>

finalize == CASE fmt = "gtp2" -> gtp2_hdr_finalize(w)
              [] fmt = "gtp1" -> gtp1_hdr_finalize(w)
              [] fmt = "diam" -> diam_hdr_finalize(w)

\* The caller sends what the finalizer accepts and reports the rest.
Finish ==
    /\ wire = <<>> /\ open = <<>>
    /\ \E r \in {finalize} : r.rc = TLV_OK /\ wire' = r.w.buf
    /\ UNCHANGED <<fmt, w, open, said, calls, got>>

-----------------------------------------------------------------------------
(* Reading: the header bounds the entries, a group's length its children.  *)

next(b, cur, end) == CASE fmt = "gtp2" -> gtp2_ie_iter_next(b, cur, end)
                       [] fmt = "gtp1" -> gtp1_ie_iter_next(b, cur, end, tvlen)
                       [] fmt = "diam" -> diam_avp_iter_next(b, cur, end)

Views(b, from, end) ==
    LET walk[cur \in from..end] ==
          LET From(v) == IF v.ok THEN <<v>> \o walk[v.cur] ELSE <<>>
          IN  From(next(b, cur, end))
    IN  walk[from]

RECURSIVE Tree(_, _, _)
Tree(b, from, end) ==
    LET Vendor(v) == IF "vendor" \in DOMAIN v THEN v.vendor ELSE 0
        Flags(v)  == IF fmt = "diam" THEN v.meta % 128 ELSE v.meta
        Entry(v)  ==
          [type |-> v.type, meta |-> Flags(v), vendor |-> Vendor(v)]
            @@ IF v.type \in {g.type : g \in Groups(fmt)}
               THEN [kids |-> Tree(b, v.value, v.value + v.len)]
               ELSE [val |-> Sub(b, v.value, v.len)]
        All(s)    == [i \in DOMAIN s |-> Entry(s[i])]
    IN  All(Views(b, from, end))

hdr_decode(b) == CASE fmt = "gtp2" -> gtp2_hdr_decode(b)
                   [] fmt = "gtp1" -> gtp1_hdr_decode(b)
                   [] fmt = "diam" -> diam_hdr_decode(b)

Decode(b) ==
    LET Message(h) == IF h.hl < 0 THEN <<h.hl>>
                      ELSE <<h.mt, h.id, h.seq, Tree(b, h.hl, h.end)>>
    IN  Message(hdr_decode(b))

\* What reaches the reader: the first k octets, or all of them and more.
Cuts == {0, 7, 8, 11, 12, 19, 20, Len(wire) - 4, Len(wire) - 1}
          \cap 0..Len(wire) - 1

Arrivals == {SubSeq(wire, 1, k) : k \in Cuts} \cup {wire, wire \o <<1, 2, 3, 4>>}

Receive(b) ==
    /\ wire # <<>> /\ got = <<>>
    /\ got' = Decode(b)
    /\ UNCHANGED <<fmt, w, open, said, calls, wire>>

Next ==
    \/ \E e \in Entries(fmt) : Put(e)
    \/ \E g \in Groups(fmt) : Begin(g)
    \/ End
    \/ Finish
    \/ \E b \in Arrivals : Receive(b)

Spec == Init /\ [][Next]_vars

-----------------------------------------------------------------------------
(***************************************************************************)
(* The finalizer alone tells the caller whether the message is whole: what *)
(* it accepts reads back as the header and exactly the entries, nested as  *)
(* they were begun and ended, although the caller looked at no other       *)
(* return code (tlv_put, tlv_begin, tlv_end, the finalizers), and a message *)
(* cut short anywhere is refused whole (the header decoders).              *)
(***************************************************************************)
ReadsBack ==
    Len(got) > 1 => got = <<hdr.mt, hdr.id, hdr.seq, said[1]>>

(***************************************************************************)
(* A message that arrives whole is always accepted.                        *)
(***************************************************************************)
WholeAccepted ==
    wire # <<>> => Len(Decode(wire)) > 1
=============================================================================
