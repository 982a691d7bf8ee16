------------------------------- MODULE MCBearers -------------------------------
(***************************************************************************)
(* What a bearer is made of: its signalling (GtpSession), its forwarding   *)
(* tables (Gtpu) and the media on it (RtpStream).  They share no state; a  *)
(* behaviour runs one of them, chosen at first.                            *)
(***************************************************************************)
EXTENDS GtpSession, Gtpu, RtpStream

VARIABLE turn

Tun(local, fam, ue, core, peerOf) ==
    [local |-> local, fam |-> fam, ue |-> ue, core |-> core, peer |-> peerOf]
Flt(t, source, up, rp) == [tun |-> t, src |-> source, up |-> up, rp |-> rp]

(* A default bearer of UE 11 and the same after a handover; an anchor-side *)
(* bearer that claims the same inner address.                              *)
MCTunnels == {Tun(1, 4, 11, FALSE, 1), Tun(1, 4, 11, FALSE, 2), Tun(2, 4, 11, TRUE, 1)}

(* Filters of both families on the default bearer, and two of a dedicated *)
(* one, one of them closer than the other.                                *)
MCFilters ==
    {Flt(Tun(1, 4, 11, FALSE, 1), 21, 7, 0), Flt(Tun(1, 6, 16, FALSE, 1), 0, 0, 0),
     Flt(Tun(3, 4, 11, FALSE, 1), 0, 7, 8), Flt(Tun(3, 4, 11, FALSE, 1), 0, 0, 0)}

(* To the UE from the source a filter names, and from another. *)
MCPackets == {[fam |-> 4, dst |-> 11, src |-> sender, up |-> 7, rp |-> 8] : sender \in {21, 22}}

BearersInit == turn \in {"gtpc", "gtpu", "rtp"} /\ Init /\ UpInit /\ RtpInit

GtpcStep == turn = "gtpc" /\ Next /\ UNCHANGED <<turn, upVars, rtpVars>>
GtpuStep == turn = "gtpu" /\ UpNext /\ UNCHANGED <<turn, vars, rtpVars>>
RtpStep == turn = "rtp" /\ RtpNext /\ UNCHANGED <<turn, vars, upVars>>

BearersSpec ==
    /\ BearersInit
    /\ [][GtpcStep \/ GtpuStep \/ RtpStep]_<<turn, vars, upVars, rtpVars>>
    /\ Fairness
===============================================================================
