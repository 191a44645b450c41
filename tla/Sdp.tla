--------------------------------- MODULE Sdp ---------------------------------
(***************************************************************************)
(* Session descriptions (src/src/rtp/sdp.cpp): GenerateSdp writes what a   *)
(* sender emits, ParseSdp reads what a receiver is to join.                *)
(*                                                                         *)
(* A document is a sequence of lines.  A line is a record: its kind and    *)
(* the value it carries, without the wording around it.  Lines that        *)
(* neither side reads (v=, o=, t=, a=recvonly, a=mediaclk) are one kind.   *)
(***************************************************************************)
EXTENDS Integers, Sequences, SequencesExt

CONSTANT None      \* an empty string, std::nullopt

Leg(mid, addr, source, port) ==
    [mid |-> mid, addr |-> addr, source |-> source, port |-> port]

(* The initial values of an SdpSession.                                    *)
NewSession ==
    [name |-> None, legs |-> <<>>, pt |-> 96, format |-> "L24/48000/2", ptime |-> 1000,
     gm |-> None, domain |-> 0]

Line(kind, v) == [kind |-> kind, v |-> v]

----------------------------------------------------------------------------
(* GenerateSdp: the lines of a leg.                                        *)
LegLines(s, i, origin, sources) ==
    LET leg == s.legs[i]
        source == IF leg.source # None THEN leg.source
                  ELSE IF i <= Len(sources) THEN sources[i] ELSE origin
    IN  <<Line("m", [port |-> leg.port, pt |-> s.pt]),
          Line("c", leg.addr),
          Line("source-filter", source),
          Line("rtpmap", [pt |-> s.pt, format |-> s.format]),
          Line("ptime", s.ptime)>>
        \o (IF s.gm = None THEN <<>>
            ELSE <<Line("ts-refclk", [gm |-> s.gm, domain |-> s.domain])>>)
        \o <<Line("ignored", None)>>
        \o (IF Len(s.legs) > 1 THEN <<Line("mid", leg.mid)>> ELSE <<>>)

GenerateSdp(s, origin, sources) ==
    <<Line("s", s.name)>>
    \o (IF Len(s.legs) > 1
        THEN <<Line("group", [i \in 1..Len(s.legs) |-> s.legs[i].mid])>> ELSE <<>>)
    \o FlattenSeq([i \in 1..Len(s.legs) |-> LegLines(s, i, origin, sources)])

----------------------------------------------------------------------------
(* ParseSdp: what it has read so far is the session, the address of the    *)
(* session level and the names in the group.                               *)
NewParse == [session |-> NewSession, conn |-> None, mids |-> <<>>]

(* pCurrentLeg, the last leg that was begun.                               *)
HasLeg(p) == p.session.legs # <<>>
Current(p) == Len(p.session.legs)

ParseLine(p, l) ==
    CASE l.kind = "s" -> [p EXCEPT !.session.name = l.v]
      [] l.kind = "c" -> IF HasLeg(p)
                           THEN [p EXCEPT !.session.legs[Current(p)].addr = l.v]
                           ELSE [p EXCEPT !.conn = l.v]
      [] l.kind = "m" ->
            [p EXCEPT !.session.legs = Append(@, Leg(None, p.conn, None, l.v.port)),
                      !.session.pt = l.v.pt]
      [] l.kind = "group" -> [p EXCEPT !.mids = @ \o l.v]
      [] l.kind = "mid" /\ HasLeg(p) -> [p EXCEPT !.session.legs[Current(p)].mid = l.v]
      [] l.kind = "rtpmap" /\ l.v.pt = p.session.pt ->
            [p EXCEPT !.session.format = l.v.format]
      [] l.kind = "ptime" -> [p EXCEPT !.session.ptime = l.v]
      [] l.kind = "source-filter" /\ HasLeg(p) ->
            [p EXCEPT !.session.legs[Current(p)].source = l.v]
      [] l.kind = "ts-refclk" ->
            [p EXCEPT !.session.gm = l.v.gm, !.session.domain = l.v.domain]
      [] OTHER -> p

(* The legs of a DUP group, in the order of the group; all of them when    *)
(* there is no group or no leg is in it.  Two at most.                     *)
GroupLegs_DocumentOrder(legs, mids) ==
    LET grouped == SelectSeq(legs, LAMBDA leg : Contains(mids, leg.mid))
        chosen == IF Len(mids) > 1 /\ grouped # <<>> THEN grouped ELSE legs
    IN  SubSeq(chosen, 1, IF Len(chosen) > 2 THEN 2 ELSE Len(chosen))

GroupLegs(legs, mids) ==
    LET grouped == FlattenSeq([i \in 1..Len(mids) |->
                                  SelectSeq(legs, LAMBDA leg : leg.mid = mids[i])])
        chosen == IF Len(mids) > 1 /\ grouped # <<>> THEN grouped ELSE legs
    IN  SubSeq(chosen, 1, IF Len(chosen) > 2 THEN 2 ELSE Len(chosen))

ParseSdp(lines) ==
    LET p == FoldLeft(ParseLine, NewParse, lines)
    IN  IF HasLeg(p)
          THEN [p.session EXCEPT !.legs = GroupLegs(p.session.legs, p.mids)]
          ELSE None
==============================================================================
