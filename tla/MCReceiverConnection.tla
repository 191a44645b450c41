------------------------- MODULE MCReceiverConnection -------------------------
(* ReceiverConnection with two senders of this program and documents that  *)
(* other equipment writes.                                                 *)
EXTENDS ReceiverConnection, TLC

CONSTANTS s1, s2

MCSenders == {s1, s2}

(* s1 sends on both networks, s2 on the second one only.                   *)
MCLegsOn == s1 :> {1, 2} @@ s2 :> {2}

Media(port) == Line("m", [port |-> port, pt |-> 97])
Rtpmap == Line("rtpmap", [pt |-> 97, format |-> "L16/48000/1"])

(* shared: one address for the whole session.  grouped: three streams, of  *)
(* which a group names two, in the other order; one has an address of its  *)
(* own.  garbage: no audio.                                                *)
MCPasted == {"shared", "grouped", "garbage"}

MCText ==
    [p \in MCPasted |->
        CASE p = "shared" -> <<Line("s", p), Line("c", "239.0.0.1"), Media(5004), Rtpmap>>
          [] p = "grouped" ->
               <<Line("s", p), Line("c", "239.0.0.1"), Line("group", <<"B", "A">>),
                 Media(5004), Rtpmap, Line("mid", "A"),
                 Media(5006), Rtpmap, Line("mid", "C"),
                 Media(5008), Line("c", "239.0.0.2"), Rtpmap, Line("mid", "B")>>
          [] p = "garbage" -> <<Line("s", p), Line("ignored", Null)>>]
===============================================================================
