--------------------------- MODULE MCSenderControl ---------------------------
(***************************************************************************)
(* Instances of SenderControl: two requests at a time.  A client switches  *)
(* the leg, alone or with a stop of the sender in one update; the page     *)
(* saves an empty port field, which sends null; IS-05 starts the sender    *)
(* with a port that is not the first one.                                  *)
(***************************************************************************)
EXTENDS SenderControl, TLC

CONSTANTS a1, p1, p2, c1, c2

Pair == {c1, c2}

ControllerSymmetry == Permutations(Pair)

Start == [enabled |-> TRUE, addr |-> a1, port |-> p2]

Stop == [enabled |-> FALSE]

AllPosts == {[port |-> Bad], [enabled |-> FALSE, leg |-> FALSE], [leg |-> FALSE]}

AllPatches == {[enabled |-> TRUE, port |-> p2]}

StartStop == {Start, Stop}

OnlyEnable == {[enabled |-> TRUE]}

NoPatch == {}
==============================================================================
