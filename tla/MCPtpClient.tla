----------------------------- MODULE MCPtpClient -----------------------------
(* Instances of PtpClient for TLC.  Fields that never decide are fixed.    *)
EXTENDS PtpClient, TLC

Dataset(p, prio, g, steps) ==
    [source |-> p, priority1 |-> prio, clockClass |-> 6, clockAccuracy |-> 33,
     variance |-> 0, priority2 |-> 128, gm |-> g, stepsRemoved |-> steps]

TwoClocks == <<1, 2>>

(* A fixed grandmaster on each port.                                       *)
FixedGrandmasters == {Dataset(1, 1, 1, 0), Dataset(2, 2, 2, 0)}

(* Both ports relay one grandmaster, port 2 over the shorter path.         *)
Relays == {Dataset(1, 1, 1, 1), Dataset(2, 1, 1, 0)}

DomainSymmetry == Permutations(Domains)
==============================================================================
