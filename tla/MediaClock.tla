------------------------------ MODULE MediaClock ------------------------------
(***************************************************************************)
(* What the PTP client promises to the threads that use its clock: the RTP *)
(* sender, the playout of the receiver and the IS-12 monitors, which see   *)
(* IsSynced, the selected master and the domain.  PtpClient implements it. *)
(*                                                                         *)
(*   - synchronisation is gained from measurements of one master alone,    *)
(*     MinSamples of them with no change of master, domain change or       *)
(*     silence in between;                                                 *)
(*   - another master may take over without a loss of synchronisation, the *)
(*     disappearance of the last one is such a loss in the same step;      *)
(*   - a completed domain change leaves the clock without master, samples  *)
(*     and synchronisation.                                                *)
(***************************************************************************)
EXTENDS Integers

CONSTANTS Masters, NoMaster,       \* clocks that can be selected
          Domains, Changing,       \* PTP domains; a change is under way
          MinSamples, MaxSamples   \* samples for a mapping, samples kept

VARIABLES master, domain, samples, synced

vars == <<master, domain, samples, synced>>

Init ==
    /\ master = NoMaster
    /\ domain \in Domains
    /\ samples = 0
    /\ synced = FALSE

Elect ==
    /\ \E m \in (Masters \cup {NoMaster}) \ {master} :
          master' = m /\ synced' = (synced /\ m # NoMaster)
    /\ samples' = 0
    /\ UNCHANGED domain

(* One more sample, or the first one after a jump of the master's time.    *)
Measure ==
    /\ master # NoMaster
    /\ \/ samples' = 1
       \/ samples' = samples + 1 /\ samples' <= MaxSamples
       \/ samples' = samples /\ samples = MaxSamples
    /\ synced' = (synced \/ samples' >= MinSamples)
    /\ UNCHANGED <<master, domain>>

Lose ==
    /\ synced
    /\ synced' = FALSE /\ samples' = 0
    /\ UNCHANGED <<master, domain>>

BeginChange ==
    /\ domain # Changing
    /\ domain' = Changing
    /\ UNCHANGED <<master, samples, synced>>

EndChange ==
    /\ domain = Changing
    /\ domain' \in Domains
    /\ master' = NoMaster /\ samples' = 0 /\ synced' = FALSE

Next == Elect \/ Measure \/ Lose \/ BeginChange \/ EndChange

Spec == Init /\ [][Next]_vars
===============================================================================
