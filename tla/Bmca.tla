-------------------------------- MODULE Bmca --------------------------------
(***************************************************************************)
(* The best master clock algorithm of src/src/ptp/bmca.cpp and the scan    *)
(* over the table of foreign masters in PtpClient::RunBmca.                *)
(*                                                                         *)
(* A PortIdentity is an index of 1..N in the order of the keys of          *)
(* m_mForeign (clock identity first, port number second), so comparing two *)
(* senders compares their indices.  ClockOf[p] is the clock identity of    *)
(* port p; two ports of one clock have neighbouring indices.  Every field  *)
(* of a dataset is a natural number compared by <, as the bytes are.       *)
(***************************************************************************)
EXTENDS Integers

CONSTANTS N,        \* number of foreign master ports that can be heard
          ClockOf   \* the clock identity of each port

None  == 0                  \* std::nullopt: no master
Ports == 1..N

(* The comparison reads PortIdentity by its parts; ordering ports by index *)
(* is the same thing when the clock identities grow with the index.        *)
ASSUME PortAssumption ==
    /\ N \in Nat \ {0}
    /\ ClockOf \in [Ports -> Nat]
    /\ \A p, q \in Ports : p <= q => ClockOf[p] <= ClockOf[q]

AnnounceDataset ==
    [ source : Nat,                 \* index of the sending port
      priority1 : Nat, clockClass : Nat, clockAccuracy : Nat,
      variance : Nat, priority2 : Nat,
      gm : Nat,                     \* grandmasterIdentity
      stepsRemoved : Nat ]

(* The attributes of the grandmaster, in the order they are compared.      *)
GmAttributes(d) == << d.priority1, d.clockClass, d.clockAccuracy,
                      d.variance, d.priority2, d.gm >>

(* The tie break for two paths to one grandmaster.                         *)
Topology(d) == << d.stepsRemoved, d.source >>

(* The first position in which two tuples differ, 0 when they are equal.   *)
Deciding(s, t) ==
    IF s = t THEN 0
    ELSE CHOOSE i \in DOMAIN s : /\ s[i] # t[i]
                                 /\ \A j \in 1..(i - 1) : s[j] = t[j]

FieldCompare(s, t) ==
    IF s = t THEN 0 ELSE IF s[Deciding(s, t)] < t[Deciding(s, t)] THEN -1 ELSE 1

(* Plausible bug: the topological tie break is only used on full equality. *)
CompareDatasets_NoTopology(a, b) == FieldCompare(GmAttributes(a), GmAttributes(b))

(* CompareDatasets: -1 when a wins, 1 when b wins, 0 when identical.       *)
CompareDatasets(a, b) ==
    IF a.gm # b.gm THEN FieldCompare(GmAttributes(a), GmAttributes(b))
                   ELSE FieldCompare(Topology(a), Topology(b))

----------------------------------------------------------------------------
(* A foreign master is qualified once it was announced twice on the        *)
(* primary net (amber).                                                    *)
QUALIFIED == 2

Qualified_First(table) == {p \in Ports : table[p].amber >= 1}

Qualified(table) == {p \in Ports : table[p].amber >= QUALIFIED}

(* One turn of the scan of RunBmca over the keys of m_mForeign.            *)
ScanStep(table, p, best) ==
    IF /\ p \in Qualified(table)
       /\ \/ best = None
          \/ CompareDatasets(table[p].ds, table[best].ds) < 0
    THEN p ELSE best

(* pBest after the scan of the whole table.                                *)
ScanBest(table) ==
    LET best[i \in 0..N] == IF i = 0 THEN None ELSE ScanStep(table, i, best[i - 1])
    IN  best[N]

(* Two datasets that name the same grandmaster describe it alike.  Holds   *)
(* in a settled network; while a change of a grandmaster's attributes is   *)
(* spreading, two ports may describe it differently.                       *)
Consistent(table) ==
    \A p, q \in Qualified(table) :
        table[p].ds.gm = table[q].ds.gm
            => GmAttributes(table[p].ds) = GmAttributes(table[q].ds)
============================================================================
