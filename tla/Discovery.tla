------------------------------- MODULE Discovery -------------------------------
(***************************************************************************)
(* DiscoverRegistries of src/src/nmos/dnssd.cpp: the registries that DNS   *)
(* advertises, best priority first.                                        *)
(*                                                                         *)
(* What the name servers answer is a sequence of instances, in the order   *)
(* in which the search domains and the two service names list them: the    *)
(* URL from the SRV record, empty when there is none, and the priority     *)
(* from the TXT record, NoTxt when there is none.                          *)
(***************************************************************************)
EXTENDS Integers, Sequences, FiniteSets

NoUrl == ""
NoTxt == -1

Priority(instance) == IF instance.pri = NoTxt THEN 100 ELSE instance.pri

(* The instances that are kept: with a URL, the first with that URL.       *)
Kept(answers) ==
    {i \in DOMAIN answers :
        /\ answers[i].url # NoUrl
        /\ \A j \in 1..(i - 1) : answers[j].url # answers[i].url}

(* The lists it can return: std::sort leaves the order of equal priorities *)
(* open.                                                                   *)
DiscoverRegistries_Unsorted(answers) ==
    {[k \in DOMAIN order |-> answers[order[k]].url] :
        order \in {o \in [1..Cardinality(Kept(answers)) -> Kept(answers)] :
            \A i, j \in DOMAIN o : i < j => o[i] < o[j]}}

DiscoverRegistries(answers) ==
    {[k \in DOMAIN order |-> answers[order[k]].url] :
        order \in {o \in [1..Cardinality(Kept(answers)) -> Kept(answers)] :
            /\ \A i \in Kept(answers) : \E k \in DOMAIN o : o[k] = i
            /\ \A j, k \in DOMAIN o :
                  j < k => Priority(answers[o[j]]) <= Priority(answers[o[k]])}}
===============================================================================
