----------------------------- MODULE LeastNumber -----------------------------
(***************************************************************************)
(* The least number of a set, as it is needed for code that takes the      *)
(* first free slot, socket or address, and for induction by the least      *)
(* counterexample.                                                         *)
(***************************************************************************)
EXTENDS WellFoundedInduction, TLAPS

\* The loops over sockets and slots that take the first one that fits find it.
LEMMA LeastExists ==
  ASSUME NEW S \in SUBSET Nat, S # {}
  PROVE  \E i \in S : \A j \in S : i <= j
<1>1. \E i \in S : \A j \in S : << j, i >> \notin OpToRel(<, Nat)
  BY NatLessThanWellFounded, WFMin, Zenon
<1>2. \A i, j \in S : << j, i >> \notin OpToRel(<, Nat) => i <= j
  BY DEF OpToRel
<1> QED
  BY <1>1, <1>2
==============================================================================
