---------------------------- MODULE LeastNatural -----------------------------
(***************************************************************************)
(* Every set of natural numbers that is not empty has a least element: what *)
(* stands for induction in the proofs of this project, as the first number  *)
(* at which something fails, and for the CHOOSE of a minimum.               *)
(***************************************************************************)
EXTENDS Integers, WellFoundedInduction, TLAPS

LessThan == {p \in Nat \X Nat : p[1] < p[2]}

LEMMA LessThanWellFounded == IsWellFoundedOn(LessThan, Nat)
  BY NatLessThanWellFounded DEF OpToRel, LessThan

\* HAPRouter!FreeChildIndex takes the lowest index not in use, HAPReporter the
\* earliest of the ports' due times: there is one.
THEOREM LeastExists ==
  ASSUME NEW S, S \subseteq Nat, S # {}
  PROVE  \E m \in S : \A n \in S : m =< n
<1>1. PICK m \in S : \A n \in S : ~(<<n, m>> \in LessThan)
  BY LessThanWellFounded, WFMin
<1>2. ASSUME NEW n \in S PROVE ~(n < m)
  BY <1>1 DEF LessThan
<1> QED BY <1>1, <1>2
=============================================================================
