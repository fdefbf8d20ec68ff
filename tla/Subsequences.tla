---------------------------- MODULE Subsequences ----------------------------
(***************************************************************************)
(* What the erase_if() and copy_if() loops of the code leave of a          *)
(* sequence: the elements that pass a test, in their order.  It is         *)
(* SelectSeq, defined by the places of these elements instead of by        *)
(* recursion along the sequence, so that it can be reasoned about.         *)
(***************************************************************************)
EXTENDS Naturals, Sequences, FiniteSets

\* The position of i among the elements of a set of naturals.
PlaceOf(I, i) == Cardinality({j \in I : j <= i})

\* The k-th element of a set of naturals.
NthOf(I, k) == CHOOSE i \in I : PlaceOf(I, i) = k

\* The elements of a sequence at the given places.
AtPlaces(s, I) == [k \in 1..Cardinality(I) |-> s[NthOf(I, k)]]

Kept(s, Test(_)) == AtPlaces(s, {i \in DOMAIN s : Test(s[i])})
=============================================================================
