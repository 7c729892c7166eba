----------------------------- MODULE SortedSets -----------------------------
(***************************************************************************)
(* A finite set of integers as a sequence in ascending order: what an      *)
(* ORDER BY, a sorted() or a filter that keeps positions leaves.  It is    *)
(* SetToSortSeq(S, <) of the community modules, by a definition that the   *)
(* proof system can expand.                                                *)
(***************************************************************************)
EXTENDS Integers, Sequences, FiniteSets

Increases(s) == \A a, b \in DOMAIN s : a < b => s[a] < s[b]

Ascending(S) == CHOOSE s \in [1..Cardinality(S) -> S] : Increases(s)
=============================================================================
