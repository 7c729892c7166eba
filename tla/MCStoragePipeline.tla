-------------------------- MODULE MCStoragePipeline --------------------------
(***************************************************************************)
(* Instances of StoragePipeline.  Two versions, old and new, of one review  *)
(* of a registered application; a message the decoder rejects; a message of *)
(* an application that may or may not be registered in time; and, where a   *)
(* run includes it, one the decoder accepts and Postgres does not.          *)
(***************************************************************************)
EXTENDS StoragePipeline, TLC

CONSTANTS malformed, old, new, orphan, unwritable,
          known, unknown, review, other

MCPackage == {known, unknown}
MCInitiallyRegistered == {known}
MCKey == {review, other}
MCDecodable == Message \ {malformed}
MCUnwritable == Message \cap {unwritable}
MCPackageOf == [m \in Message |-> IF m = orphan THEN unknown ELSE known]
MCKeyOf == [m \in Message |-> IF m \in {old, new} THEN review ELSE other]
MCObservedAt == [m \in Message |-> IF m \in {new, unwritable} THEN 2 ELSE 1]
\* Replicas are interchangeable, and so are partitions.
Interchange == Permutations(Worker) \cup Permutations(Partition)
=============================================================================
