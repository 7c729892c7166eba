--------------------------- MODULE MCCaptureBatch ---------------------------
(* Options worth telling apart: publishing and moving, --dry-run, --keep, and  *)
(* --skip-registry-check.                                                      *)
EXTENDS CaptureBatch, TLC

Flags(on) == [dry |-> "dry" \in on, keep |-> "keep" \in on, skip |-> "skip" \in on]

\* One run publishes; the other does too, or only tries, or keeps the files.
CONSTANTS r1, r2

MCOptions == {(r1 :> Flags({})) @@ (r2 :> Flags(other)) :
                other \in {{}, {"dry"}, {"keep", "skip"}}}
=============================================================================
