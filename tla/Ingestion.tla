------------------------------ MODULE Ingestion ------------------------------
(***************************************************************************)
(* What the storage consumer promises about one Kafka topic, with no        *)
(* worker, batch, connection or group in it.  Records are appended to       *)
(* partitions; a record becomes settled once its data, or a newer version   *)
(* of it, or its dead letter is in Postgres; and the committed offset of a  *)
(* partition moves forward only, and only over settled records.  This is    *)
(* the promise worker.py opens with: "Offsets advance only after Postgres   *)
(* has durably committed, so nothing is ever lost."                         *)
(***************************************************************************)
EXTENDS Naturals, Sequences

CONSTANTS Partition, Message

VARIABLES log, settled, committed

vars == <<log, settled, committed>>

\* Coordinates of the records produced so far; offsets count from 0.
Produced(l) == UNION {{p} \X (0 .. Len(l[p]) - 1) : p \in Partition}

Init == /\ log = [p \in Partition |-> <<>>]
        /\ settled = {}
        /\ committed = [p \in Partition |-> 0]

\* A record older than the row already stored for its key is settled on arrival.
Produce == /\ \E p \in Partition, m \in Message :
                 log' = [log EXCEPT ![p] = Append(@, m)]
           /\ settled \subseteq settled'
           /\ settled' \subseteq Produced(log')
           /\ UNCHANGED committed

Settle == /\ settled \subseteq settled'
          /\ settled' \subseteq Produced(log)
          /\ UNCHANGED <<log, committed>>

Advance == /\ committed' \in [Partition -> Nat]
           /\ \A p \in Partition :
                 /\ committed'[p] >= committed[p]
                 /\ {p} \X (0 .. committed'[p] - 1) \subseteq settled
           /\ UNCHANGED <<log, settled>>

Next == Produce \/ Settle \/ Advance

Spec == Init /\ [][Next]_vars
=============================================================================
