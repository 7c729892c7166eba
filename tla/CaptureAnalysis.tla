-------------------------- MODULE CaptureAnalysis --------------------------
(***************************************************************************)
(* One capture file from its records to its metrics: reading               *)
(* (analysis/packet_reader.py), both accumulators (volume_analyzer.py,     *)
(* tcp_analyzer.py) and the combination (metrics_calculator.py), whose     *)
(* NetworkMetrics refuses totals that contradict each other.               *)
(*                                                                         *)
(* A record is a packet with the lengths its headers declare, or one that  *)
(* is skipped.  Lengths are what dpkt reads, so they may contradict each   *)
(* other.                                                                  *)
(***************************************************************************)
EXTENDS TcpAnalyzer, PacketSizes

CONSTANTS
  Packets,       \* decodable IP packets
  MaxRecords,    \* bound: records in the file
  FromStart      \* the capture holds the start of the connection

\* Header fields are unsigned; they may say anything else.
ASSUME CaptureAssumption ==
  /\ MaxRecords \in Nat
  /\ \A p \in Packets :
       /\ {p.declared, p.captured, p.fixed, p.header, p.offset, p.length} \subseteq Nat
       /\ p.transport = "tcp" => p.tcp \in TcpSegment

VARIABLES
  outcome,       \* "reading", "metrics", "unreadable" or "rejected"
  records,       \* records read (total in the code)
  malformed,
  volume         \* packet count, bytes in total, bytes of payload

captureVars == <<tcpVars, outcome, records, malformed, volume>>

CaptureInit ==
  /\ TcpInit
  /\ outcome = "reading"
  /\ records = 0
  /\ malformed = 0
  /\ volume = [packets |-> 0, total |-> 0, payload |-> 0]

\* Missing file, too short for a magic number, no capture, unknown link type.
UnreadableFile ==
  /\ outcome = "reading" /\ records = 0
  /\ outcome' = "unreadable"
  /\ UNCHANGED <<tcpVars, records, malformed, volume>>

\* A record that does not decode, or decodes to something that is not IP.
SkipRecord ==
  /\ outcome = "reading" /\ records < MaxRecords
  /\ records' = records + 1
  /\ malformed' \in {malformed, malformed + 1}
  /\ UNCHANGED <<tcpVars, outcome, volume>>

\* A capture from the start shows a SYN before anything else of a direction, and
\* the acknowledgements of a direction after its SYN.
Recorded(s) ==
  FromStart => /\ s.syn \/ baseSeq[s.dir] # None
               /\ s.ackFlag => baseSeq[Reply(s.dir)] # None

ObserveVolume(p) ==
  volume' = [packets |-> volume.packets + 1,
             total |-> volume.total + IpBytes(p),
             payload |-> volume.payload + PayloadBytes(p)]

Segment(p) == [p.tcp EXCEPT !.payload = PayloadBytes(p)]

ReadPacket(p) ==
  /\ outcome = "reading" /\ records < MaxRecords
  /\ records' = records + 1
  /\ ObserveVolume(p)
  /\ IF p.transport = "tcp"
     THEN Recorded(Segment(p)) /\ Observe(Segment(p))
     ELSE UNCHANGED tcpVars
  /\ UNCHANGED <<outcome, malformed>>

\* The end of the file, or of what is readable of a truncated one: the
\* accumulators are combined, and NetworkMetrics checks what it is given.
EndOfCapture ==
  /\ outcome = "reading"
  /\ outcome' = IF /\ volume.payload <= volume.total
                   /\ \A i \in DOMAIN rttSamples : rttSamples[i] >= 0
                THEN "metrics" ELSE "rejected"
  /\ UNCHANGED <<tcpVars, records, malformed, volume>>

Finished == outcome # "reading" /\ UNCHANGED captureVars

CaptureNext ==
  \/ UnreadableFile \/ SkipRecord \/ EndOfCapture \/ Finished
  \/ \E p \in Packets : ReadPacket(p)

CaptureSpec == CaptureInit /\ [][CaptureNext]_captureVars

-----------------------------------------------------------------------------

\* Types, and the records seen so far accounted for by the accumulators.
CaptureTypeOK ==
  /\ outcome \in {"reading", "metrics", "unreadable", "rejected"}
  /\ records \in 0..MaxRecords /\ malformed \in 0..records
  /\ volume \in [packets : Nat, total : Nat, payload : Nat]
  /\ Len(segments) <= volume.packets /\ volume.packets + malformed <= records
  /\ baseSeq \in [Direction -> (0..(SeqSpace - 1)) \cup {None}]
  /\ peerAck \in [Direction -> (0..(SeqSpace - 1)) \cup {None}]
  /\ count \in [{"retransmission", "outOfOrder", "spurious", "zeroWindow", "reset"} -> Nat]

\* A connection that keeps within half of the sequence space: every byte of a
\* direction lies so near to its SYN, and so does every acknowledgement of it.
\* Numbers further apart than that say nothing about which came first.
Near(s, isn) ==
  /\ s.syn => s.seq = isn[s.dir]
  /\ Relative(s.seq, isn[s.dir]) + s.payload <= SeqSpace \div 2
  /\ s.ackFlag => Relative(s.ack, isn[Reply(s.dir)]) <= SeqSpace \div 2

ShortConnection ==
  \E isn \in [Direction -> 0..(SeqSpace - 1)] :
    \A p \in Packets : p.transport = "tcp" => Near(Segment(p), isn)

\* Whatever lengths a capture declares, the totals do not contradict each other:
\* a capture that can be read gives metrics (models.py:129-149 never raises).
ReadableGivesMetrics == outcome # "rejected"
=============================================================================
