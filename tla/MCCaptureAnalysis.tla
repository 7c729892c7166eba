------------------------ MODULE MCCaptureAnalysis ------------------------
(* Packets of one connection, with the sequence numbers of "out" wrapping. *)
EXTENDS CaptureAnalysis

\* Units: an IP header is 2 bytes, a TCP header 1 unit of 2, a UDP header 1.
Base(transport, declared, captured) ==
  [transport |-> transport, declared |-> declared, captured |-> captured,
   fixed |-> 0, header |-> 2, offset |-> 1, length |-> 3]

Tcp(dir, seq, ack, payload, flags, at) ==
  [tcp |-> [dir |-> dir, seq |-> seq, ack |-> ack, payload |-> 0,
            syn |-> "S" \in flags, ackFlag |-> "A" \in flags,
            fin |-> "F" \in flags, rst |-> "R" \in flags,
            window |-> IF "Z" \in flags THEN 0 ELSE 1, at |-> at]]
    @@ Base("tcp", 4 + payload, 4 + payload)

OutSeq == SeqSpace - 2    \* "out" wraps in its first data; "in" starts at 1

Out(n) == (OutSeq + n) % SeqSpace

MCPackets == {
  Tcp("out", Out(0), 0, 0, {"S"}, 1),            Tcp("out", Out(0), 0, 0, {"S"}, 2),
  Tcp("in", 1, Out(1), 0, {"S", "A", "Z"}, 0),   Tcp("in", 1, Out(1), 0, {"S", "A"}, 3),
  Tcp("out", Out(1), 2, 2, {"A"}, 4),            Tcp("out", Out(3), 2, 1, {"A"}, 4),
  Tcp("out", Out(2), 2, 3, {"A"}, 4),            Tcp("out", Out(4), 2, 2, {"A"}, 4),
  Tcp("in", 2, Out(3), 0, {"A", "Z"}, 4),        Tcp("in", 2, Out(6), 0, {"A"}, 4),
  Tcp("out", Out(6), 2, 0, {"F", "A"}, 5),       Tcp("in", 2, 0, 0, {"R"}, 5) }

\* Packets whose lengths contradict each other, and what offloading produces.
MCOddPackets == {
  [Base("udp", 4, 4) EXCEPT !.length = 9],       [Base("udp", 0, 6) EXCEPT !.length = 0],
  [Base("udp", 1, 9) EXCEPT !.fixed = 4],        Base("icmp", 3, 9),
  Tcp("out", Out(1), 2, -3, {"A"}, 4),
  [Tcp("out", Out(1), 2, 0, {"A"}, 4) EXCEPT !.declared = 0, !.captured = 6] }

MCAllPackets == MCPackets \cup MCOddPackets

\* The packets are of one short connection, as NetworkAnalyzerProofs!CountersTrue asks.
ASSUME PacketsOfShortConnection == ShortConnection
=============================================================================
