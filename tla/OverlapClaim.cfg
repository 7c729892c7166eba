\* A segment with old and new bytes, all of them acknowledged.
CONSTANTS
  SeqSpace = 16
  TcpUnit = 2
  UdpHeader = 1
  Packets <- MCAllPackets
  MaxRecords = 6
  FromStart = TRUE
SPECIFICATION CaptureSpec
INVARIANTS
  AckedNotRetransmitted
