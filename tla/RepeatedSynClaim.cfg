\* A SYN that is repeated after its answer.
CONSTANTS
  SeqSpace = 16
  TcpUnit = 2
  UdpHeader = 1
  Packets <- MCAllPackets
  MaxRecords = 6
  FromStart = TRUE
SPECIFICATION CaptureSpec
INVARIANTS
  OneSamplePerHandshake
