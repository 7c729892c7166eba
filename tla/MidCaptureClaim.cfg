\* A capture that need not hold the start of the connection.
CONSTANTS
  SeqSpace = 16
  TcpUnit = 2
  UdpHeader = 1
  Packets <- MCAllPackets
  MaxRecords = 6
  FromStart = FALSE
SPECIFICATION CaptureSpec
INVARIANTS
  SpuriousWereAcknowledged
