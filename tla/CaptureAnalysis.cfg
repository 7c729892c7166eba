CONSTANTS
  SeqSpace = 16
  TcpUnit = 2
  UdpHeader = 1
  Packets <- MCAllPackets
  MaxRecords = 6
  FromStart = TRUE
SPECIFICATION CaptureSpec
INVARIANTS
  CoverageIsBytesSeen
  CountersAgree
  HandshakesAgree
  ReadableGivesMetrics
