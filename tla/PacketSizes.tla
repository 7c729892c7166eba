---------------------------- MODULE PacketSizes ----------------------------
(***************************************************************************)
(* The byte arithmetic of packet_reader.py: how much of a packet is        *)
(* payload, from header fields that a capture may contain with any value.  *)
(***************************************************************************)
EXTENDS Integers

CONSTANTS
  TcpUnit,         \* bytes per unit of the TCP data offset (4)
  UdpHeader        \* bytes of a UDP header (8)

ASSUME SizesAssumption == TcpUnit \in Nat /\ UdpHeader \in Nat

Larger(m, n) == IF m > n THEN m ELSE n
Smaller(m, n) == IF m < n THEN m ELSE n

\* The declared length, or the captured one when offloading left it at zero.
\* IPv6 does not count its fixed header in it (`fixed' is 0 for IPv4).
IpBytes(p) == IF p.declared > 0 THEN p.fixed + p.declared
                                ELSE Larger(p.captured, p.fixed)

IpPayload(p) == Larger(0, IpBytes(p) - p.header)

\* A mutant: the length a UDP header declares is believed.
PayloadDeclared(p) ==
  CASE p.transport = "tcp" -> Larger(0, IpPayload(p) - p.offset * TcpUnit)
    [] p.transport = "udp" -> Larger(0, p.length - UdpHeader)
    [] OTHER -> 0

\* What the transport header leaves of it; only TCP and UDP carry any.
PayloadBytes(p) ==
  CASE p.transport = "tcp" -> Larger(0, IpPayload(p) - p.offset * TcpUnit)
    [] p.transport = "udp" -> Smaller(Larger(0, p.length - UdpHeader), IpPayload(p))
    [] OTHER -> 0
=============================================================================
