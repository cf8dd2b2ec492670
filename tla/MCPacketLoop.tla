----------------------------- MODULE MCPacketLoop -----------------------------
(***************************************************************************)
(* PacketLoop for TLC: the kinds of packet the loop tells apart.           *)
(***************************************************************************)
EXTENDS PacketLoop

FromClient(proto, sport, dst, dport, what) ==
  IpPacket(proto, Client, sport, dst, dport, what)

MCHosts == {Telescope, Client, "dns server", "broadcast", "none"}

MCAddrs == <<"home", "mobile">>

MCScript ==
  << { FromClient("udp", 5353, "dns server", 53, "telescope name"),
       FromClient("icmp", 0, Telescope, 0, "echo request"),
       FromClient("tcp", 7000, Telescope, 4700, "segment") },
     { FromClient("udp", 6000, "broadcast", DISCOVERY_PORT, "scan_iscope") } >>
=============================================================================
