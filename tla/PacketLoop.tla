------------------------------ MODULE PacketLoop ------------------------------
(***************************************************************************)
(* The packet loop of the WireGuard endpoint (src/src/wireguard/mod.rs):   *)
(* datagrams of the client are decrypted, the packets in them are fed to   *)
(* the TCP stack, and DNS queries, discovery scans and pings are answered  *)
(* on the spot (src/src/wireguard/dns.rs, tunnel_discovery.rs); packets of *)
(* the stack are encrypted and sent to where the client was last heard     *)
(* from, and the telescope is announced every three seconds.               *)
(*                                                                         *)
(* boringtun is external.  Of its state the loop sees whether there is a   *)
(* session, whether it may send on it, and the packets it keeps until it   *)
(* may.  Datagrams are delayed, reordered, duplicated and lost (never      *)
(* read): the network is two sets.  A duplicate, which boringtun refuses,  *)
(* and an IPv6 packet, which the loop ignores, are to it what a keepalive  *)
(* is: a source address and no packet.                                     *)
(* The client roams between addresses.                                     *)
(***************************************************************************)
EXTENDS Naturals, Sequences, FiniteSets, SequencesExt

CONSTANTS
  Addrs,       \* the addresses the client sends from, in the order it roams:
               \* a sequence
  Hosts,       \* inner addresses
  Script,      \* the packets the client may send first, second, ...: a
               \* sequence of sets
  InjectCap,   \* packets on their way to the stack (256)
  EgressCap,   \* packets on their way from it (256)
  QueueCap,    \* packets boringtun keeps for a session
  MaxExpiries  \* bound: how often a session expires

VARIABLES
  (* packet_loop *)
  peer_addr,        \* NoAddr before the first datagram
  session_active,
  inject, egress,   \* the channels to and from the stack
  (* boringtun *)
  session,          \* "none", "made" (the client has not used it) or "current"
  pending,          \* a handshake of its own is under way
  queue,            \* packets waiting for a session
  (* The network and the client *)
  up, down,
  at,               \* its address is Addrs[at]
  joined,           \* it has a session
  sent,             \* the packets it has sent, each with its source address
  (* History *)
  decrypted,        \* the packets boringtun gave the loop
  injected,         \* those that entered the channel to the stack, in order
  dropped,          \* those that did not, the channel being full
  answered,         \* the replies, in order
  expiries,         \* sessions that expired
  heard             \* the client has an announcement since it is where it is

loopVars   == <<peer_addr, session_active, inject, egress>>
tunnVars   == <<session, pending, queue>>
clientVars == <<at, joined, sent, heard>>
history    == <<decrypted, injected, dropped, answered, expiries>>
vars == <<loopVars, tunnVars, up, down, clientVars, history>>

NoAddr    == "nowhere"
Telescope == "telescope"   \* upstream_ip
Client    == "client"      \* client_ip

DISCOVERY_PORT == 4720

(* An IP packet: what the loop looks at.  what stands for the payload, and *)
(* ICMP has no ports.                                                      *)
Protocols == {"none", "tcp", "udp", "icmp"}
Payloads  == {"none", "segment", "telescope name", "address", "scan_iscope",
              "device info", "echo request", "echo reply"}
Packet ==
  {p \in [proto : Protocols, src : Hosts, sport : Nat, dst : Hosts,
          dport : Nat, what : Payloads] :
     p.proto = "icmp" => p.sport = 0 /\ p.dport = 0}

IpPacket(proto, src, sport, dst, dport, what) ==
  [proto |-> proto, src |-> src, sport |-> sport, dst |-> dst,
   dport |-> dport, what |-> what]

(* Datagrams to the endpoint: n is the number of the packet in it, 0 for   *)
(* none.                                                                   *)
Upward(from, type, n)  == [from |-> from, type |-> type, n |-> n]
Downward(to, type, p)  == [to |-> to, type |-> type, packet |-> p]

NoPacket == IpPacket("none", "none", 0, "none", 0, "none")

AddrSet == Range(Addrs)

ASSUME LoopAssumption ==
  /\ Addrs \in Seq(AddrSet) /\ Addrs # <<>>
  /\ {Telescope, Client, "none"} \subseteq Hosts
  /\ Script \in Seq(SUBSET Packet)
  /\ InjectCap \in Nat \ {0} /\ EgressCap \in Nat \ {0} /\ QueueCap \in Nat \ {0}
  /\ MaxExpiries \in Nat

-----------------------------------------------------------------------------
TypeOK ==
  /\ peer_addr \in AddrSet \cup {NoAddr}
  /\ session_active \in BOOLEAN
  /\ inject \in Seq(1 .. Len(sent)) /\ Len(inject) <= InjectCap
  /\ egress \in Seq(Packet) /\ Len(egress) <= EgressCap
  /\ session \in {"none", "made", "current"}
  /\ pending \in BOOLEAN
  /\ queue \in Seq(Packet) /\ Len(queue) <= QueueCap
  /\ up \subseteq [from : AddrSet, type : {"init", "response", "data"},
                   n : 0 .. Len(sent)]
  /\ down \subseteq [to : AddrSet, type : {"init", "response", "data"},
                     packet : Packet]
  /\ at \in 1 .. Len(Addrs) /\ joined \in BOOLEAN
  /\ sent \in Seq([packet : Packet, from : AddrSet]) /\ Len(sent) <= Len(Script)
  /\ heard \in BOOLEAN
  /\ decrypted \subseteq 1 .. Len(sent) /\ dropped \subseteq 1 .. Len(sent)
  /\ injected \in Seq(1 .. Len(sent))
  /\ answered \in Seq([n : 1 .. Len(sent), to : AddrSet, reply : Packet])
  /\ expiries \in 0 .. MaxExpiries

Init ==
  /\ peer_addr = NoAddr /\ session_active = FALSE
  /\ inject = <<>> /\ egress = <<>>
  /\ session = "none" /\ pending = FALSE /\ queue = <<>>
  /\ up = {} /\ down = {}
  /\ at = 1 /\ joined = FALSE /\ sent = <<>> /\ heard = FALSE
  /\ decrypted = {} /\ injected = <<>> /\ dropped = {} /\ answered = <<>>
  /\ expiries = 0

-----------------------------------------------------------------------------
(* What is answered on the spot.  The replies are built by                 *)
(* build_discovery_response, whose source port is always the discovery     *)
(* port.                                                                   *)

build_discovery_response(src, dst, dport, payload) ==
  IpPacket("udp", src, DISCOVERY_PORT, dst, dport, payload)

is_seestar_name(name) == name = "telescope name"

Nothing == {}

handle_dns_query(p) ==
  IF p.proto = "udp" /\ p.dport = 53 /\ is_seestar_name(p.what)
  THEN {build_discovery_response(p.dst, p.src, p.sport, "address")}
  ELSE Nothing

(* A UDP packet of the model has a length field of at least its header's 8 *)
(* bytes.  One below that is ignored on port 53 (dns.rs:152) but on the    *)
(* discovery port it is not checked and the slice of the payload panics,   *)
(* which ends the loop: that end is left out.                              *)
parse_discovery_request(p) == p.proto = "udp" /\ p.dport = DISCOVERY_PORT

handle_discovery(p) ==
  IF parse_discovery_request(p) /\ p.what = "scan_iscope"
  THEN {build_discovery_response(Telescope, p.src, p.sport, "device info")}
  ELSE Nothing

(* A mutant of handle_icmp_echo: the addresses are not swapped.            *)
handle_icmp_echo_Unswapped(p) ==
  IF p.proto = "icmp" /\ p.dst = Telescope /\ p.what = "echo request"
  THEN {[p EXCEPT !.what = "echo reply"]}
  ELSE Nothing

handle_icmp_echo(p) ==
  IF p.proto = "icmp" /\ p.dst = Telescope /\ p.what = "echo request"
  THEN {[p EXCEPT !.src = p.dst, !.dst = p.src, !.what = "echo reply"]}
  ELSE Nothing

(* handle_decrypted_packet: the first handler that has a reply.            *)
Reply(p) ==
  IF handle_dns_query(p) # Nothing THEN handle_dns_query(p)
  ELSE IF handle_discovery(p) # Nothing THEN handle_discovery(p)
  ELSE handle_icmp_echo(p)

(* The announcement is the discovery response nobody asked for.            *)
Announcement ==
  build_discovery_response(Telescope, Client, DISCOVERY_PORT, "device info")

-----------------------------------------------------------------------------
(* boringtun                                                               *)

Here == Addrs[at]

(* What is sent arrives only where the client is.  Packets other than the  *)
(* announcement change nothing in the model when they do.                  *)
Put(ds) ==
  down' = down \cup {d \in ds : d.to = Here /\ d.packet \in {NoPacket, Announcement}}

Own(to) == Downward(to, "init", NoPacket)

(* encapsulate: on a session the packet is sent; otherwise it is kept, and *)
(* a handshake is begun unless one is under way.                           *)
Encapsulate(p, to) ==
  IF session = "current"
  THEN Put({Downward(to, "data", p)}) /\ UNCHANGED tunnVars
  ELSE /\ queue' = IF Len(queue) < QueueCap THEN Append(queue, p) ELSE queue
       /\ pending' = TRUE
       /\ Put(IF pending THEN {} ELSE {Own(to)})
       /\ UNCHANGED session

(* decapsulate of an empty datagram, which the loop tries after a result   *)
(* that was sent, once the session is active: the first packet kept is     *)
(* encapsulated again.  own says whether a handshake of ours is under way. *)
Flush(s, own, to, sends) ==
  LET flushes == session_active /\ queue # <<>>
      first   == IF s = "current" THEN {Downward(to, "data", Head(queue))}
                 ELSE IF own THEN {} ELSE {Own(to)}
  IN  /\ queue' = IF ~flushes THEN queue
                  ELSE IF s = "current" THEN Tail(queue)
                  ELSE Append(Tail(queue), Head(queue))
      /\ pending' = (own \/ (flushes /\ s # "current"))
      /\ Put(sends \cup IF flushes THEN first ELSE {})

-----------------------------------------------------------------------------
(* A datagram d is read                                                    *)

(* Every datagram tells where the client is, before it is known to be the  *)
(* client's.  A mutant: only the first does.                               *)
Whereabouts_First(src) == IF peer_addr = NoAddr THEN src ELSE peer_addr
Whereabouts(src) == src

(* Having been read it is gone; a packet's may come again, a duplicate.    *)
(* (One without a packet does again what it does when it comes late.)      *)
Taken(d) ==
  \/ up' = up \ {d}
  \/ d.n # 0 /\ up' = (up \ {d}) \cup {Upward(d.from, "data", 0)}

(* A handshake message of the client, answered with a response.  Like the  *)
(* next, the loop then decrypts the same datagram again if something was   *)
(* flushed; boringtun refuses it.                                          *)
ReadInit(d) ==
  /\ d.type = "init"
  /\ session' = IF session = "none" THEN "made" ELSE session
  /\ Flush(session, pending, d.from, {Downward(d.from, "response", NoPacket)})
  /\ UNCHANGED <<session_active, inject, history>>

(* The client's response to a handshake of ours: a keepalive goes out.     *)
ReadResponse(d) ==
  /\ d.type = "response"
  /\ pending
  /\ session' = "current"
  /\ Flush("current", FALSE, d.from, {})
  /\ UNCHANGED <<session_active, inject, history>>

(* Whether the packet is passed on to the stack and to the handlers.       *)
(* A mutant: the one that makes the session active is not.                 *)
Processed_NotFirst == session_active
Processed == TRUE

(* An IPv4 packet: try_send to the stack, then the handlers, whose reply   *)
(* goes to the source of this datagram.                                    *)
ReadPacket(d) ==
  /\ d.type = "data" /\ d.n # 0
  /\ session # "none"
  /\ session' = "current"
  /\ session_active' = TRUE
  /\ decrypted' = decrypted \cup {d.n}
  /\ IF Processed /\ Len(inject) < InjectCap
     THEN /\ inject' = Append(inject, d.n)
          /\ injected' = Append(injected, d.n)
          /\ UNCHANGED dropped
     ELSE /\ dropped' = IF Processed THEN dropped \cup {d.n} ELSE dropped
          /\ UNCHANGED <<inject, injected>>
  /\ LET replies == IF Processed THEN Reply(sent[d.n].packet) ELSE {}
     IN  /\ Put({Downward(d.from, "data", r) : r \in replies})
         /\ answered' = answered \o
              SetToSeq({[n |-> d.n, to |-> d.from, reply |-> r] : r \in replies})
  /\ UNCHANGED <<pending, queue, expiries>>

(* A keepalive is decrypted and ignored; the rest boringtun refuses.       *)
ReadNothing(d) ==
  /\ \/ /\ d.type = "data" /\ d.n = 0 /\ session # "none"
        /\ session' = "current"
     \/ /\ \/ d.type = "data" /\ session = "none"
           \/ d.type = "response" /\ ~pending
        /\ UNCHANGED session
  /\ UNCHANGED <<pending, queue, session_active, inject, down, history>>

ReadDatagram(d) ==
  /\ peer_addr' = Whereabouts(d.from)
  /\ ReadInit(d) \/ ReadResponse(d) \/ ReadPacket(d) \/ ReadNothing(d)
  /\ Taken(d)
  /\ UNCHANGED <<egress, clientVars>>

-----------------------------------------------------------------------------
(* The other branches of the loop                                          *)

SendEgress ==
  /\ egress # <<>>
  /\ egress' = Tail(egress)
  /\ IF peer_addr = NoAddr THEN UNCHANGED <<tunnVars, down>>
     ELSE Encapsulate(Head(egress), peer_addr)
  /\ UNCHANGED <<peer_addr, session_active, inject, up, clientVars, history>>

Announce ==
  /\ session_active
  /\ peer_addr # NoAddr
  /\ Encapsulate(Announcement, peer_addr)
  /\ UNCHANGED <<loopVars, up, clientVars, history>>

(* The 250 ms timer: boringtun repeats its handshake.                      *)
Tick ==
  /\ peer_addr # NoAddr
  /\ pending
  /\ Put({Own(peer_addr)})
  /\ UNCHANGED <<loopVars, tunnVars, up, clientVars, history>>

(* After a time boringtun gives the handshake up and drops what it kept    *)
(* (ConnectionExpired).                                                    *)
GiveUp ==
  /\ peer_addr # NoAddr
  /\ pending
  /\ pending' = FALSE /\ queue' = <<>>
  /\ UNCHANGED <<loopVars, session, up, down, clientVars, history>>

(* The timer, too: both ends give up a session that was not renewed in     *)
(* time.  What was sent on it is then no longer on its way.                *)
Expire ==
  /\ session = "current" /\ joined
  /\ expiries < MaxExpiries
  /\ expiries' = expiries + 1
  /\ session' = "none" /\ joined' = FALSE
  /\ up' = {d \in up : d.type # "data"}
  /\ UNCHANGED <<loopVars, pending, queue, down, at, sent, heard, decrypted,
                 injected, dropped, answered>>

(* The stack takes a packet and may have one to send.                      *)
StackTurn ==
  /\ inject # <<>>
  /\ inject' = Tail(inject)
  /\ LET p == sent[Head(inject)].packet
     IN  egress' = IF p.proto = "tcp" /\ Len(egress) < EgressCap
                   THEN Append(egress, [p EXCEPT !.src = p.dst, !.dst = p.src])
                   ELSE egress
  /\ UNCHANGED <<peer_addr, session_active, tunnVars, up, down, clientVars, history>>

-----------------------------------------------------------------------------
(* The client                                                              *)

Sends(d) == up' = up \cup {d} /\ UNCHANGED <<loopVars, tunnVars, down, history>>

(* A client without a session, or whose packets bring nothing back.        *)
ClientInit ==
  /\ ~joined \/ session = "none"
  /\ Sends(Upward(Here, "init", 0))
  /\ UNCHANGED clientVars

ClientPacket ==
  /\ joined
  /\ Len(sent) < Len(Script)
  /\ \E p \in Script[Len(sent) + 1] :
       sent' = Append(sent, [packet |-> p, from |-> Here])
  /\ Sends(Upward(Here, "data", Len(sent) + 1))
  /\ UNCHANGED <<at, joined, heard>>

ClientKeepalive ==
  /\ joined
  /\ Sends(Upward(Here, "data", 0))
  /\ UNCHANGED clientVars

(* What arrives where the client is: a response completes its handshake,   *)
(* a handshake of ours is answered.                                        *)
ClientReceives(d) ==
  /\ down' = down \ {d}
  /\ joined' = (joined \/ (d.type = "response" /\ session # "none")
                       \/ (d.type = "init" /\ pending))
  /\ up' = IF d.type = "init" /\ pending
           THEN up \cup {Upward(Here, "response", 0)} ELSE up
  /\ heard' = (heard \/ (joined /\ d.packet = Announcement))
  /\ UNCHANGED <<loopVars, tunnVars, at, sent, history>>

(* What was sent to its old address is lost.                               *)
Roam ==
  /\ at < Len(Addrs)
  /\ at' = at + 1
  /\ heard' = FALSE
  /\ down' = {}
  /\ UNCHANGED <<loopVars, tunnVars, up, joined, sent, history>>

-----------------------------------------------------------------------------
Next ==
  \/ \E d \in up : ReadDatagram(d)
  \/ SendEgress \/ Announce \/ Tick \/ GiveUp \/ Expire \/ StackTurn
  \/ ClientInit \/ ClientPacket \/ ClientKeepalive \/ Roam
  \/ \E d \in down : ClientReceives(d)

(* The tasks of the runtime and the timer of the announcements run; the    *)
(* client goes on sending keepalives, or handshakes while it has no        *)
(* session, and of what is sent from and to its present address something  *)
(* of each type gets through.  (That a handshake of the endpoint's own     *)
(* ever completes is not needed.)                                          *)
ReadFresh(t) == \E d \in up : d.from = Here /\ d.type = t /\ ReadDatagram(d)
Arrives(t)   == \E d \in down : d.type = t /\ ClientReceives(d)

Fairness ==
  /\ WF_vars(ReadFresh("init")) /\ WF_vars(ReadFresh("data"))
  /\ WF_vars(Arrives("response")) /\ WF_vars(Arrives("data"))
  /\ WF_vars(Announce)
  /\ WF_vars(ClientInit) /\ WF_vars(ClientKeepalive)

Spec == Init /\ [][Next]_vars /\ Fairness

-----------------------------------------------------------------------------
Once(s) == \A i, j \in DOMAIN s : s[i] = s[j] => i = j

(* However datagrams are repeated, and however often the loop decrypts the *)
(* same one, each packet the tunnel brings is fed to the stack exactly     *)
(* once, or dropped because the channel was full; the very first, which    *)
(* makes the session active, like any other.  A query, scan or ping among  *)
(* them has exactly one reply, whether or not the channel had room.        *)
EachPacketOnce ==
  /\ Once(injected)
  /\ Range(injected) \cap dropped = {}
  /\ Range(injected) \cup dropped = decrypted
  /\ Once([i \in DOMAIN answered |-> answered[i].n])
  /\ {answered[i].n : i \in DOMAIN answered} =
       {n \in decrypted : Reply(sent[n].packet) # Nothing}

(* A packet on its way was not yet decrypted, and comes from where it was  *)
(* sent: a duplicate carries none.                                         *)
FreshPackets ==
  \A d \in up : d.n # 0 => /\ d.type = "data" /\ d.n \notin decrypted
                           /\ d.from = sent[d.n].from

(* The variables keep their types, and packets are handled once.           *)
LoopInv == TypeOK /\ FreshPackets /\ EachPacketOnce

(* A reply goes to the datagram's source, to the asker's inner address and *)
(* port, and comes from the address that was asked, the telescope for a    *)
(* scan: also while the client roams and old datagrams come late.          *)
RepliesMirrored ==
  \A i \in DOMAIN answered :
    LET a == answered[i]
        q == sent[a.n]
    IN  /\ a.to = q.from
        /\ a.reply.dst = q.packet.src /\ a.reply.dport = q.packet.sport
        /\ a.reply.src = IF parse_discovery_request(q.packet) THEN Telescope
                                                              ELSE q.packet.dst

(* "Periodic discovery announcements": once a session was active, a client *)
(* that stays where it is hears one, though it roamed, though late         *)
(* datagrams from its old address turned the endpoint back there, and      *)
(* though the session expired.                                             *)
AnnouncementsArrive == session_active ~> heard
=============================================================================
