--------------------------- MODULE PacketLoopProofs ---------------------------
(***************************************************************************)
(* Proofs about the packet loop of the WireGuard endpoint, for any packets *)
(* and addresses of the client, any capacities and any number of expired   *)
(* sessions, however datagrams are delayed, repeated, reordered and lost.  *)
(***************************************************************************)
EXTENDS PacketLoop, FiniteSetTheorems, TLAPS

-----------------------------------------------------------------------------
(* Lemmas about the operators                                              *)

(* There is one sequence without elements, and one with a given element.   *)
LEMMA SetToSeqEmpty == SetToSeq({}) = <<>>
<1>1. Cardinality({}) = 0
  BY FS_EmptySet
<1>2. \A f \in [1 .. 0 -> {}] : f = <<>>
  OBVIOUS
<1>3. <<>> \in [1 .. 0 -> {}] /\ IsInjective(<<>>)
  BY DEF IsInjective
<1> QED
  BY <1>1, <1>2, <1>3 DEF SetToSeq

(* A reply, as a sequence of packets.                                      *)
LEMMA SetToSeqOne == ASSUME NEW x PROVE SetToSeq({x}) = <<x>>
<1>1. Cardinality({x}) = 1
  BY FS_Singleton
<1>2. \A f \in [1 .. 1 -> {x}] : f = <<x>>
  OBVIOUS
<1>3. <<x>> \in [1 .. 1 -> {x}] /\ IsInjective(<<x>>)
  BY DEF IsInjective
<1> QED
  BY <1>1, <1>2, <1>3 DEF SetToSeq

(* A packet has at most one reply, which mirrors its addresses.            *)
LEMMA OneReply ==
  ASSUME NEW p \in Packet
  PROVE  \/ Reply(p) = {}
         \/ \E r \in Packet :
              /\ Reply(p) = {r}
              /\ r.dst = p.src /\ r.dport = p.sport
              /\ r.src = IF parse_discovery_request(p) THEN Telescope ELSE p.dst
<1> DEFINE Fields == [proto : Protocols, src : Hosts, sport : Nat, dst : Hosts,
                      dport : Nat, what : Payloads]
<1>1. /\ p \in Fields
      /\ p.proto = "icmp" => p.sport = 0 /\ p.dport = 0
  BY DEF Packet
<1>0. /\ p.src \in Hosts /\ p.dst \in Hosts /\ p.sport \in Nat
      /\ "udp" \in Protocols /\ "address" \in Payloads
      /\ "device info" \in Payloads /\ "echo reply" \in Payloads
      /\ Telescope \in Hosts /\ DISCOVERY_PORT \in Nat
  <2>1. p.src \in Hosts /\ p.dst \in Hosts /\ p.sport \in Nat
    BY <1>1
  <2>2. /\ "udp" \in Protocols /\ "address" \in Payloads
        /\ "device info" \in Payloads /\ "echo reply" \in Payloads
    BY DEF Protocols, Payloads
  <2>3. Telescope \in Hosts /\ DISCOVERY_PORT \in Nat
    BY LoopAssumption DEF DISCOVERY_PORT
  <2> QED
    BY <2>1, <2>2, <2>3
<1>2. CASE p.proto = "udp" /\ p.dport = 53 /\ is_seestar_name(p.what)
  <2> DEFINE r == IpPacket("udp", p.dst, DISCOVERY_PORT, p.src, p.sport, "address")
  <2>1. Reply(p) = {r}
    <3>1. handle_dns_query(p) = {r}
      BY <1>2 DEF handle_dns_query, build_discovery_response
    <3> HIDE DEF r
    <3>2. handle_dns_query(p) # Nothing
      BY <3>1 DEF Nothing
    <3> QED
      BY <3>1, <3>2 DEF Reply
  <2>2. r \in Fields /\ r.proto = "udp"
    BY <1>0 DEF IpPacket
  <2>3. r \in Packet
    BY <2>2 DEF Packet
  <2>4. r.dst = p.src /\ r.dport = p.sport /\ r.src = p.dst
    BY DEF IpPacket
  <2>5. ~ parse_discovery_request(p)
    BY <1>2 DEF parse_discovery_request, DISCOVERY_PORT
  <2> QED
    BY <2>1, <2>3, <2>4, <2>5
<1>3. CASE /\ handle_dns_query(p) = Nothing
           /\ parse_discovery_request(p) /\ p.what = "scan_iscope"
  <2> DEFINE r == IpPacket("udp", Telescope, DISCOVERY_PORT, p.src, p.sport,
                           "device info")
  <2>1. Reply(p) = {r}
    <3>1. handle_discovery(p) = {r}
      BY <1>3 DEF handle_discovery, build_discovery_response
    <3> HIDE DEF r
    <3>2. handle_discovery(p) # Nothing
      BY <3>1 DEF Nothing
    <3> QED
      BY <1>3, <3>1, <3>2 DEF Reply
  <2>2. r \in Fields /\ r.proto = "udp"
    BY <1>0 DEF IpPacket
  <2>3. r \in Packet
    BY <2>2 DEF Packet
  <2>4. r.dst = p.src /\ r.dport = p.sport /\ r.src = Telescope
    BY DEF IpPacket
  <2> QED
    BY <1>3, <2>1, <2>3, <2>4
<1>4. CASE /\ handle_dns_query(p) = Nothing /\ handle_discovery(p) = Nothing
           /\ p.proto = "icmp" /\ p.dst = Telescope /\ p.what = "echo request"
  <2> DEFINE r == [p EXCEPT !.src = p.dst, !.dst = p.src, !.what = "echo reply"]
  <2>1. Reply(p) = {r}
    <3>1. handle_icmp_echo(p) = {r}
      BY <1>4 DEF handle_icmp_echo
    <3> HIDE DEF r
    <3> QED
      BY <1>4, <3>1 DEF Reply
  <2>2. /\ r \in Fields /\ r.proto = p.proto /\ r.dst = p.src /\ r.src = p.dst
        /\ r.sport = p.sport /\ r.dport = p.dport
    BY <1>0, <1>1
  <2>3. r \in Packet /\ r.dport = p.sport
    BY <1>1, <1>4, <2>2 DEF Packet
  <2>4. ~ parse_discovery_request(p)
    BY <1>4 DEF parse_discovery_request
  <2> QED
    BY <2>1, <2>2, <2>3, <2>4
<1>5. handle_dns_query(p) = Nothing
        <=> ~ (p.proto = "udp" /\ p.dport = 53 /\ is_seestar_name(p.what))
  BY DEF handle_dns_query, Nothing
<1>6. handle_discovery(p) = Nothing
        <=> ~ (parse_discovery_request(p) /\ p.what = "scan_iscope")
  BY DEF handle_discovery, Nothing
<1>7. CASE /\ handle_dns_query(p) = Nothing /\ handle_discovery(p) = Nothing
           /\ ~ (p.proto = "icmp" /\ p.dst = Telescope /\ p.what = "echo request")
  BY <1>7 DEF Reply, handle_icmp_echo, Nothing
<1> QED
  BY <1>2, <1>3, <1>4, <1>5, <1>6, <1>7

-----------------------------------------------------------------------------
(* The invariant in three parts: what the loop and boringtun hold, what    *)
(* the client holds, and the packets.  Each step disturbs few of them.     *)

Kinds      == {"init", "response", "data"}
Upwards(m) == [from : AddrSet, type : Kinds, n : 0 .. m]
Downwards  == [to : AddrSet, type : Kinds, packet : Packet]
Sent       == [packet : Packet, from : AddrSet]
Answers(m) == [n : 1 .. m, to : AddrSet, reply : Packet]

EndpointTypes ==
  /\ peer_addr \in AddrSet \cup {NoAddr} /\ session_active \in BOOLEAN
  /\ egress \in Seq(Packet) /\ Len(egress) <= EgressCap
  /\ session \in {"none", "made", "current"} /\ pending \in BOOLEAN
  /\ queue \in Seq(Packet) /\ Len(queue) <= QueueCap

ClientTypes ==
  /\ down \subseteq Downwards
  /\ at \in 1 .. Len(Addrs) /\ joined \in BOOLEAN /\ heard \in BOOLEAN

PacketTypes ==
  /\ inject \in Seq(1 .. Len(sent)) /\ Len(inject) <= InjectCap
  /\ up \subseteq Upwards(Len(sent))
  /\ sent \in Seq(Sent) /\ Len(sent) <= Len(Script)
  /\ decrypted \subseteq 1 .. Len(sent) /\ dropped \subseteq 1 .. Len(sent)
  /\ injected \in Seq(1 .. Len(sent))
  /\ answered \in Seq(Answers(Len(sent)))
  /\ expiries \in 0 .. MaxExpiries

PacketInv == PacketTypes /\ FreshPackets /\ EachPacketOnce /\ RepliesMirrored

AllInv == EndpointTypes /\ ClientTypes /\ PacketInv

(* The parts make up the invariants that TLC checks.                       *)
LEMMA PartsMakeLoopInv == AllInv => LoopInv /\ RepliesMirrored
BY DEF AllInv, EndpointTypes, ClientTypes, PacketTypes, PacketInv, LoopInv,
   TypeOK, Upwards, Downwards, Sent, Answers, Kinds

(* The sequences the model is given.                                       *)
LEMMA GivenSequences ==
  /\ Len(Addrs) \in Nat \ {0} /\ Len(Script) \in Nat
  /\ \A i \in 1 .. Len(Addrs) : Addrs[i] \in AddrSet
  /\ \A i \in 1 .. Len(Script) : Script[i] \subseteq Packet
<1>1. /\ Addrs \in Seq(AddrSet) /\ Addrs # <<>>
      /\ Script \in Seq(SUBSET Packet)
  BY LoopAssumption
<1>2. Len(Addrs) \in Nat \ {0} /\ \A i \in 1 .. Len(Addrs) : Addrs[i] \in AddrSet
  BY <1>1
<1>3. /\ Len(Script) \in Nat
      /\ \A i \in 1 .. Len(Script) : Script[i] \in SUBSET Packet
  BY <1>1
<1> QED
  BY <1>2, <1>3

(* The packets the endpoint makes are packets.                             *)
LEMMA MadePackets ==
  /\ NoPacket \in Packet /\ Announcement \in Packet
  /\ \A p \in Packet : [p EXCEPT !.src = p.dst, !.dst = p.src] \in Packet
<1> DEFINE Fields == [proto : Protocols, src : Hosts, sport : Nat, dst : Hosts,
                      dport : Nat, what : Payloads]
<1>1. Telescope \in Hosts /\ Client \in Hosts /\ "none" \in Hosts
  BY LoopAssumption
<1>2. /\ "none" \in Protocols /\ "udp" \in Protocols
      /\ "none" \in Payloads /\ "device info" \in Payloads
  BY DEF Protocols, Payloads
<1>3. DISCOVERY_PORT \in Nat /\ 0 \in Nat
  BY DEF DISCOVERY_PORT
<1>4. NoPacket \in Packet
  <2>1. NoPacket \in Fields /\ NoPacket.proto = "none"
    BY <1>1, <1>2, <1>3 DEF NoPacket, IpPacket
  <2> QED
    BY <2>1 DEF Packet
<1>5. Announcement \in Packet
  <2>1. Announcement \in Fields /\ Announcement.proto = "udp"
    BY <1>1, <1>2, <1>3 DEF Announcement, build_discovery_response, IpPacket
  <2> QED
    BY <2>1 DEF Packet
<1>6. ASSUME NEW p \in Packet
      PROVE  [p EXCEPT !.src = p.dst, !.dst = p.src] \in Packet
  <2> DEFINE r == [p EXCEPT !.src = p.dst, !.dst = p.src]
  <2>1. /\ p \in Fields
        /\ p.proto = "icmp" => p.sport = 0 /\ p.dport = 0
    BY DEF Packet
  <2>2. /\ r \in Fields /\ r.proto = p.proto
        /\ r.sport = p.sport /\ r.dport = p.dport
    BY <2>1
  <2> HIDE DEF r
  <2>3. r \in Packet
    BY <2>1, <2>2 DEF Packet
  <2> QED
    BY <2>3 DEF r
<1> QED
  BY <1>4, <1>5, <1>6

(* Sequences with an element appended, without the first, or moved around. *)
LEMMA Appended ==
  ASSUME NEW S, NEW s \in Seq(S), NEW r \in S
  PROVE  /\ Append(s, r) \in Seq(S) /\ Len(s) \in Nat
         /\ Len(Append(s, r)) = Len(s) + 1
         /\ \A i \in 1 .. Len(s) + 1 :
              Append(s, r)[i] = IF i = Len(s) + 1 THEN r ELSE s[i]
OBVIOUS

(* A queue without its first element.                                      *)
LEMMA Tailed ==
  ASSUME NEW S, NEW s \in Seq(S), s # <<>>
  PROVE  /\ Tail(s) \in Seq(S) /\ Head(s) \in S /\ Len(s) \in Nat \ {0}
         /\ Len(Tail(s)) = Len(s) - 1
OBVIOUS

(* A queue whose first element has become its last.                        *)
LEMMA Turned ==
  ASSUME NEW S, NEW s \in Seq(S), s # <<>>
  PROVE  /\ Append(Tail(s), Head(s)) \in Seq(S)
         /\ Len(Append(Tail(s), Head(s))) = Len(s)
BY Tailed, Appended

(* A sequence over a set is one over every larger set.                     *)
LEMMA Wider ==
  ASSUME NEW S, NEW T, S \subseteq T, NEW s \in Seq(S)
  PROVE  s \in Seq(T)
OBVIOUS

(* Nothing appended.                                                       *)
LEMMA ConcatEmpty == ASSUME NEW S, NEW s \in Seq(S) PROVE s \o <<>> = s
OBVIOUS

(* One element appended.                                                   *)
LEMMA ConcatOne ==
  ASSUME NEW S, NEW s \in Seq(S), NEW r \in S
  PROVE  s \o <<r>> = Append(s, r)
OBVIOUS

(* The elements of a sequence with one more.                               *)
LEMMA AppendedRange ==
  ASSUME NEW S, NEW s \in Seq(S), NEW r \in S
  PROVE  Range(Append(s, r)) = Range(s) \cup {r}
<1>1. /\ DOMAIN s = 1 .. Len(s) /\ Len(s) \in Nat
      /\ DOMAIN Append(s, r) = 1 .. Len(s) + 1
      /\ \A i \in 1 .. Len(s) + 1 :
           Append(s, r)[i] = IF i = Len(s) + 1 THEN r ELSE s[i]
  BY Appended
<1>2. ASSUME NEW x \in Range(Append(s, r)) PROVE x \in Range(s) \cup {r}
  BY <1>1 DEF Range
<1>3. ASSUME NEW x \in Range(s) PROVE x \in Range(Append(s, r))
  <2>1. PICK i \in 1 .. Len(s) : x = s[i]
    BY <1>1 DEF Range
  <2>2. i \in 1 .. Len(s) + 1 /\ i # Len(s) + 1
    BY <1>1
  <2> QED
    BY <1>1, <2>1, <2>2 DEF Range
<1>4. r \in Range(Append(s, r))
  <2>1. Len(s) + 1 \in 1 .. Len(s) + 1
    BY <1>1
  <2> QED
    BY <1>1, <2>1 DEF Range
<1> QED
  BY <1>2, <1>3, <1>4

(* A datagram that is made is one.                                         *)
LEMMA MadeDatagrams ==
  /\ \A t \in AddrSet, k \in Kinds, p \in Packet : Downward(t, k, p) \in Downwards
  /\ \A m \in Nat : \A f \in AddrSet, k \in Kinds, n \in 0 .. m :
       Upward(f, k, n) \in Upwards(m)
BY DEF Downward, Upward, Downwards, Upwards

(* What is sent to the client keeps its type.                              *)
LEMMA PutTypes ==
  ASSUME down \subseteq Downwards, NEW ds \in SUBSET Downwards, Put(ds)
  PROVE  down' \subseteq Downwards
BY DEF Put

-----------------------------------------------------------------------------
(* Types of what the endpoint holds                                        *)

tunnelTypes ==
  /\ session \in {"none", "made", "current"} /\ pending \in BOOLEAN
  /\ queue \in Seq(Packet) /\ Len(queue) <= QueueCap
  /\ down \subseteq Downwards

(* boringtun's queue keeps its capacity when a packet is encapsulated ...  *)
LEMMA EncapsulateTypes ==
  ASSUME tunnelTypes, NEW p \in Packet, NEW to \in AddrSet, Encapsulate(p, to)
  PROVE  tunnelTypes'
<1>0. QueueCap \in Nat /\ NoPacket \in Packet
  BY LoopAssumption, MadePackets
<1>1. CASE session = "current"
  <2>1. {Downward(to, "data", p)} \in SUBSET Downwards
    BY MadeDatagrams DEF Kinds
  <2>2. down' \subseteq Downwards
    BY <1>1, <2>1, PutTypes DEF Encapsulate, tunnelTypes
  <2> QED
    BY <1>1, <2>2 DEF Encapsulate, tunnVars, tunnelTypes
<1>2. CASE session # "current"
  <2>1. /\ queue' = IF Len(queue) < QueueCap THEN Append(queue, p) ELSE queue
        /\ pending' = TRUE /\ session' = session
        /\ Put(IF pending THEN {} ELSE {Own(to)})
    BY <1>2 DEF Encapsulate
  <2>2. queue' \in Seq(Packet) /\ Len(queue') <= QueueCap
    <3>1. queue \in Seq(Packet) /\ Len(queue) <= QueueCap
      BY DEF tunnelTypes
    <3> QED
      BY <3>1, <2>1, <1>0, Appended
  <2>3. {Own(to)} \in SUBSET Downwards
    BY <1>0, MadeDatagrams DEF Own, Kinds
  <2>4. (IF pending THEN {} ELSE {Own(to)}) \in SUBSET Downwards
    BY <2>3
  <2>5. down' \subseteq Downwards
    BY <2>1, <2>4, PutTypes DEF tunnelTypes
  <2>6. pending' \in BOOLEAN
    BY <2>1
  <2> QED
    BY <2>1, <2>2, <2>5, <2>6 DEF tunnelTypes
<1> QED
  BY <1>1, <1>2

(* ... and when one of those it keeps is flushed or put back.              *)
LEMMA FlushTypes ==
  ASSUME tunnelTypes, NEW s, NEW own \in BOOLEAN, NEW to \in AddrSet,
         NEW sends \in SUBSET Downwards, Flush(s, own, to, sends),
         session' \in {"none", "made", "current"}
  PROVE  tunnelTypes'
<1> DEFINE flushes == session_active /\ queue # <<>>
           first   == IF s = "current" THEN {Downward(to, "data", Head(queue))}
                      ELSE IF own THEN {} ELSE {Own(to)}
<1>1. /\ queue' = IF ~flushes THEN queue
                  ELSE IF s = "current" THEN Tail(queue)
                  ELSE Append(Tail(queue), Head(queue))
      /\ pending' = (own \/ (flushes /\ s # "current"))
      /\ Put(sends \cup IF flushes THEN first ELSE {})
  BY DEF Flush
<1>2. queue \in Seq(Packet) /\ Len(queue) <= QueueCap /\ QueueCap \in Nat
  BY LoopAssumption DEF tunnelTypes
<1>3. queue' \in Seq(Packet) /\ Len(queue') <= QueueCap
  <2>1. CASE ~flushes
    BY <1>1, <1>2, <2>1
  <2>2. CASE flushes /\ s = "current"
    BY <1>1, <1>2, <2>2, Tailed
  <2>3. CASE flushes /\ s # "current"
    BY <1>1, <1>2, <2>3, Turned
  <2> QED
    BY <2>1, <2>2, <2>3
<1>4. flushes => first \in SUBSET Downwards
  <2>1. Own(to) \in Downwards
    BY MadePackets, MadeDatagrams DEF Own, Kinds
  <2>2. queue # <<>> => Downward(to, "data", Head(queue)) \in Downwards
    BY <1>2, Tailed, MadeDatagrams DEF Kinds
  <2> QED
    BY <2>1, <2>2
<1>5. (sends \cup IF flushes THEN first ELSE {}) \in SUBSET Downwards
  BY <1>4
<1>6. down' \subseteq Downwards
  BY <1>1, <1>5, PutTypes DEF tunnelTypes
<1>7. pending' \in BOOLEAN
  BY <1>1
<1> QED
  BY <1>3, <1>6, <1>7 DEF tunnelTypes

(* The types of everything but the packets.                                *)
LEMMA ReadTypes ==
  ASSUME AllInv, NEW d \in up, ReadDatagram(d)
  PROVE  EndpointTypes' /\ ClientTypes'
<1>1. d \in Upwards(Len(sent)) /\ d.from \in AddrSet
  BY DEF AllInv, PacketInv, PacketTypes, Upwards
<1>2. /\ peer_addr' = d.from /\ UNCHANGED <<egress, at, joined, sent, heard>>
  BY DEF ReadDatagram, Whereabouts, clientVars
<1>3. tunnelTypes /\ session \in {"none", "made", "current"} /\ pending \in BOOLEAN
  BY DEF AllInv, EndpointTypes, ClientTypes, tunnelTypes
<1>4. tunnelTypes' /\ session_active' \in BOOLEAN
  <2>1. CASE ReadInit(d)
    <3>1. {Downward(d.from, "response", NoPacket)} \in SUBSET Downwards
      BY <1>1, MadePackets, MadeDatagrams DEF Kinds
    <3>2. session' \in {"none", "made", "current"}
      BY <2>1, <1>3 DEF ReadInit
    <3>3. tunnelTypes'
      BY <2>1, <3>1, <3>2, <1>1, <1>3, FlushTypes DEF ReadInit
    <3>4. session_active' = session_active
      BY <2>1 DEF ReadInit
    <3> QED
      BY <3>3, <3>4 DEF AllInv, EndpointTypes
  <2>2. CASE ReadResponse(d)
    <3>1. session' \in {"none", "made", "current"}
      BY <2>2 DEF ReadResponse
    <3>2. tunnelTypes'
      <4>1. Flush("current", FALSE, d.from, {})
        BY <2>2 DEF ReadResponse
      <4>2. FALSE \in BOOLEAN /\ {} \in SUBSET Downwards
        OBVIOUS
      <4> QED
        BY <4>1, <4>2, <3>1, <1>1, <1>3, FlushTypes
    <3>3. session_active' = session_active
      BY <2>2 DEF ReadResponse
    <3> QED
      BY <3>2, <3>3 DEF AllInv, EndpointTypes
  <2>3. CASE ReadPacket(d)
    <3> DEFINE replies == IF Processed THEN Reply(sent[d.n].packet) ELSE {}
    <3>1. /\ d.n # 0 /\ session' = "current" /\ session_active' = TRUE
          /\ UNCHANGED <<pending, queue>>
          /\ Put({Downward(d.from, "data", r) : r \in replies})
      BY <2>3 DEF ReadPacket
    <3>2. d.n \in 1 .. Len(sent) /\ sent \in Seq(Sent)
      BY <1>1, <3>1 DEF AllInv, PacketInv, PacketTypes, Upwards
    <3>3. sent[d.n].packet \in Packet
      <4>1. sent[d.n] \in Sent
        BY <3>2
      <4> QED
        BY <4>1 DEF Sent
    <3>4. Reply(sent[d.n].packet) \subseteq Packet
      BY <3>3, OneReply
    <3>5. {Downward(d.from, "data", r) : r \in replies} \in SUBSET Downwards
      BY <3>4, <1>1, MadeDatagrams DEF Processed, Kinds
    <3>6. down' \subseteq Downwards
      BY <3>1, <3>5, <1>3, PutTypes DEF tunnelTypes
    <3>7. session_active' \in BOOLEAN
      BY <3>1
    <3> QED
      BY <3>1, <3>6, <3>7, <1>3 DEF tunnelTypes
  <2>4. CASE ReadNothing(d)
    <3>1. UNCHANGED <<pending, queue, session_active, down>>
      BY <2>4 DEF ReadNothing
    <3>2. session_active' \in BOOLEAN
      BY <3>1 DEF AllInv, EndpointTypes
    <3>3. session' \in {"none", "made", "current"}
      BY <2>4, <1>3 DEF ReadNothing
    <3> QED
      BY <3>1, <3>2, <3>3, <1>3 DEF tunnelTypes
  <2> QED
    BY <2>1, <2>2, <2>3, <2>4 DEF ReadDatagram
<1>5. EndpointTypes'
  BY <1>1, <1>2, <1>4 DEF AllInv, EndpointTypes, tunnelTypes
<1>6. ClientTypes'
  BY <1>2, <1>4 DEF AllInv, ClientTypes, tunnelTypes
<1> QED
  BY <1>5, <1>6

(* Types after the steps that read no datagram.                            *)
LEMMA OtherTypes ==
  ASSUME AllInv,
         \/ SendEgress \/ Announce \/ Tick \/ GiveUp \/ Expire \/ StackTurn
         \/ ClientInit \/ ClientPacket \/ ClientKeepalive \/ Roam
         \/ \E d \in down : ClientReceives(d)
  PROVE  EndpointTypes' /\ ClientTypes'
<1>1. EndpointTypes /\ ClientTypes /\ PacketTypes /\ tunnelTypes
  BY DEF AllInv, EndpointTypes, ClientTypes, PacketInv, tunnelTypes
<1>2. /\ peer_addr \in AddrSet \cup {NoAddr}
      /\ egress \in Seq(Packet) /\ Len(egress) <= EgressCap
      /\ EgressCap \in Nat
  BY <1>1, LoopAssumption DEF EndpointTypes
<1>3. ASSUME UNCHANGED <<peer_addr, session_active, egress, session>>,
             UNCHANGED <<pending, queue>>
      PROVE  EndpointTypes'
  BY <1>1, <1>3 DEF EndpointTypes
<1>4. ASSUME UNCHANGED clientVars, down' \subseteq Downwards
      PROVE  ClientTypes'
  BY <1>1, <1>4 DEF clientVars, ClientTypes
<1>5. CASE SendEgress
  <2>1. /\ egress # <<>> /\ egress' = Tail(egress)
        /\ UNCHANGED <<peer_addr, session_active, clientVars>>
    BY <1>5 DEF SendEgress
  <2>2. egress' \in Seq(Packet) /\ Len(egress') <= EgressCap
        /\ Head(egress) \in Packet
    BY <2>1, <1>2, Tailed
  <2>3. tunnelTypes'
    <3>1. CASE peer_addr = NoAddr
      BY <1>5, <3>1, <1>1 DEF SendEgress, tunnVars, tunnelTypes
    <3>2. CASE peer_addr # NoAddr
      <4>1. peer_addr \in AddrSet /\ Encapsulate(Head(egress), peer_addr)
        BY <1>5, <3>2, <1>2 DEF SendEgress
      <4> QED
        BY <4>1, <2>2, <1>1, EncapsulateTypes
    <3> QED
      BY <3>1, <3>2
  <2>4. EndpointTypes'
    BY <2>1, <2>2, <2>3, <1>1 DEF EndpointTypes, tunnelTypes
  <2> QED
    BY <2>1, <2>3, <2>4, <1>4 DEF tunnelTypes
<1>6. CASE Announce
  <2>1. /\ peer_addr \in AddrSet /\ Encapsulate(Announcement, peer_addr)
        /\ UNCHANGED <<peer_addr, session_active, egress, clientVars>>
    BY <1>6, <1>2 DEF Announce, loopVars
  <2>2. tunnelTypes'
    BY <2>1, <1>1, MadePackets, EncapsulateTypes
  <2>3. EndpointTypes'
    BY <2>1, <2>2, <1>1 DEF EndpointTypes, tunnelTypes
  <2> QED
    BY <2>1, <2>2, <2>3, <1>4 DEF tunnelTypes
<1>7. CASE Tick
  <2>1. /\ peer_addr \in AddrSet /\ Put({Own(peer_addr)})
        /\ UNCHANGED <<loopVars, tunnVars, clientVars>>
    BY <1>7, <1>2 DEF Tick
  <2>2. {Own(peer_addr)} \in SUBSET Downwards
    BY <2>1, MadePackets, MadeDatagrams DEF Own, Kinds
  <2>3. down' \subseteq Downwards
    BY <2>1, <2>2, <1>1, PutTypes DEF ClientTypes
  <2> QED
    BY <2>1, <2>3, <1>3, <1>4 DEF loopVars, tunnVars
<1>8. CASE GiveUp
  <2>1. /\ pending' = FALSE /\ queue' = <<>>
        /\ UNCHANGED <<peer_addr, session_active, egress, session, down, clientVars>>
    BY <1>8 DEF GiveUp, loopVars
  <2>2. queue' \in Seq(Packet) /\ Len(queue') <= QueueCap
    BY <2>1, LoopAssumption
  <2>3. pending' \in BOOLEAN
    BY <2>1
  <2>4. EndpointTypes'
    BY <2>1, <2>2, <2>3, <1>1 DEF EndpointTypes
  <2> QED
    BY <2>1, <2>4, <1>1, <1>4 DEF ClientTypes
<1>9. CASE Expire
  <2>1. /\ session' = "none" /\ joined' = FALSE
        /\ UNCHANGED <<peer_addr, session_active, egress, pending, queue>>
        /\ UNCHANGED <<down, at, heard>>
    BY <1>9 DEF Expire, loopVars
  <2>2. joined' \in BOOLEAN
    BY <2>1
  <2> QED
    BY <2>1, <2>2, <1>1 DEF EndpointTypes, ClientTypes
<1>10. CASE StackTurn
  <2> DEFINE p == sent[Head(inject)].packet
             r == [p EXCEPT !.src = p.dst, !.dst = p.src]
  <2>1. /\ inject # <<>>
        /\ egress' = IF p.proto = "tcp" /\ Len(egress) < EgressCap
                     THEN Append(egress, r) ELSE egress
        /\ UNCHANGED <<peer_addr, session_active, session, pending, queue, down,
                       clientVars>>
    BY <1>10 DEF StackTurn, tunnVars
  <2>2. inject \in Seq(1 .. Len(sent)) /\ sent \in Seq(Sent)
    BY <1>1 DEF PacketTypes
  <2>3. Head(inject) \in 1 .. Len(sent)
    BY <2>1, <2>2, Tailed
  <2>4. sent[Head(inject)] \in Sent
    BY <2>2, <2>3
  <2>5. p \in Packet
    BY <2>4 DEF Sent
  <2>6. r \in Packet
    BY <2>5, MadePackets
  <2> HIDE DEF p, r
  <2>7. egress' \in Seq(Packet) /\ Len(egress') <= EgressCap
    BY <2>1, <2>6, <1>2, Appended
  <2>8. EndpointTypes'
    BY <2>1, <2>7, <1>1 DEF EndpointTypes
  <2> QED
    BY <2>1, <2>8, <1>1, <1>4 DEF ClientTypes
<1>11. CASE ClientInit \/ ClientKeepalive \/ ClientPacket
  <2>1. UNCHANGED <<loopVars, tunnVars, down, at, joined, heard>>
    BY <1>11 DEF ClientInit, ClientKeepalive, ClientPacket, Sends, clientVars
  <2> QED
    BY <2>1, <1>1, <1>3 DEF loopVars, tunnVars, ClientTypes
<1>12. CASE Roam
  <2>1. /\ at < Len(Addrs) /\ at' = at + 1 /\ heard' = FALSE /\ down' = {}
        /\ UNCHANGED <<loopVars, tunnVars, joined>>
    BY <1>12 DEF Roam
  <2>2. at' \in 1 .. Len(Addrs)
    BY <2>1, <1>1, GivenSequences DEF ClientTypes
  <2>3. heard' \in BOOLEAN
    BY <2>1
  <2> QED
    BY <2>1, <2>2, <2>3, <1>1, <1>3 DEF loopVars, tunnVars, ClientTypes
<1>13. ASSUME NEW d \in down, ClientReceives(d)
       PROVE  EndpointTypes' /\ ClientTypes'
  <2>1. /\ down' = down \ {d} /\ UNCHANGED <<loopVars, tunnVars, at>>
        /\ joined' = (joined \/ (d.type = "response" /\ session # "none")
                             \/ (d.type = "init" /\ pending))
        /\ heard' = (heard \/ (joined /\ d.packet = Announcement))
    BY <1>13 DEF ClientReceives
  <2>2. joined' \in BOOLEAN /\ heard' \in BOOLEAN
    BY <2>1
  <2> QED
    BY <2>1, <2>2, <1>1, <1>3 DEF loopVars, tunnVars, ClientTypes
<1> QED
  BY <1>5, <1>6, <1>7, <1>8, <1>9, <1>10, <1>11, <1>12, <1>13

-----------------------------------------------------------------------------
(* The packets                                                             *)

packetHistory == <<decrypted, injected, dropped, answered>>

(* Steps that decrypt and send no packet: datagrams are taken, made        *)
(* without a packet or lost, and the stack takes from its channel.         *)
LEMMA NoPacketStep ==
  ASSUME PacketInv, UNCHANGED <<packetHistory, sent>>,
         expiries' \in 0 .. MaxExpiries,
         inject' \in Seq(1 .. Len(sent)), Len(inject') <= InjectCap,
         \A d \in up' : d \in up \/ (d \in Upwards(Len(sent)) /\ d.n = 0)
  PROVE  PacketInv'
<1>1. PacketTypes'
  BY DEF PacketInv, PacketTypes, packetHistory
<1>2. FreshPackets'
  BY DEF PacketInv, FreshPackets, packetHistory
<1>3. EachPacketOnce'
  BY DEF PacketInv, EachPacketOnce, packetHistory, Once
<1>4. RepliesMirrored'
  BY DEF PacketInv, RepliesMirrored, packetHistory
<1> QED
  BY <1>1, <1>2, <1>3, <1>4 DEF PacketInv

(* Only one datagram carries a given packet.                               *)
LEMMA OneCarrier ==
  ASSUME PacketInv, NEW d \in up, NEW e \in up, d.n # 0, e.n = d.n
  PROVE  e = d
<1>1. d \in Upwards(Len(sent)) /\ e \in Upwards(Len(sent))
  BY DEF PacketInv, PacketTypes
<1>2. d.type = e.type /\ d.from = e.from
  BY DEF PacketInv, FreshPackets
<1> QED
  BY <1>1, <1>2 DEF Upwards

(* What a packet adds to the history when it is decrypted.                 *)
LEMMA DecryptedOnce ==
  ASSUME PacketInv, NEW n \in 1 .. Len(sent), n \notin decrypted,
         UNCHANGED sent, decrypted' = decrypted \cup {n},
         \/ injected' = Append(injected, n) /\ dropped' = dropped
         \/ injected' = injected /\ dropped' = dropped \cup {n}
  PROVE  /\ Once(injected') /\ Range(injected') \cap dropped' = {}
         /\ Range(injected') \cup dropped' = decrypted'
         /\ injected' \in Seq(1 .. Len(sent'))
         /\ decrypted' \subseteq 1 .. Len(sent')
         /\ dropped' \subseteq 1 .. Len(sent')
<1>1. /\ injected \in Seq(1 .. Len(sent)) /\ Once(injected)
      /\ Range(injected) \cap dropped = {}
      /\ Range(injected) \cup dropped = decrypted
      /\ decrypted \subseteq 1 .. Len(sent) /\ dropped \subseteq 1 .. Len(sent)
  BY DEF PacketInv, PacketTypes, EachPacketOnce
<1>2. CASE injected' = Append(injected, n) /\ dropped' = dropped
  <2>1. Range(injected') = Range(injected) \cup {n}
    BY <1>1, <1>2, AppendedRange
  <2>2. /\ injected' \in Seq(1 .. Len(sent)) /\ Len(injected) \in Nat
        /\ DOMAIN injected = 1 .. Len(injected)
        /\ DOMAIN injected' = 1 .. Len(injected) + 1
        /\ \A i \in 1 .. Len(injected) + 1 :
             injected'[i] = IF i = Len(injected) + 1 THEN n ELSE injected[i]
    BY <1>1, <1>2, Appended
  <2>3. \A i \in 1 .. Len(injected) : injected[i] # n
    BY <1>1, <2>2 DEF Range
  <2>4. Once(injected')
    <3>1. ASSUME NEW i \in 1 .. Len(injected) + 1, NEW j \in 1 .. Len(injected) + 1,
                 injected'[i] = injected'[j]
          PROVE  i = j
      <4>1. CASE i = Len(injected) + 1 \/ j = Len(injected) + 1
        BY <4>1, <3>1, <2>2, <2>3
      <4>2. CASE i # Len(injected) + 1 /\ j # Len(injected) + 1
        <5>1. /\ i \in 1 .. Len(injected) /\ injected'[i] = injected[i]
              /\ j \in 1 .. Len(injected) /\ injected'[j] = injected[j]
          BY <4>2, <2>2
        <5>2. injected[i] = injected[j]
          BY <5>1, <3>1
        <5>3. i \in DOMAIN injected /\ j \in DOMAIN injected
          BY <5>1, <2>2
        <5> QED
          BY <5>2, <5>3, <1>1 DEF Once
      <4> QED
        BY <4>1, <4>2
    <3> QED
      BY <3>1, <2>2 DEF Once
  <2> QED
    BY <1>1, <1>2, <2>1, <2>2, <2>4
<1>3. CASE injected' = injected /\ dropped' = dropped \cup {n}
  BY <1>1, <1>3
<1> QED
  BY <1>2, <1>3

(* What its reply, if it has one, adds to the replies.                     *)
LEMMA AnsweredOnce ==
  ASSUME PacketInv, NEW d \in up, d.n # 0, UNCHANGED sent,
         decrypted' = decrypted \cup {d.n},
         answered' = answered \o
           SetToSeq({[n |-> d.n, to |-> d.from, reply |-> r] :
                       r \in Reply(sent[d.n].packet)})
  PROVE  /\ answered' \in Seq(Answers(Len(sent)))
         /\ Once([i \in DOMAIN answered' |-> answered'[i].n])
         /\ {answered'[i].n : i \in DOMAIN answered'} =
              {n \in decrypted' : Reply(sent[n].packet) # Nothing}
         /\ RepliesMirrored'
<1> DEFINE p == sent[d.n].packet
<1>1. /\ d.n \in 1 .. Len(sent) /\ d.n \notin decrypted /\ d.from \in AddrSet
      /\ d.from = sent[d.n].from /\ sent \in Seq(Sent)
      /\ decrypted \subseteq 1 .. Len(sent)
  BY DEF PacketInv, PacketTypes, Upwards, FreshPackets
<1>2. p \in Packet
  <2>1. sent[d.n] \in Sent
    BY <1>1
  <2> QED
    BY <2>1 DEF Sent
<1>3. /\ answered \in Seq(Answers(Len(sent))) /\ Len(answered) \in Nat
      /\ DOMAIN answered = 1 .. Len(answered)
      /\ \A i, j \in 1 .. Len(answered) : answered[i].n = answered[j].n => i = j
      /\ {answered[i].n : i \in 1 .. Len(answered)} =
           {n \in decrypted : Reply(sent[n].packet) # Nothing}
  <2>1. /\ answered \in Seq(Answers(Len(sent))) /\ Len(answered) \in Nat
        /\ DOMAIN answered = 1 .. Len(answered)
    BY DEF PacketInv, PacketTypes
  <2>2. Once([i \in DOMAIN answered |-> answered[i].n])
    BY DEF PacketInv, EachPacketOnce
  <2>3. \A i, j \in DOMAIN answered : answered[i].n = answered[j].n => i = j
    BY <2>2 DEF Once
  <2>4. {answered[i].n : i \in DOMAIN answered} =
          {n \in decrypted : Reply(sent[n].packet) # Nothing}
    BY DEF PacketInv, EachPacketOnce
  <2> QED
    BY <2>1, <2>3, <2>4
<1>4. CASE Reply(p) = {}
  <2>1. {[n |-> d.n, to |-> d.from, reply |-> r] : r \in Reply(p)} = {}
    BY <1>4
  <2>2. answered' = answered \o <<>>
    BY <2>1, SetToSeqEmpty
  <2>3. answered' = answered
    BY <2>2, <1>3, ConcatEmpty
  <2>4. {n \in decrypted' : Reply(sent[n].packet) # Nothing}
          = {n \in decrypted : Reply(sent[n].packet) # Nothing}
    BY <1>4 DEF Nothing
  <2>5. Once([i \in DOMAIN answered' |-> answered'[i].n])
    BY <2>3 DEF PacketInv, EachPacketOnce
  <2>6. RepliesMirrored'
    BY <2>3 DEF PacketInv, RepliesMirrored
  <2> QED
    BY <1>3, <2>3, <2>4, <2>5, <2>6, ZenonT(40)
<1>5. ASSUME NEW r \in Packet, Reply(p) = {r},
             r.dst = p.src, r.dport = p.sport,
             r.src = IF parse_discovery_request(p) THEN Telescope ELSE p.dst
      PROVE  /\ answered' \in Seq(Answers(Len(sent)))
             /\ Once([i \in DOMAIN answered' |-> answered'[i].n])
             /\ {answered'[i].n : i \in DOMAIN answered'} =
                  {n \in decrypted' : Reply(sent[n].packet) # Nothing}
             /\ RepliesMirrored'
  <2> DEFINE a == [n |-> d.n, to |-> d.from, reply |-> r]
             m == Len(answered) + 1
  <2>1. {[n |-> d.n, to |-> d.from, reply |-> x] : x \in Reply(p)} = {a}
    BY <1>5
  <2>2. a \in Answers(Len(sent)) /\ a.n = d.n /\ a.to = d.from /\ a.reply = r
    BY <1>1 DEF Answers
  <2> HIDE DEF a
  <2>3. answered' = answered \o <<a>>
    BY <2>1, SetToSeqOne
  <2>4. answered' = Append(answered, a)
    BY <2>2, <2>3, <1>3, ConcatOne
  <2>5. /\ answered' \in Seq(Answers(Len(sent)))
        /\ DOMAIN answered' = 1 .. m /\ m \in 1 .. m /\ m \in Nat
        /\ \A i \in 1 .. m : answered'[i] = IF i = m THEN a ELSE answered[i]
    <3>1. m \in 1 .. m /\ m \in Nat
      BY <1>3
    <3>2. /\ answered' \in Seq(Answers(Len(sent)))
          /\ Len(answered') = m
          /\ \A i \in 1 .. m : answered'[i] = IF i = m THEN a ELSE answered[i]
      <4> DEFINE S == Answers(Len(sent))
      <4>1. answered \in Seq(S) /\ a \in S
        BY <2>2, <1>3
      <4> HIDE DEF S
      <4>2. /\ Append(answered, a) \in Seq(S)
            /\ Len(Append(answered, a)) = Len(answered) + 1
            /\ \A i \in 1 .. Len(answered) + 1 : Append(answered, a)[i] =
                 IF i = Len(answered) + 1 THEN a ELSE answered[i]
        BY <4>1, Appended
      <4> QED
        BY <2>4, <4>2 DEF S
    <3>3. DOMAIN answered' = 1 .. Len(answered')
      BY <3>2
    <3> QED
      BY <3>1, <3>2, <3>3
  <2>6. ASSUME NEW i \in 1 .. m, i # m PROVE i \in 1 .. Len(answered)
    BY <2>6, <1>3
  <2>7. \A i \in 1 .. Len(answered) : i \in 1 .. m /\ i # m
    BY <1>3
  <2> HIDE DEF m
  <2>8. \A i \in 1 .. Len(answered) : answered[i].n # d.n
    BY <1>1, <1>3
  <2>9. Once([i \in DOMAIN answered' |-> answered'[i].n])
    <3>1. ASSUME NEW i \in 1 .. m, NEW j \in 1 .. m,
                 answered'[i].n = answered'[j].n
          PROVE  i = j
      <4>1. CASE i = m /\ j # m
        BY <4>1, <3>1, <2>2, <2>5, <2>6, <2>8
      <4>2. CASE i # m /\ j = m
        BY <4>2, <3>1, <2>2, <2>5, <2>6, <2>8
      <4>3. CASE i # m /\ j # m
        BY <4>3, <3>1, <2>5, <2>6, <1>3
      <4> QED
        BY <4>1, <4>2, <4>3
    <3> QED
      BY <3>1, <2>5 DEF Once
  <2>10. {answered'[i].n : i \in DOMAIN answered'}
           = {answered[i].n : i \in 1 .. Len(answered)} \cup {d.n}
    BY <2>2, <2>5, <2>6, <2>7, ZenonT(40)
  <2>11. {n \in decrypted' : Reply(sent[n].packet) # Nothing}
           = {n \in decrypted : Reply(sent[n].packet) # Nothing} \cup {d.n}
    <3>1. Reply(sent[d.n].packet) # Nothing
      BY <1>5 DEF Nothing
    <3> QED
      BY <3>1
  <2>12. RepliesMirrored'
    <3>1. ASSUME NEW i \in DOMAIN answered'
          PROVE  LET b == answered'[i]
                     q == sent'[b.n]
                 IN  /\ b.to = q.from
                     /\ b.reply.dst = q.packet.src
                     /\ b.reply.dport = q.packet.sport
                     /\ b.reply.src = IF parse_discovery_request(q.packet)
                                      THEN Telescope ELSE q.packet.dst
      <4>1. CASE i = m
        BY <4>1, <1>1, <1>5, <2>2, <2>5
      <4>2. CASE i # m
        <5>1. i \in DOMAIN answered /\ answered'[i] = answered[i]
          BY <4>2, <2>5, <2>6, <1>3
        <5> QED
          BY <5>1 DEF PacketInv, RepliesMirrored
      <4> QED
        BY <4>1, <4>2
    <3> QED
      BY <3>1 DEF RepliesMirrored, parse_discovery_request
  <2> QED
    BY <1>3, <2>5, <2>9, <2>10, <2>11, <2>12
<1> QED
  BY <1>2, <1>4, <1>5, OneReply

(* A packet is decrypted.  Its datagram is gone, so nothing carries it any *)
(* more: a duplicate of it carries none.                                   *)
LEMMA ReadPacketStep ==
  ASSUME PacketInv, NEW d \in up, ReadPacket(d), Taken(d), UNCHANGED sent
  PROVE  PacketInv'
<1>1. /\ d.type = "data" /\ d.n # 0 /\ decrypted' = decrypted \cup {d.n}
      /\ expiries' = expiries
      /\ \/ /\ Len(inject) < InjectCap /\ inject' = Append(inject, d.n)
            /\ injected' = Append(injected, d.n) /\ dropped' = dropped
         \/ /\ inject' = inject
            /\ injected' = injected /\ dropped' = dropped \cup {d.n}
  BY DEF ReadPacket, Processed
<1>2. answered' = answered \o
        SetToSeq({[n |-> d.n, to |-> d.from, reply |-> r] :
                    r \in Reply(sent[d.n].packet)})
  BY DEF ReadPacket, Processed
<1>3. /\ d \in Upwards(Len(sent)) /\ d.n \in 1 .. Len(sent)
      /\ d.n \notin decrypted /\ d.from \in AddrSet /\ Len(sent) \in Nat
  BY <1>1 DEF PacketInv, PacketTypes, Upwards, FreshPackets
<1>4. /\ Once(injected') /\ Range(injected') \cap dropped' = {}
      /\ Range(injected') \cup dropped' = decrypted'
      /\ injected' \in Seq(1 .. Len(sent'))
      /\ decrypted' \subseteq 1 .. Len(sent')
      /\ dropped' \subseteq 1 .. Len(sent')
  BY <1>1, <1>3, DecryptedOnce
<1>5. /\ answered' \in Seq(Answers(Len(sent)))
      /\ Once([i \in DOMAIN answered' |-> answered'[i].n])
      /\ {answered'[i].n : i \in DOMAIN answered'} =
           {n \in decrypted' : Reply(sent[n].packet) # Nothing}
      /\ RepliesMirrored'
  BY <1>1, <1>2, AnsweredOnce
<1>6. \A e \in up' : \/ e \in up /\ e # d
                     \/ e \in Upwards(Len(sent)) /\ e.n = 0
  <2>1. Upward(d.from, "data", 0) \in Upwards(Len(sent))
    BY <1>3, MadeDatagrams DEF Kinds
  <2>2. Upward(d.from, "data", 0).n = 0
    BY DEF Upward
  <2> QED
    BY <2>1, <2>2 DEF Taken
<1>7. inject' \in Seq(1 .. Len(sent)) /\ Len(inject') <= InjectCap
  <2>1. /\ inject \in Seq(1 .. Len(sent)) /\ Len(inject) <= InjectCap
        /\ InjectCap \in Nat
    BY LoopAssumption DEF PacketInv, PacketTypes
  <2>2. CASE inject' = inject
    BY <2>1, <2>2
  <2>3. CASE Len(inject) < InjectCap /\ inject' = Append(inject, d.n)
    <3>1. /\ inject' \in Seq(1 .. Len(sent)) /\ Len(inject) \in Nat
          /\ Len(inject') = Len(inject) + 1
      BY <1>3, <2>1, <2>3, Appended
    <3> QED
      BY <2>1, <2>3, <3>1
  <2> QED
    BY <1>1, <2>2, <2>3
<1>8. PacketTypes'
  <2>1. up' \subseteq Upwards(Len(sent))
    BY <1>6 DEF PacketInv, PacketTypes
  <2>2. sent \in Seq(Sent) /\ Len(sent) <= Len(Script) /\ expiries \in 0 .. MaxExpiries
    BY DEF PacketInv, PacketTypes
  <2> QED
    BY <2>1, <2>2, <1>1, <1>4, <1>5, <1>7 DEF PacketTypes
<1>9. FreshPackets'
  <2> SUFFICES ASSUME NEW e \in up', e.n # 0
               PROVE  /\ e.type = "data" /\ e.n \notin decrypted'
                      /\ e.from = sent'[e.n].from
    BY DEF FreshPackets
  <2>1. e \in up /\ e # d
    BY <1>6
  <2>2. e.n # d.n
    BY <2>1, <1>1, OneCarrier
  <2> QED
    BY <2>1, <2>2, <1>1 DEF PacketInv, FreshPackets
<1>10. EachPacketOnce'
  BY <1>4, <1>5 DEF EachPacketOnce
<1> QED
  BY <1>5, <1>8, <1>9, <1>10 DEF PacketInv

(* The client sends a packet, which has the next number.                   *)
LEMMA ClientPacketStep ==
  ASSUME AllInv, ClientPacket
  PROVE  PacketInv'
<1> DEFINE m == Len(sent) + 1
<1>1. PICK p \in Script[m] :
        /\ sent' = Append(sent, [packet |-> p, from |-> Here])
        /\ Len(sent) < Len(Script)
  BY DEF ClientPacket
<1>2. /\ up' = up \cup {Upward(Here, "data", m)}
      /\ UNCHANGED <<packetHistory, inject, expiries>>
  BY DEF ClientPacket, Sends, loopVars, history, packetHistory
<1>3. PacketTypes /\ FreshPackets /\ EachPacketOnce /\ RepliesMirrored
  BY DEF AllInv, PacketInv
<1>4. sent \in Seq(Sent) /\ Len(sent) \in Nat /\ m \in 1 .. Len(Script) /\ m \in Nat
  BY <1>1, <1>3, GivenSequences DEF PacketTypes
<1>5. p \in Packet /\ Here \in AddrSet
  BY <1>1, <1>4, GivenSequences DEF Here, AllInv, ClientTypes
<1>6. [packet |-> p, from |-> Here] \in Sent
  BY <1>5 DEF Sent
<1>7. /\ sent' \in Seq(Sent) /\ Len(sent') = m
      /\ \A i \in 1 .. m :
           sent'[i] = IF i = m THEN [packet |-> p, from |-> Here] ELSE sent[i]
  BY <1>1, <1>4, <1>6, Appended
<1>8. \A i \in 1 .. Len(sent) : i \in 1 .. m /\ i # m /\ sent'[i] = sent[i]
  BY <1>4, <1>7
<1>9. \A d \in Upwards(Len(sent)) : d \in Upwards(m)
  BY <1>4 DEF Upwards
<1>10. Upward(Here, "data", m) \in Upwards(m) /\ Upward(Here, "data", m).n = m
       /\ Upward(Here, "data", m).from = Here /\ Upward(Here, "data", m).type = "data"
  BY <1>4, <1>5 DEF Upward, Upwards, Kinds
<1> DEFINE u == Upward(Here, "data", m)
<1>11. PacketTypes'
  <2>1. 1 .. Len(sent) \subseteq 1 .. m
    BY <1>4
  <2>2. Answers(Len(sent)) \subseteq Answers(m)
    BY <2>1 DEF Answers
  <2>3. inject' \in Seq(1 .. m) /\ injected' \in Seq(1 .. m)
    BY <1>2, <1>3, <2>1, Wider DEF PacketTypes, packetHistory
  <2>4. answered' \in Seq(Answers(m))
    BY <1>2, <1>3, <2>2, Wider DEF PacketTypes, packetHistory
  <2>5. up' \subseteq Upwards(m)
    BY <1>2, <1>3, <1>9, <1>10 DEF PacketTypes
  <2>6. Len(sent') <= Len(Script)
    BY <1>4, <1>7
  <2>7. decrypted' \subseteq 1 .. m /\ dropped' \subseteq 1 .. m
    BY <1>2, <1>3, <2>1 DEF PacketTypes, packetHistory
  <2>8. Len(inject') <= InjectCap /\ expiries' \in 0 .. MaxExpiries
    BY <1>2, <1>3 DEF PacketTypes
  <2> QED
    BY <1>7, <2>3, <2>4, <2>5, <2>6, <2>7, <2>8 DEF PacketTypes
<1>12. FreshPackets'
  <2> SUFFICES ASSUME NEW e \in up', e.n # 0
               PROVE  /\ e.type = "data" /\ e.n \notin decrypted'
                      /\ e.from = sent'[e.n].from
    BY DEF FreshPackets
  <2>1. CASE e \in up
    <3>1. e.n \in 1 .. Len(sent)
      BY <2>1, <1>3 DEF PacketTypes, Upwards
    <3> QED
      BY <2>1, <3>1, <1>2, <1>3, <1>8 DEF FreshPackets, packetHistory
  <2>2. CASE e = u
    <3>1. m \notin decrypted
      BY <1>3, <1>4 DEF PacketTypes
    <3>2. sent'[m].from = Here
      BY <1>4, <1>7
    <3> QED
      BY <2>2, <3>1, <3>2, <1>2, <1>10 DEF packetHistory
  <2> QED
    BY <1>2, <2>1, <2>2
<1>13. EachPacketOnce'
  <2>1. {n \in decrypted' : Reply(sent'[n].packet) # Nothing}
          = {n \in decrypted : Reply(sent[n].packet) # Nothing}
    BY <1>2, <1>3, <1>8 DEF PacketTypes, packetHistory
  <2> QED
    BY <1>2, <1>3, <2>1 DEF EachPacketOnce, packetHistory, Once
<1>14. RepliesMirrored'
  <2> SUFFICES ASSUME NEW i \in DOMAIN answered
               PROVE  sent'[answered[i].n] = sent[answered[i].n]
    BY <1>2, <1>3 DEF RepliesMirrored, packetHistory
  <2>1. answered \in Seq(Answers(Len(sent)))
    BY <1>3 DEF PacketTypes
  <2>2. answered[i] \in Answers(Len(sent))
    BY <2>1
  <2>3. answered[i].n \in 1 .. Len(sent)
    BY <2>2 DEF Answers
  <2> QED
    BY <2>3, <1>8
<1> QED
  BY <1>11, <1>12, <1>13, <1>14 DEF PacketInv

(* Every step keeps the packets apart: each is handled once.               *)
LEMMA PacketStep ==
  ASSUME AllInv, Next
  PROVE  PacketInv'
<1>1. /\ PacketInv /\ inject \in Seq(1 .. Len(sent)) /\ Len(inject) <= InjectCap
      /\ up \subseteq Upwards(Len(sent)) /\ Len(sent) \in Nat
      /\ expiries \in 0 .. MaxExpiries /\ Here \in AddrSet
  BY GivenSequences DEF AllInv, PacketInv, PacketTypes, ClientTypes, Here
<1>2. \A f \in AddrSet, k \in Kinds :
        Upward(f, k, 0) \in Upwards(Len(sent)) /\ Upward(f, k, 0).n = 0
  BY <1>1 DEF Upward, Upwards
<1>3. ASSUME NEW d \in up, ReadDatagram(d) PROVE PacketInv'
  <2>1. Taken(d) /\ UNCHANGED sent
    BY <1>3 DEF ReadDatagram, clientVars
  <2>2. CASE ReadPacket(d)
    BY <2>1, <2>2, <1>1, ReadPacketStep
  <2>3. CASE ReadInit(d) \/ ReadResponse(d) \/ ReadNothing(d)
    <3>1. UNCHANGED <<packetHistory, inject, expiries>>
      BY <2>3 DEF ReadInit, ReadResponse, ReadNothing, history, packetHistory
    <3>2. d.from \in AddrSet
      BY <1>1 DEF Upwards
    <3>3. \A e \in up' : e \in up \/ (e \in Upwards(Len(sent)) /\ e.n = 0)
      BY <2>1, <3>2, <1>2 DEF Taken, Kinds
    <3> QED
      BY <2>1, <3>1, <3>3, <1>1, NoPacketStep
  <2> QED
    BY <1>3, <2>2, <2>3 DEF ReadDatagram
<1>4. CASE SendEgress \/ Announce \/ Tick \/ GiveUp
  <2>1. UNCHANGED <<packetHistory, inject, expiries, sent, up>>
    BY <1>4 DEF SendEgress, Announce, Tick, GiveUp, history, packetHistory,
       loopVars, clientVars
  <2> QED
    BY <2>1, <1>1, NoPacketStep
<1>5. CASE Expire
  <2>1. /\ UNCHANGED <<packetHistory, inject, sent>> /\ expiries < MaxExpiries
        /\ expiries' = expiries + 1 /\ up' = {d \in up : d.type # "data"}
    BY <1>5 DEF Expire, packetHistory, loopVars
  <2>2. expiries' \in 0 .. MaxExpiries
    BY <2>1, <1>1, LoopAssumption
  <2> QED
    BY <2>1, <2>2, <1>1, NoPacketStep
<1>6. CASE StackTurn
  <2>1. /\ UNCHANGED <<packetHistory, expiries, sent, up>>
        /\ inject # <<>> /\ inject' = Tail(inject)
    BY <1>6 DEF StackTurn, history, packetHistory, clientVars
  <2>2. inject' \in Seq(1 .. Len(sent)) /\ Len(inject') <= InjectCap
    BY <2>1, <1>1, Tailed, LoopAssumption
  <2> QED
    BY <2>1, <2>2, <1>1, NoPacketStep
<1>7. CASE ClientInit \/ ClientKeepalive
  <2>1. PICK k \in Kinds : /\ up' = up \cup {Upward(Here, k, 0)}
                           /\ UNCHANGED <<packetHistory, inject, expiries, sent>>
    BY <1>7 DEF ClientInit, ClientKeepalive, Sends, Kinds, history,
       packetHistory, loopVars, clientVars
  <2>2. \A e \in up' : e \in up \/ (e \in Upwards(Len(sent)) /\ e.n = 0)
    BY <2>1, <1>1, <1>2
  <2> QED
    BY <2>1, <2>2, <1>1, NoPacketStep
<1>8. CASE ClientPacket
  BY <1>8, ClientPacketStep
<1>9. CASE Roam
  <2>1. UNCHANGED <<packetHistory, inject, expiries, sent, up>>
    BY <1>9 DEF Roam, history, packetHistory, loopVars
  <2> QED
    BY <2>1, <1>1, NoPacketStep
<1>10. ASSUME NEW d \in down, ClientReceives(d) PROVE PacketInv'
  <2>1. /\ UNCHANGED <<packetHistory, inject, expiries, sent>>
        /\ up' = IF d.type = "init" /\ pending
                 THEN up \cup {Upward(Here, "response", 0)} ELSE up
    BY <1>10 DEF ClientReceives, history, packetHistory, loopVars
  <2>2. \A e \in up' : e \in up \/ (e \in Upwards(Len(sent)) /\ e.n = 0)
    BY <2>1, <1>1, <1>2 DEF Kinds
  <2> QED
    BY <2>1, <2>2, <1>1, NoPacketStep
<1> QED
  BY <1>3, <1>4, <1>5, <1>6, <1>7, <1>8, <1>9, <1>10 DEF Next

-----------------------------------------------------------------------------
(* Every step keeps the three parts of the invariant.                      *)
LEMMA LoopStep == AllInv /\ [Next]_vars => AllInv'
<1> SUFFICES ASSUME AllInv, [Next]_vars PROVE AllInv'
  OBVIOUS
<1>1. CASE Next
  <2>1. PacketInv'
    BY <1>1, PacketStep
  <2>2. EndpointTypes' /\ ClientTypes'
    BY <1>1, ReadTypes, OtherTypes DEF Next
  <2> QED
    BY <2>1, <2>2 DEF AllInv
<1>2. CASE UNCHANGED vars
  <2>1. UNCHANGED <<packetHistory, inject, expiries, sent, up>>
    BY <1>2 DEF vars, loopVars, clientVars, history, packetHistory
  <2>2. PacketInv'
    BY <2>1, NoPacketStep DEF AllInv, PacketInv, PacketTypes
  <2>3. EndpointTypes'
    BY <1>2 DEF vars, loopVars, tunnVars, AllInv, EndpointTypes
  <2>4. ClientTypes'
    BY <1>2 DEF vars, clientVars, AllInv, ClientTypes
  <2> QED
    BY <2>2, <2>3, <2>4 DEF AllInv
<1> QED
  BY <1>1, <1>2

(* Nothing is on its way at the start.                                     *)
LEMMA LoopInit == Init => AllInv
<1> SUFFICES ASSUME Init PROVE AllInv
  OBVIOUS
<1>1. /\ \A S : <<>> \in Seq(S)
      /\ Len(<<>>) = 0 /\ DOMAIN <<>> = {}
  OBVIOUS
<1>2. /\ Len(Addrs) \in Nat \ {0} /\ Len(Script) \in Nat
      /\ InjectCap \in Nat /\ EgressCap \in Nat /\ QueueCap \in Nat
      /\ MaxExpiries \in Nat
  BY GivenSequences, LoopAssumption
<1>3. EndpointTypes
  <2>1. session_active \in BOOLEAN /\ pending \in BOOLEAN
    BY DEF Init
  <2> QED
    BY <2>1, <1>1, <1>2 DEF Init, EndpointTypes
<1>4. ClientTypes
  <2>1. joined \in BOOLEAN /\ heard \in BOOLEAN
    BY DEF Init
  <2> QED
    BY <2>1, <1>2 DEF Init, ClientTypes
<1>5. /\ inject = <<>> /\ up = {} /\ sent = <<>> /\ decrypted = {} /\ dropped = {}
      /\ injected = <<>> /\ answered = <<>> /\ expiries = 0
  BY DEF Init
<1>6. PacketTypes
  BY <1>1, <1>2, <1>5 DEF PacketTypes
<1>7. FreshPackets /\ RepliesMirrored
  BY <1>1, <1>5 DEF FreshPackets, RepliesMirrored
<1>8. EachPacketOnce
  BY <1>1, <1>5 DEF EachPacketOnce, Once, Range
<1> QED
  BY <1>3, <1>4, <1>6, <1>7, <1>8 DEF AllInv, PacketInv

(* The invariant in three parts holds in every reachable state.            *)
LEMMA AllInvAlways == Spec => []AllInv
BY LoopInit, LoopStep, PTL DEF Spec

(* However datagrams are delayed, repeated, reordered and lost, each       *)
(* packet the tunnel brings is fed to the stack exactly once or dropped at *)
(* a full channel, and each query, scan or ping among them has exactly one *)
(* reply; the channels and the tunnel's queue keep their capacities        *)
(* (packet_loop and handle_decrypted_packet).                              *)
THEOREM LoopInvariant == Spec => []LoopInv
BY AllInvAlways, PartsMakeLoopInv, PTL

(* Every reply goes back where its question came from, from the address    *)
(* that was asked, wherever the client has roamed since                    *)
(* (handle_dns_query, handle_discovery and handle_icmp_echo).              *)
THEOREM RepliesGoBack == Spec => []RepliesMirrored
BY AllInvAlways, PartsMakeLoopInv, PTL
=============================================================================
