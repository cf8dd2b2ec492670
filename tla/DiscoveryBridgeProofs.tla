------------------------ MODULE DiscoveryBridgeProofs ------------------------
(***************************************************************************)
(* Proofs about finding the telescope and introducing oneself to it: the   *)
(* discovery bridge, for every set of clients, whatever the telescope      *)
(* answers and however the network loses, repeats and reorders datagrams;  *)
(* and, as a specification of its own, the pairing tool, for any number of *)
(* notifications nobody asked for.                                         *)
(***************************************************************************)
EXTENDS DiscoveryBridge, Pairing, TLAPS

-----------------------------------------------------------------------------
(* What the operators do                                                   *)

(* Patching puts the telescope's address out of an info and leaves the     *)
(* serial number.                                                          *)
LEMMA PatchedFacts ==
  ASSUME NEW i \in Infos, i.ip = "telescope" => i # NoInfo
  PROVE  /\ Patched(i) \in Infos
         /\ Patched(i).ip # "telescope"
         /\ Patched(i).sn = i.sn
BY DEF Patched, Infos, NoInfo, Serials, Addresses

(* The infos the bridge meets are infos.                                   *)
LEMMA InfoFacts ==
  /\ NoInfo \in Infos /\ FullInfo \in Infos /\ MinimalInfo \in Infos
  /\ [sn |-> "real", ip |-> "none"] \in Infos
  /\ [sn |-> "unknown", ip |-> "none"] \in Infos
  /\ NoInfo.ip = "none" /\ NoInfo.sn = "none"
BY DEF NoInfo, FullInfo, MinimalInfo, Infos, Serials, Addresses

(* What clients, telescope and bridge put on the network are datagrams.    *)
LEMMA DatagramFacts ==
  /\ \A c \in Clients : Scan(c) \in Datagrams /\ Scan(c).from \in Clients
  /\ \A k : Reply(k) \in Datagrams /\ IsAnswer(Reply(k)) /\ Reply(k).info \in Infos
  /\ \A i \in Infos : Echo(i) \in Datagrams /\ IsAnswer(Echo(i))
BY InfoFacts DEF Scan, Reply, Echo, Datagrams, IsAnswer

(* Two counters that count together stay in their order.                   *)
LEMMA CountedFacts ==
  ASSUME NEW a \in 0 .. MaxScans, NEW b \in 0 .. MaxScans, a <= b
  PROVE  /\ Counted(a) \in 0 .. MaxScans /\ Counted(b) \in 0 .. MaxScans
         /\ Counted(a) <= Counted(b)
BY DiscoveryAssumption DEF Counted

-----------------------------------------------------------------------------
(* The invariant, step by step                                             *)

(* The bridge starts to listen with an info it was given.                  *)
LEMMA ListenStep ==
  ASSUME BridgeInv, NEW i \in Infos, Listen(i), probed' \in BOOLEAN
  PROVE  BridgeInv' /\ device_info'.sn = i.sn
<1>0. TypeOK /\ NoStorm /\ ScansAreClients
  BY DEF BridgeInv
<1>1. /\ phase' = "listening" /\ device_info' = Patched(i)
      /\ have_real_info' = (i.sn \notin {"none", "proxy"})
      /\ UNCHANGED <<net, scans, answers, last_answer>>
  BY DEF Listen
<1>2. /\ device_info' \in Infos /\ device_info'.ip # "telescope"
      /\ device_info'.sn = i.sn
  <2>1. i.ip = "telescope" => i # NoInfo
    BY InfoFacts
  <2> QED
    BY <1>1, <2>1, PatchedFacts
<1>3. have_real_info' \in BOOLEAN
  BY <1>1
<1>4. CacheKnown'
  BY <1>1, <1>2 DEF CacheKnown
<1>5. TypeOK'
  BY <1>0, <1>1, <1>2, <1>3 DEF TypeOK
<1>6. NoStorm' /\ ScansAreClients'
  BY <1>0, <1>1 DEF NoStorm, ScansAreClients
<1> QED
  BY <1>2, <1>4, <1>5, <1>6 DEF BridgeInv

(* The start-up: configured identity, probe and fallback.                  *)
LEMMA StartStep ==
  ASSUME BridgeInv,
         UseConfigured \/ Fallback \/ ProbeFailed
           \/ \E k \in Replies : ProbeAnswered(k)
  PROVE  BridgeInv' /\ (device_info.sn = "real" => device_info'.sn = "real")
<1>0. /\ TypeOK /\ CacheKnown /\ probed \in BOOLEAN
      /\ phase # "listening"
      /\ device_info.sn # "real"
  <2>1. TypeOK /\ CacheKnown /\ phase # "listening"
    BY DEF BridgeInv, UseConfigured, Fallback, ProbeFailed, ProbeAnswered
  <2>2. device_info = NoInfo
    BY <2>1 DEF CacheKnown
  <2> QED
    BY <2>1, <2>2, InfoFacts DEF TypeOK
<1>1. CASE UseConfigured
  BY <1>0, <1>1, InfoFacts, ListenStep DEF UseConfigured
<1>2. CASE Fallback
  <2>1. PICK i \in Infos : Listen(i)
    BY <1>2, InfoFacts DEF Fallback
  <2> QED
    BY <1>0, <1>2, <2>1, ListenStep DEF Fallback
<1>3. CASE ProbeFailed
  <2>1. /\ phase' = "fallback" /\ probed' = FALSE
        /\ UNCHANGED <<device_info, have_real_info, net, scans, answers, last_answer>>
    BY <1>3 DEF ProbeFailed
  <2> QED
    BY <1>0, <2>1 DEF BridgeInv, TypeOK, NoStorm, ScansAreClients, CacheKnown
<1>4. ASSUME NEW k \in Replies, ProbeAnswered(k) PROVE BridgeInv'
  <2>1. probed' = FALSE /\ Listen(Reply(k).info) /\ Reply(k).info \in Infos
    BY <1>4, DatagramFacts DEF ProbeAnswered
  <2> QED
    BY <2>1, ListenStep
<1> QED
  BY <1>0, <1>1, <1>2, <1>3, <1>4

(* The listening loop, one datagram at a time.                             *)
LEMMA LoopStep ==
  ASSUME BridgeInv, NEW d \in Datagrams,
         Learn(d) \/ Ignore(d) \/ Answer(d) \/ Lose(d)
  PROVE  BridgeInv' /\ (device_info.sn = "real" => device_info'.sn = "real")
<1>0. TypeOK /\ NoStorm /\ ScansAreClients /\ CacheKnown
  BY DEF BridgeInv
<1>1. CASE Learn(d)
  <2>1. /\ phase = "listening" /\ net' \subseteq net /\ ~have_real_info
        /\ device_info' = Patched(d.info) /\ have_real_info' = TRUE
        /\ UNCHANGED <<phase, probed, scans, answers, last_answer>>
    BY <1>1 DEF Learn, Read, Wanted
  <2>2. device_info' \in Infos /\ device_info'.ip # "telescope"
    <3>1. d.info \in Infos /\ (d.info.ip = "telescope" => d.info # NoInfo)
      BY InfoFacts DEF Datagrams
    <3> QED
      BY <2>1, <3>1, PatchedFacts
  <2>3. TypeOK'
    BY <1>0, <2>1, <2>2 DEF TypeOK
  <2>4. CacheKnown'
    BY <2>1, <2>2 DEF CacheKnown
  <2>5. NoStorm' /\ ScansAreClients'
    BY <1>0, <2>1 DEF NoStorm, ScansAreClients
  <2>6. device_info.sn # "real"
    BY <1>0, <2>1 DEF CacheKnown
  <2> QED
    BY <2>3, <2>4, <2>5, <2>6 DEF BridgeInv
<1>2. CASE Ignore(d) \/ Lose(d)
  <2>1. /\ net' \subseteq net
        /\ UNCHANGED <<phase, device_info, have_real_info, probed, scans, answers, last_answer>>
    BY <1>2 DEF Ignore, Lose, Read
  <2> QED
    BY <1>0, <2>1 DEF BridgeInv, TypeOK, NoStorm, ScansAreClients, CacheKnown
<1>3. CASE Answer(d)
  <2>1. /\ d \in net /\ ~IsAnswer(d)
        /\ net' \subseteq net \cup {Echo(device_info)}
        /\ scans' = IF d.from \in Clients THEN Counted(scans) ELSE scans
        /\ answers' = Counted(answers)
        /\ last_answer' = device_info /\ probed' = Reprobe
        /\ UNCHANGED <<phase, device_info, have_real_info>>
    BY <1>3 DEF Answer
  <2>2. d.from \in Clients
    BY <1>0, <2>1 DEF ScansAreClients
  <2>3. /\ scans' \in 0 .. MaxScans /\ answers' \in 0 .. MaxScans
        /\ answers' <= scans'
    BY <1>0, <2>1, <2>2, CountedFacts DEF TypeOK, NoStorm
  <2>4. device_info \in Infos /\ Echo(device_info) \in Datagrams /\ IsAnswer(Echo(device_info))
    BY <1>0, DatagramFacts DEF TypeOK
  <2>5. probed' \in BOOLEAN
    BY <1>0, <2>1 DEF Reprobe, TypeOK
  <2>6. TypeOK'
    BY <1>0, <2>1, <2>3, <2>4, <2>5 DEF TypeOK
  <2>7. ScansAreClients'
    BY <1>0, <2>1, <2>4 DEF ScansAreClients, IsAnswer
  <2>8. NoStorm' /\ CacheKnown'
    BY <1>0, <2>1, <2>3 DEF NoStorm, CacheKnown
  <2> QED
    BY <2>1, <2>6, <2>7, <2>8 DEF BridgeInv
<1> QED
  BY <1>1, <1>2, <1>3

(* What clients, the telescope and the network do.                         *)
LEMMA EnvironmentStep ==
  ASSUME BridgeInv,
         \/ LoseProbe
         \/ \E c \in Clients : ClientScans(c)
         \/ \E k \in Replies : TelescopeReplies(k)
  PROVE  BridgeInv' /\ (device_info.sn = "real" => device_info'.sn = "real")
<1>0. TypeOK /\ NoStorm /\ ScansAreClients /\ CacheKnown
  BY DEF BridgeInv
<1>1. /\ UNCHANGED <<phase, device_info, have_real_info, scans, answers, last_answer>>
      /\ probed' \in BOOLEAN
  BY <1>0 DEF LoseProbe, ClientScans, TelescopeReplies, TypeOK
<1>2. \A d \in net' : d \in net \/ (d \in Datagrams /\ (d.from \in Clients \/ IsAnswer(d)))
  BY DatagramFacts DEF LoseProbe, ClientScans, TelescopeReplies
<1> QED
  BY <1>0, <1>1, <1>2 DEF BridgeInv, TypeOK, NoStorm, ScansAreClients, CacheKnown, IsAnswer

(* Every step of the bridge and around it keeps the invariant.             *)
LEMMA BridgeStep ==
  ASSUME BridgeInv, [Next]_vars
  PROVE  BridgeInv' /\ (device_info.sn = "real" => device_info'.sn = "real")
<1>1. CASE UNCHANGED vars
  BY <1>1 DEF vars, BridgeInv, TypeOK, NoStorm, ScansAreClients, CacheKnown, IsAnswer
<1>2. CASE Next
  BY <1>2, StartStep, LoopStep, EnvironmentStep DEF Next
<1> QED
  BY <1>1, <1>2

(* Nothing is cached or on its way at the start.                           *)
LEMMA BridgeInit == Init => BridgeInv
<1> SUFFICES ASSUME Init PROVE BridgeInv
  OBVIOUS
<1>1. last_answer \in Infos
  BY DEF Init, Infos, Serials, Addresses
<1>2. TypeOK
  <2>1. /\ have_real_info \in BOOLEAN /\ probed \in BOOLEAN
        /\ device_info \in Infos /\ net \subseteq Datagrams
        /\ phase \in {"configured", "probing", "fallback", "listening"}
    BY InfoFacts DEF Init
  <2>2. scans \in 0 .. MaxScans /\ answers \in 0 .. MaxScans
    BY DiscoveryAssumption DEF Init
  <2> QED
    BY <1>1, <2>1, <2>2 DEF TypeOK
<1>3. CacheKnown
  BY InfoFacts DEF Init, CacheKnown
<1> QED
  BY <1>2, <1>3 DEF Init, BridgeInv, NoStorm, ScansAreClients

-----------------------------------------------------------------------------
(* The theorems                                                            *)

(* The bridge answers the scans of clients and nothing else, so that its   *)
(* own broadcasts and the telescope's answers never start a storm, and its *)
(* cache never holds the telescope's address (run, the listening loop).    *)
THEOREM BridgeInvariant == Spec => []BridgeInv
<1>1. BridgeInv /\ [Next]_vars => BridgeInv'
  BY BridgeStep
<1> QED
  BY <1>1, BridgeInit, PTL DEF Spec

(* No answer sends a client to the telescope past the proxy.               *)
THEOREM AddressHidden == Spec => []NeverTelescopeAddress
<1>1. Init => NeverTelescopeAddress
  BY DEF Init, NeverTelescopeAddress
<1>2. BridgeInv /\ NeverTelescopeAddress /\ [Next]_vars => NeverTelescopeAddress'
  <2> SUFFICES ASSUME BridgeInv, NeverTelescopeAddress, [Next]_vars
               PROVE  NeverTelescopeAddress'
    OBVIOUS
  <2>1. last_answer' \in {last_answer, device_info}
    BY DEF Next, vars, UseConfigured, ProbeFailed, Fallback, LoseProbe, Listen,
       ProbeAnswered, TelescopeReplies, Learn, Ignore, Answer, Lose, ClientScans
  <2> QED
    BY <2>1 DEF NeverTelescopeAddress, BridgeInv, CacheKnown
<1> QED
  BY <1>1, <1>2, BridgeInvariant, PTL DEF Spec

(* Once the cache holds the telescope's own serial number it keeps it: no  *)
(* late, duplicated or error answer replaces it.                           *)
THEOREM RealInfoStays == Spec => RealInfoKept
<1>1. BridgeInv /\ [Next]_vars
        => [device_info.sn = "real" => device_info'.sn = "real"]_vars
  BY BridgeStep
<1> QED
  BY <1>1, BridgeInvariant, PTL DEF Spec, RealInfoKept

-----------------------------------------------------------------------------
(* The pairing tool                                                        *)

Notes  == [about : Commands \cup {"spontaneous"}, form : Forms]
Places == {"adapter", "scan", "connect", "challenge", "sign", "authenticated",
           "disconnect", "done", "failed"} \cup Commands

(* A sequence without its first element.                                   *)
LEMMA FirstTaken ==
  ASSUME NEW S, NEW s \in Seq(S), s # <<>>
  PROVE  /\ Head(s) \in S /\ Tail(s) \in Seq(S)
         /\ 1 \in DOMAIN s /\ Head(s) = s[1]
         /\ \A i \in DOMAIN Tail(s) : i + 1 \in DOMAIN s /\ Tail(s)[i] = s[i + 1]
OBVIOUS

(* A sequence with one element more.                                       *)
LEMMA OneMore ==
  ASSUME NEW S, NEW s \in Seq(S), NEW x \in S
  PROVE  /\ Append(s, x) \in Seq(S)
         /\ \A i \in DOMAIN Append(s, x) :
              \/ i \in DOMAIN s /\ Append(s, x)[i] = s[i]
              \/ Append(s, x)[i] = x
OBVIOUS

(* The types, part by part.                                                *)
LEMMA TypesKept ==
  ASSUME args' \in [key : {"none", "right", "wrong"}, wifi : BOOLEAN],
         pc' \in Places, written' \in BOOLEAN, scanned' \in 0 .. MaxEvents,
         notifs' \in Seq(Notes), commands' \in Seq(Commands),
         claims' \subseteq {"authenticated", "wifi_configured"},
         trusts' \in BOOLEAN, verified' \in BOOLEAN, wifi' \in BOOLEAN,
         spontaneous' \in 0 .. MaxSpontaneous, misread' \in BOOLEAN
  PROVE  PairingTypes'
BY Zenon DEF PairingTypes, Places, Notes

(* What the tool knows and the telescope is, and the types they have.      *)
LEMMA PairingParts ==
  ASSUME PairingInv
  PROVE  /\ args \in [key : {"none", "right", "wrong"}, wifi : BOOLEAN]
         /\ pc \in Places /\ written \in BOOLEAN /\ scanned \in 0 .. MaxEvents
         /\ notifs \in Seq(Notes) /\ commands \in Seq(Commands)
         /\ claims \subseteq {"authenticated", "wifi_configured"}
         /\ trusts \in BOOLEAN /\ verified \in BOOLEAN /\ wifi \in BOOLEAN
         /\ spontaneous \in 0 .. MaxSpontaneous /\ misread \in BOOLEAN
         /\ PairingTypes /\ AnswersTrue /\ ClaimsTrue
BY Zenon DEF PairingInv, PairingTypes, Places, Notes

(* A command is sent or the tool goes on by itself, and no notification is *)
(* taken: the telescope's state, its answers and the claims stay.          *)
LEMMA ToolAlone ==
  ASSUME PairingInv, UNCHANGED <<args, claims, notifs, telescope, spontaneous, misread>>,
         pc' \in Places, written' \in BOOLEAN, scanned' \in 0 .. MaxEvents,
         commands' \in Seq(Commands)
  PROVE  PairingInv'
<1>1. UNCHANGED <<args, claims, notifs, trusts, verified, wifi, spontaneous, misread>>
  BY DEF telescope
<1>2. /\ notifs' \in Seq(Notes) /\ claims' \subseteq {"authenticated", "wifi_configured"}
      /\ spontaneous' \in 0 .. MaxSpontaneous
  BY <1>1, PairingParts
<1>3. trusts' \in BOOLEAN /\ verified' \in BOOLEAN /\ wifi' \in BOOLEAN /\ misread' \in BOOLEAN
  BY <1>1, PairingParts, Zenon
<1>4. PairingTypes'
  <2>1. args' \in [key : {"none", "right", "wrong"}, wifi : BOOLEAN]
    BY <1>1, PairingParts
  <2> QED
    BY <1>2, <1>3, <2>1, TypesKept, Zenon
<1>5. AnswersTrue'
  BY <1>1, PairingParts DEF AnswersTrue, SaysTrue
<1>6. ClaimsTrue'
  <2>1. ClaimsTrue
    BY PairingParts
  <2> QED
    BY <1>1, <2>1 DEF ClaimsTrue
<1> QED
  BY <1>4, <1>5, <1>6 DEF PairingInv

(* The tool takes a notification for the reply to its command: as long as  *)
(* none was misread, what it claims is what the notification says.         *)
LEMMA ReplyTaken ==
  ASSUME PairingInv, notifs # <<>>, notifs' = Tail(notifs),
         UNCHANGED <<args, scanned, telescope, spontaneous>>,
         pc' \in Places, written' \in BOOLEAN, commands' \in Seq(Commands),
         misread' \in BOOLEAN, misread => misread',
         claims' \subseteq {"authenticated", "wifi_configured"},
         misread' \/ ("authenticated" \in claims' =>
                        "authenticated" \in claims \/ verified \/ trusts),
         misread' \/ ("wifi_configured" \in claims' =>
                        "wifi_configured" \in claims \/ wifi)
  PROVE  PairingInv'
<1>1. UNCHANGED <<args, scanned, trusts, verified, wifi, spontaneous>>
  BY DEF telescope
<1>2. /\ Tail(notifs) \in Seq(Notes)
      /\ \A i \in DOMAIN Tail(notifs) :
           i + 1 \in DOMAIN notifs /\ Tail(notifs)[i] = notifs[i + 1]
  <2>1. notifs \in Seq(Notes)
    BY PairingParts
  <2> QED
    BY <2>1, FirstTaken
<1>3. scanned' \in 0 .. MaxEvents /\ spontaneous' \in 0 .. MaxSpontaneous /\ notifs' \in Seq(Notes)
  BY <1>1, <1>2, PairingParts
<1>4. trusts' \in BOOLEAN /\ verified' \in BOOLEAN /\ wifi' \in BOOLEAN
  BY <1>1, PairingParts, Zenon
<1>5. PairingTypes'
  <2>1. args' \in [key : {"none", "right", "wrong"}, wifi : BOOLEAN]
    BY <1>1, PairingParts
  <2> QED
    BY <1>3, <1>4, <2>1, TypesKept, Zenon
<1>6. ASSUME NEW i \in DOMAIN notifs' PROVE SaysTrue(notifs[i])'
  <2>1. PICK j \in DOMAIN notifs : notifs'[i] = notifs[j]
    BY <1>2
  <2>2. SaysTrue(notifs[j])
    BY <2>1, PairingParts DEF AnswersTrue
  <2> QED
    BY <1>1, <2>1, <2>2 DEF SaysTrue
<1>7. AnswersTrue'
  <2>1. (verified => args.key = "right")'
    BY <1>1, PairingParts DEF AnswersTrue
  <2> QED
    BY <1>6, <2>1 DEF AnswersTrue
<1>8. ClaimsTrue'
  BY <1>1, PairingParts DEF ClaimsTrue
<1> QED
  BY <1>5, <1>7, <1>8 DEF PairingInv

(* The telescope notifies of something true.                               *)
LEMMA TelescopeNotifies ==
  ASSUME PairingInv, NEW n \in Notes, notifs' = Append(notifs, n), SaysTrue(n)',
         UNCHANGED <<args, pc, written, scanned, claims, trusts, misread>>,
         commands' \in Seq(Commands), spontaneous' \in 0 .. MaxSpontaneous,
         verified' \in BOOLEAN, wifi' \in BOOLEAN,
         verified' => args.key = "right", verified => verified', wifi => wifi'
  PROVE  PairingInv'
<1>1. /\ Append(notifs, n) \in Seq(Notes)
      /\ \A i \in DOMAIN Append(notifs, n) :
           \/ i \in DOMAIN notifs /\ Append(notifs, n)[i] = notifs[i]
           \/ Append(notifs, n)[i] = n
  <2>1. notifs \in Seq(Notes)
    BY PairingParts
  <2> QED
    BY <2>1, OneMore
<1>2. /\ pc' \in Places /\ scanned' \in 0 .. MaxEvents /\ notifs' \in Seq(Notes)
      /\ claims' \subseteq {"authenticated", "wifi_configured"}
  BY <1>1, PairingParts
<1>3. trusts' \in BOOLEAN /\ misread' \in BOOLEAN /\ written' \in BOOLEAN
  BY PairingParts, Zenon
<1>4. PairingTypes'
  <2>1. args' \in [key : {"none", "right", "wrong"}, wifi : BOOLEAN]
    BY PairingParts
  <2> QED
    BY <1>2, <1>3, <2>1, TypesKept, Zenon
<1>5. ASSUME NEW i \in DOMAIN notifs' PROVE SaysTrue(notifs[i])'
  <2>1. CASE notifs'[i] = n
    BY <2>1 DEF SaysTrue
  <2>2. CASE i \in DOMAIN notifs /\ notifs'[i] = notifs[i]
    <3>1. SaysTrue(notifs[i])
      BY <2>2, PairingParts DEF AnswersTrue
    <3> QED
      BY <2>2, <3>1 DEF SaysTrue
  <2> QED
    BY <1>1, <2>1, <2>2
<1>6. AnswersTrue'
  BY <1>5 DEF AnswersTrue
<1>7. ClaimsTrue'
  BY PairingParts DEF ClaimsTrue
<1> QED
  BY <1>4, <1>6, <1>7 DEF PairingInv

(* The pairing tool starts with nothing claimed and nothing heard.         *)
LEMMA PairingInitially == PairingInit => PairingInv
<1> SUFFICES ASSUME PairingInit PROVE PairingInv
  OBVIOUS
<1>1. MaxSpontaneous \in Nat /\ MaxEvents \in Nat
  BY PairingAssumption
<1>2. notifs = <<>> /\ commands = <<>> /\ scanned = 0 /\ spontaneous = 0
  BY DEF PairingInit
<1>3. /\ notifs \in Seq(Notes) /\ commands \in Seq(Commands)
      /\ scanned \in 0 .. MaxEvents /\ spontaneous \in 0 .. MaxSpontaneous
  BY <1>1, <1>2
<1>4. PairingTypes
  BY <1>3, Zenon DEF PairingInit, PairingTypes, Notes
<1>5. DOMAIN notifs = {}
  BY <1>2
<1>6. AnswersTrue /\ ClaimsTrue
  BY <1>5, Zenon DEF PairingInit, AnswersTrue, ClaimsTrue
<1> QED
  BY <1>4, <1>6 DEF PairingInv

(* The steps the tool takes without a notification.                        *)
LEMMA ToolStep ==
  ASSUME PairingInv,
         \/ Call \/ ScanDevices \/ ReplyTimeout \/ ChallengeTimeout
         \/ Sign \/ Configure
  PROVE  PairingInv'
<1>1. pc \in Places /\ scanned \in 0 .. MaxEvents /\ commands \in Seq(Commands)
  BY PairingParts
<1>2. MaxEvents \in Nat
  BY PairingAssumption
<1>3. UNCHANGED <<args, claims, notifs, telescope, spontaneous, misread>>
  BY DEF Call, OpenAdapter, ScanDevices, Connect, WriteCommand, ReplyTimeout,
     ChallengeTimeout, Sign, Configure, Disconnect, Goto, Quiet
<1>4. pc' \in Places
  BY <1>1 DEF Call, OpenAdapter, ScanDevices, Connect, WriteCommand, ReplyTimeout,
     ChallengeTimeout, Sign, Configure, Disconnect, Goto, Send, Places, Commands
<1>5. scanned' \in 0 .. MaxEvents
  BY <1>1, <1>2 DEF Call, OpenAdapter, ScanDevices, Connect, WriteCommand,
     ReplyTimeout, ChallengeTimeout, Sign, Configure, Disconnect, Goto
<1>6. commands' = commands \/ \E c \in Commands : commands' = Append(commands, c)
  BY DEF Call, OpenAdapter, ScanDevices, Connect, WriteCommand, ReplyTimeout,
     ChallengeTimeout, Sign, Configure, Disconnect, Goto, Quiet
<1>7. commands' \in Seq(Commands)
  BY <1>1, <1>6
<1>8. written' = written \/ written' = TRUE \/ written' = FALSE
  BY Zenon DEF Call, OpenAdapter, ScanDevices, Connect, WriteCommand, ReplyTimeout,
     ChallengeTimeout, Sign, Configure, Disconnect, Goto, Send
<1>9. written' \in BOOLEAN
  BY <1>8, PairingParts, Zenon
<1> QED
  BY <1>3, <1>4, <1>5, <1>7, <1>9, ToolAlone

(* What is at the head of the notifications is true.                       *)
LEMMA HeadIsTrue ==
  ASSUME PairingInv, notifs # <<>>
  PROVE  Head(notifs) \in Notes /\ SaysTrue(Head(notifs))
<1>1. notifs \in Seq(Notes) /\ AnswersTrue
  BY PairingParts
<1>2. Head(notifs) \in Notes /\ 1 \in DOMAIN notifs /\ Head(notifs) = notifs[1]
  BY <1>1, FirstTaken
<1> QED
  BY <1>1, <1>2 DEF AnswersTrue

(* A challenge that came by itself, or something else that did.            *)
LEMMA ChallengeStep ==
  ASSUME PairingInv, SpontaneousChallenge
  PROVE  PairingInv'
<1>1. /\ notifs # <<>> /\ notifs' = Tail(notifs)
      /\ UNCHANGED <<args, scanned, claims, commands, telescope, spontaneous, misread>>
      /\ pc' \in {"sign", "get_verify_str"}
  BY DEF SpontaneousChallenge, Next_notification, Send
<1>2. pc' \in Places
  BY <1>1 DEF Places, Commands
<1>3. commands' \in Seq(Commands) /\ claims' \subseteq {"authenticated", "wifi_configured"}
  <2>1. commands \in Seq(Commands) /\ claims \subseteq {"authenticated", "wifi_configured"}
    BY PairingParts
  <2> QED
    BY <1>1, <1>2, <2>1
<1>4. misread' \in BOOLEAN /\ written' \in BOOLEAN
  <2>1. written' = written \/ written' = FALSE
    BY Zenon DEF SpontaneousChallenge, Send
  <2> QED
    BY <1>1, <2>1, PairingParts, Zenon
<1>5. misread => misread'
  BY <1>1, Zenon
<1>6. "authenticated" \in claims' => "authenticated" \in claims \/ verified \/ trusts
  BY <1>1, Zenon
<1>7. "wifi_configured" \in claims' => "wifi_configured" \in claims \/ wifi
  BY <1>1, Zenon
<1> QED
  BY <1>1, <1>2, <1>3, <1>4, <1>5, <1>6, <1>7, ReplyTaken, Zenon

(* The reply to a command: what the tool then claims, the notification     *)
(* says, unless it is about something else or no JSON.                     *)
LEMMA RepliedStep ==
  ASSUME PairingInv, NEW n, Replied(n)
  PROVE  PairingInv'
<1>1. /\ notifs # <<>> /\ n = Head(notifs) /\ notifs' = Tail(notifs)
      /\ UNCHANGED <<args, scanned, telescope, spontaneous>>
  BY DEF Replied, GetVerifyStr, VerifyClient, GetWifiInfo, SetWifi, Receives,
     Next_notification
<1>2. n \in Notes /\ SaysTrue(n)
  BY <1>1, HeadIsTrue
<1>3. PICK c \in Commands : pc = c /\ misread' = (misread \/ n.about # c \/ n.form = "garbled")
  BY DEF Replied, GetVerifyStr, VerifyClient, GetWifiInfo, SetWifi, Receives, Commands
<1>4. misread' \in BOOLEAN /\ (misread => misread') /\ written' \in BOOLEAN
  <2>1. written' = written \/ written' = FALSE
    BY Zenon DEF Replied, GetVerifyStr, VerifyClient, GetWifiInfo, SetWifi, Receives, Send
  <2> QED
    BY <1>3, <2>1, PairingParts, Zenon
<1>5. ~misread' => n.about = pc /\ n.form # "garbled"
  BY <1>3, Zenon
<1>6. pc' \in Places /\ commands' = commands
  BY DEF Replied, GetVerifyStr, VerifyClient, GetWifiInfo, SetWifi, Receives, Send,
     Places, Commands
<1>7. commands' \in Seq(Commands)
  <2>1. commands \in Seq(Commands)
    BY PairingParts
  <2> QED
    BY <1>6, <2>1
<1>8. \/ claims' = claims
      \/ /\ claims' = claims \cup {"authenticated"}
         /\ \/ pc = "get_verify_str" /\ n.form \in {"ack", "garbled"}
            \/ pc = "verify_client" /\ n.form \in {"ok", "challenge"}
      \/ /\ claims' = claims \cup {"wifi_configured"}
         /\ pc \in {"iscope_set_wifi", "set_wifi_ssid"} /\ n.form # "error"
  BY DEF Replied, GetVerifyStr, VerifyClient, GetWifiInfo, SetWifi, Receives, Accepted
<1>9. claims' \subseteq {"authenticated", "wifi_configured"}
  <2>1. claims \subseteq {"authenticated", "wifi_configured"}
    BY PairingParts
  <2> QED
    BY <1>8, <2>1
<1>10. ASSUME ~misread', "authenticated" \in claims'
       PROVE  "authenticated" \in claims \/ verified \/ trusts
  <2>1. n.about = pc /\ n.form # "garbled"
    BY <1>5, <1>10
  <2>2. \/ "authenticated" \in claims
        \/ n.about = "get_verify_str" /\ n.form = "ack"
        \/ n.about = "verify_client" /\ n.form \in {"ok", "challenge"}
    BY <1>8, <1>10, <2>1
  <2> QED
    BY <1>2, <2>2, Zenon DEF SaysTrue
<1>11. ASSUME ~misread', "wifi_configured" \in claims'
       PROVE  "wifi_configured" \in claims \/ wifi
  <2>1. n.about = pc /\ n.form # "garbled"
    BY <1>5, <1>11
  <2>2. \/ "wifi_configured" \in claims
        \/ /\ n.about \in {"iscope_set_wifi", "set_wifi_ssid"}
           /\ n.form \notin {"error", "garbled"}
    BY <1>8, <1>11, <2>1
  <2> QED
    BY <1>2, <2>2, Zenon DEF SaysTrue
<1> QED
  BY <1>1, <1>4, <1>6, <1>7, <1>9, <1>10, <1>11, ReplyTaken, Zenon

(* The telescope answers a command, and says what is so.                   *)
LEMMA AnswerStep ==
  ASSUME PairingInv, NEW form \in Forms, AnswerCommand(form)
  PROVE  PairingInv'
<1>1. /\ commands # <<>> /\ commands' = Tail(commands)
      /\ UNCHANGED <<args, pc, written, scanned, claims, spontaneous, misread>>
  BY DEF AnswerCommand, tool
<1>2. commands \in Seq(Commands) /\ spontaneous \in 0 .. MaxSpontaneous
  BY PairingParts
<1>3. Head(commands) \in Commands /\ commands' \in Seq(Commands)
  BY <1>1, <1>2, FirstTaken
<1>4. PICK c \in Commands : c = Head(commands)
  BY <1>3
<1>5. \E g \in {form, "garbled"} : notifs' = Append(notifs, Notification(c, g))
  BY <1>4 DEF AnswerCommand, Notifies
<1>6. PICK n \in Notes : /\ notifs' = Append(notifs, n)
                         /\ n.about = c /\ n.form \in {form, "garbled"}
  <2>1. PICK g \in {form, "garbled"} : notifs' = Append(notifs, Notification(c, g))
    BY <1>5
  <2>2. Notification(c, g) \in Notes /\ Notification(c, g).about = c /\ Notification(c, g).form = g
    BY DEF Notification, Notes, Forms
  <2> QED
    BY <2>1, <2>2
<1>7. CASE c \in {"get_verify_str", "get_wifi_info"}
  <2>1. /\ UNCHANGED telescope
        /\ c = "get_verify_str" => form \in IF trusts THEN {"ack"} ELSE {"challenge", "error"}
    BY <1>4, <1>7 DEF AnswerCommand
  <2>2. UNCHANGED <<trusts, verified, wifi>>
    BY <2>1 DEF telescope
  <2>3. form = "ack" /\ c = "get_verify_str" => trusts
    BY <2>1
  <2>4. SaysTrue(n)'
    <3>1. n.about \notin {"verify_client", "iscope_set_wifi", "set_wifi_ssid"}
      BY <1>6, <1>7
    <3>2. n.about = "get_verify_str" /\ n.form = "ack" => trusts'
      <4>1. n.about = "get_verify_str" /\ n.form = "ack" => form = "ack" /\ c = "get_verify_str"
        BY <1>6
      <4> QED
        BY <2>2, <2>3, <4>1
    <3> QED
      BY <3>1, <3>2, Zenon DEF SaysTrue
  <2>5. verified' \in BOOLEAN /\ wifi' \in BOOLEAN
    BY <2>2, PairingParts, Zenon
  <2>6. verified' => args.key = "right"
    <3>1. AnswersTrue
      BY PairingParts
    <3> QED
      BY <2>2, <3>1 DEF AnswersTrue
  <2>7. notifs' = Append(notifs, n) /\ spontaneous' \in 0 .. MaxSpontaneous
    BY <1>1, <1>2, <1>6
  <2> QED
    BY <1>1, <1>3, <2>2, <2>4, <2>5, <2>6, <2>7, TelescopeNotifies, Zenon
<1>8. CASE c = "verify_client"
  <2>1. /\ form = IF args.key = "right" THEN "ok" ELSE "error"
        /\ verified' = (args.key = "right") /\ trusts' = trusts /\ wifi' = wifi
    BY <1>4, <1>8 DEF AnswerCommand
  <2>2. verified' <=> args.key = "right"
    BY <2>1, Zenon
  <2>3. SaysTrue(n)'
    <3>1. n.about = "verify_client" /\ n.about \notin {"get_verify_str", "iscope_set_wifi", "set_wifi_ssid"}
      BY <1>6, <1>8
    <3>2. n.form \in {"ok", "challenge"} => args.key = "right"
      BY <1>6, <2>1
    <3> QED
      BY <2>2, <3>1, <3>2, Zenon DEF SaysTrue
  <2>4. verified' \in BOOLEAN /\ wifi' \in BOOLEAN
    BY <2>1, PairingParts, Zenon
  <2>5. verified => verified'
    <3>1. AnswersTrue
      BY PairingParts
    <3> QED
      BY <2>2, <3>1 DEF AnswersTrue
  <2>6. notifs' = Append(notifs, n) /\ spontaneous' \in 0 .. MaxSpontaneous
    BY <1>1, <1>2, <1>6
  <2> QED
    BY <1>1, <1>3, <2>1, <2>2, <2>3, <2>4, <2>5, <2>6, TelescopeNotifies, Zenon
<1>9. CASE c \in {"iscope_set_wifi", "set_wifi_ssid"}
  <2>1. wifi' = (wifi \/ form # "error") /\ trusts' = trusts /\ verified' = verified
    BY <1>4, <1>9 DEF AnswerCommand
  <2>2. wifi' \in BOOLEAN /\ (wifi => wifi') /\ (form # "error" => wifi')
    BY <2>1, Zenon
  <2>3. SaysTrue(n)'
    <3>1. n.about \notin {"get_verify_str", "verify_client"}
      BY <1>6, <1>9
    <3>2. n.form \notin {"error", "garbled"} => form # "error"
      BY <1>6
    <3> QED
      BY <2>2, <3>1, <3>2, Zenon DEF SaysTrue
  <2>4. verified' \in BOOLEAN
    BY <2>1, PairingParts, Zenon
  <2>5. verified' => args.key = "right"
    <3>1. AnswersTrue
      BY PairingParts
    <3> QED
      BY <2>1, <3>1 DEF AnswersTrue
  <2>6. notifs' = Append(notifs, n) /\ spontaneous' \in 0 .. MaxSpontaneous
    BY <1>1, <1>2, <1>6
  <2> QED
    BY <1>1, <1>3, <2>1, <2>2, <2>3, <2>4, <2>5, <2>6, TelescopeNotifies, Zenon
<1> QED
  BY <1>7, <1>8, <1>9 DEF Commands

(* A command is lost, or the telescope notifies of its own accord.         *)
LEMMA UnaskedStep ==
  ASSUME PairingInv, LoseCommand \/ Spontaneous
  PROVE  PairingInv'
<1>1. CASE LoseCommand
  <2>1. /\ commands # <<>> /\ commands' = Tail(commands)
        /\ UNCHANGED <<args, pc, written, scanned, claims, notifs, telescope,
                       spontaneous, misread>>
    BY <1>1 DEF LoseCommand, tool
  <2>2. pc \in Places /\ scanned \in 0 .. MaxEvents /\ commands \in Seq(Commands)
    BY PairingParts
  <2>3. Tail(commands) \in Seq(Commands)
    BY <2>1, <2>2, FirstTaken
  <2>4. pc' \in Places /\ scanned' \in 0 .. MaxEvents /\ commands' \in Seq(Commands)
    BY <2>1, <2>2, <2>3
  <2>5. written' \in BOOLEAN
    BY <2>1, PairingParts, Zenon
  <2> QED
    BY <2>1, <2>4, <2>5, ToolAlone
<1>2. CASE Spontaneous
  <2>1. /\ spontaneous < MaxSpontaneous /\ spontaneous' = spontaneous + 1
        /\ UNCHANGED <<args, pc, written, scanned, claims, commands, trusts, verified,
                       wifi, misread>>
    BY <1>2 DEF Spontaneous, tool, telescope
  <2>2. \E form \in {"challenge", "ack"} :
          notifs' = Append(notifs, Notification("spontaneous", form))
    BY <1>2 DEF Spontaneous, Notifies
  <2>3. PICK n \in Notes : notifs' = Append(notifs, n) /\ n.about = "spontaneous"
    <3>1. PICK form \in {"challenge", "ack"} :
            notifs' = Append(notifs, Notification("spontaneous", form))
      BY <2>2
    <3>2. /\ Notification("spontaneous", form) \in Notes
          /\ Notification("spontaneous", form).about = "spontaneous"
      BY DEF Notification, Notes, Forms
    <3> QED
      BY <3>1, <3>2
  <2>4. SaysTrue(n)'
    <3>1. n.about \notin {"get_verify_str", "verify_client", "iscope_set_wifi", "set_wifi_ssid"}
      BY <2>3
    <3> QED
      BY <3>1, Zenon DEF SaysTrue
  <2>5. spontaneous' \in 0 .. MaxSpontaneous /\ commands' \in Seq(Commands)
    BY <2>1, PairingParts, PairingAssumption
  <2>6. verified' \in BOOLEAN /\ wifi' \in BOOLEAN
    BY <2>1, PairingParts, Zenon
  <2>7. verified' => args.key = "right"
    <3>1. AnswersTrue
      BY PairingParts
    <3> QED
      BY <2>1, <3>1 DEF AnswersTrue
  <2> QED
    BY <2>1, <2>3, <2>4, <2>5, <2>6, <2>7, TelescopeNotifies, Zenon
<1> QED
  BY <1>1, <1>2

(* Every step of the tool and of the telescope keeps the invariant.        *)
LEMMA PairingStep == PairingInv /\ [PairingNext]_pairingVars => PairingInv'
<1> SUFFICES ASSUME PairingInv, [PairingNext]_pairingVars PROVE PairingInv'
  OBVIOUS
<1>1. CASE UNCHANGED pairingVars
  <2>1. /\ UNCHANGED <<args, pc, written, scanned, claims, commands, notifs, telescope,
                       spontaneous, misread>>
    BY <1>1 DEF pairingVars, tool
  <2>2. pc' \in Places /\ scanned' \in 0 .. MaxEvents /\ commands' \in Seq(Commands)
    BY <2>1, PairingParts
  <2>3. written' \in BOOLEAN
    BY <2>1, PairingParts, Zenon
  <2> QED
    BY <2>1, <2>2, <2>3, ToolAlone
<1>2. CASE Call \/ Step
  BY <1>2, ToolStep, ChallengeStep, RepliedStep DEF Step
<1> QED
  BY <1>1, <1>2, AnswerStep, UnaskedStep DEF PairingNext

(* What the pairing tool tells the user is so, however many commands are   *)
(* lost and however late the replies are: "Authenticated!" only when the   *)
(* telescope verified the client or trusts it, "WiFi configured" only when *)
(* it took the settings over, as long as no notification that nobody asked *)
(* for, or that is not JSON, was taken for a reply (main and send_and_recv *)
(* of ble_pair.rs).                                                        *)
THEOREM PairingInvariant == PairingSpec => []PairingInv
BY PairingInitially, PairingStep, PTL DEF PairingSpec
=============================================================================
