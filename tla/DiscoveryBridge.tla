--------------------------- MODULE DiscoveryBridge ---------------------------
(***************************************************************************)
(* The UDP discovery bridge (src/src/discovery.rs, port 4720): at start it *)
(* learns the telescope's device info, then it answers the scans of        *)
(* clients with that info, its own address put in the telescope's place,   *)
(* and keeps asking the telescope as long as it has only the fallback.     *)
(*                                                                         *)
(* Datagrams may be lost, duplicated and reordered: the network is a set   *)
(* of datagrams on their way to the bridge, and reading one may leave it   *)
(* there.  Every answer is also broadcast, and the bridge hears its own    *)
(* broadcasts.  The telescope and the clients are the environment.         *)
(*                                                                         *)
(* A device info is what the bridge's decisions and the properties see of  *)
(* it: whose serial number (sn) and whose address (ip) it holds.           *)
(***************************************************************************)
EXTENDS Naturals, FiniteSets

CONSTANTS
  Clients,     \* clients that scan for telescopes
  Replies,     \* the kinds of datagram the telescope answers a scan with
  MaxScans     \* bound: scans and answers are counted up to here

ASSUME DiscoveryAssumption ==
  /\ Replies \subseteq {"info", "error", "garbled", "garbled_error"}
  /\ MaxScans \in Nat

VARIABLES
  phase,           \* "configured" (the identity is given), "probing",
                   \* "fallback" or "listening"
  device_info,     \* the cached answer
  have_real_info,
  net,             \* datagrams on their way to port 4720 of the bridge
  probed,          \* a probe is on its way to the telescope
  (* History *)
  scans,           \* scan datagrams of clients the bridge has read
  answers,         \* answers it has sent
  last_answer      \* the latest of them

vars == <<phase, device_info, have_real_info, net, probed, scans, answers,
          last_answer>>

(* "none": the JSON has no such field; "unknown" and "proxy" are the       *)
(* placeholders of the TCP fallback and of the minimal answer.             *)
Serials   == {"none", "real", "unknown", "proxy"}
Addresses == {"none", "telescope", "proxy"}
Infos     == [sn : Serials, ip : Addresses]

NoInfo      == [sn |-> "none", ip |-> "none"]
FullInfo    == [sn |-> "real", ip |-> "telescope"]
MinimalInfo == [sn |-> "proxy", ip |-> "none"]

(* What reaches the bridge's socket: a client's scan, an answer of the     *)
(* telescope, or the bridge's own broadcast.  Answers have a "code", those *)
(* that report an error nothing else.                                      *)
Scan(c)   == [from |-> c, info |-> NoInfo, code |-> FALSE]
Reply(k)  == [from |-> "telescope", code |-> TRUE,
              info |-> IF k = "info" THEN FullInfo ELSE NoInfo]
Echo(i)   == [from |-> "proxy", info |-> i, code |-> TRUE]
Datagrams == [from : Clients \cup {"telescope", "proxy"}, info : Infos,
              code : BOOLEAN]

(* Every variable keeps its type.                                          *)
TypeOK ==
  /\ phase \in {"configured", "probing", "fallback", "listening"}
  /\ device_info \in Infos
  /\ have_real_info \in BOOLEAN
  /\ net \subseteq Datagrams
  /\ probed \in BOOLEAN
  /\ scans \in 0 .. MaxScans
  /\ answers \in 0 .. MaxScans
  /\ last_answer \in Infos

Init ==
  /\ phase \in {"configured", "probing"}
  /\ device_info = NoInfo
  /\ have_real_info = FALSE
  /\ net = {}
  /\ probed = (phase = "probing")
  /\ scans = 0
  /\ answers = 0
  /\ last_answer = [sn |-> "none", ip |-> "proxy"]

-----------------------------------------------------------------------------
(* Start-up                                                                *)

(* The "result" object, if there is one, gets the proxy's address.         *)
(* Mutant: the address is replaced only where there is none.               *)
Patched_Missing(i) == IF i.ip = "none" THEN [i EXCEPT !.ip = "proxy"] ELSE i
Patched(i) == IF i = NoInfo THEN i ELSE [i EXCEPT !.ip = "proxy"]

(* run() patches what it was given, notes whether it is more than the      *)
(* minimal fallback, and starts to listen.                                 *)
Listen(i) ==
  /\ phase' = "listening"
  /\ device_info' = Patched(i)
  /\ have_real_info' = (i.sn \notin {"none", "proxy"})
  /\ UNCHANGED <<net, scans, answers, last_answer>>

(* build_configured_response                                               *)
UseConfigured ==
  /\ phase = "configured"
  /\ Listen([sn |-> "real", ip |-> "none"])
  /\ UNCHANGED probed

(* probe_upstream_at: the first datagram of the telescope that parses is   *)
(* taken, whatever it says.  Garbled ones are skipped.                     *)
ProbeAnswered(k) ==
  /\ phase = "probing"
  /\ probed
  /\ k \in Replies \cap {"info", "error"}
  /\ probed' = FALSE
  /\ Listen(Reply(k).info)

(* A garbled error, or 5 s without an answer: ask over TCP.                *)
ProbeFailed ==
  /\ phase = "probing"
  /\ phase' = "fallback"
  /\ probed' = FALSE
  /\ UNCHANGED <<device_info, have_real_info, net, scans, answers,
                 last_answer>>

(* fetch_device_info_tcp: the serial number if the answer has one,         *)
(* "unknown" if it does not; no answer at all: the minimal info.           *)
Fallback ==
  /\ phase = "fallback"
  /\ \E i \in {[sn |-> "real", ip |-> "none"], [sn |-> "unknown", ip |-> "none"],
               MinimalInfo} : Listen(i)
  /\ UNCHANGED probed

-----------------------------------------------------------------------------
(* The listening loop                                                      *)

(* recv_from returns a datagram; a duplicate of it may still be to come.   *)
Read(d) == d \in net /\ (net' = net \ {d} \/ net' = net)

(* A datagram with "result" or "code" is an answer, not a scan.            *)
(* Mutant: only "result" is looked for.                                    *)
IsAnswer_Result(d) == d.info # NoInfo
IsAnswer(d) == d.info # NoInfo \/ d.code

(* An answer: taken into the cache if the telescope sent it and the cache  *)
(* is not real yet.  The bridge's own broadcasts are ignored.              *)
(* Mutant: the cache is replaced by every answer.                          *)
Wanted_Always(d) == d.from = "telescope"
Wanted(d) == d.from = "telescope" /\ ~have_real_info

Learn(d) ==
  /\ phase = "listening"
  /\ Read(d)
  /\ IsAnswer(d)
  /\ Wanted(d)
  /\ device_info' = Patched(d.info)
  /\ have_real_info' = TRUE
  /\ UNCHANGED <<phase, probed, scans, answers, last_answer>>

Ignore(d) ==
  /\ phase = "listening"
  /\ Read(d)
  /\ IsAnswer(d)
  /\ ~Wanted(d)
  /\ UNCHANGED <<phase, device_info, have_real_info, probed, scans, answers,
                 last_answer>>

(* The counters of the log stop at their bound.                            *)
Counted(n) == IF n < MaxScans THEN n + 1 ELSE n

(* Without real info the telescope is probed again.                        *)
(* Mutant: it is probed at start-up only.                                  *)
Reprobe_Never == probed
Reprobe == probed \/ ~have_real_info

(* A scan: the cached info goes back to the client and out as a broadcast, *)
(* which the bridge itself may hear.                                       *)
Answer(d) ==
  /\ phase = "listening"
  /\ d \in net
  /\ ~IsAnswer(d)
  /\ \E kept \in {net, net \ {d}}, heard \in {{}, {Echo(device_info)}} :
       net' = kept \cup heard
  /\ scans' = IF d.from \in Clients THEN Counted(scans) ELSE scans
  /\ answers' = Counted(answers)
  /\ last_answer' = device_info
  /\ probed' = Reprobe
  /\ UNCHANGED <<phase, device_info, have_real_info>>

-----------------------------------------------------------------------------
(* The environment: clients scan; the telescope answers a probe; any       *)
(* datagram may be lost.                                                   *)

ClientScans(c) ==
  /\ phase = "listening"
  /\ net' = net \cup {Scan(c)}
  /\ UNCHANGED <<phase, device_info, have_real_info, probed, scans, answers,
                 last_answer>>

TelescopeReplies(k) ==
  /\ phase = "listening"
  /\ probed
  /\ probed' = FALSE
  /\ net' = IF k \in {"info", "error"} THEN net \cup {Reply(k)} ELSE net
  /\ UNCHANGED <<phase, device_info, have_real_info, scans, answers,
                 last_answer>>

Lose(d) ==
  /\ d \in net
  /\ net' = net \ {d}
  /\ UNCHANGED <<phase, device_info, have_real_info, probed, scans, answers,
                 last_answer>>

LoseProbe ==
  /\ phase = "listening"
  /\ probed
  /\ probed' = FALSE
  /\ UNCHANGED <<phase, device_info, have_real_info, net, scans, answers,
                 last_answer>>

Next ==
  \/ UseConfigured \/ ProbeFailed \/ Fallback \/ LoseProbe
  \/ \E k \in Replies : ProbeAnswered(k) \/ TelescopeReplies(k)
  \/ \E d \in Datagrams : Learn(d) \/ Ignore(d) \/ Answer(d) \/ Lose(d)
  \/ \E c \in Clients : ClientScans(c)

Spec == Init /\ [][Next]_vars

-----------------------------------------------------------------------------
(* Safety                                                                  *)

(* Every answer is to a client's scan: the bridge never answers its own    *)
(* broadcast or an answer of the telescope, which would make it broadcast  *)
(* without end (run, the test for "result" and "code").                    *)
NoStorm == answers <= scans

(* Nothing but a client's scan looks like one.                             *)
ScansAreClients == \A d \in net : ~IsAnswer(d) => d.from \in Clients

(* The cache is filled when the bridge starts to listen, it never holds    *)
(* the telescope's address, and the telescope's own serial number counts   *)
(* as real info.                                                           *)
CacheKnown ==
  /\ phase # "listening" => device_info = NoInfo
  /\ device_info.ip # "telescope"
  /\ device_info.sn = "real" => have_real_info

(* Types, no storm, and what the network and the cache hold.               *)
BridgeInv == TypeOK /\ NoStorm /\ ScansAreClients /\ CacheKnown

(* Whatever the telescope sent and whenever, and however the info was      *)
(* learned, no answer sends a client to the telescope past the proxy.      *)
NeverTelescopeAddress == last_answer.ip # "telescope"

(* Once the bridge knows the telescope it does not forget it: a late, a    *)
(* duplicated or an error answer never replaces real info.                 *)
RealInfoKept ==
  [][device_info.sn = "real" => device_info'.sn = "real"]_vars

-----------------------------------------------------------------------------
(* Liveness: clients go on scanning, and what is sent again and again gets *)
(* through in the end.                                                     *)
Fairness ==
  /\ \A c \in Clients : WF_vars(ClientScans(c)) /\ SF_vars(Answer(Scan(c)))
  /\ WF_vars(UseConfigured) /\ WF_vars(ProbeFailed) /\ WF_vars(Fallback)
  /\ SF_vars(TelescopeReplies("info"))
  /\ SF_vars(Learn(Reply("info")))

LiveSpec == Spec /\ Fairness

(* What run takes for real info and is none: an answer with a code and no  *)
(* result, or the fallback's serial number "unknown".  It asks no more.    *)
Misled == have_real_info /\ device_info.sn # "real"

(* A telescope that was away when the bridge started is found in the end:  *)
(* as long as the bridge has only the minimal info, or an error it was     *)
(* told at start, every scan asks again, and in the end it has the         *)
(* telescope's own serial number for good, whatever was lost, repeated or  *)
(* garbled before; unless it was misled, after which it never asks (run,   *)
(* the test of have_real_info before the probe).                           *)
InfoLearned == []~Misled => <>[](device_info.sn = "real")

-----------------------------------------------------------------------------
(* What docs and comments say of the bridge, and it does not do: TLC finds *)
(* a counterexample to each of these (see the README).                     *)

(* "responds with the upstream Seestar's info, substituting its own        *)
(* address so clients connect to the proxy" (discovery.rs:8): every answer *)
(* holds the proxy's address.                                              *)
AddressSubstituted == last_answer.ip = "proxy"

(* "keep trying to get real device info from the telescope"                *)
(* (discovery.rs:67-68): in the end the bridge has the telescope's own     *)
(* serial number, misled or not.                                           *)
RealSerial == <>(device_info.sn = "real")
=============================================================================
