------------------------------- MODULE Pairing -------------------------------
(***************************************************************************)
(* The Bluetooth pairing tool (src/src/bin/ble_pair.rs): it finds the      *)
(* telescope, proves who it is and hands over the WiFi settings.  Commands *)
(* are written without an acknowledgement and answered by notifications,   *)
(* which carry no id the tool looks at: it takes the next notification as  *)
(* the reply to its last command.                                          *)
(*                                                                         *)
(* The telescope is the environment: it may lose commands, be silent, and  *)
(* notify of its own accord at any time after the connection is made.  The *)
(* tool limits the time of its waits for the telescope's words, and of the *)
(* scan; the calls of the Bluetooth library it awaits without a limit.     *)
(***************************************************************************)
EXTENDS Naturals, Sequences, FiniteSets

CONSTANTS
  MaxSpontaneous,   \* bound: notifications nobody asked for
  MaxEvents         \* bound: other devices seen in the scan

ASSUME PairingAssumption == MaxSpontaneous \in Nat /\ MaxEvents \in Nat

VARIABLES
  args,          \* [key, wifi]: the key given ("none", "right", "wrong") and
                 \* whether an SSID and a password are
  pc,            \* where the tool is; a command: it sends it, or waits for
                 \* its reply
  written,       \* which of the two
  scanned,       \* events of other devices
  notifs,        \* the notification stream
  claims,        \* what the tool has told the user
  (* The telescope *)
  commands,      \* those on their way to it, in order
  trusts,        \* it knows the client's token
  verified,      \* it has verified the client
  wifi,          \* it has taken over the WiFi settings
  (* History *)
  spontaneous,   \* notifications of its own accord
  misread        \* the tool took for a reply what was none

tool      == <<args, pc, written, scanned, claims>>
telescope == <<trusts, verified, wifi>>
pairingVars == <<tool, notifs, commands, telescope, spontaneous, misread>>

Commands == {"get_verify_str", "verify_client", "iscope_set_wifi",
             "set_wifi_ssid", "get_wifi_info"}

(* A notification: what it is about, and its form.  "challenge": a result  *)
(* with a string and code 0; "ok": code 0; "ack": neither a code nor an    *)
(* error; "error"; "garbled": not JSON, which is kept as an object with    *)
(* neither a code nor an error.                                            *)
Forms == {"challenge", "ok", "ack", "error", "garbled"}
Notification(about, form) == [about |-> about, form |-> form]

PairingTypes ==
  /\ args \in [key : {"none", "right", "wrong"}, wifi : BOOLEAN]
  /\ pc \in {"adapter", "scan", "connect", "challenge", "sign", "authenticated",
             "disconnect", "done", "failed"} \cup Commands
  /\ written \in BOOLEAN
  /\ scanned \in 0 .. MaxEvents
  /\ notifs \in Seq([about : Commands \cup {"spontaneous"}, form : Forms])
  /\ claims \subseteq {"authenticated", "wifi_configured"}
  /\ commands \in Seq(Commands)
  /\ trusts \in BOOLEAN /\ verified \in BOOLEAN /\ wifi \in BOOLEAN
  /\ spontaneous \in 0 .. MaxSpontaneous /\ misread \in BOOLEAN

PairingInit ==
  /\ args \in [key : {"none", "right", "wrong"}, wifi : BOOLEAN]
  /\ pc = "adapter" /\ written = FALSE
  /\ scanned = 0 /\ notifs = <<>> /\ claims = {}
  /\ commands = <<>>
  /\ trusts \in BOOLEAN /\ verified = FALSE /\ wifi = FALSE
  /\ spontaneous = 0 /\ misread = FALSE

-----------------------------------------------------------------------------
(* The tool                                                                *)

Goto(step) == pc' = step /\ UNCHANGED <<args, written, scanned, claims>>
Quiet      == UNCHANGED <<notifs, commands, telescope, spontaneous, misread>>

(* The adapter is found and starts to scan, or there is none.              *)
OpenAdapter ==
  /\ pc = "adapter"
  /\ Goto("scan") \/ Goto("failed")
  /\ Quiet

(* Events of other devices are skipped, the scan has a time limit.         *)
ScanDevices ==
  /\ pc = "scan"
  /\ \/ Goto("connect")
     \/ /\ scanned < MaxEvents /\ scanned' = scanned + 1
        /\ UNCHANGED <<args, pc, written, claims>>
     \/ Goto("failed")
  /\ Quiet

(* stop_scan, connect, discover_services, the notification stream, and     *)
(* only then subscribe; any of them may fail, or never return, and the     *)
(* characteristic may be missing.                                          *)
Connect ==
  /\ pc = "connect"
  /\ Goto("challenge") \/ Goto("failed")
  /\ Quiet

(* send_and_recv writes the command, a call that may fail or not return ...*)
Send(c) == pc' = c /\ written' = FALSE

WriteCommand ==
  /\ pc \in Commands /\ ~written
  /\ \/ /\ commands' = Append(commands, pc) /\ written' = TRUE
        /\ UNCHANGED <<args, pc, scanned, claims>>
     \/ Goto("failed") /\ UNCHANGED commands
  /\ UNCHANGED <<notifs, telescope, spontaneous, misread>>

(* ... and takes the next notification.                                    *)
Next_notification(n) == notifs # <<>> /\ n = Head(notifs) /\ notifs' = Tail(notifs)
Receives(c, n) ==
  /\ pc = c /\ written
  /\ Next_notification(n)
  /\ misread' = (misread \/ n.about # c \/ n.form = "garbled")
  /\ UNCHANGED <<args, written, scanned, commands, telescope, spontaneous>>

(* After a time without one the tool gives up, and with an error when the  *)
(* connection ends.  Mutants: silence is taken for an empty ack; the last  *)
(* reply is waited for without a limit.                                    *)
ReplyTimeout_Ack ==
  /\ pc = "get_verify_str" /\ written /\ notifs = <<>>
  /\ claims' = claims \cup {"authenticated"}
  /\ pc' = "authenticated"
  /\ UNCHANGED <<args, written, scanned>> /\ Quiet

ReplyTimeout_NotLast ==
  /\ pc \in Commands \ {"get_wifi_info"} /\ written
  /\ Goto("failed") /\ Quiet

ReplyTimeout ==
  /\ pc \in Commands /\ written
  /\ Goto("failed") /\ Quiet

(* The telescope may send a challenge by itself; when none came in time,   *)
(* or something else did, it is asked for one.                             *)
SpontaneousChallenge ==
  /\ pc = "challenge"
  /\ \E n \in {notifs[i] : i \in DOMAIN notifs} :
       /\ Next_notification(n)
       /\ IF n.form = "challenge" THEN pc' = "sign" /\ UNCHANGED written
                                  ELSE Send("get_verify_str")
  /\ UNCHANGED <<args, scanned, claims, commands, telescope, spontaneous, misread>>

ChallengeTimeout ==
  /\ pc = "challenge"
  /\ Send("get_verify_str")
  /\ UNCHANGED <<args, scanned, claims>> /\ Quiet

(* A challenge is to be signed; an empty ack means the token is trusted.   *)
GetVerifyStr(n) ==
  /\ Receives("get_verify_str", n)
  /\ \/ n.form = "challenge" /\ pc' = "sign" /\ UNCHANGED claims
     \/ /\ n.form \in {"ack", "garbled"}
        /\ pc' = "authenticated" /\ claims' = claims \cup {"authenticated"}
     \/ n.form \in {"ok", "error"} /\ pc' = "failed" /\ UNCHANGED claims

(* sign_challenge needs a key, and openssl.                                *)
Sign ==
  /\ pc = "sign"
  /\ \/ /\ args.key # "none"
        /\ Send("verify_client") /\ UNCHANGED <<args, scanned, claims>>
     \/ Goto("failed")
  /\ Quiet

(* Only code 0 will do.                                                    *)
VerifyClient(n) ==
  /\ Receives("verify_client", n)
  /\ IF n.form \in {"ok", "challenge"}
     THEN pc' = "authenticated" /\ claims' = claims \cup {"authenticated"}
     ELSE pc' = "failed" /\ UNCHANGED claims

(* The WiFi settings, or the present ones are asked for.                   *)
Configure ==
  /\ pc = "authenticated"
  /\ Send(IF args.wifi THEN "iscope_set_wifi" ELSE "get_wifi_info")
  /\ UNCHANGED <<args, scanned, claims>> /\ Quiet

Accepted(n) == n.form # "error"

(* The second method is tried when the first was refused.                  *)
SetWifi(m, n) ==
  /\ pc = m /\ written
  /\ Next_notification(n)
  /\ misread' = (misread \/ n.about # m \/ n.form = "garbled")
  /\ IF Accepted(n)
     THEN /\ claims' = claims \cup {"wifi_configured"}
          /\ pc' = "disconnect" /\ UNCHANGED written
     ELSE /\ IF m = "iscope_set_wifi" THEN Send("set_wifi_ssid")
             ELSE pc' = "disconnect" /\ UNCHANGED written
          /\ UNCHANGED claims
  /\ UNCHANGED <<args, scanned, commands, telescope, spontaneous>>

GetWifiInfo(n) ==
  /\ Receives("get_wifi_info", n)
  /\ pc' = "disconnect" /\ UNCHANGED claims

Disconnect ==
  /\ pc = "disconnect"
  /\ Goto("done") \/ Goto("failed")
  /\ Quiet

-----------------------------------------------------------------------------
(* The telescope                                                           *)

Connected == pc \notin {"adapter", "scan", "connect", "done", "failed"}

Notifies(about, form) == notifs' = Append(notifs, Notification(about, form))

(* It answers a command, does what it asks for and says so; or refuses.    *)
AnswerCommand(form) ==
  /\ Connected /\ commands # <<>>
  /\ LET c == Head(commands)
     IN  /\ CASE c = "get_verify_str" ->
                   /\ form \in IF trusts THEN {"ack"} ELSE {"challenge", "error"}
                   /\ UNCHANGED telescope
              [] c = "verify_client" ->
                   /\ form = IF args.key = "right" THEN "ok" ELSE "error"
                   /\ verified' = (args.key = "right") /\ UNCHANGED <<trusts, wifi>>
              [] c \in {"iscope_set_wifi", "set_wifi_ssid"} ->
                   /\ form \in IF trusts \/ verified THEN {"ok", "ack", "error"}
                                                    ELSE {"error"}
                   /\ wifi' = (wifi \/ form # "error")
                   /\ UNCHANGED <<trusts, verified>>
              [] c = "get_wifi_info" -> form = "ok" /\ UNCHANGED telescope
         /\ Notifies(c, form) \/ Notifies(c, "garbled")
  /\ commands' = Tail(commands)
  /\ UNCHANGED <<tool, spontaneous, misread>>

(* The command is lost.                                                    *)
LoseCommand ==
  /\ commands # <<>>
  /\ commands' = Tail(commands)
  /\ UNCHANGED <<tool, notifs, telescope, spontaneous, misread>>

(* A challenge, or something else, of its own accord.                      *)
Spontaneous ==
  /\ Connected
  /\ spontaneous < MaxSpontaneous
  /\ spontaneous' = spontaneous + 1
  /\ Notifies("spontaneous", "challenge") \/ Notifies("spontaneous", "ack")
  /\ UNCHANGED <<tool, commands, telescope, misread>>

-----------------------------------------------------------------------------
Replied(n) ==
  \/ GetVerifyStr(n) \/ VerifyClient(n) \/ GetWifiInfo(n)
  \/ SetWifi("iscope_set_wifi", n) \/ SetWifi("set_wifi_ssid", n)

(* The calls of the Bluetooth library, which have no time limit.           *)
InCall == pc \in {"adapter", "connect", "disconnect"} \/ (pc \in Commands /\ ~written)
Call   == OpenAdapter \/ Connect \/ WriteCommand \/ Disconnect

(* The steps whose waits have one, and those of the tool by itself.        *)
Step ==
  \/ ScanDevices \/ SpontaneousChallenge \/ ChallengeTimeout
  \/ Sign \/ Configure \/ ReplyTimeout
  \/ \E n \in {notifs[i] : i \in DOMAIN notifs} : Replied(n)

PairingNext ==
  \/ Call \/ Step
  \/ (\E f \in Forms : AnswerCommand(f)) \/ LoseCommand \/ Spontaneous

(* Nothing makes a call return.                                            *)
PairingSpec == PairingInit /\ [][PairingNext]_pairingVars /\ WF_pairingVars(Step)

-----------------------------------------------------------------------------
(* What the tool tells the user is so: "Authenticated!" only when the      *)
(* telescope verified the client or trusts its token, "WiFi configured"    *)
(* only when the telescope took the settings over.  Commands lost and      *)
(* replies that come after the tool's patience never make a reply pass for *)
(* that of another command; only a notification nobody asked for, or one   *)
(* that is not JSON, does.                                                 *)
ClaimsTrue ==
  ~misread =>
    /\ "authenticated" \in claims => verified \/ trusts
    /\ "wifi_configured" \in claims => wifi

(* What an answer says of the telescope is so, and stays so however long   *)
(* the answer is on its way.                                               *)
SaysTrue(n) ==
  /\ n.about = "get_verify_str" /\ n.form = "ack" => trusts
  /\ n.about = "verify_client" /\ n.form \in {"ok", "challenge"} => verified
  /\ n.about \in {"iscope_set_wifi", "set_wifi_ssid"}
       /\ n.form \notin {"error", "garbled"} => wifi

AnswersTrue ==
  /\ verified => args.key = "right"
  /\ \A i \in DOMAIN notifs : SaysTrue(notifs[i])

(* The variables keep their types, and the telescope's answers and the     *)
(* tool's claims are true.                                                 *)
PairingInv == PairingTypes /\ AnswersTrue /\ ClaimsTrue

(* Whatever the telescope does or does not, the tool never waits for ever  *)
(* for its words: it ends, or hangs in a call of the Bluetooth library,    *)
(* none of which main and send_and_recv limit in time.                     *)
PairingEnds == <>(pc \in {"done", "failed"}) \/ <>[]InCall
=============================================================================
