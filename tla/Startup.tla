------------------------------- MODULE Startup -------------------------------
(***************************************************************************)
(* From the command line to a running proxy, and back: how the settings of *)
(* the command line, the environment and the config file are layered       *)
(* (src/src/config.rs), the steps of main (src/src/main.rs) with everything *)
(* that can fail in them, the keys of the WireGuard endpoint on disk       *)
(* (src/src/wireguard/keys.rs, start in wireguard/mod.rs), the Tailscale   *)
(* node (src/src/tailscale/mod.rs) and the clock (src/src/ntp.rs).         *)
(*                                                                         *)
(* The process may be killed at any step and is started again with the     *)
(* same settings; the key files and the clock outlive it.  What the disk,  *)
(* the name service, the telescope and the tailnet answer is chosen by the *)
(* environment.                                                            *)
(*                                                                         *)
(* A key is the number of the key pair it belongs to, in the order in      *)
(* which the pairs were generated.                                         *)
(***************************************************************************)
EXTENDS Naturals, Sequences, FiniteSets, TLC, Functions, SequencesExt

CONSTANTS
  Setups,      \* what the user wrote: see SetupType
  MaxStarts    \* bound: how often the process is started

OptionFields  == {"upstream", "wg_endpoint", "record", "replay",
                  "telescope_sn", "telescope_model", "telescope_bssid"}
DefaultFields == {"upstream_control_port", "upstream_imaging_port", "bind",
                  "control_port", "imaging_port", "dashboard_port",
                  "wg_port", "wg_subnet", "wg_key_file"}
Flags         == {"discovery", "wireguard", "raw", "transparent"}
(* Set on the command line or in the environment, never in the file.       *)
CliFlags      == {"ntp_sync", "tailscale"}

(* A partial assignment of values to the fields of Config.                 *)
IsAssignment(a) ==
  /\ DOMAIN a \subseteq OptionFields \cup DefaultFields \cup Flags \cup CliFlags
  /\ \A f \in DOMAIN a :
       IF f \in Flags \cup CliFlags THEN a[f] \in BOOLEAN ELSE a[f] \in STRING

(* The upstream is an address ("v4", "v6") or a name to resolve; a port of *)
(* "0" disables the dashboard.  files are the candidates of the config     *)
(* file in order, the only one being --config's when explicit.  A flag on  *)
(* the command line can only be turned on; the environment may say FALSE.  *)
IsSetup(s) ==
  /\ s.features \subseteq {"ntp", "wireguard", "tailscale"}
  /\ IsAssignment(s.cli) /\ IsAssignment(s.env)
  /\ \A f \in DOMAIN s.cli \cap (Flags \cup CliFlags) : s.cli[f] = TRUE
  /\ s.cli_hooks \in Seq(STRING) /\ s.cli_verbose \in 0 .. 2
  /\ s.files \in Seq(Range(s.files))
  /\ s.explicit \in BOOLEAN /\ (s.explicit => Len(s.files) = 1)
  /\ \A f \in Range(s.files) :
       /\ f.status \in {"valid", "invalid", "missing"}
       /\ IsAssignment(f.values) /\ DOMAIN f.values \cap CliFlags = {}
       /\ f.hooks \in Seq(STRING) /\ f.verbose \in 0 .. 2

ASSUME StartupAssumption ==
  /\ \A s \in Setups : IsSetup(s)
  /\ MaxStarts \in Nat \ {0}

VARIABLES
  setup,       \* the user's settings
  pc,          \* where main is; "down": no process
  config,      \* the assignment in force, <<>> before it is loaded
  hooks,       \* the hook scripts of the configuration
  verbose,
  upstream,    \* the telescope's address: "none", "v4" or "v6"
  keys,        \* [server, client]: the key pairs in memory, 0 for none
  warned,      \* some key in memory could not be saved
  tasks,       \* the tasks this process runs
  (* Outlives the process *)
  key_file,    \* per key: the pair saved, 0 for no file, Torn for a file
               \* that is not a key
  clock_right,
  (* History *)
  minted,      \* key pairs generated so far
  issued,      \* the client configurations shown as QR codes, in order
  starts,
  exit         \* why the last process ended

vars == <<setup, pc, config, hooks, verbose, upstream, keys, warned, tasks,
          key_file, clock_right, minted, issued, starts, exit>>

fileVars    == <<key_file, clock_right>>
historyVars == <<minted, issued, starts>>

KeyNames == {"server", "client"}
Torn     == MaxStarts * 2 + 1
NoKeys   == [k \in KeyNames |-> 0]

-----------------------------------------------------------------------------
(* The configuration.                                                      *)

Defaults ==
  [f \in DefaultFields |->
     CASE f \in {"upstream_control_port", "control_port"} -> "4700"
       [] f \in {"upstream_imaging_port", "imaging_port"} -> "4800"
       [] f = "dashboard_port" -> "4090"
       [] f = "wg_port"        -> "51820"
       [] f = "bind"           -> "0.0.0.0"
       [] f = "wg_subnet"      -> "10.99.0.0/24"
       [] f = "wg_key_file"    -> "~/.seestar-proxy/wg.key"]

(* The defaults are written like the values of the other sources; TLC      *)
(* evaluates what the provers cannot know of a literal.                    *)
ASSUME DefaultsAreStrings == \A f \in DefaultFields : Defaults[f] \in STRING

(* Config::parse: the command line, then the environment, then the default *)
(* of the field.                                                           *)
Parse(s) ==
  [f \in DOMAIN s.cli \cup DOMAIN s.env \cup DefaultFields \cup Flags \cup CliFlags |->
     IF f \in DOMAIN s.cli THEN s.cli[f]
     ELSE IF f \in DOMAIN s.env THEN s.env[f]
     ELSE IF f \in DefaultFields THEN Defaults[f] ELSE FALSE]

(* The first candidate that can be read and parsed; an explicit one must.  *)
Readable(s) == {i \in DOMAIN s.files : s.files[i].status = "valid"}
FileOf(s)   == s.files[CHOOSE i \in Readable(s) : \A j \in Readable(s) : i <= j]

(* A mutant of Fills: a flag of the file is taken over whatever it says.   *)
Fills_AnyFlag(c, file) ==
  {f \in DOMAIN file :
     \/ f \in OptionFields  /\ f \notin DOMAIN c
     \/ f \in DefaultFields /\ c[f] = Defaults[f]
     \/ f \in Flags}

(* apply_file: what the file may fill in.                                  *)
Fills(c, file) ==
  {f \in DOMAIN file :
     \/ f \in OptionFields  /\ f \notin DOMAIN c
     \/ f \in DefaultFields /\ c[f] = Defaults[f]
     \/ f \in Flags         /\ file[f]}

ApplyFile(c, file) ==
  LET fills == Fills(c, file)
  IN  [f \in DOMAIN c \cup fills |-> IF f \in fills THEN file[f] ELSE c[f]]

(* Hooks of the file are appended unless they are there already.           *)
AddHook(hs, h) == IF h \in Range(hs) THEN hs ELSE Append(hs, h)
AppendHooks(hs, fileHooks) ==
  LET added[i \in 0 .. Len(fileHooks)] ==
        IF i = 0 THEN hs ELSE AddHook(added[i - 1], fileHooks[i])
  IN  added[Len(fileHooks)]

HigherOf(a, b) == IF a > b THEN a ELSE b

Given(f)   == f \in DOMAIN config
Enabled(f) == config[f]
Feature(x) == x \in setup.features

-----------------------------------------------------------------------------
TypeOK ==
  /\ setup \in Setups
  /\ pc \in {"down", "load", "ntp", "inputs", "resolve", "raw", "recorder",
             "hooks", "wireguard", "server", "client", "server_file",
             "client_file", "qr", "bind", "probe", "tailscale", "spawn",
             "running"}
  /\ IsAssignment(config)
  /\ hooks \in Seq(STRING)
  /\ verbose \in 0 .. 2
  /\ upstream \in {"none", "v4", "v6"}
  /\ keys \in [KeyNames -> 0 .. minted]
  /\ warned \in BOOLEAN
  /\ tasks \subseteq {"raw control", "raw imaging", "netstack", "tunnel bridge",
                      "packet loop", "ts control", "ts imaging",
                      "ts dashboard", "dashboard", "control", "imaging",
                      "discovery"}
  /\ key_file \in [KeyNames -> 0 .. Torn]
  /\ clock_right \in BOOLEAN
  /\ minted \in 0 .. 2 * MaxStarts
  /\ starts \in 0 .. MaxStarts

Init ==
  /\ setup \in Setups
  /\ pc = "down"
  /\ config = <<>> /\ hooks = <<>> /\ verbose = 0
  /\ upstream = "none" /\ keys = NoKeys /\ warned = FALSE /\ tasks = {}
  /\ key_file = NoKeys
  /\ clock_right \in BOOLEAN
  /\ minted = 0 /\ issued = <<>> /\ starts = 0 /\ exit = "none"

(* The process ends: what it held is gone.                                 *)
Exit(why) ==
  /\ exit' = why
  /\ pc' = "down"
  /\ config' = <<>> /\ hooks' = <<>> /\ verbose' = 0
  /\ upstream' = "none" /\ keys' = NoKeys /\ warned' = FALSE /\ tasks' = {}
  /\ UNCHANGED <<setup, fileVars, historyVars>>

(* main goes on to its next step and changes nothing else.                 *)
Goto(step) ==
  /\ pc' = step
  /\ UNCHANGED <<setup, config, hooks, verbose, upstream, keys, warned, tasks,
                 fileVars, historyVars, exit>>

Start ==
  /\ pc = "down"
  /\ starts < MaxStarts
  /\ starts' = starts + 1
  /\ pc' = "load"
  /\ exit' = "none"
  /\ UNCHANGED <<setup, config, hooks, verbose, upstream, keys, warned, tasks,
                 fileVars, minted, issued>>

(* Config::load.                                                           *)
LoadConfig ==
  /\ pc = "load"
  /\ ~setup.explicit \/ Readable(setup) # {}
  /\ LET parsed == Parse(setup)
     IN  IF Readable(setup) = {}
         THEN /\ config' = parsed
              /\ hooks' = setup.cli_hooks
              /\ verbose' = setup.cli_verbose
         ELSE /\ config' = ApplyFile(parsed, FileOf(setup).values)
              /\ hooks' = AppendHooks(setup.cli_hooks, FileOf(setup).hooks)
              /\ verbose' = HigherOf(FileOf(setup).verbose, setup.cli_verbose)
  /\ pc' = "ntp"
  /\ UNCHANGED <<setup, upstream, keys, warned, tasks, fileVars, historyVars, exit>>

LoadConfigFails ==
  /\ pc = "load"
  /\ setup.explicit /\ Readable(setup) = {}
  /\ Exit("config")

(* ntp::sync: a failed query, an offset within the threshold and a clock   *)
(* the program may not set all leave the clock alone; none is fatal.       *)
SyncClock ==
  /\ pc = "ntp"
  /\ pc' = "inputs"
  /\ clock_right' \in IF Feature("ntp") /\ Enabled("ntp_sync")
                      THEN {clock_right, TRUE} ELSE {clock_right}
  /\ UNCHANGED <<setup, config, hooks, verbose, upstream, keys, warned, tasks,
                 key_file, historyVars, exit>>

(* --replay excludes --record, and the session must load.                  *)
CheckInputs ==
  /\ pc = "inputs"
  /\ \/ ~(Given("replay") /\ Given("record")) /\ Goto("resolve")
     \/ Given("replay") /\ Given("record") /\ Exit("replay and record")
     \/ Given("replay") /\ ~Given("record") /\ Exit("replay load")

(* resolve_host: an address is itself, of the addresses of a name an IPv4  *)
(* one is preferred; no answer, or an empty one, is an error.              *)
ResolveHost(host) ==
  IF host \in {"v4", "v6"} THEN {host}
  ELSE {IF "v4" \in answer THEN "v4" ELSE "v6" :
          answer \in SUBSET {"v4", "v6"} \ {{}}}

NoUpstream ==
  Given("replay") \/ (Enabled("transparent") /\ ~Given("upstream"))

ResolveUpstream ==
  /\ pc = "resolve"
  /\ LET host == IF Given("upstream") THEN config["upstream"]
                                      ELSE "seestar.local"
     IN  \/ /\ upstream' \in IF NoUpstream THEN {"none"} ELSE ResolveHost(host)
            /\ pc' = "raw"
            /\ UNCHANGED <<setup, config, hooks, verbose, keys, warned, tasks,
                           fileVars, historyVars, exit>>
         \/ ~NoUpstream /\ host \notin {"v4", "v6"} /\ Exit("resolve")

(* Raw mode cannot run without an upstream (expect panics); with one it    *)
(* spawns the two pipes and only waits for Ctrl-C.                         *)
RawMode ==
  /\ pc = "raw"
  /\ \/ ~Enabled("raw") /\ Goto("recorder")
     \/ Enabled("raw") /\ upstream = "none" /\ Exit("raw without upstream")
     \/ /\ Enabled("raw") /\ upstream # "none"
        /\ tasks' = {"raw control", "raw imaging"}
        /\ pc' = "running"
        /\ UNCHANGED <<setup, config, hooks, verbose, upstream, keys, warned,
                       fileVars, historyVars, exit>>

OpenRecorder ==
  /\ pc = "recorder"
  /\ \/ Goto("hooks")
     \/ Given("record") /\ Exit("recorder")

LoadHooks ==
  /\ pc = "hooks"
  /\ \/ Goto("wireguard")
     \/ hooks # <<>> /\ Exit("hooks")

-----------------------------------------------------------------------------
(* WireGuard: wireguard::start.  Its errors are logged and main goes on    *)
(* without the tunnel.                                                     *)

StartWireGuard ==
  /\ pc = "wireguard"
  /\ \/ ~Enabled("wireguard") /\ Goto("tailscale")
     \/ Enabled("wireguard") /\ ~Feature("wireguard") /\ Exit("not compiled in")
     \/ Enabled("wireguard") /\ Feature("wireguard") /\ Goto("server")

(* A mutant of WireGuardFails: the error is passed up.                     *)
WireGuardFatal == Exit("wireguard")

WireGuardFails == Goto("tailscale")

(* The steps of a key: where its file is written, and what comes after it. *)
FileStep(k) == IF k = "server" THEN "server_file" ELSE "client_file"
AfterKey(k) == IF k = "server" THEN "client" ELSE "qr"

(* load_or_generate, the file exists: it must decode to a key.             *)
LoadKey(k) ==
  /\ pc = k
  /\ key_file[k] # 0
  /\ \/ /\ key_file[k] # Torn
        /\ keys' = [keys EXCEPT ![k] = key_file[k]]
        /\ pc' = AfterKey(k)
        /\ UNCHANGED <<setup, config, hooks, verbose, upstream, warned, tasks,
                       fileVars, historyVars, exit>>
     \/ WireGuardFails

(* A mutant of GenerateKey: whether there is a file is not asked.          *)
GenerateKeyAnew(k) ==
  /\ pc = k
  /\ minted < 2 * MaxStarts
  /\ minted' = minted + 1
  /\ keys' = [keys EXCEPT ![k] = minted + 1]
  /\ key_file' = [key_file EXCEPT ![k] = minted + 1]
  /\ pc' = AfterKey(k)
  /\ UNCHANGED <<setup, config, hooks, verbose, upstream, warned, tasks,
                 clock_right, issued, starts, exit>>

(* It does not: a new pair, and the file is created, empty at first, unless *)
(* the disk is read-only.  path.exists() also says so of a file it cannot  *)
(* stat; that a stat of an existing file succeeds is assumed.              *)
GenerateKey(k) ==
  /\ pc = k
  /\ key_file[k] = 0
  /\ minted' = minted + 1
  /\ keys' = [keys EXCEPT ![k] = minted + 1]
  /\ \/ /\ key_file' = [key_file EXCEPT ![k] = Torn]
        /\ pc' = FileStep(k)
        /\ UNCHANGED warned
     \/ /\ warned' = TRUE
        /\ pc' = AfterKey(k)
        /\ UNCHANGED key_file
  /\ UNCHANGED <<setup, config, hooks, verbose, upstream, tasks, clock_right,
                 issued, starts, exit>>

(* The rest of try_persist: the key is written and its mode set.  When the *)
(* write fails, or the mode cannot be set, the user is warned.             *)
PersistKey(k) ==
  /\ pc = FileStep(k)
  /\ \/ key_file' = [key_file EXCEPT ![k] = keys[k]] /\ warned' \in {warned, TRUE}
     \/ warned' = TRUE /\ UNCHANGED key_file
  /\ pc' = AfterKey(k)
  /\ UNCHANGED <<setup, config, hooks, verbose, upstream, keys, tasks,
                 clock_right, historyVars, exit>>

(* The client's configuration holds the server's public key and the        *)
(* client's private one; it is printed as a QR code.                       *)
ShowQr ==
  /\ pc = "qr"
  /\ issued' = Append(issued, [keys |-> keys, warned |-> warned])
  /\ pc' = "bind"
  /\ UNCHANGED <<setup, config, hooks, verbose, upstream, keys, warned, tasks,
                 fileVars, minted, starts, exit>>

(* The UDP socket, the upstream (the loopback address when there is none), *)
(* the stack and the task that bridges its connections.                    *)
BindTunnel ==
  /\ pc = "bind"
  /\ \/ /\ upstream # "v6"
        /\ tasks' = tasks \cup {"netstack", "tunnel bridge"}
        /\ pc' = "probe"
        /\ UNCHANGED <<setup, config, hooks, verbose, upstream, keys, warned,
                       fileVars, historyVars, exit>>
     \/ WireGuardFails

(* fetch_device_info: the native answer, one built from the device state,  *)
(* or the default; each attempt has its timeout.  The native answer is cut *)
(* at its 200th byte for the log: inside a character of several bytes this *)
(* panics, and it is main that waits here.                                 *)
ProbeTelescope ==
  /\ pc = "probe"
  /\ \/ /\ tasks' = tasks \cup {"packet loop"}
        /\ pc' = "tailscale"
        /\ UNCHANGED <<setup, config, hooks, verbose, upstream, keys, warned,
                       fileVars, historyVars, exit>>
     \/ Exit("probe")

-----------------------------------------------------------------------------
(* tailscale::start: up blocks until the node is authenticated, which it   *)
(* cannot be while the clock is wrong, and which may take a user, or take  *)
(* for ever.  Listening may fail for each port.  Errors are logged.        *)

TailscaleOff ==
  /\ pc = "tailscale"
  /\ ~(Feature("tailscale") /\ Enabled("tailscale"))
  /\ Goto("spawn")

TailscaleFails ==
  /\ pc = "tailscale"
  /\ Feature("tailscale") /\ Enabled("tailscale")
  /\ Goto("spawn")

TailscaleUp ==
  /\ pc = "tailscale"
  /\ Feature("tailscale") /\ Enabled("tailscale")
  /\ clock_right
  /\ \E ports \in SUBSET ({"ts control", "ts imaging"} \cup
          IF config["dashboard_port"] = "0" THEN {} ELSE {"ts dashboard"}) :
       tasks' = tasks \cup ports
  /\ pc' = "spawn"
  /\ UNCHANGED <<setup, config, hooks, verbose, upstream, keys, warned, fileVars,
                 historyVars, exit>>

(* The dashboard, the two proxies, and discovery when there is an upstream.*)
SpawnProxies ==
  /\ pc = "spawn"
  /\ tasks' = tasks \cup {"control", "imaging"}
        \cup (IF config["dashboard_port"] # "0" THEN {"dashboard"} ELSE {})
        \cup (IF Enabled("discovery") /\ upstream # "none"
              THEN {"discovery"} ELSE {})
  /\ pc' = "running"
  /\ UNCHANGED <<setup, config, hooks, verbose, upstream, keys, warned, fileVars,
                 historyVars, exit>>

(* A task that cannot bind its port logs the error and ends; main stays.   *)
TaskEnds ==
  /\ pc = "running"
  /\ \E t \in tasks \cap {"control", "imaging", "dashboard", "discovery",
                          "raw control", "raw imaging"} :
       tasks' = tasks \ {t}
  /\ UNCHANGED <<setup, pc, config, hooks, verbose, upstream, keys, warned,
                 fileVars, historyVars, exit>>

CtrlC == pc = "running" /\ Exit("ctrl-c")

(* The process is killed: Ctrl-C before main waits for it, or a crash of   *)
(* the process.  What it has written stays; a loss of power, which may     *)
(* take back what was not synced (try_persist does not), is left out.      *)
Kill == pc # "down" /\ Exit("killed")

-----------------------------------------------------------------------------
(* The steps main takes by itself.  What takes a user or the tailnet is    *)
(* not among them.                                                         *)
Step ==
  \/ LoadConfig \/ LoadConfigFails \/ SyncClock \/ CheckInputs
  \/ ResolveUpstream \/ RawMode \/ OpenRecorder \/ LoadHooks
  \/ StartWireGuard
  \/ \E k \in KeyNames : LoadKey(k) \/ GenerateKey(k) \/ PersistKey(k)
  \/ ShowQr \/ BindTunnel \/ ProbeTelescope
  \/ TailscaleOff \/ SpawnProxies

Next ==
  \/ Start \/ Step \/ TailscaleUp \/ TailscaleFails
  \/ TaskEnds \/ CtrlC \/ Kill

Spec == Init /\ [][Next]_vars /\ WF_vars(Step)

-----------------------------------------------------------------------------
(* What each source gives a field, if anything.                            *)
FileValues == IF Readable(setup) = {} THEN <<>> ELSE FileOf(setup).values
GivenBy(f) ==
  {src[f] : src \in {a \in {setup.cli, setup.env, FileValues} : f \in DOMAIN a}}

(* apply_file's promise, "only fills in fields that ... weren't set by CLI *)
(* or env" (config.rs:230-231), against the sources themselves: a value of *)
(* the command line other than the default is in force; without one a      *)
(* value of the environment is (the module's header, config.rs:3-7, ranks  *)
(* the file above it: see the README); a field only the file gives has the *)
(* file's value, one nobody gives its default; a flag is on when some      *)
(* source turned it on, whatever the others say; no hook of either list is *)
(* dropped or doubled, those of the command line come first; the log is as *)
(* verbose as the more verbose of command line and file asks, and no more. *)
SettingsHonoured ==
  pc \notin {"down", "load"} =>
    /\ \A f \in OptionFields \cup DefaultFields :
         LET unlike(a) == f \in DOMAIN a /\ (f \in DefaultFields => a[f] # Defaults[f])
         IN  /\ unlike(setup.cli) => config[f] = setup.cli[f]
             /\ f \notin DOMAIN setup.cli /\ unlike(setup.env) =>
                  config[f] = setup.env[f]
             /\ f \in DOMAIN FileValues /\ Cardinality(GivenBy(f)) = 1 =>
                  config[f] = FileValues[f]
             /\ GivenBy(f) = {} =>
                  IF f \in DefaultFields THEN config[f] = Defaults[f]
                                         ELSE f \notin DOMAIN config
    /\ \A f \in Flags : config[f] = (TRUE \in GivenBy(f))
    /\ LET fileHooks == IF Readable(setup) = {} THEN <<>> ELSE FileOf(setup).hooks
       IN  /\ Range(hooks) = Range(setup.cli_hooks) \cup Range(fileHooks)
           /\ IsPrefix(setup.cli_hooks, hooks)
           /\ Cardinality(Range(setup.cli_hooks)) = Len(setup.cli_hooks) =>
                Cardinality(Range(hooks)) = Len(hooks)
    /\ LET asked == {setup.cli_verbose} \cup
                     IF Readable(setup) = {} THEN {} ELSE {FileOf(setup).verbose}
       IN  verbose \in asked /\ \A v \in asked : verbose >= v

(* The steps before the keys, and how many pairs the process may still     *)
(* generate.                                                               *)
BeforeKeys == {"load", "ntp", "inputs", "resolve", "raw", "recorder", "hooks",
               "wireguard", "server"}
Pairs == IF pc \in BeforeKeys THEN 2
         ELSE IF pc \in {"server_file", "client"} THEN 1 ELSE 0

Saved(k) == key_file[k] \notin {0, Torn}

(* A key that is on disk is the one in memory; one that is not was warned  *)
(* of.                                                                     *)
Matches(k) ==
  /\ Saved(k) => keys[k] = key_file[k]
  /\ ~warned => Saved(k)

(* A process generates at most two pairs; a file holds a pair that was     *)
(* generated, or no key.  While the keys are made ready, those in memory   *)
(* match those on disk, and the disk keeps what was shown unwarned.        *)
KeysFollowFiles ==
  /\ minted <= 2 * starts - Pairs
  /\ \A k \in KeyNames : key_file[k] = Torn \/ key_file[k] <= minted
  /\ \A k \in KeyNames : pc = FileStep(k) => ~Saved(k) /\ keys[k] # 0
  /\ pc \in {"client", "client_file", "qr"} => Matches("server")
  /\ pc = "qr" => Matches("client")
  /\ \A i \in DOMAIN issued : ~issued[i].warned =>
       \A k \in KeyNames : Saved(k) /\ issued[i].keys[k] = key_file[k]

(* The variables keep their types, the settings are honoured, and the keys *)
(* follow their files.                                                     *)
StartupInv == TypeOK /\ SettingsHonoured /\ KeysFollowFiles

(* "persisted so QR code survives restarts" (wireguard/mod.rs): once a     *)
(* client configuration was shown without the warning that its keys could  *)
(* not be saved, every configuration any later process shows has the same  *)
(* keys, whatever the disk did meanwhile and wherever a process was        *)
(* killed.  A file torn by a kill never passes for a key.                  *)
QrSurvivesRestart ==
  \A i, j \in DOMAIN issued :
    i < j /\ ~issued[i].warned => issued[j].keys = issued[i].keys

(* A process that is started gets to run its proxies, or its raw pipes:    *)
(* neither a wrong clock nor a broken key file, a port in use, an IPv6     *)
(* upstream or a silent telescope keeps it from it.  It ends before only   *)
(* for the settings, sessions, scripts and names that main treats as       *)
(* fatal, or when the log's cut of the telescope's answer panics (a        *)
(* failing tunnel is else logged and main goes on, main.rs:188-191), and   *)
(* may wait only for the tailnet.                                          *)
GetsToRun ==
  (pc = "load") ~>
    \/ pc = "running" /\ (Enabled("raw") \/ {"control", "imaging"} \subseteq tasks)
    \/ pc = "tailscale" /\ Enabled("tailscale")
    \/ exit \in {"config", "replay and record", "replay load", "resolve",
                 "raw without upstream", "recorder", "hooks",
                 "not compiled in", "probe", "killed"}

=============================================================================
