-------------------------- MODULE TelescopeStatus --------------------------
(***************************************************************************)
(* The two copies the proxy keeps of what the telescope is doing: the Lua  *)
(* table that hook scripts read (src/src/hooks.rs) and the status the      *)
(* dashboard shows (src/src/metrics.rs), composed with the traffic log.    *)
(*                                                                         *)
(* The reader task of a connection applies an event to the Lua table, logs *)
(* it, applies it to the status and then asks the script (src/src/         *)
(* control.rs); the upstream task resets both copies, one after the other, *)
(* when it has connected again, and the reader of an abandoned connection  *)
(* may still be at work.  A field holds the connection whose event set it, *)
(* or 0 when it is false, zero or nil.                                     *)
(***************************************************************************)
EXTENDS TrafficLog

CONSTANTS
  MaxConns,   \* bound: connections in a behaviour; readers are 1 .. MaxConns
  Events      \* the events the telescope sends

(* What can be in an event, as far as either copy looks at it.             *)
AllEvents ==
  {"AutoGoto", "Stack", "Stack_count", "View", "View_mode",
   "ScopeHome", "ScopeHome_working", "ScopeTrack", "ScopeTrack_on",
   "PiStatus", "Other"}

ASSUME StatusAssumption ==
  /\ MaxConns \in Nat /\ 1 .. MaxConns \subseteq Loggers
  /\ Events \subseteq AllEvents

VARIABLES
  conn,        \* the connections made, over all runs of the proxy
  up,          \* where the upstream task is
  rd,          \* per connection, where its reader is
  evt,         \* per connection, the event its reader handles
  telescope,   \* the Lua table
  status,      \* telescope_status of the metrics
  (* History *)
  shared       \* a reader of an earlier connection was alive at a reset

statusVars == <<conn, up, rd, evt, telescope, status, shared>>
allVars    == <<vars, statusVars>>

Conns == 1 .. MaxConns

LuaFields == {"is_goto", "is_stacking", "stack_count", "view_mode"}
Fields    == LuaFields \cup {"is_homing", "tracking"}

(* Every variable keeps its type.                                          *)
StatusTypeOK ==
  /\ conn \in 0 .. MaxConns
  /\ up \in {"connecting", "connected", "hooked", "serving"}
  /\ rd \in [Conns -> {"none", "reading", "log", "status", "hook", "done"}]
  /\ evt \in [Conns -> Events \cup {None}]
  /\ telescope \in [LuaFields -> 0 .. MaxConns]
  /\ status \in [Fields -> 0 .. MaxConns]
  /\ shared \in BOOLEAN

StatusInit ==
  /\ Init
  /\ conn = 0
  /\ up = "connecting"
  /\ rd = [e \in Conns |-> "none"]
  /\ evt = [e \in Conns |-> None]
  /\ telescope = [f \in LuaFields |-> 0]
  /\ status = [f \in Fields |-> 0]
  /\ shared = FALSE

-----------------------------------------------------------------------------
(* What an event does to the copies                                        *)

(* update_telescope_state: a View without a mode changes nothing, homing   *)
(* and tracking are not in the table.                                      *)
LuaSets ==
  [e \in AllEvents |->
     CASE e = "AutoGoto"    -> {"is_goto"}
       [] e = "Stack"       -> {"is_stacking"}
       [] e = "Stack_count" -> {"is_stacking", "stack_count"}
       [] e = "View_mode"   -> {"view_mode"}
       [] OTHER             -> {}]

(* update_event: the same and more; a View without a mode, a ScopeHome     *)
(* that is not working and a ScopeTrack that is off take their field back. *)
(* Mutant: a Stack event counts only with its number of frames.            *)
StatusSets_Counted ==
  [e \in AllEvents |-> IF e = "Stack" THEN {} ELSE LuaSets[e]]
StatusSets ==
  [e \in AllEvents |->
     CASE e = "ScopeHome_working" -> {"is_homing"}
       [] e = "ScopeTrack_on"     -> {"tracking"}
       [] OTHER                   -> LuaSets[e]]
StatusClears ==
  [e \in AllEvents |->
     CASE e = "View"       -> {"view_mode"}
       [] e = "ScopeHome"  -> {"is_homing"}
       [] e = "ScopeTrack" -> {"tracking"}
       [] OTHER            -> {}]

update_telescope_state(e, event) ==
  [f \in LuaFields |-> IF f \in LuaSets[event] THEN e ELSE telescope[f]]

update_event(e, event) ==
  [f \in Fields |-> IF f \in StatusSets[event] THEN e
                    ELSE IF f \in StatusClears[event] THEN 0 ELSE status[f]]

(* reset_telescope_state leaves view_mode and tracking alone.              *)
(* Mutant: the homing flag is forgotten.                                   *)
reset_telescope_state_NoHoming ==
  [f \in Fields |->
     IF f \in {"is_goto", "is_stacking", "stack_count"} THEN 0 ELSE status[f]]
reset_telescope_state ==
  [f \in Fields |->
     IF f \in {"is_goto", "is_stacking", "stack_count", "is_homing"}
       THEN 0 ELSE status[f]]

-----------------------------------------------------------------------------
(* The upstream task                                                       *)

Alive(e) == rd[e] \in {"reading", "log", "status", "hook"}

(* Connected: the dashboard's copy is reset at once.                       *)
Connect_telescope ==
  /\ up = "connecting"
  /\ conn < MaxConns
  /\ conn' = conn + 1
  /\ up' = "connected"
  /\ status' = reset_telescope_state
  /\ shared' = \E e \in Conns : Alive(e)
  /\ UNCHANGED <<vars, rd, evt, telescope>>

(* The drain waits for the lock of the pending map in between; then the    *)
(* Lua table is reset, whether or not the scripts have a hook for it.      *)
on_upstream_connect ==
  /\ up = "connected"
  /\ up' = "hooked"
  /\ telescope' = [f \in LuaFields |-> 0]
  /\ UNCHANGED <<vars, conn, rd, evt, status, shared>>

(* The new connection's reader is spawned, the write loop runs.            *)
SpawnReader ==
  /\ up = "hooked"
  /\ up' = "serving"
  /\ rd' = [rd EXCEPT ![conn] = "reading"]
  /\ UNCHANGED <<vars, conn, evt, telescope, status, shared>>

(* The write loop ends: a write failed, or the reader is gone.             *)
Abandon ==
  /\ up = "serving"
  /\ up' = "connecting"
  /\ UNCHANGED <<vars, conn, rd, evt, telescope, status, shared>>

-----------------------------------------------------------------------------
(* The reader of connection e: one event                                   *)

(* The Lua table first, under the engine's lock.                           *)
(* Mutant: the table is left to the end.                                   *)
ReadEvent_Late(e) ==
  /\ rd[e] = "reading"
  /\ log_seq < MaxSeq
  /\ \E event \in Events : evt' = [evt EXCEPT ![e] = event]
  /\ rd' = [rd EXCEPT ![e] = "log"]
  /\ UNCHANGED <<vars, conn, up, telescope, status, shared>>
ReadEvent(e) ==
  /\ rd[e] = "reading"
  /\ log_seq < MaxSeq
  /\ \E event \in Events :
       /\ evt' = [evt EXCEPT ![e] = event]
       /\ telescope' = update_telescope_state(e, event)
  /\ rd' = [rd EXCEPT ![e] = "log"]
  /\ UNCHANGED <<vars, conn, up, status, shared>>

(* push_log takes two steps (TrafficLog).                                  *)
LogTake(e) == rd[e] = "log" /\ TakeSeq(e) /\ UNCHANGED statusVars
LogPush(e) ==
  /\ rd[e] = "log"
  /\ PushEntry(e)
  /\ rd' = [rd EXCEPT ![e] = "status"]
  /\ UNCHANGED <<conn, up, evt, telescope, status, shared>>

UpdateStatus(e) ==
  /\ rd[e] = "status"
  /\ status' = update_event(e, evt[e])
  /\ rd' = [rd EXCEPT ![e] = "hook"]
  /\ UNCHANGED <<vars, conn, up, evt, telescope, shared>>

(* The script is asked whether to forward the event.                       *)
on_event(e) ==
  /\ rd[e] = "hook"
  /\ rd' = [rd EXCEPT ![e] = "reading"]
  /\ evt' = [evt EXCEPT ![e] = None]
  /\ UNCHANGED <<vars, conn, up, telescope, status, shared>>

(* End of file, a read error or an oversized line; or a panic over a line  *)
(* before any of it is applied.                                            *)
ReaderEnd(e) ==
  /\ rd[e] = "reading"
  /\ rd' = [rd EXCEPT ![e] = "done"]
  /\ UNCHANGED <<vars, conn, up, evt, telescope, status, shared>>

-----------------------------------------------------------------------------
(* The imaging proxy logs as well, the pages read, the proxy is restarted. *)
Others ==
  /\ \/ \E t \in Loggers \ Conns : TakeSeq(t) \/ PushEntry(t)
     \/ \E p \in Pages : Connect(p) \/ Disconnect(p) \/ Tick(p)
  /\ UNCHANGED statusVars

RestartAll ==
  /\ Restart
  /\ up' = "connecting"
  /\ rd' = [e \in Conns |-> "none"]
  /\ evt' = [e \in Conns |-> None]
  /\ telescope' = [f \in LuaFields |-> 0]
  /\ status' = [f \in Fields |-> 0]
  /\ shared' = FALSE
  /\ UNCHANGED conn

StatusNext ==
  \/ Connect_telescope \/ on_upstream_connect \/ SpawnReader \/ Abandon
  \/ \E e \in Conns : \/ ReadEvent(e) \/ LogTake(e) \/ LogPush(e)
                      \/ UpdateStatus(e) \/ on_event(e) \/ ReaderEnd(e)
  \/ Others \/ RestartAll

StatusSpec == StatusInit /\ [][StatusNext]_allVars

-----------------------------------------------------------------------------
(* "Update telescope state in hook engine for state-aware scripts"         *)
(* (control.rs:662): when the script is asked about an event of the        *)
(* current connection, the Lua table and the dashboard already show what   *)
(* the event says, whatever another reader or a reset did meanwhile.       *)
HookSeesEvent ==
  \A e \in Conns :
    rd[e] = "hook" /\ e = conn =>
      /\ \A f \in LuaSets[evt[e]] : telescope[f] # 0
      /\ ~shared => \A f \in StatusSets[evt[e]] : status[f] # 0

(* "Without this, flags like is_goto and is_stacking can only ever go from *)
(* false to true and remain stuck" (hooks.rs:172-174): after a reconnect   *)
(* no flag of an earlier connection is left, in neither copy, unless its   *)
(* reader was still alive at the reset; view_mode is cleared in the Lua    *)
(* table alone.                                                            *)
NoStaleFlag ==
  up = "serving" /\ ~shared =>
    /\ \A f \in LuaFields : telescope[f] \in {0, conn}
    /\ \A f \in {"is_goto", "is_stacking", "stack_count", "is_homing"} :
         status[f] \in {0, conn}

(* Scripts and dashboard agree on whether the telescope slews and stacks   *)
(* whenever the reader is between two events, unless a reader of an        *)
(* earlier connection applied its event across the two resets.             *)
CopiesAgree ==
  up = "serving" /\ ~shared /\ (\A e \in Conns : rd[e] \notin {"log", "status"}) =>
    \A f \in {"is_goto", "is_stacking", "stack_count"} :
      (telescope[f] = 0) <=> (status[f] = 0)

(* Only the latest connection has a reader that was spawned after the last *)
(* reset, and none before the upstream task is through with it; without a  *)
(* shared reset it is the only one alive.  Its event is known.             *)
Readers ==
  /\ \A e \in Conns : e > conn \/ (e = conn /\ up \in {"connected", "hooked"})
                        => rd[e] = "none"
  /\ ~shared => \A e \in Conns : Alive(e) => e = conn
  /\ \A e \in Conns : rd[e] \in {"log", "status", "hook"} => evt[e] \in Events
  /\ up # "connecting" => conn \in Conns

(* What the event of the current connection sets stays set in the Lua      *)
(* table until the script is asked.                                        *)
EventApplied ==
  \A e \in Conns : rd[e] \in {"log", "status", "hook"} /\ e = conn =>
    \A f \in LuaSets[evt[e]] : telescope[f] # 0

Slewing == {"is_goto", "is_stacking", "stack_count"}

(* Between the two resets the status is clear; from the second one on the  *)
(* copies differ by what the reader has not yet applied to the status.     *)
CopiesFollow ==
  ~shared =>
    /\ \A f \in Slewing \cup {"is_homing"} : status[f] \in {0, conn}
    /\ up = "connected" => \A f \in Slewing : status[f] = 0
    /\ up # "connected" =>
         /\ \A f \in LuaFields : telescope[f] \in {0, conn}
         /\ \A f \in Slewing :
              telescope[f] = 0 <=>
                /\ status[f] = 0
                /\ \A e \in Conns : rd[e] \in {"log", "status"} =>
                                       f \notin LuaSets[evt[e]]

(* Types, the dashboard's log (TrafficLog), and how the two copies follow  *)
(* the readers through the resets.                                         *)
StatusInv == StatusTypeOK /\ Readers /\ EventApplied /\ HookSeesEvent /\ CopiesFollow
DashboardInv == StatusInv /\ LogInv
=============================================================================
