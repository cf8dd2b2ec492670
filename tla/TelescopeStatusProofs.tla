------------------------ MODULE TelescopeStatusProofs ------------------------
(***************************************************************************)
(* Proofs about the two copies of the telescope's state, the Lua table and *)
(* the dashboard's status, and about the traffic log: its ring, and what   *)
(* the pages that follow it show.  For any number of connections, events,  *)
(* tasks that log, entries, pages and runs of the proxy.                   *)
(***************************************************************************)
EXTENDS TelescopeStatus, WellFoundedInduction, TLAPS

-----------------------------------------------------------------------------
(* What events and resets do                                               *)

(* Both copies take the same events as slewing and stacking, and no event  *)
(* takes these flags back.                                                 *)
LEMMA EventSets ==
  ASSUME NEW ev \in AllEvents
  PROVE  /\ LuaSets[ev] \subseteq LuaFields
         /\ StatusSets[ev] \subseteq Fields
         /\ \A f \in Slewing : /\ f \in StatusSets[ev] <=> f \in LuaSets[ev]
                               /\ f \notin StatusClears[ev]
BY DEF AllEvents, LuaSets, StatusSets, StatusClears, LuaFields, Fields, Slewing

(* The flags of the two copies.                                            *)
LEMMA FieldFacts ==
  /\ Slewing \subseteq LuaFields /\ LuaFields \subseteq Fields
  /\ Slewing \cup {"is_homing"} \subseteq Fields
BY DEF Slewing, LuaFields, Fields

(* Connections are counted from 1.                                         *)
LEMMA ConnFacts ==
  /\ MaxConns \in Nat /\ Events \subseteq AllEvents
  /\ \A e \in Conns : e \in 1 .. MaxConns /\ e \in 0 .. MaxConns /\ e # 0 /\ e \in Int
  /\ 0 \in 0 .. MaxConns
BY StatusAssumption DEF Conns

(* An event applied to the Lua table.                                      *)
LEMMA LuaApplied ==
  ASSUME StatusTypeOK, NEW e \in Conns, NEW ev \in Events,
         telescope' = update_telescope_state(e, ev)
  PROVE  /\ telescope' \in [LuaFields -> 0 .. MaxConns]
         /\ \A f \in LuaSets[ev] : telescope'[f] = e
         /\ \A f \in LuaFields \ LuaSets[ev] : telescope'[f] = telescope[f]
<1>1. LuaSets[ev] \subseteq LuaFields
  BY EventSets, ConnFacts
<1> QED
  BY <1>1, ConnFacts DEF update_telescope_state, StatusTypeOK

(* An event applied to the status.                                         *)
LEMMA StatusApplied ==
  ASSUME StatusTypeOK, NEW e \in Conns, NEW ev \in Events,
         status' = update_event(e, ev)
  PROVE  /\ status' \in [Fields -> 0 .. MaxConns]
         /\ \A f \in StatusSets[ev] : status'[f] = e
         /\ \A f \in Fields : status'[f] \in {0, e, status[f]}
         /\ \A f \in Slewing :
              status'[f] = IF f \in LuaSets[ev] THEN e ELSE status[f]
<1>1. /\ StatusSets[ev] \subseteq Fields
      /\ \A f \in Slewing : /\ f \in StatusSets[ev] <=> f \in LuaSets[ev]
                            /\ f \notin StatusClears[ev]
  BY EventSets, ConnFacts
<1>2. /\ status' = [f \in Fields |-> IF f \in StatusSets[ev] THEN e
                    ELSE IF f \in StatusClears[ev] THEN 0 ELSE status[f]]
      /\ e \in 0 .. MaxConns /\ 0 \in 0 .. MaxConns
  BY ConnFacts DEF update_event
<1>3. \A f \in Fields : status[f] \in 0 .. MaxConns
  BY DEF StatusTypeOK
<1>4. status' \in [Fields -> 0 .. MaxConns]
  BY <1>2, <1>3
<1>5. \A f \in Slewing : f \in Fields
  BY FieldFacts
<1> QED
  BY <1>1, <1>2, <1>4, <1>5

(* The dashboard's reset.                                                  *)
LEMMA StatusReset ==
  ASSUME StatusTypeOK, status' = reset_telescope_state
  PROVE  /\ status' \in [Fields -> 0 .. MaxConns]
         /\ \A f \in Slewing \cup {"is_homing"} : status'[f] = 0
BY ConnFacts, FieldFacts DEF reset_telescope_state, StatusTypeOK, Slewing

-----------------------------------------------------------------------------
(* The invariant, step by step                                             *)

(* Steps that leave readers and copies alone.                              *)
LEMMA StatusStutter ==
  ASSUME StatusInv, UNCHANGED statusVars
  PROVE  StatusInv'
BY DEF StatusInv, statusVars, StatusTypeOK, Readers, Alive, EventApplied,
       HookSeesEvent, CopiesFollow

(* The steps of the upstream task: connect, reset, spawn and abandon a     *)
(* reader.                                                                 *)
LEMMA UpstreamStep ==
  ASSUME StatusInv,
         Connect_telescope \/ on_upstream_connect \/ SpawnReader \/ Abandon
  PROVE  StatusInv'
<1>0. StatusTypeOK /\ Readers /\ EventApplied /\ HookSeesEvent /\ CopiesFollow
  BY DEF StatusInv
<1>a. conn \in 0 .. MaxConns /\ conn \in Int
  BY <1>0, ConnFacts DEF StatusTypeOK
<1>1. CASE Connect_telescope
  <2>1. /\ up = "connecting" /\ conn < MaxConns /\ conn' = conn + 1
        /\ up' = "connected" /\ status' = reset_telescope_state
        /\ shared' = \E e \in Conns : Alive(e)
        /\ UNCHANGED <<rd, evt, telescope>>
    BY <1>1 DEF Connect_telescope
  <2>2. /\ status' \in [Fields -> 0 .. MaxConns]
        /\ \A f \in Slewing \cup {"is_homing"} : status'[f] = 0
    BY <1>0, <2>1, StatusReset
  <2>3. conn' \in Conns /\ conn' \in 0 .. MaxConns /\ conn' > conn
    BY <1>a, <2>1, ConnFacts DEF Conns
  <2>4. shared' \in BOOLEAN
    BY <2>1
  <2>5. StatusTypeOK'
    BY <1>0, <2>1, <2>2, <2>3, <2>4 DEF StatusTypeOK
  <2>6. \A e \in Conns : e > conn' \/ e = conn' => rd[e] = "none"
    <3>1. \A e \in Conns : e > conn' \/ e = conn' => e > conn
      BY <1>a, <2>1, ConnFacts
    <3> QED
      BY <1>0, <3>1 DEF Readers
  <2>7. Readers'
    BY <1>0, <2>1, <2>3, <2>6 DEF Readers, Alive
  <2>8. EventApplied' /\ HookSeesEvent'
    BY <2>1, <2>6 DEF EventApplied, HookSeesEvent
  <2>9. CopiesFollow'
    BY <2>1, <2>2 DEF CopiesFollow
  <2> QED
    BY <2>5, <2>7, <2>8, <2>9 DEF StatusInv
<1>2. CASE on_upstream_connect
  <2>1. /\ up = "connected" /\ up' = "hooked"
        /\ telescope' = [f \in LuaFields |-> 0]
        /\ UNCHANGED <<conn, rd, evt, status, shared>>
    BY <1>2 DEF on_upstream_connect
  <2>2. StatusTypeOK'
    <3>1. telescope' \in [LuaFields -> 0 .. MaxConns]
      BY <2>1, ConnFacts
    <3> QED
      BY <1>0, <2>1, <3>1 DEF StatusTypeOK
  <2>3. conn \in Conns /\ rd[conn] = "none"
    BY <1>0, <2>1 DEF Readers
  <2>4. Readers'
    BY <1>0, <2>1, <2>3 DEF Readers, Alive
  <2>5. EventApplied' /\ HookSeesEvent'
    BY <2>1, <2>3 DEF EventApplied, HookSeesEvent
  <2>6. CopiesFollow'
    <3>1. ASSUME ~shared PROVE \A e \in Conns : rd[e] \notin {"log", "status"}
      BY <1>0, <2>3, <3>1 DEF Readers, Alive
    <3>2. \A f \in LuaFields : telescope'[f] = 0
      BY <2>1
    <3> QED
      BY <1>0, <2>1, <3>1, <3>2, FieldFacts DEF CopiesFollow
  <2> QED
    BY <2>2, <2>4, <2>5, <2>6 DEF StatusInv
<1>3. CASE SpawnReader
  <2>1. /\ up = "hooked" /\ up' = "serving"
        /\ rd' = [rd EXCEPT ![conn] = "reading"]
        /\ UNCHANGED <<conn, evt, telescope, status, shared>>
    BY <1>3 DEF SpawnReader
  <2>2. conn \in Conns /\ rd[conn] = "none"
    BY <1>0, <2>1 DEF Readers
  <2>3. /\ rd' \in [Conns -> {"none", "reading", "log", "status", "hook", "done"}]
        /\ rd'[conn] = "reading"
        /\ \A e \in Conns \ {conn} : rd'[e] = rd[e]
    BY <1>0, <2>1, <2>2 DEF StatusTypeOK
  <2>4. StatusTypeOK'
    BY <1>0, <2>1, <2>3 DEF StatusTypeOK
  <2>5. \A e \in Conns : /\ rd'[e] \in {"log", "status", "hook"} => rd'[e] = rd[e] /\ e # conn
                         /\ rd'[e] \in {"log", "status"} <=> rd[e] \in {"log", "status"}
    BY <2>2, <2>3
  <2>6. Readers'
    <3>1. \A e \in Conns : e > conn => e # conn
      BY <1>a, ConnFacts
    <3>2. \A e \in Conns : e > conn' \/ (e = conn' /\ up' \in {"connected", "hooked"})
                             => rd'[e] = "none"
      BY <1>0, <2>1, <2>3, <3>1 DEF Readers
    <3>3. ~shared' => \A e \in Conns : Alive(e)' => e = conn'
      BY <1>0, <2>1, <2>3 DEF Readers, Alive
    <3>4. \A e \in Conns : rd'[e] \in {"log", "status", "hook"} => evt'[e] \in Events
      BY <1>0, <2>1, <2>5 DEF Readers
    <3> QED
      BY <2>1, <2>2, <3>2, <3>3, <3>4 DEF Readers
  <2>7. EventApplied' /\ HookSeesEvent'
    BY <2>1, <2>5 DEF EventApplied, HookSeesEvent
  <2>8. CopiesFollow'
    BY <1>0, <2>1, <2>5 DEF CopiesFollow
  <2> QED
    BY <2>4, <2>6, <2>7, <2>8 DEF StatusInv
<1>4. CASE Abandon
  BY <1>0, <1>4 DEF Abandon, StatusInv, StatusTypeOK, Readers, Alive, EventApplied,
     HookSeesEvent, CopiesFollow
<1> QED
  BY <1>1, <1>2, <1>3, <1>4

(* What the readers' part of the invariant needs of a reader's step.       *)
LEMMA ReadersKept ==
  ASSUME StatusInv, NEW e \in Conns, Alive(e),
         UNCHANGED <<conn, up, shared>>,
         NEW to \in {"reading", "log", "status", "hook", "done"},
         rd' = [rd EXCEPT ![e] = to],
         evt' \in [Conns -> Events \cup {None}],
         \A d \in Conns \ {e} : evt'[d] = evt[d],
         to \in {"log", "status", "hook"} => evt'[e] \in Events
  PROVE  /\ Readers'
         /\ rd' \in [Conns -> {"none", "reading", "log", "status", "hook", "done"}]
         /\ rd'[e] = to
         /\ \A d \in Conns \ {e} : rd'[d] = rd[d]
         /\ ~shared => e = conn /\ \A d \in Conns \ {e} : ~Alive(d)
<1>0. StatusTypeOK /\ Readers
  BY DEF StatusInv
<1>1. /\ rd' \in [Conns -> {"none", "reading", "log", "status", "hook", "done"}]
      /\ rd'[e] = to /\ \A d \in Conns \ {e} : rd'[d] = rd[d]
  BY <1>0 DEF StatusTypeOK
<1>2. ~shared => e = conn /\ \A d \in Conns \ {e} : ~Alive(d)
  BY <1>0 DEF Readers
<1>3. \A d \in Conns : d > conn' \/ (d = conn' /\ up' \in {"connected", "hooked"})
                         => rd'[d] = "none"
  <2>1. rd[e] # "none"
    BY DEF Alive
  <2> QED
    BY <1>0, <1>1, <2>1 DEF Readers
<1>4. ~shared' => \A d \in Conns : Alive(d)' => d = conn'
  BY <1>0, <1>1, <1>2 DEF Readers, Alive
<1>5. \A d \in Conns : rd'[d] \in {"log", "status", "hook"} => evt'[d] \in Events
  BY <1>0, <1>1 DEF Readers
<1> QED
  BY <1>0, <1>1, <1>2, <1>3, <1>4, <1>5 DEF Readers

(* The reader takes an event into the Lua table.                           *)
LEMMA ReadEventStep ==
  ASSUME StatusInv, NEW e \in Conns, ReadEvent(e)
  PROVE  StatusInv'
<1>0. StatusTypeOK /\ Readers /\ EventApplied /\ HookSeesEvent /\ CopiesFollow
  BY DEF StatusInv
<1>1. PICK ev \in Events : /\ evt' = [evt EXCEPT ![e] = ev]
                           /\ telescope' = update_telescope_state(e, ev)
  BY DEF ReadEvent
<1>2. /\ rd[e] = "reading" /\ rd' = [rd EXCEPT ![e] = "log"] /\ Alive(e)
      /\ UNCHANGED <<conn, up, status, shared>>
  BY DEF ReadEvent, Alive
<1>3. /\ evt' \in [Conns -> Events \cup {None}] /\ evt'[e] = ev
      /\ \A d \in Conns \ {e} : evt'[d] = evt[d]
  BY <1>0, <1>1 DEF StatusTypeOK
<1>4. /\ telescope' \in [LuaFields -> 0 .. MaxConns]
      /\ \A f \in LuaSets[ev] : telescope'[f] = e
      /\ \A f \in LuaFields \ LuaSets[ev] : telescope'[f] = telescope[f]
      /\ LuaSets[ev] \subseteq LuaFields
  BY <1>0, <1>1, LuaApplied, EventSets, ConnFacts
<1>5. /\ Readers' /\ rd'[e] = "log" /\ \A d \in Conns \ {e} : rd'[d] = rd[d]
      /\ rd' \in [Conns -> {"none", "reading", "log", "status", "hook", "done"}]
      /\ ~shared => e = conn /\ \A d \in Conns \ {e} : ~Alive(d)
  BY <1>2, <1>3, ReadersKept
<1>6. StatusTypeOK'
  BY <1>0, <1>2, <1>3, <1>4, <1>5 DEF StatusTypeOK
<1>7. \A f \in LuaFields : telescope[f] # 0 => telescope'[f] # 0
  BY <1>4, ConnFacts
<1>8. \A d \in Conns : rd[d] \in {"log", "status", "hook"} =>
                         evt[d] \in Events /\ LuaSets[evt[d]] \subseteq LuaFields
  BY <1>0, EventSets, ConnFacts DEF Readers
<1>9. EventApplied'
  <2>1. ASSUME NEW d \in Conns, rd'[d] \in {"log", "status", "hook"}, d = conn',
               NEW f \in LuaSets[evt'[d]]
        PROVE  telescope'[f] # 0
    <3>1. CASE d = e
      BY <1>3, <1>4, <2>1, <3>1, ConnFacts
    <3>2. CASE d # e
      BY <1>0, <1>2, <1>3, <1>5, <1>7, <1>8, <2>1, <3>2 DEF EventApplied
    <3> QED
      BY <3>1, <3>2
  <2> QED
    BY <2>1 DEF EventApplied
<1>10. HookSeesEvent'
  <2>1. ASSUME NEW d \in Conns, rd'[d] = "hook", d = conn'
        PROVE  /\ \A f \in LuaSets[evt'[d]] : telescope'[f] # 0
               /\ ~shared' => \A f \in StatusSets[evt'[d]] : status'[f] # 0
    <3>1. d # e /\ rd[d] = "hook" /\ evt'[d] = evt[d] /\ d = conn
      BY <1>2, <1>3, <1>5, <2>1
    <3> QED
      BY <1>0, <1>2, <1>7, <1>8, <3>1 DEF HookSeesEvent
  <2> QED
    BY <2>1 DEF HookSeesEvent
<1>11. CopiesFollow'
  <2> SUFFICES ASSUME ~shared' PROVE
         /\ \A f \in Slewing \cup {"is_homing"} : status'[f] \in {0, conn'}
         /\ up' = "connected" => \A f \in Slewing : status'[f] = 0
         /\ up' # "connected" =>
              /\ \A f \in LuaFields : telescope'[f] \in {0, conn'}
              /\ \A f \in Slewing :
                   telescope'[f] = 0 <=>
                     /\ status'[f] = 0
                     /\ \A d \in Conns : rd'[d] \in {"log", "status"} =>
                                            f \notin LuaSets[evt'[d]]
    BY DEF CopiesFollow
  <2>1. ~shared /\ e = conn /\ \A d \in Conns \ {e} : rd'[d] \notin {"log", "status"}
    BY <1>2, <1>5 DEF Alive
  <2>2. /\ \A f \in Slewing \cup {"is_homing"} : status'[f] \in {0, conn'}
        /\ up' = "connected" => \A f \in Slewing : status'[f] = 0
    BY <1>0, <1>2, <2>1 DEF CopiesFollow
  <2>3. ASSUME up' # "connected" PROVE
              /\ \A f \in LuaFields : telescope'[f] \in {0, conn'}
              /\ \A f \in Slewing :
                   telescope'[f] = 0 <=>
                     /\ status'[f] = 0
                     /\ \A d \in Conns : rd'[d] \in {"log", "status"} =>
                                            f \notin LuaSets[evt'[d]]
    <3>1. \A f \in LuaFields : telescope'[f] \in {0, conn'}
      BY <1>0, <1>2, <1>4, <2>1, <2>3 DEF CopiesFollow
    <3>2. \A d \in Conns : rd[d] \notin {"log", "status"}
      BY <1>2, <1>5, <2>1
    <3>3. \A f \in Slewing : telescope[f] = 0 <=> status[f] = 0
      BY <1>0, <1>2, <2>1, <2>3, <3>2 DEF CopiesFollow
    <3>4. ASSUME NEW f \in Slewing
          PROVE  telescope'[f] = 0 <=>
                     /\ status'[f] = 0
                     /\ \A d \in Conns : rd'[d] \in {"log", "status"} =>
                                            f \notin LuaSets[evt'[d]]
      <4>1. (\A d \in Conns : rd'[d] \in {"log", "status"} => f \notin LuaSets[evt'[d]])
              <=> f \notin LuaSets[ev]
        BY <1>3, <1>5, <2>1
      <4>2. CASE f \in LuaSets[ev]
        BY <1>4, <4>1, <4>2, ConnFacts
      <4>3. CASE f \notin LuaSets[ev]
        BY <1>2, <1>4, <3>3, <4>1, <4>3, FieldFacts
      <4> QED
        BY <4>2, <4>3
    <3> QED
      BY <3>1, <3>4
  <2> QED
    BY <2>2, <2>3
<1> QED
  BY <1>5, <1>6, <1>9, <1>10, <1>11 DEF StatusInv

(* The reader has logged its event, or is through with it, or ends.        *)
LEMMA MoveStep ==
  ASSUME StatusInv, NEW e \in Conns, LogPush(e) \/ on_event(e) \/ ReaderEnd(e)
  PROVE  StatusInv'
<1>0. StatusTypeOK /\ Readers /\ EventApplied /\ HookSeesEvent /\ CopiesFollow
  BY DEF StatusInv
<1>1. UNCHANGED <<conn, up, telescope, status, shared>> /\ Alive(e)
  BY DEF LogPush, on_event, ReaderEnd, Alive
<1>2. PICK to \in {"reading", "status", "done"} :
        /\ rd' = [rd EXCEPT ![e] = to]
        /\ to = "status" => rd[e] = "log" /\ evt' = evt
        /\ to # "status" => rd[e] \in {"reading", "hook"}
  BY DEF LogPush, on_event, ReaderEnd
<1>3. /\ evt' \in [Conns -> Events \cup {None}]
      /\ \A d \in Conns \ {e} : evt'[d] = evt[d]
  BY <1>0 DEF LogPush, on_event, ReaderEnd, StatusTypeOK
<1>4. to \in {"log", "status", "hook"} => evt'[e] \in Events /\ evt'[e] = evt[e]
  BY <1>0, <1>2 DEF Readers
<1>5. /\ Readers' /\ rd'[e] = to /\ \A d \in Conns \ {e} : rd'[d] = rd[d]
      /\ rd' \in [Conns -> {"none", "reading", "log", "status", "hook", "done"}]
  BY <1>1, <1>2, <1>3, <1>4, ReadersKept
<1>6. StatusTypeOK'
  BY <1>0, <1>1, <1>3, <1>5 DEF StatusTypeOK
<1>7. \A d \in Conns :
        /\ rd'[d] \in {"log", "status", "hook"} =>
             rd[d] \in {"log", "status", "hook"} /\ evt'[d] = evt[d]
        /\ rd'[d] = "hook" => rd[d] = "hook"
        /\ rd'[d] \in {"log", "status"} <=> rd[d] \in {"log", "status"}
  BY <1>2, <1>3, <1>4, <1>5
<1>8. EventApplied' /\ HookSeesEvent'
  BY <1>0, <1>1, <1>7 DEF EventApplied, HookSeesEvent
<1>9. CopiesFollow'
  <2>1. \A f \in Slewing :
          (\A d \in Conns : rd'[d] \in {"log", "status"} => f \notin LuaSets[evt'[d]])
            <=> (\A d \in Conns : rd[d] \in {"log", "status"} => f \notin LuaSets[evt[d]])
    BY <1>7
  <2> QED
    BY <1>0, <1>1, <2>1 DEF CopiesFollow
<1> QED
  BY <1>5, <1>6, <1>8, <1>9 DEF StatusInv

(* The reader applies its event to the dashboard's status.                 *)
LEMMA UpdateStatusStep ==
  ASSUME StatusInv, NEW e \in Conns, UpdateStatus(e)
  PROVE  StatusInv'
<1>0. StatusTypeOK /\ Readers /\ EventApplied /\ HookSeesEvent /\ CopiesFollow
  BY DEF StatusInv
<1>1. /\ rd[e] = "status" /\ rd' = [rd EXCEPT ![e] = "hook"] /\ Alive(e)
      /\ status' = update_event(e, evt[e])
      /\ UNCHANGED <<conn, up, evt, telescope, shared>>
  BY DEF UpdateStatus, Alive
<1>2. PICK ev \in Events : ev = evt[e] /\ ev \in AllEvents
  BY <1>0, <1>1, ConnFacts DEF Readers
<1>3. /\ status' \in [Fields -> 0 .. MaxConns]
      /\ \A f \in StatusSets[ev] : status'[f] = e
      /\ \A f \in Fields : status'[f] \in {0, e, status[f]}
      /\ \A f \in Slewing :
           status'[f] = IF f \in LuaSets[ev] THEN e ELSE status[f]
  BY <1>0, <1>1, <1>2, StatusApplied
<1>4. evt' \in [Conns -> Events \cup {None}] /\ evt'[e] \in Events
  BY <1>0, <1>1, <1>2 DEF StatusTypeOK
<1>5. /\ Readers' /\ rd'[e] = "hook" /\ \A d \in Conns \ {e} : rd'[d] = rd[d]
      /\ rd' \in [Conns -> {"none", "reading", "log", "status", "hook", "done"}]
      /\ ~shared => e = conn /\ \A d \in Conns \ {e} : ~Alive(d)
  BY <1>1, <1>4, ReadersKept
<1>6. StatusTypeOK'
  BY <1>0, <1>1, <1>3, <1>5 DEF StatusTypeOK
<1>7. EventApplied'
  BY <1>0, <1>1, <1>5 DEF EventApplied
<1>8. HookSeesEvent'
  <2>1. ASSUME NEW d \in Conns, rd'[d] = "hook", d = conn'
        PROVE  \A f \in LuaSets[evt'[d]] : telescope'[f] # 0
    BY <1>0, <1>1, <1>5, <2>1 DEF EventApplied
  <2>2. ASSUME NEW d \in Conns, rd'[d] = "hook", d = conn', ~shared'
        PROVE  \A f \in StatusSets[evt'[d]] : status'[f] # 0
    <3>1. d = e
      BY <1>1, <1>5, <2>2 DEF Alive
    <3> QED
      BY <1>1, <1>2, <1>3, <3>1, ConnFacts
  <2> QED
    BY <2>1, <2>2 DEF HookSeesEvent
<1>9. CopiesFollow'
  <2> SUFFICES ASSUME ~shared' PROVE
         /\ \A f \in Slewing \cup {"is_homing"} : status'[f] \in {0, conn'}
         /\ up' = "connected" => \A f \in Slewing : status'[f] = 0
         /\ up' # "connected" =>
              /\ \A f \in LuaFields : telescope'[f] \in {0, conn'}
              /\ \A f \in Slewing :
                   telescope'[f] = 0 <=>
                     /\ status'[f] = 0
                     /\ \A d \in Conns : rd'[d] \in {"log", "status"} =>
                                            f \notin LuaSets[evt'[d]]
    BY DEF CopiesFollow
  <2>1. ~shared /\ e = conn /\ \A d \in Conns \ {e} : ~Alive(d)
    BY <1>1, <1>5
  <2>2. up # "connected"
    BY <1>0, <1>1, <2>1 DEF Readers
  <2>3. \A f \in Slewing \cup {"is_homing"} : status'[f] \in {0, conn'}
    BY <1>0, <1>1, <1>3, <2>1, FieldFacts DEF CopiesFollow
  <2>4. \A f \in LuaFields : telescope'[f] \in {0, conn'}
    BY <1>0, <1>1, <2>1, <2>2 DEF CopiesFollow
  <2>5. /\ \A d \in Conns : rd'[d] \notin {"log", "status"}
        /\ \A d \in Conns : rd[d] \in {"log", "status"} <=> d = e
    BY <1>1, <1>5, <2>1 DEF Alive
  <2>6. ASSUME NEW f \in Slewing PROVE telescope'[f] = 0 <=> status'[f] = 0
    <3>1. telescope[f] = 0 <=> status[f] = 0 /\ f \notin LuaSets[ev]
      BY <1>0, <1>2, <2>1, <2>2, <2>5 DEF CopiesFollow
    <3> QED
      BY <1>1, <1>3, <3>1, ConnFacts
  <2> QED
    BY <1>1, <2>2, <2>3, <2>4, <2>5, <2>6
<1> QED
  BY <1>5, <1>6, <1>7, <1>8, <1>9 DEF StatusInv

(* The proxy is restarted, or starts.                                      *)
LEMMA StatusFresh ==
  /\ StatusInit => StatusInv
  /\ StatusInv /\ RestartAll => StatusInv'
<1>1. /\ 0 \in 0 .. MaxConns
      /\ [f \in LuaFields |-> 0] \in [LuaFields -> 0 .. MaxConns]
      /\ [f \in Fields |-> 0] \in [Fields -> 0 .. MaxConns]
      /\ [e \in Conns |-> None] \in [Conns -> Events \cup {None}]
  BY ConnFacts
<1>2. ASSUME StatusInit PROVE StatusInv
  <2>1. StatusTypeOK
    BY <1>1, <1>2 DEF StatusInit, StatusTypeOK
  <2>2. Readers /\ EventApplied /\ HookSeesEvent
    BY <1>2, ConnFacts DEF StatusInit, Readers, Alive, EventApplied, HookSeesEvent
  <2>3. CopiesFollow
    BY <1>2, FieldFacts DEF StatusInit, CopiesFollow
  <2> QED
    BY <2>1, <2>2, <2>3 DEF StatusInv
<1>3. ASSUME StatusInv, RestartAll PROVE StatusInv'
  <2>1. StatusTypeOK'
    BY <1>1, <1>3 DEF RestartAll, StatusTypeOK, StatusInv
  <2>2. Readers' /\ EventApplied' /\ HookSeesEvent'
    BY <1>3, ConnFacts DEF RestartAll, Readers, Alive, EventApplied, HookSeesEvent
  <2>3. CopiesFollow'
    BY <1>3, FieldFacts DEF RestartAll, CopiesFollow
  <2> QED
    BY <2>1, <2>2, <2>3 DEF StatusInv
<1> QED
  BY <1>2, <1>3

(* Every step keeps the invariant of the copies.                           *)
LEMMA StatusStep ==
  StatusInv /\ [StatusNext]_allVars => StatusInv'
<1> SUFFICES ASSUME StatusInv, [StatusNext]_allVars PROVE StatusInv'
  OBVIOUS
<1>1. CASE UNCHANGED statusVars
  BY <1>1, StatusStutter
<1>2. CASE Connect_telescope \/ on_upstream_connect \/ SpawnReader \/ Abandon
  BY <1>2, UpstreamStep
<1>3. ASSUME NEW e \in Conns,
             \/ ReadEvent(e) \/ LogTake(e) \/ LogPush(e)
             \/ UpdateStatus(e) \/ on_event(e) \/ ReaderEnd(e)
      PROVE  StatusInv'
  BY <1>1, <1>3, ReadEventStep, MoveStep, UpdateStatusStep DEF LogTake
<1>4. CASE Others
  BY <1>1, <1>4 DEF Others
<1>5. CASE RestartAll
  BY <1>5, StatusFresh
<1> QED
  BY <1>1, <1>2, <1>3, <1>4, <1>5 DEF StatusNext, allVars

-----------------------------------------------------------------------------
(* The theorems                                                            *)

(* The two copies follow the readers through reconnects and restarts       *)
(* (update_telescope_state and on_upstream_connect of hooks.rs,            *)
(* update_event and reset_telescope_state of metrics.rs).                  *)
THEOREM StatusInvariant == StatusSpec => []StatusInv
BY StatusFresh, StatusStep, PTL DEF StatusSpec

(* A script asked about an event of the current connection finds it in the *)
(* Lua table, and the dashboard shows it unless an old reader is alive.    *)
THEOREM HookSees == StatusSpec => []HookSeesEvent
<1>1. StatusInv => HookSeesEvent
  BY DEF StatusInv
<1> QED
  BY <1>1, StatusInvariant, PTL

(* After a reconnect no flag of an earlier connection is left in either    *)
(* copy, unless a reader was still alive at the reset.                     *)
THEOREM FlagsReset == StatusSpec => []NoStaleFlag
<1>1. StatusInv => NoStaleFlag
  BY DEF StatusInv, CopiesFollow, NoStaleFlag, Slewing
<1> QED
  BY <1>1, StatusInvariant, PTL

(* Between two events scripts and dashboard agree on whether the telescope *)
(* slews and stacks, with the same exception.                              *)
THEOREM CopiesInStep == StatusSpec => []CopiesAgree
<1>1. StatusInv => CopiesAgree
  BY DEF StatusInv, CopiesFollow, CopiesAgree, Slewing
<1> QED
  BY <1>1, StatusInvariant, PTL

-----------------------------------------------------------------------------
(* The ring of the traffic log                                             *)

(* The types of what the server keeps.                                     *)
LogTypes ==
  /\ log_seq \in 0 .. MaxSeq
  /\ log \in Seq(Seqs)
  /\ held \in [Loggers -> Seqs \cup {None}]
  /\ pushed \in Seq(Seqs)

(* RingIsSuffix, entry by entry.                                           *)
RingEntries ==
  /\ Len(log) = IF Len(pushed) < LogCap THEN Len(pushed) ELSE LogCap
  /\ \A i \in 1 .. Len(log) : log[i] = pushed[Len(pushed) - Len(log) + i]

LogServerInv == LogTypes /\ RingEntries /\ NumbersOnce

(* The ring with an entry more.                                            *)
LEMMA AppendEntries ==
  ASSUME NEW S, NEW s \in Seq(S), NEW r \in S
  PROVE  /\ Append(s, r) \in Seq(S) /\ Len(s) \in Nat
         /\ Len(Append(s, r)) = Len(s) + 1
         /\ \A i \in 1 .. Len(s) + 1 :
              Append(s, r)[i] = IF i = Len(s) + 1 THEN r ELSE s[i]
OBVIOUS

(* The ring without its oldest entry.                                      *)
LEMMA TailEntries ==
  ASSUME NEW S, NEW s \in Seq(S), Len(s) > 0
  PROVE  /\ Tail(s) \in Seq(S) /\ Len(s) \in Nat \ {0}
         /\ Len(Tail(s)) = Len(s) - 1
         /\ \A i \in 1 .. Len(s) - 1 : Tail(s)[i] = s[i + 1]
OBVIOUS

(* A suffix is known by its entries.                                       *)
LEMMA SuffixEntries ==
  ASSUME NEW S, NEW s \in Seq(S), NEW t \in Seq(S), Len(t) <= Len(s),
         \A i \in 1 .. Len(t) : t[i] = s[Len(s) - Len(t) + i]
  PROVE  t = SubSeq(s, Len(s) - Len(t) + 1, Len(s))
<1> DEFINE u == SubSeq(s, Len(s) - Len(t) + 1, Len(s))
<1>0. Len(s) \in Nat /\ Len(t) \in Nat
  OBVIOUS
<1>1. /\ u \in Seq(S) /\ Len(u) = Len(t)
      /\ \A i \in 1 .. Len(t) : u[i] = s[Len(s) - Len(t) + i]
  BY <1>0
<1>2. \A i \in 1 .. Len(t) : u[i] = t[i]
  BY <1>1
<1> QED
  BY <1>0, <1>1, <1>2

(* The oldest entry makes room for a new one.                              *)
LEMMA PushRing ==
  ASSUME LogTypes, RingEntries, NEW x \in Seqs,
         log' = Append(Kept(log), x), pushed' = Append(pushed, x)
  PROVE  log' \in Seq(Seqs) /\ pushed' \in Seq(Seqs) /\ RingEntries'
<1>0. /\ log \in Seq(Seqs) /\ pushed \in Seq(Seqs) /\ LogCap \in Nat \ {0}
      /\ Len(log) \in Nat /\ Len(pushed) \in Nat
  BY LogAssumption DEF LogTypes
<1>1. /\ pushed' \in Seq(Seqs) /\ Len(pushed') = Len(pushed) + 1
      /\ \A i \in 1 .. Len(pushed) + 1 :
           pushed'[i] = IF i = Len(pushed) + 1 THEN x ELSE pushed[i]
  BY <1>0, AppendEntries
<1> DEFINE k == Kept(log)
           off == IF Len(log) >= LogCap THEN 1 ELSE 0
<1>2. /\ k \in Seq(Seqs) /\ off \in {0, 1} /\ log' = Append(k, x)
      /\ Len(k) = Len(log) - off /\ Len(k) \in Nat
      /\ off = 1 <=> Len(log) >= LogCap
      /\ \A i \in 1 .. Len(k) : k[i] = log[i + off]
  <2>1. CASE Len(log) >= LogCap
    <3>1. Len(log) > 0 /\ k = Tail(log) /\ off = 1
      BY <1>0, <2>1 DEF Kept
    <3>2. /\ Tail(log) \in Seq(Seqs) /\ Len(Tail(log)) = Len(log) - 1
          /\ \A i \in 1 .. Len(log) - 1 : Tail(log)[i] = log[i + 1]
      BY <1>0, <3>1, TailEntries
    <3> QED
      BY <1>0, <2>1, <3>1, <3>2
  <2>2. CASE ~(Len(log) >= LogCap)
    <3>1. k = log /\ off = 0
      BY <2>2 DEF Kept
    <3> QED
      BY <1>0, <2>2, <3>1
  <2> QED
    BY <2>1, <2>2
<1> HIDE DEF k, off
<1>3. /\ log' \in Seq(Seqs) /\ Len(log') = Len(k) + 1
      /\ \A i \in 1 .. Len(k) + 1 : log'[i] = IF i = Len(k) + 1 THEN x ELSE k[i]
  BY <1>2, AppendEntries
<1>4. /\ Len(log) = IF Len(pushed) < LogCap THEN Len(pushed) ELSE LogCap
      /\ \A i \in 1 .. Len(log) : log[i] = pushed[Len(pushed) - Len(log) + i]
  BY DEF RingEntries
<1>5. Len(log') = IF Len(pushed') < LogCap THEN Len(pushed') ELSE LogCap
  BY <1>0, <1>1, <1>2, <1>3, <1>4
<1>6. ASSUME NEW i \in 1 .. Len(log')
      PROVE  log'[i] = pushed'[Len(pushed') - Len(log') + i]
  <2>1. CASE i = Len(k) + 1
    <3>1. Len(pushed') - Len(log') + i = Len(pushed) + 1
      BY <1>0, <1>1, <1>2, <1>3, <2>1
    <3> QED
      BY <1>0, <1>1, <1>3, <2>1, <3>1
  <2>2. CASE i # Len(k) + 1
    <3>1. /\ i \in 1 .. Len(k) /\ i + off \in 1 .. Len(log)
          /\ log'[i] = log[i + off]
      BY <1>0, <1>2, <1>3, <2>2
    <3>2. log[i + off] = pushed[Len(pushed) - Len(log) + (i + off)]
      BY <1>4, <3>1
    <3>3. Len(log) <= Len(pushed)
      BY <1>0, <1>4
    <3>4. /\ Len(pushed') - Len(log') + i = Len(pushed) - Len(log) + (i + off)
          /\ Len(pushed) - Len(log) + (i + off) \in 1 .. Len(pushed)
      BY <1>0, <1>1, <1>2, <1>3, <3>1, <3>3
    <3> QED
      BY <1>0, <1>1, <3>1, <3>2, <3>4
  <2> QED
    BY <2>1, <2>2
<1> QED
  BY <1>1, <1>3, <1>5, <1>6 DEF RingEntries

(* A task takes the next number.                                           *)
LEMMA TakeSeqStep ==
  ASSUME LogServerInv, NEW t \in Loggers, TakeSeq(t)
  PROVE  LogServerInv'
<1>0. /\ LogTypes /\ RingEntries /\ NumbersOnce /\ MaxSeq \in Nat /\ None \notin Int
      /\ log_seq \in 0 .. MaxSeq
  BY LogAssumption DEF LogServerInv, LogTypes
<1>1. /\ log_seq < MaxSeq /\ held' = [held EXCEPT ![t] = log_seq]
      /\ log_seq' = log_seq + 1 /\ UNCHANGED <<log, pushed>> /\ held[t] = None
  BY DEF TakeSeq
<1>2. /\ log_seq' \in 0 .. MaxSeq /\ log_seq \in Seqs /\ log_seq \in Int
  BY <1>0, <1>1 DEF Seqs
<1>3. /\ held' \in [Loggers -> Seqs \cup {None}] /\ held'[t] = log_seq
      /\ \A u \in Loggers \ {t} : held'[u] = held[u]
  BY <1>0, <1>1, <1>2 DEF LogTypes
<1>4. LogTypes' /\ RingEntries'
  BY <1>0, <1>1, <1>2, <1>3 DEF LogTypes, RingEntries
<1>5. \A i \in 1 .. Len(pushed) : pushed[i] \in Int
  BY <1>0 DEF LogTypes, Seqs
<1>6. \A u \in Loggers : held[u] # None => held[u] \in Int
  BY <1>0 DEF LogTypes, Seqs
<1>7. /\ \A i \in 1 .. Len(pushed) : pushed'[i] < log_seq' /\ pushed[i] # log_seq
      /\ \A u \in Loggers : held[u] # log_seq
  BY <1>0, <1>1, <1>2, <1>5, <1>6 DEF NumbersOnce
<1>8. ASSUME NEW u \in Loggers, held'[u] # None
      PROVE  /\ held'[u] < log_seq'
             /\ \A i \in 1 .. Len(pushed) : pushed[i] # held'[u]
             /\ \A v \in Loggers : held'[v] = held'[u] => v = u
  <2>1. CASE u = t
    BY <1>1, <1>2, <1>3, <1>7, <2>1
  <2>2. CASE u # t
    <3>1. held'[u] = held[u] /\ held[u] \in Int
      BY <1>3, <1>6, <1>8, <2>2
    <3>2. /\ held[u] < log_seq
          /\ \A i \in 1 .. Len(pushed) : pushed[i] # held[u]
          /\ \A v \in Loggers : held[v] = held[u] => v = u
      BY <1>0, <1>8, <3>1 DEF NumbersOnce
    <3> QED
      BY <1>1, <1>2, <1>3, <1>7, <2>2, <3>1, <3>2
  <2> QED
    BY <2>1, <2>2
<1>9. NumbersOnce'
  BY <1>0, <1>1, <1>7, <1>8 DEF NumbersOnce
<1> QED
  BY <1>4, <1>9 DEF LogServerInv

(* A task pushes the entry whose number it holds.                          *)
LEMMA PushEntryStep ==
  ASSUME LogServerInv, NEW t \in Loggers, PushEntry(t)
  PROVE  LogServerInv'
<1>0. LogTypes /\ RingEntries /\ NumbersOnce
  BY DEF LogServerInv
<1>1. PICK x \in Seqs : x = held[t]
  BY <1>0 DEF PushEntry, LogTypes
<1>2. /\ held[t] # None /\ log' = Append(Kept(log), x)
      /\ pushed' = Append(pushed, x)
      /\ held' = [held EXCEPT ![t] = None] /\ UNCHANGED log_seq
  BY <1>1 DEF PushEntry
<1>3. log' \in Seq(Seqs) /\ pushed' \in Seq(Seqs) /\ RingEntries'
  BY <1>0, <1>2, PushRing
<1>4. /\ held' \in [Loggers -> Seqs \cup {None}] /\ held'[t] = None
      /\ \A u \in Loggers \ {t} : held'[u] = held[u]
  BY <1>0, <1>2 DEF LogTypes
<1>5. LogTypes'
  BY <1>0, <1>2, <1>3, <1>4 DEF LogTypes
<1>6. /\ Len(pushed) \in Nat /\ Len(pushed') = Len(pushed) + 1
      /\ \A i \in 1 .. Len(pushed) + 1 :
           pushed'[i] = IF i = Len(pushed) + 1 THEN x ELSE pushed[i]
  BY <1>0, <1>2, AppendEntries DEF LogTypes
<1>7. /\ x < log_seq /\ \A i \in 1 .. Len(pushed) : pushed[i] # x
      /\ \A u \in Loggers : held[u] = x => u = t
  BY <1>0, <1>1, <1>2 DEF NumbersOnce
<1>8. /\ \A i \in 1 .. Len(pushed') : pushed'[i] < log_seq'
      /\ \A i, j \in 1 .. Len(pushed') : pushed'[i] = pushed'[j] => i = j
  BY <1>0, <1>2, <1>6, <1>7 DEF NumbersOnce
<1>9. ASSUME NEW u \in Loggers, held'[u] # None
      PROVE  /\ held'[u] < log_seq'
             /\ \A i \in 1 .. Len(pushed') : pushed'[i] # held'[u]
             /\ \A v \in Loggers : held'[v] = held'[u] => v = u
  <2>1. u # t /\ held'[u] = held[u] /\ held[u] # x
    BY <1>4, <1>7, <1>9
  <2>2. /\ held[u] < log_seq
        /\ \A i \in 1 .. Len(pushed) : pushed[i] # held[u]
        /\ \A v \in Loggers : held[v] = held[u] => v = u
    BY <1>0, <1>9, <2>1 DEF NumbersOnce
  <2>3. \A i \in 1 .. Len(pushed') : pushed'[i] # held'[u]
    BY <1>6, <2>1, <2>2
  <2>4. \A v \in Loggers : held'[v] = held'[u] => v = u
    BY <1>4, <1>9, <2>1, <2>2
  <2> QED
    BY <1>2, <2>1, <2>2, <2>3, <2>4
<1>10. NumbersOnce'
  BY <1>8, <1>9 DEF NumbersOnce
<1> QED
  BY <1>3, <1>5, <1>10 DEF LogServerInv

(* The log of a fresh run is empty.                                        *)
LEMMA LogFresh ==
  /\ Init => LogServerInv
  /\ Restart => LogServerInv'
<1>1. /\ <<>> \in Seq(Seqs) /\ Len(<<>>) = 0 /\ 0 \in 0 .. MaxSeq
      /\ LogCap \in Nat \ {0}
      /\ [t \in Loggers |-> None] \in [Loggers -> Seqs \cup {None}]
  BY LogAssumption
<1>2. ASSUME Init PROVE LogServerInv
  <2>1. log_seq = 0 /\ log = <<>> /\ pushed = <<>> /\ held = [t \in Loggers |-> None]
    BY <1>2 DEF Init
  <2> QED
    BY <1>1, <2>1 DEF LogServerInv, LogTypes, RingEntries, NumbersOnce
<1>3. ASSUME Restart PROVE LogServerInv'
  <2>1. /\ log_seq' = 0 /\ log' = <<>> /\ pushed' = <<>>
        /\ held' = [t \in Loggers |-> None]
    BY <1>3 DEF Restart
  <2> QED
    BY <1>1, <2>1 DEF LogServerInv, LogTypes, RingEntries, NumbersOnce
<1> QED
  BY <1>2, <1>3

(* Every step of the dashboard's components keeps the log's invariant.     *)
LEMMA LogStep == LogServerInv /\ [StatusNext]_allVars => LogServerInv'
<1> SUFFICES ASSUME LogServerInv, [StatusNext]_allVars PROVE LogServerInv'
  OBVIOUS
<1>1. CASE UNCHANGED <<log_seq, log, held, pushed>>
  BY <1>1 DEF LogServerInv, LogTypes, RingEntries, NumbersOnce
<1>2. CASE UNCHANGED vars
  BY <1>1, <1>2 DEF vars, server
<1>3. \A e \in Conns : e \in Loggers
  BY StatusAssumption DEF Conns
<1>4. ASSUME NEW e \in Conns,
             \/ ReadEvent(e) \/ LogTake(e) \/ LogPush(e)
             \/ UpdateStatus(e) \/ on_event(e) \/ ReaderEnd(e)
      PROVE  LogServerInv'
  BY <1>2, <1>3, <1>4, TakeSeqStep, PushEntryStep
     DEF ReadEvent, LogTake, LogPush, UpdateStatus, on_event, ReaderEnd
<1>5. CASE Others
  <2>1. ASSUME NEW t \in Loggers, TakeSeq(t) \/ PushEntry(t) PROVE LogServerInv'
    BY <2>1, TakeSeqStep, PushEntryStep
  <2>2. ASSUME NEW p \in Pages, Connect(p) \/ Disconnect(p) \/ Tick(p)
        PROVE  LogServerInv'
    BY <1>1, <2>2 DEF Connect, Disconnect, Tick, server
  <2> QED
    BY <1>5, <2>1, <2>2 DEF Others
<1>6. CASE RestartAll
  BY <1>6, LogFresh DEF RestartAll
<1>7. CASE Connect_telescope \/ on_upstream_connect \/ SpawnReader \/ Abandon
  BY <1>2, <1>7 DEF Connect_telescope, on_upstream_connect, SpawnReader, Abandon
<1> QED
  BY <1>2, <1>4, <1>5, <1>6, <1>7 DEF StatusNext, allVars

(* The ring of the traffic log holds the latest entries in the order they  *)
(* were pushed and never more than its capacity, and no number enters it   *)
(* twice, however the tasks that log interleave (push_log_with_payload).   *)
THEOREM LogRing == StatusSpec => [](RingIsSuffix /\ NumbersOnce)
<1>1. StatusInit => LogServerInv
  BY LogFresh DEF StatusInit
<1>2. LogServerInv => RingIsSuffix /\ NumbersOnce
  <2> SUFFICES ASSUME LogServerInv PROVE RingIsSuffix /\ NumbersOnce
    OBVIOUS
  <2>1. /\ log \in Seq(Seqs) /\ pushed \in Seq(Seqs) /\ LogCap \in Nat \ {0}
        /\ Len(log) \in Nat /\ Len(pushed) \in Nat
    BY LogAssumption DEF LogServerInv, LogTypes
  <2>2. /\ Len(log) = IF Len(pushed) < LogCap THEN Len(pushed) ELSE LogCap
        /\ \A i \in 1 .. Len(log) : log[i] = pushed[Len(pushed) - Len(log) + i]
    BY DEF LogServerInv, RingEntries
  <2>3. Len(log) <= Len(pushed)
    BY <2>1, <2>2
  <2>4. log = SubSeq(pushed, Len(pushed) - Len(log) + 1, Len(pushed))
    BY <2>1, <2>2, <2>3, SuffixEntries
  <2> QED
    BY <2>2, <2>4 DEF RingIsSuffix, LogServerInv
<1> QED
  BY <1>1, <1>2, LogStep, PTL DEF StatusSpec

-----------------------------------------------------------------------------
(* What a filter collects                                                  *)

(* Every nonempty set of naturals has a least element.                     *)
LEMMA Least ==
  ASSUME NEW T \in SUBSET Nat, T # {}
  PROVE  \E m \in T : \A k \in T : m <= k
<1> DEFINE R == {ss \in Nat \X Nat : ss[1] < ss[2]}
<1>1. IsWellFoundedOn(R, Nat)
  BY NatLessThanWellFounded, Zenon DEF OpToRel
<1>2. \A x, y \in Nat : (<<y, x>> \in R) <=> y < x
  OBVIOUS
<1> HIDE DEF R
<1>3. T \subseteq Nat
  OBVIOUS
<1>4. \E x \in T : \A y \in T : ~(<<y, x>> \in R)
  BY <1>1, <1>3, WFMin, Zenon
<1>5. PICK x \in T : \A y \in T : ~(<<y, x>> \in R)
  BY <1>4
<1>6. ASSUME NEW y \in T PROVE x <= y
  <2>1. x \in Nat /\ y \in Nat /\ ~(y < x)
    BY <1>2, <1>3, <1>5
  <2> QED
    BY <2>1
<1> QED
  BY <1>5, <1>6

(* Induction up to N, for a set G of numbers: what fails somewhere fails a *)
(* first time.                                                             *)
LEMMA UpTo ==
  ASSUME NEW N \in Nat, NEW G, 0 \in G,
         \A n \in 0 .. N - 1 : n \in G => n + 1 \in G
  PROVE  \A n \in 0 .. N : n \in G
<1> DEFINE T == {n \in 0 .. N : n \notin G}
<1>1. SUFFICES ASSUME T # {} PROVE FALSE
  OBVIOUS
<1>2. T \in SUBSET Nat
  OBVIOUS
<1>3. PICK m \in T : \A k \in T : m <= k
  BY <1>1, <1>2, Least
<1>4. m \in 0 .. N /\ m \notin G /\ m # 0
  OBVIOUS
<1>5. m - 1 \in 0 .. N - 1 /\ (m - 1) + 1 = m /\ m - 1 \in 0 .. N /\ ~(m <= m - 1)
  BY <1>4
<1>6. m - 1 \in G
  BY <1>3, <1>5
<1> QED
  BY <1>4, <1>5, <1>6

(* The recursion of Picked has a solution.                                 *)
LEMMA PickedExists ==
  ASSUME NEW S, NEW s \in Seq(S), NEW K
  PROVE  \E f : f = [i \in 0 .. Len(s) |->
                       IF i = 0 THEN <<>>
                       ELSE IF i \in K THEN Append(f[i - 1], s[i]) ELSE f[i - 1]]
<1> DEFINE One(f, i) == IF i \in K THEN Append(f[i - 1], s[i]) ELSE f[i - 1]
<1> DEFINE Good(n) ==
      \E f : f = [i \in 0 .. n |-> IF i = 0 THEN <<>> ELSE One(f, i)]
<1> DEFINE G == {n \in Nat : Good(n)}
<1>1. Len(s) \in Nat
  OBVIOUS
<1>2. Good(0)
  <2> DEFINE f == [i \in 0 .. 0 |-> <<>>]
  <2>1. f = [i \in 0 .. 0 |-> IF i = 0 THEN <<>> ELSE One(f, i)]
    OBVIOUS
  <2> HIDE DEF f
  <2> QED
    BY <2>1
<1>3. ASSUME NEW n \in Nat, Good(n) PROVE Good(n + 1)
  <2>1. PICK g : g = [i \in 0 .. n |-> IF i = 0 THEN <<>> ELSE One(g, i)]
    BY <1>3
  <2> DEFINE f == [i \in 0 .. n + 1 |-> IF i = 0 THEN <<>> ELSE One(g, i)]
  <2>2. ASSUME NEW i \in 0 .. n + 1, i # 0 PROVE f[i - 1] = g[i - 1]
    <3>1. i - 1 \in 0 .. n /\ i - 1 \in 0 .. n + 1
      BY <2>2
    <3> HIDE DEF One
    <3>2. f[i - 1] = IF i - 1 = 0 THEN <<>> ELSE One(g, i - 1)
      BY <3>1
    <3>3. g[i - 1] = IF i - 1 = 0 THEN <<>> ELSE One(g, i - 1)
      BY <2>1, <3>1
    <3> QED
      BY <3>2, <3>3
  <2> HIDE DEF f
  <2>3. \A i \in 0 .. n + 1 : i # 0 => One(f, i) = One(g, i)
    BY <2>2
  <2> HIDE DEF One
  <2>4. f = [i \in 0 .. n + 1 |-> IF i = 0 THEN <<>> ELSE One(f, i)]
    BY <2>3 DEF f
  <2> QED
    BY <2>4
<1> HIDE DEF Good
<1>4. 0 \in G /\ \A n \in 0 .. Len(s) - 1 : n \in G => n + 1 \in G
  BY <1>1, <1>2, <1>3
<1> HIDE DEF G
<1>5. Len(s) \in G
  <2>1. \A n \in 0 .. Len(s) : n \in G
    BY <1>1, <1>4, UpTo
  <2> QED
    BY <1>1, <2>1
<1> QED
  BY <1>5 DEF G, Good

(* Picked satisfies its recursion.                                         *)
LEMMA PickedRecursion ==
  ASSUME NEW S, NEW s \in Seq(S), NEW K
  PROVE  \E f : /\ f[0] = <<>>
                /\ \A n \in 0 .. Len(s) - 1 :
                     f[n + 1] = IF n + 1 \in K THEN Append(f[n], s[n + 1]) ELSE f[n]
                /\ Picked(s, K) = f[Len(s)]
<1> DEFINE f == CHOOSE g : g = [i \in 0 .. Len(s) |->
                 IF i = 0 THEN <<>>
                 ELSE IF i \in K THEN Append(g[i - 1], s[i]) ELSE g[i - 1]]
<1>1. \E g : g = [i \in 0 .. Len(s) |->
                 IF i = 0 THEN <<>>
                 ELSE IF i \in K THEN Append(g[i - 1], s[i]) ELSE g[i - 1]]
  BY PickedExists
<1>2. f = [i \in 0 .. Len(s) |->
             IF i = 0 THEN <<>>
             ELSE IF i \in K THEN Append(f[i - 1], s[i]) ELSE f[i - 1]]
  BY <1>1, Zenon
<1>3. Picked(s, K) = f[Len(s)]
  BY Zenon DEF Picked
<1> HIDE DEF f
<1>4. Len(s) \in Nat
  OBVIOUS
<1>5. f[0] = <<>>
  BY <1>2, <1>4
<1>6. ASSUME NEW n \in 0 .. Len(s) - 1
      PROVE  f[n + 1] = IF n + 1 \in K THEN Append(f[n], s[n + 1]) ELSE f[n]
  <2>1. n + 1 \in 0 .. Len(s) /\ n + 1 # 0 /\ (n + 1) - 1 = n
    BY <1>4
  <2>2. f[n + 1] = IF n + 1 \in K THEN Append(f[(n + 1) - 1], s[n + 1])
                                  ELSE f[(n + 1) - 1]
    BY <1>2, <2>1
  <2> QED
    BY <2>1, <2>2
<1> QED
  BY <1>3, <1>5, <1>6

(* What Picked returns: the elements at the chosen positions, all of them, *)
(* in order.                                                               *)
LEMMA Picks ==
  ASSUME NEW S, NEW s \in Seq(S), NEW K \in SUBSET (1 .. Len(s))
  PROVE  /\ Picked(s, K) \in Seq(S)
         /\ \E pos \in [1 .. Len(Picked(s, K)) -> K] :
              /\ \A k \in 1 .. Len(Picked(s, K)) : Picked(s, K)[k] = s[pos[k]]
              /\ \A k, l \in 1 .. Len(Picked(s, K)) : k < l => pos[k] < pos[l]
              /\ \A i \in K : \E k \in 1 .. Len(Picked(s, K)) : pos[k] = i
<1>1. PICK f : /\ f[0] = <<>>
               /\ \A n \in 0 .. Len(s) - 1 :
                    f[n + 1] = IF n + 1 \in K THEN Append(f[n], s[n + 1]) ELSE f[n]
               /\ Picked(s, K) = f[Len(s)]
  BY PickedRecursion
<1>2. Len(s) \in Nat /\ \A i \in 1 .. Len(s) : s[i] \in S
  OBVIOUS
<1> DEFINE Maps(r, n, pos) ==
      /\ pos \in [1 .. Len(r) -> K \cap (1 .. n)]
      /\ \A k \in 1 .. Len(r) : r[k] = s[pos[k]]
      /\ \A k, l \in 1 .. Len(r) : k < l => pos[k] < pos[l]
      /\ \A i \in K \cap (1 .. n) : \E k \in 1 .. Len(r) : pos[k] = i
<1> DEFINE Good(n) == f[n] \in Seq(S) /\ \E pos : Maps(f[n], n, pos)
<1> DEFINE G == {n \in Nat : Good(n)}
<1>3. Good(0)
  <2>1. f[0] \in Seq(S) /\ Len(f[0]) = 0
    BY <1>1
  <2> DEFINE pos == [k \in 1 .. 0 |-> 0]
  <2>2. Maps(f[0], 0, pos)
    BY <2>1
  <2> HIDE DEF Maps
  <2> QED
    BY <2>1, <2>2
<1>4. ASSUME NEW n \in 0 .. Len(s) - 1, Good(n) PROVE Good(n + 1)
  <2> DEFINE r == f[n]
  <2>1. r \in Seq(S) /\ Len(r) \in Nat /\ n \in Nat /\ n + 1 \in 1 .. Len(s) /\ s[n + 1] \in S
    BY <1>2, <1>4
  <2>2. PICK pos : Maps(r, n, pos)
    BY <1>4
  <2> HIDE DEF r
  <2>3. CASE n + 1 \notin K
    <3>1. f[n + 1] = r
      BY <1>1, <2>3 DEF r
    <3>2. K \cap (1 .. n + 1) = K \cap (1 .. n)
      BY <2>1, <2>3
    <3>3. Maps(r, n + 1, pos)
      BY <2>2, <3>2
    <3> HIDE DEF Maps
    <3> QED
      BY <2>1, <3>1, <3>3
  <2>4. CASE n + 1 \in K
    <3> DEFINE u == Append(r, s[n + 1])
               m == Len(r) + 1
               q == [k \in 1 .. m |-> IF k = m THEN n + 1 ELSE pos[k]]
    <3>1. f[n + 1] = u
      BY <1>1, <2>4 DEF r
    <3>2. /\ u \in Seq(S) /\ Len(u) = m /\ m \in Nat /\ u[m] = s[n + 1]
          /\ \A k \in 1 .. Len(r) : u[k] = r[k]
      BY <2>1
    <3>3. \A k \in 1 .. m : k # m => k \in 1 .. Len(r)
      BY <2>1
    <3>4. m \in 1 .. m /\ \A k \in 1 .. Len(r) : k \in 1 .. m /\ k # m
      BY <2>1
    <3>5. \A k \in 1 .. Len(r) : pos[k] \in K /\ pos[k] \in 1 .. n /\ r[k] = s[pos[k]]
      BY <2>2
    <3>6. q[m] = n + 1 /\ \A k \in 1 .. Len(r) : q[k] = pos[k]
      BY <3>4
    <3>7. \A k \in 1 .. n : k \in 1 .. n + 1 /\ k < n + 1
      BY <2>1
    <3>8. n + 1 \in 1 .. n + 1
      BY <2>1
    <3>9. q \in [1 .. m -> K \cap (1 .. n + 1)]
      <4>1. ASSUME NEW k \in 1 .. m PROVE q[k] \in K \cap (1 .. n + 1)
        BY <2>4, <3>3, <3>5, <3>6, <3>7, <3>8
      <4> QED
        BY <4>1
    <3> HIDE DEF u, m, q
    <3>10. \A k \in 1 .. m : u[k] = s[q[k]]
      BY <3>2, <3>3, <3>5, <3>6
    <3>11. ASSUME NEW k \in 1 .. m, NEW l \in 1 .. m, k < l PROVE q[k] < q[l]
      <4>1. k \in 1 .. Len(r) /\ q[k] = pos[k]
        BY <2>1, <3>2, <3>3, <3>6, <3>11
      <4>2. CASE l = m
        BY <3>5, <3>6, <3>7, <4>1, <4>2
      <4>3. CASE l # m
        <5>1. l \in 1 .. Len(r) /\ q[l] = pos[l]
          BY <3>3, <3>6, <4>3
        <5> QED
          BY <2>2, <3>11, <4>1, <5>1
      <4> QED
        BY <4>2, <4>3
    <3>12. ASSUME NEW i \in K \cap (1 .. n + 1) PROVE \E k \in 1 .. m : q[k] = i
      <4>1. CASE i = n + 1
        BY <3>4, <3>6, <4>1
      <4>2. CASE i # n + 1
        <5>1. i \in K \cap (1 .. n)
          BY <2>1, <4>2
        <5>2. PICK k \in 1 .. Len(r) : pos[k] = i
          BY <2>2, <5>1
        <5> QED
          BY <3>4, <3>6, <5>2
      <4> QED
        BY <4>1, <4>2
    <3>13. Maps(u, n + 1, q)
      BY <3>2, <3>9, <3>10, <3>11, <3>12
    <3> HIDE DEF Maps
    <3> QED
      BY <3>1, <3>2, <3>13
  <2> QED
    BY <2>3, <2>4
<1> HIDE DEF Good
<1>5. 0 \in G /\ \A n \in 0 .. Len(s) - 1 : n \in G => n + 1 \in G
  BY <1>2, <1>3, <1>4
<1> HIDE DEF G
<1>6. Good(Len(s))
  <2>1. \A n \in 0 .. Len(s) : n \in G
    BY <1>2, <1>5, UpTo
  <2>2. Len(s) \in G
    BY <1>2, <2>1
  <2> QED
    BY <2>2 DEF G
<1>7. K \cap (1 .. Len(s)) = K
  OBVIOUS
<1> QED
  BY <1>1, <1>6, <1>7 DEF Good

-----------------------------------------------------------------------------
(* The pages of the dashboard                                              *)

(* log_since: the entries of the ring from a number on, and in order if    *)
(* the ring is.                                                            *)
IsBatch(b, from) ==
  /\ b \in Seq(Seqs)
  /\ \A k \in 1 .. Len(b) : \E i \in 1 .. Len(log) : b[k] = log[i]
  /\ \A i \in 1 .. Len(log) : log[i] >= from => \E k \in 1 .. Len(b) : b[k] = log[i]
  /\ (\A i, j \in 1 .. Len(log) : i < j => log[i] < log[j])
       => \A k, m \in 1 .. Len(b) : k < m => b[k] < b[m]

(* log_since is such a batch.                                              *)
LEMMA BatchEntries ==
  ASSUME log \in Seq(Seqs), NEW from \in Int
  PROVE  IsBatch(log_since(from), from)
<1> SUFFICES ASSUME NEW b, b = log_since(from) PROVE IsBatch(b, from)
  OBVIOUS
<1> DEFINE K == {i \in 1 .. Len(log) : log[i] >= from}
<1>1. K \in SUBSET (1 .. Len(log))
  OBVIOUS
<1>0. b = Picked(log, K)
  BY DEF log_since
<1>2. /\ b \in Seq(Seqs)
      /\ \E pos \in [1 .. Len(b) -> K] :
           /\ \A k \in 1 .. Len(b) : b[k] = log[pos[k]]
           /\ \A k, m \in 1 .. Len(b) : k < m => pos[k] < pos[m]
           /\ \A i \in K : \E k \in 1 .. Len(b) : pos[k] = i
  <2> HIDE DEF K
  <2> QED
    BY <1>0, <1>1, Picks
<1>3. PICK pos \in [1 .. Len(b) -> K] :
           /\ \A k \in 1 .. Len(b) : b[k] = log[pos[k]]
           /\ \A k, m \in 1 .. Len(b) : k < m => pos[k] < pos[m]
           /\ \A i \in K : \E k \in 1 .. Len(b) : pos[k] = i
  BY <1>2
<1>4. \A k \in 1 .. Len(b) : pos[k] \in 1 .. Len(log)
  BY <1>1, <1>3
<1>5. ASSUME NEW i \in 1 .. Len(log), log[i] >= from
      PROVE  \E k \in 1 .. Len(b) : b[k] = log[i]
  <2>1. i \in K
    BY <1>5
  <2>2. PICK k \in 1 .. Len(b) : pos[k] = i
    BY <1>3, <2>1
  <2> QED
    BY <1>3, <2>2
<1>6. ASSUME \A i, j \in 1 .. Len(log) : i < j => log[i] < log[j],
             NEW k \in 1 .. Len(b), NEW m \in 1 .. Len(b), k < m
      PROVE  b[k] < b[m]
  <2>1. pos[k] < pos[m] /\ b[k] = log[pos[k]] /\ b[m] = log[pos[m]]
    BY <1>3, <1>6
  <2> HIDE DEF K
  <2> QED
    BY <1>4, <1>6, <2>1
<1> HIDE DEF K
<1> QED
  BY <1>2, <1>3, <1>4, <1>5, <1>6 DEF IsBatch

(* appendLog: what a page takes of a batch rises from above its lastSeq,   *)
(* nothing in the batch is higher than its end, and of a batch in order    *)
(* nothing above lastSeq is left out.                                      *)
IsFresh(f, b, last) ==
  /\ f \in Seq(Seqs)
  /\ \A k \in 1 .. Len(f) : f[k] > last /\ \E i \in 1 .. Len(b) : f[k] = b[i]
  /\ \A k, m \in 1 .. Len(f) : k < m => f[k] < f[m]
  /\ \A i \in 1 .. Len(b) : b[i] > last => \E k \in 1 .. Len(f) : b[i] <= f[k]
  /\ (\A i, j \in 1 .. Len(b) : i < j => b[i] < b[j])
       => \A i \in 1 .. Len(b) : b[i] > last => \E k \in 1 .. Len(f) : f[k] = b[i]

(* Fresh is what appendLog takes.                                          *)
LEMMA FreshEntries ==
  ASSUME NEW b \in Seq(Seqs), NEW last \in Int
  PROVE  IsFresh(Fresh(b, last), b, last)
<1> SUFFICES ASSUME NEW f, f = Fresh(b, last) PROVE IsFresh(f, b, last)
  OBVIOUS
<1> DEFINE Rises(i) == b[i] > last /\ \A j \in 1 .. (i - 1) : b[j] < b[i]
           K == {i \in 1 .. Len(b) : Rises(i)}
<1>0. Len(b) \in Nat /\ \A i \in 1 .. Len(b) : b[i] \in Int /\ b[i] \in Seqs
  BY LogAssumption DEF Seqs
<1>1. K \in SUBSET (1 .. Len(b)) /\ \A i \in K : Rises(i)
  OBVIOUS
<1>2. f = Picked(b, K)
  BY DEF Fresh
<1> HIDE DEF K
<1>3. /\ f \in Seq(Seqs)
      /\ \E pos \in [1 .. Len(f) -> K] :
           /\ \A k \in 1 .. Len(f) : f[k] = b[pos[k]]
           /\ \A k, m \in 1 .. Len(f) : k < m => pos[k] < pos[m]
           /\ \A i \in K : \E k \in 1 .. Len(f) : pos[k] = i
  BY <1>1, <1>2, Picks
<1>4. PICK pos \in [1 .. Len(f) -> K] :
           /\ \A k \in 1 .. Len(f) : f[k] = b[pos[k]]
           /\ \A k, m \in 1 .. Len(f) : k < m => pos[k] < pos[m]
           /\ \A i \in K : \E k \in 1 .. Len(f) : pos[k] = i
  BY <1>3
<1>5. \A k \in 1 .. Len(f) : pos[k] \in K /\ pos[k] \in 1 .. Len(b)
  BY <1>1, <1>4
<1>6. \A k \in 1 .. Len(f) : f[k] > last /\ \E i \in 1 .. Len(b) : f[k] = b[i]
  BY <1>1, <1>4, <1>5
<1>7. ASSUME NEW k \in 1 .. Len(f), NEW m \in 1 .. Len(f), k < m
      PROVE  f[k] < f[m]
  <2>1. pos[k] < pos[m] /\ f[k] = b[pos[k]] /\ f[m] = b[pos[m]]
    BY <1>4, <1>7
  <2>2. pos[k] \in 1 .. (pos[m] - 1)
    BY <1>0, <1>5, <2>1
  <2> QED
    BY <1>1, <1>5, <2>1, <2>2
<1>8. ASSUME NEW i \in 1 .. Len(b), b[i] > last
      PROVE  \E k \in 1 .. Len(f) : b[i] <= f[k]
  <2> DEFINE T == {j \in 1 .. Len(b) : b[j] >= b[i]}
  <2>1. T \in SUBSET Nat /\ i \in T
    BY <1>0
  <2>2. PICK j \in T : \A m \in T : j <= m
    <3> HIDE DEF T
    <3> QED
      BY <2>1, Least
  <2>3. j \in 1 .. Len(b) /\ b[j] >= b[i]
    OBVIOUS
  <2>4. ASSUME NEW m \in 1 .. (j - 1) PROVE b[m] < b[j]
    <3>1. m \in 1 .. Len(b) /\ ~(j <= m)
      BY <1>0, <2>3
    <3>2. ~(b[m] >= b[i])
      BY <2>2, <3>1
    <3> QED
      BY <1>0, <2>3, <3>1, <3>2
  <2>5. b[j] > last
    BY <1>0, <1>8, <2>3
  <2>6. j \in K
    BY <2>3, <2>4, <2>5 DEF K
  <2>7. PICK k \in 1 .. Len(f) : pos[k] = j
    BY <1>4, <2>6
  <2> QED
    BY <1>4, <2>3, <2>7
<1>9. ASSUME \A i, j \in 1 .. Len(b) : i < j => b[i] < b[j],
             NEW i \in 1 .. Len(b), b[i] > last
      PROVE  \E k \in 1 .. Len(f) : f[k] = b[i]
  <2>1. \A j \in 1 .. (i - 1) : j \in 1 .. Len(b) /\ j < i
    BY <1>0
  <2>2. i \in K
    BY <1>9, <2>1 DEF K
  <2>3. PICK k \in 1 .. Len(f) : pos[k] = i
    BY <1>4, <2>2
  <2> QED
    BY <1>4, <2>3
<1> QED
  BY <1>3, <1>6, <1>7, <1>8, <1>9 DEF IsFresh

(* One sequence after another.                                             *)
LEMMA Joined ==
  ASSUME NEW S, NEW s \in Seq(S), NEW t \in Seq(S)
  PROVE  /\ s \o t \in Seq(S) /\ Len(s \o t) = Len(s) + Len(t)
         /\ \A i \in 1 .. Len(s) + Len(t) :
              (s \o t)[i] = IF i <= Len(s) THEN s[i] ELSE t[i - Len(s)]
OBVIOUS

(* The table of a page with the fresh entries of run r behind it.          *)
Grown(sh, f, r) == sh \o [i \in 1 .. Len(f) |-> [run |-> r, seq |-> f[i]]]
IsGrown(t, sh, f, r) ==
  /\ t \in Seq(Entries) /\ Len(t) = Len(sh) + Len(f)
  /\ Len(sh) \in Nat /\ Len(f) \in Nat
  /\ \A i \in 1 .. Len(sh) : t[i] = sh[i]
  /\ \A k \in 1 .. Len(f) : t[Len(sh) + k] = [run |-> r, seq |-> f[k]]

(* That is what Tick makes of it.                                          *)
LEMMA ShownGrows ==
  ASSUME NEW sh \in Seq(Entries), NEW f \in Seq(Seqs), NEW r \in 1 .. MaxRuns
  PROVE  IsGrown(Grown(sh, f, r), sh, f, r)
<1> SUFFICES ASSUME NEW t, t = Grown(sh, f, r) PROVE IsGrown(t, sh, f, r)
  OBVIOUS
<1> DEFINE g == [i \in 1 .. Len(f) |-> [run |-> r, seq |-> f[i]]]
<1>1. Len(sh) \in Nat /\ Len(f) \in Nat /\ \A i \in 1 .. Len(f) : f[i] \in Seqs
  OBVIOUS
<1>2. g \in Seq(Entries) /\ Len(g) = Len(f)
  <2>1. \A i \in 1 .. Len(f) : [run |-> r, seq |-> f[i]] \in Entries
    BY <1>1 DEF Entries
  <2> QED
    BY <1>1, <2>1
<1>3. \A k \in 1 .. Len(f) : g[k] = [run |-> r, seq |-> f[k]]
  OBVIOUS
<1>4. t = sh \o g
  BY DEF Grown
<1> HIDE DEF g
<1>5. /\ t \in Seq(Entries) /\ Len(t) = Len(sh) + Len(f)
      /\ \A i \in 1 .. Len(sh) + Len(f) :
           t[i] = IF i <= Len(sh) THEN sh[i] ELSE g[i - Len(sh)]
  <2>1. /\ sh \o g \in Seq(Entries) /\ Len(sh \o g) = Len(sh) + Len(g)
        /\ \A i \in 1 .. Len(sh) + Len(g) :
             (sh \o g)[i] = IF i <= Len(sh) THEN sh[i] ELSE g[i - Len(sh)]
    BY <1>2, Joined
  <2> QED
    BY <1>2, <1>4, <2>1, Zenon
<1>6. \A i \in 1 .. Len(sh) : t[i] = sh[i]
  BY <1>1, <1>5
<1>7. ASSUME NEW k \in 1 .. Len(f) PROVE t[Len(sh) + k] = g[k]
  <2>1. /\ Len(sh) + k \in 1 .. Len(sh) + Len(f) /\ ~(Len(sh) + k <= Len(sh))
        /\ (Len(sh) + k) - Len(sh) = k
    BY <1>1
  <2> QED
    BY <1>5, <2>1
<1> QED
  BY <1>1, <1>3, <1>5, <1>6, <1>7 DEF IsGrown

(* The types of what belongs to the pages.                                 *)
PageTypes ==
  /\ run \in 1 .. MaxRuns
  /\ stream \in [Pages -> BOOLEAN]
  /\ next_log_seq \in [Pages -> 0 .. MaxSeq]
  /\ lastSeq \in [Pages -> Seqs \cup {-1}]
  /\ shown \in [Pages -> Seq(Entries)]
  /\ expired \in [Pages -> SUBSET Entries]
  /\ taken \in [Pages -> Seq(Entries)]
  /\ mark \in [Pages -> 0 .. MaxSeq]

PagesInv == PageTypes /\ CursorBehind /\ \A p \in Pages : PageFollows(p)

(* What a sequence of numbers holds.                                       *)
LEMMA SeqsEntries ==
  ASSUME NEW s \in Seq(Seqs)
  PROVE  Len(s) \in Nat /\ \A k \in 1 .. Len(s) : s[k] \in Seqs /\ s[k] \in Int
BY LogAssumption DEF Seqs

(* Numbers are numbers.                                                    *)
LEMMA SeqNumbers ==
  /\ MaxSeq \in Nat /\ MaxRuns \in Nat \ {0} /\ Seqs \subseteq Int
  /\ \A x \in Seqs : x \in 0 .. MaxSeq /\ x + 1 \in 0 .. MaxSeq /\ x >= 0
  /\ \A e \in Entries : e.seq \in Seqs /\ e.run \in 1 .. MaxRuns
  /\ \A x \in Seqs \cup {-1} : x \in Int /\ x >= -1 /\ x + 1 \in 0 .. MaxSeq
<1>1. MaxSeq \in Nat /\ MaxRuns \in Nat \ {0}
  BY LogAssumption
<1>2. \A x \in Seqs : x \in Int /\ x \in 0 .. MaxSeq /\ x + 1 \in 0 .. MaxSeq /\ x >= 0
  BY <1>1 DEF Seqs
<1>3. \A e \in Entries : e.seq \in Seqs /\ e.run \in 1 .. MaxRuns
  BY DEF Entries
<1>4. -1 \in Int /\ -1 >= -1 /\ -1 + 1 \in 0 .. MaxSeq
  BY <1>1
<1> QED
  BY <1>1, <1>2, <1>3, <1>4

(* What is in the ring was pushed, and has a number given out.             *)
LEMMA RingPushed ==
  ASSUME LogServerInv
  PROVE  \A i \in 1 .. Len(log) : /\ log[i] \in Seqs /\ log[i] < log_seq
                                  /\ \E j \in 1 .. Len(pushed) :
                                       j = Len(pushed) - Len(log) + i /\ pushed[j] = log[i]
<1>1. /\ Len(log) \in Nat /\ Len(pushed) \in Nat /\ LogCap \in Nat \ {0}
      /\ \A i \in 1 .. Len(log) : log[i] \in Seqs
  BY LogAssumption DEF LogServerInv, LogTypes
<1>2. Len(log) <= Len(pushed)
  BY <1>1 DEF LogServerInv, RingEntries
<1>3. ASSUME NEW i \in 1 .. Len(log)
      PROVE  /\ Len(pushed) - Len(log) + i \in 1 .. Len(pushed)
             /\ log[i] = pushed[Len(pushed) - Len(log) + i]
  <2>1. Len(pushed) - Len(log) + i \in 1 .. Len(pushed)
    BY <1>1, <1>2
  <2> QED
    BY <2>1 DEF LogServerInv, RingEntries
<1>4. \A j \in 1 .. Len(pushed) : pushed[j] < log_seq
  BY DEF LogServerInv, NumbersOnce
<1> QED
  BY <1>1, <1>3, <1>4

(* If the tasks pushed in order, the ring is in order.                     *)
LEMMA RingInOrder ==
  ASSUME LogServerInv, InOrder
  PROVE  \A i, j \in 1 .. Len(log) : i < j => log[i] < log[j]
<1> SUFFICES ASSUME NEW i \in 1 .. Len(log), NEW j \in 1 .. Len(log), i < j
             PROVE  log[i] < log[j]
  OBVIOUS
<1>1. Len(log) \in Nat /\ Len(pushed) \in Nat
  BY DEF LogServerInv, LogTypes
<1>2. PICK k \in 1 .. Len(pushed) : k = Len(pushed) - Len(log) + i /\ pushed[k] = log[i]
  BY RingPushed
<1>3. PICK m \in 1 .. Len(pushed) : m = Len(pushed) - Len(log) + j /\ pushed[m] = log[j]
  BY RingPushed
<1>4. k < m
  BY <1>1, <1>2, <1>3
<1> QED
  BY <1>2, <1>3, <1>4 DEF InOrder

(* What a page shows after a turn that brought it f.                       *)
ShownNext(p, f) ==
  /\ Len(f) = 0 => UNCHANGED <<shown, expired>>
  /\ Len(f) # 0 =>
       /\ Expire(p, Grown(shown[p], f, run))
       /\ shown' = [shown EXCEPT ![p] =
                      InWindow(Grown(shown[p], f, run), expired'[p])]

(* What eviction leaves of a table: what is not too old, in its order.     *)
IsWindow(w, t, old) ==
  /\ w \in Seq(Entries)
  /\ \A k \in 1 .. Len(w) : w[k] \notin old /\ \E i \in 1 .. Len(t) : w[k] = t[i]
  /\ \A i \in 1 .. Len(t) : t[i] \notin old => \E k \in 1 .. Len(w) : w[k] = t[i]
  /\ (\A i, j \in 1 .. Len(t) : i < j => t[i].seq < t[j].seq)
       => \A k, m \in 1 .. Len(w) : k < m => w[k].seq < w[m].seq

(* That is what the filter of appendLog does.                              *)
LEMMA WindowKeeps ==
  ASSUME NEW t \in Seq(Entries), NEW old
  PROVE  IsWindow(InWindow(t, old), t, old)
<1> DEFINE K == {i \in 1 .. Len(t) : t[i] \notin old}
<1>1. PICK w : w = InWindow(t, old)
  OBVIOUS
<1>2. w = Picked(t, K) /\ K \in SUBSET (1 .. Len(t))
  BY <1>1 DEF InWindow
<1>3. \A i : i \in K <=> i \in 1 .. Len(t) /\ t[i] \notin old
  OBVIOUS
<1> HIDE DEF K
<1>4. /\ Picked(t, K) \in Seq(Entries)
      /\ \E pos \in [1 .. Len(Picked(t, K)) -> K] :
           /\ \A k \in 1 .. Len(Picked(t, K)) : Picked(t, K)[k] = t[pos[k]]
           /\ \A k, l \in 1 .. Len(Picked(t, K)) : k < l => pos[k] < pos[l]
           /\ \A i \in K : \E k \in 1 .. Len(Picked(t, K)) : pos[k] = i
  BY <1>2, Picks
<1>5. PICK pos \in [1 .. Len(w) -> K] :
           /\ \A k \in 1 .. Len(w) : w[k] = t[pos[k]]
           /\ \A k, l \in 1 .. Len(w) : k < l => pos[k] < pos[l]
           /\ \A i \in K : \E k \in 1 .. Len(w) : pos[k] = i
  BY <1>2, <1>4, Zenon
<1>6. w \in Seq(Entries)
  BY <1>2, <1>4, Zenon
<1>7. \A k \in 1 .. Len(w) : w[k] \notin old /\ \E i \in 1 .. Len(t) : w[k] = t[i]
  BY <1>3, <1>5
<1>8. \A i \in 1 .. Len(t) : t[i] \notin old => \E k \in 1 .. Len(w) : w[k] = t[i]
  BY <1>3, <1>5
<1>9. ASSUME \A i, j \in 1 .. Len(t) : i < j => t[i].seq < t[j].seq,
             NEW k \in 1 .. Len(w), NEW m \in 1 .. Len(w), k < m
      PROVE  w[k].seq < w[m].seq
  BY <1>3, <1>5, <1>9
<1>10. IsWindow(w, t, old)
  BY <1>6, <1>7, <1>8, <1>9 DEF IsWindow
<1> QED
  BY <1>1, <1>10, Zenon

(* One turn of a page's stream: where the cursor and lastSeq end up, and   *)
(* what the page has taken and shows.                                      *)
LEMMA TickFacts ==
  ASSUME LogServerInv, PagesInv, NEW p \in Pages, Tick(p)
  PROVE  \E f \in Seq(Seqs), top \in Seqs \cup {-1}, c \in 0 .. MaxSeq :
           /\ next_log_seq' = [next_log_seq EXCEPT ![p] = c]
           /\ lastSeq' = [lastSeq EXCEPT ![p] = top]
           /\ taken' = [taken EXCEPT ![p] = Grown(taken[p], f, run)]
           /\ ShownNext(p, f)
           /\ c <= top + 1 /\ c <= log_seq /\ lastSeq[p] <= top
           /\ top = IF Len(f) = 0 THEN lastSeq[p] ELSE f[Len(f)]
           /\ \A k \in 1 .. Len(f) : /\ f[k] > lastSeq[p] /\ f[k] <= top
                                     /\ \E i \in 1 .. Len(log) : f[k] = log[i]
           /\ \A k, m \in 1 .. Len(f) : k < m => f[k] < f[m]
           /\ InOrder => \A i \in 1 .. Len(log) :
                log[i] > lastSeq[p] => \E k \in 1 .. Len(f) : f[k] = log[i]
<1>0. /\ log \in Seq(Seqs) /\ log_seq \in 0 .. MaxSeq /\ PageTypes
      /\ PageFollows(p) /\ CursorBehind /\ stream[p]
  BY DEF LogServerInv, LogTypes, PagesInv, Tick
<1>1. /\ lastSeq[p] \in Seqs \cup {-1} /\ lastSeq[p] \in Int
      /\ next_log_seq[p] \in 0 .. MaxSeq /\ next_log_seq[p] \in Int
      /\ mark[p] \in 0 .. MaxSeq
      /\ next_log_seq[p] <= lastSeq[p] + 1 /\ mark[p] <= log_seq
      /\ next_log_seq[p] <= mark[p] /\ MaxSeq \in Nat /\ log_seq \in Int
  <2>1. /\ lastSeq[p] \in Seqs \cup {-1} /\ next_log_seq[p] \in 0 .. MaxSeq
        /\ mark[p] \in 0 .. MaxSeq
    BY <1>0 DEF PageTypes
  <2>2. next_log_seq[p] <= lastSeq[p] + 1 /\ mark[p] <= log_seq
    BY <1>0, Zenon DEF PageFollows
  <2>3. next_log_seq[p] <= mark[p]
    BY <1>0 DEF CursorBehind
  <2>4. lastSeq[p] \in Int /\ MaxSeq \in Nat
    BY <2>1, SeqNumbers, Zenon
  <2>5. next_log_seq[p] \in Int /\ log_seq \in Int
    BY <1>0, <2>1, <2>4
  <2> QED
    BY <2>1, <2>2, <2>3, <2>4, <2>5
<1>17. PICK b : b = log_since(next_log_seq[p])
  OBVIOUS
<1>16. PICK f : f = Fresh(b, lastSeq[p])
  OBVIOUS
<1>18. PICK top : top = IF f = <<>> THEN lastSeq[p] ELSE Last(f)
  OBVIOUS
<1>19. PICK c : c = Cursor(next_log_seq[p], b)
  OBVIOUS
<1>2. /\ next_log_seq' = [next_log_seq EXCEPT ![p] = c]
      /\ lastSeq' = [lastSeq EXCEPT ![p] = top]
      /\ taken' = [taken EXCEPT ![p] = Grown(taken[p], f, run)]
      /\ f = <<>> => UNCHANGED <<shown, expired>>
      /\ f # <<>> =>
           /\ Expire(p, Grown(shown[p], f, run))
           /\ shown' = [shown EXCEPT ![p] =
                          InWindow(Grown(shown[p], f, run), expired'[p])]
  BY <1>16, <1>17, <1>18, <1>19 DEF Tick, Entry, Grown
<1>3. /\ b \in Seq(Seqs)
      /\ \A k \in 1 .. Len(b) : \E i \in 1 .. Len(log) : b[k] = log[i]
      /\ \A i \in 1 .. Len(log) :
           log[i] >= next_log_seq[p] => \E k \in 1 .. Len(b) : b[k] = log[i]
      /\ (\A i, j \in 1 .. Len(log) : i < j => log[i] < log[j])
           => \A k, m \in 1 .. Len(b) : k < m => b[k] < b[m]
  <2>1. IsBatch(log_since(next_log_seq[p]), next_log_seq[p])
    BY <1>0, <1>1, BatchEntries
  <2>2. IsBatch(b, next_log_seq[p])
    BY <1>17, <2>1, Zenon
  <2> QED
    BY <2>2, Zenon DEF IsBatch
<1>4. /\ f \in Seq(Seqs)
      /\ \A k \in 1 .. Len(f) : f[k] > lastSeq[p] /\ \E i \in 1 .. Len(b) : f[k] = b[i]
      /\ \A k, m \in 1 .. Len(f) : k < m => f[k] < f[m]
      /\ \A i \in 1 .. Len(b) : b[i] > lastSeq[p] => \E k \in 1 .. Len(f) : b[i] <= f[k]
      /\ (\A i, j \in 1 .. Len(b) : i < j => b[i] < b[j])
           => \A i \in 1 .. Len(b) : b[i] > lastSeq[p] => \E k \in 1 .. Len(f) : f[k] = b[i]
  <2>1. b \in Seq(Seqs) /\ lastSeq[p] \in Int
    BY <1>1, <1>3
  <2>2. IsFresh(Fresh(b, lastSeq[p]), b, lastSeq[p])
    BY <2>1, FreshEntries
  <2>3. IsFresh(f, b, lastSeq[p])
    BY <1>16, <2>2, Zenon
  <2> QED
    BY <2>3, Zenon DEF IsFresh
<1>5. /\ Len(b) \in Nat /\ Len(f) \in Nat
      /\ \A k \in 1 .. Len(b) : b[k] \in Seqs /\ b[k] \in Int
      /\ \A k \in 1 .. Len(f) : f[k] \in Seqs /\ f[k] \in Int
  <2>1. b \in Seq(Seqs) /\ f \in Seq(Seqs)
    BY <1>3, <1>4
  <2> QED
    BY <2>1, SeqsEntries
<1>6. top = IF Len(f) = 0 THEN lastSeq[p] ELSE f[Len(f)]
  BY <1>4, <1>18 DEF Last
<1>7. Len(f) # 0 => Len(f) \in 1 .. Len(f)
  BY <1>5
<1>8. /\ top \in Seqs \cup {-1} /\ top \in Int /\ lastSeq[p] <= top
  <2>1. CASE Len(f) = 0
    BY <1>1, <1>6, <2>1
  <2>2. CASE Len(f) # 0
    <3>1. /\ f[Len(f)] \in Seqs /\ f[Len(f)] \in Int /\ f[Len(f)] > lastSeq[p]
          /\ top = f[Len(f)]
      BY <1>4, <1>5, <1>6, <1>7, <2>2
    <3> QED
      BY <1>1, <3>1
  <2> QED
    BY <2>1, <2>2
<1>9. ASSUME NEW k \in 1 .. Len(f) PROVE f[k] <= top
  <2>1. Len(f) # 0 /\ Len(f) \in 1 .. Len(f) /\ (k = Len(f) \/ k < Len(f))
    BY <1>5
  <2>2. k = Len(f) \/ f[k] < f[Len(f)]
    BY <1>4, <2>1
  <2> QED
    BY <1>5, <1>6, <2>1, <2>2
<1>10. ASSUME NEW k \in 1 .. Len(b) PROVE b[k] <= top
  <2>1. CASE b[k] > lastSeq[p]
    <3>1. PICK m \in 1 .. Len(f) : b[k] <= f[m]
      BY <1>4, <2>1
    <3> QED
      BY <1>5, <1>8, <1>9, <3>1
  <2>2. CASE ~(b[k] > lastSeq[p])
    BY <1>1, <1>5, <1>8, <2>2
  <2> QED
    BY <2>1, <2>2
<1>11. c = IF Len(b) = 0 THEN next_log_seq[p] ELSE b[Len(b)] + 1
  BY <1>3, <1>19 DEF Cursor, Last
<1>12. c \in 0 .. MaxSeq /\ c <= top + 1 /\ c <= log_seq
  <2>1. CASE Len(b) = 0
    BY <1>1, <1>8, <1>11, <2>1
  <2>2. CASE Len(b) # 0
    <3>1. Len(b) \in 1 .. Len(b) /\ c = b[Len(b)] + 1
      BY <1>5, <1>11, <2>2
    <3>2. b[Len(b)] <= top /\ b[Len(b)] \in Seqs /\ b[Len(b)] \in Int
      BY <1>5, <1>10, <3>1
    <3>3. b[Len(b)] < log_seq
      BY <1>3, <3>1, RingPushed
    <3>4. b[Len(b)] + 1 \in 0 .. MaxSeq
      BY <3>2, SeqNumbers
    <3> QED
      BY <1>1, <1>8, <3>1, <3>2, <3>3, <3>4
  <2> QED
    BY <2>1, <2>2
<1>13. \A k \in 1 .. Len(f) : \E i \in 1 .. Len(log) : f[k] = log[i]
  BY <1>3, <1>4
<1>14. ASSUME InOrder, NEW i \in 1 .. Len(log), log[i] > lastSeq[p]
       PROVE  \E k \in 1 .. Len(f) : f[k] = log[i]
  <2>1. log[i] \in Int
    BY RingPushed, SeqNumbers
  <2>2. log[i] >= next_log_seq[p]
    BY <1>1, <1>14, <2>1
  <2>3. PICK m \in 1 .. Len(b) : b[m] = log[i]
    BY <1>3, <2>2
  <2>4. \A k, l \in 1 .. Len(b) : k < l => b[k] < b[l]
    BY <1>3, <1>14, RingInOrder
  <2> QED
    BY <1>4, <1>14, <2>3, <2>4
<1>15. f \in Seq(Seqs) /\ top \in Seqs \cup {-1} /\ c \in 0 .. MaxSeq
  BY <1>4, <1>8, <1>12
<1>20. ShownNext(p, f)
  BY <1>2, <1>4, <1>5 DEF ShownNext
<1> QED
  BY <1>2, <1>4, <1>6, <1>8, <1>9, <1>12, <1>13, <1>14, <1>15, <1>20

(* PageFollows in parts: the cursors; the origin, the order and the end of *)
(* what the page took, and that it is complete; and its table.             *)
PageCursors(p) == next_log_seq[p] <= lastSeq[p] + 1 /\ mark[p] <= log_seq
PageRows(p) ==
  \A i \in 1 .. Len(taken[p]) :
    /\ taken[p][i].seq <= lastSeq[p] /\ taken[p][i].run <= run
    /\ taken[p][i].run = run => Contains(pushed, taken[p][i].seq)
PageOrder(p) ==
  \A i, j \in 1 .. Len(taken[p]) : i < j => taken[p][i].seq < taken[p][j].seq
PageEnd(p) ==
  lastSeq[p] # -1 => taken[p] # <<>> /\ taken[p][Len(taken[p])].seq = lastSeq[p]
PageComplete(p) ==
  InOrder /\ SameRun(p) =>
    \A i \in 1 .. Len(log) : log[i] <= lastSeq[p] =>
      Contains(taken[p], Entry(log[i]))
PageKeeps(p) ==
  \A i \in 1 .. Len(taken[p]) :
    taken[p][i] \in expired[p] \/ Contains(shown[p], taken[p][i])
PageTable(p) ==
  \A i \in 1 .. Len(shown[p]) :
    /\ Contains(taken[p], shown[p][i])
    /\ \A j \in 1 .. Len(shown[p]) :
         i < j => shown[p][i].seq < shown[p][j].seq

(* What it took, and what it shows of that.                                *)
PageTaken(p) ==
  /\ PageCursors(p) /\ PageRows(p) /\ PageOrder(p)
  /\ PageEnd(p) /\ PageComplete(p)

(* The parts are the whole.                                                *)
LEMMA PageParts ==
  \A p \in Pages : PageFollows(p) <=> PageTaken(p) /\ PageKeeps(p) /\ PageTable(p)
BY Zenon
   DEF PageFollows, PageTaken, PageCursors, PageRows, PageOrder, PageEnd,
       PageComplete, PageKeeps, PageTable

(* The same for the state after a step.                                    *)
LEMMA PagePartsNext ==
  \A p \in Pages :
    PageFollows(p)' <=> PageTaken(p)' /\ PageKeeps(p)' /\ PageTable(p)'
BY Zenon
   DEF PageFollows, PageTaken, PageCursors, PageRows, PageOrder, PageEnd,
       PageComplete, PageKeeps, PageTable

(* A page whose table and whose server's log stay as they are.             *)
LEMMA PageKept ==
  ASSUME NEW q \in Pages, PageFollows(q), UNCHANGED <<run, log, pushed>>,
         lastSeq'[q] = lastSeq[q], taken'[q] = taken[q], shown'[q] = shown[q],
         expired'[q] = expired[q], PageCursors(q)'
  PROVE  PageFollows(q)'
<1>1. /\ PageRows(q) /\ PageOrder(q) /\ PageEnd(q) /\ PageComplete(q)
      /\ PageKeeps(q) /\ PageTable(q)
  BY PageParts DEF PageTaken
<1>2. run' = run /\ log' = log /\ pushed' = pushed
  OBVIOUS
<1>3. PageRows(q)'
  BY <1>1, <1>2 DEF PageRows, Contains
<1>4. PageOrder(q)'
  BY <1>1 DEF PageOrder
<1>5. PageEnd(q)'
  BY <1>1 DEF PageEnd
<1>6. PageComplete(q)'
  BY <1>1, <1>2 DEF PageComplete, InOrder, SameRun, Contains, Entry
<1>7. PageKeeps(q)' /\ PageTable(q)'
  BY <1>1 DEF PageKeeps, PageTable, Contains
<1> QED
  BY <1>3, <1>4, <1>5, <1>6, <1>7, PagePartsNext DEF PageTaken

(* What a page holds has its type.                                         *)
LEMMA PageValues ==
  ASSUME PageTypes, NEW p \in Pages
  PROVE  /\ lastSeq[p] \in Seqs \cup {-1} /\ lastSeq[p] \in Int
         /\ taken[p] \in Seq(Entries) /\ Len(taken[p]) \in Nat
         /\ shown[p] \in Seq(Entries) /\ Len(shown[p]) \in Nat
         /\ \A i \in 1 .. Len(taken[p]) :
              /\ taken[p][i].seq \in Seqs /\ taken[p][i].seq \in Int
              /\ taken[p][i].run \in Int
         /\ run \in Int /\ run \in 1 .. MaxRuns
<1>0. shown[p] \in Seq(Entries) /\ Len(shown[p]) \in Nat
  BY DEF PageTypes
<1>1. lastSeq[p] \in Seqs \cup {-1} /\ taken[p] \in Seq(Entries) /\ run \in 1 .. MaxRuns
  BY DEF PageTypes
<1>2. lastSeq[p] \in Int /\ MaxRuns \in Nat
  BY <1>1, SeqNumbers
<1>3. run \in Int
  BY <1>1, <1>2
<1>4. Len(taken[p]) \in Nat /\ \A i \in 1 .. Len(taken[p]) : taken[p][i] \in Entries
  BY <1>1
<1>5. \A i \in 1 .. Len(taken[p]) :
        taken[p][i].seq \in Seqs /\ taken[p][i].run \in 1 .. MaxRuns
  BY <1>4, SeqNumbers
<1>6. ASSUME NEW i \in 1 .. Len(taken[p])
      PROVE  taken[p][i].seq \in Int /\ taken[p][i].run \in Int
  <2>1. taken[p][i].seq \in Seqs /\ taken[p][i].run \in 1 .. MaxRuns
    BY <1>5
  <2>2. Seqs \subseteq Int /\ 1 .. MaxRuns \subseteq Int
    BY <1>2, SeqNumbers
  <2> QED
    BY <2>1, <2>2
<1> QED
  BY <1>0, <1>1, <1>2, <1>3, <1>4, <1>5, <1>6

(* A task takes a number: the pages do not notice.                         *)
LEMMA TakeSeqPages ==
  ASSUME LogServerInv, PagesInv, NEW t \in Loggers, TakeSeq(t)
  PROVE  PagesInv'
<1>1. /\ UNCHANGED <<run, log, pushed, stream, next_log_seq, lastSeq, shown, expired,
                  taken, mark>>
      /\ log_seq' = log_seq + 1
  BY DEF TakeSeq, pages
<1>2. PageTypes' /\ CursorBehind'
  BY <1>1 DEF PagesInv, PageTypes, CursorBehind
<1>3. ASSUME NEW p \in Pages PROVE PageFollows(p)'
  <2>1. PageFollows(p) /\ PageCursors(p) /\ PageTypes
    BY PageParts DEF PagesInv, PageTaken
  <2>2. log_seq \in Int /\ mark[p] \in Int
    BY <2>1, SeqNumbers DEF LogServerInv, LogTypes, PageTypes
  <2>3. PageCursors(p)'
    BY <1>1, <2>1, <2>2 DEF PageCursors
  <2> QED
    BY <1>1, <2>1, <2>3, PageKept
<1> QED
  BY <1>2, <1>3 DEF PagesInv

(* A page connects, or its stream breaks.                                  *)
LEMMA StreamPages ==
  ASSUME LogServerInv, PagesInv, NEW p \in Pages, Connect(p) \/ Disconnect(p)
  PROVE  PagesInv'
<1>0. /\ PageTypes /\ CursorBehind /\ log_seq \in 0 .. MaxSeq /\ MaxSeq \in Nat
      /\ \A q \in Pages : /\ next_log_seq[q] \in Int /\ mark[q] \in Int
                          /\ lastSeq[q] \in Int /\ lastSeq[q] >= -1
                          /\ PageFollows(q) /\ PageCursors(q)
  <2>1. /\ PageTypes /\ CursorBehind /\ log_seq \in 0 .. MaxSeq /\ MaxSeq \in Nat
        /\ \A q \in Pages : PageFollows(q)
    BY SeqNumbers DEF PagesInv, LogServerInv, LogTypes
  <2>2. ASSUME NEW q \in Pages
        PROVE  /\ next_log_seq[q] \in Int /\ mark[q] \in Int
               /\ lastSeq[q] \in Int /\ lastSeq[q] >= -1
    <3>1. /\ next_log_seq[q] \in 0 .. MaxSeq /\ mark[q] \in 0 .. MaxSeq
          /\ lastSeq[q] \in Seqs \cup {-1}
      BY <2>1 DEF PageTypes
    <3>2. lastSeq[q] \in Int /\ lastSeq[q] >= -1
      BY <3>1, SeqNumbers
    <3> QED
      BY <2>1, <3>1, <3>2
  <2>3. \A q \in Pages : PageCursors(q)
    BY <2>1, PageParts DEF PageTaken
  <2> QED
    BY <2>1, <2>2, <2>3
<1>1. UNCHANGED <<run, log_seq, log, pushed, lastSeq, shown, expired, taken>>
  BY DEF Connect, Disconnect, server
<1>2. /\ PageTypes'
      /\ \A q \in Pages : /\ stream'[q] => next_log_seq'[q] <= mark'[q]
                          /\ next_log_seq'[q] <= lastSeq[q] + 1 /\ mark'[q] <= log_seq
  <2>1. CASE Connect(p)
    <3>1. /\ stream' = [stream EXCEPT ![p] = TRUE]
          /\ next_log_seq' = [next_log_seq EXCEPT ![p] = 0]
          /\ mark' = [mark EXCEPT ![p] = log_seq]
      BY <2>1 DEF Connect
    <3>2. 0 \in 0 .. MaxSeq
      BY <1>0
    <3>3. PageTypes'
      BY <1>0, <1>1, <3>1, <3>2 DEF PageTypes
    <3>4. /\ stream'[p] = TRUE /\ next_log_seq'[p] = 0 /\ mark'[p] = log_seq
          /\ \A q \in Pages \ {p} : /\ stream'[q] = stream[q] /\ mark'[q] = mark[q]
                                    /\ next_log_seq'[q] = next_log_seq[q]
      BY <1>0, <3>1 DEF PageTypes
    <3>5. \A q \in Pages \ {p} : /\ stream[q] => next_log_seq[q] <= mark[q]
                                 /\ next_log_seq[q] <= lastSeq[q] + 1 /\ mark[q] <= log_seq
      BY <1>0 DEF CursorBehind, PageCursors
    <3>6. 0 <= log_seq /\ 0 <= lastSeq[p] + 1 /\ log_seq <= log_seq
      BY <1>0
    <3> QED
      BY <3>3, <3>4, <3>5, <3>6
  <2>2. CASE Disconnect(p)
    <3>1. /\ stream' = [stream EXCEPT ![p] = FALSE]
          /\ UNCHANGED <<next_log_seq, mark>>
      BY <2>2 DEF Disconnect
    <3>2. PageTypes'
      BY <1>0, <1>1, <3>1 DEF PageTypes
    <3>3. \A q \in Pages : stream'[q] => stream[q]
      BY <1>0, <3>1 DEF PageTypes
    <3> QED
      BY <1>0, <3>1, <3>2, <3>3 DEF CursorBehind, PageCursors
  <2> QED
    BY <2>1, <2>2
<1>3. ASSUME NEW q \in Pages PROVE PageFollows(q)'
  <2>1. PageCursors(q)'
    BY <1>1, <1>2 DEF PageCursors
  <2> QED
    BY <1>0, <1>1, <2>1, PageKept
<1> QED
  BY <1>2, <1>3 DEF PagesInv, CursorBehind

(* What the ring holds after a push it held before, or was just pushed.    *)
LEMMA RingAfterPush ==
  ASSUME LogServerInv, NEW t \in Loggers, PushEntry(t)
  PROVE  \A i \in 1 .. Len(log') :
           log'[i] = held[t] \/ \E j \in 1 .. Len(log) : log'[i] = log[j]
<1>1. PICK x \in Seqs : x = held[t]
  BY DEF PushEntry, LogServerInv, LogTypes
<1>2. log' = Append(Kept(log), x) /\ log \in Seq(Seqs)
  BY <1>1 DEF PushEntry, LogServerInv, LogTypes
<1>3. /\ Kept(log) \in Seq(Seqs)
      /\ \A i \in 1 .. Len(Kept(log)) : \E j \in 1 .. Len(log) : Kept(log)[i] = log[j]
  <2>1. CASE Len(log) >= LogCap
    <3>1. Kept(log) = Tail(log) /\ Len(log) > 0
      BY <1>2, <2>1, LogAssumption DEF Kept
    <3>2. /\ Tail(log) \in Seq(Seqs) /\ Len(log) \in Nat \ {0}
          /\ Len(Tail(log)) = Len(log) - 1
          /\ \A i \in 1 .. Len(log) - 1 : Tail(log)[i] = log[i + 1]
      BY <1>2, <3>1, TailEntries
    <3>3. \A i \in 1 .. Len(log) - 1 : i + 1 \in 1 .. Len(log)
      BY <3>2
    <3> QED
      BY <3>1, <3>2, <3>3
  <2>2. CASE ~(Len(log) >= LogCap)
    BY <1>2, <2>2 DEF Kept
  <2> QED
    BY <2>1, <2>2
<1>4. PICK k : k = Kept(log)
  OBVIOUS
<1>5. /\ Len(log') = Len(k) + 1 /\ Len(k) \in Nat
      /\ \A i \in 1 .. Len(k) + 1 : log'[i] = IF i = Len(k) + 1 THEN x ELSE k[i]
  BY <1>2, <1>3, <1>4, AppendEntries
<1>6. \A i \in 1 .. Len(k) + 1 : i = Len(k) + 1 \/ i \in 1 .. Len(k)
  BY <1>5
<1> QED
  BY <1>1, <1>3, <1>4, <1>5, <1>6

(* A task pushes its entry.  It is above what a page shows of this run if  *)
(* everything was pushed in order, so the page does not count as complete  *)
(* without it.                                                             *)
LEMMA PushEntryPages ==
  ASSUME LogServerInv, PagesInv, NEW t \in Loggers, PushEntry(t)
  PROVE  PagesInv'
<1>1. UNCHANGED <<run, log_seq, stream, next_log_seq, lastSeq, shown, expired,
                  taken, mark>>
  BY DEF PushEntry, pages
<1>2. PageTypes' /\ CursorBehind'
  BY <1>1 DEF PagesInv, PageTypes, CursorBehind
<1>3. PICK x \in Seqs : x = held[t] /\ x \in Int /\ x >= 0
  BY SeqNumbers DEF PushEntry, LogServerInv, LogTypes
<1>4. /\ Len(pushed) \in Nat /\ Len(pushed') = Len(pushed) + 1
      /\ \A i \in 1 .. Len(pushed) + 1 :
           pushed'[i] = IF i = Len(pushed) + 1 THEN x ELSE pushed[i]
  <2>1. pushed' = Append(pushed, x) /\ pushed \in Seq(Seqs)
    BY <1>3 DEF PushEntry, LogServerInv, LogTypes
  <2> QED
    BY <2>1, AppendEntries
<1>5. /\ \A i \in 1 .. Len(pushed) : i \in 1 .. Len(pushed') /\ pushed'[i] = pushed[i]
      /\ Len(pushed) + 1 \in 1 .. Len(pushed') /\ pushed'[Len(pushed) + 1] = x
      /\ \A i \in 1 .. Len(pushed) : i < Len(pushed) + 1
  BY <1>4
<1>6. InOrder' => InOrder /\ \A i \in 1 .. Len(pushed) : pushed[i] < x
  BY <1>5 DEF InOrder
<1>7. ASSUME NEW p \in Pages PROVE PageFollows(p)'
  <2>0. /\ PageTypes /\ PageCursors(p) /\ PageRows(p) /\ PageOrder(p)
        /\ PageEnd(p) /\ PageComplete(p) /\ PageKeeps(p) /\ PageTable(p)
    BY PageParts DEF PagesInv, PageTaken
  <2>1. PageCursors(p)' /\ PageOrder(p)' /\ PageEnd(p)'
    BY <1>1, <2>0 DEF PageCursors, PageOrder, PageEnd
  <2>5. PageKeeps(p)' /\ PageTable(p)'
    BY <1>1, <2>0 DEF PageKeeps, PageTable, Contains
  <2>2. PageRows(p)'
    BY <1>1, <1>5, <2>0 DEF PageRows, Contains
  <2>3. ASSUME InOrder', SameRun(p)', NEW i \in 1 .. Len(log'), log'[i] <= lastSeq[p]
        PROVE  Contains(taken[p], [run |-> run, seq |-> log'[i]])
    <3>1. InOrder /\ SameRun(p) /\ \A k \in 1 .. Len(pushed) : pushed[k] < x
      BY <1>1, <1>6, <2>3 DEF SameRun
    <3>2. /\ lastSeq[p] \in Int /\ Len(taken[p]) \in Nat
      BY <2>0, PageValues
    <3>3. lastSeq[p] < x
      <4>1. CASE lastSeq[p] = -1
        BY <1>3, <4>1
      <4>2. CASE lastSeq[p] # -1
        <5>1. taken[p] # <<>> /\ taken[p][Len(taken[p])].seq = lastSeq[p]
          BY <2>0, <4>2 DEF PageEnd
        <5>2. taken[p] \in Seq(Entries)
          BY <2>0 DEF PageTypes
        <5>3. Len(taken[p]) \in 1 .. Len(taken[p])
          BY <5>1, <5>2
        <5>4. taken[p][Len(taken[p])].run = run
          BY <3>1, <5>3 DEF SameRun
        <5>5. Contains(pushed, lastSeq[p])
          BY <2>0, <5>1, <5>3, <5>4 DEF PageRows
        <5> QED
          BY <3>1, <5>5 DEF Contains
      <4> QED
        BY <4>1, <4>2
    <3>4. log'[i] # x
      BY <1>3, <2>3, <3>2, <3>3
    <3>5. PICK j \in 1 .. Len(log) : log'[i] = log[j]
      BY <1>3, <3>4, RingAfterPush
    <3>6. Contains(taken[p], [run |-> run, seq |-> log[j]])
      BY <2>0, <2>3, <3>1, <3>5 DEF PageComplete, Entry
    <3> QED
      BY <3>5, <3>6
  <2>4. PageComplete(p)'
    BY <1>1, <2>3 DEF PageComplete, Entry
  <2> QED
    BY <2>1, <2>2, <2>4, <2>5, PagePartsNext DEF PageTaken
<1> QED
  BY <1>2, <1>7 DEF PagesInv

(* The proxy restarts: nothing a page shows is of the new run.             *)
LEMMA RestartPages ==
  ASSUME PagesInv, Restart
  PROVE  PagesInv'
<1>1. /\ run < MaxRuns /\ run' = run + 1 /\ log_seq' = 0 /\ log' = <<>> /\ pushed' = <<>>
      /\ stream' = [p \in Pages |-> FALSE] /\ mark' = [p \in Pages |-> 0]
      /\ UNCHANGED <<next_log_seq, lastSeq, shown, expired, taken>>
  BY DEF Restart
<1>2. PageTypes /\ MaxSeq \in Nat /\ MaxRuns \in Nat /\ run \in 1 .. MaxRuns
  BY SeqNumbers DEF PagesInv, PageTypes
<1>3. run' \in 1 .. MaxRuns /\ 0 \in 0 .. MaxSeq
  BY <1>1, <1>2
<1>4. PageTypes' /\ CursorBehind'
  BY <1>1, <1>2, <1>3 DEF PageTypes, CursorBehind
<1>5. ASSUME NEW p \in Pages PROVE PageFollows(p)'
  <2>0. /\ PageCursors(p) /\ PageRows(p) /\ PageOrder(p) /\ PageEnd(p)
        /\ PageKeeps(p) /\ PageTable(p)
    BY PageParts DEF PagesInv, PageTaken
  <2>5. PageKeeps(p)' /\ PageTable(p)'
    BY <1>1, <2>0 DEF PageKeeps, PageTable, Contains
  <2>1. mark'[p] = 0 /\ mark'[p] <= log_seq'
    BY <1>1
  <2>2. PageCursors(p)' /\ PageOrder(p)' /\ PageEnd(p)'
    BY <1>1, <2>0, <2>1 DEF PageCursors, PageOrder, PageEnd
  <2>3. PageRows(p)'
    <3>1. ASSUME NEW i \in 1 .. Len(taken[p])
          PROVE  /\ taken[p][i].seq <= lastSeq[p] /\ taken[p][i].run <= run'
                 /\ taken[p][i].run # run'
      <4>1. taken[p][i].run \in Int /\ run \in Int
        BY <1>2, PageValues
      <4>2. taken[p][i].seq <= lastSeq[p] /\ taken[p][i].run <= run
        BY <2>0 DEF PageRows
      <4> QED
        BY <1>1, <4>1, <4>2
    <3> QED
      BY <1>1, <3>1 DEF PageRows
  <2>4. PageComplete(p)'
    BY <1>1 DEF PageComplete
  <2> QED
    BY <2>2, <2>3, <2>4, <2>5, PagePartsNext DEF PageTaken
<1> QED
  BY <1>4, <1>5 DEF PagesInv

(* The entries of t are those of sh and then those of f, of the run r.     *)
HasParts(t, sh, f, r) ==
  /\ \A i \in 1 .. Len(t) :
       \/ i \in 1 .. Len(sh) /\ t[i] = sh[i]
       \/ \E k \in 1 .. Len(f) :
            i = Len(sh) + k /\ t[i] = [run |-> r, seq |-> f[k]]
  /\ \A i \in 1 .. Len(sh) : i \in 1 .. Len(t) /\ t[i] = sh[i]
  /\ \A k \in 1 .. Len(f) : /\ Len(sh) + k \in 1 .. Len(t)
                            /\ t[Len(sh) + k] = [run |-> r, seq |-> f[k]]

(* Where the entries of the longer table are.                              *)
LEMMA GrownEntries ==
  ASSUME NEW t, NEW sh, NEW f, NEW r, IsGrown(t, sh, f, r)
  PROVE  HasParts(t, sh, f, r)
<1>0. /\ Len(sh) \in Nat /\ Len(f) \in Nat /\ Len(t) = Len(sh) + Len(f)
      /\ \A i \in 1 .. Len(sh) : t[i] = sh[i]
      /\ \A k \in 1 .. Len(f) : t[Len(sh) + k] = [run |-> r, seq |-> f[k]]
  BY Zenon DEF IsGrown
<1>1. ASSUME NEW i \in 1 .. Len(t), i \notin 1 .. Len(sh)
      PROVE  \E k \in 1 .. Len(f) :
               i = Len(sh) + k /\ t[i] = [run |-> r, seq |-> f[k]]
  <2>1. PICK k \in 1 .. Len(f) : i = Len(sh) + k
    <3>1. i - Len(sh) \in 1 .. Len(f) /\ i = Len(sh) + (i - Len(sh))
      BY <1>0, <1>1
    <3> QED
      BY <3>1
  <2> QED
    BY <1>0, <2>1
<1>2. /\ \A i \in 1 .. Len(sh) : i \in 1 .. Len(t)
      /\ \A k \in 1 .. Len(f) : Len(sh) + k \in 1 .. Len(t)
  BY <1>0
<1> QED
  BY <1>0, <1>1, <1>2 DEF HasParts

(* What is above every number of a table keeps the table in order.         *)
LEMMA GrownOrder ==
  ASSUME NEW t, NEW sh \in Seq(Entries), NEW f \in Seq(Seqs), NEW r, NEW n \in Int,
         IsGrown(t, sh, f, r),
         \A i, j \in 1 .. Len(sh) : i < j => sh[i].seq < sh[j].seq,
         \A i \in 1 .. Len(sh) : sh[i].seq <= n,
         \A k \in 1 .. Len(f) : f[k] > n,
         \A k, m \in 1 .. Len(f) : k < m => f[k] < f[m]
  PROVE  \A i, j \in 1 .. Len(t) : i < j => t[i].seq < t[j].seq
<1> SUFFICES ASSUME NEW i \in 1 .. Len(t), NEW j \in 1 .. Len(t), i < j
             PROVE  t[i].seq < t[j].seq
  OBVIOUS
<1>0. /\ Len(sh) \in Nat /\ Len(f) \in Nat
      /\ \A k \in 1 .. Len(f) : f[k] \in Int
      /\ \A k \in 1 .. Len(sh) : sh[k].seq \in Int
  <2>1. \A k \in 1 .. Len(sh) : sh[k] \in Entries
    OBVIOUS
  <2> QED
    BY <2>1, SeqNumbers, SeqsEntries
<1>1. \A k \in 1 .. Len(t) :
        \/ k \in 1 .. Len(sh) /\ t[k] = sh[k]
        \/ \E m \in 1 .. Len(f) :
             k = Len(sh) + m /\ t[k] = [run |-> r, seq |-> f[m]]
  <2>1. HasParts(t, sh, f, r)
    BY GrownEntries, Zenon
  <2> QED
    BY <2>1, Zenon DEF HasParts
<1>2. CASE i \in 1 .. Len(sh) /\ t[i] = sh[i] /\ j \in 1 .. Len(sh) /\ t[j] = sh[j]
  BY <1>2
<1>3. ASSUME i \in 1 .. Len(sh), t[i] = sh[i], NEW m \in 1 .. Len(f),
             t[j] = [run |-> r, seq |-> f[m]]
      PROVE  t[i].seq < t[j].seq
  <2>1. t[i].seq = sh[i].seq /\ t[j].seq = f[m]
    BY <1>3
  <2>2. sh[i].seq <= n /\ f[m] > n /\ sh[i].seq \in Int /\ f[m] \in Int
    BY <1>0, <1>3
  <2> QED
    BY <2>1, <2>2
<1>4. ASSUME NEW k \in 1 .. Len(f), i = Len(sh) + k, t[i] = [run |-> r, seq |-> f[k]],
             NEW m \in 1 .. Len(f), j = Len(sh) + m, t[j] = [run |-> r, seq |-> f[m]]
      PROVE  t[i].seq < t[j].seq
  <2>1. t[i].seq = f[k] /\ t[j].seq = f[m]
    BY <1>4
  <2>2. k < m
    BY <1>0, <1>4
  <2> QED
    BY <2>1, <2>2
<1>5. ~(j \in 1 .. Len(sh) /\ \E k \in 1 .. Len(f) : i = Len(sh) + k)
  BY <1>0
<1> QED
  BY <1>1, <1>2, <1>3, <1>4, <1>5

(* What a turn of the stream makes of the table: nothing is in it that the *)
(* page did not take, nothing is missing that is not too old.              *)
LEMMA TickWindow ==
  ASSUME PageTypes, NEW p \in Pages,
         PageRows(p), PageKeeps(p), PageTable(p),
         NEW f \in Seq(Seqs), ShownNext(p, f),
         \A k \in 1 .. Len(f) : f[k] > lastSeq[p],
         \A k, m \in 1 .. Len(f) : k < m => f[k] < f[m],
         taken' = [taken EXCEPT ![p] = Grown(taken[p], f, run)]
  PROVE  /\ shown' \in [Pages -> Seq(Entries)]
         /\ expired' \in [Pages -> SUBSET Entries]
         /\ PageKeeps(p)' /\ PageTable(p)'
         /\ Len(f) # 0 =>
              \A i \in 1 .. Len(shown'[p]) : shown'[p][i] \notin expired'[p]
         /\ \A q \in Pages \ {p} :
              shown'[q] = shown[q] /\ expired'[q] = expired[q]
<1>0. /\ shown \in [Pages -> Seq(Entries)] /\ expired \in [Pages -> SUBSET Entries]
      /\ taken \in [Pages -> Seq(Entries)] /\ run \in 1 .. MaxRuns
      /\ shown[p] \in Seq(Entries) /\ taken[p] \in Seq(Entries)
      /\ lastSeq[p] \in Int
  BY PageValues DEF PageTypes
<1>1. PICK T : T = taken'[p] /\ IsGrown(T, taken[p], f, run)
  BY <1>0, ShownGrows
<1>2. /\ \A i \in 1 .. Len(T) :
           \/ i \in 1 .. Len(taken[p]) /\ T[i] = taken[p][i]
           \/ \E k \in 1 .. Len(f) :
                i = Len(taken[p]) + k /\ T[i] = [run |-> run, seq |-> f[k]]
      /\ \A i \in 1 .. Len(taken[p]) : i \in 1 .. Len(T) /\ T[i] = taken[p][i]
      /\ \A k \in 1 .. Len(f) : /\ Len(taken[p]) + k \in 1 .. Len(T)
                                /\ T[Len(taken[p]) + k] = [run |-> run, seq |-> f[k]]
  <2>1. HasParts(T, taken[p], f, run)
    BY <1>1, GrownEntries
  <2> QED
    BY <2>1, Zenon DEF HasParts
<1>3. \A i \in 1 .. Len(shown[p]) :
        /\ \E j \in 1 .. Len(taken[p]) : taken[p][j] = shown[p][i]
        /\ shown[p][i].seq <= lastSeq[p]
  <2>1. ASSUME NEW i \in 1 .. Len(shown[p])
        PROVE  /\ \E j \in 1 .. Len(taken[p]) : taken[p][j] = shown[p][i]
               /\ shown[p][i].seq <= lastSeq[p]
    <3>1. PICK j \in 1 .. Len(taken[p]) : taken[p][j] = shown[p][i]
      BY DEF PageTable, Contains
    <3>2. taken[p][j].seq <= lastSeq[p]
      BY DEF PageRows
    <3> QED
      BY <3>1, <3>2
  <2> QED
    BY <2>1
<1>4. CASE Len(f) = 0
  <2>1. UNCHANGED <<shown, expired>>
    BY <1>4 DEF ShownNext
  <2>2. PageKeeps(p)'
    <3>1. ASSUME NEW i \in 1 .. Len(T)
          PROVE  T[i] \in expired[p] \/ \E j \in 1 .. Len(shown[p]) : shown[p][j] = T[i]
      <4>1. i \in 1 .. Len(taken[p]) /\ T[i] = taken[p][i]
        BY <1>2, <1>4
      <4> QED
        BY <4>1 DEF PageKeeps, Contains
    <3> QED
      BY <1>1, <2>1, <3>1 DEF PageKeeps, Contains
  <2>3. PageTable(p)'
    <3>1. ASSUME NEW i \in 1 .. Len(shown[p])
          PROVE  \E j \in 1 .. Len(T) : T[j] = shown[p][i]
      BY <1>2, <1>3
    <3> QED
      BY <1>1, <2>1, <3>1 DEF PageTable, Contains
  <2> QED
    BY <1>0, <1>4, <2>1, <2>2, <2>3
<1>5. CASE Len(f) # 0
  <2>1. PICK W : W = Grown(shown[p], f, run) /\ IsGrown(W, shown[p], f, run)
    BY <1>0, ShownGrows
  <2>2. PICK old \in SUBSET ToSet(W) :
          /\ expired' = [expired EXCEPT ![p] = expired[p] \cup old]
          /\ shown' = [shown EXCEPT ![p] = InWindow(W, expired'[p])]
    BY <1>5, <2>1 DEF ShownNext, Expire
  <2>3. W \in Seq(Entries)
    BY <2>1, Zenon DEF IsGrown
  <2>4. PICK V : V = shown'[p] /\ IsWindow(V, W, expired'[p])
    <3>1. shown'[p] = InWindow(W, expired'[p])
      BY <1>0, <2>2
    <3> QED
      BY <2>3, <3>1, WindowKeeps
  <2>5. /\ V \in Seq(Entries)
        /\ \A k \in 1 .. Len(V) : /\ V[k] \notin expired'[p]
                                  /\ \E i \in 1 .. Len(W) : V[k] = W[i]
        /\ \A i \in 1 .. Len(W) :
             W[i] \notin expired'[p] => \E k \in 1 .. Len(V) : V[k] = W[i]
        /\ (\A i, j \in 1 .. Len(W) : i < j => W[i].seq < W[j].seq)
             => \A k, m \in 1 .. Len(V) : k < m => V[k].seq < V[m].seq
    BY <2>4, Zenon DEF IsWindow
  <2>6. /\ \A i \in 1 .. Len(W) :
             \/ i \in 1 .. Len(shown[p]) /\ W[i] = shown[p][i]
             \/ \E k \in 1 .. Len(f) :
                  i = Len(shown[p]) + k /\ W[i] = [run |-> run, seq |-> f[k]]
        /\ \A i \in 1 .. Len(shown[p]) : i \in 1 .. Len(W) /\ W[i] = shown[p][i]
        /\ \A k \in 1 .. Len(f) :
             /\ Len(shown[p]) + k \in 1 .. Len(W)
             /\ W[Len(shown[p]) + k] = [run |-> run, seq |-> f[k]]
    <3>1. HasParts(W, shown[p], f, run)
      BY <2>1, GrownEntries
    <3> QED
      BY <3>1, Zenon DEF HasParts
  <2>7. \A i, j \in 1 .. Len(W) : i < j => W[i].seq < W[j].seq
    <3>1. \A i, j \in 1 .. Len(shown[p]) : i < j => shown[p][i].seq < shown[p][j].seq
      BY DEF PageTable
    <3> QED
      BY <1>0, <1>3, <2>1, <3>1, GrownOrder
  <2>8. /\ expired'[p] = expired[p] \cup old
        /\ \A q \in Pages \ {p} : shown'[q] = shown[q] /\ expired'[q] = expired[q]
    BY <1>0, <2>2
  <2>9. old \subseteq Entries
    BY <2>3 DEF ToSet
  <2>10. /\ shown' \in [Pages -> Seq(Entries)]
         /\ expired' \in [Pages -> SUBSET Entries]
    <3>1. shown' = [shown EXCEPT ![p] = V]
      BY <1>0, <2>2, <2>4
    <3> QED
      BY <1>0, <2>2, <2>5, <2>9, <3>1
  <2>11. PageKeeps(p)'
    <3>1. ASSUME NEW i \in 1 .. Len(T)
          PROVE  T[i] \in expired'[p] \/ \E j \in 1 .. Len(V) : V[j] = T[i]
      <4>1. T[i] \in expired[p] \/ \E j \in 1 .. Len(W) : W[j] = T[i]
        <5>1. CASE i \in 1 .. Len(taken[p]) /\ T[i] = taken[p][i]
          <6>1. T[i] \in expired[p] \/ \E j \in 1 .. Len(shown[p]) : shown[p][j] = T[i]
            BY <5>1 DEF PageKeeps, Contains
          <6> QED
            BY <2>6, <6>1
        <5>2. CASE \E k \in 1 .. Len(f) : T[i] = [run |-> run, seq |-> f[k]]
          BY <2>6, <5>2
        <5> QED
          BY <1>2, <5>1, <5>2
      <4> QED
        BY <2>5, <2>8, <4>1
    <3> QED
      BY <1>1, <2>4, <3>1 DEF PageKeeps, Contains
  <2>12. PageTable(p)'
    <3>1. ASSUME NEW k \in 1 .. Len(V)
          PROVE  \E j \in 1 .. Len(T) : T[j] = V[k]
      <4>1. PICK i \in 1 .. Len(W) : V[k] = W[i]
        BY <2>5
      <4>2. CASE i \in 1 .. Len(shown[p]) /\ W[i] = shown[p][i]
        BY <1>2, <1>3, <4>1, <4>2
      <4>3. CASE \E m \in 1 .. Len(f) : W[i] = [run |-> run, seq |-> f[m]]
        BY <1>2, <4>1, <4>3
      <4> QED
        BY <2>6, <4>2, <4>3
    <3>2. \A k, m \in 1 .. Len(V) : k < m => V[k].seq < V[m].seq
      BY <2>5, <2>7
    <3> QED
      BY <1>1, <2>4, <3>1, <3>2 DEF PageTable, Contains
  <2> QED
    BY <2>4, <2>5, <2>8, <2>10, <2>11, <2>12
<1> QED
  BY <1>4, <1>5

(* What PageIsCurrent asks of one page and one turn of its stream.          *)
TickCurrent(p) ==
  /\ InOrder /\ SameRun(p) =>
       \A i \in 1 .. Len(log) : Entry(log[i]) \notin expired'[p] =>
         Contains(shown'[p], Entry(log[i]))
  /\ lastSeq'[p] # lastSeq[p] =>
       \A i \in 1 .. Len(shown'[p]) :
         shown'[p][i] \notin expired'[p]

(* A turn of a page's stream.  What the page takes is above lastSeq and in *)
(* order; it is the rest of the ring if the ring is in order, and what is  *)
(* not too old of it gets into the table.                                  *)
LEMMA TickPages ==
  ASSUME LogServerInv, PagesInv, NEW p \in Pages, Tick(p)
  PROVE  /\ PagesInv'
         /\ TickCurrent(p)
<1>0. /\ PageTypes /\ CursorBehind /\ \A q \in Pages : PageFollows(q)
      /\ PageCursors(p) /\ PageRows(p) /\ PageOrder(p) /\ PageEnd(p) /\ PageComplete(p)
      /\ PageKeeps(p) /\ PageTable(p)
  BY PageParts DEF PagesInv, PageTaken
<1>1. /\ UNCHANGED <<run, log_seq, log, pushed, stream>>
      /\ mark' = [mark EXCEPT ![p] = log_seq]
  BY DEF Tick, server
<1>2. PICK f \in Seq(Seqs), top \in Seqs \cup {-1}, c \in 0 .. MaxSeq :
           /\ next_log_seq' = [next_log_seq EXCEPT ![p] = c]
           /\ lastSeq' = [lastSeq EXCEPT ![p] = top]
           /\ taken' = [taken EXCEPT ![p] = Grown(taken[p], f, run)]
           /\ ShownNext(p, f)
           /\ c <= top + 1 /\ c <= log_seq /\ lastSeq[p] <= top
           /\ top = IF Len(f) = 0 THEN lastSeq[p] ELSE f[Len(f)]
           /\ \A k \in 1 .. Len(f) : /\ f[k] > lastSeq[p] /\ f[k] <= top
                                     /\ \E i \in 1 .. Len(log) : f[k] = log[i]
           /\ \A k, m \in 1 .. Len(f) : k < m => f[k] < f[m]
           /\ InOrder => \A i \in 1 .. Len(log) :
                log[i] > lastSeq[p] => \E k \in 1 .. Len(f) : f[k] = log[i]
  BY TickFacts
<1>3. /\ lastSeq[p] \in Int /\ taken[p] \in Seq(Entries) /\ Len(taken[p]) \in Nat
      /\ \A i \in 1 .. Len(taken[p]) :
           taken[p][i].seq \in Int /\ taken[p][i].run \in Int
      /\ run \in Int /\ run \in 1 .. MaxRuns
  BY <1>0, PageValues
<1>4. /\ top \in Int /\ Len(f) \in Nat
      /\ \A k \in 1 .. Len(f) : f[k] \in Seqs /\ f[k] \in Int
  <2>1. top \in Int
    BY SeqNumbers
  <2>2. f \in Seq(Seqs)
    BY <1>2
  <2> QED
    BY <2>1, <2>2, SeqsEntries
<1>5. PICK T : T = Grown(taken[p], f, run)
  OBVIOUS
<1>6. /\ T \in Seq(Entries) /\ Len(T) = Len(taken[p]) + Len(f)
      /\ \A i \in 1 .. Len(taken[p]) : T[i] = taken[p][i]
      /\ \A k \in 1 .. Len(f) : T[Len(taken[p]) + k] = [run |-> run, seq |-> f[k]]
  <2>1. f \in Seq(Seqs) /\ taken[p] \in Seq(Entries) /\ run \in 1 .. MaxRuns
    BY <1>2, <1>3
  <2>2. IsGrown(Grown(taken[p], f, run), taken[p], f, run)
    BY <2>1, ShownGrows
  <2>3. IsGrown(T, taken[p], f, run)
    BY <1>5, <2>2, Zenon
  <2> QED
    BY <2>3, Zenon DEF IsGrown
<1>7. /\ taken'[p] = T /\ lastSeq'[p] = top /\ next_log_seq'[p] = c /\ mark'[p] = log_seq
      /\ \A q \in Pages \ {p} :
           /\ taken'[q] = taken[q] /\ lastSeq'[q] = lastSeq[q]
           /\ next_log_seq'[q] = next_log_seq[q] /\ mark'[q] = mark[q]
  <2>1. taken' = [taken EXCEPT ![p] = T]
    BY <1>2, <1>5
  <2> QED
    BY <1>0, <1>1, <1>2, <2>1 DEF PageTypes
<1>21. /\ shown' \in [Pages -> Seq(Entries)]
       /\ expired' \in [Pages -> SUBSET Entries]
       /\ PageKeeps(p)' /\ PageTable(p)'
       /\ Len(f) # 0 =>
            \A i \in 1 .. Len(shown'[p]) : shown'[p][i] \notin expired'[p]
       /\ \A q \in Pages \ {p} :
            shown'[q] = shown[q] /\ expired'[q] = expired[q]
  BY <1>0, <1>2, TickWindow
<1>8. PageTypes'
  <2>1. taken' = [taken EXCEPT ![p] = T]
    BY <1>2, <1>5
  <2>2. taken' \in [Pages -> Seq(Entries)]
    BY <1>0, <1>6, <2>1 DEF PageTypes
  <2>3. mark' \in [Pages -> 0 .. MaxSeq]
    BY <1>0, <1>1 DEF PageTypes, LogServerInv, LogTypes
  <2>4. lastSeq' \in [Pages -> Seqs \cup {-1}] /\ next_log_seq' \in [Pages -> 0 .. MaxSeq]
    BY <1>0, <1>2 DEF PageTypes
  <2> QED
    BY <1>0, <1>1, <1>21, <2>2, <2>3, <2>4 DEF PageTypes
<1>9. CursorBehind'
  BY <1>0, <1>1, <1>2, <1>7 DEF CursorBehind
<1>10. \A i \in 1 .. Len(T) :
         i \in 1 .. Len(taken[p]) \/ \E k \in 1 .. Len(f) : i = Len(taken[p]) + k
  <2> SUFFICES ASSUME NEW i \in 1 .. Len(T), i \notin 1 .. Len(taken[p])
               PROVE  \E k \in 1 .. Len(f) : i = Len(taken[p]) + k
    OBVIOUS
  <2>1. i - Len(taken[p]) \in 1 .. Len(f) /\ i = Len(taken[p]) + (i - Len(taken[p]))
    BY <1>3, <1>4, <1>6
  <2> QED
    BY <2>1
<1>11. /\ \A i \in 1 .. Len(taken[p]) : i \in 1 .. Len(T)
       /\ \A k \in 1 .. Len(f) : Len(taken[p]) + k \in 1 .. Len(T)
  <2>1. Len(taken[p]) \in Nat /\ Len(f) \in Nat /\ Len(T) = Len(taken[p]) + Len(f)
    BY <1>3, <1>4, <1>6
  <2> QED
    BY <2>1
<1>12. \A k \in 1 .. Len(f) : /\ T[Len(taken[p]) + k].seq = f[k]
                              /\ T[Len(taken[p]) + k].run = run
  <2> SUFFICES ASSUME NEW k \in 1 .. Len(f)
               PROVE  /\ T[Len(taken[p]) + k].seq = f[k]
                      /\ T[Len(taken[p]) + k].run = run
    OBVIOUS
  <2>1. T[Len(taken[p]) + k] = [run |-> run, seq |-> f[k]]
    BY <1>6
  <2> QED
    BY <2>1
<1>13. PageCursors(p)'
  <2>1. log_seq \in Int
    BY SeqNumbers DEF LogServerInv, LogTypes
  <2> QED
    BY <1>1, <1>2, <1>7, <2>1 DEF PageCursors
<1>14. PageRows(p)'
  <2>1. ASSUME NEW i \in 1 .. Len(T)
        PROVE  /\ T[i].seq <= top /\ T[i].run <= run
               /\ T[i].run = run => Contains(pushed, T[i].seq)
    <3>1. CASE i \in 1 .. Len(taken[p])
      <4>1. /\ T[i] = taken[p][i] /\ taken[p][i].seq \in Int
            /\ taken[p][i].seq <= lastSeq[p] /\ taken[p][i].run <= run
            /\ taken[p][i].run = run => Contains(pushed, taken[p][i].seq)
        BY <1>0, <1>3, <1>6, <3>1 DEF PageRows
      <4>2. taken[p][i].seq <= top
        BY <1>2, <1>3, <1>4, <4>1
      <4> QED
        BY <4>1, <4>2
    <3>2. ASSUME NEW k \in 1 .. Len(f), i = Len(taken[p]) + k
          PROVE  /\ T[i].seq <= top /\ T[i].run <= run /\ Contains(pushed, T[i].seq)
      <4>1. T[i].seq = f[k] /\ T[i].run = run /\ f[k] <= top
        BY <1>2, <1>12, <3>2
      <4>2. PICK j \in 1 .. Len(log) : f[k] = log[j]
        BY <1>2
      <4>3. Contains(pushed, f[k])
        BY <4>2, RingPushed DEF Contains
      <4> QED
        BY <1>3, <4>1, <4>3
    <3> QED
      BY <1>10, <3>1, <3>2
  <2> QED
    BY <1>1, <1>7, <2>1 DEF PageRows
<1>15. PageOrder(p)'
  <2>1. ASSUME NEW i \in 1 .. Len(T), NEW j \in 1 .. Len(T), i < j
        PROVE  T[i].seq < T[j].seq
    <3>1. CASE i \in 1 .. Len(taken[p]) /\ j \in 1 .. Len(taken[p])
      BY <1>0, <1>6, <2>1, <3>1 DEF PageOrder
    <3>2. ASSUME i \in 1 .. Len(taken[p]), NEW k \in 1 .. Len(f), j = Len(taken[p]) + k
          PROVE  T[i].seq < T[j].seq
      <4>1. T[i].seq \in Int /\ T[i].seq <= lastSeq[p]
        BY <1>0, <1>3, <1>6, <3>2 DEF PageRows
      <4>2. T[j].seq = f[k] /\ f[k] > lastSeq[p] /\ f[k] \in Int
        BY <1>2, <1>4, <1>12, <3>2
      <4> QED
        BY <1>3, <4>1, <4>2
    <3>3. ASSUME NEW m \in 1 .. Len(f), NEW k \in 1 .. Len(f),
                 i = Len(taken[p]) + m, j = Len(taken[p]) + k
          PROVE  T[i].seq < T[j].seq
      <4>1. m < k
        BY <1>3, <1>4, <2>1, <3>3
      <4>2. T[i].seq = f[m] /\ T[j].seq = f[k]
        BY <1>12, <3>3
      <4> QED
        BY <1>2, <4>1, <4>2
    <3>4. ~(\E m \in 1 .. Len(f) : i = Len(taken[p]) + m /\ j \in 1 .. Len(taken[p]))
      BY <1>3, <1>4, <2>1
    <3> QED
      BY <1>10, <3>1, <3>2, <3>3, <3>4
  <2> QED
    BY <1>7, <2>1 DEF PageOrder
<1>16. PageEnd(p)'
  <2>1. ASSUME top # -1 PROVE T # <<>> /\ T[Len(T)].seq = top
    <3>1. CASE Len(f) = 0
      <4>1. top = lastSeq[p] /\ Len(T) = Len(taken[p])
        BY <1>2, <1>3, <1>6, <3>1
      <4>2. taken[p] # <<>> /\ taken[p][Len(taken[p])].seq = lastSeq[p]
        BY <1>0, <2>1, <4>1 DEF PageEnd
      <4>3. Len(taken[p]) \in 1 .. Len(taken[p])
        BY <1>3, <4>2
      <4>4. T[Len(T)] = taken[p][Len(taken[p])] /\ Len(T) # 0
        BY <1>3, <1>6, <4>1, <4>3
      <4> QED
        BY <4>1, <4>2, <4>4
    <3>2. CASE Len(f) # 0
      <4>1. Len(f) \in 1 .. Len(f) /\ top = f[Len(f)] /\ Len(T) # 0
        BY <1>2, <1>3, <1>4, <1>6, <3>2
      <4>2. T[Len(T)].seq = f[Len(f)]
        BY <1>6, <1>12, <4>1
      <4> QED
        BY <4>1, <4>2
    <3> QED
      BY <3>1, <3>2
  <2> QED
    BY <1>7, <2>1 DEF PageEnd
<1>17. ASSUME InOrder, SameRun(p), NEW i \in 1 .. Len(log)
       PROVE  Contains(T, [run |-> run, seq |-> log[i]])
  <2>1. log[i] \in Int
    BY RingPushed, SeqNumbers
  <2>2. CASE log[i] <= lastSeq[p]
    <3>1. PICK j \in 1 .. Len(taken[p]) : taken[p][j] = [run |-> run, seq |-> log[i]]
      BY <1>0, <1>17, <2>2 DEF PageComplete, Contains, Entry
    <3> QED
      BY <1>6, <1>11, <3>1 DEF Contains
  <2>3. CASE log[i] > lastSeq[p]
    <3>1. PICK k \in 1 .. Len(f) : f[k] = log[i]
      BY <1>2, <1>17, <2>3
    <3>2. T[Len(taken[p]) + k] = [run |-> run, seq |-> log[i]]
      BY <1>6, <3>1
    <3> QED
      BY <1>11, <3>2 DEF Contains
  <2> QED
    BY <1>3, <2>1, <2>2, <2>3
<1>18. SameRun(p)' => SameRun(p)
  BY <1>1, <1>6, <1>7, <1>11 DEF SameRun
<1>19. PageComplete(p)'
  BY <1>1, <1>7, <1>17, <1>18 DEF PageComplete, InOrder, Entry
<1>22. TickCurrent(p)
  <2>1. ASSUME InOrder, SameRun(p), NEW i \in 1 .. Len(log),
               Entry(log[i]) \notin expired'[p]
        PROVE  Contains(shown'[p], Entry(log[i]))
    <3>1. PICK j \in 1 .. Len(T) : T[j] = Entry(log[i])
      BY <1>17, <2>1 DEF Contains, Entry
    <3>2. T[j] \in expired'[p] \/ Contains(shown'[p], T[j])
      BY <1>7, <1>21 DEF PageKeeps, Contains
    <3> QED
      BY <2>1, <3>1, <3>2
  <2>2. lastSeq'[p] # lastSeq[p] => Len(f) # 0
    BY <1>2, <1>7
  <2> QED
    BY <1>21, <2>1, <2>2 DEF TickCurrent
<1>20. ASSUME NEW q \in Pages PROVE PageFollows(q)'
  <2>1. CASE q = p
    BY <1>13, <1>14, <1>15, <1>16, <1>19, <1>21, <2>1, PagePartsNext DEF PageTaken
  <2>2. CASE q # p
    <3>1. /\ taken'[q] = taken[q] /\ lastSeq'[q] = lastSeq[q]
          /\ next_log_seq'[q] = next_log_seq[q] /\ mark'[q] = mark[q]
      BY <1>7, <2>2
    <3>2. PageFollows(q) /\ PageCursors(q)
      BY <1>0, PageParts DEF PageTaken
    <3>3. PageCursors(q)'
      BY <1>1, <3>1, <3>2 DEF PageCursors
    <3> QED
      BY <1>1, <1>21, <2>2, <3>1, <3>2, <3>3, PageKept
  <2> QED
    BY <2>1, <2>2
<1> QED
  BY <1>8, <1>9, <1>20, <1>22 DEF PagesInv

(* No page is open at the start.                                           *)
LEMMA PagesFresh == Init => PagesInv
<1> SUFFICES ASSUME Init PROVE PagesInv
  OBVIOUS
<1>1. MaxSeq \in Nat /\ MaxRuns \in Nat \ {0} /\ <<>> \in Seq(Entries) /\ Len(<<>>) = 0
  BY SeqNumbers
<1>2. /\ run = 1 /\ log_seq = 0 /\ log = <<>> /\ stream = [p \in Pages |-> FALSE]
      /\ next_log_seq = [p \in Pages |-> 0] /\ lastSeq = [p \in Pages |-> -1]
      /\ taken = [p \in Pages |-> <<>>] /\ shown = [p \in Pages |-> <<>>]
      /\ expired = [p \in Pages |-> {}] /\ mark = [p \in Pages |-> 0]
  BY DEF Init
<1>3. 1 \in 1 .. MaxRuns /\ 0 \in 0 .. MaxSeq
  BY <1>1
<1>4. PageTypes /\ CursorBehind
  BY <1>1, <1>2, <1>3 DEF PageTypes, CursorBehind
<1>5. ASSUME NEW p \in Pages PROVE PageFollows(p)
  <2>1. taken[p] = <<>> /\ shown[p] = <<>> /\ lastSeq[p] = -1 /\ mark[p] = 0 /\ next_log_seq[p] = 0
    BY <1>2
  <2> QED
    BY <1>2, <2>1, PageParts
       DEF PageTaken, PageCursors, PageRows, PageOrder, PageEnd, PageComplete,
           PageKeeps, PageTable
<1> QED
  BY <1>4, <1>5 DEF PagesInv

(* Every step keeps the invariant of the pages.                            *)
LEMMA PagesStep == LogServerInv /\ PagesInv /\ [StatusNext]_allVars => PagesInv'
<1> SUFFICES ASSUME LogServerInv, PagesInv, [StatusNext]_allVars PROVE PagesInv'
  OBVIOUS
<1>1. CASE UNCHANGED vars
  <2>1. UNCHANGED <<run, log_seq, log, pushed, stream, next_log_seq, lastSeq, shown,
                 expired, taken, mark>>
    BY <1>1 DEF vars, server, pages
  <2>2. PageTypes' /\ CursorBehind'
    BY <2>1 DEF PagesInv, PageTypes, CursorBehind
  <2>3. ASSUME NEW p \in Pages PROVE PageFollows(p)'
    <3>1. PageFollows(p) /\ PageCursors(p)
      BY PageParts DEF PagesInv, PageTaken
    <3>2. PageCursors(p)'
      BY <2>1, <3>1 DEF PageCursors
    <3> QED
      BY <2>1, <3>1, <3>2, PageKept
  <2> QED
    BY <2>2, <2>3 DEF PagesInv
<1>2. \A e \in Conns : e \in Loggers
  BY StatusAssumption DEF Conns
<1>3. ASSUME NEW e \in Conns,
             \/ ReadEvent(e) \/ LogTake(e) \/ LogPush(e)
             \/ UpdateStatus(e) \/ on_event(e) \/ ReaderEnd(e)
      PROVE  PagesInv'
  BY <1>1, <1>2, <1>3, TakeSeqPages, PushEntryPages
     DEF ReadEvent, LogTake, LogPush, UpdateStatus, on_event, ReaderEnd
<1>4. CASE Others
  <2>1. ASSUME NEW t \in Loggers, TakeSeq(t) \/ PushEntry(t) PROVE PagesInv'
    BY <2>1, TakeSeqPages, PushEntryPages
  <2>2. ASSUME NEW p \in Pages, Connect(p) \/ Disconnect(p) \/ Tick(p)
        PROVE  PagesInv'
    BY <2>2, StreamPages, TickPages
  <2> QED
    BY <1>4, <2>1, <2>2 DEF Others
<1>5. CASE RestartAll
  BY <1>5, RestartPages DEF RestartAll
<1>6. CASE Connect_telescope \/ on_upstream_connect \/ SpawnReader \/ Abandon
  BY <1>1, <1>6 DEF Connect_telescope, on_upstream_connect, SpawnReader, Abandon
<1> QED
  BY <1>1, <1>3, <1>4, <1>5, <1>6 DEF StatusNext, allVars

(* The invariant of the log and its pages, for every behaviour.            *)
LEMMA PagesInvariant == StatusSpec => [](LogServerInv /\ PagesInv)
<1>1. StatusInit => LogServerInv /\ PagesInv
  BY LogFresh, PagesFresh DEF StatusInit
<1>2. LogServerInv /\ PagesInv /\ [StatusNext]_allVars => (LogServerInv /\ PagesInv)'
  BY LogStep, PagesStep
<1> QED
  BY <1>1, <1>2, PTL DEF StatusSpec

(* The whole invariant of the dashboard: the two copies of the telescope's *)
(* state, the ring, the numbers, and of every page its cursors, the order  *)
(* of what it took, what it cannot have missed, and that of what it took   *)
(* only entries too old for its window are missing from its table          *)
(* (hooks.rs, metrics.rs, sse_handler and appendLog of dashboard.rs).      *)
THEOREM DashboardInvariant == StatusSpec => []DashboardInv
<1>1. LogServerInv /\ PagesInv => TypeOK
  <2> SUFFICES ASSUME LogServerInv, PagesInv PROVE TypeOK
    OBVIOUS
  <2>1. LogTypes /\ RingEntries /\ PageTypes /\ LogCap \in Nat \ {0}
    BY LogAssumption DEF LogServerInv, PagesInv
  <2>2. Len(log) <= LogCap
    BY <2>1 DEF RingEntries, LogTypes
  <2> QED
    BY <2>1, <2>2 DEF TypeOK, LogTypes, PageTypes
<1>2. TypeOK /\ RingIsSuffix /\ NumbersOnce /\ PagesInv => LogInv
  BY DEF PagesInv, LogInv
<1>3. StatusInv /\ LogInv => DashboardInv
  BY DEF DashboardInv
<1> QED
  BY <1>1, <1>2, <1>3, StatusInvariant, LogRing, PagesInvariant, PTL

(* No page shows an entry twice, whatever its streams send again after a   *)
(* reconnect or an entry that came out of order: the numbers in its table  *)
(* rise (appendLog ignores what is not above lastSeq).                     *)
THEOREM EntriesOnce == StatusSpec => []NoEntryTwice
<1>1. PagesInv => NoEntryTwice
  <2> SUFFICES ASSUME PagesInv, NEW p \in Pages PROVE IsInjective(shown[p])
    BY DEF NoEntryTwice
  <2>1. PageTable(p) /\ PageTypes
    BY PageParts DEF PagesInv
  <2>2. /\ Len(shown[p]) \in Nat /\ shown[p] \in Seq(Entries)
    BY <2>1, PageValues
  <2>5. \A i \in 1 .. Len(shown[p]) : shown[p][i].seq \in Int
    <3>1. \A i \in 1 .. Len(shown[p]) : shown[p][i] \in Entries
      BY <2>2
    <3> QED
      BY <3>1, SeqNumbers
  <2>3. DOMAIN shown[p] = 1 .. Len(shown[p])
    BY <2>2
  <2>4. ASSUME NEW i \in 1 .. Len(shown[p]), NEW j \in 1 .. Len(shown[p]),
               shown[p][i] = shown[p][j]
        PROVE  i = j
    <3>1. ~(i < j) /\ ~(j < i)
      BY <2>1, <2>2, <2>4, <2>5 DEF PageTable
    <3> QED
      BY <2>2, <3>1
  <2> QED
    BY <2>3, <2>4 DEF IsInjective
<1> QED
  BY <1>1, PagesInvariant, PTL

(* After a turn of its stream a page shows everything that is in the ring  *)
(* and not too old for its window, whatever it missed while it was         *)
(* disconnected, as long as the tasks pushed in the order of their numbers *)
(* and the page was open for this run of the proxy only; and nothing too   *)
(* old, when the turn brought something (sse_handler, appendLog).          *)
THEOREM PagesCurrent == StatusSpec => PageIsCurrent
<1>1. LogServerInv /\ PagesInv =>
        [\A p \in Pages : Tick(p) =>
           /\ InOrder /\ SameRun(p) =>
                \A i \in 1 .. Len(log) : Entry(log[i]) \notin expired'[p] =>
                  Contains(shown'[p], Entry(log[i]))
           /\ lastSeq'[p] # lastSeq[p] =>
                \A i \in 1 .. Len(shown'[p]) :
                  shown'[p][i] \notin expired'[p]]_vars
  BY TickPages DEF TickCurrent
<1> QED
  BY <1>1, PagesInvariant, PTL DEF PageIsCurrent
=============================================================================
