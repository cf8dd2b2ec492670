------------------------------ MODULE ControlMux ------------------------------
(***************************************************************************)
(* The control proxy (port 4700, src/src/control.rs): many clients share   *)
(* one connection to the telescope.  The proxy gives every request an id   *)
(* of its own, remembers who asked in the pending map, and routes the      *)
(* telescope's answer back with the client's id restored.                  *)
(*                                                                         *)
(* The processes are tokio tasks on a multi-threaded runtime:              *)
(*   - per client, the handler (read loop) and the writer task it spawns;  *)
(*   - the upstream task: connect, drain the pending map, write loop;      *)
(*   - per connection, the reader task.  Nobody stops the reader when the  *)
(*     write loop gives up, so an old reader can outlive its connection;   *)
(*   - the heartbeat task.                                                 *)
(* An action ends where its task may be suspended (an .await) or where it  *)
(* publishes something another task reads.                                 *)
(*                                                                         *)
(* Data abstraction: a line sent to or received from the telescope is the  *)
(* id the proxy allocated for it, or Anon when it carries none of those    *)
(* (a notification, a line a hook script injected, an event).              *)
(***************************************************************************)
EXTENDS Integers, Sequences, FiniteSets

CONSTANTS
  Clients,      \* client connections; each is accepted once
  OrigIds,      \* JSON values that clients use as request ids
  Slots,        \* upstream connections: at most |Slots| readers alive at once
  FirstId,      \* first id the proxy allocates (100_000 in the code)
  MaxIds,       \* bound: how many ids are allocated in a behaviour
  MaxBeats,     \* bound: how many of them go to heartbeats
  MaxPending,   \* MAX_PENDING_REQUESTS (1_024)
  RespCap,      \* capacity of a client's response channel (64)
  UpCap,        \* capacity of the upstream channel (256)
  EvCap,        \* capacity of the event broadcast ring (256)
  HooksOn,      \* whether hook scripts are loaded
  Transparent,  \* the telescope's address comes from the first client
  AnonOn,       \* bound: whether clients and telescope send lines without id
  Anon,         \* a line that carries no allocated id
  NoSlot, NoReq \* null values

ASSUME ControlAssumption ==
  /\ FirstId \in Nat /\ MaxIds \in Nat /\ MaxBeats \in Nat
  /\ MaxPending \in Nat \ {0} /\ RespCap \in Nat \ {0}
  /\ UpCap \in Nat \ {0} /\ EvCap \in Nat \ {0}
  /\ HooksOn \in BOOLEAN /\ AnonOn \in BOOLEAN
  /\ Transparent \in BOOLEAN
  /\ Anon \notin Int
  /\ NoSlot \notin Slots
  /\ NoReq \notin [client : Clients, orig : OrigIds]

VARIABLES
  (* Shared state *)
  next_id,        \* AtomicU64: the id the next fetch_add returns
  pending,        \* HashMap id -> [client, orig]
  upq,            \* the mpsc channel to the upstream task
  handshake_done, \* AtomicBool read by the heartbeat task
  upstream_up,    \* Metrics.upstream_control_up
  (* Client connections *)
  pc,             \* the handler's control point
  hand,           \* the line the handler holds across an .await
  horig,          \* and the client's own id for it
  wr,             \* the writer task: "none", "running" or "stopped"
  resp,           \* response channel: replies waiting for the writer task
  ev,             \* the client's view of the broadcast ring
  (* Upstream *)
  addr,           \* resolved_upstream: "unset", "scope" or "localhost"
  up,             \* the upstream task's control point
  conn,           \* its current connection
  hb,             \* the heartbeat held by the heartbeat task, or Anon
  rd,             \* per connection, the reader's control point
  rdid,           \* the id of the response the reader is handling
  rdreq,          \* the pending entry it took for that id
  sent,           \* ids the telescope received on a connection, unanswered
  (* History *)
  owner,          \* who every allocated id was given to
  refused,        \* ids answered with "telescope reconnecting"
  got,            \* ids whose reply was written to the client's socket
  greeted,        \* per connection: the telescope has sent a line on it
  panicked        \* a reader has panicked since upstream_up was last stored

shared   == <<next_id, pending, upq, handshake_done, upstream_up>>
clients  == <<pc, hand, horig, wr, resp, ev>>
upstream == <<addr, up, conn, hb, rd, rdid, rdreq, sent>>
history  == <<owner, refused, got, greeted, panicked>>
vars     == <<shared, clients, upstream, history>>

-----------------------------------------------------------------------------
(* Types *)

Ids      == FirstId .. (FirstId + MaxIds - 1)
Lines    == Ids \cup {Anon}
Requests == [client : Clients, orig : OrigIds]
(* A reply as it waits in a response channel.  "id" is the allocated id it *)
(* answers: history only, the client sees nothing but "orig".              *)
Replies  == [id : Lines, orig : OrigIds,
             kind : {"answer", "overflow", "reconnecting", "hook"}]

HandlerPoints == {"absent", "reading", "replying", "lock", "overflow",
                  "sending", "gone"}
UpPoints      == {"waiting", "connecting", "locking", "draining", "hooking",
                  "serving"}
ReaderPoints  == {"none", "spawned", "reading", "taking", "routing", "dead"}

Allocated == FirstId .. (next_id - 1)

SharedType ==
  /\ next_id \in FirstId .. (FirstId + MaxIds)
  /\ DOMAIN pending \subseteq Ids
  /\ pending \in [DOMAIN pending -> Requests]
  /\ upq \in Seq(Lines)
  /\ handshake_done \in BOOLEAN
  /\ upstream_up \in BOOLEAN

ClientType ==
  /\ pc \in [Clients -> HandlerPoints]
  /\ hand \in [Clients -> Lines]
  /\ horig \in [Clients -> OrigIds \cup {NoReq}]
  /\ wr \in [Clients -> {"none", "running", "stopped"}]
  /\ resp \in [Clients -> Seq(Replies)]
  /\ ev \in [Clients -> Seq(Lines)]

UpstreamType ==
  /\ addr \in {"unset", "scope", "localhost"}
  /\ up \in UpPoints
  /\ conn \in Slots \cup {NoSlot}
  /\ hb \in Lines
  /\ rd \in [Slots -> ReaderPoints]
  /\ rdid \in [Slots -> Lines]
  /\ rdreq \in [Slots -> Requests \cup {NoReq}]
  /\ sent \in [Slots -> SUBSET Ids]

HistoryType ==
  /\ owner \in [Allocated -> Requests \cup {NoReq}]
  /\ refused \subseteq Ids
  /\ got \subseteq Ids
  /\ greeted \in [Slots -> BOOLEAN]
  /\ panicked \in BOOLEAN

(* Every variable keeps its type; the ids in use are those allocated.      *)
TypeOK == SharedType /\ ClientType /\ UpstreamType /\ HistoryType

-----------------------------------------------------------------------------
(* Helpers *)

Put(f, k, v) == [i \in DOMAIN f \cup {k} |-> IF i = k THEN v ELSE f[i]]
(* Mutant: the entry is looked up and not removed.                         *)
Remove_Nothing(f, k) == f
Remove(f, k) == [i \in DOMAIN f \ {k} |-> f[i]]

(* Mutant: the guard lives on over the connect hook and the write loop.    *)
LockFree_LongGuard ==
  /\ up \notin {"draining", "hooking", "serving"}
  /\ \A c \in Clients : pc[c] # "overflow"

(* The state Mutex.  Two critical sections last longer than one step: the  *)
(* overflow reply, sent with .await inside the lock, and the drain loop.   *)
LockFree == up # "draining" /\ \A c \in Clients : pc[c] # "overflow"

(* A response channel is closed once its receiver, the writer task, ended. *)
Open(c) == wr[c] = "running"

(* telescope.send in a hook script: try_send on the upstream channel, the  *)
(* line is dropped when the channel is full.  Scripts may send at any hook.*)
AfterHook(q) ==
  {q} \cup (IF HooksOn /\ Len(q) < UpCap THEN {Append(q, Anon)} ELSE {})

(* event_tx.send: every subscriber gets the line; one that has EvCap lines *)
(* unread loses the oldest (its recv reports Lagged and continues).        *)
Pushed(q, m) == IF Len(q) < EvCap THEN Append(q, m) ELSE Append(Tail(q), m)
Broadcast(m) ==
  ev' = [c \in Clients |-> IF Open(c) THEN Pushed(ev[c], m) ELSE ev[c]]

CanAllocate == next_id < FirstId + MaxIds
CanBeat == Cardinality({i \in DOMAIN owner : owner[i] = NoReq}) < MaxBeats

(* next_id.fetch_add(1): the id goes to request r (NoReq: a heartbeat).    *)
(* Mutant: the counter is not advanced.                                    *)
Allocate_Reuse(r) == UNCHANGED next_id /\ owner' = Put(owner, next_id, r)
Allocate(r) ==
  /\ CanAllocate
  /\ next_id' = next_id + 1
  /\ owner' = Put(owner, next_id, r)

(* upstream_tx.send(m).await waits for room in the channel.                *)
Enqueue(m) == Len(upq) < UpCap /\ upq' = Append(upq, m)

(* The limit on the pending map.  Mutant: off by one.                      *)
Full_OffByOne == Cardinality(DOMAIN pending) > MaxPending
Full == Cardinality(DOMAIN pending) >= MaxPending

(* Nobody waits for the response the reader holds.  Mutant: not tested.    *)
Untracked_Any(e) == TRUE
Untracked(e) == rdid[e] \notin DOMAIN pending

-----------------------------------------------------------------------------
Init ==
  /\ next_id = FirstId
  /\ pending = [i \in {} |-> NoReq]
  /\ upq = <<>>
  /\ handshake_done = FALSE
  /\ upstream_up = FALSE
  /\ pc = [c \in Clients |-> "absent"]
  /\ hand = [c \in Clients |-> Anon]
  /\ horig = [c \in Clients |-> NoReq]
  /\ wr = [c \in Clients |-> "none"]
  /\ resp = [c \in Clients |-> <<>>]
  /\ ev = [c \in Clients |-> <<>>]
  /\ addr = IF Transparent THEN "unset" ELSE "scope"
  /\ up = "waiting"
  /\ conn = NoSlot
  /\ hb = Anon
  /\ rd = [e \in Slots |-> "none"]
  /\ rdid = [e \in Slots |-> Anon]
  /\ rdreq = [e \in Slots |-> NoReq]
  /\ sent = [e \in Slots |-> {}]
  /\ owner = [i \in {} |-> NoReq]
  /\ refused = {}
  /\ got = {}
  /\ greeted = [e \in Slots |-> FALSE]
  /\ panicked = FALSE

-----------------------------------------------------------------------------
(* The accept loop of run() and the client handler, handle_client()        *)

(* A connection is accepted: in transparent mode, if it was redirected, it *)
(* tells the telescope's address; it subscribes to the events, the connect *)
(* hook runs, its handler and its writer task start.                       *)
Accept(c) ==
  /\ pc[c] = "absent"
  /\ pc' = [pc EXCEPT ![c] = "reading"]
  /\ wr' = [wr EXCEPT ![c] = "running"]
  /\ upq' \in AfterHook(upq)
  /\ addr' \in (IF Transparent /\ addr = "unset" THEN {"unset", "scope"}
                                                ELSE {addr})
  /\ UNCHANGED <<next_id, pending, handshake_done, upstream_up, hand, horig,
                 resp, ev, up, conn, hb, rd, rdid, rdreq, sent, history>>

(* A request passes the request hook and is given an id (fetch_add).       *)
Request(c, o) ==
  /\ pc[c] = "reading"
  /\ Allocate([client |-> c, orig |-> o])
  /\ hand' = [hand EXCEPT ![c] = next_id]
  /\ horig' = [horig EXCEPT ![c] = o]
  /\ pc' = [pc EXCEPT ![c] = "lock"]
  /\ upq' \in AfterHook(upq)
  /\ UNCHANGED <<pending, handshake_done, upstream_up, wr, resp, ev, upstream,
                 refused, got, greeted, panicked>>

(* A line without an id is forwarded as it is.                             *)
Notification(c) ==
  /\ AnonOn
  /\ pc[c] = "reading"
  /\ hand' = [hand EXCEPT ![c] = Anon]
  /\ pc' = [pc EXCEPT ![c] = "sending"]
  /\ upq' \in AfterHook(upq)
  /\ UNCHANGED <<next_id, pending, handshake_done, upstream_up, horig, wr,
                 resp, ev, upstream, history>>

(* The request hook answers in the telescope's place.                      *)
HookReply(c, o) ==
  /\ HooksOn
  /\ pc[c] = "reading"
  /\ horig' = [horig EXCEPT ![c] = o]
  /\ pc' = [pc EXCEPT ![c] = "replying"]
  /\ upq' \in AfterHook(upq)
  /\ UNCHANGED <<next_id, pending, handshake_done, upstream_up, hand, wr,
                 resp, ev, upstream, history>>

(* The request hook blocks the line: nothing remains of it but what the    *)
(* script itself sent.                                                     *)
HookBlock(c) ==
  /\ HooksOn
  /\ pc[c] = "reading"
  /\ upq' \in AfterHook(upq)
  /\ UNCHANGED <<next_id, pending, handshake_done, upstream_up, clients,
                 upstream, history>>

(* response_tx.send(r).await: waits for room, and fails, which the handler *)
(* ignores, when the writer task is gone.                                  *)
SendReply(c, r) ==
  \/ Open(c) /\ Len(resp[c]) < RespCap
             /\ resp' = [resp EXCEPT ![c] = Append(@, r)]
  \/ ~Open(c) /\ UNCHANGED resp

(* The handler is done with the line it held.                              *)
Done(c) ==
  /\ pc' = [pc EXCEPT ![c] = "reading"]
  /\ hand' = [hand EXCEPT ![c] = Anon]
  /\ horig' = [horig EXCEPT ![c] = NoReq]

HookReplySend(c) ==
  /\ pc[c] = "replying"
  /\ SendReply(c, [id |-> Anon, orig |-> horig[c], kind |-> "hook"])
  /\ Done(c)
  /\ UNCHANGED <<shared, wr, ev, upstream, history>>

(* Under one lock: the size check, and the insertion when there is room.   *)
Register(c) ==
  /\ pc[c] = "lock"
  /\ LockFree
  /\ ~Full
  /\ pending' = Put(pending, hand[c], [client |-> c, orig |-> horig[c]])
  /\ pc' = [pc EXCEPT ![c] = "sending"]
  /\ UNCHANGED <<next_id, upq, handshake_done, upstream_up, hand, horig, wr,
                 resp, ev, upstream, history>>

(* The map is full: the error reply is sent while the lock is held, so the *)
(* handler keeps the lock until its own client's channel has room.         *)
RegisterFull(c) ==
  /\ pc[c] = "lock"
  /\ LockFree
  /\ Full
  /\ pc' = [pc EXCEPT ![c] = "overflow"]
  /\ UNCHANGED <<shared, hand, horig, wr, resp, ev, upstream, history>>

OverflowReply(c) ==
  /\ pc[c] = "overflow"
  /\ SendReply(c, [id |-> hand[c], orig |-> horig[c], kind |-> "overflow"])
  /\ Done(c)
  /\ UNCHANGED <<shared, wr, ev, upstream, history>>

Send(c) ==
  /\ pc[c] = "sending"
  /\ Enqueue(hand[c])
  /\ Done(c)
  /\ UNCHANGED <<next_id, pending, handshake_done, upstream_up, wr, resp, ev,
                 upstream, history>>

(* End of file or an oversized line: the writer task is aborted, which     *)
(* drops both channels, and the disconnect hook runs.  Entries of the      *)
(* pending map stay.                                                       *)
CloseClient(c) ==
  /\ pc[c] = "reading"
  /\ pc' = [pc EXCEPT ![c] = "gone"]
  /\ wr' = [wr EXCEPT ![c] = "stopped"]
  /\ resp' = [resp EXCEPT ![c] = <<>>]
  /\ ev' = [ev EXCEPT ![c] = <<>>]
  /\ upq' \in AfterHook(upq)
  /\ UNCHANGED <<next_id, pending, handshake_done, upstream_up, hand, horig,
                 upstream, history>>

(* A read error returns through "?", past the abort: the writer task lives *)
(* on until one of its own writes fails.  So it does when the handler      *)
(* panics, cutting a line that is not JSON for its log inside a character; *)
(* then the disconnect hook does not run, which is a hook that sends       *)
(* nothing.                                                                *)
ReadError(c) ==
  /\ pc[c] = "reading"
  /\ pc' = [pc EXCEPT ![c] = "gone"]
  /\ upq' \in AfterHook(upq)
  /\ UNCHANGED <<next_id, pending, handshake_done, upstream_up, hand, horig,
                 wr, resp, ev, upstream, history>>

-----------------------------------------------------------------------------
(* The writer task of a client                                             *)

WriteReply(c) ==
  /\ Open(c)
  /\ resp[c] # <<>>
  /\ resp' = [resp EXCEPT ![c] = Tail(@)]
  /\ got' = got \cup ({Head(resp[c]).id} \ {Anon})
  /\ UNCHANGED <<shared, pc, hand, horig, wr, ev, upstream, owner, refused,
                 greeted, panicked>>

WriteEvent(c) ==
  /\ Open(c)
  /\ ev[c] # <<>>
  /\ ev' = [ev EXCEPT ![c] = Tail(@)]
  /\ UNCHANGED <<shared, pc, hand, horig, wr, resp, upstream, history>>

(* A write fails: the task ends and drops its channels; the handler, which *)
(* does not watch it, keeps reading.                                       *)
WriteError(c) ==
  /\ Open(c)
  /\ resp[c] # <<>> \/ ev[c] # <<>>
  /\ wr' = [wr EXCEPT ![c] = "stopped"]
  /\ resp' = [resp EXCEPT ![c] = <<>>]
  /\ ev' = [ev EXCEPT ![c] = <<>>]
  /\ UNCHANGED <<shared, pc, hand, horig, upstream, history>>

-----------------------------------------------------------------------------
(* The upstream task                                                       *)

(* The first accepted client wakes the task (upstream_started), resolved   *)
(* address or not: get_or_init falls back to the local host.               *)
UpStart ==
  /\ up = "waiting"
  /\ \E c \in Clients : pc[c] # "absent"
  /\ up' = "connecting"
  /\ addr' = IF addr = "unset" THEN "localhost" ELSE addr
  /\ UNCHANGED <<shared, clients, conn, hb, rd, rdid, rdreq, sent, history>>

(* A connect attempt succeeds (the failing ones, and the 5 s pauses, change *)
(* nothing).  The new connection takes any slot whose reader has ended.    *)
Connect(e) ==
  /\ up = "connecting"
  /\ rd[e] \in {"none", "dead"}
  /\ up' = "locking"
  /\ conn' = e
  /\ rd' = [rd EXCEPT ![e] = "none"]
  /\ sent' = [sent EXCEPT ![e] = {}]
  /\ greeted' = [greeted EXCEPT ![e] = FALSE]
  /\ handshake_done' = FALSE
  /\ UNCHANGED <<next_id, pending, upq, upstream_up, clients, addr, hb, rdid,
                 rdreq, owner, refused, got, panicked>>

(* Mutant: a reconnect does not drain the pending map.                     *)
DrainBegin_Skip ==
  /\ up = "locking"
  /\ LockFree
  /\ up' = "hooking"
  /\ UNCHANGED <<shared, clients, addr, conn, hb, rd, rdid, rdreq, sent,
                 history>>

DrainBegin ==
  /\ up = "locking"
  /\ LockFree
  /\ up' = "draining"
  /\ UNCHANGED <<shared, clients, addr, conn, hb, rd, rdid, rdreq, sent,
                 history>>

(* Mutant: the error goes to every client.                                 *)
Refuse_All(id) ==
  LET r == [id |-> id, orig |-> pending[id].orig, kind |-> "reconnecting"]
  IN resp' = [c \in Clients |-> IF Open(c) /\ Len(resp[c]) < RespCap
                                  THEN Append(resp[c], r) ELSE resp[c]]

(* One turn of the drain loop: the entry is removed and its client is told *)
(* "telescope reconnecting" by try_send, which gives up when the client's  *)
(* channel is full or closed.                                              *)
Refuse(id) ==
  LET c == pending[id].client
      r == [id |-> id, orig |-> pending[id].orig, kind |-> "reconnecting"]
  IN IF Open(c) /\ Len(resp[c]) < RespCap
       THEN resp' = [resp EXCEPT ![c] = Append(@, r)]
       ELSE UNCHANGED resp

DrainOne(id) ==
  /\ up = "draining"
  /\ id \in DOMAIN pending
  /\ Refuse(id)
  /\ pending' = Remove(pending, id)
  /\ refused' = refused \cup {id}
  /\ UNCHANGED <<next_id, upq, handshake_done, upstream_up, pc, hand, horig,
                 wr, ev, upstream, owner, got, greeted, panicked>>

DrainEnd ==
  /\ up = "draining"
  /\ DOMAIN pending = {}
  /\ up' = "hooking"
  /\ UNCHANGED <<shared, clients, addr, conn, hb, rd, rdid, rdreq, sent,
                 history>>

(* The on_upstream_connect hook runs, then the reader task is spawned and  *)
(* the write loop starts.                                                  *)
Serve ==
  /\ up = "hooking"
  /\ up' = "serving"
  /\ rd' = [rd EXCEPT ![conn] = "spawned"]
  /\ upq' \in AfterHook(upq)
  /\ UNCHANGED <<next_id, pending, handshake_done, upstream_up, clients, addr,
                 conn, hb, rdid, rdreq, sent, history>>

(* The write loop takes a line and writes it to the telescope.             *)
UpWrite ==
  /\ up = "serving"
  /\ upq # <<>>
  /\ upq' = Tail(upq)
  /\ sent' = [sent EXCEPT ![conn] = @ \cup ({Head(upq)} \ {Anon})]
  /\ UNCHANGED <<next_id, pending, handshake_done, upstream_up, clients, addr,
                 up, conn, hb, rd, rdid, rdreq, history>>

(* The write fails: the line is lost and the task reconnects.  It leaves   *)
(* the reader of the broken connection running.                            *)
UpWriteError ==
  /\ up = "serving"
  /\ upq # <<>>
  /\ upq' = Tail(upq)
  /\ up' = "connecting"
  /\ UNCHANGED <<next_id, pending, handshake_done, upstream_up, clients, addr,
                 conn, hb, rd, rdid, rdreq, sent, history>>

(* The reader ended (its oneshot sender was dropped): reconnect.           *)
ReaderGone ==
  /\ up = "serving"
  /\ rd[conn] = "dead"
  /\ up' = "connecting"
  /\ UNCHANGED <<shared, clients, addr, conn, hb, rd, rdid, rdreq, sent,
                 history>>

-----------------------------------------------------------------------------
(* The heartbeat task: every 5 s, if the handshake is done                 *)

HeartbeatTick ==
  /\ up # "waiting"
  /\ hb = Anon
  /\ handshake_done
  /\ CanBeat
  /\ Allocate(NoReq)
  /\ hb' = next_id
  /\ UNCHANGED <<pending, upq, handshake_done, upstream_up, clients, addr, up,
                 conn, rd, rdid, rdreq, sent, refused, got, greeted, panicked>>

HeartbeatSend ==
  /\ hb # Anon
  /\ Enqueue(hb)
  /\ hb' = Anon
  /\ UNCHANGED <<next_id, pending, handshake_done, upstream_up, clients, addr,
                 up, conn, rd, rdid, rdreq, sent, history>>

-----------------------------------------------------------------------------
(* The reader task of a connection, upstream_reader_task()                 *)

ReaderStart(e) ==
  /\ rd[e] = "spawned"
  /\ rd' = [rd EXCEPT ![e] = "reading"]
  /\ upstream_up' = TRUE
  /\ panicked' = FALSE
  /\ UNCHANGED <<next_id, pending, upq, handshake_done, clients, addr, up,
                 conn, hb, rdid, rdreq, sent, owner, refused, got, greeted>>

(* Any line that is not empty counts as the handshake, before it is parsed.*)
LineArrives(e) ==
  /\ rd[e] = "reading"
  /\ handshake_done' = TRUE
  /\ greeted' = [greeted EXCEPT ![e] = TRUE]

ReadInvalid(e) ==
  /\ LineArrives(e)
  /\ UNCHANGED <<next_id, pending, upq, upstream_up, clients, upstream, owner,
                 refused, got, panicked>>

(* An event, or a line of no known form, goes to every client unless the   *)
(* event hook blocks it.                                                   *)
ReadEvent(e) ==
  /\ AnonOn
  /\ LineArrives(e)
  /\ upq' \in AfterHook(upq)
  /\ \/ Broadcast(Anon)
     \/ HooksOn /\ UNCHANGED ev
  /\ UNCHANGED <<next_id, pending, upstream_up, pc, hand, horig, wr, resp,
                 upstream, owner, refused, got, panicked>>

(* A response.  The telescope answers what it received on this connection, *)
(* once; Anon is the answer to a line a hook script injected.              *)
ReadResponse(e, id) ==
  /\ LineArrives(e)
  /\ id \in sent[e] \/ (HooksOn /\ id = Anon)
  /\ sent' = [sent EXCEPT ![e] = @ \ {id}]
  /\ rdid' = [rdid EXCEPT ![e] = id]
  /\ rd' = [rd EXCEPT ![e] = "taking"]
  /\ UNCHANGED <<next_id, pending, upq, upstream_up, clients, addr, up, conn,
                 hb, rdreq, owner, refused, got, panicked>>

(* Under the lock: the entry is removed and kept to route the answer.      *)
TakePending(e) ==
  /\ rd[e] = "taking"
  /\ LockFree
  /\ rdid[e] \in DOMAIN pending
  /\ rdreq' = [rdreq EXCEPT ![e] = pending[rdid[e]]]
  /\ pending' = Remove(pending, rdid[e])
  /\ rd' = [rd EXCEPT ![e] = "routing"]
  /\ UNCHANGED <<next_id, upq, handshake_done, upstream_up, clients, addr, up,
                 conn, hb, rdid, sent, history>>

(* Nobody waits for this id: unless the response hook blocks it, the line  *)
(* is broadcast as it came.                                                *)
TakeUntracked(e) ==
  /\ rd[e] = "taking"
  /\ LockFree
  /\ Untracked(e)
  /\ upq' \in AfterHook(upq)
  /\ \/ Broadcast(rdid[e])
     \/ HooksOn /\ UNCHANGED ev
  /\ rd' = [rd EXCEPT ![e] = "reading"]
  /\ rdid' = [rdid EXCEPT ![e] = Anon]
  /\ UNCHANGED <<next_id, pending, handshake_done, upstream_up, pc, hand,
                 horig, wr, resp, addr, up, conn, hb, rdreq, sent, history>>

(* client_tx.send(response).await: the reader waits for room in the one    *)
(* client's channel, and nobody else's lines are read meanwhile.           *)
Route(e) ==
  /\ rd[e] = "routing"
  /\ SendReply(rdreq[e].client,
               [id |-> rdid[e], orig |-> rdreq[e].orig, kind |-> "answer"])
  /\ rd' = [rd EXCEPT ![e] = "reading"]
  /\ rdid' = [rdid EXCEPT ![e] = Anon]
  /\ rdreq' = [rdreq EXCEPT ![e] = NoReq]
  /\ UNCHANGED <<shared, pc, hand, horig, wr, ev, addr, up, conn, hb, sent,
                 history>>

(* Mutant: the flag is not cleared when the reader ends.                   *)
ReaderEnd_NoFlag(e) ==
  /\ rd[e] = "reading"
  /\ rd' = [rd EXCEPT ![e] = "dead"]
  /\ UNCHANGED <<shared, clients, addr, up, conn, hb, rdid, rdreq, sent,
                 history>>

(* End of file, a read error or an overlong partial line.                  *)
ReaderEnd(e) ==
  /\ rd[e] = "reading"
  /\ rd' = [rd EXCEPT ![e] = "dead"]
  /\ upstream_up' = FALSE
  /\ panicked' = FALSE
  /\ UNCHANGED <<next_id, pending, upq, handshake_done, clients, addr, up,
                 conn, hb, rdid, rdreq, sent, owner, refused, got, greeted>>

(* The log lines cut the text of a line at a fixed byte (method_hint, and  *)
(* the warning of invalid JSON): inside a character of several bytes this  *)
(* panics and the task ends without clearing the flag.  The first cut is   *)
(* before the handshake is noted, the second after.  Nothing more is read  *)
(* on the connection, so what the line was makes no difference.            *)
ReaderPanic(e) ==
  /\ rd[e] = "reading"
  /\ rd' = [rd EXCEPT ![e] = "dead"]
  /\ greeted' = [greeted EXCEPT ![e] = TRUE]
  /\ handshake_done' \in {handshake_done, TRUE}
  /\ panicked' = TRUE
  /\ UNCHANGED <<next_id, pending, upq, upstream_up, clients, addr, up, conn,
                 hb, rdid, rdreq, sent, owner, refused, got>>

-----------------------------------------------------------------------------
Handler(c) ==
  \/ \E o \in OrigIds : Request(c, o) \/ HookReply(c, o)
  \/ Accept(c) \/ Notification(c) \/ HookBlock(c) \/ HookReplySend(c)
  \/ Register(c) \/ RegisterFull(c) \/ OverflowReply(c) \/ Send(c)
  \/ CloseClient(c) \/ ReadError(c)

Writer(c) == WriteReply(c) \/ WriteEvent(c) \/ WriteError(c)

Upstream ==
  \/ UpStart \/ DrainBegin \/ DrainEnd \/ Serve
  \/ UpWrite \/ UpWriteError \/ ReaderGone
  \/ \E e \in Slots : Connect(e)
  \/ \E id \in Ids : DrainOne(id)

Heartbeat == HeartbeatTick \/ HeartbeatSend

Reader(e) ==
  \/ ReaderStart(e) \/ ReadInvalid(e) \/ ReadEvent(e)
  \/ \E id \in Lines : ReadResponse(e, id)
  \/ TakePending(e) \/ TakeUntracked(e) \/ Route(e)
  \/ ReaderEnd(e) \/ ReaderPanic(e)

Next ==
  \/ \E c \in Clients : Handler(c) \/ Writer(c)
  \/ \E e \in Slots : Reader(e)
  \/ Upstream
  \/ Heartbeat

Spec == Init /\ [][Next]_vars

-----------------------------------------------------------------------------
(* Safety                                                                  *)

(* At most MAX_PENDING_REQUESTS requests wait for the telescope, however   *)
(* many clients register at the same time.                                 *)
PendingBounded == Cardinality(DOMAIN pending) <= MaxPending

(* Every reply that waits for a client, or that the reader is about to     *)
(* hand over, is for a request of that very client and carries the id that *)
(* client used: remapping and routing are never confused by other clients, *)
(* by reconnects or by a reader that outlived its connection.              *)
RoutedToOwner ==
  /\ \A c \in Clients : \A i \in 1 .. Len(resp[c]) :
       LET r == resp[c][i] IN
         r.kind # "hook" => /\ r.id \in DOMAIN owner
                            /\ owner[r.id] = [client |-> c, orig |-> r.orig]
  /\ \A e \in Slots : rd[e] = "routing" =>
       rdid[e] \in DOMAIN owner /\ owner[rdid[e]] = rdreq[e]

(* Where a reply to id may be on its way: in a response channel, in the    *)
(* hands of a reader, or already written to the client.                    *)
Queued(id)  == {p \in Clients \X (1 .. RespCap) :
                  p[2] <= Len(resp[p[1]]) /\ resp[p[1]][p[2]].id = id}
Routing(id) == {e \in Slots : rd[e] = "routing" /\ rdid[e] = id}

(* A request is replied to at most once: an answer that races the          *)
(* reconnect drain, or another reader, never gives the client two replies, *)
(* and a request still in the pending map has had none.                    *)
AtMostOneReply ==
  \A id \in Ids :
    /\ Cardinality(Queued(id)) + Cardinality(Routing(id)) <= 1
    /\ Queued(id) \cup Routing(id) # {} => id \notin got
    /\ id \in DOMAIN pending => /\ Queued(id) \cup Routing(id) = {}
                                /\ id \notin got

(* While a connection is served, every request in the pending map can      *)
(* still be answered on it while its reader lives: its line is in a        *)
(* handler's hand, in the upstream channel, or with the telescope, or its  *)
(* answer is in the reader's hands.  Nothing waits for a connection that   *)
(* is gone.                                                                *)
InHand(id)  == \E c \in Clients : pc[c] = "sending" /\ hand[c] = id
InQueue(id) == \E i \in 1 .. Len(upq) : upq[i] = id
AtScope(id) == id \in sent[conn] \/ (rd[conn] = "taking" /\ rdid[conn] = id)
NoOrphan ==
  up \in {"hooking", "serving"} =>
    \A id \in DOMAIN pending : InHand(id) \/ InQueue(id) \/ AtScope(id)

(* Only an answer nobody can be waiting for is broadcast: that of a        *)
(* heartbeat, or of a request already refused with "telescope              *)
(* reconnecting".                                                          *)
BroadcastUntracked ==
  \A c \in Clients : \A i \in 1 .. Len(ev[c]) :
    ev[c][i] # Anon => \/ owner[ev[c][i]] = NoReq
                       \/ ev[c][i] \in refused

(* The dashboard shows the telescope as connected with no reader task      *)
(* alive only after a reader panicked (upstream_reader_task, its two log   *)
(* cuts), and then until the next reader starts or ends: however readers   *)
(* of several connections overlap, no other way of ending leaves it so.    *)
Alive(e) == rd[e] \in {"reading", "taking", "routing"}
UpFlagHonest == upstream_up => panicked \/ \E e \in Slots : Alive(e)

-----------------------------------------------------------------------------
(* What comments and docs say of the code, and the code does not do: TLC   *)
(* finds a counterexample to each of these (see the README).               *)

(* "Sends heartbeats only after handshake completes" (control.rs:8): a     *)
(* heartbeat reaches the telescope only on a connection on which the       *)
(* telescope has already spoken.                                           *)
HeartbeatAfterHandshake ==
  [][\A e \in Slots : \A id \in sent'[e] \ sent[e] :
       owner[id] = NoReq => greeted[e]]_vars

(* "they will never be answered" (control.rs:194): a request refused with  *)
(* "telescope reconnecting" is not handed to the telescope afterwards.     *)
RefusedNotSent ==
  up = "serving" => refused \cap sent[conn] = {}

(* "Routes responses back to the originating client by mapped ID"          *)
(* (control.rs:6): no client is sent the answer to another one's request.  *)
AnswerTargeted ==
  \A c \in Clients : \A i \in 1 .. Len(ev[c]) :
    LET id == ev[c][i] IN
      id # Anon /\ owner[id] # NoReq => owner[id].client = c

(* "Whether the upstream control TCP connection is live" (metrics.rs:56):  *)
(* the flag is up while the current connection's reader runs.              *)
UpFlagLive ==
  up = "serving" /\ rd[conn] \in {"reading", "taking", "routing"}
    => upstream_up

(* The same comment for a telescope that is gone: without a reader, the    *)
(* flag is down.                                                           *)
UpFlagDown == upstream_up => \E e \in Slots : Alive(e)

(* "BUG: upstream address not resolved before upstream task started"       *)
(* (control.rs:132): the fallback address is never used.                   *)
AddressResolved == addr # "localhost"

=============================================================================
