---------------------------- MODULE ImagingFanout ----------------------------
(***************************************************************************)
(* The imaging proxy (port 4800, src/src/imaging.rs): the frames of one    *)
(* telescope connection go to every client through a broadcast ring, and   *)
(* the command lines of all clients, with the proxy's heartbeats, go to    *)
(* the telescope through one channel.                                      *)
(*                                                                         *)
(* A frame is its number in the stream; a command line is <<client, k>>,   *)
(* the k-th line of that client; Beat is a heartbeat.                      *)
(***************************************************************************)
EXTENDS Integers, Sequences, FiniteSets

CONSTANTS
  Clients,      \* client connections; each is accepted once
  Slots,        \* upstream connections: at most |Slots| readers alive at once
  RingCap,      \* capacity of the frame broadcast ring (32)
  UpCap,        \* capacity of the command channel (256)
  MaxFrames,    \* bound: frames broadcast in a behaviour
  Talkers,      \* clients that send command lines; the others only watch
  MaxLines,     \* bound: lines each of them sends
  Transparent,  \* the telescope's address comes from the first clients
  Beat,         \* a heartbeat line
  NoSlot        \* no connection yet

ASSUME ImagingAssumption ==
  /\ RingCap \in Nat \ {0} /\ UpCap \in Nat \ {0}
  /\ MaxFrames \in Nat /\ MaxLines \in Nat
  /\ Transparent \in BOOLEAN
  /\ Talkers \subseteq Clients
  /\ Beat \notin Clients \X (1 .. MaxLines)
  /\ NoSlot \notin Slots

VARIABLES
  (* The frame ring: tokio's broadcast channel *)
  tail,     \* frames broadcast so far
  ring,     \* the slots of the ring
  next,     \* per client, the frame its receiver wants next (0: none)
  (* Clients *)
  pc,       \* handler: "absent", "reading", "sending" or "gone"
  wr,       \* its frame task: "none", "running" or "stopped"
  lines,    \* lines read from the client so far
  (* Upstream *)
  addr,     \* resolved_upstream is set
  up,       \* upstream task: "resolving", "connecting" or "serving"
  conn,     \* its current connection
  rd,       \* per connection, the reader's control point
  upq,      \* the command channel
  hb,       \* the heartbeat task waits to send
  up_flag,  \* Metrics.upstream_imaging_up
  (* History *)
  from,     \* per client, the first frame broadcast after it subscribed
  got,      \* per client, the frames written to it, in order
  lagged,   \* per client, its receiver reported Lagged
  fwd       \* per client, its last line that reached a telescope

feed     == <<tail, ring>>
client   == <<next, pc, wr, lines>>
upstream == <<addr, up, conn, rd, upq, hb, up_flag>>
history  == <<from, got, lagged, fwd>>
vars     == <<feed, client, upstream, history>>

Lines == (Clients \X (1 .. MaxLines)) \cup {Beat}
Frames == 1 .. MaxFrames

(* Every variable keeps its type, and the command channel its capacity.    *)
TypeOK ==
  /\ tail \in 0 .. MaxFrames
  /\ ring \in [0 .. RingCap - 1 -> 0 .. MaxFrames]
  /\ next \in [Clients -> 0 .. MaxFrames + 1]
  /\ pc \in [Clients -> {"absent", "reading", "sending", "gone"}]
  /\ wr \in [Clients -> {"none", "running", "stopped"}]
  /\ lines \in [Clients -> 0 .. MaxLines]
  /\ addr \in BOOLEAN
  /\ up \in {"resolving", "connecting", "serving"}
  /\ conn \in Slots \cup {NoSlot}
  /\ rd \in [Slots -> {"none", "spawned", "header", "payload", "dead"}]
  /\ upq \in Seq(Lines) /\ Len(upq) <= UpCap
  /\ hb \in BOOLEAN
  /\ up_flag \in BOOLEAN
  /\ from \in [Clients -> 0 .. MaxFrames + 1]
  /\ got \in [Clients -> Seq(Frames)]
  /\ lagged \in [Clients -> BOOLEAN]
  /\ fwd \in [Clients -> 0 .. MaxLines]

Init ==
  /\ tail = 0
  /\ ring = [i \in 0 .. RingCap - 1 |-> 0]
  /\ next = [c \in Clients |-> 0]
  /\ pc = [c \in Clients |-> "absent"]
  /\ wr = [c \in Clients |-> "none"]
  /\ lines = [c \in Clients |-> 0]
  /\ addr = ~Transparent
  /\ up = "resolving"
  /\ conn = NoSlot
  /\ rd = [e \in Slots |-> "none"]
  /\ upq = <<>>
  /\ hb = FALSE
  /\ up_flag = FALSE
  /\ from = [c \in Clients |-> 0]
  /\ got = [c \in Clients |-> <<>>]
  /\ lagged = [c \in Clients |-> FALSE]
  /\ fwd = [c \in Clients |-> 0]

-----------------------------------------------------------------------------
(* The broadcast ring                                                      *)

Slot(n) == (n - 1) % RingCap

(* The oldest frame still in the ring.                                     *)
(* Mutants: one frame too old, one too new.                                *)
Oldest_OffByOne == IF tail >= RingCap THEN tail - RingCap ELSE 1
Oldest_TooNew == IF tail >= RingCap THEN tail - RingCap + 2 ELSE 1
Oldest == IF tail > RingCap THEN tail - RingCap + 1 ELSE 1

(* send: the frame takes the place of the oldest; the sender never waits.  *)
Publish ==
  /\ tail < MaxFrames
  /\ tail' = tail + 1
  /\ ring' = [ring EXCEPT ![Slot(tail + 1)] = tail + 1]

-----------------------------------------------------------------------------
(* Clients: the accept loop and handle_client()                            *)

(* The receiver exists from the moment of the accept, so no frame that     *)
(* arrives while the handler starts is missed.                             *)
(* Mutant: the receiver starts after the next frame.                       *)
Subscribe_Late(c) ==
  /\ next' = [next EXCEPT ![c] = IF tail < MaxFrames THEN tail + 2
                                                     ELSE tail + 1]
  /\ from' = [from EXCEPT ![c] = tail + 1]
Subscribe(c) ==
  /\ next' = [next EXCEPT ![c] = tail + 1]
  /\ from' = [from EXCEPT ![c] = tail + 1]

(* In transparent mode a redirected connection also tells the address.     *)
Accept(c) ==
  /\ pc[c] = "absent"
  /\ pc' = [pc EXCEPT ![c] = "reading"]
  /\ wr' = [wr EXCEPT ![c] = "running"]
  /\ Subscribe(c)
  /\ addr' \in (IF Transparent /\ ~addr THEN BOOLEAN ELSE {addr})
  /\ UNCHANGED <<feed, lines, up, conn, rd, upq, hb, up_flag, got, lagged,
                 fwd>>

(* A command line arrives and is held until the channel has room.          *)
ReadLine(c) ==
  /\ pc[c] = "reading"
  /\ c \in Talkers
  /\ lines[c] < MaxLines
  /\ lines' = [lines EXCEPT ![c] = @ + 1]
  /\ pc' = [pc EXCEPT ![c] = "sending"]
  /\ UNCHANGED <<feed, next, wr, upstream, history>>

SendLine(c) ==
  /\ pc[c] = "sending"
  /\ Len(upq) < UpCap
  /\ upq' = Append(upq, <<c, lines[c]>>)
  /\ pc' = [pc EXCEPT ![c] = "reading"]
  /\ UNCHANGED <<feed, next, wr, lines, addr, up, conn, rd, hb, up_flag,
                 history>>

(* End of file or an oversized line: the frame task is aborted.            *)
Close(c) ==
  /\ pc[c] = "reading"
  /\ pc' = [pc EXCEPT ![c] = "gone"]
  /\ wr' = [wr EXCEPT ![c] = "stopped"]
  /\ UNCHANGED <<feed, next, lines, upstream, history>>

(* A read error returns past the abort: the frame task goes on until one   *)
(* of its writes fails.                                                    *)
ReadError(c) ==
  /\ pc[c] = "reading"
  /\ pc' = [pc EXCEPT ![c] = "gone"]
  /\ UNCHANGED <<feed, next, wr, lines, upstream, history>>

(* recv returns the next frame and the task writes it.                     *)
ShowFrame(c) ==
  /\ wr[c] = "running"
  /\ next[c] \in Oldest .. tail
  /\ got' = [got EXCEPT ![c] = Append(@, ring[Slot(next[c])])]
  /\ next' = [next EXCEPT ![c] = @ + 1]
  /\ UNCHANGED <<feed, pc, wr, lines, upstream, from, lagged, fwd>>

(* Mutant: after Lagged the receiver stays where it was.                   *)
SkipFrames_Stay(c) ==
  /\ wr[c] = "running"
  /\ next[c] < Oldest
  /\ lagged' = [lagged EXCEPT ![c] = TRUE]
  /\ UNCHANGED <<feed, client, upstream, from, got, fwd>>

(* The receiver fell out of the ring: recv reports Lagged, once, and goes  *)
(* on from the oldest frame left.                                          *)
SkipFrames(c) ==
  /\ wr[c] = "running"
  /\ next[c] < Oldest
  /\ next' = [next EXCEPT ![c] = Oldest]
  /\ lagged' = [lagged EXCEPT ![c] = TRUE]
  /\ UNCHANGED <<feed, pc, wr, lines, upstream, from, got, fwd>>

(* A write to the client fails: its frame task ends.                       *)
FrameError(c) ==
  /\ wr[c] = "running"
  /\ next[c] \in Oldest .. tail
  /\ wr' = [wr EXCEPT ![c] = "stopped"]
  /\ UNCHANGED <<feed, next, pc, lines, upstream, history>>

-----------------------------------------------------------------------------
(* The heartbeat task: every 5 s, whether or not there is a connection     *)

BeatTick ==
  /\ ~hb
  /\ hb' = TRUE
  /\ UNCHANGED <<feed, client, addr, up, conn, rd, upq, up_flag, history>>

BeatSend ==
  /\ hb
  /\ Len(upq) < UpCap
  /\ upq' = Append(upq, Beat)
  /\ hb' = FALSE
  /\ UNCHANGED <<feed, client, addr, up, conn, rd, up_flag, history>>

-----------------------------------------------------------------------------
(* The upstream task                                                       *)

Resolve ==
  /\ up = "resolving"
  /\ addr
  /\ up' = "connecting"
  /\ UNCHANGED <<feed, client, addr, conn, rd, upq, hb, up_flag, history>>

(* A connect attempt succeeds; failures and pauses change nothing.         *)
Connect(e) ==
  /\ up = "connecting"
  /\ rd[e] \in {"none", "dead"}
  /\ up' = "serving"
  /\ conn' = e
  /\ rd' = [rd EXCEPT ![e] = "spawned"]
  /\ UNCHANGED <<feed, client, addr, upq, hb, up_flag, history>>

(* One line is written to the telescope.                                   *)
UpWrite ==
  /\ up = "serving"
  /\ upq # <<>>
  /\ upq' = Tail(upq)
  /\ LET m == Head(upq)
     IN fwd' = IF m = Beat THEN fwd ELSE [fwd EXCEPT ![m[1]] = m[2]]
  /\ UNCHANGED <<feed, client, addr, up, conn, rd, hb, up_flag, from, got,
                 lagged>>

(* Mutant: the line is put back into the channel.                          *)
UpWriteError_Requeue ==
  /\ up = "serving"
  /\ upq # <<>>
  /\ upq' = Append(Tail(upq), Head(upq))
  /\ up' = "connecting"
  /\ UNCHANGED <<feed, client, addr, conn, rd, hb, up_flag, history>>

(* Mutant: the address is asked for again.                                 *)
UpWriteError_Forget ==
  /\ up = "serving"
  /\ upq # <<>>
  /\ upq' = Tail(upq)
  /\ up' = "resolving"
  /\ addr' = FALSE
  /\ UNCHANGED <<feed, client, conn, rd, hb, up_flag, history>>

(* The write fails: the line is lost; the old reader is left running.      *)
UpWriteError ==
  /\ up = "serving"
  /\ upq # <<>>
  /\ upq' = Tail(upq)
  /\ up' = "connecting"
  /\ UNCHANGED <<feed, client, addr, conn, rd, hb, up_flag, history>>

ReaderGone ==
  /\ up = "serving"
  /\ rd[conn] = "dead"
  /\ up' = "connecting"
  /\ UNCHANGED <<feed, client, addr, conn, rd, upq, hb, up_flag, history>>

-----------------------------------------------------------------------------
(* The reader of a connection, upstream_reader_task()                      *)

ReaderStart(e) ==
  /\ rd[e] = "spawned"
  /\ rd' = [rd EXCEPT ![e] = "header"]
  /\ up_flag' = TRUE
  /\ UNCHANGED <<feed, client, addr, up, conn, upq, hb, history>>

(* An 80-byte header of a sane size.                                       *)
ReadHeader(e) ==
  /\ rd[e] = "header"
  /\ rd' = [rd EXCEPT ![e] = "payload"]
  /\ UNCHANGED <<feed, client, addr, up, conn, upq, hb, up_flag, history>>

(* The whole payload is in: the frame goes to every client.                *)
ReadPayload(e) ==
  /\ rd[e] = "payload"
  /\ Publish
  /\ rd' = [rd EXCEPT ![e] = "header"]
  /\ UNCHANGED <<client, addr, up, conn, upq, hb, up_flag, history>>

(* The connection ends between frames or inside one, or a header announces *)
(* more than 50 MB.                                                        *)
ReaderEnd(e) ==
  /\ rd[e] \in {"header", "payload"}
  /\ rd' = [rd EXCEPT ![e] = "dead"]
  /\ up_flag' = FALSE
  /\ UNCHANGED <<feed, client, addr, up, conn, upq, hb, history>>

-----------------------------------------------------------------------------
Client(c) ==
  \/ Accept(c) \/ ReadLine(c) \/ SendLine(c) \/ Close(c) \/ ReadError(c)
  \/ ShowFrame(c) \/ SkipFrames(c) \/ FrameError(c)

Upstream ==
  \/ BeatTick \/ BeatSend \/ Resolve \/ UpWrite \/ UpWriteError \/ ReaderGone
  \/ \E e \in Slots : Connect(e)

Reader(e) ==
  ReaderStart(e) \/ ReadHeader(e) \/ ReadPayload(e) \/ ReaderEnd(e)

Next ==
  \/ \E c \in Clients : Client(c)
  \/ \E e \in Slots : Reader(e)
  \/ Upstream

Spec == Init /\ [][Next]_vars

-----------------------------------------------------------------------------
(* Safety                                                                  *)

(* What a client was shown is exactly what was broadcast since its accept  *)
(* up to its receiver's position, in order, without a gap, a repetition or *)
(* a frame from before or ahead, unless its receiver reported Lagged: then *)
(* frames may be missing (handle_client's frame task).                     *)
NothingMissed ==
  \A c \in Clients :
    /\ \A i \in 1 .. Len(got[c]) : got[c][i] \in from[c] .. (next[c] - 1)
    /\ ~lagged[c] =>
         got[c] = [i \in 1 .. (next[c] - from[c]) |-> from[c] + i - 1]

(* A receiver reports Lagged only after more than RingCap frames have been *)
(* broadcast since its client was accepted: the ring absorbs any shorter   *)
(* burst, and what was broadcast before the accept does not count.         *)
LagIsReal ==
  \A c \in Clients : lagged[c] => tail - (from[c] - 1) > RingCap

(* The lines of a client reach the telescope in order and none of them     *)
(* twice, across heartbeats, other clients' lines and reconnects.          *)
LinesInOrder ==
  \A i \in 1 .. Len(upq) : upq[i] # Beat =>
    LET c == upq[i][1] IN
      /\ upq[i][2] > fwd[c]
      /\ upq[i][2] <= lines[c] - (IF pc[c] = "sending" THEN 1 ELSE 0)
      /\ \A j \in 1 .. Len(upq) :
           j > i /\ upq[j] # Beat /\ upq[j][1] = c => upq[j][2] > upq[i][2]

(* The dashboard never shows the imaging connection as up when no reader   *)
(* is alive.                                                               *)
ImagingFlagHonest ==
  up_flag => \E e \in Slots : rd[e] \in {"header", "payload"}

(* "Whether the upstream imaging TCP connection is live" (metrics.rs:58):  *)
(* the flag is up while the current connection's reader runs.              *)
ImagingFlagLive ==
  up = "serving" /\ rd[conn] \in {"header", "payload"} => up_flag

(* The ring holds the last frames, each in its own slot.                   *)
RingHolds == \A n \in Oldest .. tail : ring[Slot(n)] = n

(* A receiver is between the frame after its accept and the next one to be *)
(* broadcast; before the accept there is nothing of it.                    *)
Receivers ==
  \A c \in Clients :
    /\ from[c] <= next[c] /\ next[c] <= tail + 1
    /\ wr[c] = "running" => from[c] > 0
    /\ pc[c] = "absent" => wr[c] = "none" /\ got[c] = <<>> /\ ~lagged[c]

(* What reached a telescope was read from the client and sent before.      *)
FwdBehind ==
  \A c \in Clients : fwd[c] <= lines[c] - (IF pc[c] = "sending" THEN 1 ELSE 0)

(* Types, honest lags, an honest status flag, and what the ring, the       *)
(* receivers and the forwarded lines are, for any ring and any burst.      *)
FanoutInv ==
  /\ TypeOK /\ LagIsReal /\ ImagingFlagHonest
  /\ RingHolds /\ Receivers /\ FwdBehind

(* The proxy implements the frame feed: every client sees one stream in    *)
(* order, none of its frames twice (upstream_reader_task, handle_client).  *)
Feed == INSTANCE FrameFeed
          WITH Viewers <- Clients, published <- tail, seen <- got
FeedSpec == Feed!Spec

-----------------------------------------------------------------------------
(* Liveness                                                                *)

CONSTANT Stalled    \* clients that stop reading their socket

ASSUME StalledAssumption == Stalled \subseteq Clients

(* Tokio runs what is ready, its channels serve waiters in order, select!  *)
(* picks at random; the telescope is reachable again in the end, and an    *)
(* abandoned connection ends.  Clients in Stalled take no more frames.     *)
Fairness ==
  /\ \A c \in Clients : SF_vars(SendLine(c))
  /\ \A c \in Clients \ Stalled :
       WF_vars(ShowFrame(c) \/ SkipFrames(c) \/ FrameError(c))
  /\ SF_vars(BeatSend)
  /\ WF_vars(Resolve)
  /\ WF_vars(\E e \in Slots : Connect(e))
  /\ SF_vars(UpWrite \/ UpWriteError)
  /\ WF_vars(ReaderGone)
  /\ \A e \in Slots :
       /\ WF_vars(ReaderStart(e))
       /\ SF_vars((up # "serving" \/ e # conn) /\ ReaderEnd(e))

LiveSpec == Spec /\ Fairness

(* A client that keeps reading is shown what is broadcast, or skips to it, *)
(* whatever another client does: one slow client delays nobody.            *)
FramesArrive ==
  \A c \in Clients \ Stalled :
    (wr[c] = "running" /\ next[c] <= tail)
      ~> (wr[c] # "running" \/ next[c] = tail + 1)

(* A handler that holds a line gets rid of it: the channel drains again    *)
(* after every outage, however many heartbeats filled it.                  *)
LineForwarded ==
  \A c \in Clients : (pc[c] = "sending") ~> (pc[c] = "reading")
=============================================================================
