---------------------------- MODULE ControlMuxLive ----------------------------
(***************************************************************************)
(* The fairness the runtime gives the control proxy, and what it promises  *)
(* under it.                                                               *)
(*                                                                         *)
(* Tokio polls every task that is ready: weak fairness.  Its Mutex and its *)
(* bounded channels serve waiters first come first served, and select!     *)
(* picks at random among ready branches: strong fairness for a task that   *)
(* waits for the lock or for room, and for the write loop's receive.  Of   *)
(* the telescope: it answers what it received while the connection lasts,  *)
(* and closes a connection whose other half was dropped.  Of a client:     *)
(* unless it is in Stalled, it keeps reading its socket (or resets it).    *)
(* Nobody is forced to send, to connect or to disconnect.                  *)
(***************************************************************************)
EXTENDS ControlMux

CONSTANT Stalled    \* clients that stop reading their socket

ASSUME StalledAssumption == Stalled \subseteq Clients

(* A task is at one await at a time, so one condition covers its steps.    *)
HandlerFairness(c) ==
  SF_vars(Register(c) \/ RegisterFull(c) \/ OverflowReply(c) \/ Send(c)
            \/ HookReplySend(c))

WriterFairness(c) == WF_vars(WriteReply(c) \/ WriteError(c))

UpstreamFairness ==
  /\ SF_vars(\/ UpStart \/ DrainBegin \/ DrainEnd \/ Serve
             \/ \E e \in Slots : Connect(e)
             \/ \E id \in Ids : DrainOne(id))
  /\ SF_vars(UpWrite \/ UpWriteError)
  /\ WF_vars(ReaderGone)

(* The write loop has given this connection up and dropped its half.       *)
Abandoned(e) == up # "serving" \/ e # conn

ReaderFairness(e) ==
  /\ SF_vars(ReaderStart(e) \/ TakePending(e) \/ TakeUntracked(e) \/ Route(e))
  /\ \A id \in Ids : SF_vars(ReadResponse(e, id))
  /\ SF_vars(Abandoned(e) /\ ReaderEnd(e))

Fairness ==
  /\ \A c \in Clients : HandlerFairness(c)
  /\ \A c \in Clients \ Stalled : WriterFairness(c)
  /\ UpstreamFairness
  /\ \A e \in Slots : ReaderFairness(e)
  /\ SF_vars(HeartbeatSend)

LiveSpec == Spec /\ Fairness

-----------------------------------------------------------------------------
(* A request never waits for ever in the pending map: it is answered, or   *)
(* refused at the next reconnect, whatever connections break in between.   *)
RequestSettles ==
  \A id \in Ids : (id \in DOMAIN pending) ~> (id \notin DOMAIN pending)

(* A handler that took a request always comes back to its read loop: with  *)
(* the map at its limit the client gets its error, with the channel full   *)
(* it gets its turn (control.rs, MAX_PENDING_REQUESTS: an immediate error  *)
(* rather than being queued indefinitely).                                 *)
HandlerReturns ==
  \A c \in Clients \ Stalled :
    (pc[c] \in {"lock", "overflow", "sending"}) ~> (pc[c] = "reading")

=============================================================================
