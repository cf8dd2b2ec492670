--------------------------- MODULE ControlMuxProofs ---------------------------
(***************************************************************************)
(* Proofs about the control proxy, for every number of clients, channel    *)
(* capacity and bound.                                                     *)
(*                                                                         *)
(* The first part is about routing: types, the limit of waiting requests,  *)
(* and that what is on its way is for its owner (RoutingInv).              *)
(*                                                                         *)
(* The second part is about what becomes of a request: it is in one place  *)
(* of the proxy at a time, is replied to at most once and, seen from       *)
(* outside, is a ledger entry that is closed once.  Its argument has two   *)
(* layers.  First, what every action does to the four places a request     *)
(* can be in (AtHandler, InMap, AtReader, InResp): most actions leave all  *)
(* four alone (PlacesKept), ten move one id.  Then the invariant and the   *)
(* refinement follow from these effects alone.                             *)
(***************************************************************************)
EXTENDS ControlMuxInv, ControlMuxRefinement, FiniteSetTheorems, TLAPS

-----------------------------------------------------------------------------
(* The helpers keep their types.                                           *)

(* telescope.send from a hook leaves a channel of lines.                   *)
LEMMA AfterHookType ==
  ASSUME NEW q \in Seq(Lines), NEW r \in AfterHook(q)
  PROVE  r \in Seq(Lines)
<1>1. CASE r = q
  BY <1>1
<1>2. CASE r = Append(q, Anon)
  BY <1>2 DEF Lines
<1> QED
  BY <1>1, <1>2 DEF AfterHook

(* A channel that was dropped is an empty sequence.                        *)
LEMMA EmptySeq == \A S : <<>> \in Seq(S)
OBVIOUS

(* A broadcast leaves every subscriber with a sequence of lines.           *)
LEMMA BroadcastType ==
  ASSUME ev \in [Clients -> Seq(Lines)], NEW m \in Lines, Broadcast(m)
  PROVE  ev' \in [Clients -> Seq(Lines)]
<1>1. ASSUME NEW q \in Seq(Lines) PROVE Pushed(q, m) \in Seq(Lines)
  <2>1. CASE Len(q) < EvCap
    BY <2>1 DEF Pushed
  <2>2. CASE ~(Len(q) < EvCap)
    <3>1. Len(q) # 0
      BY <2>2, ControlAssumption
    <3>2. q # <<>>
      BY <3>1
    <3> QED
      BY <2>2, <3>2 DEF Pushed
  <2> QED
    BY <2>1, <2>2
<1> QED
  BY <1>1 DEF Broadcast

(* A reply of the right type leaves the response channels well typed.      *)
LEMMA SendReplyType ==
  ASSUME resp \in [Clients -> Seq(Replies)], NEW c \in Clients,
         NEW r \in Replies, SendReply(c, r)
  PROVE  resp' \in [Clients -> Seq(Replies)]
<1>1. CASE Open(c) /\ resp' = [resp EXCEPT ![c] = Append(@, r)]
  <2>1. Append(resp[c], r) \in Seq(Replies)
    OBVIOUS
  <2> QED
    BY <1>1, <2>1
<1>2. CASE UNCHANGED resp
  BY <1>2
<1> QED
  BY <1>1, <1>2 DEF SendReply
-----------------------------------------------------------------------------
(* Types                                                                   *)

(* Every step keeps the types, given who owns what.                        *)
LEMMA TypeStep == RoutingInv /\ [Next]_vars => TypeOK'
<1> SUFFICES ASSUME RoutingInv, [Next]_vars
             PROVE  TypeOK'
  OBVIOUS
<1>0. /\ SharedType /\ ClientType /\ UpstreamType /\ HistoryType
      /\ ConnChosen /\ Ownership
  BY DEF RoutingInv, TypeOK
<1>1. ASSUME NEW c \in Clients, NEW o \in OrigIds, Request(c, o) PROVE TypeOK'
  <2>1. SharedType'
    BY <1>0, <1>1, AfterHookType, ControlAssumption
       DEF Request, Allocate, SharedType, CanAllocate
  <2>2. ClientType'
    <3>1. next_id \in Lines
      BY <1>0, <1>1, ControlAssumption
         DEF Request, Allocate, SharedType, CanAllocate, Ids, Lines
    <3> QED
      BY <1>0, <1>1, <3>1 DEF Request, Allocate, ClientType, HandlerPoints
  <2>3. UpstreamType'
    BY <1>0, <1>1 DEF Request, Allocate, UpstreamType, upstream
  <2>4. HistoryType'
    <3>1. Allocated' = Allocated \cup {next_id}
      BY <1>0, <1>1, ControlAssumption DEF Request, Allocate, SharedType, Allocated
    <3>2. [client |-> c, orig |-> o] \in Requests \cup {NoReq}
      BY DEF Requests
    <3>3. Put(owner, next_id, [client |-> c, orig |-> o])
            \in [Allocated \cup {next_id} -> Requests \cup {NoReq}]
      BY <1>0, <3>2 DEF Put, HistoryType
    <3> QED
      BY <1>0, <1>1, <3>1, <3>3 DEF Request, Allocate, HistoryType
  <2> QED
    BY <2>1, <2>2, <2>3, <2>4 DEF TypeOK
<1>2. ASSUME NEW c \in Clients, NEW o \in OrigIds, HookReply(c, o) PROVE TypeOK'
  BY <1>0, <1>2, AfterHookType DEF HookReply, shared, clients, upstream,
     history, Allocated, TypeOK, SharedType, ClientType, UpstreamType,
     HistoryType, HandlerPoints
<1>3. ASSUME NEW c \in Clients, Accept(c) PROVE TypeOK'
  BY <1>0, <1>3, AfterHookType DEF Accept, shared, clients, upstream,
     history, Allocated, TypeOK, SharedType, ClientType, UpstreamType,
     HistoryType, HandlerPoints
<1>4. ASSUME NEW c \in Clients, Notification(c) PROVE TypeOK'
  <2>1. SharedType'
    BY <1>0, <1>4, AfterHookType DEF Notification, SharedType, shared
  <2>2. ClientType'
    BY <1>0, <1>4 DEF Notification, ClientType, HandlerPoints, Lines
  <2>3. UpstreamType'
    BY <1>0, <1>4 DEF Notification, UpstreamType, upstream
  <2>4. HistoryType'
    BY <1>0, <1>4 DEF Notification, Allocated, HistoryType, history, shared
  <2> QED
    BY <2>1, <2>2, <2>3, <2>4 DEF TypeOK
<1>5. ASSUME NEW c \in Clients, HookBlock(c) PROVE TypeOK'
  BY <1>0, <1>5, AfterHookType DEF HookBlock, shared, clients, upstream,
     history, Allocated, TypeOK, SharedType, ClientType, UpstreamType,
     HistoryType, HandlerPoints
<1>6. ASSUME NEW c \in Clients, HookReplySend(c) PROVE TypeOK'
  <2>1. SharedType'
    BY <1>0, <1>6 DEF HookReplySend, SharedType, shared, Done
  <2>2. ClientType'
    <3> DEFINE r == [id |-> Anon, orig |-> horig[c], kind |-> "hook"]
    <3>1. r \in Replies
      BY <1>0, <1>6 DEF HookReplySend, Replies, Lines, ClientType, Ownership, HookHeld
    <3>2. resp' \in [Clients -> Seq(Replies)]
      BY <1>0, <1>6, <3>1, SendReplyType DEF HookReplySend, ClientType
    <3> QED
      BY <1>0, <1>6, <3>2 DEF HookReplySend, Done, ClientType, HandlerPoints, Lines
  <2>3. UpstreamType'
    BY <1>0, <1>6 DEF HookReplySend, UpstreamType, upstream, Done
  <2>4. HistoryType'
    BY <1>0, <1>6 DEF HookReplySend, Allocated, HistoryType, history, shared, Done
  <2> QED
    BY <2>1, <2>2, <2>3, <2>4 DEF TypeOK
<1>7. ASSUME NEW c \in Clients, Register(c) PROVE TypeOK'
  <2>1. SharedType'
    <3>1. hand[c] \in Ids /\ horig[c] \in OrigIds
      BY <1>0, <1>7, ControlAssumption, SMTT(30)
         DEF Register, Ownership, HandOwned, SharedType, Allocated, Ids
    <3>2. [client |-> c, orig |-> horig[c]] \in Requests
      BY <3>1 DEF Requests
    <3>3. /\ DOMAIN pending' \subseteq Ids
          /\ pending' \in [DOMAIN pending' -> Requests]
      BY <1>0, <1>7, <3>1, <3>2 DEF Register, Put, SharedType
    <3> QED
      BY <1>0, <1>7, <3>3 DEF Register, SharedType
  <2>2. ClientType'
    BY <1>0, <1>7 DEF Register, ClientType, clients, HandlerPoints
  <2>3. UpstreamType'
    BY <1>0, <1>7 DEF Register, UpstreamType, upstream
  <2>4. HistoryType'
    BY <1>0, <1>7 DEF Register, Allocated, HistoryType, history, shared
  <2> QED
    BY <2>1, <2>2, <2>3, <2>4 DEF TypeOK
<1>8. ASSUME NEW c \in Clients, RegisterFull(c) PROVE TypeOK'
  BY <1>0, <1>8 DEF RegisterFull, shared, clients, upstream, history,
     Allocated, TypeOK, SharedType, ClientType, UpstreamType, HistoryType,
     HandlerPoints
<1>9. ASSUME NEW c \in Clients, OverflowReply(c) PROVE TypeOK'
  <2>1. SharedType'
    BY <1>0, <1>9 DEF OverflowReply, SharedType, shared, Done
  <2>2. ClientType'
    <3> DEFINE r == [id |-> hand[c], orig |-> horig[c], kind |-> "overflow"]
    <3>1. r \in Replies
      BY <1>0, <1>9 DEF OverflowReply, Replies, Lines, ClientType, Ownership, HandOwned
    <3>2. resp' \in [Clients -> Seq(Replies)]
      BY <1>0, <1>9, <3>1, SendReplyType DEF OverflowReply, ClientType
    <3> QED
      BY <1>0, <1>9, <3>2 DEF OverflowReply, Done, ClientType, HandlerPoints, Lines
  <2>3. UpstreamType'
    BY <1>0, <1>9 DEF OverflowReply, UpstreamType, upstream, Done
  <2>4. HistoryType'
    BY <1>0, <1>9 DEF OverflowReply, Allocated, HistoryType, history, shared, Done
  <2> QED
    BY <2>1, <2>2, <2>3, <2>4 DEF TypeOK
<1>10. ASSUME NEW c \in Clients, Send(c) PROVE TypeOK'
  <2>1. SharedType'
    BY <1>0, <1>10 DEF Send, Enqueue, SharedType, ClientType
  <2>2. ClientType'
    BY <1>0, <1>10 DEF Send, Enqueue, Done, ClientType, HandlerPoints, Lines
  <2>3. UpstreamType'
    BY <1>0, <1>10 DEF Send, Enqueue, UpstreamType, upstream, Done
  <2>4. HistoryType'
    BY <1>0, <1>10 DEF Send, Enqueue, Allocated, HistoryType, history, shared, Done
  <2> QED
    BY <2>1, <2>2, <2>3, <2>4 DEF TypeOK
<1>11. ASSUME NEW c \in Clients, CloseClient(c) PROVE TypeOK'
  <2>1. SharedType'
    BY <1>0, <1>11, AfterHookType DEF CloseClient, SharedType, shared
  <2>2. ClientType'
    BY <1>0, <1>11, EmptySeq DEF CloseClient, ClientType, HandlerPoints
  <2>3. UpstreamType'
    BY <1>0, <1>11 DEF CloseClient, UpstreamType, upstream
  <2>4. HistoryType'
    BY <1>0, <1>11 DEF CloseClient, Allocated, HistoryType, history, shared
  <2> QED
    BY <2>1, <2>2, <2>3, <2>4 DEF TypeOK
<1>12. ASSUME NEW c \in Clients, ReadError(c) PROVE TypeOK'
  BY <1>0, <1>12, AfterHookType DEF ReadError, shared, clients, upstream,
     history, Allocated, TypeOK, SharedType, ClientType, UpstreamType,
     HistoryType, HandlerPoints
<1>13. ASSUME NEW c \in Clients, WriteReply(c) PROVE TypeOK'
  <2>1. SharedType'
    BY <1>0, <1>13 DEF WriteReply, SharedType, shared
  <2>2. ClientType'
    BY <1>0, <1>13 DEF WriteReply, ClientType, clients, HandlerPoints
  <2>3. UpstreamType'
    BY <1>0, <1>13 DEF WriteReply, UpstreamType, upstream
  <2>4. HistoryType'
    <3>1. resp[c] \in Seq(Replies) /\ resp[c] # <<>>
      BY <1>0, <1>13 DEF WriteReply, ClientType
    <3>2. Head(resp[c]) \in Replies
      BY <3>1
    <3>3. Head(resp[c]).id \in Lines
      BY <3>2 DEF Replies
    <3> QED
      BY <1>0, <1>13, <3>3 DEF WriteReply, HistoryType, Lines, Allocated, shared
  <2> QED
    BY <2>1, <2>2, <2>3, <2>4 DEF TypeOK
<1>14. ASSUME NEW c \in Clients, WriteEvent(c) PROVE TypeOK'
  BY <1>0, <1>14 DEF WriteEvent, shared, clients, upstream, history,
     Allocated, TypeOK, SharedType, ClientType, UpstreamType, HistoryType,
     HandlerPoints
<1>15. ASSUME NEW c \in Clients, WriteError(c) PROVE TypeOK'
  <2>1. SharedType'
    BY <1>0, <1>15 DEF WriteError, SharedType, shared
  <2>2. ClientType'
    BY <1>0, <1>15, EmptySeq DEF WriteError, ClientType
  <2>3. UpstreamType'
    BY <1>0, <1>15 DEF WriteError, UpstreamType, upstream
  <2>4. HistoryType'
    BY <1>0, <1>15 DEF WriteError, Allocated, HistoryType, history, shared
  <2> QED
    BY <2>1, <2>2, <2>3, <2>4 DEF TypeOK
<1>16. ASSUME UpStart PROVE TypeOK'
  BY <1>0, <1>16 DEF UpStart, shared, clients, upstream, history, Allocated,
     TypeOK, SharedType, ClientType, UpstreamType, HistoryType, UpPoints
<1>17. ASSUME NEW e \in Slots, Connect(e) PROVE TypeOK'
  BY <1>0, <1>17 DEF Connect, shared, clients, upstream, history, Allocated,
     TypeOK, SharedType, ClientType, UpstreamType, HistoryType, UpPoints,
     ReaderPoints
<1>18. ASSUME DrainBegin PROVE TypeOK'
  BY <1>0, <1>18 DEF DrainBegin, shared, clients, upstream, history,
     Allocated, TypeOK, SharedType, ClientType, UpstreamType, HistoryType,
     UpPoints
<1>19. ASSUME NEW id \in Ids, DrainOne(id) PROVE TypeOK'
  <2>1. SharedType'
    BY <1>0, <1>19 DEF DrainOne, Remove, SharedType
  <2>2. ClientType'
    <3> DEFINE d == pending[id].client
               r == [id |-> id, orig |-> pending[id].orig,
                     kind |-> "reconnecting"]
    <3>1. d \in Clients /\ r \in Replies
      BY <1>0, <1>19 DEF DrainOne, SharedType, Requests, Replies, Lines
    <3>2. resp' \in [Clients -> Seq(Replies)]
      <4>1. Append(resp[d], r) \in Seq(Replies)
        BY <1>0, <3>1 DEF ClientType
      <4> QED
        BY <1>0, <1>19, <3>1, <4>1 DEF DrainOne, Refuse, ClientType
    <3> QED
      BY <1>0, <1>19, <3>2 DEF DrainOne, ClientType
  <2>3. UpstreamType'
    BY <1>0, <1>19 DEF DrainOne, UpstreamType, upstream
  <2>4. HistoryType'
    BY <1>0, <1>19 DEF DrainOne, Allocated, HistoryType, history, shared
  <2> QED
    BY <2>1, <2>2, <2>3, <2>4 DEF TypeOK
<1>20. ASSUME DrainEnd PROVE TypeOK'
  BY <1>0, <1>20 DEF DrainEnd, shared, clients, upstream, history, Allocated,
     TypeOK, SharedType, ClientType, UpstreamType, HistoryType, UpPoints
<1>21. ASSUME Serve PROVE TypeOK'
  BY <1>0, <1>21, AfterHookType DEF Serve, shared, clients, upstream,
     history, Allocated, TypeOK, SharedType, ClientType, UpstreamType,
     HistoryType, UpPoints, ReaderPoints
<1>22. ASSUME UpWrite PROVE TypeOK'
  <2>1. SharedType'
    BY <1>0, <1>22 DEF UpWrite, SharedType, shared
  <2>2. ClientType'
    BY <1>0, <1>22 DEF UpWrite, ClientType, clients
  <2>3. UpstreamType'
    <3>1. conn \in Slots
      BY <1>0, <1>22 DEF UpWrite, ConnChosen
    <3>2. Head(upq) \in Lines
      BY <1>0, <1>22 DEF UpWrite, SharedType
    <3>3. sent[conn] \cup ({Head(upq)} \ {Anon}) \in SUBSET Ids
      BY <1>0, <3>1, <3>2 DEF UpstreamType, Lines
    <3> QED
      BY <1>0, <1>22, <3>1, <3>3 DEF UpWrite, UpstreamType
  <2>4. HistoryType'
    BY <1>0, <1>22 DEF UpWrite, Allocated, HistoryType, history, shared
  <2> QED
    BY <2>1, <2>2, <2>3, <2>4 DEF TypeOK
<1>23. ASSUME UpWriteError PROVE TypeOK'
  BY <1>0, <1>23 DEF UpWriteError, shared, clients, upstream, history,
     Allocated, TypeOK, SharedType, ClientType, UpstreamType, HistoryType,
     UpPoints
<1>24. ASSUME ReaderGone PROVE TypeOK'
  BY <1>0, <1>24 DEF ReaderGone, shared, clients, upstream, history,
     Allocated, TypeOK, SharedType, ClientType, UpstreamType, HistoryType,
     UpPoints
<1>25. ASSUME HeartbeatTick PROVE TypeOK'
  <2>1. SharedType'
    BY <1>0, <1>25, ControlAssumption
       DEF HeartbeatTick, Allocate, SharedType, CanAllocate
  <2>2. ClientType'
    BY <1>0, <1>25 DEF HeartbeatTick, Allocate, ClientType, clients
  <2>3. UpstreamType'
    <3>1. next_id \in Lines
      BY <1>0, <1>25, ControlAssumption
         DEF HeartbeatTick, Allocate, SharedType, CanAllocate, Ids, Lines
    <3> QED
      BY <1>0, <1>25, <3>1 DEF HeartbeatTick, Allocate, UpstreamType
  <2>4. HistoryType'
    <3>1. Allocated' = Allocated \cup {next_id}
      BY <1>0, <1>25, ControlAssumption DEF HeartbeatTick, Allocate, SharedType, Allocated
    <3>2. NoReq \in Requests \cup {NoReq}
      BY DEF Requests
    <3>3. Put(owner, next_id, NoReq)
            \in [Allocated \cup {next_id} -> Requests \cup {NoReq}]
      BY <1>0, <3>2 DEF Put, HistoryType
    <3> QED
      BY <1>0, <1>25, <3>1, <3>3 DEF HeartbeatTick, Allocate, HistoryType
  <2> QED
    BY <2>1, <2>2, <2>3, <2>4 DEF TypeOK
<1>26. ASSUME HeartbeatSend PROVE TypeOK'
  <2>1. SharedType'
    BY <1>0, <1>26 DEF HeartbeatSend, Enqueue, SharedType, UpstreamType
  <2>2. ClientType'
    BY <1>0, <1>26 DEF HeartbeatSend, Enqueue, ClientType, clients
  <2>3. UpstreamType'
    BY <1>0, <1>26 DEF HeartbeatSend, Enqueue, UpstreamType, Lines
  <2>4. HistoryType'
    BY <1>0, <1>26 DEF HeartbeatSend, Enqueue, Allocated, HistoryType, history, shared
  <2> QED
    BY <2>1, <2>2, <2>3, <2>4 DEF TypeOK
<1>27. ASSUME NEW e \in Slots, ReaderStart(e) PROVE TypeOK'
  BY <1>0, <1>27 DEF ReaderStart, shared, clients, upstream, history,
     Allocated, TypeOK, SharedType, ClientType, UpstreamType, HistoryType,
     ReaderPoints
<1>28. ASSUME NEW e \in Slots, ReadInvalid(e) PROVE TypeOK'
  BY <1>0, <1>28 DEF ReadInvalid, LineArrives, shared, clients, upstream,
     history, Allocated, TypeOK, SharedType, ClientType, UpstreamType,
     HistoryType
<1>29. ASSUME NEW e \in Slots, ReadEvent(e) PROVE TypeOK'
  <2>1. SharedType'
    BY <1>0, <1>29, AfterHookType DEF ReadEvent, SharedType, shared, LineArrives
  <2>2. ClientType'
    <3>1. ev' \in [Clients -> Seq(Lines)]
      BY <1>0, <1>29, BroadcastType DEF ReadEvent, ClientType, Lines
    <3> QED
      BY <1>0, <1>29, <3>1 DEF ReadEvent, ClientType
  <2>3. UpstreamType'
    BY <1>0, <1>29 DEF ReadEvent, UpstreamType, upstream, LineArrives
  <2>4. HistoryType'
    BY <1>0, <1>29 DEF ReadEvent, Allocated, HistoryType, history, shared, LineArrives
  <2> QED
    BY <2>1, <2>2, <2>3, <2>4 DEF TypeOK
<1>30. ASSUME NEW e \in Slots, NEW l \in Lines, ReadResponse(e, l) PROVE TypeOK'
  BY <1>0, <1>30 DEF ReadResponse, LineArrives, shared, clients, upstream,
     history, Allocated, TypeOK, SharedType, ClientType, UpstreamType,
     HistoryType, ReaderPoints
<1>31. ASSUME NEW e \in Slots, TakePending(e) PROVE TypeOK'
  <2>1. SharedType'
    BY <1>0, <1>31 DEF TakePending, Remove, SharedType
  <2>2. ClientType'
    BY <1>0, <1>31 DEF TakePending, ClientType, clients
  <2>3. UpstreamType'
    BY <1>0, <1>31 DEF TakePending, SharedType, UpstreamType, ReaderPoints
  <2>4. HistoryType'
    BY <1>0, <1>31 DEF TakePending, Allocated, HistoryType, history, shared
  <2> QED
    BY <2>1, <2>2, <2>3, <2>4 DEF TypeOK
<1>32. ASSUME NEW e \in Slots, TakeUntracked(e) PROVE TypeOK'
  <2>1. SharedType'
    BY <1>0, <1>32, AfterHookType DEF TakeUntracked, SharedType, shared
  <2>2. ClientType'
    <3>1. rdid[e] \in Lines
      BY <1>0 DEF UpstreamType
    <3>2. ev' \in [Clients -> Seq(Lines)]
      BY <1>0, <1>32, <3>1, BroadcastType DEF TakeUntracked, ClientType
    <3> QED
      BY <1>0, <1>32, <3>2 DEF TakeUntracked, ClientType
  <2>3. UpstreamType'
    BY <1>0, <1>32 DEF TakeUntracked, UpstreamType, ReaderPoints, Lines
  <2>4. HistoryType'
    BY <1>0, <1>32 DEF TakeUntracked, Allocated, HistoryType, history, shared
  <2> QED
    BY <2>1, <2>2, <2>3, <2>4 DEF TypeOK
<1>33. ASSUME NEW e \in Slots, Route(e) PROVE TypeOK'
  <2>1. SharedType'
    BY <1>0, <1>33 DEF Route, SharedType, shared
  <2>2. ClientType'
    <3> DEFINE r == [id |-> rdid[e], orig |-> rdreq[e].orig,
                     kind |-> "answer"]
    <3>1. rdreq[e].client \in Clients /\ r \in Replies
      BY <1>0, <1>33
         DEF Route, Ownership, ReaderOwned, UpstreamType, Requests, Replies
    <3>2. resp' \in [Clients -> Seq(Replies)]
      BY <1>0, <1>33, <3>1, SendReplyType DEF Route, ClientType
    <3> QED
      BY <1>0, <1>33, <3>2 DEF Route, ClientType
  <2>3. UpstreamType'
    BY <1>0, <1>33 DEF Route, UpstreamType, ReaderPoints, Lines
  <2>4. HistoryType'
    BY <1>0, <1>33 DEF Route, Allocated, HistoryType, history, shared
  <2> QED
    BY <2>1, <2>2, <2>3, <2>4 DEF TypeOK
<1>34. ASSUME NEW e \in Slots, ReaderEnd(e) PROVE TypeOK'
  BY <1>0, <1>34 DEF ReaderEnd, shared, clients, upstream, history,
     Allocated, TypeOK, SharedType, ClientType, UpstreamType, HistoryType,
     ReaderPoints
<1>36. ASSUME NEW e \in Slots, ReaderPanic(e) PROVE TypeOK'
  BY <1>0, <1>36 DEF ReaderPanic, shared, clients, upstream, history,
     Allocated, TypeOK, SharedType, ClientType, UpstreamType, HistoryType,
     ReaderPoints
<1>35. CASE UNCHANGED vars
  BY <1>0, <1>35 DEF vars, shared, clients, upstream, history,
     TypeOK, SharedType, ClientType, UpstreamType, HistoryType, Allocated
<1> QED
  BY <1>1, <1>2, <1>3, <1>4, <1>5, <1>6, <1>7, <1>8, <1>9, <1>10, <1>11, <1>12, <1>13, <1>14, <1>15, <1>16, <1>17, <1>18, <1>19, <1>20, <1>21, <1>22, <1>23, <1>24, <1>25, <1>26, <1>27, <1>28, <1>29, <1>30, <1>31, <1>32, <1>33, <1>34, <1>35, <1>36
     DEF Next, Handler, Writer, Upstream, Heartbeat, Reader

-----------------------------------------------------------------------------
(* Ownership                                                               *)

(* Ids that were given out keep their owner.                               *)
OwnerKept ==
  \A id \in Allocated : id \in Allocated' /\ owner'[id] = owner[id]

(* fetch_add never gives an id out twice: no step changes the owner of an  *)
(* allocated id.                                                           *)
LEMMA OwnerStep == TypeOK /\ [Next]_vars => OwnerKept
<1> SUFFICES ASSUME TypeOK, [Next]_vars
             PROVE  OwnerKept
  OBVIOUS
<1>0. SharedType /\ HistoryType
  BY DEF TypeOK
<1>1. CASE UNCHANGED <<next_id, owner>>
  BY <1>1 DEF OwnerKept, Allocated
<1>2. ASSUME NEW r,
             next_id' = next_id + 1 /\ owner' = Put(owner, next_id, r)
      PROVE  OwnerKept
  <2>1. ASSUME NEW id \in Allocated
        PROVE  id \in Allocated' /\ id # next_id
    BY <1>0, <1>2, ControlAssumption DEF SharedType, Allocated
  <2> QED
    BY <1>0, <1>2, <2>1 DEF OwnerKept, Put, HistoryType
<1>3. CASE \E c \in Clients, o \in OrigIds : Request(c, o)
  BY <1>2, <1>3 DEF Request, Allocate
<1>4. CASE HeartbeatTick
  BY <1>2, <1>4 DEF HeartbeatTick, Allocate
<1> QED
  BY <1>1, <1>3, <1>4
     DEF Next, Handler, Writer, Upstream, Heartbeat, Reader, vars, shared,
         upstream, history, Accept, Notification, HookReply,
         HookBlock, HookReplySend, Register, RegisterFull, OverflowReply,
         Send, CloseClient, ReadError, WriteReply, WriteEvent, WriteError,
         UpStart, Connect, DrainBegin, DrainOne, DrainEnd, Serve, UpWrite,
         UpWriteError, ReaderGone, HeartbeatSend, ReaderStart, ReadInvalid,
         ReadEvent, ReadResponse, TakePending, TakeUntracked, Route, ReaderEnd,
         ReaderPanic

(* What appending to, or taking from, a response channel leaves in it.     *)
LEMMA AppendElements ==
  ASSUME NEW S, NEW s \in Seq(S), NEW r \in S
  PROVE  /\ Len(Append(s, r)) = Len(s) + 1
         /\ \A i \in 1 .. Len(s) + 1 :
              Append(s, r)[i] = IF i = Len(s) + 1 THEN r ELSE s[i]
OBVIOUS

(* The elements of a queue without its first.                              *)
LEMMA TailElements ==
  ASSUME NEW S, NEW s \in Seq(S), s # <<>>
  PROVE  /\ Len(Tail(s)) = Len(s) - 1
         /\ \A i \in 1 .. Len(s) - 1 : Tail(s)[i] = s[i + 1]
OBVIOUS

(* A reply answers a request of the client it is queued for.               *)
Owned(c, r) ==
  r.kind # "hook" => /\ r.id \in Allocated
                     /\ owner[r.id] = [client |-> c, orig |-> r.orig]

(* Queueing an owned reply for its client keeps all queued replies owned.  *)
LEMMA QueueAppend ==
  ASSUME ClientType, QueueOwned, OwnerKept,
         NEW c \in Clients, NEW r \in Replies, Owned(c, r),
         resp' = [resp EXCEPT ![c] = Append(@, r)]
  PROVE  QueueOwned'
<1> SUFFICES ASSUME NEW d \in Clients, NEW i \in 1 .. Len(resp'[d]),
                    resp'[d][i].kind # "hook"
             PROVE  /\ resp'[d][i].id \in Allocated'
                    /\ owner'[resp'[d][i].id]
                         = [client |-> d, orig |-> resp'[d][i].orig]
  BY DEF QueueOwned
<1>1. CASE d # c
  BY <1>1 DEF ClientType, QueueOwned, OwnerKept
<1>2. CASE d = c
  <2>1. resp'[d] = Append(resp[c], r) /\ resp[c] \in Seq(Replies)
    BY <1>2 DEF ClientType
  <2>2. CASE i = Len(resp[c]) + 1
    <3>1. resp'[d][i] = r
      BY <2>1, <2>2, AppendElements
    <3> QED
      BY <1>2, <3>1 DEF Owned, OwnerKept
  <2>3. CASE i # Len(resp[c]) + 1
    <3>1. i \in 1 .. Len(resp[c]) /\ resp'[d][i] = resp[c][i]
      BY <2>1, <2>3, AppendElements, SMTT(30)
    <3> QED
      BY <1>2, <3>1 DEF QueueOwned, OwnerKept
  <2> QED
    BY <2>2, <2>3
<1> QED
  BY <1>1, <1>2

(* So does sending it with .await.                                         *)
LEMMA QueueSend ==
  ASSUME ClientType, QueueOwned, OwnerKept,
         NEW c \in Clients, NEW r \in Replies, Owned(c, r), SendReply(c, r)
  PROVE  QueueOwned'
<1>1. CASE resp' = [resp EXCEPT ![c] = Append(@, r)]
  BY <1>1, QueueAppend
<1>2. CASE UNCHANGED resp
  BY <1>2 DEF QueueOwned, OwnerKept
<1> QED
  BY <1>1, <1>2 DEF SendReply

(* Every step keeps every holder of a request in agreement with the        *)
(* history of who the id was given to.                                     *)
LEMMA OwnershipStep == RoutingInv /\ [Next]_vars => Ownership'
<1> SUFFICES ASSUME RoutingInv, [Next]_vars
             PROVE  Ownership'
  OBVIOUS
<1>a. /\ SharedType /\ ClientType /\ UpstreamType /\ HistoryType
      /\ PendingOwned /\ HandOwned /\ HookHeld /\ ReaderOwned /\ QueueOwned
  BY DEF RoutingInv, TypeOK, Ownership
<1>b. OwnerKept
  BY OwnerStep DEF RoutingInv
<1>1. ASSUME NEW c \in Clients, NEW o \in OrigIds, Request(c, o) PROVE Ownership'
  <2>1. PendingOwned'
    BY <1>a, <1>b, <1>1 DEF Request, Allocate, PendingOwned, OwnerKept, upstream
  <2>2. HandOwned'
    <3>1. /\ next_id \in Allocated'
          /\ owner'[next_id] = [client |-> c, orig |-> o]
      BY <1>a, <1>1, ControlAssumption
         DEF Request, Allocate, Put, SharedType, HistoryType, Allocated
    <3>2. /\ pc'[c] = "lock" /\ hand'[c] = next_id /\ horig'[c] = o
          /\ \A d \in Clients \ {c} : /\ pc'[d] = pc[d] /\ hand'[d] = hand[d]
                                     /\ horig'[d] = horig[d]
      BY <1>a, <1>1 DEF Request, Allocate, ClientType
    <3> QED
      BY <1>a, <1>b, <3>1, <3>2 DEF HandOwned, OwnerKept
  <2>3. HookHeld'
    BY <1>a, <1>b, <1>1 DEF Request, Allocate, HookHeld, OwnerKept, upstream,
         ClientType
  <2>4. ReaderOwned'
    BY <1>a, <1>b, <1>1 DEF Request, Allocate, ReaderOwned, OwnerKept, upstream,
         UpstreamType
  <2>5. QueueOwned'
    BY <1>a, <1>b, <1>1 DEF Request, Allocate, QueueOwned, OwnerKept, upstream
  <2> QED
    BY <2>1, <2>2, <2>3, <2>4, <2>5 DEF Ownership
<1>2. ASSUME NEW c \in Clients, NEW o \in OrigIds, HookReply(c, o) PROVE Ownership'
  BY <1>a, <1>b, <1>2 DEF HookReply, upstream, history, OwnerKept, Ownership,
     PendingOwned, HandOwned, HookHeld, ReaderOwned, QueueOwned, ClientType
<1>3. ASSUME NEW c \in Clients, Accept(c) PROVE Ownership'
  BY <1>a, <1>b, <1>3 DEF Accept, upstream, history, OwnerKept, Ownership,
     PendingOwned, HandOwned, HookHeld, ReaderOwned, QueueOwned, ClientType
<1>4. ASSUME NEW c \in Clients, Notification(c) PROVE Ownership'
  BY <1>a, <1>b, <1>4 DEF Notification, upstream, history, OwnerKept,
     Ownership, PendingOwned, HandOwned, HookHeld, ReaderOwned, QueueOwned,
     ClientType
<1>5. ASSUME NEW c \in Clients, HookBlock(c) PROVE Ownership'
  BY <1>a, <1>b, <1>5 DEF HookBlock, clients, upstream, history, OwnerKept,
     Ownership, PendingOwned, HandOwned, HookHeld, ReaderOwned, QueueOwned
<1>6. ASSUME NEW c \in Clients, HookReplySend(c) PROVE Ownership'
  <2>1. PendingOwned'
    BY <1>a, <1>b, <1>6 DEF HookReplySend, PendingOwned, OwnerKept, shared,
         upstream, history, Done
  <2>2. HandOwned'
    BY <1>a, <1>b, <1>6 DEF HookReplySend, HandOwned, OwnerKept, shared,
         upstream, history, Done, ClientType
  <2>3. HookHeld'
    BY <1>a, <1>b, <1>6 DEF HookReplySend, HookHeld, OwnerKept, shared,
         upstream, history, Done, ClientType
  <2>4. ReaderOwned'
    BY <1>a, <1>b, <1>6 DEF HookReplySend, ReaderOwned, OwnerKept, shared,
         upstream, history, Done, UpstreamType
  <2>5. QueueOwned'
    <3> DEFINE r == [id |-> Anon, orig |-> horig[c], kind |-> "hook"]
    <3>1. r \in Replies /\ Owned(c, r)
      BY <1>a, <1>6 DEF HookReplySend, HookHeld, Replies, Lines, Owned
    <3> QED
      BY <1>a, <1>b, <1>6, <3>1, QueueSend DEF HookReplySend
  <2> QED
    BY <2>1, <2>2, <2>3, <2>4, <2>5 DEF Ownership
<1>7. ASSUME NEW c \in Clients, Register(c) PROVE Ownership'
  <2>1. PendingOwned'
    BY <1>a, <1>b, <1>7
       DEF Register, Put, PendingOwned, HandOwned, OwnerKept, SharedType
  <2>2. HandOwned'
    BY <1>a, <1>b, <1>7 DEF Register, HandOwned, OwnerKept, upstream,
         history, ClientType
  <2>3. HookHeld'
    BY <1>a, <1>b, <1>7 DEF Register, HookHeld, OwnerKept, upstream, history,
         ClientType
  <2>4. ReaderOwned'
    BY <1>a, <1>b, <1>7 DEF Register, ReaderOwned, OwnerKept, upstream,
         history, UpstreamType
  <2>5. QueueOwned'
    BY <1>a, <1>b, <1>7 DEF Register, QueueOwned, OwnerKept, upstream,
         history
  <2> QED
    BY <2>1, <2>2, <2>3, <2>4, <2>5 DEF Ownership
<1>8. ASSUME NEW c \in Clients, RegisterFull(c) PROVE Ownership'
  BY <1>a, <1>b, <1>8 DEF RegisterFull, shared, upstream, history, OwnerKept,
     Ownership, PendingOwned, HandOwned, HookHeld, ReaderOwned, QueueOwned,
     ClientType
<1>9. ASSUME NEW c \in Clients, OverflowReply(c) PROVE Ownership'
  <2>1. PendingOwned'
    BY <1>a, <1>b, <1>9 DEF OverflowReply, PendingOwned, OwnerKept, shared,
         upstream, history, Done
  <2>2. HandOwned'
    BY <1>a, <1>b, <1>9 DEF OverflowReply, HandOwned, OwnerKept, shared,
         upstream, history, Done, ClientType
  <2>3. HookHeld'
    BY <1>a, <1>b, <1>9 DEF OverflowReply, HookHeld, OwnerKept, shared,
         upstream, history, Done, ClientType
  <2>4. ReaderOwned'
    BY <1>a, <1>b, <1>9 DEF OverflowReply, ReaderOwned, OwnerKept, shared,
         upstream, history, Done, UpstreamType
  <2>5. QueueOwned'
    <3> DEFINE r == [id |-> hand[c], orig |-> horig[c], kind |-> "overflow"]
    <3>1. r \in Replies /\ Owned(c, r)
      BY <1>a, <1>9 DEF OverflowReply, HandOwned, ClientType, Replies, Owned
    <3> QED
      BY <1>a, <1>b, <1>9, <3>1, QueueSend DEF OverflowReply
  <2> QED
    BY <2>1, <2>2, <2>3, <2>4, <2>5 DEF Ownership
<1>10. ASSUME NEW c \in Clients, Send(c) PROVE Ownership'
  BY <1>a, <1>b, <1>10 DEF Send, Enqueue, upstream, history, Done, OwnerKept,
     Ownership, PendingOwned, HandOwned, HookHeld, ReaderOwned, QueueOwned,
     ClientType
<1>11. ASSUME NEW c \in Clients, CloseClient(c) PROVE Ownership'
  BY <1>a, <1>b, <1>11 DEF CloseClient, upstream, history, OwnerKept,
     Ownership, PendingOwned, HandOwned, HookHeld, ReaderOwned, QueueOwned,
     ClientType
<1>12. ASSUME NEW c \in Clients, ReadError(c) PROVE Ownership'
  BY <1>a, <1>b, <1>12 DEF ReadError, upstream, history, OwnerKept,
     Ownership, PendingOwned, HandOwned, HookHeld, ReaderOwned, QueueOwned,
     ClientType
<1>13. ASSUME NEW c \in Clients, WriteReply(c) PROVE Ownership'
  BY <1>a, <1>b, <1>13 DEF WriteReply, shared, upstream, OwnerKept,
     Ownership, PendingOwned, HandOwned, HookHeld, ReaderOwned, QueueOwned,
     ClientType
<1>14. ASSUME NEW c \in Clients, WriteEvent(c) PROVE Ownership'
  BY <1>a, <1>b, <1>14 DEF WriteEvent, shared, upstream, history, OwnerKept,
     Ownership, PendingOwned, HandOwned, HookHeld, ReaderOwned, QueueOwned,
     ClientType
<1>15. ASSUME NEW c \in Clients, WriteError(c) PROVE Ownership'
  BY <1>a, <1>b, <1>15 DEF WriteError, shared, upstream, history, OwnerKept,
     Ownership, PendingOwned, HandOwned, HookHeld, ReaderOwned, QueueOwned,
     ClientType
<1>16. ASSUME UpStart PROVE Ownership'
  BY <1>a, <1>b, <1>16 DEF UpStart, shared, clients, history, OwnerKept,
     Ownership, PendingOwned, HandOwned, HookHeld, ReaderOwned, QueueOwned
<1>17. ASSUME NEW e \in Slots, Connect(e) PROVE Ownership'
  BY <1>a, <1>b, <1>17 DEF Connect, clients, OwnerKept, Ownership,
     PendingOwned, HandOwned, HookHeld, ReaderOwned, QueueOwned,
     UpstreamType
<1>18. ASSUME DrainBegin PROVE Ownership'
  BY <1>a, <1>b, <1>18 DEF DrainBegin, shared, clients, history, OwnerKept,
     Ownership, PendingOwned, HandOwned, HookHeld, ReaderOwned, QueueOwned
<1>19. ASSUME NEW id \in Ids, DrainOne(id) PROVE Ownership'
  <2>1. PendingOwned'
    BY <1>a, <1>b, <1>19 DEF DrainOne, Remove, PendingOwned, OwnerKept
  <2>2. HandOwned'
    BY <1>a, <1>b, <1>19 DEF DrainOne, HandOwned, OwnerKept, upstream,
         ClientType
  <2>3. HookHeld'
    BY <1>a, <1>b, <1>19 DEF DrainOne, HookHeld, OwnerKept, upstream,
         ClientType
  <2>4. ReaderOwned'
    BY <1>a, <1>b, <1>19 DEF DrainOne, ReaderOwned, OwnerKept, upstream,
         UpstreamType
  <2>5. QueueOwned'
    <3> DEFINE d == pending[id].client
               r == [id |-> id, orig |-> pending[id].orig,
                     kind |-> "reconnecting"]
    <3>1. /\ d \in Clients /\ r \in Replies
          /\ pending[id] = [client |-> d, orig |-> r.orig]
      BY <1>a, <1>19 DEF DrainOne, SharedType, Requests, Replies, Lines
    <3>2. Owned(d, r)
      BY <1>a, <1>19, <3>1 DEF DrainOne, PendingOwned, Owned
    <3>3. CASE resp' = [resp EXCEPT ![d] = Append(@, r)]
      BY <1>a, <1>b, <3>1, <3>2, <3>3, QueueAppend
    <3>4. CASE UNCHANGED resp
      BY <1>a, <1>b, <3>4 DEF QueueOwned, OwnerKept
    <3> QED
      BY <1>19, <3>3, <3>4 DEF DrainOne, Refuse
  <2> QED
    BY <2>1, <2>2, <2>3, <2>4, <2>5 DEF Ownership
<1>20. ASSUME DrainEnd PROVE Ownership'
  BY <1>a, <1>b, <1>20 DEF DrainEnd, shared, clients, history, OwnerKept,
     Ownership, PendingOwned, HandOwned, HookHeld, ReaderOwned, QueueOwned
<1>21. ASSUME Serve PROVE Ownership'
  BY <1>a, <1>b, <1>21 DEF Serve, clients, history, OwnerKept, Ownership,
     PendingOwned, HandOwned, HookHeld, ReaderOwned, QueueOwned,
     UpstreamType
<1>22. ASSUME UpWrite PROVE Ownership'
  BY <1>a, <1>b, <1>22 DEF UpWrite, clients, history, OwnerKept, Ownership,
     PendingOwned, HandOwned, HookHeld, ReaderOwned, QueueOwned
<1>23. ASSUME UpWriteError PROVE Ownership'
  BY <1>a, <1>b, <1>23 DEF UpWriteError, clients, history, OwnerKept,
     Ownership, PendingOwned, HandOwned, HookHeld, ReaderOwned, QueueOwned
<1>24. ASSUME ReaderGone PROVE Ownership'
  BY <1>a, <1>b, <1>24 DEF ReaderGone, shared, clients, history, OwnerKept,
     Ownership, PendingOwned, HandOwned, HookHeld, ReaderOwned, QueueOwned
<1>25. ASSUME HeartbeatTick PROVE Ownership'
  BY <1>a, <1>b, <1>25 DEF HeartbeatTick, Allocate, clients, OwnerKept, Ownership,
     PendingOwned, HandOwned, HookHeld, ReaderOwned, QueueOwned
<1>26. ASSUME HeartbeatSend PROVE Ownership'
  BY <1>a, <1>b, <1>26 DEF HeartbeatSend, Enqueue, clients, history, OwnerKept,
     Ownership, PendingOwned, HandOwned, HookHeld, ReaderOwned, QueueOwned
<1>27. ASSUME NEW e \in Slots, ReaderStart(e) PROVE Ownership'
  BY <1>a, <1>b, <1>27 DEF ReaderStart, clients, history, OwnerKept,
     Ownership, PendingOwned, HandOwned, HookHeld, ReaderOwned, QueueOwned,
     UpstreamType
<1>28. ASSUME NEW e \in Slots, ReadInvalid(e) PROVE Ownership'
  BY <1>a, <1>b, <1>28 DEF ReadInvalid, clients, upstream, LineArrives,
     OwnerKept, Ownership, PendingOwned, HandOwned, HookHeld, ReaderOwned,
     QueueOwned
<1>29. ASSUME NEW e \in Slots, ReadEvent(e) PROVE Ownership'
  BY <1>a, <1>b, <1>29 DEF ReadEvent, upstream, LineArrives, OwnerKept,
     Ownership, PendingOwned, HandOwned, HookHeld, ReaderOwned, QueueOwned
<1>30. ASSUME NEW e \in Slots, NEW l \in Lines, ReadResponse(e, l) PROVE Ownership'
  BY <1>a, <1>b, <1>30 DEF ReadResponse, clients, LineArrives, OwnerKept,
     Ownership, PendingOwned, HandOwned, HookHeld, ReaderOwned, QueueOwned,
     UpstreamType
<1>31. ASSUME NEW e \in Slots, TakePending(e) PROVE Ownership'
  <2>1. PendingOwned'
    BY <1>a, <1>b, <1>31 DEF TakePending, Remove, PendingOwned, OwnerKept
  <2>2. HandOwned'
    BY <1>a, <1>b, <1>31 DEF TakePending, HandOwned, OwnerKept, clients,
         history, ClientType
  <2>3. HookHeld'
    BY <1>a, <1>b, <1>31 DEF TakePending, HookHeld, OwnerKept, clients,
         history, ClientType
  <2>4. ReaderOwned'
    <3>1. /\ rdid[e] \in Allocated /\ owner[rdid[e]] = pending[rdid[e]]
          /\ pending[rdid[e]] \in Requests
      BY <1>a, <1>31 DEF TakePending, PendingOwned, SharedType
    <3>2. /\ rd'[e] = "routing" /\ rdid'[e] = rdid[e]
          /\ rdreq'[e] = pending[rdid[e]]
          /\ \A f \in Slots \ {e} : /\ rd'[f] = rd[f] /\ rdid'[f] = rdid[f]
                                   /\ rdreq'[f] = rdreq[f]
      BY <1>a, <1>31 DEF TakePending, UpstreamType
    <3> QED
      BY <1>a, <1>b, <3>1, <3>2 DEF ReaderOwned, OwnerKept
  <2>5. QueueOwned'
    BY <1>a, <1>b, <1>31 DEF TakePending, QueueOwned, OwnerKept, clients,
         history
  <2> QED
    BY <2>1, <2>2, <2>3, <2>4, <2>5 DEF Ownership
<1>32. ASSUME NEW e \in Slots, TakeUntracked(e) PROVE Ownership'
  BY <1>a, <1>b, <1>32 DEF TakeUntracked, history, OwnerKept, Ownership,
     PendingOwned, HandOwned, HookHeld, ReaderOwned, QueueOwned,
     UpstreamType
<1>33. ASSUME NEW e \in Slots, Route(e) PROVE Ownership'
  <2>1. PendingOwned'
    BY <1>a, <1>b, <1>33 DEF Route, PendingOwned, OwnerKept, shared, history
  <2>2. HandOwned'
    BY <1>a, <1>b, <1>33 DEF Route, HandOwned, OwnerKept, shared, history,
         ClientType
  <2>3. HookHeld'
    BY <1>a, <1>b, <1>33 DEF Route, HookHeld, OwnerKept, shared, history,
         ClientType
  <2>4. ReaderOwned'
    BY <1>a, <1>b, <1>33 DEF Route, ReaderOwned, OwnerKept, shared, history,
         UpstreamType
  <2>5. QueueOwned'
    <3> DEFINE d == rdreq[e].client
               r == [id |-> rdid[e], orig |-> rdreq[e].orig,
                     kind |-> "answer"]
    <3>1. /\ d \in Clients /\ r \in Replies
          /\ rdreq[e] = [client |-> d, orig |-> r.orig]
      BY <1>a, <1>33 DEF Route, ReaderOwned, UpstreamType, Requests, Replies
    <3>2. Owned(d, r)
      BY <1>a, <1>33, <3>1 DEF Route, ReaderOwned, Owned
    <3> QED
      BY <1>a, <1>b, <1>33, <3>1, <3>2, QueueSend DEF Route
  <2> QED
    BY <2>1, <2>2, <2>3, <2>4, <2>5 DEF Ownership
<1>34. ASSUME NEW e \in Slots, ReaderEnd(e) PROVE Ownership'
  BY <1>a, <1>b, <1>34 DEF ReaderEnd, clients, OwnerKept, Ownership,
     PendingOwned, HandOwned, HookHeld, ReaderOwned, QueueOwned,
     UpstreamType
<1>36. ASSUME NEW e \in Slots, ReaderPanic(e) PROVE Ownership'
  BY <1>a, <1>b, <1>36 DEF ReaderPanic, clients, OwnerKept, Ownership,
     PendingOwned, HandOwned, HookHeld, ReaderOwned, QueueOwned,
     UpstreamType
<1>35. CASE UNCHANGED vars
  BY <1>a, <1>b, <1>35
     DEF vars, shared, clients, upstream, history, Ownership, PendingOwned,
         HandOwned, HookHeld, ReaderOwned, QueueOwned, OwnerKept
<1> QED
  BY <1>1, <1>2, <1>3, <1>4, <1>5, <1>6, <1>7, <1>8, <1>9, <1>10, <1>11, <1>12, <1>13, <1>14, <1>15, <1>16, <1>17, <1>18, <1>19, <1>20, <1>21, <1>22, <1>23, <1>24, <1>25, <1>26, <1>27, <1>28, <1>29, <1>30, <1>31, <1>32, <1>33, <1>34, <1>35, <1>36
     DEF Next, Handler, Writer, Upstream, Heartbeat, Reader

-----------------------------------------------------------------------------
(* The bound on the pending map                                            *)

(* The pending map is finite: its keys are ids.                            *)
LEMMA PendingFinite == SharedType => IsFiniteSet(DOMAIN pending)
<1>1. IsFiniteSet(Ids)
  BY FS_Interval, ControlAssumption DEF Ids
<1> QED
  BY <1>1, FS_Subset DEF SharedType

(* Check and insertion happen under one lock, so no step takes the pending *)
(* map over its limit.                                                     *)
LEMMA BoundStep ==
  SharedType /\ PendingBounded /\ [Next]_vars => PendingBounded'
<1> SUFFICES ASSUME SharedType, PendingBounded, [Next]_vars
             PROVE  PendingBounded'
  OBVIOUS
<1>0. /\ IsFiniteSet(DOMAIN pending)
      /\ Cardinality(DOMAIN pending) \in Nat
  BY PendingFinite, FS_CardinalityType
<1>1. CASE UNCHANGED pending
  BY <1>1 DEF PendingBounded
<1>2. ASSUME NEW c \in Clients, Register(c)
      PROVE  PendingBounded'
  <2>1. DOMAIN pending' = DOMAIN pending \cup {hand[c]}
    BY <1>2 DEF Register, Put
  <2>2. Cardinality(DOMAIN pending') <= Cardinality(DOMAIN pending) + 1
    BY <1>0, <2>1, FS_AddElement, SMTT(30)
  <2>3. Cardinality(DOMAIN pending') \in Nat
    BY <1>0, <2>1, FS_AddElement, FS_CardinalityType
  <2> QED
    BY <1>0, <1>2, <2>2, <2>3, ControlAssumption DEF Register, Full, PendingBounded
<1>3. ASSUME NEW id, pending' = Remove(pending, id)
      PROVE  PendingBounded'
  <2>1. DOMAIN pending' = DOMAIN pending \ {id}
    BY <1>3 DEF Remove
  <2>2. /\ Cardinality(DOMAIN pending') <= Cardinality(DOMAIN pending)
        /\ Cardinality(DOMAIN pending') \in Nat
    BY <1>0, <2>1, FS_Subset, FS_CardinalityType
  <2> QED
    BY <1>0, <2>2, ControlAssumption DEF PendingBounded
<1>4. CASE \E id \in Ids : DrainOne(id)
  BY <1>3, <1>4 DEF DrainOne
<1>5. CASE \E e \in Slots : TakePending(e)
  BY <1>3, <1>5 DEF TakePending
<1> QED
  BY <1>1, <1>2, <1>4, <1>5
     DEF Next, Handler, Writer, Upstream, Heartbeat, Reader, vars, shared,
         Request, Accept, Notification, HookReply, HookBlock, HookReplySend,
         RegisterFull, OverflowReply, Send, CloseClient, ReadError,
         WriteReply, WriteEvent, WriteError, UpStart, Connect, DrainBegin,
         DrainEnd, Serve, UpWrite, UpWriteError, ReaderGone, HeartbeatTick,
         HeartbeatSend, ReaderStart, ReadInvalid, ReadEvent, ReadResponse,
         TakeUntracked, Route, ReaderEnd, ReaderPanic

(* The upstream task has a connection from Connect on.                     *)
LEMMA ConnStep == ConnChosen /\ [Next]_vars => ConnChosen'
<1> SUFFICES ASSUME ConnChosen, [Next]_vars
             PROVE  ConnChosen'
  OBVIOUS
<1>1. CASE UNCHANGED <<up, conn>>
  BY <1>1 DEF ConnChosen
<1>2. CASE UpStart \/ UpWriteError \/ ReaderGone
  BY <1>2 DEF UpStart, UpWriteError, ReaderGone, ConnChosen
<1>3. CASE DrainBegin \/ DrainEnd \/ Serve
  BY <1>3 DEF DrainBegin, DrainEnd, Serve, ConnChosen
<1>4. CASE \E e \in Slots : Connect(e)
  BY <1>4 DEF Connect, ConnChosen
<1> QED
  BY <1>1, <1>2, <1>3, <1>4
     DEF Next, Handler, Writer, Upstream, Heartbeat, Reader, vars, upstream,
         Request, Accept, Notification, HookReply, HookBlock, HookReplySend,
         Register, RegisterFull, OverflowReply, Send, CloseClient, ReadError,
         WriteReply, WriteEvent, WriteError, DrainOne, UpWrite, HeartbeatTick,
         HeartbeatSend, ReaderStart, ReadInvalid, ReadEvent, ReadResponse,
         TakePending, TakeUntracked, Route, ReaderEnd, ReaderPanic

-----------------------------------------------------------------------------
(* The theorems                                                            *)

(* The proxy starts with nothing pending and nobody connected.             *)
LEMMA RoutingInit == Init => RoutingInv
<1> SUFFICES ASSUME Init
             PROVE  RoutingInv
  OBVIOUS
<1>1. SharedType
  <2>1. DOMAIN pending = {} /\ pending \in [DOMAIN pending -> Requests]
    BY DEF Init
  <2>2. next_id \in FirstId .. (FirstId + MaxIds)
    BY ControlAssumption DEF Init
  <2>3. upq \in Seq(Lines)
    BY EmptySeq DEF Init
  <2> QED
    BY <2>1, <2>2, <2>3 DEF Init, SharedType
<1>2. ClientType
  BY EmptySeq DEF Init, ClientType, HandlerPoints, Lines
<1>3. UpstreamType
  BY DEF Init, UpstreamType, UpPoints, ReaderPoints, Lines
<1>4. HistoryType
  <2>1. Allocated = {}
    BY ControlAssumption DEF Init, Allocated
  <2> QED
    BY <2>1 DEF Init, HistoryType
<1>5. ConnChosen
  BY DEF Init, ConnChosen
<1>6. Ownership
  BY EmptySeq
     DEF Init, Ownership, PendingOwned, HandOwned, HookHeld, ReaderOwned,
         QueueOwned
<1>7. PendingBounded
  <2>1. DOMAIN pending = {}
    BY DEF Init
  <2> QED
    BY <2>1, FS_EmptySet, ControlAssumption DEF PendingBounded
<1> QED
  BY <1>1, <1>2, <1>3, <1>4, <1>5, <1>6, <1>7 DEF RoutingInv, TypeOK

(* The routing invariant holds in every reachable state of the control     *)
(* proxy: types, ownership of every held request, the bound on the map.    *)
THEOREM RoutingInvariant == Spec => []RoutingInv
<1>1. Init => RoutingInv
  BY RoutingInit
<1>2. RoutingInv /\ [Next]_vars => RoutingInv'
  BY TypeStep, ConnStep, OwnershipStep, BoundStep DEF RoutingInv, TypeOK
<1> QED
  BY <1>1, <1>2, PTL DEF Spec

(* Every variable of the control proxy keeps its type.                     *)
THEOREM TypeCorrect == Spec => []TypeOK
<1>1. RoutingInv => TypeOK
  BY DEF RoutingInv
<1> QED
  BY <1>1, RoutingInvariant, PTL

(* At most MAX_PENDING_REQUESTS requests wait, whatever clients race.      *)
THEOREM PendingLimit == Spec => []PendingBounded
<1>1. RoutingInv => PendingBounded
  BY DEF RoutingInv
<1> QED
  BY <1>1, RoutingInvariant, PTL

(* Every reply on its way is for the client that asked and carries that    *)
(* client's own id, for any number of clients and of reconnects.           *)
THEOREM RoutingCorrect == Spec => []RoutedToOwner
<1>1. RoutingInv => RoutedToOwner
  <2> SUFFICES ASSUME RoutingInv
               PROVE  RoutedToOwner
    OBVIOUS
  <2>1. DOMAIN owner = Allocated /\ QueueOwned /\ ReaderOwned
    BY DEF RoutingInv, TypeOK, HistoryType, Ownership
  <2> QED
    BY <2>1 DEF RoutedToOwner, QueueOwned, ReaderOwned
<1> QED
  BY <1>1, RoutingInvariant, PTL

-----------------------------------------------------------------------------
(* Response channels                                                       *)

(* A reply that answers id waits in c's response channel.                  *)
InRespOf(c, id) == \E i \in 1 .. Len(resp[c]) : resp[c][i].id = id

(* Appending a reply adds its id, and keeps a channel's ids distinct when  *)
(* the id is new.                                                          *)
LEMMA ReplyAppended ==
  ASSUME ClientType, NEW c \in Clients, NEW r \in Replies,
         resp' = [resp EXCEPT ![c] = Append(@, r)]
  PROVE  /\ \A id : InResp(id)' <=> InResp(id) \/ id = r.id
         /\ OneReply /\ (r.id = Anon \/ ~InResp(r.id)) => OneReply'
         /\ HookAnon /\ (r.kind = "hook" => r.id = Anon) => HookAnon'
         /\ RespRoom /\ Len(resp[c]) < RespCap => RespRoom'
<1>1. /\ resp[c] \in Seq(Replies) /\ Len(resp[c]) \in Nat
      /\ Len(resp'[c]) = Len(resp[c]) + 1
      /\ \A i \in 1 .. Len(resp[c]) : resp'[c][i] = resp[c][i]
      /\ resp'[c][Len(resp[c]) + 1] = r
      /\ \A d \in Clients \ {c} : resp'[d] = resp[d]
  BY AppendElements DEF ClientType
<1>2. ASSUME NEW id PROVE InResp(id)' <=> InResp(id) \/ id = r.id
  <2>1. ASSUME NEW d \in Clients, NEW i \in 1 .. Len(resp'[d]),
               resp'[d][i].id = id
        PROVE  InResp(id) \/ id = r.id
    BY <1>1, <2>1 DEF InResp
  <2>2. ASSUME NEW d \in Clients, NEW i \in 1 .. Len(resp[d]),
               resp[d][i].id = id
        PROVE  i \in 1 .. Len(resp'[d]) /\ resp'[d][i].id = id
    BY <1>1, <2>2
  <2>3. id = r.id => InResp(id)'
    BY <1>1 DEF InResp
  <2> QED
    BY <2>1, <2>2, <2>3 DEF InResp
<1>3. ASSUME OneReply, r.id = Anon \/ ~InResp(r.id)
      PROVE  OneReply'
  <2> SUFFICES ASSUME NEW d \in Clients, NEW i \in 1 .. Len(resp'[d]),
                      NEW j \in 1 .. Len(resp'[d]),
                      resp'[d][i].id # Anon, resp'[d][i].id = resp'[d][j].id
               PROVE  i = j
    BY DEF OneReply
  <2>1. CASE d # c
    BY <1>1, <1>3, <2>1 DEF OneReply
  <2>2. CASE d = c
    BY <1>1, <1>3, <2>2 DEF OneReply, InResp
  <2> QED
    BY <2>1, <2>2
<1>4. ASSUME HookAnon, r.kind = "hook" => r.id = Anon
      PROVE  HookAnon'
  BY <1>1, <1>4 DEF HookAnon
<1>5. ASSUME RespRoom, Len(resp[c]) < RespCap PROVE RespRoom'
  BY <1>1, <1>5, ControlAssumption DEF RespRoom
<1> QED
  BY <1>2, <1>3, <1>4, <1>5

(* Dropping a channel removes its client's ids.                            *)
LEMMA ChannelDropped ==
  ASSUME ClientType, QueueOwned, HookAnon, NEW c \in Clients,
         resp' = [resp EXCEPT ![c] = <<>>]
  PROVE  /\ \A id \in Ids : InResp(id)' <=> InResp(id) /\ ~InRespOf(c, id)
         /\ OneReply => OneReply'
         /\ HookAnon'
         /\ RespRoom => RespRoom'
<1>1. /\ Len(resp'[c]) = 0
      /\ \A d \in Clients \ {c} : resp'[d] = resp[d]
  BY DEF ClientType
<1>2. ASSUME NEW id \in Ids
      PROVE  InResp(id)' <=> InResp(id) /\ ~InRespOf(c, id)
  <2>1. ASSUME NEW d \in Clients \ {c}, InRespOf(d, id), InRespOf(c, id)
        PROVE  FALSE
    <3>1. id # Anon
      BY ControlAssumption DEF Ids
    <3>2. PICK i \in 1 .. Len(resp[d]) : resp[d][i].id = id
      BY <2>1 DEF InRespOf
    <3>3. PICK j \in 1 .. Len(resp[c]) : resp[c][j].id = id
      BY <2>1 DEF InRespOf
    <3>4. owner[id] = [client |-> d, orig |-> resp[d][i].orig]
      BY <3>1, <3>2 DEF QueueOwned, HookAnon
    <3>5. owner[id] = [client |-> c, orig |-> resp[c][j].orig]
      BY <3>1, <3>3 DEF QueueOwned, HookAnon
    <3> QED
      BY <3>4, <3>5
  <2>2. ASSUME NEW d \in Clients, InRespOf(d, id)'
        PROVE  d # c /\ InRespOf(d, id)
    BY <1>1, <2>2 DEF InRespOf
  <2>3. ASSUME NEW d \in Clients \ {c}, InRespOf(d, id)
        PROVE  InRespOf(d, id)'
    BY <1>1, <2>3 DEF InRespOf
  <2>4. InResp(id) <=> \E d \in Clients : InRespOf(d, id)
    BY DEF InResp, InRespOf
  <2>5. InResp(id)' <=> \E d \in Clients : InRespOf(d, id)'
    BY DEF InResp, InRespOf
  <2> QED
    BY <2>1, <2>2, <2>3, <2>4, <2>5
<1>3. OneReply => OneReply'
  BY <1>1 DEF OneReply
<1>4. HookAnon'
  BY <1>1 DEF HookAnon
<1>5. RespRoom => RespRoom'
  BY <1>1, ControlAssumption DEF RespRoom
<1> QED
  BY <1>2, <1>3, <1>4, <1>5

(* Taking the first reply removes its id, which no other reply carries.    *)
LEMMA ReplyTaken ==
  ASSUME ClientType, QueueOwned, HookAnon, OneReply, NEW c \in Clients,
         resp[c] # <<>>, resp' = [resp EXCEPT ![c] = Tail(@)]
  PROVE  /\ Head(resp[c]).id \in Lines
         /\ Head(resp[c]).id # Anon =>
              /\ Head(resp[c]).id \in Allocated
              /\ owner[Head(resp[c]).id]
                   = [client |-> c, orig |-> Head(resp[c]).orig]
         /\ \A id \in Ids : /\ id = Head(resp[c]).id => InResp(id)
                            /\ InResp(id)'
                                 <=> InResp(id) /\ id # Head(resp[c]).id
         /\ OneReply' /\ HookAnon' /\ (RespRoom => RespRoom')
<1> DEFINE h == Head(resp[c])
<1>1. /\ resp[c] \in Seq(Replies) /\ Len(resp[c]) \in Nat /\ Len(resp[c]) # 0
      /\ Len(resp'[c]) = Len(resp[c]) - 1
      /\ \A i \in 1 .. Len(resp[c]) - 1 : resp'[c][i] = resp[c][i + 1]
      /\ h = resp[c][1]
      /\ \A d \in Clients \ {c} : resp'[d] = resp[d]
  BY TailElements DEF ClientType
<1>2. h \in Replies
  BY <1>1
<1>3. h.id \in Lines
  BY <1>2 DEF Replies
<1>4. h.id # Anon => /\ h.id \in Allocated
                     /\ owner[h.id] = [client |-> c, orig |-> h.orig]
  BY <1>1 DEF QueueOwned, HookAnon
<1>5. ASSUME NEW id \in Ids
      PROVE  /\ id = h.id => InResp(id)
             /\ InResp(id)' <=> InResp(id) /\ id # h.id
  <2>0. id # Anon
    BY ControlAssumption DEF Ids
  <2>1. ASSUME NEW d \in Clients \ {c}, NEW i \in 1 .. Len(resp[d]),
               resp[d][i].id = h.id, h.id = id
        PROVE  FALSE
    <3>1. owner[id] = [client |-> d, orig |-> resp[d][i].orig]
      BY <2>0, <2>1 DEF QueueOwned, HookAnon
    <3> QED
      BY <1>4, <2>0, <2>1, <3>1
  <2>2. ASSUME NEW i \in 1 .. Len(resp[c]) - 1, resp[c][i + 1].id = h.id,
               h.id = id
        PROVE  FALSE
    BY <1>1, <2>0, <2>2 DEF OneReply
  <2>3. ASSUME NEW d \in Clients, NEW i \in 1 .. Len(resp'[d]),
               resp'[d][i].id = id
        PROVE  InResp(id) /\ id # h.id
    <3>1. CASE d = c
      <4>1. /\ i \in 1 .. Len(resp[c]) - 1 /\ i + 1 \in 1 .. Len(resp[c])
            /\ resp[c][i + 1].id = id
        BY <1>1, <2>3, <3>1
      <4> QED
        BY <2>2, <4>1 DEF InResp
    <3>2. CASE d # c
      BY <1>1, <2>1, <2>3, <3>2 DEF InResp
    <3> QED
      BY <3>1, <3>2
  <2>4. ASSUME NEW d \in Clients, NEW i \in 1 .. Len(resp[d]),
               resp[d][i].id = id, id # h.id
        PROVE  InResp(id)'
    <3>1. CASE d = c
      <4>1. i # 1
        BY <1>1, <2>4, <3>1
      <4>2. i - 1 \in 1 .. Len(resp'[c]) /\ resp'[c][i - 1] = resp[c][i]
        BY <1>1, <3>1, <4>1
      <4> QED
        BY <2>4, <3>1, <4>2 DEF InResp
    <3>2. CASE d # c
      BY <1>1, <2>4, <3>2 DEF InResp
    <3> QED
      BY <3>1, <3>2
  <2>5. id = h.id => InResp(id)
    <3>1. 1 \in 1 .. Len(resp[c])
      BY <1>1
    <3> QED
      BY <1>1, <3>1 DEF InResp
  <2> QED
    BY <2>3, <2>4, <2>5 DEF InResp
<1>6. OneReply'
  <2> SUFFICES ASSUME NEW d \in Clients, NEW i \in 1 .. Len(resp'[d]),
                      NEW j \in 1 .. Len(resp'[d]),
                      resp'[d][i].id # Anon, resp'[d][i].id = resp'[d][j].id
               PROVE  i = j
    BY DEF OneReply
  <2>1. CASE d # c
    BY <1>1, <2>1 DEF OneReply
  <2>2. CASE d = c
    <3>1. /\ i + 1 \in 1 .. Len(resp[c]) /\ resp'[c][i] = resp[c][i + 1]
          /\ j + 1 \in 1 .. Len(resp[c]) /\ resp'[c][j] = resp[c][j + 1]
      BY <1>1, <2>2
    <3>2. i + 1 = j + 1
      BY <2>2, <3>1 DEF OneReply
    <3> QED
      BY <3>2
  <2> QED
    BY <2>1, <2>2
<1>7. HookAnon'
  BY <1>1 DEF HookAnon
<1>8. RespRoom => RespRoom'
  BY <1>1, ControlAssumption DEF RespRoom
<1> QED
  BY <1>3, <1>4, <1>5, <1>6, <1>7, <1>8

-----------------------------------------------------------------------------
(* What an action does to the places of a request                          *)

HandlersKept ==
  \A c \in Clients :
    /\ pc'[c] \in {"lock", "overflow"} <=> pc[c] \in {"lock", "overflow"}
    /\ pc[c] \in {"lock", "overflow"} => hand'[c] = hand[c]
ReadersKept ==
  \A e \in Slots :
    /\ rd'[e] = "routing" <=> rd[e] = "routing"
    /\ rd[e] = "routing" => rdid'[e] = rdid[e]
PlacesKept == HandlersKept /\ ReadersKept /\ UNCHANGED <<pending, resp, got>>

(* The four places and the replies written, before and after a step.       *)
SameHandler(id) == AtHandler(id)' <=> AtHandler(id)
SameMap(id)     == InMap(id)' <=> InMap(id)
SameReader(id)  == AtReader(id)' <=> AtReader(id)
SameResp(id)    == InResp(id)' <=> InResp(id)
SameGot(id)     == id \in got' <=> id \in got

(* Handlers that keep what they hold hold the same requests.               *)
LEMMA HandlersSame == HandlersKept => \A id : SameHandler(id)
BY DEF HandlersKept, SameHandler, AtHandler

(* Likewise readers, of which still only one holds a request.              *)
LEMMA ReadersSame ==
  ReadersKept => (\A id : SameReader(id)) /\ (OneReader => OneReader')
BY DEF ReadersKept, SameReader, AtReader, OneReader

(* A step that moves no request keeps every request where it is, and each  *)
(* in one place.                                                           *)
LEMMA PlacesSame ==
  ASSUME PlacesKept
  PROVE  \A id \in Ids : /\ SameHandler(id) /\ SameMap(id) /\ SameReader(id)
                         /\ SameResp(id) /\ SameGot(id)
BY HandlersSame, ReadersSame
   DEF PlacesKept, SameMap, SameResp, SameGot, InMap, InResp

(* An action that touches none of the places keeps the invariant.          *)
LEMMA QuietReply ==
  ASSUME ReplyParts, OwnerKept, PlacesKept
  PROVE  ReplyParts'
<1>1. OnePlace'
  BY PlacesSame
     DEF ReplyParts, OnePlace, SameHandler, SameMap, SameReader, SameResp,
         SameGot
<1>2. OneReader'
  BY ReadersSame DEF ReplyParts, PlacesKept
<1>3. OneReply' /\ HookAnon' /\ RespRoom'
  BY DEF ReplyParts, PlacesKept, OneReply, HookAnon, RespRoom
<1>4. GotAllocated'
  BY DEF ReplyParts, PlacesKept, GotAllocated, OwnerKept
<1> QED
  BY <1>1, <1>2, <1>3, <1>4 DEF ReplyParts

(* The ids a handler, the map, a reader or a channel holds were allocated. *)
LEMMA HeldAllocated ==
  ASSUME RoutingInv, ReplyParts, NEW id \in Ids,
         AtHandler(id) \/ InMap(id) \/ AtReader(id) \/ InResp(id)
  PROVE  /\ id \in Allocated
         /\ owner[id] \in Requests
<1>0. id # Anon
  BY ControlAssumption DEF Ids
<1>1. CASE AtHandler(id)
  <2>1. PICK c \in Clients : pc[c] \in {"lock", "overflow"} /\ hand[c] = id
    BY <1>1 DEF AtHandler
  <2>2. /\ id \in Allocated /\ horig[c] \in OrigIds
        /\ owner[id] = [client |-> c, orig |-> horig[c]]
    BY <2>1 DEF RoutingInv, Ownership, HandOwned
  <2> QED
    BY <2>2 DEF Requests
<1>2. CASE InMap(id)
  BY <1>2 DEF InMap, RoutingInv, Ownership, PendingOwned, TypeOK, SharedType
<1>3. CASE AtReader(id)
  BY <1>3 DEF AtReader, RoutingInv, Ownership, ReaderOwned
<1>4. CASE InResp(id)
  <2>1. PICK c \in Clients : \E i \in 1 .. Len(resp[c]) : resp[c][i].id = id
    BY <1>4 DEF InResp
  <2>2. PICK i \in 1 .. Len(resp[c]) : resp[c][i].id = id
    BY <2>1
  <2>3. resp[c][i] \in Replies
    BY DEF RoutingInv, TypeOK, ClientType
  <2>4. resp[c][i].orig \in OrigIds
    BY <2>3 DEF Replies
  <2>5. /\ id \in Allocated
        /\ owner[id] = [client |-> c, orig |-> resp[c][i].orig]
    BY <1>0, <2>2 DEF ReplyParts, HookAnon, RoutingInv, Ownership, QueueOwned
  <2> QED
    BY <2>4, <2>5 DEF Requests
<1> QED
  BY <1>1, <1>2, <1>3, <1>4

(* A request puts a fresh id in its handler's hand.                        *)
LEMMA RequestEffect ==
  ASSUME RoutingInv, ReplyParts, OwnerKept,
         NEW c \in Clients, NEW o \in OrigIds, Request(c, o)
  PROVE  /\ next_id \in Ids /\ next_id \notin Allocated
         /\ \A id \in Ids :
              /\ AtHandler(id)' <=> AtHandler(id) \/ id = next_id
              /\ SameMap(id) /\ SameReader(id) /\ SameResp(id) /\ SameGot(id)
         /\ ReplyParts'
<1>1. next_id \in Ids /\ next_id \notin Allocated
  BY ControlAssumption
     DEF RoutingInv, TypeOK, SharedType, Request, Allocate, CanAllocate, Ids,
         Allocated
<1>2. ASSUME NEW id \in Ids PROVE AtHandler(id)' <=> AtHandler(id) \/ id = next_id
  <2>1. /\ pc'[c] = "lock" /\ hand'[c] = next_id /\ pc[c] = "reading"
        /\ \A d \in Clients \ {c} : pc'[d] = pc[d] /\ hand'[d] = hand[d]
    BY DEF Request, RoutingInv, TypeOK, ClientType
  <2> QED
    BY <2>1 DEF AtHandler
<1>3. ASSUME NEW id \in Ids
      PROVE  SameMap(id) /\ SameReader(id) /\ SameResp(id) /\ SameGot(id)
  BY DEF Request, upstream, SameMap, SameReader, SameResp, SameGot, InMap,
         AtReader, InResp
<1>4. /\ ~InMap(next_id) /\ ~AtReader(next_id) /\ ~InResp(next_id)
      /\ next_id \notin got
  BY <1>1, HeldAllocated DEF ReplyParts, GotAllocated
<1>5. OnePlace'
  BY <1>2, <1>3, <1>4
     DEF ReplyParts, OnePlace, SameMap, SameReader, SameResp, SameGot
<1>6. OneReader' /\ OneReply' /\ HookAnon' /\ RespRoom' /\ GotAllocated'
  BY DEF Request, upstream, ReplyParts, OneReader, OneReply, HookAnon,
         RespRoom, GotAllocated, OwnerKept
<1> QED
  BY <1>1, <1>2, <1>3, <1>5, <1>6 DEF ReplyParts

(* Two handlers never hold the same id: it has one owner.                  *)
LEMMA HandlerUnique ==
  ASSUME HandOwned, NEW c \in Clients, NEW d \in Clients,
         pc[c] \in {"lock", "overflow"}, pc[d] \in {"lock", "overflow"},
         hand[c] = hand[d]
  PROVE  c = d
<1>1. owner[hand[c]] = [client |-> c, orig |-> horig[c]]
  BY DEF HandOwned
<1>2. owner[hand[d]] = [client |-> d, orig |-> horig[d]]
  BY DEF HandOwned
<1> QED
  BY <1>1, <1>2

(* A handler lets go of its id.                                            *)
LEMMA HandlerLeaves ==
  ASSUME ClientType, HandOwned, NEW c \in Clients,
         pc[c] \in {"lock", "overflow"}, pc'[c] \notin {"lock", "overflow"},
         \A d \in Clients \ {c} : pc'[d] = pc[d] /\ hand'[d] = hand[d]
  PROVE  /\ hand[c] \in Allocated
         /\ \A id : AtHandler(id)' <=> AtHandler(id) /\ id # hand[c]
<1>1. ASSUME NEW id, AtHandler(id)' PROVE AtHandler(id) /\ id # hand[c]
  <2>1. PICK d \in Clients : pc'[d] \in {"lock", "overflow"} /\ hand'[d] = id
    BY <1>1 DEF AtHandler
  <2>2. d # c
    BY <2>1
  <2> QED
    BY <2>1, <2>2, HandlerUnique DEF AtHandler
<1>2. ASSUME NEW id, AtHandler(id), id # hand[c] PROVE AtHandler(id)'
  <2>1. PICK d \in Clients : pc[d] \in {"lock", "overflow"} /\ hand[d] = id
    BY <1>2 DEF AtHandler
  <2> QED
    BY <1>2, <2>1 DEF AtHandler
<1> QED
  BY <1>1, <1>2 DEF HandOwned

(* Allocated ids are ids.                                                  *)
LEMMA AllocatedIds == SharedType => Allocated \subseteq Ids
BY ControlAssumption DEF SharedType, Allocated, Ids

(* Registering moves the id from the handler to the map.                   *)
LEMMA RegisterEffect ==
  ASSUME RoutingInv, ReplyParts, OwnerKept, NEW c \in Clients, Register(c)
  PROVE  /\ hand[c] \in Ids
         /\ \A id \in Ids :
              /\ AtHandler(id)' <=> AtHandler(id) /\ id # hand[c]
              /\ InMap(id)' <=> InMap(id) \/ id = hand[c]
              /\ id = hand[c] => AtHandler(id)
              /\ SameReader(id) /\ SameResp(id) /\ SameGot(id)
         /\ ReplyParts'
<1>1. /\ hand[c] \in Allocated
      /\ \A id : AtHandler(id)' <=> AtHandler(id) /\ id # hand[c]
  <2>1. /\ pc[c] = "lock" /\ pc'[c] = "sending"
        /\ \A d \in Clients \ {c} : pc'[d] = pc[d] /\ hand'[d] = hand[d]
    BY DEF Register, RoutingInv, TypeOK, ClientType
  <2> QED
    BY <2>1, HandlerLeaves DEF RoutingInv, TypeOK, Ownership
<1>2. hand[c] \in Ids
  BY <1>1, AllocatedIds DEF RoutingInv, TypeOK
<1>3. ASSUME NEW id \in Ids
      PROVE  /\ InMap(id)' <=> InMap(id) \/ id = hand[c]
             /\ id = hand[c] => AtHandler(id)
             /\ SameReader(id) /\ SameResp(id) /\ SameGot(id)
  BY DEF Register, Put, upstream, history, SameReader, SameResp, SameGot,
         InMap, AtHandler, AtReader, InResp
<1>4. OnePlace'
  BY <1>1, <1>3
     DEF ReplyParts, OnePlace, SameReader, SameResp, SameGot
<1>5. OneReader' /\ OneReply' /\ HookAnon' /\ RespRoom' /\ GotAllocated'
  BY DEF Register, upstream, history, ReplyParts, OneReader, OneReply,
         HookAnon, RespRoom, GotAllocated, OwnerKept
<1> QED
  BY <1>1, <1>2, <1>3, <1>4, <1>5 DEF ReplyParts

(* A reply sent with .await is queued, or dropped when the writer is gone. *)
LEMMA ReplySent ==
  ASSUME ClientType, NEW c \in Clients, NEW r \in Replies, SendReply(c, r)
  PROVE  /\ \A id : InResp(id)' <=> InResp(id) \/ (Open(c) /\ id = r.id)
         /\ OneReply /\ (r.id = Anon \/ ~InResp(r.id)) => OneReply'
         /\ HookAnon /\ (r.kind = "hook" => r.id = Anon) => HookAnon'
         /\ RespRoom => RespRoom'
<1>1. CASE /\ Open(c) /\ Len(resp[c]) < RespCap
           /\ resp' = [resp EXCEPT ![c] = Append(@, r)]
  BY <1>1, ReplyAppended
<1>2. CASE ~Open(c) /\ UNCHANGED resp
  BY <1>2 DEF InResp, OneReply, HookAnon, RespRoom
<1> QED
  BY <1>1, <1>2 DEF SendReply

(* A hook's reply answers no request of the proxy's.                       *)
LEMMA HookReplySendEffect ==
  ASSUME RoutingInv, ReplyParts, OwnerKept, NEW c \in Clients, HookReplySend(c)
  PROVE  /\ \A id \in Ids : /\ SameHandler(id) /\ SameMap(id) /\ SameReader(id)
                            /\ SameResp(id) /\ SameGot(id)
         /\ ReplyParts'
<1> DEFINE r == [id |-> Anon, orig |-> horig[c], kind |-> "hook"]
<1>1. r \in Replies /\ SendReply(c, r) /\ r.id = Anon
  BY DEF HookReplySend, RoutingInv, Ownership, HookHeld, Replies, Lines
<1>2. /\ \A id : InResp(id)' <=> InResp(id) \/ (Open(c) /\ id = Anon)
      /\ OneReply' /\ HookAnon' /\ RespRoom'
  BY <1>1, ReplySent DEF RoutingInv, TypeOK, ReplyParts
<1>3. HandlersKept /\ ReadersKept /\ UNCHANGED <<pending, got>>
  BY DEF HookReplySend, Done, shared, upstream, history, HandlersKept,
         ReadersKept, RoutingInv, TypeOK, ClientType
<1>4. ASSUME NEW id \in Ids
      PROVE  /\ SameHandler(id) /\ SameMap(id) /\ SameReader(id)
             /\ SameResp(id) /\ SameGot(id)
  <2>1. id # Anon
    BY ControlAssumption DEF Ids
  <2> QED
    BY <1>2, <1>3, <2>1, HandlersSame, ReadersSame
       DEF SameMap, SameResp, SameGot, InMap
<1>5. OnePlace'
  BY <1>4 DEF ReplyParts, OnePlace, SameHandler, SameMap, SameReader,
              SameResp, SameGot
<1>6. OneReader' /\ GotAllocated'
  BY <1>3, ReadersSame DEF ReplyParts, GotAllocated, OwnerKept
<1> QED
  BY <1>2, <1>4, <1>5, <1>6 DEF ReplyParts

(* The overflow reply moves the id to its client's channel, or drops it.   *)
LEMMA OverflowReplyEffect ==
  ASSUME RoutingInv, ReplyParts, OwnerKept, NEW c \in Clients, OverflowReply(c)
  PROVE  /\ hand[c] \in Ids
         /\ \A id \in Ids :
              /\ AtHandler(id)' <=> AtHandler(id) /\ id # hand[c]
              /\ InResp(id)' <=> InResp(id) \/ (Open(c) /\ id = hand[c])
              /\ id = hand[c] => AtHandler(id)
              /\ SameMap(id) /\ SameReader(id) /\ SameGot(id)
         /\ ReplyParts'
<1> DEFINE r == [id |-> hand[c], orig |-> horig[c], kind |-> "overflow"]
<1>1. /\ hand[c] \in Allocated
      /\ \A id : AtHandler(id)' <=> AtHandler(id) /\ id # hand[c]
  <2>1. /\ pc[c] = "overflow" /\ pc'[c] = "reading"
        /\ \A d \in Clients \ {c} : pc'[d] = pc[d] /\ hand'[d] = hand[d]
    BY DEF OverflowReply, Done, RoutingInv, TypeOK, ClientType
  <2> QED
    BY <2>1, HandlerLeaves DEF RoutingInv, TypeOK, Ownership
<1>2. hand[c] \in Ids
  BY <1>1, AllocatedIds DEF RoutingInv, TypeOK
<1>3. r \in Replies /\ SendReply(c, r)
  BY <1>2 DEF OverflowReply, RoutingInv, Ownership, HandOwned, Replies, Lines
<1>4. AtHandler(hand[c])
  BY DEF OverflowReply, AtHandler
<1>5. /\ \A id : InResp(id)' <=> InResp(id) \/ (Open(c) /\ id = hand[c])
      /\ OneReply' /\ HookAnon' /\ RespRoom'
  <2>1. ~InResp(hand[c])
    BY <1>2, <1>4 DEF ReplyParts, OnePlace
  <2> QED
    BY <1>3, <2>1, ReplySent DEF RoutingInv, TypeOK, ReplyParts
<1>6. ReadersKept /\ UNCHANGED <<pending, got>>
  BY DEF OverflowReply, shared, upstream, history, ReadersKept
<1>7. ASSUME NEW id \in Ids PROVE SameMap(id) /\ SameReader(id) /\ SameGot(id)
  BY <1>6, ReadersSame DEF SameMap, SameGot, InMap
<1>8. OnePlace'
  BY <1>1, <1>4, <1>5, <1>7
     DEF ReplyParts, OnePlace, SameMap, SameReader, SameGot
<1>9. OneReader' /\ GotAllocated'
  BY <1>6, ReadersSame DEF ReplyParts, GotAllocated, OwnerKept
<1> QED
  BY <1>1, <1>2, <1>4, <1>5, <1>7, <1>8, <1>9 DEF ReplyParts

(* A client that closes, and a writer that fails, take the channel along.  *)
LEMMA ChannelDropEffect ==
  ASSUME RoutingInv, ReplyParts, OwnerKept, NEW c \in Clients,
         CloseClient(c) \/ WriteError(c)
  PROVE  /\ \A id \in Ids :
              /\ InResp(id)' <=> InResp(id) /\ ~InRespOf(c, id)
              /\ SameHandler(id) /\ SameMap(id) /\ SameReader(id) /\ SameGot(id)
         /\ ReplyParts'
<1>1. resp' = [resp EXCEPT ![c] = <<>>]
  BY DEF CloseClient, WriteError
<1>2. HandlersKept /\ ReadersKept /\ UNCHANGED <<pending, got>>
  BY DEF CloseClient, WriteError, shared, upstream, history, HandlersKept,
         ReadersKept, RoutingInv, TypeOK, ClientType
<1>3. /\ \A id \in Ids : InResp(id)' <=> InResp(id) /\ ~InRespOf(c, id)
      /\ OneReply' /\ HookAnon' /\ RespRoom'
  BY <1>1, ChannelDropped DEF RoutingInv, TypeOK, Ownership, ReplyParts
<1>4. ASSUME NEW id \in Ids
      PROVE  SameHandler(id) /\ SameMap(id) /\ SameReader(id) /\ SameGot(id)
  BY <1>2, HandlersSame, ReadersSame DEF SameMap, SameGot, InMap
<1>5. OnePlace'
  BY <1>3, <1>4
     DEF ReplyParts, OnePlace, SameHandler, SameMap, SameReader, SameGot
<1>6. OneReader' /\ GotAllocated'
  BY <1>2, ReadersSame DEF ReplyParts, GotAllocated, OwnerKept
<1> QED
  BY <1>3, <1>4, <1>5, <1>6 DEF ReplyParts

(* The writer moves the first reply of its channel to the client.          *)
LEMMA WriteReplyEffect ==
  ASSUME RoutingInv, ReplyParts, OwnerKept, NEW c \in Clients, WriteReply(c)
  PROVE  /\ Head(resp[c]).id \in Lines
         /\ \A id \in Ids :
              /\ InResp(id)' <=> InResp(id) /\ id # Head(resp[c]).id
              /\ id \in got' <=> id \in got \/ id = Head(resp[c]).id
              /\ id = Head(resp[c]).id => InResp(id)
              /\ SameHandler(id) /\ SameMap(id) /\ SameReader(id)
         /\ ReplyParts'
<1> DEFINE h == Head(resp[c]).id
<1>1. /\ h \in Lines
      /\ h # Anon => h \in Allocated
      /\ \A id \in Ids : /\ id = h => InResp(id)
                         /\ InResp(id)' <=> InResp(id) /\ id # h
      /\ OneReply' /\ HookAnon' /\ RespRoom'
  BY ReplyTaken DEF WriteReply, RoutingInv, TypeOK, Ownership, ReplyParts
<1>2. HandlersKept /\ ReadersKept /\ UNCHANGED pending /\ got' = got \cup ({h} \ {Anon})
  BY DEF WriteReply, shared, upstream, HandlersKept, ReadersKept
<1>3. ASSUME NEW id \in Ids
      PROVE  /\ SameHandler(id) /\ SameMap(id) /\ SameReader(id)
             /\ id \in got' <=> id \in got \/ id = h
  <2>1. id # Anon
    BY ControlAssumption DEF Ids
  <2> QED
    BY <1>2, <2>1, HandlersSame, ReadersSame DEF SameMap, InMap
<1>4. OnePlace'
  BY <1>1, <1>3 DEF ReplyParts, OnePlace, SameHandler, SameMap, SameReader
<1>5. OneReader' /\ GotAllocated'
  BY <1>1, <1>2, ReadersSame DEF ReplyParts, GotAllocated, OwnerKept
<1> QED
  BY <1>1, <1>3, <1>4, <1>5 DEF ReplyParts

(* The drain moves the id from the map to its client's channel, or drops   *)
(* it when try_send fails.                                                 *)
RefusalQueued(id) ==
  Open(pending[id].client) /\ Len(resp[pending[id].client]) < RespCap

(* The drain takes one request out of the map; its refusal is queued if    *)
(* the client is there and its channel has room.                           *)
LEMMA DrainOneEffect ==
  ASSUME RoutingInv, ReplyParts, OwnerKept, NEW k \in Ids, DrainOne(k)
  PROVE  /\ InMap(k)
         /\ \A id \in Ids :
              /\ InMap(id)' <=> InMap(id) /\ id # k
              /\ InResp(id)' <=> InResp(id) \/ (RefusalQueued(k) /\ id = k)
              /\ SameHandler(id) /\ SameReader(id) /\ SameGot(id)
         /\ ReplyParts'
<1> DEFINE d == pending[k].client
           r == [id |-> k, orig |-> pending[k].orig, kind |-> "reconnecting"]
<1>1. InMap(k) /\ d \in Clients /\ r \in Replies /\ r.id = k
  BY DEF DrainOne, InMap, RoutingInv, TypeOK, SharedType, Requests, Replies,
         Lines
<1>2. ~InResp(k)
  BY <1>1 DEF ReplyParts, OnePlace
<1>3. /\ \A id : InResp(id)' <=> InResp(id) \/ (RefusalQueued(k) /\ id = k)
      /\ OneReply' /\ HookAnon' /\ RespRoom'
  <2>1. CASE RefusalQueued(k)
    <3>1. Len(resp[d]) < RespCap /\ resp' = [resp EXCEPT ![d] = Append(@, r)]
      BY <2>1 DEF DrainOne, Refuse, RefusalQueued
    <3> QED
      BY <1>1, <1>2, <2>1, <3>1, ReplyAppended
         DEF RoutingInv, TypeOK, ReplyParts
  <2>2. CASE ~RefusalQueued(k)
    <3>1. UNCHANGED resp
      BY <2>2 DEF DrainOne, Refuse, RefusalQueued
    <3> QED
      BY <2>2, <3>1 DEF InResp, OneReply, HookAnon, RespRoom, ReplyParts
  <2> QED
    BY <2>1, <2>2
<1>4. /\ HandlersKept /\ ReadersKept /\ UNCHANGED got
      /\ DOMAIN pending' = DOMAIN pending \ {k}
  BY DEF DrainOne, Remove, upstream, HandlersKept, ReadersKept
<1>5. ASSUME NEW id \in Ids
      PROVE  /\ SameHandler(id) /\ SameReader(id) /\ SameGot(id)
             /\ InMap(id)' <=> InMap(id) /\ id # k
  BY <1>4, HandlersSame, ReadersSame DEF InMap, SameGot
<1>6. OnePlace'
  BY <1>1, <1>3, <1>5
     DEF ReplyParts, OnePlace, SameHandler, SameReader, SameGot
<1>7. OneReader' /\ GotAllocated'
  BY <1>4, ReadersSame DEF ReplyParts, GotAllocated, OwnerKept
<1> QED
  BY <1>1, <1>3, <1>5, <1>6, <1>7 DEF ReplyParts

(* A reader moves the id of an answer from the map into its own hands.     *)
LEMMA TakePendingEffect ==
  ASSUME RoutingInv, ReplyParts, OwnerKept, NEW e \in Slots, TakePending(e)
  PROVE  /\ rdid[e] \in Ids
         /\ \A id \in Ids :
              /\ InMap(id)' <=> InMap(id) /\ id # rdid[e]
              /\ AtReader(id)' <=> AtReader(id) \/ id = rdid[e]
              /\ id = rdid[e] => InMap(id)
              /\ SameHandler(id) /\ SameResp(id) /\ SameGot(id)
         /\ ReplyParts'
<1>1. rdid[e] \in Ids /\ InMap(rdid[e])
  BY DEF TakePending, InMap, RoutingInv, TypeOK, SharedType
<1>2. ~AtReader(rdid[e])
  BY <1>1 DEF ReplyParts, OnePlace
<1>3. /\ rd[e] = "taking" /\ rd'[e] = "routing" /\ UNCHANGED rdid
      /\ \A f \in Slots \ {e} : rd'[f] = rd[f]
  BY DEF TakePending, RoutingInv, TypeOK, UpstreamType
<1>4. ASSUME NEW id \in Ids PROVE AtReader(id)' <=> AtReader(id) \/ id = rdid[e]
  BY <1>3 DEF AtReader
<1>5. HandlersKept /\ UNCHANGED <<resp, got>> /\ DOMAIN pending' = DOMAIN pending \ {rdid[e]}
  BY DEF TakePending, Remove, clients, history, HandlersKept
<1>6. ASSUME NEW id \in Ids
      PROVE  /\ SameHandler(id) /\ SameResp(id) /\ SameGot(id)
             /\ InMap(id)' <=> InMap(id) /\ id # rdid[e]
  BY <1>5, HandlersSame DEF InMap, InResp, SameResp, SameGot
<1>7. OnePlace'
  BY <1>1, <1>4, <1>6
     DEF ReplyParts, OnePlace, SameHandler, SameResp, SameGot
<1>8. OneReader'
  BY <1>2, <1>3 DEF ReplyParts, OneReader, AtReader
<1>9. OneReply' /\ HookAnon' /\ RespRoom' /\ GotAllocated'
  BY <1>5 DEF ReplyParts, OneReply, HookAnon, RespRoom, GotAllocated, OwnerKept
<1> QED
  BY <1>1, <1>4, <1>6, <1>7, <1>8, <1>9 DEF ReplyParts

(* A reader moves the id it holds to the client's channel, or drops it.    *)
LEMMA RouteEffect ==
  ASSUME RoutingInv, ReplyParts, OwnerKept, NEW e \in Slots, Route(e)
  PROVE  /\ rdid[e] \in Ids
         /\ \A id \in Ids :
              /\ AtReader(id)' <=> AtReader(id) /\ id # rdid[e]
              /\ InResp(id)' <=>
                   InResp(id) \/ (Open(rdreq[e].client) /\ id = rdid[e])
              /\ id = rdid[e] => AtReader(id)
              /\ SameHandler(id) /\ SameMap(id) /\ SameGot(id)
         /\ ReplyParts'
<1> DEFINE c == rdreq[e].client
           r == [id |-> rdid[e], orig |-> rdreq[e].orig, kind |-> "answer"]
<1>1. rdid[e] \in Allocated /\ rdreq[e] \in Requests
  BY DEF Route, RoutingInv, Ownership, ReaderOwned
<1>2. rdid[e] \in Ids
  BY <1>1, AllocatedIds DEF RoutingInv, TypeOK
<1>3. c \in Clients /\ r \in Replies /\ SendReply(c, r)
  BY <1>1, <1>2 DEF Route, Requests, Replies, Lines
<1>4. AtReader(rdid[e])
  BY DEF Route, AtReader
<1>5. /\ \A id : InResp(id)' <=> InResp(id) \/ (Open(c) /\ id = rdid[e])
      /\ OneReply' /\ HookAnon' /\ RespRoom'
  <2>1. ~InResp(rdid[e])
    BY <1>2, <1>4 DEF ReplyParts, OnePlace
  <2> QED
    BY <1>3, <2>1, ReplySent DEF RoutingInv, TypeOK, ReplyParts
<1>6. /\ rd[e] = "routing" /\ rd'[e] = "reading"
      /\ \A f \in Slots \ {e} : rd'[f] = rd[f] /\ rdid'[f] = rdid[f]
  BY DEF Route, RoutingInv, TypeOK, UpstreamType
<1>7. ASSUME NEW id \in Ids PROVE AtReader(id)' <=> AtReader(id) /\ id # rdid[e]
  BY <1>6 DEF AtReader, ReplyParts, OneReader
<1>8. HandlersKept /\ UNCHANGED <<pending, got>>
  BY DEF Route, shared, history, HandlersKept
<1>9. ASSUME NEW id \in Ids PROVE SameHandler(id) /\ SameMap(id) /\ SameGot(id)
  BY <1>8, HandlersSame DEF SameMap, SameGot, InMap
<1>10. OnePlace'
  BY <1>4, <1>5, <1>7, <1>9
     DEF ReplyParts, OnePlace, SameHandler, SameMap, SameGot
<1>11. OneReader' /\ GotAllocated'
  BY <1>6, <1>8 DEF ReplyParts, OneReader, GotAllocated, OwnerKept
<1> QED
  BY <1>2, <1>4, <1>5, <1>7, <1>9, <1>10, <1>11 DEF ReplyParts

(* Every other action leaves the four places alone.                        *)
Moving ==
  \/ \E c \in Clients :
       \/ \E o \in OrigIds : Request(c, o)
       \/ Register(c) \/ OverflowReply(c) \/ HookReplySend(c)
       \/ CloseClient(c) \/ WriteReply(c) \/ WriteError(c)
  \/ \E e \in Slots : TakePending(e) \/ Route(e)
  \/ \E id \in Ids : DrainOne(id)

(* Every step but the ones that move requests leaves them all in place.    *)
LEMMA QuietActions ==
  ASSUME RoutingInv, NoReaderYet, [Next]_vars, ~Moving
  PROVE  PlacesKept
<1>0. ClientType /\ UpstreamType /\ ConnChosen
  BY DEF RoutingInv, TypeOK
<1>1. ASSUME NEW c \in Clients,
             \/ Accept(c) \/ Notification(c) \/ HookBlock(c) \/ RegisterFull(c)
             \/ Send(c) \/ ReadError(c) \/ WriteEvent(c)
             \/ \E o \in OrigIds : HookReply(c, o)
      PROVE  PlacesKept
  BY <1>0, <1>1
     DEF PlacesKept, HandlersKept, ReadersKept, Accept, Notification,
         HookBlock, RegisterFull, Send, Done, Enqueue, ReadError, WriteEvent,
         HookReply, shared, clients, upstream, history, ClientType
<1>2. CASE \/ UpStart \/ DrainBegin \/ DrainEnd \/ UpWrite \/ UpWriteError
           \/ ReaderGone \/ HeartbeatTick \/ HeartbeatSend
  BY <1>2
     DEF PlacesKept, HandlersKept, ReadersKept, UpStart, DrainBegin, DrainEnd,
         UpWrite, UpWriteError, ReaderGone, HeartbeatTick, HeartbeatSend,
         shared, clients, upstream, history
<1>3. CASE Serve
  BY <1>0, <1>3
     DEF PlacesKept, HandlersKept, ReadersKept, Serve, clients, history,
         UpstreamType, ConnChosen, NoReaderYet
<1>4. ASSUME NEW e \in Slots,
             \/ Connect(e) \/ ReaderStart(e) \/ ReadInvalid(e) \/ ReadEvent(e)
             \/ TakeUntracked(e) \/ ReaderEnd(e) \/ ReaderPanic(e)
             \/ \E id \in Lines : ReadResponse(e, id)
      PROVE  PlacesKept
  BY <1>0, <1>4
     DEF PlacesKept, HandlersKept, ReadersKept, Connect, ReaderStart,
         ReadInvalid, ReadEvent, LineArrives, ReadResponse, TakeUntracked,
         ReaderEnd,
         ReaderPanic, shared, clients, upstream, history, UpstreamType
<1>5. CASE UNCHANGED vars
  BY <1>5
     DEF PlacesKept, HandlersKept, ReadersKept, vars, shared, clients,
         upstream, history
<1> QED
  BY <1>1, <1>2, <1>3, <1>4, <1>5
     DEF Next, Handler, Writer, Upstream, Heartbeat, Reader, Moving

(* Every step keeps every request in one place.                            *)
LEMMA ReplyStep ==
  RoutingInv /\ ReplyParts /\ NoReaderYet /\ [Next]_vars => ReplyParts'
<1> SUFFICES ASSUME RoutingInv, ReplyParts, NoReaderYet, [Next]_vars
             PROVE  ReplyParts'
  OBVIOUS
<1>1. OwnerKept
  BY OwnerStep DEF RoutingInv
<1>2. CASE ~Moving
  BY <1>1, <1>2, QuietActions, QuietReply
<1>3. CASE Moving
  BY <1>1, <1>3, RequestEffect, RegisterEffect, OverflowReplyEffect,
     HookReplySendEffect, ChannelDropEffect, WriteReplyEffect,
     TakePendingEffect, RouteEffect, DrainOneEffect DEF Moving
<1> QED
  BY <1>2, <1>3

-----------------------------------------------------------------------------
(* The upstream channel                                                    *)

(* What an appended line does to the upstream channel.                     *)
LEMMA LineAppended ==
  ASSUME SharedType, NEW m \in Lines, upq' = Append(upq, m)
  PROVE  /\ \A id \in Ids : InUpq(id)' <=> InUpq(id) \/ id = m
         /\ UpqDistinct /\ (m = Anon \/ ~InUpq(m)) => UpqDistinct'
<1>1. /\ upq \in Seq(Lines) /\ Len(upq) \in Nat
      /\ Len(upq') = Len(upq) + 1
      /\ \A i \in 1 .. Len(upq) : upq'[i] = upq[i]
      /\ upq'[Len(upq) + 1] = m
  BY AppendElements DEF SharedType
<1>2. ASSUME NEW id \in Ids PROVE InUpq(id)' <=> InUpq(id) \/ id = m
  <2>1. InUpq(id)' => InUpq(id) \/ id = m
    BY <1>1 DEF InUpq
  <2>2. InUpq(id) => InUpq(id)'
    BY <1>1 DEF InUpq
  <2>3. id = m => InUpq(id)'
    BY <1>1 DEF InUpq
  <2> QED
    BY <2>1, <2>2, <2>3
<1>3. ASSUME UpqDistinct, m = Anon \/ ~InUpq(m) PROVE UpqDistinct'
  BY <1>1, <1>3 DEF UpqDistinct, InUpq
<1> QED
  BY <1>2, <1>3

(* A hook's telescope.send, or none, adds no allocated id.                 *)
LEMMA HookLine ==
  ASSUME SharedType, upq' \in AfterHook(upq)
  PROVE  /\ \A id \in Ids : InUpq(id)' <=> InUpq(id)
         /\ UpqDistinct => UpqDistinct'
<1>1. CASE upq' = upq
  BY <1>1 DEF InUpq, UpqDistinct
<1>2. CASE upq' = Append(upq, Anon)
  <2>1. \A id \in Ids : id # Anon
    BY ControlAssumption DEF Ids
  <2> QED
    BY <1>2, <2>1, LineAppended DEF Lines
<1> QED
  BY <1>1, <1>2 DEF AfterHook

(* Taking the first line removes its id, which no other line carries.      *)
LEMMA LineTaken ==
  ASSUME SharedType, UpqDistinct, upq # <<>>, upq' = Tail(upq)
  PROVE  /\ Head(upq) \in Lines
         /\ \A id \in Ids : /\ id = Head(upq) => InUpq(id)
                            /\ InUpq(id)' <=> InUpq(id) /\ id # Head(upq)
         /\ UpqDistinct'
<1>1. /\ upq \in Seq(Lines) /\ Len(upq) \in Nat /\ Len(upq) # 0
      /\ Len(upq') = Len(upq) - 1
      /\ \A i \in 1 .. Len(upq) - 1 : upq'[i] = upq[i + 1]
      /\ Head(upq) = upq[1] /\ Head(upq) \in Lines
  BY TailElements DEF SharedType
<1>2. ASSUME NEW id \in Ids
      PROVE  /\ id = Head(upq) => InUpq(id)
             /\ InUpq(id)' <=> InUpq(id) /\ id # Head(upq)
  <2>0. id # Anon
    BY ControlAssumption DEF Ids
  <2>1. ASSUME NEW i \in 1 .. Len(upq'), upq'[i] = id
        PROVE  InUpq(id) /\ id # Head(upq)
    <3>1. /\ i + 1 \in 1 .. Len(upq) /\ upq[i + 1] = id /\ i + 1 # 1
          /\ 1 \in 1 .. Len(upq)
      BY <1>1, <2>1
    <3> QED
      BY <1>1, <2>0, <3>1 DEF UpqDistinct, InUpq
  <2>2. ASSUME NEW i \in 1 .. Len(upq), upq[i] = id, id # Head(upq)
        PROVE  InUpq(id)'
    <3>1. i # 1
      BY <1>1, <2>2
    <3>2. i - 1 \in 1 .. Len(upq') /\ upq'[i - 1] = id
      BY <1>1, <2>2, <3>1
    <3> QED
      BY <3>2 DEF InUpq
  <2>3. id = Head(upq) => InUpq(id)
    <3>1. 1 \in 1 .. Len(upq)
      BY <1>1
    <3> QED
      BY <1>1, <3>1 DEF InUpq
  <2> QED
    BY <2>1, <2>2, <2>3 DEF InUpq
<1>3. UpqDistinct'
  <2> SUFFICES ASSUME NEW i \in 1 .. Len(upq'), NEW j \in 1 .. Len(upq'),
                      upq'[i] # Anon, upq'[i] = upq'[j]
               PROVE  i = j
    BY DEF UpqDistinct
  <2>1. /\ i + 1 \in 1 .. Len(upq) /\ upq'[i] = upq[i + 1]
        /\ j + 1 \in 1 .. Len(upq) /\ upq'[j] = upq[j + 1]
    BY <1>1
  <2>2. i + 1 = j + 1
    BY <2>1 DEF UpqDistinct
  <2> QED
    BY <2>2
<1> QED
  BY <1>1, <1>2, <1>3

-----------------------------------------------------------------------------
(* What an action does to the places of a line                             *)

HoldsKept == \A c \in Clients : \A id \in Ids : Holds(c, id)' <=> Holds(c, id)
ScopeKept ==
  /\ UNCHANGED sent
  /\ \A e \in Slots : /\ rd'[e] = "taking" <=> rd[e] = "taking"
                      /\ rd[e] = "taking" => rdid'[e] = rdid[e]
LinesKept == HoldsKept /\ UNCHANGED hb /\ upq' \in AfterHook(upq) /\ ScopeKept

(* The places of a line before and after a step.                           *)
SameTask(id)    == AtTask(id)' <=> AtTask(id)
SameUpq(id)     == InUpq(id)' <=> InUpq(id)
SameScope(e, id) == AtScopeOn(e, id)' <=> AtScopeOn(e, id)

(* Tasks that keep what they hold have the same lines in hand.             *)
LEMMA TasksSame == HoldsKept /\ UNCHANGED hb => \A id \in Ids : SameTask(id)
BY DEF HoldsKept, SameTask, AtTask

(* Likewise the telescope's side of every connection.                      *)
LEMMA ScopeSame ==
  ScopeKept => /\ \A e \in Slots : \A id \in Ids : SameScope(e, id)
               /\ TakenApart => TakenApart'
BY DEF ScopeKept, SameScope, AtScopeOn, TakenApart

(* A step that moves no line to another place keeps the lines apart.       *)
LEMMA LinesShrink ==
  ASSUME LineApart,
         \A id \in Ids : /\ AtTask(id)' => AtTask(id)
                         /\ InUpq(id)' => InUpq(id)
                         /\ \A e \in Slots : AtScopeOn(e, id)' => AtScopeOn(e, id)
  PROVE  LineApart'
BY DEF LineApart

(* The actions that move a line; all others leave the lines alone.         *)
LineMoving ==
  \/ \E c \in Clients :
       (\E o \in OrigIds : Request(c, o)) \/ OverflowReply(c) \/ Send(c)
  \/ HeartbeatTick \/ HeartbeatSend \/ UpWrite \/ UpWriteError
  \/ \E e \in Slots :
       \/ Connect(e) \/ TakePending(e) \/ TakeUntracked(e)
       \/ \E id \in Lines : ReadResponse(e, id)

(* Every step but the ones that move lines leaves them all in place.       *)
LEMMA QuietLines ==
  ASSUME RoutingInv, NoReaderYet, [Next]_vars, ~LineMoving
  PROVE  LinesKept
<1>0. ClientType /\ UpstreamType /\ ConnChosen /\ upq \in AfterHook(upq)
  BY DEF RoutingInv, TypeOK, AfterHook
<1>a. \A id \in Ids : id # Anon
  BY ControlAssumption DEF Ids
<1>1. ASSUME NEW c \in Clients,
             \/ Accept(c) \/ Notification(c) \/ HookBlock(c) \/ RegisterFull(c)
             \/ Register(c) \/ ReadError(c) \/ CloseClient(c)
             \/ \E o \in OrigIds : HookReply(c, o)
      PROVE  LinesKept
  <2>1. UNCHANGED <<hb, sent, rd, rdid>> /\ upq' \in AfterHook(upq)
    BY <1>0, <1>1
       DEF Accept, Notification, HookBlock, RegisterFull, Register, ReadError,
           CloseClient, HookReply, shared, upstream
  <2>2. HoldsKept
    BY <1>0, <1>1, <1>a
       DEF HoldsKept, Holds, Accept, Notification, HookBlock, RegisterFull,
           Register, ReadError, CloseClient, HookReply, clients, ClientType
  <2> QED
    BY <2>1, <2>2 DEF LinesKept, ScopeKept
<1>2. ASSUME NEW c \in Clients,
             HookReplySend(c) \/ WriteReply(c) \/ WriteEvent(c) \/ WriteError(c)
      PROVE  LinesKept
  <2>1. UNCHANGED <<hb, sent, rd, rdid, upq>>
    BY <1>2
       DEF HookReplySend, WriteReply, WriteEvent, WriteError, shared, upstream
  <2>2. HoldsKept
    BY <1>0, <1>2
       DEF HoldsKept, Holds, HookReplySend, Done, WriteReply, WriteEvent,
           WriteError, ClientType
  <2> QED
    BY <1>0, <2>1, <2>2 DEF LinesKept, ScopeKept
<1>3. CASE UpStart \/ DrainBegin \/ DrainEnd \/ ReaderGone \/ UNCHANGED vars
  BY <1>0, <1>3
     DEF LinesKept, HoldsKept, Holds, ScopeKept, UpStart, DrainBegin,
         DrainEnd, ReaderGone, vars, shared, clients, upstream
<1>4. ASSUME NEW id \in Ids, DrainOne(id) PROVE LinesKept
  BY <1>0, <1>4 DEF LinesKept, HoldsKept, Holds, ScopeKept, DrainOne, upstream
<1>5. CASE Serve
  BY <1>0, <1>5
     DEF LinesKept, HoldsKept, Holds, ScopeKept, Serve, clients, NoReaderYet,
         ConnChosen, UpstreamType
<1>6. ASSUME NEW e \in Slots,
             \/ ReaderStart(e) \/ ReadInvalid(e) \/ ReadEvent(e) \/ Route(e)
             \/ ReaderEnd(e) \/ ReaderPanic(e)
      PROVE  LinesKept
  BY <1>0, <1>6
     DEF LinesKept, HoldsKept, Holds, ScopeKept, ReaderStart, ReadInvalid,
         ReadEvent, LineArrives, Route, ReaderEnd,
         ReaderPanic, shared, clients, upstream,
         UpstreamType
<1> QED
  BY <1>1, <1>2, <1>3, <1>4, <1>5, <1>6
     DEF Next, Handler, Writer, Upstream, Heartbeat, Reader, LineMoving

(* Lines in anybody's hands carry allocated ids.                           *)
LEMMA LineAllocated ==
  ASSUME RoutingInv, LineParts, NEW id \in Ids,
         AtTask(id) \/ InUpq(id) \/ \E e \in Slots : AtScopeOn(e, id)
  PROVE  id \in Allocated
<1>0. id # Anon
  BY ControlAssumption DEF Ids
<1>1. CASE InUpq(id) \/ \E e \in Slots : AtScopeOn(e, id)
  BY <1>1
     DEF LineParts, LinesTracked, UpqTracked, ScopeTracked, Tracked
<1>2. CASE hb = id
  BY <1>0, <1>2 DEF LineParts, LinesTracked, BeatTracked
<1>3. ASSUME NEW c \in Clients, Holds(c, id) PROVE id \in Allocated
  BY <1>0, <1>3
     DEF Holds, RoutingInv, Ownership, HandOwned, LineParts, SendingOwned
<1> QED
  BY <1>1, <1>2, <1>3 DEF AtTask

(* A line is in one task's hands.                                          *)
LEMMA TaskUnique ==
  ASSUME RoutingInv, LineParts, NEW id \in Ids, NEW c \in Clients, Holds(c, id)
  PROVE  hb # id /\ \A d \in Clients : Holds(d, id) => d = c
<1>0. id # Anon
  BY ControlAssumption DEF Ids
<1>1. ASSUME NEW d \in Clients, Holds(d, id)
      PROVE  /\ owner[id] = [client |-> d, orig |-> horig[d]]
             /\ horig[d] \in OrigIds
  BY <1>0, <1>1
     DEF Holds, RoutingInv, Ownership, HandOwned, LineParts, SendingOwned
<1>2. owner[id] # NoReq
  <2>1. owner[id] = [client |-> c, orig |-> horig[c]] /\ horig[c] \in OrigIds
    BY <1>1
  <2>2. owner[id] \in [client : Clients, orig : OrigIds]
    BY <2>1
  <2> QED
    BY <2>2, ControlAssumption
<1>3. hb # id
  BY <1>0, <1>2 DEF LineParts, LinesTracked, BeatTracked
<1>4. ASSUME NEW d \in Clients, Holds(d, id) PROVE d = c
  <2>1. owner[id] = [client |-> d, orig |-> horig[d]]
    BY <1>1, <1>4
  <2>2. owner[id] = [client |-> c, orig |-> horig[c]]
    BY <1>1
  <2> QED
    BY <2>1, <2>2
<1> QED
  BY <1>3, <1>4

(* A tracked line stays tracked until its answer is taken.                 *)
LEMMA TrackedKept ==
  ASSUME RoutingInv, OwnerKept, [Next]_vars, NEW id, Tracked(id),
         \A e \in Slots : ~(TakePending(e) /\ rdid[e] = id)
  PROVE  Tracked(id)'
<1>1. id \in Allocated' /\ owner'[id] = owner[id]
  BY DEF Tracked, OwnerKept
<1>2. CASE UNCHANGED <<pending, refused>>
  BY <1>1, <1>2 DEF Tracked, InMap
<1>3. ASSUME NEW c \in Clients, Register(c) PROVE Tracked(id)'
  <2>1. DOMAIN pending' = DOMAIN pending \cup {hand[c]} /\ UNCHANGED refused
    BY <1>3 DEF Register, Put, history
  <2> QED
    BY <1>1, <2>1 DEF Tracked, InMap
<1>4. ASSUME NEW k \in Ids, DrainOne(k) PROVE Tracked(id)'
  <2>1. /\ DOMAIN pending' = DOMAIN pending \ {k}
        /\ refused' = refused \cup {k}
    BY <1>4 DEF DrainOne, Remove
  <2> QED
    BY <1>1, <2>1 DEF Tracked, InMap
<1>5. ASSUME NEW e \in Slots, TakePending(e) PROVE Tracked(id)'
  <2>1. DOMAIN pending' = DOMAIN pending \ {rdid[e]} /\ UNCHANGED refused
    BY <1>5 DEF TakePending, Remove, history
  <2>2. rdid[e] # id
    BY <1>5
  <2> QED
    BY <1>1, <2>1, <2>2 DEF Tracked, InMap
<1> QED
  BY <1>2, <1>3, <1>4, <1>5
     DEF Next, Handler, Writer, Upstream, Heartbeat, Reader, vars, shared,
         history, Request, Accept, Notification, HookReply, HookBlock,
         HookReplySend, RegisterFull, OverflowReply, Send, CloseClient,
         ReadError, WriteReply, WriteEvent, WriteError, UpStart, Connect,
         DrainBegin, DrainEnd, Serve, UpWrite, UpWriteError, ReaderGone,
         HeartbeatTick, HeartbeatSend, ReaderStart, ReadInvalid, ReadEvent,
         ReadResponse, TakeUntracked, Route, ReaderEnd, ReaderPanic

(* Where a line that waits in the channel, or is with the telescope, was   *)
(* before the step.                                                        *)
UpqFrom(id) ==
  InUpq(id)' => \/ InUpq(id) \/ hb = id
                \/ \E c \in Clients : pc[c] = "sending" /\ hand[c] = id
ScopeFrom(id) ==
  (\E e \in Slots : AtScopeOn(e, id)')
    => InUpq(id) \/ \E e \in Slots : AtScopeOn(e, id)
LinesMoved == OneLine' /\ \A id \in Ids : UpqFrom(id) /\ ScopeFrom(id)

(* A step that moves no line keeps each line in one place, and brings none *)
(* to the channel or to the telescope.                                     *)
LEMMA QuietMoves ==
  ASSUME RoutingInv, LineParts, LinesKept
  PROVE  LinesMoved
<1>1. /\ \A id \in Ids : SameTask(id) /\ SameUpq(id)
      /\ \A e \in Slots : \A id \in Ids : SameScope(e, id)
      /\ UpqDistinct' /\ TakenApart'
  BY TasksSame, HookLine, ScopeSame
     DEF LinesKept, SameUpq, LineParts, OneLine, RoutingInv, TypeOK
<1>2. LineApart'
  BY <1>1, LinesShrink
     DEF LineParts, OneLine, SameTask, SameUpq, SameScope
<1> QED
  BY <1>1, <1>2
     DEF LinesMoved, OneLine, UpqFrom, ScopeFrom, SameUpq, SameScope

(* A fresh id appears in one task's hands.                                 *)
LEMMA FreshMoves ==
  ASSUME RoutingInv, LineParts, next_id \notin Allocated, ScopeKept,
         upq' \in AfterHook(upq),
         \A id \in Ids : AtTask(id)' => AtTask(id) \/ id = next_id
  PROVE  LinesMoved
<1>1. /\ \A id \in Ids : SameUpq(id)
      /\ \A e \in Slots : \A id \in Ids : SameScope(e, id)
      /\ UpqDistinct' /\ TakenApart'
  BY HookLine, ScopeSame
     DEF SameUpq, LineParts, OneLine, RoutingInv, TypeOK
<1>2. \A id \in Ids : InUpq(id) \/ (\E e \in Slots : AtScopeOn(e, id))
                        => id # next_id
  BY LineAllocated
<1>3. LineApart'
  BY <1>1, <1>2 DEF LineParts, OneLine, LineApart, SameUpq, SameScope
<1> QED
  BY <1>1, <1>3
     DEF LinesMoved, OneLine, UpqFrom, ScopeFrom, SameUpq, SameScope

(* A new request has a line that was nowhere before.                       *)
LEMMA RequestMoves ==
  ASSUME RoutingInv, LineParts, NEW c \in Clients, NEW o \in OrigIds,
         Request(c, o)
  PROVE  LinesMoved
<1>1. next_id \notin Allocated
  BY ControlAssumption DEF RoutingInv, TypeOK, SharedType, Allocated
<1>2. /\ pc'[c] = "lock" /\ hand'[c] = next_id /\ UNCHANGED hb
      /\ \A d \in Clients \ {c} : pc'[d] = pc[d] /\ hand'[d] = hand[d]
  BY DEF Request, RoutingInv, TypeOK, ClientType, upstream
<1>3. \A id \in Ids : AtTask(id)' => AtTask(id) \/ id = next_id
  BY <1>2 DEF AtTask, Holds
<1>4. ScopeKept /\ upq' \in AfterHook(upq)
  BY DEF ScopeKept, Request, upstream
<1> QED
  BY <1>1, <1>3, <1>4, FreshMoves

(* So has a new heartbeat.                                                 *)
LEMMA BeatMoves ==
  ASSUME RoutingInv, LineParts, HeartbeatTick
  PROVE  LinesMoved
<1>1. next_id \notin Allocated
  BY ControlAssumption DEF RoutingInv, TypeOK, SharedType, Allocated
<1>2. \A id \in Ids : AtTask(id)' => AtTask(id) \/ id = next_id
  BY DEF HeartbeatTick, clients, AtTask, Holds
<1>3. ScopeKept /\ upq' \in AfterHook(upq)
  BY DEF ScopeKept, HeartbeatTick, AfterHook
<1> QED
  BY <1>1, <1>2, <1>3, FreshMoves

(* A line leaves a task's hands for the upstream channel.                  *)
LEMMA EnqueueMoves ==
  ASSUME RoutingInv, LineParts, NEW m \in Lines, Enqueue(m), ScopeKept,
         m # Anon => AtTask(m),
         \A id \in Ids : AtTask(id)' => AtTask(id) /\ id # m,
         m = hb \/ \E c \in Clients : pc[c] = "sending" /\ hand[c] = m
  PROVE  LinesMoved
<1>0. \A id \in Ids : id # Anon
  BY ControlAssumption DEF Ids
<1>1. m # Anon => ~InUpq(m) /\ \A e \in Slots : ~AtScopeOn(e, m)
  BY DEF LineParts, OneLine, LineApart, Lines
<1>2. /\ \A id \in Ids : InUpq(id)' <=> InUpq(id) \/ id = m
      /\ UpqDistinct'
  BY <1>1, LineAppended
     DEF Enqueue, RoutingInv, TypeOK, LineParts, OneLine
<1>3. /\ \A e \in Slots : \A id \in Ids : SameScope(e, id)
      /\ TakenApart'
  BY ScopeSame DEF LineParts, OneLine
<1>4. LineApart'
  BY <1>0, <1>1, <1>2, <1>3 DEF LineParts, OneLine, LineApart, SameScope
<1>5. \A id \in Ids : UpqFrom(id) /\ ScopeFrom(id)
  BY <1>2, <1>3 DEF UpqFrom, ScopeFrom, SameScope
<1> QED
  BY <1>2, <1>3, <1>4, <1>5 DEF LinesMoved, OneLine

(* A handler's line goes from its hand to the channel.                     *)
LEMMA SendMoves ==
  ASSUME RoutingInv, LineParts, NEW c \in Clients, Send(c)
  PROVE  LinesMoved
<1>1. /\ pc[c] = "sending" /\ pc'[c] = "reading" /\ UNCHANGED hb
      /\ hand[c] \in Lines /\ Enqueue(hand[c])
      /\ \A d \in Clients \ {c} : pc'[d] = pc[d] /\ hand'[d] = hand[d]
  BY DEF Send, Done, upstream, RoutingInv, TypeOK, ClientType
<1>2. ASSUME NEW id \in Ids, AtTask(id)'
      PROVE  AtTask(id) /\ id # hand[c]
  <2>1. AtTask(id)
    BY <1>1, <1>2 DEF AtTask, Holds
  <2>2. CASE id = hand[c]
    <3>1. Holds(c, id)
      BY <1>1, <2>2 DEF Holds
    <3>2. hb # id /\ \A d \in Clients : Holds(d, id) => d = c
      BY <3>1, TaskUnique
    <3> QED
      BY <1>1, <1>2, <3>2 DEF AtTask, Holds
  <2> QED
    BY <2>1, <2>2
<1>3. AtTask(hand[c])
  BY <1>1 DEF AtTask, Holds
<1>4. ScopeKept
  BY DEF ScopeKept, Send, upstream
<1> QED
  BY <1>1, <1>2, <1>3, <1>4, EnqueueMoves

(* So does the heartbeat task's.                                           *)
LEMMA BeatSendMoves ==
  ASSUME RoutingInv, LineParts, HeartbeatSend
  PROVE  LinesMoved
<1>1. hb \in Lines /\ hb # Anon /\ hb' = Anon /\ Enqueue(hb) /\ UNCHANGED <<pc, hand>>
  BY DEF HeartbeatSend, clients, RoutingInv, TypeOK, UpstreamType
<1>2. ASSUME NEW id \in Ids, AtTask(id)'
      PROVE  AtTask(id) /\ id # hb
  <2>0. id # Anon
    BY ControlAssumption DEF Ids
  <2>1. PICK c \in Clients : Holds(c, id)
    BY <1>1, <1>2, <2>0 DEF AtTask, Holds
  <2> QED
    BY <2>1, TaskUnique DEF AtTask
<1>3. AtTask(hb)
  BY DEF AtTask
<1>4. ScopeKept
  BY DEF ScopeKept, HeartbeatSend
<1> QED
  BY <1>1, <1>2, <1>3, <1>4, EnqueueMoves

(* The write loop hands the first line to the telescope.                   *)
LEMMA WriteMoves ==
  ASSUME RoutingInv, LineParts, UpWrite
  PROVE  LinesMoved
<1> DEFINE h == Head(upq)
<1>0. conn \in Slots /\ \A id \in Ids : id # Anon
  BY ControlAssumption DEF UpWrite, RoutingInv, ConnChosen, Ids
<1>1. /\ h \in Lines
      /\ \A id \in Ids : /\ id = h => InUpq(id)
                         /\ InUpq(id)' <=> InUpq(id) /\ id # h
      /\ UpqDistinct'
  BY LineTaken DEF UpWrite, RoutingInv, TypeOK, LineParts, OneLine
<1>2. \A id \in Ids : SameTask(id)
  BY DEF UpWrite, clients, SameTask, AtTask, Holds
<1>3. /\ sent'[conn] = sent[conn] \cup ({h} \ {Anon})
      /\ \A e \in Slots \ {conn} : sent'[e] = sent[e]
      /\ UNCHANGED <<rd, rdid>>
  BY <1>0 DEF UpWrite, RoutingInv, TypeOK, UpstreamType
<1>4. ASSUME NEW id \in Ids, NEW e \in Slots
      PROVE  AtScopeOn(e, id)' <=> AtScopeOn(e, id) \/ (e = conn /\ id = h)
  BY <1>0, <1>3 DEF AtScopeOn
<1>5. LineApart'
  BY <1>1, <1>2, <1>4 DEF LineParts, OneLine, LineApart, SameTask
<1>6. TakenApart'
  <2> SUFFICES ASSUME NEW e \in Slots, rd[e] = "taking" PROVE rdid[e] \notin sent'[e]
    BY <1>3 DEF TakenApart
  <2>1. rdid[e] \notin sent[e] /\ rdid[e] \in Lines
    BY DEF LineParts, OneLine, TakenApart, RoutingInv, TypeOK, UpstreamType
  <2>2. CASE rdid[e] = h /\ h # Anon
    <3>1. rdid[e] \in Ids /\ AtScopeOn(e, rdid[e])
      BY <1>1, <2>2 DEF Lines, AtScopeOn
    <3> QED
      BY <1>1, <2>2, <3>1 DEF LineParts, OneLine, LineApart
  <2> QED
    BY <1>3, <2>1, <2>2
<1>7. \A id \in Ids : UpqFrom(id) /\ ScopeFrom(id)
  BY <1>1, <1>4 DEF UpqFrom, ScopeFrom
<1> QED
  BY <1>1, <1>5, <1>6, <1>7 DEF LinesMoved, OneLine

(* A step after which no line is in a place where it was not before.       *)
LEMMA ShrinkMoves ==
  ASSUME RoutingInv, LineParts, UpqDistinct', TakenApart',
         \A id \in Ids : /\ AtTask(id)' => AtTask(id)
                         /\ InUpq(id)' => InUpq(id)
                         /\ \A e \in Slots : AtScopeOn(e, id)' => AtScopeOn(e, id)
  PROVE  LinesMoved
BY LinesShrink DEF LinesMoved, UpqFrom, ScopeFrom, LineParts, OneLine

(* Steps that only lose lines.                                             *)
LEMMA LossMoves ==
  ASSUME RoutingInv, LineParts,
         \/ \E c \in Clients : OverflowReply(c)
         \/ UpWriteError
         \/ \E e \in Slots : Connect(e) \/ TakePending(e) \/ TakeUntracked(e)
  PROVE  LinesMoved
<1>1. ASSUME NEW c \in Clients, OverflowReply(c) PROVE LinesMoved
  <2>1. /\ UNCHANGED <<hb, upq, sent, rd, rdid>> /\ pc'[c] = "reading"
        /\ \A d \in Clients \ {c} : pc'[d] = pc[d] /\ hand'[d] = hand[d]
    BY <1>1
       DEF OverflowReply, Done, shared, upstream, RoutingInv, TypeOK, ClientType
  <2>2. UpqDistinct' /\ TakenApart'
    BY <2>1 DEF LineParts, OneLine, UpqDistinct, TakenApart
  <2>3. ASSUME NEW id \in Ids
        PROVE  /\ AtTask(id)' => AtTask(id)
               /\ InUpq(id)' => InUpq(id)
               /\ \A e \in Slots : AtScopeOn(e, id)' => AtScopeOn(e, id)
    BY <2>1 DEF AtTask, Holds, InUpq, AtScopeOn
  <2> QED
    BY <2>2, <2>3, ShrinkMoves
<1>2. CASE UpWriteError
  <2>1. UNCHANGED <<hb, pc, hand, sent, rd, rdid>>
    BY <1>2 DEF UpWriteError, clients
  <2>2. /\ \A id \in Ids : InUpq(id)' => InUpq(id)
        /\ UpqDistinct'
    BY <1>2, LineTaken
       DEF UpWriteError, RoutingInv, TypeOK, LineParts, OneLine
  <2>3. TakenApart'
    BY <2>1 DEF LineParts, OneLine, TakenApart
  <2>4. ASSUME NEW id \in Ids
        PROVE  /\ AtTask(id)' => AtTask(id)
               /\ \A e \in Slots : AtScopeOn(e, id)' => AtScopeOn(e, id)
    BY <2>1 DEF AtTask, Holds, AtScopeOn
  <2> QED
    BY <2>2, <2>3, <2>4, ShrinkMoves
<1>3. ASSUME NEW e \in Slots, Connect(e) \/ TakePending(e) \/ TakeUntracked(e)
      PROVE  LinesMoved
  <2>1. /\ UNCHANGED <<hb, pc, hand>> /\ upq' \in AfterHook(upq)
        /\ rd'[e] # "taking" /\ sent'[e] \subseteq sent[e]
        /\ \A f \in Slots \ {e} : /\ rd'[f] = rd[f] /\ rdid'[f] = rdid[f]
                                 /\ sent'[f] = sent[f]
    BY <1>3
       DEF Connect, TakePending, TakeUntracked, clients, AfterHook,
           RoutingInv, TypeOK, UpstreamType
  <2>2. /\ \A id \in Ids : InUpq(id)' => InUpq(id)
        /\ UpqDistinct'
    BY <2>1, HookLine DEF RoutingInv, TypeOK, LineParts, OneLine
  <2>3. TakenApart'
    BY <2>1 DEF LineParts, OneLine, TakenApart
  <2>4. ASSUME NEW id \in Ids
        PROVE  /\ AtTask(id)' => AtTask(id)
               /\ \A f \in Slots : AtScopeOn(f, id)' => AtScopeOn(f, id)
    BY <2>1 DEF AtTask, Holds, AtScopeOn
  <2> QED
    BY <2>2, <2>3, <2>4, ShrinkMoves
<1> QED
  BY <1>1, <1>2, <1>3

(* An answer takes its line from the telescope to the reader.              *)
LEMMA ResponseMoves ==
  ASSUME RoutingInv, LineParts, NEW e \in Slots, NEW k \in Lines,
         ReadResponse(e, k)
  PROVE  LinesMoved
<1>0. \A id \in Ids : id # Anon
  BY ControlAssumption DEF Ids
<1>1. /\ UNCHANGED <<hb, pc, hand, upq>>
      /\ rd[e] = "reading" /\ rd'[e] = "taking" /\ rdid'[e] = k
      /\ sent'[e] = sent[e] \ {k} /\ (k \in sent[e] \/ k = Anon)
      /\ \A f \in Slots \ {e} : /\ rd'[f] = rd[f] /\ rdid'[f] = rdid[f]
                               /\ sent'[f] = sent[f]
  BY DEF ReadResponse, LineArrives, clients, RoutingInv, TypeOK, UpstreamType
<1>2. UpqDistinct' /\ TakenApart'
  BY <1>1 DEF LineParts, OneLine, UpqDistinct, TakenApart
<1>3. ASSUME NEW id \in Ids
      PROVE  /\ AtTask(id)' => AtTask(id)
             /\ InUpq(id)' => InUpq(id)
             /\ \A f \in Slots : AtScopeOn(f, id)' => AtScopeOn(f, id)
  BY <1>0, <1>1 DEF AtTask, Holds, InUpq, AtScopeOn
<1> QED
  BY <1>2, <1>3, ShrinkMoves

(* Every step keeps every line in one place.                               *)
LEMMA LinesMove ==
  ASSUME RoutingInv, LineParts, NoReaderYet, [Next]_vars
  PROVE  LinesMoved
<1>1. CASE ~LineMoving
  BY <1>1, QuietLines, QuietMoves
<1>2. CASE LineMoving
  BY <1>2, RequestMoves, BeatMoves, SendMoves, BeatSendMoves, WriteMoves,
     LossMoves, ResponseMoves DEF LineMoving
<1> QED
  BY <1>1, <1>2

(* The line of an answer that was taken is nowhere any more.               *)
LEMMA TakenGone ==
  ASSUME RoutingInv, LineParts, NEW e \in Slots, TakePending(e),
         NEW id \in Ids, rdid[e] = id
  PROVE  /\ ~AtTask(id)' /\ ~InUpq(id)'
         /\ \A f \in Slots : ~AtScopeOn(f, id)'
<1>1. AtScopeOn(e, id) /\ id \notin sent[e]
  BY DEF TakePending, AtScopeOn, LineParts, OneLine, TakenApart
<1>2. /\ ~AtTask(id) /\ ~InUpq(id)
      /\ \A f \in Slots : AtScopeOn(f, id) => f = e
  BY <1>1 DEF LineParts, OneLine, LineApart
<1>3. /\ UNCHANGED <<hb, pc, hand, upq, sent, rdid>> /\ rd'[e] = "routing"
      /\ \A f \in Slots \ {e} : rd'[f] = rd[f]
  BY DEF TakePending, clients, RoutingInv, TypeOK, UpstreamType
<1>4. ~AtTask(id)' /\ ~InUpq(id)'
  BY <1>2, <1>3 DEF AtTask, Holds, InUpq
<1>5. ASSUME NEW f \in Slots PROVE ~AtScopeOn(f, id)'
  BY <1>1, <1>2, <1>3 DEF AtScopeOn
<1> QED
  BY <1>4, <1>5

-----------------------------------------------------------------------------
(* Who waits for a line                                                    *)

(* Where a line that waits for room in the upstream channel comes from.    *)
LEMMA SendingFrom ==
  ASSUME RoutingInv, [Next]_vars, NEW c \in Clients,
         pc'[c] = "sending", hand'[c] # Anon
  PROVE  /\ hand'[c] = hand[c] /\ horig'[c] = horig[c]
         /\ pc[c] = "sending" \/ Register(c)
<1>0. ClientType
  BY DEF RoutingInv, TypeOK
<1>1. ASSUME NEW d \in Clients, Handler(d)
      PROVE  /\ hand'[c] = hand[c] /\ horig'[c] = horig[c]
             /\ pc[c] = "sending" \/ Register(c)
  BY <1>0, <1>1
     DEF Handler, Request, HookReply, Accept, Notification, HookBlock,
         HookReplySend, Register, RegisterFull, OverflowReply, Send, Done,
         CloseClient, ReadError, clients, ClientType
<1>2. CASE UNCHANGED <<pc, hand, horig>>
  BY <1>2
<1> QED
  BY <1>1, <1>2
     DEF Next, Writer, Upstream, Heartbeat, Reader, vars, clients, WriteReply,
         WriteEvent, WriteError, UpStart, Connect, DrainBegin, DrainOne,
         DrainEnd, Serve, UpWrite, UpWriteError, ReaderGone, HeartbeatTick,
         HeartbeatSend, ReaderStart, ReadInvalid, ReadEvent, ReadResponse,
         TakePending, TakeUntracked, Route, ReaderEnd, ReaderPanic

(* A handler that is about to send a line holds a request of its own       *)
(* client, still tracked.                                                  *)
LEMMA SendingStep ==
  ASSUME RoutingInv, LineParts, OwnerKept, [Next]_vars
  PROVE  SendingOwned' /\ SendingTracked'
<1> SUFFICES ASSUME NEW c \in Clients, pc'[c] = "sending", hand'[c] # Anon
             PROVE  /\ horig'[c] \in OrigIds
                    /\ hand'[c] \in Allocated'
                    /\ owner'[hand'[c]] = [client |-> c, orig |-> horig'[c]]
                    /\ Tracked(hand[c])'
  BY DEF SendingOwned, SendingTracked
<1>1. /\ hand'[c] = hand[c] /\ horig'[c] = horig[c]
      /\ pc[c] = "sending" \/ Register(c)
  BY SendingFrom
<1>2. /\ horig[c] \in OrigIds /\ hand[c] \in Allocated
      /\ owner[hand[c]] = [client |-> c, orig |-> horig[c]]
  BY <1>1
     DEF LineParts, SendingOwned, RoutingInv, Ownership, HandOwned, Register
<1>3. PICK k \in Ids : k = hand[c]
  BY <1>2, AllocatedIds DEF RoutingInv, TypeOK
<1>4. k \in Allocated' /\ owner'[k] = owner[k]
  BY <1>2, <1>3 DEF OwnerKept
<1>5. Tracked(k)'
  <2>1. CASE pc[c] = "sending"
    <3>1. Tracked(k)
      BY <1>1, <1>3, <2>1 DEF LineParts, LinesTracked, SendingTracked
    <3>2. AtTask(k)'
      BY <1>1, <1>3 DEF AtTask, Holds
    <3>3. \A e \in Slots : ~(TakePending(e) /\ rdid[e] = k)
      BY <3>2, TakenGone
    <3> QED
      BY <3>1, <3>3, TrackedKept
  <2>2. CASE Register(c)
    <3>1. k \in DOMAIN pending'
      BY <1>3, <2>2 DEF Register, Put
    <3> QED
      BY <1>4, <3>1 DEF Tracked, InMap
  <2> QED
    BY <1>1, <2>1, <2>2
<1>6. Tracked(hand[c])'
  BY <1>1, <1>3, <1>5 DEF Tracked, InMap
<1> QED
  BY <1>1, <1>2, <1>3, <1>4, <1>6

(* Every step keeps track of every line.                                   *)
LEMMA TrackingStep ==
  ASSUME RoutingInv, LineParts, NoReaderYet, OwnerKept, [Next]_vars
  PROVE  LinesTracked'
<1>0. \A id \in Ids : id # Anon
  BY ControlAssumption DEF Ids
<1>1. BeatTracked'
  <2>1. CASE UNCHANGED hb \/ hb' = Anon
    BY <2>1 DEF BeatTracked, LineParts, LinesTracked, OwnerKept
  <2>2. CASE HeartbeatTick
    BY <2>2, ControlAssumption
       DEF HeartbeatTick, Allocate, Put, BeatTracked, Allocated, RoutingInv,
           TypeOK, SharedType, HistoryType
  <2> QED
    BY <2>1, <2>2
       DEF Next, Handler, Writer, Upstream, Heartbeat, Reader, vars, upstream,
           Request, Accept, Notification, HookReply, HookBlock, HookReplySend,
           Register, RegisterFull, OverflowReply, Send, CloseClient,
           ReadError, WriteReply, WriteEvent, WriteError, UpStart, Connect,
           DrainBegin, DrainOne, DrainEnd, Serve, UpWrite, UpWriteError,
           ReaderGone, HeartbeatSend, ReaderStart, ReadInvalid, ReadEvent,
           ReadResponse, TakePending, TakeUntracked, Route, ReaderEnd,
           ReaderPanic
<1>2. SendingTracked'
  BY SendingStep
<1>3. ASSUME NEW id \in Ids, InUpq(id)' PROVE Tracked(id)'
  <2>1. Tracked(id)
    BY <1>0, <1>3, LinesMove
       DEF LinesMoved, UpqFrom, LineParts, LinesTracked, UpqTracked,
           BeatTracked, SendingTracked, Tracked
  <2>2. \A e \in Slots : ~(TakePending(e) /\ rdid[e] = id)
    BY <1>3, TakenGone
  <2> QED
    BY <2>1, <2>2, TrackedKept
<1>4. ASSUME NEW id \in Ids, NEW f \in Slots, AtScopeOn(f, id)'
      PROVE  Tracked(id)'
  <2>1. Tracked(id)
    BY <1>4, LinesMove
       DEF LinesMoved, ScopeFrom, LineParts, LinesTracked, UpqTracked,
           ScopeTracked
  <2>2. \A e \in Slots : ~(TakePending(e) /\ rdid[e] = id)
    BY <1>4, TakenGone
  <2> QED
    BY <2>1, <2>2, TrackedKept
<1>5. UpqTracked' /\ ScopeTracked'
  BY <1>3, <1>4 DEF UpqTracked, ScopeTracked
<1> QED
  BY <1>1, <1>2, <1>5 DEF LinesTracked

(* A subscriber has the line that was broadcast, and lines it had before.  *)
LEMMA BroadcastElements ==
  ASSUME ClientType, NEW m \in Lines, Broadcast(m), NEW c \in Clients,
         NEW i \in 1 .. Len(ev'[c])
  PROVE  ev'[c][i] = m \/ \E j \in 1 .. Len(ev[c]) : ev'[c][i] = ev[c][j]
<1>1. ev[c] \in Seq(Lines) /\ Len(ev[c]) \in Nat
  BY DEF ClientType
<1>2. CASE ev'[c] = ev[c]
  BY <1>2
<1>3. CASE ev'[c] = Append(ev[c], m)
  BY <1>1, <1>3, AppendElements
<1>4. CASE ev'[c] = Append(Tail(ev[c]), m) /\ ~(Len(ev[c]) < EvCap)
  <2>1. ev[c] # <<>>
    BY <1>1, <1>4, ControlAssumption
  <2>2. /\ Tail(ev[c]) \in Seq(Lines) /\ Len(Tail(ev[c])) = Len(ev[c]) - 1
        /\ \A j \in 1 .. Len(ev[c]) - 1 : Tail(ev[c])[j] = ev[c][j + 1]
    BY <1>1, <2>1, TailElements
  <2>3. CASE i = Len(Tail(ev[c])) + 1
    BY <1>4, <2>2, <2>3, AppendElements
  <2>4. CASE i # Len(Tail(ev[c])) + 1
    <3>1. /\ i \in 1 .. Len(ev[c]) - 1 /\ ev'[c][i] = Tail(ev[c])[i]
          /\ i + 1 \in 1 .. Len(ev[c])
      BY <1>1, <1>4, <2>2, <2>4, AppendElements
    <3> QED
      BY <2>2, <3>1
  <2> QED
    BY <2>3, <2>4
<1> QED
  BY <1>2, <1>3, <1>4 DEF Broadcast, Pushed

(* What may be broadcast stays so.                                         *)
Idle(id) == id \in Allocated /\ (owner[id] = NoReq \/ id \in refused)
IdleAfter(id) == id \in Allocated' /\ (owner'[id] = NoReq \/ id \in refused')

(* An id that nobody waits for stays one.                                  *)
LEMMA IdleKept ==
  ASSUME OwnerKept, [Next]_vars
  PROVE  \A id : Idle(id) => IdleAfter(id)
<1>1. refused \subseteq refused'
  BY DEF Next, Handler, Writer, Upstream, Heartbeat, Reader, vars, history,
         Request, Accept, Notification, HookReply, HookBlock, HookReplySend,
         Register, RegisterFull, OverflowReply, Send, CloseClient, ReadError,
         WriteReply, WriteEvent, WriteError, UpStart, Connect, DrainBegin,
         DrainOne, DrainEnd, Serve, UpWrite, UpWriteError, ReaderGone,
         HeartbeatTick, HeartbeatSend, ReaderStart, ReadInvalid, ReadEvent,
         ReadResponse, TakePending, TakeUntracked, Route, ReaderEnd,
         ReaderPanic
<1> QED
  BY <1>1 DEF Idle, IdleAfter, OwnerKept

(* Every step keeps the broadcast lines idle.                              *)
LEMMA EventStep ==
  ASSUME RoutingInv, LineParts, OwnerKept, [Next]_vars
  PROVE  EventsTracked'
<1> SUFFICES ASSUME NEW c \in Clients, NEW i \in 1 .. Len(ev'[c]),
                    ev'[c][i] # Anon
             PROVE  IdleAfter(ev'[c][i])
  BY DEF EventsTracked, IdleAfter
<1>0. ClientType
  BY DEF RoutingInv, TypeOK
<1>1. ASSUME NEW j \in 1 .. Len(ev[c]), ev'[c][i] = ev[c][j]
      PROVE  IdleAfter(ev'[c][i])
  <2>1. Idle(ev[c][j])
    BY <1>1 DEF LineParts, EventsTracked, Idle
  <2> QED
    BY <1>1, <2>1, IdleKept
<1>2. CASE UNCHANGED ev
  BY <1>1, <1>2
<1>3. ASSUME NEW d \in Clients, ev' = [ev EXCEPT ![d] = <<>>]
      PROVE  IdleAfter(ev'[c][i])
  BY <1>0, <1>1, <1>3 DEF ClientType
<1>4. ASSUME NEW d \in Clients, WriteEvent(d) PROVE IdleAfter(ev'[c][i])
  <2>1. CASE d = c
    <3>1. ev[c] \in Seq(Lines) /\ ev[c] # <<>> /\ ev'[c] = Tail(ev[c])
      BY <1>0, <1>4, <2>1 DEF WriteEvent, ClientType
    <3>2. i + 1 \in 1 .. Len(ev[c]) /\ ev'[c][i] = ev[c][i + 1]
      BY <3>1, TailElements
    <3> QED
      BY <1>1, <3>2
  <2>2. CASE d # c
    BY <1>0, <1>1, <1>4, <2>2 DEF WriteEvent, ClientType
  <2> QED
    BY <2>1, <2>2
<1>5. CASE Broadcast(Anon)
  BY <1>0, <1>1, <1>5, BroadcastElements DEF Lines
<1>6. ASSUME NEW e \in Slots, TakeUntracked(e), Broadcast(rdid[e])
      PROVE  IdleAfter(ev'[c][i])
  <2>1. CASE ev'[c][i] = rdid[e]
    <3>1. rdid[e] \in Ids /\ AtScopeOn(e, rdid[e])
      BY <1>6, <2>1
         DEF TakeUntracked, AtScopeOn, RoutingInv, TypeOK, UpstreamType, Lines
    <3>2. Idle(rdid[e])
      BY <1>6, <3>1
         DEF TakeUntracked, Untracked, LineParts, LinesTracked, ScopeTracked,
             Tracked, InMap, Idle
    <3> QED
      BY <2>1, <3>2, IdleKept
  <2>2. CASE ev'[c][i] # rdid[e]
    BY <1>0, <1>1, <1>6, <2>2, BroadcastElements
       DEF RoutingInv, TypeOK, UpstreamType
  <2> QED
    BY <2>1, <2>2
<1>7. ASSUME NEW d \in Clients, CloseClient(d) \/ WriteError(d)
      PROVE  IdleAfter(ev'[c][i])
  BY <1>3, <1>7 DEF CloseClient, WriteError
<1>8. ASSUME NEW e \in Slots, ReadEvent(e) \/ TakeUntracked(e)
      PROVE  IdleAfter(ev'[c][i])
  BY <1>2, <1>5, <1>6, <1>8 DEF ReadEvent, TakeUntracked
<1> QED
  BY <1>2, <1>4, <1>7, <1>8
     DEF Next, Handler, Writer, Upstream, Heartbeat, Reader, vars, clients,
         Request, Accept, Notification, HookReply, HookBlock, HookReplySend,
         Register, RegisterFull, OverflowReply, Send, ReadError, WriteReply,
         UpStart, Connect, DrainBegin, DrainOne, DrainEnd, Serve, UpWrite,
         UpWriteError, ReaderGone, HeartbeatTick, HeartbeatSend, ReaderStart,
         ReadInvalid, ReadResponse, TakePending, Route, ReaderEnd, ReaderPanic

-----------------------------------------------------------------------------
(* Readers and the flag of the dashboard                                   *)

(* What a step does to the readers: only a reader's own steps, Connect and *)
(* Serve change its control point.                                         *)
LEMMA ReaderSteps ==
  ASSUME RoutingInv, NoReaderYet, [Next]_vars
  PROVE  /\ NoReaderYet'
         /\ UpFlagHonest => UpFlagHonest'
<1>0. UpstreamType /\ ConnChosen
  BY DEF RoutingInv, TypeOK
<1>1. CASE UNCHANGED <<up, conn, rd, upstream_up, panicked>>
  BY <1>1 DEF NoReaderYet, UpFlagHonest, Alive
<1>2. CASE \/ UpStart \/ UpWriteError \/ ReaderGone \/ DrainBegin \/ DrainEnd
  BY <1>2
     DEF UpStart, UpWriteError, ReaderGone, DrainBegin, DrainEnd, shared,
         history, NoReaderYet, UpFlagHonest, Alive
<1>3. ASSUME NEW e \in Slots, Connect(e)
      PROVE  NoReaderYet' /\ (UpFlagHonest => UpFlagHonest')
  BY <1>0, <1>3 DEF Connect, NoReaderYet, UpFlagHonest, Alive, UpstreamType
<1>4. CASE Serve
  BY <1>0, <1>4
     DEF Serve, history, NoReaderYet, UpFlagHonest, Alive, UpstreamType,
         ConnChosen
<1>5. ASSUME NEW e \in Slots, NEW p \in {"reading", "taking", "routing"},
             rd[e] # "none", rd' = [rd EXCEPT ![e] = p], UNCHANGED <<up, conn>>
      PROVE  NoReaderYet' /\ (UpFlagHonest => UpFlagHonest')
  BY <1>0, <1>5 DEF NoReaderYet, UpFlagHonest, Alive, UpstreamType, ConnChosen
<1>6. ASSUME NEW e \in Slots, ReaderEnd(e) \/ ReaderPanic(e)
      PROVE  NoReaderYet' /\ (UpFlagHonest => UpFlagHonest')
  BY <1>0, <1>6
     DEF ReaderEnd, ReaderPanic, NoReaderYet, UpFlagHonest, Alive,
         UpstreamType, ConnChosen
<1>7. ASSUME NEW e \in Slots,
             \/ ReaderStart(e) \/ (\E id \in Lines : ReadResponse(e, id))
             \/ TakePending(e) \/ TakeUntracked(e) \/ Route(e)
      PROVE  NoReaderYet' /\ (UpFlagHonest => UpFlagHonest')
  BY <1>5, <1>7
     DEF ReaderStart, ReadResponse, LineArrives, TakePending, TakeUntracked,
         Route
<1> QED
  BY <1>1, <1>2, <1>3, <1>4, <1>6, <1>7
     DEF Next, Handler, Writer, Upstream, Heartbeat, Reader, vars, shared,
         upstream, history, Request, Accept, Notification, HookReply, HookBlock,
         HookReplySend, Register, RegisterFull, OverflowReply, Send,
         CloseClient, ReadError, WriteReply, WriteEvent, WriteError, DrainOne,
         UpWrite, HeartbeatTick, HeartbeatSend, ReadInvalid, ReadEvent

-----------------------------------------------------------------------------
(* No request waits for a connection that is gone                          *)

(* A request in the map can be answered on the current connection.         *)
Reachable(id) == InHand(id) \/ InQueue(id) \/ AtScope(id)
ReachAfter(id) == InHand(id)' \/ InQueue(id)' \/ AtScope(id)'

(* Whoever serves a connection has drained the map before, and every       *)
(* request since has its line on the way: no step leaves an orphan.        *)
LEMMA OrphanStep ==
  ASSUME RoutingInv, LineParts, NoReaderYet, NoOrphan, [Next]_vars
  PROVE  NoOrphan'
<1>0. /\ SharedType /\ ClientType /\ UpstreamType /\ ConnChosen
      /\ UpqDistinct
  BY DEF RoutingInv, TypeOK, LineParts, OneLine
<1>a. \A id \in Ids : id # Anon
  BY ControlAssumption DEF Ids
<1> SUFFICES ASSUME up' \in {"hooking", "serving"},
                    NEW id \in Ids, id \in DOMAIN pending'
             PROVE  ReachAfter(id)
  <2>1. SharedType'
    BY TypeStep DEF TypeOK
  <2> QED
    BY <2>1 DEF NoOrphan, ReachAfter, SharedType
<1>b. InQueue(id) <=> InUpq(id)
  BY DEF InQueue, InUpq
<1>c. InQueue(id)' <=> InUpq(id)'
  BY DEF InQueue, InUpq
<1>1. CASE DrainEnd
  BY <1>1 DEF DrainEnd, shared
<1>2. ASSUME NEW c \in Clients, Register(c) PROVE ReachAfter(id)
  <2>1. CASE id = hand[c]
    BY <1>0, <1>2, <2>1 DEF Register, ReachAfter, InHand, ClientType
  <2>2. CASE id # hand[c]
    <3>1. id \in DOMAIN pending /\ up \in {"hooking", "serving"}
      BY <1>2, <2>2 DEF Register, Put, upstream
    <3>2. Reachable(id)
      BY <3>1 DEF NoOrphan, Reachable
    <3> QED
      BY <1>0, <1>2, <3>2
         DEF Register, Reachable, ReachAfter, InHand, InQueue, AtScope,
             upstream, ClientType
  <2> QED
    BY <2>1, <2>2
<1>3. CASE Serve
  <2>1. Reachable(id) /\ conn \in Slots /\ rd[conn] = "none"
    BY <1>0, <1>3 DEF Serve, NoOrphan, Reachable, ConnChosen, NoReaderYet
  <2>2. InUpq(id)' <=> InUpq(id)
    BY <1>0, <1>3, HookLine DEF Serve
  <2>3. InHand(id)' <=> InHand(id)
    BY <1>3 DEF Serve, clients, InHand
  <2> QED
    BY <1>3, <1>b, <1>c, <2>1, <2>2, <2>3
       DEF Serve, Reachable, ReachAfter, AtScope
<1>4. ASSUME NEW c \in Clients, Send(c) PROVE ReachAfter(id)
  <2>1. Reachable(id)
    BY <1>4 DEF Send, upstream, NoOrphan, Reachable
  <2>2. hand[c] \in Lines /\ (InUpq(id)' <=> InUpq(id) \/ id = hand[c])
    BY <1>0, <1>4, LineAppended DEF Send, Enqueue, ClientType
  <2>3. \A d \in Clients \ {c} : pc'[d] = pc[d] /\ hand'[d] = hand[d]
    BY <1>0, <1>4 DEF Send, Done, ClientType
  <2>4. AtScope(id)' <=> AtScope(id)
    BY <1>4 DEF Send, upstream, AtScope
  <2> QED
    BY <1>b, <1>c, <2>1, <2>2, <2>3, <2>4 DEF Reachable, ReachAfter, InHand
<1>5. CASE UpWrite
  <2>1. Reachable(id) /\ conn \in Slots
    BY <1>0, <1>5 DEF UpWrite, NoOrphan, Reachable, ConnChosen
  <2>2. InUpq(id)' <=> InUpq(id) /\ id # Head(upq)
    BY <1>0, <1>5, LineTaken DEF UpWrite
  <2>3. /\ sent'[conn] = sent[conn] \cup ({Head(upq)} \ {Anon})
        /\ UNCHANGED <<conn, rd, rdid, pc, hand>>
    BY <1>0, <1>5, <2>1 DEF UpWrite, UpstreamType, clients
  <2>4. id = Head(upq) => AtScope(id)'
    BY <1>a, <2>3 DEF AtScope
  <2>5. (AtScope(id) => AtScope(id)') /\ (InHand(id) => InHand(id)')
    BY <2>3 DEF AtScope, InHand
  <2> QED
    BY <1>b, <1>c, <2>1, <2>2, <2>4, <2>5 DEF Reachable, ReachAfter
<1>6. CASE HeartbeatSend
  <2>1. Reachable(id)
    BY <1>6 DEF HeartbeatSend, NoOrphan, Reachable
  <2>2. InUpq(id) => InUpq(id)'
    BY <1>0, <1>6, LineAppended DEF HeartbeatSend, Enqueue, UpstreamType
  <2>3. UNCHANGED <<conn, rd, rdid, sent, pc, hand>>
    BY <1>6 DEF HeartbeatSend, clients
  <2>4. (AtScope(id) => AtScope(id)') /\ (InHand(id) => InHand(id)')
    BY <2>3 DEF AtScope, InHand
  <2> QED
    BY <1>b, <1>c, <2>1, <2>2, <2>4 DEF Reachable, ReachAfter
<1>7. ASSUME NEW e \in Slots, NEW k \in Lines, ReadResponse(e, k)
      PROVE  ReachAfter(id)
  <2>1. Reachable(id)
    BY <1>7 DEF ReadResponse, NoOrphan, Reachable
  <2>2. /\ rd[e] = "reading" /\ rd'[e] = "taking" /\ rdid'[e] = k
        /\ sent'[e] = sent[e] \ {k} /\ UNCHANGED <<conn, pc, hand, upq>>
        /\ \A f : f # e /\ f \in Slots =>
             rd'[f] = rd[f] /\ rdid'[f] = rdid[f] /\ sent'[f] = sent[f]
    BY <1>0, <1>7 DEF ReadResponse, LineArrives, UpstreamType, clients
  <2>3. conn \in Slots
    BY <1>0, <1>7 DEF ReadResponse, ConnChosen
  <2>4. (AtScope(id) => AtScope(id)') /\ (InHand(id) => InHand(id)')
    BY <2>2, <2>3 DEF AtScope, InHand
  <2> QED
    BY <2>1, <2>2, <2>4 DEF Reachable, ReachAfter, InQueue
<1>8. ASSUME NEW e \in Slots, TakePending(e) \/ TakeUntracked(e)
      PROVE  ReachAfter(id)
  <2>1. /\ id \in DOMAIN pending /\ id # rdid[e]
        /\ up \in {"hooking", "serving"}
    BY <1>8 DEF TakePending, TakeUntracked, Untracked, Remove
  <2>2. Reachable(id) /\ conn \in Slots
    BY <1>0, <2>1 DEF NoOrphan, Reachable, ConnChosen
  <2>3. /\ UNCHANGED <<conn, pc, hand, sent>> /\ upq' \in AfterHook(upq)
        /\ \A f : f # e /\ f \in Slots => rd'[f] = rd[f] /\ rdid'[f] = rdid[f]
    BY <1>0, <1>8 DEF TakePending, TakeUntracked, UpstreamType, clients, AfterHook
  <2>4. InUpq(id)' <=> InUpq(id)
    BY <1>0, <2>3, HookLine
  <2>5. (AtScope(id) => AtScope(id)') /\ (InHand(id) => InHand(id)')
    BY <2>1, <2>2, <2>3 DEF AtScope, InHand
  <2> QED
    BY <1>b, <1>c, <2>2, <2>4, <2>5 DEF Reachable, ReachAfter
<1>9. ASSUME UNCHANGED <<up, conn, sent>>, DOMAIN pending' \subseteq DOMAIN pending,
             upq' \in AfterHook(upq),
             \A c \in Clients : pc[c] = "sending" => pc'[c] = "sending" /\ hand'[c] = hand[c],
             \A e \in Slots : rd[e] = "taking" => rd'[e] = "taking" /\ rdid'[e] = rdid[e]
      PROVE  ReachAfter(id)
  <2>1. Reachable(id) /\ conn \in Slots
    BY <1>0, <1>9 DEF NoOrphan, Reachable, ConnChosen
  <2>2. InUpq(id)' <=> InUpq(id)
    BY <1>0, <1>9, HookLine
  <2>3. (AtScope(id) => AtScope(id)') /\ (InHand(id) => InHand(id)')
    BY <1>9, <2>1 DEF AtScope, InHand
  <2> QED
    BY <1>b, <1>c, <2>1, <2>2, <2>3 DEF Reachable, ReachAfter
<1>10. ASSUME NEW c \in Clients,
              \/ \E o \in OrigIds : Request(c, o) \/ HookReply(c, o)
              \/ Accept(c) \/ Notification(c) \/ HookBlock(c)
              \/ HookReplySend(c) \/ RegisterFull(c) \/ OverflowReply(c)
              \/ CloseClient(c) \/ ReadError(c)
       PROVE  ReachAfter(id)
  BY <1>0, <1>9, <1>10
     DEF Request, HookReply, Accept, Notification, HookBlock, HookReplySend,
         RegisterFull, OverflowReply, Done, CloseClient, ReadError, shared,
         clients, upstream, AfterHook, ClientType
<1>11. ASSUME NEW c \in Clients, WriteReply(c) \/ WriteEvent(c) \/ WriteError(c)
       PROVE  ReachAfter(id)
  BY <1>9, <1>11
     DEF WriteReply, WriteEvent, WriteError, shared, upstream, AfterHook
<1>12. CASE (\E k \in Ids : DrainOne(k)) \/ HeartbeatTick \/ UNCHANGED vars
  BY <1>9, <1>12
     DEF DrainOne, Remove, HeartbeatTick, vars, shared, clients, upstream,
         AfterHook
<1>13. ASSUME NEW e \in Slots,
              \/ ReaderStart(e) \/ ReadInvalid(e) \/ ReadEvent(e) \/ Route(e)
              \/ ReaderEnd(e) \/ ReaderPanic(e)
       PROVE  ReachAfter(id)
  BY <1>0, <1>9, <1>13
     DEF ReaderStart, ReadInvalid, ReadEvent, LineArrives, Route, ReaderEnd,
         ReaderPanic, shared, clients, upstream, AfterHook, UpstreamType
<1>14. CASE \/ UpStart \/ DrainBegin \/ UpWriteError \/ ReaderGone
            \/ \E e \in Slots : Connect(e)
  BY <1>14 DEF UpStart, DrainBegin, UpWriteError, ReaderGone, Connect
<1> QED
  BY <1>1, <1>2, <1>3, <1>4, <1>5, <1>6, <1>7, <1>8, <1>10, <1>11, <1>12,
     <1>13, <1>14
     DEF Next, Handler, Writer, Upstream, Heartbeat, Reader

-----------------------------------------------------------------------------
(* The theorems                                                            *)

(* Nothing is held at the start.                                           *)
LEMMA ProxyInit == Init => ProxyInv
<1> SUFFICES ASSUME Init
             PROVE  ProxyInv
  OBVIOUS
<1>1. RoutingInv
  BY RoutingInit
<1>2. \A c \in Clients : Len(resp[c]) = 0 /\ Len(ev[c]) = 0
  BY DEF Init
<1>3. Len(upq) = 0 /\ \A id \in Ids : id # Anon
  BY ControlAssumption DEF Init, Ids
<1>4. ReplyParts
  BY <1>2, ControlAssumption
     DEF Init, ReplyParts, OnePlace, AtHandler, InMap, AtReader, InResp,
         OneReader, OneReply, HookAnon, GotAllocated, RespRoom
<1>5. OneLine
  BY <1>3
     DEF Init, OneLine, LineApart, AtTask, Holds, InUpq, AtScopeOn,
         TakenApart, UpqDistinct
<1>6. SendingOwned /\ LinesTracked /\ EventsTracked
  BY <1>2, <1>3
     DEF Init, SendingOwned, LinesTracked, BeatTracked, SendingTracked,
         UpqTracked, InUpq, ScopeTracked, AtScopeOn, EventsTracked
<1>7. NoReaderYet /\ UpFlagHonest /\ NoOrphan
  BY DEF Init, NoReaderYet, UpFlagHonest, NoOrphan
<1> QED
  BY <1>1, <1>4, <1>5, <1>6, <1>7 DEF ProxyInv, LineParts

(* Every step keeps the invariant of the whole proxy.                      *)
LEMMA ProxyStep == ProxyInv /\ [Next]_vars => ProxyInv'
<1> SUFFICES ASSUME ProxyInv, [Next]_vars
             PROVE  ProxyInv'
  OBVIOUS
<1>1. RoutingInv /\ ReplyParts /\ LineParts /\ NoReaderYet /\ OwnerKept
  BY OwnerStep DEF ProxyInv, RoutingInv
<1>2. RoutingInv'
  BY <1>1, TypeStep, ConnStep, OwnershipStep, BoundStep
     DEF RoutingInv, TypeOK
<1>3. ReplyParts'
  BY <1>1, ReplyStep
<1>4. LineParts'
  BY <1>1, LinesMove, SendingStep, TrackingStep, EventStep
     DEF LineParts, LinesMoved
<1>5. NoReaderYet' /\ UpFlagHonest' /\ NoOrphan'
  BY <1>1, ReaderSteps, OrphanStep DEF ProxyInv
<1> QED
  BY <1>2, <1>3, <1>4, <1>5 DEF ProxyInv

(* The invariant of the whole proxy holds in every reachable state, for    *)
(* every number of clients, readers and reconnects: each request and each  *)
(* line is in one place, and whoever holds one holds its owner's.          *)
THEOREM ProxyInvariant == Spec => []ProxyInv
<1> QED
  BY ProxyInit, ProxyStep, PTL DEF Spec

(* A set of which any two members are equal has at most one member.        *)
LEMMA AtMostOne ==
  ASSUME NEW S, \A x, y \in S : x = y
  PROVE  Cardinality(S) = IF S = {} THEN 0 ELSE 1
<1>1. CASE S = {}
  BY <1>1, FS_EmptySet
<1>2. CASE S # {}
  <2>1. PICK x \in S : TRUE
    BY <1>2
  <2>2. S = {x}
    BY <2>1
  <2> QED
    BY <1>2, <2>2, FS_Singleton
<1> QED
  BY <1>1, <1>2

(* No request is replied to twice, however answers, reconnect drains and   *)
(* readers that outlived their connection interleave.                      *)
THEOREM RepliedOnce == Spec => []AtMostOneReply
<1>1. ProxyInv => AtMostOneReply
  <2> SUFFICES ASSUME ProxyInv, NEW id \in Ids
               PROVE  /\ Cardinality(Queued(id)) + Cardinality(Routing(id)) <= 1
                      /\ Queued(id) \cup Routing(id) # {} => id \notin got
                      /\ id \in DOMAIN pending =>
                           /\ Queued(id) \cup Routing(id) = {}
                           /\ id \notin got
    BY DEF AtMostOneReply
  <2>0. id # Anon
    BY ControlAssumption DEF Ids
  <2>1. Queued(id) # {} => InResp(id)
    <3>1. ASSUME NEW p \in Queued(id) PROVE InResp(id)
      BY <3>1, ControlAssumption DEF Queued, InResp, ProxyInv, RoutingInv,
         TypeOK, ClientType
    <3> QED
      BY <3>1
  <2>2. Routing(id) # {} => AtReader(id)
    BY DEF Routing, AtReader
  <2>3. \A p, q \in Queued(id) : p = q
    <3> SUFFICES ASSUME NEW p \in Queued(id), NEW q \in Queued(id)
                 PROVE  p = q
      OBVIOUS
    <3>1. /\ p \in Clients \X (1 .. RespCap) /\ q \in Clients \X (1 .. RespCap)
          /\ p[2] \in 1 .. Len(resp[p[1]]) /\ resp[p[1]][p[2]].id = id
          /\ q[2] \in 1 .. Len(resp[q[1]]) /\ resp[q[1]][q[2]].id = id
      BY ControlAssumption DEF Queued, ProxyInv, RoutingInv, TypeOK, ClientType
    <3>2. /\ owner[id] = [client |-> p[1], orig |-> resp[p[1]][p[2]].orig]
          /\ owner[id] = [client |-> q[1], orig |-> resp[q[1]][q[2]].orig]
      BY <2>0, <3>1
         DEF ProxyInv, ReplyParts, HookAnon, RoutingInv, Ownership, QueueOwned
    <3>3. p[1] = q[1]
      BY <3>2
    <3>4. p[2] = q[2]
      BY <2>0, <3>1, <3>3 DEF ProxyInv, ReplyParts, OneReply
    <3> QED
      BY <3>1, <3>3, <3>4
  <2>4. \A e, f \in Routing(id) : e = f
    BY DEF Routing, ProxyInv, ReplyParts, OneReader
  <2>5. /\ Cardinality(Queued(id)) = IF Queued(id) = {} THEN 0 ELSE 1
        /\ Cardinality(Routing(id)) = IF Routing(id) = {} THEN 0 ELSE 1
    BY <2>3, <2>4, AtMostOne
  <2>6. ~(Queued(id) # {} /\ Routing(id) # {})
    BY <2>1, <2>2 DEF ProxyInv, ReplyParts, OnePlace
  <2>7. Cardinality(Queued(id)) + Cardinality(Routing(id)) <= 1
    BY <2>5, <2>6
  <2>8. /\ Queued(id) \cup Routing(id) # {} => id \notin got
        /\ InMap(id) => Queued(id) \cup Routing(id) = {} /\ id \notin got
    BY <2>1, <2>2 DEF ProxyInv, ReplyParts, OnePlace
  <2> QED
    BY <2>7, <2>8 DEF InMap
<1> QED
  BY <1>1, ProxyInvariant, PTL

(* While a connection is served nothing in the pending map waits for       *)
(* another one: the drain of the reconnect leaves no orphan.               *)
THEOREM NothingOrphaned == Spec => []NoOrphan
<1>1. ProxyInv => NoOrphan
  BY DEF ProxyInv
<1> QED
  BY <1>1, ProxyInvariant, PTL

(* An answer is broadcast only when it is a heartbeat's, or that of a      *)
(* request already refused: no answer somebody waits for goes astray.      *)
THEOREM BroadcastsUntracked == Spec => []BroadcastUntracked
<1>1. ProxyInv => BroadcastUntracked
  BY DEF ProxyInv, LineParts, EventsTracked, BroadcastUntracked
<1> QED
  BY <1>1, ProxyInvariant, PTL

(* The dashboard's flag is up without a reader task alive only after a     *)
(* reader panicked, and until the flag is next stored: the overlap of old  *)
(* and new readers alone never leaves it so (upstream_reader_task).        *)
THEOREM FlagHonest == Spec => []UpFlagHonest
<1>1. ProxyInv => UpFlagHonest
  BY DEF ProxyInv
<1> QED
  BY <1>1, ProxyInvariant, PTL

-----------------------------------------------------------------------------
(* The ledger                                                              *)

(* A held request is in one of the four places a request can be in.        *)
LEMMA HeldPlaces ==
  \A id : Held(id) <=> AtHandler(id) \/ InMap(id) \/ AtReader(id) \/ InResp(id)
BY DEF Held, AtHandler, InMap, AtReader, InResp

(* The same after a step.                                                  *)
LEMMA HeldPlacesAfter ==
  \A id : Held(id)' <=> \/ AtHandler(id)' \/ InMap(id)'
                        \/ AtReader(id)' \/ InResp(id)'
BY DEF Held, AtHandler, InMap, AtReader, InResp

(* A held request is open in the ledger.                                   *)
LEMMA HeldOpen ==
  ASSUME ProxyInv, NEW id \in Ids, Held(id)
  PROVE  StatusOf(id) = "open" /\ id \notin got
<1>1. id \in Allocated /\ owner[id] \in Requests
  BY HeldPlaces, HeldAllocated DEF ProxyInv
<1>2. id \in DOMAIN owner /\ owner[id] # NoReq
  BY <1>1, ControlAssumption
     DEF ProxyInv, RoutingInv, TypeOK, HistoryType, Requests
<1>3. id \notin got
  BY HeldPlaces DEF ProxyInv, ReplyParts, OnePlace
<1> QED
  BY <1>2, <1>3 DEF StatusOf

(* A step after which the same requests are held is none of the ledger's.  *)
LEMMA LedgerStutter ==
  ASSUME UNCHANGED owner,
         \A id \in Ids : (Held(id)' <=> Held(id)) /\ SameGot(id)
  PROVE  UNCHANGED LedgerStatus
<1>1. ASSUME NEW id \in Ids PROVE StatusOf(id)' = StatusOf(id)
  BY DEF StatusOf, SameGot
<1> QED
  BY <1>1 DEF LedgerStatus

(* Requests that are held no more, and not replied to, are dropped.        *)
LEMMA LedgerDrop ==
  ASSUME ProxyInv, UNCHANGED owner, NEW S \in SUBSET Ids,
         \A id \in S : Held(id),
         \A id \in Ids : (Held(id)' <=> Held(id) /\ id \notin S) /\ SameGot(id)
  PROVE  [Ledger!Next]_LedgerStatus
<1>1. CASE S = {}
  BY <1>1, LedgerStutter
<1>2. CASE S # {}
  <2>1. ASSUME NEW id \in S
        PROVE  LedgerStatus[id] = "open" /\ StatusOf(id)' = "dropped"
    <3>1. StatusOf(id) = "open" /\ id \notin got
      BY HeldOpen
    <3>2. ~Held(id)' /\ id \notin got'
      BY <3>1 DEF SameGot
    <3> QED
      BY <3>1, <3>2 DEF StatusOf, LedgerStatus
  <2>2. ASSUME NEW id \in Ids \ S PROVE StatusOf(id)' = StatusOf(id)
    BY DEF StatusOf, SameGot
  <2>3. LedgerStatus' = [id \in Ids |-> IF id \in S THEN "dropped"
                                                    ELSE LedgerStatus[id]]
    BY <2>1, <2>2 DEF LedgerStatus
  <2>4. Ledger!Drop(S)
    BY <1>2, <2>1, <2>3 DEF Ledger!Drop
  <2> QED
    BY <2>4 DEF Ledger!Next
<1> QED
  BY <1>1, <1>2

(* A request that is held no more because its reply was written is closed  *)
(* by that reply.                                                          *)
LEMMA LedgerReply ==
  ASSUME ProxyInv, UNCHANGED owner, NEW k \in Ids, Held(k),
         \A id \in Ids : /\ Held(id)' <=> Held(id) /\ id # k
                         /\ id \in got' <=> id \in got \/ id = k
  PROVE  [Ledger!Next]_LedgerStatus
<1>1. StatusOf(k) = "open"
  BY HeldOpen
<1>2. StatusOf(k)' = "replied"
  BY <1>1 DEF StatusOf
<1>3. ASSUME NEW id \in Ids \ {k} PROVE StatusOf(id)' = StatusOf(id)
  BY DEF StatusOf
<1>4. LedgerStatus' = [LedgerStatus EXCEPT ![k] = "replied"]
  BY <1>2, <1>3 DEF LedgerStatus
<1>5. Ledger!Reply(k)
  BY <1>1, <1>4 DEF Ledger!Reply, Ledger!Move, LedgerStatus
<1> QED
  BY <1>5 DEF Ledger!Next

(* A fresh id becomes a request, or the proxy's own.                       *)
LEMMA LedgerAllocate ==
  ASSUME ProxyInv, NEW r \in Requests \cup {NoReq}, Allocate(r),
         \A id \in Ids : /\ Held(id)' <=> Held(id) \/ (r # NoReq /\ id = next_id)
                         /\ SameGot(id)
  PROVE  [Ledger!Next]_LedgerStatus
<1>1. next_id \in Ids /\ next_id \notin DOMAIN owner
  BY ControlAssumption
     DEF Allocate, CanAllocate, ProxyInv, RoutingInv, TypeOK, SharedType,
         HistoryType, Allocated, Ids
<1>2. /\ DOMAIN owner' = DOMAIN owner \cup {next_id} /\ owner'[next_id] = r
      /\ \A id \in DOMAIN owner : owner'[id] = owner[id]
  BY <1>1 DEF Allocate, Put
<1>3. PICK k \in Ids : k = next_id
  BY <1>1
<1>4. StatusOf(k) = "free"
  BY <1>1, <1>3 DEF StatusOf
<1>5. StatusOf(k)' = IF r = NoReq THEN "own" ELSE "open"
  BY <1>2, <1>3 DEF StatusOf
<1>6. ASSUME NEW id \in Ids \ {k} PROVE StatusOf(id)' = StatusOf(id)
  BY <1>2, <1>3 DEF StatusOf, SameGot
<1>7. LedgerStatus' = [LedgerStatus EXCEPT ![k] = IF r = NoReq THEN "own"
                                                               ELSE "open"]
  BY <1>5, <1>6 DEF LedgerStatus
<1>8. Ledger!Open(k) \/ Ledger!Own(k)
  BY <1>4, <1>7 DEF Ledger!Open, Ledger!Own, Ledger!Move, LedgerStatus
<1> QED
  BY <1>8 DEF Ledger!Next

(* Every step of the proxy is a step of the ledger.                        *)
LEMMA LedgerStep == ProxyInv /\ [Next]_vars => [Ledger!Next]_LedgerStatus
<1> SUFFICES ASSUME ProxyInv, [Next]_vars
             PROVE  [Ledger!Next]_LedgerStatus
  OBVIOUS
<1>0. RoutingInv /\ ReplyParts /\ NoReaderYet /\ OwnerKept
  BY OwnerStep DEF ProxyInv, RoutingInv
<1> USE HeldPlaces, HeldPlacesAfter
    DEF SameHandler, SameMap, SameReader, SameResp
<1>1. ASSUME NEW c \in Clients, NEW o \in OrigIds, Request(c, o)
      PROVE  [Ledger!Next]_LedgerStatus
  <2>1. [client |-> c, orig |-> o] \in Requests
    BY DEF Requests
  <2>2. [client |-> c, orig |-> o] # NoReq
    BY <2>1, ControlAssumption DEF Requests
  <2>3. \A id \in Ids : (Held(id)' <=> Held(id) \/ id = next_id) /\ SameGot(id)
    BY <1>0, <1>1, RequestEffect
  <2> QED
    BY <1>1, <2>1, <2>2, <2>3, LedgerAllocate DEF Request
<1>2. CASE HeartbeatTick
  <2>1. PlacesKept
    BY <1>2
       DEF HeartbeatTick, clients, PlacesKept, HandlersKept, ReadersKept
  <2>2. \A id \in Ids : (Held(id)' <=> Held(id)) /\ SameGot(id)
    BY <2>1, PlacesSame
  <2> QED
    BY <1>2, <2>2, LedgerAllocate DEF HeartbeatTick
<1>3. ASSUME NEW c \in Clients, Register(c) PROVE [Ledger!Next]_LedgerStatus
  BY <1>0, <1>3, RegisterEffect, LedgerStutter DEF Register, history
<1>4. ASSUME NEW c \in Clients, HookReplySend(c)
      PROVE  [Ledger!Next]_LedgerStatus
  BY <1>0, <1>4, HookReplySendEffect, LedgerStutter DEF HookReplySend, history
<1>5. ASSUME NEW e \in Slots, TakePending(e) PROVE [Ledger!Next]_LedgerStatus
  BY <1>0, <1>5, TakePendingEffect, LedgerStutter DEF TakePending, history
<1>6. ASSUME NEW c \in Clients, OverflowReply(c)
      PROVE  [Ledger!Next]_LedgerStatus
  <2>1. PICK S \in SUBSET Ids : S = IF Open(c) THEN {} ELSE {hand[c]}
    BY <1>0, <1>6, OverflowReplyEffect
  <2>2. \A id \in S : Held(id)
    BY <1>0, <1>6, <2>1, OverflowReplyEffect
  <2>3. \A id \in Ids : (Held(id)' <=> Held(id) /\ id \notin S) /\ SameGot(id)
    BY <1>0, <1>6, <2>1, OverflowReplyEffect DEF ReplyParts, OnePlace
  <2> QED
    BY <1>6, <2>2, <2>3, LedgerDrop DEF OverflowReply, history
<1>7. ASSUME NEW c \in Clients, CloseClient(c) \/ WriteError(c)
      PROVE  [Ledger!Next]_LedgerStatus
  <2>1. PICK S \in SUBSET Ids : S = {id \in Ids : InRespOf(c, id)}
    OBVIOUS
  <2>2. \A id \in S : InResp(id)
    BY <2>1 DEF InResp, InRespOf
  <2>3. \A id \in Ids : (Held(id)' <=> Held(id) /\ id \notin S) /\ SameGot(id)
    BY <1>0, <1>7, <2>1, <2>2, ChannelDropEffect DEF ReplyParts, OnePlace
  <2> QED
    BY <1>7, <2>2, <2>3, LedgerDrop DEF CloseClient, WriteError, history
<1>8. ASSUME NEW c \in Clients, WriteReply(c) PROVE [Ledger!Next]_LedgerStatus
  <2>1. CASE Head(resp[c]).id \in Ids
    <3>1. PICK k \in Ids : k = Head(resp[c]).id
      BY <2>1
    <3>2. Held(k) /\ \A id \in Ids : /\ Held(id)' <=> Held(id) /\ id # k
                                     /\ id \in got' <=> id \in got \/ id = k
      BY <1>0, <1>8, <3>1, WriteReplyEffect DEF ReplyParts, OnePlace
    <3> QED
      BY <1>8, <3>2, LedgerReply DEF WriteReply
  <2>2. CASE Head(resp[c]).id \notin Ids
    BY <1>0, <1>8, <2>2, WriteReplyEffect, LedgerStutter
       DEF WriteReply, SameGot
  <2> QED
    BY <2>1, <2>2
<1>9. ASSUME NEW k \in Ids, DrainOne(k) PROVE [Ledger!Next]_LedgerStatus
  <2>1. PICK S \in SUBSET Ids : S = IF RefusalQueued(k) THEN {} ELSE {k}
    OBVIOUS
  <2>2. \A id \in S : Held(id)
    BY <1>0, <1>9, <2>1, DrainOneEffect
  <2>3. \A id \in Ids : (Held(id)' <=> Held(id) /\ id \notin S) /\ SameGot(id)
    BY <1>0, <1>9, <2>1, DrainOneEffect DEF ReplyParts, OnePlace
  <2> QED
    BY <1>9, <2>2, <2>3, LedgerDrop DEF DrainOne
<1>10. ASSUME NEW e \in Slots, Route(e) PROVE [Ledger!Next]_LedgerStatus
  <2>1. PICK S \in SUBSET Ids :
          S = IF Open(rdreq[e].client) THEN {} ELSE {rdid[e]}
    BY <1>0, <1>10, RouteEffect
  <2>2. \A id \in S : Held(id)
    BY <1>0, <1>10, <2>1, RouteEffect
  <2>3. \A id \in Ids : (Held(id)' <=> Held(id) /\ id \notin S) /\ SameGot(id)
    BY <1>0, <1>10, <2>1, RouteEffect DEF ReplyParts, OnePlace
  <2> QED
    BY <1>10, <2>2, <2>3, LedgerDrop DEF Route, history
<1>11. CASE ~Moving /\ ~HeartbeatTick
  <2>1. PlacesKept
    BY <1>0, <1>11, QuietActions
  <2>2. \A id \in Ids : (Held(id)' <=> Held(id)) /\ SameGot(id)
    BY <2>1, PlacesSame
  <2>3. UNCHANGED owner
    BY <1>11
       DEF Next, Handler, Writer, Upstream, Heartbeat, Reader, Moving, vars,
           history, Accept, Notification, HookReply, HookBlock, RegisterFull,
           Send, ReadError, WriteEvent, UpStart, Connect, DrainBegin,
           DrainEnd, Serve, UpWrite, UpWriteError, ReaderGone, HeartbeatSend,
           ReaderStart, ReadInvalid, ReadEvent, ReadResponse, TakeUntracked,
           ReaderEnd, ReaderPanic
  <2> QED
    BY <2>2, <2>3, LedgerStutter
<1> QED
  BY <1>1, <1>2, <1>3, <1>4, <1>5, <1>6, <1>7, <1>8, <1>9, <1>10, <1>11
     DEF Moving

(* The proxy implements the request ledger for every number of clients,    *)
(* readers and reconnects: a request is opened once, closed once, by its   *)
(* one reply or by being dropped, and never comes back.                    *)
THEOREM ImplementsLedger == Spec => LedgerSpec
<1>1. Init => Ledger!Init
  <2> SUFFICES ASSUME Init PROVE Ledger!Init
    OBVIOUS
  <2>1. DOMAIN owner = {}
    BY DEF Init
  <2> QED
    BY <2>1 DEF Ledger!Init, LedgerStatus, StatusOf
<1> QED
  BY <1>1, LedgerStep, ProxyInvariant, PTL DEF Spec, LedgerSpec, Ledger!Spec
=============================================================================
