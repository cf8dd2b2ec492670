----------------------------- MODULE ControlMuxInv -----------------------------
(* The inductive invariant behind the safety properties of ControlMux.     *)
EXTENDS ControlMux

(* Once the task has connected it has a connection.                        *)
ConnChosen == up \notin {"waiting", "connecting"} => conn \in Slots

(* Whoever holds a request holds the one its id was given to.              *)
PendingOwned ==
  \A id \in DOMAIN pending : id \in Allocated /\ owner[id] = pending[id]
HandOwned ==
  \A c \in Clients : pc[c] \in {"lock", "overflow"} =>
    /\ horig[c] \in OrigIds
    /\ hand[c] \in Allocated
    /\ owner[hand[c]] = [client |-> c, orig |-> horig[c]]
HookHeld == \A c \in Clients : pc[c] = "replying" => horig[c] \in OrigIds
ReaderOwned ==
  \A e \in Slots : rd[e] = "routing" =>
    /\ rdreq[e] \in Requests
    /\ rdid[e] \in Allocated
    /\ owner[rdid[e]] = rdreq[e]
QueueOwned ==
  \A c \in Clients : \A i \in 1 .. Len(resp[c]) :
    resp[c][i].kind # "hook" =>
      /\ resp[c][i].id \in Allocated
      /\ owner[resp[c][i].id] = [client |-> c, orig |-> resp[c][i].orig]

Ownership == PendingOwned /\ HandOwned /\ HookHeld /\ ReaderOwned /\ QueueOwned

(* The inductive invariant: every holder of a request agrees with the      *)
(* history of who the id was given to.                                     *)
RoutingInv == TypeOK /\ ConnChosen /\ Ownership /\ PendingBounded

-----------------------------------------------------------------------------
(* Where a request is: with a handler that has not registered it, in the   *)
(* pending map, with a reader that routes its answer, or as a reply in a   *)
(* response channel.  After that its reply is written (got), or it is gone.*)
AtHandler(id) ==
  \E c \in Clients : pc[c] \in {"lock", "overflow"} /\ hand[c] = id
InMap(id)    == id \in DOMAIN pending
AtReader(id) == \E e \in Slots : rd[e] = "routing" /\ rdid[e] = id
InResp(id)   ==
  \E c \in Clients : \E i \in 1 .. Len(resp[c]) : resp[c][i].id = id

(* A request is in at most one of these places.                            *)
OnePlace ==
  \A id \in Ids :
    /\ AtHandler(id) => ~InMap(id) /\ ~AtReader(id) /\ ~InResp(id)
    /\ InMap(id) => ~AtReader(id) /\ ~InResp(id)
    /\ AtReader(id) => ~InResp(id)
    /\ id \in got =>
         ~AtHandler(id) /\ ~InMap(id) /\ ~AtReader(id) /\ ~InResp(id)

(* And there once.                                                         *)
OneReader ==
  \A e, f \in Slots :
    rd[e] = "routing" /\ rd[f] = "routing" /\ rdid[e] = rdid[f] => e = f
OneReply ==
  \A c \in Clients : \A i, j \in 1 .. Len(resp[c]) :
    resp[c][i].id # Anon /\ resp[c][i].id = resp[c][j].id => i = j

(* A hook's reply answers no request of the proxy's; ids written to a      *)
(* client were allocated.                                                  *)
HookAnon ==
  \A c \in Clients : \A i \in 1 .. Len(resp[c]) :
    resp[c][i].kind = "hook" => resp[c][i].id = Anon
GotAllocated == got \subseteq Allocated
RespRoom == \A c \in Clients : Len(resp[c]) <= RespCap

ReplyParts == /\ OnePlace /\ OneReader /\ OneReply
              /\ HookAnon /\ GotAllocated /\ RespRoom

(* Before a connection is served it has no reader.                         *)
NoReaderYet ==
  up \in {"locking", "draining", "hooking"} => rd[conn] = "none"

(* A line is in one place on its way to the telescope and back: held by a  *)
(* handler or the heartbeat task, in the upstream channel, with the        *)
(* telescope, or with the reader that got its answer.                      *)
Holds(c, id) == pc[c] \in {"lock", "overflow", "sending"} /\ hand[c] = id
AtTask(id)   == hb = id \/ \E c \in Clients : Holds(c, id)
InUpq(id)    == \E i \in 1 .. Len(upq) : upq[i] = id
AtScopeOn(e, id) == id \in sent[e] \/ (rd[e] = "taking" /\ rdid[e] = id)

LineApart ==
  \A id \in Ids :
    /\ AtTask(id) => ~InUpq(id) /\ \A e \in Slots : ~AtScopeOn(e, id)
    /\ InUpq(id) => \A e \in Slots : ~AtScopeOn(e, id)
    /\ \A e, f \in Slots : AtScopeOn(e, id) /\ AtScopeOn(f, id) => e = f
TakenApart == \A e \in Slots : rd[e] = "taking" => rdid[e] \notin sent[e]
UpqDistinct ==
  \A i, j \in 1 .. Len(upq) : upq[i] # Anon /\ upq[i] = upq[j] => i = j

OneLine == LineApart /\ TakenApart /\ UpqDistinct

(* A handler that waits for room in the upstream channel holds its own     *)
(* client's request, or a notification.                                    *)
SendingOwned ==
  \A c \in Clients : pc[c] = "sending" /\ hand[c] # Anon =>
    /\ horig[c] \in OrigIds
    /\ hand[c] \in Allocated
    /\ owner[hand[c]] = [client |-> c, orig |-> horig[c]]

(* A line that was registered and whose answer is not taken yet belongs to *)
(* a heartbeat, to a request in the map, or to one that was refused.       *)
Tracked(id) ==
  id \in Allocated /\ (owner[id] = NoReq \/ InMap(id) \/ id \in refused)
BeatTracked == hb # Anon => hb \in Allocated /\ owner[hb] = NoReq
SendingTracked ==
  \A c \in Clients : pc[c] = "sending" /\ hand[c] # Anon => Tracked(hand[c])
UpqTracked   == \A id \in Ids : InUpq(id) => Tracked(id)
ScopeTracked == \A id \in Ids : (\E e \in Slots : AtScopeOn(e, id)) => Tracked(id)

LinesTracked == BeatTracked /\ SendingTracked /\ UpqTracked /\ ScopeTracked

(* Only a line that no request in the map waits for was broadcast.         *)
EventsTracked ==
  \A c \in Clients : \A i \in 1 .. Len(ev[c]) :
    ev[c][i] # Anon => /\ ev[c][i] \in Allocated
                       /\ owner[ev[c][i]] = NoReq \/ ev[c][i] \in refused

LineParts == OneLine /\ SendingOwned /\ LinesTracked /\ EventsTracked

(* The inductive invariant of the whole proxy.                             *)
ProxyInv ==
  /\ RoutingInv /\ ReplyParts /\ LineParts
  /\ NoReaderYet /\ UpFlagHonest /\ NoOrphan
=============================================================================
