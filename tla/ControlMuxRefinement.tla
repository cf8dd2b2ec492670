------------------------- MODULE ControlMuxRefinement -------------------------
(* The control proxy implements the request ledger.                        *)
EXTENDS ControlMux

(* Somebody in the proxy still holds the request or a reply to it.         *)
Held(id) ==
  \/ \E c \in Clients : pc[c] \in {"lock", "overflow"} /\ hand[c] = id
  \/ id \in DOMAIN pending
  \/ \E e \in Slots : rd[e] = "routing" /\ rdid[e] = id
  \/ \E c \in Clients : \E i \in 1 .. Len(resp[c]) : resp[c][i].id = id

(* The ledger entry of an id, read off the proxy's state.  A request that  *)
(* is held again after its reply was written shows as "open" again.        *)
StatusOf(id) ==
  IF id \notin DOMAIN owner THEN "free"
  ELSE IF owner[id] = NoReq THEN "own"
  ELSE IF Held(id) THEN "open"
  ELSE IF id \in got THEN "replied"
  ELSE "dropped"

LedgerStatus == [id \in Ids |-> StatusOf(id)]

Ledger == INSTANCE RequestLedger WITH ReqIds <- Ids, status <- LedgerStatus

(* Every step of the proxy is a step of the ledger or leaves it alone:     *)
(* whatever tasks, reconnects and disconnects interleave, a request is     *)
(* closed once and never reopened (handle_client, upstream_reader_task,    *)
(* and the drain of the upstream task).                                    *)
LedgerSpec == Ledger!Spec
=============================================================================
