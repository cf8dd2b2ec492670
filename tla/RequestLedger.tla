---------------------------- MODULE RequestLedger ----------------------------
(***************************************************************************)
(* What the control proxy promises about requests, without saying how: a   *)
(* request is opened once, under an id nobody used before; it is closed    *)
(* once, by the one reply its client gets, or by being dropped because the *)
(* client is gone or has no room for an error; a closed request never      *)
(* comes back.  Ids the proxy uses for its own heartbeats are never        *)
(* anybody's request.                                                      *)
(***************************************************************************)
CONSTANT ReqIds

VARIABLE status

Statuses == {"free", "own", "open", "replied", "dropped"}

Init == status = [id \in ReqIds |-> "free"]

Move(id, from, to) ==
  /\ status[id] = from
  /\ status' = [status EXCEPT ![id] = to]

Open(id)  == Move(id, "free", "open")
Own(id)   == Move(id, "free", "own")
Reply(id) == Move(id, "open", "replied")

(* A client that goes away takes all its open requests with it.            *)
Drop(S) ==
  /\ S # {}
  /\ \A id \in S : status[id] = "open"
  /\ status' = [id \in ReqIds |-> IF id \in S THEN "dropped" ELSE status[id]]

Next ==
  \/ \E id \in ReqIds : Open(id) \/ Own(id) \/ Reply(id)
  \/ \E S \in SUBSET ReqIds : Drop(S)

Spec == Init /\ [][Next]_status
=============================================================================
