----------------------------- MODULE TunnelStack -----------------------------
(***************************************************************************)
(* A port of the WireGuard endpoint's userspace TCP stack                  *)
(* (src/src/wireguard/netstack.rs) with the bridges that join its          *)
(* connections to the local proxy (src/src/wireguard/bridge.rs).           *)
(*                                                                         *)
(* One turn of run_stack is one action: smoltcp processes a packet or a    *)
(* tick, and when it reports a change the stack takes a new connection,    *)
(* drops a closed one, and moves at most one message each way.  smoltcp    *)
(* itself is external: a socket with a receive and a send buffer, and the  *)
(* events of the tunnel's peer.  The two ports have nothing in common but  *)
(* the turns of the loop, so one is modelled.                              *)
(*                                                                         *)
(* A byte is its position in its stream.  Connections are numbered.        *)
(***************************************************************************)
EXTENDS Integers, Sequences, FiniteSets, SequencesExt

CONSTANTS
  MaxConns,        \* bound: connections the peer opens
  MaxUp, MaxDown,  \* bound: bytes of a connection, each way
  RxCap, TxCap,    \* the socket's buffers (65536 bytes each)
  ChanCap,         \* messages in a channel of a bridge (64)
  RecvMax,         \* bytes of one recv_slice (4096)
  ReadMax          \* bytes of one read from the local proxy (32768)

ASSUME TunnelAssumption ==
  /\ MaxConns \in Nat \ {0} /\ MaxUp \in Nat /\ MaxDown \in Nat
  /\ RxCap \in Nat \ {0} /\ TxCap \in Nat \ {0} /\ ChanCap \in Nat \ {0}
  /\ RecvMax \in Nat \ {0} /\ ReadMax \in Nat \ {0}

VARIABLES
  (* The socket (smoltcp) *)
  sock,      \* "listen", "syn", "open", "closewait" or "closed"
  rx, tx,    \* received and not yet read; written and not yet acknowledged
  (* The stack *)
  act,       \* active_connections has an entry for the socket
  conn,      \* whose channels the entry holds
  (* Per connection, its channels and its bridge *)
  up, down,  \* from_tunnel and to_tunnel: sequences of messages
  bridge,    \* "none", "queued" (its stream waits in conn_rx) or "started"
  pipes,     \* which of its two pipes run
  made,      \* bytes read from the local proxy
  upgot,     \* bytes written to the local proxy
  (* The peer's side of its latest connection, and history *)
  peer,      \* its number
  sent,      \* bytes the peer sent and the socket acknowledged
  downgot,   \* bytes the peer received
  hole       \* in which directions a full channel, a short write or a
             \* failed write has lost bytes

socket == <<sock, rx, tx>>
stack  == <<act, conn>>
bridges == <<bridge, pipes, made, upgot>>
remote == <<peer, sent, downgot>>
vars   == <<socket, stack, up, down, bridges, remote, hole>>

Conns == 1 .. MaxConns
Bytes == 1 .. (MaxUp + MaxDown)

(* Every variable keeps its type, buffers and channels their capacity.     *)
TypeOK ==
  /\ sock \in {"listen", "syn", "open", "closewait", "closed"}
  /\ rx \in Seq(Bytes) /\ Len(rx) <= RxCap
  /\ tx \in Seq(Bytes) /\ Len(tx) <= TxCap
  /\ act \in BOOLEAN /\ conn \in 0 .. MaxConns
  /\ \A k \in Conns : Len(up[k]) <= ChanCap /\ Len(down[k]) <= ChanCap
  /\ up \in [Conns -> Seq(Seq(Bytes))] /\ down \in [Conns -> Seq(Seq(Bytes))]
  /\ bridge \in [Conns -> {"none", "queued", "started"}]
  /\ pipes \in [Conns -> SUBSET {"up", "down"}]
  /\ made \in [Conns -> 0 .. MaxDown] /\ upgot \in [Conns -> Seq(Bytes)]
  /\ peer \in 0 .. MaxConns /\ sent \in 0 .. MaxUp /\ downgot \in Seq(Bytes)
  /\ hole \subseteq {"up", "down"}

Init ==
  /\ sock = "listen" /\ rx = <<>> /\ tx = <<>>
  /\ act = FALSE /\ conn = 0
  /\ up = [k \in Conns |-> <<>>] /\ down = [k \in Conns |-> <<>>]
  /\ bridge = [k \in Conns |-> "none"] /\ pipes = [k \in Conns |-> {}]
  /\ made = [k \in Conns |-> 0] /\ upgot = [k \in Conns |-> <<>>]
  /\ peer = 0 /\ sent = 0 /\ downgot = <<>>
  /\ hole = {}

-----------------------------------------------------------------------------
(* A turn of the loop in which a socket changed                            *)

is_active(s) == s \in {"syn", "open", "closewait"}

(* Bytes are written only to a connection that is set up; the peer may     *)
(* have closed its side.                                                   *)
(* Mutant: not after the peer has closed its side.                         *)
can_send_Open(s, t) == s = "open" /\ Len(t) < TxCap
can_send(s, t) == s \in {"open", "closewait"} /\ Len(t) < TxCap

Shorter(a, b) == IF a < b THEN a ELSE b
Taken(s, n)   == SubSeq(s, 1, Shorter(n, Len(s)))
Dropped(s, n) == SubSeq(s, Shorter(n, Len(s)) + 1, Len(s))

(* try_send succeeds: the bridge has its end of the channel, and the       *)
(* channel has room.                                                       *)
Fits(k) ==
  (bridge[k] = "queued" \/ "up" \in pipes[k]) /\ Len(up[k]) < ChanCap

(* What recv_slice leaves in the receive buffer r.                         *)
Unread(r) == Dropped(r, RecvMax)

(* What is left of the channel q when its first message, of which room     *)
(* bytes fit, was written.  Mutant: a message that did not fit as a whole  *)
(* is kept, and written again.                                             *)
Unsent_Again(q, room) == IF Len(Head(q)) > room THEN q ELSE Tail(q)
Unsent(q, room) == Tail(q)

(* Received bytes go to the bridge as one message.                         *)
MoveUp(r) ==
  /\ rx' = Unread(r)
  /\ up' = IF r # <<>> /\ Fits(conn)
             THEN [up EXCEPT ![conn] = Append(@, Taken(r, RecvMax))] ELSE up

(* One message of the bridge goes to the socket t; send_slice takes as     *)
(* much of it as fits.                                                     *)
MoveDown(s, t) ==
  LET q    == down[conn]
      room == TxCap - Len(t)
  IN IF can_send(s, t) /\ q # <<>>
       THEN /\ tx' = t \o Taken(Head(q), room)
            /\ down' = [down EXCEPT ![conn] = Unsent(q, room)]
       ELSE tx' = t /\ UNCHANGED down

Holes(s, r, t) ==
  {d \in {"up", "down"} :
     IF d = "up" THEN r # <<>> /\ ~Fits(conn)
     ELSE /\ can_send(s, t) /\ down[conn] # <<>>
          /\ Len(down[conn][1]) > TxCap - Len(t)}

(* A closed connection loses its entry, which closes both channels: what   *)
(* is in down is gone, what is in up can still be taken.                   *)
(* Mutant: the entry is kept.                                              *)
DropEntry_Keep == UNCHANGED <<act, down>>
DropEntry == act' = FALSE /\ down' = [down EXCEPT ![conn] = <<>>]

(* smoltcp has left the socket as s, r, t.  The listening socket was the   *)
(* connection: nothing listens again after it is closed.                   *)
Turn(s, r, t) ==
  /\ sock' = s
  /\ IF is_active(s)
       THEN /\ MoveUp(r) /\ MoveDown(s, t)
            /\ hole' = hole \cup Holes(s, r, t)
            /\ UNCHANGED act
       ELSE /\ DropEntry
            /\ rx' = <<>> /\ tx' = <<>>
            /\ UNCHANGED <<up, hole>>
  /\ UNCHANGED <<conn, bridges>>

-----------------------------------------------------------------------------
(* What happens to the socket                                              *)

(* A SYN makes the listening socket active.  The socket has no entry, so   *)
(* it is a new connection: it gets channels, and a bridge is asked for.    *)
Syn ==
  /\ sock = "listen"
  /\ peer < MaxConns
  /\ sock' = "syn"
  /\ peer' = peer + 1 /\ sent' = 0 /\ downgot' = <<>> /\ hole' = {}
  /\ IF act THEN UNCHANGED <<stack, bridge>>
            ELSE /\ act' = TRUE
                 /\ conn' = conn + 1
                 /\ bridge' = [bridge EXCEPT ![conn + 1] = "queued"]
  /\ UNCHANGED <<rx, tx, up, down, pipes, made, upgot>>

Established == sock = "syn" /\ Turn("open", rx, tx) /\ UNCHANGED remote

(* n bytes become readable: a packet, or one that fills the gap before     *)
(* others.  There is room for them, and they are acknowledged.             *)
Data(n) ==
  /\ sock = "open"
  /\ sent + n <= MaxUp /\ Len(rx) + n <= RxCap
  /\ sent' = sent + n
  /\ Turn("open", rx \o [i \in 1 .. n |-> sent + i], tx)
  /\ UNCHANGED <<peer, downgot>>

(* The peer acknowledges n bytes, which may be none (a keepalive, or an    *)
(* acknowledgement it had sent before).                                    *)
Ack(n) ==
  /\ sock \in {"open", "closewait"}
  /\ n <= Len(tx)
  /\ downgot' = downgot \o Taken(tx, n)
  /\ Turn(sock, rx, Dropped(tx, n))
  /\ UNCHANGED <<peer, sent>>

(* The stack sends something: an acknowledgement, data, data again.        *)
(* Packets that find the egress channel full are lost, and sent again.     *)
Emit == is_active(sock) /\ Turn(sock, rx, tx) /\ UNCHANGED remote

Fin == sock = "open" /\ Turn("closewait", rx, tx) /\ UNCHANGED remote

(* A reset: an unfinished connection goes back to listening, any other is  *)
(* closed.                                                                 *)
Rst ==
  /\ is_active(sock)
  /\ Turn(IF sock = "syn" THEN "listen" ELSE "closed", rx, tx)
  /\ UNCHANGED remote

-----------------------------------------------------------------------------
(* The bridge of a connection, bridge_to_local()                           *)

Hangup(k, d) == pipes' = [pipes EXCEPT ![k] = @ \ {d}]

(* The local proxy is connected to, or refuses: then the stream is         *)
(* dropped, and with it the bridge's ends of the channels.  (A stream that *)
(* finds conn_tx full is dropped in the same way.)                         *)
BridgeStart(k) ==
  /\ bridge[k] = "queued"
  /\ bridge' = [bridge EXCEPT ![k] = "started"]
  /\ \/ pipes' = [pipes EXCEPT ![k] = {"up", "down"}] /\ UNCHANGED <<up, hole>>
     \/ /\ up' = [up EXCEPT ![k] = <<>>]
        /\ hole' = IF k = conn /\ act THEN hole \cup {"up"} ELSE hole
        /\ UNCHANGED pipes
  /\ UNCHANGED <<socket, stack, down, made, upgot, remote>>

UpPipe(k) ==
  /\ "up" \in pipes[k] /\ up[k] # <<>>
  /\ upgot' = [upgot EXCEPT ![k] = @ \o Head(up[k])]
  /\ up' = [up EXCEPT ![k] = Tail(@)]
  /\ UNCHANGED <<socket, stack, down, bridge, pipes, made, remote, hole>>

(* The write fails, or the channel is closed and empty.                    *)
UpPipeEnd(k) ==
  /\ "up" \in pipes[k]
  /\ up[k] # <<>> \/ k # conn \/ ~act
  /\ Hangup(k, "up")
  /\ hole' = IF k = conn /\ act THEN hole \cup {"up"} ELSE hole
  /\ up' = [up EXCEPT ![k] = <<>>]
  /\ UNCHANGED <<socket, stack, down, bridge, made, upgot, remote>>

(* n bytes are read from the local proxy and sent on when there is room.   *)
DownPipe(k, n) ==
  /\ "down" \in pipes[k]
  /\ k = conn /\ act
  /\ made[k] + n <= MaxDown /\ Len(down[k]) < ChanCap
  /\ made' = [made EXCEPT ![k] = @ + n]
  /\ down' = [down EXCEPT ![k] = Append(@, [i \in 1 .. n |-> made[k] + i])]
  /\ UNCHANGED <<socket, stack, up, bridge, pipes, upgot, remote, hole>>

(* The local proxy closed the connection, or the channel is closed.        *)
DownPipeEnd(k) ==
  /\ "down" \in pipes[k]
  /\ Hangup(k, "down")
  /\ UNCHANGED <<socket, stack, up, down, bridge, made, upgot, remote, hole>>

Next ==
  \/ Syn \/ Established \/ Emit \/ Fin \/ Rst
  \/ \E n \in 1 .. RxCap : Data(n)
  \/ \E n \in 0 .. TxCap : Ack(n)
  \/ \E k \in Conns : \/ BridgeStart(k) \/ UpPipe(k) \/ UpPipeEnd(k)
                      \/ DownPipeEnd(k)
                      \/ \E n \in 1 .. ReadMax : DownPipe(k, n)

Spec == Init /\ [][Next]_vars

-----------------------------------------------------------------------------
(* Safety                                                                  *)

Increasing(s) == \A i, j \in 1 .. Len(s) : i < j => s[i] < s[j]
Upto(n) == [i \in 1 .. n |-> i]

(* From the peer to the local proxy: bytes on the way and delivered are in *)
(* order and none is there twice; unless a message was dropped, they are   *)
(* all that the socket acknowledged.                                       *)
UpStream ==
  is_active(sock) =>
    LET s == upgot[conn] \o FlattenSeq(up[conn]) \o rx
    IN Increasing(s) /\ ("up" \notin hole => s = Upto(sent))

(* From the local proxy to the peer likewise.                              *)
DownStream ==
  is_active(sock) =>
    LET s == downgot \o tx \o FlattenSeq(down[conn])
    IN Increasing(s) /\ ("down" \notin hole => s = Upto(made[conn]))

(* A connection has channels and a bridge of its own: it never inherits    *)
(* those of an earlier connection on the same socket (run_stack, the test  *)
(* for an entry in active_connections).                                    *)
OwnBridge == is_active(sock) => act /\ conn = peer

(* Both byte streams of a connection stay in order, and bytes are missing  *)
(* only where a full channel or a short write dropped them (run_stack,     *)
(* bridge_to_local).                                                       *)
StreamsInOrder == UpStream /\ DownStream

(* The same piece by piece, which is inductive: a stream is what was       *)
(* delivered (first a, then b), the messages of a channel q, and what is   *)
(* still to be put there (d); its bytes are numbered up to top.            *)
Below(s, t) == \A x \in Range(s), y \in Range(t) : x < y

Ordered(a, b, q, d, top) ==
  /\ Increasing(a) /\ Increasing(b) /\ Increasing(d)
  /\ Below(a, b) /\ Below(a, d) /\ Below(b, d)
  /\ Range(a) \cup Range(b) \cup Range(d) \subseteq 1 .. top
  /\ \A i \in 1 .. Len(q) :
       /\ Increasing(q[i]) /\ Range(q[i]) \subseteq 1 .. top
       /\ Below(a, q[i]) /\ Below(b, q[i]) /\ Below(q[i], d)
       /\ \A j \in 1 .. Len(q) : i < j => Below(q[i], q[j])

Complete(a, b, q, d, top) ==
  \A x \in 1 .. top : \/ x \in Range(a) \cup Range(b) \cup Range(d)
                      \/ \E i \in 1 .. Len(q) : x \in Range(q[i])

PiecesInOrder ==
  act =>
    /\ Ordered(<<>>, upgot[conn], up[conn], rx, sent)
    /\ "up" \notin hole => Complete(<<>>, upgot[conn], up[conn], rx, sent)
    /\ Ordered(downgot, tx, down[conn], <<>>, made[conn])
    /\ "down" \notin hole =>
         Complete(downgot, tx, down[conn], <<>>, made[conn])

(* The entry of active_connections is there exactly while the socket is    *)
(* active, nothing is left in the buffers of a socket that is not, and     *)
(* nothing was done yet for connections to come.                           *)
EntryFollowsSocket ==
  /\ conn = peer /\ (act <=> is_active(sock))
  /\ ~act => rx = <<>> /\ tx = <<>>
  /\ \A k \in Conns : k > conn =>
       /\ up[k] = <<>> /\ down[k] = <<>> /\ bridge[k] = "none"
       /\ pipes[k] = {} /\ made[k] = 0 /\ upgot[k] = <<>>

(* Types, every connection with its own bridge, and its bytes in order.    *)
StackInv == TypeOK /\ OwnBridge /\ EntryFollowsSocket /\ PiecesInOrder

(* "pipes data bidirectionally between the tunnel stream and the local TCP *)
(* connection" (bridge.rs:16): no byte that the stack accepted is lost     *)
(* while both pipes of the bridge run.                                     *)
StreamIntact ==
  is_active(sock) /\ pipes[conn] = {"up", "down"} => hole = {}

-----------------------------------------------------------------------------
(* Liveness: the tasks of the runtime, and a peer that acknowledges and    *)
(* goes on sending packets, if only keepalives.                            *)
Fairness ==
  /\ WF_vars(Established)
  /\ WF_vars(\E n \in 0 .. TxCap : Ack(n))
  /\ \A k \in Conns : WF_vars(BridgeStart(k)) /\ WF_vars(UpPipe(k))

LiveSpec == Spec /\ Fairness

(* What the local proxy sends leaves the channel, as long as the           *)
(* connection lasts and its peer goes on sending packets.                  *)
DownMoves ==
  \A k \in Conns :
    (down[k] # <<>>) ~> (down[k] = <<>> \/ ~act)
=============================================================================
