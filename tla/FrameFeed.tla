------------------------------ MODULE FrameFeed ------------------------------
(***************************************************************************)
(* What the imaging proxy promises its clients: there is one stream of     *)
(* frames, and every client sees a part of it in order, no frame twice.    *)
(* A slow client may miss frames; it never holds anybody up.               *)
(***************************************************************************)
EXTENDS Naturals, Sequences

CONSTANT Viewers

VARIABLES
  published,   \* how many frames the stream has
  seen         \* per viewer, the frames it was shown

Init == published = 0 /\ seen = [c \in Viewers |-> <<>>]

Publish == published' = published + 1 /\ UNCHANGED seen

Newest(c) == IF seen[c] = <<>> THEN 0 ELSE seen[c][Len(seen[c])]

Show(c) ==
  /\ \E n \in (Newest(c) + 1) .. published :
       seen' = [seen EXCEPT ![c] = Append(@, n)]
  /\ UNCHANGED published

Next == Publish \/ \E c \in Viewers : Show(c)

Spec == Init /\ [][Next]_<<published, seen>>
=============================================================================
