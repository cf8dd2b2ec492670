-------------------------- MODULE ImagingFanoutProofs --------------------------
(***************************************************************************)
(* Proofs about the imaging proxy, for every ring size, channel capacity,  *)
(* number of clients and length of the stream.                             *)
(***************************************************************************)
EXTENDS ImagingFanout, TLAPS

-----------------------------------------------------------------------------
(* The ring                                                                *)

(* Division with remainder.                                                *)
LEMMA Remainder ==
  ASSUME NEW R \in Nat \ {0}, NEW a \in Nat
  PROVE  a % R \in 0 .. R - 1 /\ \E q \in Int : a = R * q + (a % R)
<1>1. /\ a % R \in 0 .. R - 1 /\ a \div R \in Int
      /\ a = R * (a \div R) + (a % R)
  OBVIOUS
<1> QED
  BY <1>1

(* Numbers less than R apart have different remainders.                    *)
LEMMA RemaindersDiffer ==
  ASSUME NEW R \in Nat \ {0}, NEW a \in Nat, NEW b \in Nat, a < b, b - a < R
  PROVE  a % R # b % R
<1> SUFFICES ASSUME a % R = b % R PROVE FALSE
  OBVIOUS
<1>1. PICK p \in Int : a = R * p + (a % R)
  BY Remainder
<1>2. PICK q \in Int : b = R * q + (b % R)
  BY Remainder
<1>3. a % R \in Int
  BY Remainder
<1>4. b - a = R * (q - p)
  BY <1>1, <1>2, <1>3
<1>5. R * (q - p) > 0 /\ R * (q - p) < R
  BY <1>4
<1>6. CASE q - p <= 0
  BY <1>5, <1>6
<1>7. CASE q - p >= 1
  BY <1>5, <1>7
<1> QED
  BY <1>6, <1>7

(* A frame's slot is a slot of the ring, and no two frames that are in the *)
(* ring together share one.                                                *)
LEMMA SlotFacts ==
  ASSUME NEW n \in Nat \ {0}
  PROVE  /\ Slot(n) \in 0 .. RingCap - 1
         /\ \A m \in Nat \ {0} :
              m < n /\ n - m < RingCap => Slot(m) # Slot(n)
<1>1. RingCap \in Nat \ {0} /\ n - 1 \in Nat
  BY ImagingAssumption
<1>2. Slot(n) \in 0 .. RingCap - 1
  BY <1>1, Remainder DEF Slot
<1>3. ASSUME NEW m \in Nat \ {0}, m < n, n - m < RingCap
      PROVE  Slot(m) # Slot(n)
  <2>1. m - 1 \in Nat /\ m - 1 < n - 1 /\ (n - 1) - (m - 1) < RingCap
    BY <1>1, <1>3
  <2> QED
    BY <1>1, <2>1, RemaindersDiffer DEF Slot
<1> QED
  BY <1>2, <1>3

(* Broadcasting a frame overwrites the one that leaves the ring, no other. *)
LEMMA PublishRing ==
  ASSUME TypeOK, RingHolds, Publish
  PROVE  /\ RingHolds'
         /\ tail' = tail + 1 /\ tail' \in 0 .. MaxFrames
         /\ ring' \in [0 .. RingCap - 1 -> 0 .. MaxFrames]
<1>1. /\ tail \in Nat /\ tail < MaxFrames /\ tail' = tail + 1
      /\ tail' \in 0 .. MaxFrames /\ RingCap \in Nat \ {0} /\ MaxFrames \in Nat
  BY ImagingAssumption DEF TypeOK, Publish
<1>2. Slot(tail + 1) \in 0 .. RingCap - 1
  BY <1>1, SlotFacts
<1>3. ring' \in [0 .. RingCap - 1 -> 0 .. MaxFrames]
  BY <1>1, <1>2 DEF TypeOK, Publish
<1>4. ASSUME NEW n \in Oldest' .. tail' PROVE ring'[Slot(n)] = n
  <2>1. n \in Nat \ {0} /\ n <= tail + 1 /\ tail + 1 - n < RingCap
    BY <1>1 DEF Oldest
  <2>2. CASE n = tail + 1
    BY <1>2, <2>2 DEF Publish, TypeOK
  <2>3. CASE n # tail + 1
    <3>1. n \in Oldest .. tail
      BY <1>1, <2>1, <2>3 DEF Oldest
    <3>2. Slot(n) # Slot(tail + 1)
      BY <1>1, <2>1, <2>3, SlotFacts
    <3>3. Slot(n) \in 0 .. RingCap - 1
      BY <2>1, SlotFacts
    <3> QED
      BY <3>1, <3>2, <3>3 DEF Publish, TypeOK, RingHolds
  <2> QED
    BY <2>2, <2>3
<1> QED
  BY <1>1, <1>3, <1>4 DEF RingHolds, Slot

(* A frame a receiver may still read is where the ring says.               *)
LEMMA ShownFrame ==
  ASSUME FanoutInv, NEW c \in Clients, ShowFrame(c)
  PROVE  /\ ring[Slot(next[c])] = next[c]
         /\ next[c] \in Frames
         /\ got' = [got EXCEPT ![c] = Append(@, next[c])]
<1>1. next[c] \in Oldest .. tail
  BY DEF ShowFrame
<1>2. ring[Slot(next[c])] = next[c]
  BY <1>1 DEF FanoutInv, RingHolds
<1>3. next[c] \in Frames
  BY <1>1, ImagingAssumption, SMTT(30) DEF FanoutInv, TypeOK, Oldest, Frames
<1> QED
  BY <1>2, <1>3 DEF ShowFrame

-----------------------------------------------------------------------------
(* The parts of the invariant, step by step                                *)

(* The empty sequence has every type.                                      *)
LEMMA EmptySeq == \A S : <<>> \in Seq(S)
OBVIOUS

(* The elements of a sequence with one more at its end.                    *)
LEMMA AppendElements ==
  ASSUME NEW S, NEW s \in Seq(S), NEW r \in S
  PROVE  /\ Append(s, r) \in Seq(S)
         /\ Len(Append(s, r)) = Len(s) + 1
         /\ \A i \in 1 .. Len(s) + 1 :
              Append(s, r)[i] = IF i = Len(s) + 1 THEN r ELSE s[i]
OBVIOUS

(* The elements of a sequence without its first.                           *)
LEMMA TailElements ==
  ASSUME NEW S, NEW s \in Seq(S), s # <<>>
  PROVE  /\ Tail(s) \in Seq(S) /\ Head(s) \in S /\ Head(s) = s[1]
         /\ Len(s) \in Nat \ {0} /\ Len(Tail(s)) = Len(s) - 1
         /\ \A i \in 1 .. Len(s) - 1 : Tail(s)[i] = s[i + 1]
OBVIOUS

(* Only the reader's payload step changes the stream.                      *)
LEMMA FeedStep ==
  ASSUME FanoutInv, [Next]_vars
  PROVE  /\ RingHolds'
         /\ tail' \in 0 .. MaxFrames /\ tail <= tail'
         /\ ring' \in [0 .. RingCap - 1 -> 0 .. MaxFrames]
<1>0. TypeOK /\ RingHolds /\ tail \in Int
  BY ImagingAssumption DEF FanoutInv, TypeOK
<1>1. CASE UNCHANGED feed
  <2>1. tail' = tail /\ ring' = ring
    BY <1>1 DEF feed
  <2> QED
    BY <1>0, <2>1 DEF RingHolds, Oldest, Slot, TypeOK
<1>2. ASSUME NEW e \in Slots, ReadPayload(e)
      PROVE  /\ RingHolds'
             /\ tail' \in 0 .. MaxFrames /\ tail <= tail'
             /\ ring' \in [0 .. RingCap - 1 -> 0 .. MaxFrames]
  BY <1>0, <1>2, PublishRing DEF ReadPayload
<1> QED
  BY <1>1, <1>2
     DEF Next, Client, Upstream, Reader, vars, Accept, ReadLine, SendLine,
         Close, ReadError, ShowFrame, SkipFrames, FrameError, BeatTick,
         BeatSend, Resolve, Connect, UpWrite, UpWriteError, ReaderGone,
         ReaderStart, ReadHeader, ReaderEnd

(* Every step keeps the types.                                             *)
LEMMA TypeStep ==
  ASSUME FanoutInv, [Next]_vars
  PROVE  TypeOK'
<1>0. /\ TypeOK /\ Receivers /\ tail' \in 0 .. MaxFrames
      /\ ring' \in [0 .. RingCap - 1 -> 0 .. MaxFrames]
  BY FeedStep DEF FanoutInv
<1>a. MaxFrames \in Nat /\ MaxLines \in Nat /\ UpCap \in Nat \ {0} /\ RingCap \in Nat \ {0}
  BY ImagingAssumption
<1>1. ASSUME NEW c \in Clients, Accept(c) PROVE TypeOK'
  <2>1. tail + 1 \in 0 .. MaxFrames + 1
    BY <1>0, <1>a DEF TypeOK
  <2>2. /\ next' \in [Clients -> 0 .. MaxFrames + 1]
        /\ from' \in [Clients -> 0 .. MaxFrames + 1]
    BY <1>0, <1>1, <2>1 DEF Accept, Subscribe, TypeOK
  <2>3. addr' \in BOOLEAN
    BY <1>0, <1>1 DEF Accept, TypeOK
  <2> QED
    BY <1>0, <1>1, <2>2, <2>3 DEF Accept, TypeOK
<1>2. ASSUME NEW c \in Clients, ReadLine(c) PROVE TypeOK'
  <2>1. lines[c] + 1 \in 0 .. MaxLines
    BY <1>0, <1>a, <1>2, SMTT(30) DEF ReadLine, TypeOK
  <2> QED
    BY <1>0, <1>2, <2>1 DEF ReadLine, TypeOK, upstream, history
<1>3. ASSUME NEW c \in Clients, SendLine(c) PROVE TypeOK'
  <2>1. lines[c] \in 1 .. MaxLines
    <3>1. fwd[c] \in 0 .. MaxLines /\ lines[c] \in 0 .. MaxLines
      BY <1>0 DEF TypeOK
    <3>2. fwd[c] <= lines[c] - 1
      BY <1>3 DEF SendLine, FanoutInv, FwdBehind
    <3> QED
      BY <1>a, <3>1, <3>2
  <2>2. <<c, lines[c]>> \in Lines
    BY <2>1 DEF Lines
  <2>3. upq' \in Seq(Lines) /\ Len(upq') <= UpCap
    BY <1>0, <1>3, <1>a, <2>2, AppendElements DEF SendLine, TypeOK
  <2> QED
    BY <1>0, <1>3, <2>3 DEF SendLine, TypeOK, history
<1>4. ASSUME NEW c \in Clients, Close(c) \/ ReadError(c) \/ FrameError(c)
      PROVE  TypeOK'
  BY <1>0, <1>4 DEF Close, ReadError, FrameError, TypeOK, upstream, history
<1>5. ASSUME NEW c \in Clients, ShowFrame(c) PROVE TypeOK'
  <2>1. got' \in [Clients -> Seq(Frames)]
    <3>1. next[c] \in Frames /\ got' = [got EXCEPT ![c] = Append(@, next[c])]
      BY <1>5, ShownFrame
    <3>2. Append(got[c], next[c]) \in Seq(Frames)
      BY <1>0, <3>1, AppendElements DEF TypeOK
    <3> QED
      BY <1>0, <3>1, <3>2 DEF TypeOK
  <2>2. next' \in [Clients -> 0 .. MaxFrames + 1]
    <3>1. next[c] + 1 \in 0 .. MaxFrames + 1
      BY <1>a, <1>5, ShownFrame DEF Frames
    <3> QED
      BY <1>0, <1>5, <3>1 DEF ShowFrame, TypeOK
  <2> QED
    BY <1>0, <1>5, <2>1, <2>2 DEF ShowFrame, TypeOK, upstream
<1>6. ASSUME NEW c \in Clients, SkipFrames(c) PROVE TypeOK'
  <2>1. Oldest \in 0 .. MaxFrames + 1
    BY <1>0, <1>a, SMTT(30) DEF Oldest, TypeOK
  <2> QED
    BY <1>0, <1>6, <2>1 DEF SkipFrames, TypeOK, upstream
<1>7. CASE BeatTick \/ Resolve \/ ReaderGone \/ UNCHANGED vars
  BY <1>0, <1>7 DEF BeatTick, Resolve, ReaderGone, TypeOK, vars, client,
     upstream, history
<1>8. CASE BeatSend
  <2>1. Beat \in Lines
    BY DEF Lines
  <2>2. upq' \in Seq(Lines) /\ Len(upq') <= UpCap
    BY <1>0, <1>8, <1>a, <2>1, AppendElements DEF BeatSend, TypeOK
  <2> QED
    BY <1>0, <1>8, <2>2 DEF BeatSend, TypeOK, client, history
<1>9. CASE UpWrite
  <2>1. upq' \in Seq(Lines) /\ Len(upq') <= UpCap /\ Head(upq) \in Lines
    BY <1>0, <1>9, <1>a, TailElements DEF UpWrite, TypeOK
  <2>2. fwd' \in [Clients -> 0 .. MaxLines]
    <3>1. CASE Head(upq) = Beat
      BY <1>0, <1>9, <3>1 DEF UpWrite, TypeOK
    <3>2. CASE Head(upq) # Beat
      <4>1. Head(upq) \in Clients \X (1 .. MaxLines)
        BY <2>1, <3>2 DEF Lines
      <4>2. Head(upq)[1] \in Clients /\ Head(upq)[2] \in 0 .. MaxLines
        BY <1>a, <4>1
      <4> QED
        BY <1>0, <1>9, <3>2, <4>2 DEF UpWrite, TypeOK
    <3> QED
      BY <3>1, <3>2
  <2> QED
    BY <1>0, <1>9, <2>1, <2>2 DEF UpWrite, TypeOK, client
<1>10. CASE UpWriteError
  <2>1. upq' \in Seq(Lines) /\ Len(upq') <= UpCap
    BY <1>0, <1>10, <1>a, TailElements DEF UpWriteError, TypeOK
  <2> QED
    BY <1>0, <1>10, <2>1 DEF UpWriteError, TypeOK, client, history
<1>11. ASSUME NEW e \in Slots, Connect(e) PROVE TypeOK'
  BY <1>0, <1>11 DEF Connect, TypeOK, client, history
<1>12. ASSUME NEW e \in Slots, Reader(e) PROVE TypeOK'
  BY <1>0, <1>12 DEF Reader, ReaderStart, ReadHeader, ReadPayload, ReaderEnd,
     TypeOK, client, history
<1> QED
  BY <1>1, <1>2, <1>3, <1>4, <1>5, <1>6, <1>7, <1>8, <1>9, <1>10, <1>11, <1>12
     DEF Next, Client, Upstream

(* The status flag is up only beside a living reader.                      *)
LEMMA FlagStep ==
  ASSUME TypeOK, ImagingFlagHonest, [Next]_vars
  PROVE  ImagingFlagHonest'
<1>1. CASE UNCHANGED <<up_flag, rd>>
  BY <1>1 DEF ImagingFlagHonest
<1>2. ASSUME NEW e \in Slots, Connect(e) PROVE ImagingFlagHonest'
  BY <1>2 DEF Connect, ImagingFlagHonest, TypeOK
<1>3. ASSUME NEW e \in Slots, Reader(e) PROVE ImagingFlagHonest'
  BY <1>3 DEF Reader, ReaderStart, ReadHeader, ReadPayload, ReaderEnd,
     ImagingFlagHonest, TypeOK
<1> QED
  BY <1>1, <1>2, <1>3
     DEF Next, Client, Upstream, vars, upstream, Accept, ReadLine, SendLine,
         Close, ReadError, ShowFrame, SkipFrames, FrameError, BeatTick,
         BeatSend, Resolve, UpWrite, UpWriteError, ReaderGone

(* Numbers of frames are integers.                                         *)
LEMMA FrameNumbers ==
  ASSUME TypeOK
  PROVE  /\ tail \in Int /\ Oldest \in Int /\ RingCap \in Int
         /\ \A c \in Clients : next[c] \in Int /\ from[c] \in Int
BY ImagingAssumption DEF TypeOK, Oldest

(* Where a receiver is, step by step; a lag it reports is real.            *)
LEMMA ReceiverStep ==
  ASSUME FanoutInv, [Next]_vars
  PROVE  Receivers' /\ LagIsReal'
<1>0. /\ TypeOK /\ Receivers /\ LagIsReal
      /\ tail \in Int /\ tail' \in Int /\ tail <= tail' /\ RingCap \in Nat \ {0}
      /\ \A c \in Clients : next[c] \in Int /\ from[c] \in Int
  BY FeedStep, FrameNumbers, ImagingAssumption DEF FanoutInv
<1>1. ASSUME NEW c \in Clients, Accept(c) PROVE Receivers' /\ LagIsReal'
  <2>1. /\ pc'[c] = "reading" /\ wr'[c] = "running" /\ pc[c] = "absent"
        /\ next'[c] = tail + 1 /\ from'[c] = tail + 1 /\ tail' = tail
        /\ tail \in Nat
        /\ UNCHANGED <<got, lagged>>
        /\ \A d \in Clients \ {c} : /\ pc'[d] = pc[d] /\ wr'[d] = wr[d]
                                   /\ next'[d] = next[d] /\ from'[d] = from[d]
    BY <1>0, <1>1 DEF Accept, Subscribe, TypeOK, feed
  <2>2. ASSUME NEW d \in Clients
        PROVE  /\ from'[d] <= next'[d] /\ next'[d] <= tail' + 1
               /\ wr'[d] = "running" => from'[d] > 0
               /\ pc'[d] = "absent" =>
                    wr'[d] = "none" /\ got'[d] = <<>> /\ ~lagged'[d]
               /\ lagged'[d] => tail' - (from'[d] - 1) > RingCap
    <3>1. CASE d = c
      BY <1>0, <2>1, <3>1 DEF Receivers
    <3>2. CASE d # c
      BY <1>0, <2>1, <3>2 DEF Receivers, LagIsReal
    <3> QED
      BY <3>1, <3>2
  <2> QED
    BY <2>2 DEF Receivers, LagIsReal
<1>2. ASSUME NEW c \in Clients,
             ReadLine(c) \/ SendLine(c) \/ Close(c) \/ ReadError(c) \/ FrameError(c)
      PROVE  Receivers' /\ LagIsReal'
  <2>1. /\ UNCHANGED <<tail, next, from, got, lagged>>
        /\ \A d \in Clients : /\ pc'[d] = "absent" => pc[d] = "absent" /\ wr'[d] = wr[d]
                              /\ wr'[d] = "running" => wr[d] = "running"
    BY <1>0, <1>2
       DEF ReadLine, SendLine, Close, ReadError, FrameError, feed, history,
           TypeOK, Receivers
  <2> QED
    BY <1>0, <2>1 DEF Receivers, LagIsReal
<1>3. ASSUME NEW c \in Clients, ShowFrame(c) PROVE Receivers' /\ LagIsReal'
  <2>1. /\ UNCHANGED <<tail, from, lagged, pc, wr>> /\ wr[c] = "running"
        /\ next[c] <= tail /\ next'[c] = next[c] + 1
        /\ \A d \in Clients \ {c} : next'[d] = next[d] /\ got'[d] = got[d]
    BY <1>0, <1>3, FrameNumbers DEF ShowFrame, feed, TypeOK
  <2>2. pc[c] # "absent"
    BY <1>0, <2>1 DEF Receivers
  <2>3. ASSUME NEW d \in Clients
        PROVE  /\ from'[d] <= next'[d] /\ next'[d] <= tail' + 1
               /\ wr'[d] = "running" => from'[d] > 0
               /\ pc'[d] = "absent" =>
                    wr'[d] = "none" /\ got'[d] = <<>> /\ ~lagged'[d]
    <3>1. CASE d = c
      BY <1>0, <2>1, <2>2, <3>1 DEF Receivers
    <3>2. CASE d # c
      BY <1>0, <2>1, <3>2 DEF Receivers
    <3> QED
      BY <3>1, <3>2
  <2> QED
    BY <1>0, <2>1, <2>3 DEF Receivers, LagIsReal
<1>4. ASSUME NEW c \in Clients, SkipFrames(c) PROVE Receivers' /\ LagIsReal'
  <2>1. /\ UNCHANGED <<tail, from, got, pc, wr>> /\ wr[c] = "running"
        /\ next[c] < Oldest /\ next'[c] = Oldest /\ lagged'[c] = TRUE
        /\ \A d \in Clients \ {c} : next'[d] = next[d] /\ lagged'[d] = lagged[d]
    BY <1>0, <1>4 DEF SkipFrames, feed, TypeOK
  <2>2. pc[c] # "absent" /\ from[c] > 0 /\ from[c] <= next[c] /\ next[c] \in Int
    BY <1>0, <2>1 DEF Receivers
  <2>3. /\ from[c] <= Oldest /\ Oldest <= tail + 1
        /\ tail - (from[c] - 1) > RingCap
    BY <1>0, <2>1, <2>2 DEF Oldest
  <2>4. ASSUME NEW d \in Clients
        PROVE  /\ from'[d] <= next'[d] /\ next'[d] <= tail' + 1
               /\ wr'[d] = "running" => from'[d] > 0
               /\ pc'[d] = "absent" =>
                    wr'[d] = "none" /\ got'[d] = <<>> /\ ~lagged'[d]
               /\ lagged'[d] => tail' - (from'[d] - 1) > RingCap
    <3>1. CASE d = c
      BY <1>0, <2>1, <2>2, <2>3, <3>1 DEF Receivers
    <3>2. CASE d # c
      BY <1>0, <2>1, <3>2 DEF Receivers, LagIsReal
    <3> QED
      BY <3>1, <3>2
  <2> QED
    BY <2>4 DEF Receivers, LagIsReal
<1>5. CASE UNCHANGED <<client, from, got, lagged>>
  <2>1. UNCHANGED <<next, pc, wr, from, got, lagged>>
    BY <1>5 DEF client
  <2> QED
    BY <1>0, <2>1 DEF Receivers, LagIsReal
<1> QED
  BY <1>1, <1>2, <1>3, <1>4, <1>5
     DEF Next, Client, Upstream, Reader, vars, client, history, BeatTick,
         BeatSend, Resolve, Connect, UpWrite, UpWriteError, ReaderGone,
         ReaderStart, ReadHeader, ReadPayload, ReaderEnd

-----------------------------------------------------------------------------
(* What a client was shown                                                 *)

(* A receiver that shows frame n after the frames from .. n-1 has shown    *)
(* the frames from .. n.                                                   *)
LEMMA RunExtends ==
  ASSUME NEW S, NEW f \in Int, NEW n \in Int, f <= n, n \in S, NEW s \in Seq(S),
         s = [i \in 1 .. (n - f) |-> f + i - 1]
  PROVE  Append(s, n) = [i \in 1 .. (n + 1 - f) |-> f + i - 1]
<1>1. Len(s) = n - f
  OBVIOUS
<1>2. /\ Append(s, n) \in Seq(S) /\ Len(Append(s, n)) = n - f + 1
      /\ \A i \in 1 .. n - f + 1 :
           Append(s, n)[i] = IF i = n - f + 1 THEN n ELSE s[i]
  BY <1>1, AppendElements
<1>3. ASSUME NEW i \in 1 .. n - f + 1 PROVE Append(s, n)[i] = f + i - 1
  BY <1>2
<1>4. DOMAIN Append(s, n) = 1 .. (n + 1 - f)
  BY <1>2
<1> QED
  BY <1>2, <1>3, <1>4

(* No step takes a frame from what a client was shown, or shows it one out *)
(* of its turn.                                                            *)
LEMMA MissedStep ==
  ASSUME FanoutInv, NothingMissed, [Next]_vars
  PROVE  NothingMissed'
<1>0. /\ TypeOK /\ Receivers /\ tail \in Int
      /\ \A c \in Clients : next[c] \in Int /\ from[c] \in Int
      /\ \A c \in Clients : got[c] \in Seq(Frames)
  BY FrameNumbers DEF FanoutInv, TypeOK
<1>1. CASE UNCHANGED <<next, from, got, lagged>>
  BY <1>1 DEF NothingMissed
<1>2. ASSUME NEW c \in Clients, Accept(c) PROVE NothingMissed'
  <2>1. /\ next'[c] = tail + 1 /\ from'[c] = tail + 1 /\ pc[c] = "absent"
        /\ UNCHANGED <<got, lagged>>
        /\ \A d \in Clients \ {c} : next'[d] = next[d] /\ from'[d] = from[d]
    BY <1>0, <1>2 DEF Accept, Subscribe, TypeOK
  <2>2. got'[c] = <<>> /\ next'[c] - from'[c] = 0
    BY <1>0, <2>1 DEF Receivers
  <2>3. got'[c] = [i \in 1 .. (next'[c] - from'[c]) |-> from'[c] + i - 1]
    BY <2>2
  <2> QED
    BY <2>1, <2>2, <2>3 DEF NothingMissed
<1>3. ASSUME NEW c \in Clients, ShowFrame(c) PROVE NothingMissed'
  <2>1. /\ got' = [got EXCEPT ![c] = Append(@, next[c])]
        /\ next[c] \in Frames
    BY <1>3, ShownFrame
  <2>2. /\ UNCHANGED <<from, lagged>> /\ next'[c] = next[c] + 1
        /\ got'[c] = Append(got[c], next[c]) /\ from[c] <= next[c]
        /\ \A d \in Clients \ {c} : next'[d] = next[d] /\ got'[d] = got[d]
    BY <1>0, <1>3, <2>1 DEF ShowFrame, TypeOK, Receivers
  <2>3. ASSUME NEW i \in 1 .. Len(got'[c])
        PROVE  got'[c][i] \in from'[c] .. (next'[c] - 1)
    <3>1. CASE i = Len(got[c]) + 1
      <4>1. got'[c][i] = next[c]
        BY <1>0, <2>1, <2>2, <3>1, AppendElements
      <4> QED
        BY <1>0, <2>2, <4>1
    <3>2. CASE i # Len(got[c]) + 1
      <4>1. i \in 1 .. Len(got[c]) /\ got'[c][i] = got[c][i]
        BY <1>0, <2>1, <2>2, <3>2, AppendElements
      <4>2. got[c][i] \in from[c] .. (next[c] - 1)
        BY <4>1 DEF NothingMissed
      <4> QED
        BY <1>0, <2>2, <4>1, <4>2
    <3> QED
      BY <3>1, <3>2
  <2>4. ASSUME ~lagged'[c]
        PROVE  got'[c] = [i \in 1 .. (next'[c] - from'[c]) |-> from'[c] + i - 1]
    <3>1. got[c] = [i \in 1 .. (next[c] - from[c]) |-> from[c] + i - 1]
      BY <2>2, <2>4 DEF NothingMissed
    <3>2. PICK f \in Int, n \in Int, s \in Seq(Frames) :
            f = from[c] /\ n = next[c] /\ s = got[c]
      BY <1>0
    <3>3. f <= n /\ n \in Frames /\ s = [i \in 1 .. (n - f) |-> f + i - 1]
      BY <2>1, <2>2, <3>1, <3>2
    <3>4. Append(s, n) = [i \in 1 .. (n + 1 - f) |-> f + i - 1]
      BY <3>3, RunExtends
    <3>5. next'[c] = n + 1 /\ from'[c] = f
      BY <2>2, <3>2
    <3>6. got'[c] = Append(s, n)
      BY <2>2, <3>2
    <3> QED
      BY <3>4, <3>5, <3>6
  <2> QED
    BY <2>2, <2>3, <2>4 DEF NothingMissed
<1>4. ASSUME NEW c \in Clients, SkipFrames(c) PROVE NothingMissed'
  <2>1. /\ UNCHANGED <<from, got>> /\ lagged'[c] = TRUE
        /\ next'[c] = Oldest /\ next[c] < Oldest /\ Oldest \in Int
        /\ \A d \in Clients \ {c} : next'[d] = next[d] /\ lagged'[d] = lagged[d]
    BY <1>0, <1>4, FrameNumbers DEF SkipFrames, TypeOK
  <2>2. ASSUME NEW i \in 1 .. Len(got[c])
        PROVE  got[c][i] \in from[c] .. (Oldest - 1)
    <3>1. got[c][i] \in from[c] .. (next[c] - 1)
      BY DEF NothingMissed
    <3> QED
      BY <1>0, <2>1, <3>1
  <2> QED
    BY <2>1, <2>2 DEF NothingMissed
<1> QED
  BY <1>1, <1>2, <1>3, <1>4
     DEF Next, Client, Upstream, Reader, vars, client, history, ReadLine,
         SendLine, Close, ReadError, FrameError, BeatTick, BeatSend, Resolve,
         Connect, UpWrite, UpWriteError, ReaderGone, ReaderStart, ReadHeader,
         ReadPayload, ReaderEnd

-----------------------------------------------------------------------------
(* The command lines                                                       *)

(* The lines of a client that left its handler.                            *)
Sent(c) == lines[c] - (IF pc[c] = "sending" THEN 1 ELSE 0)

(* LinesInOrder, stated of the lines and not of their fields.              *)
Ordered ==
  \A c \in Clients, n \in 1 .. MaxLines, i \in 1 .. Len(upq) :
    upq[i] = <<c, n>> =>
      /\ n > fwd[c] /\ n <= Sent(c)
      /\ \A m \in 1 .. MaxLines, j \in 1 .. Len(upq) :
           j > i /\ upq[j] = <<c, m>> => m > n

(* A line of the channel is a heartbeat or a numbered line of a client.    *)
LEMMA LineForm ==
  ASSUME TypeOK, NEW i \in 1 .. Len(upq), upq[i] # Beat
  PROVE  /\ upq[i][1] \in Clients /\ upq[i][2] \in 1 .. MaxLines
         /\ upq[i] = <<upq[i][1], upq[i][2]>>
<1>1. upq[i] \in Clients \X (1 .. MaxLines)
  BY DEF TypeOK, Lines
<1> QED
  BY <1>1

(* Line order stated for the whole queue is line order stated client by    *)
(* client.                                                                 *)
LEMMA OrderedMeans ==
  ASSUME TypeOK
  PROVE  Ordered <=> LinesInOrder
<1>1. ASSUME Ordered PROVE LinesInOrder
  <2>1. ASSUME NEW i \in 1 .. Len(upq), upq[i] # Beat
        PROVE  /\ upq[i][2] > fwd[upq[i][1]]
               /\ upq[i][2] <= lines[upq[i][1]]
                    - (IF pc[upq[i][1]] = "sending" THEN 1 ELSE 0)
               /\ \A j \in 1 .. Len(upq) :
                    j > i /\ upq[j] # Beat /\ upq[j][1] = upq[i][1]
                      => upq[j][2] > upq[i][2]
    <3>1. PICK c \in Clients, n \in 1 .. MaxLines : c = upq[i][1] /\ n = upq[i][2]
      BY <2>1, LineForm
    <3>2. upq[i] = <<c, n>>
      BY <2>1, <3>1, LineForm
    <3>3. /\ n > fwd[c] /\ n <= Sent(c)
          /\ \A m \in 1 .. MaxLines, j \in 1 .. Len(upq) :
               j > i /\ upq[j] = <<c, m>> => m > n
      BY <1>1, <3>2 DEF Ordered
    <3>4. ASSUME NEW j \in 1 .. Len(upq), j > i, upq[j] # Beat, upq[j][1] = c
          PROVE  upq[j][2] > n
      <4>1. PICK m \in 1 .. MaxLines : m = upq[j][2] /\ upq[j] = <<c, m>>
        BY <3>4, LineForm
      <4> QED
        BY <3>3, <3>4, <4>1
    <3> QED
      BY <3>1, <3>3, <3>4 DEF Sent
  <2> QED
    BY <2>1 DEF LinesInOrder
<1>2. ASSUME LinesInOrder PROVE Ordered
  <2>1. ASSUME NEW c \in Clients, NEW n \in 1 .. MaxLines,
               NEW i \in 1 .. Len(upq), upq[i] = <<c, n>>
        PROVE  /\ n > fwd[c] /\ n <= Sent(c)
               /\ \A m \in 1 .. MaxLines, j \in 1 .. Len(upq) :
                    j > i /\ upq[j] = <<c, m>> => m > n
    <3>1. \A m \in 1 .. MaxLines : <<c, m>> # Beat
      BY ImagingAssumption
    <3>2. upq[i] # Beat /\ upq[i][1] = c /\ upq[i][2] = n
      BY <2>1, <3>1
    <3>3. /\ n > fwd[c] /\ n <= Sent(c)
          /\ \A j \in 1 .. Len(upq) :
               j > i /\ upq[j] # Beat /\ upq[j][1] = c => upq[j][2] > n
      BY <1>2, <3>2 DEF LinesInOrder, Sent
    <3>4. ASSUME NEW m \in 1 .. MaxLines, NEW j \in 1 .. Len(upq), j > i,
                 upq[j] = <<c, m>>
          PROVE  m > n
      BY <3>1, <3>3, <3>4, SMTT(30)
    <3> QED
      BY <3>3, <3>4
  <2> QED
    BY <2>1 DEF Ordered
<1> QED
  BY <1>1, <1>2

(* The same after a step.                                                  *)
LEMMA OrderedMeansNext ==
  TypeOK' => (Ordered' <=> LinesInOrder')
<1>1. TypeOK => (Ordered <=> LinesInOrder)
  BY OrderedMeans
<1> QED
  BY <1>1, PTL

(* Taking a line out keeps the order of the others: what is left is above  *)
(* what was taken.                                                         *)
LEMMA TakeLine ==
  ASSUME TypeOK, Ordered, upq # <<>>, upq' = Tail(upq),
         NEW c \in Clients, NEW n \in 1 .. MaxLines, NEW i \in 1 .. Len(upq'),
         upq'[i] = <<c, n>>
  PROVE  /\ n > fwd[c] /\ n <= Sent(c)
         /\ \A m \in 1 .. MaxLines : upq[1] = <<c, m>> => n > m
         /\ \A m \in 1 .. MaxLines, j \in 1 .. Len(upq') :
              j > i /\ upq'[j] = <<c, m>> => m > n
<1>1. /\ Len(upq) \in Nat \ {0} /\ Len(upq') = Len(upq) - 1
      /\ \A k \in 1 .. Len(upq) - 1 : upq'[k] = upq[k + 1]
  BY TailElements DEF TypeOK
<1>2. /\ i + 1 \in 1 .. Len(upq) /\ upq[i + 1] = <<c, n>>
      /\ 1 \in 1 .. Len(upq) /\ i + 1 > 1
  BY <1>1
<1>3. /\ n > fwd[c] /\ n <= Sent(c)
      /\ \A m \in 1 .. MaxLines, j \in 1 .. Len(upq) :
           j > i + 1 /\ upq[j] = <<c, m>> => m > n
  BY <1>2 DEF Ordered
<1>4. \A m \in 1 .. MaxLines : upq[1] = <<c, m>> => n > m
  BY <1>2 DEF Ordered
<1>5. ASSUME NEW m \in 1 .. MaxLines, NEW j \in 1 .. Len(upq'), j > i,
             upq'[j] = <<c, m>>
      PROVE  m > n
  <2>1. j + 1 \in 1 .. Len(upq) /\ upq[j + 1] = <<c, m>> /\ j + 1 > i + 1
    BY <1>1, <1>5
  <2> QED
    BY <1>3, <2>1
<1> QED
  BY <1>3, <1>4, <1>5

(* Sending and reading keep the lines of a client in order, and behind     *)
(* what its handler sent.                                                  *)
LEMMA LinesStep ==
  ASSUME FanoutInv, Ordered, [Next]_vars
  PROVE  FwdBehind' /\ Ordered'
<1>0. /\ TypeOK /\ MaxLines \in Nat
      /\ \A c \in Clients : fwd[c] <= Sent(c)
      /\ \A c \in Clients : fwd[c] \in Int /\ lines[c] \in Int /\ Sent(c) \in Int
  <2>1. TypeOK /\ MaxLines \in Nat /\ \A c \in Clients : fwd[c] <= Sent(c)
    BY ImagingAssumption DEF FanoutInv, FwdBehind, Sent
  <2>2. \A c \in Clients : fwd[c] \in Int /\ lines[c] \in Int
    BY <2>1 DEF TypeOK
  <2> QED
    BY <2>1, <2>2 DEF Sent
<1>1. CASE UNCHANGED <<upq, fwd>> /\ \A c \in Clients : Sent(c)' = Sent(c)
  <2>1. Ordered'
    BY <1>1 DEF Ordered
  <2>2. FwdBehind'
    BY <1>0, <1>1 DEF FwdBehind, Sent
  <2> QED
    BY <2>1, <2>2
<1>2. ASSUME NEW c \in Clients, ReadLine(c) PROVE FwdBehind' /\ Ordered'
  <2>1. UNCHANGED <<upq, fwd>>
    BY <1>2 DEF ReadLine, upstream, history
  <2>2. \A d \in Clients : Sent(d)' = Sent(d)
    BY <1>0, <1>2, SMTT(30) DEF ReadLine, Sent, TypeOK
  <2> QED
    BY <1>1, <2>1, <2>2
<1>3. ASSUME NEW c \in Clients, SendLine(c) PROVE FwdBehind' /\ Ordered'
  <2>1. /\ UNCHANGED <<fwd, lines>> /\ upq' = Append(upq, <<c, lines[c]>>)
    BY <1>3 DEF SendLine, history
  <2>2. /\ Sent(c) = lines[c] - 1 /\ Sent(c)' = lines[c]
        /\ \A d \in Clients \ {c} : Sent(d)' = Sent(d)
    BY <1>0, <1>3 DEF SendLine, Sent, TypeOK
  <2>3. lines[c] \in 1 .. MaxLines
    BY <1>0, <2>2 DEF TypeOK
  <2>4. /\ Len(upq) \in Nat /\ Len(upq') = Len(upq) + 1
        /\ \A k \in 1 .. Len(upq) + 1 :
             upq'[k] = IF k = Len(upq) + 1 THEN <<c, lines[c]>> ELSE upq[k]
    <3>1. <<c, lines[c]>> \in Lines
      BY <2>3 DEF Lines
    <3> QED
      BY <1>0, <2>1, <3>1, AppendElements DEF TypeOK
  <2>5. FwdBehind'
    <3>1. \A d \in Clients : fwd'[d] <= Sent(d)'
      BY <1>0, <2>1, <2>2
    <3> QED
      BY <3>1 DEF FwdBehind, Sent
  <2>6. ASSUME NEW d \in Clients, NEW n \in 1 .. MaxLines,
               NEW i \in 1 .. Len(upq'), upq'[i] = <<d, n>>
        PROVE  /\ n > fwd'[d] /\ n <= Sent(d)'
               /\ \A m \in 1 .. MaxLines, j \in 1 .. Len(upq') :
                    j > i /\ upq'[j] = <<d, m>> => m > n
    <3>1. CASE i = Len(upq) + 1
      <4>1. d = c /\ n = lines[c]
        BY <2>4, <2>6, <3>1
      <4>2. \A j \in 1 .. Len(upq') : ~(j > i)
        BY <2>4, <3>1
      <4> QED
        BY <1>0, <2>1, <2>2, <4>1, <4>2
    <3>2. CASE i # Len(upq) + 1
      <4>1. i \in 1 .. Len(upq) /\ upq[i] = <<d, n>>
        BY <2>4, <2>6, <3>2
      <4>2. /\ n > fwd[d] /\ n <= Sent(d)
            /\ \A m \in 1 .. MaxLines, j \in 1 .. Len(upq) :
                 j > i /\ upq[j] = <<d, m>> => m > n
        BY <4>1 DEF Ordered
      <4>3. ASSUME NEW m \in 1 .. MaxLines, NEW j \in 1 .. Len(upq'), j > i,
                   upq'[j] = <<d, m>>
            PROVE  m > n
        <5>1. CASE j = Len(upq) + 1
          <6>1. d = c /\ m = lines[c]
            BY <2>4, <4>3, <5>1
          <6> QED
            BY <1>0, <2>2, <4>2, <6>1
        <5>2. CASE j # Len(upq) + 1
          <6>1. j \in 1 .. Len(upq) /\ upq[j] = <<d, m>>
            BY <2>4, <4>3, <5>2
          <6> QED
            BY <4>2, <4>3, <6>1
        <5> QED
          BY <5>1, <5>2
      <4>4. n > fwd'[d] /\ n <= Sent(d)'
        BY <1>0, <2>1, <2>2, <4>2
      <4> QED
        BY <4>3, <4>4
    <3> QED
      BY <3>1, <3>2
  <2> QED
    BY <2>5, <2>6 DEF Ordered
<1>4. ASSUME NEW c \in Clients,
             Accept(c) \/ Close(c) \/ ReadError(c)
      PROVE  FwdBehind' /\ Ordered'
  <2>1. UNCHANGED <<upq, fwd, lines>>
    BY <1>4 DEF Accept, Close, ReadError, upstream, history
  <2>2. \A d \in Clients : Sent(d)' = Sent(d)
    BY <1>0, <1>4, <2>1 DEF Accept, Close, ReadError, Sent, TypeOK
  <2> QED
    BY <1>1, <2>1, <2>2
<1>5. CASE BeatSend
  <2>1. /\ UNCHANGED <<fwd, lines, pc>> /\ upq' = Append(upq, Beat)
    BY <1>5 DEF BeatSend, history, client
  <2>2. /\ Len(upq) \in Nat /\ Len(upq') = Len(upq) + 1
        /\ \A k \in 1 .. Len(upq) + 1 :
             upq'[k] = IF k = Len(upq) + 1 THEN Beat ELSE upq[k]
    <3>1. Beat \in Lines
      BY DEF Lines
    <3> QED
      BY <1>0, <2>1, <3>1, AppendElements DEF TypeOK
  <2>3. \A d \in Clients, n \in 1 .. MaxLines : <<d, n>> # Beat
    BY ImagingAssumption
  <2>4. \A d \in Clients, n \in 1 .. MaxLines, i \in 1 .. Len(upq') :
          upq'[i] = <<d, n>> => i \in 1 .. Len(upq) /\ upq[i] = <<d, n>>
    <3> SUFFICES ASSUME NEW d \in Clients, NEW n \in 1 .. MaxLines,
                        NEW i \in 1 .. Len(upq'), upq'[i] = <<d, n>>
                 PROVE  i \in 1 .. Len(upq) /\ upq[i] = <<d, n>>
      OBVIOUS
    <3>1. upq'[i] # Beat
      BY <2>3
    <3>2. i # Len(upq) + 1
      BY <2>2, <3>1
    <3> QED
      BY <2>2, <3>2
  <2>5. Ordered'
    BY <2>1, <2>4 DEF Ordered, Sent
  <2> QED
    BY <1>0, <2>1, <2>5 DEF FwdBehind, Sent
<1>6. CASE UpWriteError
  <2>1. UNCHANGED <<fwd, lines, pc>> /\ upq' = Tail(upq) /\ upq # <<>>
    BY <1>6 DEF UpWriteError, client, history
  <2>2. ASSUME NEW c \in Clients, NEW n \in 1 .. MaxLines,
               NEW i \in 1 .. Len(upq'), upq'[i] = <<c, n>>
        PROVE  /\ n > fwd[c] /\ n <= Sent(c)
               /\ \A m \in 1 .. MaxLines, j \in 1 .. Len(upq') :
                    j > i /\ upq'[j] = <<c, m>> => m > n
    BY <1>0, <2>1, <2>2, TakeLine
  <2>3. \A c \in Clients : fwd'[c] = fwd[c] /\ Sent(c)' = Sent(c)
    BY <2>1 DEF Sent
  <2>4. Ordered'
    BY <2>2, <2>3 DEF Ordered
  <2> QED
    BY <1>0, <2>3, <2>4 DEF FwdBehind, Sent
<1>7. CASE UpWrite
  <2>1. /\ UNCHANGED <<lines, pc>> /\ upq' = Tail(upq) /\ upq # <<>>
        /\ fwd' = IF Head(upq) = Beat THEN fwd
                  ELSE [fwd EXCEPT ![Head(upq)[1]] = Head(upq)[2]]
    BY <1>7 DEF UpWrite, client
  <2>2. Head(upq) = upq[1] /\ 1 \in 1 .. Len(upq)
    BY <1>0, <2>1, TailElements DEF TypeOK
  <2>3. \A c \in Clients : Sent(c)' = Sent(c)
    BY <2>1 DEF Sent
  <2>4. ASSUME NEW c \in Clients, NEW n \in 1 .. MaxLines,
               NEW i \in 1 .. Len(upq'), upq'[i] = <<c, n>>
        PROVE  /\ n > fwd[c] /\ n <= Sent(c)
               /\ \A m \in 1 .. MaxLines : upq[1] = <<c, m>> => n > m
               /\ \A m \in 1 .. MaxLines, j \in 1 .. Len(upq') :
                    j > i /\ upq'[j] = <<c, m>> => m > n
    BY <1>0, <2>1, <2>4, TakeLine
  <2>5. CASE Head(upq) = Beat
    <3>1. fwd' = fwd
      BY <2>1, <2>5
    <3>2. Ordered'
      BY <2>3, <2>4, <3>1 DEF Ordered
    <3> QED
      BY <1>0, <2>3, <3>1, <3>2 DEF FwdBehind, Sent
  <2>6. CASE Head(upq) # Beat
    <3>1. PICK a \in Clients : \E b \in 1 .. MaxLines : upq[1] = <<a, b>>
      BY <1>0, <2>2, <2>6, LineForm
    <3>2. PICK b \in 1 .. MaxLines : upq[1] = <<a, b>>
      BY <3>1
    <3>3. fwd' = [fwd EXCEPT ![a] = b]
      <4>1. Head(upq)[1] = a /\ Head(upq)[2] = b
        BY <2>2, <3>2
      <4> QED
        BY <2>1, <2>6, <4>1
    <3>4. /\ fwd'[a] = b
          /\ \A c \in Clients \ {a} : fwd'[c] = fwd[c]
      BY <1>0, <3>3 DEF TypeOK
    <3>5. b <= Sent(a)
      BY <2>2, <3>2 DEF Ordered
    <3>6. \A c \in Clients : fwd'[c] <= Sent(c)'
      BY <1>0, <2>3, <3>4, <3>5
    <3>7. ASSUME NEW c \in Clients, NEW n \in 1 .. MaxLines,
                 NEW i \in 1 .. Len(upq'), upq'[i] = <<c, n>>
          PROVE  n > fwd'[c] /\ n <= Sent(c)'
      <4>1. CASE c = a
        BY <2>3, <2>4, <3>2, <3>4, <3>7, <4>1
      <4>2. CASE c # a
        BY <2>3, <2>4, <3>4, <3>7, <4>2
      <4> QED
        BY <4>1, <4>2
    <3>8. Ordered'
      BY <2>4, <3>7 DEF Ordered
    <3> QED
      BY <3>6, <3>8 DEF FwdBehind, Sent
  <2> QED
    BY <2>5, <2>6
<1>8. CASE UNCHANGED <<upq, fwd, lines, pc>>
  <2>1. \A c \in Clients : Sent(c)' = Sent(c)
    BY <1>8 DEF Sent
  <2> QED
    BY <1>1, <1>8, <2>1
<1> QED
  BY <1>2, <1>3, <1>4, <1>5, <1>6, <1>7, <1>8
     DEF Next, Client, Upstream, Reader, vars, client, upstream, history,
         ShowFrame, SkipFrames, FrameError, BeatTick, Resolve, Connect,
         ReaderGone, ReaderStart, ReadHeader, ReadPayload, ReaderEnd

-----------------------------------------------------------------------------
(* The theorems                                                            *)

(* The inductive invariant: what the ring, the receivers and the lines     *)
(* are, with what was shown and what was forwarded.                        *)
FanoutInduct == FanoutInv /\ NothingMissed /\ LinesInOrder

(* Nothing was broadcast or sent at the start.                             *)
LEMMA FanoutInit == Init => FanoutInduct
<1> SUFFICES ASSUME Init PROVE FanoutInduct
  OBVIOUS
<1>0. MaxFrames \in Nat /\ MaxLines \in Nat /\ RingCap \in Nat \ {0} /\ UpCap \in Nat \ {0}
  BY ImagingAssumption
<1>1. TypeOK
  <2>1. /\ <<>> \in Seq(Lines) /\ <<>> \in Seq(Frames) /\ Len(<<>>) = 0
    BY EmptySeq
  <2>2. /\ upq \in Seq(Lines) /\ Len(upq) <= UpCap
        /\ got \in [Clients -> Seq(Frames)]
    BY <1>0, <2>1 DEF Init
  <2>3. /\ addr \in BOOLEAN /\ hb \in BOOLEAN /\ up_flag \in BOOLEAN
        /\ lagged \in [Clients -> BOOLEAN]
    BY ImagingAssumption DEF Init
  <2> QED
    BY <1>0, <2>2, <2>3 DEF Init, TypeOK
<1>2. LagIsReal /\ ImagingFlagHonest /\ Receivers /\ FwdBehind
  BY <1>0 DEF Init, LagIsReal, ImagingFlagHonest, Receivers, FwdBehind
<1>3. RingHolds
  BY <1>0 DEF Init, RingHolds, Oldest
<1>4. NothingMissed
  <2>1. ASSUME NEW c \in Clients
        PROVE  /\ got[c] = <<>> /\ Len(got[c]) = 0 /\ next[c] - from[c] = 0
    BY DEF Init
  <2> QED
    BY <2>1 DEF NothingMissed
<1>5. LinesInOrder
  BY DEF Init, LinesInOrder
<1> QED
  BY <1>1, <1>2, <1>3, <1>4, <1>5 DEF FanoutInduct, FanoutInv

(* Every step keeps the three parts of the invariant.                      *)
LEMMA FanoutStep == FanoutInduct /\ [Next]_vars => FanoutInduct'
<1> SUFFICES ASSUME FanoutInduct, [Next]_vars PROVE FanoutInduct'
  OBVIOUS
<1>1. FanoutInv /\ NothingMissed /\ TypeOK /\ ImagingFlagHonest /\ Ordered
  BY OrderedMeans DEF FanoutInduct, FanoutInv
<1>2. TypeOK' /\ RingHolds' /\ ImagingFlagHonest' /\ Receivers' /\ LagIsReal'
  BY <1>1, TypeStep, FeedStep, FlagStep, ReceiverStep
<1>3. FwdBehind' /\ Ordered'
  BY <1>1, LinesStep
<1>4. LinesInOrder'
  BY <1>2, <1>3, OrderedMeansNext
<1>5. NothingMissed'
  BY <1>1, MissedStep
<1> QED
  BY <1>2, <1>3, <1>4, <1>5 DEF FanoutInduct, FanoutInv

(* For every ring, channel, number of clients and length of the stream:    *)
(* the types hold, a Lagged report is real, the imaging flag is honest,    *)
(* the ring holds the last frames and every receiver is where it should be *)
(* (imaging.rs's broadcast channel, handle_client, upstream_reader_task).  *)
THEOREM FanoutInvariant == Spec => []FanoutInv
<1>1. FanoutInduct => FanoutInv
  BY DEF FanoutInduct
<1> QED
  BY <1>1, FanoutInit, FanoutStep, PTL DEF Spec

(* A client is shown every frame broadcast since its accept, in order and  *)
(* once, unless its receiver reported Lagged (handle_client's frame task). *)
THEOREM NothingIsMissed == Spec => []NothingMissed
<1>1. FanoutInduct => NothingMissed
  BY DEF FanoutInduct
<1> QED
  BY <1>1, FanoutInit, FanoutStep, PTL DEF Spec

(* The command lines of a client reach the telescope in order and none of  *)
(* them twice, across heartbeats, other clients and reconnects.            *)
THEOREM LinesOrdered == Spec => []LinesInOrder
<1>1. FanoutInduct => LinesInOrder
  BY DEF FanoutInduct
<1> QED
  BY <1>1, FanoutInit, FanoutStep, PTL DEF Spec

(* A step of the proxy is a step of the frame feed or none: only a         *)
(* finished payload publishes, and a client is only shown frames newer     *)
(* than the last it saw.                                                   *)
LEMMA FeedRefines ==
  FanoutInduct /\ [Next]_vars => [Feed!Next]_<<tail, got>>
<1> SUFFICES ASSUME FanoutInduct, [Next]_vars
             PROVE  [Feed!Next]_<<tail, got>>
  OBVIOUS
<1>0. FanoutInv /\ TypeOK /\ NothingMissed /\ Receivers
  BY DEF FanoutInduct, FanoutInv
<1>1. ASSUME NEW e \in Slots, ReadPayload(e) PROVE Feed!Next
  BY <1>1 DEF ReadPayload, Publish, history, Feed!Next, Feed!Publish
<1>2. ASSUME NEW c \in Clients, ShowFrame(c) PROVE Feed!Next
  <2>1. /\ got' = [got EXCEPT ![c] = Append(@, next[c])]
        /\ UNCHANGED tail /\ next[c] <= tail /\ next[c] \in Nat \ {0}
    <3>1. /\ got' = [got EXCEPT ![c] = Append(@, next[c])]
          /\ next[c] \in Frames
      BY <1>0, <1>2, ShownFrame
    <3>2. UNCHANGED tail /\ next[c] \in Oldest .. tail
      BY <1>2 DEF ShowFrame, feed
    <3>3. tail \in Int /\ Oldest \in Int
      BY <1>0, FrameNumbers
    <3>4. next[c] <= tail /\ next[c] \in Nat \ {0}
      BY <3>1, <3>2, <3>3 DEF Frames
    <3> QED
      BY <3>1, <3>2, <3>4
  <2>2. Feed!Newest(c) \in Int /\ Feed!Newest(c) < next[c]
    <3>1. CASE got[c] = <<>>
      BY <2>1, <3>1 DEF Feed!Newest
    <3>2. CASE got[c] # <<>>
      <4>1. got[c] \in Seq(Frames) /\ Len(got[c]) \in 1 .. Len(got[c])
        BY <1>0, <3>2, TailElements DEF TypeOK
      <4>2. got[c][Len(got[c])] \in from[c] .. (next[c] - 1)
        BY <1>0, <4>1 DEF NothingMissed
      <4>3. from[c] \in Int
        BY <1>0, FrameNumbers
      <4> QED
        BY <2>1, <3>2, <4>2, <4>3 DEF Feed!Newest
    <3> QED
      BY <3>1, <3>2
  <2>3. tail \in Int
    BY <1>0, FrameNumbers
  <2>4. next[c] \in (Feed!Newest(c) + 1) .. tail
    BY <2>1, <2>2, <2>3
  <2> QED
    BY <2>1, <2>4 DEF Feed!Next, Feed!Show
<1>3. CASE UNCHANGED <<tail, got>>
  BY <1>3
<1> QED
  BY <1>1, <1>2, <1>3
     DEF Next, Client, Upstream, Reader, vars, feed, client, history, Accept,
         ReadLine, SendLine, Close, ReadError, SkipFrames, FrameError,
         BeatTick, BeatSend, Resolve, Connect, UpWrite, UpWriteError,
         ReaderGone, ReaderStart, ReadHeader, ReaderEnd

(* The imaging proxy implements the frame feed (FrameFeed): one stream,    *)
(* and every client sees a part of it in order, no frame twice.            *)
THEOREM ImplementsFeed == Spec => FeedSpec
<1>1. Init => Feed!Init
  BY DEF Init, Feed!Init
<1> QED
  BY <1>1, FanoutInit, FanoutStep, FeedRefines, PTL
     DEF Spec, FeedSpec, Feed!Spec
=============================================================================
