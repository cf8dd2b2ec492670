------------------------ MODULE SessionRecordingProofs ------------------------
(***************************************************************************)
(* Proofs about the recording directory, for any number of reader and      *)
(* control tasks, frames, lines and recordings, wherever a process ends    *)
(* and whatever writes fail.                                               *)
(***************************************************************************)
EXTENDS SessionRecording, SequenceTheorems, FiniteSetTheorems,
        WellFoundedInduction, TLAPS

(* The invariant in two halves that share only the process's phase and     *)
(* session: the frame files, and the lines of control.jsonl.               *)
ProcessTypes ==
  /\ phase \in {"off", "recording", "finalized"}
  /\ session \in 0 .. MaxSessions
  /\ phase # "off" => session \in Sessions
  /\ manifest \in [session : Sessions, frame_count : Nat] \cup {None}

FrameTypes ==
  /\ DOMAIN frames \subseteq Names
  /\ frames \in [DOMAIN frames -> Frames]
  /\ frame_counter \in 0 .. MaxFrames
  /\ frame_held \in [Readers -> Files \cup {None}]
  /\ received \in Seq(Frames)
  /\ lossless \in BOOLEAN
  /\ phase = "off" => \A e \in Readers : frame_held[e] = None

LineTypes ==
  /\ control \in Seq(Lines \cup {None})
  /\ torn \in BOOLEAN
  /\ message_count \in 0 .. MaxLines
  /\ line_held \in [Talkers -> Lines \cup {None}]
  /\ phase = "off" => \A t \in Talkers : line_held[t] = None

FrameInv == FrameTypes /\ FilesNumbered /\ OneFileEach /\ NoFrameOverwritten
LineInv  == LineTypes /\ LinesOnce

frameVars == <<frames, frame_counter, frame_held, received, lossless>>
lineVars  == <<control, torn, message_count, line_held>>

(* The two halves make up the invariant that TLC checks.                   *)
LEMMA HalvesMakeDirInv == ProcessTypes /\ FrameInv /\ LineInv => DirInv
BY DEF ProcessTypes, FrameInv, LineInv, FrameTypes, LineTypes, DirInv, TypeOK,
   NothingHeld

(* A sequence with an element appended, without its last element, or with  *)
(* none.                                                                   *)
LEMMA EmptyFile == ASSUME NEW S PROVE <<>> \in Seq(S) /\ Len(<<>>) = 0
OBVIOUS

(* A file or a list with one element more.                                 *)
LEMMA Appended ==
  ASSUME NEW S, NEW s \in Seq(S), NEW r \in S
  PROVE  /\ Append(s, r) \in Seq(S) /\ Append(s, r) # <<>> /\ Len(s) \in Nat
         /\ Len(Append(s, r)) = Len(s) + 1
         /\ \A i \in 1 .. Len(s) + 1 :
              Append(s, r)[i] = IF i = Len(s) + 1 THEN r ELSE s[i]
OBVIOUS

(* A file or a list without its last element.                              *)
LEMMA Shortened ==
  ASSUME NEW S, NEW s \in Seq(S), s # <<>>
  PROVE  /\ Front(s) \in Seq(S) /\ Len(s) \in Nat \ {0}
         /\ Len(Front(s)) = Len(s) - 1
         /\ \A i \in 1 .. Len(s) - 1 : Front(s)[i] = s[i]
<1> DEFINE u == SubSeq(s, 1, Len(s) - 1)
<1>1. Len(s) \in Nat \ {0} /\ Front(s) = u
  BY DEF Front
<1>2. \A i \in 1 .. Len(s) - 1 : s[i] \in S
  BY <1>1
<1>3. 1 \in Int /\ Len(s) - 1 \in Int
  BY <1>1
<1>4. /\ u \in Seq(S)
      /\ Len(u) = IF 1 <= Len(s) - 1 THEN (Len(s) - 1) - 1 + 1 ELSE 0
      /\ \A i \in 1 .. (Len(s) - 1) - 1 + 1 : u[i] = s[1 + i - 1]
  BY <1>2, <1>3, SubSeqProperties
<1> HIDE DEF u
<1>5. Len(u) = Len(s) - 1
  <2>1. \A m \in Nat \ {0} :
          (IF 1 <= m - 1 THEN (m - 1) - 1 + 1 ELSE 0) = m - 1
    OBVIOUS
  <2> QED
    BY <2>1, <1>1, <1>4, Zenon
<1>6. ASSUME NEW i \in 1 .. Len(s) - 1 PROVE u[i] = s[i]
  <2>1. i \in 1 .. (Len(s) - 1) - 1 + 1 /\ 1 + i - 1 = i
    BY <1>1
  <2> QED
    BY <2>1, <1>4
<1> QED
  BY <1>1, <1>4, <1>5, <1>6

-----------------------------------------------------------------------------
(* The frame files                                                         *)

(* A frame that is taken is about to be written under its own number.      *)
LEMMA TakeFrameStep ==
  ASSUME ProcessTypes, FrameInv, NEW e \in Readers, NEW k \in Kinds,
         TakeFrame(e, k)
  PROVE  FrameInv'
<1> DEFINE f == [session |-> session, n |-> frame_counter]
           h == [name |-> [idx |-> frame_counter, kind |-> k], frame |-> f]
<1>1. /\ phase # "off" /\ frame_held[e] = None /\ frame_counter < MaxFrames
      /\ frame_counter' = frame_counter + 1
      /\ frame_held' = [frame_held EXCEPT ![e] = h]
      /\ received' = Append(received, f)
      /\ UNCHANGED <<frames, phase, session, lossless>>
  BY DEF TakeFrame, FrameIndex, disk
<1>2. MaxFrames \in Nat /\ frame_counter \in 0 .. (MaxFrames - 1)
  BY <1>1, RecordingAssumption DEF FrameInv, FrameTypes
<1>3. f \in Frames /\ f.session = session /\ f.n = frame_counter
  BY <1>1, <1>2 DEF ProcessTypes, Frames
<1>4. /\ h \in Files /\ h.frame = f /\ h.name.idx = frame_counter
      /\ h # None
  <2>1. [idx |-> frame_counter, kind |-> k] \in Names
    BY <1>2 DEF Names
  <2> QED
    BY <2>1, <1>3, NoneAssumption DEF Files
<1>5. /\ received \in Seq(Frames) /\ received' \in Seq(Frames)
      /\ Len(received) \in Nat
      /\ Len(received') = Len(received) + 1
      /\ \A i \in 1 .. Len(received') :
           received'[i] = IF i = Len(received) + 1 THEN f ELSE received[i]
  <2>1. received \in Seq(Frames)
    BY DEF FrameInv, FrameTypes
  <2> QED
    BY <2>1, <1>1, <1>3, Appended
<1> HIDE DEF f, h
<1>6. /\ frame_held \in [Readers -> Files \cup {None}]
      /\ \A a \in Readers : frame_held'[a] = IF a = e THEN h ELSE frame_held[a]
  BY <1>1 DEF FrameInv, FrameTypes
<1>7. FrameTypes'
  <2>1. frame_held' \in [Readers -> Files \cup {None}]
    BY <1>1, <1>4, <1>6
  <2>2. frame_counter' \in 0 .. MaxFrames
    BY <1>1, <1>2
  <2>3. DOMAIN frames' \subseteq Names /\ frames' \in [DOMAIN frames' -> Frames]
    BY <1>1 DEF FrameInv, FrameTypes
  <2>4. lossless' \in BOOLEAN
    BY <1>1 DEF FrameInv, FrameTypes
  <2> QED
    BY <2>1, <2>2, <2>3, <2>4, <1>1, <1>5 DEF FrameTypes
<1>8. FilesNumbered'
  <2>1. ASSUME NEW nm \in DOMAIN frames'
        PROVE  /\ frames'[nm].session <= session'
               /\ frames'[nm].session = session' => frames'[nm].n = nm.idx
    BY <2>1, <1>1 DEF FrameInv, FilesNumbered
  <2>2. ASSUME NEW a \in Readers, frame_held'[a] # None
        PROVE  frame_held'[a].frame =
                 [session |-> session', n |-> frame_held'[a].name.idx]
    <3>1. CASE a = e
      BY <3>1, <1>1, <1>4, <1>6 DEF f
    <3>2. CASE a # e
      BY <2>2, <3>2, <1>1, <1>6 DEF FrameInv, FilesNumbered
    <3> QED
      BY <3>1, <3>2
  <2>3. Len(received') = frame_counter'
    BY <1>1, <1>5 DEF FrameInv, FilesNumbered
  <2>4. ASSUME NEW i \in 1 .. Len(received')
        PROVE  received'[i] = [session |-> session', n |-> i - 1]
    <3>1. CASE i = Len(received) + 1
      <4>1. received'[i] = f /\ i - 1 = frame_counter
        BY <3>1, <1>2, <1>5 DEF FrameInv, FilesNumbered
      <4> QED
        BY <4>1, <1>1 DEF f
    <3>2. CASE i # Len(received) + 1
      <4>1. i \in 1 .. Len(received) /\ received'[i] = received[i]
        BY <3>2, <1>5
      <4> QED
        BY <4>1, <1>1 DEF FrameInv, FilesNumbered
    <3> QED
      BY <3>1, <3>2
  <2> QED
    BY <2>1, <2>2, <2>3, <2>4 DEF FilesNumbered
<1>9. NoFrameOverwritten'
  <2> SUFFICES ASSUME lossless', NEW i \in 1 .. Len(received')
               PROVE  \/ \E nm \in DOMAIN frames' : frames'[nm] = received'[i]
                      \/ \E a \in Readers : /\ frame_held'[a] # None
                                            /\ frame_held'[a].frame = received'[i]
    BY DEF NoFrameOverwritten
  <2>1. CASE i = Len(received) + 1
    <3>1. received'[i] = f
      BY <2>1, <1>5
    <3> QED
      BY <3>1, <1>4, <1>6
  <2>2. CASE i # Len(received) + 1
    <3>1. i \in 1 .. Len(received) /\ received'[i] = received[i]
      BY <2>2, <1>5
    <3>2. CASE \E nm \in DOMAIN frames : frames[nm] = received[i]
      BY <3>1, <3>2, <1>1
    <3>3. CASE \E a \in Readers : /\ frame_held[a] # None
                                  /\ frame_held[a].frame = received[i]
      <4>1. PICK a \in Readers : /\ frame_held[a] # None
                                 /\ frame_held[a].frame = received[i]
        BY <3>3
      <4>2. a # e
        BY <4>1, <1>1
      <4> QED
        BY <4>1, <4>2, <3>1, <1>6
    <3>4. lossless
      BY <1>1
    <3> QED
      BY <3>1, <3>2, <3>3, <3>4 DEF FrameInv, NoFrameOverwritten
  <2> QED
    BY <2>1, <2>2
<1>10. OneFileEach'
  <2>0. /\ OneFileEach /\ DOMAIN frames \subseteq Names
        /\ \A nm \in DOMAIN frames : nm.idx \in Int
        /\ \A a \in Readers : frame_held[a] # None => frame_held[a].name.idx \in Int
    <3>1. \A nm \in Names : nm.idx \in Int
      BY <1>2 DEF Names
    <3>2. \A x \in Files : x.name \in Names
      BY DEF Files
    <3> QED
      BY <3>1, <3>2, <1>6 DEF FrameInv, FrameTypes
  <2>1. ASSUME NEW nm \in DOMAIN frames, frames[nm].session = session
        PROVE  /\ nm.idx < frame_counter /\ nm.idx < frame_counter + 1
               /\ nm.idx # frame_counter
               /\ \A other \in DOMAIN frames :
                    frames[other].session = session /\ other.idx = nm.idx => other = nm
    <3>1. /\ nm.idx < frame_counter /\ nm.idx \in Int
          /\ \A other \in DOMAIN frames :
               frames[other].session = session /\ other.idx = nm.idx => other = nm
      BY <2>0, <2>1 DEF OneFileEach
    <3> QED
      BY <3>1, <1>2
  <2>2. ASSUME NEW a \in Readers, a # e, frame_held[a] # None
        PROVE  /\ frame_held[a].name.idx < frame_counter + 1
               /\ frame_held[a].name.idx # frame_counter
               /\ \A nm \in DOMAIN frames :
                    frames[nm].session = session => nm.idx # frame_held[a].name.idx
               /\ \A r \in Readers \ {a} : frame_held[r] # None =>
                    frame_held[r].name.idx # frame_held[a].name.idx
    <3>1. /\ frame_held[a].name.idx < frame_counter /\ frame_held[a].name.idx \in Int
      BY <2>0, <2>2 DEF OneFileEach
    <3>2. /\ \A nm \in DOMAIN frames :
               frames[nm].session = session => nm.idx # frame_held[a].name.idx
          /\ \A r \in Readers \ {a} : frame_held[r] # None =>
               frame_held[r].name.idx # frame_held[a].name.idx
      BY <2>0, <2>2 DEF OneFileEach
    <3> QED
      BY <3>1, <3>2, <1>2
  <2>3. /\ frames' = frames /\ session' = session
        /\ frame_counter' = frame_counter + 1 /\ frame_counter < frame_counter + 1
    BY <1>1, <1>2
  <2>4. ASSUME NEW a \in Readers, frame_held'[a] # None
        PROVE  /\ frame_held'[a].name.idx < frame_counter'
               /\ \A nm \in DOMAIN frames :
                    frames[nm].session = session => nm.idx # frame_held'[a].name.idx
               /\ \A r \in Readers \ {a} : frame_held'[r] # None =>
                    frame_held'[r].name.idx # frame_held'[a].name.idx
    <3>1. CASE a = e
      BY <3>1, <2>1, <2>2, <2>3, <1>4, <1>6
    <3>2. CASE a # e
      BY <3>2, <2>2, <2>3, <2>4, <1>4, <1>6
    <3> QED
      BY <3>1, <3>2
  <2> QED
    BY <2>1, <2>3, <2>4 DEF OneFileEach
<1> QED
  BY <1>7, <1>8, <1>9, <1>10 DEF FrameInv

(* A file is only ever replaced by the same frame: a file of this session  *)
(* under the same name holds the frame of that number.                     *)
LEMMA WriteFrameStep ==
  ASSUME ProcessTypes, FrameInv, NEW e \in Readers, WriteFrame(e)
  PROVE  FrameInv'
<1> DEFINE h == frame_held[e]
<1>1. /\ phase # "off" /\ h # None
      /\ frames' = [nm \in DOMAIN frames \cup {h.name} |->
                      IF nm = h.name THEN h.frame ELSE frames[nm]]
      /\ frame_held' = [frame_held EXCEPT ![e] = None]
      /\ UNCHANGED <<phase, session, frame_counter, received, lossless>>
  BY DEF WriteFrame
<1>2. /\ frame_held \in [Readers -> Files \cup {None}] /\ h \in Files
      /\ DOMAIN frames \subseteq Names /\ frames \in [DOMAIN frames -> Frames]
  BY <1>1 DEF FrameInv, FrameTypes
<1>3. h.name \in Names /\ h.frame \in Frames
  BY <1>2 DEF Files
<1>4. h.frame = [session |-> session, n |-> h.name.idx]
  BY <1>1 DEF FrameInv, FilesNumbered
<1> HIDE DEF h
<1>5. /\ DOMAIN frames' = DOMAIN frames \cup {h.name}
      /\ frames'[h.name] = h.frame
      /\ \A nm \in DOMAIN frames : nm # h.name => frames'[nm] = frames[nm]
  BY <1>1
<1>6. \A a \in Readers : frame_held'[a] = IF a = e THEN None ELSE frame_held[a]
  BY <1>1, <1>2
<1>7. FrameTypes'
  <2>1. DOMAIN frames' \subseteq Names
    BY <1>2, <1>3, <1>5
  <2>2. frames' \in [DOMAIN frames' -> Frames]
    BY <1>1, <1>2, <1>3, <1>5
  <2>3. frame_held' \in [Readers -> Files \cup {None}]
    BY <1>1, <1>2
  <2>4. lossless' \in BOOLEAN
    BY <1>1 DEF FrameInv, FrameTypes
  <2>5. frame_counter' \in 0 .. MaxFrames /\ received' \in Seq(Frames)
    BY <1>1 DEF FrameInv, FrameTypes
  <2> QED
    BY <2>1, <2>2, <2>3, <2>4, <2>5, <1>1 DEF FrameTypes
<1>8. FilesNumbered'
  <2>1. ASSUME NEW nm \in DOMAIN frames'
        PROVE  /\ frames'[nm].session <= session'
               /\ frames'[nm].session = session' => frames'[nm].n = nm.idx
    <3>1. CASE nm = h.name
      <4>1. frames'[nm] = [session |-> session, n |-> nm.idx]
        BY <3>1, <1>4, <1>5
      <4>2. session' = session /\ session \in Int
        BY <1>1 DEF ProcessTypes
      <4> QED
        BY <4>1, <4>2
    <3>2. CASE nm # h.name
      BY <2>1, <3>2, <1>1, <1>5 DEF FrameInv, FilesNumbered
    <3> QED
      BY <3>1, <3>2
  <2>2. ASSUME NEW a \in Readers, frame_held'[a] # None
        PROVE  frame_held'[a].frame =
                 [session |-> session', n |-> frame_held'[a].name.idx]
    BY <2>2, <1>1, <1>6 DEF FrameInv, FilesNumbered
  <2>3. /\ Len(received') = frame_counter'
        /\ \A i \in 1 .. Len(received') :
             received'[i] = [session |-> session', n |-> i - 1]
    BY <1>1 DEF FrameInv, FilesNumbered
  <2> QED
    BY <2>1, <2>2, <2>3 DEF FilesNumbered
<1>9. NoFrameOverwritten'
  <2>0. lossless' = lossless /\ received' = received
    BY <1>1
  <2> SUFFICES ASSUME lossless, NEW i \in 1 .. Len(received)
               PROVE  \/ \E nm \in DOMAIN frames' : frames'[nm] = received[i]
                      \/ \E a \in Readers : /\ frame_held'[a] # None
                                            /\ frame_held'[a].frame = received[i]
    BY <2>0, Zenon DEF NoFrameOverwritten
  <2>1. CASE \E nm \in DOMAIN frames : frames[nm] = received[i]
    <3>1. PICK nm \in DOMAIN frames : frames[nm] = received[i]
      BY <2>1
    <3>2. CASE nm = h.name
      <4>1. received[i].session = session
        <5>1. received[i] = [session |-> session, n |-> i - 1]
          BY DEF FrameInv, FilesNumbered
        <5> QED
          BY <5>1
      <4>2. frames[nm].n = nm.idx /\ frames[nm].session = session
        BY <3>1, <4>1 DEF FrameInv, FilesNumbered
      <4>3. frames[nm] \in Frames
        BY <1>2
      <4>4. frames[nm] = [session |-> session, n |-> nm.idx]
        BY <4>2, <4>3 DEF Frames
      <4> QED
        BY <3>1, <3>2, <4>4, <1>4, <1>5
    <3> QED
      BY <3>1, <3>2, <1>5
  <2>2. CASE \E a \in Readers : /\ frame_held[a] # None
                                /\ frame_held[a].frame = received[i]
    <3>1. PICK a \in Readers : /\ frame_held[a] # None
                               /\ frame_held[a].frame = received[i]
      BY <2>2
    <3>2. CASE a = e
      BY <3>1, <3>2, <1>5 DEF h
    <3> QED
      BY <3>1, <3>2, <1>6
  <2> QED
    BY <2>1, <2>2 DEF FrameInv, NoFrameOverwritten
<1>10. OneFileEach'
  <2>0. OneFileEach /\ session' = session /\ frame_counter' = frame_counter
    BY <1>1 DEF FrameInv
  <2>1. /\ h.name.idx < frame_counter
        /\ \A nm \in DOMAIN frames : frames[nm].session = session => nm.idx # h.name.idx
        /\ \A r \in Readers \ {e} : frame_held[r] # None =>
             frame_held[r].name.idx # h.name.idx
    BY <2>0, <1>1 DEF OneFileEach, h
  <2>2. ASSUME NEW nm \in DOMAIN frames', frames'[nm].session = session, nm # h.name
        PROVE  nm \in DOMAIN frames /\ frames[nm].session = session
    BY <2>2, <1>5
  <2>3. ASSUME NEW nm \in DOMAIN frames', frames'[nm].session = session
        PROVE  /\ nm.idx < frame_counter
               /\ \A other \in DOMAIN frames' :
                    frames'[other].session = session /\ other.idx = nm.idx => other = nm
    <3>1. CASE nm = h.name
      BY <3>1, <2>1, <2>2
    <3>2. CASE nm # h.name
      BY <3>2, <2>0, <2>1, <2>2, <2>3 DEF OneFileEach
    <3> QED
      BY <3>1, <3>2
  <2>4. ASSUME NEW a \in Readers, frame_held'[a] # None
        PROVE  a # e /\ frame_held'[a] = frame_held[a] /\ frame_held[a] # None
    BY <2>4, <1>6
  <2>5. ASSUME NEW a \in Readers, frame_held'[a] # None
        PROVE  /\ frame_held'[a].name.idx < frame_counter
               /\ \A nm \in DOMAIN frames' :
                    frames'[nm].session = session => nm.idx # frame_held'[a].name.idx
               /\ \A r \in Readers \ {a} : frame_held'[r] # None =>
                    frame_held'[r].name.idx # frame_held'[a].name.idx
    <3>1. a # e /\ frame_held'[a] = frame_held[a] /\ frame_held[a] # None
      BY <2>4, <2>5
    <3>2. frame_held[a].name.idx # h.name.idx
      BY <3>1, <2>1
    <3>3. ASSUME NEW nm \in DOMAIN frames', frames'[nm].session = session
          PROVE  nm.idx # frame_held[a].name.idx
      <4>1. CASE nm = h.name
        BY <4>1, <3>2
      <4>2. CASE nm # h.name
        BY <4>2, <3>1, <3>3, <2>0, <2>2 DEF OneFileEach
      <4> QED
        BY <4>1, <4>2
    <3> QED
      BY <3>1, <3>3, <2>0, <2>4 DEF OneFileEach
  <2> QED
    BY <2>0, <2>3, <2>5 DEF OneFileEach
<1> QED
  BY <1>7, <1>8, <1>9, <1>10 DEF FrameInv

(* A failed write takes the promise back, and so does an end of the        *)
(* process that loses a frame; nothing else touches the frame files.       *)
LEMMA FrameLostStep ==
  ASSUME FrameInv, UNCHANGED <<frames, session, frame_counter, received>>,
         frame_held' \in [Readers -> Files \cup {None}],
         lossless' \in BOOLEAN,
         \A e \in Readers : frame_held'[e] \in {frame_held[e], None},
         lossless' => lossless /\ frame_held' = frame_held,
         phase' = "off" => \A e \in Readers : frame_held'[e] = None
  PROVE  FrameInv'
<1>1. FrameTypes'
  BY DEF FrameInv, FrameTypes
<1>2. FilesNumbered'
  BY DEF FrameInv, FilesNumbered
<1>3. NoFrameOverwritten'
  BY DEF FrameInv, NoFrameOverwritten
<1>4. OneFileEach'
  BY DEF FrameInv, OneFileEach
<1> QED
  BY <1>1, <1>2, <1>3, <1>4 DEF FrameInv

(* A frame that cannot be written is given up, and the recording is no     *)
(* longer lossless.                                                        *)
LEMMA FrameFailedStep ==
  ASSUME ProcessTypes, FrameInv, NEW e \in Readers, FrameFailed(e)
  PROVE  FrameInv'
<1>1. /\ frame_held' = [frame_held EXCEPT ![e] = None] /\ lossless' = FALSE
      /\ UNCHANGED <<frames, phase, session, frame_counter, received>>
      /\ phase # "off" /\ frame_held \in [Readers -> Files \cup {None}]
  BY DEF FrameFailed, disk, FrameInv, FrameTypes
<1>2. /\ frame_held' \in [Readers -> Files \cup {None}]
      /\ \A a \in Readers : frame_held'[a] \in {frame_held[a], None}
  BY <1>1
<1> QED
  BY <1>1, <1>2, FrameLostStep

(* The process ends; its files stay.                                       *)
LEMMA ExitFrames ==
  ASSUME ProcessTypes, FrameInv, Exit
  PROVE  FrameInv'
<1>1. /\ frame_held' = [e \in Readers |-> None]
      /\ lossless' = (lossless /\ \A e \in Readers : frame_held[e] = None)
      /\ UNCHANGED <<frames, session, frame_counter, received>>
      /\ frame_held \in [Readers -> Files \cup {None}]
  BY DEF Exit, disk, FrameInv, FrameTypes
<1>2. frame_held' \in [Readers -> Files \cup {None}]
  BY <1>1
<1>3. \A e \in Readers : frame_held'[e] = None
  BY <1>1
<1>4. lossless' => lossless /\ frame_held' = frame_held
  BY <1>1
<1>5. lossless' \in BOOLEAN
  BY <1>1
<1> QED
  BY <1>1, <1>2, <1>3, <1>4, <1>5, FrameLostStep

(* A new recording counts from zero again.                                 *)
LEMMA StartFrames ==
  ASSUME ProcessTypes, FrameInv, Start
  PROVE  FrameInv'
<1>1. /\ phase = "off" /\ phase' = "recording" /\ session' = session + 1
      /\ frame_counter' = 0 /\ received' = <<>> /\ lossless' = TRUE
      /\ UNCHANGED <<frames, frame_held>>
      /\ session \in Nat /\ MaxFrames \in Nat
  BY RecordingAssumption DEF Start, ProcessTypes
<1>2. \A e \in Readers : frame_held[e] = None
  BY <1>1 DEF FrameInv, FrameTypes
<1>3. Len(received') = 0 /\ received' \in Seq(Frames)
  BY <1>1, EmptyFile
<1>4. FrameTypes'
  <2>1. lossless' \in BOOLEAN
    BY <1>1
  <2>2. frame_counter' \in 0 .. MaxFrames
    BY <1>1
  <2> QED
    BY <2>1, <2>2, <1>1, <1>2, <1>3 DEF FrameInv, FrameTypes
<1>5. FilesNumbered' /\ OneFileEach'
  <2>1. ASSUME NEW nm \in DOMAIN frames
        PROVE  frames[nm].session <= session + 1 /\ frames[nm].session # session + 1
    <3>1. frames[nm] \in Frames /\ frames[nm].session <= session
      BY DEF FrameInv, FrameTypes, FilesNumbered
    <3>2. frames[nm].session \in Int
      BY <3>1, RecordingAssumption DEF Frames, Sessions
    <3> QED
      BY <3>1, <3>2, <1>1
  <2> QED
    BY <2>1, <1>1, <1>2, <1>3 DEF FilesNumbered, OneFileEach
<1>6. NoFrameOverwritten'
  BY <1>3 DEF NoFrameOverwritten
<1> QED
  BY <1>4, <1>5, <1>6 DEF FrameInv

-----------------------------------------------------------------------------
(* The lines of control.jsonl                                              *)

(* What is appended adds at most one line, at the end; joined to a line    *)
(* without a newline it makes that one unreadable.                         *)
LEMMA JoinedLines ==
  ASSUME LineInv, NEW l \in Lines \cup {None}
  PROVE  /\ Joined(l) \in Seq(Lines \cup {None}) /\ Joined(l) # <<>>
         /\ Len(control) \in Nat
         /\ \A i \in 1 .. Len(Joined(l)) :
              \/ Joined(l)[i] = None
              \/ i \in 1 .. Len(control) /\ Joined(l)[i] = control[i]
              \/ i = Len(control) + 1 /\ Joined(l)[i] = l
<1> DEFINE S == Lines \cup {None}
<1>1. control \in Seq(S) /\ None \in S /\ (torn => control # <<>>)
  BY DEF LineInv, LineTypes, LinesOnce
<1> HIDE DEF S
<1>2. CASE torn
  <2> DEFINE c == Front(control)
  <2>1. Joined(l) = Append(c, None)
    BY <1>2 DEF Joined
  <2>2. /\ c \in Seq(S) /\ Len(control) \in Nat \ {0}
        /\ Len(c) = Len(control) - 1
        /\ \A i \in 1 .. Len(control) - 1 : c[i] = control[i]
    BY <1>1, <1>2, Shortened
  <2> HIDE DEF c
  <2>3. /\ Append(c, None) \in Seq(S) /\ Append(c, None) # <<>>
        /\ Len(Append(c, None)) = Len(c) + 1
        /\ \A i \in 1 .. Len(c) + 1 :
             Append(c, None)[i] = IF i = Len(c) + 1 THEN None ELSE c[i]
    BY <1>1, <2>2, Appended
  <2>4. ASSUME NEW i \in 1 .. Len(Joined(l))
        PROVE  \/ Joined(l)[i] = None
               \/ i \in 1 .. Len(control) /\ Joined(l)[i] = control[i]
    BY <2>1, <2>2, <2>3
  <2> QED
    BY <2>1, <2>2, <2>3, <2>4 DEF S
<1>3. CASE ~ torn
  <2>1. Joined(l) = Append(control, l)
    BY <1>3 DEF Joined
  <2>2. l \in S
    BY DEF S
  <2>3. /\ Append(control, l) \in Seq(S) /\ Append(control, l) # <<>>
        /\ Len(control) \in Nat
        /\ Len(Append(control, l)) = Len(control) + 1
        /\ \A i \in 1 .. Len(control) + 1 :
             Append(control, l)[i] = IF i = Len(control) + 1 THEN l ELSE control[i]
    BY <1>1, <2>2, Appended
  <2>4. ASSUME NEW i \in 1 .. Len(Joined(l))
        PROVE  \/ i \in 1 .. Len(control) /\ Joined(l)[i] = control[i]
               \/ i = Len(control) + 1 /\ Joined(l)[i] = l
    BY <2>1, <2>3
  <2> QED
    BY <2>1, <2>3, <2>4 DEF S
<1> QED
  BY <1>2, <1>3

(* A task's line is written, in whole, in part or not at all: whichever it *)
(* is, no line is there twice.                                             *)
LEMMA LineWrittenStep ==
  ASSUME LineInv, NEW t \in Talkers, line_held[t] # None,
         line_held' = [line_held EXCEPT ![t] = None],
         UNCHANGED <<session, message_count, phase>>, phase # "off",
         control' \in Seq(Lines \cup {None}), torn' \in BOOLEAN,
         torn' => control' # <<>>, Len(control) \in Nat,
         \A i \in 1 .. Len(control') :
           \/ control'[i] = None
           \/ i \in 1 .. Len(control) /\ control'[i] = control[i]
           \/ i = Len(control) + 1 /\ control'[i] = line_held[t]
  PROVE  LineInv'
<1>1. line_held \in [Talkers -> Lines \cup {None}]
  BY DEF LineInv, LineTypes
<1>2. \A u \in Talkers : line_held'[u] = IF u = t THEN None ELSE line_held[u]
  BY <1>1
<1>3. LineTypes'
  <2>1. line_held' \in [Talkers -> Lines \cup {None}]
    BY <1>1
  <2>2. message_count' \in 0 .. MaxLines
    BY DEF LineInv, LineTypes
  <2> QED
    BY <2>1, <2>2 DEF LineTypes
<1>4. ASSUME NEW i \in 1 .. Len(control'), control'[i] # None
      PROVE  /\ control'[i].session = session'
             /\ control'[i].n < message_count'
             /\ \A u \in Talkers :
                  line_held'[u] # None => control'[i].n # line_held'[u].n
  <2>1. CASE i \in 1 .. Len(control) /\ control'[i] = control[i]
    BY <1>2, <1>4, <2>1 DEF LineInv, LinesOnce
  <2>2. CASE control'[i] = line_held[t]
    BY <1>2, <1>4, <2>2 DEF LineInv, LinesOnce
  <2> QED
    BY <1>4, <2>1, <2>2
<1>5. ASSUME NEW i \in 1 .. Len(control'), NEW j \in 1 .. Len(control'),
             control'[i] # None, control'[j] # None,
             control'[j].n = control'[i].n
      PROVE  i = j
  <2>1. \/ i \in 1 .. Len(control) /\ control'[i] = control[i]
        \/ i = Len(control) + 1 /\ control'[i] = line_held[t]
    BY <1>5
  <2>2. \/ j \in 1 .. Len(control) /\ control'[j] = control[j]
        \/ j = Len(control) + 1 /\ control'[j] = line_held[t]
    BY <1>5
  <2>3. CASE i \in 1 .. Len(control) /\ control'[i] = control[i]
    BY <1>5, <2>2, <2>3 DEF LineInv, LinesOnce
  <2>4. CASE i = Len(control) + 1 /\ control'[i] = line_held[t]
    BY <1>5, <2>2, <2>4 DEF LineInv, LinesOnce
  <2> QED
    BY <2>1, <2>3, <2>4
<1>6. ASSUME NEW u \in Talkers, line_held'[u] # None
      PROVE  /\ line_held'[u].session = session'
             /\ line_held'[u].n < message_count'
             /\ \A w \in Talkers :
                  line_held'[w] # None /\ line_held'[w].n = line_held'[u].n => u = w
  BY <1>2, <1>6 DEF LineInv, LinesOnce
<1>7. LinesOnce'
  BY <1>4, <1>5, <1>6 DEF LinesOnce
<1> QED
  BY <1>3, <1>7 DEF LineInv

(* A line that was taken is written.                                       *)
LEMMA AppendLineStep ==
  ASSUME LineInv, NEW t \in Talkers, AppendLine(t)
  PROVE  LineInv'
<1>1. /\ phase # "off" /\ line_held[t] # None
      /\ control' = Joined(line_held[t]) /\ torn' = FALSE
      /\ line_held' = [line_held EXCEPT ![t] = None]
      /\ UNCHANGED <<phase, session, message_count>>
  BY DEF AppendLine
<1>2. line_held[t] \in Lines \cup {None}
  BY DEF LineInv, LineTypes
<1> QED
  BY <1>1, <1>2, JoinedLines, LineWrittenStep

(* A line is torn or lost.                                                 *)
LEMMA LineFailedStep ==
  ASSUME LineInv, NEW t \in Talkers, LineFailed(t)
  PROVE  LineInv'
<1>1. /\ phase # "off" /\ line_held[t] # None
      /\ line_held' = [line_held EXCEPT ![t] = None]
      /\ UNCHANGED <<phase, session, message_count>>
      /\ \/ control' \in {Joined(None), Joined(line_held[t])} /\ torn' \in BOOLEAN
         \/ control' = control /\ torn' \in {torn, FALSE}
  BY DEF LineFailed
<1>2. /\ line_held[t] \in Lines \cup {None}
      /\ control \in Seq(Lines \cup {None}) /\ Len(control) \in Nat
      /\ torn => control # <<>>
  BY DEF LineInv, LineTypes, LinesOnce
<1>3. torn \in BOOLEAN
  BY DEF LineInv, LineTypes
<1>4. CASE control' \in {Joined(None), Joined(line_held[t])} /\ torn' \in BOOLEAN
  <2>1. PICK l \in {None, line_held[t]} : control' = Joined(l)
    BY <1>4
  <2>2. l \in Lines \cup {None}
    BY <1>2
  <2>3. /\ control' \in Seq(Lines \cup {None}) /\ control' # <<>>
        /\ \A i \in 1 .. Len(control') :
             \/ control'[i] = None
             \/ i \in 1 .. Len(control) /\ control'[i] = control[i]
             \/ i = Len(control) + 1 /\ control'[i] = l
    BY <2>1, <2>2, JoinedLines
  <2>4. \A i \in 1 .. Len(control') :
          \/ control'[i] = None
          \/ i \in 1 .. Len(control) /\ control'[i] = control[i]
          \/ i = Len(control) + 1 /\ control'[i] = line_held[t]
    BY <2>1, <2>3
  <2> QED
    BY <1>1, <1>2, <1>4, <2>3, <2>4, LineWrittenStep
<1>5. CASE control' = control /\ torn' \in {torn, FALSE}
  <2>1. torn' \in BOOLEAN
    BY <1>3, <1>5
  <2>2. torn' => control' # <<>>
    BY <1>2, <1>5
  <2> QED
    BY <1>1, <1>2, <1>5, <2>1, <2>2, LineWrittenStep
<1> QED
  BY <1>1, <1>4, <1>5

(* A line that is counted has a number no other line has.                  *)
LEMMA TakeLineStep ==
  ASSUME ProcessTypes, LineInv, NEW t \in Talkers, NEW d \in Directions,
         TakeLine(t, d)
  PROVE  LineInv'
<1> DEFINE l == [session |-> session, dir |-> d, n |-> message_count]
<1>1. /\ phase # "off" /\ line_held[t] = None /\ message_count < MaxLines
      /\ message_count' = message_count + 1
      /\ line_held' = [line_held EXCEPT ![t] = l]
      /\ UNCHANGED <<control, torn, phase, session>>
  BY DEF TakeLine, disk
<1>2. MaxLines \in Nat /\ message_count \in 0 .. (MaxLines - 1)
  BY <1>1, RecordingAssumption DEF LineInv, LineTypes
<1>3. l \in Lines /\ l.session = session /\ l.n = message_count
  BY <1>1, <1>2 DEF ProcessTypes, Lines
<1> HIDE DEF l
<1>4. /\ line_held \in [Talkers -> Lines \cup {None}]
      /\ control \in Seq(Lines \cup {None})
      /\ \A u \in Talkers : line_held'[u] = IF u = t THEN l ELSE line_held[u]
  BY <1>1 DEF LineInv, LineTypes
<1>5. LineTypes'
  <2>1. line_held' \in [Talkers -> Lines \cup {None}]
    BY <1>1, <1>3, <1>4
  <2>2. message_count' \in 0 .. MaxLines
    BY <1>1, <1>2
  <2>3. torn' \in BOOLEAN
    BY <1>1 DEF LineInv, LineTypes
  <2> QED
    BY <2>1, <2>2, <2>3, <1>1, <1>4 DEF LineTypes
<1>6. \A x \in Lines : x.n \in Int
  BY <1>2 DEF Lines
<1>7. ASSUME NEW i \in 1 .. Len(control), control[i] # None
      PROVE  control[i].n \in Int /\ control[i].n < message_count
  <2>1. control[i] \in Lines
    BY <1>4, <1>7
  <2> QED
    BY <2>1, <1>6, <1>7 DEF LineInv, LinesOnce
<1>8. ASSUME NEW u \in Talkers, line_held[u] # None
      PROVE  line_held[u].n \in Int /\ line_held[u].n < message_count
  <2>1. line_held[u] \in Lines
    BY <1>4, <1>8
  <2> QED
    BY <2>1, <1>6, <1>8 DEF LineInv, LinesOnce
<1>9. LinesOnce'
  <2>1. ASSUME NEW i \in 1 .. Len(control), control[i] # None
        PROVE  /\ control[i].session = session'
               /\ control[i].n < message_count'
               /\ \A j \in 1 .. Len(control) :
                    control[j] # None /\ control[j].n = control[i].n => i = j
    <3>1. control[i].n < message_count'
      BY <2>1, <1>1, <1>2, <1>7
    <3> QED
      BY <2>1, <3>1, <1>1 DEF LineInv, LinesOnce
  <2>2. ASSUME NEW u \in Talkers, line_held'[u] # None
        PROVE  /\ line_held'[u].session = session'
               /\ line_held'[u].n < message_count'
               /\ \A i \in 1 .. Len(control) :
                    control[i] # None => control[i].n # line_held'[u].n
               /\ \A w \in Talkers :
                    line_held'[w] # None /\ line_held'[w].n = line_held'[u].n
                      => u = w
    <3>1. CASE u = t
      <4>1. line_held'[u] = l
        BY <3>1, <1>4
      <4>2. l.n < message_count'
        BY <1>1, <1>2, <1>3
      <4>3. \A i \in 1 .. Len(control) : control[i] # None => control[i].n # l.n
        BY <1>2, <1>3, <1>7
      <4>4. \A w \in Talkers : line_held'[w] # None /\ line_held'[w].n = l.n => w = t
        BY <1>2, <1>3, <1>4, <1>8
      <4> QED
        BY <3>1, <4>1, <4>2, <4>3, <4>4, <1>1, <1>3
    <3>2. CASE u # t
      <4>1. line_held'[u] = line_held[u]
        BY <3>2, <1>4
      <4>2. line_held[u].n < message_count' /\ line_held[u].n # message_count
        BY <4>1, <2>2, <1>1, <1>2, <1>8
      <4>3. ASSUME NEW w \in Talkers, line_held'[w] # None,
                   line_held'[w].n = line_held[u].n
            PROVE  u = w
        <5>1. w # t
          BY <4>2, <4>3, <1>3, <1>4
        <5> QED
          BY <4>1, <4>3, <5>1, <2>2, <1>4 DEF LineInv, LinesOnce
      <4> QED
        BY <4>1, <4>2, <4>3, <2>2, <1>1 DEF LineInv, LinesOnce
    <3> QED
      BY <3>1, <3>2
  <2>3. torn' => control' # <<>>
    BY <1>1 DEF LineInv, LinesOnce
  <2> QED
    BY <2>1, <2>2, <2>3, <1>1 DEF LinesOnce
<1> QED
  BY <1>5, <1>9 DEF LineInv

(* Recording starts with an empty control.jsonl, and an end of the process *)
(* drops what tasks hold.                                                  *)
LEMMA StartLines ==
  ASSUME ProcessTypes, LineInv, Start
  PROVE  LineInv'
<1>1. /\ phase = "off" /\ control' = <<>> /\ torn' = FALSE
      /\ message_count' = 0 /\ line_held' = line_held
  BY DEF Start, Created
<1>2. \A t \in Talkers : line_held'[t] = None
  BY <1>1 DEF LineInv, LineTypes
<1>3. control' \in Seq(Lines \cup {None}) /\ Len(control') = 0
  BY <1>1, EmptyFile
<1>4. LineTypes'
  <2>1. torn' \in BOOLEAN
    BY <1>1
  <2>2. message_count' \in 0 .. MaxLines
    BY <1>1, RecordingAssumption
  <2>3. line_held' \in [Talkers -> Lines \cup {None}]
    BY <1>1 DEF LineInv, LineTypes
  <2> QED
    BY <2>1, <2>2, <2>3, <1>2, <1>3 DEF LineTypes
<1>5. LinesOnce'
  BY <1>1, <1>2, <1>3 DEF LinesOnce
<1> QED
  BY <1>4, <1>5 DEF LineInv

(* The process ends; the file stays, lines in hand are gone.               *)
LEMMA ExitLines ==
  ASSUME LineInv, Exit
  PROVE  LineInv'
<1>1. /\ line_held' = [t \in Talkers |-> None]
      /\ UNCHANGED <<control, torn, session, message_count>>
  BY DEF Exit, disk
<1>2. \A t \in Talkers : line_held'[t] = None
  BY <1>1
<1>3. LineTypes'
  <2>1. line_held' \in [Talkers -> Lines \cup {None}]
    BY <1>1
  <2>2. control' \in Seq(Lines \cup {None}) /\ message_count' \in 0 .. MaxLines
    BY <1>1 DEF LineInv, LineTypes
  <2>3. torn' \in BOOLEAN
    BY <1>1 DEF LineInv, LineTypes
  <2> QED
    BY <2>1, <2>2, <2>3, <1>2 DEF LineTypes
<1>4. LinesOnce'
  BY <1>1, <1>2 DEF LineInv, LinesOnce
<1> QED
  BY <1>3, <1>4 DEF LineInv

-----------------------------------------------------------------------------
(* The whole                                                               *)

(* The steps of one half leave the other half alone.                       *)
LEMMA FramesAlone ==
  ASSUME FrameInv, UNCHANGED frameVars, session' = session,
         phase' = "off" => phase = "off"
  PROVE  FrameInv'
<1>1. FrameTypes'
  BY DEF frameVars, FrameInv, FrameTypes
<1>2. FilesNumbered'
  BY DEF frameVars, FrameInv, FilesNumbered
<1>3. NoFrameOverwritten'
  BY DEF frameVars, FrameInv, NoFrameOverwritten
<1>4. OneFileEach'
  BY DEF frameVars, FrameInv, OneFileEach
<1> QED
  BY <1>1, <1>2, <1>3, <1>4 DEF FrameInv

(* Steps on frames leave the lines alone.                                  *)
LEMMA LinesAlone ==
  ASSUME LineInv, UNCHANGED lineVars, session' = session,
         phase' = "off" => phase = "off"
  PROVE  LineInv'
<1>1. LineTypes'
  BY DEF lineVars, LineInv, LineTypes
<1>2. LinesOnce'
  BY DEF lineVars, LineInv, LinesOnce
<1> QED
  BY <1>1, <1>2 DEF LineInv

RecordingInv == ProcessTypes /\ FrameInv /\ LineInv

(* Every step keeps both halves of the invariant.                          *)
LEMMA RecordingStep == RecordingInv /\ [Next]_vars => RecordingInv'
<1> SUFFICES ASSUME ProcessTypes, FrameInv, LineInv, [Next]_vars
             PROVE  RecordingInv'
  BY DEF RecordingInv
<1>1. CASE Start
  <2>1. ProcessTypes'
    BY <1>1, RecordingAssumption DEF Start, ProcessTypes, Sessions
  <2> QED
    BY <1>1, <2>1, StartFrames, StartLines DEF RecordingInv
<1>2. CASE Finalize
  <2>1. /\ phase # "off" /\ phase' = "finalized" /\ session' = session
        /\ UNCHANGED frameVars /\ UNCHANGED lineVars
        /\ manifest' = [session |-> session, frame_count |-> frame_counter]
    BY <1>2 DEF Finalize, frameVars, lineVars
  <2>2. frame_counter \in Nat
    BY RecordingAssumption DEF FrameInv, FrameTypes
  <2>3. manifest' \in [session : Sessions, frame_count : Nat]
    BY <2>1, <2>2 DEF ProcessTypes
  <2>4. ProcessTypes'
    BY <2>1, <2>3 DEF ProcessTypes
  <2> QED
    BY <2>1, <2>4, FramesAlone, LinesAlone DEF RecordingInv
<1>3. CASE Exit
  <2>1. ProcessTypes'
    BY <1>3 DEF Exit, disk, ProcessTypes
  <2> QED
    BY <1>3, <2>1, ExitFrames, ExitLines DEF RecordingInv
<1>4. ASSUME NEW t \in Talkers,
             \/ AppendLine(t) \/ LineFailed(t)
             \/ \E d \in Directions : TakeLine(t, d)
      PROVE  RecordingInv'
  <2>1. UNCHANGED <<frameVars, phase, session, manifest>>
    BY <1>4 DEF AppendLine, LineFailed, TakeLine, disk, frameVars
  <2>2. ProcessTypes'
    BY <2>1 DEF ProcessTypes
  <2>3. LineInv'
    BY <1>4, AppendLineStep, LineFailedStep, TakeLineStep
  <2>4. FrameInv'
    BY <2>1, FramesAlone
  <2> QED
    BY <2>2, <2>3, <2>4 DEF RecordingInv
<1>5. ASSUME NEW e \in Readers,
             \/ WriteFrame(e) \/ FrameFailed(e)
             \/ \E k \in Kinds : TakeFrame(e, k)
      PROVE  RecordingInv'
  <2>1. UNCHANGED <<lineVars, phase, session, manifest>>
    BY <1>5 DEF WriteFrame, FrameFailed, TakeFrame, disk, lineVars
  <2>2. ProcessTypes'
    BY <2>1 DEF ProcessTypes
  <2>3. FrameInv'
    BY <1>5, WriteFrameStep, FrameFailedStep, TakeFrameStep
  <2>4. LineInv'
    BY <2>1, LinesAlone
  <2> QED
    BY <2>2, <2>3, <2>4 DEF RecordingInv
<1>6. CASE UNCHANGED vars
  <2>1. UNCHANGED <<frameVars, lineVars, phase, session, manifest>>
    BY <1>6 DEF vars, disk, process, frameVars, lineVars
  <2>2. ProcessTypes'
    BY <2>1 DEF ProcessTypes
  <2> QED
    BY <2>1, <2>2, FramesAlone, LinesAlone DEF RecordingInv
<1> QED
  BY <1>1, <1>2, <1>3, <1>4, <1>5, <1>6 DEF Next

(* The directory is empty at the start.                                    *)
LEMMA RecordingInit == Init => RecordingInv
<1> SUFFICES ASSUME Init PROVE RecordingInv
  OBVIOUS
<1>1. /\ frames = [f \in {} |-> None] /\ control = <<>> /\ torn = FALSE
      /\ manifest = None /\ phase = "off" /\ session = 0 /\ frame_counter = 0
      /\ message_count = 0 /\ frame_held = [e \in Readers |-> None]
      /\ line_held = [t \in Talkers |-> None] /\ received = <<>>
      /\ lossless = TRUE
  BY DEF Init
<1>2. ProcessTypes
  BY <1>1, RecordingAssumption DEF ProcessTypes
<1>3. /\ received \in Seq(Frames) /\ Len(received) = 0
      /\ control \in Seq(Lines \cup {None}) /\ Len(control) = 0
  BY <1>1, EmptyFile
<1>4. /\ frame_held \in [Readers -> Files \cup {None}]
      /\ line_held \in [Talkers -> Lines \cup {None}]
      /\ \A e \in Readers : frame_held[e] = None
      /\ \A t \in Talkers : line_held[t] = None
  BY <1>1
<1>5. DOMAIN frames = {} /\ frames \in [DOMAIN frames -> Frames]
  BY <1>1
<1>6. lossless \in BOOLEAN /\ torn \in BOOLEAN
  BY <1>1
<1>7. frame_counter \in 0 .. MaxFrames /\ message_count \in 0 .. MaxLines
  <2>1. frame_counter = 0 /\ message_count = 0
    BY <1>1
  <2> QED
    BY <2>1, RecordingAssumption
<1>8. FrameInv
  <2>1. Len(received) = frame_counter
    <3>1. Len(received) = 0 /\ frame_counter = 0
      BY <1>1, <1>3
    <3> QED
      BY <3>1
  <2> QED
    BY <2>1, <1>3, <1>4, <1>5, <1>6, <1>7
       DEF FrameInv, FrameTypes, FilesNumbered, OneFileEach, NoFrameOverwritten
<1>9. LineInv
  <2>1. torn = FALSE
    BY <1>1
  <2> QED
    BY <2>1, <1>3, <1>4, <1>6, <1>7 DEF LineInv, LineTypes, LinesOnce
<1> QED
  BY <1>2, <1>8, <1>9 DEF RecordingInv

(* The recording directory stays as it must: until a write fails every     *)
(* frame of the session is in a file or about to be, none overwritten by   *)
(* another although readers overlap; no control line is in the file twice  *)
(* or of another session; files carry the numbers of their frames          *)
(* (record_frame, record_control and new of the recorder).                 *)
THEOREM DirectoryInvariant == Spec => []DirInv
<1>1. RecordingInv => DirInv
  BY HalvesMakeDirInv DEF RecordingInv
<1> QED
  BY <1>1, RecordingInit, RecordingStep, PTL DEF Spec
-----------------------------------------------------------------------------
(* What a filter collects                                                  *)

(* Every nonempty set of naturals has a least element.                     *)
LEMMA Least ==
  ASSUME NEW T \in SUBSET Nat, T # {}
  PROVE  \E m \in T : \A k \in T : m <= k
<1> DEFINE R == {ss \in Nat \X Nat : ss[1] < ss[2]}
<1>1. IsWellFoundedOn(R, Nat)
  BY NatLessThanWellFounded, Zenon DEF OpToRel
<1>2. \A x, y \in Nat : (<<y, x>> \in R) <=> y < x
  OBVIOUS
<1> HIDE DEF R
<1>3. T \subseteq Nat
  OBVIOUS
<1>4. \E x \in T : \A y \in T : ~(<<y, x>> \in R)
  BY <1>1, <1>3, WFMin, Zenon
<1>5. PICK x \in T : \A y \in T : ~(<<y, x>> \in R)
  BY <1>4
<1>6. ASSUME NEW y \in T PROVE x <= y
  <2>1. x \in Nat /\ y \in Nat /\ ~(y < x)
    BY <1>2, <1>3, <1>5
  <2> QED
    BY <2>1
<1> QED
  BY <1>5, <1>6

(* Induction up to N, for a set G of numbers: what fails somewhere fails a *)
(* first time.                                                             *)
LEMMA UpTo ==
  ASSUME NEW N \in Nat, NEW G, 0 \in G,
         \A n \in 0 .. N - 1 : n \in G => n + 1 \in G
  PROVE  \A n \in 0 .. N : n \in G
<1> DEFINE T == {n \in 0 .. N : n \notin G}
<1>1. SUFFICES ASSUME T # {} PROVE FALSE
  OBVIOUS
<1>2. T \in SUBSET Nat
  OBVIOUS
<1>3. PICK m \in T : \A k \in T : m <= k
  BY <1>1, <1>2, Least
<1>4. m \in 0 .. N /\ m \notin G /\ m # 0
  OBVIOUS
<1>5. m - 1 \in 0 .. N - 1 /\ (m - 1) + 1 = m /\ m - 1 \in 0 .. N /\ ~(m <= m - 1)
  BY <1>4
<1>6. m - 1 \in G
  BY <1>3, <1>5
<1> QED
  BY <1>4, <1>5, <1>6

(* The recursion of Picked has a solution.                                 *)
LEMMA PickedExists ==
  ASSUME NEW S, NEW s \in Seq(S), NEW K
  PROVE  \E f : f = [i \in 0 .. Len(s) |->
                       IF i = 0 THEN <<>>
                       ELSE IF i \in K THEN Append(f[i - 1], s[i]) ELSE f[i - 1]]
<1> DEFINE One(f, i) == IF i \in K THEN Append(f[i - 1], s[i]) ELSE f[i - 1]
<1> DEFINE Good(n) ==
      \E f : f = [i \in 0 .. n |-> IF i = 0 THEN <<>> ELSE One(f, i)]
<1> DEFINE G == {n \in Nat : Good(n)}
<1>1. Len(s) \in Nat
  OBVIOUS
<1>2. Good(0)
  <2> DEFINE f == [i \in 0 .. 0 |-> <<>>]
  <2>1. f = [i \in 0 .. 0 |-> IF i = 0 THEN <<>> ELSE One(f, i)]
    OBVIOUS
  <2> HIDE DEF f
  <2> QED
    BY <2>1
<1>3. ASSUME NEW n \in Nat, Good(n) PROVE Good(n + 1)
  <2>1. PICK g : g = [i \in 0 .. n |-> IF i = 0 THEN <<>> ELSE One(g, i)]
    BY <1>3
  <2> DEFINE f == [i \in 0 .. n + 1 |-> IF i = 0 THEN <<>> ELSE One(g, i)]
  <2>2. ASSUME NEW i \in 0 .. n + 1, i # 0 PROVE f[i - 1] = g[i - 1]
    <3>1. i - 1 \in 0 .. n /\ i - 1 \in 0 .. n + 1
      BY <2>2
    <3> HIDE DEF One
    <3>2. f[i - 1] = IF i - 1 = 0 THEN <<>> ELSE One(g, i - 1)
      BY <3>1
    <3>3. g[i - 1] = IF i - 1 = 0 THEN <<>> ELSE One(g, i - 1)
      BY <2>1, <3>1
    <3> QED
      BY <3>2, <3>3
  <2> HIDE DEF f
  <2>3. \A i \in 0 .. n + 1 : i # 0 => One(f, i) = One(g, i)
    BY <2>2
  <2> HIDE DEF One
  <2>4. f = [i \in 0 .. n + 1 |-> IF i = 0 THEN <<>> ELSE One(f, i)]
    BY <2>3 DEF f
  <2> QED
    BY <2>4
<1> HIDE DEF Good
<1>4. 0 \in G /\ \A n \in 0 .. Len(s) - 1 : n \in G => n + 1 \in G
  BY <1>1, <1>2, <1>3
<1> HIDE DEF G
<1>5. Len(s) \in G
  <2>1. \A n \in 0 .. Len(s) : n \in G
    BY <1>1, <1>4, UpTo
  <2> QED
    BY <1>1, <2>1
<1> QED
  BY <1>5 DEF G, Good

(* Picked satisfies its recursion.                                         *)
LEMMA PickedRecursion ==
  ASSUME NEW S, NEW s \in Seq(S), NEW K
  PROVE  \E f : /\ f[0] = <<>>
                /\ \A n \in 0 .. Len(s) - 1 :
                     f[n + 1] = IF n + 1 \in K THEN Append(f[n], s[n + 1]) ELSE f[n]
                /\ Picked(s, K) = f[Len(s)]
<1> DEFINE f == CHOOSE g : g = [i \in 0 .. Len(s) |->
                 IF i = 0 THEN <<>>
                 ELSE IF i \in K THEN Append(g[i - 1], s[i]) ELSE g[i - 1]]
<1>1. \E g : g = [i \in 0 .. Len(s) |->
                 IF i = 0 THEN <<>>
                 ELSE IF i \in K THEN Append(g[i - 1], s[i]) ELSE g[i - 1]]
  BY PickedExists
<1>2. f = [i \in 0 .. Len(s) |->
             IF i = 0 THEN <<>>
             ELSE IF i \in K THEN Append(f[i - 1], s[i]) ELSE f[i - 1]]
  BY <1>1, Zenon
<1>3. Picked(s, K) = f[Len(s)]
  BY Zenon DEF Picked
<1> HIDE DEF f
<1>4. Len(s) \in Nat
  OBVIOUS
<1>5. f[0] = <<>>
  BY <1>2, <1>4
<1>6. ASSUME NEW n \in 0 .. Len(s) - 1
      PROVE  f[n + 1] = IF n + 1 \in K THEN Append(f[n], s[n + 1]) ELSE f[n]
  <2>1. n + 1 \in 0 .. Len(s) /\ n + 1 # 0 /\ (n + 1) - 1 = n
    BY <1>4
  <2>2. f[n + 1] = IF n + 1 \in K THEN Append(f[(n + 1) - 1], s[n + 1])
                                  ELSE f[(n + 1) - 1]
    BY <1>2, <2>1
  <2> QED
    BY <2>1, <2>2
<1> QED
  BY <1>3, <1>5, <1>6

(* What Picked returns: the elements at the chosen positions, all of them, *)
(* in order.                                                               *)
LEMMA Picks ==
  ASSUME NEW S, NEW s \in Seq(S), NEW K \in SUBSET (1 .. Len(s))
  PROVE  /\ Picked(s, K) \in Seq(S)
         /\ \E pos \in [1 .. Len(Picked(s, K)) -> K] :
              /\ \A k \in 1 .. Len(Picked(s, K)) : Picked(s, K)[k] = s[pos[k]]
              /\ \A k, l \in 1 .. Len(Picked(s, K)) : k < l => pos[k] < pos[l]
              /\ \A i \in K : \E k \in 1 .. Len(Picked(s, K)) : pos[k] = i
<1>1. PICK f : /\ f[0] = <<>>
               /\ \A n \in 0 .. Len(s) - 1 :
                    f[n + 1] = IF n + 1 \in K THEN Append(f[n], s[n + 1]) ELSE f[n]
               /\ Picked(s, K) = f[Len(s)]
  BY PickedRecursion
<1>2. Len(s) \in Nat /\ \A i \in 1 .. Len(s) : s[i] \in S
  OBVIOUS
<1> DEFINE Maps(r, n, pos) ==
      /\ pos \in [1 .. Len(r) -> K \cap (1 .. n)]
      /\ \A k \in 1 .. Len(r) : r[k] = s[pos[k]]
      /\ \A k, l \in 1 .. Len(r) : k < l => pos[k] < pos[l]
      /\ \A i \in K \cap (1 .. n) : \E k \in 1 .. Len(r) : pos[k] = i
<1> DEFINE Good(n) == f[n] \in Seq(S) /\ \E pos : Maps(f[n], n, pos)
<1> DEFINE G == {n \in Nat : Good(n)}
<1>3. Good(0)
  <2>1. f[0] \in Seq(S) /\ Len(f[0]) = 0
    BY <1>1
  <2> DEFINE pos == [k \in 1 .. 0 |-> 0]
  <2>2. Maps(f[0], 0, pos)
    BY <2>1
  <2> HIDE DEF Maps
  <2> QED
    BY <2>1, <2>2
<1>4. ASSUME NEW n \in 0 .. Len(s) - 1, Good(n) PROVE Good(n + 1)
  <2> DEFINE r == f[n]
  <2>1. r \in Seq(S) /\ Len(r) \in Nat /\ n \in Nat /\ n + 1 \in 1 .. Len(s) /\ s[n + 1] \in S
    BY <1>2, <1>4
  <2>2. PICK pos : Maps(r, n, pos)
    BY <1>4
  <2> HIDE DEF r
  <2>3. CASE n + 1 \notin K
    <3>1. f[n + 1] = r
      BY <1>1, <2>3 DEF r
    <3>2. K \cap (1 .. n + 1) = K \cap (1 .. n)
      BY <2>1, <2>3
    <3>3. Maps(r, n + 1, pos)
      BY <2>2, <3>2
    <3> HIDE DEF Maps
    <3> QED
      BY <2>1, <3>1, <3>3
  <2>4. CASE n + 1 \in K
    <3> DEFINE u == Append(r, s[n + 1])
               m == Len(r) + 1
               q == [k \in 1 .. m |-> IF k = m THEN n + 1 ELSE pos[k]]
    <3>1. f[n + 1] = u
      BY <1>1, <2>4 DEF r
    <3>2. /\ u \in Seq(S) /\ Len(u) = m /\ m \in Nat /\ u[m] = s[n + 1]
          /\ \A k \in 1 .. Len(r) : u[k] = r[k]
      BY <2>1
    <3>3. \A k \in 1 .. m : k # m => k \in 1 .. Len(r)
      BY <2>1
    <3>4. m \in 1 .. m /\ \A k \in 1 .. Len(r) : k \in 1 .. m /\ k # m
      BY <2>1
    <3>5. \A k \in 1 .. Len(r) : pos[k] \in K /\ pos[k] \in 1 .. n /\ r[k] = s[pos[k]]
      BY <2>2
    <3>6. q[m] = n + 1 /\ \A k \in 1 .. Len(r) : q[k] = pos[k]
      BY <3>4
    <3>7. \A k \in 1 .. n : k \in 1 .. n + 1 /\ k < n + 1
      BY <2>1
    <3>8. n + 1 \in 1 .. n + 1
      BY <2>1
    <3>9. q \in [1 .. m -> K \cap (1 .. n + 1)]
      <4>1. ASSUME NEW k \in 1 .. m PROVE q[k] \in K \cap (1 .. n + 1)
        BY <2>4, <3>3, <3>5, <3>6, <3>7, <3>8
      <4> QED
        BY <4>1
    <3> HIDE DEF u, m, q
    <3>10. \A k \in 1 .. m : u[k] = s[q[k]]
      BY <3>2, <3>3, <3>5, <3>6
    <3>11. ASSUME NEW k \in 1 .. m, NEW l \in 1 .. m, k < l PROVE q[k] < q[l]
      <4>1. k \in 1 .. Len(r) /\ q[k] = pos[k]
        BY <2>1, <3>2, <3>3, <3>6, <3>11
      <4>2. CASE l = m
        BY <3>5, <3>6, <3>7, <4>1, <4>2
      <4>3. CASE l # m
        <5>1. l \in 1 .. Len(r) /\ q[l] = pos[l]
          BY <3>3, <3>6, <4>3
        <5> QED
          BY <2>2, <3>11, <4>1, <5>1
      <4> QED
        BY <4>2, <4>3
    <3>12. ASSUME NEW i \in K \cap (1 .. n + 1) PROVE \E k \in 1 .. m : q[k] = i
      <4>1. CASE i = n + 1
        BY <3>4, <3>6, <4>1
      <4>2. CASE i # n + 1
        <5>1. i \in K \cap (1 .. n)
          BY <2>1, <4>2
        <5>2. PICK k \in 1 .. Len(r) : pos[k] = i
          BY <2>2, <5>1
        <5> QED
          BY <3>4, <3>6, <5>2
      <4> QED
        BY <4>1, <4>2
    <3>13. Maps(u, n + 1, q)
      BY <3>2, <3>9, <3>10, <3>11, <3>12
    <3> HIDE DEF Maps
    <3> QED
      BY <3>1, <3>2, <3>13
  <2> QED
    BY <2>3, <2>4
<1> HIDE DEF Good
<1>5. 0 \in G /\ \A n \in 0 .. Len(s) - 1 : n \in G => n + 1 \in G
  BY <1>2, <1>3, <1>4
<1> HIDE DEF G
<1>6. Good(Len(s))
  <2>1. \A n \in 0 .. Len(s) : n \in G
    BY <1>2, <1>5, UpTo
  <2>2. Len(s) \in G
    BY <1>2, <2>1
  <2> QED
    BY <2>2 DEF G
<1>7. K \cap (1 .. Len(s)) = K
  OBVIOUS
<1> QED
  BY <1>1, <1>6, <1>7 DEF Good


-----------------------------------------------------------------------------
(* What replay plays back of the control lines                             *)

(* control_messages: lines of the telescope, each from a place of its own  *)
(* in the file.                                                            *)
LEMMA MessagesPicked ==
  ASSUME control \in Seq(Lines \cup {None}), NEW m, m = control_messages
  PROVE  /\ m \in Seq(Lines \cup {None})
         /\ \E pos \in [1 .. Len(m) -> 1 .. Len(control)] :
              /\ \A k \in 1 .. Len(m) : /\ m[k] = control[pos[k]]
                                        /\ m[k] # None /\ m[k].dir = "telescope"
              /\ \A k, l \in 1 .. Len(m) : k < l => pos[k] < pos[l]
<1> DEFINE K == {i \in 1 .. Len(control) :
                   control[i] # None /\ control[i].dir = "telescope"}
<1>1. /\ K \in SUBSET (1 .. Len(control))
      /\ \A i \in K : control[i] # None /\ control[i].dir = "telescope"
  OBVIOUS
<1>2. m = Picked(control, K)
  BY DEF control_messages
<1> HIDE DEF K
<1>3. /\ m \in Seq(Lines \cup {None})
      /\ \E pos \in [1 .. Len(m) -> K] :
           /\ \A k \in 1 .. Len(m) : m[k] = control[pos[k]]
           /\ \A k, l \in 1 .. Len(m) : k < l => pos[k] < pos[l]
           /\ \A i \in K : \E k \in 1 .. Len(m) : pos[k] = i
  BY <1>1, <1>2, Picks
<1>4. PICK pos \in [1 .. Len(m) -> K] :
           /\ \A k \in 1 .. Len(m) : m[k] = control[pos[k]]
           /\ \A k, l \in 1 .. Len(m) : k < l => pos[k] < pos[l]
  BY <1>3
<1>5. \A k \in 1 .. Len(m) : pos[k] \in K
  BY <1>4
<1>6. ASSUME NEW k \in 1 .. Len(m)
      PROVE  m[k] = control[pos[k]] /\ m[k] # None /\ m[k].dir = "telescope"
  <2>1. m[k] = control[pos[k]] /\ pos[k] \in K
    BY <1>4, <1>5
  <2> QED
    BY <1>1, <2>1
<1>7. pos \in [1 .. Len(m) -> 1 .. Len(control)]
  <2>1. K \subseteq 1 .. Len(control)
    BY <1>1
  <2> QED
    BY <2>1
<1>8. /\ \A k \in 1 .. Len(m) : /\ m[k] = control[pos[k]]
                                 /\ m[k] # None /\ m[k].dir = "telescope"
      /\ \A k, l \in 1 .. Len(m) : k < l => pos[k] < pos[l]
  BY <1>4, <1>6
<1>9. \E q \in [1 .. Len(m) -> 1 .. Len(control)] :
        /\ \A k \in 1 .. Len(m) : /\ m[k] = control[q[k]]
                                  /\ m[k] # None /\ m[k].dir = "telescope"
        /\ \A k, l \in 1 .. Len(m) : k < l => q[k] < q[l]
  <2> WITNESS pos \in [1 .. Len(m) -> 1 .. Len(control)]
  <2> QED
    BY <1>8
<1> QED
  BY <1>3, <1>9

(* Control playback has lines of the latest session only, none from a      *)
(* client and none twice, whatever tasks wrote them at the same time and   *)
(* however often the directory was used before (load and replay_control).  *)
THEOREM ControlExact == Spec => []ExactControl
<1>1. RecordingInv => ExactControl
  <2> SUFFICES ASSUME RecordingInv PROVE ExactControl
    OBVIOUS
  <2>1. control \in Seq(Lines \cup {None}) /\ LinesOnce
    BY DEF RecordingInv, LineInv, LineTypes
  <2>2. PICK m : m = control_messages
    OBVIOUS
  <2>3. /\ m \in Seq(Lines \cup {None})
        /\ \E pos \in [1 .. Len(m) -> 1 .. Len(control)] :
             /\ \A k \in 1 .. Len(m) : /\ m[k] = control[pos[k]]
                                       /\ m[k] # None /\ m[k].dir = "telescope"
             /\ \A k, l \in 1 .. Len(m) : k < l => pos[k] < pos[l]
    BY <2>1, <2>2, MessagesPicked
  <2>4. PICK pos \in [1 .. Len(m) -> 1 .. Len(control)] :
             /\ \A k \in 1 .. Len(m) : /\ m[k] = control[pos[k]]
                                       /\ m[k] # None /\ m[k].dir = "telescope"
             /\ \A k, l \in 1 .. Len(m) : k < l => pos[k] < pos[l]
    BY <2>3
  <2>5. \A k \in 1 .. Len(m) : m[k].session = session
    BY <2>1, <2>4 DEF LinesOnce
  <2>6. Len(m) \in Nat /\ DOMAIN m = 1 .. Len(m) /\ Len(control) \in Nat
    BY <2>1, <2>3
  <2>7. ASSUME NEW k \in 1 .. Len(m), NEW l \in 1 .. Len(m), m[k] = m[l]
        PROVE  k = l
    <3>1. pos[k] \in 1 .. Len(control) /\ pos[l] \in 1 .. Len(control)
      BY <2>4
    <3>2. control[pos[k]] # None /\ control[pos[l]] # None
          /\ control[pos[k]].n = control[pos[l]].n
      BY <2>4, <2>7
    <3>3. pos[k] = pos[l]
      BY <2>1, <3>1, <3>2 DEF LinesOnce
    <3>4. ~(k < l) /\ ~(l < k)
      <4>1. pos[k] \in Int /\ ~(pos[k] < pos[l]) /\ ~(pos[l] < pos[k])
        BY <2>6, <3>1, <3>3
      <4> QED
        BY <2>4, <4>1
    <3> QED
      BY <2>6, <3>4
  <2>8. IsInjective(m)
    BY <2>6, <2>7 DEF IsInjective
  <2> QED
    BY <2>2, <2>4, <2>5, <2>8 DEF ExactControl
<1> QED
  BY <1>1, RecordingInit, RecordingStep, PTL DEF Spec

-----------------------------------------------------------------------------
(* The digits of a number                                                  *)

(* The constants are numbers.                                              *)
LEMMA Widths ==
  /\ Base \in Nat /\ Base > 1 /\ Width \in Nat /\ Width > 0
  /\ MaxFrames \in Nat /\ MaxWidth \in Nat /\ Width <= MaxWidth
BY RecordingAssumption DEF MaxWidth

(* Division by the base.                                                   *)
LEMMA Division ==
  ASSUME NEW x \in Nat
  PROVE  x \div Base \in Nat /\ x % Base \in Nat /\ x % Base < Base
         /\ x = Base * (x \div Base) + (x % Base)
BY Widths

(* A quotient keeps the order, and stays below a bound divided as well.    *)
LEMMA QuotientOrder ==
  ASSUME NEW x \in Nat, NEW y \in Nat
  PROVE  /\ x <= y => x \div Base <= y \div Base
         /\ x < Base * y => x \div Base < y
<1>1. Base \in Nat /\ Base > 1
  BY Widths
<1>2. ASSUME NEW b \in Nat, b > 1, x <= y PROVE x \div b <= y \div b
  BY <1>2
<1>3. ASSUME NEW b \in Nat, b > 1, x < b * y PROVE x \div b < y
  BY <1>3
<1> QED
  BY <1>1, <1>2, <1>3

(* Of numbers with the same quotient the larger has the larger remainder.  *)
LEMMA RemainderOrder ==
  ASSUME NEW x \in Nat, NEW y \in Nat, x < y, x \div Base = y \div Base
  PROVE  x % Base < y % Base
<1>1. PICK q \in Nat : q = x \div Base /\ q = y \div Base
  BY Division
<1>2. PICK p \in Nat : p = Base * q
  BY Widths
<1>3. x = p + (x % Base) /\ y = p + (y % Base) /\ x % Base \in Nat /\ y % Base \in Nat
  BY <1>1, <1>2, Division
<1> QED
  BY <1>2, <1>3

(* The recursion of Shifted has a solution.                                *)
LEMMA ShiftedExists ==
  ASSUME NEW i
  PROVE  \E q : q = [j \in 0 .. MaxWidth |-> IF j = 0 THEN i ELSE q[j - 1] \div Base]
<1> DEFINE One(q, j) == q[j - 1] \div Base
<1> DEFINE Good(n) == \E q : q = [j \in 0 .. n |-> IF j = 0 THEN i ELSE One(q, j)]
<1> DEFINE G == {n \in Nat : Good(n)}
<1>1. MaxWidth \in Nat
  BY Widths
<1>2. Good(0)
  <2> DEFINE f == [j \in 0 .. 0 |-> i]
  <2>1. f = [j \in 0 .. 0 |-> IF j = 0 THEN i ELSE One(f, j)]
    OBVIOUS
  <2> HIDE DEF f
  <2> QED
    BY <2>1
<1>3. ASSUME NEW n \in Nat, Good(n) PROVE Good(n + 1)
  <2>1. PICK g : g = [j \in 0 .. n |-> IF j = 0 THEN i ELSE One(g, j)]
    BY <1>3
  <2> DEFINE f == [j \in 0 .. n + 1 |-> IF j = 0 THEN i ELSE One(g, j)]
  <2>2. ASSUME NEW j \in 0 .. n + 1, j # 0 PROVE f[j - 1] = g[j - 1]
    <3>1. j - 1 \in 0 .. n /\ j - 1 \in 0 .. n + 1
      BY <2>2
    <3> HIDE DEF One
    <3>2. f[j - 1] = IF j - 1 = 0 THEN i ELSE One(g, j - 1)
      BY <3>1
    <3>3. g[j - 1] = IF j - 1 = 0 THEN i ELSE One(g, j - 1)
      BY <2>1, <3>1
    <3> QED
      BY <3>2, <3>3
  <2> HIDE DEF f
  <2>3. \A j \in 0 .. n + 1 : j # 0 => One(f, j) = One(g, j)
    BY <2>2
  <2> HIDE DEF One
  <2>4. f = [j \in 0 .. n + 1 |-> IF j = 0 THEN i ELSE One(f, j)]
    BY <2>3 DEF f
  <2> QED
    BY <2>4
<1> HIDE DEF Good
<1>4. 0 \in G /\ \A n \in 0 .. MaxWidth - 1 : n \in G => n + 1 \in G
  BY <1>1, <1>2, <1>3
<1> HIDE DEF G
<1>5. MaxWidth \in G
  <2>1. \A n \in 0 .. MaxWidth : n \in G
    BY <1>1, <1>4, UpTo
  <2> QED
    BY <1>1, <2>1
<1> QED
  BY <1>5 DEF G, Good

(* Shifted satisfies it: one digit after the other is dropped.             *)
LEMMA Shifts ==
  ASSUME NEW i \in Nat
  PROVE  /\ Shifted(i)[0] = i
         /\ \A j \in 0 .. MaxWidth - 1 : Shifted(i)[j + 1] = Shifted(i)[j] \div Base
         /\ \A j \in 0 .. MaxWidth : Shifted(i)[j] \in Nat
<1> DEFINE f == CHOOSE q : q = [j \in 0 .. MaxWidth |->
                                  IF j = 0 THEN i ELSE q[j - 1] \div Base]
<1>1. \E q : q = [j \in 0 .. MaxWidth |-> IF j = 0 THEN i ELSE q[j - 1] \div Base]
  BY ShiftedExists
<1>2. f = [j \in 0 .. MaxWidth |-> IF j = 0 THEN i ELSE f[j - 1] \div Base]
  BY <1>1, Zenon
<1>3. Shifted(i) = f
  BY Zenon DEF Shifted
<1> HIDE DEF f
<1>4. MaxWidth \in Nat
  BY Widths
<1>5. f[0] = i
  BY <1>2, <1>4
<1>6. ASSUME NEW j \in 0 .. MaxWidth - 1 PROVE f[j + 1] = f[j] \div Base
  <2>1. j + 1 \in 0 .. MaxWidth /\ j + 1 # 0 /\ (j + 1) - 1 = j
    BY <1>4
  <2>2. f[j + 1] = f[(j + 1) - 1] \div Base
    BY <1>2, <2>1
  <2> QED
    BY <2>1, <2>2
<1> DEFINE G == {n \in Nat : f[n] \in Nat}
<1>7. 0 \in G /\ \A n \in 0 .. MaxWidth - 1 : n \in G => n + 1 \in G
  BY <1>4, <1>5, <1>6, Division
<1>8. \A n \in 0 .. MaxWidth : n \in G
  <2> HIDE DEF G
  <2> QED
    BY <1>4, <1>7, UpTo
<1> QED
  BY <1>3, <1>5, <1>6, <1>8

(* The smaller number stays the smaller one.                               *)
LEMMA ShiftedOrder ==
  ASSUME NEW x \in Nat, NEW y \in Nat, x <= y
  PROVE  \A j \in 0 .. MaxWidth : Shifted(x)[j] <= Shifted(y)[j]
<1> DEFINE G == {n \in Nat : Shifted(x)[n] <= Shifted(y)[n]}
<1>1. MaxWidth \in Nat
  BY Widths
<1>2. 0 \in G
  BY Shifts
<1>3. ASSUME NEW n \in 0 .. MaxWidth - 1, n \in G PROVE n + 1 \in G
  <2>1. n \in 0 .. MaxWidth /\ n + 1 \in Nat
    BY <1>1
  <2>2. /\ Shifted(x)[n] \in Nat /\ Shifted(y)[n] \in Nat
        /\ Shifted(x)[n + 1] = Shifted(x)[n] \div Base
        /\ Shifted(y)[n + 1] = Shifted(y)[n] \div Base
    BY <2>1, Shifts
  <2>3. Shifted(x)[n] <= Shifted(y)[n]
    BY <1>3
  <2> QED
    BY <2>1, <2>2, <2>3, QuotientOrder
<1> HIDE DEF G
<1>4. \A n \in 0 .. MaxWidth : n \in G
  BY <1>1, <1>2, <1>3, UpTo
<1> QED
  BY <1>4 DEF G

(* Numbers that agree from some place on agree on all places before it.    *)
LEMMA ShiftedAgree ==
  ASSUME NEW x \in Nat, NEW y \in Nat, NEW m \in 0 .. MaxWidth,
         Shifted(x)[m] = Shifted(y)[m]
  PROVE  \A j \in m .. MaxWidth : Shifted(x)[j] = Shifted(y)[j]
<1> DEFINE G == {n \in Nat : n >= m => Shifted(x)[n] = Shifted(y)[n]}
<1>1. MaxWidth \in Nat /\ m \in Nat
  BY Widths
<1>2. 0 \in G
  BY <1>1
<1>3. ASSUME NEW n \in 0 .. MaxWidth - 1, n \in G PROVE n + 1 \in G
  <2>1. n \in 0 .. MaxWidth /\ n + 1 \in Nat
    BY <1>1
  <2>2. CASE n >= m
    <3>1. Shifted(x)[n] = Shifted(y)[n]
      BY <1>3, <2>2
    <3>2. Shifted(x)[n + 1] = Shifted(y)[n + 1]
      BY <2>1, <3>1, Shifts
    <3> QED
      BY <2>1, <3>2
  <2>3. CASE ~(n >= m)
    <3>1. n + 1 = m \/ ~(n + 1 >= m)
      BY <1>1, <2>1, <2>3
    <3> QED
      BY <2>1, <3>1
  <2> QED
    BY <2>2, <2>3
<1> HIDE DEF G
<1>4. \A n \in 0 .. MaxWidth : n \in G
  BY <1>1, <1>2, <1>3, UpTo
<1> QED
  BY <1>1, <1>4 DEF G

(* The recursion of Power has a solution.                                  *)
LEMMA PowerExists ==
  \E q : q = [n \in 0 .. Width |-> IF n = 0 THEN 1 ELSE Base * q[n - 1]]
<1> DEFINE One(q, j) == Base * q[j - 1]
<1> DEFINE Good(n) == \E q : q = [j \in 0 .. n |-> IF j = 0 THEN 1 ELSE One(q, j)]
<1> DEFINE G == {n \in Nat : Good(n)}
<1>1. Width \in Nat
  BY Widths
<1>2. Good(0)
  <2> DEFINE f == [j \in 0 .. 0 |-> 1]
  <2>1. f = [j \in 0 .. 0 |-> IF j = 0 THEN 1 ELSE One(f, j)]
    OBVIOUS
  <2> HIDE DEF f
  <2> QED
    BY <2>1
<1>3. ASSUME NEW n \in Nat, Good(n) PROVE Good(n + 1)
  <2>1. PICK g : g = [j \in 0 .. n |-> IF j = 0 THEN 1 ELSE One(g, j)]
    BY <1>3
  <2> DEFINE f == [j \in 0 .. n + 1 |-> IF j = 0 THEN 1 ELSE One(g, j)]
  <2>2. ASSUME NEW j \in 0 .. n + 1, j # 0 PROVE f[j - 1] = g[j - 1]
    <3>1. j - 1 \in 0 .. n /\ j - 1 \in 0 .. n + 1
      BY <2>2
    <3> HIDE DEF One
    <3>2. f[j - 1] = IF j - 1 = 0 THEN 1 ELSE One(g, j - 1)
      BY <3>1
    <3>3. g[j - 1] = IF j - 1 = 0 THEN 1 ELSE One(g, j - 1)
      BY <2>1, <3>1
    <3> QED
      BY <3>2, <3>3
  <2> HIDE DEF f
  <2>3. \A j \in 0 .. n + 1 : j # 0 => One(f, j) = One(g, j)
    BY <2>2
  <2> HIDE DEF One
  <2>4. f = [j \in 0 .. n + 1 |-> IF j = 0 THEN 1 ELSE One(f, j)]
    BY <2>3 DEF f
  <2> QED
    BY <2>4
<1> HIDE DEF Good
<1>4. 0 \in G /\ \A n \in 0 .. Width - 1 : n \in G => n + 1 \in G
  BY <1>1, <1>2, <1>3
<1> HIDE DEF G
<1>5. Width \in G
  <2>1. \A n \in 0 .. Width : n \in G
    BY <1>1, <1>4, UpTo
  <2> QED
    BY <1>1, <2>1
<1> QED
  BY <1>5 DEF G, Good

(* Powers of the base.                                                     *)
LEMMA Powers ==
  /\ Power[0] = 1
  /\ \A n \in 0 .. Width - 1 : Power[n + 1] = Base * Power[n]
  /\ \A n \in 0 .. Width : Power[n] \in Nat
<1>1. \E q : q = [n \in 0 .. Width |-> IF n = 0 THEN 1 ELSE Base * q[n - 1]]
  BY PowerExists
<1>2. Power = [n \in 0 .. Width |-> IF n = 0 THEN 1 ELSE Base * Power[n - 1]]
  BY <1>1, Zenon DEF Power
<1>3. Width \in Nat /\ Base \in Nat
  BY Widths
<1>4. Power[0] = 1
  BY <1>2, <1>3
<1>5. ASSUME NEW j \in 0 .. Width - 1 PROVE Power[j + 1] = Base * Power[j]
  <2>1. j + 1 \in 0 .. Width /\ j + 1 # 0 /\ (j + 1) - 1 = j
    BY <1>3
  <2>2. Power[j + 1] = Base * Power[(j + 1) - 1]
    BY <1>2, <2>1
  <2> QED
    BY <2>1, <2>2
<1> DEFINE G == {n \in Nat : Power[n] \in Nat}
<1>6. 0 \in G /\ \A n \in 0 .. Width - 1 : n \in G => n + 1 \in G
  BY <1>3, <1>4, <1>5
<1>7. \A n \in 0 .. Width : n \in G
  <2> HIDE DEF G
  <2> QED
    BY <1>3, <1>6, UpTo
<1> QED
  BY <1>4, <1>5, <1>7

(* A number below Base^Width has no more than Width digits.                *)
LEMMA ShortNumbers ==
  ASSUME NEW x \in Nat, x < Power[Width]
  PROVE  Shifted(x)[Width] = 0
<1> DEFINE G == {n \in Nat : Shifted(x)[n] < Power[Width - n]}
<1>1. MaxWidth \in Nat /\ Width \in Nat /\ Width <= MaxWidth
  BY Widths
<1>2. 0 \in G
  <2>1. Width - 0 = Width
    BY <1>1
  <2> QED
    BY <2>1, Shifts
<1>3. ASSUME NEW n \in 0 .. Width - 1, n \in G PROVE n + 1 \in G
  <2>1. /\ n \in 0 .. MaxWidth /\ n \in 0 .. MaxWidth - 1 /\ n + 1 \in Nat
        /\ Width - (n + 1) \in 0 .. Width - 1 /\ (Width - (n + 1)) + 1 = Width - n
        /\ Width - (n + 1) \in 0 .. Width
    BY <1>1
  <2>2. /\ Shifted(x)[n] \in Nat /\ Shifted(x)[n + 1] = Shifted(x)[n] \div Base
    BY <2>1, Shifts
  <2>3. /\ Power[Width - (n + 1)] \in Nat
        /\ Power[Width - n] = Base * Power[Width - (n + 1)]
    <3>1. /\ Power[Width - (n + 1)] \in Nat
          /\ Power[(Width - (n + 1)) + 1] = Base * Power[Width - (n + 1)]
      BY <2>1, Powers
    <3> QED
      BY <2>1, <3>1
  <2>4. Shifted(x)[n] < Power[Width - n]
    BY <1>3
  <2> QED
    BY <2>1, <2>2, <2>3, <2>4, QuotientOrder
<1> HIDE DEF G
<1>4. \A n \in 0 .. Width : n \in G
  BY <1>1, <1>2, <1>3, UpTo
<1>5. Width \in 0 .. Width /\ Width - Width = 0 /\ Width \in 0 .. MaxWidth
  BY <1>1
<1>6. Shifted(x)[Width] < Power[0]
  BY <1>4, <1>5 DEF G
<1>7. Shifted(x)[Width] \in Nat /\ Power[0] = 1
  BY <1>5, Shifts, Powers
<1> QED
  BY <1>6, <1>7

(* Such a number is written with exactly Width digits.                     *)
LEMMA FixedWidth ==
  ASSUME NEW x \in Nat, Shifted(x)[Width] = 0
  PROVE  DigitCount(x) = Width
<1>1. MaxWidth \in Nat /\ Width \in Nat /\ Width <= MaxWidth /\ Base \in Nat /\ Base > 1
  BY Widths
<1> DEFINE G == {n \in Nat : n >= Width => Shifted(x)[n] = 0}
<1>2. 0 \in G
  BY <1>1
<1>3. ASSUME NEW n \in 0 .. MaxWidth - 1, n \in G PROVE n + 1 \in G
  <2>1. n \in 0 .. MaxWidth /\ n + 1 \in Nat
    BY <1>1
  <2>2. CASE n >= Width
    <3>1. Shifted(x)[n] = 0
      BY <1>3, <2>2
    <3>2. 0 \div Base = 0
      BY <1>1
    <3>3. Shifted(x)[n + 1] = 0
      BY <3>1, <3>2, Shifts
    <3> QED
      BY <2>1, <3>3
  <2>3. CASE ~(n >= Width)
    <3>1. n + 1 = Width \/ ~(n + 1 >= Width)
      BY <1>1, <2>1, <2>3
    <3> QED
      BY <2>1, <3>1
  <2> QED
    BY <2>2, <2>3
<1> HIDE DEF G
<1>4. \A n \in 0 .. MaxWidth : n \in G
  BY <1>1, <1>2, <1>3, UpTo
<1>5. Width \in Width .. MaxWidth
  BY <1>1
<1>6. ASSUME NEW n \in Width .. MaxWidth, n # Width PROVE Shifted(x)[n - 1] = 0
  <2>1. n - 1 \in 0 .. MaxWidth /\ n - 1 >= Width
    BY <1>1, <1>6
  <2> QED
    BY <1>4, <2>1 DEF G
<1> DEFINE P(n) == Shifted(x)[n] = 0 /\ (n = Width \/ Shifted(x)[n - 1] # 0)
<1>7. P(Width) /\ \A n \in Width .. MaxWidth : P(n) => n = Width
  BY <1>6
<1>8. DigitCount(x) = CHOOSE n \in Width .. MaxWidth : P(n)
  BY Zenon DEF DigitCount
<1> HIDE DEF P
<1>9. (CHOOSE n \in Width .. MaxWidth : P(n)) \in Width .. MaxWidth
      /\ P(CHOOSE n \in Width .. MaxWidth : P(n))
  BY <1>5, <1>7, Zenon
<1> QED
  BY <1>7, <1>8, <1>9, Zenon

-----------------------------------------------------------------------------
(* The order of file names                                                 *)

(* One sequence after another.                                             *)
LEMMA Concatenated ==
  ASSUME NEW S, NEW s \in Seq(S), NEW t \in Seq(S)
  PROVE  /\ s \o t \in Seq(S) /\ Len(s \o t) = Len(s) + Len(t) /\ Len(s) \in Nat
         /\ \A i \in 1 .. Len(s) : (s \o t)[i] = s[i]
OBVIOUS

(* What is compared of a name whose number has Width digits.               *)
LEMMA NameBytes ==
  ASSUME NEW nm \in Names, Shifted(nm.idx)[Width] = 0
  PROVE  /\ Bytes(nm) \in Seq(Int) /\ Len(Bytes(nm)) = Width + 2
         /\ \A k \in 1 .. Width : Bytes(nm)[k] = Shifted(nm.idx)[Width - k] % Base
<1>1. MaxWidth \in Nat /\ Width \in Nat /\ Width <= MaxWidth /\ Base \in Nat
  BY Widths
<1>2. nm.idx \in Nat
  BY Widths DEF Names
<1>3. DigitCount(nm.idx) = Width
  BY <1>2, FixedWidth
<1> DEFINE d == [k \in 1 .. Width |-> Shifted(nm.idx)[Width - k] % Base]
           e == <<Base, IF nm.kind = "preview" THEN 0 ELSE 1>>
<1>4. Bytes(nm) = d \o e
  BY <1>3 DEF Bytes
<1>5. ASSUME NEW k \in 1 .. Width PROVE Shifted(nm.idx)[Width - k] % Base \in Int
  <2>1. Width - k \in 0 .. MaxWidth
    BY <1>1
  <2>2. Shifted(nm.idx)[Width - k] \in Nat
    BY <1>2, <2>1, Shifts
  <2> QED
    BY <2>2, Division
<1>6. d \in Seq(Int) /\ Len(d) = Width
  BY <1>1, <1>5
<1>7. \A k \in 1 .. Width : d[k] = Shifted(nm.idx)[Width - k] % Base
  OBVIOUS
<1>8. e \in Seq(Int) /\ Len(e) = 2
  BY <1>1
<1> HIDE DEF d, e
<1>9. /\ d \o e \in Seq(Int) /\ Len(d \o e) = Width + 2
      /\ \A k \in 1 .. Width : (d \o e)[k] = d[k]
  <2>1. /\ d \o e \in Seq(Int) /\ Len(d \o e) = Len(d) + Len(e)
        /\ \A k \in 1 .. Len(d) : (d \o e)[k] = d[k]
    BY <1>6, <1>8, Concatenated
  <2> QED
    BY <1>6, <1>8, <2>1
<1> QED
  BY <1>4, <1>7, <1>9

(* Of two names with numbers of Width digits, the one with the smaller     *)
(* number sorts first: they agree on the digits before the last place      *)
(* where the numbers, cut off there, differ.                               *)
LEMMA NumbersSort ==
  ASSUME NEW a \in Names, NEW b \in Names,
         Shifted(a.idx)[Width] = 0, Shifted(b.idx)[Width] = 0, a.idx < b.idx
  PROVE  Before(a, b)
<1>1. MaxWidth \in Nat /\ Width \in Nat /\ Width <= MaxWidth
  BY Widths
<1>2. a.idx \in Nat /\ b.idx \in Nat
  BY Widths DEF Names
<1>3. PICK x \in Nat, y \in Nat : x = a.idx /\ y = b.idx
  BY <1>2
<1> DEFINE T == {m \in 0 .. MaxWidth : Shifted(x)[m] = Shifted(y)[m]}
<1>4. Width \in T /\ T \in SUBSET Nat
  BY <1>1, <1>3
<1>5. PICK m \in T : \A k \in T : m <= k
  <2> HIDE DEF T
  <2> QED
    BY <1>4, Least
<1>6. m \in 0 .. MaxWidth /\ Shifted(x)[m] = Shifted(y)[m] /\ m <= Width
  BY <1>4, <1>5
<1>7. m # 0
  BY <1>3, <1>6, Shifts
<1>8. /\ m - 1 \in 0 .. MaxWidth - 1 /\ m - 1 \in 0 .. MaxWidth /\ (m - 1) + 1 = m
      /\ ~(m <= m - 1)
  BY <1>1, <1>6, <1>7
<1>9. Shifted(x)[m - 1] # Shifted(y)[m - 1]
  <2>1. m - 1 \notin T
    BY <1>5, <1>8
  <2> QED
    BY <1>8, <2>1
<1> HIDE DEF T
<1>10. PICK u \in Nat, v \in Nat : u = Shifted(x)[m - 1] /\ v = Shifted(y)[m - 1]
  BY <1>8, Shifts
<1>11. u < v
  <2>1. x <= y
    BY <1>3
  <2>2. u <= v
    BY <1>8, <1>10, <2>1, ShiftedOrder
  <2> QED
    BY <1>9, <1>10, <2>2
<1>12. u \div Base = v \div Base
  <2>1. /\ Shifted(x)[(m - 1) + 1] = Shifted(x)[m - 1] \div Base
        /\ Shifted(y)[(m - 1) + 1] = Shifted(y)[m - 1] \div Base
    BY <1>8, Shifts
  <2> QED
    BY <1>6, <1>8, <1>10, <2>1
<1>13. u % Base < v % Base
  BY <1>11, <1>12, RemainderOrder
<1> DEFINE k == Width - (m - 1)
<1>14. k \in 1 .. Width /\ Width - k = m - 1
  BY <1>1, <1>6, <1>8
<1>15. PICK s, t : s = Bytes(a) /\ t = Bytes(b)
  OBVIOUS
<1>16. /\ Len(s) = Width + 2 /\ Len(t) = Width + 2
       /\ \A i \in 1 .. Width : /\ s[i] = Shifted(x)[Width - i] % Base
                                /\ t[i] = Shifted(y)[Width - i] % Base
  BY <1>3, <1>15, NameBytes
<1>17. k \in 1 .. Len(s) /\ k <= Len(t)
  <2> HIDE DEF k
  <2> QED
    BY <1>1, <1>14, <1>16
<1>18. s[k] < t[k]
  <2> HIDE DEF k
  <2>1. s[k] = u % Base /\ t[k] = v % Base
    BY <1>10, <1>14, <1>16
  <2> QED
    BY <1>13, <2>1
<1>19. ASSUME NEW j \in 1 .. (k - 1) PROVE s[j] = t[j]
  <2>1. j \in 1 .. Width /\ Width - j \in m .. MaxWidth
    BY <1>1, <1>6, <1>14
  <2>2. Shifted(x)[Width - j] = Shifted(y)[Width - j]
    BY <1>6, <2>1, ShiftedAgree
  <2> QED
    BY <1>16, <2>1, <2>2
<1> HIDE DEF k
<1> QED
  BY <1>15, <1>17, <1>18, <1>19 DEF Before

(* Names sort one way only.                                                *)
LEMMA SortOneWay ==
  ASSUME NEW a \in Names, NEW b \in Names,
         Shifted(a.idx)[Width] = 0, Shifted(b.idx)[Width] = 0,
         Before(a, b), Before(b, a)
  PROVE  FALSE
<1>1. PICK s, t : s = Bytes(a) /\ t = Bytes(b)
  OBVIOUS
<1>2. s \in Seq(Int) /\ t \in Seq(Int)
  BY <1>1, NameBytes
<1>3. PICK i \in 1 .. Len(s) : /\ i <= Len(t) /\ s[i] < t[i]
                               /\ \A j \in 1 .. (i - 1) : s[j] = t[j]
  BY <1>1 DEF Before
<1>4. PICK k \in 1 .. Len(t) : /\ k <= Len(s) /\ t[k] < s[k]
                               /\ \A j \in 1 .. (k - 1) : t[j] = s[j]
  BY <1>1 DEF Before
<1>5. Len(s) \in Nat /\ Len(t) \in Nat
  BY <1>2
<1>6. i \in 1 .. Len(t) /\ k \in 1 .. Len(s) /\ i \in Int /\ k \in Int
  BY <1>3, <1>4, <1>5
<1>7. s[i] \in Int /\ t[i] \in Int /\ s[k] \in Int /\ t[k] \in Int
  BY <1>2, <1>6
<1>8. CASE i = k
  BY <1>3, <1>4, <1>7, <1>8
<1>9. CASE i < k
  <2>1. i \in 1 .. (k - 1)
    BY <1>5, <1>9
  <2>2. t[i] = s[i]
    BY <1>4, <2>1
  <2> QED
    BY <1>3, <1>7, <2>2
<1>10. CASE k < i
  <2>1. k \in 1 .. (i - 1)
    BY <1>5, <1>10
  <2>2. s[k] = t[k]
    BY <1>3, <2>1
  <2> QED
    BY <1>4, <1>7, <2>2
<1> QED
  BY <1>6, <1>8, <1>9, <1>10

(* An increasing numbering never falls behind.                             *)
LEMMA NotBehind ==
  ASSUME NEW N \in Nat, NEW h \in [1 .. N -> Int],
         \A i \in 1 .. N : h[i] >= 0,
         \A i, j \in 1 .. N : i < j => h[i] < h[j]
  PROVE  \A i \in 1 .. N : h[i] >= i - 1
<1> DEFINE G == {n \in Nat : n \in 1 .. N => h[n] >= n - 1}
<1>1. 0 \in G
  OBVIOUS
<1>2. ASSUME NEW n \in 0 .. N - 1, n \in G PROVE n + 1 \in G
  <2>1. n \in Nat /\ n + 1 \in 1 .. N /\ h[n + 1] \in Int
    OBVIOUS
  <2>2. CASE n = 0
    <3>1. h[n + 1] >= 0
      BY <2>1
    <3> QED
      BY <2>1, <2>2, <3>1
  <2>3. CASE n # 0
    <3>1. n \in 1 .. N /\ n < n + 1 /\ h[n] \in Int
      BY <2>1, <2>3
    <3>2. h[n] < h[n + 1] /\ h[n] >= n - 1
      BY <1>2, <2>1, <3>1
    <3> QED
      BY <2>1, <3>1, <3>2
  <2> QED
    BY <2>2, <2>3
<1> HIDE DEF G
<1>3. \A n \in 0 .. N : n \in G
  BY <1>1, <1>2, UpTo
<1> QED
  BY <1>3 DEF G

(* An increasing numbering of N things with numbers below N is the only    *)
(* one.                                                                    *)
LEMMA OnlyNumbering ==
  ASSUME NEW N \in Nat, NEW h \in [1 .. N -> 0 .. N - 1],
         \A i, j \in 1 .. N : i < j => h[i] < h[j]
  PROVE  \A i \in 1 .. N : h[i] = i - 1
<1>1. \A i \in 1 .. N : h[i] \in Int /\ h[i] >= 0 /\ h[i] <= N - 1
  OBVIOUS
<1>2. \A i \in 1 .. N : h[i] >= i - 1
  <2>1. h \in [1 .. N -> Int]
    OBVIOUS
  <2> QED
    BY <1>1, <2>1, NotBehind
<1> DEFINE g == [i \in 1 .. N |-> (N - 1) - h[(N + 1) - i]]
<1>3. \A i \in 1 .. N : (N + 1) - i \in 1 .. N /\ (N + 1) - ((N + 1) - i) = i
  OBVIOUS
<1>4. \A i \in 1 .. N : g[i] = (N - 1) - h[(N + 1) - i] /\ g[i] \in Int /\ g[i] >= 0
  BY <1>1, <1>3
<1>5. ASSUME NEW i \in 1 .. N, NEW j \in 1 .. N, i < j PROVE g[i] < g[j]
  <2>1. (N + 1) - j < (N + 1) - i
    BY <1>5
  <2>2. h[(N + 1) - j] < h[(N + 1) - i]
    BY <1>3, <2>1
  <2> QED
    BY <1>1, <1>3, <1>4, <2>2
<1>6. \A i \in 1 .. N : g[i] >= i - 1
  <2>1. g \in [1 .. N -> Int]
    BY <1>4
  <2> HIDE DEF g
  <2> QED
    BY <1>4, <1>5, <2>1, NotBehind
<1>7. ASSUME NEW i \in 1 .. N PROVE h[i] <= i - 1
  <2>1. PICK k \in 1 .. N : k = (N + 1) - i /\ (N + 1) - k = i
    BY <1>3
  <2>2. g[k] = (N - 1) - h[i] /\ g[k] >= k - 1
    BY <1>4, <1>6, <2>1
  <2> QED
    BY <1>1, <2>1, <2>2
<1> QED
  BY <1>1, <1>2, <1>7

-----------------------------------------------------------------------------
(* What replay plays back of the frames                                    *)

(* The files of a directory used once whose recording lost nothing: they   *)
(* are numbered from 0 on without a gap, each holds the frame of its       *)
(* number, and as long as the numbers fit they sort in that order.         *)
Complete(N) ==
  /\ N \in Nat /\ Len(received) = N /\ received \in Seq(Frames)
  /\ DOMAIN frames \subseteq Names
  /\ \A nm \in DOMAIN frames :
       /\ nm.idx \in 0 .. N - 1 /\ frames[nm] = received[nm.idx + 1]
       /\ Shifted(nm.idx)[Width] = 0
  /\ \A a, b \in DOMAIN frames : a.idx = b.idx => a = b
  /\ \A i \in 1 .. N : \E nm \in DOMAIN frames : nm.idx = i - 1

(* That is what a lossless first recording leaves behind.                  *)
LEMMA FilesComplete ==
  ASSUME RecordingInv, CanLoad, lossless, session = 1, Len(received) <= Power[Width]
  PROVE  Complete(Len(received))
<1> DEFINE D == DOMAIN frames
<1>1. /\ FrameTypes /\ FilesNumbered /\ OneFileEach /\ NoFrameOverwritten
      /\ phase = "off" /\ D \subseteq Names /\ frames \in [D -> Frames]
      /\ received \in Seq(Frames) /\ Len(received) \in Nat
      /\ Len(received) = frame_counter
  BY DEF RecordingInv, FrameInv, FrameTypes, FilesNumbered, CanLoad
<1>2. ASSUME NEW f \in Frames PROVE f.session \in Nat \ {0} /\ f = [session |-> f.session, n |-> f.n]
  BY RecordingAssumption DEF Frames, Sessions
<1>3. ASSUME NEW nm \in D
      PROVE  /\ frames[nm].session = session /\ frames[nm] = [session |-> session, n |-> nm.idx]
             /\ nm.idx \in Nat /\ nm.idx \in 0 .. Len(received) - 1
  <2>1. frames[nm] \in Frames /\ frames[nm].session <= session
    BY <1>1 DEF FilesNumbered
  <2>2. frames[nm].session = session
    <3>1. frames[nm].session \in Nat \ {0}
      BY <1>2, <2>1
    <3> QED
      BY <2>1, <3>1
  <2>3. frames[nm].n = nm.idx /\ nm.idx < frame_counter
    BY <1>1, <2>2 DEF FilesNumbered, OneFileEach
  <2>4. nm.idx \in Nat
    BY <1>1, Widths DEF Names
  <2>5. frames[nm] = [session |-> session, n |-> nm.idx]
    BY <1>2, <2>1, <2>2, <2>3
  <2>6. nm.idx \in 0 .. Len(received) - 1
    BY <1>1, <2>3, <2>4
  <2> QED
    BY <2>2, <2>4, <2>5, <2>6
<1>4. \A i \in 1 .. Len(received) : received[i] = [session |-> session, n |-> i - 1]
  BY <1>1 DEF FilesNumbered
<1>5. ASSUME NEW nm \in D PROVE frames[nm] = received[nm.idx + 1]
  <2>1. nm.idx + 1 \in 1 .. Len(received) /\ (nm.idx + 1) - 1 = nm.idx
    BY <1>1, <1>3
  <2>2. received[nm.idx + 1] = [session |-> session, n |-> (nm.idx + 1) - 1]
    BY <1>4, <2>1
  <2> QED
    BY <1>3, <2>1, <2>2
<1>6. ASSUME NEW nm \in D PROVE Shifted(nm.idx)[Width] = 0
  <2>1. nm.idx \in Nat /\ nm.idx \in 0 .. Len(received) - 1
    BY <1>3
  <2>2. Power[Width] \in Nat
    BY Powers, Widths
  <2>3. nm.idx < Power[Width]
    BY <1>1, <2>1, <2>2
  <2> QED
    BY <2>1, <2>3, ShortNumbers
<1>7. ASSUME NEW a \in D, NEW b \in D, a.idx = b.idx PROVE a = b
  BY <1>1, <1>3, <1>7 DEF OneFileEach
<1>8. ASSUME NEW i \in 1 .. Len(received) PROVE \E nm \in D : nm.idx = i - 1
  <2>1. \A e \in Readers : frame_held[e] = None
    BY <1>1 DEF FrameTypes
  <2>2. PICK nm \in D : frames[nm] = received[i]
    BY <1>1, <2>1 DEF NoFrameOverwritten
  <2>3. [session |-> session, n |-> nm.idx] = [session |-> session, n |-> i - 1]
    BY <1>3, <1>4, <2>2
  <2>4. nm.idx = i - 1
    BY <2>3
  <2> QED
    BY <2>4
<1> QED
  BY <1>1, <1>3, <1>5, <1>6, <1>7, <1>8 DEF Complete

(* In such a directory names sort as their numbers do.                     *)
LEMMA SortsByNumber ==
  ASSUME NEW N, Complete(N), NEW a \in DOMAIN frames, NEW b \in DOMAIN frames
  PROVE  Before(a, b) <=> a.idx < b.idx
<1>1. /\ a \in Names /\ b \in Names /\ Shifted(a.idx)[Width] = 0 /\ N \in Nat
      /\ Shifted(b.idx)[Width] = 0 /\ a.idx \in 0 .. N - 1 /\ b.idx \in 0 .. N - 1
  BY DEF Complete
<1>2. a.idx \in Int /\ b.idx \in Int
  BY <1>1
<1>3. a.idx < b.idx => Before(a, b)
  BY <1>1, NumbersSort
<1>4. ASSUME Before(a, b), ~(a.idx < b.idx) PROVE FALSE
  <2>1. CASE b.idx < a.idx
    <3>1. Before(b, a)
      BY <1>1, <2>1, NumbersSort
    <3> QED
      BY <1>1, <1>4, <3>1, SortOneWay
  <2>2. CASE a.idx = b.idx
    <3>1. a = b
      BY <2>2 DEF Complete
    <3>2. Before(b, a)
      BY <1>4, <3>1
    <3> QED
      BY <1>1, <1>4, <3>2, SortOneWay
  <2> QED
    BY <1>2, <1>4, <2>1, <2>2
<1> QED
  BY <1>3, <1>4

(* The files in the order of their names are the files in the order of     *)
(* their numbers.                                                          *)
LEMMA PathsByNumber ==
  ASSUME NEW N, Complete(N)
  PROVE  /\ frame_paths \in [1 .. N -> DOMAIN frames]
         /\ \A i \in 1 .. N : frame_paths[i].idx = i - 1
<1> DEFINE D == DOMAIN frames
           r == [i \in 1 .. N |-> CHOOSE nm \in D : nm.idx = i - 1]
<1>1. N \in Nat /\ \A nm \in D : nm.idx \in 0 .. N - 1
  BY DEF Complete
<1>2. ASSUME NEW i \in 1 .. N PROVE r[i] \in D /\ r[i].idx = i - 1
  <2>1. \E nm \in D : nm.idx = i - 1
    BY DEF Complete
  <2>2. r[i] = CHOOSE nm \in D : nm.idx = i - 1
    OBVIOUS
  <2> HIDE DEF r
  <2> QED
    BY <2>1, <2>2
<1>3. r \in [1 .. N -> D]
  <2>1. DOMAIN r = 1 .. N /\ r = [i \in 1 .. N |-> r[i]]
    OBVIOUS
  <2> HIDE DEF r
  <2> QED
    BY <1>2, <2>1
<1> HIDE DEF r
<1>4. ASSUME NEW nm \in D PROVE \E i \in 1 .. N : r[i] = nm
  <2>1. nm.idx + 1 \in 1 .. N /\ (nm.idx + 1) - 1 = nm.idx
    BY <1>1
  <2>2. r[nm.idx + 1] \in D /\ r[nm.idx + 1].idx = nm.idx
    BY <1>2, <2>1
  <2>3. r[nm.idx + 1] = nm
    BY <2>2 DEF Complete
  <2> QED
    BY <2>1, <2>3
<1>5. Cardinality(D) = N
  <2>1. \A i, j \in 1 .. N : r[i] = r[j] => i = j
    BY <1>1, <1>2
  <2>2. r \in Bijection(1 .. N, D)
    BY <1>3, <1>4, <2>1 DEF Bijection, Injection, Surjection, IsInjective
  <2>3. ExistsBijection(1 .. N, D)
    BY <2>2 DEF ExistsBijection
  <2> QED
    BY <1>1, <2>3, FS_CountingElements
<1> DEFINE Sorted(s) == \A i, j \in DOMAIN s : i < j => Before(s[i], s[j])
<1>6. Sorted(r)
  <2>1. DOMAIN r = 1 .. N
    BY <1>3
  <2>2. ASSUME NEW i \in 1 .. N, NEW j \in 1 .. N, i < j PROVE Before(r[i], r[j])
    <3>1. r[i] \in D /\ r[j] \in D /\ r[i].idx < r[j].idx
      BY <1>1, <1>2, <2>2
    <3> QED
      BY <3>1, SortsByNumber
  <2> QED
    BY <2>1, <2>2
<1>7. frame_paths = CHOOSE s \in [1 .. N -> D] : Sorted(s)
  BY <1>5 DEF frame_paths
<1> HIDE DEF Sorted
<1>8. frame_paths \in [1 .. N -> D] /\ Sorted(frame_paths)
  BY <1>3, <1>6, <1>7, Zenon
<1>9. PICK p \in [1 .. N -> D] : p = frame_paths
  BY <1>8
<1> DEFINE h == [i \in 1 .. N |-> p[i].idx]
<1>10. \A i \in 1 .. N : p[i] \in D /\ p[i].idx \in 0 .. N - 1
  BY <1>1, <1>9
<1>11. h \in [1 .. N -> 0 .. N - 1] /\ \A i \in 1 .. N : h[i] = p[i].idx
  BY <1>10
<1>12. ASSUME NEW i \in 1 .. N, NEW j \in 1 .. N, i < j PROVE h[i] < h[j]
  <2>1. DOMAIN p = 1 .. N /\ Sorted(p)
    BY <1>8, <1>9
  <2>2. Before(p[i], p[j])
    BY <1>12, <2>1 DEF Sorted
  <2>3. p[i].idx < p[j].idx
    BY <1>10, <2>2, SortsByNumber
  <2> QED
    BY <1>11, <2>3
<1> HIDE DEF h
<1>13. \A i \in 1 .. N : h[i] = i - 1
  BY <1>1, <1>11, <1>12, OnlyNumbering
<1> QED
  BY <1>9, <1>11, <1>13

(* Replay sends what the telescope sent, frame by frame and in order,      *)
(* whenever every frame of the session reached its file, whatever readers  *)
(* overlapped: for the first recording made into a directory and for up to *)
(* Base^Width frames (record_frame, load and replay_imaging).              *)
THEOREM FramesExact == Spec => []ExactFrames
<1>1. RecordingInv => ExactFrames
  <2> SUFFICES ASSUME RecordingInv, CanLoad, lossless, session = 1,
                      Len(received) <= Power[Width]
               PROVE  replay_imaging = received
    BY DEF ExactFrames
  <2>1. PICK N : N = Len(received) /\ Complete(N)
    BY FilesComplete
  <2>2. N \in Nat /\ received \in Seq(Frames)
    BY <2>1 DEF Complete
  <2>3. /\ frame_paths \in [1 .. N -> DOMAIN frames]
        /\ \A i \in 1 .. N : frame_paths[i].idx = i - 1
    BY <2>1, PathsByNumber
  <2>4. Len(frame_paths) = N
    <3>1. frame_paths \in Seq(DOMAIN frames) /\ DOMAIN frame_paths = 1 .. N
      BY <2>2, <2>3
    <3> QED
      BY <2>2, <3>1
  <2>5. ASSUME NEW i \in 1 .. N PROVE frames[frame_paths[i]] = received[i]
    <3>1. frame_paths[i] \in DOMAIN frames /\ (frame_paths[i]).idx = i - 1
      BY <2>3
    <3>2. frames[frame_paths[i]] = received[(frame_paths[i]).idx + 1]
      BY <2>1, <3>1 DEF Complete
    <3>3. (i - 1) + 1 = i
      BY <2>2
    <3> QED
      BY <3>1, <3>2, <3>3
  <2>6. received = [i \in 1 .. N |-> received[i]]
    BY <2>1, <2>2
  <2>7. replay_imaging = [i \in 1 .. N |-> frames[frame_paths[i]]]
    BY <2>4 DEF replay_imaging
  <2> QED
    BY <2>5, <2>6, <2>7
<1> QED
  BY <1>1, RecordingInit, RecordingStep, PTL DEF Spec
=============================================================================
