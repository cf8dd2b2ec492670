-------------------------- MODULE SessionRecording --------------------------
(***************************************************************************)
(* Recording a session to a directory (src/src/recorder.rs) and loading it *)
(* for replay (src/src/replay.rs).                                         *)
(*                                                                         *)
(* The tasks of the control proxy append lines to control.jsonl, the       *)
(* readers of the imaging proxy write one file per image; a frame takes    *)
(* its number before it is written, and nothing orders the writes.  The    *)
(* manifest is written at a graceful shutdown.  The directory outlives the *)
(* process, and another recording may be made into it.                     *)
(*                                                                         *)
(* A line or a frame is identified by its session and its place in it.     *)
(***************************************************************************)
EXTENDS Integers, Sequences, FiniteSets, SequencesExt, Picking

CONSTANTS
  Readers,      \* imaging reader tasks (an old one may overlap the new one)
  Talkers,      \* tasks that record control lines
  Base, Width,  \* file names hold the frame's number as Width or more digits
                \* (base 10, four digits, in the code)
  MaxFrames,    \* bound: image frames in a session
  MaxLines,     \* bound: control lines in a session
  MaxSessions,  \* bound: recordings made into the directory
  None          \* null value

ASSUME RecordingAssumption ==
  /\ Base \in Nat \ {0, 1} /\ Width \in Nat \ {0}
  /\ MaxFrames \in Nat /\ MaxLines \in Nat /\ MaxSessions \in Nat \ {0}

VARIABLES
  (* The directory *)
  frames,         \* frames/: file name -> the frame written to it
  control,        \* control.jsonl: its lines, None for an unreadable one
  torn,           \* its last line has no newline yet
  manifest,       \* manifest.json, or None
  (* The process *)
  phase,          \* "off", "recording" or "finalized"
  session,        \* which recording this is
  frame_counter, message_count,
  frame_held,     \* per reader, the file it is about to write
  line_held,      \* per task, the line it is about to append
  (* History *)
  received,       \* the session's image frames in the order they came
  lossless        \* every frame of the session is in its file

disk    == <<frames, control, torn, manifest>>
process == <<phase, session, frame_counter, message_count, frame_held,
             line_held>>
vars    == <<disk, process, received, lossless>>

Kinds      == {"preview", "stack"}
Directions == {"client", "telescope"}
Sessions   == 1 .. MaxSessions
Frames     == [session : Sessions, n : 0 .. (MaxFrames - 1)]
Names      == [idx : 0 .. (MaxFrames - 1), kind : Kinds]
Files      == [name : Names, frame : Frames]
Lines      == [session : Sessions, dir : Directions, n : 0 .. (MaxLines - 1)]

ASSUME NoneAssumption == None \notin Files \cup Lines

(* Every variable keeps its type.                                          *)
TypeOK ==
  /\ DOMAIN frames \subseteq Names
  /\ frames \in [DOMAIN frames -> Frames]
  /\ control \in Seq(Lines \cup {None}) /\ torn \in BOOLEAN
  /\ manifest \in [session : Sessions, frame_count : Nat] \cup {None}
  /\ phase \in {"off", "recording", "finalized"}
  /\ session \in 0 .. MaxSessions
  /\ frame_counter \in 0 .. MaxFrames
  /\ message_count \in 0 .. MaxLines
  /\ frame_held \in [Readers -> Files \cup {None}]
  /\ line_held \in [Talkers -> Lines \cup {None}]
  /\ received \in Seq(Frames)
  /\ lossless \in BOOLEAN

Init ==
  /\ frames = [f \in {} |-> None]
  /\ control = <<>> /\ torn = FALSE
  /\ manifest = None
  /\ phase = "off"
  /\ session = 0
  /\ frame_counter = 0
  /\ message_count = 0
  /\ frame_held = [e \in Readers |-> None]
  /\ line_held = [t \in Talkers |-> None]
  /\ received = <<>>
  /\ lossless = TRUE

-----------------------------------------------------------------------------
(* Recording                                                               *)

(* File::create truncates control.jsonl; frames/ and the manifest of an    *)
(* earlier recording are left as they are.                                 *)
(* Mutant: control.jsonl is opened for appending.                          *)
Created_Append == control
Created == <<>>

(* Recorder::new.                                                          *)
Start ==
  /\ phase = "off"
  /\ session < MaxSessions
  /\ phase' = "recording"
  /\ session' = session + 1
  /\ control' = Created /\ torn' = FALSE
  /\ frame_counter' = 0
  /\ message_count' = 0
  /\ received' = <<>>
  /\ lossless' = TRUE
  /\ UNCHANGED <<frames, manifest, frame_held, line_held>>

(* record_control: the message is counted, then appended under the lock.   *)
TakeLine(t, d) ==
  /\ phase # "off"
  /\ line_held[t] = None
  /\ message_count < MaxLines
  /\ message_count' = message_count + 1
  /\ line_held' = [line_held EXCEPT ![t] =
                     [session |-> session, dir |-> d, n |-> message_count]]
  /\ UNCHANGED <<disk, phase, session, frame_counter, frame_held, received,
                 lossless>>

(* After a line without a newline, what is written next joins it and makes *)
(* it unreadable.                                                          *)
Joined(l) ==
  IF torn THEN Append(Front(control), None) ELSE Append(control, l)

AppendLine(t) ==
  /\ phase # "off"
  /\ line_held[t] # None
  /\ control' = Joined(line_held[t])
  /\ torn' = FALSE
  /\ line_held' = [line_held EXCEPT ![t] = None]
  /\ UNCHANGED <<frames, manifest, phase, session, frame_counter,
                 message_count, frame_held, received, lossless>>

(* A write fails, which nobody notices: a part of the line, all of it or   *)
(* nothing is there, with or without its newline.                          *)
LineFailed(t) ==
  /\ phase # "off"
  /\ line_held[t] # None
  /\ \/ control' \in {Joined(None), Joined(line_held[t])} /\ torn' \in BOOLEAN
     \/ control' = control /\ torn' \in {torn, FALSE}
  /\ line_held' = [line_held EXCEPT ![t] = None]
  /\ UNCHANGED <<frames, manifest, phase, session, frame_counter,
                 message_count, frame_held, received, lossless>>

(* frame_counter.fetch_add(1).  Mutant: the number of files already there. *)
FrameIndex_Files == Cardinality(DOMAIN frames)
FrameIndex == frame_counter

(* record_frame: an image takes the next number (frames of other kinds     *)
(* leave no trace), then its file is written.                              *)
TakeFrame(e, k) ==
  LET f == [session |-> session, n |-> frame_counter]
  IN /\ phase # "off"
     /\ frame_held[e] = None
     /\ frame_counter < MaxFrames
     /\ frame_counter' = frame_counter + 1
     /\ frame_held' = [frame_held EXCEPT ![e] =
                         [name |-> [idx |-> FrameIndex, kind |-> k],
                          frame |-> f]]
     /\ received' = Append(received, f)
     /\ UNCHANGED <<disk, phase, session, message_count, line_held, lossless>>

WriteFrame(e) ==
  /\ phase # "off"
  /\ frame_held[e] # None
  /\ frames' = [nm \in DOMAIN frames \cup {frame_held[e].name} |->
                  IF nm = frame_held[e].name THEN frame_held[e].frame
                                             ELSE frames[nm]]
  /\ frame_held' = [frame_held EXCEPT ![e] = None]
  /\ UNCHANGED <<control, torn, manifest, phase, session, frame_counter,
                 message_count, line_held, received, lossless>>

(* The write fails: the error is logged and the reader goes on.            *)
FrameFailed(e) ==
  /\ phase # "off"
  /\ frame_held[e] # None
  /\ frame_held' = [frame_held EXCEPT ![e] = None]
  /\ lossless' = FALSE
  /\ UNCHANGED <<disk, phase, session, frame_counter, message_count, line_held,
                 received>>

(* Ctrl-C: the manifest is written while the tasks still run.              *)
Finalize ==
  /\ phase = "recording"
  /\ manifest' = [session |-> session, frame_count |-> frame_counter]
  /\ phase' = "finalized"
  /\ UNCHANGED <<frames, control, torn, session, frame_counter, message_count,
                 frame_held, line_held, received, lossless>>

(* The process ends: after Finalize, or without it (a crash, or a signal   *)
(* other than SIGINT).  What tasks hold is lost.                           *)
Exit ==
  /\ phase # "off"
  /\ phase' = "off"
  /\ lossless' = (lossless /\ \A e \in Readers : frame_held[e] = None)
  /\ frame_held' = [e \in Readers |-> None]
  /\ line_held' = [t \in Talkers |-> None]
  /\ UNCHANGED <<disk, session, frame_counter, message_count, received>>

Next ==
  \/ Start \/ Finalize \/ Exit
  \/ \E t \in Talkers : AppendLine(t) \/ LineFailed(t)
                          \/ \E d \in Directions : TakeLine(t, d)
  \/ \E e \in Readers : WriteFrame(e) \/ FrameFailed(e)
                          \/ \E k \in Kinds : TakeFrame(e, k)

Spec == Init /\ [][Next]_vars

-----------------------------------------------------------------------------
(* Loading a session for replay                                            *)

(* Digits are what repeated division by the base leaves: Shifted(i)[j] is  *)
(* the number i without its last j digits.                                 *)
MaxWidth == Width + MaxFrames
Shifted(i) ==
  LET q[j \in 0 .. MaxWidth] == IF j = 0 THEN i ELSE q[j - 1] \div Base IN q

(* format!("{idx:04}"): at least Width digits, more when the number needs  *)
(* them.  Mutant: no leading zeros.                                        *)
DigitCount_Unpadded(i) ==
  CHOOSE n \in 1 .. MaxWidth :
    Shifted(i)[n] = 0 /\ (n = 1 \/ Shifted(i)[n - 1] # 0)
DigitCount(i) ==
  CHOOSE n \in Width .. MaxWidth :
    Shifted(i)[n] = 0 /\ (n = Width \/ Shifted(i)[n - 1] # 0)

(* The part of a file name that tells names apart, as byte ranks: digits   *)
(* sort below "_", and "preview" below "stack".                            *)
Bytes(nm) ==
  LET n == DigitCount(nm.idx)
  IN [k \in 1 .. n |-> Shifted(nm.idx)[n - k] % Base]
       \o <<Base, IF nm.kind = "preview" THEN 0 ELSE 1>>

(* sort() on paths: the first byte that differs decides.                   *)
Before(a, b) ==
  LET s == Bytes(a)
      t == Bytes(b)
  IN \E i \in 1 .. Len(s) :
       /\ i <= Len(t) /\ s[i] < t[i]
       /\ \A j \in 1 .. (i - 1) : s[j] = t[j]

(* load: fails without a manifest; frame files in the order of their       *)
(* names; of the readable control lines, those of the telescope.           *)
CanLoad == phase = "off" /\ manifest # None
frame_paths ==
  CHOOSE s \in [1 .. Cardinality(DOMAIN frames) -> DOMAIN frames] :
    \A i, j \in DOMAIN s : i < j => Before(s[i], s[j])

control_messages ==
  Picked(control, {i \in 1 .. Len(control) :
                     control[i] # None /\ control[i].dir = "telescope"})

(* replay_imaging broadcasts the files one by one.                         *)
replay_imaging == [i \in 1 .. Len(frame_paths) |-> frames[frame_paths[i]]]

-----------------------------------------------------------------------------
(* "clients see an exact replay of the original session" (replay.rs:5):    *)
(* what replay_imaging sends is what the telescope sent, frame by frame    *)
(* and in order, whenever every frame of the session reached its file,     *)
(* whatever readers overlapped.  This holds for the first recording made   *)
(* into a directory and for up to Base^Width frames (10000): beyond, names *)
(* sort in another order than numbers, and the frames of an earlier        *)
(* recording are replayed too.                                             *)
Power[n \in 0 .. Width] == IF n = 0 THEN 1 ELSE Base * Power[n - 1]
ExactFrames ==
  CanLoad /\ lossless /\ session = 1 /\ Len(received) <= Power[Width]
    => replay_imaging = received

(* Control playback has lines of the latest session only, none from a      *)
(* client and none twice, whatever tasks wrote them at the same time and   *)
(* however often the directory was used before (replay_control, "plays     *)
(* back all telescope-direction messages").                                *)
ExactControl ==
  CanLoad =>
    /\ IsInjective(control_messages)
    /\ \A i \in 1 .. Len(control_messages) :
         /\ control_messages[i].dir = "telescope"
         /\ control_messages[i].session = session

(* Two readers that overlap never write to the same file: until a write    *)
(* fails, every frame of the session is in a file or about to be written,  *)
(* and none is overwritten by another (fetch_add in record_frame).         *)
NoFrameOverwritten ==
  lossless =>
    \A i \in 1 .. Len(received) :
      \/ \E nm \in DOMAIN frames : frames[nm] = received[i]
      \/ \E e \in Readers :
           frame_held[e] # None /\ frame_held[e].frame = received[i]

(* A file of this session has the number of its frame in its name, written *)
(* or about to be; what earlier sessions left is of earlier sessions.      *)
(* Frames are numbered as they come, and no two files have one number.     *)
FilesNumbered ==
  /\ \A nm \in DOMAIN frames :
       /\ frames[nm].session <= session
       /\ frames[nm].session = session => frames[nm].n = nm.idx
  /\ \A e \in Readers :
       LET h == frame_held[e]
       IN h # None => h.frame = [session |-> session, n |-> h.name.idx]
  /\ Len(received) = frame_counter
  /\ \A i \in 1 .. Len(received) :
       received[i] = [session |-> session, n |-> i - 1]
OneFileEach ==
  /\ \A nm \in DOMAIN frames : frames[nm].session = session =>
       /\ nm.idx < frame_counter
       /\ \A other \in DOMAIN frames :
            frames[other].session = session /\ other.idx = nm.idx => other = nm
  /\ \A e \in Readers : frame_held[e] # None =>
       /\ frame_held[e].name.idx < frame_counter
       /\ \A nm \in DOMAIN frames :
            frames[nm].session = session => nm.idx # frame_held[e].name.idx
       /\ \A r \in Readers \ {e} : frame_held[r] # None =>
            frame_held[r].name.idx # frame_held[e].name.idx

(* No line is written twice, and none in a file of another session: lines  *)
(* written or about to be have numbers of their own.                       *)
LinesOnce ==
  /\ torn => control # <<>>
  /\ \A i \in 1 .. Len(control) : control[i] # None =>
       /\ control[i].session = session
       /\ control[i].n < message_count
       /\ \A j \in 1 .. Len(control) :
            control[j] # None /\ control[j].n = control[i].n => i = j
  /\ \A t \in Talkers : line_held[t] # None =>
       /\ line_held[t].session = session
       /\ line_held[t].n < message_count
       /\ \A i \in 1 .. Len(control) :
            control[i] # None => control[i].n # line_held[t].n
       /\ \A u \in Talkers :
            line_held[u] # None /\ line_held[u].n = line_held[t].n => t = u

(* A process that has ended holds nothing.                                 *)
NothingHeld ==
  phase = "off" => /\ \A e \in Readers : frame_held[e] = None
                   /\ \A t \in Talkers : line_held[t] = None

(* Types, and what is in the directory or about to be written to it.       *)
DirInv ==
  /\ TypeOK /\ NothingHeld
  /\ FilesNumbered /\ OneFileEach /\ NoFrameOverwritten
  /\ LinesOnce
=============================================================================
