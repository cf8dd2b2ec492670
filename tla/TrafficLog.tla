----------------------------- MODULE TrafficLog -----------------------------
(***************************************************************************)
(* The traffic log of the dashboard: src/src/metrics.rs keeps a ring of    *)
(* the last entries, src/src/dashboard.rs streams them (sse_handler, once  *)
(* a second) and its page appends them to the table the user sees and      *)
(* evicts those that have left its window of five minutes.                 *)
(*                                                                         *)
(* Tasks of the control and the imaging proxy log at the same time.  The   *)
(* sequence number is taken before the ring's lock, so entries can enter   *)
(* the ring in another order than their numbers.  An entry is its run of   *)
(* the proxy and its sequence number in that run.                          *)
(***************************************************************************)
EXTENDS Integers, Sequences, SequencesExt, Picking

CONSTANTS
  Loggers,    \* tasks that call push_log
  Pages,      \* dashboard pages open in browsers
  LogCap,     \* LOG_CAPACITY (100)
  MaxSeq,     \* bound: entries logged in one run of the proxy
  MaxRuns,    \* bound: runs of the proxy
  None        \* no sequence number

ASSUME LogAssumption ==
  /\ LogCap \in Nat \ {0} /\ MaxSeq \in Nat /\ MaxRuns \in Nat \ {0}
  /\ None \notin Int

VARIABLES
  run,           \* which run of the proxy this is
  log_seq,       \* AtomicU64: the number the next fetch_add returns
  log,           \* the ring: sequence numbers in the order they were pushed
  held,          \* per task, the number it has taken and not yet pushed
  stream,        \* per page, whether it has an event stream
  next_log_seq,  \* per page, the stream's cursor
  lastSeq,       \* per page, the highest number it has taken
  shown,         \* per page, the entries in its table, oldest first
  expired,       \* per page, the entries it has found older than its window
  (* History *)
  pushed,        \* the numbers pushed in this run, in order
  taken,         \* per page, all entries it ever appended, in order
  mark           \* per page, log_seq when its cursor last moved

server == <<run, log_seq, log, held>>
pages  == <<stream, next_log_seq, lastSeq, shown, expired, taken>>
vars   == <<server, pages, pushed, mark>>

Seqs    == 0 .. (MaxSeq - 1)
Entries == [run : 1 .. MaxRuns, seq : Seqs]

(* Every variable keeps its type, and the ring its capacity.               *)
TypeOK ==
  /\ run \in 1 .. MaxRuns
  /\ log_seq \in 0 .. MaxSeq
  /\ log \in Seq(Seqs) /\ Len(log) <= LogCap
  /\ held \in [Loggers -> Seqs \cup {None}]
  /\ stream \in [Pages -> BOOLEAN]
  /\ next_log_seq \in [Pages -> 0 .. MaxSeq]
  /\ lastSeq \in [Pages -> Seqs \cup {-1}]
  /\ shown \in [Pages -> Seq(Entries)]
  /\ expired \in [Pages -> SUBSET Entries]
  /\ taken \in [Pages -> Seq(Entries)]
  /\ pushed \in Seq(Seqs)
  /\ mark \in [Pages -> 0 .. MaxSeq]

Init ==
  /\ run = 1
  /\ log_seq = 0
  /\ log = <<>>
  /\ held = [t \in Loggers |-> None]
  /\ stream = [p \in Pages |-> FALSE]
  /\ next_log_seq = [p \in Pages |-> 0]
  /\ lastSeq = [p \in Pages |-> -1]
  /\ shown = [p \in Pages |-> <<>>]
  /\ expired = [p \in Pages |-> {}]
  /\ taken = [p \in Pages |-> <<>>]
  /\ pushed = <<>>
  /\ mark = [p \in Pages |-> 0]

-----------------------------------------------------------------------------
(* push_log_with_payload: fetch_add, then the ring under its lock          *)

TakeSeq(t) ==
  /\ held[t] = None
  /\ log_seq < MaxSeq
  /\ held' = [held EXCEPT ![t] = log_seq]
  /\ log_seq' = log_seq + 1
  /\ UNCHANGED <<run, log, pages, pushed, mark>>

(* The oldest entry makes room.  Mutant: one entry too many is kept.       *)
Kept_OffByOne(l) == IF Len(l) > LogCap THEN Tail(l) ELSE l
Kept(l) == IF Len(l) >= LogCap THEN Tail(l) ELSE l

PushEntry(t) ==
  /\ held[t] # None
  /\ log' = Append(Kept(log), held[t])
  /\ pushed' = Append(pushed, held[t])
  /\ held' = [held EXCEPT ![t] = None]
  /\ UNCHANGED <<run, log_seq, pages, mark>>

-----------------------------------------------------------------------------
(* The dashboard                                                           *)

(* A page connects: the stream's cursor is None, which log_since and the   *)
(* cursor's own update treat as 0.                                         *)
Connect(p) ==
  /\ ~stream[p]
  /\ stream' = [stream EXCEPT ![p] = TRUE]
  /\ next_log_seq' = [next_log_seq EXCEPT ![p] = 0]
  /\ mark' = [mark EXCEPT ![p] = log_seq]
  /\ UNCHANGED <<server, lastSeq, shown, expired, taken, pushed>>

(* The stream breaks; the page reconnects on its own and keeps its table.  *)
Disconnect(p) ==
  /\ stream[p]
  /\ stream' = [stream EXCEPT ![p] = FALSE]
  /\ UNCHANGED <<server, next_log_seq, lastSeq, shown, expired, taken, pushed,
                 mark>>

Entry(n) == [run |-> run, seq |-> n]

log_since(from) == Picked(log, {i \in 1 .. Len(log) : log[i] >= from})

(* The cursor moves past the last entry of the batch.                      *)
(* Mutant: past the number of entries logged.                              *)
Cursor_Skip(old, batch) == IF log_seq < MaxSeq THEN log_seq + 1 ELSE log_seq
Cursor(old, batch) == IF batch = <<>> THEN old ELSE Last(batch) + 1

(* appendLog: an entry not above the highest number seen is ignored.       *)
(* Mutant: every entry is appended.                                        *)
Fresh_All(batch, last) == batch
Fresh(batch, last) ==
  Picked(batch, {i \in 1 .. Len(batch) :
                   /\ batch[i] > last
                   /\ \A j \in 1 .. (i - 1) : batch[j] < batch[i]})

(* The cutoff of five minutes, when the page looks at its clock: entries   *)
(* of its table turn out to be older.  The timestamps are of the proxy's   *)
(* clock and the cutoff of the browser's, which may differ, so this can be *)
(* any of them, one that has just come included; what was too old once     *)
(* stays so (a clock set back by minutes is left out).                     *)
Expire(p, table) ==
  \E old \in SUBSET ToSet(table) :
    expired' = [expired EXCEPT ![p] = @ \cup old]

(* The filter over the table.                                              *)
InWindow(table, old) ==
  Picked(table, {i \in 1 .. Len(table) : table[i] \notin old})

(* One turn of the stream, and the page's reaction to it (appendLog).      *)
(* Only when something fresh came is the table rid of what has left the    *)
(* window, which may be what has just come; lastSeq counts it all the same.*)
Tick(p) ==
  LET batch == log_since(next_log_seq[p])
      fresh == Fresh(batch, lastSeq[p])
      more  == [i \in 1 .. Len(fresh) |-> Entry(fresh[i])]
      whole == shown[p] \o more
  IN /\ stream[p]
     /\ next_log_seq' = [next_log_seq EXCEPT ![p] = Cursor(@, batch)]
     /\ lastSeq' = [lastSeq EXCEPT ![p] = IF fresh = <<>> THEN @ ELSE Last(fresh)]
     /\ taken' = [taken EXCEPT ![p] = @ \o more]
     /\ \/ fresh = <<>> /\ UNCHANGED <<shown, expired>>
        \/ /\ fresh # <<>>
           /\ Expire(p, whole)
           /\ shown' = [shown EXCEPT ![p] = InWindow(whole, expired'[p])]
     /\ mark' = [mark EXCEPT ![p] = log_seq]
     /\ UNCHANGED <<server, stream, pushed>>

(* The proxy is restarted: everything in the server starts over, the pages *)
(* stay open and lose their streams.                                       *)
Restart ==
  /\ run < MaxRuns
  /\ run' = run + 1
  /\ log_seq' = 0
  /\ log' = <<>>
  /\ held' = [t \in Loggers |-> None]
  /\ stream' = [p \in Pages |-> FALSE]
  /\ pushed' = <<>>
  /\ mark' = [p \in Pages |-> 0]
  /\ UNCHANGED <<next_log_seq, lastSeq, shown, expired, taken>>

Next ==
  \/ \E t \in Loggers : TakeSeq(t) \/ PushEntry(t)
  \/ \E p \in Pages : Connect(p) \/ Disconnect(p) \/ Tick(p)
  \/ Restart

Spec == Init /\ [][Next]_vars

-----------------------------------------------------------------------------
(* The ring holds the latest pushes and nothing else, in the order they    *)
(* were made, however the tasks that log interleave (push_log).            *)
RingIsSuffix ==
  log = SubSeq(pushed, Len(pushed) - Len(log) + 1, Len(pushed))
    /\ Len(log) = IF Len(pushed) < LogCap THEN Len(pushed) ELSE LogCap

(* No page shows an entry twice, whatever its streams resend after a       *)
(* reconnect or an entry that came out of order (sse_handler, appendLog).  *)
NoEntryTwice == \A p \in Pages : IsInjective(shown[p])

(* The cursor of a stream never runs ahead: an entry whose number is taken *)
(* after the stream's last turn is at or above the cursor, so the stream   *)
(* sends it if the ring still has it.                                      *)
CursorBehind ==
  \A p \in Pages : stream[p] => next_log_seq[p] <= mark[p]

(* A sequence number is given out once and pushed at most once, whichever  *)
(* tasks take numbers and push at the same time (fetch_add, push_log).     *)
NumbersOnce ==
  /\ \A i \in 1 .. Len(pushed) : pushed[i] < log_seq
  /\ \A i, j \in 1 .. Len(pushed) : pushed[i] = pushed[j] => i = j
  /\ \A t \in Loggers : held[t] # None =>
       /\ held[t] < log_seq
       /\ \A i \in 1 .. Len(pushed) : pushed[i] # held[t]
       /\ \A u \in Loggers : held[u] = held[t] => u = t

(* Tasks reached the ring in the order they took their numbers, and the    *)
(* page has been open for this run of the proxy only.                      *)
InOrder == \A i, j \in 1 .. Len(pushed) : i < j => pushed[i] < pushed[j]
SameRun(p) == \A i \in 1 .. Len(taken[p]) : taken[p][i].run = run

(* What a page takes grows in the order of the numbers, through restarts   *)
(* of the proxy too; its highest number is lastSeq, and the cursor of its  *)
(* stream is at most one further.  What a page takes of this run was       *)
(* pushed, and what the ring has up to lastSeq it took.  Its table is in   *)
(* the order of the numbers too; it has nothing the page did not take, and *)
(* of what it took only entries that left the window are missing.          *)
PageFollows(p) ==
  /\ next_log_seq[p] <= lastSeq[p] + 1 /\ mark[p] <= log_seq
  /\ \A i \in 1 .. Len(taken[p]) :
       /\ taken[p][i].seq <= lastSeq[p] /\ taken[p][i].run <= run
       /\ taken[p][i].run = run => Contains(pushed, taken[p][i].seq)
       /\ \A j \in 1 .. Len(taken[p]) :
            i < j => taken[p][i].seq < taken[p][j].seq
       /\ taken[p][i] \in expired[p] \/ Contains(shown[p], taken[p][i])
  /\ lastSeq[p] # -1 =>
       taken[p] # <<>> /\ taken[p][Len(taken[p])].seq = lastSeq[p]
  /\ InOrder /\ SameRun(p) =>
       \A i \in 1 .. Len(log) : log[i] <= lastSeq[p] =>
         Contains(taken[p], Entry(log[i]))
  /\ \A i \in 1 .. Len(shown[p]) :
       /\ Contains(taken[p], shown[p][i])
       /\ \A j \in 1 .. Len(shown[p]) :
            i < j => shown[p][i].seq < shown[p][j].seq

(* Types, the ring, the numbers, the cursors and the pages together.       *)
LogInv ==
  /\ TypeOK /\ RingIsSuffix /\ NumbersOnce /\ CursorBehind
  /\ \A p \in Pages : PageFollows(p)

(* "Server-Sent Events - stats + traffic log at 1 Hz" (architecture.md:235)*)
(* and "keeps entries within the rolling window" (dashboard.rs:252): after *)
(* a turn of its stream a page shows everything that is in the ring and in *)
(* its window, whatever it missed while it was disconnected; and when the  *)
(* turn brought something, nothing that is out of the window.  Without     *)
(* InOrder or SameRun it may miss entries for good: their numbers are      *)
(* below the cursor, or below the page's lastSeq.                          *)
PageIsCurrent ==
  [][\A p \in Pages : Tick(p) =>
       /\ InOrder /\ SameRun(p) =>
            \A i \in 1 .. Len(log) : Entry(log[i]) \notin expired'[p] =>
              Contains(shown'[p], Entry(log[i]))
       /\ lastSeq'[p] # lastSeq[p] =>
            \A i \in 1 .. Len(shown'[p]) :
              shown'[p][i] \notin expired'[p]]_vars
=============================================================================
