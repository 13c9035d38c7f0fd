------------------------------ MODULE TaskRunEvents ------------------------------
(***************************************************************************)
(* The event log of one task run (workbench_task_run_events.py): a file of *)
(* lines appended to under a file lock by the threads of any backend       *)
(* process, the recovery that restores the events of committed checkpoints *)
(* (checkpoint_projection.py), and the streams that read it without the    *)
(* lock (stream_task_run_events).                                          *)
(*                                                                         *)
(* An event's payload is reduced to its deduplication key.  A write may be *)
(* cut short, and an event whose text has a line separator that JSON does  *)
(* not escape (U+2028, for one) is several lines to every reader.          *)
(***************************************************************************)
EXTENDS Naturals, Sequences, FiniteSets

CONSTANTS
    Writers,    \* threads that append
    Readers,    \* open streams
    NodeCount,  \* nodes with a checkpoint
    PageSize,   \* events a stream reads at once
    MaxLines,   \* bound on the lines of the file
    MaxTears    \* bound on the writes cut short

ASSUME CountsAssumption ==
    NodeCount \in Nat /\ PageSize \in Nat \ {0} /\ MaxLines \in Nat /\ MaxTears \in Nat

Nodes == 1..NodeCount
Committed(n) == 2 * n - 1          \* the key "checkpoint:n:..."
Completed(n) == 2 * n              \* the key "checkpoint-completed:n:..."
NoKey == 2 * NodeCount + 1         \* of an event that may be repeated
Keys == 1..NoKey

VARIABLES
    lines,       \* of the file: [id, key, whole]; whole if it can be decoded
    open,        \* the last line has no newline
    broken,      \* it ends inside a character: reading the file raises
    todo,        \* of each writer: the keys of the events it has yet to append
    basis,       \* of each writer that recovers: the checkpoints it read
    recovering,  \* the writers that do
    checkpoints, \* the nodes with a committed checkpoint
    projection,  \* those that the task record shows
    ended,       \* the status is terminal
    cursor, seen, \* of each stream: its cursor, and the events it yielded
    pc,          \* where each stream is
    tears        \* how many writes were cut short

vars == <<lines, open, broken, todo, basis, recovering, checkpoints, projection, ended,
          cursor, seen, pc, tears>>
file == <<lines, open, broken, tears>>
streams == <<cursor, seen, pc>>
record == <<checkpoints, projection, ended>>

Init ==
    /\ lines = <<>> /\ open = FALSE /\ broken = FALSE
    /\ todo = [w \in Writers |-> {}]
    /\ basis = [w \in Writers |-> {}]
    /\ recovering = {} /\ checkpoints = {} /\ projection = {} /\ ended = FALSE
    /\ cursor = [r \in Readers |-> 0]
    /\ seen = [r \in Readers |-> {}]
    /\ pc = [r \in Readers |-> "page"]
    /\ tears = 0

Event(i) == [id |-> lines[i].id, key |-> lines[i].key]
Readable == {Event(i) : i \in {j \in DOMAIN lines : lines[j].whole}}
Told(k) == \E e \in Readable : e.key = k

--------------------------------------------------------------------------------
(* What makes a thread append.                                             *)

Idle(w) == todo[w] = {} /\ w \notin recovering
Room == Len(lines) < MaxLines   \* nothing new is begun when the bound is reached

\* append: an output, a tool call, a step that starts.
Emit(w) ==
    /\ Idle(w) /\ Room
    /\ todo' = [todo EXCEPT ![w] = {NoKey}]
    /\ UNCHANGED <<file, basis, recovering, record, streams>>

\* The runner commits a checkpoint, tells of it and then of the finished step.
CommitNode(w, n) ==
    /\ Idle(w) /\ Room
    /\ checkpoints' = checkpoints \cup {n}
    /\ todo' = [todo EXCEPT ![w] = {Committed(n), NoKey}]
    /\ UNCHANGED <<file, basis, recovering, projection, ended, streams>>

\* The status becomes terminal before the last event is appended.
EndRun(w) ==
    /\ Idle(w) /\ Room /\ ~ended
    /\ ended' = TRUE
    /\ todo' = [todo EXCEPT ![w] = {NoKey}]
    /\ UNCHANGED <<file, basis, recovering, checkpoints, projection, streams>>

RebuildHalf(w) ==   \* slip: the events of completion are not restored
    /\ Idle(w)
    /\ recovering' = recovering \cup {w}
    /\ basis' = [basis EXCEPT ![w] = checkpoints]
    /\ todo' = [todo EXCEPT ![w] = {Committed(n) : n \in checkpoints}]
    /\ UNCHANGED <<file, record, streams>>

\* rebuild_checkpoint_projection reads the checkpoints and restores, node by
\* node, what was told of each ...
Rebuild(w) ==
    /\ Idle(w)
    /\ recovering' = recovering \cup {w}
    /\ basis' = [basis EXCEPT ![w] = checkpoints]
    /\ todo' = [todo EXCEPT ![w] = {Committed(n) : n \in checkpoints}
                                   \cup {Completed(n) : n \in checkpoints}]
    /\ UNCHANGED <<file, record, streams>>

\* ... and then replaces the projection in the task record.
Project(w) ==
    /\ w \in recovering /\ todo[w] = {}
    /\ projection' = basis[w]
    /\ recovering' = recovering \ {w}
    /\ basis' = [basis EXCEPT ![w] = {}]
    /\ UNCHANGED <<file, todo, checkpoints, ended, streams>>

--------------------------------------------------------------------------------
(* Appending: one step, from reading the file to writing it, under the lock. *)

First(w, k) == k \in todo[w] /\ \A l \in todo[w] : k <= l

\* What text added to the file makes of it: after an unfinished line, the text
\* is the rest of that line.
Glued == [lines EXCEPT ![Len(lines)].whole = FALSE]
Line(i, k, w) == [id |-> i, key |-> k, whole |-> w]

AddedDense(k, w) ==   \* slip: the events that can be decoded are numbered
    IF open THEN Glued
            ELSE Append(lines, Line(Cardinality(Readable) + 1, k, w))

\* _next_event_id counts the lines of the file, whether they can be decoded or not.
Added(k, w) == IF open THEN Glued ELSE Append(lines, Line(Len(lines) + 1, k, w))

\* append_once finds its key, or the event is written.
AppendWhole(w, k) ==
    /\ First(w, k) /\ ~broken
    /\ todo' = [todo EXCEPT ![w] = @ \ {k}]
    /\ \/ k # NoKey /\ Told(k) /\ UNCHANGED <<lines, open>>
       \/ /\ k = NoKey \/ ~Told(k)
          /\ Room
          /\ lines' = Added(k, TRUE) /\ open' = FALSE
    /\ UNCHANGED <<broken, tears, basis, recovering, record, streams>>

\* The text of an output splits its line in two.
Split == Append(Added(NoKey, FALSE), Line(Len(lines) + 1, NoKey, FALSE))
AppendSplit(w) ==
    /\ First(w, NoKey) /\ ~broken /\ Len(lines) + 1 < MaxLines
    /\ todo' = [todo EXCEPT ![w] = @ \ {NoKey}]
    /\ lines' = Split
    /\ open' = FALSE
    /\ UNCHANGED <<broken, tears, basis, recovering, record, streams>>

\* A thread gives up what it had to append.
GivesUp(w) ==
    /\ todo' = [todo EXCEPT ![w] = {}]
    /\ basis' = [basis EXCEPT ![w] = {}]
    /\ recovering' = recovering \ {w}

\* The disk is full or the machine stops in the middle of a write, which is
\* cut between two characters, inside one, or before the newline.
AppendTorn(w, k, cut) ==
    /\ First(w, k) /\ ~broken /\ tears < MaxTears /\ Room
    /\ k = NoKey \/ ~Told(k)
    /\ lines' = Added(k, cut = "newline")
    /\ open' = TRUE
    /\ broken' = (cut = "character")
    /\ tears' = tears + 1
    /\ GivesUp(w)
    /\ UNCHANGED <<record, streams>>

\* The process dies, or the append raises because the file cannot be read.
Die(w) ==
    /\ todo[w] # {} \/ w \in recovering
    /\ GivesUp(w)
    /\ UNCHANGED <<file, record, streams>>

--------------------------------------------------------------------------------
(* A stream reads a page of events, and then the status.                   *)

Ids(E) == {e.id : e \in E}
After(r) == {e \in Readable : e.id > cursor[r]}

LastPage(r) ==   \* slip: the page is the newest, as in list_before
    {e \in After(r) : Cardinality({i \in Ids(After(r)) : i > e.id}) < PageSize}

\* list_after: the first events after the cursor.
Page(r) == {e \in After(r) : Cardinality({i \in Ids(After(r)) : i < e.id}) < PageSize}

Poll(r) ==
    /\ pc[r] = "page" /\ ~broken
    /\ \/ Page(r) = {} /\ UNCHANGED <<cursor, seen>>
       \/ \E e \in Page(r) :
            /\ \A f \in Page(r) : f.id <= e.id
            /\ cursor' = [cursor EXCEPT ![r] = e.id]
            /\ seen' = [seen EXCEPT ![r] = @ \cup Page(r)]
    /\ pc' = [pc EXCEPT ![r] = "status"]
    /\ UNCHANGED <<file, todo, basis, recovering, record>>

\* list_after raises, and the stream breaks off.
PollRaises(r) ==
    /\ pc[r] = "page" /\ broken
    /\ pc' = [pc EXCEPT ![r] = "done"]
    /\ UNCHANGED <<file, todo, basis, recovering, record, cursor, seen>>

Look(r) ==
    /\ pc[r] = "status"
    /\ pc' = [pc EXCEPT ![r] = IF ended THEN "done" ELSE "page"]
    /\ UNCHANGED <<file, todo, basis, recovering, record, cursor, seen>>

--------------------------------------------------------------------------------
Next ==
    \/ \E w \in Writers :
          \/ Emit(w) \/ EndRun(w) \/ Rebuild(w) \/ Project(w)
          \/ AppendSplit(w) \/ Die(w)
          \/ \E n \in Nodes : CommitNode(w, n)
          \/ \E k \in Keys : \/ AppendWhole(w, k)
                             \/ \E cut \in {"text", "character", "newline"} :
                                   AppendTorn(w, k, cut)
    \/ \E r \in Readers : Poll(r) \/ PollRaises(r) \/ Look(r)

\* The loop of a stream that stays connected; nobody has to append.
Fairness == \A r \in Readers : WF_vars(Poll(r) \/ PollRaises(r) \/ Look(r))

Spec == Init /\ [][Next]_vars /\ Fairness

--------------------------------------------------------------------------------
TypeOK ==
    /\ lines \in Seq([id : Nat, key : Keys, whole : BOOLEAN])
    /\ open \in BOOLEAN /\ broken \in BOOLEAN /\ ended \in BOOLEAN
    /\ todo \in [Writers -> SUBSET Keys]
    /\ basis \in [Writers -> SUBSET Nodes]
    /\ recovering \subseteq Writers
    /\ checkpoints \subseteq Nodes /\ projection \subseteq Nodes
    /\ cursor \in [Readers -> Nat]
    /\ pc \in [Readers -> {"page", "status", "done"}]
    /\ tears \in Nat

\* Readers see a feed, whatever is cut short or cannot be decoded.
Feed == INSTANCE EventFeed WITH feed <- Readable
FeedSpec == Feed!Spec

(***************************************************************************)
(* The nodes that recovery showed in the task record have both their       *)
(* events in the log, whoever told of them first; a write cut short costs  *)
(* at most the event at the end of the log and the one appended to it.     *)
(***************************************************************************)
Untold == {k \in Keys \ {NoKey} : ~Told(k) /\ \E n \in projection : k \in {Committed(n), Completed(n)}}
RestoredIsTold == Cardinality(Untold) <= 2 * tears

(***************************************************************************)
(* An event reaches every stream, unless the stream ends or the event's    *)
(* line becomes unreadable before.                                         *)
(***************************************************************************)
DeliveredAtLast ==
    \A r \in Readers : \A i \in 1..MaxLines :
        i \in Ids(Readable) ~> \/ i \in Ids(seen[r]) \/ pc[r] = "done"
                               \/ i \notin Ids(Readable)
================================================================================
