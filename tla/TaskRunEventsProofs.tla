--------------------------- MODULE TaskRunEventsProofs ---------------------------
(***************************************************************************)
(* The readers of a task run's events see a feed, for any number of        *)
(* writers, streams and nodes, whatever is cut short or cannot be decoded;  *)
(* and what a recovery puts back in the task record is told of in the log.  *)
(***************************************************************************)
EXTENDS TaskRunEvents, SequenceTheorems, FiniteSetTheorems, TLAPS

LineRecord == [id : Nat, key : Keys, whole : BOOLEAN]

FileOK ==
    /\ lines \in Seq(LineRecord)
    /\ open \in BOOLEAN
    /\ open => Len(lines) > 0

\* The number of an event that can be read is the number of its line.
Numbered == \A i \in 1..Len(lines) : lines[i].whole => lines[i].id = i

OneEach ==
    \A i, j \in 1..Len(lines) :
        /\ lines[i].whole /\ lines[j].whole
        /\ lines[i].key = lines[j].key /\ lines[i].key # NoKey
        => i = j

CursorsInFile ==
    /\ cursor \in [Readers -> Nat]
    /\ \A r \in Readers : cursor[r] <= Len(lines)

IInv == FileOK /\ Numbered /\ OneEach /\ CursorsInFile

--------------------------------------------------------------------------------
(* What adding text to the file makes of its lines: none, or the last one, can *)
(* no longer be read, and at most one new one can.                             *)
LEMMA LineFields ==
    ASSUME NEW n, NEW k, NEW b
    PROVE  Line(n, k, b).id = n /\ Line(n, k, b).key = k /\ Line(n, k, b).whole = b
BY DEF Line

LEMMA AddedLines ==
    ASSUME FileOK, NEW k \in Keys, NEW b \in BOOLEAN
    PROVE  /\ Added(k, b) \in Seq(LineRecord)
           /\ Len(Added(k, b)) \in Nat /\ Len(Added(k, b)) > 0
           /\ open => Len(Added(k, b)) = Len(lines)
           /\ open => Added(k, b)[Len(lines)].whole = FALSE
           /\ ~open => Len(Added(k, b)) = Len(lines) + 1
           /\ ~open => Added(k, b)[Len(lines) + 1] = Line(Len(lines) + 1, k, b)
           /\ \A i \in 1..Len(lines) :
                 i # Len(lines) \/ ~open => Added(k, b)[i] = lines[i]
<1>1. Len(lines) \in Nat  BY LenProperties DEF FileOK
<1>2. CASE open
  <2>1. Len(lines) \in 1..Len(lines)  BY <1>1, <1>2 DEF FileOK
  <2>2. lines[Len(lines)] \in LineRecord  BY <2>1, ElementOfSeq DEF FileOK
  <2>3. PICK e : e = [lines[Len(lines)] EXCEPT !.whole = FALSE]  OBVIOUS
  <2>4. e \in LineRecord /\ e.whole = FALSE  BY <2>2, <2>3 DEF LineRecord
  <2>5. Added(k, b) = [lines EXCEPT ![Len(lines)] = e]
    BY <1>2, <2>1, <2>3, LenProperties DEF Added, Glued, FileOK
  <2>6. /\ Added(k, b) \in Seq(LineRecord)
        /\ Len(Added(k, b)) = Len(lines)
        /\ \A j \in 1..Len(lines) : Added(k, b)[j] = IF j = Len(lines) THEN e ELSE lines[j]
    BY <2>1, <2>4, <2>5, ExceptSeq DEF FileOK
  <2>7. QED  BY <1>1, <1>2, <2>1, <2>4, <2>6
<1>3. CASE ~open
  <2>1. Line(Len(lines) + 1, k, b) \in LineRecord  BY <1>1 DEF Line, LineRecord
  <2>2. Added(k, b) = Append(lines, Line(Len(lines) + 1, k, b))  BY <1>3 DEF Added
  <2>3. QED  BY <1>1, <1>3, <2>1, <2>2, AppendProperties DEF FileOK
<1>4. QED  BY <1>2, <1>3

LEMMA InvInit == Init => IInv
<1> SUFFICES ASSUME Init PROVE IInv  OBVIOUS
<1>1. lines = <<>> /\ Len(lines) = 0 /\ lines \in Seq(LineRecord)
  BY EmptySeq DEF Init
<1>2. FileOK  BY <1>1 DEF Init, FileOK
<1>3. Numbered /\ OneEach  BY <1>1 DEF Numbered, OneEach
<1>4. CursorsInFile  BY <1>1 DEF Init, CursorsInFile
<1>5. QED  BY <1>2, <1>3, <1>4 DEF IInv

(* The invariant after text was added to the file ...                          *)
LEMMA InvAdded ==
    ASSUME IInv, NEW k \in Keys, NEW b \in BOOLEAN, k = NoKey \/ ~Told(k),
           lines' = Added(k, b), open' \in BOOLEAN, UNCHANGED cursor
    PROVE  IInv'
<1>1. Len(lines) \in Nat /\ FileOK  BY LenProperties DEF IInv, FileOK
<1>2. FileOK'  BY <1>1, AddedLines DEF FileOK
<1>3. Len(lines') \in Nat /\ Len(lines) <= Len(lines') /\ Len(lines') <= Len(lines) + 1
  <2>1. /\ Len(Added(k, b)) \in Nat
        /\ open => Len(Added(k, b)) = Len(lines)
        /\ ~open => Len(Added(k, b)) = Len(lines) + 1
    BY <1>1, AddedLines
  <2>2. Len(lines') = Len(Added(k, b))  OBVIOUS
  <2>3. CASE open  BY <1>1, <2>1, <2>2, <2>3
  <2>4. CASE ~open  BY <1>1, <2>1, <2>2, <2>4
  <2>5. QED  BY <2>3, <2>4
<1>4. \A i \in 1..Len(lines') : lines'[i].whole =>
         \/ i \in 1..Len(lines) /\ lines'[i] = lines[i]
         \/ i = Len(lines) + 1 /\ lines'[i] = Line(Len(lines) + 1, k, b)
  <2> SUFFICES ASSUME NEW i \in 1..Len(lines'), lines'[i].whole
               PROVE  \/ i \in 1..Len(lines) /\ lines'[i] = lines[i]
                      \/ i = Len(lines) + 1 /\ lines'[i] = Line(Len(lines) + 1, k, b)
    OBVIOUS
  <2>1. CASE i \in 1..Len(lines)
    <3>1. i # Len(lines) \/ ~open  BY <1>1, AddedLines
    <3>2. QED  BY <1>1, <2>1, <3>1, AddedLines
  <2>2. CASE i \notin 1..Len(lines)
    <3>1. i = Len(lines) + 1  BY <1>1, <1>3, <2>2
    <3>2. ~open
      <4>1. Len(lines') # Len(lines)  BY <1>1, <3>1
      <4>2. QED  BY <1>1, <4>1, AddedLines
    <3>3. QED  BY <1>1, <3>1, <3>2, AddedLines
  <2>3. QED  BY <2>1, <2>2
<1>5. Numbered'  BY <1>3, <1>4 DEF Numbered, IInv, Line
<1>6. \A i \in 1..Len(lines) : lines[i].whole /\ lines[i].key = k => k = NoKey
  <2> SUFFICES ASSUME NEW i \in 1..Len(lines), lines[i].whole, lines[i].key = k, k # NoKey
               PROVE  FALSE
    OBVIOUS
  <2>1. i \in DOMAIN lines  BY <1>1, LenProperties DEF FileOK
  <2>2. Event(i) \in Readable /\ Event(i).key = k  BY <2>1 DEF Readable, Event
  <2>3. QED  BY <2>2 DEF Told
<1>7. OneEach'
  <2> SUFFICES ASSUME NEW i \in 1..Len(lines'), NEW j \in 1..Len(lines'),
                      lines'[i].whole, lines'[j].whole,
                      lines'[i].key = lines'[j].key, lines'[i].key # NoKey
               PROVE  i = j
    BY DEF OneEach
  <2>1. CASE i \in 1..Len(lines) /\ lines'[i] = lines[i]
    <3>1. j # Len(lines) + 1 \/ lines'[j] # Line(Len(lines) + 1, k, b)
      BY <1>6, <2>1 DEF Line
    <3>2. j \in 1..Len(lines) /\ lines'[j] = lines[j]  BY <1>4, <3>1
    <3>3. QED  BY <2>1, <3>2 DEF IInv, OneEach
  <2>2. CASE i = Len(lines) + 1 /\ lines'[i] = Line(Len(lines) + 1, k, b)
    <3>1. lines'[i].key = k  BY <2>2, LineFields
    <3>2. ~(j \in 1..Len(lines) /\ lines'[j] = lines[j])  BY <1>6, <3>1
    <3>3. QED  BY <1>4, <2>2, <3>2
  <2>3. QED  BY <1>4, <2>1, <2>2
<1>8. CursorsInFile'  BY <1>1, <1>3 DEF CursorsInFile, IInv
<1>9. QED  BY <1>2, <1>5, <1>7, <1>8 DEF IInv

(* ... and after the second of two lines was.                                  *)
LEMMA InvSplit ==
    ASSUME IInv, lines' = Split, open' \in BOOLEAN, UNCHANGED cursor, NoKey \in Keys
    PROVE  /\ IInv' /\ Len(lines) <= Len(lines')
           /\ \A i \in 1..Len(lines') : lines'[i].whole <=>
                 i \in 1..Len(lines) /\ lines[i].whole /\ ~(open /\ i = Len(lines))
           /\ \A i \in 1..Len(lines') : lines'[i].whole => lines'[i] = lines[i]
<1>1. Len(lines) \in Nat /\ FileOK  BY LenProperties DEF IInv, FileOK
<1>2. PICK A : A = Added(NoKey, FALSE)  OBVIOUS
<1>3. PICK last : last = Line(Len(lines) + 1, NoKey, FALSE)  OBVIOUS
<1>4. /\ A \in Seq(LineRecord) /\ Len(A) \in Nat
      /\ open => Len(A) = Len(lines)
      /\ open => A[Len(lines)].whole = FALSE
      /\ ~open => Len(A) = Len(lines) + 1
      /\ ~open => A[Len(lines) + 1] = last
      /\ \A i \in 1..Len(lines) : i # Len(lines) \/ ~open => A[i] = lines[i]
  BY <1>1, <1>2, <1>3, AddedLines
<1>5. last \in LineRecord /\ last.whole = FALSE
  BY <1>1, <1>3, LineFields DEF Line, LineRecord
<1>6. lines' = Append(A, last)  BY <1>2, <1>3 DEF Split
<1>7. /\ lines' \in Seq(LineRecord)
      /\ Len(lines') = Len(A) + 1
      /\ \A i \in 1..Len(A) : lines'[i] = A[i]
      /\ lines'[Len(A) + 1] = last
  <2>1. A \in Seq(LineRecord) /\ last \in LineRecord  BY <1>4, <1>5
  <2>2. /\ Append(A, last) \in Seq(LineRecord)
        /\ Len(Append(A, last)) = Len(A) + 1
        /\ \A i \in 1..Len(A) : Append(A, last)[i] = A[i]
        /\ Append(A, last)[Len(A) + 1] = last
    BY <2>1, AppendProperties
  <2>3. QED  BY <1>6, <2>2
<1>8. Len(A) \in Nat /\ Len(lines) <= Len(A) /\ Len(lines') = Len(A) + 1
  <2>1. CASE open  BY <1>1, <1>4, <1>7, <2>1
  <2>2. CASE ~open  BY <1>1, <1>4, <1>7, <2>2
  <2>3. QED  BY <2>1, <2>2
<1>9. \A i \in 1..Len(lines') :
         /\ lines'[i].whole <=>
               i \in 1..Len(lines) /\ lines[i].whole /\ ~(open /\ i = Len(lines))
         /\ lines'[i].whole => lines'[i] = lines[i]
  <2> TAKE i \in 1..Len(lines')
  <2>1. CASE i \in 1..Len(lines)
    <3>1. lines'[i] = A[i]
      <4>1. i \in 1..Len(A)  BY <1>1, <1>8, <2>1
      <4>2. QED  BY <1>7, <4>1
    <3>2. QED  BY <1>4, <2>1, <3>1
  <2>2. CASE i \notin 1..Len(lines)
    <3>1. lines'[i] = last
      <4>1. i \in 1..(Len(A) + 1)  BY <1>7
      <4>2. CASE i = Len(A) + 1  BY <1>7, <4>2
      <4>3. CASE i # Len(A) + 1
        <5>1. i \in 1..Len(A) /\ ~open /\ i = Len(lines) + 1
          BY <1>1, <1>4, <2>2, <4>1, <4>3
        <5>2. QED  BY <1>4, <1>7, <5>1
      <4>4. QED  BY <4>2, <4>3
    <3>2. QED  BY <1>5, <2>2, <3>1
  <2>3. QED  BY <2>1, <2>2
<1>10. FileOK'
  <2>1. Len(lines') > 0  BY <1>8
  <2>2. QED  BY <1>7, <2>1 DEF FileOK
<1>11. Numbered'  BY <1>9 DEF Numbered, IInv
<1>12. OneEach'
  <2> SUFFICES ASSUME NEW i \in 1..Len(lines'), NEW j \in 1..Len(lines'),
                      lines'[i].whole, lines'[j].whole,
                      lines'[i].key = lines'[j].key, lines'[i].key # NoKey
               PROVE  i = j
    BY DEF OneEach
  <2>1. /\ i \in 1..Len(lines) /\ lines[i].whole /\ lines'[i] = lines[i]
        /\ j \in 1..Len(lines) /\ lines[j].whole /\ lines'[j] = lines[j]
    BY <1>9
  <2>2. QED  BY <2>1 DEF IInv, OneEach
<1>13. CursorsInFile'
  <2>1. cursor' \in [Readers -> Nat]  BY DEF CursorsInFile, IInv
  <2>2. ASSUME NEW r \in Readers PROVE cursor'[r] <= Len(lines')
    <3>1. cursor[r] \in Nat /\ cursor[r] <= Len(lines)  BY DEF CursorsInFile, IInv
    <3>2. QED  BY <1>1, <1>8, <3>1
  <2>3. QED  BY <2>1, <2>2 DEF CursorsInFile
<1>14. Len(lines) <= Len(lines')  BY <1>1, <1>8
<1>15. QED  BY <1>9, <1>10, <1>11, <1>12, <1>13, <1>14 DEF IInv

--------------------------------------------------------------------------------
LEMMA NoKeyIsAKey == NoKey \in Keys
BY CountsAssumption DEF NoKey, Keys

LEMMA ReadableLines ==
    ASSUME FileOK
    PROVE  \A e : e \in Readable <=>
              \E i \in 1..Len(lines) : lines[i].whole /\ e = Event(i)
<1>1. DOMAIN lines = 1..Len(lines)  BY LenProperties DEF FileOK
<1>2. QED  BY <1>1 DEF Readable

\* The number of an event is the number of its line.
LEMMA ReadableIds ==
    ASSUME IInv, NEW e \in Readable
    PROVE  e.id \in 1..Len(lines) /\ lines[e.id].whole /\ e = Event(e.id)
<1>1. PICK i \in 1..Len(lines) : lines[i].whole /\ e = Event(i)
  BY ReadableLines DEF IInv
<1>2. e.id = i  BY <1>1 DEF Event, IInv, Numbered
<1>3. QED  BY <1>1, <1>2

\* Steps that leave the file and the streams' cursors alone.
LEMMA InvKept == ASSUME IInv, UNCHANGED <<lines, open, cursor>> PROVE IInv'
BY DEF IInv, FileOK, Numbered, OneEach, CursorsInFile

LEMMA InvStep == IInv /\ [Next]_vars => IInv'
<1> SUFFICES ASSUME IInv, [Next]_vars PROVE IInv'  OBVIOUS
<1>1. CASE UNCHANGED vars  BY <1>1, InvKept DEF vars
<1>2. ASSUME NEW w \in Writers,
             \/ Emit(w) \/ EndRun(w) \/ Rebuild(w) \/ Project(w) \/ Die(w)
             \/ \E n \in Nodes : CommitNode(w, n)
      PROVE  IInv'
  <2>1. UNCHANGED <<lines, open, cursor>>
    BY <1>2 DEF Emit, EndRun, Rebuild, Project, Die, GivesUp, CommitNode, file, streams
  <2>2. QED  BY <2>1, InvKept
<1>3. ASSUME NEW w \in Writers, NEW k \in Keys, AppendWhole(w, k)  PROVE IInv'
  <2>1. UNCHANGED cursor  BY <1>3 DEF AppendWhole, streams
  <2>2. CASE UNCHANGED <<lines, open>>  BY <2>1, <2>2, InvKept
  <2>3. CASE /\ k = NoKey \/ ~Told(k)
             /\ lines' = Added(k, TRUE) /\ open' = FALSE
    <3>1. open' \in BOOLEAN  BY <2>3
    <3>2. QED  BY <2>1, <2>3, <3>1, InvAdded
  <2>4. QED  BY <1>3, <2>2, <2>3 DEF AppendWhole
<1>4. ASSUME NEW w \in Writers, AppendSplit(w)  PROVE IInv'
  <2>1. UNCHANGED cursor /\ lines' = Split /\ open' \in BOOLEAN
    BY <1>4 DEF AppendSplit, streams
  <2>2. QED  BY <2>1, InvSplit, NoKeyIsAKey
<1>5. ASSUME NEW w \in Writers, NEW k \in Keys, NEW cut, AppendTorn(w, k, cut)  PROVE IInv'
  <2>1. PICK b \in BOOLEAN : b = (cut = "newline")  OBVIOUS
  <2>2. /\ UNCHANGED cursor /\ open' \in BOOLEAN /\ lines' = Added(k, b)
        /\ k = NoKey \/ ~Told(k)
    BY <1>5, <2>1 DEF AppendTorn, streams
  <2>3. QED  BY <2>2, InvAdded
<1>6. ASSUME NEW r \in Readers, Poll(r)  PROVE IInv'
  <2>1. UNCHANGED <<lines, open>>  BY <1>6 DEF Poll, file
  <2>2. CASE UNCHANGED cursor  BY <2>1, <2>2, InvKept
  <2>3. CASE \E e \in Page(r) : cursor' = [cursor EXCEPT ![r] = e.id]
    <3>1. PICK e \in Readable : cursor' = [cursor EXCEPT ![r] = e.id]
      BY <2>3 DEF Page, After
    <3>2. e.id \in 1..Len(lines)  BY ReadableIds
    <3>3. CursorsInFile'
      BY <2>1, <3>1, <3>2 DEF CursorsInFile, IInv
    <3>4. QED  BY <2>1, <3>3 DEF IInv, FileOK, Numbered, OneEach
  <2>4. QED  BY <1>6, <2>2, <2>3 DEF Poll
<1>7. ASSUME NEW r \in Readers, PollRaises(r) \/ Look(r)  PROVE IInv'
  BY <1>7, InvKept DEF PollRaises, Look, file
<1>8. QED
  BY <1>1, <1>2, <1>3, <1>4, <1>5, <1>6, <1>7 DEF Next

\* Behind every finished line the log can be read or not: its events are numbered
\* by line, a key is told once, and no stream's cursor is beyond the end.
THEOREM Invariance == Spec => []IInv
BY InvInit, InvStep, PTL DEF Spec

--------------------------------------------------------------------------------
(* Types: those of the file and of the cursors are part of the invariant.      *)

ThreadTypes ==
    /\ broken \in BOOLEAN /\ ended \in BOOLEAN
    /\ todo \in [Writers -> SUBSET Keys]
    /\ basis \in [Writers -> SUBSET Nodes]
    /\ recovering \subseteq Writers
    /\ checkpoints \subseteq Nodes /\ projection \subseteq Nodes
    /\ pc \in [Readers -> {"page", "status", "done"}]
    /\ tears \in Nat

LEMMA NodeKeys ==
    ASSUME NEW n \in Nodes
    PROVE  Committed(n) \in Keys /\ Completed(n) \in Keys
BY CountsAssumption DEF Nodes, Keys, NoKey, Committed, Completed

LEMMA TypesStep == ThreadTypes /\ [Next]_vars => ThreadTypes'
<1> SUFFICES ASSUME ThreadTypes, [Next]_vars PROVE ThreadTypes'  OBVIOUS
<1> USE NoKeyIsAKey, NodeKeys DEF ThreadTypes
<1>1. CASE UNCHANGED vars  BY <1>1 DEF vars
<1>2. ASSUME NEW w \in Writers, Emit(w)  PROVE ThreadTypes'
  BY <1>2 DEF Emit, file, record, streams
<1>3. ASSUME NEW w \in Writers, EndRun(w)  PROVE ThreadTypes'
  <2>1. ended' \in BOOLEAN /\ UNCHANGED broken  BY <1>3 DEF EndRun, file
  <2>2. QED  BY <1>3, <2>1 DEF EndRun, file, streams
<1>4. ASSUME NEW w \in Writers, Rebuild(w)  PROVE ThreadTypes'
  <2>1. {Committed(n) : n \in checkpoints} \cup {Completed(n) : n \in checkpoints} \in SUBSET Keys
    OBVIOUS
  <2>2. QED  BY <1>4, <2>1 DEF Rebuild, file, record, streams
<1>5. ASSUME NEW w \in Writers, Project(w)  PROVE ThreadTypes'
  BY <1>5 DEF Project, file, streams
<1>6. ASSUME NEW w \in Writers, NEW n \in Nodes, CommitNode(w, n)  PROVE ThreadTypes'
  BY <1>6 DEF CommitNode, file, streams
<1>7. ASSUME NEW w \in Writers, Die(w)  PROVE ThreadTypes'
  BY <1>7 DEF Die, GivesUp, file, record, streams
<1>8. ASSUME NEW w \in Writers, NEW k \in Keys, AppendWhole(w, k)  PROVE ThreadTypes'
  BY <1>8 DEF AppendWhole, record, streams
<1>9. ASSUME NEW w \in Writers, AppendSplit(w)  PROVE ThreadTypes'
  BY <1>9 DEF AppendSplit, record, streams
<1>10. ASSUME NEW w \in Writers, NEW k \in Keys, NEW cut, AppendTorn(w, k, cut)
       PROVE  ThreadTypes'
  <2>1. broken' \in BOOLEAN /\ ended' \in BOOLEAN  BY <1>10 DEF AppendTorn, record
  <2>2. tears' \in Nat  BY <1>10 DEF AppendTorn
  <2>3. QED  BY <1>10, <2>1, <2>2 DEF AppendTorn, GivesUp, record, streams
<1>11. ASSUME NEW r \in Readers, Poll(r)  PROVE ThreadTypes'
  BY <1>11 DEF Poll, file, record
<1>12. ASSUME NEW r \in Readers, PollRaises(r)  PROVE ThreadTypes'
  BY <1>12 DEF PollRaises, file, record
<1>13. ASSUME NEW r \in Readers, Look(r)  PROVE ThreadTypes'
  BY <1>13 DEF Look, file, record
<1>14. QED
  BY <1>1, <1>2, <1>3, <1>4, <1>5, <1>6, <1>7, <1>8, <1>9, <1>10, <1>11, <1>12, <1>13 DEF Next

\* The variables hold what they should, however many writes were cut short.
THEOREM TypeCorrect == Spec => []TypeOK
<1>1. Init => ThreadTypes
  <2> SUFFICES ASSUME Init PROVE ThreadTypes  OBVIOUS
  <2>1. broken \in BOOLEAN /\ ended \in BOOLEAN  BY DEF Init
  <2>2. QED  BY <2>1 DEF Init, ThreadTypes
<1>2. IInv /\ ThreadTypes => TypeOK
  BY DEF IInv, FileOK, CursorsInFile, ThreadTypes, TypeOK, LineRecord
<1>3. QED  BY <1>1, <1>2, TypesStep, Invariance, PTL DEF Spec

--------------------------------------------------------------------------------
(* Every step is a step of the feed, or leaves it as it is.                    *)

\* Text was added, and nothing new can be read.
LEMMA Shrinks ==
    ASSUME IInv, FileOK', Len(lines) <= Len(lines'),
           \A i \in 1..Len(lines') : lines'[i].whole <=>
              i \in 1..Len(lines) /\ lines[i].whole /\ ~(open /\ i = Len(lines)),
           \A i \in 1..Len(lines') : lines'[i].whole => lines'[i] = lines[i],
           UNCHANGED <<cursor, seen>>
    PROVE  [Feed!Next]_Feed!vars
<1>1. Len(lines) \in Nat /\ Len(lines') \in Nat /\ FileOK
  BY LenProperties DEF IInv, FileOK
<1>2. \A e : e \in Readable' <=>
         \E i \in 1..Len(lines') : lines'[i].whole /\ e = Event(i)'
  <2>1. DOMAIN lines' = 1..Len(lines')  BY LenProperties DEF FileOK
  <2>2. QED  BY <2>1 DEF Readable
<1>3. \A e : e \in Readable <=>
         \E i \in 1..Len(lines) : lines[i].whole /\ e = Event(i)
  BY <1>1, ReadableLines
<1>4. \A e : e \in Readable' <=> e \in Readable /\ ~(open /\ e.id = Len(lines))
  <2> TAKE e
  <2>1. ASSUME e \in Readable'  PROVE e \in Readable /\ ~(open /\ e.id = Len(lines))
    <3>1. PICK i \in 1..Len(lines') : lines'[i].whole /\ e = Event(i)'  BY <1>2, <2>1
    <3>2. /\ i \in 1..Len(lines) /\ lines[i].whole /\ ~(open /\ i = Len(lines))
          /\ lines'[i] = lines[i]
      BY <3>1
    <3>3. e = Event(i)  BY <3>1, <3>2 DEF Event
    <3>4. e \in Readable  BY <1>3, <3>2, <3>3
    <3>5. e.id = i  BY <3>2, <3>3 DEF Event, IInv, Numbered
    <3>6. QED  BY <3>2, <3>4, <3>5
  <2>2. ASSUME e \in Readable, ~(open /\ e.id = Len(lines))  PROVE e \in Readable'
    <3>1. PICK i \in 1..Len(lines) : lines[i].whole /\ e = Event(i)  BY <1>3, <2>2
    <3>2. e.id = i  BY <3>1 DEF Event, IInv, Numbered
    <3>3. i \in 1..Len(lines')  BY <1>1
    <3>4. lines'[i].whole /\ lines'[i] = lines[i]  BY <2>2, <3>1, <3>2, <3>3
    <3>5. e = Event(i)'  BY <3>1, <3>4 DEF Event
    <3>6. QED  BY <1>2, <3>3, <3>4, <3>5
  <2>3. QED  BY <2>1, <2>2
<1>5. CASE \E e \in Readable : open /\ e.id = Len(lines)
  <2>1. PICK e \in Readable : open /\ e.id = Len(lines)  BY <1>5
  <2>2. \A f \in Readable : f.id \in 1..Len(lines) /\ f = Event(f.id)  BY ReadableIds
  <2>3. \A f \in Readable : f.id <= e.id  BY <1>1, <2>1, <2>2
  <2>4. Readable' = Readable \ {e}  BY <1>4, <2>1, <2>2
  <2>5. Feed!Withdraw(e)  BY <2>3, <2>4 DEF Feed!Withdraw
  <2>6. QED  BY <2>5 DEF Feed!Next
<1>6. CASE ~ \E e \in Readable : open /\ e.id = Len(lines)
  <2>1. Readable' = Readable  BY <1>4, <1>6
  <2>2. QED  BY <2>1 DEF Feed!vars
<1>7. QED  BY <1>5, <1>6

\* Text was added to a log that ends with a newline, and is one more event.
LEMMA Grows ==
    ASSUME IInv, IInv', NEW k \in Keys, k = NoKey \/ ~Told(k), ~open,
           lines' = Append(lines, Line(Len(lines) + 1, k, TRUE)),
           UNCHANGED <<cursor, seen>>
    PROVE  Feed!Next
<1>1. Len(lines) \in Nat /\ FileOK /\ FileOK'  BY LenProperties DEF IInv, FileOK
<1>2. PICK new : new = Line(Len(lines) + 1, k, TRUE)  OBVIOUS
<1>3. /\ new \in LineRecord /\ new.whole /\ new.key = k /\ new.id = Len(lines) + 1
  BY <1>1, <1>2 DEF Line, LineRecord
<1>4. /\ Len(lines') = Len(lines) + 1
      /\ \A i \in 1..Len(lines) : lines'[i] = lines[i]
      /\ lines'[Len(lines) + 1] = new
  <2>1. lines \in Seq(LineRecord) /\ new \in LineRecord  BY <1>1, <1>3 DEF FileOK
  <2>2. /\ Len(Append(lines, new)) = Len(lines) + 1
        /\ \A i \in 1..Len(lines) : Append(lines, new)[i] = lines[i]
        /\ Append(lines, new)[Len(lines) + 1] = new
    BY <2>1, AppendProperties
  <2>3. lines' = Append(lines, new)  BY <1>2
  <2>4. QED  BY <2>2, <2>3
<1>5. PICK e : e = [id |-> Len(lines) + 1, key |-> k]  OBVIOUS
<1>6. \A f : f \in Readable' <=>
         \E i \in 1..Len(lines') : lines'[i].whole /\ f = Event(i)'
  <2>1. DOMAIN lines' = 1..Len(lines')  BY <1>1, LenProperties DEF FileOK
  <2>2. QED  BY <2>1 DEF Readable
<1>7. \A f : f \in Readable <=>
         \E i \in 1..Len(lines) : lines[i].whole /\ f = Event(i)
  BY <1>1, ReadableLines
<1>8. Readable' = Readable \cup {e}
  <2>1. ASSUME NEW f \in Readable'  PROVE f \in Readable \cup {e}
    <3>1. PICK i \in 1..Len(lines') : lines'[i].whole /\ f = Event(i)'  BY <1>6, <2>1
    <3>2. CASE i = Len(lines) + 1  BY <1>3, <1>4, <1>5, <3>1, <3>2 DEF Event
    <3>3. CASE i # Len(lines) + 1
      <4>1. i \in 1..Len(lines)  BY <1>1, <1>4, <3>3
      <4>2. lines[i].whole /\ f = Event(i)  BY <1>4, <3>1, <4>1 DEF Event
      <4>3. QED  BY <1>7, <4>1, <4>2
    <3>4. QED  BY <3>2, <3>3
  <2>2. ASSUME NEW f \in Readable  PROVE f \in Readable'
    <3>1. PICK i \in 1..Len(lines) : lines[i].whole /\ f = Event(i)  BY <1>7, <2>2
    <3>2. i \in 1..Len(lines')  BY <1>1, <1>4
    <3>3. lines'[i].whole /\ f = Event(i)'  BY <1>4, <3>1 DEF Event
    <3>4. QED  BY <1>6, <3>2, <3>3
  <2>3. e \in Readable'
    <3>1. PICK n \in 1..Len(lines') : n = Len(lines) + 1  BY <1>1, <1>4
    <3>2. lines'[n].whole /\ e = Event(n)'
      BY <1>3, <1>4, <1>5, <3>1 DEF Event
    <3>3. QED  BY <1>6, <3>2
  <2>4. QED  BY <2>1, <2>2, <2>3
<1>9. \A f \in Readable : f.id < e.id /\ (f.key = e.key => e.key = NoKey)
  <2> TAKE f \in Readable
  <2>1. f.id \in 1..Len(lines)  BY ReadableIds
  <2>2. f.key = k => k = NoKey  BY DEF Told
  <2>3. QED  BY <1>1, <1>5, <2>1, <2>2
<1>10. \A r \in Readers : cursor[r] < e.id
  BY <1>1, <1>5 DEF IInv, CursorsInFile
<1>11. e \in Readable' \ Readable
  <2>1. e \notin Readable  BY <1>1, <1>5, <1>9
  <2>2. QED  BY <1>8, <2>1
<1>12. Feed!Publish(e)  BY <1>8, <1>9, <1>10 DEF Feed!Publish
<1>13. QED  BY <1>11, <1>12 DEF Feed!Next

LEMMA Adds ==
    ASSUME IInv, IInv', NEW k \in Keys, NEW b \in BOOLEAN, k = NoKey \/ ~Told(k),
           lines' = Added(k, b), UNCHANGED <<cursor, seen>>
    PROVE  [Feed!Next]_Feed!vars
<1>1. Len(lines) \in Nat /\ FileOK /\ FileOK'  BY LenProperties DEF IInv, FileOK
<1>2. CASE ~open /\ b = TRUE
  <2>1. lines' = Append(lines, Line(Len(lines) + 1, k, TRUE))  BY <1>2 DEF Added
  <2>2. QED  BY <1>2, <2>1, Grows
<1>3. CASE open
  <2>1. /\ Len(lines') = Len(lines) /\ lines'[Len(lines)].whole = FALSE
        /\ \A i \in 1..Len(lines) : i # Len(lines) => lines'[i] = lines[i]
    BY <1>1, <1>3, AddedLines
  <2>2. \A i \in 1..Len(lines') :
           /\ lines'[i].whole <=>
                 i \in 1..Len(lines) /\ lines[i].whole /\ ~(open /\ i = Len(lines))
           /\ lines'[i].whole => lines'[i] = lines[i]
    <3> TAKE i \in 1..Len(lines')
    <3>1. CASE i = Len(lines)  BY <1>3, <2>1, <3>1
    <3>2. CASE i # Len(lines)  BY <1>3, <2>1, <3>2
    <3>3. QED  BY <3>1, <3>2
  <2>3. Len(lines) <= Len(lines')  BY <1>1, <2>1
  <2>4. QED  BY <1>1, <2>2, <2>3, Shrinks
<1>4. CASE ~open /\ b = FALSE
  <2>1. /\ Len(lines') = Len(lines) + 1
        /\ \A i \in 1..Len(lines) : lines'[i] = lines[i]
        /\ lines'[Len(lines) + 1].whole = FALSE
    <3>1. /\ Len(lines') = Len(lines) + 1
          /\ \A i \in 1..Len(lines) : lines'[i] = lines[i]
          /\ lines'[Len(lines) + 1] = Line(Len(lines) + 1, k, b)
      BY <1>1, <1>4, AddedLines
    <3>2. QED  BY <1>4, <3>1, LineFields
  <2>2. \A i \in 1..Len(lines') :
           /\ lines'[i].whole <=>
                 i \in 1..Len(lines) /\ lines[i].whole /\ ~(open /\ i = Len(lines))
           /\ lines'[i].whole => lines'[i] = lines[i]
    <3> TAKE i \in 1..Len(lines')
    <3>1. CASE i = Len(lines) + 1
      <4>1. i \notin 1..Len(lines)  BY <1>1, <3>1
      <4>2. QED  BY <2>1, <3>1, <4>1
    <3>2. CASE i # Len(lines) + 1
      <4>1. i \in 1..Len(lines)  BY <1>1, <2>1, <3>2
      <4>2. QED  BY <1>4, <2>1, <4>1
    <3>3. QED  BY <3>1, <3>2
  <2>3. Len(lines) <= Len(lines')  BY <1>1, <2>1
  <2>4. QED  BY <1>1, <2>2, <2>3, Shrinks
<1>5. QED  BY <1>2, <1>3, <1>4

LEMMA ReadableIsFinite ==
    ASSUME IInv
    PROVE  \A r \in Readers : IsFiniteSet(Ids(After(r))) /\ Ids(After(r)) \subseteq 1..Len(lines)
<1> TAKE r \in Readers
<1>1. Len(lines) \in Nat  BY LenProperties DEF IInv, FileOK
<1>2. Ids(After(r)) \subseteq 1..Len(lines)  BY ReadableIds DEF Ids, After
<1>3. IsFiniteSet(1..Len(lines))  BY <1>1, FS_Interval
<1>4. QED  BY <1>2, <1>3, FS_Subset

\* A page holds every event between the cursor and its last event.
LEMMA Delivers ==
    ASSUME IInv, NEW r \in Readers, NEW e \in Page(r), \A f \in Page(r) : f.id <= e.id
    PROVE  Page(r) = {f \in Readable : cursor[r] < f.id /\ f.id <= e.id}
<1>1. e \in After(r) /\ e \in Readable  BY DEF Page, After
<1>2. PICK below : below = [f \in After(r) |-> {i \in Ids(After(r)) : i < f.id}]  OBVIOUS
<1>3. ASSUME NEW f \in Readable, cursor[r] < f.id, f.id <= e.id  PROVE f \in Page(r)
  <2>1. f.id \in Nat /\ e.id \in Nat /\ cursor[r] \in Nat
    BY <1>1, ReadableIds, LenProperties DEF IInv, FileOK, CursorsInFile
  <2>2. f \in After(r)  BY <1>3, <2>1 DEF After
  <2>3. Ids(After(r)) \subseteq 1..Len(lines) /\ IsFiniteSet(Ids(After(r)))  BY ReadableIsFinite
  <2>4. PICK F : F = {i \in Ids(After(r)) : i < f.id}  OBVIOUS
  <2>5. PICK E : E = {i \in Ids(After(r)) : i < e.id}  OBVIOUS
  <2>6. IsFiniteSet(E)  BY <2>3, <2>5, FS_Subset
  <2>7. F \subseteq E  BY <1>3, <2>1, <2>3, <2>4, <2>5
  <2>8. Cardinality(F) <= Cardinality(E)  BY <2>6, <2>7, FS_Subset
  <2>9. Cardinality(E) < PageSize  BY <2>5 DEF Page
  <2>10. Cardinality(E) \in Nat /\ Cardinality(F) \in Nat
    BY <2>6, <2>7, FS_Subset, FS_CardinalityType
  <2>11. Cardinality(F) < PageSize  BY <2>8, <2>9, <2>10, CountsAssumption
  <2>12. QED  BY <2>2, <2>4, <2>11 DEF Page
<1>4. ASSUME NEW f \in Page(r)  PROVE f \in Readable /\ cursor[r] < f.id /\ f.id <= e.id
  <2>1. f \in Readable /\ f.id > cursor[r]  BY DEF Page, After
  <2>2. f.id \in Nat /\ cursor[r] \in Nat
    BY <2>1, ReadableIds DEF IInv, CursorsInFile
  <2>3. QED  BY <2>1, <2>2
<1>5. QED  BY <1>3, <1>4

LEMMA FeedInit == Init => Feed!Init
<1> SUFFICES ASSUME Init PROVE Feed!Init  OBVIOUS
<1>1. Readable = {}  BY EmptySeq DEF Init, Readable
<1>2. QED  BY <1>1 DEF Init, Feed!Init

LEMMA FeedKept == ASSUME UNCHANGED <<lines, cursor, seen>> PROVE [Feed!Next]_Feed!vars
BY DEF Readable, Event, Feed!vars

LEMMA FeedStep == IInv /\ IInv' /\ [Next]_vars => [Feed!Next]_Feed!vars
<1> SUFFICES ASSUME IInv, IInv', [Next]_vars PROVE [Feed!Next]_Feed!vars  OBVIOUS
<1>1. CASE UNCHANGED vars  BY <1>1, FeedKept DEF vars
<1>2. ASSUME NEW w \in Writers,
             \/ Emit(w) \/ EndRun(w) \/ Rebuild(w) \/ Project(w) \/ Die(w)
             \/ \E n \in Nodes : CommitNode(w, n)
      PROVE  [Feed!Next]_Feed!vars
  <2>1. UNCHANGED <<lines, cursor, seen>>
    BY <1>2 DEF Emit, EndRun, Rebuild, Project, Die, CommitNode, file, streams
  <2>2. QED  BY <2>1, FeedKept
<1>3. ASSUME NEW w \in Writers, NEW k \in Keys, AppendWhole(w, k)  PROVE [Feed!Next]_Feed!vars
  <2>1. UNCHANGED <<cursor, seen>>  BY <1>3 DEF AppendWhole, streams
  <2>2. CASE UNCHANGED lines  BY <2>1, <2>2, FeedKept
  <2>3. CASE (k = NoKey \/ ~Told(k)) /\ lines' = Added(k, TRUE)
    BY <2>1, <2>3, Adds
  <2>4. QED  BY <1>3, <2>2, <2>3 DEF AppendWhole
<1>4. ASSUME NEW w \in Writers, AppendSplit(w)  PROVE [Feed!Next]_Feed!vars
  <2>1. UNCHANGED <<cursor, seen>> /\ lines' = Split /\ open' \in BOOLEAN
    BY <1>4 DEF AppendSplit, streams
  <2>2. /\ Len(lines) <= Len(lines')
        /\ \A i \in 1..Len(lines') : lines'[i].whole <=>
              i \in 1..Len(lines) /\ lines[i].whole /\ ~(open /\ i = Len(lines))
        /\ \A i \in 1..Len(lines') : lines'[i].whole => lines'[i] = lines[i]
    BY <2>1, InvSplit, NoKeyIsAKey
  <2>3. FileOK'  BY DEF IInv
  <2>4. QED  BY <2>1, <2>2, <2>3, Shrinks
<1>5. ASSUME NEW w \in Writers, NEW k \in Keys, NEW cut, AppendTorn(w, k, cut)
      PROVE  [Feed!Next]_Feed!vars
  <2>1. PICK b \in BOOLEAN : b = (cut = "newline")  OBVIOUS
  <2>2. /\ UNCHANGED <<cursor, seen>> /\ lines' = Added(k, b)
        /\ k = NoKey \/ ~Told(k)
    BY <1>5, <2>1 DEF AppendTorn, streams
  <2>3. QED  BY <2>2, Adds
<1>6. ASSUME NEW r \in Readers, Poll(r)  PROVE [Feed!Next]_Feed!vars
  <2>1. UNCHANGED lines  BY <1>6 DEF Poll, file
  <2>2. CASE UNCHANGED <<cursor, seen>>  BY <2>1, <2>2, FeedKept
  <2>3. CASE \E e \in Page(r) :
               /\ \A f \in Page(r) : f.id <= e.id
               /\ cursor' = [cursor EXCEPT ![r] = e.id]
               /\ seen' = [seen EXCEPT ![r] = @ \cup Page(r)]
    <3>1. PICK e \in Page(r) :
             /\ \A f \in Page(r) : f.id <= e.id
             /\ cursor' = [cursor EXCEPT ![r] = e.id]
             /\ seen' = [seen EXCEPT ![r] = @ \cup Page(r)]
      BY <2>3
    <3>2. e \in Readable /\ e.id > cursor[r]  BY DEF Page, After
    <3>3. Page(r) = {f \in Readable : cursor[r] < f.id /\ f.id <= e.id}
      BY <3>1, Delivers
    <3>4. Readable' = Readable  BY <2>1 DEF Readable, Event
    <3>5. Feed!Deliver(r, e)  BY <3>1, <3>2, <3>3, <3>4 DEF Feed!Deliver
    <3>6. QED  BY <3>2, <3>5 DEF Feed!Next
  <2>4. QED  BY <1>6, <2>2, <2>3 DEF Poll
<1>7. ASSUME NEW r \in Readers, PollRaises(r) \/ Look(r)  PROVE [Feed!Next]_Feed!vars
  BY <1>7, FeedKept DEF PollRaises, Look, file
<1>8. QED
  BY <1>1, <1>2, <1>3, <1>4, <1>5, <1>6, <1>7 DEF Next

\* The log, its writers, recovery and the streams are a feed: what a stream was
\* given up to its cursor has no gap, whatever was cut short or cannot be decoded.
THEOREM Refinement == Spec => FeedSpec
BY InvInit, InvStep, FeedInit, FeedStep, Invariance, PTL DEF Spec, FeedSpec, Feed!Spec

--------------------------------------------------------------------------------
(***************************************************************************)
(* What recovery restored stays told.  A key is due once the projection    *)
(* shows its node, or a recovery that will show it has told it; it is owed *)
(* when it is due and cannot be read.  A write cut short owes nothing yet, *)
(* but leaves the log open, and the text that is glued to it then loses    *)
(* two keys at most: the one at the end of the log and its own (Covered).  *)
(***************************************************************************)
Needs(n, k) == k \in {Committed(n), Completed(n)}
Due(k) ==
    \/ \E n \in projection : Needs(n, k)
    \/ \E w \in Writers : k \notin todo[w] /\ \E n \in basis[w] : Needs(n, k)
Owed == {k \in Keys \ {NoKey} : ~Told(k) /\ Due(k)}

Covered == Cardinality(Owed) + (IF open THEN 2 ELSE 0) <= 2 * tears
Released == \A w \in Writers \ recovering : basis[w] = {}

OInv == IInv /\ ThreadTypes /\ Released /\ Covered

LEMMA OwedIsFinite == IsFiniteSet(Owed) /\ Cardinality(Owed) \in Nat
<1>1. NoKey \in Nat  BY CountsAssumption DEF NoKey
<1>2. IsFiniteSet(Keys)  BY <1>1, FS_Interval DEF Keys
<1>3. IsFiniteSet(Owed)  BY <1>2, FS_Subset DEF Owed
<1>4. QED  BY <1>3, FS_CardinalityType

\* At most m keys more.
LEMMA OwesMore ==
    ASSUME NEW k, NEW l, Owed' \subseteq Owed \cup {k, l}
    PROVE  /\ Cardinality(Owed') \in Nat /\ Cardinality(Owed') <= Cardinality(Owed) + 2
           /\ Owed' \subseteq Owed => Cardinality(Owed') <= Cardinality(Owed)
<1>1. IsFiniteSet(Owed) /\ Cardinality(Owed) \in Nat  BY OwedIsFinite
<1> DEFINE S == Owed \cup {k}
           T == S \cup {l}
<1>2. /\ IsFiniteSet(S) /\ Cardinality(S) \in Nat
      /\ Cardinality(S) <= Cardinality(Owed) + 1
  BY <1>1, FS_AddElement, FS_CardinalityType
<1> HIDE DEF S
<1>3. /\ IsFiniteSet(T) /\ Cardinality(T) \in Nat
      /\ Cardinality(T) <= Cardinality(S) + 1
  <2>1. IsFiniteSet(S)  BY <1>2
  <2>2. IsFiniteSet(S \cup {l})
        /\ Cardinality(S \cup {l}) = IF l \in S THEN Cardinality(S) ELSE Cardinality(S) + 1
    BY <2>1, FS_AddElement
  <2>3. QED  BY <1>2, <2>2
<1>4. Owed' \subseteq T  BY DEF S
<1>5. /\ IsFiniteSet(Owed') /\ Cardinality(Owed') \in Nat
      /\ Cardinality(Owed') <= Cardinality(T)
  BY <1>3, <1>4, FS_Subset, FS_CardinalityType
<1>6. Owed' \subseteq Owed => Cardinality(Owed') <= Cardinality(Owed)
  BY <1>1, FS_Subset
<1>7. QED  BY <1>1, <1>2, <1>3, <1>5, <1>6

LEMMA OwesNoMore ==
    ASSUME OInv, Owed' \subseteq Owed,
           \/ UNCHANGED <<open, tears>>
           \/ open' = FALSE /\ UNCHANGED tears
           \/ open' = TRUE /\ tears' = tears + 1
    PROVE  Covered'
<1>1. /\ Cardinality(Owed') \in Nat /\ Cardinality(Owed) \in Nat
      /\ Cardinality(Owed') <= Cardinality(Owed)
  BY OwedIsFinite, OwesMore
<1>2. tears \in Nat /\ open \in BOOLEAN
  BY DEF OInv, ThreadTypes, IInv, FileOK
<1>3. QED  BY <1>1, <1>2 DEF OInv, Covered

\* The text glued to an unfinished line takes two keys at most out of the log.
LEMMA GluedOwes ==
    ASSUME OInv, open, NEW k, NEW l, Owed' \subseteq Owed \cup {k, l},
           \/ open' = FALSE /\ UNCHANGED tears
           \/ open' = TRUE /\ tears' = tears + 1
    PROVE  Covered'
<1>1. /\ Cardinality(Owed') \in Nat /\ Cardinality(Owed) \in Nat
      /\ Cardinality(Owed') <= Cardinality(Owed) + 2
  BY OwedIsFinite, OwesMore
<1>2. tears \in Nat
  BY DEF OInv, ThreadTypes
<1>3. QED  BY <1>1, <1>2 DEF OInv, Covered

\* What is told while the lines are only added to, and what may be lost of it.
LEMMA ToldByLine ==
    ASSUME FileOK, NEW k
    PROVE  Told(k) <=> \E i \in 1..Len(lines) : lines[i].whole /\ lines[i].key = k
<1>1. DOMAIN lines = 1..Len(lines)  BY LenProperties DEF FileOK
<1>2. ASSUME Told(k) PROVE \E i \in 1..Len(lines) : lines[i].whole /\ lines[i].key = k
  <2>1. PICK e \in Readable : e.key = k  BY <1>2 DEF Told
  <2>2. PICK i \in 1..Len(lines) : lines[i].whole /\ e = Event(i)  BY <1>1 DEF Readable
  <2>3. QED  BY <2>1, <2>2 DEF Event
<1>3. ASSUME NEW i \in 1..Len(lines), lines[i].whole, lines[i].key = k PROVE Told(k)
  <2>1. Event(i) \in Readable /\ Event(i).key = k  BY <1>1, <1>3 DEF Readable, Event
  <2>2. QED  BY <2>1 DEF Told
<1>4. QED  BY <1>2, <1>3

LEMMA ToldStays ==
    ASSUME FileOK, FileOK', Len(lines) <= Len(lines'),
           \A i \in 1..Len(lines) : i # Len(lines) \/ ~open => lines'[i] = lines[i],
           NEW k, Told(k), ~Told(k)'
    PROVE  open /\ k = lines[Len(lines)].key
<1>1. Len(lines) \in Nat /\ Len(lines') \in Nat  BY LenProperties DEF FileOK
<1>2. PICK i \in 1..Len(lines) : lines[i].whole /\ lines[i].key = k  BY ToldByLine
<1>3. \A j \in 1..Len(lines') : ~(lines'[j].whole /\ lines'[j].key = k)
  <2> SUFFICES ASSUME NEW j \in 1..Len(lines'), lines'[j].whole, lines'[j].key = k
               PROVE  FALSE
    OBVIOUS
  <2>1. DOMAIN lines' = 1..Len(lines')  BY LenProperties DEF FileOK
  <2>2. Event(j)' \in Readable'  BY <2>1 DEF Readable, Event
  <2>3. Event(j)'.key = k  BY DEF Event
  <2>4. QED  BY <2>2, <2>3 DEF Told
<1>4. i \in 1..Len(lines')  BY <1>1
<1>5. lines'[i] # lines[i]  BY <1>2, <1>3, <1>4
<1>6. QED  BY <1>2, <1>5

\* Steps of threads that leave the file alone.
LEMMA ThreadCovered ==
    ASSUME OInv, UNCHANGED <<lines, open, tears>>,
           \A k \in Keys \ {NoKey} : Due(k)' => Due(k) \/ Told(k)
    PROVE  Covered'
<1>1. \A k : Told(k)' <=> Told(k)  BY DEF Told, Readable, Event
<1>2. Owed' \subseteq Owed  BY <1>1 DEF Owed
<1>3. QED  BY <1>2, OwesNoMore

\* A thread that is idle, or gives up, has nothing due by its basis.
LEMMA DueByOthers ==
    ASSUME OInv, NEW w \in Writers, NEW k, UNCHANGED projection, basis'[w] = {},
           \A v \in Writers \ {w} : todo'[v] = todo[v] /\ basis'[v] = basis[v],
           Due(k)'
    PROVE  Due(k)
BY DEF Due, Needs, Committed, Completed

LEMMA GivenUp ==
    ASSUME OInv, NEW w \in Writers, GivesUp(w)
    PROVE  /\ basis'[w] = {} /\ Released'
           /\ \A v \in Writers \ {w} : todo'[v] = todo[v] /\ basis'[v] = basis[v]
BY DEF GivesUp, OInv, ThreadTypes, Released


LEMMA CoveredStep ==
    ASSUME OInv, IInv', [Next]_vars
    PROVE  Covered' /\ Released'
<1>1. CASE UNCHANGED vars
  <2>1. UNCHANGED <<lines, open, tears, todo, basis, projection, recovering>>
    BY <1>1 DEF vars
  <2>2. \A k \in Keys : Due(k)' => Due(k)  BY <2>1 DEF Due
  <2>3. QED  BY <2>1, <2>2, ThreadCovered DEF OInv, Released
<1>2. ASSUME NEW w \in Writers, Emit(w) \/ EndRun(w) \/ \E n \in Nodes : CommitNode(w, n)
      PROVE  Covered' /\ Released'
  <2>1. UNCHANGED <<lines, open, tears, basis, projection, recovering>> /\ basis[w] = {}
    BY <1>2 DEF Emit, EndRun, CommitNode, Idle, file, record, streams, OInv, Released
  <2>2. \A v \in Writers \ {w} : todo'[v] = todo[v]
    BY <1>2 DEF Emit, EndRun, CommitNode, OInv, ThreadTypes
  <2>3. \A k \in Keys : Due(k)' => Due(k)  BY <2>1, <2>2, DueByOthers
  <2>4. QED  BY <2>1, <2>3, ThreadCovered DEF OInv, Released
<1>3. ASSUME NEW w \in Writers, Rebuild(w)  PROVE Covered' /\ Released'
  <2>1. /\ UNCHANGED <<lines, open, tears, projection>>
        /\ recovering' = recovering \cup {w}
        /\ basis' = [basis EXCEPT ![w] = checkpoints]
        /\ todo' = [todo EXCEPT ![w] = {Committed(n) : n \in checkpoints}
                                       \cup {Completed(n) : n \in checkpoints}]
    BY <1>3 DEF Rebuild, file, record, streams
  <2>2. /\ basis'[w] = checkpoints
        /\ \A n \in checkpoints : \A k : Needs(n, k) => k \in todo'[w]
        /\ \A v \in Writers \ {w} : todo'[v] = todo[v] /\ basis'[v] = basis[v]
    BY <2>1 DEF Needs, OInv, ThreadTypes
  <2>3. \A k \in Keys : Due(k)' => Due(k)
    BY <2>1, <2>2 DEF Due, Needs, Committed, Completed
  <2>4. Released'  BY <2>1, <2>2 DEF OInv, Released
  <2>5. QED  BY <2>1, <2>3, <2>4, ThreadCovered
<1>4. ASSUME NEW w \in Writers, Project(w)  PROVE Covered' /\ Released'
  <2>1. /\ UNCHANGED <<lines, open, tears, todo>> /\ todo[w] = {}
        /\ projection' = basis[w] /\ recovering' = recovering \ {w}
        /\ basis' = [basis EXCEPT ![w] = {}]
    BY <1>4 DEF Project, file, streams
  <2>2. basis'[w] = {} /\ \A v \in Writers \ {w} : basis'[v] = basis[v]
    BY <2>1 DEF OInv, ThreadTypes
  <2>3. \A k \in Keys : Due(k)' => Due(k)
    BY <2>1, <2>2 DEF Due, Needs, Committed, Completed
  <2>4. Released'  BY <2>1, <2>2 DEF OInv, Released
  <2>5. QED  BY <2>1, <2>3, <2>4, ThreadCovered
<1>5. ASSUME NEW w \in Writers, Die(w)  PROVE Covered' /\ Released'
  <2>1. UNCHANGED <<lines, open, tears, projection>> /\ GivesUp(w)
    BY <1>5 DEF Die, file, record
  <2>2. \A k \in Keys : Due(k)' => Due(k)  BY <2>1, GivenUp, DueByOthers
  <2>3. QED  BY <2>1, <2>2, GivenUp, ThreadCovered
<1>6. ASSUME NEW w \in Writers, NEW k \in Keys, AppendWhole(w, k)
      PROVE  Covered' /\ Released'
  <2>1. /\ UNCHANGED <<tears, basis, recovering, projection>>
        /\ todo' = [todo EXCEPT ![w] = @ \ {k}]
    BY <1>6 DEF AppendWhole, record
  <2>2. Released'  BY <2>1 DEF OInv, Released
  <2>3. \A l : Due(l)' => Due(l) \/ l = k
    BY <2>1 DEF Due, OInv, ThreadTypes
  <2>4. CASE (k = NoKey \/ Told(k)) /\ UNCHANGED <<lines, open>>
    BY <2>1, <2>2, <2>3, <2>4, ThreadCovered
  <2>5. CASE (k = NoKey \/ ~Told(k)) /\ lines' = Added(k, TRUE) /\ open' = FALSE
    <3>1. FileOK /\ FileOK' /\ Len(lines) \in Nat
      BY LenProperties DEF OInv, IInv, FileOK
    <3>2. /\ open => Len(lines') = Len(lines)
          /\ ~open => Len(lines') = Len(lines) + 1
          /\ ~open => lines'[Len(lines) + 1] = Line(Len(lines) + 1, k, TRUE)
          /\ \A i \in 1..Len(lines) : i # Len(lines) \/ ~open => lines'[i] = lines[i]
      BY <2>5, <3>1, AddedLines
    <3>3. Len(lines) <= Len(lines')
      BY <3>1, <3>2
    <3>4. \A l : Told(l) /\ ~Told(l)' => open /\ l = lines[Len(lines)].key
      BY <3>1, <3>2, <3>3, ToldStays
    <3>5. CASE open
      <4>1. Owed' \subseteq Owed \cup {k, lines[Len(lines)].key}
        BY <2>3, <3>4 DEF Owed
      <4>2. QED  BY <2>1, <2>2, <2>5, <3>5, <4>1, GluedOwes
    <3>6. CASE ~open
      <4>1. Len(lines) + 1 \in DOMAIN lines'
        <5>1. DOMAIN lines' = 1..Len(lines')  BY <3>1, LenProperties DEF FileOK
        <5>2. QED  BY <3>1, <3>2, <3>6, <5>1
      <4>2. Told(k)'
        <5> DEFINE e == Line(Len(lines) + 1, k, TRUE)
        <5>6. lines'[Len(lines) + 1] = e  BY <3>2, <3>6
        <5>7. e.whole /\ e.key = k  BY DEF Line
        <5>1. lines'[Len(lines) + 1].whole /\ lines'[Len(lines) + 1].key = k
          BY <5>6, <5>7
        <5>2. PICK i : i = Len(lines) + 1  OBVIOUS
        <5>3. Event(i)' \in Readable'  BY <4>1, <5>1, <5>2 DEF Readable, Event
        <5>4. Event(i)'.key = k  BY <5>1, <5>2 DEF Event
        <5>5. QED  BY <5>3, <5>4 DEF Told
      <4>3. Owed' \subseteq Owed  BY <2>3, <3>4, <3>6, <4>2 DEF Owed
      <4>4. QED  BY <2>1, <2>2, <2>5, <4>3, OwesNoMore
    <3>7. QED  BY <3>5, <3>6
  <2>6. QED  BY <1>6, <2>4, <2>5 DEF AppendWhole
<1>7. ASSUME NEW w \in Writers, AppendSplit(w)  PROVE Covered' /\ Released'
  <2>1. /\ UNCHANGED <<tears, basis, recovering, projection, cursor>>
        /\ todo' = [todo EXCEPT ![w] = @ \ {NoKey}]
        /\ lines' = Split /\ open' = FALSE
    BY <1>7 DEF AppendSplit, record, streams
  <2>2. Released'  BY <2>1 DEF OInv, Released
  <2>3. \A l : Due(l)' => Due(l) \/ l = NoKey
    BY <2>1 DEF Due, OInv, ThreadTypes
  <2>4. FileOK /\ FileOK' /\ Len(lines) \in Nat
    BY LenProperties DEF OInv, IInv, FileOK
  <2>5. \A l : Told(l) /\ ~Told(l)' => open /\ l = lines[Len(lines)].key
    <3>1. /\ Len(lines) <= Len(lines')
          /\ \A i \in 1..Len(lines') : lines'[i].whole <=>
                i \in 1..Len(lines) /\ lines[i].whole /\ ~(open /\ i = Len(lines))
          /\ \A i \in 1..Len(lines') : lines'[i].whole => lines'[i] = lines[i]
      BY <2>1, InvSplit, NoKeyIsAKey DEF OInv
    <3>2. SUFFICES ASSUME NEW l, Told(l), ~Told(l)'
                   PROVE  open /\ l = lines[Len(lines)].key
      OBVIOUS
    <3>3. PICK i \in 1..Len(lines) : lines[i].whole /\ lines[i].key = l
      BY <2>4, <3>2, ToldByLine
    <3>4. Len(lines') \in Nat /\ DOMAIN lines' = 1..Len(lines')
      BY <2>4, LenProperties DEF FileOK
    <3>5. i \in 1..Len(lines')  BY <2>4, <3>1, <3>4
    <3>6. ASSUME ~(open /\ i = Len(lines))  PROVE FALSE
      <4>1. lines'[i].whole /\ lines'[i] = lines[i]  BY <3>1, <3>3, <3>5, <3>6
      <4>2. Event(i)' \in Readable'  BY <3>4, <3>5, <4>1 DEF Readable, Event
      <4>3. Event(i)'.key = l  BY <3>3, <4>1 DEF Event
      <4>4. QED  BY <3>2, <4>2, <4>3 DEF Told
    <3>7. QED  BY <3>3, <3>6
  <2>6. Owed' \subseteq Owed \cup {NoKey, lines[Len(lines)].key}
    BY <2>3, <2>5 DEF Owed
  <2>7. CASE open  BY <2>1, <2>2, <2>6, <2>7, GluedOwes
  <2>8. CASE ~open
    <3>1. Owed' \subseteq Owed  BY <2>3, <2>5, <2>8 DEF Owed
    <3>2. QED  BY <2>1, <2>2, <3>1, OwesNoMore
  <2>9. QED  BY <2>7, <2>8
<1>8. ASSUME NEW w \in Writers, NEW k \in Keys, NEW cut, AppendTorn(w, k, cut)
      PROVE  Covered' /\ Released'
  <2>1. PICK b \in BOOLEAN : b = (cut = "newline")  OBVIOUS
  <2>2. /\ UNCHANGED projection /\ GivesUp(w)
        /\ lines' = Added(k, b) /\ open' = TRUE /\ tears' = tears + 1
    BY <1>8, <2>1 DEF AppendTorn, record
  <2>3. Released'  BY <2>2, GivenUp
  <2>4. \A l : Due(l)' => Due(l)  BY <2>2, GivenUp, DueByOthers
  <2>5. FileOK /\ FileOK' /\ Len(lines) \in Nat
    BY LenProperties DEF OInv, IInv, FileOK
  <2>6. /\ open => Len(lines') = Len(lines)
        /\ ~open => Len(lines') = Len(lines) + 1
        /\ \A i \in 1..Len(lines) : i # Len(lines) \/ ~open => lines'[i] = lines[i]
    BY <2>2, <2>5, AddedLines
  <2>7. Len(lines) <= Len(lines')  BY <2>5, <2>6
  <2>8. \A l : Told(l) /\ ~Told(l)' => open /\ l = lines[Len(lines)].key
    BY <2>5, <2>6, <2>7, ToldStays
  <2>9. CASE open
    <3>1. Owed' \subseteq Owed \cup {k, lines[Len(lines)].key}  BY <2>4, <2>8 DEF Owed
    <3>2. QED  BY <2>2, <2>3, <2>9, <3>1, GluedOwes
  <2>10. CASE ~open
    <3>1. Owed' \subseteq Owed  BY <2>4, <2>8, <2>10 DEF Owed
    <3>2. QED  BY <2>2, <2>3, <3>1, OwesNoMore
  <2>11. QED  BY <2>9, <2>10
<1>9. ASSUME NEW r \in Readers, Poll(r) \/ PollRaises(r) \/ Look(r)
      PROVE  Covered' /\ Released'
  <2>1. UNCHANGED <<lines, open, tears, todo, basis, projection, recovering>>
    BY <1>9 DEF Poll, PollRaises, Look, file, record
  <2>2. \A k \in Keys : Due(k)' => Due(k)  BY <2>1 DEF Due
  <2>3. QED  BY <2>1, <2>2, ThreadCovered DEF OInv, Released
<1>10. QED
  BY <1>1, <1>2, <1>3, <1>4, <1>5, <1>6, <1>7, <1>8, <1>9 DEF Next

\* Every checkpoint that the task record shows is told of in the log, but for two
\* events at most per write that was cut short.
THEOREM RestoredStaysTold == Spec => []RestoredIsTold
<1>1. Init => OInv
  <2> SUFFICES ASSUME Init PROVE OInv  OBVIOUS
  <2>1. IInv  BY InvInit
  <2>2. ThreadTypes
    <3>1. broken \in BOOLEAN /\ ended \in BOOLEAN  BY DEF Init
    <3>2. QED  BY <3>1 DEF Init, ThreadTypes
  <2>3. Released  BY DEF Init, Released
  <2>4. Owed = {}  BY DEF Init, Owed, Due
  <2>5. Covered  BY <2>4, FS_EmptySet DEF Init, Covered
  <2>6. QED  BY <2>1, <2>2, <2>3, <2>5 DEF OInv
<1>2. OInv /\ [Next]_vars => OInv'
  BY InvStep, TypesStep, CoveredStep DEF OInv
<1>3. OInv => RestoredIsTold
  <2> SUFFICES ASSUME OInv PROVE RestoredIsTold  OBVIOUS
  <2>1. Untold \subseteq Owed  BY DEF Untold, Owed, Due, Needs
  <2>2. /\ Cardinality(Untold) \in Nat /\ Cardinality(Owed) \in Nat
        /\ Cardinality(Untold) <= Cardinality(Owed)
    BY <2>1, OwedIsFinite, FS_Subset, FS_CardinalityType
  <2>3. tears \in Nat /\ open \in BOOLEAN  BY DEF OInv, ThreadTypes, IInv, FileOK
  <2>4. QED  BY <2>2, <2>3 DEF OInv, Covered, RestoredIsTold
<1>4. QED  BY <1>1, <1>2, <1>3, PTL DEF Spec
================================================================================
