--------------------------- MODULE TaskAttemptsProofs ---------------------------
(***************************************************************************)
(* The authors of a workflow see a history, and an attempt runs what the   *)
(* publisher of its version had saved: for any number of windows, requests *)
(* under way, versions, revisions and attempts.                            *)
(***************************************************************************)
EXTENDS TaskAttempts, SequenceTheorems, TLAPS

Row == [state : {"draft", "published"}, revision : Nat, graph : Seq(Edits)]

RowsOK == versions \in Seq(Row) /\ saved \in Seq(Seq(Edits))

\* The draft, if there is one, is the last version, and what was published is what its
\* publishers had saved.
HeaderOK ==
    /\ current \in {0, Len(saved) + 1}
    /\ Len(versions) = IF current = 0 THEN Len(saved) ELSE current
    /\ \A n \in 1..Len(versions) : versions[n].state = "draft" <=> n = current
    /\ \A n \in 1..Len(saved) : versions[n].graph = saved[n]

\* g was version n at revision r.
Was(n, r, g) ==
    /\ n \in 1..Len(versions) /\ r \in Nat /\ g \in Seq(Edits)
    /\ r <= versions[n].revision
    /\ r = versions[n].revision => g = versions[n].graph

\* What a window has saved was so, and its canvas shows that and the edits since.
WindowsOK ==
    /\ window \in [Authors -> [version : Nat, revision : Nat, graph : Seq(Edits)]]
    /\ screen \in [Authors -> Seq(Edits)]
    /\ \A c \in Authors : /\ Was(window[c].version, window[c].revision, window[c].graph)
                          /\ History!Continues(window[c].graph, screen[c])

\* What a request says was true of some revision, and the window that awaits its response
\* has seen no older one; it may still show all that it asked to save.
Asks(q, g) ==
    /\ q.op = "save" => History!Continues(g, q.content)
    /\ q.op = "add" => q.content \in Edits /\ ~Contains(g, q.content)
    /\ q.op = "publish" => q.content = g

Awaits(q) ==
    q.author # Nobody =>
        /\ q.author \in Authors
        /\ window[q.author].version = q.version
        /\ q.revision <= window[q.author].revision
        /\ q.op = "save" /\ q.revision = window[q.author].revision
           => History!Continues(q.content, screen[q.author])

RequestType ==
    [op : {"save", "add", "derive", "publish"}, author : Authors \cup {Nobody},
     version : Nat, revision : Nat, content : Seq(Edits) \cup Edits \cup {NoGraph}]

RequestOK(q) ==
    /\ q \in RequestType
    /\ \E g \in Seq(Edits) : Was(q.version, q.revision, g) /\ Asks(q, g)
    /\ Awaits(q)

RequestsOK == \A q \in requests : RequestOK(q)

AuthoringInv == RowsOK /\ HeaderOK /\ WindowsOK /\ RequestsOK

--------------------------------------------------------------------------------
(* What the handlers leave of what was.                                        *)

\* Every version is later, or as it was.
Later ==
    \A n \in 1..Len(versions) :
        /\ n \in 1..Len(versions')
        /\ versions'[n].revision \in Nat
        /\ \/ versions'[n].revision > versions[n].revision
           \/ /\ versions'[n].revision = versions[n].revision
              /\ versions'[n].graph = versions[n].graph

LEMMA RowFields ==
    ASSUME RowsOK, NEW n \in 1..Len(versions)
    PROVE  /\ versions[n] \in Row
           /\ versions[n].revision \in Nat /\ versions[n].graph \in Seq(Edits)
           /\ versions[n].state \in {"draft", "published"}
<1>1. versions[n] \in Row  BY ElementOfSeq DEF RowsOK
<1>2. QED  BY <1>1 DEF Row

LEMMA VersionFields ==
    ASSUME NEW s, NEW r, NEW g
    PROVE  /\ Version(s, r, g).state = s /\ Version(s, r, g).revision = r
           /\ Version(s, r, g).graph = g
           /\ (s \in {"draft", "published"} /\ r \in Nat /\ g \in Seq(Edits))
              => Version(s, r, g) \in Row
BY DEF Version, Row

LEMMA ViewFields ==
    ASSUME NEW n, NEW r, NEW g
    PROVE  View(n, r, g).version = n /\ View(n, r, g).revision = r /\ View(n, r, g).graph = g
BY DEF View

LEMMA RequestFields ==
    ASSUME NEW o, NEW c, NEW v, NEW x
    PROVE  /\ Request(o, c, v, x).op = o /\ Request(o, c, v, x).author = c
           /\ Request(o, c, v, x).version = v.version
           /\ Request(o, c, v, x).revision = v.revision
           /\ Request(o, c, v, x).content = x
           /\ (/\ o \in {"save", "add", "derive", "publish"} /\ c \in Authors \cup {Nobody}
               /\ v.version \in Nat /\ v.revision \in Nat
               /\ x \in Seq(Edits) \cup Edits \cup {NoGraph})
              => Request(o, c, v, x) \in RequestType
BY DEF Request, RequestType

LEMMA Names == NoGraph \notin Seq(Edits) /\ Nobody \notin Authors
BY NamesAssumption

LEMMA ContinuesSelf ==
    ASSUME NEW g \in Seq(Edits)
    PROVE  History!Continues(g, g)
BY LenProperties DEF History!Continues

\* A new edit of the canvas continues what the canvas continued.
LEMMA ContinuesFurther ==
    ASSUME NEW g \in Seq(Edits), NEW h, History!Continues(g, h), NEW e \in Edits,
           ~Contains(h, e)
    PROVE  History!Continues(g, Append(h, e))
<1>1. /\ h \in Seq(Edits) /\ Len(g) <= Len(h)
      /\ \A i \in 1..Len(g) : h[i] = g[i]
      /\ \A i, j \in 1..Len(h) : i < j /\ Len(g) < j => h[i] # h[j]
  BY DEF History!Continues
<1>2. Len(g) \in Nat /\ Len(h) \in Nat /\ \A i \in 1..Len(h) : h[i] # e
  BY <1>1, LenProperties DEF Contains
<1>3. PICK k : k = Append(h, e)  OBVIOUS
<1>4. /\ k \in Seq(Edits) /\ Len(k) = Len(h) + 1 /\ k[Len(h) + 1] = e
      /\ \A i \in 1..Len(h) : k[i] = h[i]
  BY <1>1, <1>3, AppendProperties
<1>5. ASSUME NEW i \in 1..Len(k), NEW j \in 1..Len(k), i < j, Len(g) < j
      PROVE  k[i] # k[j]
  <2>1. i \in 1..Len(h)  BY <1>2, <1>4, <1>5
  <2>2. CASE j \in 1..Len(h)  BY <1>1, <1>4, <1>5, <2>1, <2>2
  <2>3. CASE j = Len(h) + 1  BY <1>2, <1>4, <2>1, <2>3
  <2>4. QED  BY <1>2, <1>4, <2>2, <2>3
<1>6. \A i \in 1..Len(g) : k[i] = g[i]  BY <1>1, <1>2, <1>4
<1>7. Len(g) <= Len(k)  BY <1>1, <1>2, <1>4
<1>8. History!Continues(g, k)  BY <1>4, <1>5, <1>6, <1>7 DEF History!Continues
<1>9. QED  BY <1>3, <1>8

LEMMA WasLater ==
    ASSUME RowsOK, Later, NEW n, NEW r, NEW g, Was(n, r, g)
    PROVE  Was(n, r, g)'
<1>1. n \in 1..Len(versions) /\ r \in Nat /\ g \in Seq(Edits) /\ r <= versions[n].revision
  BY DEF Was
<1>2. versions[n].revision \in Nat  BY <1>1, RowFields
<1>3. n \in 1..Len(versions') /\ versions'[n].revision \in Nat  BY <1>1 DEF Later
<1>4. CASE versions'[n].revision > versions[n].revision
  BY <1>1, <1>2, <1>3, <1>4 DEF Was
<1>5. CASE versions'[n].revision = versions[n].revision /\ versions'[n].graph = versions[n].graph
  BY <1>1, <1>2, <1>3, <1>5 DEF Was
<1>6. QED  BY <1>1, <1>4, <1>5 DEF Later

LEMMA SameIsLater ==
    ASSUME RowsOK, UNCHANGED versions
    PROVE  Later
BY RowFields DEF Later

\* A request that stays as it is stays in order, if its window goes on or stays too.
LEMMA RequestStays ==
    ASSUME RowsOK, Later, NEW q, RequestOK(q),
           q.author # Nobody /\ q.author \in Authors =>
              /\ window'[q.author].version = window[q.author].version
              /\ window'[q.author].revision \in Nat /\ window[q.author].revision \in Nat
              /\ \/ window'[q.author].revision > window[q.author].revision
                 \/ /\ window'[q.author].revision = window[q.author].revision
                    /\ screen'[q.author] = screen[q.author]
    PROVE  RequestOK(q)'
<1>1. PICK g \in Seq(Edits) : Was(q.version, q.revision, g) /\ Asks(q, g)  BY DEF RequestOK
<1>2. Was(q.version, q.revision, g)'  BY <1>1, WasLater
<1>3. q.revision \in Nat  BY <1>1 DEF Was
<1>4. Awaits(q)'
  <2>1. CASE q.author = Nobody  BY <2>1 DEF Awaits
  <2>2. CASE q.author # Nobody
    <3>1. /\ q.author \in Authors /\ window[q.author].version = q.version
          /\ q.revision <= window[q.author].revision
          /\ q.op = "save" /\ q.revision = window[q.author].revision
             => History!Continues(q.content, screen[q.author])
      BY <2>2 DEF RequestOK, Awaits
    <3>2. CASE window'[q.author].revision > window[q.author].revision
      BY <1>3, <2>2, <3>1, <3>2 DEF Awaits
    <3>3. CASE /\ window'[q.author].revision = window[q.author].revision
               /\ screen'[q.author] = screen[q.author]
      <4>1. q.op = "save" /\ q.revision = window'[q.author].revision
            => History!Continues(q.content, screen'[q.author])
        BY <3>1, <3>3
      <4>2. QED  BY <1>3, <2>2, <3>1, <3>3, <4>1 DEF Awaits
    <3>4. QED  BY <2>2, <3>1, <3>2, <3>3
  <2>3. QED  BY <2>1, <2>2
<1>5. Asks(q, g)'  BY <1>1 DEF Asks, Contains, History!Continues
<1>6. QED  BY <1>2, <1>4, <1>5 DEF RequestOK

--------------------------------------------------------------------------------
(* The windows.                                                                *)
ViewType == [version : Nat, revision : Nat, graph : Seq(Edits)]

LEMMA WindowFields ==
    ASSUME WindowsOK, NEW c \in Authors
    PROVE  /\ window[c].version \in Nat /\ window[c].revision \in Nat
           /\ window[c].graph \in Seq(Edits) /\ screen[c] \in Seq(Edits)
           /\ Was(window[c].version, window[c].revision, window[c].graph)
           /\ History!Continues(window[c].graph, screen[c])
<1>1. window[c] \in ViewType  BY DEF WindowsOK, ViewType
<1>2. QED  BY <1>1 DEF WindowsOK, ViewType

\* A window may take what is true of a version, and its canvas what continues that.
LEMMA WindowTakes ==
    ASSUME WindowsOK, RowsOK, Later, NEW c \in Authors, NEW v \in ViewType,
           NEW h \in Seq(Edits), History!Continues(v.graph, h),
           Was(v.version, v.revision, v.graph)',
           window' = [window EXCEPT ![c] = v], screen' = [screen EXCEPT ![c] = h]
    PROVE  WindowsOK'
<1>1. window' \in [Authors -> ViewType] /\ screen' \in [Authors -> Seq(Edits)]
  BY DEF WindowsOK, ViewType
<1>2. ASSUME NEW d \in Authors
      PROVE  /\ Was(window[d].version, window[d].revision, window[d].graph)'
             /\ History!Continues(window'[d].graph, screen'[d])
  <2>1. CASE d = c  BY <2>1 DEF WindowsOK
  <2>2. CASE d # c
    <3>1. PICK n, r, g : n = window[d].version /\ r = window[d].revision /\ g = window[d].graph
      OBVIOUS
    <3>2. Was(n, r, g)' /\ History!Continues(g, screen[d])  BY <3>1, WindowFields, WasLater
    <3>3. window'[d] = window[d] /\ screen'[d] = screen[d]  BY <2>2 DEF WindowsOK
    <3>4. QED  BY <3>1, <3>2, <3>3 DEF Was
  <2>3. QED  BY <2>1, <2>2
<1>3. QED  BY <1>1, <1>2 DEF WindowsOK, ViewType

LEMMA WindowsStay ==
    ASSUME WindowsOK, RowsOK, Later, UNCHANGED <<window, screen>>
    PROVE  WindowsOK'
<1>1. ASSUME NEW d \in Authors
      PROVE  Was(window[d].version, window[d].revision, window[d].graph)'
  <2>1. PICK n, r, g : n = window[d].version /\ r = window[d].revision /\ g = window[d].graph
    OBVIOUS
  <2>2. Was(n, r, g)'  BY <2>1, WindowFields, WasLater
  <2>3. QED  BY <2>1, <2>2 DEF Was
<1>2. \A d \in Authors : History!Continues(window'[d].graph, screen'[d])  BY WindowFields
<1>3. QED  BY <1>1, <1>2 DEF WindowsOK

LEMMA OpenKeeps ==
    ASSUME AuthoringInv, NEW c \in Authors, Open(c)
    PROVE  AuthoringInv'
<1>1. RowsOK /\ HeaderOK /\ WindowsOK /\ RequestsOK  BY DEF AuthoringInv
<1>2. RowsOK' /\ HeaderOK'  BY <1>1 DEF Open, RowsOK, HeaderOK
<1>3. Later  BY <1>1, SameIsLater DEF Open
<1>4. PICK n \in DOMAIN versions :
        /\ window' = [window EXCEPT ![c] = View(n, versions[n].revision, versions[n].graph)]
        /\ screen' = [screen EXCEPT ![c] = versions[n].graph]
  BY DEF Open
<1>5. n \in 1..Len(versions) /\ n \in Nat  BY <1>1, LenProperties DEF RowsOK
<1>6. PICK v : v = View(n, versions[n].revision, versions[n].graph)  OBVIOUS
<1>7. v.version = n /\ v.revision = versions[n].revision /\ v.graph = versions[n].graph
  BY <1>6, ViewFields
<1>8. versions[n].revision \in Nat /\ versions[n].graph \in Seq(Edits)  BY <1>1, <1>5, RowFields
<1>9. v \in ViewType  BY <1>5, <1>6, <1>8 DEF View, ViewType
<1>10. Was(v.version, v.revision, v.graph)'
  BY <1>5, <1>7, <1>8 DEF Was, Open
<1>11. WindowsOK'
  BY <1>1, <1>3, <1>4, <1>6, <1>7, <1>8, <1>9, <1>10, ContinuesSelf, WindowTakes
<1>12. ASSUME NEW r \in requests'  PROVE RequestOK(r)'
  <2>1. PICK q \in requests : r = IF q.author = c THEN [q EXCEPT !.author = Nobody] ELSE q
    BY DEF Open, Abandoned
  <2>2. RequestOK(q)  BY <1>1 DEF RequestsOK
  <2>3. CASE q.author = c
    <3>1. /\ r.op = q.op /\ r.content = q.content /\ r.author = Nobody
          /\ r.version = q.version /\ r.revision = q.revision /\ r \in RequestType
      BY <2>1, <2>2, <2>3 DEF RequestOK, RequestType
    <3>2. PICK g \in Seq(Edits) : Was(q.version, q.revision, g) /\ Asks(q, g)
      BY <2>2 DEF RequestOK
    <3>3. Was(r.version, r.revision, g)'  BY <1>1, <1>3, <3>1, <3>2, WasLater
    <3>4. Asks(r, g)'  BY <3>1, <3>2 DEF Asks, Contains, History!Continues
    <3>5. Awaits(r)'  BY <3>1 DEF Awaits
    <3>6. QED  BY <3>1, <3>3, <3>4, <3>5 DEF RequestOK
  <2>4. CASE q.author # c
    <3>1. q.author # Nobody /\ q.author \in Authors
          => window'[q.author] = window[q.author] /\ screen'[q.author] = screen[q.author]
      BY <1>1, <1>4, <2>4 DEF WindowsOK
    <3>2. q.author # Nobody /\ q.author \in Authors => window[q.author].revision \in Nat
      BY <1>1, WindowFields
    <3>3. RequestOK(q)'  BY <1>1, <1>3, <2>2, <3>1, <3>2, RequestStays
    <3>4. QED  BY <2>1, <2>4, <3>3
  <2>5. QED  BY <2>3, <2>4
<1>13. QED  BY <1>2, <1>11, <1>12 DEF AuthoringInv, RequestsOK

LEMMA SendKeeps ==
    ASSUME AuthoringInv, NEW q, RequestOK(q), Send(q)
    PROVE  AuthoringInv'
<1>1. RowsOK /\ HeaderOK /\ WindowsOK /\ RequestsOK  BY DEF AuthoringInv
<1>2. RowsOK' /\ HeaderOK'  BY <1>1 DEF Send, RowsOK, HeaderOK
<1>3. Later  BY <1>1, SameIsLater DEF Send
<1>4. WindowsOK'  BY <1>1, <1>3, WindowsStay DEF Send
<1>5. ASSUME NEW r \in requests'  PROVE RequestOK(r)'
  <2>1. RequestOK(r)  BY <1>1 DEF Send, RequestsOK
  <2>2. r.author \in Authors => window[r.author].revision \in Nat  BY <1>1, WindowFields
  <2>3. QED  BY <1>1, <1>3, <2>1, <2>2, RequestStays DEF Send
<1>6. QED  BY <1>2, <1>4, <1>5 DEF AuthoringInv, RequestsOK

\* What is typed continues what was on the canvas, and what it continued.
LEMMA EditKeeps ==
    ASSUME AuthoringInv, NEW c \in Authors, NEW e \in Edits, Edit(c, e)
    PROVE  AuthoringInv'
<1>1. RowsOK /\ HeaderOK /\ WindowsOK /\ RequestsOK  BY DEF AuthoringInv
<1>2. RowsOK' /\ HeaderOK'  BY <1>1 DEF Edit, RowsOK, HeaderOK
<1>3. Later  BY <1>1, SameIsLater DEF Edit
<1>4. PICK s : s = screen[c]  OBVIOUS
<1>5. s \in Seq(Edits) /\ ~Contains(s, e) /\ Append(s, e) \in Seq(Edits)
  BY <1>1, <1>4, WindowFields, AppendProperties DEF Edit
<1>6. /\ window' = window /\ requests' = requests
      /\ screen' \in [Authors -> Seq(Edits)] /\ screen'[c] = Append(s, e)
      /\ \A d \in Authors : d # c => screen'[d] = screen[d]
  BY <1>1, <1>4, <1>5 DEF Edit, WindowsOK
<1>7. ASSUME NEW d \in Authors
      PROVE  /\ Was(window[d].version, window[d].revision, window[d].graph)'
             /\ History!Continues(window'[d].graph, screen'[d])
  <2>1. PICK n, r, g : n = window[d].version /\ r = window[d].revision /\ g = window[d].graph
    OBVIOUS
  <2>2. g \in Seq(Edits) /\ Was(n, r, g)' /\ History!Continues(g, screen[d])
    BY <1>1, <1>3, <2>1, WindowFields, WasLater
  <2>3. History!Continues(g, screen'[d])
    <3>1. CASE d = c  BY <1>4, <1>5, <1>6, <2>2, <3>1, ContinuesFurther
    <3>2. CASE d # c  BY <1>6, <2>2, <3>2
    <3>3. QED  BY <3>1, <3>2
  <2>4. QED  BY <1>6, <2>1, <2>2, <2>3 DEF Was
<1>8. WindowsOK'  BY <1>1, <1>6, <1>7 DEF WindowsOK
<1>9. ASSUME NEW r \in requests'  PROVE RequestOK(r)'
  <2>1. RequestOK(r)  BY <1>1, <1>6 DEF RequestsOK
  <2>2. r.author \in Authors => window[r.author].revision \in Nat  BY <1>1, WindowFields
  <2>3. CASE r.author # c
    <3>1. r.author \in Authors => screen'[r.author] = screen[r.author]  BY <1>6, <2>3
    <3>2. QED  BY <1>1, <1>3, <1>6, <2>1, <2>2, <3>1, RequestStays
  <2>4. CASE r.author = c
    <3>1. PICK g \in Seq(Edits) : Was(r.version, r.revision, g) /\ Asks(r, g)
      BY <2>1 DEF RequestOK
    <3>2. Was(r.version, r.revision, g)'  BY <1>1, <1>3, <3>1, WasLater
    <3>3. Asks(r, g)'  BY <3>1 DEF Asks, Contains, History!Continues
    <3>4. /\ window[c].version = r.version /\ r.revision <= window[c].revision
          /\ r.op = "save" /\ r.revision = window[c].revision
             => History!Continues(r.content, s)
      BY <1>4, <2>1, <2>4, Names DEF RequestOK, Awaits
    <3>5. r.op = "save" => r.content \in Seq(Edits)
      BY <3>1 DEF Asks, History!Continues
    <3>6. r.op = "save" /\ r.revision = window'[c].revision
          => History!Continues(r.content, screen'[c])
      BY <1>5, <1>6, <3>4, <3>5, ContinuesFurther
    <3>7. Awaits(r)'  BY <1>6, <2>4, <3>4, <3>6 DEF Awaits
    <3>8. QED  BY <2>1, <3>2, <3>3, <3>7 DEF RequestOK
  <2>5. QED  BY <2>3, <2>4
<1>10. QED  BY <1>2, <1>8, <1>9 DEF AuthoringInv, RequestsOK

LEMMA DropKeeps ==
    ASSUME AuthoringInv, NEW q, Drop(q)
    PROVE  AuthoringInv'
<1>1. RowsOK /\ HeaderOK /\ WindowsOK /\ RequestsOK  BY DEF AuthoringInv
<1>2. RowsOK' /\ HeaderOK'  BY <1>1 DEF Drop, RowsOK, HeaderOK
<1>3. Later  BY <1>1, SameIsLater DEF Drop
<1>4. WindowsOK'  BY <1>1, <1>3, WindowsStay DEF Drop
<1>5. ASSUME NEW r \in requests'  PROVE RequestOK(r)'
  <2>1. RequestOK(r)  BY <1>1 DEF Drop, RequestsOK
  <2>2. r.author \in Authors => window[r.author].revision \in Nat  BY <1>1, WindowFields
  <2>3. QED  BY <1>1, <1>3, <2>1, <2>2, RequestStays DEF Drop
<1>6. QED  BY <1>2, <1>4, <1>5 DEF AuthoringInv, RequestsOK

\* What a window sends is in order.
LEMMA SentOK ==
    ASSUME AuthoringInv, NEW c \in Authors, NEW a \in {c, Nobody},
           NEW o \in {"save", "add", "derive", "publish"},
           NEW x \in Seq(Edits) \cup Edits \cup {NoGraph}, o = "save" => x = screen[c],
           Asks(Request(o, a, window[c], x), window[c].graph)
    PROVE  RequestOK(Request(o, a, window[c], x))
<1>1. PICK q : q = Request(o, a, window[c], x)  OBVIOUS
<1>2. /\ window[c].version \in Nat /\ window[c].revision \in Nat /\ window[c].graph \in Seq(Edits)
      /\ Was(window[c].version, window[c].revision, window[c].graph)
      /\ screen[c] \in Seq(Edits)
  BY WindowFields DEF AuthoringInv
<1>3. /\ q \in RequestType /\ q.author = a /\ q.op = o /\ q.content = x
      /\ q.version = window[c].version /\ q.revision = window[c].revision
  BY <1>1, <1>2, RequestFields
<1>4. Awaits(q)  BY <1>2, <1>3, ContinuesSelf DEF Awaits
<1>5. Was(q.version, q.revision, window[c].graph)  BY <1>2, <1>3
<1>6. QED  BY <1>1, <1>2, <1>3, <1>4, <1>5 DEF RequestOK

LEMMA SendsKeep ==
    ASSUME AuthoringInv, NEW c \in Authors,
           \/ SendSave(c) \/ SendDerive(c) \/ SendPublish(c)
           \/ \E e \in Edits : SendAdd(c, e)
    PROVE  AuthoringInv'
<1>1. /\ window[c].graph \in Seq(Edits) /\ screen[c] \in Seq(Edits)
      /\ History!Continues(window[c].graph, screen[c])
  BY WindowFields DEF AuthoringInv
<1>2. CASE SendDerive(c)
  <2>1. Asks(Request("derive", c, window[c], NoGraph), window[c].graph)
    BY RequestFields DEF Asks
  <2>2. QED  BY <1>2, <2>1, SentOK, SendKeeps DEF SendDerive
<1>3. CASE SendPublish(c)
  <2>1. Asks(Request("publish", Nobody, window[c], window[c].graph), window[c].graph)
    BY RequestFields DEF Asks
  <2>2. RequestOK(Request("publish", Nobody, window[c], window[c].graph))
    BY <1>1, <2>1, SentOK
  <2>3. QED  BY <1>3, <2>2, SendKeeps DEF SendPublish
<1>4. CASE SendSave(c)
  <2>1. Asks(Request("save", c, window[c], screen[c]), window[c].graph)
    BY <1>1, RequestFields DEF Asks
  <2>2. RequestOK(Request("save", c, window[c], screen[c]))  BY <1>1, <2>1, SentOK
  <2>3. QED  BY <1>4, <2>2, SendKeeps DEF SendSave
<1>5. ASSUME NEW e \in Edits, SendAdd(c, e)  PROVE AuthoringInv'
  <2>1. ~Contains(window[c].graph, e)
    <3>1. ASSUME NEW i \in 1..Len(window[c].graph)  PROVE window[c].graph[i] # e
      <4>1. i \in 1..Len(screen[c]) /\ screen[c][i] = window[c].graph[i]
        BY <1>1, LenProperties DEF History!Continues
      <4>2. QED  BY <1>1, <1>5, <4>1, LenProperties DEF SendAdd, Contains
    <3>2. QED  BY <1>1, <3>1, LenProperties DEF Contains
  <2>2. Asks(Request("add", c, window[c], e), window[c].graph)
    BY <2>1, RequestFields DEF Asks
  <2>3. RequestOK(Request("add", c, window[c], e))  BY <2>2, SentOK
  <2>4. QED  BY <1>5, <2>3, SendKeeps DEF SendAdd
<1>6. QED  BY <1>2, <1>3, <1>4, <1>5

--------------------------------------------------------------------------------
(* The handlers.                                                               *)

\* What replacing the draft does to the rows: the draft is the last of them.
LEMMA Replaced ==
    ASSUME AuthoringInv, NEW q, RequestOK(q), NEW graph \in Seq(Edits), Replace(q, graph)
    PROVE  /\ q.version \in 1..Len(versions) /\ q.version = current /\ current # 0
           /\ versions[q.version].revision = q.revision /\ q.revision \in Nat
           /\ Len(versions') = Len(versions)
           /\ versions'[q.version].revision = q.revision + 1
           /\ versions'[q.version].graph = graph
           /\ \A n \in 1..Len(versions) : n # q.version => versions'[n] = versions[n]
           /\ Later /\ RowsOK' /\ HeaderOK'
<1>1. RowsOK /\ HeaderOK  BY DEF AuthoringInv
<1>2. q.version \in 1..Len(versions) /\ q.revision \in Nat  BY DEF RequestOK, Was
<1>3. versions[q.version].state = "draft" /\ versions[q.version].revision = q.revision
  BY DEF Replace, IsCurrent, IsDraft
<1>4. q.version = current /\ current # 0  BY <1>1, <1>2, <1>3 DEF HeaderOK
<1>5. PICK row : row = Version("draft", q.revision + 1, graph)  OBVIOUS
<1>6. row \in Row /\ row.state = "draft" /\ row.revision = q.revision + 1 /\ row.graph = graph
  BY <1>2, <1>5, VersionFields
<1>7. versions' = [versions EXCEPT ![q.version] = row]  BY <1>5 DEF Replace
<1>8. /\ versions' \in Seq(Row) /\ Len(versions') = Len(versions)
      /\ \A j \in 1..Len(versions) : versions'[j] = IF j = q.version THEN row ELSE versions[j]
  BY <1>1, <1>2, <1>6, <1>7, ExceptSeq DEF RowsOK
<1>9. UNCHANGED <<current, saved>>  BY DEF Replace
<1>10. RowsOK'  BY <1>1, <1>8, <1>9 DEF RowsOK
<1>11. Len(saved) \in Nat  BY <1>1, LenProperties DEF RowsOK
<1>12. HeaderOK'
  <2>1. \A n \in 1..Len(versions) : versions'[n].state = "draft" <=> n = current
    BY <1>1, <1>4, <1>6, <1>8 DEF HeaderOK
  <2>2. ASSUME NEW n \in 1..Len(saved)  PROVE versions'[n].graph = saved[n]
    <3>1. n # current /\ n \in 1..Len(versions)  BY <1>1, <1>4, <1>11 DEF HeaderOK
    <3>2. QED  BY <1>1, <1>4, <1>8, <3>1 DEF HeaderOK
  <2>3. QED  BY <1>1, <1>8, <1>9, <2>1, <2>2 DEF HeaderOK
<1>13. Later
  <2>1. ASSUME NEW n \in 1..Len(versions)
        PROVE  /\ n \in 1..Len(versions') /\ versions'[n].revision \in Nat
               /\ \/ versions'[n].revision > versions[n].revision
                  \/ /\ versions'[n].revision = versions[n].revision
                     /\ versions'[n].graph = versions[n].graph
    <3>1. versions[n].revision \in Nat  BY <1>1, RowFields
    <3>2. CASE n = q.version  BY <1>2, <1>3, <1>6, <1>8, <3>2
    <3>3. CASE n # q.version  BY <1>8, <3>1, <3>3
    <3>4. QED  BY <3>2, <3>3
  <2>2. QED  BY <2>1 DEF Later
<1>14. QED  BY <1>2, <1>3, <1>4, <1>6, <1>8, <1>10, <1>12, <1>13

\* A window that is answered is told what is stored, and every other request keeps.
LEMMA AnswerKeeps ==
    ASSUME AuthoringInv, NEW q \in requests, NEW graph \in Seq(Edits), Replace(q, graph),
           NEW h \in Seq(Edits), q.author # Nobody => History!Continues(graph, h),
           Answer(q, View(q.version, q.revision + 1, graph), h)
    PROVE  AuthoringInv'
<1>1. RowsOK /\ WindowsOK /\ RequestsOK /\ RequestOK(q)  BY DEF AuthoringInv, RequestsOK
<1>2. /\ q.version \in 1..Len(versions) /\ versions[q.version].revision = q.revision
      /\ q.revision \in Nat /\ Len(versions') = Len(versions)
      /\ versions'[q.version].revision = q.revision + 1 /\ versions'[q.version].graph = graph
      /\ Later /\ RowsOK' /\ HeaderOK'
  BY <1>1, Replaced
<1>3. CASE UNCHANGED <<window, screen>>
  <2>1. WindowsOK'  BY <1>1, <1>2, <1>3, WindowsStay
  <2>2. ASSUME NEW r \in requests'  PROVE RequestOK(r)'
    <3>1. RequestOK(r)  BY <1>1 DEF RequestsOK, Answer
    <3>2. r.author \in Authors => window[r.author].revision \in Nat  BY <1>1, WindowFields
    <3>3. QED  BY <1>1, <1>2, <1>3, <3>1, <3>2, RequestStays
  <2>3. QED  BY <1>2, <2>1, <2>2 DEF AuthoringInv, RequestsOK
<1>4. CASE /\ q.author # Nobody
           /\ window' = [window EXCEPT ![q.author] = View(q.version, q.revision + 1, graph)]
           /\ screen' = [screen EXCEPT ![q.author] = h]
  <2>1. PICK v : v = View(q.version, q.revision + 1, graph)  OBVIOUS
  <2>2. v.version = q.version /\ v.revision = q.revision + 1 /\ v.graph = graph
    BY <2>1, ViewFields
  <2>3. q.version \in Nat  BY <1>1 DEF RequestOK, RequestType
  <2>4. v \in ViewType  BY <1>2, <2>1, <2>3 DEF View, ViewType
  <2>5. q.author \in Authors /\ window[q.author].version = q.version
    BY <1>1, <1>4 DEF RequestOK, Awaits
  <2>6. Was(v.version, v.revision, v.graph)'  BY <1>2, <2>2 DEF Was
  <2>7. WindowsOK'
    BY <1>1, <1>2, <1>4, <2>1, <2>2, <2>4, <2>5, <2>6, WindowTakes
  <2>8. /\ window'[q.author] = v
        /\ \A d \in Authors : d # q.author => window'[d] = window[d] /\ screen'[d] = screen[d]
    BY <1>1, <1>4, <2>1, <2>5 DEF WindowsOK
  <2>9. window[q.author].revision \in Nat /\ window[q.author].revision <= q.revision
    BY <1>1, <1>2, <2>5, WindowFields DEF Was
  <2>10. ASSUME NEW r \in requests'  PROVE RequestOK(r)'
    <3>1. RequestOK(r)  BY <1>1 DEF RequestsOK, Answer
    <3>2. r.author \in Authors => window[r.author].revision \in Nat  BY <1>1, WindowFields
    <3>3. r.author \in Authors =>
             /\ window'[r.author].version = window[r.author].version
             /\ window'[r.author].revision \in Nat
             /\ \/ window'[r.author].revision > window[r.author].revision
                \/ /\ window'[r.author].revision = window[r.author].revision
                   /\ screen'[r.author] = screen[r.author]
      <4>1. CASE r.author = q.author  BY <1>2, <2>2, <2>5, <2>8, <2>9, <4>1
      <4>2. CASE r.author # q.author  BY <2>8, <3>2, <4>2
      <4>3. QED  BY <4>1, <4>2
    <3>4. QED  BY <1>1, <1>2, <3>1, <3>2, <3>3, RequestStays
  <2>11. QED  BY <1>2, <2>7, <2>10 DEF AuthoringInv, RequestsOK
<1>5. QED  BY <1>3, <1>4 DEF Answer

\* What each handler stores: the draft, or what continues it, which the window's canvas
\* continues.
LEMMA Stores ==
    ASSUME AuthoringInv, NEW q \in requests, Save(q) \/ AddNode(q) \/ Derive(q)
    PROVE  \E graph, h \in Seq(Edits) :
              /\ Replace(q, graph)
              /\ Answer(q, View(q.version, q.revision + 1, graph), h)
              /\ q.author # Nobody => History!Continues(graph, h)
              /\ History!Continues(versions[q.version].graph, graph)
<1>1. RowsOK /\ WindowsOK /\ RequestOK(q)  BY DEF AuthoringInv, RequestsOK
<1>2. PICK g \in Seq(Edits) : Was(q.version, q.revision, g) /\ Asks(q, g)  BY <1>1 DEF RequestOK
<1>3. q.version \in 1..Len(versions) /\ q.revision \in Nat  BY <1>2 DEF Was
<1>4. versions[q.version].graph \in Seq(Edits)  BY <1>1, <1>3, RowFields
<1>5. IsCurrent(q.version, q.revision) =>
         /\ g = versions[q.version].graph /\ versions[q.version].revision = q.revision
  BY <1>2 DEF IsCurrent, Was
\* The window that awaits the answer has seen the same revision.
<1>6. ASSUME IsCurrent(q.version, q.revision), q.author # Nobody
      PROVE  /\ q.author \in Authors /\ window[q.author].revision = q.revision
             /\ window[q.author].graph = versions[q.version].graph
             /\ window[q.author].version = q.version /\ screen[q.author] \in Seq(Edits)
             /\ History!Continues(window[q.author].graph, screen[q.author])
             /\ q.op = "save" => History!Continues(q.content, screen[q.author])
  <2>1. /\ q.author \in Authors /\ window[q.author].version = q.version
        /\ q.revision <= window[q.author].revision
        /\ q.op = "save" /\ q.revision = window[q.author].revision
           => History!Continues(q.content, screen[q.author])
    BY <1>1, <1>6 DEF RequestOK, Awaits
  <2>2. PICK n, r, f : /\ n = window[q.author].version /\ r = window[q.author].revision
                       /\ f = window[q.author].graph
    OBVIOUS
  <2>3. Was(n, r, f) /\ screen[q.author] \in Seq(Edits) /\ History!Continues(f, screen[q.author])
    BY <1>1, <2>1, <2>2, WindowFields
  <2>4. r = q.revision /\ f = versions[q.version].graph
    BY <1>3, <1>5, <1>6, <2>1, <2>2, <2>3 DEF Was
  <2>5. QED  BY <2>1, <2>2, <2>3, <2>4
<1>7. CASE Save(q)
  <2>1. /\ q.op = "save" /\ Replace(q, q.content)
        /\ Answer(q, View(q.version, versions'[q.version].revision, q.content), screen[q.author])
    BY <1>7 DEF Save
  <2>2. IsCurrent(q.version, q.revision)  BY <2>1 DEF Replace
  <2>3. q.content \in Seq(Edits) /\ History!Continues(versions[q.version].graph, q.content)
    BY <1>2, <1>5, <2>1, <2>2 DEF Asks, History!Continues
  <2>4. versions'[q.version].revision = q.revision + 1  BY <1>1, <2>1, <2>3, Replaced
  <2>5. CASE q.author # Nobody  BY <1>6, <2>1, <2>2, <2>3, <2>4, <2>5
  <2>6. CASE q.author = Nobody
    <3>1. Answer(q, View(q.version, q.revision + 1, q.content), q.content)
      BY <2>1, <2>6 DEF Answer
    <3>2. QED  BY <2>1, <2>3, <2>6, <3>1
  <2>7. QED  BY <2>5, <2>6
<1>8. CASE AddNode(q)
  <2>1. PICK graph : graph = Append(versions[q.version].graph, q.content)  OBVIOUS
  <2>2. /\ q.op = "add" /\ Replace(q, graph)
        /\ Answer(q, View(q.version, versions'[q.version].revision, graph), graph)
    BY <1>8, <2>1 DEF AddNode
  <2>3. q.content \in Edits /\ ~Contains(versions[q.version].graph, q.content)
    BY <1>2, <1>5, <2>2 DEF Asks, Replace
  <2>4. graph \in Seq(Edits)  BY <1>4, <2>1, <2>3, AppendProperties
  <2>5. History!Continues(versions[q.version].graph, graph)
    BY <1>4, <2>1, <2>3, ContinuesSelf, ContinuesFurther
  <2>6. versions'[q.version].revision = q.revision + 1  BY <1>1, <2>2, <2>4, Replaced
  <2>7. QED  BY <2>2, <2>4, <2>5, <2>6, ContinuesSelf
<1>9. CASE Derive(q)
  <2>1. PICK graph : graph = versions[q.version].graph  OBVIOUS
  <2>2. /\ Replace(q, graph)
        /\ Answer(q, View(q.version, versions'[q.version].revision, window[q.author].graph),
                  screen[q.author])
    BY <1>9, <2>1 DEF Derive
  <2>3. IsCurrent(q.version, q.revision)  BY <2>2 DEF Replace
  <2>4. versions'[q.version].revision = q.revision + 1  BY <1>1, <1>4, <2>1, <2>2, Replaced
  <2>5. History!Continues(versions[q.version].graph, graph)  BY <1>4, <2>1, ContinuesSelf
  <2>6. CASE q.author # Nobody
    BY <1>4, <1>6, <2>1, <2>2, <2>3, <2>4, <2>5, <2>6
  <2>7. CASE q.author = Nobody
    <3>1. Answer(q, View(q.version, q.revision + 1, graph), graph)
      BY <2>2, <2>7 DEF Answer
    <3>2. QED  BY <1>4, <2>1, <2>2, <2>5, <2>7, <3>1
  <2>8. QED  BY <2>6, <2>7
<1>10. QED  BY <1>7, <1>8, <1>9

LEMMA PublishKeeps ==
    ASSUME AuthoringInv, NEW q \in requests, Publish(q)
    PROVE  /\ AuthoringInv' /\ current = q.version /\ current # 0 /\ current' = 0
           /\ Len(saved) \in Nat /\ current = Len(saved) + 1
           /\ Len(versions') = Len(versions)
           /\ \A n \in 1..Len(versions) : versions'[n].graph = versions[n].graph
           /\ saved' = Append(saved, versions[current].graph)
<1>1. RowsOK /\ HeaderOK /\ WindowsOK /\ RequestsOK /\ RequestOK(q)
  BY DEF AuthoringInv, RequestsOK
<1>2. PICK g \in Seq(Edits) : Was(q.version, q.revision, g) /\ Asks(q, g)  BY <1>1 DEF RequestOK
<1>3. q.version \in 1..Len(versions) /\ q.revision \in Nat  BY <1>2 DEF Was
<1>4. versions[q.version].state = "draft" /\ versions[q.version].revision = q.revision
  BY DEF Publish, IsCurrent, IsDraft
<1>5. q.version = current /\ current # 0 /\ current = Len(saved) + 1
  BY <1>1, <1>3, <1>4 DEF HeaderOK
<1>6. Len(saved) \in Nat  BY <1>1, LenProperties DEF RowsOK
<1>7. q.content = versions[q.version].graph
  BY <1>2, <1>4 DEF Publish, Asks, Was
<1>8. current' = 0 /\ requests' = requests \ {q} /\ window' = window
      /\ screen' = screen /\ saved' = Append(saved, versions[current].graph)
  BY <1>5, <1>7 DEF Publish, Release
<1>9. versions[current] \in Row /\ versions[current].graph \in Seq(Edits)
  BY <1>1, <1>3, <1>5, RowFields
<1>10. PICK row : row = [versions[current] EXCEPT !.state = "published"]  OBVIOUS
<1>11. /\ row \in Row /\ row.state = "published"
       /\ row.revision = versions[current].revision /\ row.graph = versions[current].graph
  BY <1>9, <1>10 DEF Row
<1>12. versions' = [versions EXCEPT ![current] = row]
  BY <1>1, <1>3, <1>5, <1>10, LenProperties DEF Publish, Release, RowsOK
<1>13. /\ versions' \in Seq(Row) /\ Len(versions') = Len(versions)
       /\ \A j \in 1..Len(versions) : versions'[j] = IF j = current THEN row ELSE versions[j]
  BY <1>1, <1>3, <1>5, <1>11, <1>12, ExceptSeq DEF RowsOK
<1>14. \A n \in 1..Len(versions) : /\ versions'[n].graph = versions[n].graph
                                   /\ versions'[n].revision = versions[n].revision
                                   /\ versions'[n].revision \in Nat
  <2>1. ASSUME NEW n \in 1..Len(versions)
        PROVE  /\ versions'[n].graph = versions[n].graph
               /\ versions'[n].revision = versions[n].revision
               /\ versions'[n].revision \in Nat
    <3>1. versions[n].revision \in Nat  BY <1>1, RowFields
    <3>2. QED  BY <1>11, <1>13, <3>1
  <2>2. QED  BY <2>1
<1>15. Later  BY <1>13, <1>14 DEF Later
<1>16. /\ saved' \in Seq(Seq(Edits)) /\ Len(saved') = Len(saved) + 1
       /\ \A n \in 1..Len(saved) : saved'[n] = saved[n]
       /\ saved'[Len(saved) + 1] = versions[current].graph
  BY <1>1, <1>8, <1>9, AppendProperties DEF RowsOK
<1>17. HeaderOK'
  <2>1. ASSUME NEW n \in 1..Len(versions)  PROVE versions'[n].state # "draft"
    <3>1. CASE n = current  BY <1>11, <1>13, <3>1
    <3>2. CASE n # current  BY <1>1, <1>13, <3>2 DEF HeaderOK
    <3>3. QED  BY <3>1, <3>2
  <2>2. ASSUME NEW n \in 1..Len(saved')  PROVE versions'[n].graph = saved'[n]
    <3>1. n \in 1..Len(versions)  BY <1>1, <1>5, <1>16 DEF HeaderOK
    <3>2. CASE n = current  BY <1>5, <1>14, <1>16, <3>1, <3>2
    <3>3. CASE n # current
      <4>1. n \in 1..Len(saved)  BY <1>5, <1>6, <1>16, <3>3
      <4>2. QED  BY <1>1, <1>14, <1>16, <3>1, <4>1 DEF HeaderOK
    <3>4. QED  BY <3>2, <3>3
  <2>3. Len(versions') = Len(saved')  BY <1>1, <1>5, <1>13, <1>16 DEF HeaderOK
  <2>4. ASSUME NEW n \in 1..Len(versions')  PROVE versions'[n].state = "draft" <=> n = 0
    <3>1. n # 0 /\ n \in 1..Len(versions)  BY <1>13
    <3>2. QED  BY <2>1, <3>1
  <2>5. QED  BY <1>8, <2>2, <2>3, <2>4 DEF HeaderOK
<1>18. RowsOK'  BY <1>13, <1>16 DEF RowsOK
<1>19. WindowsOK'  BY <1>1, <1>8, <1>15, WindowsStay
<1>20. ASSUME NEW r \in requests'  PROVE RequestOK(r)'
  <2>1. RequestOK(r)  BY <1>1, <1>8 DEF RequestsOK
  <2>2. r.author \in Authors => window[r.author].revision \in Nat  BY <1>1, WindowFields
  <2>3. QED  BY <1>1, <1>8, <1>15, <2>1, <2>2, RequestStays
<1>21. AuthoringInv'  BY <1>17, <1>18, <1>19, <1>20 DEF AuthoringInv, RequestsOK
<1>22. QED  BY <1>5, <1>6, <1>8, <1>13, <1>14, <1>21

LEMMA StartKeeps ==
    ASSUME AuthoringInv, NEW n \in DOMAIN versions, Start(n)
    PROVE  /\ AuthoringInv' /\ current = 0 /\ n \in 1..Len(saved)
           /\ saved' = saved /\ current' # 0
           /\ \A m \in 1..Len(versions) : versions'[m] = versions[m]
           /\ versions'[current'].graph = versions[n].graph
<1>1. RowsOK /\ HeaderOK /\ WindowsOK /\ RequestsOK  BY DEF AuthoringInv
<1>2. /\ current = 0 /\ current' = Len(versions) + 1
      /\ requests' = requests /\ window' = window /\ screen' = screen
      /\ saved' = saved
  BY DEF Start
<1>3. Len(versions) \in Nat /\ Len(versions) = Len(saved) /\ n \in 1..Len(versions)
  BY <1>1, <1>2, LenProperties DEF HeaderOK, RowsOK
<1>4. PICK row : row = Version("draft", 1, versions[n].graph)  OBVIOUS
<1>5. versions[n].graph \in Seq(Edits)  BY <1>1, <1>3, RowFields
<1>6. row \in Row /\ row.state = "draft" /\ row.graph = versions[n].graph
  BY <1>4, <1>5, VersionFields
<1>7. versions' = Append(versions, row)  BY <1>4 DEF Start
<1>8. /\ versions' \in Seq(Row) /\ Len(versions') = Len(versions) + 1
      /\ \A m \in 1..Len(versions) : versions'[m] = versions[m]
      /\ versions'[Len(versions) + 1] = row
  BY <1>1, <1>6, <1>7, AppendProperties DEF RowsOK
<1>9. Later
  <2>1. \A m \in 1..Len(versions) : versions[m].revision \in Nat  BY <1>1, RowFields
  <2>2. QED  BY <1>3, <1>8, <2>1 DEF Later
<1>10. HeaderOK'
  <2>1. ASSUME NEW m \in 1..Len(versions')  PROVE versions'[m].state = "draft" <=> m = current'
    <3>1. CASE m = Len(versions) + 1  BY <1>2, <1>6, <1>8, <3>1
    <3>2. CASE m # Len(versions) + 1
      <4>1. m \in 1..Len(versions)  BY <1>3, <1>8, <3>2
      <4>2. versions[m].state # "draft"  BY <1>1, <1>2, <4>1 DEF HeaderOK
      <4>3. QED  BY <1>2, <1>8, <3>2, <4>1, <4>2
    <3>3. QED  BY <3>1, <3>2
  <2>2. ASSUME NEW m \in 1..Len(saved)  PROVE versions'[m].graph = saved[m]
    BY <1>1, <1>3, <1>8 DEF HeaderOK
  <2>3. QED  BY <1>2, <1>3, <1>8, <2>1, <2>2 DEF HeaderOK
<1>11. RowsOK'  BY <1>1, <1>2, <1>8 DEF RowsOK
<1>12. WindowsOK'  BY <1>1, <1>2, <1>9, WindowsStay
<1>13. ASSUME NEW r \in requests'  PROVE RequestOK(r)'
  <2>1. RequestOK(r)  BY <1>1, <1>2 DEF RequestsOK
  <2>2. r.author \in Authors => window[r.author].revision \in Nat  BY <1>1, WindowFields
  <2>3. QED  BY <1>1, <1>2, <1>9, <2>1, <2>2, RequestStays
<1>14. AuthoringInv'  BY <1>10, <1>11, <1>12, <1>13 DEF AuthoringInv, RequestsOK
<1>15. QED  BY <1>2, <1>3, <1>6, <1>8, <1>14

--------------------------------------------------------------------------------
(* The history.                                                                *)
Kept == Released' = Released /\ Draft' = Draft

LEMMA AuthoringStep ==
    ASSUME AuthoringInv, AuthoringNext
    PROVE  AuthoringInv' /\ (Kept \/ History!Next)
<1>1. RowsOK /\ HeaderOK /\ RequestsOK  BY DEF AuthoringInv
<1>2. Len(saved) \in Nat  BY <1>1, LenProperties DEF RowsOK
<1>3. ASSUME UNCHANGED <<versions, current, saved>>  PROVE Kept
  BY <1>3 DEF Kept, Released, Draft
<1>4. ASSUME NEW c \in Authors, Open(c)  PROVE AuthoringInv' /\ Kept
  BY <1>3, <1>4, OpenKeeps DEF Open
<1>5. ASSUME NEW c \in Authors,
             \/ SendSave(c) \/ SendDerive(c) \/ SendPublish(c)
             \/ \E e \in Edits : Edit(c, e) \/ SendAdd(c, e)
      PROVE  AuthoringInv' /\ Kept
  <2>1. UNCHANGED <<versions, current, saved>>
    BY <1>5 DEF SendDerive, SendPublish, SendSave, SendAdd, Send, Edit
  <2>2. QED  BY <1>3, <1>5, <2>1, SendsKeep, EditKeeps
<1>6. ASSUME NEW q \in requests, Drop(q)  PROVE AuthoringInv' /\ Kept
  BY <1>3, <1>6, DropKeeps DEF Drop
<1>7. ASSUME NEW q \in requests, Save(q) \/ AddNode(q) \/ Derive(q)
      PROVE  AuthoringInv' /\ History!Next
  <2>1. PICK graph \in Seq(Edits), h \in Seq(Edits) :
           /\ Replace(q, graph)
           /\ Answer(q, View(q.version, q.revision + 1, graph), h)
           /\ q.author # Nobody => History!Continues(graph, h)
           /\ History!Continues(versions[q.version].graph, graph)
    BY <1>7, Stores
  <2>2. AuthoringInv'  BY <2>1, AnswerKeeps
  <2>3. /\ q.version = current /\ current # 0 /\ q.version \in 1..Len(versions)
        /\ versions'[q.version].graph = graph
        /\ \A n \in 1..Len(versions) : n # q.version => versions'[n] = versions[n]
    BY <1>1, <2>1, Replaced DEF RequestsOK
  <2>4. current' = current /\ saved' = saved  BY <2>1 DEF Replace
  <2>5. Draft = versions[current].graph /\ Draft' = graph  BY <2>3, <2>4 DEF Draft
  <2>6. \A n \in 1..Len(saved) : versions'[n] = versions[n]
    BY <1>1, <1>2, <2>3 DEF HeaderOK
  <2>7. Released' = Released  BY <2>4, <2>6 DEF Released
  <2>8. Draft \in Seq(Edits) /\ Draft # NoGraph  BY <1>1, <2>3, <2>5, RowFields, Names
  <2>9. History!Continues(Draft, Draft')  BY <2>1, <2>3, <2>5
  <2>10. History!Edit  BY <2>7, <2>8, <2>9 DEF History!Edit
  <2>11. QED  BY <2>2, <2>10 DEF History!Next
<1>8. ASSUME NEW q \in requests, Publish(q)  PROVE AuthoringInv' /\ History!Next
  <2>1. /\ AuthoringInv' /\ current # 0 /\ current' = 0 /\ current = Len(saved) + 1
        /\ Len(versions') = Len(versions)
        /\ \A n \in 1..Len(versions) : versions'[n].graph = versions[n].graph
        /\ saved' = Append(saved, versions[current].graph)
    BY <1>8, PublishKeeps
  <2>2. Len(versions) = Len(saved) + 1  BY <1>1, <2>1 DEF HeaderOK
  <2>3. current \in 1..Len(versions)  BY <1>2, <2>1, <2>2
  <2>4. versions[current].graph \in Seq(Edits)  BY <1>1, <2>3, RowFields
  <2>5. Len(saved') = Len(saved) + 1  BY <1>1, <2>1, <2>4, AppendProperties DEF RowsOK
  <2>6. Draft = versions[current].graph /\ Draft' = NoGraph /\ Draft # NoGraph
    BY <2>1, <2>4, Names DEF Draft
  <2>7. \A n \in 1..Len(saved) : versions[n].graph \in Seq(Edits)
    BY <1>1, <1>2, <2>2, RowFields
  <2>8. Released \in Seq(Seq(Edits)) /\ Len(Released) = Len(saved)
    BY <1>2, <2>7 DEF Released
  <2>9. Released' = [n \in 1..(Len(saved) + 1) |-> versions[n].graph]
    BY <1>2, <2>1, <2>2, <2>5 DEF Released
  <2>10. Released' = Append(Released, Draft)
    BY <1>2, <2>1, <2>6, <2>8, <2>9 DEF Released
  <2>11. History!Release  BY <2>6, <2>10 DEF History!Release
  <2>12. QED  BY <2>1, <2>11 DEF History!Next
<1>9. ASSUME NEW n \in DOMAIN versions, Start(n)  PROVE AuthoringInv' /\ History!Next
  <2>1. /\ AuthoringInv' /\ current = 0 /\ n \in 1..Len(saved)
        /\ saved' = saved /\ current' # 0
        /\ \A m \in 1..Len(versions) : versions'[m] = versions[m]
        /\ versions'[current'].graph = versions[n].graph
    BY <1>9, StartKeeps
  <2>2. Len(versions) = Len(saved)  BY <1>1, <2>1 DEF HeaderOK
  <2>3. Released' = Released  BY <2>1, <2>2 DEF Released
  <2>4. Draft = NoGraph /\ Draft' = Released[n] /\ n \in DOMAIN Released
    BY <2>1 DEF Draft, Released
  <2>5. History!Start(n)  BY <2>3, <2>4 DEF History!Start
  <2>6. QED  BY <2>1, <2>4, <2>5 DEF History!Next
<1>10. QED  BY <1>4, <1>5, <1>6, <1>7, <1>8, <1>9 DEF AuthoringNext

--------------------------------------------------------------------------------
(* The attempts, given that the pinned version is the n-th and shows g.        *)
ContentType == [definition : Seq(Edits), plan : Seq(Edits) \cup {NoGraph}, version : Nat]

AttemptType == [run : ContentType, plan : Seq(Edits) \cup {NoGraph},
                frozen : SUBSET {"definition", "plan"}, ran : BOOLEAN]

PreparingType == [next : {"freeze", "bundle", "plan", "refreeze"}, attempt : Nat,
                  content : ContentType]

\* A plan comes with the number of its version.
Copies(c, g, n) == c.definition = g /\ (c.plan # NoGraph => c = Content(g, g, n))

\* A plan that is in its file was there before the file of the run said so.
FilesOK(a, g, n) ==
    /\ Copies(a.run, g, n)
    /\ a.plan # NoGraph => a.plan = g /\ a.run = Content(g, g, n)
    /\ a.ran => a.plan # NoGraph

\* What is about to be written is a copy, and the file of the plan is not there before
\* the one of the run is complete.
PreparingOK(j, g, n) ==
    /\ j \in PreparingType
    /\ j.attempt \in 1..Len(attempts)
    /\ Copies(j.content, g, n)
    /\ j.next # "refreeze" => attempts[j.attempt].plan = NoGraph
    /\ j.next = "plan" => attempts[j.attempt].run = j.content

AttemptsOK ==
    /\ pin \in 0..Len(saved)
    /\ attempts \in Seq(AttemptType)
    /\ pin = 0 => attempts = <<>>
    /\ \A i \in 1..Len(attempts) : FilesOK(attempts[i], saved[pin], pin)
    /\ preparing # Idle => PreparingOK(preparing, saved[pin], pin)

IInv == AuthoringInv /\ AttemptsOK

LEMMA ContentFields ==
    ASSUME NEW d, NEW p, NEW n
    PROVE  /\ Content(d, p, n).definition = d /\ Content(d, p, n).plan = p
           /\ Content(d, p, n).version = n
           /\ (d \in Seq(Edits) /\ p \in Seq(Edits) \cup {NoGraph} /\ n \in Nat)
              => Content(d, p, n) \in ContentType
BY DEF Content, ContentType

LEMMA NewAttempt ==
    ASSUME NEW d \in Seq(Edits), NEW n
    PROVE  Attempt(d) \in AttemptType /\ Attempt(d).plan = NoGraph /\ FilesOK(Attempt(d), d, n)
<1>1. Content(d, NoGraph, 0) \in ContentType /\ Content(d, NoGraph, 0).definition = d
      /\ Content(d, NoGraph, 0).plan = NoGraph
  BY ContentFields
<1>2. QED  BY <1>1 DEF Attempt, AttemptType, FilesOK, Copies

\* Nothing that was published is forgotten.
LEMMA SavedGrows ==
    ASSUME AuthoringInv, AuthoringNext
    PROVE  Len(saved) \in Nat /\ Len(saved') \in Nat /\ Len(saved) <= Len(saved')
           /\ \A n \in 1..Len(saved) : saved'[n] = saved[n]
<1>1. RowsOK /\ HeaderOK  BY DEF AuthoringInv
<1>2. Len(saved) \in Nat  BY <1>1, LenProperties DEF RowsOK
<1>3. CASE UNCHANGED saved  BY <1>2, <1>3
<1>4. ASSUME NEW q \in requests, Publish(q)
      PROVE  /\ Len(saved') = Len(saved) + 1
             /\ \A n \in 1..Len(saved) : saved'[n] = saved[n]
  <2>1. /\ current # 0 /\ current = Len(saved) + 1
        /\ saved' = Append(saved, versions[current].graph)
    BY <1>4, PublishKeeps
  <2>2. current \in 1..Len(versions)  BY <1>1, <1>2, <2>1 DEF HeaderOK
  <2>3. versions[current].graph \in Seq(Edits)  BY <1>1, <2>2, RowFields
  <2>4. QED  BY <1>1, <2>1, <2>3, AppendProperties DEF RowsOK
<1>5. ASSUME NEW q \in requests, Save(q) \/ AddNode(q) \/ Derive(q)  PROVE UNCHANGED saved
  BY <1>5 DEF Save, AddNode, Derive, Replace
<1>6. UNCHANGED saved \/ \E q \in requests : Publish(q)
  BY <1>5 DEF AuthoringNext, Open, SendDerive, SendPublish, SendSave, SendAdd, Send, Edit,
         Drop, Start
<1>7. QED  BY <1>2, <1>3, <1>4, <1>6

LEMMA AttemptsStay ==
    ASSUME AuthoringInv, AttemptsOK, AuthoringNext, UNCHANGED <<pin, attempts, preparing>>
    PROVE  AttemptsOK'
<1>1. Len(saved) \in Nat /\ Len(saved') \in Nat /\ Len(saved) <= Len(saved')
      /\ \A n \in 1..Len(saved) : saved'[n] = saved[n]
  BY SavedGrows
<1>2. CASE pin = 0
  <2>1. attempts = <<>> /\ Len(attempts) = 0  BY <1>2 DEF AttemptsOK
  <2>2. preparing = Idle  BY <2>1 DEF AttemptsOK, PreparingOK
  <2>3. QED  BY <1>1, <1>2, <2>1, <2>2 DEF AttemptsOK
<1>3. CASE pin # 0
  <2>1. saved'[pin] = saved[pin]  BY <1>1, <1>3 DEF AttemptsOK
  <2>2. QED  BY <1>1, <2>1 DEF AttemptsOK, PreparingOK
<1>4. QED  BY <1>2, <1>3

\* One attempt's files change: all are still copies.
LEMMA FilesChange ==
    ASSUME AttemptsOK, NEW k \in 1..Len(attempts), NEW b \in AttemptType,
           FilesOK(b, saved[pin], pin), attempts' = [attempts EXCEPT ![k] = b],
           UNCHANGED <<authoring, pin>>
    PROVE  /\ pin' \in 0..Len(saved') /\ attempts' \in Seq(AttemptType)
           /\ pin' = 0 => attempts' = <<>>
           /\ \A i \in 1..Len(attempts') : FilesOK(attempts'[i], saved'[pin'], pin')
           /\ Len(attempts') = Len(attempts) /\ attempts'[k] = b
           /\ saved' = saved /\ pin' = pin
<1>1. saved' = saved /\ pin' = pin  BY DEF authoring
<1>2. /\ attempts' \in Seq(AttemptType) /\ Len(attempts') = Len(attempts)
      /\ \A j \in 1..Len(attempts) : attempts'[j] = IF j = k THEN b ELSE attempts[j]
  BY ExceptSeq DEF AttemptsOK
<1>3. ASSUME NEW i \in 1..Len(attempts')  PROVE FilesOK(attempts'[i], saved'[pin'], pin')
  <2>1. CASE i = k  BY <1>1, <1>2, <2>1
  <2>2. CASE i # k  BY <1>1, <1>2, <2>2 DEF AttemptsOK
  <2>3. QED  BY <2>1, <2>2
<1>4. pin # 0
  <2>1. CASE pin = 0
    <3>1. Len(attempts) = 0  BY <2>1 DEF AttemptsOK
    <3>2. QED  BY <3>1
  <2>2. QED  BY <2>1
<1>5. QED  BY <1>1, <1>2, <1>3, <1>4 DEF AttemptsOK

LEMMA PreparingFields ==
    ASSUME AttemptsOK, preparing # Idle
    PROVE  /\ preparing \in PreparingType /\ preparing.attempt \in 1..Len(attempts)
           /\ preparing.content \in ContentType
           /\ attempts[preparing.attempt] \in AttemptType
           /\ Copies(preparing.content, saved[pin], pin)
           /\ FilesOK(attempts[preparing.attempt], saved[pin], pin)
<1>1. PreparingOK(preparing, saved[pin], pin)  BY DEF AttemptsOK
<1>2. preparing \in PreparingType /\ preparing.attempt \in 1..Len(attempts)
      /\ Copies(preparing.content, saved[pin], pin)
  BY <1>1 DEF PreparingOK
<1>3. attempts[preparing.attempt] \in AttemptType  BY <1>2, ElementOfSeq DEF AttemptsOK
<1>4. QED  BY <1>2, <1>3 DEF AttemptsOK, PreparingType

LEMMA Stepping ==
    ASSUME NEW from, NEW to, Step(from, to), from # "none"
    PROVE  preparing # Idle /\ preparing.next = from
BY DEF Step, Idle

\* A step that leaves the attempt in hand in order, and the next step with it.
LEMMA StepKeeps ==
    ASSUME AttemptsOK, NEW from, NEW to \in {"bundle", "plan", "refreeze", "none"},
           from # "none", Step(from, to), NEW b \in AttemptType, FilesOK(b, saved[pin], pin),
           attempts' = [attempts EXCEPT ![preparing.attempt] = b],
           to \in {"bundle", "plan"} => b.plan = NoGraph,
           to = "plan" => b.run = preparing.content
    PROVE  AttemptsOK'
<1>1. preparing # Idle /\ preparing.next = from  BY Stepping
<1>2. /\ preparing \in PreparingType /\ preparing.attempt \in 1..Len(attempts)
      /\ Copies(preparing.content, saved[pin], pin)
  BY <1>1, PreparingFields
<1>3. UNCHANGED <<authoring, pin>>  BY DEF Step
<1>4. PICK k : k = preparing.attempt  OBVIOUS
<1>5. /\ pin' \in 0..Len(saved') /\ attempts' \in Seq(AttemptType)
      /\ pin' = 0 => attempts' = <<>>
      /\ \A i \in 1..Len(attempts') : FilesOK(attempts'[i], saved'[pin'], pin')
      /\ Len(attempts') = Len(attempts) /\ attempts'[k] = b
      /\ saved' = saved /\ pin' = pin
  BY <1>2, <1>3, <1>4, FilesChange
<1>6. CASE to = "none"
  <2>1. preparing' = Idle  BY <1>6 DEF Step
  <2>2. QED  BY <1>5, <2>1 DEF AttemptsOK
<1>7. CASE to # "none"
  <2>1. PICK j : j = [preparing EXCEPT !.next = to]  OBVIOUS
  <2>2. preparing' = j  BY <1>7, <2>1 DEF Step
  <2>3. /\ j \in PreparingType /\ j.next = to /\ j.attempt = k
        /\ j.content = preparing.content
    BY <1>2, <1>4, <1>7, <2>1 DEF PreparingType
  <2>4. PreparingOK(j, saved[pin], pin)'
    BY <1>2, <1>4, <1>5, <1>7, <2>3 DEF PreparingOK
  <2>5. PreparingOK(preparing, saved[pin], pin)'
    BY <1>5, <2>2, <2>4 DEF PreparingOK
  <2>6. QED  BY <1>5, <2>5 DEF AttemptsOK
<1>8. QED  BY <1>6, <1>7

LEMMA FreezeKeeps == AttemptsOK /\ Freeze => AttemptsOK'
<1> SUFFICES ASSUME AttemptsOK, Freeze  PROVE AttemptsOK'
  OBVIOUS
<1>1. preparing # Idle /\ preparing.next = "freeze" /\ Step("freeze", "bundle")
  BY Stepping DEF Freeze
<1>2. PICK a : a = attempts[preparing.attempt]  OBVIOUS
<1>3. a \in AttemptType /\ FilesOK(a, saved[pin], pin)  BY <1>1, <1>2, PreparingFields
<1>4. a.plan = NoGraph  BY <1>1, <1>2 DEF AttemptsOK, PreparingOK
<1>5. PICK b : b = [a EXCEPT !.frozen = {"definition"}]  OBVIOUS
<1>6. b \in AttemptType /\ b.run = a.run /\ b.plan = a.plan /\ b.ran = a.ran
  BY <1>3, <1>5 DEF AttemptType
<1>7. FilesOK(b, saved[pin], pin)  BY <1>3, <1>6 DEF FilesOK
<1>8. attempts' = [attempts EXCEPT ![preparing.attempt] = b]
  BY <1>1, <1>2, <1>5 DEF Freeze, AttemptsOK
<1>9. QED  BY <1>1, <1>4, <1>6, <1>7, <1>8, StepKeeps

LEMMA WriteRunKeeps == AttemptsOK /\ WriteRun => AttemptsOK'
<1> SUFFICES ASSUME AttemptsOK, WriteRun  PROVE AttemptsOK'
  OBVIOUS
<1>1. preparing # Idle /\ preparing.next = "bundle" /\ Step("bundle", "plan")
  BY Stepping DEF WriteRun
<1>2. PICK a : a = attempts[preparing.attempt]  OBVIOUS
<1>3. /\ a \in AttemptType /\ FilesOK(a, saved[pin], pin)
      /\ preparing.content \in ContentType /\ Copies(preparing.content, saved[pin], pin)
  BY <1>1, <1>2, PreparingFields
<1>4. a.plan = NoGraph  BY <1>1, <1>2 DEF AttemptsOK, PreparingOK
<1>5. PICK b : b = [a EXCEPT !.run = preparing.content]  OBVIOUS
<1>6. b \in AttemptType /\ b.run = preparing.content /\ b.plan = a.plan /\ b.ran = a.ran
  BY <1>3, <1>5 DEF AttemptType
<1>7. FilesOK(b, saved[pin], pin)  BY <1>3, <1>4, <1>6 DEF FilesOK
<1>8. attempts' = [attempts EXCEPT ![preparing.attempt] = b]
  BY <1>1, <1>2, <1>5 DEF WriteRun, AttemptsOK
<1>9. QED  BY <1>1, <1>4, <1>6, <1>7, <1>8, StepKeeps

LEMMA WritePlanKeeps == AttemptsOK /\ WritePlan => AttemptsOK'
<1> SUFFICES ASSUME AttemptsOK, WritePlan  PROVE AttemptsOK'
  OBVIOUS
<1>1. preparing # Idle /\ preparing.next = "plan" /\ Step("plan", "refreeze")
  BY Stepping DEF WritePlan
<1>2. PICK a : a = attempts[preparing.attempt]  OBVIOUS
<1>3. /\ a \in AttemptType /\ FilesOK(a, saved[pin], pin)
      /\ preparing.content \in ContentType /\ Copies(preparing.content, saved[pin], pin)
  BY <1>1, <1>2, PreparingFields
<1>4. a.plan = NoGraph /\ a.run = preparing.content
  BY <1>1, <1>2 DEF AttemptsOK, PreparingOK
<1>5. PICK b : b = [a EXCEPT !.plan = preparing.content.plan]  OBVIOUS
<1>6. b \in AttemptType /\ b.run = a.run /\ b.plan = preparing.content.plan /\ b.ran = a.ran
  BY <1>3, <1>5 DEF AttemptType, ContentType
<1>7. b.plan # NoGraph => b.plan = saved[pin] /\ b.run = Content(saved[pin], saved[pin], pin)
  BY <1>3, <1>4, <1>6, ContentFields DEF Copies
<1>8. ~a.ran  BY <1>3, <1>4 DEF FilesOK
<1>9. FilesOK(b, saved[pin], pin)  BY <1>3, <1>6, <1>7, <1>8 DEF FilesOK
<1>10. attempts' = [attempts EXCEPT ![preparing.attempt] = b]
  BY <1>1, <1>2, <1>5 DEF WritePlan, AttemptsOK
<1>11. QED  BY <1>1, <1>6, <1>9, <1>10, StepKeeps

LEMMA RefreezeKeeps == AttemptsOK /\ Refreeze => AttemptsOK'
<1> SUFFICES ASSUME AttemptsOK, Refreeze  PROVE AttemptsOK'
  OBVIOUS
<1>1. preparing # Idle /\ preparing.next = "refreeze" /\ Step("refreeze", "none")
  BY Stepping DEF Refreeze
<1>2. PICK a : a = attempts[preparing.attempt]  OBVIOUS
<1>3. a \in AttemptType /\ FilesOK(a, saved[pin], pin)  BY <1>1, <1>2, PreparingFields
<1>4. PICK b : b = [a EXCEPT !.frozen = {"definition", "plan"}]  OBVIOUS
<1>5. b \in AttemptType /\ b.run = a.run /\ b.plan = a.plan /\ b.ran = a.ran
  BY <1>3, <1>4 DEF AttemptType
<1>6. FilesOK(b, saved[pin], pin)  BY <1>3, <1>5 DEF FilesOK
<1>7. attempts' = [attempts EXCEPT ![preparing.attempt] = b]
  BY <1>1, <1>2, <1>4 DEF Refreeze, AttemptsOK
<1>8. QED  BY <1>1, <1>5, <1>6, <1>7, StepKeeps

LEMMA DieKeeps == AttemptsOK /\ Die => AttemptsOK'
<1> SUFFICES ASSUME AttemptsOK, Die  PROVE AttemptsOK'
  OBVIOUS
<1>1. preparing # Idle /\ preparing' = Idle /\ UNCHANGED <<authoring, pin>>  BY DEF Die
<1>2. CASE UNCHANGED attempts  BY <1>1, <1>2 DEF AttemptsOK, authoring
<1>3. CASE attempts' = [attempts EXCEPT ![preparing.attempt].frozen = {}]
  <2>1. PICK k, a : k = preparing.attempt /\ a = attempts[k]  OBVIOUS
  <2>2. k \in 1..Len(attempts) /\ a \in AttemptType /\ FilesOK(a, saved[pin], pin)
    BY <1>1, <2>1, PreparingFields
  <2>3. PICK b : b = [a EXCEPT !.frozen = {}]  OBVIOUS
  <2>4. b \in AttemptType /\ b.run = a.run /\ b.plan = a.plan /\ b.ran = a.ran
    BY <2>2, <2>3 DEF AttemptType
  <2>5. FilesOK(b, saved[pin], pin)  BY <2>2, <2>4 DEF FilesOK
  <2>6. attempts' = [attempts EXCEPT ![k] = b]
    BY <1>3, <2>1, <2>2, <2>3 DEF AttemptsOK
  <2>7. /\ pin' \in 0..Len(saved') /\ attempts' \in Seq(AttemptType)
        /\ pin' = 0 => attempts' = <<>>
        /\ \A i \in 1..Len(attempts') : FilesOK(attempts'[i], saved'[pin'], pin')
    BY <1>1, <2>2, <2>4, <2>5, <2>6, FilesChange
  <2>8. QED  BY <1>1, <2>7 DEF AttemptsOK
<1>4. QED  BY <1>2, <1>3 DEF Die

LEMMA ExecuteKeeps ==
    ASSUME AttemptsOK, NEW i \in DOMAIN attempts, Execute(i)
    PROVE  AttemptsOK'
<1>1. i \in 1..Len(attempts)  BY LenProperties DEF AttemptsOK
<1>2. PICK a : a = attempts[i]  OBVIOUS
<1>3. a \in AttemptType /\ FilesOK(a, saved[pin], pin)
  BY <1>1, <1>2, ElementOfSeq DEF AttemptsOK
<1>4. PICK b : b = [a EXCEPT !.ran = TRUE]  OBVIOUS
<1>5. b \in AttemptType /\ b.run = a.run /\ b.plan = a.plan
  BY <1>3, <1>4 DEF AttemptType
<1>6. FilesOK(b, saved[pin], pin)  BY <1>2, <1>3, <1>5 DEF FilesOK, Execute
<1>7. attempts' = [attempts EXCEPT ![i] = b]
  BY <1>1, <1>2, <1>4 DEF Execute, AttemptsOK
<1>8. /\ pin' \in 0..Len(saved') /\ attempts' \in Seq(AttemptType)
      /\ pin' = 0 => attempts' = <<>>
      /\ \A k \in 1..Len(attempts') : FilesOK(attempts'[k], saved'[pin'], pin')
  BY <1>1, <1>5, <1>6, <1>7, FilesChange DEF Execute
<1>9. preparing' = Idle  BY DEF Execute
<1>10. QED  BY <1>8, <1>9 DEF AttemptsOK

LEMMA PrepareKeeps ==
    ASSUME AuthoringInv, AttemptsOK, NEW parent \in 0..Len(attempts), Prepare(parent)
    PROVE  AttemptsOK'
<1>1. RowsOK /\ HeaderOK  BY DEF AuthoringInv
<1>2. Len(saved) \in Nat /\ Len(attempts) \in Nat
  BY <1>1, LenProperties DEF RowsOK, AttemptsOK
<1>3. pin # 0 /\ pin \in 1..Len(saved) /\ pin \in Nat  BY <1>2 DEF Prepare, AttemptsOK
<1>4. pin \in 1..Len(versions) /\ versions[pin].graph = saved[pin]
  BY <1>1, <1>2, <1>3 DEF HeaderOK
<1>5. saved[pin] \in Seq(Edits)  BY <1>1, <1>4, RowFields
<1>6. PICK c : c = IF parent = 0 THEN Content(versions[pin].graph, versions[pin].graph, pin)
                   ELSE attempts[parent].run
  OBVIOUS
<1>7. c \in ContentType /\ Copies(c, saved[pin], pin)
  <2>1. CASE parent = 0
    BY <1>3, <1>4, <1>5, <1>6, <2>1, ContentFields DEF Copies
  <2>2. CASE parent # 0
    <3>1. parent \in 1..Len(attempts)  BY <1>2, <2>2
    <3>2. attempts[parent] \in AttemptType /\ FilesOK(attempts[parent], saved[pin], pin)
      BY <3>1, ElementOfSeq DEF AttemptsOK
    <3>3. QED  BY <1>6, <2>2, <3>2 DEF FilesOK, AttemptType
  <2>3. QED  BY <2>1, <2>2
<1>8. PICK a : a = Attempt(c.definition)  OBVIOUS
<1>9. c.definition = saved[pin]  BY <1>7 DEF Copies
<1>10. a \in AttemptType /\ a.plan = NoGraph /\ FilesOK(a, saved[pin], pin)
  BY <1>5, <1>8, <1>9, NewAttempt
<1>11. /\ attempts' = Append(attempts, a) /\ saved' = saved /\ pin' = pin
       /\ preparing' = [next |-> "freeze", attempt |-> Len(attempts) + 1, content |-> c]
  BY <1>6, <1>8 DEF Prepare, authoring
<1>12. /\ attempts' \in Seq(AttemptType) /\ Len(attempts') = Len(attempts) + 1
       /\ \A i \in 1..Len(attempts) : attempts'[i] = attempts[i]
       /\ attempts'[Len(attempts) + 1] = a
  BY <1>10, <1>11, AppendProperties DEF AttemptsOK
<1>13. ASSUME NEW i \in 1..Len(attempts')  PROVE FilesOK(attempts'[i], saved[pin], pin)
  <2>1. CASE i = Len(attempts) + 1  BY <1>10, <1>12, <2>1
  <2>2. CASE i # Len(attempts) + 1
    <3>1. i \in 1..Len(attempts)  BY <1>2, <1>12, <2>2
    <3>2. QED  BY <1>12, <3>1 DEF AttemptsOK
  <2>3. QED  BY <2>1, <2>2
<1>14. PICK j : j = [next |-> "freeze", attempt |-> Len(attempts) + 1, content |-> c]  OBVIOUS
<1>15. /\ j \in PreparingType /\ j.next = "freeze" /\ j.attempt = Len(attempts) + 1
       /\ j.content = c
  BY <1>2, <1>7, <1>14 DEF PreparingType
<1>16. PreparingOK(j, saved[pin], pin)'
  BY <1>2, <1>7, <1>10, <1>11, <1>12, <1>15 DEF PreparingOK
<1>17. PreparingOK(preparing, saved[pin], pin)'
  BY <1>11, <1>14, <1>16 DEF PreparingOK
<1>18. QED  BY <1>3, <1>11, <1>12, <1>13, <1>17 DEF AttemptsOK

LEMMA CreateTaskKeeps ==
    ASSUME AuthoringInv, AttemptsOK, NEW n \in DOMAIN versions, CreateTask(n)
    PROVE  AttemptsOK'
<1>1. RowsOK /\ HeaderOK  BY DEF AuthoringInv
<1>2. Len(saved) \in Nat /\ n \in 1..Len(versions)  BY <1>1, LenProperties DEF RowsOK
<1>3. versions[n].state # "draft"  BY DEF CreateTask
<1>4. n # current  BY <1>1, <1>2, <1>3 DEF HeaderOK
<1>5. n \in 1..Len(saved)  BY <1>1, <1>2, <1>4 DEF HeaderOK
<1>6. attempts = <<>> /\ pin' = n /\ attempts' = attempts /\ saved' = saved /\ preparing' = Idle
  BY DEF CreateTask, AttemptsOK, authoring
<1>7. Len(attempts') = 0 /\ attempts' \in Seq(AttemptType)  BY <1>6 DEF AttemptsOK
<1>8. QED  BY <1>2, <1>5, <1>6, <1>7 DEF AttemptsOK

LEMMA InitOK == Init => IInv
<1> SUFFICES ASSUME Init  PROVE IInv
  OBVIOUS
<1>0. PICK empty : empty = <<>> /\ empty \in Seq(Edits)
  <2>1. <<>> \in Seq(Edits)  OBVIOUS
  <2>2. QED  BY <2>1
<1>1. PICK row : row = Version("draft", 1, empty)  OBVIOUS
<1>2. row \in Row /\ row.state = "draft" /\ row.revision = 1 /\ row.graph = <<>>
  BY <1>0, <1>1 DEF Version, Row
<1>3. /\ versions = <<row>> /\ current = 1 /\ saved = <<>> /\ requests = {}
      /\ screen = [c \in Authors |-> empty]
  BY <1>0, <1>1 DEF Init, AuthoringInit
<1>4. versions \in Seq(Row) /\ Len(versions) = 1 /\ versions[1] = row /\ Len(saved) = 0
      /\ saved \in Seq(Seq(Edits))
  BY <1>2, <1>3
<1>5. RowsOK /\ HeaderOK /\ RequestsOK
  BY <1>2, <1>3, <1>4 DEF RowsOK, HeaderOK, RequestsOK
<1>6. PICK v : v = View(1, 1, <<>>)  OBVIOUS
<1>7. v \in ViewType /\ v.version = 1 /\ v.revision = 1 /\ v.graph = <<>>
  BY <1>6 DEF View, ViewType
<1>8. window = [c \in Authors |-> v]  BY <1>6 DEF Init, AuthoringInit
<1>9. Was(1, 1, <<>>)  BY <1>2, <1>4 DEF Was
<1>10. WindowsOK
  BY <1>0, <1>3, <1>7, <1>8, <1>9, ContinuesSelf DEF WindowsOK, ViewType
<1>11. pin = 0 /\ attempts = <<>> /\ preparing = Idle  BY DEF Init
<1>12. Len(attempts) = 0 /\ attempts \in Seq(AttemptType)  BY <1>11
<1>13. AttemptsOK  BY <1>4, <1>11, <1>12 DEF AttemptsOK
<1>14. QED  BY <1>5, <1>10, <1>13 DEF IInv, AuthoringInv

LEMMA NextOK ==
    ASSUME IInv, [Next]_vars
    PROVE  IInv' /\ (Kept \/ History!Next)
<1>1. AuthoringInv /\ AttemptsOK  BY DEF IInv
<1>2. ASSUME UNCHANGED authoring  PROVE AuthoringInv' /\ Kept
  <2>1. UNCHANGED <<versions, current, window, screen, requests, saved>>  BY <1>2 DEF authoring
  <2>2. RowsOK /\ HeaderOK /\ WindowsOK /\ RequestsOK  BY <1>1 DEF AuthoringInv
  <2>3. RowsOK' /\ HeaderOK'  BY <2>1, <2>2 DEF RowsOK, HeaderOK
  <2>4. Later  BY <2>1, <2>2, SameIsLater
  <2>5. WindowsOK'  BY <2>1, <2>2, <2>4, WindowsStay
  <2>6. ASSUME NEW r \in requests'  PROVE RequestOK(r)'
    <3>1. RequestOK(r)  BY <2>1, <2>2 DEF RequestsOK
    <3>2. r.author \in Authors => window[r.author].revision \in Nat  BY <2>2, WindowFields
    <3>3. QED  BY <2>1, <2>2, <2>4, <3>1, <3>2, RequestStays
  <2>7. Kept  BY <2>1 DEF Kept, Released, Draft
  <2>8. QED  BY <2>3, <2>5, <2>6, <2>7 DEF AuthoringInv, RequestsOK
<1>3. CASE AuthoringNext /\ UNCHANGED <<pin, attempts, preparing>>
  BY <1>1, <1>3, AuthoringStep, AttemptsStay DEF IInv
<1>4. ASSUME NEW n \in DOMAIN versions, CreateTask(n)  PROVE UNCHANGED authoring /\ AttemptsOK'
  BY <1>1, <1>4, CreateTaskKeeps DEF CreateTask
<1>5. ASSUME NEW parent \in 0..Len(attempts), Prepare(parent)
      PROVE  UNCHANGED authoring /\ AttemptsOK'
  BY <1>1, <1>5, PrepareKeeps DEF Prepare
<1>6. CASE Freeze  BY <1>1, <1>2, <1>6, FreezeKeeps DEF Freeze, Step, IInv
<1>7. CASE WriteRun  BY <1>1, <1>2, <1>7, WriteRunKeeps DEF WriteRun, Step, IInv
<1>8. CASE WritePlan  BY <1>1, <1>2, <1>8, WritePlanKeeps DEF WritePlan, Step, IInv
<1>9. CASE Refreeze  BY <1>1, <1>2, <1>9, RefreezeKeeps DEF Refreeze, Step, IInv
<1>10. CASE Die  BY <1>1, <1>2, <1>10, DieKeeps DEF Die, IInv
<1>11. ASSUME NEW i \in DOMAIN attempts, Execute(i)  PROVE UNCHANGED authoring /\ AttemptsOK'
  BY <1>1, <1>11, ExecuteKeeps DEF Execute
<1>12. CASE UNCHANGED vars
  <2>1. UNCHANGED <<authoring, pin, attempts, preparing>>  BY <1>12 DEF vars
  <2>2. AttemptsOK'  BY <1>1, <2>1 DEF AttemptsOK, PreparingOK, authoring
  <2>3. QED  BY <1>2, <2>1, <2>2 DEF IInv
<1>13. QED
  BY <1>2, <1>3, <1>4, <1>5, <1>6, <1>7, <1>8, <1>9, <1>10, <1>11, <1>12 DEF Next, IInv

--------------------------------------------------------------------------------
(***************************************************************************)
(* Rows, header, windows, requests and attempts stay in order: what a      *)
(* window takes for saved is what the store holds, unless the store has    *)
(* moved on to a later revision, and the window's canvas shows it followed *)
(* by the edits that are not saved yet.                                    *)
(***************************************************************************)
THEOREM Invariance == Spec => []IInv
<1>1. Init => IInv  BY InitOK
<1>2. IInv /\ [Next]_vars => IInv'  BY NextOK
<1>3. QED  BY <1>1, <1>2, PTL DEF Spec

(***************************************************************************)
(* The authors see a history: an edit of the draft follows all that were   *)
(* accepted before it and is made once, and what is published stays.       *)
(***************************************************************************)
THEOREM Refinement == Spec => HistorySpec
<1>1. Init => History!Init
  <2>1. Init => Len(saved) = 0 /\ versions[1].graph = <<>> /\ current = 1
    BY DEF Init, AuthoringInit, Version
  <2>2. QED  BY <2>1 DEF History!Init, Released, Draft
<1>2. IInv /\ [Next]_vars => [History!Next]_(History!vars)
  BY NextOK DEF Kept, History!vars
<1>3. QED  BY Invariance, <1>1, <1>2, PTL DEF Spec, HistorySpec, History!Spec

(***************************************************************************)
(* An attempt that ran was given the version its task was created for, as  *)
(* its publisher's window had saved it.                                    *)
(***************************************************************************)
THEOREM RunsWhatWasSaved == Spec => []ExecutesWhatWasSaved
<1>1. IInv => ExecutesWhatWasSaved
  <2> SUFFICES ASSUME IInv, NEW i \in DOMAIN attempts, attempts[i].ran
               PROVE  /\ attempts[i].run = Content(saved[pin], saved[pin], pin)
                      /\ attempts[i].plan = saved[pin]
    BY DEF ExecutesWhatWasSaved
  <2>1. i \in 1..Len(attempts)  BY LenProperties DEF IInv, AttemptsOK
  <2>2. FilesOK(attempts[i], saved[pin], pin)  BY <2>1 DEF IInv, AttemptsOK
  <2>3. QED  BY <2>2 DEF FilesOK
<1>2. QED  BY Invariance, <1>1, PTL
================================================================================
