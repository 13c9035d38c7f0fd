---------------------------- MODULE WorkflowVersions ----------------------------
(***************************************************************************)
(* The versions of one workflow drawn on the V3 canvas                     *)
(* (workflow_version_store.py, workbench_v2_workflows.py): windows with    *)
(* the designer open (workflow-designer.tsx) edit the draft on their       *)
(* screens, and save, compile and publish it.  Their requests arrive late, *)
(* in any order or never, and so do the responses; a handler has no await  *)
(* and runs in one piece.                                                  *)
(*                                                                         *)
(* A graph is the sequence of the edits that made it, and the definition   *)
(* compiled from a graph is that graph.                                    *)
(***************************************************************************)
EXTENDS Naturals, Sequences, FiniteSets

CONSTANTS
    Authors,      \* windows with the designer open
    Edits,        \* edits they may make
    NoGraph,      \* in place of a graph
    Nobody,       \* in place of a window
    MaxRequests,  \* bound on the requests under way
    MaxVersions,  \* bound on the versions
    MaxRevision   \* bound on the revisions of one draft

ASSUME BoundsAssumption == MaxVersions \in Nat /\ MaxRevision \in Nat
ASSUME NamesAssumption == NoGraph \notin Seq(Edits) /\ Nobody \notin Authors

VARIABLES
    versions,   \* the rows: [state, revision, graph], by number
    current,    \* the header's current draft, or 0
    window,     \* what each window last saved or was answered: [version, revision, graph]
    screen,     \* the graph on each window's canvas, with the edits not saved yet
    requests,   \* the requests under way
    saved       \* of each published version: what its publisher had last saved

authoring == <<versions, current, window, screen, requests, saved>>

Version(s, r, g) == [state |-> s, revision |-> r, graph |-> g]
View(n, r, g) == [version |-> n, revision |-> r, graph |-> g]

\* author: the window that awaits the response, or Nobody; content: the graph to be
\* stored, the edit to be made, or the graph saved as the revision to be published.
Request(o, c, v, x) == [op |-> o, author |-> c, version |-> v.version,
                        revision |-> v.revision, content |-> x]

Contains(graph, e) == \E i \in DOMAIN graph : graph[i] = e

\* _create_workflow
AuthoringInit ==
    /\ versions = <<Version("draft", 1, <<>>)>>
    /\ current = 1
    /\ window = [c \in Authors |-> View(1, 1, <<>>)]
    /\ screen = [c \in Authors |-> <<>>]
    /\ requests = {}
    /\ saved = <<>>

IsDraft(n) == n \in DOMAIN versions /\ versions[n].state = "draft"
IsCurrent(n, r) == IsDraft(n) /\ versions[n].revision = r

Abandoned(c) == {IF q.author = c THEN [q EXCEPT !.author = Nobody] ELSE q : q \in requests}

--------------------------------------------------------------------------------
(* The windows.                                                            *)

\* get_workflow_version: the draft is opened again; nobody awaits the window's requests.
Open(c) ==
    /\ \E n \in DOMAIN versions :
         /\ IsDraft(n)
         /\ window' = [window EXCEPT ![c] =
                          View(n, versions[n].revision, versions[n].graph)]
         /\ screen' = [screen EXCEPT ![c] = versions[n].graph]
    /\ requests' = Abandoned(c)
    /\ UNCHANGED <<versions, current, saved>>

\* updateNode and the other changes of the canvas: nobody is told until the next save,
\* 800 ms later or at the next command.  (What is typed into a published version stays on
\* the screen, and is left out.)
Edit(c, e) ==
    /\ IsDraft(window[c].version) /\ ~Contains(screen[c], e)
    /\ screen' = [screen EXCEPT ![c] = Append(screen[c], e)]
    /\ UNCHANGED <<versions, current, window, requests, saved>>

\* Requests for a published version are left out: they are refused, whatever they say.
Send(q) ==
    /\ IsDraft(q.version) /\ Cardinality(requests) < MaxRequests
    /\ requests' = requests \cup {q}
    /\ UNCHANGED <<versions, current, window, screen, saved>>

\* persistLatestDraft, of the timer and of saveNow, sends the whole graph on the canvas, ...
SendSave(c) == Send(Request("save", c, window[c], screen[c]))

\* ... createNode and the other commands only the edit, ...
SendAdd(c, e) ==
    /\ ~Contains(screen[c], e)
    /\ Send(Request("add", c, window[c], e))

\* ... previewPlan and publishWorkflow only the revision, whatever was typed since the save
\* they begin with.
SendDerive(c) == Send(Request("derive", c, window[c], NoGraph))
SendPublish(c) == Send(Request("publish", Nobody, window[c], window[c].graph))

--------------------------------------------------------------------------------
(* The handlers.                                                           *)

\* The window takes the answer, unless nobody awaits it or it is lost; the window may
\* have sent its request again meanwhile.
Answer(q, view, canvas) ==
    /\ requests' = requests \ {q}
    /\ \/ UNCHANGED <<window, screen>>
       \/ /\ q.author # Nobody
          /\ window' = [window EXCEPT ![q.author] = view]
          /\ screen' = [screen EXCEPT ![q.author] = canvas]

ReplaceBlindly(q, graph) ==   \* slip: the transaction compares no revision
    /\ IsDraft(q.version) /\ versions[q.version].revision < MaxRevision
    /\ versions' = [versions EXCEPT ![q.version] =
                       Version("draft", versions[q.version].revision + 1, graph)]
    /\ UNCHANGED <<current, saved>>

\* _replace_v3_draft: one successor of a revision.
Replace(q, graph) ==
    /\ IsCurrent(q.version, q.revision) /\ q.revision < MaxRevision
    /\ versions' = [versions EXCEPT ![q.version] = Version("draft", q.revision + 1, graph)]
    /\ UNCHANGED <<current, saved>>

\* update_workflow_draft: what was sent is saved, and the canvas keeps what was typed since.
Save(q) ==
    /\ q.op = "save"
    /\ Replace(q, q.content)
    /\ Answer(q, View(q.version, versions'[q.version].revision, q.content), screen[q.author])

\* add_canvas_node and the other commands change the stored graph and answer it; the
\* canvas shows it instead of what was typed meanwhile.
AddNode(q) ==
    /\ q.op = "add" /\ q.version \in DOMAIN versions
    /\ LET graph == Append(versions[q.version].graph, q.content)
       IN  /\ Replace(q, graph)
           /\ Answer(q, View(q.version, versions'[q.version].revision, graph), graph)

\* validate_workflow_version and compile_workflow_version store what they derive from
\* the graph, and answer the revision only.
Derive(q) ==
    /\ q.op = "derive" /\ q.version \in DOMAIN versions
    /\ LET graph == versions[q.version].graph
       IN  /\ Replace(q, graph)
           /\ Answer(q, View(q.version, versions'[q.version].revision, window[q.author].graph),
                     screen[q.author])

Release(q) ==
    /\ versions' = [versions EXCEPT ![q.version].state = "published"]
    /\ current' = IF current = q.version THEN 0 ELSE current
    /\ saved' = Append(saved, q.content)
    /\ requests' = requests \ {q}
    /\ UNCHANGED <<window, screen>>

PublishUnsaved(q) ==   \* slip: whatever the revision of the draft is
    /\ q.op = "publish" /\ IsDraft(q.version)
    /\ Release(q)

\* publish_version: of the current draft, compiled again; the window is left.
Publish(q) ==
    /\ q.op = "publish" /\ IsCurrent(q.version, q.revision)
    /\ Release(q)

\* create_draft, from any version and numbered after the published ones.  Its request
\* carries nothing that could be out of date.
Start(n) ==
    /\ current = 0 /\ Len(versions) < MaxVersions
    /\ \A m \in DOMAIN versions : ~IsDraft(m)
    /\ versions' = Append(versions, Version("draft", 1, versions[n].graph))
    /\ current' = Len(versions) + 1
    /\ UNCHANGED <<window, screen, requests, saved>>

\* The request is refused, or never arrives.
Drop(q) ==
    /\ requests' = requests \ {q}
    /\ UNCHANGED <<versions, current, window, screen, saved>>

AuthoringNext ==
    \/ \E c \in Authors :
          \/ Open(c) \/ SendSave(c) \/ SendDerive(c) \/ SendPublish(c)
          \/ \E e \in Edits : Edit(c, e) \/ SendAdd(c, e)
    \/ \E n \in DOMAIN versions : Start(n)
    \/ \E q \in requests : Save(q) \/ AddNode(q) \/ Derive(q) \/ Publish(q) \/ Drop(q)

--------------------------------------------------------------------------------
(***************************************************************************)
(* The authors see a history: whatever windows save, retry or send late,   *)
(* no accepted edit is overwritten, made twice or published without its    *)
(* predecessors, and nothing published changes.                            *)
(***************************************************************************)
Released == [n \in 1..Len(saved) |-> versions[n].graph]
Draft == IF current = 0 THEN NoGraph ELSE versions[current].graph
History == INSTANCE VersionHistory WITH released <- Released, draft <- Draft
HistorySpec == History!Spec
================================================================================
