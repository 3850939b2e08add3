------------------------------ MODULE TaskExport ------------------------------
(* The task tree of one corpus and what is published of it: reviewers move,    *)
(* merge, create, delete and approve tasks, discovery runs write theirs over   *)
(* them (api/routes/discovery.py, persistence/review_db.py), and the exporters *)
(* mint IRIs and write the ontology, its Turtle form and the changelog         *)
(* (api/routes/export.py, services/task_exporter.py, cli.py).                  *)
(*                                                                             *)
(* Exports asked of the server share one event loop: they interleave where     *)
(* they wait for the database and never while they write files. The command    *)
(* line is a process of its own and reads extraction.json itself.              *)
(*                                                                             *)
(* A task is its parent and its verdict. Signatures are modelled in ReviewDb,  *)
(* labels, ordering and contradictions are left out; an ontology is the set of *)
(* the IRIs it declares. A new IRI is the next number (uuid4).                 *)
EXTENDS UnitReview

CONSTANTS
    TaskIds,
    FolioTasks,    \* the tasks that map to a FOLIO concept, whose IRI they use
    Served,        \* exports asked of the server
    Commands,      \* exports run on the command line
    MaxIris,       \* bound: minted IRIs
    MaxEdits       \* bound: changes of the tree

Exporters == Served \cup Commands

ASSUME ExportAssumption ==
    /\ IsFiniteSet(TaskIds) /\ FolioTasks \subseteq TaskIds
    /\ MaxIris \in Nat /\ MaxEdits \in Nat

VARIABLES
    tasks,      \* task_decisions: task -> [parent, approved], or NotYet
    links,      \* task_unit_links
    locked,     \* the decided tasks a discovery run has read, or NotYet
    treeEdits,  \* how many changes were made
    registry,   \* iri_registry: the rows <<entity, iri>>
    iris,       \* how many IRIs were generated
    exports,    \* the exporters' progress
    disk,       \* the files of the export: owl, prev, log
    named       \* every <<entity, iri>> a written file holds or held

treeVars == <<tasks, links, locked, treeEdits>>
exportVars == <<registry, iris, exports, disk, named>>

NoExport == [pc |-> "idle"]
NoFile == {<<"nothing", 0>>}
Torn == {<<"torn", 0>>}

InitTree ==
    /\ tasks = [t \in TaskIds |-> NotYet]
    /\ links = {}
    /\ locked = NotYet
    /\ treeEdits = 0

InitExport ==
    /\ registry = {}
    /\ iris = 0
    /\ exports = [e \in Exporters |-> NoExport]
    /\ disk = [owl |-> NoFile, prev |-> NoFile,
               log |-> [new |-> NoFile, old |-> NoFile], replaced |-> NoFile]
    /\ named = {}

-----------------------------------------------------------------------------
(* The task tree.                                                            *)

Present == {t \in TaskIds : tasks[t] # NotYet}
TaskRow(parent) == [parent |-> parent, approved |-> FALSE]

EditTree ==
    /\ treeEdits < MaxEdits
    /\ treeEdits' = treeEdits + 1
    /\ UNCHANGED <<locked, exportVars, unitVars>>

(* create_task: under any parent, without looking for it *)
CreateTask ==
    /\ EditTree
    /\ \E t \in TaskIds \ Present, parent \in TaskIds \cup {NotYet} :
          /\ t # parent
          /\ tasks' = [tasks EXCEPT ![t] = TaskRow(parent)]
    /\ UNCHANGED links

(* review_task, bulk_approve_tasks *)
DecideTask ==
    /\ EditTree
    /\ \E t \in Present, approved \in BOOLEAN : tasks' = [tasks EXCEPT ![t].approved = approved]
    /\ UNCHANGED links

DeleteTask ==
    /\ EditTree
    /\ \E t \in Present :
          /\ tasks' = [tasks EXCEPT ![t] = NotYet]
          /\ links' = {l \in links : l[1] # t}

(* hierarchy_edit looks for neither task and for no cycle. *)
MoveTask ==
    /\ EditTree
    /\ \E t \in TaskIds, target \in TaskIds :
          tasks' = IF t \in Present THEN [tasks EXCEPT ![t].parent = target] ELSE tasks
    /\ UNCHANGED links

(* A merge into the task itself deletes its links with it. *)
MergeTask ==
    /\ EditTree
    /\ \E t \in TaskIds, target \in TaskIds :
          /\ tasks' = [tasks EXCEPT ![t] = NotYet]
          /\ links' = {l \in links \cup {<<target, l[2]>> : l \in {k \in links : k[1] = t}} :
                          l[1] # t}

(* _load_approved_decisions: what a run will put back as it was *)
DiscoverStart ==
    /\ locked = NotYet
    /\ locked' = [t \in {s \in Present : tasks[s].approved} |-> tasks[t].parent]
    /\ UNCHANGED <<tasks, links, treeEdits, exportVars, unitVars>>

(* persist_discovery: the run's tree is inserted; of a row that stands the      *)
(* parent is overwritten and the verdict kept; links are only added             *)
DiscoverEnd ==
    /\ locked # NotYet
    /\ treeEdits < MaxEdits
    /\ treeEdits' = treeEdits + 1
    /\ \E t \in TaskIds \ (Present \cup DOMAIN locked), u \in written :
       \E parent \in {NotYet} \cup DOMAIN locked :
          /\ tasks' = [s \in TaskIds |->
                CASE s = t -> TaskRow(parent)
                  [] s \in DOMAIN locked /\ s \in Present -> [tasks[s] EXCEPT !.parent = locked[s]]
                  [] s \in DOMAIN locked /\ s \notin Present -> TaskRow(locked[s])
                  [] OTHER -> tasks[s]]
          /\ links' = links \cup {<<t, u>>}
    /\ locked' = NotYet
    /\ UNCHANGED <<exportVars, unitVars>>

(* fault: the root rule of the exporters, which see only approved tasks' rows *)
RootsWithoutParent == {t \in Present : tasks[t].parent = NotYet}

(* get_task_tree: a task whose parent is not there is a root *)
Roots == {t \in Present : tasks[t].parent \notin Present}

ChildrenOf(ts) == {t \in Present : tasks[t].parent \in ts}

(* The nodes the tree shows: the roots and whatever hangs below them. *)
ShownTasks ==
    LET level[n \in 0 .. Cardinality(TaskIds)] ==
            IF n = 0 THEN Roots ELSE level[n - 1] \cup ChildrenOf(level[n - 1])
    IN  level[Cardinality(TaskIds)]

-----------------------------------------------------------------------------
(* Exports.                                                                  *)

(* _load_export_data and export read the tasks; the server filters them later, *)
(* and answers 404 when none is left.                                          *)
ExportTasks(e) ==
    /\ exports[e] = NoExport
    /\ \E all \in {FALSE} \cup {e \in Commands} :
          LET chosen == {t \in Present : all \/ tasks[t].approved}
          IN  /\ chosen # {}
              /\ exports' = [exports EXCEPT ![e] =
                    [pc |-> "links", tasks |-> chosen,
                     roots |-> {t \in chosen : tasks[t].parent = NotYet}]]
    /\ UNCHANGED <<registry, iris, disk, named, treeVars, unitVars>>

(* Links are read by a later statement; units the file lacks are skipped. *)
ExportLinks(e) ==
    /\ exports[e].pc = "links"
    /\ LET units == IF e \in Served THEN Units ELSE written
           chosen == {l \in links : l[1] \in exports[e].tasks /\ l[2] \in units}
           entities == (exports[e].tasks \ FolioTasks) \cup {l[2] : l \in chosen}
       IN  exports' = [exports EXCEPT ![e] =
              [pc |-> "mint", tasks |-> exports[e].tasks, roots |-> exports[e].roots,
               links |-> chosen, todo |-> entities, iri |-> {}]]
    /\ IF e \in Served THEN Serve ELSE UNCHANGED served
    /\ UNCHANGED <<registry, iris, disk, named, treeVars>>
    /\ UNCHANGED <<written, reviews, claimed, policy, signed, asks>>

Rows(x) == {row \in registry : row[1] = x}

(* get_or_create_iri: the row that is there, or a new IRI to be inserted *)
LookUp(e) ==
    /\ exports[e].pc = "mint"
    /\ \E x \in exports[e].todo :
          \/ /\ Rows(x) # {}
             /\ \E row \in Rows(x) :
                   exports' = [exports EXCEPT ![e].iri = @ \cup {row}, ![e].todo = @ \ {x}]
             /\ UNCHANGED iris
          \/ /\ Rows(x) = {} /\ iris < MaxIris
             /\ iris' = iris + 1
             /\ exports' = [exports EXCEPT ![e].pc = "insert", ![e].todo = @ \ {x},
                                           ![e].iri = @ \cup {<<x, iris + 1>>}]
    /\ UNCHANGED <<registry, disk, named, treeVars, unitVars>>

Pending(e) == {row \in exports[e].iri : row \notin registry}

(* fault: entity_id is not UNIQUE *)
InsertAny(rows) == TRUE

(* iri_registry: entity_id is UNIQUE *)
InsertFits(rows) == \A row \in rows : Rows(row[1]) = {}

(* A conflicting insert fails the export. *)
Insert(e) ==
    /\ exports[e].pc = "insert"
    /\ \/ /\ InsertFits(Pending(e))
          /\ registry' = registry \cup Pending(e)
          /\ exports' = [exports EXCEPT ![e].pc = "mint"]
       \/ /\ ~InsertFits(Pending(e))
          /\ exports' = [exports EXCEPT ![e] = NoExport]
          /\ UNCHANGED registry
    /\ UNCHANGED <<iris, disk, named, treeVars, unitVars>>

(* build_graph: a class per task with a FOLIO IRI, an individual per unit of one *)
Graph(e) ==
    {<<t, 0>> : t \in exports[e].tasks \cap FolioTasks}
    \cup {row \in exports[e].iri : \E l \in exports[e].links : l[1] \in FolioTasks /\ l[2] = row[1]}

Writing == {"owl", "log"}

(* No other request of the server runs while one writes its files. *)
Turn(e) == e \in Served => \A f \in Served \ {e} : exports[f].pc \notin Writing

Enter(e, from) == exports[e].pc = from /\ Turn(e)
Goto(e, to) == exports' = [exports EXCEPT ![e].pc = to]

(* build_all_chunks: a chunk per exported task without a parent, with its units *)
Chunks(e) ==
    {row \in exports[e].iri :
        \E l \in exports[e].links : l[1] \in exports[e].roots /\ l[2] = row[1]}

(* export_jsonld *)
WriteChunks(e) ==
    /\ Enter(e, "mint") /\ exports[e].todo = {}
    /\ named' = named \cup Chunks(e)
    /\ exports' = [exports EXCEPT ![e] = NoExport]
    /\ UNCHANGED <<registry, iris, disk, treeVars, unitVars>>

(* archive_current, after load_previous_graph *)
Archived(file) == [file EXCEPT !.prev = IF file.owl = NoFile THEN file.prev ELSE file.owl]

(* export_owl loads the graph of prev, which fails if it is torn, and archives   *)
(* the current file.                                                            *)
Archive(e) ==
    /\ Enter(e, "mint") /\ exports[e].todo = {}
    /\ \/ /\ disk.prev = Torn
          /\ exports' = [exports EXCEPT ![e] = NoExport]
          /\ UNCHANGED disk
       \/ /\ disk.prev # Torn
          /\ exports' = [exports EXCEPT ![e] =
                [pc |-> "owl", graph |-> Graph(e), old |-> disk.prev, replaces |-> disk.owl]]
          /\ disk' = Archived(disk)
    /\ UNCHANGED <<registry, iris, named, treeVars, unitVars>>

WriteOwl(e) ==
    /\ Enter(e, "owl") /\ Goto(e, "log")
    /\ disk' = [disk EXCEPT !.owl = exports[e].graph]
    /\ named' = named \cup exports[e].graph
    /\ UNCHANGED <<registry, iris, treeVars, unitVars>>

(* The Turtle form, and the changelog. *)
WriteLog(e) ==
    /\ Enter(e, "log")
    /\ exports' = [exports EXCEPT ![e] = NoExport]
    /\ disk' = [disk EXCEPT !.log = [new |-> exports[e].graph, old |-> exports[e].old],
                            !.replaced = exports[e].replaces]
    /\ UNCHANGED <<registry, iris, named, treeVars, unitVars>>

(* A process ends between two steps, or while it writes the ontology. *)
Die(es) ==
    /\ exports' = [e \in Exporters |-> IF e \in es THEN NoExport ELSE exports[e]]
    /\ disk' \in {disk} \cup {[disk EXCEPT !.owl = Torn] : e \in {f \in es : exports[f].pc = "owl"}}
    /\ UNCHANGED <<registry, iris, named>>

Kill ==
    /\ \E e \in Commands : exports[e] # NoExport /\ Die({e})
    /\ UNCHANGED <<treeVars, unitVars>>

(* The server restarts with its exports and the units it held. *)
RestartServer == Restart /\ Die(Served) /\ UNCHANGED treeVars

NextTree ==
    \/ CreateTask \/ DecideTask \/ DeleteTask \/ MoveTask \/ MergeTask
    \/ DiscoverStart \/ DiscoverEnd

NextExport ==
    \/ \E e \in Exporters :
          \/ ExportTasks(e) \/ ExportLinks(e) \/ LookUp(e) \/ Insert(e)
          \/ WriteChunks(e) \/ Archive(e) \/ WriteOwl(e) \/ WriteLog(e)
    \/ Kill \/ RestartServer

ExtractAgain == Extract /\ UNCHANGED <<treeVars, exportVars>>

taskVars == <<unitVars, treeVars, exportVars>>

TaskSpec == InitUnits /\ InitTree /\ InitExport /\ [][NextTree \/ NextExport \/ ExtractAgain]_taskVars

-----------------------------------------------------------------------------
(* Whatever exports overlap, die or fail, no two written files ever gave a unit *)
(* different IRIs, and no two units one IRI.                                    *)
StableIri ==
    \A a \in named, b \in named : a[2] # 0 /\ b[2] # 0 => (a[1] = b[1] <=> a[2] = b[2])

(* Following a task's parents, the tasks above it. *)
Above(t) ==
    LET up[n \in 0 .. Cardinality(TaskIds)] ==
            IF n = 0 THEN ({tasks[t].parent} \cap Present)
            ELSE up[n - 1] \cup ({tasks[s].parent : s \in up[n - 1]} \cap Present)
    IN  up[Cardinality(TaskIds)]

(* After any moves, merges, deletes and discovery runs the tree shows every     *)
(* task but those that were moved below one of their own descendants.           *)
TreeIsWhole ==
    ShownTasks = {t \in Present : \A s \in Above(t) \cup {t} : s \notin Above(s)}

(* changelog_generator.py: the changelog compares the export with the export    *)
(* before it, whose file it replaced. (It compares with the one before that.)   *)
ChangelogIsHonest == disk.log.new # NoFile => disk.log.old = disk.replaced

(* "only approved items are serialized": an ontology holds no unit that a       *)
(* reviewer had rejected when the export read the units. (Unit reviews are not  *)
(* read.)                                                                       *)
OnlyApproved ==
    [][\A e \in Exporters : exports[e].pc = "links" /\ exports'[e].pc = "mint" =>
          \A l \in exports'[e].links : Shown(l[2]) # "rejected"]_taskVars
=============================================================================
