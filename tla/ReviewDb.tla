------------------------------- MODULE ReviewDb -------------------------------
(* The tasks of one corpus in review.db: reviewers decide, move, merge, delete *)
(* and create them through the API (api/routes/discovery.py), most of them by  *)
(* signed decisions, while discovery runs rebuild the task tree from the       *)
(* corpus and write it back (pipeline/discovery, persistence/review_db.py).    *)
(*                                                                             *)
(* A request verifies its signature and looks for its task before its write    *)
(* transaction; the transaction consumes the nonce and writes. A run reads the *)
(* decided tasks once, works from checkpoints that survive a crash, writes the *)
(* tree file and only then the database.                                       *)
(*                                                                             *)
(* Task ids are numbered in the order in which they are made. A task is its    *)
(* label and its verdict: parents, unit links, ordering and contradictions are *)
(* left out, and so is the merging of duplicates within one run.               *)
EXTENDS Integers, FiniteSets

CONSTANTS
    RowIds,     \* 1 .. n: the ids (uuid4) that may be made
    Labels,      \* the labels of the candidates the corpus gives, and of manual tasks
    Reviewers,   \* concurrent requests
    Nonces,      \* the nonces of signed decisions
    None

VARIABLES
    decisions,   \* task_decisions: id -> row, or None
    nonces,      \* decision_nonces: nonce -> what it was used for, or None
    edits,       \* hierarchy_edits: the signed ones
    tree,        \* the ids of task_tree.json
    made,        \* how many ids have been made
    requests,    \* the request each reviewer has in flight
    run,         \* the discovery run
    checkpoint   \* the run's newest checkpoint, or None

db == <<decisions, nonces, edits>>
reviewVars == <<decisions, nonces, edits, tree, made, requests, run, checkpoint>>

TaskRows == {t \in RowIds : decisions[t] # None}

\* A row as a run or create_task inserts it; nonce stands for the signed decision a row
\* carries.
NewRow(label) ==
    [label |-> label, status |-> "unreviewed",
     edited |-> None, nonce |-> None]

EditedLabel == "the reviewer's label"

DecisionRow == [label : Labels \cup {EditedLabel},
            status : {"unreviewed", "approved", "rejected", "edited"},
            edited : {None, EditedLabel},
            nonce : Nonces \cup {None}]

ASSUME TaskAssumption == IsFiniteSet(Labels) /\ None \notin DecisionRow

NoRequest == [pc |-> "idle"]
Idle == [pc |-> "idle"]

InitReview ==
    /\ decisions = [t \in RowIds |-> None]
    /\ nonces = [n \in Nonces |-> None]
    /\ edits = {}
    /\ tree = {}
    /\ made = 0
    /\ requests = [r \in Reviewers |-> NoRequest]
    /\ run = Idle
    /\ checkpoint = None

-----------------------------------------------------------------------------
(* Requests.                                                                 *)

\* What a signature binds: the kind, the target and the verdict of the request.
Claim(request) == [kind |-> request.kind, target |-> request.target, verdict |-> request.verdict]

Accept(r, request) ==
    /\ requests[r].pc = "idle"
    /\ requests' = [requests EXCEPT ![r] = request]
    /\ UNCHANGED <<decisions, nonces, edits, tree, made, run, checkpoint>>

Request(kind, target, verdict, nonce) ==
    [pc |-> "write", kind |-> kind, target |-> target, verdict |-> verdict, nonce |-> nonce]

\* review_task and delete_task find the task first, outside the write transaction.
BeginReview(r) ==
    \E t \in TaskRows, status \in {"approved", "rejected", "edited"}, n \in Nonces \cup {None} :
        Accept(r, Request("task_review", {t}, status, n))

BeginDelete(r) ==
    \E t \in TaskRows, n \in Nonces \cup {None} :
        Accept(r, Request("task_delete", {t}, "delete", n))

\* bulk_approve_tasks fixes its selection from the tree file when it is received; the
\* signature binds that selection.
BeginBulkApprove(r) ==
    \E n \in Nonces \cup {None} :
        Accept(r, Request("task_bulk_approve", tree, "approved", n))

\* hierarchy_edit looks for neither of its tasks, and create_task has none.
BeginEdit(r) ==
    \E t \in 1 .. made, type \in {"move", "merge"}, n \in Nonces \cup {None} :
        Accept(r, Request("hierarchy_edit", {t}, type, n))

BeginCreate(r) ==
    \E n \in Nonces \cup {None} :
        /\ made < Cardinality(RowIds)
        /\ Accept(r, Request("task_create", {}, "create", n))

\* UPDATE of the verdict and of every signed column of the target rows that still exist.
Decided(request) ==
    LET status == request.verdict
        edited(row) == IF request.kind = "task_bulk_approve" THEN row.edited
                       ELSE IF status = "edited" THEN EditedLabel ELSE None
    IN  [t \in RowIds |->
            IF t \in request.target /\ decisions[t] # None
            THEN [decisions[t] EXCEPT !.status = status, !.nonce = request.nonce,
                                  !.edited = edited(decisions[t])]
            ELSE decisions[t]]

Without(gone) == [t \in RowIds |-> IF t \in gone THEN None ELSE decisions[t]]

\* A delete and a hierarchy edit leave a record that names the signer.
Recorded(request) ==
    IF request.nonce = None THEN edits
    ELSE edits \cup {[claim |-> Claim(request), nonce |-> request.nonce]}

\* The write of each kind of request, in the transaction that consumed its nonce.
WriteVerdict(request) ==
    /\ request.kind \in {"task_review", "task_bulk_approve"}
    /\ decisions' = Decided(request)
    /\ UNCHANGED <<edits, made>>

WriteDelete(request) ==
    /\ request.kind = "task_delete"
    /\ decisions' = Without(request.target)
    /\ edits' = Recorded(request)
    /\ UNCHANGED made

\* A merge deletes its source, whether or not there is a target; a move only re-parents.
WriteEdit(request) ==
    /\ request.kind = "hierarchy_edit"
    /\ decisions' = IF request.verdict = "merge" THEN Without(request.target) ELSE decisions
    /\ edits' = Recorded(request)
    /\ UNCHANGED made

WriteCreate(request) ==
    /\ request.kind = "task_create"
    /\ made < Cardinality(RowIds)
    /\ made' = made + 1
    /\ \E label \in Labels :
          decisions' = [decisions EXCEPT ![made + 1] =
                       [NewRow(label) EXCEPT !.nonce = request.nonce]]
    /\ UNCHANGED edits

Write(request) ==
    WriteVerdict(request) \/ WriteDelete(request) \/ WriteEdit(request) \/ WriteCreate(request)

(* fault: a nonce is unique per target *)
NonceUsedForTarget(request) ==
    /\ request.nonce # None /\ nonces[request.nonce] # None
    /\ nonces[request.nonce].target = request.target

\* claim_decision_nonce: the UNIQUE key of decision_nonces refuses a used nonce.
NonceUsed(request) == request.nonce # None /\ nonces[request.nonce] # None

Claimed(request) ==
    IF request.nonce = None THEN nonces ELSE [nonces EXCEPT ![request.nonce] = Claim(request)]

\* The write transaction. A used nonce rolls it back, and nothing is written.
Commit(r) ==
    LET request == requests[r]
    IN  /\ request.pc = "write"
        /\ requests' = [requests EXCEPT ![r] = NoRequest]
        /\ \/ NonceUsed(request) /\ UNCHANGED <<db, made>>
           \/ /\ ~NonceUsed(request)
              /\ nonces' = Claimed(request)
              /\ Write(request)
        /\ UNCHANGED <<tree, run, checkpoint>>

-----------------------------------------------------------------------------
(* Discovery runs.                                                           *)

\* _load_approved_decisions: the tasks a run must treat as locked, by their edited label.
Locked ==
    LET locked == {t \in TaskRows : decisions[t].status \in {"approved", "edited"}}
    IN  [t \in locked |-> IF decisions[t].edited # None THEN decisions[t].edited ELSE decisions[t].label]

\* A run loads the decided tasks; a checkpoint of an earlier attempt replaces what it
\* just loaded.
RunStart ==
    /\ run.pc = "idle"
    /\ run' = IF checkpoint = None
              THEN [pc |-> "build", locked |-> Locked, tasks |-> [t \in {} |-> None]]
              ELSE checkpoint
    /\ UNCHANGED <<db, tree, made, requests, checkpoint>>

\* Every candidate label becomes a task with a new id, and the locked tasks are added.
Built(locked) ==
    LET candidates == made + 1 .. made + Cardinality(Labels)
        labelOf == CHOOSE f \in [candidates -> Labels] : \A l \in Labels : \E t \in candidates : f[t] = l
    IN  [t \in candidates \cup DOMAIN locked |->
            IF t \in DOMAIN locked THEN locked[t] ELSE labelOf[t]]

\* The stages up to hierarchy construction, and the checkpoint of the result.
RunBuild ==
    /\ run.pc = "build"
    /\ made + Cardinality(Labels) \in RowIds
    /\ LET job == [run EXCEPT !.pc = "write", !.tasks = Built(run.locked)]
       IN  run' = job /\ checkpoint' = job
    /\ made' = made + Cardinality(Labels)
    /\ UNCHANGED <<db, tree, requests>>

\* _write_output: the tree file is replaced before the database is touched.
RunWriteTree ==
    /\ run.pc = "write"
    /\ tree' = DOMAIN run.tasks
    /\ run' = [run EXCEPT !.pc = "persist"]
    /\ UNCHANGED <<db, made, requests, checkpoint>>

(* fault: the upsert replaces the whole row *)
ReplacedRow(t) == NewRow(run.tasks[t])

\* The row after INSERT ... ON CONFLICT DO UPDATE: of an existing row only the
\* machine-owned columns change.
UpsertedRow(t) ==
    IF decisions[t] = None THEN NewRow(run.tasks[t])
                       ELSE [decisions[t] EXCEPT !.label = run.tasks[t]]

\* persist_discovery, in one transaction: rows are added, none is removed.
RunPersist ==
    /\ run.pc = "persist"
    /\ decisions' = [t \in RowIds |->
           IF t \in DOMAIN run.tasks THEN UpsertedRow(t) ELSE decisions[t]]
    /\ run' = [run EXCEPT !.pc = "done"]
    /\ UNCHANGED <<nonces, edits, tree, made, requests, checkpoint>>

\* The handler removes the checkpoints when the run has returned.
RunEnd ==
    /\ run.pc = "done"
    /\ run' = Idle
    /\ checkpoint' = None
    /\ UNCHANGED <<db, tree, made, requests>>

\* The worker dies; the retry resumes from the checkpoint.
RunCrash ==
    /\ run.pc # "idle"
    /\ run' = Idle
    /\ UNCHANGED <<db, tree, made, requests, checkpoint>>

Review ==
    \E r \in Reviewers :
          \/ BeginReview(r) \/ BeginDelete(r) \/ BeginBulkApprove(r)
          \/ BeginEdit(r) \/ BeginCreate(r) \/ Commit(r)

Discover == RunStart \/ RunBuild \/ RunWriteTree \/ RunPersist \/ RunEnd \/ RunCrash

NextReview == Review \/ Discover

ReviewSpec == InitReview /\ [][NextReview]_reviewVars

-----------------------------------------------------------------------------
(* Properties.                                                               *)

\* Types: ids are made in order, a nonce names the request that consumed it, and a
\* signature in the database names a consumed nonce.
ReviewTypeOK ==
    /\ made \in 0 .. Cardinality(RowIds) /\ TaskRows \subseteq 1 .. made /\ tree \subseteq 1 .. made
    /\ \A t \in TaskRows : decisions[t] \in DecisionRow
    /\ \A n \in Nonces : nonces[n] # None => nonces[n].target \subseteq 1 .. made
    /\ \A r \in Reviewers : requests[r].pc \in {"idle", "write"}
    /\ run.pc \in {"idle", "build", "write", "persist", "done"}
    /\ run.pc \in {"write", "persist", "done"} => DOMAIN run.tasks \subseteq 1 .. made
    /\ checkpoint # None => checkpoint.pc = "write"

ReviewVerdict(t) == <<decisions[t].status, decisions[t].edited, decisions[t].nonce>>

\* A reviewer's verdict outlives discovery: no run, resumed or repeated from an old
\* checkpoint, changes the status, the edited label or the signer of a row or removes it;
\* only a request that names the task does.
VerdictsSurvive ==
    [][\A t \in TaskRows :
          \/ decisions'[t] # None /\ ReviewVerdict(t)' = ReviewVerdict(t)
          \/ \E r \in Reviewers : /\ requests[r].pc = "write" /\ requests'[r].pc = "idle"
                                  /\ t \in requests[r].target]_reviewVars

\* Every signed decision in the database is the one its nonce was consumed for: a
\* signature is never recorded on another task, for another verdict or without its nonce.
SignedAsClaimed ==
    /\ \A t \in TaskRows : decisions[t].nonce # None =>
          LET claim == nonces[decisions[t].nonce]
          IN  /\ claim # None
              /\ \/ t \in claim.target /\ claim.verdict = decisions[t].status
                 \/ claim.kind = "task_create" /\ decisions[t].status = "unreviewed"
    /\ \A e \in edits : e.nonce # None => nonces[e.nonce] = e.claim

\* orchestrator.py: locked tasks "are not re-discovered or overwritten": a run adds
\* no task with the label of a task it holds as locked. (It does:
\* _candidates_to_tasks takes the locked ids and never looks at them.)
NotRediscovered ==
    run.pc = "write" =>
        \A t \in DOMAIN run.tasks \ DOMAIN run.locked, l \in DOMAIN run.locked :
            run.tasks[t] # run.locked[l]
=============================================================================
