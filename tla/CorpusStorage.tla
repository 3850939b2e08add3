---------------------------- MODULE CorpusStorage ----------------------------
(***************************************************************************)
(* One corpus of src/folio_insights/storage: the append-only SQLite        *)
(* journal, the RDF projection derived from it, and the contexts           *)
(* (CorpusStorageContext) of several processes that write and read them.   *)
(*                                                                         *)
(* A write commits rows to the journal in one transaction and then brings  *)
(* the projection up to the journal; a read first does the same.  The      *)
(* catch-up runs step by step under the projection lock, and the process   *)
(* may fail or stop between any two steps.                                 *)
(*                                                                         *)
(* The chain digest the projection stores with its watermark covers every  *)
(* row applied, so it is modelled as the sequence of those rows: `applied' *)
(* is the watermark (its length, one more than the position) and the       *)
(* digest (its content).                                                   *)
(***************************************************************************)
EXTENDS Integers, Sequences, FiniteSets, SequencesExt

CONSTANTS
    Contexts,       \* CorpusStorageContext objects, one per process
    Tasks,          \* coroutines that call them
    Home,           \* the context of each task
    Subjects,       \* shard IRIs
    Values,         \* contents of a shard revision
    Requests,       \* writes that callers submit: an op_id and its records
    Absent,         \* no quads of a subject in the projection
    None,
    ReplayBatch,    \* replay_batch_size
    BulkBatch,      \* bulk_replay_batch_size
    BulkMin,        \* BULK_LOAD_MIN_ROWS
    MaxRows,        \* bound on the length of the journal
    Maintenance     \* bound: whether operators rebuild, snapshot and restore

ASSUME HomeAssumption  == Home \in [Tasks -> Contexts]
ASSUME BatchAssumption == ReplayBatch \in Nat \ {0} /\ BulkBatch \in Nat \ {0}
                              /\ BulkMin \in Nat \ {0}
ASSUME CallerAssumption ==
    /\ IsFiniteSet(Requests)
    /\ \A r \in Requests : r.body \in Seq([subject : Subjects, value : Values])
    /\ MaxRows \in Nat
    /\ None \notin Tasks \cup {"snapshot"} /\ "snapshot" \notin Tasks

VARIABLES
    journal,    \* the committed rows
    graph,      \* the corpus graph of the projection
    applied,    \* its watermark and chain digest
    lock,       \* who holds the projection lock
    ctx,        \* the contexts' memory
    task,       \* what each task is doing
    saved       \* the last snapshot

projection == <<graph, applied>>
vars == <<journal, graph, applied, lock, ctx, task, saved>>

Ops == {r.op : r \in Requests}

(* the calls that answer with contents *)
Reading == {"read", "barrier"}

CallOf(r) ==
    CASE r.pc = "done"                           -> [state |-> "answered", view |-> r.view]
      [] r.pc # "done" /\ r.goal \in Reading     -> [state |-> "asked", low |-> r.since]
      [] r.pc # "done" /\ ~(r.goal \in Reading)  -> [state |-> "none"]

(* what the callers know of their calls *)
callView == [t \in Tasks |-> CallOf(task[t])]

Log == INSTANCE StoreLog WITH
    Callers <- Tasks,
    log     <- journal,
    call    <- callView

RowsOf(request) ==
    [k \in DOMAIN request.body |-> [op |-> request.op, body |-> request.body, part |-> k]]

Empty == [s \in Subjects |-> Absent]

Written(rows) == {Log!Revision(rows[i]).subject : i \in DOMAIN rows}

(* the projection after rows are applied to it: each one replaces its subject *)
Loaded(rows) ==
    [s \in Subjects |-> IF s \in Written(rows) THEN Log!Contents(rows)[s] ELSE graph[s]]

-----------------------------------------------------------------------------
Idle == [pc |-> "idle", goal |-> "none", since |-> 0, head |-> 0, upto |-> 0,
         view |-> None]

Closed == [open |-> FALSE, confirmed |-> 0, verified |-> <<>>]

CatchingUp == {"lock", "inspect", "apply", "mark"}

TasksOf(c) == {t \in Tasks : Home[t] = c}

(* `open' returns the context only once it has caught up *)
InService(c) == ctx[c].open /\ \A t \in TasksOf(c) : task[t].goal # "open"

Calls(t, pc, goal) ==
    task' = [task EXCEPT ![t] =
                [Idle EXCEPT !.pc = pc, !.goal = goal,
                             !.since = IF goal \in Reading THEN Len(journal) ELSE 0]]

OpenContext(t) ==
    /\ ~ctx[Home[t]].open
    /\ \A u \in TasksOf(Home[t]) : task[u].pc = "idle"
    /\ ctx' = [ctx EXCEPT ![Home[t]] = [Closed EXCEPT !.open = TRUE]]
    /\ Calls(t, "lock", "open")
    /\ UNCHANGED <<journal, projection, lock, saved>>

(* The transaction of _put_shard, _ingest and _append_governance: an op_id  *)
(* that is committed already is replayed if the request is the same and     *)
(* refused if it is not.                                                    *)
Commit(request) ==
    LET committed == {i \in DOMAIN journal : journal[i].op = request.op}
    IN  IF committed = {}
        THEN /\ Len(journal) + Len(request.body) <= MaxRows
             /\ journal' = journal \o RowsOf(request)
        ELSE /\ \A i \in committed : journal[i].body = request.body
             /\ UNCHANGED journal

Write(t) ==
    /\ InService(Home[t])
    /\ task[t].pc = "idle"
    /\ \E request \in Requests : Commit(request)
    /\ Calls(t, "lock", "write")
    /\ UNCHANGED <<projection, lock, ctx, saved>>

(* query, dependents, exports: a read of the projection under its lock; and *)
(* rebuild_projection                                                       *)
CallProjection(t) ==
    /\ InService(Home[t])
    /\ task[t].pc = "idle"
    /\ \E goal \in {"read"} \cup (IF Maintenance THEN {"rebuild"} ELSE {}) :
          Calls(t, "lock", goal)
    /\ UNCHANGED <<journal, projection, lock, ctx, saved>>

(* get, list, history, status: a read of the journal up to _barrier()       *)
CallBarrier(t) ==
    /\ InService(Home[t])
    /\ task[t].pc = "idle"
    /\ Calls(t, "barrier", "barrier")
    /\ UNCHANGED <<journal, projection, lock, ctx, saved>>

Answers(t, view) ==
    task' = [task EXCEPT ![t].pc = "done", ![t].view = view]

(* fault: a context that has caught up once is not asked again *)
BarrierOnce(t) ==
    /\ task[t].pc = "barrier"
    /\ ctx[Home[t]].open
    /\ IF ctx[Home[t]].confirmed > 0
       THEN Answers(t, Log!Contents(SubSeq(journal, 1, ctx[Home[t]].confirmed)))
       ELSE task' = [task EXCEPT ![t].pc = "lock"]
    /\ UNCHANGED <<journal, projection, lock, ctx, saved>>

(* _barrier: nothing to do when this context confirmed the committed head   *)
Barrier(t) ==
    /\ task[t].pc = "barrier"
    /\ ctx[Home[t]].open
    /\ IF Len(journal) = ctx[Home[t]].confirmed
       THEN Answers(t, Log!Contents(journal))
       ELSE task' = [task EXCEPT ![t].pc = "lock"]
    /\ UNCHANGED <<journal, projection, lock, ctx, saved>>

-----------------------------------------------------------------------------
(* _catch_up *)

AcquireLock(t) ==
    /\ task[t].pc = "lock"
    /\ lock = None
    /\ lock' = t
    /\ task' = [task EXCEPT ![t].pc = "inspect"]
    /\ UNCHANGED <<journal, projection, ctx, saved>>

(* fault: only the row at the watermark is compared *)
LastRowMatches(c) ==
    LET w == Len(applied)
    IN  w > 0 => w <= Len(journal) /\ journal[w] = applied[w]

(* The projection was built from exactly this journal's rows; recomputed    *)
(* from the chain this context verified last.                               *)
ChainMatches(c) ==
    LET w        == Len(applied)
        verified == ctx[c].verified
        start    == IF Len(verified) < w THEN verified ELSE <<>>
    IN  w > 0 =>
          /\ w <= Len(journal)
          /\ applied = IF Len(verified) = w THEN verified
                       ELSE start \o SubSeq(journal, Len(start) + 1, w)

(* fault: the reset drops the watermark and not the graph *)
InspectKeepingGraph(t) ==
    /\ task[t].pc = "inspect"
    /\ ctx[Home[t]].open
    /\ task' = [task EXCEPT ![t].pc = "apply", ![t].head = Len(journal)]
    /\ applied' = IF task[t].goal # "rebuild" /\ ChainMatches(Home[t]) THEN applied ELSE <<>>
    /\ UNCHANGED <<journal, graph, lock, ctx, saved>>

(* Read the watermark and the head; a projection that is not derived from   *)
(* this journal is dropped.                                                 *)
Inspect(t) ==
    /\ task[t].pc = "inspect"
    /\ ctx[Home[t]].open
    /\ task' = [task EXCEPT ![t].pc = "apply", ![t].head = Len(journal)]
    /\ IF task[t].goal # "rebuild" /\ ChainMatches(Home[t])
       THEN /\ ctx' = [ctx EXCEPT ![Home[t]].verified = IF applied = <<>> THEN @ ELSE applied]
            /\ UNCHANGED projection
       ELSE /\ graph' = Empty
            /\ applied' = <<>>
            /\ UNCHANGED ctx
    /\ UNCHANGED <<journal, lock, saved>>

(* the next rows past the watermark, whatever the head was when it was read *)
Batch(t) ==
    LET w     == Len(applied)
        limit == IF task[t].head - w >= BulkMin THEN BulkBatch ELSE ReplayBatch
    IN  SubSeq(journal, w + 1, IF w + limit < Len(journal) THEN w + limit ELSE Len(journal))

Applying(t) ==
    /\ task[t].pc = "apply"
    /\ ctx[Home[t]].open
    /\ Len(applied) < task[t].head

(* an add-only batch of BULK_LOAD_MIN_ROWS rows *)
Bulk(rows) ==
    /\ Len(rows) >= BulkMin
    /\ \A s \in Written(rows) : graph[s] = Absent

(* what the context remembers; nobody asks a closed one *)
Learns(c, confirmed, verified) ==
    ctx' = [ctx EXCEPT ![c] =
              IF ctx[c].open
              THEN [open |-> TRUE, confirmed |-> confirmed, verified |-> verified]
              ELSE @]

(* one SPARQL update: quads and watermark *)
ApplyBatch(t) ==
    /\ Applying(t)
    /\ ~Bulk(Batch(t))
    /\ graph' = Loaded(Batch(t))
    /\ applied' = applied \o Batch(t)
    /\ Learns(Home[t], Len(applied'), ctx[Home[t]].verified)
    /\ UNCHANGED <<journal, lock, task, saved>>

(* bulk_load: the quads alone, then the watermark *)
BulkLoad(t) ==
    /\ Applying(t)
    /\ Bulk(Batch(t))
    /\ graph' = Loaded(Batch(t))
    /\ task' = [task EXCEPT ![t].pc = "mark", ![t].upto = Len(applied) + Len(Batch(t))]
    /\ UNCHANGED <<journal, applied, lock, ctx, saved>>

BulkMark(t) ==
    /\ task[t].pc = "mark"
    /\ applied' = SubSeq(journal, 1, task[t].upto)
    /\ Learns(Home[t], task[t].upto, ctx[Home[t]].verified)
    /\ task' = [task EXCEPT ![t].pc = "apply", ![t].upto = 0]
    /\ UNCHANGED <<journal, graph, lock, saved>>

(* caught up: the read runs, the lock is released, the call returns *)
Finish(t) ==
    /\ task[t].pc = "apply"
    /\ Len(applied) >= task[t].head
    /\ Learns(Home[t], Len(applied), applied)
    /\ lock' = None
    /\ CASE task[t].goal = "read" ->
              Answers(t, graph)
         [] task[t].goal = "barrier" /\ ctx[Home[t]].open ->
              Answers(t, Log!Contents(SubSeq(journal, 1, Len(applied))))
         [] OTHER -> task' = [task EXCEPT ![t] = Idle]
    /\ UNCHANGED <<journal, projection, saved>>

Return(t) ==
    /\ task[t].pc = "done"
    /\ task' = [task EXCEPT ![t] = Idle]
    /\ UNCHANGED <<journal, projection, lock, ctx, saved>>

-----------------------------------------------------------------------------
(* A bulk load that is cut short leaves the quads of some of its subjects.  *)
CutShort(t) ==
    \/ UNCHANGED graph
    \/ /\ Applying(t) /\ Bulk(Batch(t))
       /\ \E loaded \in SUBSET Written(Batch(t)) :
             graph' = [s \in Subjects |->
                         IF s \in loaded THEN Loaded(Batch(t))[s] ELSE graph[s]]

(* fault: an error leaves the lock held *)
FailKeepingLock(t) ==
    /\ task[t].pc \in CatchingUp \cup {"barrier"}
    /\ CutShort(t)
    /\ ctx' = IF task[t].pc = "barrier" THEN ctx ELSE [ctx EXCEPT ![Home[t]] = Closed]
    /\ task' = [task EXCEPT ![t] = Idle]
    /\ UNCHANGED <<journal, applied, lock, saved>>

(* An error of the catch-up, the timeout of the lock included, closes the   *)
(* context under all its tasks; an error before it only ends the call.      *)
Fail(t) ==
    /\ task[t].pc \in CatchingUp \cup {"barrier"}
    /\ CutShort(t)
    /\ lock' = IF lock = t THEN None ELSE lock
    /\ ctx' = IF task[t].pc = "barrier" THEN ctx ELSE [ctx EXCEPT ![Home[t]] = Closed]
    /\ task' = [task EXCEPT ![t] = Idle]
    /\ UNCHANGED <<journal, applied, saved>>

(* The process stops; the kernel releases its locks.                        *)
Crash(c) ==
    /\ ctx[c].open
    /\ IF lock \in TasksOf(c) THEN CutShort(lock) ELSE UNCHANGED graph
    /\ lock' = IF lock \in TasksOf(c) THEN None ELSE lock
    /\ ctx' = [ctx EXCEPT ![c] = Closed]
    /\ task' = [t \in Tasks |-> IF t \in TasksOf(c) THEN Idle ELSE task[t]]
    /\ UNCHANGED <<journal, applied, saved>>

Close(c) ==
    /\ ctx[c].open
    /\ \A t \in TasksOf(c) : task[t].pc = "idle"
    /\ ctx' = [ctx EXCEPT ![c] = Closed]
    /\ UNCHANGED <<journal, projection, lock, task, saved>>

-----------------------------------------------------------------------------
(* snapshot_storage copies the projection and then the journal, both under  *)
(* the projection lock, which writers do not need to commit.                *)
SnapshotProjection ==
    /\ Maintenance
    /\ lock = None
    /\ lock' = "snapshot"
    /\ saved' = [journal |-> None, graph |-> graph, applied |-> applied]
    /\ UNCHANGED <<journal, projection, ctx, task>>

SnapshotJournal ==
    /\ lock = "snapshot"
    /\ lock' = None
    /\ saved' = [saved EXCEPT !.journal = journal]
    /\ UNCHANGED <<journal, projection, ctx, task>>

Unused ==
    /\ Maintenance
    /\ \A c \in Contexts : ~ctx[c].open
    /\ \A t \in Tasks : task[t].pc = "idle"
    /\ lock = None

(* restore_storage, with or without the projection of the snapshot *)
Restore ==
    /\ Unused
    /\ saved.journal # None
    /\ journal' = saved.journal
    /\ \/ graph' = saved.graph /\ applied' = saved.applied
       \/ graph' = Empty /\ applied' = <<>>
    /\ UNCHANGED <<lock, ctx, task, saved>>

(* The operator puts another copy's journal beside the projection that is   *)
(* there: an older one, or one that went its own way.                       *)
ReplaceJournal ==
    /\ Unused
    /\ \E requests \in SeqOf(Requests, Cardinality(Ops)) :
          /\ \A i, k \in DOMAIN requests : requests[i].op = requests[k].op => i = k
          /\ journal' = FlattenSeq([i \in DOMAIN requests |-> RowsOf(requests[i])])
          /\ Len(journal') <= MaxRows
    /\ UNCHANGED <<projection, lock, ctx, task, saved>>

(* no catch-up was cut short since the projection was last complete *)
Untouched == graph = Log!Contents(applied)

-----------------------------------------------------------------------------
Init ==
    /\ journal = <<>>
    /\ graph = Empty
    /\ applied = <<>>
    /\ lock = None
    /\ ctx = [c \in Contexts |-> Closed]
    /\ task = [t \in Tasks |-> Idle]
    /\ saved = [journal |-> None, graph |-> Empty, applied |-> <<>>]

Call(t) ==
    OpenContext(t) \/ Write(t) \/ CallProjection(t) \/ CallBarrier(t) \/ Return(t)

CatchUp(t) ==
    \/ Barrier(t) \/ AcquireLock(t) \/ Inspect(t)
    \/ ApplyBatch(t) \/ BulkLoad(t) \/ BulkMark(t) \/ Finish(t)

Serve ==
    \/ \E t \in Tasks : Call(t) \/ CatchUp(t) \/ Fail(t)
    \/ \E c \in Contexts : Crash(c) \/ Close(c)

Maintain ==
    \/ SnapshotProjection \/ SnapshotJournal \/ Restore
    \/ Untouched /\ ReplaceJournal

Next == Serve \/ Maintain

Spec == Init /\ [][Next]_vars

-----------------------------------------------------------------------------
(* Tables, contexts and tasks hold values of their types, and the lock is    *)
(* held by exactly the task that is between its acquisition and release.     *)
TypeOK ==
    /\ \A i \in DOMAIN journal : journal[i] \in UNION {ToSet(RowsOf(r)) : r \in Requests}
    /\ graph \in [Subjects -> Values \cup {Absent}]
    /\ lock \in Tasks \cup {None, "snapshot"}
    /\ \A c \in Contexts : ctx[c].confirmed \in 0..MaxRows
    /\ \A t \in Tasks :
          /\ task[t].pc \in CatchingUp \cup {"idle", "barrier", "done"}
          /\ lock = t <=> task[t].pc \in CatchingUp \ {"lock"}

(* Whoever reads, through the projection or through the journal, sees the   *)
(* contents of the journal, every write that finished before the call       *)
(* included; an operation that is retried, in another process or after a    *)
(* crash, is in the journal once.                                           *)
ImplementsLog == Log!Spec

(* A projection that lags is repaired, never served: whenever a catch-up    *)
(* is about to finish, the graph is the replay of its watermark's rows and  *)
(* they are this journal's.                                                 *)
NeverPastJournal ==
    \A t \in Tasks :
        task[t].pc = "apply" /\ Len(applied) >= task[t].head =>
            /\ IsPrefix(applied, journal)
            /\ graph = Log!Contents(applied)
=============================================================================
