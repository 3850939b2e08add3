---------------------------- MODULE JobRequests ----------------------------
(***************************************************************************)
(* The requests of the job API, step by step: what JobWorker takes as one   *)
(* step each.  Requests of one API process run in threads side by side      *)
(* (asyncio.to_thread): submit_job_controlled and resupply_credentials of   *)
(* api/services/job_manager.py, cancel_latest, resupply_latest and          *)
(* resume_latest of api/routes/processing.py.  They share the rows of the   *)
(* queue, the SecretStore of the process (jobs/secrets.py) and its          *)
(* key_fingerprints with the embedded worker (jobs/worker.py).              *)
(*                                                                         *)
(* One corpus and kind, one API process, and around it the processes that   *)
(* share the queue and not the keys: standalone workers, which sweep, and   *)
(* the command line.  A job is named by the submission that inserts it and  *)
(* a handle by the request that brought it.  How many attempts a job has    *)
(* left and how long its lease lasts are JobQueue's: here a failed attempt  *)
(* may be the last one, and a lease may have run out whenever a sweep comes.*)
(***************************************************************************)
EXTENDS Naturals, Sequences, FiniteSets

CONSTANTS
    Requests,
    Keys, Payloads, IdemKeys,   \* what requests carry
    None,
    Restarts        \* whether the API process may be restarted

ASSUME RequestAssumption == None \notin Requests \cup Keys \cup Payloads \cup IdemKeys

VARIABLES
    row,        \* the jobs table: status, payload, idempotency_key,
                \* requires_credentials, credential_holder, cancel_requested
    order,      \* the jobs in the order they were inserted
    store,      \* the handle the SecretStore has for each job
    prints,     \* key_fingerprints: the key each job was submitted with
    req,        \* each request
    worker,     \* the embedded worker: its step, job and handle
    spent,      \* handles whose run was stopped for the cap or a refused key
                \* while a re-supply that displaced them may put them back
    epoch,      \* the API process: a restarted one has another identity
    elsewhere   \* jobs that came to their end by a sweep, the command line or
                \* another process, and whose key this one did not discard since

vars == <<row, order, store, prints, req, worker, spent, epoch, elsewhere>>

NoRow == [status |-> "none", payload |-> None, idem |-> None, keyed |-> FALSE,
          holder |-> None, cancel |-> FALSE]
NoRequest == [pc |-> "new", kind |-> "none", payload |-> None, key |-> None, idem |-> None,
              job |-> None, displaced |-> None, answer |-> "none", seen |-> {},
              epoch |-> 0]
Idle == [pc |-> "idle", job |-> None, handle |-> None, verdict |-> "none"]

Terminal == {"succeeded", "failed", "cancelled"}
Paused   == {"needs_credentials", "budget_exhausted"}
Active(j) == row[j].status \notin Terminal \cup {"none"}

Init ==
    /\ row = [r \in Requests |-> NoRow]
    /\ order = <<>>
    /\ store = [r \in Requests |-> None]
    /\ prints = [r \in Requests |-> None]
    /\ req = [r \in Requests |-> NoRequest]
    /\ worker = Idle
    /\ spent = {}
    /\ epoch = 0
    /\ elsewhere = {}

-----------------------------------------------------------------------------
At(r, pc) == req[r].pc = pc
Goto(r, pc) == req' = [req EXCEPT ![r].pc = pc]
GotoFor(r, pc, j) == req' = [req EXCEPT ![r].pc = pc, ![r].job = j]
Answered(q, a, j) ==
    IF q.kind = "submit" THEN [q EXCEPT !.pc = "answered", !.answer = a, !.job = j]
    ELSE [NoRequest EXCEPT !.pc = "answered", !.answer = a]
Answer(r, a, j) == req' = [req EXCEPT ![r] = Answered(@, a, j)]

queue == <<row, order>>
memory == <<store, prints>>
working == <<worker, spent>>
others == <<worker, spent, epoch, elsewhere>>

PutHandle(j, h) == store' = [store EXCEPT ![j] = h]

(* SecretStore.discard: whosever handle it is *)
Discard(j) ==
    /\ PutHandle(j, None)
    /\ elsewhere' = elsewhere \ {j}

(* SecretStore.discard_if and restore_if *)
DiscardIf(j, h)     == store' = [store EXCEPT ![j] = IF @ = h THEN None ELSE @]
RestoreIf(j, h, old) == store' = [store EXCEPT ![j] = IF @ = h THEN old ELSE @]

Latest == order[Len(order)]
Ids    == {order[i] : i \in 1..Len(order)}
WithKey(idem) == {j \in Ids : idem # None /\ row[j].idem = idem}

(* The answered submissions, to this process, that one with the key repeats. *)
Repeated(idem) ==
    {s \in Requests : /\ idem # None /\ req[s].idem = idem
                      /\ req[s].answer = "created" /\ req[s].epoch = epoch}

(* A control request needs the token, which only the answer to the          *)
(* submission that created the job carries.                                 *)
Controlled(j) == req[j].answer = "created"

Arrive(r, kind, payload, key, idem) ==
    /\ At(r, "new")
    /\ kind # "submit" => order # <<>> /\ Controlled(Latest)
    /\ req' = [req EXCEPT ![r] =
                 [NoRequest EXCEPT !.pc = kind, !.kind = kind, !.payload = payload,
                    !.key = key, !.idem = idem, !.epoch = epoch,
                    !.seen = Repeated(idem)]]
    /\ UNCHANGED <<queue, memory, others>>

-----------------------------------------------------------------------------
(* submit_job_controlled *)
SameContents(r, j) == row[j].payload = req[r].payload /\ prints[j] = req[r].key

(* the look-up of the Idempotency-Key, on a connection of its own *)
LookUp(r) ==
    /\ At(r, "submit")
    /\ IF WithKey(req[r].idem) = {} THEN Goto(r, "put")
       ELSE \E j \in WithKey(req[r].idem) :
               Answer(r, IF SameContents(r, j) THEN "duplicate" ELSE "conflict", j)
    /\ UNCHANGED <<queue, memory, others>>

(* the key is in the store before the row exists *)
StoreKey(r) ==
    /\ At(r, "put")
    /\ Goto(r, "enqueue")
    /\ IF req[r].key # None THEN PutHandle(r, r) ELSE UNCHANGED store
    /\ UNCHANGED <<queue, prints, others>>

Inserted(r) ==
    [status |-> IF req[r].key = None THEN "needs_credentials" ELSE "queued",
     payload |-> req[r].payload, idem |-> req[r].idem, keyed |-> TRUE,
     holder |-> IF req[r].key = None THEN None ELSE epoch, cancel |-> FALSE]

(* queue.enqueue, one transaction: the key's job if there is one by now,    *)
(* ActiveJobExists, or the new row                                          *)
Enqueue(r) ==
    /\ At(r, "enqueue")
    /\ CASE WithKey(req[r].idem) # {} ->
              /\ \E j \in WithKey(req[r].idem) : GotoFor(r, "undo", j)
              /\ UNCHANGED <<queue>>
         [] WithKey(req[r].idem) = {} /\ \E j \in Ids : Active(j) ->
              /\ Goto(r, "undo")
              /\ UNCHANGED <<queue>>
         [] OTHER ->
              /\ row' = [row EXCEPT ![r] = Inserted(r)]
              /\ order' = Append(order, r)
              /\ GotoFor(r, "print", r)
    /\ UNCHANGED <<memory, others>>

(* no job was made: the handle goes, if it is still our own *)
Undo(r) ==
    /\ At(r, "undo")
    /\ DiscardIf(r, r)
    /\ Answer(r, IF req[r].job = None THEN "conflict" ELSE "duplicate", req[r].job)
    /\ UNCHANGED <<queue, prints, others>>

(* the fingerprint is stored after the row, then the token is returned *)
StorePrint(r) ==
    /\ At(r, "print")
    /\ prints' = [prints EXCEPT ![r] = req[r].key]
    /\ Answer(r, "created", r)
    /\ UNCHANGED <<queue, store, others>>

-----------------------------------------------------------------------------
(* resupply_latest: the latest job, if it waits for a key *)
ResupplyLatest(r) ==
    /\ At(r, "resupply")
    /\ IF row[Latest].status = "needs_credentials" THEN GotoFor(r, "swap", Latest)
       ELSE Answer(r, "refused", Latest)
    /\ UNCHANGED <<queue, memory, others>>

(* resupply_credentials: swap, requeue, and restore_if when the queue       *)
(* refuses                                                                  *)
Swap(r) ==
    LET j == req[r].job
    IN  /\ At(r, "swap")
        /\ req' = [req EXCEPT ![r].pc = "requeue", ![r].displaced = store[j]]
        /\ PutHandle(j, r)
        /\ UNCHANGED <<queue, prints, others>>

Requeue(r) ==
    LET j == req[r].job
    IN  /\ At(r, "requeue")
        /\ IF row[j].status = "needs_credentials"
           THEN /\ row' = [row EXCEPT ![j].status = "queued", ![j].holder = epoch]
                /\ Answer(r, "accepted", j)
           ELSE Goto(r, "restore") /\ UNCHANGED <<row>>
        /\ UNCHANGED <<order, memory, others>>

Restore(r) ==
    /\ At(r, "restore")
    /\ RestoreIf(req[r].job, r, req[r].displaced)
    /\ Answer(r, "refused", req[r].job)
    /\ UNCHANGED <<queue, prints, others>>

(* queue.request_cancel; expire_paused does the same to a paused row *)
Cancelled(x) ==
    CASE x.status \in Terminal -> x
      [] x.status = "running"  -> [x EXCEPT !.cancel = TRUE]
      [] OTHER -> [x EXCEPT !.status = "cancelled", !.cancel = TRUE, !.holder = None]

(* cancel_latest: request_cancel, then the key of a job that is finished *)
CancelLatest(r) ==
    /\ At(r, "cancel")
    /\ GotoFor(r, "cancelled", Latest)
    /\ row' = [row EXCEPT ![Latest] = Cancelled(@)]
    /\ UNCHANGED <<order, memory, others>>

DiscardCancelled(r) ==
    LET j == req[r].job
    IN  /\ At(r, "cancelled")
        /\ IF row[j].status \in Terminal THEN Discard(j) ELSE UNCHANGED <<store, elsewhere>>
        /\ Answer(r, "accepted", j)
        /\ UNCHANGED <<queue, prints, working, epoch>>

(* resume_latest: a new cap changes the payload, in a transaction of its    *)
(* own; then queue.resume, and the key that came along                      *)
ResumeLatest(r) ==
    /\ At(r, "resume")
    /\ IF row[Latest].status = "budget_exhausted"
       THEN GotoFor(r, IF req[r].payload = None THEN "requeue capped" ELSE "raise cap", Latest)
       ELSE Answer(r, "refused", Latest)
    /\ UNCHANGED <<queue, memory, others>>

UpdatePayload(r) ==
    LET j == req[r].job
    IN  /\ At(r, "raise cap")
        /\ IF row[j].status \in Terminal \cup {"running"}
           THEN Answer(r, "refused", j) /\ UNCHANGED row
           ELSE row' = [row EXCEPT ![j].payload = req[r].payload] /\ Goto(r, "requeue capped")
        /\ UNCHANGED <<order, memory, others>>

Resume(r) ==
    LET j == req[r].job
    IN  /\ At(r, "requeue capped")
        /\ IF row[j].status # "budget_exhausted"
           THEN Answer(r, "refused", j) /\ UNCHANGED row
           ELSE /\ row' = [row EXCEPT ![j].status =
                             IF row[j].keyed /\ row[j].holder = None THEN "needs_credentials" ELSE "queued"]
                /\ IF row'[j].status = "needs_credentials" /\ req[r].key # None
                   THEN Goto(r, "swap") ELSE Answer(r, "accepted", j)
        /\ UNCHANGED <<order, memory, others>>

-----------------------------------------------------------------------------
(* The embedded worker.  A key that this process does not hold any more     *)
(* parks the job (run_lease); a retried failure keeps the key.  Nobody else *)
(* leases a job whose key is here: a run has its lease while its row runs.  *)
Work(pc) == worker.pc = pc
HasLease == row[worker.job].status = "running"
SetRow(j, status) == row' = [row EXCEPT ![j].status = status]
DropNext(j) == worker' = [Idle EXCEPT !.pc = "drop", !.job = j]

Lease ==
    /\ Work("idle")
    /\ \E j \in Ids :
          /\ row[j].status = "queued" /\ row[j].holder = epoch
          /\ SetRow(j, "running")
          /\ worker' = [Idle EXCEPT !.pc = "leased", !.job = j]
    /\ UNCHANGED <<order, memory, req, spent, epoch, elsewhere>>

FetchKey ==
    /\ Work("leased")
    /\ worker' = IF store[worker.job] = None
                 THEN [worker EXCEPT !.pc = "settle", !.verdict = "needs_credentials"]
                 ELSE [worker EXCEPT !.pc = "running", !.handle = store[worker.job]]
    /\ UNCHANGED <<queue, memory, req, spent, epoch, elsewhere>>

(* a refused key, the cap, a cancellation or a permanent failure: the key   *)
(* is discarded first                                                       *)
StopRun(verdict) ==
    /\ Work("running")
    /\ verdict = "cancelled" => row[worker.job].cancel
    /\ Discard(worker.job)
    /\ spent' = IF /\ verdict \in Paused
                   /\ \E r \in Requests : req[r].displaced = worker.handle
                THEN spent \cup {worker.handle} ELSE spent
    /\ worker' = [worker EXCEPT !.pc = "settle", !.verdict = verdict, !.handle = None]
    /\ UNCHANGED <<queue, prints, req, epoch>>

(* pause, mark_cancelled or fail without a retry *)
Settle ==
    /\ Work("settle")
    /\ IF HasLease
       THEN row' = [row EXCEPT ![worker.job].status = worker.verdict,
                               ![worker.job].holder =
                                  IF worker.verdict \in Paused THEN None ELSE @]
       ELSE UNCHANGED row
    /\ worker' = Idle
    /\ UNCHANGED <<order, memory, req, spent, epoch, elsewhere>>

(* a stage boundary finds the lease gone *)
LeaseLost ==
    /\ Work("running") /\ ~HasLease
    /\ Discard(worker.job)
    /\ worker' = Idle
    /\ UNCHANGED <<queue, prints, req, spent, epoch>>

(* fault: the key is kept, whatever became of the job *)
FailRunKeepingKey ==
    /\ Work("running")
    /\ \/ HasLease /\ \E status \in {"queued", "failed"} : SetRow(worker.job, status)
       \/ ~HasLease /\ UNCHANGED row
    /\ worker' = Idle
    /\ UNCHANGED <<order, memory, req, spent, epoch, elsewhere>>

(* fail with a retry: requeued, or failed for good and the key dropped      *)
(* next, or None because the lease is gone                                  *)
FailRun ==
    /\ Work("running")
    /\ \/ HasLease /\ SetRow(worker.job, "queued") /\ worker' = Idle
       \/ HasLease /\ SetRow(worker.job, "failed") /\ DropNext(worker.job)
       \/ ~HasLease /\ UNCHANGED row /\ worker' = Idle
    /\ UNCHANGED <<order, memory, req, spent, epoch, elsewhere>>

(* complete, then the key, whether or not the result was taken *)
Complete ==
    /\ Work("running")
    /\ IF HasLease THEN SetRow(worker.job, "succeeded") ELSE UNCHANGED row
    /\ DropNext(worker.job)
    /\ UNCHANGED <<order, memory, req, spent, epoch, elsewhere>>

(* The queue cannot be told: the loop logs the error, the row runs on.      *)
TellFails ==
    /\ Work("running") \/ Work("settle")
    /\ worker' = Idle
    /\ UNCHANGED <<queue, memory, req, spent, epoch, elsewhere>>

(* the sweep of this worker, which drops the keys of what it expired next *)
Expire ==
    /\ Work("idle")
    /\ \E j \in Ids :
          /\ row[j].status \in Paused
          /\ row' = [row EXCEPT ![j] = Cancelled(@)]
          /\ DropNext(j)
    /\ UNCHANGED <<order, memory, req, spent, epoch, elsewhere>>

DropKey ==
    /\ Work("drop")
    /\ Discard(worker.job)
    /\ worker' = Idle
    /\ UNCHANGED <<queue, prints, req, spent, epoch>>

WorkerStep ==
    \/ Lease \/ FetchKey \/ Settle \/ LeaseLost \/ FailRun \/ Complete \/ TellFails
    \/ Expire \/ DropKey
    \/ \E verdict \in {"needs_credentials", "budget_exhausted", "cancelled", "failed"} :
          StopRun(verdict)

-----------------------------------------------------------------------------
(* What reaches the row and no key: a sweep of any worker that finds a      *)
(* lease or a holder's heartbeat too old, `jobs cancel' and `jobs expire'   *)
(* of the command line, and the expiry by a standalone worker.              *)
EndedElsewhere(j) ==
    elsewhere' = IF Active(j) /\ row'[j].status \in Terminal
                 THEN elsewhere \cup {j} ELSE elsewhere

(* reclaim_expired; fail has no retry left, or the key is asked for again *)
Reclaim(j) ==
    /\ \/ /\ row[j].status = "running"
          /\ SetRow(j, "failed")
       \/ /\ row[j].status = "running" \/ (row[j].status = "queued" /\ row[j].holder # None)
          /\ row' = [row EXCEPT ![j].status = "needs_credentials", ![j].holder = None]
    /\ EndedElsewhere(j)
    /\ UNCHANGED <<order, memory, req, working, epoch>>

CancelElsewhere(j) ==
    /\ row' = [row EXCEPT ![j] = Cancelled(@)]
    /\ EndedElsewhere(j)
    /\ UNCHANGED <<order, memory, req, working, epoch>>

(* The API process restarts: keys, fingerprints, requests and the run are   *)
(* gone.  What it ran or held is for a sweep to find.                       *)
Restart ==
    /\ Restarts /\ epoch = 0
    /\ epoch' = 1
    /\ store' = [r \in Requests |-> None]
    /\ prints' = [r \in Requests |-> None]
    /\ req' = [r \in Requests |-> IF req[r].pc \in {"new", "answered"} THEN req[r]
                                  ELSE Answered(req[r], "lost", req[r].job)]
    /\ worker' = Idle
    /\ elsewhere' = {}
    /\ UNCHANGED <<queue, spent>>

RequestStep(r) ==
    \/ \E p \in Payloads, k \in Keys \cup {None}, i \in IdemKeys \cup {None} :
          Arrive(r, "submit", p, k, i)
    \/ \E k \in Keys : Arrive(r, "resupply", None, k, None)
    \/ Arrive(r, "cancel", None, None, None)
    \/ \E p \in Payloads \cup {None}, k \in Keys \cup {None} : Arrive(r, "resume", p, k, None)
    \/ LookUp(r) \/ StoreKey(r) \/ Enqueue(r) \/ Undo(r) \/ StorePrint(r)
    \/ ResupplyLatest(r) \/ Swap(r) \/ Requeue(r) \/ Restore(r)
    \/ CancelLatest(r) \/ DiscardCancelled(r)
    \/ ResumeLatest(r) \/ UpdatePayload(r) \/ Resume(r)

Next ==
    \/ \E r \in Requests : RequestStep(r)
    \/ WorkerStep
    \/ \E j \in Ids : Reclaim(j) \/ CancelElsewhere(j)
    \/ Restart

Spec == Init /\ [][Next]_vars

-----------------------------------------------------------------------------
(* Rows, stores and requests hold values of their types, and a run has a    *)
(* key.                                                                     *)
TypeOK ==
    /\ row \in [Requests ->
                 [status : Terminal \cup {"none", "queued", "running", "needs_credentials",
                                          "budget_exhausted"},
                  payload : Payloads \cup {None}, idem : IdemKeys \cup {None},
                  keyed : BOOLEAN, holder : {None, 0, 1}, cancel : BOOLEAN]]
    /\ order \in Seq(Requests)
    /\ store \in [Requests -> Requests \cup {None}]
    /\ prints \in [Requests -> Keys \cup {None}]
    /\ \A r \in Requests : req[r].job \in Requests \cup {None}
    /\ worker.job \in Requests \cup {None} /\ worker.handle \in Requests \cup {None}
    /\ worker.pc = "running" => worker.handle # None
    /\ spent \subseteq Requests /\ elsewhere \subseteq Requests

(* Submissions with one Idempotency-Key make one job, however they race,    *)
(* and a corpus never has two active jobs.                                  *)
OneJobPerKey ==
    \A i, j \in Ids : i # j =>
        /\ row[i].idem # None => row[i].idem # row[j].idem
        /\ ~(Active(i) /\ Active(j))

(* "Repeating a submission with the same Idempotency-Key returns the same   *)
(* job; repeating it with a different payload or key is a conflict": so for *)
(* a submission sent after the answer to the first one, to a process that   *)
(* was not restarted, while nobody raised the cap in the job's payload.     *)
RepeatAnswered ==
    \A r \in Requests : \A s \in req[r].seen :
        /\ At(r, "answered") /\ req[r].answer # "lost"
        /\ row[s].payload = req[s].payload
        => /\ req[r].job = s
           /\ req[r].answer = (IF req[r].payload = req[s].payload /\ req[r].key = req[s].key
                               THEN "duplicate" ELSE "conflict")

(* the requests and the worker that may still clear the key of a job *)
InFlight(j) ==
    \/ worker.job = j
    \/ \E r \in Requests : ~At(r, "new") /\ ~At(r, "answered") /\ (req[r].job = j \/ r = j)

(* A key stays in memory no longer than its job can use it: whatever ends a *)
(* job in this process, a request, the run or the sweep of its own worker,  *)
(* drops the key, a failure that turned out to be the last one included.    *)
(* Two re-supplies that cross while the job ends may put one handle back    *)
(* for good, but only one the queue refused; and a job that was ended       *)
(* elsewhere leaves its key, until this process discards it for the run it  *)
(* still had of it, or for a request to cancel it.                          *)
NoStrayKey ==
    \A j \in Requests :
        store[j] # None /\ ~InFlight(j)
        => Active(j) \/ req[store[j]].answer = "refused" \/ j \in elsewhere

(* No key outlives its job, refused handles aside.  Violated: the process   *)
(* that ends a job need not be the one that holds its key.                  *)
KeyEndsWithJob ==
    \A j \in Requests :
        store[j] # None /\ ~InFlight(j) => Active(j) \/ req[store[j]].answer = "refused"

(* A key that hit the cap, or that the provider refused, is not used again: *)
(* whoever resumes the job brings the key that pays for what follows.       *)
SpentKeyUnused == worker.pc = "running" => worker.handle \notin spent

=============================================================================
