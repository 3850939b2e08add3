------------------------------ MODULE JobQueue ------------------------------
(***************************************************************************)
(* The durable job queue of src/folio_insights/jobs/queue.py               *)
(* (SQLiteJobQueue): the `jobs` and `workers` tables and one action per    *)
(* method that writes them.  Every method runs in one BEGIN IMMEDIATE      *)
(* transaction, so it is one step here.                                    *)
(*                                                                         *)
(* The queue is modelled against arbitrary clients: a client that was      *)
(* granted a lease keeps it in `lent' for as long as it likes and may      *)
(* present it late, after the lease expired and somebody else leased the   *)
(* job.  JobWorker replaces these clients by the program's own workers.    *)
(*                                                                         *)
(* Time is kept as what the SQL compares, a difference with `now', never   *)
(* as an absolute clock: `left' is lease_expires_at - now, `wait' is       *)
(* available_at - now, `idle' is now - updated_at of a paused job, `age'   *)
(* is now - created_at and `silence' is now - heartbeat_at of a worker.    *)
(* Each one stops at the first value past the threshold it is compared     *)
(* with, which keeps the state finite without bounding time.               *)
(***************************************************************************)
EXTENDS Integers, FiniteSets

CONSTANTS
    Jobs,           \* job rows, numbered in created_at order
    Corpora,        \* a (kind, corpus_id) pair of the exclusive enqueue
    Owners,         \* worker identities (new_owner_id)
    Tokens,         \* lease tokens (uuid4)
    None,           \* SQL NULL
    MaxAttempts,    \* max_attempts of every job
    LeaseSeconds,   \* length of a lease
    RetryBackoff,   \* retry_backoff_seconds
    BackoffCap,     \* the 300 s cap of the back-off
    WorkerTtl,      \* worker_ttl_seconds
    PausedTtl       \* ttl_seconds of expire_paused

ASSUME JobsAssumption   == Jobs \subseteq Nat
ASSUME TokensAssumption == Tokens \subseteq Nat
ASSUME NoneAssumption   == None \notin Jobs \cup Corpora \cup Owners \cup Tokens
ASSUME LimitsAssumption ==
    /\ MaxAttempts \in Nat \ {0}
    /\ LeaseSeconds \in Nat
    /\ RetryBackoff \in Nat
    /\ BackoffCap \in Nat
    /\ WorkerTtl \in Nat
    /\ PausedTtl \in Nat

VARIABLES
    job,        \* the jobs table
    silence,    \* the workers table: seconds since each owner's heartbeat
    lent        \* the leases clients still hold, expired and lost ones included

vars == <<job, silence, lent>>

Terminal == {"succeeded", "failed", "cancelled"}
Paused   == {"needs_credentials", "budget_exhausted"}
Active   == {"queued", "running"} \cup Paused
Status   == {"absent"} \cup Active \cup Terminal

Row == [status   : Status,
        corpus   : Corpora \cup {None},
        attempts : 0..MaxAttempts,
        requires : BOOLEAN,
        holder   : Owners \cup {None},
        cancel   : BOOLEAN,
        owner    : Owners \cup {None},
        token    : Tokens \cup {None},
        left     : -1..LeaseSeconds,
        wait     : 0..BackoffCap,
        idle     : 0..PausedTtl + 1,
        age      : 0..WorkerTtl + 1]

Lease == [job : Jobs, owner : Owners, token : Tokens]

NoRow == [status |-> "absent", corpus |-> None, attempts |-> 0,
          requires |-> FALSE, holder |-> None, cancel |-> FALSE,
          owner |-> None, token |-> None,
          left |-> 0, wait |-> 0, idle |-> 0, age |-> 0]

-----------------------------------------------------------------------------
(* What a statement of the code does to one row. *)

Inserted(c, status, requires, holder) ==
    [NoRow EXCEPT !.status = status, !.corpus = c,
                  !.requires = requires, !.holder = holder]

Leased(r, w, t) ==
    [r EXCEPT !.status = "running", !.owner = w, !.token = t,
              !.left = LeaseSeconds, !.attempts = @ + 1]

(* `lease_owner = NULL, lease_token = NULL, lease_expires_at = NULL` *)
Released(r) == [r EXCEPT !.owner = None, !.token = None, !.left = 0]

(* _finish: a settled row, its lease cleared *)
Finished(r, s) == [Released(r) EXCEPT !.status = s, !.idle = 0]

(* pause: back to the user; the attempt is given back, the key is dropped *)
PausedRow(r, s) ==
    [Finished(r, s) EXCEPT !.holder = None,
                           !.attempts = IF @ > 0 THEN @ - 1 ELSE 0]

(* fault: the 300 s cap is forgotten *)
BackoffUncapped(n) == RetryBackoff * 2^(n - 1)

(* min(retry_backoff_seconds * 2 ** (attempts - 1), 300) *)
Backoff(n) == LET d == RetryBackoff * 2^(n - 1)
              IN  IF d \in 0..BackoffCap THEN d ELSE BackoffCap

(* fault: a retried row keeps its lease *)
FailedRowKeepingLease(r, retry) ==
    IF retry /\ r.attempts < MaxAttempts
    THEN [r EXCEPT !.status = "queued", !.wait = Backoff(r.attempts)]
    ELSE [Released(r) EXCEPT !.status = "failed"]

(* fail: back to the queue while attempts remain, else failed *)
FailedRow(r, retry) ==
    IF retry /\ r.attempts < MaxAttempts
    THEN [Released(r) EXCEPT !.status = "queued", !.wait = Backoff(r.attempts)]
    ELSE [Released(r) EXCEPT !.status = "failed"]

(* fault: the job starts afresh with the new key *)
ResuppliedAfresh(r, w) ==
    [r EXCEPT !.status = "queued", !.holder = w, !.requires = TRUE,
              !.wait = 0, !.idle = 0, !.cancel = FALSE]

(* resupply_credentials: the job needs a key from now on, worker w holds it *)
Resupplied(r, w) ==
    [r EXCEPT !.status = "queued", !.holder = w, !.requires = TRUE,
              !.wait = 0, !.idle = 0]

(* fault: resume forgets that the pause dropped the key *)
ResumedWithoutKey(r) == [r EXCEPT !.status = "queued", !.wait = 0, !.idle = 0]

(* resume: after the spend cap was raised *)
Resumed(r) ==
    [r EXCEPT !.status = IF r.requires /\ r.holder = None
                         THEN "needs_credentials" ELSE "queued",
              !.wait = 0, !.idle = 0]

(* fault: the attempt budget is off by one when a lease expires *)
ReclaimedOnceMore(r) ==
    IF r.attempts > MaxAttempts
    THEN [Released(r) EXCEPT !.status = "failed"]
    ELSE IF r.requires
    THEN [Released(r) EXCEPT !.status = "needs_credentials", !.holder = None,
                             !.wait = 0, !.idle = 0]
    ELSE [Released(r) EXCEPT !.status = "queued", !.wait = 0]

(* reclaim_expired, first half: the three fates of an expired lease *)
Reclaimed(r) ==
    IF r.attempts >= MaxAttempts
    THEN [Released(r) EXCEPT !.status = "failed"]
    ELSE IF r.requires
    THEN [Released(r) EXCEPT !.status = "needs_credentials", !.holder = None,
                             !.wait = 0, !.idle = 0]
    ELSE [Released(r) EXCEPT !.status = "queued", !.wait = 0]

(* reclaim_expired, second half: a queued job whose key holder is gone *)
Orphaned(r) ==
    [r EXCEPT !.status = "needs_credentials", !.holder = None, !.idle = 0]

(* expire_paused and the not-running branch of request_cancel *)
CancelledRow(r) ==
    [Released(r) EXCEPT !.status = "cancelled", !.cancel = TRUE, !.holder = None]

Elapsed(r) ==
    [r EXCEPT
       !.left = IF r.status = "running" /\ @ >= 0 THEN @ - 1 ELSE @,
       !.wait = IF r.status = "queued" /\ @ > 0 THEN @ - 1 ELSE @,
       !.idle = IF r.status \in Paused /\ @ <= PausedTtl THEN @ + 1 ELSE @,
       !.age  = IF r.status \in Active /\ @ <= WorkerTtl THEN @ + 1 ELSE @]

-----------------------------------------------------------------------------
(* What the code asks of a row. *)

Runnable(j, w) ==
    /\ job[j].status = "queued"
    /\ job[j].wait <= 0
    /\ ~job[j].requires \/ job[j].holder = w

(* ORDER BY created_at, id LIMIT 1 *)
OldestRunnable(j, w) ==
    /\ Runnable(j, w)
    /\ \A i \in Jobs : i < j => ~Runnable(i, w)

(* fault: any client of a running job counts as its owner *)
OwnedByAnyClient(l) == job[l.job].status = "running"

(* _owned: the presented token is the one in the row of a running job *)
Owned(l) == job[l.job].status = "running" /\ job[l.job].token = l.token

(* fault: a job on its last attempt is not reclaimed *)
ExpiredWithAttempts(r) ==
    r.status = "running" /\ r.left < 0 /\ r.attempts < MaxAttempts

Expired(r) == r.status = "running" /\ r.left < 0

(* fault: created_at is compared the wrong way round *)
OrphanWhenYoung(r) ==
    /\ r.status = "queued" /\ r.requires /\ r.holder # None
    /\ r.holder \in Owners => silence[r.holder] > WorkerTtl
    /\ r.age <= WorkerTtl

Orphan(r) ==
    /\ r.status = "queued" /\ r.requires /\ r.holder # None
    /\ r.holder \in Owners => silence[r.holder] > WorkerTtl
    /\ r.age > WorkerTtl

(* A uuid4 never collides with a token somebody still remembers: one in the *)
(* table or in a client's lease.  Which fresh token it is does not matter,  *)
(* the least one stands for all.                                            *)
Remembered == {job[j].token : j \in Jobs} \cup {l.token : l \in lent}
Fresh(t)   == /\ t \notin Remembered
              /\ \A u \in Tokens : u < t => u \in Remembered

-----------------------------------------------------------------------------
Init ==
    /\ job = [j \in Jobs |-> NoRow]
    /\ silence = [w \in Owners |-> WorkerTtl + 1]
    /\ lent = {}

(* fault: a paused job does not count as active *)
EnqueueBesidePaused(j, c, status, requires, holder) ==
    /\ job[j].status = "absent"
    /\ \A i \in Jobs : i < j => job[i].status # "absent"
    /\ ~\E i \in Jobs : job[i].corpus = c /\ job[i].status \in {"queued", "running"}
    /\ job' = [job EXCEPT ![j] = Inserted(c, status, requires, holder)]
    /\ UNCHANGED <<silence, lent>>

(* enqueue(exclusive=True), the only way the program calls it.  The three   *)
(* combinations are those of submit_job_controlled: a key was supplied and  *)
(* `holder' keeps it, a key is needed but missing, a keyless provider.      *)
Enqueue(j, c, status, requires, holder) ==
    /\ job[j].status = "absent"
    /\ \A i \in Jobs : i < j => job[i].status # "absent"
    /\ ~\E i \in Jobs : job[i].corpus = c /\ job[i].status \in Active
    /\ job' = [job EXCEPT ![j] = Inserted(c, status, requires, holder)]
    /\ UNCHANGED <<silence, lent>>

EnqueueMode ==
    {<<"queued", TRUE, w>> : w \in Owners}
        \cup {<<"needs_credentials", TRUE, None>>, <<"queued", FALSE, None>>}

LeaseJob(w, j, t) ==
    /\ OldestRunnable(j, w)
    /\ Fresh(t)
    /\ job' = [job EXCEPT ![j] = Leased(@, w, t)]
    /\ lent' = lent \cup {[job |-> j, owner |-> w, token |-> t]}
    /\ UNCHANGED silence

(* heartbeat: an expired lease nobody reclaimed yet is extended too *)
Heartbeat(l) ==
    /\ Owned(l)
    /\ job' = [job EXCEPT ![l.job].left = LeaseSeconds]
    /\ UNCHANGED <<silence, lent>>

(* The settling calls.  They end the client's use of its lease. *)
Settle(l, row) ==
    /\ Owned(l)
    /\ job' = [job EXCEPT ![l.job] = row]
    /\ lent' = lent \ {l}
    /\ UNCHANGED silence

Complete(l)      == Settle(l, Finished(job[l.job], "succeeded"))
MarkCancelled(l) == Settle(l, Finished(job[l.job], "cancelled"))
Pause(l, s)      == Settle(l, PausedRow(job[l.job], s))
Fail(l, retry)   == Settle(l, FailedRow(job[l.job], retry))

(* A refused call, a client that stops or crashes: the table is untouched. *)
Forget(l) ==
    /\ lent' = lent \ {l}
    /\ UNCHANGED <<job, silence>>

(* fault: no early return for a job that is finished *)
CancelEvenFinished(j) ==
    /\ job[j].status # "absent"
    /\ job' = [job EXCEPT ![j] = IF @.status = "running"
                                 THEN [@ EXCEPT !.cancel = TRUE]
                                 ELSE CancelledRow(@)]
    /\ UNCHANGED <<silence, lent>>

RequestCancel(j) ==
    /\ job[j].status \in Active
    /\ job' = [job EXCEPT ![j] = IF @.status = "running"
                                 THEN [@ EXCEPT !.cancel = TRUE]
                                 ELSE CancelledRow(@)]
    /\ UNCHANGED <<silence, lent>>

(* fault: the status is not looked at *)
ResupplyAnyJob(j, w) ==
    /\ job[j].status \notin {"absent", "running"}
    /\ job' = [job EXCEPT ![j] = Resupplied(@, w)]
    /\ UNCHANGED <<silence, lent>>

ResupplyCredentials(j, w) ==
    /\ job[j].status = "needs_credentials"
    /\ job' = [job EXCEPT ![j] = Resupplied(@, w)]
    /\ UNCHANGED <<silence, lent>>

Resume(j) ==
    /\ job[j].status = "budget_exhausted"
    /\ job' = [job EXCEPT ![j] = Resumed(@)]
    /\ UNCHANGED <<silence, lent>>

(* update_payload restarts the clock of a paused job and nothing else here *)
UpdatePayload(j) ==
    /\ job[j].status \in Paused
    /\ job' = [job EXCEPT ![j].idle = 0]
    /\ UNCHANGED <<silence, lent>>

ReclaimExpired ==
    /\ job' = [j \in Jobs |-> IF Expired(job[j]) THEN Reclaimed(job[j])
                              ELSE IF Orphan(job[j]) THEN Orphaned(job[j])
                              ELSE job[j]]
    /\ UNCHANGED <<silence, lent>>

(* fault: only one of the two pauses expires *)
OverdueForKey(r) == r.status = "needs_credentials" /\ r.idle > PausedTtl

OverdueRow(r) == r.status \in Paused /\ r.idle > PausedTtl

ExpirePaused ==
    /\ job' = [j \in Jobs |-> IF OverdueRow(job[j]) THEN CancelledRow(job[j])
                              ELSE job[j]]
    /\ UNCHANGED <<silence, lent>>

WorkerHeartbeat(w) ==
    /\ silence' = [silence EXCEPT ![w] = 0]
    /\ UNCHANGED <<job, lent>>

Tick ==
    /\ job' = [j \in Jobs |-> Elapsed(job[j])]
    /\ silence' = [w \in Owners |-> IF silence[w] <= WorkerTtl
                                    THEN silence[w] + 1 ELSE silence[w]]
    /\ UNCHANGED lent

-----------------------------------------------------------------------------
Client ==
    \E l \in lent :
        \/ Heartbeat(l)
        \/ Complete(l)
        \/ MarkCancelled(l)
        \/ \E s \in Paused : Pause(l, s)
        \/ \E retry \in BOOLEAN : Fail(l, retry)
        \/ Forget(l)

Control ==
    \E j \in Jobs :
        \/ \E c \in Corpora, m \in EnqueueMode : Enqueue(j, c, m[1], m[2], m[3])
        \/ RequestCancel(j)
        \/ \E w \in Owners : ResupplyCredentials(j, w)
        \/ Resume(j)
        \/ UpdatePayload(j)

Worker ==
    \E w \in Owners :
        \/ \E j \in Jobs, t \in Tokens : LeaseJob(w, j, t)
        \/ WorkerHeartbeat(w)

Next ==
    \/ Client
    \/ Control
    \/ Worker
    \/ ReclaimExpired
    \/ ExpirePaused
    \/ Tick

Spec == Init /\ [][Next]_vars

-----------------------------------------------------------------------------
(* Columns and leases hold values of their types. *)
TypeOK ==
    /\ job \in [Jobs -> Row]
    /\ silence \in [Owners -> 0..WorkerTtl + 1]
    /\ lent \subseteq Lease

(* A row carries a lease exactly while it is running, whichever of the      *)
(* eight exits it takes (settle, retry, pause, cancel, reclaim, expiry),    *)
(* and a token names one grant: a client that still presents the token of a *)
(* row is the client that row was granted to.                               *)
LeaseOnlyWhileRunning ==
    \A j \in Jobs : LET r == job[j] IN
        IF r.status = "running" THEN r.owner # None /\ r.token # None
                                ELSE r.owner = None /\ r.token = None

TokenNamesOneGrant ==
    /\ \A i, j \in Jobs : job[i].token = job[j].token /\ job[i].token # None => i = j
    /\ \A l \in lent, j \in Jobs :
         job[j].token = l.token => l.job = j /\ l.owner = job[j].owner
    /\ \A k, l \in lent : k.token = l.token => k = l

LeaseIntegrity == LeaseOnlyWhileRunning /\ TokenNamesOneGrant

(* The attempt budget survives retries, pauses (which give an attempt back) *)
(* and crashes: a queued or paused job always has an attempt left, a        *)
(* running one is within its budget.                                        *)
AttemptBudget ==
    \A j \in Jobs : LET r == job[j] IN
        /\ r.status = "queued" \/ r.status \in Paused => r.attempts < MaxAttempts
        /\ r.status = "running" => r.attempts > 0

(* No queued job is stranded: one that needs a key names the worker that    *)
(* holds it, since a NULL holder is neither leased nor swept as an orphan;  *)
(* and the worker running such a job is its holder.                         *)
NoStrandedJob ==
    \A j \in Jobs : LET r == job[j] IN
        /\ r.status = "queued" /\ r.requires => r.holder # None
        /\ r.status = "running" /\ r.requires => r.holder = r.owner

(* exclusive enqueue: at most one active job per (kind, corpus) *)
OneActivePerCorpus ==
    \A i, j \in Jobs :
        /\ job[i].status \in Active /\ job[j].status \in Active
        /\ job[i].corpus = job[j].corpus
        => i = j

(* Fencing: a running job changes hands or settles only when the client it  *)
(* is granted to settles it, which uses up the grant, or after its lease    *)
(* expired.  A client that lost its lease never settles the job, however    *)
(* late it calls.                                                           *)
LeavesRunningFenced ==
    \A j \in Jobs :
        job[j].status = "running" /\ job'[j].token # job[j].token =>
            \/ job[j].left < 0
            \/ \E l \in lent \ lent' : l.job = j /\ l.token = job[j].token
Fenced == [][LeavesRunningFenced]_vars

(* A finished row is never written again: no late settle, sweep, resume,    *)
(* re-supply or cancellation touches it.                                    *)
FinishedIsFinal ==
    [][\A j \in Jobs : job[j].status \in Terminal => job'[j] = job[j]]_vars

(* A cancellation request is never lost, neither by a retry or a crash of   *)
(* the worker nor by a pause and the resumption that follows.               *)
CancelSticks ==
    [][\A j \in Jobs : job[j].cancel => job'[j].cancel]_vars

-----------------------------------------------------------------------------
(* The queue as its users see it: JobLedger. *)
OutcomeOf(status) == CASE status = "absent"    -> "unknown"
                       [] status \in Active   -> "pending"
                       [] status \in Terminal -> status

Slots    == [c \in Corpora |-> {j \in Jobs : job[j].status \in Active
                                           /\ job[j].corpus = c}]
Outcomes == [j \in Jobs |-> OutcomeOf(job[j].status)]
Grants   == [j \in Jobs |-> job[j].token]

Ledger == INSTANCE JobLedger
            WITH slot <- Slots, outcome <- Outcomes, grant <- Grants

(* Every behaviour of the queue is one of the ledger it promises to be. *)
ImplementsLedger == Ledger!Spec
=============================================================================
