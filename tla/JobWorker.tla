----------------------------- MODULE JobWorker -----------------------------
(***************************************************************************)
(* The processes around the queue: the poll loop and the lease-heartbeat   *)
(* thread of every worker (src/folio_insights/jobs/worker.py), its         *)
(* process-local SecretStore (jobs/secrets.py), the API of that process    *)
(* (api/services/job_manager.py, api/routes/processing.py) and the `jobs'  *)
(* commands of the command line.  Every call on the queue is an action of  *)
(* JobQueue, whose clients' leases are now those of the workers' runs.     *)
(*                                                                         *)
(* An owner is one process: a restart gets a new identity, so a process    *)
(* that stops never comes back and its replacement is another owner.       *)
(***************************************************************************)
EXTENDS Integers, FiniteSets

CONSTANTS
    Jobs, Corpora, Owners, Tokens, None, MaxAttempts, LeaseSeconds,
    RetryBackoff, BackoffCap, WorkerTtl, PausedTtl,
    ApiOwners       \* API processes; the others are standalone workers, which
                    \* have no handlers and only beat and sweep

ASSUME ApiAssumption == ApiOwners \subseteq Owners
ASSUME QueueAssumption ==
    /\ Jobs \subseteq Nat
    /\ Tokens \subseteq Nat
    /\ None \notin Jobs \cup Corpora \cup Owners \cup Tokens
    /\ MaxAttempts \in Nat \ {0}
    /\ LeaseSeconds \in Nat
    /\ RetryBackoff \in Nat
    /\ BackoffCap \in Nat
    /\ WorkerTtl \in Nat
    /\ PausedTtl \in Nat

VARIABLES
    job, silence,   \* the queue's tables
    run,            \* what each worker's poll loop is doing
    secrets,        \* the jobs whose key each process holds in memory
    up              \* the processes that are alive

Idle == [pc |-> "beat", job |-> None, token |-> None, keyed |-> FALSE,
         lost |-> FALSE, verdict |-> "none"]

LeaseOf(w) == [job |-> run[w].job, owner |-> w, token |-> run[w].token]

(* the leases that runs may still present to the queue *)
Holding == {"start", "handler", "settle"}
lent == {LeaseOf(w) : w \in {o \in Owners : run[o].pc \in Holding}}

Q == INSTANCE JobQueue

vars == <<job, silence, run, secrets, up>>

-----------------------------------------------------------------------------
(* One iteration of JobWorker.run: run_once beats, reclaims, expires and    *)
(* leases, in this order; then run_lease works on what it got.              *)

At(w, pc) == w \in up /\ run[w].pc = pc

Goto(w, pc) == run' = [run EXCEPT ![w].pc = pc]
Decide(w, verdict) == run' = [run EXCEPT ![w].pc = "settle", ![w].verdict = verdict]
EndRun(w)   == run' = [run EXCEPT ![w] = Idle]
Discard(w)  == secrets' = [secrets EXCEPT ![w] = @ \ {run[w].job}]

Beat(w) ==
    /\ At(w, "beat")
    /\ Goto(w, "reclaim")
    /\ Q!WorkerHeartbeat(w)
    /\ UNCHANGED <<secrets, up>>

Reclaim(w) ==
    /\ At(w, "reclaim")
    /\ Goto(w, "expire")
    /\ Q!ReclaimExpired
    /\ UNCHANGED <<secrets, up>>

(* the sweep, then the keys of the jobs this very sweep expired *)
Expire(w) ==
    /\ At(w, "expire")
    /\ Goto(w, "lease")
    /\ Q!ExpirePaused
    /\ secrets' = [secrets EXCEPT ![w] = {j \in @ : job'[j] = job[j]}]
    /\ UNCHANGED up

LeaseSome(w) ==
    /\ At(w, "lease")
    /\ w \in ApiOwners
    /\ \E j \in Jobs, t \in Tokens :
          /\ run' = [run EXCEPT ![w] =
                       [Idle EXCEPT !.pc = "start", !.job = j, !.token = t,
                                    !.keyed = job[j].requires]]
          /\ Q!LeaseJob(w, j, t)
    /\ UNCHANGED <<secrets, up>>

LeaseNone(w) ==
    /\ At(w, "lease")
    /\ w \in ApiOwners => \A j \in Jobs : ~Q!Runnable(j, w)
    /\ Goto(w, "beat")
    /\ UNCHANGED <<job, silence, secrets, up>>

(* run_lease before the handler starts, judging by the row as it was leased *)
KeyHeld(w) == run[w].keyed => run[w].job \in secrets[w]

StartHandler(w) ==
    /\ At(w, "start")
    /\ KeyHeld(w)
    /\ Goto(w, "handler")
    /\ UNCHANGED <<job, silence, secrets, up>>

StartWithoutKey(w) ==
    /\ At(w, "start")
    /\ ~KeyHeld(w)
    /\ Decide(w, "key not held")
    /\ UNCHANGED <<job, silence, secrets, up>>

(* the meter factory refuses the spend cap of the payload *)
StartWithBadCap(w) ==
    /\ At(w, "start")
    /\ KeyHeld(w)
    /\ Decide(w, "bad cap")
    /\ Discard(w)
    /\ UNCHANGED <<job, silence, up>>

(* JobRunContext.report and checkpoint at a stage boundary.  report writes  *)
(* progress first and so notices a lease that is gone.                      *)
NoticesLoss(w) == run[w].lost \/ ~Q!Owned(LeaseOf(w))

LeaseLost(w) ==
    /\ At(w, "handler")
    /\ NoticesLoss(w)
    /\ EndRun(w)
    /\ Discard(w)
    /\ UNCHANGED <<job, silence, up>>

JobCancelled(w) ==
    /\ At(w, "handler")
    /\ ~NoticesLoss(w)
    /\ job[run[w].job].cancel
    /\ Decide(w, "cancelled")
    /\ Discard(w)
    /\ UNCHANGED <<job, silence, up>>

(* fault: the result is stored whenever the loss went unnoticed *)
HandlerReturnsUnfenced(w) ==
    /\ At(w, "handler")
    /\ Goto(w, "drop")
    /\ IF ~run[w].lost
       THEN /\ job' = [job EXCEPT ![run[w].job] = Q!Finished(@, "succeeded")]
            /\ UNCHANGED silence
       ELSE UNCHANGED <<job, silence>>
    /\ UNCHANGED <<secrets, up>>

(* The handler returns: complete, unless the lease is known to be lost.     *)
HandlerReturns(w) ==
    /\ At(w, "handler")
    /\ Goto(w, "drop")
    /\ IF ~run[w].lost /\ Q!Owned(LeaseOf(w))
       THEN Q!Complete(LeaseOf(w))
       ELSE UNCHANGED <<job, silence>>
    /\ UNCHANGED <<secrets, up>>

(* The handler raises.  All but a failure to be retried discard the key     *)
(* before the queue is told.                                                *)
HandlerRaises(w) ==
    /\ At(w, "handler")
    /\ \E verdict \in {"key refused", "cap reached", "permanent"} : Decide(w, verdict)
    /\ Discard(w)
    /\ UNCHANGED <<job, silence, up>>

(* fault: every exception discards the key *)
HandlerFailsKeyless(w) ==
    /\ At(w, "handler")
    /\ Decide(w, "transient")
    /\ Discard(w)
    /\ UNCHANGED <<job, silence, up>>

HandlerFails(w) ==
    /\ At(w, "handler")
    /\ Decide(w, "transient")
    /\ UNCHANGED <<job, silence, secrets, up>>

(* The awaited pause, mark_cancelled or fail, refused when the lease is     *)
(* gone.  A retried failure that turns out to be final drops the key next.  *)
Tell(verdict, l) ==
    CASE verdict \in {"key not held", "key refused"} -> Q!Pause(l, "needs_credentials")
      [] verdict = "cap reached"                     -> Q!Pause(l, "budget_exhausted")
      [] verdict = "cancelled"                       -> Q!MarkCancelled(l)
      [] verdict = "transient"                       -> Q!Fail(l, TRUE)
      [] OTHER                                       -> Q!Fail(l, FALSE)

(* fault: the key is dropped after a retried failure, too *)
AnyFailure(w) == run[w].verdict = "transient"

FinalFailure(w) ==
    /\ run[w].verdict = "transient"
    /\ job[run[w].job].attempts >= MaxAttempts

SettleRun(w) ==
    /\ At(w, "settle")
    /\ IF Q!Owned(LeaseOf(w))
       THEN /\ IF FinalFailure(w) THEN Goto(w, "drop") ELSE EndRun(w)
            /\ Tell(run[w].verdict, LeaseOf(w))
       ELSE /\ EndRun(w)
            /\ UNCHANGED <<job, silence>>
    /\ UNCHANGED <<secrets, up>>

DropKey(w) ==
    /\ At(w, "drop")
    /\ EndRun(w)
    /\ Discard(w)
    /\ UNCHANGED <<job, silence, up>>

Loop(w) ==
    \/ Beat(w) \/ Reclaim(w) \/ Expire(w) \/ LeaseSome(w) \/ LeaseNone(w)
    \/ StartHandler(w) \/ StartWithoutKey(w) \/ StartWithBadCap(w)
    \/ LeaseLost(w) \/ JobCancelled(w)
    \/ HandlerReturns(w) \/ HandlerRaises(w) \/ HandlerFails(w)
    \/ SettleRun(w) \/ DropKey(w)

-----------------------------------------------------------------------------
(* The lease-heartbeat thread of a run: it extends the lease and announces  *)
(* the worker, until it learns that the lease is lost.                      *)
Beating(w) ==
    /\ w \in up
    /\ run[w].pc = "handler" \/ run[w].verdict \in {"cancelled", "key refused",
                                   "cap reached", "permanent", "transient"}
    /\ ~run[w].lost

ExtendLease(w) ==
    /\ Beating(w)
    /\ IF Q!Owned(LeaseOf(w))
       THEN UNCHANGED run /\ Q!Heartbeat(LeaseOf(w))
       ELSE run' = [run EXCEPT ![w].lost = TRUE] /\ UNCHANGED <<job, silence>>
    /\ UNCHANGED <<secrets, up>>

(* The lease of a run that drops its key is settled: nothing to extend.     *)
AnnounceWorker(w) ==
    /\ Beating(w) \/ (At(w, "drop") /\ ~run[w].lost)
    /\ UNCHANGED run
    /\ Q!WorkerHeartbeat(w)
    /\ UNCHANGED <<secrets, up>>

-----------------------------------------------------------------------------
(* The API of process w.  submit_job_controlled puts the key in the store   *)
(* before the row exists.  resupply_credentials is taken as one step here;  *)
(* CredentialHandoff opens it up.                                           *)
Submit(w) ==
    \E j \in Jobs, c \in Corpora, status \in {"queued", "needs_credentials"} :
        \E keyed \in {status = "needs_credentials", TRUE} :
            LET key == keyed /\ status = "queued"
            IN  /\ UNCHANGED run
                /\ Q!Enqueue(j, c, status, keyed, IF key THEN w ELSE None)
                /\ secrets' = [secrets EXCEPT ![w] = IF key THEN @ \cup {j} ELSE @]

ResupplyKey(w) ==
    \E j \in Jobs :
        /\ UNCHANGED run
        /\ Q!ResupplyCredentials(j, w)
        /\ secrets' = [secrets EXCEPT ![w] = @ \cup {j}]

(* cancel_latest: a job that is finished now has no use for its key *)
CancelLatest(w) ==
    \E j \in Jobs :
        /\ UNCHANGED run
        /\ Q!RequestCancel(j)
        /\ secrets' = [secrets EXCEPT ![w] =
                         IF job'[j].status \in Q!Terminal THEN @ \ {j} ELSE @]

(* resume_latest: update_payload and resume; a key that came with the       *)
(* request is a ResupplyKey that follows.                                   *)
ResumeLatest ==
    \E j \in Jobs :
        /\ UNCHANGED <<run, secrets>>
        /\ Q!Resume(j)

Api(w) ==
    /\ w \in up \cap ApiOwners
    /\ Submit(w) \/ ResupplyKey(w) \/ CancelLatest(w) \/ ResumeLatest
    /\ UNCHANGED up

(* `folio-insights jobs cancel' and `jobs expire': another process,         *)
(* which sees the queue and nobody's keys.                                  *)
CommandLine ==
    /\ UNCHANGED <<run, secrets, up>>
    /\ Q!ExpirePaused \/ \E j \in Jobs : Q!RequestCancel(j)

(* A process stops: its memory is gone, its rows stay as they are.  Some    *)
(* API process always runs, the restarted one standing for a restart.       *)
Crash(w) ==
    /\ w \in up
    /\ up' = up \ {w}
    /\ up' \cap ApiOwners # {}
    /\ EndRun(w)
    /\ secrets' = [secrets EXCEPT ![w] = {}]
    /\ UNCHANGED <<job, silence>>

Time ==
    /\ UNCHANGED <<run, secrets, up>>
    /\ Q!Tick

-----------------------------------------------------------------------------
Init ==
    /\ run = [w \in Owners |-> Idle]
    /\ Q!Init
    /\ secrets = [w \in Owners |-> {}]
    /\ up = Owners

Next ==
    \/ \E w \in Owners : Loop(w) \/ ExtendLease(w) \/ AnnounceWorker(w)
                         \/ Api(w) \/ Crash(w)
    \/ CommandLine
    \/ Time

Spec == Init /\ [][Next]_vars

(* The poll loop of a live process keeps going and its handler ends or      *)
(* reaches a stage boundary; time passes.  Nothing is assumed of users, of  *)
(* the heartbeat thread or of how long a stage takes.                       *)
FairSpec == Spec /\ WF_vars(Time) /\ \A w \in Owners : WF_vars(Loop(w))

-----------------------------------------------------------------------------
(* The loops, processes and stores hold values of their types. *)
TypeOK ==
    /\ Q!TypeOK
    /\ run \in [Owners -> [pc : Holding \cup {"beat", "reclaim", "expire", "lease", "drop"},
                           job : Jobs \cup {None}, token : Tokens \cup {None},
                           keyed : BOOLEAN, lost : BOOLEAN,
                           verdict : {"none", "key not held", "bad cap", "cancelled",
                                      "key refused", "cap reached", "permanent",
                                      "transient"}]]
    /\ secrets \in [Owners -> SUBSET Jobs]
    /\ up \subseteq Owners

(* The program's workers are clients the queue's guarantees hold for. *)
UsesQueue == Q!Spec

(* A run that owns its lease still holds its key while the handler works    *)
(* and while a failure is reported that may be retried: the requeued job    *)
(* finds the key in the memory of its holder.                               *)
RunKeepsKey ==
    \A w \in Owners :
        /\ run[w].pc = "handler" \/ (run[w].pc = "settle" /\ run[w].verdict = "transient")
        /\ run[w].keyed /\ Q!Owned(LeaseOf(w))
        => run[w].job \in secrets[w]

(* The key of a queued job disappears from the memory of its holder only    *)
(* when that process stops, or with a run of the same job that lost its     *)
(* lease.  A failed attempt that is to be retried keeps it.                 *)
KeyLossExplained ==
    [][\A w \in up', j \in Jobs :
          /\ job[j].status = "queued" /\ job[j].holder = w /\ j \in secrets[w]
          /\ job'[j] = job[j] /\ j \notin secrets'[w]
          => run[w].job = j /\ run[w].verdict # "transient"]_vars

(* A job whose worker died does not stay running.                           *)
CrashedRunEnds ==
    \A j \in Jobs :
        job[j].status = "running" /\ job[j].owner \notin up
            ~> job[j].status # "running"

(* expire_paused: a paused job nobody resumes does not block its corpus     *)
(* forever.                                                                 *)
PausedEnds ==
    \A j \in Jobs : job[j].status \in Q!Paused ~> job[j].status \notin Q!Paused

(* A queued job is leased, parked or finished in the end, wherever its key  *)
(* went.                                                                    *)
QueuedMoves ==
    \A j \in Jobs : job[j].status = "queued" ~> job[j].status # "queued"
=============================================================================
