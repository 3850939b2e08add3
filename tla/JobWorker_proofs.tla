--------------------------- MODULE JobWorker_proofs ---------------------------
(* The workers, the API and the command line use the queue as its theorems ask *)
(* of a client, for any processes, jobs and limits.                            *)
EXTENDS JobWorker, JobView, SequenceTheorems, TLAPS

RunShape(x) == x = [pc |-> x.pc, job |-> x.job, token |-> x.token, keyed |-> x.keyed,
                    lost |-> x.lost, verdict |-> x.verdict]

RunsInv ==
    /\ run = [w \in Owners |-> run[w]]
    /\ \A w \in Owners : RunShape(run[w])

Holds(w) == run[w].pc \in Holding

\* A run that goes on with the lease it has, or without one.
Keeps(w) ==
    /\ run' = [o \in Owners |-> run'[o]]
    /\ RunShape(run'[w])
    /\ \A o \in Owners : o # w => run'[o] = run[o]
    /\ Holds(w)' <=> Holds(w)
    /\ Holds(w) => run'[w].job = run[w].job /\ run'[w].token = run[w].token

\* A run that lets go of its lease.
Leaves(w) ==
    /\ run' = [o \in Owners |-> run'[o]]
    /\ RunShape(run'[w])
    /\ \A o \in Owners : o # w => run'[o] = run[o]
    /\ ~Holds(w)'

LEMMA KeepsLent ==
    ASSUME NEW w \in Owners, Keeps(w), RunsInv
    PROVE  RunsInv' /\ lent' = lent
  <1>1. RunsInv'
    BY DEF RunsInv, Keeps
  <1>2. \A o \in Owners : /\ (Holds(o)' <=> Holds(o))
                          /\ Holds(o) => LeaseOf(o)' = LeaseOf(o)
    BY DEF Keeps, Holds, LeaseOf
  <1>. QED  BY <1>1, <1>2 DEF lent, Holds

LEMMA LeavesLent ==
    ASSUME NEW w \in Owners, Leaves(w), RunsInv
    PROVE  /\ RunsInv'
           /\ Holds(w) => LeaseOf(w) \in lent /\ lent' = lent \ {LeaseOf(w)}
           /\ ~Holds(w) => lent' = lent
  <1>1. RunsInv'
    BY DEF RunsInv, Leaves
  <1>2. \A o \in Owners : o # w =>
           /\ (Holds(o)' <=> Holds(o))
           /\ LeaseOf(o)' = LeaseOf(o)
           /\ LeaseOf(o) # LeaseOf(w)
    BY DEF Leaves, Holds, LeaseOf
  <1>3. ~Holds(w)'
    BY DEF Leaves
  <1>4. Holds(w) => LeaseOf(w) \in lent
    BY DEF lent, Holds
  <1>5. lent = {LeaseOf(o) : o \in {v \in Owners : Holds(v)}}
    BY DEF lent, Holds
  <1>6. lent' = {LeaseOf(o)' : o \in {v \in Owners : Holds(v)'}}
    BY DEF lent, Holds
  <1>. QED  BY <1>1, <1>2, <1>3, <1>4, <1>5, <1>6

\* Letting go of a lease is what the queue calls Forget.
LEMMA LeavingIsForgetting ==
    ASSUME NEW w \in Owners, Leaves(w), RunsInv, UNCHANGED <<job, silence>>
    PROVE  RunsInv' /\ [Q!Next]_(Q!vars)
  <1>1. CASE Holds(w)
    <2>1. RunsInv' /\ LeaseOf(w) \in lent /\ lent' = lent \ {LeaseOf(w)}
      BY <1>1, LeavesLent
    <2>2. Q!Forget(LeaseOf(w))
      BY <2>1 DEF Q!Forget
    <2>. QED  BY <2>1, <2>2 DEF Q!Next, Q!Client
  <1>2. CASE ~Holds(w)
    BY <1>2, LeavesLent DEF Q!vars
  <1>. QED  BY <1>1, <1>2

LEMMA KeepingIsNothing ==
    ASSUME NEW w \in Owners, Keeps(w), RunsInv, UNCHANGED <<job, silence>>
    PROVE  RunsInv' /\ [Q!Next]_(Q!vars)
  BY KeepsLent DEF Q!vars

-----------------------------------------------------------------------------
(* How runs move.                                                            *)

LEMMA GotoRuns ==
    ASSUME NEW w \in Owners, RunsInv, NEW pc, Goto(w, pc)
    PROVE  /\ (pc \in Holding <=> Holds(w)) => Keeps(w)
           /\ pc \notin Holding => Leaves(w)
           /\ RunsInv'
           /\ run'[w].pc = pc /\ run'[w].job = run[w].job
           /\ run'[w].verdict = run[w].verdict
  <1>. DEFINE x == run[w]
              to == [pc |-> pc, job |-> x.job, token |-> x.token, keyed |-> x.keyed,
                     lost |-> x.lost, verdict |-> x.verdict]
  <1>1. run = [o \in Owners |-> run[o]] /\ \A o \in Owners : RunShape(run[o])
    BY DEF RunsInv
  <1>2. run' = [run EXCEPT ![w].pc = pc]
    BY DEF Goto
  <1>6. RunShape(run[w])
    BY <1>1
  <1>7. PICK y : y = [run[w] EXCEPT !.pc = pc]
    OBVIOUS
  <1>8. y = to
    BY <1>6, <1>7 DEF RunShape
  <1>3. run'[w] = to
    BY <1>1, <1>2, <1>7, <1>8
  <1>4. /\ run' = [o \in Owners |-> run'[o]]
        /\ \A o \in Owners : o # w => run'[o] = run[o]
    BY <1>1, <1>2
  <1>5. /\ RunShape(run'[w]) /\ run'[w].pc = pc
        /\ run'[w].job = run[w].job /\ run'[w].token = run[w].token
        /\ run'[w].verdict = run[w].verdict
    BY <1>3 DEF RunShape
  <1>. HIDE DEF x, to
  <1>. QED  BY <1>1, <1>4, <1>5 DEF Keeps, Leaves, Holds, RunsInv

LEMMA DecideRuns ==
    ASSUME NEW w \in Owners, RunsInv, NEW verdict, Decide(w, verdict), Holds(w)
    PROVE  Keeps(w) /\ run'[w].pc = "settle"
  <1>. DEFINE x == run[w]
              to == [pc |-> "settle", job |-> x.job, token |-> x.token, keyed |-> x.keyed,
                     lost |-> x.lost, verdict |-> verdict]
  <1>1. run = [o \in Owners |-> run[o]] /\ \A o \in Owners : RunShape(run[o])
    BY DEF RunsInv
  <1>2. run' = [run EXCEPT ![w].pc = "settle", ![w].verdict = verdict]
    BY DEF Decide
  <1>6. PICK y : y = [run[w] EXCEPT !.pc = "settle", !.verdict = verdict]
    OBVIOUS
  <1>8. RunShape(run[w])
    BY <1>1
  <1>7. y = to
    BY <1>8, <1>6 DEF RunShape
  <1>3. run'[w] = to
    BY <1>1, <1>2, <1>6, <1>7
  <1>4. /\ run' = [o \in Owners |-> run'[o]]
        /\ \A o \in Owners : o # w => run'[o] = run[o]
    BY <1>1, <1>2
  <1>5. /\ RunShape(run'[w]) /\ run'[w].pc = "settle"
        /\ run'[w].job = run[w].job /\ run'[w].token = run[w].token
    BY <1>3 DEF RunShape
  <1>. HIDE DEF x, to
  <1>. QED  BY <1>4, <1>5 DEF Keeps, Holds, Holding

LEMMA EndsRun ==
    ASSUME NEW w \in Owners, RunsInv, EndRun(w)
    PROVE  Leaves(w) /\ run'[w].verdict = "none"
  <1>1. RunShape(Idle) /\ Idle.pc = "beat" /\ Idle.verdict = "none"
    BY DEF Idle, RunShape
  <1>. QED  BY <1>1 DEF EndRun, RunsInv, Leaves, Holds, Holding

LEMMA StillRuns == RunsInv /\ UNCHANGED run => RunsInv' /\ lent' = lent
  <1>1. UNCHANGED run => \A w : LeaseOf(w)' = LeaseOf(w)
    BY DEF LeaseOf
  <1>. QED  BY <1>1 DEF RunsInv, lent

-----------------------------------------------------------------------------
(* The poll loop.                                                            *)

LEMMA LoopUses ==
    ASSUME RunsInv, NEW w \in Owners, Loop(w)
    PROVE  RunsInv' /\ [Q!Next]_(Q!vars)
  <1>1. CASE Beat(w)
    <2>1. RunsInv'
      BY <1>1, GotoRuns DEF Beat
    <2>. QED  BY <1>1, <2>1 DEF Beat, Q!Next, Q!Worker
  <1>2. CASE Reclaim(w)
    <2>1. RunsInv'
      BY <1>2, GotoRuns DEF Reclaim
    <2>. QED  BY <1>2, <2>1 DEF Reclaim, Q!Next
  <1>3. CASE Expire(w)
    <2>1. RunsInv'
      BY <1>3, GotoRuns DEF Expire
    <2>. QED  BY <1>3, <2>1 DEF Expire, Q!Next
  <1>4. CASE LeaseSome(w)
    <2>1. PICK j \in Jobs, t \in Tokens :
             /\ run' = [run EXCEPT ![w] = [Idle EXCEPT !.pc = "start", !.job = j, !.token = t,
                                                       !.keyed = job[j].requires]]
             /\ Q!LeaseJob(w, j, t)
      BY <1>4 DEF LeaseSome
    <2>2. PICK x : x = [Idle EXCEPT !.pc = "start", !.job = j, !.token = t,
                                    !.keyed = job[j].requires]
      OBVIOUS
    <2>3. RunShape(Idle)
      BY DEF RunShape, Idle
    <2>4. x = [pc |-> "start", job |-> j, token |-> t, keyed |-> job[j].requires,
               lost |-> Idle.lost, verdict |-> Idle.verdict]
      BY <2>2, <2>3 DEF RunShape
    <2>5. RunShape(x)
      BY <2>4 DEF RunShape
    <2>6. run' = [run EXCEPT ![w] = x]
      BY <2>1, <2>2
    <2>7. RunsInv'
      BY <2>5, <2>6 DEF RunsInv
    <2>. QED  BY <2>1, <2>7 DEF Q!Next, Q!Worker
  <1>5. CASE LeaseNone(w)
    <2>1. Leaves(w) /\ UNCHANGED <<job, silence>>
      BY <1>5, GotoRuns DEF LeaseNone, Holding
    <2>. QED  BY <2>1, LeavingIsForgetting
  <1>6. CASE StartHandler(w)
    <2>1. Holds(w)
      BY <1>6 DEF StartHandler, At, Holds, Holding
    <2>2. Keeps(w) /\ UNCHANGED <<job, silence>>
      BY <1>6, <2>1, GotoRuns DEF StartHandler, Holding
    <2>. QED  BY <2>2, KeepingIsNothing
  <1>7. CASE \/ StartWithoutKey(w) \/ StartWithBadCap(w) \/ JobCancelled(w)
             \/ HandlerRaises(w) \/ HandlerFails(w)
    <2>1. Holds(w) /\ UNCHANGED <<job, silence>>
      BY <1>7 DEF StartWithoutKey, StartWithBadCap, JobCancelled, HandlerRaises, HandlerFails,
                  At, Holds, Holding
    <2>2. \E verdict : Decide(w, verdict)
      BY <1>7 DEF StartWithoutKey, StartWithBadCap, JobCancelled, HandlerRaises, HandlerFails
    <2>3. Keeps(w)
      BY <2>1, <2>2, DecideRuns
    <2>. QED  BY <2>1, <2>3, KeepingIsNothing
  <1>8. CASE LeaseLost(w) \/ DropKey(w)
    <2>1. Leaves(w) /\ UNCHANGED <<job, silence>>
      BY <1>8, EndsRun DEF LeaseLost, DropKey
    <2>. QED  BY <2>1, LeavingIsForgetting
  <1>9. CASE HandlerReturns(w)
    <2>1. Holds(w)
      BY <1>9 DEF HandlerReturns, At, Holds, Holding
    <2>2. Leaves(w)
      BY <1>9, GotoRuns DEF HandlerReturns, Holding
    <2>3. CASE Q!Complete(LeaseOf(w))
      <3>1. RunsInv' /\ LeaseOf(w) \in lent
        BY <2>1, <2>2, LeavesLent
      <3>. QED  BY <2>3, <3>1 DEF Q!Next, Q!Client
    <2>4. CASE UNCHANGED <<job, silence>>
      BY <2>2, <2>4, LeavingIsForgetting
    <2>. QED  BY <1>9, <2>3, <2>4 DEF HandlerReturns
  <1>10. CASE SettleRun(w)
    <2>1. Holds(w)
      BY <1>10 DEF SettleRun, At, Holds, Holding
    <2>2. Leaves(w)
      BY <1>10, GotoRuns, EndsRun DEF SettleRun, Holding
    <2>3. ASSUME NEW verdict, Tell(verdict, LeaseOf(w))
          PROVE  RunsInv' /\ [Q!Next]_(Q!vars)
      <3>1. RunsInv' /\ LeaseOf(w) \in lent
        BY <2>1, <2>2, LeavesLent
      <3>2. \/ \E s \in Q!Paused : Q!Pause(LeaseOf(w), s)
            \/ Q!MarkCancelled(LeaseOf(w))
            \/ \E retry \in BOOLEAN : Q!Fail(LeaseOf(w), retry)
        BY <2>3 DEF Tell, Q!Paused
      <3>. QED  BY <3>1, <3>2 DEF Q!Next, Q!Client
    <2>4. CASE UNCHANGED <<job, silence>>
      BY <2>2, <2>4, LeavingIsForgetting
    <2>. QED  BY <1>10, <2>3, <2>4 DEF SettleRun
  <1>. QED  BY <1>1, <1>2, <1>3, <1>4, <1>5, <1>6, <1>7, <1>8, <1>9, <1>10 DEF Loop

-----------------------------------------------------------------------------
(* The queue's own theorems, for the leases of the runs.                     *)

P == INSTANCE JobQueue_proofs

LEMMA SameInit == Q!Init => P!Init
  BY DEF Q!Init, P!Init, Q!NoRow, P!NoRow


LEMMA SameNext == Q!Next => P!Next
  BY DEF Q!Next, P!Next, Q!Client, P!Client, Q!Control, P!Control, Q!Worker, P!Worker,
         Q!ReclaimExpired, P!ReclaimExpired, Q!ExpirePaused, P!ExpirePaused,
         Q!Tick, P!Tick, Q!Heartbeat, P!Heartbeat, Q!Complete, P!Complete,
         Q!MarkCancelled, P!MarkCancelled, Q!Pause, P!Pause, Q!Fail, P!Fail,
         Q!Forget, P!Forget, Q!Enqueue, P!Enqueue, Q!RequestCancel, P!RequestCancel,
         Q!ResupplyCredentials, P!ResupplyCredentials, Q!Resume, P!Resume,
         Q!UpdatePayload, P!UpdatePayload, Q!LeaseJob, P!LeaseJob,
         Q!WorkerHeartbeat, P!WorkerHeartbeat, Q!Settle, P!Settle,
         Q!Finished, P!Finished, Q!PausedRow, P!PausedRow, Q!FailedRow, P!FailedRow,
         Q!Backoff, P!Backoff, Q!Owned, P!Owned, Q!Released, P!Released,
         Q!Inserted, P!Inserted, Q!NoRow, P!NoRow, Q!EnqueueMode, P!EnqueueMode,
         Q!Active, P!Active, Q!Paused, P!Paused, Q!CancelledRow, P!CancelledRow,
         Q!Resupplied, P!Resupplied, Q!Resumed, P!Resumed,
         Q!OldestRunnable, P!OldestRunnable, Q!Runnable, P!Runnable, Q!Fresh, P!Fresh,
         Q!Remembered, P!Remembered, Q!Leased, P!Leased, Q!Expired, P!Expired,
         Q!Reclaimed, P!Reclaimed, Q!Orphan, P!Orphan, Q!Orphaned, P!Orphaned,
         Q!OverdueRow, P!OverdueRow, Q!Elapsed, P!Elapsed

LEMMA QueueHolds == P!IndInv /\ [Q!Next]_(Q!vars) => P!IndInv'
  <1>1. [Q!Next]_(Q!vars) => [P!Next]_(P!vars)
    BY SameNext DEF Q!vars, P!vars
  <1>. QED  BY <1>1, QueueAssumption, P!NextInv

LEMMA FailedStays ==
    ASSUME P!IndInv, [Q!Next]_(Q!vars), NEW j \in Jobs, job[j].status = "failed"
    PROVE  job'[j] = job[j]
  <1>1. [P!Next]_(P!vars)
    BY SameNext DEF Q!vars, P!vars
  <1>. QED  BY <1>1, QueueAssumption, P!FinishedStep DEF P!Terminal

LEMMA LentAreLeases ==
    ASSUME P!IndInv, NEW w \in Owners, Holds(w)
    PROVE  LeaseOf(w) \in lent /\ run[w].job \in Jobs
  <1>1. LeaseOf(w) \in lent
    BY DEF lent, Holds
  <1>2. LeaseOf(w) \in [job : Jobs, owner : Owners, token : Tokens]
    BY <1>1 DEF P!IndInv, P!Lease
  <1>. QED  BY <1>1, <1>2 DEF LeaseOf

-----------------------------------------------------------------------------
(* A run whose heartbeat thread beats is in its handler, settles, or has     *)
(* just reported a failure that was final: the job it names then is failed   *)
(* and is not the run's any more.                                            *)

Heard == {"cancelled", "key refused", "cap reached", "permanent", "transient"}

Quiet(w) ==
    run[w].verdict \in Heard =>
        \/ run[w].pc = "settle"
        \/ /\ run[w].pc = "drop"
           /\ run[w].job \in Jobs
           /\ job[run[w].job].status = "failed"

WorkerInv ==
    /\ RunsInv
    /\ P!IndInv
    /\ \A w \in Owners : Quiet(w)

LEMMA OthersQuiet ==
    ASSUME WorkerInv, [Q!Next]_(Q!vars), NEW w \in Owners, run'[w] = run[w]
    PROVE  Quiet(w)'
  <1>1. CASE run[w].verdict \in Heard /\ run[w].pc # "settle"
    <2>1. PICK j : j = run[w].job
      OBVIOUS
    <2>2. run[w].pc = "drop" /\ j \in Jobs /\ job[j].status = "failed"
      BY <1>1, <2>1 DEF WorkerInv, Quiet
    <2>3. job'[j].status = "failed"
      BY <2>2, FailedStays DEF WorkerInv
    <2>. QED  BY <2>1, <2>2, <2>3 DEF Quiet
  <1>2. CASE ~(run[w].verdict \in Heard /\ run[w].pc # "settle")
    BY <1>2 DEF Quiet
  <1>. QED  BY <1>1, <1>2

LEMMA LoopQuiet ==
    ASSUME WorkerInv, NEW w \in Owners, Loop(w)
    PROVE  /\ Quiet(w)'
           /\ \A o \in Owners : o # w => run'[o] = run[o]
  <1>. RunsInv /\ Quiet(w) /\ P!IndInv
    BY DEF WorkerInv
  <1>1. ASSUME NEW pc, Goto(w, pc), run[w].verdict \notin Heard
        PROVE  /\ Quiet(w)'
               /\ \A o \in Owners : o # w => run'[o] = run[o]
    BY <1>1, GotoRuns DEF Quiet, Goto, RunsInv
  <1>2. ASSUME NEW verdict, Decide(w, verdict), Holds(w)
        PROVE  /\ Quiet(w)'
               /\ \A o \in Owners : o # w => run'[o] = run[o]
    BY <1>2, DecideRuns DEF Quiet, Keeps
  <1>3. ASSUME EndRun(w)
        PROVE  /\ Quiet(w)'
               /\ \A o \in Owners : o # w => run'[o] = run[o]
    BY <1>3, EndsRun DEF Quiet, Leaves, Heard
  <1>4. CASE \/ Beat(w) \/ Reclaim(w) \/ Expire(w) \/ LeaseNone(w)
             \/ StartHandler(w) \/ HandlerReturns(w)
    <2>1. run[w].verdict \notin Heard
      BY <1>4 DEF Beat, Reclaim, Expire, LeaseNone, StartHandler, HandlerReturns, At, Quiet
    <2>2. \E pc : Goto(w, pc)
      BY <1>4 DEF Beat, Reclaim, Expire, LeaseNone, StartHandler, HandlerReturns
    <2>. QED  BY <2>1, <2>2, <1>1
  <1>5. CASE LeaseSome(w)
    <2>1. PICK j \in Jobs, t \in Tokens :
             run' = [run EXCEPT ![w] = [Idle EXCEPT !.pc = "start", !.job = j, !.token = t,
                                                    !.keyed = job[j].requires]]
      BY <1>5 DEF LeaseSome
    <2>2. PICK x : x = [Idle EXCEPT !.pc = "start", !.job = j, !.token = t,
                                    !.keyed = job[j].requires]
      OBVIOUS
    <2>3. RunShape(Idle) /\ Idle.verdict = "none"
      BY DEF RunShape, Idle
    <2>4. x = [pc |-> "start", job |-> j, token |-> t, keyed |-> job[j].requires,
               lost |-> Idle.lost, verdict |-> Idle.verdict]
      BY <2>2, <2>3 DEF RunShape
    <2>5. x.verdict = "none"
      BY <2>3, <2>4
    <2>6. run' = [run EXCEPT ![w] = x]
      BY <2>1, <2>2
    <2>. QED  BY <2>5, <2>6 DEF RunsInv, Quiet, Heard
  <1>6. CASE \/ StartWithoutKey(w) \/ StartWithBadCap(w) \/ JobCancelled(w)
             \/ HandlerRaises(w) \/ HandlerFails(w)
    <2>1. Holds(w)
      BY <1>6 DEF StartWithoutKey, StartWithBadCap, JobCancelled, HandlerRaises, HandlerFails,
                  At, Holds, Holding
    <2>2. \E verdict : Decide(w, verdict)
      BY <1>6 DEF StartWithoutKey, StartWithBadCap, JobCancelled, HandlerRaises, HandlerFails
    <2>. QED  BY <2>1, <2>2, <1>2
  <1>7. CASE LeaseLost(w) \/ DropKey(w)
    BY <1>7, <1>3 DEF LeaseLost, DropKey
  <1>8. CASE SettleRun(w)
    <2>1. CASE EndRun(w)
      BY <2>1, <1>3
    <2>2. CASE ~EndRun(w)
      <3>1. /\ Q!Owned(LeaseOf(w)) /\ FinalFailure(w) /\ Goto(w, "drop")
            /\ Tell(run[w].verdict, LeaseOf(w))
        BY <1>8, <2>2 DEF SettleRun
      <3>2. /\ run'[w].pc = "drop" /\ run'[w].job = run[w].job
            /\ \A o \in Owners : o # w => run'[o] = run[o]
        BY <3>1, GotoRuns DEF Goto, RunsInv
      <3>3. PICK j : j = run[w].job
        OBVIOUS
      <3>4. j \in Jobs
        BY <1>8, <3>3, LentAreLeases DEF SettleRun, At, Holds, Holding
      <3>5. Q!Fail(LeaseOf(w), TRUE) /\ job[j].attempts >= MaxAttempts
        BY <3>1, <3>3 DEF FinalFailure, Tell
      <3>6. LeaseOf(w).job = j
        BY <3>3 DEF LeaseOf
      <3>7. job' = [job EXCEPT ![j] = Q!FailedRow(job[j], TRUE)]
        BY <3>5, <3>6 DEF Q!Fail, Q!Settle
      <3>8. /\ job \in [Jobs -> P!Row]
            /\ MaxAttempts \in Nat /\ job[j].attempts \in Nat
        BY <3>4, QueueAssumption DEF P!IndInv, P!RowsInv, P!Row
      <3>9. ~(job[j].attempts < MaxAttempts)
        BY <3>5, <3>8
      <3>10. job'[j] = [Q!Released(job[j]) EXCEPT !.status = "failed"]
        BY <3>4, <3>7, <3>8, <3>9 DEF Q!FailedRow
      <3>11. job'[j].status = "failed"
        BY <3>4, <3>8, <3>10 DEF Q!Released, P!Row
      <3>. QED  BY <3>2, <3>3, <3>4, <3>11 DEF Quiet
    <2>. QED  BY <2>1, <2>2
  <1>. QED  BY <1>4, <1>5, <1>6, <1>7, <1>8 DEF Loop

-----------------------------------------------------------------------------
(* The heartbeat thread, the API, the command line, crashes and time.        *)

\* What a step of run w, or of none, leaves to be shown.
Uses(w) ==
    /\ RunsInv'
    /\ [Q!Next]_(Q!vars)
    /\ Quiet(w)'
    /\ \A o \in Owners : o # w => run'[o] = run[o]

LEMMA StillUses ==
    ASSUME WorkerInv, UNCHANGED run, [Q!Next]_(Q!vars), NEW w \in Owners
    PROVE  Uses(w)
  BY StillRuns, OthersQuiet DEF Uses, WorkerInv

LEMMA ThreadUses ==
    ASSUME WorkerInv, NEW w \in Owners, ExtendLease(w) \/ AnnounceWorker(w)
    PROVE  Uses(w)
  <1>. RunsInv /\ Quiet(w) /\ P!IndInv
    BY DEF WorkerInv
  <1>1. CASE AnnounceWorker(w)
    BY <1>1, StillUses DEF AnnounceWorker, Q!Next, Q!Worker
  <1>2. CASE ExtendLease(w) /\ UNCHANGED run /\ Q!Owned(LeaseOf(w)) /\ Q!Heartbeat(LeaseOf(w))
    <2>1. Holds(w)
      <3>1. CASE run[w].pc = "handler" \/ run[w].pc = "settle"
        BY <3>1 DEF Holds, Holding
      <3>2. CASE ~(run[w].pc = "handler" \/ run[w].pc = "settle")
        <4>1. run[w].verdict \in Heard
          BY <1>2, <3>2 DEF ExtendLease, Beating, Heard
        <4>2. job[run[w].job].status = "failed"
          BY <3>2, <4>1 DEF Quiet
        <4>. QED  BY <1>2, <4>2 DEF Q!Owned, LeaseOf
      <3>. QED  BY <3>1, <3>2
    <2>2. LeaseOf(w) \in lent
      BY <2>1, LentAreLeases
    <2>3. Q!Next
      BY <1>2, <2>2 DEF Q!Next, Q!Client
    <2>. QED  BY <1>2, <2>3, StillUses
  <1>3. CASE run' = [run EXCEPT ![w].lost = TRUE] /\ UNCHANGED <<job, silence>>
    <2>1. RunShape(run[w]) /\ run = [o \in Owners |-> run[o]]
      BY DEF RunsInv
    <2>2. PICK y : y = [run[w] EXCEPT !.lost = TRUE]
      OBVIOUS
    <2>3. y = [pc |-> run[w].pc, job |-> run[w].job, token |-> run[w].token,
               keyed |-> run[w].keyed, lost |-> TRUE, verdict |-> run[w].verdict]
      BY <2>1, <2>2 DEF RunShape
    <2>4. /\ RunShape(y) /\ y.pc = run[w].pc /\ y.job = run[w].job
          /\ y.token = run[w].token /\ y.verdict = run[w].verdict
      BY <2>3 DEF RunShape
    <2>5. run'[w] = y
      BY <1>3, <2>1, <2>2
    <2>6. /\ run' = [o \in Owners |-> run'[o]]
          /\ \A o \in Owners : o # w => run'[o] = run[o]
      BY <1>3, <2>1
    <2>7. Keeps(w)
      BY <2>4, <2>5, <2>6 DEF Keeps, Holds
    <2>8. RunsInv' /\ [Q!Next]_(Q!vars)
      BY <1>3, <2>7, KeepingIsNothing
    <2>9. job' = job
      BY <1>3
    <2>10. Quiet(w)'
      BY <2>4, <2>5, <2>9 DEF Quiet
    <2>. QED  BY <2>6, <2>8, <2>10 DEF Uses
  <1>4. ExtendLease(w) => \/ Q!Owned(LeaseOf(w)) /\ UNCHANGED run /\ Q!Heartbeat(LeaseOf(w))
                          \/ run' = [run EXCEPT ![w].lost = TRUE] /\ UNCHANGED <<job, silence>>
    BY DEF ExtendLease
  <1>. QED  BY <1>1, <1>2, <1>3, <1>4

LEMMA ApiUses ==
    ASSUME WorkerInv, NEW w \in Owners, Api(w)
    PROVE  Uses(w)
  <1>1. UNCHANGED run
    BY DEF Api, Submit, ResupplyKey, CancelLatest, ResumeLatest
  <1>2. CASE Submit(w)
    <2>1. PICK j \in Jobs, c \in Corpora, status \in {"queued", "needs_credentials"} :
            \E keyed \in {status = "needs_credentials", TRUE} :
               Q!Enqueue(j, c, status, keyed,
                         IF keyed /\ status = "queued" THEN w ELSE None)
      BY <1>2 DEF Submit
    <2>2. PICK keyed \in {status = "needs_credentials", TRUE} :
            Q!Enqueue(j, c, status, keyed, IF keyed /\ status = "queued" THEN w ELSE None)
      BY <2>1
    <2>3. CASE status = "needs_credentials"
      <3>1. <<"needs_credentials", TRUE, None>> \in Q!EnqueueMode
        BY DEF Q!EnqueueMode
      <3>2. Q!Enqueue(j, c, "needs_credentials", TRUE, None)
        BY <2>2, <2>3
      <3>. QED  BY <1>1, <3>1, <3>2, StillUses DEF Q!Next, Q!Control
    <2>4. CASE status = "queued" /\ keyed
      <3>1. <<"queued", TRUE, w>> \in Q!EnqueueMode
        BY DEF Q!EnqueueMode
      <3>2. Q!Enqueue(j, c, "queued", TRUE, w)
        BY <2>2, <2>4
      <3>. QED  BY <1>1, <3>1, <3>2, StillUses DEF Q!Next, Q!Control
    <2>5. CASE status = "queued" /\ ~keyed
      <3>1. <<"queued", FALSE, None>> \in Q!EnqueueMode
        BY DEF Q!EnqueueMode
      <3>2. Q!Enqueue(j, c, "queued", FALSE, None)
        BY <2>2, <2>5
      <3>. QED  BY <1>1, <3>1, <3>2, StillUses DEF Q!Next, Q!Control
    <2>. QED  BY <2>3, <2>4, <2>5
  <1>3. CASE ResupplyKey(w) \/ CancelLatest(w) \/ ResumeLatest
    <2>1. Q!Control
      BY <1>3 DEF ResupplyKey, CancelLatest, ResumeLatest, Q!Control
    <2>. QED  BY <1>1, <2>1, StillUses DEF Q!Next
  <1>. QED  BY <1>2, <1>3 DEF Api

LEMMA CrashUses ==
    ASSUME WorkerInv, NEW w \in Owners, Crash(w)
    PROVE  Uses(w)
  <1>1. Leaves(w) /\ run'[w].verdict = "none" /\ UNCHANGED <<job, silence>>
    BY EndsRun DEF Crash, WorkerInv
  <1>2. RunsInv' /\ [Q!Next]_(Q!vars)
    BY <1>1, LeavingIsForgetting DEF WorkerInv
  <1>. QED  BY <1>1, <1>2 DEF Uses, Leaves, Quiet, Heard

LEMMA AloneUses ==
    ASSUME WorkerInv, CommandLine \/ Time \/ UNCHANGED vars, NEW w \in Owners
    PROVE  Uses(w)
  <1>1. UNCHANGED run
    BY DEF CommandLine, Time, vars
  <1>2. [Q!Next]_(Q!vars)
    <2>1. CASE CommandLine
      BY <2>1 DEF CommandLine, Q!Next, Q!Control
    <2>2. CASE Time
      BY <2>2 DEF Time, Q!Next
    <2>3. CASE UNCHANGED vars
      BY <2>3, StillRuns DEF vars, Q!vars, WorkerInv
    <2>. QED  BY <2>1, <2>2, <2>3
  <1>. QED  BY <1>1, <1>2, StillUses

-----------------------------------------------------------------------------
LEMMA WorkerStep ==
    ASSUME WorkerInv, [Next]_vars
    PROVE  WorkerInv' /\ [Q!Next]_(Q!vars)
  <1>1. ASSUME NEW w \in Owners, Uses(w)
        PROVE  WorkerInv' /\ [Q!Next]_(Q!vars)
    <2>1. RunsInv' /\ [Q!Next]_(Q!vars)
      BY <1>1 DEF Uses
    <2>2. P!IndInv'
      BY <2>1, QueueHolds DEF WorkerInv
    <2>3. ASSUME NEW o \in Owners
          PROVE  Quiet(o)'
      BY <1>1, <2>1, OthersQuiet DEF Uses
    <2>. QED  BY <2>1, <2>2, <2>3 DEF WorkerInv
  <1>2. CASE \E w \in Owners : Loop(w)
    BY <1>1, <1>2, LoopUses, LoopQuiet DEF Uses, WorkerInv
  <1>3. CASE \E w \in Owners : ExtendLease(w) \/ AnnounceWorker(w)
    BY <1>1, <1>3, ThreadUses
  <1>4. CASE \E w \in Owners : Api(w)
    BY <1>1, <1>4, ApiUses
  <1>5. CASE \E w \in Owners : Crash(w)
    BY <1>1, <1>5, CrashUses
  <1>6. CASE CommandLine \/ Time \/ UNCHANGED vars
    <2>1. CASE Owners # {}
      BY <1>1, <1>6, <2>1, AloneUses
    <2>2. CASE Owners = {}
      <3>1. UNCHANGED run
        BY <1>6 DEF CommandLine, Time, vars
      <3>2. RunsInv' /\ [Q!Next]_(Q!vars)
        BY <1>6, <3>1, StillRuns
           DEF WorkerInv, CommandLine, Time, vars, Q!Next, Q!Control, Q!vars
      <3>3. P!IndInv'
        BY <3>2, QueueHolds DEF WorkerInv
      <3>. QED  BY <2>2, <3>2, <3>3 DEF WorkerInv
    <2>. QED  BY <2>1, <2>2
  <1>. QED  BY <1>2, <1>3, <1>4, <1>5, <1>6 DEF Next

LEMMA WorkerInit == Init => WorkerInv
  <1>. SUFFICES ASSUME Init PROVE WorkerInv
    OBVIOUS
  <1>2. \A w \in Owners : run[w] = Idle
    BY DEF Init
  <1>3. RunShape(Idle) /\ Idle.verdict = "none"
    BY DEF RunShape, Idle
  <1>4. P!IndInv
    BY SameInit, QueueAssumption, P!InitInv DEF Init
  <1>. QED  BY <1>2, <1>3, <1>4 DEF Init, WorkerInv, RunsInv, Quiet, Heard

(* No run that lost, settled or dropped its lease ever presents it again:   *)
(* the heartbeat of a run whose failure was final finds the job finished.   *)
THEOREM WorkerInductive == Spec => []WorkerInv
  BY WorkerInit, WorkerStep, PTL DEF Spec

(* Every step of the workers, the API, the command line and of a crash is   *)
(* one the queue allows its clients, the leases held being those of the     *)
(* runs: so what is proved of the queue holds of the program.               *)
THEOREM ClientsOfQueue == Spec => UsesQueue
  <1>1. WorkerInv /\ [Next]_vars => [Q!Next]_(Q!vars)
    BY WorkerStep
  <1>2. Init => Q!Init
    BY DEF Init
  <1>. QED  BY <1>1, <1>2, WorkerInductive, PTL DEF Spec, UsesQueue, Q!Spec

-----------------------------------------------------------------------------
(* The page. The stream that is open is that of the corpus it shows, and what  *)
(* is on the wire is of that corpus; a dialog's request is about the corpus    *)
(* shown, whose job exists once it was answered.                               *)

Job == [status : JobStatus, stage : Nat, cancel : BOOLEAN]

PageShape(x) == x = [corpus |-> x.corpus, status |-> x.status, pause |-> x.pause,
                     stage |-> x.stage, log |-> x.log, cancel |-> x.cancel]

FeedShape(x) == x = [corpus |-> x.corpus, connected |-> x.connected, ended |-> x.ended,
                     status |-> x.status, stage |-> x.stage, count |-> x.count,
                     polled |-> x.polled, wire |-> x.wire]

OpenFeed(x) ==
    /\ FeedShape(x)
    /\ x.corpus \in ViewCorpora /\ x.connected \in BOOLEAN /\ x.ended \in BOOLEAN
    /\ x.status \in JobStatus \cup {"none"}
    /\ x.stage \in Nat /\ x.count \in Nat /\ x.polled \in Nat
    /\ x.wire \in Seq(EventOf(x.corpus))

JobsInv == corpusJobs \in [ViewCorpora -> Seq(Job)]

PageInv ==
    /\ PageShape(page) /\ page.corpus \in ViewCorpora
    /\ page.log \in Seq({page.corpus} \X Nat \X Nat)

FeedInv ==
    feed # NoFeed =>
        OpenFeed(feed) /\ feed.corpus = page.corpus /\ LatestOf(feed.corpus) > 0

ShownInv == (feed # NoFeed) = (page.status = "processing")

\* A request names a corpus, and a request with a token one with a job.
CallInv(call) ==
    /\ call.corpus \in ViewCorpora
    /\ call.pc = "sent" /\ call.kind # "submit" => call.token # 0
    /\ call.pc = "answered" /\ call.ok => LatestOf(call.corpus) > 0

DialogInv == dialogCall # NoCallOut => CallInv(dialogCall) /\ dialogCall.corpus = page.corpus

CancelInv ==
    cancelCall # NoCallOut => CallInv(cancelCall) /\ cancelCall.kind = "cancel"

ViewInv == JobsInv /\ PageInv /\ FeedInv /\ ShownInv /\ DialogInv /\ CancelInv

LEMMA OpenFeedIsFeed == ASSUME NEW x, OpenFeed(x) PROVE x # NoFeed
  <1>1. x.wire \in Seq(UNION {EventOf(c) : c \in ViewCorpora})
    BY DEF OpenFeed
  <1>2. x \in Stream
    BY <1>1 DEF OpenFeed, FeedShape, Stream
  <1>. QED  BY <1>2, FeedAssumption

LEMMA ViewInvImplies == ViewInv => FollowsTheCorpusShown
  <1>. SUFFICES ASSUME ViewInv PROVE FollowsTheCorpusShown
    OBVIOUS
  <1>1. \A n \in DOMAIN page.log : page.log[n] \in {page.corpus} \X Nat \X Nat
    BY DEF ViewInv, PageInv
  <1>. QED  BY <1>1 DEF ViewInv, FeedInv, ShownInv, FollowsTheCorpusShown

LEMMA ViewInit == ASSUME NEW shown \in ViewCorpora, InitView(shown) PROVE ViewInv
  BY DEF InitView, ViewInv, JobsInv, PageInv, FeedInv, ShownInv, DialogInv, CancelInv,
         ShownAs, PageShape

\* Jobs are added and never removed.
JobsGrow == \A c \in ViewCorpora : LatestOf(c) > 0 => LatestOf(c)' > 0

LEMMA JobsMove ==
    ASSUME ViewInv, JobsInv', JobsGrow,
           UNCHANGED page, UNCHANGED feed,
           UNCHANGED dialogCall \/ DialogInv', UNCHANGED cancelCall \/ CancelInv'
    PROVE  ViewInv'
  BY DEF ViewInv, PageInv, FeedInv, ShownInv, DialogInv, CancelInv, CallInv, JobsGrow, OpenFeed

LEMMA SetLatestGrows ==
    ASSUME JobsInv, NEW c \in ViewCorpora, NEW j \in Job, SetLatest(c, j), LatestOf(c) > 0
    PROVE  JobsInv' /\ JobsGrow
  <1>1. PICK s : s = corpusJobs[c]
    OBVIOUS
  <1>2. s \in Seq(Job)
    BY <1>1 DEF JobsInv
  <1>3. PICK t : t = [s EXCEPT ![LatestOf(c)] = j]
    OBVIOUS
  <1>6. LatestOf(c) \in 1 .. Len(s)
    BY <1>1, <1>2 DEF LatestOf
  <1>4. t \in Seq(Job) /\ Len(t) = Len(s)
    BY <1>2, <1>3, <1>6, ExceptSeq
  <1>5. corpusJobs' = [corpusJobs EXCEPT ![c] = t]
    BY <1>1, <1>3 DEF SetLatest
  <1>. QED  BY <1>1, <1>4, <1>5 DEF JobsInv, JobsGrow, LatestOf

LEMMA AppendGrows ==
    ASSUME JobsInv, NEW c \in ViewCorpora,
           corpusJobs' = [corpusJobs EXCEPT ![c] = Append(@, NewJob)]
    PROVE  JobsInv' /\ JobsGrow /\ LatestOf(c)' > 0
  <1>1. NewJob \in Job
    BY DEF NewJob, Job, JobStatus
  <1>2. corpusJobs[c] \in Seq(Job)
    BY DEF JobsInv
  <1>3. /\ Append(corpusJobs[c], NewJob) \in Seq(Job)
        /\ Len(Append(corpusJobs[c], NewJob)) = Len(corpusJobs[c]) + 1
        /\ Len(corpusJobs[c]) \in Nat
    BY <1>1, <1>2
  <1>4. \A d \in ViewCorpora : corpusJobs'[d] = IF d = c THEN Append(corpusJobs[c], NewJob)
                                                ELSE corpusJobs[d]
    BY DEF JobsInv
  <1>. QED  BY <1>3, <1>4 DEF JobsInv, JobsGrow, LatestOf

LEMMA LatestIsJob ==
    ASSUME JobsInv, NEW c \in ViewCorpora, LatestOf(c) > 0
    PROVE  LatestJob(c) \in Job
  BY DEF JobsInv, LatestOf, LatestJob

LEMMA JobParts ==
    ASSUME NEW x \in Job
    PROVE  /\ x = [status |-> x.status, stage |-> x.stage, cancel |-> x.cancel]
           /\ x.status \in JobStatus /\ x.stage \in Nat /\ x.cancel \in BOOLEAN
           /\ \A s \in JobStatus : [x EXCEPT !.status = s] \in Job
           /\ [x EXCEPT !.stage = x.stage + 1] \in Job
           /\ [x EXCEPT !.cancel = TRUE] \in Job
           /\ \A s \in JobStatus : [x EXCEPT !.status = s, !.cancel = TRUE] \in Job
  <1>1. /\ x = [status |-> x.status, stage |-> x.stage, cancel |-> x.cancel]
        /\ x.status \in JobStatus /\ x.stage \in Nat /\ x.cancel \in BOOLEAN
    BY DEF Job
  <1>2. ASSUME NEW s \in JobStatus
        PROVE  [x EXCEPT !.status = s] \in Job
    BY <1>1, <1>2 DEF Job
  <1>3. [x EXCEPT !.stage = x.stage + 1] \in Job
    BY <1>1 DEF Job
  <1>4. [x EXCEPT !.cancel = TRUE] \in Job
    BY <1>1 DEF Job
  <1>5. ASSUME NEW s \in JobStatus
        PROVE  [x EXCEPT !.status = s, !.cancel = TRUE] \in Job
    BY <1>1, <1>5 DEF Job
  <1>. QED  BY <1>1, <1>2, <1>3, <1>4, <1>5

LEMMA WorkKeeps ==
    ASSUME ViewInv, NEW c \in ViewCorpora, ViewWork(c) \/ SubmitElsewhere(c)
    PROVE  ViewInv'
  <1>. JobsInv
    BY DEF ViewInv
  <1>1. UNCHANGED <<page, feed, dialogCall, cancelCall>>
    BY DEF ViewWork, SubmitElsewhere, requests
  <1>2. CASE ViewWork(c)
    <2>1. LatestJob(c) \in Job /\ LatestOf(c) > 0
      BY <1>2, LatestIsJob DEF ViewWork, ActiveJob
    <2>2. \E j \in Job : SetLatest(c, j)
      <3>1. \A s \in {"processing", "needs_credentials"} \cup StreamEnd : s \in JobStatus
        BY DEF JobStatus, StreamEnd, Paused
      <3>. QED  BY <1>2, <2>1, <3>1, JobParts DEF ViewWork
    <2>. QED  BY <1>1, <2>1, <2>2, SetLatestGrows, JobsMove
  <1>3. CASE SubmitElsewhere(c)
    <2>1. JobsInv' /\ JobsGrow
      BY <1>3, AppendGrows DEF SubmitElsewhere
    <2>. QED  BY <1>1, <2>1, JobsMove
  <1>. QED  BY <1>2, <1>3

\* One poll: what it puts on the wire is of the stream's corpus.
LEMMA PollKeeps ==
    ASSUME ViewInv, Poll
    PROVE  ViewInv'
  <1>. DEFINE c == feed.corpus
              job1 == LatestJob(c)
              status == IF job1.status # feed.status THEN <<StatusEvent(job1)>> ELSE <<>>
              log == ActivityEvents(c, job1, feed.count)
              last == IF job1.status \in StreamEnd THEN <<CompleteEvent(job1)>> ELSE <<>>
  <1>1. /\ feed # NoFeed /\ OpenFeed(feed) /\ LatestOf(c) > 0 /\ feed.corpus = page.corpus
        /\ c \in ViewCorpora /\ JobsInv
    BY DEF Poll, ViewInv, FeedInv, OpenFeed
  <1>2. job1 \in Job
    BY <1>1, LatestIsJob
  <1>3. job1.status \in JobStatus /\ job1.stage \in Nat /\ feed.count \in Nat
    BY <1>1, <1>2, JobParts DEF OpenFeed
  <1>4. /\ StatusEvent(job1) \in EventOf(c)
        /\ job1.status \in StreamEnd => CompleteEvent(job1) \in EventOf(c)
    BY <1>3 DEF StatusEvent, CompleteEvent, EventOf
  <1>5. status \in Seq(EventOf(c)) /\ last \in Seq(EventOf(c))
    <2>1. \A e \in EventOf(c) : <<e>> \in Seq(EventOf(c))
      OBVIOUS
    <2>2. <<>> \in Seq(EventOf(c))
      OBVIOUS
    <2>3. <<StatusEvent(job1)>> \in Seq(EventOf(c))
      BY <1>4, <2>1
    <2>4. job1.status \in StreamEnd => <<CompleteEvent(job1)>> \in Seq(EventOf(c))
      BY <1>4, <2>1
    <2>. HIDE DEF c, job1
    <2>. QED  BY <2>2, <2>3, <2>4
  <1>6. log \in Seq(EventOf(c))
    <2>1. LatestOf(c) \in Nat
      BY <1>1 DEF JobsInv, LatestOf
    <2>2. ASSUME NEW n \in 1 .. job1.stage - feed.count
          PROVE  [event |-> "activity", entry |-> <<c, LatestOf(c), feed.count + n>>] \in EventOf(c)
      <3>1. feed.count + n \in Nat
        BY <1>3
      <3>2. <<c, LatestOf(c), feed.count + n>> \in {c} \X Nat \X Nat
        BY <2>1, <3>1
      <3>. QED  BY <3>2 DEF EventOf
    <2>3. PICK k : k = IF job1.stage - feed.count > 0 THEN job1.stage - feed.count ELSE 0
      OBVIOUS
    <2>4. k \in Nat /\ 1 .. k = 1 .. job1.stage - feed.count
      BY <1>3, <2>3
    <2>5. log = [n \in 1 .. k |->
                    [event |-> "activity", entry |-> <<c, LatestOf(c), feed.count + n>>]]
      BY <2>4 DEF ActivityEvents
    <2>. HIDE DEF log, c, job1
    <2>6. PICK f : f = [n \in 1 .. k |->
                    [event |-> "activity", entry |-> <<c, LatestOf(c), feed.count + n>>]]
      OBVIOUS
    <2>7. f \in [1 .. k -> EventOf(c)]
      BY <2>2, <2>4, <2>6
    <2>. QED  BY <2>4, <2>5, <2>6, <2>7, SeqDef
  <1>7. PICK w : w = status \o log \o last
    OBVIOUS
  <1>8. w \in Seq(EventOf(c))
    <2>. HIDE DEF status, log, last
    <2>. QED  BY <1>5, <1>6, <1>7
  <1>14. PICK ends : ends = (job1.status \in StreamEnd)
    OBVIOUS
  <1>15. PICK stage : stage = IF job1.status # feed.status THEN job1.stage ELSE feed.stage
    OBVIOUS
  <1>16. PICK count : count = IF job1.stage > feed.count THEN job1.stage ELSE feed.count
    OBVIOUS
  <1>18. ends \in BOOLEAN
    BY <1>14
  <1>19. stage \in Nat /\ count \in Nat
    BY <1>1, <1>3, <1>15, <1>16 DEF OpenFeed
  <1>17. PICK s, p : s = job1.status /\ p = job1.stage
    OBVIOUS
  <1>9. feed' = [feed EXCEPT !.status = s, !.stage = stage, !.count = count,
                             !.polled = p, !.ended = ends, !.wire = w]
    BY <1>7, <1>14, <1>15, <1>16, <1>17 DEF Poll
  <1>10. PICK y : y = [corpus |-> feed.corpus, connected |-> feed.connected, ended |-> ends,
                       status |-> s, stage |-> stage, count |-> count, polled |-> p,
                       wire |-> w]
    OBVIOUS
  <1>11. feed' = y
    <2>. HIDE DEF job1
    <2>1. FeedShape(feed)
      BY <1>1 DEF OpenFeed
    <2>2. PICK z : z = [feed EXCEPT !.status = s, !.stage = stage, !.count = count,
                                    !.polled = p, !.ended = ends, !.wire = w]
      OBVIOUS
    <2>4. PICK x : x = feed
      OBVIOUS
    <2>5. x = [corpus |-> x.corpus, connected |-> x.connected, ended |-> x.ended,
               status |-> x.status, stage |-> x.stage, count |-> x.count,
               polled |-> x.polled, wire |-> x.wire]
      BY <2>1, <2>4 DEF FeedShape
    <2>7. z = [x EXCEPT !.status = s, !.stage = stage, !.count = count,
                        !.polled = p, !.ended = ends, !.wire = w]
      BY <2>2, <2>4
    <2>6. z = [corpus |-> x.corpus, connected |-> x.connected, ended |-> ends,
               status |-> s, stage |-> stage, count |-> count, polled |-> p, wire |-> w]
      BY <2>5, <2>7
    <2>3. z = y
      BY <1>10, <2>4, <2>6
    <2>. QED  BY <1>9, <2>2, <2>3
  <1>12. OpenFeed(y) /\ y.corpus = c
    <2>. HIDE DEF job1
    <2>. QED  BY <1>1, <1>3, <1>8, <1>10, <1>17, <1>18, <1>19 DEF OpenFeed, FeedShape
  <1>13. UNCHANGED <<corpusJobs, page, dialogCall, cancelCall>> /\ feed' # NoFeed
    BY <1>11, <1>12, OpenFeedIsFeed DEF Poll, requests
  <1>. HIDE DEF c, job1
  <1>. QED  BY <1>1, <1>11, <1>12, <1>13
       DEF c, ViewInv, JobsInv, PageInv, FeedInv, ShownInv, DialogInv, CancelInv, CallInv, LatestOf

LEMMA AnswerParts ==
    ASSUME NEW call, NEW st, NEW j
    PROVE  /\ Error(call).corpus = call.corpus /\ Error(call).kind = call.kind
           /\ Error(call).pc = "answered" /\ Error(call).ok = FALSE
           /\ Ok(call, st, j).corpus = call.corpus /\ Ok(call, st, j).kind = call.kind
           /\ Ok(call, st, j).pc = "answered"
  BY DEF Error, Ok

\* What is delivered is of the corpus shown.
LEMMA DeliverKeeps ==
    ASSUME ViewInv, Deliver
    PROVE  ViewInv'
  <1>. DEFINE e == Head(feed.wire)
              c == feed.corpus
  <1>1. /\ feed # NoFeed /\ OpenFeed(feed) /\ LatestOf(c) > 0 /\ c = page.corpus
        /\ feed.wire # <<>>
    BY DEF Deliver, ViewInv, FeedInv
  <1>2. PICK rest : rest = Tail(feed.wire)
    OBVIOUS
  <1>3. e \in EventOf(c) /\ rest \in Seq(EventOf(c))
    <2>1. PICK S : S = EventOf(c)
      OBVIOUS
    <2>2. feed.wire \in Seq(S)
      BY <1>1, <2>1 DEF OpenFeed
    <2>. QED  BY <1>1, <1>2, <2>1, <2>2, HeadTailProperties
  <1>4. PICK y : y = [feed EXCEPT !.wire = rest]
    OBVIOUS
  <1>5. y = [corpus |-> feed.corpus, connected |-> feed.connected, ended |-> feed.ended,
             status |-> feed.status, stage |-> feed.stage, count |-> feed.count,
             polled |-> feed.polled, wire |-> rest]
    BY <1>1, <1>4 DEF OpenFeed, FeedShape
  <1>6. OpenFeed(y) /\ y.corpus = c /\ y # NoFeed
    <2>1. OpenFeed(y) /\ y.corpus = c
      BY <1>1, <1>3, <1>5 DEF OpenFeed, FeedShape
    <2>. QED  BY <2>1, OpenFeedIsFeed
  <1>7. PageShape(page) /\ page.corpus \in ViewCorpora
        /\ page.log \in Seq({page.corpus} \X Nat \X Nat)
    BY DEF ViewInv, PageInv
  <1>8. UNCHANGED <<corpusJobs, dialogCall, cancelCall>>
    BY DEF Deliver, requests
  <1>9. CASE /\ e.event = "status"
             /\ page' = [page EXCEPT !.stage = e.stage]
             /\ feed' = [feed EXCEPT !.wire = Tail(@)]
    <2>1. PICK s : s = e.stage
      OBVIOUS
    <2>2. PICK x : x = [page EXCEPT !.stage = s]
      OBVIOUS
    <2>3. x = [corpus |-> page.corpus, status |-> page.status, pause |-> page.pause,
               stage |-> s, log |-> page.log, cancel |-> page.cancel]
      BY <1>7, <2>2 DEF PageShape
    <2>4. page' = x /\ feed' = y
      BY <1>2, <1>4, <1>9, <2>1, <2>2
    <2>5. PageShape(x) /\ x.corpus = page.corpus /\ x.status = page.status /\ x.log = page.log
      BY <2>3 DEF PageShape
    <2>. HIDE DEF c, e
    <2>. QED  BY <1>1, <1>6, <1>7, <1>8, <2>4, <2>5
         DEF c, ViewInv, JobsInv, PageInv, FeedInv, ShownInv, DialogInv, CancelInv, CallInv, LatestOf
  <1>10. CASE /\ e.event = "activity"
              /\ page' = [page EXCEPT !.log = Append(@, e.entry)]
              /\ feed' = [feed EXCEPT !.wire = Tail(@)]
    <2>1. e.entry \in {c} \X Nat \X Nat
      BY <1>3, <1>10 DEF EventOf
    <2>2. PICK log : log = Append(page.log, e.entry)
      OBVIOUS
    <2>3. log \in Seq({page.corpus} \X Nat \X Nat)
      <3>. HIDE DEF c, e
      <3>. QED  BY <1>1, <1>7, <2>1, <2>2
    <2>4. PICK x : x = [page EXCEPT !.log = log]
      OBVIOUS
    <2>5. x = [corpus |-> page.corpus, status |-> page.status, pause |-> page.pause,
               stage |-> page.stage, log |-> log, cancel |-> page.cancel]
      BY <1>7, <2>4 DEF PageShape
    <2>6. page' = x /\ feed' = y
      BY <1>2, <1>4, <1>10, <2>2, <2>4
    <2>7. PageShape(x) /\ x.corpus = page.corpus /\ x.status = page.status /\ x.log = log
      BY <2>5 DEF PageShape
    <2>. HIDE DEF c, e
    <2>. QED  BY <1>1, <1>6, <1>7, <1>8, <2>3, <2>6, <2>7
         DEF c, ViewInv, JobsInv, PageInv, FeedInv, ShownInv, DialogInv, CancelInv, CallInv, LatestOf
  <1>11. CASE /\ e.event = "complete"
              /\ page' = [page EXCEPT !.status = MapJobStatus(e.status),
                                      !.pause = IF e.status \in Paused THEN e.status ELSE "none"]
              /\ feed' = NoFeed
    <2>1. e.status \in StreamEnd
      BY <1>3, <1>11 DEF EventOf
    <2>2. PICK s : s = MapJobStatus(e.status)
      OBVIOUS
    <2>3. s # "processing"
      BY <2>1, <2>2 DEF MapJobStatus, StreamEnd, Paused, Finished
    <2>4. PICK p : p = IF e.status \in Paused THEN e.status ELSE "none"
      OBVIOUS
    <2>5. PICK x : x = [page EXCEPT !.status = s, !.pause = p]
      OBVIOUS
    <2>6. x = [corpus |-> page.corpus, status |-> s, pause |-> p,
               stage |-> page.stage, log |-> page.log, cancel |-> page.cancel]
      BY <1>7, <2>5 DEF PageShape
    <2>7. page' = x /\ feed' = NoFeed
      BY <1>11, <2>2, <2>4, <2>5
    <2>8. PageShape(x) /\ x.corpus = page.corpus /\ x.status = s /\ x.log = page.log
      BY <2>6 DEF PageShape
    <2>. HIDE DEF c, e
    <2>. QED  BY <1>7, <1>8, <2>3, <2>7, <2>8
         DEF ViewInv, JobsInv, PageInv, FeedInv, ShownInv, DialogInv, CancelInv, CallInv, LatestOf
  <1>. QED  BY <1>9, <1>10, <1>11 DEF Deliver

LEMMA FeedOpens ==
    ASSUME NEW c \in ViewCorpora
    PROVE  OpenFeed(Feed(c)) /\ Feed(c).corpus = c /\ Feed(c) # NoFeed
  <1>1. OpenFeed(Feed(c)) /\ Feed(c).corpus = c
    BY DEF OpenFeed, FeedShape, Feed
  <1>. QED  BY <1>1, OpenFeedIsFeed

\* The stream is closed or opens again: the corpus shown keeps its job.
LEMMA ConnectionKeeps ==
    ASSUME ViewInv, LoseConnection \/ Reconnect
    PROVE  ViewInv'
  <1>1. /\ feed # NoFeed /\ OpenFeed(feed) /\ LatestOf(feed.corpus) > 0
        /\ feed.corpus = page.corpus
    BY DEF LoseConnection, Reconnect, ViewInv, FeedInv
  <1>2. UNCHANGED <<corpusJobs, page, dialogCall, cancelCall>>
    BY DEF LoseConnection, Reconnect, requests
  <1>3. \E y : feed' = y /\ OpenFeed(y) /\ y.corpus = feed.corpus
    <2>1. CASE LoseConnection
      <3>1. PICK y : y = [feed EXCEPT !.connected = FALSE, !.wire = <<>>]
        OBVIOUS
      <3>2. y = [corpus |-> feed.corpus, connected |-> FALSE, ended |-> feed.ended,
                 status |-> feed.status, stage |-> feed.stage, count |-> feed.count,
                 polled |-> feed.polled, wire |-> <<>>]
        BY <1>1, <3>1 DEF OpenFeed, FeedShape
      <3>3. OpenFeed(y) /\ y.corpus = feed.corpus
        BY <1>1, <3>2 DEF OpenFeed, FeedShape
      <3>. QED  BY <2>1, <3>1, <3>3 DEF LoseConnection
    <2>2. CASE Reconnect
      <3>1. feed' = Feed(feed.corpus)
        BY <2>2 DEF Reconnect
      <3>. QED  BY <1>1, <3>1, FeedOpens DEF OpenFeed
    <2>. QED  BY <2>1, <2>2
  <1>4. PICK y : feed' = y /\ OpenFeed(y) /\ y.corpus = feed.corpus
    BY <1>3
  <1>5. feed' # NoFeed
    BY <1>4, OpenFeedIsFeed
  <1>. QED  BY <1>1, <1>2, <1>4, <1>5
       DEF ViewInv, JobsInv, PageInv, FeedInv, ShownInv, DialogInv, CancelInv, CallInv, LatestOf

LEMMA SelectKeeps ==
    ASSUME ViewInv, NEW c \in ViewCorpora, SelectCorpus(c)
    PROVE  ViewInv'
  BY DEF SelectCorpus, requests, ShownAs, PageShape,
         ViewInv, JobsInv, PageInv, FeedInv, ShownInv, DialogInv, CancelInv, CallInv, LatestOf

\* A request is sent about the corpus shown, and with a token the page has.
LEMMA SendKeeps ==
    ASSUME ViewInv, SendSubmit \/ SendContinue \/ SendCancel
    PROVE  ViewInv'
  <1>1. UNCHANGED <<corpusJobs, page, feed>>
    BY DEF SendSubmit, SendContinue, SendCancel
  <1>2. page.corpus \in ViewCorpora
    BY DEF ViewInv, PageInv
  <1>3. ASSUME NEW k
        PROVE  /\ Call(k, page.corpus).corpus = page.corpus /\ Call(k, page.corpus).kind = k
               /\ Call(k, page.corpus).token = controlTokens[page.corpus]
               /\ Call(k, page.corpus).pc = "sent"
    BY DEF Call
  <1>5. ASSUME NEW x, x = Call("submit", page.corpus) \/
                      (controlTokens[page.corpus] # 0 /\ \E k : x = Call(k, page.corpus))
        PROVE  CallInv(x) /\ x.corpus = page.corpus
    BY <1>2, <1>3, <1>5 DEF CallInv
  <1>6. UNCHANGED dialogCall \/ DialogInv'
    BY <1>1, <1>5 DEF SendSubmit, SendContinue, SendCancel, DialogInv, CallInv, LatestOf
  <1>7. UNCHANGED cancelCall \/ CancelInv'
    BY <1>1, <1>3, <1>5 DEF SendSubmit, SendContinue, SendCancel, CancelInv, CallInv, LatestOf
  <1>8. JobsInv' /\ JobsGrow
    BY <1>1 DEF ViewInv, JobsInv, JobsGrow, LatestOf
  <1>. QED  BY <1>1, <1>6, <1>7, <1>8, JobsMove

\* A request that is served either says no or names a job the corpus has.
LEMMA ServeKeeps ==
    ASSUME ViewInv, ServeSubmit \/ ServeContinue
    PROVE  ViewInv'
  <1>0. PICK c : c = dialogCall.corpus
    OBVIOUS
  <1>1. UNCHANGED <<page, feed, cancelCall>> /\ JobsInv
    BY DEF ServeSubmit, ServeContinue, ViewInv
  <1>2. /\ dialogCall # NoCallOut /\ dialogCall.pc = "sent"
        /\ c \in ViewCorpora /\ c = page.corpus /\ CallInv(dialogCall)
    BY <1>0 DEF ServeSubmit, ServeContinue, ViewInv, DialogInv, CallInv
  <1>3. ASSUME dialogCall' = Error(dialogCall)
        PROVE  DialogInv'
    BY <1>0, <1>1, <1>2, <1>3, AnswerParts DEF DialogInv, CallInv
  <1>4. ASSUME LatestOf(c)' > 0, NEW st, NEW j, dialogCall' = Ok(dialogCall, st, j)
        PROVE  DialogInv'
    <2>1. /\ dialogCall'.corpus = c /\ dialogCall'.pc = "answered"
      BY <1>0, <1>4, AnswerParts
    <2>2. LatestOf(dialogCall.corpus)' = LatestOf(c)'
      BY <2>1 DEF LatestOf
    <2>3. dialogCall'.pc # "sent"
      BY <2>1
    <2>. QED  BY <1>1, <1>2, <1>4, <2>1, <2>2, <2>3 DEF DialogInv, CallInv
  <1>5. CASE UNCHANGED corpusJobs /\ dialogCall' = Error(dialogCall)
    <2>1. JobsInv' /\ JobsGrow
      BY <1>1, <1>5 DEF JobsInv, JobsGrow, LatestOf
    <2>. QED  BY <1>1, <1>3, <1>5, <2>1, JobsMove
  <1>6. CASE ServeSubmit
    <2>1. CASE /\ corpusJobs' = [corpusJobs EXCEPT ![c] = Append(@, NewJob)]
               /\ dialogCall' = Ok(dialogCall, "pending", LatestOf(c) + 1)
      <3>1. JobsInv' /\ JobsGrow /\ LatestOf(c)' > 0
        BY <1>1, <1>2, <2>1, AppendGrows DEF LatestOf
      <3>. QED  BY <1>1, <1>4, <2>1, <3>1, JobsMove
    <2>. QED  BY <1>0, <1>5, <1>6, <2>1 DEF ServeSubmit
  <1>7. CASE ServeContinue
    <2>1. CASE ~(dialogCall.token # LatestOf(c)
                 \/ LatestJob(c).status # (IF dialogCall.kind = "resume" THEN "budget_exhausted"
                                           ELSE "needs_credentials"))
      <3>1. LatestOf(c) > 0
        <4>1. dialogCall.token # 0 /\ dialogCall.token = LatestOf(c)
          BY <1>0, <1>2, <1>7, <2>1 DEF ServeContinue, CallInv
        <4>2. LatestOf(c) \in Nat
          BY <1>1, <1>2 DEF JobsInv, LatestOf
        <4>. QED  BY <4>1, <4>2
      <3>2. PICK status \in {"pending", "needs_credentials"} :
                /\ SetLatest(c, [LatestJob(c) EXCEPT !.status = status])
                /\ dialogCall' = Ok(dialogCall, status, LatestOf(c))
        BY <1>0, <1>7, <2>1 DEF ServeContinue
      <3>3. [LatestJob(c) EXCEPT !.status = status] \in Job
        <4>1. LatestJob(c) \in Job
          BY <1>1, <1>2, <3>1, LatestIsJob
        <4>2. status \in JobStatus
          BY DEF JobStatus, StreamEnd, Paused
        <4>. QED  BY <4>1, <4>2, JobParts
      <3>4. JobsInv' /\ JobsGrow
        BY <1>1, <1>2, <3>1, <3>2, <3>3, SetLatestGrows
      <3>5. LatestOf(c)' > 0
        BY <1>2, <3>1, <3>4 DEF JobsGrow, LatestOf
      <3>. QED  BY <1>1, <1>4, <3>2, <3>4, <3>5, JobsMove
    <2>. QED  BY <1>0, <1>5, <1>7, <2>1 DEF ServeContinue
  <1>. QED  BY <1>6, <1>7

LEMMA ServeCancelKeeps ==
    ASSUME ViewInv, ServeCancel
    PROVE  ViewInv'
  <1>0. PICK c : c = cancelCall.corpus
    OBVIOUS
  <1>. DEFINE job1 == LatestJob(c)
              after == CASE job1.status \in Finished -> job1
                         [] job1.status = "processing" -> [job1 EXCEPT !.cancel = TRUE]
                         [] OTHER -> [job1 EXCEPT !.status = "cancelled", !.cancel = TRUE]
  <1>1. UNCHANGED <<page, feed, dialogCall>> /\ JobsInv
    BY DEF ServeCancel, ViewInv
  <1>2. /\ cancelCall # NoCallOut /\ cancelCall.pc = "sent" /\ cancelCall.kind = "cancel"
        /\ c \in ViewCorpora /\ CallInv(cancelCall)
    BY <1>0 DEF ServeCancel, ViewInv, CancelInv, CallInv
  <1>3. CASE cancelCall' = Error(cancelCall) /\ UNCHANGED corpusJobs
    <2>1. JobsInv' /\ JobsGrow
      BY <1>1, <1>3 DEF JobsInv, JobsGrow, LatestOf
    <2>2. CancelInv'
      BY <1>2, <1>3, AnswerParts DEF CancelInv, CallInv
    <2>. QED  BY <1>1, <2>1, <2>2, JobsMove
  <1>4. CASE /\ cancelCall.token = LatestOf(c) /\ SetLatest(c, after)
             /\ cancelCall' = Ok(cancelCall, after.status, LatestOf(c))
    <2>1. LatestOf(c) > 0
      <3>1. cancelCall.token # 0
        BY <1>2 DEF CallInv
      <3>2. LatestOf(c) \in Nat
        BY <1>1, <1>2 DEF JobsInv, LatestOf
      <3>. QED  BY <1>4, <3>1, <3>2
    <2>2. job1 \in Job
      BY <1>1, <1>2, <2>1, LatestIsJob
    <2>3. after \in Job
      <3>1. "cancelled" \in JobStatus
        BY DEF JobStatus, StreamEnd, Finished
      <3>2. /\ [job1 EXCEPT !.cancel = TRUE] \in Job
            /\ [job1 EXCEPT !.status = "cancelled", !.cancel = TRUE] \in Job
        BY <2>2, <3>1, JobParts
      <3>. QED  BY <2>2, <3>2
    <2>4. JobsInv' /\ JobsGrow
      BY <1>1, <1>2, <1>4, <2>1, <2>3, SetLatestGrows
    <2>5. LatestOf(c)' > 0
      BY <1>2, <2>1, <2>4 DEF JobsGrow, LatestOf
    <2>6. PICK st : cancelCall' = Ok(cancelCall, st, LatestOf(c))
      BY <1>4
    <2>. HIDE DEF after, job1
    <2>7. /\ cancelCall'.corpus = c /\ cancelCall'.pc = "answered"
          /\ cancelCall'.kind = "cancel"
      BY <1>0, <1>2, <2>6 DEF Ok
    <2>8. LatestOf(cancelCall.corpus)' > 0
      BY <2>5, <2>7 DEF LatestOf
    <2>9. CancelInv'
      BY <1>2, <2>7, <2>8 DEF CancelInv, CallInv
    <2>. QED  BY <1>1, <2>4, <2>9, JobsMove
  <1>. QED  BY <1>0, <1>3, <1>4 DEF ServeCancel

LEMMA LoseAnswerKeeps ==
    ASSUME ViewInv, LoseAnswer
    PROVE  ViewInv'
  <1>1. UNCHANGED <<corpusJobs, page, feed>>
    BY DEF LoseAnswer
  <1>2. JobsInv' /\ JobsGrow
    BY <1>1 DEF ViewInv, JobsInv, JobsGrow, LatestOf
  <1>3. UNCHANGED dialogCall \/ DialogInv'
    BY <1>1, AnswerParts DEF LoseAnswer, ViewInv, DialogInv, CallInv
  <1>4. UNCHANGED cancelCall \/ CancelInv'
    BY <1>1, AnswerParts DEF LoseAnswer, ViewInv, CancelInv, CallInv
  <1>. QED  BY <1>1, <1>2, <1>3, <1>4, JobsMove

\* The dialog's corpus is still the one shown when its answer opens a stream.
LEMMA FinishDialogKeeps ==
    ASSUME ViewInv, FinishDialog
    PROVE  ViewInv'
  <1>1. /\ UNCHANGED <<corpusJobs, cancelCall>> /\ dialogCall' = NoCallOut
        /\ dialogCall # NoCallOut /\ dialogCall.pc = "answered"
    BY DEF FinishDialog
  <1>2. CASE UNCHANGED <<page, feed>>
    BY <1>1, <1>2 DEF ViewInv, JobsInv, PageInv, FeedInv, ShownInv, DialogInv, CancelInv, CallInv,
                      LatestOf
  <1>3. CASE dialogCall.ok
    <2>1. /\ dialogCall.corpus = page.corpus /\ page.corpus \in ViewCorpora
          /\ LatestOf(page.corpus) > 0
      BY <1>1, <1>3 DEF ViewInv, DialogInv, CallInv
    <2>2. PICK b : page' = ShownAs(page.corpus, "processing", b)
      BY <1>3 DEF FinishDialog
    <2>3. feed' = Feed(page.corpus)
      BY <1>3, <2>1 DEF FinishDialog
    <2>4. OpenFeed(feed') /\ feed'.corpus = page.corpus /\ feed' # NoFeed
      BY <2>1, <2>3, FeedOpens
    <2>5. /\ PageShape(page') /\ page'.corpus = page.corpus /\ page'.status = "processing"
          /\ page'.log = <<>>
      BY <2>2 DEF ShownAs, PageShape
    <2>6. page'.log \in Seq({page'.corpus} \X Nat \X Nat)
      BY <2>5
    <2>. QED  BY <1>1, <2>1, <2>4, <2>5, <2>6
         DEF ViewInv, JobsInv, PageInv, FeedInv, ShownInv, DialogInv, CancelInv, CallInv, LatestOf
  <1>. QED  BY <1>2, <1>3 DEF FinishDialog

LEMMA FinishCancelKeeps ==
    ASSUME ViewInv, FinishCancel
    PROVE  ViewInv'
  <1>1. UNCHANGED <<corpusJobs, dialogCall>> /\ cancelCall' = NoCallOut
    BY DEF FinishCancel
  <1>2. /\ PageShape(page) /\ page.corpus \in ViewCorpora
        /\ page.log \in Seq({page.corpus} \X Nat \X Nat)
    BY DEF ViewInv, PageInv
  <1>3. CASE UNCHANGED <<page, feed>>
    BY <1>1, <1>3 DEF ViewInv, JobsInv, PageInv, FeedInv, ShownInv, DialogInv, CancelInv, CallInv,
                      LatestOf
  <1>4. CASE /\ feed' = NoFeed /\ cancelCall.status \in Finished
             /\ page' = [page EXCEPT !.pause = "none", !.status = MapJobStatus(cancelCall.status)]
    <2>1. PICK s : s = MapJobStatus(cancelCall.status)
      OBVIOUS
    <2>2. s # "processing"
      BY <1>4, <2>1 DEF MapJobStatus, Paused, Finished
    <2>3. PICK x : x = [page EXCEPT !.pause = "none", !.status = s]
      OBVIOUS
    <2>4. x = [corpus |-> page.corpus, status |-> s, pause |-> "none",
               stage |-> page.stage, log |-> page.log, cancel |-> page.cancel]
      BY <1>2, <2>3 DEF PageShape
    <2>5. page' = x
      BY <1>4, <2>1, <2>3
    <2>6. PageShape(x) /\ x.corpus = page.corpus /\ x.status = s /\ x.log = page.log
      BY <2>4 DEF PageShape
    <2>. QED  BY <1>1, <1>2, <1>4, <2>2, <2>5, <2>6
         DEF ViewInv, JobsInv, PageInv, FeedInv, ShownInv, DialogInv, CancelInv, CallInv, LatestOf
  <1>5. CASE page' = [page EXCEPT !.cancel = TRUE] /\ UNCHANGED feed
    <2>1. PICK x : x = [page EXCEPT !.cancel = TRUE]
      OBVIOUS
    <2>2. x = [corpus |-> page.corpus, status |-> page.status, pause |-> page.pause,
               stage |-> page.stage, log |-> page.log, cancel |-> TRUE]
      BY <1>2, <2>1 DEF PageShape
    <2>3. page' = x
      BY <1>5, <2>1
    <2>4. PageShape(x) /\ x.corpus = page.corpus /\ x.status = page.status /\ x.log = page.log
      BY <2>2 DEF PageShape
    <2>. QED  BY <1>1, <1>2, <1>5, <2>3, <2>4
         DEF ViewInv, JobsInv, PageInv, FeedInv, ShownInv, DialogInv, CancelInv, CallInv, LatestOf
  <1>. QED  BY <1>3, <1>4, <1>5 DEF FinishCancel

LEMMA ViewStep ==
    ASSUME ViewInv, [NextView]_viewVars
    PROVE  ViewInv'
  <1>1. CASE \E c \in ViewCorpora : ViewWork(c) \/ SubmitElsewhere(c)
    BY <1>1, WorkKeeps
  <1>2. CASE Clicks
    BY <1>2, SendKeeps, SelectKeeps DEF Clicks
  <1>3. CASE Serves
    BY <1>3, ServeKeeps, ServeCancelKeeps DEF Serves
  <1>4. CASE Finishes
    BY <1>4, FinishDialogKeeps, FinishCancelKeeps DEF Finishes
  <1>5. CASE Streams
    BY <1>5, PollKeeps, DeliverKeeps, ConnectionKeeps DEF Streams
  <1>6. CASE Loses
    BY <1>6, ConnectionKeeps, LoseAnswerKeeps DEF Loses
  <1>7. CASE UNCHANGED viewVars
    BY <1>7 DEF viewVars, ViewInv, JobsInv, PageInv, FeedInv, ShownInv, DialogInv, CancelInv,
                CallInv, LatestOf
  <1>. QED  BY <1>1, <1>2, <1>3, <1>4, <1>5, <1>6, <1>7 DEF NextView

\* Whichever clicks, answers, events and losses interleave, the page follows one stream, that of
\* the corpus it shows, and no event of another corpus reaches its log.
THEOREM OneStream ==
    ASSUME NEW shown \in ViewCorpora
    PROVE  InitView(shown) /\ [][NextView]_viewVars => []FollowsTheCorpusShown
  <1>1. InitView(shown) => ViewInv
    BY ViewInit
  <1>2. ViewInv /\ [NextView]_viewVars => ViewInv'
    BY ViewStep
  <1>3. ViewInv => FollowsTheCorpusShown
    BY ViewInvImplies
  <1>. QED  BY <1>1, <1>2, <1>3, PTL
=============================================================================
