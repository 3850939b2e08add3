--------------------------- MODULE JobQueue_proofs ---------------------------
(***************************************************************************)
(* Theorems about JobQueue, for any jobs, corpora, workers, tokens and     *)
(* limits.  The inductive invariant has a part that speaks of one row at a *)
(* time (RowInv) and two parts that relate rows and leases.  Each update   *)
(* the code makes to a row is shown once to keep RowInv; the actions then  *)
(* only say which update they make to which row.                           *)
(***************************************************************************)
EXTENDS JobQueue, TLAPS

RowInv(r) ==
    /\ r \in Row
    /\ IF r.status = "running" THEN r.owner # None /\ r.token # None
                               ELSE r.owner = None /\ r.token = None
    /\ r.status = "queued" \/ r.status \in Paused => r.attempts < MaxAttempts
    /\ r.status = "running" => r.attempts > 0
    /\ r.status = "queued" /\ r.requires => r.holder # None
    /\ r.status = "running" /\ r.requires => r.holder = r.owner
    /\ r.status = "absent" => ~r.cancel

(* What every update but Inserted and Leased does to a row at most: it ends *)
(* the job or leaves its status alone or active, keeps or ends its grant,   *)
(* and never undoes a cancellation or touches a finished row.               *)
RowStep(r, q) ==
    /\ q.corpus = r.corpus
    /\ q.status = r.status \/ (r.status \in Active /\ q.status \in Active \cup Terminal)
    /\ (q.token = r.token /\ q.owner = r.owner) \/ q.token = None
    /\ r.status \in Terminal => q = r
    /\ r.cancel => q.cancel

RowsInv == job \in [Jobs -> Row] /\ \A j \in Jobs : RowInv(job[j])

IndInv ==
    /\ RowsInv
    /\ silence \in [Owners -> 0..WorkerTtl + 1]
    /\ lent \subseteq Lease
    /\ TokenNamesOneGrant
    /\ OneActivePerCorpus

-----------------------------------------------------------------------------
(* The updates of a row. *)

LEMMA Bounds ==
    /\ 0 \in -1..LeaseSeconds /\ LeaseSeconds \in -1..LeaseSeconds
    /\ 0 \in 0..BackoffCap
    /\ 0 \in 0..PausedTtl + 1
    /\ 0 \in 0..WorkerTtl + 1
    /\ 0 \in 0..MaxAttempts /\ 0 < MaxAttempts
  BY LimitsAssumption

LEMMA NoRowInv == RowInv(NoRow)
  BY Bounds DEF RowInv, NoRow, Row, Status, Paused

LEMMA InsertedInv ==
    ASSUME NEW c \in Corpora, NEW m \in EnqueueMode
    PROVE  RowInv(Inserted(c, m[1], m[2], m[3]))
  <1>1. ASSUME NEW s \in {"queued", "needs_credentials"}, NEW b \in BOOLEAN,
               NEW h \in Owners \cup {None}, s = "queued" /\ b => h # None
        PROVE  RowInv(Inserted(c, s, b, h))
    BY <1>1, Bounds DEF RowInv, Inserted, NoRow, Row, Status, Active, Paused
  <1>2. CASE m \in {<<"queued", TRUE, w>> : w \in Owners}
    <2>1. PICK w \in Owners : m = <<"queued", TRUE, w>>
      BY <1>2
    <2>2. w # None
      BY NoneAssumption
    <2>. QED  BY <2>1, <2>2, <1>1
  <1>3. CASE m = <<"needs_credentials", TRUE, None>>
    BY <1>1, <1>3
  <1>4. CASE m = <<"queued", FALSE, None>>
    BY <1>1, <1>4
  <1>. QED  BY <1>2, <1>3, <1>4 DEF EnqueueMode

LEMMA LeasedInv ==
    ASSUME NEW r, RowInv(r), NEW w \in Owners, NEW t \in Tokens,
           r.status = "queued", ~r.requires \/ r.holder = w
    PROVE  RowInv(Leased(r, w, t))
  <1>1. r.attempts + 1 \in 0..MaxAttempts /\ r.attempts + 1 > 0
    BY LimitsAssumption DEF RowInv, Row
  <1>2. w # None /\ t # None
    BY NoneAssumption
  <1>3. Leased(r, w, t) \in Row
    BY <1>1, Bounds DEF RowInv, Leased, Row, Status, Active
  <1>. QED  BY <1>1, <1>2, <1>3 DEF RowInv, Leased, Row, Paused

LEMMA ExtendedInv ==
    ASSUME NEW r, RowInv(r)
    PROVE  RowInv([r EXCEPT !.left = LeaseSeconds])
  BY Bounds DEF RowInv, Row

LEMMA FinishedInv ==
    ASSUME NEW r, RowInv(r), NEW s \in Terminal
    PROVE  RowInv(Finished(r, s))
  <1>1. Finished(r, s) \in Row
    BY Bounds DEF RowInv, Finished, Released, Row, Status
  <1>2. s \notin {"absent", "queued", "running"} \cup Paused
    BY DEF Terminal, Paused
  <1>. QED  BY <1>1, <1>2 DEF RowInv, Finished, Released, Row

LEMMA PausedInv ==
    ASSUME NEW r, RowInv(r), NEW s \in Paused, r.status = "running"
    PROVE  RowInv(PausedRow(r, s))
  <1>. DEFINE n == IF r.attempts > 0 THEN r.attempts - 1 ELSE 0
  <1>1. n \in 0..MaxAttempts /\ n < MaxAttempts
    BY LimitsAssumption DEF RowInv, Row
  <1>2. PausedRow(r, s) \in Row
    BY <1>1, Bounds DEF RowInv, PausedRow, Finished, Released, Row, Status, Active
  <1>3. s \notin {"absent", "queued", "running"}
    BY DEF Paused
  <1>. QED  BY <1>1, <1>2, <1>3 DEF RowInv, PausedRow, Finished, Released, Row

LEMMA BackoffType == ASSUME NEW n PROVE Backoff(n) \in 0..BackoffCap
  <1>. DEFINE d == RetryBackoff * 2^(n - 1)
  <1>1. BackoffCap \in 0..BackoffCap
    BY LimitsAssumption
  <1>2. Backoff(n) = IF d \in 0..BackoffCap THEN d ELSE BackoffCap
    BY DEF Backoff
  <1>. HIDE DEF d
  <1>. QED  BY <1>1, <1>2

LEMMA FailedInv ==
    ASSUME NEW r, RowInv(r), r.status = "running", NEW retry \in BOOLEAN
    PROVE  RowInv(FailedRow(r, retry))
  <1>1. CASE retry /\ r.attempts < MaxAttempts
    <2>. DEFINE q == [Released(r) EXCEPT !.status = "queued", !.wait = Backoff(r.attempts)]
    <2>1. q \in Row
      BY Bounds, BackoffType DEF RowInv, Released, Row, Status, Active
    <2>2. r.requires => r.holder # None
      BY DEF RowInv
    <2>3. RowInv(q)
      BY <1>1, <2>1, <2>2 DEF RowInv, Released, Row, Paused
    <2>. QED  BY <1>1, <2>3 DEF FailedRow
  <1>2. CASE ~(retry /\ r.attempts < MaxAttempts)
    <2>. DEFINE q == [Released(r) EXCEPT !.status = "failed"]
    <2>1. q \in Row
      BY Bounds DEF RowInv, Released, Row, Status, Terminal
    <2>2. RowInv(q)
      BY <2>1 DEF RowInv, Released, Row, Paused
    <2>. QED  BY <1>2, <2>2 DEF FailedRow
  <1>. QED  BY <1>1, <1>2

LEMMA ReclaimedInv ==
    ASSUME NEW r, RowInv(r), r.status = "running"
    PROVE  RowInv(Reclaimed(r))
  <1>. DEFINE failed == [Released(r) EXCEPT !.status = "failed"]
              keyless == [Released(r) EXCEPT !.status = "needs_credentials",
                              !.holder = None, !.wait = 0, !.idle = 0]
              again == [Released(r) EXCEPT !.status = "queued", !.wait = 0]
  <1>1. failed \in Row /\ keyless \in Row /\ again \in Row
    BY Bounds DEF RowInv, Released, Row, Status, Active, Paused, Terminal
  <1>2. RowInv(failed)
    BY <1>1 DEF RowInv, Released, Row, Paused
  <1>3. r.attempts >= MaxAttempts \/ r.attempts < MaxAttempts
    BY LimitsAssumption DEF RowInv, Row
  <1>4. r.attempts < MaxAttempts => RowInv(keyless)
    BY <1>1 DEF RowInv, Released, Row, Paused
  <1>5. r.attempts < MaxAttempts /\ ~r.requires => RowInv(again)
    BY <1>1 DEF RowInv, Released, Row, Paused
  <1>. QED  BY <1>2, <1>3, <1>4, <1>5 DEF Reclaimed

LEMMA OrphanedInv ==
    ASSUME NEW r, RowInv(r), r.status = "queued"
    PROVE  RowInv(Orphaned(r))
  <1>1. Orphaned(r) \in Row
    BY Bounds DEF RowInv, Orphaned, Row, Status, Active, Paused
  <1>. QED  BY <1>1 DEF RowInv, Orphaned, Row, Paused

LEMMA CancelledInv ==
    ASSUME NEW r, RowInv(r), r.status # "absent"
    PROVE  RowInv(CancelledRow(r)) /\ RowInv([r EXCEPT !.cancel = TRUE])
  <1>1. CancelledRow(r) \in Row
    BY Bounds DEF RowInv, CancelledRow, Released, Row, Status, Terminal
  <1>2. RowInv(CancelledRow(r))
    BY <1>1 DEF RowInv, CancelledRow, Released, Row, Paused
  <1>3. RowInv([r EXCEPT !.cancel = TRUE])
    BY DEF RowInv, Row
  <1>. QED  BY <1>2, <1>3

LEMMA ResuppliedInv ==
    ASSUME NEW r, RowInv(r), r.status = "needs_credentials", NEW w \in Owners
    PROVE  RowInv(Resupplied(r, w))
  <1>1. Resupplied(r, w) \in Row
    BY Bounds DEF RowInv, Resupplied, Row, Status, Active
  <1>2. w # None
    BY NoneAssumption
  <1>. QED  BY <1>1, <1>2 DEF RowInv, Resupplied, Row, Paused

LEMMA ResumedInv ==
    ASSUME NEW r, RowInv(r), r.status = "budget_exhausted"
    PROVE  RowInv(Resumed(r))
  <1>. DEFINE s == IF r.requires /\ r.holder = None THEN "needs_credentials" ELSE "queued"
  <1>1. s \in {"queued", "needs_credentials"} /\ (s = "queued" /\ r.requires => r.holder # None)
    OBVIOUS
  <1>2. Resumed(r) = [r EXCEPT !.status = s, !.wait = 0, !.idle = 0]
    BY DEF Resumed
  <1>. HIDE DEF s
  <1>3. Resumed(r) \in Row
    BY <1>1, <1>2, Bounds DEF RowInv, Row, Status, Active, Paused
  <1>. QED  BY <1>1, <1>2, <1>3 DEF RowInv, Row, Paused

LEMMA IdleInv ==
    ASSUME NEW r, RowInv(r)
    PROVE  RowInv([r EXCEPT !.idle = 0])
  BY Bounds DEF RowInv, Row

LEMMA ElapsedInv ==
    ASSUME NEW r, RowInv(r)
    PROVE  RowInv(Elapsed(r))
  <1>. DEFINE left == IF r.status = "running" /\ r.left >= 0 THEN r.left - 1 ELSE r.left
              wait == IF r.status = "queued" /\ r.wait > 0 THEN r.wait - 1 ELSE r.wait
              idle == IF r.status \in Paused /\ r.idle <= PausedTtl
                      THEN r.idle + 1 ELSE r.idle
              age == IF r.status \in Active /\ r.age <= WorkerTtl
                     THEN r.age + 1 ELSE r.age
  <1>1. r \in Row
    BY DEF RowInv
  <1>2. left \in -1..LeaseSeconds
    BY <1>1, LimitsAssumption DEF Row
  <1>3. wait \in 0..BackoffCap
    BY <1>1, LimitsAssumption DEF Row
  <1>4. idle \in 0..PausedTtl + 1
    BY <1>1, LimitsAssumption DEF Row
  <1>5. age \in 0..WorkerTtl + 1
    BY <1>1, LimitsAssumption DEF Row
  <1>6. Elapsed(r) = [r EXCEPT !.left = left, !.wait = wait, !.idle = idle, !.age = age]
    BY DEF Elapsed
  <1>. HIDE DEF left, wait, idle, age
  <1>7. Elapsed(r) \in Row
    BY <1>1, <1>2, <1>3, <1>4, <1>5, <1>6 DEF Row
  <1>. QED  BY <1>1, <1>6, <1>7 DEF RowInv, Row

LEMMA UpdatesStep ==
    ASSUME NEW r, RowInv(r)
    PROVE  /\ RowStep(r, r)
           /\ r.status = "running" =>
                /\ RowStep(r, [r EXCEPT !.left = LeaseSeconds])
                /\ RowStep(r, [r EXCEPT !.cancel = TRUE])
                /\ \A s \in Terminal : RowStep(r, Finished(r, s))
                /\ \A s \in Paused : RowStep(r, PausedRow(r, s))
                /\ \A retry \in BOOLEAN : RowStep(r, FailedRow(r, retry))
                /\ RowStep(r, Reclaimed(r))
           /\ r.status = "queued" => RowStep(r, Orphaned(r))
           /\ r.status \in Active => RowStep(r, CancelledRow(r))
           /\ r.status = "needs_credentials" =>
                \A w \in Owners : RowStep(r, Resupplied(r, w))
           /\ r.status = "budget_exhausted" => RowStep(r, Resumed(r))
           /\ r.status \in Paused => RowStep(r, [r EXCEPT !.idle = 0])
           /\ RowStep(r, Elapsed(r))
  <1>. r \in Row
    BY DEF RowInv
  <1>1. RowStep(r, r)
    BY DEF RowStep
  <1>2. ASSUME r.status = "running"
        PROVE  /\ RowStep(r, [r EXCEPT !.left = LeaseSeconds])
               /\ RowStep(r, [r EXCEPT !.cancel = TRUE])
    BY <1>2 DEF RowStep, Row, Terminal
  <1>3. ASSUME r.status = "running", NEW s \in Terminal
        PROVE  RowStep(r, Finished(r, s))
    BY <1>3 DEF RowStep, Row, Finished, Released, Active, Terminal
  <1>4. ASSUME r.status = "running", NEW s \in Paused
        PROVE  RowStep(r, PausedRow(r, s))
    BY <1>4 DEF RowStep, Row, PausedRow, Finished, Released, Active, Terminal
  <1>5. ASSUME r.status = "running", NEW retry \in BOOLEAN
        PROVE  RowStep(r, FailedRow(r, retry))
    BY <1>5 DEF RowStep, Row, FailedRow, Released, Active, Terminal
  <1>6. ASSUME r.status = "running"
        PROVE  RowStep(r, Reclaimed(r))
    BY <1>6 DEF RowStep, Row, Reclaimed, Released, Active, Paused, Terminal
  <1>7. ASSUME r.status = "queued"
        PROVE  RowStep(r, Orphaned(r))
    BY <1>7 DEF RowStep, Row, Orphaned, Active, Paused, Terminal
  <1>8. ASSUME r.status \in Active
        PROVE  RowStep(r, CancelledRow(r))
    BY <1>8 DEF RowStep, Row, CancelledRow, Released, Active, Paused, Terminal
  <1>9. ASSUME r.status = "needs_credentials", NEW w \in Owners
        PROVE  RowStep(r, Resupplied(r, w))
    BY <1>9 DEF RowStep, Row, Resupplied, Active, Paused, Terminal
  <1>10. ASSUME r.status = "budget_exhausted"
         PROVE  RowStep(r, Resumed(r))
    BY <1>10 DEF RowStep, Row, Resumed, Active, Paused, Terminal
  <1>11. ASSUME r.status \in Paused
         PROVE  RowStep(r, [r EXCEPT !.idle = 0])
    BY <1>11 DEF RowStep, Row, Paused, Terminal
  <1>12. RowStep(r, Elapsed(r))
    <2>1. CASE r.status \in Terminal
      <3>1. r.status \notin {"running", "queued"} \cup Paused \cup Active
        BY <2>1 DEF Terminal, Paused, Active
      <3>2. Elapsed(r) = r
        BY <3>1 DEF Elapsed, Row
      <3>. QED  BY <3>2, <1>1
    <2>2. CASE r.status \notin Terminal
      BY <2>2 DEF RowStep, Row, Elapsed
    <2>. QED  BY <2>1, <2>2
  <1>. QED  BY <1>1, <1>2, <1>3, <1>4, <1>5, <1>6, <1>7, <1>8, <1>9, <1>10,
               <1>11, <1>12

-----------------------------------------------------------------------------
(* Whole steps.  Every action but LeaseJob and Enqueue narrows: each row    *)
(* makes a RowStep and no client is lent anything.                          *)

Narrows ==
    /\ job' \in [Jobs -> Row]
    /\ \A j \in Jobs : RowInv(job'[j]) /\ RowStep(job[j], job'[j])
    /\ silence' \in [Owners -> 0..WorkerTtl + 1]
    /\ lent' \subseteq lent

LEMMA OneRow ==
    ASSUME IndInv, NEW j \in Jobs, NEW q, RowInv(q), RowStep(job[j], q),
           job' = [job EXCEPT ![j] = q], silence' = silence, lent' \subseteq lent
    PROVE  Narrows
  <1>1. q \in Row
    BY DEF RowInv
  <1>2. job' \in [Jobs -> Row]
    BY <1>1 DEF IndInv, RowsInv
  <1>3. ASSUME NEW i \in Jobs
        PROVE  RowInv(job'[i]) /\ RowStep(job[i], job'[i])
    <2>1. CASE i = j
      BY <2>1 DEF IndInv, RowsInv
    <2>2. CASE i # j
      BY <2>2, UpdatesStep DEF IndInv, RowsInv
    <2>. QED  BY <2>1, <2>2
  <1>. QED  BY <1>2, <1>3 DEF Narrows, IndInv

LEMMA NarrowsKeepsInv == IndInv /\ Narrows => IndInv'
  <1>. SUFFICES ASSUME IndInv, Narrows PROVE IndInv'
    OBVIOUS
  <1>1. RowsInv'
    BY DEF Narrows, RowsInv
  <1>2. lent' \subseteq Lease
    BY DEF Narrows, IndInv
  <1>3. TokenNamesOneGrant'
    <2>1. \A l \in lent' : l.token # None
      BY <1>2, NoneAssumption DEF Lease
    <2>2. \A j \in Jobs : (job'[j].token = job[j].token /\ job'[j].owner = job[j].owner)
                          \/ job'[j].token = None
      BY DEF Narrows, RowStep
    <2>3. lent' \subseteq lent
      BY DEF Narrows
    <2>. QED  BY <2>1, <2>2, <2>3 DEF IndInv, TokenNamesOneGrant
  <1>4. OneActivePerCorpus'
    <2>1. \A j \in Jobs : job'[j].corpus = job[j].corpus
      BY DEF Narrows, RowStep
    <2>2. \A j \in Jobs : job'[j].status \in Active => job[j].status \in Active
      BY DEF Narrows, RowStep
    <2>. QED  BY <2>1, <2>2 DEF IndInv, OneActivePerCorpus
  <1>. QED  BY <1>1, <1>2, <1>3, <1>4 DEF IndInv, Narrows

LEMMA ClientNarrows == IndInv /\ Client => Narrows
  <1>. SUFFICES ASSUME IndInv, Client PROVE Narrows
    OBVIOUS
  <1>1. PICK l \in lent : \/ Heartbeat(l)
                          \/ Complete(l)
                          \/ MarkCancelled(l)
                          \/ \E s \in Paused : Pause(l, s)
                          \/ \E retry \in BOOLEAN : Fail(l, retry)
                          \/ Forget(l)
    BY DEF Client
  <1>. DEFINE j == l.job
              r == job[j]
  <1>2. j \in Jobs /\ RowInv(r)
    BY DEF IndInv, RowsInv, Lease
  <1>3. ASSUME NEW q, RowInv(q), RowStep(r, q), Settle(l, q)
        PROVE  Narrows
    <2>1. job' = [job EXCEPT ![j] = q] /\ silence' = silence /\ lent' \subseteq lent
      BY <1>3 DEF Settle
    <2>. QED  BY <1>2, <1>3, <2>1, OneRow
  <1>4. CASE Heartbeat(l)
    <2>1. r.status = "running"
      BY <1>4 DEF Heartbeat, Owned
    <2>2. job' = [job EXCEPT ![j] = [r EXCEPT !.left = LeaseSeconds]]
          /\ silence' = silence /\ lent' \subseteq lent
      BY <1>4 DEF Heartbeat
    <2>3. RowInv([r EXCEPT !.left = LeaseSeconds])
          /\ RowStep(r, [r EXCEPT !.left = LeaseSeconds])
      BY <1>2, <2>1, ExtendedInv, UpdatesStep
    <2>. QED  BY <1>2, <2>2, <2>3, OneRow
  <1>5. CASE Complete(l)
    <2>1. r.status = "running" /\ "succeeded" \in Terminal
      BY <1>5 DEF Complete, Settle, Owned, Terminal
    <2>. QED  BY <1>2, <1>3, <1>5, <2>1, FinishedInv, UpdatesStep DEF Complete
  <1>6. CASE MarkCancelled(l)
    <2>1. r.status = "running" /\ "cancelled" \in Terminal
      BY <1>6 DEF MarkCancelled, Settle, Owned, Terminal
    <2>. QED  BY <1>2, <1>3, <1>6, <2>1, FinishedInv, UpdatesStep DEF MarkCancelled
  <1>7. ASSUME NEW s \in Paused, Pause(l, s)
        PROVE  Narrows
    <2>1. r.status = "running"
      BY <1>7 DEF Pause, Settle, Owned
    <2>. QED  BY <1>2, <1>3, <1>7, <2>1, PausedInv, UpdatesStep DEF Pause
  <1>8. ASSUME NEW retry \in BOOLEAN, Fail(l, retry)
        PROVE  Narrows
    <2>1. r.status = "running"
      BY <1>8 DEF Fail, Settle, Owned
    <2>. QED  BY <1>2, <1>3, <1>8, <2>1, FailedInv, UpdatesStep DEF Fail
  <1>9. CASE Forget(l)
    BY <1>9, UpdatesStep DEF Forget, Narrows, IndInv, RowsInv
  <1>. QED  BY <1>1, <1>4, <1>5, <1>6, <1>7, <1>8, <1>9

LEMMA ControlNarrows ==
    ASSUME IndInv, NEW j \in Jobs,
           \/ RequestCancel(j)
           \/ \E w \in Owners : ResupplyCredentials(j, w)
           \/ Resume(j)
           \/ UpdatePayload(j)
    PROVE  Narrows
  <1>. DEFINE r == job[j]
  <1>1. RowInv(r)
    BY DEF IndInv, RowsInv
  <1>2. ASSUME NEW q, RowInv(q), RowStep(r, q), job' = [job EXCEPT ![j] = q],
               UNCHANGED <<silence, lent>>
        PROVE  Narrows
    BY <1>2, OneRow
  <1>3. CASE RequestCancel(j)
    <2>1. r.status \in Active /\ r.status # "absent"
      BY <1>3 DEF RequestCancel, Active, Paused
    <2>2. CASE r.status = "running"
      <3>1. job' = [job EXCEPT ![j] = [r EXCEPT !.cancel = TRUE]]
            /\ UNCHANGED <<silence, lent>>
        BY <1>3, <2>2 DEF RequestCancel
      <3>2. RowInv([r EXCEPT !.cancel = TRUE]) /\ RowStep(r, [r EXCEPT !.cancel = TRUE])
        BY <1>1, <2>1, <2>2, CancelledInv, UpdatesStep
      <3>. QED  BY <3>1, <3>2, <1>2
    <2>3. CASE r.status # "running"
      <3>1. job' = [job EXCEPT ![j] = CancelledRow(r)] /\ UNCHANGED <<silence, lent>>
        BY <1>3, <2>3 DEF RequestCancel
      <3>2. RowInv(CancelledRow(r)) /\ RowStep(r, CancelledRow(r))
        BY <1>1, <2>1, CancelledInv, UpdatesStep
      <3>. QED  BY <3>1, <3>2, <1>2
    <2>. QED  BY <2>2, <2>3
  <1>4. ASSUME NEW w \in Owners, ResupplyCredentials(j, w)
        PROVE  Narrows
    BY <1>1, <1>2, <1>4, ResuppliedInv, UpdatesStep DEF ResupplyCredentials
  <1>5. CASE Resume(j)
    BY <1>1, <1>2, <1>5, ResumedInv, UpdatesStep DEF Resume
  <1>6. CASE UpdatePayload(j)
    BY <1>1, <1>2, <1>6, IdleInv, UpdatesStep DEF UpdatePayload
  <1>. QED  BY <1>3, <1>4, <1>5, <1>6

LEMMA SweepNarrows ==
    ASSUME IndInv, ReclaimExpired \/ ExpirePaused \/ Tick
    PROVE  Narrows
  <1>1. \A j \in Jobs : RowInv(job[j])
    BY DEF IndInv, RowsInv
  <1>2. ASSUME lent' \subseteq lent, silence' \in [Owners -> 0..WorkerTtl + 1],
               job' = [j \in Jobs |-> job'[j]],
               \A j \in Jobs : RowInv(job'[j]) /\ RowStep(job[j], job'[j])
        PROVE  Narrows
    BY <1>2 DEF Narrows, RowInv
  <1>3. CASE ReclaimExpired
    <2>1. ASSUME NEW j \in Jobs
          PROVE  RowInv(job'[j]) /\ RowStep(job[j], job'[j])
      <3>1. CASE Expired(job[j])
        BY <1>1, <1>3, <3>1, ReclaimedInv, UpdatesStep DEF ReclaimExpired, Expired
      <3>2. CASE ~Expired(job[j]) /\ Orphan(job[j])
        <4>1. job[j].status = "queued" /\ job'[j] = Orphaned(job[j])
          BY <1>3, <3>2 DEF ReclaimExpired, Orphan
        <4>. QED  BY <1>1, <4>1, OrphanedInv, UpdatesStep
      <3>3. CASE ~Expired(job[j]) /\ ~Orphan(job[j])
        BY <1>1, <1>3, <3>3, UpdatesStep DEF ReclaimExpired
      <3>. QED  BY <3>1, <3>2, <3>3
    <2>2. job' = [j \in Jobs |-> job'[j]]
      BY <1>3 DEF ReclaimExpired
    <2>. QED  BY <1>2, <1>3, <2>1, <2>2 DEF ReclaimExpired, IndInv
  <1>4. CASE ExpirePaused
    <2>1. ASSUME NEW j \in Jobs
          PROVE  RowInv(job'[j]) /\ RowStep(job[j], job'[j])
      <3>1. CASE OverdueRow(job[j])
        <4>1. job[j].status \in Active /\ job[j].status # "absent"
          BY <3>1 DEF OverdueRow, Active, Paused
        <4>2. job'[j] = CancelledRow(job[j])
          BY <1>4, <3>1 DEF ExpirePaused
        <4>. QED  BY <1>1, <4>1, <4>2, CancelledInv, UpdatesStep
      <3>2. CASE ~OverdueRow(job[j])
        BY <1>1, <1>4, <3>2, UpdatesStep DEF ExpirePaused
      <3>. QED  BY <3>1, <3>2
    <2>2. job' = [j \in Jobs |-> job'[j]]
      BY <1>4 DEF ExpirePaused
    <2>. QED  BY <1>2, <1>4, <2>1, <2>2 DEF ExpirePaused, IndInv
  <1>5. CASE Tick
    <2>1. \A j \in Jobs : RowInv(job'[j]) /\ RowStep(job[j], job'[j])
      BY <1>1, <1>5, ElapsedInv, UpdatesStep DEF Tick
    <2>2. job' = [j \in Jobs |-> job'[j]]
      BY <1>5 DEF Tick
    <2>3. silence' \in [Owners -> 0..WorkerTtl + 1]
      BY <1>5, LimitsAssumption DEF Tick, IndInv
    <2>. QED  BY <1>2, <1>5, <2>1, <2>2, <2>3 DEF Tick
  <1>. QED  BY <1>3, <1>4, <1>5

(* The two actions that widen: a grant to a client, a new active job.       *)

LEMMA LeaseKeepsInv ==
    ASSUME IndInv, NEW w \in Owners, NEW j \in Jobs, NEW t \in Tokens,
           LeaseJob(w, j, t)
    PROVE  IndInv'
  <1>. DEFINE l == [job |-> j, owner |-> w, token |-> t]
              q == Leased(job[j], w, t)
  <1>1. RowInv(job[j]) /\ job \in [Jobs -> Row]
    BY DEF IndInv, RowsInv
  <1>2. /\ job' = [job EXCEPT ![j] = q]
        /\ lent' = lent \cup {l}
        /\ silence' = silence
        /\ job[j].status = "queued"
        /\ ~job[j].requires \/ job[j].holder = w
        /\ \A i \in Jobs : job[i].token # t
        /\ \A k \in lent : k.token # t
    BY DEF LeaseJob, OldestRunnable, Runnable, Fresh, Remembered
  <1>3. RowInv(q)
    BY <1>1, <1>2, LeasedInv
  <1>4. /\ q.token = t /\ q.owner = w /\ q.corpus = job[j].corpus
        /\ job[j].status \in Active
    BY <1>1, <1>2 DEF Leased, Row, Active
  <1>5. q \in Row
    BY <1>3 DEF RowInv
  <1>. HIDE DEF q
  <1>6. RowsInv'
    BY <1>1, <1>2, <1>3, <1>5 DEF IndInv, RowsInv
  <1>7. lent' \subseteq Lease
    BY <1>2 DEF IndInv, Lease
  <1>8. \A i \in Jobs : job'[i].token = IF i = j THEN t ELSE job[i].token
    BY <1>1, <1>2, <1>4
  <1>9. \A i \in Jobs : job'[i].owner = IF i = j THEN w ELSE job[i].owner
    BY <1>1, <1>2, <1>4
  <1>10. TokenNamesOneGrant'
    <2>1. \A i, k \in Jobs : job'[i].token = job'[k].token /\ job'[i].token # None => i = k
      BY <1>2, <1>8 DEF IndInv, TokenNamesOneGrant
    <2>2. \A k \in lent', i \in Jobs :
            job'[i].token = k.token => k.job = i /\ k.owner = job'[i].owner
      BY <1>2, <1>8, <1>9 DEF IndInv, TokenNamesOneGrant
    <2>3. \A k, m \in lent' : k.token = m.token => k = m
      BY <1>2 DEF IndInv, TokenNamesOneGrant
    <2>. QED  BY <2>1, <2>2, <2>3 DEF TokenNamesOneGrant
  <1>11. OneActivePerCorpus'
    <2>1. \A i \in Jobs : job'[i].corpus = job[i].corpus
      BY <1>1, <1>2, <1>4
    <2>2. \A i \in Jobs : job'[i].status \in Active => job[i].status \in Active
      BY <1>1, <1>2, <1>4
    <2>. QED  BY <2>1, <2>2 DEF IndInv, OneActivePerCorpus
  <1>. QED  BY <1>2, <1>6, <1>7, <1>10, <1>11 DEF IndInv

LEMMA EnqueueKeepsInv ==
    ASSUME IndInv, NEW j \in Jobs, NEW c \in Corpora, NEW m \in EnqueueMode,
           Enqueue(j, c, m[1], m[2], m[3])
    PROVE  IndInv'
  <1>. DEFINE q == Inserted(c, m[1], m[2], m[3])
  <1>1. job \in [Jobs -> Row] /\ \A i \in Jobs : RowInv(job[i])
    BY DEF IndInv, RowsInv
  <1>2. /\ job' = [job EXCEPT ![j] = q]
        /\ lent' = lent /\ silence' = silence
        /\ \A i \in Jobs : job[i].corpus = c => job[i].status \notin Active
    BY DEF Enqueue
  <1>3. RowInv(q)
    BY InsertedInv
  <1>4. q.token = None /\ q.corpus = c
    BY DEF Inserted, NoRow
  <1>5. q \in Row
    BY <1>3 DEF RowInv
  <1>. HIDE DEF q
  <1>6. RowsInv'
    BY <1>1, <1>2, <1>3, <1>5 DEF RowsInv
  <1>7. TokenNamesOneGrant'
    <2>1. \A l \in lent : l.token # None
      BY NoneAssumption DEF IndInv, Lease
    <2>2. \A i \in Jobs : job'[i] = job[i] \/ job'[i].token = None
      BY <1>1, <1>2, <1>4
    <2>. QED  BY <1>2, <2>1, <2>2 DEF IndInv, TokenNamesOneGrant
  <1>8. OneActivePerCorpus'
    <2>1. \A i \in Jobs : i # j => job'[i] = job[i]
      BY <1>1, <1>2
    <2>2. job'[j].corpus = c
      BY <1>1, <1>2, <1>4
    <2>. QED  BY <1>2, <2>1, <2>2 DEF IndInv, OneActivePerCorpus
  <1>. QED  BY <1>2, <1>6, <1>7, <1>8 DEF IndInv

-----------------------------------------------------------------------------
LEMMA InitInv == Init => IndInv
  <1>. SUFFICES ASSUME Init PROVE IndInv
    OBVIOUS
  <1>1. \A j \in Jobs : job[j] = NoRow
    BY DEF Init
  <1>2. RowsInv
    <2>1. NoRow \in Row
      BY NoRowInv DEF RowInv
    <2>. QED  BY <1>1, <2>1, NoRowInv DEF Init, RowsInv
  <1>3. silence \in [Owners -> 0..WorkerTtl + 1]
    BY LimitsAssumption DEF Init
  <1>4. TokenNamesOneGrant /\ lent \subseteq Lease
    BY <1>1 DEF Init, TokenNamesOneGrant, NoRow
  <1>5. OneActivePerCorpus
    BY <1>1 DEF OneActivePerCorpus, NoRow, Active, Paused
  <1>. QED  BY <1>2, <1>3, <1>4, <1>5 DEF IndInv

LEMMA StepCases ==
    ASSUME IndInv, [Next]_vars
    PROVE  \/ Narrows
           \/ \E w \in Owners, j \in Jobs, t \in Tokens : LeaseJob(w, j, t)
           \/ \E j \in Jobs, c \in Corpora, m \in EnqueueMode :
                Enqueue(j, c, m[1], m[2], m[3])
  <1>1. CASE Client
    BY <1>1, ClientNarrows
  <1>2. CASE Control
    BY <1>2, ControlNarrows DEF Control
  <1>3. ASSUME NEW w \in Owners, WorkerHeartbeat(w)
        PROVE  Narrows
    <2>1. silence' \in [Owners -> 0..WorkerTtl + 1]
      BY <1>3, Bounds DEF WorkerHeartbeat, IndInv
    <2>. QED  BY <1>3, <2>1, UpdatesStep DEF WorkerHeartbeat, Narrows, IndInv, RowsInv
  <1>4. CASE Worker
    BY <1>3, <1>4 DEF Worker
  <1>5. CASE ReclaimExpired \/ ExpirePaused \/ Tick
    BY <1>5, SweepNarrows
  <1>6. CASE UNCHANGED vars
    BY <1>6, UpdatesStep DEF vars, Narrows, IndInv, RowsInv
  <1>. QED  BY <1>1, <1>2, <1>4, <1>5, <1>6 DEF Next

LEMMA NextInv == IndInv /\ [Next]_vars => IndInv'
  BY StepCases, NarrowsKeepsInv, LeaseKeepsInv, EnqueueKeepsInv

(* The inductive invariant holds in every state. *)
THEOREM Inductive == Spec => []IndInv
  BY InitInv, NextInv, PTL DEF Spec

LEMMA IndInvImplies ==
    IndInv => TypeOK /\ LeaseIntegrity /\ AttemptBudget /\ NoStrandedJob
                     /\ OneActivePerCorpus
  <1>. SUFFICES ASSUME IndInv
                PROVE  TypeOK /\ LeaseIntegrity /\ AttemptBudget /\ NoStrandedJob
                              /\ OneActivePerCorpus
    OBVIOUS
  <1>1. \A j \in Jobs : RowInv(job[j])
    BY DEF IndInv, RowsInv
  <1>2. TypeOK
    BY DEF IndInv, RowsInv, TypeOK
  <1>3. LeaseIntegrity
    BY <1>1 DEF IndInv, LeaseIntegrity, LeaseOnlyWhileRunning, RowInv
  <1>4. AttemptBudget
    BY <1>1 DEF AttemptBudget, RowInv
  <1>5. NoStrandedJob
    BY <1>1 DEF NoStrandedJob, RowInv
  <1>. QED  BY <1>2, <1>3, <1>4, <1>5 DEF IndInv

-----------------------------------------------------------------------------
(* Columns and leases hold values of their types, for any limits: an update *)
(* never leaves a counter or a deadline outside its column's range.         *)
THEOREM TypeCorrect == Spec => []TypeOK
  BY Inductive, IndInvImplies, PTL

(* A row carries a lease exactly while it is running, and a token names one *)
(* grant of one job to one client, whatever late calls the clients make.    *)
THEOREM Leases == Spec => []LeaseIntegrity
  BY Inductive, IndInvImplies, PTL

(* A queued or paused job has an attempt left, for every attempt budget.    *)
THEOREM Attempts == Spec => []AttemptBudget
  BY Inductive, IndInvImplies, PTL

(* A queued job that needs a key names a holder.                            *)
THEOREM NotStranded == Spec => []NoStrandedJob
  BY Inductive, IndInvImplies, PTL

(* At most one job of a (kind, corpus) is active.                           *)
THEOREM OneActive == Spec => []OneActivePerCorpus
  BY Inductive, IndInvImplies, PTL

LEMMA FinishedStep ==
    IndInv /\ [Next]_vars
        => \A j \in Jobs : job[j].status \in Terminal => job'[j] = job[j]
  <1>. SUFFICES ASSUME IndInv, [Next]_vars, NEW j \in Jobs, job[j].status \in Terminal
                PROVE  job'[j] = job[j]
    OBVIOUS
  <1>. job \in [Jobs -> Row]
    BY DEF IndInv, RowsInv
  <1>1. CASE Narrows
    BY <1>1 DEF Narrows, RowStep
  <1>2. ASSUME NEW w \in Owners, NEW i \in Jobs, NEW t \in Tokens, LeaseJob(w, i, t)
        PROVE  job'[j] = job[j]
    BY <1>2 DEF LeaseJob, OldestRunnable, Runnable, Terminal
  <1>3. ASSUME NEW i \in Jobs, NEW c \in Corpora, NEW m \in EnqueueMode,
               Enqueue(i, c, m[1], m[2], m[3])
        PROVE  job'[j] = job[j]
    BY <1>3 DEF Enqueue, Terminal
  <1>. QED  BY <1>1, <1>2, <1>3, StepCases

(* A finished row is never written again.                                   *)
THEOREM Finality == Spec => FinishedIsFinal
  <1>1. IndInv /\ [Next]_vars
          => [\A j \in Jobs : job[j].status \in Terminal => job'[j] = job[j]]_vars
    BY FinishedStep
  <1>. QED  BY <1>1, Inductive, PTL DEF Spec, FinishedIsFinal

LEMMA CancelStep ==
    IndInv /\ [Next]_vars => \A j \in Jobs : job[j].cancel => job'[j].cancel
  <1>. SUFFICES ASSUME IndInv, [Next]_vars, NEW j \in Jobs, job[j].cancel
                PROVE  job'[j].cancel
    OBVIOUS
  <1>. job \in [Jobs -> Row] /\ RowInv(job[j])
    BY DEF IndInv, RowsInv
  <1>1. CASE Narrows
    BY <1>1 DEF Narrows, RowStep
  <1>2. ASSUME NEW w \in Owners, NEW i \in Jobs, NEW t \in Tokens, LeaseJob(w, i, t)
        PROVE  job'[j].cancel
    BY <1>2 DEF LeaseJob, Leased, Row
  <1>3. ASSUME NEW i \in Jobs, NEW c \in Corpora, NEW m \in EnqueueMode,
               Enqueue(i, c, m[1], m[2], m[3])
        PROVE  job'[j].cancel
    BY <1>3 DEF Enqueue, RowInv
  <1>. QED  BY <1>1, <1>2, <1>3, StepCases

(* A cancellation request is never lost.                                    *)
THEOREM Cancellation == Spec => CancelSticks
  <1>1. IndInv /\ [Next]_vars
          => [\A j \in Jobs : job[j].cancel => job'[j].cancel]_vars
    BY CancelStep
  <1>. QED  BY <1>1, Inductive, PTL DEF Spec, CancelSticks

LEMMA FencedStep == IndInv /\ [Next]_vars => LeavesRunningFenced
  <1>. SUFFICES ASSUME IndInv, [Next]_vars, NEW j \in Jobs, job[j].status = "running",
                       job[j].left >= 0, job'[j].token # job[j].token
                PROVE  \E l \in lent \ lent' : l.job = j /\ l.token = job[j].token
    BY DEF LeavesRunningFenced, IndInv, RowsInv, Row
  <1>. job \in [Jobs -> Row]
    BY DEF IndInv, RowsInv
  <1>1. ASSUME NEW l \in lent, NEW q, Settle(l, q)
        PROVE  \E k \in lent \ lent' : k.job = j /\ k.token = job[j].token
    BY <1>1 DEF Settle, Owned, IndInv, Lease
  <1>2. CASE Client
    <2>1. PICK l \in lent : \/ Heartbeat(l)
                            \/ Complete(l)
                            \/ MarkCancelled(l)
                            \/ \E s \in Paused : Pause(l, s)
                            \/ \E retry \in BOOLEAN : Fail(l, retry)
                            \/ Forget(l)
      BY <1>2 DEF Client
    <2>2. ~Heartbeat(l) /\ ~Forget(l)
      BY DEF Heartbeat, Forget, Row
    <2>. QED  BY <1>1, <2>1, <2>2 DEF Complete, MarkCancelled, Pause, Fail
  <1>3. ~Control
    <2>1. ASSUME NEW i \in Jobs, NEW c \in Corpora, NEW m \in EnqueueMode,
                 Enqueue(i, c, m[1], m[2], m[3])
          PROVE  FALSE
      BY <2>1 DEF Enqueue
    <2>2. ASSUME NEW i \in Jobs, RequestCancel(i)
          PROVE  FALSE
      BY <2>2 DEF RequestCancel, Row
    <2>3. ASSUME NEW i \in Jobs, NEW w \in Owners, ResupplyCredentials(i, w)
          PROVE  FALSE
      BY <2>3 DEF ResupplyCredentials
    <2>4. ASSUME NEW i \in Jobs, Resume(i)
          PROVE  FALSE
      BY <2>4 DEF Resume
    <2>5. ASSUME NEW i \in Jobs, UpdatePayload(i)
          PROVE  FALSE
      BY <2>5 DEF UpdatePayload, Paused
    <2>. QED  BY <2>1, <2>2, <2>3, <2>4, <2>5 DEF Control
  <1>4. ~Worker
    BY DEF Worker, LeaseJob, OldestRunnable, Runnable, WorkerHeartbeat
  <1>5. ~ReclaimExpired
    <2>1. ~Expired(job[j]) /\ ~Orphan(job[j])
      BY DEF Expired, Orphan, IndInv, RowsInv, Row
    <2>. QED  BY <2>1 DEF ReclaimExpired
  <1>6. ~ExpirePaused
    BY DEF ExpirePaused, OverdueRow, Paused
  <1>7. ~Tick
    BY ZenonT(40) DEF Tick, Elapsed, Row
  <1>8. ~UNCHANGED vars
    BY DEF vars
  <1>. QED  BY <1>2, <1>3, <1>4, <1>5, <1>6, <1>7, <1>8 DEF Next

(* A client that lost its lease never settles the job: a job leaves a lease *)
(* that has not expired only by the hand of the client it is granted to.    *)
THEOREM Fencing == Spec => Fenced
  <1>1. IndInv /\ [Next]_vars => [LeavesRunningFenced]_vars
    BY FencedStep
  <1>. QED  BY <1>1, Inductive, PTL DEF Spec, Fenced

-----------------------------------------------------------------------------
(***************************************************************************)
(* JobQueue implements JobLedger: the initial rows are the empty ledger,   *)
(* and a step of the queue is an Accept, a Grant, a Succeed, a GiveUp or   *)
(* nothing at all to who reads the ledger.                                 *)
(***************************************************************************)

LEMMA OutcomeFacts ==
    /\ OutcomeOf("absent") = "unknown"
    /\ \A s \in Active : OutcomeOf(s) = "pending"
    /\ \A s \in Terminal : OutcomeOf(s) = s
    /\ \A s \in Status : OutcomeOf(s) = "pending" <=> s \in Active
    /\ \A s \in Status : OutcomeOf(s) \in {"unknown", "pending", "succeeded",
                                           "failed", "cancelled"}
  <1>1. OutcomeOf("absent") = "unknown"
    BY DEF OutcomeOf, Active, Paused, Terminal
  <1>2. \A s \in Active : OutcomeOf(s) = "pending"
    BY DEF OutcomeOf, Active, Paused, Terminal
  <1>3. \A s \in Terminal : OutcomeOf(s) = s
    BY DEF OutcomeOf, Active, Paused, Terminal
  <1>4. \A s \in Status : s \in Active \/ s \in Terminal \/ s = "absent"
    BY DEF Status
  <1>5. "absent" \notin Active /\ \A s \in Terminal : s \notin Active /\ s # "pending"
    BY DEF Active, Paused, Terminal
  <1>. QED  BY <1>1, <1>2, <1>3, <1>4, <1>5 DEF Terminal

LEMMA UpdateStatus ==
    ASSUME NEW r \in Row
    PROVE  /\ \A s : Finished(r, s).status = s
           /\ \A s : PausedRow(r, s).status = s
           /\ \A retry : FailedRow(r, retry).status \in {"queued", "failed"}
           /\ Reclaimed(r).status \in {"failed", "needs_credentials", "queued"}
           /\ Orphaned(r).status = "needs_credentials"
           /\ \A w, t : Leased(r, w, t).status = "running"
           /\ CancelledRow(r).status = "cancelled"
           /\ [r EXCEPT !.cancel = TRUE].status = r.status
           /\ Elapsed(r).status = r.status
           /\ Resumed(r).status \in {"needs_credentials", "queued"}
  <1>1. \A s : Finished(r, s).status = s
    BY DEF Row, Finished, Released
  <1>2. \A s : PausedRow(r, s).status = s
    BY DEF Row, PausedRow, Finished, Released
  <1>3. \A retry : FailedRow(r, retry).status \in {"queued", "failed"}
    BY DEF Row, FailedRow, Released
  <1>4. Reclaimed(r).status \in {"failed", "needs_credentials", "queued"}
    BY DEF Row, Reclaimed, Released
  <1>5. Orphaned(r).status = "needs_credentials" /\ CancelledRow(r).status = "cancelled"
    BY DEF Row, Orphaned, CancelledRow, Released
  <1>6. [r EXCEPT !.cancel = TRUE].status = r.status
    BY DEF Row
  <1>7. Elapsed(r).status = r.status
    BY DEF Row, Elapsed
  <1>8. Resumed(r).status \in {"needs_credentials", "queued"}
    BY DEF Row, Resumed
  <1>9. \A w, t : Leased(r, w, t).status = "running"
    BY DEF Row, Leased
  <1>. QED  BY <1>1, <1>2, <1>3, <1>4, <1>5, <1>6, <1>7, <1>8, <1>9

LEMMA ModeStatus == \A m \in EnqueueMode : m[1] \in {"queued", "needs_credentials"}
  <1>. SUFFICES ASSUME NEW m \in EnqueueMode
                PROVE  m[1] \in {"queued", "needs_credentials"}
    OBVIOUS
  <1>1. ASSUME NEW w \in Owners, m = <<"queued", TRUE, w>>
        PROVE  m[1] = "queued"
    BY <1>1
  <1>2. CASE m = <<"needs_credentials", TRUE, None>>
    BY <1>2
  <1>3. CASE m = <<"queued", FALSE, None>>
    BY <1>3
  <1>. QED  BY <1>1, <1>2, <1>3 DEF EnqueueMode

(* Only complete makes a job succeed.                                       *)
LEMMA SuccessStep ==
    ASSUME IndInv, [Next]_vars, NEW j \in Jobs,
           job[j].status # "succeeded", job'[j].status = "succeeded"
    PROVE  \E l \in lent : Complete(l) /\ l.job = j
  <1>. job \in [Jobs -> Row] /\ job[j] \in Row
    BY DEF IndInv, RowsInv
  <1>1. CASE Client
    <2>1. PICK l \in lent : \/ Heartbeat(l)
                            \/ Complete(l)
                            \/ MarkCancelled(l)
                            \/ \E s \in Paused : Pause(l, s)
                            \/ \E retry \in BOOLEAN : Fail(l, retry)
                            \/ Forget(l)
      BY <1>1 DEF Client
    <2>2. l.job \in Jobs
      BY DEF IndInv, Lease
    <2>3. ~Heartbeat(l) /\ ~Forget(l)
      BY <2>2 DEF Heartbeat, Forget, Row
    <2>4. ~MarkCancelled(l)
      BY <2>2, UpdateStatus DEF MarkCancelled, Settle
    <2>5. ~\E s \in Paused : Pause(l, s)
      BY <2>2, UpdateStatus DEF Pause, Settle, Paused
    <2>6. ~\E retry \in BOOLEAN : Fail(l, retry)
      BY <2>2, UpdateStatus DEF Fail, Settle
    <2>7. Complete(l) => l.job = j
      BY <2>2 DEF Complete, Settle
    <2>. QED  BY <2>1, <2>3, <2>4, <2>5, <2>6, <2>7
  <1>2. ~Control
    <2>1. ASSUME NEW i \in Jobs, NEW c \in Corpora, NEW m \in EnqueueMode,
                 Enqueue(i, c, m[1], m[2], m[3])
          PROVE  FALSE
      BY <2>1, ModeStatus DEF Enqueue, Inserted, NoRow
    <2>2. ASSUME NEW i \in Jobs, RequestCancel(i)
          PROVE  FALSE
      BY <2>2, UpdateStatus DEF RequestCancel
    <2>3. ASSUME NEW i \in Jobs, NEW w \in Owners, ResupplyCredentials(i, w)
          PROVE  FALSE
      BY <2>3 DEF ResupplyCredentials, Resupplied, Row
    <2>4. ASSUME NEW i \in Jobs, Resume(i)
          PROVE  FALSE
      BY <2>4, UpdateStatus DEF Resume
    <2>5. ASSUME NEW i \in Jobs, UpdatePayload(i)
          PROVE  FALSE
      BY <2>5 DEF UpdatePayload, Row
    <2>. QED  BY <2>1, <2>2, <2>3, <2>4, <2>5 DEF Control
  <1>3. ~Worker
    <2>1. ASSUME NEW i \in Jobs, NEW w \in Owners, NEW t \in Tokens, LeaseJob(w, i, t)
          PROVE  FALSE
      BY <2>1, UpdateStatus DEF LeaseJob
    <2>2. ASSUME NEW w \in Owners, WorkerHeartbeat(w)
          PROVE  FALSE
      BY <2>2 DEF WorkerHeartbeat
    <2>. QED  BY <2>1, <2>2 DEF Worker
  <1>4. ~ReclaimExpired
    BY UpdateStatus DEF ReclaimExpired
  <1>5. ~ExpirePaused
    BY UpdateStatus DEF ExpirePaused
  <1>6. ~Tick
    BY UpdateStatus DEF Tick
  <1>7. ~UNCHANGED vars
    BY DEF vars
  <1>. QED  BY <1>1, <1>2, <1>3, <1>4, <1>5, <1>6, <1>7 DEF Next

-----------------------------------------------------------------------------
LEMMA InitMaps == Init => Ledger!Init
  <1>. SUFFICES ASSUME Init PROVE Ledger!Init
    OBVIOUS
  <1>1. \A j \in Jobs : /\ job[j].status = "absent"
                        /\ job[j].token = None
    BY DEF Init, NoRow
  <1>2. Slots = [c \in Corpora |-> {}]
    BY <1>1 DEF Slots, Active, Paused
  <1>3. Outcomes = [j \in Jobs |-> "unknown"]
    BY <1>1, OutcomeFacts DEF Outcomes
  <1>4. Grants = [j \in Jobs |-> None]
    BY <1>1 DEF Grants
  <1>. QED  BY <1>2, <1>3, <1>4 DEF Ledger!Init

LEMMA GiveUpMaps ==
    ASSUME IndInv, Narrows,
           \A j \in Jobs : job'[j].status = "succeeded" => job[j].status = "succeeded"
    PROVE  Ledger!GiveUp
  <1>1. \A j \in Jobs : /\ RowInv(job[j]) /\ RowInv(job'[j])
                        /\ RowStep(job[j], job'[j])
    BY DEF IndInv, RowsInv, Narrows
  <1>2. \A j \in Jobs : job'[j] \in Row /\ job[j] \in Row
    BY <1>1 DEF RowInv
  <1>3. Outcomes' \in [Jobs -> Ledger!Outcome]
    BY <1>2, OutcomeFacts DEF Outcomes, Ledger!Outcome, Row
  <1>4. Grants' \in [Jobs -> Tokens \cup {None}]
    BY <1>2 DEF Grants, Row
  <1>5. ASSUME NEW j \in Jobs
        PROVE  \/ /\ Outcomes'[j] = Outcomes[j]
                  /\ Grants'[j] \in {Grants[j], None}
               \/ /\ Outcomes[j] = "pending"
                  /\ Outcomes'[j] \in {"failed", "cancelled"}
                  /\ Grants'[j] = None
    <2>1. /\ Outcomes[j] = OutcomeOf(job[j].status)
          /\ Outcomes'[j] = OutcomeOf(job'[j].status)
          /\ Grants[j] = job[j].token /\ Grants'[j] = job'[j].token
      BY DEF Outcomes, Grants
    <2>2. Grants'[j] \in {Grants[j], None}
      BY <1>1, <2>1 DEF RowStep
    <2>3. CASE job'[j].status = job[j].status
      BY <2>1, <2>2, <2>3
    <2>4. CASE job[j].status \in Active /\ job'[j].status \in Active
      BY <2>1, <2>2, <2>4, OutcomeFacts
    <2>5. CASE job[j].status \in Active /\ job'[j].status \in Terminal
      <3>1. job[j].status # "succeeded" /\ job'[j].status # "running"
        BY <2>5 DEF Active, Paused, Terminal
      <3>2. job'[j].status \in {"failed", "cancelled"}
        BY <2>5, <3>1 DEF Terminal
      <3>3. job'[j].token = None
        BY <1>1, <3>1 DEF RowInv
      <3>. QED  BY <2>1, <2>5, <3>2, <3>3, OutcomeFacts
    <2>. QED  BY <1>1, <2>3, <2>4, <2>5 DEF RowStep
  <1>6. Slots' = [c \in Corpora |-> {j \in Slots[c] : Outcomes'[j] = "pending"}]
    <2>1. ASSUME NEW c \in Corpora, NEW j \in Jobs
          PROVE  (job'[j].status \in Active /\ job'[j].corpus = c)
                   <=> (/\ job[j].status \in Active /\ job[j].corpus = c
                        /\ Outcomes'[j] = "pending")
      <3>1. Outcomes'[j] = "pending" <=> job'[j].status \in Active
        BY <1>2, OutcomeFacts DEF Outcomes, Row
      <3>. QED  BY <1>1, <3>1 DEF RowStep
    <2>. QED  BY <2>1 DEF Slots
  <1>. QED  BY <1>3, <1>4, <1>5, <1>6 DEF Ledger!GiveUp

LEMMA SucceedMaps ==
    ASSUME IndInv, NEW l \in lent, Complete(l)
    PROVE  Ledger!Succeed(l.job)
  <1>. DEFINE j == l.job
  <1>1. j \in Jobs /\ job \in [Jobs -> Row] /\ \A i \in Jobs : RowInv(job[i])
    BY DEF IndInv, RowsInv, Lease
  <1>2. /\ job' = [job EXCEPT ![j] = Finished(job[j], "succeeded")]
        /\ job[j].status = "running"
    BY DEF Complete, Settle, Owned
  <1>3. /\ Finished(job[j], "succeeded").status = "succeeded"
        /\ Finished(job[j], "succeeded").token = None
        /\ Finished(job[j], "succeeded").corpus = job[j].corpus
    BY <1>1 DEF Finished, Released, Row
  <1>4. /\ job'[j].status = "succeeded" /\ job'[j].token = None
        /\ job'[j].corpus = job[j].corpus
        /\ \A i \in Jobs : i # j => job'[i] = job[i]
    BY <1>1, <1>2, <1>3
  <1>5. Grants[j] # None
    BY <1>1, <1>2 DEF Grants, RowInv
  <1>6. Slots' = [c \in Corpora |-> Slots[c] \ {j}]
    <2>1. job'[j].status \notin Active
      BY <1>4 DEF Active, Paused
    <2>. QED  BY <1>4, <2>1 DEF Slots
  <1>7. Outcomes' = [Outcomes EXCEPT ![j] = "succeeded"]
    <2>1. OutcomeOf("succeeded") = "succeeded"
      BY OutcomeFacts DEF Terminal
    <2>. QED  BY <1>1, <1>4, <2>1 DEF Outcomes
  <1>8. Grants' = [Grants EXCEPT ![j] = None]
    BY <1>1, <1>4 DEF Grants
  <1>. QED  BY <1>5, <1>6, <1>7, <1>8 DEF Ledger!Succeed

LEMMA GrantMaps ==
    ASSUME IndInv, NEW w \in Owners, NEW j \in Jobs, NEW t \in Tokens, LeaseJob(w, j, t)
    PROVE  Ledger!Grant(j, t)
  <1>1. job \in [Jobs -> Row] /\ \A i \in Jobs : RowInv(job[i])
    BY DEF IndInv, RowsInv
  <1>2. /\ job' = [job EXCEPT ![j] = Leased(job[j], w, t)]
        /\ job[j].status = "queued"
        /\ \A i \in Jobs : job[i].token # t
    BY DEF LeaseJob, OldestRunnable, Runnable, Fresh, Remembered
  <1>3. /\ Leased(job[j], w, t).status = "running"
        /\ Leased(job[j], w, t).token = t
        /\ Leased(job[j], w, t).corpus = job[j].corpus
    BY <1>1 DEF Leased, Row
  <1>4. /\ job'[j].status = "running" /\ job'[j].token = t
        /\ job'[j].corpus = job[j].corpus
        /\ \A i \in Jobs : i # j => job'[i] = job[i]
    BY <1>1, <1>2, <1>3
  <1>5. "queued" \in Active /\ "running" \in Active
    BY DEF Active
  <1>6. Outcomes[j] = "pending" /\ Grants[j] = None /\ \A i \in Jobs : Grants[i] # t
    BY <1>1, <1>2, <1>5, OutcomeFacts DEF Outcomes, Grants, RowInv
  <1>7. Grants' = [Grants EXCEPT ![j] = t]
    BY <1>1, <1>4 DEF Grants
  <1>8. Slots' = Slots
    BY <1>2, <1>4, <1>5 DEF Slots
  <1>9. Outcomes' = Outcomes
    BY <1>2, <1>4, <1>5, OutcomeFacts DEF Outcomes
  <1>. QED  BY <1>6, <1>7, <1>8, <1>9 DEF Ledger!Grant

LEMMA AcceptMaps ==
    ASSUME IndInv, NEW j \in Jobs, NEW c \in Corpora, NEW m \in EnqueueMode,
           Enqueue(j, c, m[1], m[2], m[3])
    PROVE  Ledger!Accept(c, j)
  <1>1. job \in [Jobs -> Row] /\ \A i \in Jobs : RowInv(job[i])
    BY DEF IndInv, RowsInv
  <1>2. /\ job' = [job EXCEPT ![j] = Inserted(c, m[1], m[2], m[3])]
        /\ job[j].status = "absent"
        /\ \A i \in Jobs : job[i].corpus = c => job[i].status \notin Active
    BY DEF Enqueue
  <1>3. /\ job'[j].status \in Active /\ job'[j].token = None /\ job'[j].corpus = c
        /\ \A i \in Jobs : i # j => job'[i] = job[i]
    BY <1>1, <1>2, ModeStatus DEF Inserted, NoRow, Active, Paused
  <1>4. job[j].status \notin Active /\ job[j].token = None
    BY <1>1, <1>2 DEF RowInv, Active, Paused
  <1>5. Slots[c] = {}
    BY <1>2 DEF Slots
  <1>6. Slots' = [Slots EXCEPT ![c] = {j}]
    BY <1>2, <1>3, <1>4 DEF Slots
  <1>7. Outcomes[j] = "unknown"
    BY <1>2, OutcomeFacts DEF Outcomes
  <1>8. Outcomes' = [Outcomes EXCEPT ![j] = "pending"]
    BY <1>3, OutcomeFacts DEF Outcomes
  <1>9. Grants' = Grants
    BY <1>3, <1>4 DEF Grants
  <1>. QED  BY <1>5, <1>6, <1>7, <1>8, <1>9 DEF Ledger!Accept

LEMMA NextMaps == IndInv /\ [Next]_vars => [Ledger!Next]_(Ledger!ledger)
  <1>. SUFFICES ASSUME IndInv, [Next]_vars PROVE Ledger!Next
    OBVIOUS
  <1>1. ASSUME NEW w \in Owners, NEW j \in Jobs, NEW t \in Tokens, LeaseJob(w, j, t)
        PROVE  Ledger!Next
    BY <1>1, GrantMaps DEF Ledger!Next
  <1>2. ASSUME NEW j \in Jobs, NEW c \in Corpora, NEW m \in EnqueueMode,
               Enqueue(j, c, m[1], m[2], m[3])
        PROVE  Ledger!Next
    BY <1>2, AcceptMaps DEF Ledger!Next
  <1>3. CASE Narrows
    <2>1. ASSUME NEW l \in lent, Complete(l)
          PROVE  Ledger!Next
      <3>1. l.job \in Jobs
        BY DEF IndInv, Lease
      <3>. QED  BY <2>1, <3>1, SucceedMaps DEF Ledger!Next
    <2>2. CASE \A j \in Jobs : job'[j].status = "succeeded" => job[j].status = "succeeded"
      BY <1>3, <2>2, GiveUpMaps DEF Ledger!Next
    <2>. QED  BY <2>1, <2>2, SuccessStep
  <1>. QED  BY <1>1, <1>2, <1>3, StepCases

(* The queue implements the ledger: an accepted job has at most one grant   *)
(* at a time, only a granted job succeeds, outcomes are final and a corpus  *)
(* works on one job, whatever the leases, clocks, keys and attempts do.     *)
THEOREM Implements == Spec => ImplementsLedger
  BY InitMaps, NextMaps, Inductive, PTL DEF Spec, ImplementsLedger, Ledger!Spec
=============================================================================
