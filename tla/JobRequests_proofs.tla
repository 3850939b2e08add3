-------------------------- MODULE JobRequests_proofs --------------------------
(* Where the keys of the job API may be, for any requests, keys and payloads.  *)
EXTENDS JobRequests, TLAPS

-----------------------------------------------------------------------------
(* Rows, requests and the worker agree on the job they are at.               *)

RowShape(x) == x = [status |-> x.status, payload |-> x.payload, idem |-> x.idem,
                    keyed |-> x.keyed, holder |-> x.holder, cancel |-> x.cancel]

RequestShape(q) ==
    q = [pc |-> q.pc, kind |-> q.kind, payload |-> q.payload, key |-> q.key, idem |-> q.idem,
         job |-> q.job, displaced |-> q.displaced, answer |-> q.answer, seen |-> q.seen,
         epoch |-> q.epoch]

WorkerShape(w) == w = [pc |-> w.pc, job |-> w.job, handle |-> w.handle, verdict |-> w.verdict]

Shapes ==
    /\ row = [j \in Requests |-> row[j]] /\ \A j \in Requests : RowShape(row[j])
    /\ req = [r \in Requests |-> req[r]] /\ \A r \in Requests : RequestShape(req[r])
    /\ store = [j \in Requests |-> store[j]]
    /\ WorkerShape(worker)
    /\ order \in Seq(Requests)

Exists(j) == j \in Requests /\ row[j].status # "none"

Submitting == {"new", "submit", "put", "enqueue", "undo"}
AtAJob == {"swap", "requeue", "restore", "cancelled", "raise cap", "requeue capped"}

RequestInv(r) ==
    /\ ~At(r, "answered") => req[r].answer = "none"
    /\ req[r].pc \in Submitting => row[r].status = "none"
    /\ req[r].pc \in {"resupply", "cancel", "resume"} => order # <<>>
    /\ req[r].pc \in AtAJob => Exists(req[r].job)

Verdicts == {"needs_credentials", "budget_exhausted", "cancelled", "failed"}

WorkerInv ==
    /\ worker.pc \in {"idle", "leased", "running", "settle", "drop"}
    /\ worker.pc # "idle" => worker.job \in Requests
    /\ worker.pc = "settle" => worker.verdict \in Verdicts

-----------------------------------------------------------------------------
(* The key of a job that is over: the handles that crossing re-supplies may    *)
(* put back one after the other are their own or were refused.                 *)

Finished(j) == row[j].status \in Terminal

Swapping(r, j) == req[r].pc \in {"requeue", "restore"} /\ req[r].job = j

Harmless(h, crossing) ==
    h = None \/ h \in crossing \/ (h \in Requests /\ req[h].answer = "refused")

OnlyRefused(j) ==
    \E crossing \in SUBSET Requests :
        /\ Harmless(store[j], crossing)
        /\ \A r \in crossing : Swapping(r, j) /\ Harmless(req[r].displaced, crossing)

\* Who still clears the key of a job that is over.
Clearing(j) ==
    \/ worker.pc = "drop" /\ worker.job = j
    \/ \E r \in Requests : req[r].pc = "cancelled" /\ req[r].job = j

\* A run that was stopped, and may still say so of its row.
Settling(j) == worker.pc = "settle" /\ worker.job = j /\ row[j].status = "running"

KeyInv(j) ==
    /\ row[j].status = "none" =>
          store[j] = None \/ (store[j] = j /\ req[j].pc \in {"enqueue", "undo"})
    /\ Settling(j) => OnlyRefused(j)
    /\ Finished(j) /\ ~Clearing(j) => OnlyRefused(j) \/ j \in elsewhere

StrayInv ==
    /\ Shapes
    /\ \A i \in 1..Len(order) : Exists(order[i])
    /\ \A r \in Requests : RequestInv(r)
    /\ WorkerInv
    /\ \A j \in Requests : KeyInv(j)

LEMMA StrayInit == Init => StrayInv
  <1>. SUFFICES ASSUME Init PROVE StrayInv
    OBVIOUS
  <1>1. Shapes
    <2>1. RowShape(NoRow) /\ RequestShape(NoRequest) /\ WorkerShape(Idle)
      BY DEF NoRow, NoRequest, Idle, RowShape, RequestShape, WorkerShape
    <2>. QED  BY <2>1 DEF Init, Shapes
  <1>2. \A r \in Requests : RequestInv(r)
    BY DEF Init, RequestInv, NoRow, NoRequest, At, AtAJob
  <1>3. WorkerInv
    BY DEF Init, WorkerInv, Idle
  <1>4. \A j \in Requests : KeyInv(j)
    BY DEF Init, KeyInv, NoRow, Idle, Settling, Finished, Terminal
  <1>5. \A i \in 1..Len(order) : Exists(order[i])
    BY DEF Init
  <1>. QED  BY <1>1, <1>2, <1>3, <1>4, <1>5 DEF StrayInv

-----------------------------------------------------------------------------
(* How one request moves.                                                    *)

Moved(r) ==
    /\ req' = [s \in Requests |-> req'[s]]
    /\ RequestShape(req'[r])
    /\ \A s \in Requests : s # r => req'[s] = req[s]

LEMMA GotoMoves ==
    ASSUME Shapes, NEW r \in Requests, NEW pc, Goto(r, pc)
    PROVE  /\ Moved(r) /\ req'[r].pc = pc
           /\ req'[r].job = req[r].job /\ req'[r].displaced = req[r].displaced
           /\ req'[r].answer = req[r].answer
  <1>. DEFINE q == req[r]
              to == [pc |-> pc, kind |-> q.kind, payload |-> q.payload, key |-> q.key,
                     idem |-> q.idem, job |-> q.job, displaced |-> q.displaced,
                     answer |-> q.answer, seen |-> q.seen, epoch |-> q.epoch]
  <1>1. req = [s \in Requests |-> req[s]] /\ RequestShape(q)
    BY DEF Shapes
  <1>2. req' = [req EXCEPT ![r].pc = pc]
    BY DEF Goto
  <1>3. req'[r] = to
    BY <1>1, <1>2 DEF RequestShape
  <1>. QED  BY <1>1, <1>2, <1>3 DEF Moved, RequestShape

LEMMA GotoForMoves ==
    ASSUME Shapes, NEW r \in Requests, NEW pc, NEW j, GotoFor(r, pc, j)
    PROVE  /\ Moved(r) /\ req'[r].pc = pc /\ req'[r].job = j
           /\ req'[r].displaced = req[r].displaced /\ req'[r].answer = req[r].answer
  <1>. DEFINE q == req[r]
              to == [pc |-> pc, kind |-> q.kind, payload |-> q.payload, key |-> q.key,
                     idem |-> q.idem, job |-> j, displaced |-> q.displaced,
                     answer |-> q.answer, seen |-> q.seen, epoch |-> q.epoch]
  <1>1. req = [s \in Requests |-> req[s]] /\ RequestShape(q)
    BY DEF Shapes
  <1>2. req' = [req EXCEPT ![r].pc = pc, ![r].job = j]
    BY DEF GotoFor
  <1>3. req'[r] = to
    BY <1>1, <1>2 DEF RequestShape
  <1>. QED  BY <1>1, <1>2, <1>3 DEF Moved, RequestShape

LEMMA AnsweredShape ==
    ASSUME NEW q, RequestShape(q), NEW a, NEW j
    PROVE  /\ RequestShape(Answered(q, a, j))
           /\ Answered(q, a, j).pc = "answered" /\ Answered(q, a, j).answer = a
  <1>. DEFINE done == [pc |-> "answered", kind |-> q.kind, payload |-> q.payload, key |-> q.key,
                       idem |-> q.idem, job |-> j, displaced |-> q.displaced, answer |-> a,
                       seen |-> q.seen, epoch |-> q.epoch]
              bare == [pc |-> "answered", kind |-> "none", payload |-> None, key |-> None,
                       idem |-> None, job |-> None, displaced |-> None, answer |-> a,
                       seen |-> {}, epoch |-> 0]
  <1>1. Answered(q, a, j) = done \/ Answered(q, a, j) = bare
    BY DEF Answered, RequestShape, NoRequest
  <1>. QED  BY <1>1 DEF RequestShape

LEMMA AnswerMoves ==
    ASSUME Shapes, NEW r \in Requests, NEW a, NEW j, Answer(r, a, j)
    PROVE  Moved(r) /\ req'[r].pc = "answered" /\ req'[r].answer = a
  <1>1. req = [s \in Requests |-> req[s]] /\ RequestShape(req[r])
    BY DEF Shapes
  <1>. DEFINE to == Answered(req[r], a, j)
  <1>2. RequestShape(to) /\ to.pc = "answered" /\ to.answer = a
    BY <1>1, AnsweredShape
  <1>3. req' = [req EXCEPT ![r] = to]
    BY DEF Answer
  <1>. HIDE DEF to
  <1>. QED  BY <1>1, <1>2, <1>3 DEF Moved

-----------------------------------------------------------------------------
(* What a request that moves leaves as it was.                               *)

\* Nobody holds a finished job's key in another way than before.
LEMMA StillRefused ==
    ASSUME NEW j, OnlyRefused(j), store'[j] = store[j],
           \A s \in Requests : Swapping(s, j) =>
              Swapping(s, j)' /\ req'[s].displaced = req[s].displaced,
           \A h \in Requests : req[h].answer = "refused" => req'[h].answer = "refused"
    PROVE  OnlyRefused(j)'
  <1>1. PICK crossing \in SUBSET Requests :
           /\ Harmless(store[j], crossing)
           /\ \A r \in crossing : Swapping(r, j) /\ Harmless(req[r].displaced, crossing)
    BY DEF OnlyRefused
  <1>2. Harmless(store[j], crossing)'
    BY <1>1 DEF Harmless
  <1>3. \A r \in crossing : (Swapping(r, j) /\ Harmless(req[r].displaced, crossing))'
    BY <1>1 DEF Harmless
  <1>. QED  BY <1>2, <1>3 DEF OnlyRefused

LEMMA NoKeyNoWorry ==
    ASSUME NEW j, store'[j] = None
    PROVE  OnlyRefused(j)'
  <1>1. Harmless(store[j], {})'
    BY DEF Harmless
  <1>. QED  BY <1>1 DEF OnlyRefused

LEMMA RefusedStays ==
    ASSUME StrayInv, NEW r \in Requests, Moved(r), ~At(r, "answered")
    PROVE  \A h \in Requests : req[h].answer = "refused" => req'[h].answer = "refused"
  BY DEF StrayInv, RequestInv, Moved

LEMMA OthersKey ==
    ASSUME StrayInv, NEW r \in Requests, Moved(r), ~At(r, "answered"), UNCHANGED worker,
           NEW j \in Requests, store'[j] = store[j], row'[j].status = row[j].status,
           j \in elsewhere => j \in elsewhere',
           Swapping(r, j) => Swapping(r, j)' /\ req'[r].displaced = req[r].displaced,
           Finished(j) => ~(req[r].pc = "cancelled" /\ req[r].job = j),
           j = r /\ req[r].pc \in {"enqueue", "undo"} => req'[r].pc \in {"enqueue", "undo"}
    PROVE  KeyInv(j)'
  <1>1. KeyInv(j)
    BY DEF StrayInv
  <1>2. \A s \in Requests : Swapping(s, j) =>
              Swapping(s, j)' /\ req'[s].displaced = req[s].displaced
    BY DEF Moved, Swapping
  <1>3. OnlyRefused(j) => OnlyRefused(j)'
    BY <1>2, RefusedStays, StillRefused
  <1>4. Settling(j)' => Settling(j)
    BY DEF Settling
  <1>5. Finished(j) /\ Clearing(j) => Clearing(j)'
    BY DEF Clearing, Moved
  <1>6. Finished(j)' => Finished(j)
    BY DEF Finished
  <1>7. row'[j].status = "none" =>
          store'[j] = None \/ (store'[j] = j /\ req'[j].pc \in {"enqueue", "undo"})
    BY <1>1 DEF KeyInv, Moved
  <1>. QED  BY <1>1, <1>3, <1>4, <1>5, <1>6, <1>7 DEF KeyInv

\* A job that is active has its key with good reason.
LEMMA ActiveKey ==
    ASSUME NEW j, row'[j].status \notin Terminal \cup {"none", "running"}
    PROVE  KeyInv(j)'
  BY DEF KeyInv, Finished, Settling

LEMMA RequestKeeps ==
    ASSUME StrayInv, NEW r \in Requests, Moved(r), RequestInv(r)', UNCHANGED worker,
           row' = [j \in Requests |-> row'[j]], \A j \in Requests : RowShape(row'[j]),
           store' = [j \in Requests |-> store'[j]],
           order' \in Seq(Requests), \A i \in 1..Len(order') : Exists(order[i])',
           order # <<>> => order' # <<>>,
           \A j \in Requests : row[j].status # "none" => row'[j].status # "none",
           \A j \in Requests : j # r /\ row[j].status = "none" => row'[j].status = "none",
           \A j \in Requests : KeyInv(j)'
    PROVE  StrayInv'
  <1>1. Shapes'
    BY DEF StrayInv, Shapes, Moved, WorkerShape
  <1>2. ASSUME NEW s \in Requests, s # r PROVE RequestInv(s)'
    <2>1. req'[s] = req[s]
      BY <1>2 DEF Moved
    <2>. QED  BY <1>2, <2>1 DEF StrayInv, RequestInv, At, Exists
  <1>3. WorkerInv'
    BY DEF StrayInv, WorkerInv
  <1>4. \A i \in 1..Len(order') : Exists(order[i])'
    OBVIOUS
  <1>. QED  BY <1>1, <1>2, <1>3, <1>4 DEF StrayInv

\* A request that touches neither a row nor the worker.
LEMMA RowsStay ==
    ASSUME StrayInv, NEW r \in Requests, Moved(r), RequestInv(r)',
           UNCHANGED <<row, order, worker>>,
           store' = [j \in Requests |-> store'[j]],
           \A j \in Requests : KeyInv(j)'
    PROVE  StrayInv'
  <1>1. /\ row' = [j \in Requests |-> row'[j]] /\ \A j \in Requests : RowShape(row'[j])
        /\ order' \in Seq(Requests)
    BY DEF StrayInv, Shapes
  <1>2. \A i \in 1..Len(order') : Exists(order[i])'
    BY DEF StrayInv, Exists
  <1>. QED  BY <1>1, <1>2, RequestKeeps

LEMMA QuietRequest ==
    ASSUME StrayInv, NEW r \in Requests, Moved(r), RequestInv(r)',
           UNCHANGED <<row, order, store, worker, elsewhere>>,
           req[r].pc \notin {"answered", "requeue", "restore", "cancelled", "enqueue", "undo"}
    PROVE  StrayInv'
  <1>1. store' = [j \in Requests |-> store'[j]]
    BY DEF StrayInv, Shapes
  <1>2. ~At(r, "answered") /\ \A j : ~Swapping(r, j)
    BY DEF At, Swapping
  <1>3. ASSUME NEW j \in Requests PROVE KeyInv(j)'
    BY <1>2, OthersKey
  <1>. QED  BY <1>1, <1>3, RowsStay

-----------------------------------------------------------------------------
(* The requests, step by step.                                               *)

LEMMA LatestExists ==
    ASSUME StrayInv, order # <<>>
    PROVE  Latest \in Requests /\ Exists(Latest)
  <1>1. order \in Seq(Requests) /\ Len(order) \in 1..Len(order)
    BY DEF StrayInv, Shapes
  <1>. QED  BY <1>1 DEF StrayInv, Latest, Exists

LEMMA ArriveKeeps ==
    ASSUME StrayInv, NEW r \in Requests, NEW kind \in {"submit", "resupply", "cancel", "resume"},
           NEW p, NEW k, NEW i, Arrive(r, kind, p, k, i)
    PROVE  StrayInv'
  <1>. DEFINE seen == Repeated(i)
              to == [NoRequest EXCEPT !.pc = kind, !.kind = kind, !.payload = p,
                        !.key = k, !.idem = i, !.epoch = epoch, !.seen = seen]
  <1>2. req' = [req EXCEPT ![r] = to]
    BY DEF Arrive
  <1>. DEFINE flat == [pc |-> kind, kind |-> kind, payload |-> p, key |-> k, idem |-> i,
                       job |-> None, displaced |-> None, answer |-> "none", seen |-> seen,
                       epoch |-> epoch]
  <1>. HIDE DEF seen
  <1>7. to = flat
    <2>1. RequestShape(NoRequest)
      BY DEF RequestShape, NoRequest
    <2>2. NoRequest.job = None /\ NoRequest.displaced = None /\ NoRequest.answer = "none"
      BY DEF NoRequest
    <2>3. PICK y : y = to
      OBVIOUS
    <2>4. y = flat
      BY <2>1, <2>2, <2>3 DEF RequestShape
    <2>. QED  BY <2>3, <2>4
  <1>8. RequestShape(flat) /\ flat.pc = kind /\ flat.answer = "none"
    BY DEF RequestShape
  <1>. HIDE DEF flat
  <1>3. RequestShape(to) /\ to.pc = kind /\ to.answer = "none"
    BY <1>7, <1>8
  <1>. HIDE DEF to
  <1>4. Moved(r) /\ req'[r].pc = kind /\ req'[r].answer = "none"
    BY <1>2, <1>3 DEF Moved, StrayInv, Shapes
  <1>5. /\ req[r].pc = "new" /\ UNCHANGED <<row, order, store, worker, elsewhere>>
        /\ kind # "submit" => order # <<>>
    BY DEF Arrive, At, queue, memory, others
  <1>6. RequestInv(r)'
    BY <1>4, <1>5 DEF StrayInv, RequestInv, At, Submitting, AtAJob
  <1>. QED  BY <1>4, <1>5, <1>6, QuietRequest

LEMMA LookUpKeeps ==
    ASSUME StrayInv, NEW r \in Requests, LookUp(r)
    PROVE  StrayInv'
  <1>1. req[r].pc = "submit" /\ UNCHANGED <<row, order, store, worker, elsewhere>> /\ Shapes
    BY DEF LookUp, At, queue, memory, others, StrayInv
  <1>2. CASE Goto(r, "put")
    <2>1. Moved(r) /\ req'[r].pc = "put" /\ req'[r].answer = req[r].answer
      BY <1>1, <1>2, GotoMoves
    <2>2. RequestInv(r)'
      BY <1>1, <2>1 DEF StrayInv, RequestInv, At, Submitting, AtAJob
    <2>. QED  BY <1>1, <2>1, <2>2, QuietRequest
  <1>3. ASSUME NEW a, NEW j, Answer(r, a, j) PROVE StrayInv'
    <2>1. Moved(r) /\ req'[r].pc = "answered"
      BY <1>1, <1>3, AnswerMoves
    <2>2. RequestInv(r)'
      BY <2>1 DEF RequestInv, At, Submitting, AtAJob
    <2>. QED  BY <1>1, <2>1, <2>2, QuietRequest
  <1>. QED  BY <1>2, <1>3 DEF LookUp

LEMMA StoreKeyKeeps ==
    ASSUME StrayInv, NEW r \in Requests, StoreKey(r)
    PROVE  StrayInv'
  <1>1. /\ req[r].pc = "put" /\ UNCHANGED <<row, order, worker, elsewhere>> /\ Shapes
        /\ row[r].status = "none" /\ req[r].answer = "none"
    BY DEF StoreKey, At, queue, others, StrayInv, RequestInv, Submitting
  <1>2. Moved(r) /\ req'[r].pc = "enqueue" /\ req'[r].answer = "none"
    BY <1>1, GotoMoves DEF StoreKey
  <1>3. RequestInv(r)'
    BY <1>1, <1>2 DEF StrayInv, RequestInv, At, Submitting, AtAJob
  <1>4. /\ store' = [j \in Requests |-> store'[j]]
        /\ store'[r] = r \/ store'[r] = store[r]
        /\ \A j \in Requests : j # r => store'[j] = store[j]
    BY <1>1 DEF StoreKey, PutHandle, Shapes
  <1>5. ASSUME NEW j \in Requests, j # r PROVE KeyInv(j)'
    <2>1. ~At(r, "answered") /\ ~Swapping(r, j)
      BY <1>1 DEF At, Swapping
    <2>. QED  BY <1>1, <1>2, <1>4, <1>5, <2>1, OthersKey
  <1>6. KeyInv(r)'
    <2>1. store[r] = None
      BY <1>1 DEF StrayInv, KeyInv
    <2>2. ~Settling(r)' /\ ~Finished(r)'
      BY <1>1 DEF Settling, Finished, Terminal
    <2>. QED  BY <1>2, <1>4, <2>1, <2>2 DEF KeyInv
  <1>. QED  BY <1>1, <1>2, <1>3, <1>4, <1>5, <1>6, RowsStay

\* No row was made: the request goes on to take its key back.
LEMMA RefusedInsert ==
    ASSUME StrayInv, NEW r \in Requests, req[r].pc = "enqueue", Moved(r),
           req'[r].pc = "undo", req'[r].answer = req[r].answer,
           UNCHANGED <<row, order, store, worker, elsewhere>>
    PROVE  StrayInv'
  <1>1. RequestInv(r)'
    BY DEF StrayInv, RequestInv, At, Submitting, AtAJob
  <1>2. store' = [j \in Requests |-> store'[j]]
    BY DEF StrayInv, Shapes
  <1>3. ~At(r, "answered") /\ \A j : ~Swapping(r, j)
    BY DEF At, Swapping
  <1>4. ASSUME NEW j \in Requests PROVE KeyInv(j)'
    BY <1>3, OthersKey
  <1>. QED  BY <1>1, <1>2, <1>4, RowsStay

LEMMA EnqueueKeeps ==
    ASSUME StrayInv, NEW r \in Requests, Enqueue(r)
    PROVE  StrayInv'
  <1>1. /\ req[r].pc = "enqueue" /\ UNCHANGED <<store, worker, elsewhere>> /\ Shapes
        /\ row[r].status = "none" /\ req[r].answer = "none"
    BY DEF Enqueue, At, memory, others, StrayInv, RequestInv, Submitting
  <1>2. ASSUME NEW j, GotoFor(r, "undo", j), UNCHANGED queue PROVE StrayInv'
    BY <1>1, <1>2, GotoForMoves, RefusedInsert DEF queue
  <1>3. CASE Goto(r, "undo") /\ UNCHANGED queue
    BY <1>1, <1>3, GotoMoves, RefusedInsert DEF queue
  <1>4. CASE /\ row' = [row EXCEPT ![r] = Inserted(r)]
             /\ order' = Append(order, r)
             /\ GotoFor(r, "print", r)
    <2>1. Moved(r) /\ req'[r].pc = "print" /\ req'[r].answer = "none"
      BY <1>1, <1>4, GotoForMoves
    <2>2. RowShape(Inserted(r)) /\ Inserted(r).status \in {"needs_credentials", "queued"}
      BY DEF Inserted, RowShape
    <2>. DEFINE new == Inserted(r)
    <2>3. row' = [row EXCEPT ![r] = new]
      BY <1>4
    <2>. HIDE DEF new
    <2>4. /\ row' = [j \in Requests |-> row'[j]] /\ row'[r] = new
          /\ \A j \in Requests : j # r => row'[j] = row[j]
      BY <1>1, <2>3 DEF Shapes
    <2>5. row'[r].status \in {"needs_credentials", "queued"}
          /\ \A j \in Requests : RowShape(row'[j])
      BY <1>1, <2>2, <2>4 DEF Shapes, new
    <2>6. RequestInv(r)'
      BY <2>1 DEF RequestInv, At, Submitting, AtAJob
    <2>7. order \in Seq(Requests) /\ order' \in Seq(Requests) /\ order' # <<>>
      BY <1>1, <1>4 DEF Shapes
    <2>8. \A i \in 1..Len(order') : Exists(order[i])'
      BY <1>4, <2>4, <2>5, <2>7 DEF StrayInv, Exists
    <2>9. ASSUME NEW j \in Requests, j # r PROVE KeyInv(j)'
      <3>1. ~At(r, "answered") /\ ~Swapping(r, j)
        BY <1>1 DEF At, Swapping
      <3>. QED  BY <1>1, <2>1, <2>4, <2>9, <3>1, OthersKey
    <2>10. KeyInv(r)'
      <3>1. row'[r].status \notin Terminal \cup {"none", "running"}
        BY <2>5 DEF Terminal
      <3>. QED  BY <3>1, ActiveKey
    <2>11. store' = [j \in Requests |-> store'[j]]
      BY <1>1 DEF Shapes
    <2>. QED  BY <1>1, <2>1, <2>4, <2>5, <2>6, <2>7, <2>8, <2>9, <2>10, <2>11, RequestKeeps
  <1>. QED  BY <1>2, <1>3, <1>4 DEF Enqueue

LEMMA UndoKeeps ==
    ASSUME StrayInv, NEW r \in Requests, Undo(r)
    PROVE  StrayInv'
  <1>1. /\ req[r].pc = "undo" /\ UNCHANGED <<row, order, worker, elsewhere>> /\ Shapes
        /\ row[r].status = "none"
    BY DEF Undo, At, queue, others, StrayInv, RequestInv, Submitting
  <1>2. Moved(r) /\ req'[r].pc = "answered"
    BY <1>1, AnswerMoves DEF Undo
  <1>3. RequestInv(r)'
    BY <1>2 DEF RequestInv, At, Submitting, AtAJob
  <1>4. /\ store' = [j \in Requests |-> store'[j]]
        /\ store'[r] = IF store[r] = r THEN None ELSE store[r]
        /\ \A j \in Requests : j # r => store'[j] = store[j]
    BY <1>1 DEF Undo, DiscardIf, Shapes
  <1>5. ASSUME NEW j \in Requests, j # r PROVE KeyInv(j)'
    <2>1. ~At(r, "answered") /\ ~Swapping(r, j)
      BY <1>1 DEF At, Swapping
    <2>. QED  BY <1>1, <1>2, <1>4, <1>5, <2>1, OthersKey
  <1>6. KeyInv(r)'
    <2>1. store'[r] = None
      BY <1>1, <1>4 DEF StrayInv, KeyInv
    <2>. QED  BY <2>1, NoKeyNoWorry DEF KeyInv
  <1>. QED  BY <1>1, <1>2, <1>3, <1>4, <1>5, <1>6, RowsStay

LEMMA StorePrintKeeps ==
    ASSUME StrayInv, NEW r \in Requests, StorePrint(r)
    PROVE  StrayInv'
  <1>1. req[r].pc = "print" /\ UNCHANGED <<row, order, store, worker, elsewhere>> /\ Shapes
    BY DEF StorePrint, At, queue, others, StrayInv
  <1>2. Moved(r) /\ req'[r].pc = "answered"
    BY <1>1, AnswerMoves DEF StorePrint
  <1>3. RequestInv(r)'
    BY <1>2 DEF RequestInv, At, Submitting, AtAJob
  <1>. QED  BY <1>1, <1>2, <1>3, QuietRequest

\* resupply_latest and resume_latest look at the latest job.
LEMMA LatestKeeps ==
    ASSUME StrayInv, NEW r \in Requests, ResupplyLatest(r) \/ ResumeLatest(r)
    PROVE  StrayInv'
  <1>1. /\ req[r].pc \in {"resupply", "resume"} /\ UNCHANGED <<row, order, store, worker, elsewhere>>
        /\ Shapes
    BY DEF ResupplyLatest, ResumeLatest, At, queue, memory, others, StrayInv
  <1>2. req[r].answer = "none" /\ Exists(Latest)
    BY <1>1, LatestExists DEF StrayInv, RequestInv, At
  <1>3. \/ \E pc \in {"swap", "requeue capped", "raise cap"} : GotoFor(r, pc, Latest)
        \/ Answer(r, "refused", Latest)
    BY DEF ResupplyLatest, ResumeLatest
  <1>. DEFINE latest == Latest
  <1>. HIDE DEF latest
  <1>4. ASSUME NEW pc \in {"swap", "requeue capped", "raise cap"}, GotoFor(r, pc, latest),
               Exists(latest)
        PROVE  StrayInv'
    <2>1. Moved(r) /\ req'[r].pc = pc /\ req'[r].job = latest /\ req'[r].answer = "none"
      BY <1>1, <1>2, <1>4, GotoForMoves
    <2>2. RequestInv(r)'
      BY <1>1, <1>4, <2>1 DEF RequestInv, At, Submitting, AtAJob, Exists
    <2>. QED  BY <1>1, <2>1, <2>2, QuietRequest
  <1>5. ASSUME Answer(r, "refused", latest) PROVE StrayInv'
    <2>1. Moved(r) /\ req'[r].pc = "answered"
      BY <1>1, <1>5, AnswerMoves
    <2>2. RequestInv(r)'
      BY <2>1 DEF RequestInv, At, Submitting, AtAJob
    <2>. QED  BY <1>1, <2>1, <2>2, QuietRequest
  <1>. QED  BY <1>2, <1>3, <1>4, <1>5 DEF latest

\* A re-supply that crosses another one displaces its handle, to be put back if refused.
LEMMA SwappedIn ==
    ASSUME NEW r \in Requests, NEW j, OnlyRefused(j), Moved(r), req[r].answer = "none",
           ~Swapping(r, j), Swapping(r, j)', store'[j] = r, req'[r].displaced = store[j]
    PROVE  OnlyRefused(j)'
  <1>1. PICK before \in SUBSET Requests :
            /\ Harmless(store[j], before)
            /\ \A s \in before : Swapping(s, j) /\ Harmless(req[s].displaced, before)
    BY DEF OnlyRefused
  <1>. DEFINE after == before \cup {r}
  <1>2. r \notin before /\ \A s \in before : req'[s] = req[s]
    BY <1>1 DEF Moved
  <1>3. \A h : Harmless(h, before) => Harmless(h, after)'
    BY DEF Harmless, Moved
  <1>4. Harmless(store[j], after)'
    BY DEF Harmless
  <1>5. \A s \in after : (Swapping(s, j) /\ Harmless(req[s].displaced, after))'
    BY <1>1, <1>2, <1>3 DEF Swapping
  <1>6. after \in SUBSET Requests
    OBVIOUS
  <1>. QED  BY <1>4, <1>5, <1>6 DEF OnlyRefused

LEMMA SwapKeeps ==
    ASSUME StrayInv, NEW r \in Requests, Swap(r)
    PROVE  StrayInv'
  <1>. PICK job : job = req[r].job
    OBVIOUS
  <1>. DEFINE q == req[r]
              to == [pc |-> "requeue", kind |-> q.kind, payload |-> q.payload, key |-> q.key,
                     idem |-> q.idem, job |-> job, displaced |-> store[job],
                     answer |-> q.answer, seen |-> q.seen, epoch |-> q.epoch]
  <1>1. /\ req[r].pc = "swap" /\ UNCHANGED <<row, order, worker, elsewhere>> /\ Shapes
        /\ req[r].answer = "none" /\ Exists(job) /\ ~At(r, "answered")
    BY DEF Swap, At, queue, others, StrayInv, RequestInv, AtAJob
  <1>2. req' = [req EXCEPT ![r].pc = "requeue", ![r].displaced = store[job]]
        /\ store' = [store EXCEPT ![job] = r]
    BY DEF Swap, PutHandle
  <1>3. req = [s \in Requests |-> req[s]] /\ RequestShape(req[r])
        /\ store = [j \in Requests |-> store[j]]
    BY <1>1 DEF Shapes
  <1>4. req'[r] = to
    BY <1>2, <1>3 DEF RequestShape
  <1>5. Moved(r)
    BY <1>2, <1>3, <1>4 DEF Moved, RequestShape
  <1>6. /\ store' = [j \in Requests |-> store'[j]] /\ store'[job] = r
        /\ \A j \in Requests : j # job => store'[j] = store[j]
    BY <1>1, <1>2, <1>3 DEF Exists
  <1>7. RequestInv(r)'
    BY <1>1, <1>4 DEF RequestInv, At, Submitting, AtAJob, Exists
  <1>8. ASSUME NEW j \in Requests, j # job PROVE KeyInv(j)'
    <2>1. ~Swapping(r, j)
      BY <1>1 DEF Swapping
    <2>. QED  BY <1>1, <1>5, <1>6, <1>8, <2>1, OthersKey
  <1>9. KeyInv(job)'
    <2>1. ~Swapping(r, job) /\ Swapping(r, job)' /\ req'[r].displaced = store[job]
      BY <1>1, <1>4 DEF Swapping
    <2>2. OnlyRefused(job) => OnlyRefused(job)'
      BY <1>1, <1>5, <1>6, <2>1, SwappedIn
    <2>3. Finished(job)' => Finished(job)
      BY <1>1 DEF Finished
    <2>4. Settling(job)' => Settling(job)
      BY <1>1 DEF Settling
    <2>5. Clearing(job) => Clearing(job)'
      BY <1>1, <1>5 DEF Clearing, Moved
    <2>6. row'[job].status # "none" /\ KeyInv(job)
      BY <1>1 DEF Exists, StrayInv
    <2>. QED  BY <1>1, <2>2, <2>3, <2>4, <2>5, <2>6 DEF KeyInv
  <1>10. \A j \in Requests : KeyInv(j)'
    BY <1>8, <1>9
  <1>. QED  BY <1>1, <1>5, <1>6, <1>7, <1>10, RowsStay

LEMMA RequeueKeeps ==
    ASSUME StrayInv, NEW r \in Requests, Requeue(r)
    PROVE  StrayInv'
  <1>. PICK job : job = req[r].job
    OBVIOUS
  <1>1. /\ req[r].pc = "requeue" /\ UNCHANGED <<order, store, worker, elsewhere>> /\ Shapes
        /\ req[r].answer = "none" /\ Exists(job) /\ ~At(r, "answered")
        /\ store = [j \in Requests |-> store[j]]
    BY DEF Requeue, At, memory, others, StrayInv, RequestInv, AtAJob, Shapes
  <1>2. CASE row[job].status # "needs_credentials"
    <2>1. Goto(r, "restore") /\ UNCHANGED row
      BY <1>2 DEF Requeue
    <2>2. /\ Moved(r) /\ req'[r].pc = "restore" /\ req'[r].job = job
          /\ req'[r].displaced = req[r].displaced /\ req'[r].answer = "none"
      BY <1>1, <2>1, GotoMoves
    <2>3. RequestInv(r)'
      BY <1>1, <2>1, <2>2 DEF RequestInv, At, Submitting, AtAJob, Exists
    <2>4. ASSUME NEW j \in Requests PROVE KeyInv(j)'
      <3>1. Swapping(r, j) => Swapping(r, j)'
        BY <2>2 DEF Swapping
      <3>. QED  BY <1>1, <2>1, <2>2, <3>1, OthersKey
    <2>. QED  BY <1>1, <2>1, <2>2, <2>3, <2>4, RowsStay
  <1>3. CASE row[job].status = "needs_credentials"
    <2>1. /\ row' = [row EXCEPT ![job].status = "queued", ![job].holder = epoch]
          /\ Answer(r, "accepted", job)
      BY <1>3 DEF Requeue
    <2>2. Moved(r) /\ req'[r].pc = "answered"
      BY <1>1, <2>1, AnswerMoves
    <2>3. RequestInv(r)'
      BY <2>2 DEF RequestInv, At, Submitting, AtAJob
    <2>. DEFINE x == row[job]
                to == [status |-> "queued", payload |-> x.payload, idem |-> x.idem,
                       keyed |-> x.keyed, holder |-> epoch, cancel |-> x.cancel]
    <2>4. row = [j \in Requests |-> row[j]] /\ RowShape(x)
      BY <1>1 DEF Shapes, Exists
    <2>5. row'[job] = to
      BY <1>1, <2>1, <2>4 DEF RowShape, Exists
    <2>6. row'[job].status = "queued" /\ RowShape(row'[job])
      BY <2>5 DEF RowShape
    <2>7. /\ row' = [j \in Requests |-> row'[j]]
          /\ \A j \in Requests : j # job => row'[j] = row[j]
      BY <2>1, <2>4
    <2>8. \A j \in Requests : RowShape(row'[j])
      BY <1>1, <2>6, <2>7 DEF Shapes
    <2>9. ASSUME NEW j \in Requests, j # job PROVE KeyInv(j)'
      <3>1. ~Swapping(r, j)
        BY <2>9 DEF Swapping
      <3>. QED  BY <1>1, <2>2, <2>7, <2>9, <3>1, OthersKey
    <2>10. KeyInv(job)'
      BY <2>6, ActiveKey DEF Terminal
    <2>11. \A i \in 1..Len(order') : Exists(order[i])'
      BY <1>1, <2>6, <2>7 DEF StrayInv, Exists
    <2>12. \A j \in Requests : KeyInv(j)'
      BY <2>9, <2>10
    <2>13. /\ \A j \in Requests : row[j].status # "none" => row'[j].status # "none"
           /\ \A j \in Requests : j # r /\ row[j].status = "none" => row'[j].status = "none"
      BY <1>3, <2>6, <2>7
    <2>14. order' \in Seq(Requests) /\ (order # <<>> => order' # <<>>)
      BY <1>1 DEF Shapes
    <2>15. store' = [j \in Requests |-> store'[j]]
      BY <1>1
    <2>. QED  BY <1>1, <2>2, <2>3, <2>7, <2>8, <2>11, <2>12, <2>13, <2>14, <2>15, RequestKeeps
  <1>. QED  BY <1>2, <1>3

\* A refused re-supply puts back what it displaced, unless another one came in between.
LEMMA PutBack ==
    ASSUME NEW r \in Requests, NEW j, OnlyRefused(j), Moved(r), Swapping(r, j),
           req[r].answer = "none", req'[r].answer = "refused",
           store'[j] = IF store[j] = r THEN req[r].displaced ELSE store[j]
    PROVE  OnlyRefused(j)'
  <1>1. PICK before \in SUBSET Requests :
            /\ Harmless(store[j], before)
            /\ \A s \in before : Swapping(s, j) /\ Harmless(req[s].displaced, before)
    BY DEF OnlyRefused
  <1>. DEFINE after == before \ {r}
  <1>2. \A s \in after : req'[s] = req[s]
    BY <1>1 DEF Moved
  <1>3. \A h : Harmless(h, before) => Harmless(h, after)'
    BY DEF Harmless, Moved
  <1>4. Harmless(store[j], after)'
    <2>1. CASE store[j] # r
      BY <1>1, <1>3, <2>1
    <2>2. CASE store[j] = r /\ r \in before
      BY <1>1, <1>3, <2>2
    <2>3. CASE store[j] = r /\ r \notin before
      <3>1. r = None
        BY <1>1, <2>3 DEF Harmless
      <3>. QED  BY <3>1, RequestAssumption
    <2>. QED  BY <2>1, <2>2, <2>3
  <1>5. \A s \in after : (Swapping(s, j) /\ Harmless(req[s].displaced, after))'
    BY <1>1, <1>2, <1>3 DEF Swapping
  <1>6. after \in SUBSET Requests
    BY <1>1
  <1>. QED  BY <1>4, <1>5, <1>6 DEF OnlyRefused

LEMMA RestoreKeeps ==
    ASSUME StrayInv, NEW r \in Requests, Restore(r)
    PROVE  StrayInv'
  <1>. PICK job : job = req[r].job
    OBVIOUS
  <1>1. /\ req[r].pc = "restore" /\ UNCHANGED <<row, order, worker, elsewhere>> /\ Shapes
        /\ req[r].answer = "none" /\ Exists(job) /\ ~At(r, "answered")
        /\ store = [j \in Requests |-> store[j]]
    BY DEF Restore, At, queue, others, StrayInv, RequestInv, AtAJob, Shapes
  <1>2. Moved(r) /\ req'[r].pc = "answered" /\ req'[r].answer = "refused"
    BY <1>1, AnswerMoves DEF Restore
  <1>3. RequestInv(r)'
    BY <1>2 DEF RequestInv, At, Submitting, AtAJob
  <1>4. /\ store' = [j \in Requests |-> store'[j]]
        /\ store'[job] = IF store[job] = r THEN req[r].displaced ELSE store[job]
        /\ \A j \in Requests : j # job => store'[j] = store[j]
    BY <1>1 DEF Restore, RestoreIf, Exists
  <1>5. ASSUME NEW j \in Requests, j # job PROVE KeyInv(j)'
    <2>1. ~Swapping(r, j)
      BY <1>5 DEF Swapping
    <2>. QED  BY <1>1, <1>2, <1>4, <1>5, <2>1, OthersKey
  <1>6. KeyInv(job)'
    <2>1. Swapping(r, job)
      BY <1>1 DEF Swapping
    <2>2. OnlyRefused(job) => OnlyRefused(job)'
      BY <1>1, <1>2, <1>4, <2>1, PutBack
    <2>3. Finished(job)' => Finished(job)
      BY <1>1 DEF Finished
    <2>4. Settling(job)' => Settling(job)
      BY <1>1 DEF Settling
    <2>5. Clearing(job) => Clearing(job)'
      BY <1>1, <1>2 DEF Clearing, Moved
    <2>6. row'[job].status # "none" /\ KeyInv(job)
      BY <1>1 DEF Exists, StrayInv
    <2>. QED  BY <1>1, <2>2, <2>3, <2>4, <2>5, <2>6 DEF KeyInv
  <1>7. \A j \in Requests : KeyInv(j)'
    BY <1>5, <1>6
  <1>. QED  BY <1>1, <1>2, <1>3, <1>4, <1>7, RowsStay

-----------------------------------------------------------------------------
(* One row changes, and no key with it.                                      *)

LEMMA OneRow ==
    ASSUME StrayInv, NEW r \in Requests, Moved(r), RequestInv(r)', ~At(r, "answered"),
           UNCHANGED <<order, store, worker, elsewhere>>,
           NEW job, Exists(job), req[r].pc \in {"cancel", "raise cap", "requeue capped"},
           row' = [j \in Requests |-> row'[j]], RowShape(row'[job]),
           \A j \in Requests : j # job => row'[j] = row[j],
           row'[job].status # "none",
           KeyInv(job)'
    PROVE  StrayInv'
  <1>1. \A j \in Requests : RowShape(row'[j])
    BY DEF StrayInv, Shapes
  <1>2. ASSUME NEW j \in Requests, j # job PROVE KeyInv(j)'
    <2>1. ~Swapping(r, j)
      BY DEF Swapping
    <2>. QED  BY <1>2, <2>1, OthersKey
  <1>3. \A i \in 1..Len(order') : Exists(order[i])'
    BY DEF StrayInv, Exists
  <1>4. \A j \in Requests : KeyInv(j)'
    BY <1>2
  <1>5. /\ \A j \in Requests : row[j].status # "none" => row'[j].status # "none"
        /\ \A j \in Requests : j # r /\ row[j].status = "none" => row'[j].status = "none"
    BY DEF Exists
  <1>6. order' \in Seq(Requests) /\ (order # <<>> => order' # <<>>)
    BY DEF StrayInv, Shapes
  <1>7. store' = [j \in Requests |-> store'[j]]
    BY DEF StrayInv, Shapes
  <1>. QED  BY <1>1, <1>3, <1>4, <1>5, <1>6, <1>7, RequestKeeps

LEMMA RowCancelled ==
    ASSUME Shapes, NEW job \in Requests, row' = [row EXCEPT ![job] = Cancelled(@)]
    PROVE  /\ row' = [j \in Requests |-> row'[j]] /\ \A j \in Requests : RowShape(row'[j])
           /\ \A j \in Requests : j # job => row'[j] = row[j]
           /\ \/ row[job].status \in Terminal \cup {"running"} /\ row'[job].status = row[job].status
              \/ row[job].status \notin Terminal \cup {"running"} /\ row'[job].status = "cancelled"
  <1>. DEFINE x == row[job]
              marked == [status |-> x.status, payload |-> x.payload, idem |-> x.idem,
                         keyed |-> x.keyed, holder |-> x.holder, cancel |-> TRUE]
              ended == [status |-> "cancelled", payload |-> x.payload, idem |-> x.idem,
                        keyed |-> x.keyed, holder |-> None, cancel |-> TRUE]
  <1>1. RowShape(x) /\ row = [j \in Requests |-> row[j]]
    BY DEF Shapes
  <1>2. [x EXCEPT !.cancel = TRUE] = marked
    <2>1. PICK y : y = [x EXCEPT !.cancel = TRUE]
      OBVIOUS
    <2>2. y = marked
      BY <1>1, <2>1 DEF RowShape
    <2>. QED  BY <2>1, <2>2
  <1>3. [x EXCEPT !.status = "cancelled", !.cancel = TRUE, !.holder = None] = ended
    <2>1. PICK y : y = [x EXCEPT !.status = "cancelled", !.cancel = TRUE, !.holder = None]
      OBVIOUS
    <2>2. y = ended
      BY <1>1, <2>1 DEF RowShape
    <2>. QED  BY <2>1, <2>2
  <1>. DEFINE new == Cancelled(x)
  <1>4. row' = [row EXCEPT ![job] = new]
    OBVIOUS
  <1>. HIDE DEF new
  <1>5. /\ row' = [j \in Requests |-> row'[j]] /\ row'[job] = new
        /\ \A j \in Requests : j # job => row'[j] = row[j]
    BY <1>1, <1>4
  <1>6. \/ x.status \in Terminal /\ row'[job] = x
        \/ x.status = "running" /\ row'[job] = marked
        \/ x.status \notin Terminal \cup {"running"} /\ row'[job] = ended
    BY <1>2, <1>3, <1>5 DEF new, Cancelled, Terminal
  <1>7. RowShape(row'[job])
    BY <1>1, <1>6 DEF RowShape
  <1>8. \A j \in Requests : RowShape(row'[j])
    BY <1>5, <1>7 DEF Shapes
  <1>. QED  BY <1>5, <1>6, <1>8

LEMMA CancelKeeps ==
    ASSUME StrayInv, NEW r \in Requests, CancelLatest(r)
    PROVE  StrayInv'
  <1>. PICK job : job = Latest
    OBVIOUS
  <1>1. /\ req[r].pc = "cancel" /\ UNCHANGED <<order, store, worker, elsewhere>> /\ Shapes
        /\ req[r].answer = "none" /\ ~At(r, "answered") /\ order # <<>>
    BY DEF CancelLatest, At, memory, others, StrayInv, RequestInv
  <1>2. Exists(job)
    BY <1>1, LatestExists
  <1>3. Moved(r) /\ req'[r].pc = "cancelled" /\ req'[r].job = job /\ req'[r].answer = "none"
    BY <1>1, GotoForMoves DEF CancelLatest
  <1>4. job \in Requests /\ row' = [row EXCEPT ![job] = Cancelled(@)]
    BY <1>2 DEF CancelLatest, Exists
  <1>5. /\ row' = [j \in Requests |-> row'[j]] /\ RowShape(row'[job])
        /\ \A j \in Requests : j # job => row'[j] = row[j]
        /\ row'[job].status # "none"
        /\ row'[job].status = "running" => row[job].status = "running"
    BY <1>1, <1>2, <1>4, RowCancelled DEF Exists
  <1>6. RequestInv(r)'
    BY <1>2, <1>3, <1>5 DEF RequestInv, At, Submitting, AtAJob, Exists
  <1>7. KeyInv(job)'
    <2>1. Clearing(job)'
      BY <1>3 DEF Clearing
    <2>2. ASSUME Settling(job)' PROVE OnlyRefused(job)'
      <3>1. Settling(job)
        BY <1>1, <1>5, <2>2 DEF Settling
      <3>2. OnlyRefused(job)
        BY <1>2, <3>1 DEF StrayInv, KeyInv, Exists
      <3>3. \A s \in Requests : Swapping(s, job) =>
              Swapping(s, job)' /\ req'[s].displaced = req[s].displaced
        BY <1>1, <1>3 DEF Swapping, Moved
      <3>. QED  BY <1>1, <1>3, <3>2, <3>3, RefusedStays, StillRefused
    <2>. QED  BY <1>5, <2>1, <2>2 DEF KeyInv
  <1>. QED  BY <1>1, <1>2, <1>3, <1>5, <1>6, <1>7, OneRow

LEMMA DiscardKeeps ==
    ASSUME StrayInv, NEW r \in Requests, DiscardCancelled(r)
    PROVE  StrayInv'
  <1>. PICK job : job = req[r].job
    OBVIOUS
  <1>1. /\ req[r].pc = "cancelled" /\ UNCHANGED <<row, order, worker>> /\ Shapes
        /\ req[r].answer = "none" /\ Exists(job) /\ ~At(r, "answered")
        /\ store = [j \in Requests |-> store[j]]
    BY DEF DiscardCancelled, At, queue, working, StrayInv, RequestInv, AtAJob, Shapes
  <1>2. Moved(r) /\ req'[r].pc = "answered"
    BY <1>1, AnswerMoves DEF DiscardCancelled
  <1>3. RequestInv(r)'
    BY <1>2 DEF RequestInv, At, Submitting, AtAJob
  <1>4. /\ store' = [j \in Requests |-> store'[j]]
        /\ Finished(job) => store'[job] = None
        /\ ~Finished(job) => store'[job] = store[job]
        /\ \A j \in Requests : j # job => store'[j] = store[j]
        /\ \A j : j # job \/ ~Finished(job) => (j \in elsewhere => j \in elsewhere')
    BY <1>1 DEF DiscardCancelled, Discard, PutHandle, Exists, Finished
  <1>5. \A j : ~Swapping(r, j)
    BY <1>1 DEF Swapping
  <1>6. ASSUME NEW j \in Requests, j # job \/ ~Finished(job) PROVE KeyInv(j)'
    <2>1. store'[j] = store[j] /\ (j \in elsewhere => j \in elsewhere')
      BY <1>4, <1>6
    <2>. QED  BY <1>1, <1>2, <1>5, <1>6, <2>1, OthersKey
  <1>7. CASE Finished(job)
    <2>1. OnlyRefused(job)'
      BY <1>4, <1>7, NoKeyNoWorry
    <2>2. KeyInv(job)'
      BY <1>1, <2>1 DEF KeyInv, Exists
    <2>3. \A j \in Requests : KeyInv(j)'
      BY <1>6, <2>2
    <2>. QED  BY <1>1, <1>2, <1>3, <1>4, <2>3, RowsStay
  <1>8. CASE ~Finished(job)
    <2>1. \A j \in Requests : KeyInv(j)'
      BY <1>6, <1>8
    <2>. QED  BY <1>1, <1>2, <1>3, <1>4, <2>1, RowsStay
  <1>. QED  BY <1>7, <1>8

LEMMA UpdateKeeps ==
    ASSUME StrayInv, NEW r \in Requests, UpdatePayload(r)
    PROVE  StrayInv'
  <1>. PICK job : job = req[r].job
    OBVIOUS
  <1>1. /\ req[r].pc = "raise cap" /\ UNCHANGED <<order, store, worker, elsewhere>> /\ Shapes
        /\ req[r].answer = "none" /\ Exists(job) /\ ~At(r, "answered")
    BY DEF UpdatePayload, At, memory, others, StrayInv, RequestInv, AtAJob
  <1>2. CASE Answer(r, "refused", job) /\ UNCHANGED row
    <2>1. Moved(r) /\ req'[r].pc = "answered"
      BY <1>1, <1>2, AnswerMoves
    <2>2. RequestInv(r)'
      BY <2>1 DEF RequestInv, At, Submitting, AtAJob
    <2>. QED  BY <1>1, <1>2, <2>1, <2>2, QuietRequest
  <1>3. CASE /\ row[job].status \notin Terminal \cup {"running"}
             /\ row' = [row EXCEPT ![job].payload = req[r].payload]
             /\ Goto(r, "requeue capped")
    <2>1. /\ Moved(r) /\ req'[r].pc = "requeue capped" /\ req'[r].job = job
          /\ req'[r].answer = "none"
      BY <1>1, <1>3, GotoMoves
    <2>. DEFINE x == row[job]
                to == [status |-> x.status, payload |-> req[r].payload, idem |-> x.idem,
                       keyed |-> x.keyed, holder |-> x.holder, cancel |-> x.cancel]
    <2>2. row = [j \in Requests |-> row[j]] /\ RowShape(row[job])
      BY <1>1 DEF Shapes, Exists
    <2>3. row'[job] = to
      BY <1>1, <1>3, <2>2 DEF RowShape, Exists
    <2>4. RowShape(row'[job]) /\ row'[job].status = row[job].status
      BY <2>3 DEF RowShape
    <2>5. /\ row' = [j \in Requests |-> row'[j]]
          /\ \A j \in Requests : j # job => row'[j] = row[j]
      BY <1>3, <2>2
    <2>6. RequestInv(r)'
      BY <1>1, <2>1, <2>4 DEF RequestInv, At, Submitting, AtAJob, Exists
    <2>7. KeyInv(job)'
      BY <1>1, <1>3, <2>4, ActiveKey DEF Exists
    <2>8. row'[job].status # "none"
      BY <1>1, <2>4 DEF Exists
    <2>. HIDE DEF x, to
    <2>. QED  BY <1>1, <2>1, <2>4, <2>5, <2>6, <2>7, <2>8, OneRow
  <1>. QED  BY <1>2, <1>3 DEF UpdatePayload

LEMMA ResumeKeeps ==
    ASSUME StrayInv, NEW r \in Requests, Resume(r)
    PROVE  StrayInv'
  <1>. PICK job : job = req[r].job
    OBVIOUS
  <1>1. /\ req[r].pc = "requeue capped" /\ UNCHANGED <<order, store, worker, elsewhere>> /\ Shapes
        /\ req[r].answer = "none" /\ Exists(job) /\ ~At(r, "answered")
    BY DEF Resume, At, memory, others, StrayInv, RequestInv, AtAJob
  <1>2. CASE Answer(r, "refused", job) /\ UNCHANGED row
    <2>1. Moved(r) /\ req'[r].pc = "answered"
      BY <1>1, <1>2, AnswerMoves
    <2>2. RequestInv(r)'
      BY <2>1 DEF RequestInv, At, Submitting, AtAJob
    <2>. QED  BY <1>1, <1>2, <2>1, <2>2, QuietRequest
  <1>3. ASSUME row[job].status = "budget_exhausted",
               NEW status \in {"needs_credentials", "queued"},
               row' = [row EXCEPT ![job].status = status],
               Goto(r, "swap") \/ Answer(r, "accepted", job)
        PROVE  StrayInv'
    <2>1. Moved(r)
          /\ \/ req'[r].pc = "swap" /\ req'[r].answer = "none" /\ req'[r].job = job
             \/ req'[r].pc = "answered"
      BY <1>1, <1>3, GotoMoves, AnswerMoves
    <2>. DEFINE x == row[job]
                to == [status |-> status, payload |-> x.payload, idem |-> x.idem,
                       keyed |-> x.keyed, holder |-> x.holder, cancel |-> x.cancel]
    <2>2. row = [j \in Requests |-> row[j]] /\ RowShape(row[job])
      BY <1>1 DEF Shapes, Exists
    <2>3. row'[job] = to
      BY <1>1, <1>3, <2>2 DEF RowShape, Exists
    <2>4. RowShape(row'[job]) /\ row'[job].status = status
      BY <2>3 DEF RowShape
    <2>5. /\ row' = [j \in Requests |-> row'[j]]
          /\ \A j \in Requests : j # job => row'[j] = row[j]
      BY <1>3, <2>2
    <2>6. RequestInv(r)'
      BY <1>1, <1>3, <2>1, <2>4 DEF RequestInv, At, Submitting, AtAJob, Exists
    <2>7. KeyInv(job)'
      BY <1>3, <2>4, ActiveKey DEF Terminal
    <2>8. row'[job].status # "none"
      BY <1>3, <2>4
    <2>. HIDE DEF x, to
    <2>. QED  BY <1>1, <2>1, <2>4, <2>5, <2>6, <2>7, <2>8, OneRow
  <1>4. CASE row[job].status = "budget_exhausted"
    <2>. DEFINE status == IF row[job].keyed /\ row[job].holder = None THEN "needs_credentials" ELSE "queued"
    <2>1. /\ row' = [row EXCEPT ![job].status = status]
          /\ Goto(r, "swap") \/ Answer(r, "accepted", job)
      BY <1>4 DEF Resume
    <2>2. status \in {"needs_credentials", "queued"}
      OBVIOUS
    <2>. HIDE DEF status
    <2>. QED  BY <1>3, <1>4, <2>1, <2>2
  <1>. QED  BY <1>2, <1>4 DEF Resume

-----------------------------------------------------------------------------
(* The worker.                                                               *)

LEMMA RowSet ==
    ASSUME Shapes, NEW job \in Requests, NEW status, SetRow(job, status)
    PROVE  /\ row' = [j \in Requests |-> row'[j]] /\ \A j \in Requests : RowShape(row'[j])
           /\ row'[job].status = status /\ \A j \in Requests : j # job => row'[j] = row[j]
  <1>. DEFINE x == row[job]
              to == [status |-> status, payload |-> x.payload, idem |-> x.idem,
                     keyed |-> x.keyed, holder |-> x.holder, cancel |-> x.cancel]
  <1>1. row = [j \in Requests |-> row[j]] /\ \A j \in Requests : RowShape(row[j])
    BY DEF Shapes
  <1>2. row' = [row EXCEPT ![job].status = status]
    BY DEF SetRow
  <1>3. row'[job] = to
    BY <1>1, <1>2 DEF RowShape
  <1>4. RowShape(row'[job]) /\ row'[job].status = status
    BY <1>3 DEF RowShape
  <1>5. row' = [j \in Requests |-> row'[j]] /\ \A j \in Requests : j # job => row'[j] = row[j]
    BY <1>1, <1>2
  <1>. QED  BY <1>1, <1>4, <1>5

\* The worker leaves a job's key, or clears it; and lets go of the job only then.
LEMMA WorkerKey ==
    ASSUME StrayInv, UNCHANGED req, NEW j \in Requests,
           store'[j] = store[j] \/ store'[j] = None,
           row'[j].status = "none" => row[j].status = "none",
           Settling(j)' => Settling(j) \/ store'[j] = None,
           Finished(j)' /\ ~Clearing(j)' =>
              \/ store'[j] = None \/ Settling(j) \/ j \in elsewhere'
              \/ Finished(j) /\ ~Clearing(j) /\ j \notin elsewhere
    PROVE  KeyInv(j)'
  <1>1. KeyInv(j)
    BY DEF StrayInv
  <1>2. store'[j] = None => OnlyRefused(j)'
    BY NoKeyNoWorry
  <1>3. \A s \in Requests : Swapping(s, j) =>
              Swapping(s, j)' /\ req'[s].displaced = req[s].displaced
    BY DEF Swapping
  <1>4. store'[j] = store[j] /\ OnlyRefused(j) => OnlyRefused(j)'
    BY <1>3, StillRefused
  <1>5. row'[j].status = "none" =>
          store'[j] = None \/ (store'[j] = j /\ req'[j].pc \in {"enqueue", "undo"})
    BY <1>1 DEF KeyInv
  <1>. QED  BY <1>1, <1>2, <1>4, <1>5 DEF KeyInv

LEMMA WorkerKeeps ==
    ASSUME StrayInv, UNCHANGED <<req, order>>,
           row' = [j \in Requests |-> row'[j]], \A j \in Requests : RowShape(row'[j]),
           \A j \in Requests : row'[j].status = "none" <=> row[j].status = "none",
           store' = [j \in Requests |-> store'[j]],
           WorkerShape(worker'), WorkerInv', \A j \in Requests : KeyInv(j)'
    PROVE  StrayInv'
  <1>1. Shapes'
    BY DEF StrayInv, Shapes, WorkerShape, RequestShape
  <1>2. \A r \in Requests : RequestInv(r)'
    BY DEF StrayInv, RequestInv, At, Exists
  <1>3. \A i \in 1..Len(order') : Exists(order[i])'
    BY DEF StrayInv, Exists
  <1>. QED  BY <1>1, <1>2, <1>3 DEF StrayInv

LEMMA LeaseKeeps == StrayInv /\ Lease => StrayInv'
  <1>. SUFFICES ASSUME StrayInv, Lease PROVE StrayInv'
    OBVIOUS
  <1>1. PICK job \in Ids : /\ row[job].status = "queued" /\ SetRow(job, "running")
                           /\ worker' = [Idle EXCEPT !.pc = "leased", !.job = job]
    BY DEF Lease
  <1>2. worker.pc = "idle" /\ UNCHANGED <<req, order, store, elsewhere>> /\ Shapes
    BY DEF Lease, Work, memory, StrayInv
  <1>3. job \in Requests
    BY <1>1, <1>2 DEF Ids, StrayInv, Exists
  <1>4. /\ row' = [j \in Requests |-> row'[j]] /\ \A j \in Requests : RowShape(row'[j])
        /\ row'[job].status = "running" /\ \A j \in Requests : j # job => row'[j] = row[j]
    BY <1>1, <1>2, <1>3, RowSet
  <1>5. WorkerShape(Idle)
    BY DEF Idle, WorkerShape
  <1>6. worker' = [pc |-> "leased", job |-> job, handle |-> Idle.handle, verdict |-> Idle.verdict]
    BY <1>1, <1>5 DEF WorkerShape
  <1>7. WorkerShape(worker') /\ worker'.pc = "leased" /\ worker'.job = job
    BY <1>6 DEF WorkerShape
  <1>8. WorkerInv'
    BY <1>3, <1>4, <1>7 DEF WorkerInv
  <1>9. ASSUME NEW j \in Requests PROVE KeyInv(j)'
    <2>1. ~Settling(j)' /\ (Clearing(j) <=> Clearing(j)')
      BY <1>2, <1>7 DEF Settling, Clearing
    <2>2. Finished(j)' => Finished(j)
      BY <1>4, <1>9 DEF Finished, Terminal
    <2>3. store'[j] = store[j] /\ (row'[j].status = "none" => row[j].status = "none")
      BY <1>2, <1>4, <1>9
    <2>. QED  BY <1>2, <2>1, <2>2, <2>3, WorkerKey
  <1>10. \A j \in Requests : row'[j].status = "none" <=> row[j].status = "none"
    BY <1>1, <1>4
  <1>11. store' = [j \in Requests |-> store'[j]]
    BY <1>2 DEF Shapes
  <1>. QED  BY <1>2, <1>4, <1>7, <1>8, <1>9, <1>10, <1>11, WorkerKeeps

\* A step that leaves the rows: it clears the key of a job it will settle.
LEMMA FetchKeeps == StrayInv /\ FetchKey => StrayInv'
  <1>. SUFFICES ASSUME StrayInv, FetchKey PROVE StrayInv'
    OBVIOUS
  <1>. PICK job : job = worker.job
    OBVIOUS
  <1>1. worker.pc = "leased" /\ UNCHANGED <<row, req, order, store, elsewhere>> /\ Shapes
    BY DEF FetchKey, Work, queue, memory, StrayInv
  <1>2. job \in Requests
    BY <1>1 DEF StrayInv, WorkerInv
  <1>3. \/ /\ store[job] = None
           /\ worker' = [worker EXCEPT !.pc = "settle", !.verdict = "needs_credentials"]
        \/ worker' = [worker EXCEPT !.pc = "running", !.handle = store[job]]
    BY DEF FetchKey
  <1>4. WorkerShape(worker)
    BY <1>1 DEF Shapes
  <1>5. /\ WorkerShape(worker') /\ worker'.job = job
        /\ \/ /\ store[job] = None
              /\ worker'.pc = "settle" /\ worker'.verdict = "needs_credentials"
           \/ worker'.pc = "running"
    <2>1. CASE /\ store[job] = None
               /\ worker' = [worker EXCEPT !.pc = "settle", !.verdict = "needs_credentials"]
      <3>1. worker' = [pc |-> "settle", job |-> job, handle |-> worker.handle,
                       verdict |-> "needs_credentials"]
        BY <1>4, <2>1 DEF WorkerShape
      <3>. QED  BY <2>1, <3>1 DEF WorkerShape
    <2>2. CASE worker' = [worker EXCEPT !.pc = "running", !.handle = store[job]]
      <3>1. worker' = [pc |-> "running", job |-> job, handle |-> store[job],
                       verdict |-> worker.verdict]
        BY <1>4, <2>2 DEF WorkerShape
      <3>. QED  BY <3>1 DEF WorkerShape
    <2>. QED  BY <1>3, <2>1, <2>2
  <1>6. WorkerInv'
    BY <1>1, <1>2, <1>5 DEF WorkerInv, Verdicts
  <1>7. ASSUME NEW j \in Requests PROVE KeyInv(j)'
    <2>1. Settling(j)' => store'[j] = None
      BY <1>1, <1>5 DEF Settling
    <2>2. (Clearing(j) <=> Clearing(j)') /\ (Finished(j)' => Finished(j))
      BY <1>1, <1>5 DEF Clearing, Finished
    <2>. QED  BY <1>1, <2>1, <2>2, WorkerKey
  <1>8. row' = [j \in Requests |-> row'[j]] /\ \A j \in Requests : RowShape(row'[j])
    BY <1>1 DEF Shapes
  <1>9. store' = [j \in Requests |-> store'[j]]
    BY <1>1 DEF Shapes
  <1>. QED  BY <1>1, <1>5, <1>6, <1>7, <1>8, <1>9, WorkerKeeps

LEMMA StopKeeps ==
    ASSUME StrayInv, NEW verdict \in Verdicts, StopRun(verdict)
    PROVE  StrayInv'
  <1>. PICK job : job = worker.job
    OBVIOUS
  <1>1. worker.pc = "running" /\ UNCHANGED <<row, req, order>> /\ Shapes
    BY DEF StopRun, Work, queue, StrayInv
  <1>2. job \in Requests
    BY <1>1 DEF StrayInv, WorkerInv
  <1>3. /\ store' = [j \in Requests |-> store'[j]] /\ store'[job] = None
        /\ \A j \in Requests : j # job => store'[j] = store[j]
        /\ \A j : j # job => (j \in elsewhere => j \in elsewhere')
    BY <1>1, <1>2 DEF StopRun, Discard, PutHandle, Shapes
  <1>4. WorkerShape(worker)
    BY <1>1 DEF Shapes
  <1>5. worker' = [pc |-> "settle", job |-> job, handle |-> None, verdict |-> verdict]
    BY <1>4 DEF StopRun, WorkerShape
  <1>6. /\ WorkerShape(worker') /\ worker'.job = job
        /\ worker'.pc = "settle" /\ worker'.verdict = verdict
    BY <1>5 DEF WorkerShape
  <1>7. WorkerInv'
    BY <1>1, <1>2, <1>6 DEF WorkerInv
  <1>8. ASSUME NEW j \in Requests PROVE KeyInv(j)'
    <2>1. Settling(j)' => store'[j] = None
      BY <1>3, <1>6 DEF Settling
    <2>2. (Clearing(j) <=> Clearing(j)') /\ (Finished(j)' => Finished(j))
      BY <1>1, <1>6 DEF Clearing, Finished
    <2>3. store'[j] = None \/ (store'[j] = store[j] /\ (j \in elsewhere => j \in elsewhere'))
      BY <1>3, <1>8
    <2>. QED  BY <1>1, <2>1, <2>2, <2>3, WorkerKey
  <1>9. row' = [j \in Requests |-> row'[j]] /\ \A j \in Requests : RowShape(row'[j])
    BY <1>1 DEF Shapes
  <1>. QED  BY <1>1, <1>3, <1>6, <1>7, <1>8, <1>9, WorkerKeeps

LEMMA IdleShape == WorkerShape(Idle) /\ Idle.pc = "idle"
  BY DEF Idle, WorkerShape

\* The key of the worker's job is discarded, and the worker is idle.
LEMMA DiscardIdles ==
    ASSUME StrayInv, worker.job \in Requests, Discard(worker.job), worker' = Idle,
           UNCHANGED <<row, req, order>>
    PROVE  StrayInv'
  <1>. PICK job : job = worker.job
    OBVIOUS
  <1>1. Shapes
    BY DEF StrayInv
  <1>2. /\ store' = [j \in Requests |-> store'[j]] /\ store'[job] = None
        /\ \A j \in Requests : j # job => store'[j] = store[j]
        /\ \A j : j # job => (j \in elsewhere => j \in elsewhere')
    BY <1>1 DEF Discard, PutHandle, Shapes
  <1>3. WorkerInv'
    BY IdleShape DEF WorkerInv
  <1>4. ASSUME NEW j \in Requests PROVE KeyInv(j)'
    <2>1. ~Settling(j)' /\ (Finished(j)' => Finished(j))
      BY IdleShape DEF Settling, Finished
    <2>2. j # job => (Clearing(j) => Clearing(j)')
      BY DEF Clearing
    <2>3. \/ store'[j] = None
          \/ j # job /\ store'[j] = store[j] /\ (j \in elsewhere => j \in elsewhere')
      BY <1>2, <1>4
    <2>. QED  BY <2>1, <2>2, <2>3, WorkerKey
  <1>5. row' = [j \in Requests |-> row'[j]] /\ \A j \in Requests : RowShape(row'[j])
    BY <1>1 DEF Shapes
  <1>. QED  BY <1>2, <1>3, <1>4, <1>5, IdleShape, WorkerKeeps

LEMMA LeaseLostKeeps == StrayInv /\ LeaseLost => StrayInv'
  BY DiscardIdles DEF LeaseLost, Work, queue, StrayInv, WorkerInv

LEMMA DropKeeps == StrayInv /\ DropKey => StrayInv'
  BY DiscardIdles DEF DropKey, Work, queue, StrayInv, WorkerInv

\* The worker lets go of a job: what it says of the row is that it ended only if no
\* key is left, and otherwise the key is dropped next.
LEMMA LetsGo ==
    ASSUME StrayInv, UNCHANGED <<req, order, store, elsewhere>>,
           WorkerShape(worker'), worker'.pc \in {"idle", "drop"},
           worker'.pc = "drop" => worker'.job \in Requests,
           worker.pc = "drop" => worker' = worker,
           row' = [j \in Requests |-> row'[j]], \A j \in Requests : RowShape(row'[j]),
           \A j \in Requests : row'[j].status = "none" <=> row[j].status = "none",
           \A j \in Requests : Finished(j)' =>
              Finished(j) \/ Settling(j) \/ (worker'.pc = "drop" /\ worker'.job = j)
    PROVE  StrayInv'
  <1>1. WorkerInv'
    BY DEF WorkerInv
  <1>2. ASSUME NEW j \in Requests PROVE KeyInv(j)'
    <2>1. ~Settling(j)' /\ (Clearing(j) => Clearing(j)')
      BY DEF Settling, Clearing
    <2>2. Finished(j)' /\ ~Clearing(j)' => Finished(j) \/ Settling(j)
      BY DEF Clearing
    <2>. QED  BY <2>1, <2>2, WorkerKey
  <1>3. store' = [j \in Requests |-> store'[j]]
    BY DEF StrayInv, Shapes
  <1>. QED  BY <1>1, <1>2, <1>3, WorkerKeeps

LEMMA DropsNext ==
    ASSUME NEW j, DropNext(j)
    PROVE  WorkerShape(worker') /\ worker'.pc = "drop" /\ worker'.job = j
  <1>1. worker' = [pc |-> "drop", job |-> j, handle |-> None, verdict |-> "none"]
    BY DEF DropNext, Idle
  <1>. QED  BY <1>1 DEF WorkerShape

\* The row of the worker's job gets a status, while the run has its lease.
LEMMA RunEnds ==
    ASSUME StrayInv, UNCHANGED <<req, order, store, elsewhere>>, Work("running"), HasLease,
           NEW status, status # "none", SetRow(worker.job, status),
           \/ DropNext(worker.job)
           \/ status \notin Terminal /\ worker' = Idle
    PROVE  StrayInv'
  <1>. PICK job : job = worker.job
    OBVIOUS
  <1>1. job \in Requests /\ row[job].status = "running" /\ worker.pc = "running" /\ Shapes
    BY DEF Work, HasLease, StrayInv, WorkerInv
  <1>2. /\ row' = [j \in Requests |-> row'[j]] /\ \A j \in Requests : RowShape(row'[j])
        /\ row'[job].status = status /\ \A j \in Requests : j # job => row'[j] = row[j]
    BY <1>1, RowSet
  <1>3. /\ WorkerShape(worker') /\ worker'.pc \in {"idle", "drop"}
        /\ worker'.pc = "drop" => worker'.job = job
        /\ status \in Terminal => worker'.pc = "drop"
    BY IdleShape, DropsNext
  <1>4. ASSUME NEW j \in Requests, Finished(j)'
        PROVE  Finished(j) \/ (worker'.pc = "drop" /\ worker'.job = j)
    BY <1>2, <1>3, <1>4 DEF Finished
  <1>5. \A j \in Requests : row'[j].status = "none" <=> row[j].status = "none"
    BY <1>1, <1>2
  <1>. QED  BY <1>1, <1>2, <1>3, <1>4, <1>5, LetsGo

\* The worker goes on without a word to the queue.
LEMMA LeavesRow ==
    ASSUME StrayInv, UNCHANGED <<row, req, order, store, elsewhere>>, worker.pc # "drop",
           \/ worker' = Idle
           \/ worker.pc # "idle" /\ DropNext(worker.job)
    PROVE  StrayInv'
  <1>1. /\ WorkerShape(worker') /\ worker'.pc \in {"idle", "drop"}
        /\ worker'.pc = "drop" => worker'.job \in Requests
    BY IdleShape, DropsNext DEF StrayInv, WorkerInv
  <1>2. row' = [j \in Requests |-> row'[j]] /\ \A j \in Requests : RowShape(row'[j])
    BY DEF StrayInv, Shapes
  <1>3. \A j \in Requests : Finished(j)' => Finished(j)
    BY DEF Finished
  <1>. QED  BY <1>1, <1>2, <1>3, LetsGo

LEMMA SettleKeeps == StrayInv /\ Settle => StrayInv'
  <1>. SUFFICES ASSUME StrayInv, Settle PROVE StrayInv'
    OBVIOUS
  <1>. PICK job, verdict : job = worker.job /\ verdict = worker.verdict
    OBVIOUS
  <1>1. /\ worker.pc = "settle" /\ UNCHANGED <<req, order, store, elsewhere>> /\ Shapes
        /\ worker' = Idle
    BY DEF Settle, Work, memory, StrayInv
  <1>2. job \in Requests /\ verdict \in Verdicts
    BY <1>1 DEF StrayInv, WorkerInv
  <1>3. CASE ~HasLease
    <2>1. UNCHANGED row
      BY <1>3 DEF Settle
    <2>. QED  BY <1>1, <2>1, LeavesRow
  <1>4. CASE HasLease
    <2>. DEFINE x == row[job]
                kept == IF verdict \in Paused THEN None ELSE x.holder
                to == [status |-> verdict, payload |-> x.payload, idem |-> x.idem,
                       keyed |-> x.keyed, holder |-> kept, cancel |-> x.cancel]
    <2>1. row = [j \in Requests |-> row[j]] /\ RowShape(row[job]) /\ x.status = "running"
      BY <1>1, <1>2, <1>4 DEF Shapes, HasLease
    <2>2. row' = [row EXCEPT ![job].status = verdict,
                             ![job].holder = IF verdict \in Paused THEN None ELSE @]
      BY <1>4 DEF Settle
    <2>3. row'[job] = to
      BY <1>2, <2>1, <2>2 DEF RowShape
    <2>4. RowShape(row'[job]) /\ row'[job].status = verdict
      BY <2>3 DEF RowShape
    <2>5. /\ row' = [j \in Requests |-> row'[j]]
          /\ \A j \in Requests : j # job => row'[j] = row[j]
      BY <2>1, <2>2
    <2>6. \A j \in Requests : RowShape(row'[j])
      BY <1>1, <2>4, <2>5 DEF Shapes
    <2>7. \A j \in Requests : Finished(j)' => Finished(j) \/ Settling(j)
      BY <1>1, <2>1, <2>5 DEF Finished, Settling
    <2>8. \A j \in Requests : row'[j].status = "none" <=> row[j].status = "none"
      BY <1>2, <2>1, <2>4, <2>5 DEF Verdicts
    <2>. HIDE DEF x, to, kept
    <2>. QED  BY <1>1, <2>5, <2>6, <2>7, <2>8, IdleShape, LetsGo
  <1>. QED  BY <1>3, <1>4

LEMMA FailKeeps == StrayInv /\ FailRun => StrayInv'
  <1>. SUFFICES ASSUME StrayInv, FailRun PROVE StrayInv'
    OBVIOUS
  <1>1. Work("running") /\ UNCHANGED <<req, order, store, elsewhere>>
    BY DEF FailRun, memory
  <1>2. CASE HasLease /\ SetRow(worker.job, "queued") /\ worker' = Idle
    BY <1>1, <1>2, RunEnds DEF Terminal
  <1>3. CASE HasLease /\ SetRow(worker.job, "failed") /\ DropNext(worker.job)
    BY <1>1, <1>3, RunEnds
  <1>4. CASE UNCHANGED row /\ worker' = Idle
    BY <1>1, <1>4, LeavesRow DEF Work
  <1>. QED  BY <1>2, <1>3, <1>4 DEF FailRun

LEMMA CompleteKeeps == StrayInv /\ Complete => StrayInv'
  <1>. SUFFICES ASSUME StrayInv, Complete PROVE StrayInv'
    OBVIOUS
  <1>1. /\ Work("running") /\ UNCHANGED <<req, order, store, elsewhere>>
        /\ DropNext(worker.job)
    BY DEF Complete, memory
  <1>2. CASE HasLease /\ SetRow(worker.job, "succeeded")
    BY <1>1, <1>2, RunEnds
  <1>3. CASE UNCHANGED row
    BY <1>1, <1>3, LeavesRow DEF Work
  <1>. QED  BY <1>2, <1>3 DEF Complete

LEMMA TellFailsKeeps == StrayInv /\ TellFails => StrayInv'
  BY LeavesRow DEF TellFails, Work, queue, memory

-----------------------------------------------------------------------------
(* What ends jobs without a run: the worker's own sweep, and the processes     *)
(* around, which have no key.                                                *)

LEMMA ExpireKeeps == StrayInv /\ Expire => StrayInv'
  <1>. SUFFICES ASSUME StrayInv, Expire PROVE StrayInv'
    OBVIOUS
  <1>1. worker.pc = "idle" /\ UNCHANGED <<req, order, store, elsewhere>> /\ Shapes
    BY DEF Expire, Work, memory, StrayInv
  <1>2. PICK job \in Ids : /\ row[job].status \in Paused
                           /\ row' = [row EXCEPT ![job] = Cancelled(@)]
                           /\ DropNext(job)
    BY DEF Expire
  <1>3. job \in Requests
    BY <1>1, <1>2 DEF Ids, StrayInv, Exists
  <1>4. /\ row' = [j \in Requests |-> row'[j]] /\ \A j \in Requests : RowShape(row'[j])
        /\ \A j \in Requests : j # job => row'[j] = row[j]
        /\ row[job].status # "none" /\ row'[job].status # "none"
    BY <1>1, <1>2, <1>3, RowCancelled DEF Paused, Terminal
  <1>5. WorkerShape(worker') /\ worker'.pc = "drop" /\ worker'.job = job
    BY <1>2, DropsNext
  <1>6. \A j \in Requests : Finished(j)' => Finished(j) \/ job = j
    BY <1>4 DEF Finished
  <1>7. \A j \in Requests : row'[j].status = "none" <=> row[j].status = "none"
    BY <1>4
  <1>. QED  BY <1>1, <1>3, <1>4, <1>5, <1>6, <1>7, LetsGo

\* Who ends a job from without leaves word of it.
LEMMA ForeignKeeps ==
    ASSUME StrayInv, NEW job \in Ids, EndedElsewhere(job),
           UNCHANGED <<order, store, req, worker>>,
           row' = [j \in Requests |-> row'[j]], \A j \in Requests : RowShape(row'[j]),
           \A j \in Requests : j # job => row'[j] = row[j],
           row'[job].status # "none", row'[job].status = "running" => row[job].status = "running"
    PROVE  StrayInv'
  <1>1. Shapes /\ job \in Requests /\ row[job].status # "none"
    BY DEF Ids, StrayInv, Exists
  <1>2. \A j : j \in elsewhere => j \in elsewhere'
    BY DEF EndedElsewhere
  <1>3. ASSUME NEW j \in Requests PROVE KeyInv(j)'
    <2>1. (Settling(j)' => Settling(j)) /\ (Clearing(j) <=> Clearing(j)')
      BY <1>3 DEF Settling, Clearing
    <2>2. Finished(j)' => Finished(j) \/ j \in elsewhere'
      BY <1>1, <1>3 DEF Finished, EndedElsewhere, Active
    <2>3. row'[j].status = "none" => row[j].status = "none"
      BY <1>3
    <2>. QED  BY <1>2, <2>1, <2>2, <2>3, WorkerKey
  <1>4. WorkerInv' /\ WorkerShape(worker')
    BY <1>1 DEF StrayInv, WorkerInv, Shapes
  <1>5. \A j \in Requests : row'[j].status = "none" <=> row[j].status = "none"
    BY <1>1
  <1>6. store' = [j \in Requests |-> store'[j]]
    BY <1>1 DEF Shapes
  <1>. QED  BY <1>3, <1>4, <1>5, <1>6, WorkerKeeps

LEMMA ReclaimKeeps ==
    ASSUME StrayInv, NEW job \in Ids, Reclaim(job)
    PROVE  StrayInv'
  <1>1. /\ UNCHANGED <<order, store, req, worker>> /\ EndedElsewhere(job) /\ Shapes
        /\ job \in Requests
    BY DEF Reclaim, memory, working, StrayInv, Ids, Exists
  <1>2. CASE SetRow(job, "failed")
    BY <1>1, <1>2, RowSet, ForeignKeeps
  <1>3. CASE row' = [row EXCEPT ![job].status = "needs_credentials", ![job].holder = None]
    <2>. DEFINE x == row[job]
                to == [status |-> "needs_credentials", payload |-> x.payload, idem |-> x.idem,
                       keyed |-> x.keyed, holder |-> None, cancel |-> x.cancel]
    <2>1. row = [j \in Requests |-> row[j]] /\ RowShape(x)
      BY <1>1 DEF Shapes
    <2>2. row'[job] = to
      BY <1>1, <1>3, <2>1 DEF RowShape
    <2>3. RowShape(row'[job]) /\ row'[job].status = "needs_credentials"
      BY <2>2 DEF RowShape
    <2>4. /\ row' = [j \in Requests |-> row'[j]]
          /\ \A j \in Requests : j # job => row'[j] = row[j]
      BY <1>3, <2>1
    <2>5. \A j \in Requests : RowShape(row'[j])
      BY <1>1, <2>3, <2>4 DEF Shapes
    <2>. QED  BY <1>1, <2>3, <2>4, <2>5, ForeignKeeps
  <1>. QED  BY <1>2, <1>3 DEF Reclaim

LEMMA CancelElsewhereKeeps ==
    ASSUME StrayInv, NEW job \in Ids, CancelElsewhere(job)
    PROVE  StrayInv'
  <1>1. /\ UNCHANGED <<order, store, req, worker>> /\ EndedElsewhere(job) /\ Shapes
        /\ job \in Requests /\ row[job].status # "none"
        /\ row' = [row EXCEPT ![job] = Cancelled(@)]
    BY DEF CancelElsewhere, memory, working, StrayInv, Ids, Exists
  <1>2. /\ row' = [j \in Requests |-> row'[j]] /\ \A j \in Requests : RowShape(row'[j])
        /\ \A j \in Requests : j # job => row'[j] = row[j]
        /\ row'[job].status # "none" /\ (row'[job].status = "running" => row[job].status = "running")
    BY <1>1, RowCancelled
  <1>. QED  BY <1>1, <1>2, ForeignKeeps

-----------------------------------------------------------------------------
(* A restart forgets the keys with the requests that brought them.           *)

LEMMA RestartKeeps == StrayInv /\ Restart => StrayInv'
  <1>. SUFFICES ASSUME StrayInv, Restart PROVE StrayInv'
    OBVIOUS
  <1>1. /\ Shapes /\ worker' = Idle /\ UNCHANGED <<row, order>>
        /\ store' = [r \in Requests |-> None]
    BY DEF Restart, StrayInv, queue
  <1>2. /\ req' = [r \in Requests |-> req'[r]]
        /\ \A r \in Requests : \/ req[r].pc \in {"new", "answered"} /\ req'[r] = req[r]
                               \/ req'[r] = Answered(req[r], "lost", req[r].job)
    BY DEF Restart
  <1>3. \A r \in Requests : /\ RequestShape(req'[r])
                            /\ \/ req[r].pc \in {"new", "answered"} /\ req'[r] = req[r]
                               \/ req'[r].pc = "answered"
    BY <1>1, <1>2, AnsweredShape DEF Shapes
  <1>4. Shapes'
    BY <1>1, <1>2, <1>3, IdleShape DEF Shapes
  <1>5. ASSUME NEW r \in Requests PROVE RequestInv(r)'
    BY <1>1, <1>3 DEF StrayInv, RequestInv, At, Submitting, AtAJob
  <1>6. WorkerInv'
    BY <1>1, IdleShape DEF WorkerInv
  <1>7. ASSUME NEW j \in Requests PROVE KeyInv(j)'
    <2>1. store'[j] = None
      BY <1>1
    <2>. QED  BY <2>1, NoKeyNoWorry DEF KeyInv
  <1>8. \A i \in 1..Len(order') : Exists(order[i])'
    BY <1>1 DEF StrayInv, Exists
  <1>. QED  BY <1>4, <1>5, <1>6, <1>7, <1>8 DEF StrayInv

-----------------------------------------------------------------------------
LEMMA RequestStepKeeps ==
    ASSUME StrayInv, NEW r \in Requests, RequestStep(r)
    PROVE  StrayInv'
  <1>1. ASSUME NEW kind \in {"submit", "resupply", "cancel", "resume"}, NEW p, NEW k, NEW i,
               Arrive(r, kind, p, k, i)
        PROVE  StrayInv'
    BY <1>1, ArriveKeeps
  <1>2. CASE \/ LookUp(r) \/ StoreKey(r) \/ Enqueue(r) \/ Undo(r) \/ StorePrint(r)
             \/ ResupplyLatest(r) \/ Swap(r) \/ Requeue(r) \/ Restore(r)
             \/ CancelLatest(r) \/ DiscardCancelled(r)
             \/ ResumeLatest(r) \/ UpdatePayload(r) \/ Resume(r)
    BY <1>2, LookUpKeeps, StoreKeyKeeps, EnqueueKeeps, UndoKeeps, StorePrintKeeps, LatestKeeps,
       SwapKeeps, RequeueKeeps, RestoreKeeps, CancelKeeps, DiscardKeeps, UpdateKeeps, ResumeKeeps
  <1>. QED  BY <1>1, <1>2 DEF RequestStep

LEMMA WorkerStepKeeps == StrayInv /\ WorkerStep => StrayInv'
  <1>1. ASSUME StrayInv, NEW verdict \in {"needs_credentials", "budget_exhausted", "cancelled", "failed"},
               StopRun(verdict)
        PROVE  StrayInv'
    BY <1>1, StopKeeps DEF Verdicts
  <1>. QED  BY <1>1, LeaseKeeps, FetchKeeps, SettleKeeps, LeaseLostKeeps, FailKeeps,
               CompleteKeeps, TellFailsKeeps, ExpireKeeps, DropKeeps
            DEF WorkerStep

LEMMA StrayStill == StrayInv /\ UNCHANGED vars => StrayInv'
  <1>. SUFFICES ASSUME StrayInv, UNCHANGED vars PROVE StrayInv'
    OBVIOUS
  <1>1. UNCHANGED <<row, order, store, req, worker, elsewhere>>
    BY DEF vars
  <1>2. /\ row' = [j \in Requests |-> row'[j]] /\ \A j \in Requests : RowShape(row'[j])
        /\ store' = [j \in Requests |-> store'[j]] /\ WorkerShape(worker')
    BY <1>1 DEF StrayInv, Shapes
  <1>3. WorkerInv'
    BY <1>1 DEF StrayInv, WorkerInv
  <1>4. ASSUME NEW j \in Requests PROVE KeyInv(j)'
    <2>1. /\ Settling(j)' => Settling(j)
          /\ Finished(j)' => Finished(j)
          /\ Clearing(j) => Clearing(j)'
      BY <1>1 DEF Settling, Finished, Clearing
    <2>. QED  BY <1>1, <2>1, WorkerKey
  <1>. QED  BY <1>1, <1>2, <1>3, <1>4, WorkerKeeps

LEMMA StrayStep == StrayInv /\ [Next]_vars => StrayInv'
  BY RequestStepKeeps, WorkerStepKeeps, ReclaimKeeps, CancelElsewhereKeeps, RestartKeeps,
     StrayStill DEF Next

(* Rows, requests, keys and the worker agree at every step of the requests of   *)
(* api/services/job_manager.py, the worker of jobs/worker.py, the sweeps of     *)
(* other workers and the command line.                                          *)
THEOREM StrayInductive == Spec => []StrayInv
  BY StrayInit, StrayStep, PTL DEF Spec

(* Whatever requests cross each other, the worker and the processes around, a   *)
(* key stays in memory no longer than its job can use it, but for a handle that *)
(* was refused and for the key of a job that was ended elsewhere.               *)
THEOREM KeysDoNotStray == Spec => []NoStrayKey
  <1>1. StrayInv => NoStrayKey
    <2>. SUFFICES ASSUME StrayInv, NEW j \in Requests, store[j] # None, ~InFlight(j), ~Active(j)
                  PROVE  req[store[j]].answer = "refused" \/ j \in elsewhere
      BY DEF NoStrayKey
    <2>1. KeyInv(j)
      BY DEF StrayInv
    <2>2. row[j].status # "none"
      BY <2>1 DEF KeyInv, InFlight, At
    <2>3. Finished(j)
      BY <2>2 DEF Active, Finished, Terminal
    <2>4. \A r \in Requests : ~Swapping(r, j) /\ ~(req[r].pc = "cancelled" /\ req[r].job = j)
      BY DEF InFlight, At, Swapping
    <2>5. ~Clearing(j)
      BY <2>4 DEF Clearing, InFlight
    <2>6. OnlyRefused(j) \/ j \in elsewhere
      BY <2>1, <2>3, <2>5 DEF KeyInv
    <2>. QED  BY <2>4, <2>6 DEF OnlyRefused, Harmless
  <1>. QED  BY <1>1, StrayInductive, PTL
=============================================================================
