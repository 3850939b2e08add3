------------------------------- MODULE MCCorpus -------------------------------
(* Instances of CorpusStorage and of CorpusCommit. The storage: an operation   *)
(* of two records, long enough for the bulk path, and one that is submitted    *)
(* with two different contents. The commits: two of a context with a suite and *)
(* one of another process with another suite; and two writers, one of which    *)
(* has neither a suite nor the guard.                                          *)
EXTENDS CorpusStorage, CorpusCommit

CONSTANTS c1, c2, t1, t2, t3, s1, s2, x, y,
          w1, w2, w3, k1, k2, k3, k4, u1, u2, a, b, c

Apart    == (t1 :> c1) @@ (t2 :> c1) @@ (t3 :> c2)
Symmetry == Permutations({t1, t2}) \cup Permutations({k1, k2})

Rec(s, v) == [subject |-> s, value |-> v]

MCRequests ==
    {[op |-> "load", body |-> <<Rec(s1, x), Rec(s2, x)>>],
     [op |-> "edit", body |-> <<Rec(s1, y)>>],
     [op |-> "edit", body |-> <<Rec(s2, y)>>]}

OneWriterEach == (k1 :> w1) @@ (k2 :> w1) @@ (k3 :> w2) @@ (k4 :> w3)
Suited == (w1 :> u1) @@ (w2 :> u2) @@ (w3 :> Nothing)

Put(s, r) == [shard |-> s, record |-> r]
RestsOn(s, d) == Put(s, [NoRecord EXCEPT !.rests = d])

Statuses ==
    {<<Put(a, [NoRecord EXCEPT !.supersedes = b])>>,
     <<Put(b, [NoRecord EXCEPT !.successor = c])>>,
     <<Put(a, [NoRecord EXCEPT !.breaks = {u1}])>>,
     <<Put(c, [NoRecord EXCEPT !.supersedes = c]), Put(a, [NoRecord EXCEPT !.supersedes = a])>>}

Dependencies ==
    {<<RestsOn(a, {b})>>, <<RestsOn(b, {c})>>, <<RestsOn(c, {a})>>, <<RestsOn(b, {b})>>,
     <<RestsOn(a, {}), RestsOn(b, {a})>>}

AllBatches == Statuses \cup Dependencies

-----------------------------------------------------------------------------
(* What the run is about is chosen at the start.  Processes: three tasks of    *)
(* two processes that nobody maintains.  Maintenance: two tasks of one process *)
(* whose storage is saved, restored and rebuilt.  Marker: a write is checked   *)
(* and committed in one go, as nothing it reads before the transaction matters *)
(* there.  Guard: what the cycle guard reads and when.                         *)
VARIABLE setting
corpusVars == <<vars, commitVars, setting>>

MCInit ==
    /\ Init /\ InitCommit
    /\ setting \in {"processes", "maintenance", "marker", "guard"}

Storing ==
    \/ setting = "processes" /\ Serve /\ \A t \in Tasks : task'[t].goal # "rebuild"
    \/ setting = "maintenance" /\ Next /\ UNCHANGED <<task[t3], ctx[c2]>>

Checking == {t \in Commits : At(t, "write")}

MarkerNext ==
    /\ NextCommit
    /\ \A t \in Checking : commit'[t].pc # "write"
    /\ UNCHANGED commit[k4]

GuardNext ==
    \E t \in {k1, k4} : BeginWrite(t) \/ CommitBatch(t) \/ TakeTurn(t) \/ FailTurn(t)

Of(batches) == \A t \in Commits : commit'[t].pc = "write" => commit'[t].body \in batches

Committing ==
    \/ setting = "marker" /\ MarkerNext /\ Of(Statuses)
    \/ setting = "guard" /\ GuardNext /\ Of(Dependencies)

\* The bound on the commits is reached: only the storage must never be stuck.
Bounded == setting \in {"marker", "guard"} /\ UNCHANGED <<vars, commitVars>>

MCNext ==
    /\ \/ Storing /\ UNCHANGED commitVars
       \/ Committing /\ UNCHANGED vars
       \/ Bounded
    /\ UNCHANGED setting

MCSpec == MCInit /\ [][MCNext]_corpusVars
=============================================================================
