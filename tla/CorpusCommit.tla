----------------------------- MODULE CorpusCommit -----------------------------
(***************************************************************************)
(* What a commit to a corpus checks and what it leaves behind besides its   *)
(* rows (storage/context.py): the dependency-cycle guard inside the write   *)
(* transaction, and the SHACL status marker (storage/shacl_status.py) that  *)
(* every commit of a context with a suite moves on afterwards, in turn,     *)
(* while validate_corpus and the commits of other processes move it too.    *)
(*                                                                         *)
(* A read of the projection sees the journal as it is at that moment, which *)
(* CorpusStorage shows; replayed operations change nothing here.  The rules *)
(* of a suite that relate two shards are those of                           *)
(* shapes/ttl/supersession.shacl.ttl; which records break the others is a   *)
(* set of suites.                                                           *)
(***************************************************************************)
EXTENDS Acyclicity, Sequences, SequencesExt

CONSTANTS
    Writers, Commits,
    WriterOf,           \* the context of each task
    Suites, Nothing,
    SuiteOf,        \* config.shacl of each context, or None
    DefaultSuite,   \* default_suite: what a context without one validates by
    Guarded,        \* contexts with refuse_dependency_cycles
    Shards,
    Batches,        \* what is written: sequences of rows, a row being a shard
                    \* with its record or a governance event
    MaxFailing, FocusLimit,
    MaxCommitted         \* bound on the journal

ShardRecords ==
    [supersedes : Shards \cup {Nothing}, successor : Shards \cup {Nothing},
     rests : SUBSET Shards, breaks : SUBSET Suites]

CommitRows == [shard : Shards \cup {Nothing}, record : ShardRecords]

ASSUME CommitAssumption ==
    /\ WriterOf \in [Commits -> Writers]
    /\ SuiteOf \in [Writers -> Suites \cup {Nothing}]
    /\ DefaultSuite \in Suites
    /\ Nothing \notin Suites \cup Shards /\ "events" \notin Shards
    /\ IsFiniteSet(Shards)
    /\ \A body \in Batches : body \in Seq(CommitRows)
    /\ MaxFailing \in Nat \ {0} /\ FocusLimit \in Nat /\ MaxCommitted \in Nat

VARIABLES
    committed,  \* the rows
    marker,     \* the status sidecar: suite, position, failing, truncated
    unmarked,   \* commits of each context whose marker step is to come
    commit      \* the step, and what it has read, of each task

commitVars == <<committed, marker, unmarked, commit>>

-----------------------------------------------------------------------------
NoRecord == [supersedes |-> Nothing, successor |-> Nothing, rests |-> {}, breaks |-> {}]
IsEvent(row) == row.shard = Nothing

Current(rows) ==
    [s \in Shards |->
        LET i == SelectLastInSeq(rows, LAMBDA row : row.shard = s)
        IN  IF i = 0 THEN NoRecord ELSE rows[i].record]

Graph(rows) == [s \in Shards |-> Current(rows)[s].rests]

(* the sh:sparql rules of the supersession shapes *)
Contradicts(shards, s) ==
    \/ shards[s].supersedes = s \/ shards[s].successor = s
    \/ /\ shards[s].supersedes # Nothing
       /\ shards[shards[s].supersedes].successor \notin {Nothing, s}

Entry(tier, foci) == {[tier |-> tier, focus |-> f] : f \in foci}

CorpusTier(rows) == {s \in Shards : Contradicts(Current(rows), s)}
LocalTier(rows, suite) ==
    {s \in Shards : suite \in Current(rows)[s].breaks}
    \cup {"events" : i \in {j \in DOMAIN rows : IsEvent(rows[j]) /\ suite \in rows[j].record.breaks}}

(* every violation, the reference for the marker *)
Violations(rows, suite) ==
    Entry("corpus", CorpusTier(rows)) \cup Entry("local", LocalTier(rows, suite))

(* one-hop neighbours in the projection, in both directions *)
Links(record) == ({record.supersedes, record.successor} \ {Nothing}) \cup record.rests
Neighbours(rows, foci) ==
    LET shards == Current(rows)
    IN  foci \cup (UNION {Links(shards[s]) : s \in foci})
             \cup {s \in Shards : Links(shards[s]) \cap foci # {}}

-----------------------------------------------------------------------------
NoMarker == [suite |-> Nothing, position |-> 0, failing |-> {}, truncated |-> FALSE]
NoCommit == [pc |-> "idle", first |-> 0, body |-> <<>>, read |-> NoMarker, since |-> 0]

InitCommit ==
    /\ committed = <<>>
    /\ marker = NoMarker
    /\ unmarked = [c \in Writers |-> {}]
    /\ commit = [t \in Commits |-> NoCommit]

At(t, pc) == commit[t].pc = pc
Goto(t, pc) == commit' = [commit EXCEPT ![t].pc = pc]
Suite(t) == SuiteOf[WriterOf[t]]
WrittenBy(t) == {commit[t].body[i].shard : i \in DOMAIN commit[t].body} \ {Nothing}
LastRow(t) == commit[t].first + Len(commit[t].body) - 1

(* _release_marker_turn *)
Release(t) == unmarked' = [unmarked EXCEPT ![WriterOf[t]] = @ \ {commit[t].first}]

(* fault: a commit whose marker step ends, or fails, keeps its turn *)
KeepTurn(t) == UNCHANGED unmarked /\ commit' = [commit EXCEPT ![t] = NoCommit]

EndTurn(t) == Release(t) /\ commit' = [commit EXCEPT ![t] = NoCommit]

(* cap_failing: the list is cut, and says so *)
Capped(entries) ==
    {<<cut, Cardinality(entries) > MaxFailing>> :
        cut \in {e \in SUBSET entries :
                    Cardinality(e) = IF Cardinality(entries) > MaxFailing
                                     THEN MaxFailing ELSE Cardinality(entries)}}

-----------------------------------------------------------------------------
(* _put_shard, _ingest and _append_governance                               *)

(* the local tier is checked before the write *)
BeginWrite(t) ==
    /\ At(t, "idle")
    /\ \E body \in Batches :
          /\ Len(committed) + Len(body) <= MaxCommitted
          /\ \A i \in DOMAIN body : Suite(t) \notin body[i].record.breaks
          /\ commit' = [commit EXCEPT ![t] = [NoCommit EXCEPT !.pc = "write", !.body = body,
                                                      !.since = Len(committed)]]
    /\ UNCHANGED <<committed, marker, unmarked>>

BatchEdges(body) ==
    [s \in {body[i].shard : i \in DOMAIN body} \ {Nothing} |-> Current(body)[s].rests]

(* fault: the committed dependencies are read before the transaction *)
CommittedBefore(t) == Graph(SubSeq(committed, 1, commit[t].since))

(* _refuse_cycles loads them in the transaction *)
CommittedGraph(t) == Graph(committed)

Refused(t) ==
    /\ WriterOf[t] \in Guarded
    /\ ClosesCycle(BatchEdges(commit[t].body), CommittedGraph(t))

(* the transaction; the commit is registered before the write lock is freed *)
CommitBatch(t) ==
    /\ At(t, "write")
    /\ IF Refused(t)
       THEN commit' = [commit EXCEPT ![t] = NoCommit] /\ UNCHANGED <<committed, unmarked>>
       ELSE /\ Len(committed) + Len(commit[t].body) <= MaxCommitted
            /\ committed' = committed \o commit[t].body
            /\ unmarked' = [unmarked EXCEPT ![WriterOf[t]] = @ \cup {Len(committed) + 1}]
            /\ commit' = [commit EXCEPT ![t].pc = "turn", ![t].first = Len(committed) + 1]
    /\ UNCHANGED marker

(* The catch-up, the query or the write of the marker fails, or the caller  *)
(* is cancelled: the marker stays where it is.                              *)
FailTurn(t) ==
    /\ commit[t].pc \in {"turn", "query", "update"}
    /\ EndTurn(t)
    /\ UNCHANGED <<committed, marker>>

(* a cancelled caller leaves the thread that writes the marker running *)
LeaveThread(t) ==
    /\ At(t, "update")
    /\ Release(t) /\ Goto(t, "late")
    /\ UNCHANGED <<committed, marker>>

-----------------------------------------------------------------------------
(* _shacl_after_write and _advance_shacl_marker                             *)

Contiguous(t, m) ==
    IF m = NoMarker THEN commit[t].first = 1
    ELSE m.suite = Suite(t) /\ m.position = commit[t].first - 1

MyTurn(t) == \A p \in unmarked[WriterOf[t]] : p >= commit[t].first

TakeTurn(t) ==
    /\ At(t, "turn")
    /\ MyTurn(t)
    /\ IF Suite(t) # Nothing /\ Contiguous(t, marker)
       THEN /\ commit' = [commit EXCEPT ![t].pc = "query", ![t].read = marker]
            /\ UNCHANGED unmarked
       ELSE EndTurn(t)
    /\ UNCHANGED <<committed, marker>>

FociOf(entries, tier) == {e.focus : e \in {d \in entries : d.tier = tier}}
Focus(t) == WrittenBy(t) \cup FociOf(commit[t].read.failing, "corpus")
Complete(t) == Cardinality(Focus(t)) > FocusLimit

(* fault: only the shards that were written are looked at again *)
RecheckedAlone(t) == Focus(t)

(* _corpus_tier: the shards that are checked again *)
Rechecked(t) == IF Complete(t) THEN Shards ELSE Neighbours(committed, Focus(t))

(* fault: a list that was cut is complete again once it fits *)
TruncatedNow(t, cut) == cut

(* a list that was cut hides failures nobody checks again *)
StaysTruncated(t, cut) == cut \/ commit[t].read.truncated

Query(t) ==
    LET kept == {e \in commit[t].read.failing :
                    e.focus \notin IF e.tier = "corpus" THEN Rechecked(t) ELSE WrittenBy(t)}
        found == Entry("corpus", CorpusTier(committed) \cap Rechecked(t))
    IN  /\ At(t, "query")
        /\ \E list \in Capped(kept \cup found) :
              commit' = [commit EXCEPT ![t].pc = "update",
                         ![t].read = [suite |-> Suite(t), position |-> LastRow(t),
                                      failing |-> list[1],
                                      truncated |-> StaysTruncated(t, list[2])]]
        /\ UNCHANGED <<committed, marker, unmarked>>

(* under the lock of the sidecar, if the marker is still where it was *)
Update(t) ==
    /\ commit[t].pc \in {"update", "late"}
    /\ IF Contiguous(t, marker) THEN marker' = commit[t].read ELSE UNCHANGED marker
    /\ EndTurn(t)
    /\ UNCHANGED committed

-----------------------------------------------------------------------------
(* validate_corpus                                                          *)
ValidatingSuite(t) == IF Suite(t) = Nothing THEN DefaultSuite ELSE Suite(t)

BeginValidate(t) ==
    LET suite == ValidatingSuite(t)
    IN  /\ At(t, "idle")
        /\ commit' = [commit EXCEPT ![t] =
             [NoCommit EXCEPT !.pc = "validate",
                          !.read = [NoMarker EXCEPT !.suite = suite, !.position = Len(committed),
                                      !.failing = Entry("local", LocalTier(committed, suite))]]]
        /\ UNCHANGED <<committed, marker, unmarked>>

ValidateCorpusTier(t) ==
    /\ At(t, "validate")
    /\ \E list \in Capped(commit[t].read.failing \cup Entry("corpus", CorpusTier(committed))) :
          commit' = [commit EXCEPT ![t].pc = "store", ![t].read.failing = list[1],
                                                 ![t].read.truncated = list[2]]
    /\ UNCHANGED <<committed, marker, unmarked>>

(* unless a newer write moved the marker on *)
StillNewest(t) ==
    ~(marker.suite = commit[t].read.suite /\ marker.position > commit[t].read.position)

StoreValidation(t) ==
    /\ At(t, "store")
    /\ marker' = IF StillNewest(t) THEN commit[t].read ELSE marker
    /\ commit' = [commit EXCEPT ![t] = NoCommit]
    /\ UNCHANGED <<committed, unmarked>>

(* shacl_status: what the marker says of a head *)
StatusOf(m, suite, head) ==
    CASE m = NoMarker -> IF head = 0 THEN "pass" ELSE "unvalidated"
      [] m # NoMarker /\ (m.suite # suite \/ m.position # head) -> "unvalidated"
      [] OTHER -> IF m.failing # {} \/ m.truncated THEN "fail" ELSE "pass"

(* the process stops, between any two steps *)
CrashWriter(c) ==
    /\ \E t \in Commits : WriterOf[t] = c /\ ~At(t, "idle")
    /\ unmarked' = [unmarked EXCEPT ![c] = {}]
    /\ commit' = [t \in Commits |-> IF WriterOf[t] = c THEN NoCommit ELSE commit[t]]
    /\ UNCHANGED <<committed, marker>>

WriteStep(t) ==
    CommitBatch(t) \/ TakeTurn(t) \/ Query(t) \/ Update(t)

ValidateStep(t) == ValidateCorpusTier(t) \/ StoreValidation(t)

NextCommit ==
    \/ \E t \in Commits :
          \/ BeginWrite(t) \/ WriteStep(t) \/ FailTurn(t) \/ LeaveThread(t)
          \/ BeginValidate(t) \/ ValidateStep(t)
    \/ \E c \in Writers : CrashWriter(c)

CommitSpec == InitCommit /\ [][NextCommit]_commitVars

-----------------------------------------------------------------------------
(* Rows, the marker and the turns hold values of their types, and a turn is *)
(* that of a commit whose marker step is to come: nobody waits for a turn   *)
(* that is never given back.                                                *)
CommitTypeOK ==
    /\ Len(committed) <= MaxCommitted
    /\ marker.suite \in Suites \cup {Nothing}
    /\ marker.position \in 0..Len(committed)
    /\ Cardinality(marker.failing) <= MaxFailing
    /\ \A c \in Writers : \A p \in unmarked[c] :
          \E t \in Commits : /\ WriterOf[t] = c /\ commit[t].first = p
                           /\ commit[t].pc \in {"turn", "query", "update"}

(* A marker at the head of the journal lists exactly the violations of the  *)
(* corpus, or says that the list was cut: full_shacl never passes a corpus  *)
(* with a violation in it.  Commits of other processes, failed and          *)
(* cancelled steps, changed suites and validations that run beside writes   *)
(* may leave the marker behind, never wrong.                                *)
MarkerExact ==
    /\ marker.suite # Nothing
    /\ marker.position = Len(committed)
    => \/ marker.truncated
       \/ marker.failing = Violations(committed, marker.suite)

(* What full_shacl passes has no violation, whether or not violations were   *)
(* dropped from a list that was too long.                                   *)
PassIsTrue ==
    \A s \in Suites :
        StatusOf(marker, s, Len(committed)) = "pass" => Violations(committed, s) = {}

(* A context with the cycle guard never adds an edge that lies on a cycle   *)
(* of the committed corpus, whatever other writers commit beside it; cycles *)
(* that were stored before are left alone.                                  *)
GuardHolds ==
    [][\A t \in Commits :
          /\ At(t, "write") /\ commit'[t].pc = "turn"
          /\ WriterOf[t] \in Guarded
          => \A e \in Edges(Graph(committed')) \ Edges(Graph(committed)) :
                OnNoCycle(e, Graph(committed'))]_commitVars
=============================================================================
