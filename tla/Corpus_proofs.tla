----------------------------- MODULE Corpus_proofs -----------------------------
(* Theorems about the storage of a corpus and about its commits, for any        *)
(* contexts, tasks, requests, writers, suites, shards and limits.               *)
EXTENDS CorpusStorage, CorpusCommit, Counting, FiniteSetTheorems, SequenceTheorems, TLAPS

-----------------------------------------------------------------------------
(***************************************************************************)
(* Theorems about CorpusStorage, for any contexts, tasks, requests, batch   *)
(* sizes and length of the journal: the catch-up never finishes past the    *)
(* journal, and the store implements StoreLog.                              *)
(*                                                                         *)
(* The projection may be wrong: a bulk load that was cut short leaves the   *)
(* quads of rows the watermark does not count.  The invariant says how      *)
(* wrong (Derived): a subject's quads are those of the watermark's rows,    *)
(* unless a later row of the journal writes the subject, so that the        *)
(* catch-up will still come to it.                                          *)
(***************************************************************************)
Rows == UNION {ToSet(RowsOf(r)) : r \in Requests}

Views == [Subjects -> Values \cup {Absent}]

Begins(a, rows) == Len(a) <= Len(rows) /\ a = SubSeq(rows, 1, Len(a))

(* What the graph g says of a subject is what the rows a say, or one of the *)
(* rows k+1..n writes the subject.                                          *)
Behind(g, a, rows, k, n) ==
    \A s \in Subjects :
        g[s] = Log!Contents(a)[s] \/ \E i \in k + 1..n : Log!Revision(rows[i]).subject = s

Derived(g, a, rows) ==
    \/ g = Log!Contents(a)
    \/ Begins(a, rows) /\ Behind(g, a, rows, Len(a), Len(rows))

Critical == {"inspect", "apply", "mark"}

TaskRecords ==
    [pc : CatchingUp \cup {"idle", "barrier", "done"},
     goal : {"none", "open", "write", "rebuild", "read", "barrier"},
     since : Nat, head : Nat, upto : Nat, view : Views \cup {None}]

ContextRecords == [open : BOOLEAN, confirmed : Nat, verified : Seq(Rows)]

Types ==
    /\ journal \in Seq(Rows) /\ Len(journal) <= MaxRows
    /\ graph \in Views
    /\ applied \in Seq(Rows)
    /\ lock \in Tasks \cup {None, "snapshot"}
    /\ ctx \in [Contexts -> ContextRecords]
    /\ task \in [Tasks -> TaskRecords]

LockInv == \A t \in Tasks : lock = t <=> task[t].pc \in Critical

(* What a context remembers of the journal is still so; a closed one        *)
(* remembers nothing, as the journal may be replaced.                       *)
ContextInv(c) ==
    /\ ctx[c].open \/ ctx[c] = Closed
    /\ ctx[c].confirmed <= Len(journal)
    /\ Begins(ctx[c].verified, journal)

TaskInv(t) ==
    /\ task[t].since <= Len(journal)
    /\ task[t].pc = "idle" => task[t] = Idle
    /\ task[t].pc = "barrier" => task[t].goal = "barrier"
    /\ task[t].pc \in {"apply", "mark"} =>
          /\ Begins(applied, journal)
          /\ task[t].since <= task[t].head
          /\ task[t].head <= Len(journal)
    /\ task[t].pc = "apply" => Behind(graph, applied, journal, Len(applied), task[t].head)
    /\ task[t].pc = "mark" =>
          /\ task[t].upto >= Len(applied) /\ task[t].upto <= Len(journal)
          /\ Behind(graph, SubSeq(journal, 1, task[t].upto), journal,
                    task[t].upto, task[t].head)

SavedInv ==
    /\ saved.graph \in Views /\ saved.applied \in Seq(Rows)
    /\ saved.journal # None =>
          /\ saved.journal \in Seq(Rows) /\ Len(saved.journal) <= MaxRows
          /\ Derived(saved.graph, saved.applied, saved.journal)
    /\ lock = "snapshot" => saved.graph = graph /\ saved.applied = applied

StoreInv ==
    /\ Types
    /\ LockInv
    /\ \A c \in Contexts : ContextInv(c)
    /\ \A t \in Tasks : TaskInv(t)
    /\ Derived(graph, applied, journal)
    /\ SavedInv

-----------------------------------------------------------------------------
(* The contents after some rows. *)

SubjectOf(row) == Log!Revision(row).subject

LEMMA LastWrite ==
    ASSUME NEW rows, Len(rows) \in Nat, DOMAIN rows = 1..Len(rows), NEW s \in Subjects,
           NEW m \in 1..Len(rows), SubjectOf(rows[m]) = s,
           \A i \in m + 1..Len(rows) : SubjectOf(rows[i]) # s
    PROVE  Log!Contents(rows)[s] = Log!Revision(rows[m]).value
  <1>. DEFINE T == {i \in DOMAIN rows : Log!Revision(rows[i]).subject = s}
  <1>1. T \subseteq 1..Len(rows) /\ m \in T /\ T # {}
    BY DEF SubjectOf
  <1>2. \A i \in T : i <= m
    BY DEF SubjectOf
  <1>. HIDE DEF T
  <1>3. Max(T) = m
    BY <1>1, <1>2, MaxIs
  <1>4. Log!Contents(rows)[s] = IF T = {} THEN Absent ELSE Log!Revision(rows[Log!Max(T)]).value
    BY DEF Log!Contents, T
  <1>. QED  BY <1>1, <1>3, <1>4 DEF Log!Max, Max

LEMMA NoWrite ==
    ASSUME NEW rows, Len(rows) \in Nat, DOMAIN rows = 1..Len(rows), NEW s \in Subjects,
           \A i \in 1..Len(rows) : SubjectOf(rows[i]) # s
    PROVE  Log!Contents(rows)[s] = Absent
  BY DEF Log!Contents, SubjectOf

LEMMA BatchContents ==
    ASSUME NEW S, NEW rows \in Seq(S), NEW w \in 0..Len(rows), NEW u \in w..Len(rows),
           NEW s \in Subjects
    PROVE  LET b == SubSeq(rows, w + 1, u)
               before == SubSeq(rows, 1, w)
               after  == SubSeq(rows, 1, u)
           IN  /\ s \in Written(b) <=> \E i \in w + 1..u : SubjectOf(rows[i]) = s
               /\ s \in Written(b) => Log!Contents(after)[s] = Log!Contents(b)[s]
               /\ s \notin Written(b) => Log!Contents(after)[s] = Log!Contents(before)[s]
  <1>. DEFINE b == SubSeq(rows, w + 1, u)
              before == SubSeq(rows, 1, w)
              after  == SubSeq(rows, 1, u)
              T(k) == {i \in 1..k : SubjectOf(rows[i]) = s}
  <1>1. Len(rows) \in Nat /\ w \in Nat /\ u \in Nat /\ w <= u /\ u <= Len(rows)
    OBVIOUS
  <1>2. Len(b) = u - w /\ DOMAIN b = 1..u - w /\ \A i \in 1..u - w : b[i] = rows[w + i]
    BY SubRows
  <1>3. /\ Len(before) = w /\ DOMAIN before = 1..w /\ \A i \in 1..w : before[i] = rows[i]
        /\ Len(after) = u /\ DOMAIN after = 1..u /\ \A i \in 1..u : after[i] = rows[i]
    <2>1. ASSUME NEW k \in 0..Len(rows)
          PROVE  LET q == SubSeq(rows, 1, k)
                 IN  Len(q) = k /\ DOMAIN q = 1..k /\ \A i \in 1..k : q[i] = rows[i]
      <3>. DEFINE q == SubSeq(rows, 0 + 1, k)
      <3>1. Len(q) = k - 0 /\ DOMAIN q = 1..k - 0 /\ \A i \in 1..k - 0 : q[i] = rows[0 + i]
        BY SubRows
      <3>. QED  BY <3>1
    <2>. QED  BY <1>1, <2>1
  <1>. HIDE DEF b, before, after
  <1>4. s \in Written(b) <=> \E i \in w + 1..u : SubjectOf(rows[i]) = s
    <2>1. s \in Written(b) <=> \E k \in 1..u - w : SubjectOf(b[k]) = s
      BY <1>2 DEF Written, SubjectOf
    <2>2. ASSUME NEW k \in 1..u - w, SubjectOf(b[k]) = s
          PROVE  \E i \in w + 1..u : SubjectOf(rows[i]) = s
      <3>1. w + k \in w + 1..u /\ b[k] = rows[w + k]
        BY <1>1, <1>2
      <3>. QED  BY <2>2, <3>1
    <2>3. ASSUME NEW i \in w + 1..u, SubjectOf(rows[i]) = s
          PROVE  \E k \in 1..u - w : SubjectOf(b[k]) = s
      <3>1. i - w \in 1..u - w /\ b[i - w] = rows[i]
        BY <1>1, <1>2
      <3>. QED  BY <2>3, <3>1
    <2>. QED  BY <2>1, <2>2, <2>3
  <1>5. ASSUME NEW k \in Nat, k <= Len(rows), T(k) # {}
        PROVE  \E m \in 1..k : /\ SubjectOf(rows[m]) = s
                               /\ \A i \in m + 1..k : SubjectOf(rows[i]) # s
    <2>. DEFINE U == T(k)
    <2>1. U \subseteq 1..k /\ U # {}
      BY <1>5
    <2>. HIDE DEF U
    <2>2. Max(U) \in U /\ \A i \in U : i <= Max(U)
      BY <2>1, MaxOfSome
    <2>3. Max(U) \in 1..k
      BY <2>1, <2>2
    <2>4. \A i \in Max(U) + 1..k : i \notin U /\ i \in 1..k
      BY <2>2, <2>3
    <2>. QED  BY <2>2, <2>3, <2>4 DEF U
  <1>6. ASSUME s \in Written(b)
        PROVE  Log!Contents(after)[s] = Log!Contents(b)[s]
    <2>1. PICK m \in 1..u : /\ SubjectOf(rows[m]) = s
                            /\ \A i \in m + 1..u : SubjectOf(rows[i]) # s
      <3>1. T(u) # {}
        BY <1>1, <1>4, <1>6
      <3>. QED  BY <1>1, <1>5, <3>1
    <2>2. m >= w + 1
      BY <1>1, <1>4, <1>6, <2>1
    <2>3. Log!Contents(after)[s] = Log!Revision(rows[m]).value
      <3>1. /\ Len(after) \in Nat /\ DOMAIN after = 1..Len(after) /\ m \in 1..Len(after)
            /\ after[m] = rows[m] /\ \A i \in m + 1..Len(after) : SubjectOf(after[i]) # s
        BY <1>1, <1>3, <2>1
      <3>. QED  BY <2>1, <3>1, LastWrite
    <2>4. PICK k \in 1..u - w : k = m - w
      BY <1>1, <2>2
    <2>5. b[k] = rows[m] /\ SubjectOf(b[k]) = s
      BY <1>1, <1>2, <2>1, <2>4
    <2>6. \A i \in k + 1..u - w : SubjectOf(b[i]) # s
      <3>. SUFFICES ASSUME NEW i \in k + 1..u - w
                    PROVE  SubjectOf(b[i]) # s
        OBVIOUS
      <3>1. w + i \in m + 1..u /\ b[i] = rows[w + i]
        BY <1>1, <1>2, <2>4
      <3>. QED  BY <2>1, <3>1
    <2>7. Log!Contents(b)[s] = Log!Revision(b[k]).value
      <3>1. Len(b) \in Nat /\ DOMAIN b = 1..Len(b) /\ k \in 1..Len(b)
            /\ \A i \in k + 1..Len(b) : SubjectOf(b[i]) # s
        BY <1>1, <1>2, <2>4, <2>6
      <3>. QED  BY <2>5, <3>1, LastWrite
    <2>. QED  BY <2>3, <2>5, <2>7
  <1>7. ASSUME s \notin Written(b)
        PROVE  Log!Contents(after)[s] = Log!Contents(before)[s]
    <2>1. \A i \in w + 1..u : SubjectOf(rows[i]) # s
      BY <1>4, <1>7
    <2>2. CASE T(w) = {}
      <3>1. \A i \in 1..w : SubjectOf(rows[i]) # s
        BY <2>2
      <3>2. \A i \in 1..u : SubjectOf(rows[i]) # s
        BY <1>1, <2>1, <3>1
      <3>3. Log!Contents(before)[s] = Absent
        BY <1>1, <1>3, <3>1, NoWrite
      <3>4. Log!Contents(after)[s] = Absent
        BY <1>1, <1>3, <3>2, NoWrite
      <3>. QED  BY <3>3, <3>4
    <2>3. CASE T(w) # {}
      <3>1. PICK m \in 1..w : /\ SubjectOf(rows[m]) = s
                              /\ \A i \in m + 1..w : SubjectOf(rows[i]) # s
        BY <1>1, <1>5, <2>3
      <3>2. \A i \in m + 1..u : SubjectOf(rows[i]) # s
        BY <1>1, <2>1, <3>1
      <3>3. Log!Contents(before)[s] = Log!Revision(rows[m]).value
        <4>1. /\ Len(before) \in Nat /\ DOMAIN before = 1..Len(before) /\ m \in 1..Len(before)
              /\ before[m] = rows[m] /\ \A i \in m + 1..Len(before) : SubjectOf(before[i]) # s
          BY <1>1, <1>3, <3>1
        <4>. QED  BY <3>1, <4>1, LastWrite
      <3>4. Log!Contents(after)[s] = Log!Revision(rows[m]).value
        <4>1. /\ Len(after) \in Nat /\ DOMAIN after = 1..Len(after) /\ m \in 1..Len(after)
              /\ after[m] = rows[m] /\ \A i \in m + 1..Len(after) : SubjectOf(after[i]) # s
          BY <1>1, <1>3, <3>2
        <4>. QED  BY <3>1, <4>1, LastWrite
      <3>. QED  BY <3>3, <3>4
    <2>. QED  BY <2>2, <2>3
  <1>. QED  BY <1>4, <1>6, <1>7 DEF b, before, after

-----------------------------------------------------------------------------
(* Rows and views have their types. *)

LEMMA RowTypes ==
    /\ \A r \in Requests : RowsOf(r) \in Seq(Rows)
    /\ \A row \in Rows : Log!Revision(row) \in [subject : Subjects, value : Values]
  <1>1. ASSUME NEW r \in Requests
        PROVE  RowsOf(r) \in Seq(Rows)
    <2>1. Len(r.body) \in Nat /\ DOMAIN r.body = 1..Len(r.body)
      BY CallerAssumption
    <2>2. DOMAIN RowsOf(r) = 1..Len(r.body)
      BY <2>1 DEF RowsOf
    <2>3. \A k \in 1..Len(r.body) : RowsOf(r)[k] \in ToSet(RowsOf(r))
      BY <2>2 DEF ToSet
    <2>4. \A k \in 1..Len(r.body) : RowsOf(r)[k] \in Rows
      BY <2>3 DEF Rows
    <2>5. RowsOf(r) \in [1..Len(r.body) -> Rows]
      BY <2>1, <2>4 DEF RowsOf
    <2>. QED  BY <2>1, <2>5
  <1>2. ASSUME NEW row \in Rows
        PROVE  Log!Revision(row) \in [subject : Subjects, value : Values]
    <2>1. PICK r \in Requests : row \in ToSet(RowsOf(r))
      BY DEF Rows
    <2>2. PICK k \in DOMAIN r.body : row = [op |-> r.op, body |-> r.body, part |-> k]
      BY <2>1 DEF ToSet, RowsOf
    <2>3. r.body[k] \in [subject : Subjects, value : Values]
      <3>. DEFINE X == [subject : Subjects, value : Values]
      <3>1. r.body \in Seq(X) /\ k \in DOMAIN r.body
        BY <2>2, CallerAssumption
      <3>. HIDE DEF X
      <3>2. r.body[k] \in X
        BY <3>1
      <3>. QED  BY <3>2 DEF X
    <2>. QED  BY <2>2, <2>3 DEF Log!Revision
  <1>. QED  BY <1>1, <1>2

LEMMA ContentsType ==
    ASSUME NEW rows \in Seq(Rows)
    PROVE  Log!Contents(rows) \in Views
  <1>1. ASSUME NEW s \in Subjects
        PROVE  Log!Contents(rows)[s] \in Values \cup {Absent}
    <2>. DEFINE T == {i \in DOMAIN rows : Log!Revision(rows[i]).subject = s}
    <2>1. T \subseteq 1..Len(rows) /\ Len(rows) \in Nat
      OBVIOUS
    <2>2. \A i \in T : Log!Revision(rows[i]).value \in Values
      BY RowTypes
    <2>3. Log!Contents(rows)[s] = IF T = {} THEN Absent ELSE Log!Revision(rows[Log!Max(T)]).value
      BY DEF Log!Contents
    <2>. HIDE DEF T
    <2>4. T # {} => Log!Max(T) \in T
      BY <2>1, MaxOfSome DEF Log!Max, Max
    <2>. QED  BY <2>2, <2>3, <2>4
  <1>2. Log!Contents(rows) = [s \in Subjects |-> Log!Contents(rows)[s]]
    BY DEF Log!Contents
  <1>. QED  BY <1>1, <1>2 DEF Views

LEMMA EmptyIsContents == Empty = Log!Contents(<<>>) /\ Empty \in Views
  <1>1. \A s \in Subjects : Log!Contents(<<>>)[s] = Absent
    BY DEF Log!Contents
  <1>2. Log!Contents(<<>>) = [s \in Subjects |-> Log!Contents(<<>>)[s]]
    BY DEF Log!Contents
  <1>. QED  BY <1>1, <1>2 DEF Empty, Views

-----------------------------------------------------------------------------
(* Prefixes of the journal. *)

LEMMA PrefixOf ==
    ASSUME NEW rows \in Seq(Rows), NEW k \in 0..Len(rows)
    PROVE  /\ SubSeq(rows, 1, k) \in Seq(Rows) /\ Len(SubSeq(rows, 1, k)) = k
           /\ Begins(SubSeq(rows, 1, k), rows)
  <1>. DEFINE q == SubSeq(rows, 0 + 1, k)
  <1>1. q \in Seq(Rows) /\ Len(q) = k - 0
    BY SubRows
  <1>. QED  BY <1>1 DEF Begins

LEMMA BeginsGrows ==
    ASSUME NEW a \in Seq(Rows), NEW rows \in Seq(Rows), NEW more \in Seq(Rows),
           Begins(a, rows)
    PROVE  Begins(a, rows \o more)
  <1>. DEFINE k == Len(a)
              all == rows \o more
  <1>1. k \in 0..Len(rows) /\ k \in 0..Len(all) /\ all \in Seq(Rows)
        /\ \A i \in 1..k : all[i] = rows[i]
    BY DEF Begins
  <1>2. a = SubSeq(rows, 1, k)
    BY DEF Begins
  <1>. HIDE DEF all
  <1>3. \A i \in 1..k : a[i] = rows[i]
    <2>1. LET b == SubSeq(rows, 0 + 1, k) IN \A i \in 1..k - 0 : b[i] = rows[0 + i]
      BY <1>1, SubRows
    <2>. QED  BY <1>1, <1>2, <2>1
  <1>4. LET b == SubSeq(all, 0 + 1, k)
        IN  b \in Seq(Rows) /\ Len(b) = k - 0 /\ \A i \in 1..k - 0 : b[i] = all[0 + i]
    BY <1>1, SubRows
  <1>5. a = SubSeq(all, 1, k)
    BY <1>1, <1>3, <1>4
  <1>. QED  BY <1>1, <1>5 DEF Begins, all

LEMMA JoinBatch ==
    ASSUME NEW rows \in Seq(Rows), NEW w \in 0..Len(rows), NEW u \in w..Len(rows)
    PROVE  SubSeq(rows, 1, w) \o SubSeq(rows, w + 1, u) = SubSeq(rows, 1, u)
  <1>. DEFINE a == SubSeq(rows, 0 + 1, w)
              b == SubSeq(rows, w + 1, u)
              q == SubSeq(rows, 0 + 1, u)
  <1>1. a \in Seq(Rows) /\ Len(a) = w - 0 /\ \A i \in 1..w - 0 : a[i] = rows[0 + i]
    BY SubRows
  <1>2. b \in Seq(Rows) /\ Len(b) = u - w /\ \A i \in 1..u - w : b[i] = rows[w + i]
    BY SubRows
  <1>3. q \in Seq(Rows) /\ Len(q) = u - 0 /\ \A i \in 1..u - 0 : q[i] = rows[0 + i]
    BY SubRows
  <1>. HIDE DEF a, b, q
  <1>4. a \o b \in Seq(Rows) /\ Len(a \o b) = u
    BY <1>1, <1>2
  <1>5. ASSUME NEW i \in 1..u
        PROVE  (a \o b)[i] = q[i]
    <2>1. CASE i <= w
      BY <1>1, <1>2, <1>3, <2>1
    <2>2. CASE ~(i <= w)
      <3>1. PICK k \in 1..u - w : i = w + k
        <4>1. i - w \in 1..u - w /\ i = w + (i - w)
          BY <2>2
        <4>. QED  BY <4>1
      <3>2. (a \o b)[w + k] = b[k]
        BY <1>1, <1>2
      <3>3. q[i] = rows[i]
        BY <1>3
      <3>. QED  BY <1>2, <3>1, <3>2, <3>3
    <2>. QED  BY <2>1, <2>2
  <1>6. a \o b = q
    <2>1. Len(q) = u
      BY <1>3
    <2>. QED  BY <1>3, <1>4, <1>5, <2>1, SeqEqual
  <1>. QED  BY <1>6 DEF a, b, q

LEMMA BehindGrows ==
    ASSUME NEW g, NEW a, NEW rows \in Seq(Rows), NEW more \in Seq(Rows),
           NEW k \in Nat, NEW n \in 0..Len(rows), NEW m \in n..Len(rows \o more),
           Behind(g, a, rows, k, n)
    PROVE  Behind(g, a, rows \o more, k, m)
  <1>1. \A i \in k + 1..n : (rows \o more)[i] = rows[i] /\ i \in k + 1..m
    OBVIOUS
  <1>. QED  BY <1>1 DEF Behind

LEMMA DerivedGrows ==
    ASSUME NEW g, NEW a \in Seq(Rows), NEW rows \in Seq(Rows), NEW more \in Seq(Rows),
           Derived(g, a, rows)
    PROVE  Derived(g, a, rows \o more)
  <1>1. CASE g = Log!Contents(a)
    BY <1>1 DEF Derived
  <1>2. CASE Begins(a, rows) /\ Behind(g, a, rows, Len(a), Len(rows))
    <2>1. Begins(a, rows \o more)
      BY <1>2, BeginsGrows
    <2>2. Len(rows) \in 0..Len(rows) /\ Len(rows \o more) \in Len(rows)..Len(rows \o more)
      OBVIOUS
    <2>3. Behind(g, a, rows \o more, Len(a), Len(rows \o more))
      BY <1>2, <2>2, BehindGrows
    <2>. QED  BY <2>1, <2>3 DEF Derived
  <1>. QED  BY <1>1, <1>2 DEF Derived

(* A graph that is behind by no row is the contents. *)
LEMMA CaughtUp ==
    ASSUME NEW g \in Views, NEW a \in Seq(Rows), NEW rows, NEW k \in Nat, NEW n \in Nat,
           n <= k, Behind(g, a, rows, k, n)
    PROVE  g = Log!Contents(a)
  <1>1. \A s \in Subjects : g[s] = Log!Contents(a)[s]
    BY DEF Behind
  <1>2. Log!Contents(a) \in Views
    BY ContentsType
  <1>. QED  BY <1>1, <1>2 DEF Views

-----------------------------------------------------------------------------
(* Rows are applied. *)

LEMMA LoadedBatch ==
    ASSUME journal \in Seq(Rows), graph \in Views, applied \in Seq(Rows),
           Begins(applied, journal),
           NEW u \in Len(applied)..Len(journal)
    PROVE  LET b == SubSeq(journal, Len(applied) + 1, u)
               after == SubSeq(journal, 1, u)
           IN  /\ b \in Seq(Rows) /\ Len(b) = u - Len(applied) /\ applied \o b = after
               /\ Loaded(b) \in Views
               /\ \A s \in Written(b) : Loaded(b)[s] = Log!Contents(after)[s]
                                        /\ \E i \in Len(applied) + 1..u : SubjectOf(journal[i]) = s
               /\ \A s \in Subjects \ Written(b) :
                     /\ Loaded(b)[s] = graph[s]
                     /\ Log!Contents(after)[s] = Log!Contents(applied)[s]
                     /\ \A i \in Len(applied) + 1..u : SubjectOf(journal[i]) # s
  <1>. DEFINE w == Len(applied)
              b == SubSeq(journal, w + 1, u)
              after == SubSeq(journal, 1, u)
  <1>1. w \in 0..Len(journal) /\ applied = SubSeq(journal, 1, w) /\ u \in w..Len(journal)
    BY DEF Begins
  <1>2. b \in Seq(Rows) /\ Len(b) = u - w
    BY <1>1, SubRows
  <1>3. applied \o b = after
    BY <1>1, JoinBatch
  <1>4. ASSUME NEW s \in Subjects
        PROVE  /\ s \in Written(b) <=> \E i \in w + 1..u : SubjectOf(journal[i]) = s
               /\ s \in Written(b) => Log!Contents(after)[s] = Log!Contents(b)[s]
               /\ s \notin Written(b) => Log!Contents(after)[s] = Log!Contents(applied)[s]
    BY <1>1, BatchContents
  <1>. HIDE DEF b
  <1>5. Written(b) \subseteq Subjects
    <2>1. \A i \in DOMAIN b : Log!Revision(b[i]).subject \in Subjects
      BY <1>2, RowTypes
    <2>. QED  BY <2>1 DEF Written
  <1>6. \A s \in Subjects :
           Loaded(b)[s] = IF s \in Written(b) THEN Log!Contents(b)[s] ELSE graph[s]
    BY DEF Loaded
  <1>7. Loaded(b) \in Views
    <2>1. Log!Contents(b) \in Views
      BY <1>2, ContentsType
    <2>. QED  BY <2>1 DEF Loaded, Views
  <1>. HIDE DEF after, w
  <1>. QED  BY <1>2, <1>3, <1>4, <1>5, <1>6, <1>7 DEF b, after, w

LEMMA LoadedBehind ==
    ASSUME journal \in Seq(Rows), graph \in Views, applied \in Seq(Rows),
           Begins(applied, journal), NEW u \in Len(applied)..Len(journal),
           NEW n \in Nat, Behind(graph, applied, journal, Len(applied), n)
    PROVE  Behind(Loaded(SubSeq(journal, Len(applied) + 1, u)), SubSeq(journal, 1, u),
                  journal, u, n)
  <1>. DEFINE b == SubSeq(journal, Len(applied) + 1, u)
              after == SubSeq(journal, 1, u)
  <1>1. /\ \A s \in Written(b) : Loaded(b)[s] = Log!Contents(after)[s]
        /\ \A s \in Subjects \ Written(b) :
              /\ Loaded(b)[s] = graph[s]
              /\ Log!Contents(after)[s] = Log!Contents(applied)[s]
              /\ \A i \in Len(applied) + 1..u : SubjectOf(journal[i]) # s
    BY LoadedBatch
  <1>. HIDE DEF b, after
  <1>2. ASSUME NEW s \in Subjects, Loaded(b)[s] # Log!Contents(after)[s]
        PROVE  \E i \in u + 1..n : SubjectOf(journal[i]) = s
    <2>1. PICK i \in Len(applied) + 1..n : SubjectOf(journal[i]) = s
      BY <1>1, <1>2 DEF Behind, SubjectOf
    <2>2. ~(i \in Len(applied) + 1..u)
      BY <1>1, <1>2, <2>1
    <2>3. i \in u + 1..n
      BY <2>2
    <2>. QED  BY <2>1, <2>3
  <1>. QED  BY <1>2 DEF Behind, SubjectOf, b, after

(* Some of the subjects of a batch are loaded, and the watermark is not moved. *)
LEMMA PartLoaded ==
    ASSUME journal \in Seq(Rows), graph \in Views, applied \in Seq(Rows),
           Begins(applied, journal), NEW u \in Len(applied)..Len(journal),
           Behind(graph, applied, journal, Len(applied), Len(journal)),
           NEW g \in Views, NEW loaded,
           loaded \subseteq Written(SubSeq(journal, Len(applied) + 1, u)),
           \A s \in Subjects : s \notin loaded => g[s] = graph[s]
    PROVE  Behind(g, applied, journal, Len(applied), Len(journal))
  <1>. DEFINE b == SubSeq(journal, Len(applied) + 1, u)
  <1>1. \A s \in Written(b) : \E i \in Len(applied) + 1..u : SubjectOf(journal[i]) = s
    BY LoadedBatch
  <1>. HIDE DEF b
  <1>2. \A i \in Len(applied) + 1..u : i \in Len(applied) + 1..Len(journal)
    OBVIOUS
  <1>3. ASSUME NEW s \in Subjects, g[s] # Log!Contents(applied)[s]
        PROVE  \E i \in Len(applied) + 1..Len(journal) : SubjectOf(journal[i]) = s
    <2>1. CASE s \in loaded
      BY <1>1, <1>2, <2>1 DEF b
    <2>2. CASE s \notin loaded
      BY <1>3, <2>2 DEF Behind, SubjectOf
    <2>. QED  BY <2>1, <2>2
  <1>. QED  BY <1>3 DEF Behind, SubjectOf

-----------------------------------------------------------------------------
(* What a step leaves alone stays true. *)

LEMMA LockKept ==
    ASSUME LockInv, lock \in Tasks \cup {None, "snapshot"},
           task \in [Tasks -> TaskRecords],
           NEW t \in Tasks, NEW x \in TaskRecords, task' = [task EXCEPT ![t] = x],
           \/ lock' = lock /\ (x.pc \in Critical <=> task[t].pc \in Critical)
           \/ lock = None /\ lock' = t /\ x.pc \in Critical
           \/ lock = t /\ lock' = None /\ x.pc \notin Critical
    PROVE  LockInv' /\ lock' \in Tasks \cup {None, "snapshot"}
                    /\ task' \in [Tasks -> TaskRecords]
  BY CallerAssumption DEF LockInv

(* only the holder of the lock is past its acquisition *)
LEMMA Alone ==
    ASSUME LockInv, NEW t \in Tasks, task[t].pc \in Critical, NEW u \in Tasks, u # t
    PROVE  task[u].pc \notin {"apply", "mark"}
  BY DEF LockInv, Critical

LEMMA TaskKept ==
    ASSUME NEW u \in Tasks, TaskInv(u), task'[u] = task[u], journal' = journal,
           (graph' = graph /\ applied' = applied) \/ task[u].pc \notin {"apply", "mark"}
    PROVE  TaskInv(u)'
  BY DEF TaskInv

LEMMA ContextKept ==
    ASSUME NEW c \in Contexts, ContextInv(c), ctx'[c] = ctx[c], journal' = journal
    PROVE  ContextInv(c)'
  BY DEF ContextInv

LEMMA SavedKept ==
    ASSUME SavedInv, saved' = saved,
           lock' = "snapshot" => lock = "snapshot" /\ graph' = graph /\ applied' = applied
    PROVE  SavedInv'
  BY DEF SavedInv

(* A step of one task that leaves the journal and the projection alone. *)
LEMMA QuietStep ==
    ASSUME StoreInv, NEW t \in Tasks, NEW x \in TaskRecords, task' = [task EXCEPT ![t] = x],
           UNCHANGED <<journal, graph, applied, saved>>,
           \/ lock' = lock /\ (x.pc \in Critical <=> task[t].pc \in Critical)
           \/ lock = None /\ lock' = t /\ x.pc \in Critical
           \/ lock = t /\ lock' = None /\ x.pc \notin Critical,
           ctx' \in [Contexts -> ContextRecords], \A c \in Contexts : ContextInv(c)',
           TaskInv(t)'
    PROVE  StoreInv'
  <1>1. /\ Types /\ LockInv /\ SavedInv /\ Derived(graph, applied, journal)
        /\ \A u \in Tasks : TaskInv(u)
    BY DEF StoreInv
  <1>2. lock \in Tasks \cup {None, "snapshot"} /\ task \in [Tasks -> TaskRecords]
    BY <1>1 DEF Types
  <1>3. LockInv' /\ lock' \in Tasks \cup {None, "snapshot"} /\ task' \in [Tasks -> TaskRecords]
    BY <1>1, <1>2, LockKept
  <1>4. Types'
    BY <1>1, <1>3 DEF Types
  <1>5. ASSUME NEW u \in Tasks
        PROVE  TaskInv(u)'
    <2>1. CASE u = t
      BY <2>1
    <2>2. CASE u # t
      BY <1>1, <1>2, <2>2, TaskKept
    <2>. QED  BY <2>1, <2>2
  <1>6. lock' = "snapshot" => lock = "snapshot"
    BY <1>1, <1>2, CallerAssumption
  <1>7. SavedInv'
    BY <1>1, <1>6, SavedKept
  <1>8. Derived(graph, applied, journal)'
    BY <1>1 DEF Derived, Begins, Behind
  <1>. QED  BY <1>3, <1>4, <1>5, <1>7, <1>8 DEF StoreInv

(* ... and the contexts too *)
LEMMA QuietCall ==
    ASSUME StoreInv, NEW t \in Tasks, NEW x \in TaskRecords, task' = [task EXCEPT ![t] = x],
           UNCHANGED <<journal, graph, applied, saved, ctx>>,
           \/ lock' = lock /\ (x.pc \in Critical <=> task[t].pc \in Critical)
           \/ lock = None /\ lock' = t /\ x.pc \in Critical
           \/ lock = t /\ lock' = None /\ x.pc \notin Critical,
           TaskInv(t)'
    PROVE  StoreInv'
  <1>1. ctx \in [Contexts -> ContextRecords] /\ \A c \in Contexts : ContextInv(c)
    BY DEF StoreInv, Types
  <1>2. ctx' \in [Contexts -> ContextRecords] /\ \A c \in Contexts : ContextInv(c)'
    BY <1>1, ContextKept
  <1>. QED  BY <1>2, QuietStep

LEMMA IdleTyped == Idle \in TaskRecords /\ Idle.pc = "idle"
  BY DEF Idle, TaskRecords

LEMMA EmptyBegins ==
    ASSUME NEW rows \in Seq(Rows)
    PROVE  Begins(<<>>, rows)
  <1>1. 0 \in 0..Len(rows)
    OBVIOUS
  <1>2. Len(SubSeq(rows, 1, 0)) = 0 /\ SubSeq(rows, 1, 0) \in Seq(Rows)
    BY <1>1, PrefixOf
  <1>3. SubSeq(rows, 1, 0) = <<>>
    BY <1>2
  <1>. QED  BY <1>3 DEF Begins

LEMMA ClosedInv ==
    ASSUME journal \in Seq(Rows)
    PROVE  /\ Closed \in ContextRecords
           /\ [Closed EXCEPT !.open = TRUE] \in ContextRecords
           /\ Begins(<<>>, journal)
  <1>1. <<>> \in Seq(Rows)
    OBVIOUS
  <1>. QED  BY <1>1, EmptyBegins DEF Closed, ContextRecords

-----------------------------------------------------------------------------
(* Calls. *)

LEMMA CalledKeeps ==
    ASSUME StoreInv, NEW t \in Tasks, NEW pc \in {"lock", "barrier"},
           NEW goal \in {"open", "write", "rebuild", "read", "barrier"},
           pc = "barrier" => goal = "barrier",
           task[t].pc = "idle", Calls(t, pc, goal),
           UNCHANGED <<journal, graph, applied, lock, saved>>,
           ctx' \in [Contexts -> ContextRecords], \A c \in Contexts : ContextInv(c)'
    PROVE  StoreInv'
  <1>. DEFINE low == IF goal \in Reading THEN Len(journal) ELSE 0
              x   == [Idle EXCEPT !.pc = pc, !.goal = goal, !.since = low]
  <1>1. Types /\ Len(journal) \in Nat /\ task \in [Tasks -> TaskRecords]
    BY DEF StoreInv, Types
  <1>2. /\ x \in TaskRecords /\ x.pc = pc /\ x.goal = goal /\ x.since <= Len(journal)
        /\ task' = [task EXCEPT ![t] = x]
    <2>1. low \in Nat /\ low <= Len(journal)
      BY <1>1
    <2>2. task' = [task EXCEPT ![t] = x]
      BY DEF Calls
    <2>. HIDE DEF low
    <2>3. x.pc = pc /\ x.goal = goal /\ x.since = low
      BY DEF Idle
    <2>4. x \in TaskRecords
      BY <2>1, IdleTyped DEF TaskRecords, CatchingUp
    <2>. QED  BY <2>1, <2>2, <2>3, <2>4
  <1>. HIDE DEF x
  <1>3. TaskInv(t)'
    BY <1>1, <1>2 DEF TaskInv
  <1>. QED  BY <1>2, <1>3, QuietStep DEF Critical

LEMMA OpeningKeeps ==
    ASSUME StoreInv, NEW t \in Tasks, OpenContext(t)
    PROVE  StoreInv'
  <1>1. /\ Types /\ journal \in Seq(Rows) /\ \A c \in Contexts : ContextInv(c)
        /\ ctx \in [Contexts -> ContextRecords] /\ Len(journal) \in Nat
    BY DEF StoreInv, Types
  <1>2. Home[t] \in Contexts /\ task[t].pc = "idle"
    BY HomeAssumption DEF OpenContext, TasksOf
  <1>3. ctx' = [ctx EXCEPT ![Home[t]] = [Closed EXCEPT !.open = TRUE]]
    BY DEF OpenContext
  <1>4. ctx' \in [Contexts -> ContextRecords]
    BY <1>1, <1>3, ClosedInv
  <1>5. ASSUME NEW c \in Contexts
        PROVE  ContextInv(c)'
    <2>1. CASE c = Home[t]
      BY <1>1, <1>3, <2>1, ClosedInv DEF ContextInv, Closed, OpenContext
    <2>2. CASE c # Home[t]
      BY <1>1, <1>3, <2>2, ContextKept DEF OpenContext
    <2>. QED  BY <2>1, <2>2
  <1>. QED  BY <1>2, <1>4, <1>5, CalledKeeps DEF OpenContext, projection

LEMMA CallingKeeps ==
    ASSUME StoreInv, NEW t \in Tasks, CallProjection(t) \/ CallBarrier(t)
    PROVE  StoreInv'
  <1>1. ctx' \in [Contexts -> ContextRecords] /\ \A c \in Contexts : ContextInv(c)'
    BY ContextKept DEF StoreInv, Types, CallProjection, CallBarrier
  <1>2. CASE CallProjection(t)
    BY <1>1, <1>2, CalledKeeps DEF CallProjection, projection
  <1>3. CASE CallBarrier(t)
    BY <1>1, <1>3, CalledKeeps DEF CallBarrier, projection
  <1>. QED  BY <1>2, <1>3

LEMMA WritingKeeps ==
    ASSUME StoreInv, NEW t \in Tasks, Write(t)
    PROVE  StoreInv'
  <1>1. /\ Types /\ LockInv /\ SavedInv /\ Derived(graph, applied, journal)
        /\ \A c \in Contexts : ContextInv(c)
        /\ \A u \in Tasks : TaskInv(u)
        /\ journal \in Seq(Rows) /\ Len(journal) \in Nat
    BY DEF StoreInv, Types
  <1>2. PICK request \in Requests : Commit(request)
    BY DEF Write
  <1>3. /\ UNCHANGED <<graph, applied, lock, ctx, saved>>
        /\ task[t].pc = "idle" /\ Calls(t, "lock", "write")
    BY DEF Write, projection
  <1>4. CASE journal' = journal
    <2>1. ctx' \in [Contexts -> ContextRecords] /\ \A c \in Contexts : ContextInv(c)'
      BY <1>1, <1>3, <1>4, ContextKept DEF Types
    <2>. QED  BY <1>3, <1>4, <2>1, CalledKeeps
  <1>5. CASE journal' = journal \o RowsOf(request)
               /\ Len(journal) + Len(request.body) <= MaxRows
    <2>. DEFINE more == RowsOf(request)
                x    == [Idle EXCEPT !.pc = "lock", !.goal = "write", !.since = 0]
    <2>1. more \in Seq(Rows) /\ Len(more) = Len(request.body)
      <3>1. Len(request.body) \in Nat /\ DOMAIN request.body = 1..Len(request.body)
        BY CallerAssumption
      <3>2. more \in Seq(Rows)
        BY RowTypes
      <3>3. DOMAIN more = 1..Len(request.body)
        BY <3>1 DEF RowsOf
      <3>. HIDE DEF more
      <3>. QED  BY <3>1, <3>2, <3>3
    <2>2. /\ x \in TaskRecords /\ x.pc = "lock" /\ x.goal = "write" /\ x.since = 0
          /\ task' = [task EXCEPT ![t] = x]
      <3>1. x.pc = "lock" /\ x.goal = "write" /\ x.since = 0
        BY DEF Idle
      <3>2. x \in TaskRecords
        BY IdleTyped DEF TaskRecords, CatchingUp
      <3>. QED  BY <1>3, <3>1, <3>2 DEF Calls, Reading
    <2>. HIDE DEF more, x
    <2>3. /\ journal' = journal \o more /\ journal' \in Seq(Rows)
          /\ Len(journal') = Len(journal) + Len(more) /\ Len(journal') <= MaxRows
          /\ \A i \in 1..Len(journal) : journal'[i] = journal[i]
      <3>1. journal' = journal \o more /\ Len(journal) + Len(more) <= MaxRows
        BY <1>5, <2>1 DEF more
      <3>2. journal \o more \in Seq(Rows) /\ Len(journal \o more) = Len(journal) + Len(more)
        BY <1>1, <2>1
      <3>3. \A i \in 1..Len(journal) : (journal \o more)[i] = journal[i]
        BY <1>1, <2>1
      <3>. QED  BY <3>1, <3>2, <3>3
    <2>4. LockInv' /\ lock' \in Tasks \cup {None, "snapshot"}
                   /\ task' \in [Tasks -> TaskRecords]
      BY <1>1, <1>3, <2>2, LockKept DEF Types, Critical
    <2>5. Types'
      BY <1>1, <1>3, <2>3, <2>4 DEF Types
    <2>6. ASSUME NEW c \in Contexts
          PROVE  ContextInv(c)'
      <3>1. ctx[c].verified \in Seq(Rows) /\ ctx[c].confirmed \in Nat
            /\ Begins(ctx[c].verified, journal)
        BY <1>1 DEF Types, ContextRecords, ContextInv
      <3>2. Begins(ctx[c].verified, journal')
        BY <1>1, <2>1, <2>3, <3>1, BeginsGrows
      <3>3. ctx[c].confirmed <= Len(journal')
        BY <1>1, <2>1, <2>3, <3>1 DEF ContextInv
      <3>. QED  BY <1>1, <1>3, <3>2, <3>3 DEF ContextInv
    <2>7. ASSUME NEW u \in Tasks
          PROVE  TaskInv(u)'
      <3>1. CASE u = t
        BY <1>1, <2>1, <2>2, <2>3, <3>1 DEF TaskInv, Types
      <3>2. CASE u # t
        <4>1. task'[u] = task[u] /\ task[u] \in TaskRecords /\ TaskInv(u)
              /\ applied \in Seq(Rows)
          BY <1>1, <2>2, <3>2 DEF Types
        <4>2. task[u].since <= Len(journal')
          BY <1>1, <2>1, <2>3, <4>1 DEF TaskInv, TaskRecords
        <4>3. ASSUME task[u].pc \in {"apply", "mark"}
              PROVE  /\ Begins(applied, journal')
                     /\ task[u].since <= task[u].head
                     /\ task[u].head <= Len(journal')
          <5>1. Begins(applied, journal')
            BY <1>1, <2>1, <2>3, <4>1, <4>3, BeginsGrows DEF TaskInv
          <5>. QED  BY <1>1, <2>1, <2>3, <4>1, <4>3, <5>1 DEF TaskInv, TaskRecords
        <4>4. ASSUME task[u].pc = "apply"
              PROVE  Behind(graph, applied, journal', Len(applied), task[u].head)
          <5>1. task[u].head \in 0..Len(journal) /\ task[u].head \in task[u].head..Len(journal \o more)
                /\ Len(applied) \in Nat
            BY <1>1, <2>1, <2>3, <4>1, <4>4 DEF TaskInv, TaskRecords
          <5>. QED  BY <1>1, <2>1, <2>3, <4>1, <4>4, <5>1, BehindGrows DEF TaskInv
        <4>5. ASSUME task[u].pc = "mark"
              PROVE  /\ task[u].upto >= Len(applied) /\ task[u].upto <= Len(journal')
                     /\ Behind(graph, SubSeq(journal', 1, task[u].upto), journal',
                               task[u].upto, task[u].head)
          <5>. DEFINE k == task[u].upto
                      q == SubSeq(journal, 1, k)
          <5>1. k \in 0..Len(journal) /\ k >= Len(applied)
                /\ task[u].head \in 0..Len(journal) /\ task[u].head \in task[u].head..Len(journal \o more)
                /\ Behind(graph, q, journal, k, task[u].head)
            BY <1>1, <2>1, <2>3, <4>1, <4>5 DEF TaskInv, TaskRecords
          <5>2. q \in Seq(Rows) /\ Len(q) = k /\ Begins(q, journal)
            BY <1>1, <5>1, PrefixOf
          <5>3. Begins(q, journal')
            BY <1>1, <2>1, <2>3, <5>2, BeginsGrows
          <5>4. q = SubSeq(journal', 1, k)
            BY <5>2, <5>3 DEF Begins
          <5>. HIDE DEF q, k
          <5>5. Behind(graph, q, journal', k, task[u].head)
            BY <1>1, <2>1, <2>3, <5>1, BehindGrows
          <5>6. k <= Len(journal')
            BY <1>1, <2>1, <2>3, <5>1
          <5>. QED  BY <5>1, <5>4, <5>5, <5>6 DEF k
        <4>. QED  BY <1>3, <4>1, <4>2, <4>3, <4>4, <4>5 DEF TaskInv
      <3>. QED  BY <3>1, <3>2
    <2>8. Derived(graph, applied, journal)'
      BY <1>1, <1>3, <2>1, <2>3, DerivedGrows DEF Types
    <2>9. SavedInv'
      BY <1>1, <1>3, SavedKept
    <2>. QED  BY <2>4, <2>5, <2>6, <2>7, <2>8, <2>9 DEF StoreInv
  <1>. QED  BY <1>2, <1>4, <1>5 DEF Commit

LEMMA BarrierKeeps ==
    ASSUME StoreInv, NEW t \in Tasks, Barrier(t)
    PROVE  StoreInv'
  <1>1. /\ Types /\ journal \in Seq(Rows) /\ task[t] \in TaskRecords /\ TaskInv(t)
        /\ task \in [Tasks -> TaskRecords] /\ Len(journal) \in Nat
    BY DEF StoreInv, Types
  <1>2. task[t].pc = "barrier" /\ UNCHANGED <<journal, graph, applied, lock, ctx, saved>>
    BY DEF Barrier, projection
  <1>3. CASE Answers(t, Log!Contents(journal))
    <2>. DEFINE x == [task[t] EXCEPT !.pc = "done", !.view = Log!Contents(journal)]
    <2>1. Log!Contents(journal) \in Views
      BY <1>1, ContentsType
    <2>2. x \in TaskRecords /\ x.pc = "done" /\ x.since = task[t].since
      BY <1>1, <2>1 DEF TaskRecords
    <2>3. task' = [task EXCEPT ![t] = x]
      BY <1>1, <1>3 DEF Answers
    <2>. HIDE DEF x
    <2>4. TaskInv(t)'
      BY <1>1, <1>2, <2>2, <2>3 DEF TaskInv
    <2>. QED  BY <1>2, <2>2, <2>3, <2>4, QuietCall DEF Critical
  <1>4. CASE task' = [task EXCEPT ![t].pc = "lock"]
    <2>. DEFINE x == [task[t] EXCEPT !.pc = "lock"]
    <2>1. x \in TaskRecords /\ x.pc = "lock" /\ x.since = task[t].since /\ x.goal = task[t].goal
      BY <1>1 DEF TaskRecords, CatchingUp
    <2>2. task' = [task EXCEPT ![t] = x]
      BY <1>1, <1>4
    <2>. HIDE DEF x
    <2>3. TaskInv(t)'
      BY <1>1, <1>2, <2>1, <2>2 DEF TaskInv
    <2>. QED  BY <1>2, <2>1, <2>2, <2>3, QuietCall DEF Critical
  <1>. QED  BY <1>3, <1>4 DEF Barrier

LEMMA LockingKeeps ==
    ASSUME StoreInv, NEW t \in Tasks, AcquireLock(t)
    PROVE  StoreInv'
  <1>. DEFINE x == [task[t] EXCEPT !.pc = "inspect"]
  <1>1. /\ task[t] \in TaskRecords /\ TaskInv(t) /\ task \in [Tasks -> TaskRecords]
    BY DEF StoreInv, Types
  <1>2. x \in TaskRecords /\ x.pc = "inspect" /\ x.since = task[t].since
    BY <1>1 DEF TaskRecords, CatchingUp
  <1>3. task' = [task EXCEPT ![t] = x] /\ lock = None /\ lock' = t
        /\ UNCHANGED <<journal, graph, applied, ctx, saved>>
    BY <1>1 DEF AcquireLock, projection
  <1>. HIDE DEF x
  <1>4. TaskInv(t)'
    BY <1>1, <1>2, <1>3 DEF TaskInv
  <1>. QED  BY <1>2, <1>3, <1>4, QuietCall DEF Critical

LEMMA ReturningKeeps ==
    ASSUME StoreInv, NEW t \in Tasks, Return(t)
    PROVE  StoreInv'
  <1>1. task' = [task EXCEPT ![t] = Idle] /\ task[t].pc = "done"
        /\ UNCHANGED <<journal, graph, applied, lock, ctx, saved>>
    BY DEF Return, projection
  <1>2. task \in [Tasks -> TaskRecords] /\ Len(journal) \in Nat
    BY DEF StoreInv, Types
  <1>3. TaskInv(t)'
    BY <1>1, <1>2 DEF TaskInv, Idle
  <1>. QED  BY <1>1, <1>3, IdleTyped, QuietCall DEF Critical

-----------------------------------------------------------------------------
(* The catch-up. *)

(* A step of the holder of the lock, which keeps it. *)
LEMMA HolderStep ==
    ASSUME StoreInv, NEW t \in Tasks, task[t].pc \in Critical,
           NEW x \in TaskRecords, x.pc \in Critical, task' = [task EXCEPT ![t] = x],
           journal' = journal, saved' = saved, lock' = lock,
           graph' \in Views, applied' \in Seq(Rows),
           ctx' \in [Contexts -> ContextRecords], \A c \in Contexts : ContextInv(c)',
           TaskInv(t)', Derived(graph, applied, journal)'
    PROVE  StoreInv'
  <1>1. /\ Types /\ LockInv /\ SavedInv /\ \A u \in Tasks : TaskInv(u)
        /\ task \in [Tasks -> TaskRecords] /\ lock = t
    BY DEF StoreInv, Types, LockInv
  <1>2. LockInv' /\ task' \in [Tasks -> TaskRecords]
    BY <1>1, LockKept DEF Types
  <1>3. Types'
    BY <1>1, <1>2 DEF Types
  <1>4. ASSUME NEW u \in Tasks
        PROVE  TaskInv(u)'
    <2>1. CASE u = t
      BY <2>1
    <2>2. CASE u # t
      BY <1>1, <2>2, Alone, TaskKept
    <2>. QED  BY <2>1, <2>2
  <1>5. SavedInv'
    BY <1>1, SavedKept, CallerAssumption
  <1>. QED  BY <1>2, <1>3, <1>4, <1>5 DEF StoreInv

LEMMA LearnsKeeps ==
    ASSUME StoreInv, NEW c \in Contexts, NEW confirmed \in Nat, confirmed <= Len(journal),
           NEW verified \in Seq(Rows), Begins(verified, journal),
           Learns(c, confirmed, verified), journal' = journal
    PROVE  ctx' \in [Contexts -> ContextRecords] /\ \A d \in Contexts : ContextInv(d)'
  <1>1. ctx \in [Contexts -> ContextRecords] /\ \A d \in Contexts : ContextInv(d)
    BY DEF StoreInv, Types
  <1>2. ctx' = [ctx EXCEPT ![c] =
              IF ctx[c].open
              THEN [open |-> TRUE, confirmed |-> confirmed, verified |-> verified]
              ELSE ctx[c]]
    BY DEF Learns
  <1>3. ctx' \in [Contexts -> ContextRecords]
    BY <1>1, <1>2 DEF ContextRecords
  <1>4. ASSUME NEW d \in Contexts
        PROVE  ContextInv(d)'
    <2>1. CASE d = c /\ ctx[c].open
      BY <1>1, <1>2, <2>1 DEF ContextInv
    <2>2. CASE ~(d = c /\ ctx[c].open)
      BY <1>1, <1>2, <2>2, ContextKept
    <2>. QED  BY <2>1, <2>2
  <1>. QED  BY <1>3, <1>4

(* The chain matches only if the watermark's rows begin the journal. *)
LEMMA ChainIsPrefix ==
    ASSUME StoreInv, NEW c \in Contexts, ChainMatches(c)
    PROVE  Begins(applied, journal)
  <1>. DEFINE w == Len(applied)
              verified == ctx[c].verified
  <1>1. /\ journal \in Seq(Rows) /\ applied \in Seq(Rows) /\ verified \in Seq(Rows)
        /\ Begins(verified, journal) /\ w \in Nat /\ Len(journal) \in Nat
    BY DEF StoreInv, Types, ContextRecords, ContextInv
  <1>2. CASE w = 0
    <2>1. applied = <<>>
      BY <1>1, <1>2
    <2>. QED  BY <1>1, <2>1, ClosedInv
  <1>3. CASE w > 0
    <2>. DEFINE start == IF Len(verified) < w THEN verified ELSE <<>>
    <2>1. w <= Len(journal)
          /\ applied = IF Len(verified) = w THEN verified
                       ELSE start \o SubSeq(journal, Len(start) + 1, w)
      BY <1>3 DEF ChainMatches
    <2>2. CASE Len(verified) = w
      BY <1>1, <2>1, <2>2
    <2>3. CASE Len(verified) # w
      <3>1. start \in Seq(Rows) /\ Begins(start, journal) /\ Len(start) \in 0..w
        BY <1>1, <1>3, ClosedInv
      <3>2. applied = start \o SubSeq(journal, Len(start) + 1, w)
        BY <2>1, <2>3
      <3>. HIDE DEF start
      <3>3. start = SubSeq(journal, 1, Len(start)) /\ Len(start) \in 0..Len(journal)
            /\ w \in Len(start)..Len(journal)
        BY <1>1, <2>1, <3>1 DEF Begins
      <3>4. applied = SubSeq(journal, 1, w)
        BY <1>1, <3>2, <3>3, JoinBatch
      <3>. QED  BY <2>1, <3>4 DEF Begins
    <2>. QED  BY <2>2, <2>3
  <1>. QED  BY <1>1, <1>2, <1>3

LEMMA BehindAll ==
    ASSUME NEW g, NEW a, NEW rows, Derived(g, a, rows)
    PROVE  Behind(g, a, rows, Len(a), Len(rows))
  BY DEF Derived, Behind

LEMMA InspectingKeeps ==
    ASSUME StoreInv, NEW t \in Tasks, Inspect(t)
    PROVE  StoreInv'
  <1>. DEFINE x == [task[t] EXCEPT !.pc = "apply", !.head = Len(journal)]
              c == Home[t]
  <1>1. /\ task[t] \in TaskRecords /\ TaskInv(t) /\ task \in [Tasks -> TaskRecords]
        /\ journal \in Seq(Rows) /\ applied \in Seq(Rows) /\ graph \in Views
        /\ Len(journal) \in Nat /\ c \in Contexts
        /\ ctx \in [Contexts -> ContextRecords] /\ \A d \in Contexts : ContextInv(d)
        /\ Derived(graph, applied, journal)
    BY HomeAssumption DEF StoreInv, Types
  <1>2. /\ task' = [task EXCEPT ![t] = x] /\ ctx[c].open
        /\ journal' = journal /\ saved' = saved /\ lock' = lock /\ task[t].pc = "inspect"
    BY <1>1 DEF Inspect
  <1>3. /\ x \in TaskRecords /\ x.pc = "apply" /\ x.head = Len(journal)
        /\ x.since = task[t].since
    BY <1>1 DEF TaskRecords, CatchingUp
  <1>. HIDE DEF x
  <1>4. CASE Begins(applied, journal) /\ UNCHANGED projection
               /\ ctx' = [ctx EXCEPT ![c].verified = IF applied = <<>> THEN @ ELSE applied]
    <2>1. ctx' \in [Contexts -> ContextRecords]
      BY <1>1, <1>4 DEF ContextRecords
    <2>2. \A d \in Contexts : ContextInv(d)'
      <3>. SUFFICES ASSUME NEW d \in Contexts PROVE ContextInv(d)'
        OBVIOUS
      <3>1. CASE d = c
        BY <1>1, <1>2, <1>4, <3>1 DEF ContextInv, ContextRecords
      <3>2. CASE d # c
        BY <1>1, <1>2, <1>4, <3>2, ContextKept
      <3>. QED  BY <3>1, <3>2
    <2>3. Behind(graph, applied, journal, Len(applied), Len(journal))
      BY <1>1, BehindAll
    <2>4. TaskInv(t)'
      BY <1>1, <1>2, <1>3, <1>4, <2>3 DEF TaskInv, projection
    <2>5. Derived(graph, applied, journal)'
      BY <1>1, <1>2, <1>4 DEF projection
    <2>. QED  BY <1>1, <1>2, <1>3, <1>4, <2>1, <2>2, <2>4, <2>5, HolderStep
              DEF Critical, projection
  <1>5. CASE graph' = Empty /\ applied' = <<>> /\ UNCHANGED ctx
    <2>1. Begins(applied', journal) /\ applied' \in Seq(Rows)
      BY <1>1, <1>5, ClosedInv
    <2>2. graph' = Log!Contents(applied') /\ graph' \in Views
      BY <1>5, EmptyIsContents
    <2>3. ctx' \in [Contexts -> ContextRecords] /\ \A d \in Contexts : ContextInv(d)'
      BY <1>1, <1>2, <1>5, ContextKept
    <2>4. Behind(graph', applied', journal, Len(applied'), Len(journal))
      BY <2>2 DEF Behind
    <2>5. TaskInv(t)'
      BY <1>1, <1>2, <1>3, <2>1, <2>4 DEF TaskInv
    <2>6. Derived(graph, applied, journal)'
      BY <2>2 DEF Derived
    <2>. QED  BY <1>2, <1>3, <2>1, <2>2, <2>3, <2>5, <2>6, HolderStep DEF Critical
  <1>. QED  BY <1>1, <1>4, <1>5, ChainIsPrefix DEF Inspect

LEMMA BatchIs ==
    ASSUME StoreInv, NEW t \in Tasks, task[t].pc = "apply"
    PROVE  \E u \in Len(applied)..Len(journal) :
              Batch(t) = SubSeq(journal, Len(applied) + 1, u)
  <1>. DEFINE w == Len(applied)
              limit == IF task[t].head - w >= BulkMin THEN BulkBatch ELSE ReplayBatch
              u == IF w + limit < Len(journal) THEN w + limit ELSE Len(journal)
  <1>1. Begins(applied, journal) /\ Len(journal) \in Nat /\ w \in Nat
    BY DEF StoreInv, TaskInv, Types
  <1>2. limit \in Nat
    BY BatchAssumption
  <1>. HIDE DEF limit
  <1>3. u \in w..Len(journal)
    BY <1>1, <1>2 DEF Begins
  <1>4. Batch(t) = SubSeq(journal, w + 1, u)
    BY DEF Batch, limit
  <1>. QED  BY <1>3, <1>4

LEMMA ApplyingKeeps ==
    ASSUME StoreInv, NEW t \in Tasks, ApplyBatch(t)
    PROVE  StoreInv'
  <1>1. /\ task[t] \in TaskRecords /\ TaskInv(t) /\ task \in [Tasks -> TaskRecords]
        /\ journal \in Seq(Rows) /\ applied \in Seq(Rows) /\ graph \in Views
        /\ Len(journal) \in Nat /\ Home[t] \in Contexts /\ task[t].pc = "apply"
        /\ ContextInv(Home[t]) /\ ctx[Home[t]] \in ContextRecords
        /\ Derived(graph, applied, journal)
    BY HomeAssumption DEF StoreInv, Types, ApplyBatch, Applying
  <1>2. Begins(applied, journal) /\ Behind(graph, applied, journal, Len(applied), task[t].head)
        /\ task[t].head \in Nat
    BY <1>1 DEF TaskInv, TaskRecords
  <1>3. PICK u \in Len(applied)..Len(journal) :
               Batch(t) = SubSeq(journal, Len(applied) + 1, u)
    BY <1>1, BatchIs
  <1>. DEFINE b == SubSeq(journal, Len(applied) + 1, u)
              after == SubSeq(journal, 1, u)
  <1>4. /\ b \in Seq(Rows) /\ applied \o b = after /\ Loaded(b) \in Views
    BY <1>1, <1>2, LoadedBatch
  <1>5. u \in 0..Len(journal) /\ u \in Nat
    BY <1>1
  <1>6. after \in Seq(Rows) /\ Len(after) = u /\ Begins(after, journal)
    BY <1>1, <1>5, PrefixOf
  <1>7. Behind(Loaded(b), after, journal, u, task[t].head)
    BY <1>1, <1>2, LoadedBehind
  <1>8. Behind(Loaded(b), after, journal, u, Len(journal))
    BY <1>1, <1>2, LoadedBehind, BehindAll
  <1>9. /\ graph' = Loaded(b) /\ applied' = after
        /\ UNCHANGED <<journal, lock, task, saved>>
        /\ Learns(Home[t], Len(applied'), ctx[Home[t]].verified)
    BY <1>3, <1>4 DEF ApplyBatch
  <1>. HIDE DEF b, after
  <1>10. ctx' \in [Contexts -> ContextRecords] /\ \A d \in Contexts : ContextInv(d)'
    BY <1>1, <1>5, <1>6, <1>9, LearnsKeeps DEF ContextInv, ContextRecords
  <1>11. TaskInv(t)'
    BY <1>1, <1>6, <1>7, <1>9 DEF TaskInv
  <1>12. Derived(graph, applied, journal)'
    BY <1>6, <1>8, <1>9 DEF Derived
  <1>13. task' = [task EXCEPT ![t] = task[t]] /\ task[t].pc \in Critical
    BY <1>1, <1>9 DEF Critical
  <1>. QED  BY <1>1, <1>4, <1>6, <1>9, <1>10, <1>11, <1>12, <1>13, HolderStep

LEMMA BulkLoadKeeps ==
    ASSUME StoreInv, NEW t \in Tasks, BulkLoad(t)
    PROVE  StoreInv'
  <1>1. /\ task[t] \in TaskRecords /\ TaskInv(t) /\ task \in [Tasks -> TaskRecords]
        /\ journal \in Seq(Rows) /\ applied \in Seq(Rows) /\ graph \in Views
        /\ Len(journal) \in Nat /\ task[t].pc = "apply"
        /\ ctx \in [Contexts -> ContextRecords] /\ \A d \in Contexts : ContextInv(d)
        /\ Derived(graph, applied, journal)
    BY DEF StoreInv, Types, BulkLoad, Applying
  <1>2. Begins(applied, journal) /\ Behind(graph, applied, journal, Len(applied), task[t].head)
        /\ task[t].head \in Nat
    BY <1>1 DEF TaskInv, TaskRecords
  <1>3. PICK u \in Len(applied)..Len(journal) :
               Batch(t) = SubSeq(journal, Len(applied) + 1, u)
    BY <1>1, BatchIs
  <1>. DEFINE b == SubSeq(journal, Len(applied) + 1, u)
              after == SubSeq(journal, 1, u)
              x == [task[t] EXCEPT !.pc = "mark", !.upto = u]
  <1>4. /\ Len(b) = u - Len(applied) /\ Loaded(b) \in Views
        /\ \A s \in Subjects : s \notin Written(b) => Loaded(b)[s] = graph[s]
    BY <1>1, <1>2, LoadedBatch
  <1>5. u \in Nat /\ Len(applied) + Len(b) = u /\ u >= Len(applied) /\ u <= Len(journal)
    BY <1>1, <1>4
  <1>6. Behind(Loaded(b), after, journal, u, task[t].head)
    BY <1>1, <1>2, LoadedBehind
  <1>7. Behind(Loaded(b), applied, journal, Len(applied), Len(journal))
    BY <1>1, <1>2, <1>4, BehindAll, PartLoaded
  <1>8. /\ graph' = Loaded(b) /\ task' = [task EXCEPT ![t] = x]
        /\ UNCHANGED <<journal, applied, lock, ctx, saved>>
    BY <1>1, <1>3, <1>5 DEF BulkLoad
  <1>9. x \in TaskRecords /\ x.pc = "mark" /\ x.upto = u /\ x.head = task[t].head
        /\ x.since = task[t].since
    BY <1>1, <1>5 DEF TaskRecords, CatchingUp
  <1>. HIDE DEF x, b, after
  <1>10. ctx' \in [Contexts -> ContextRecords] /\ \A d \in Contexts : ContextInv(d)'
    BY <1>1, <1>8, ContextKept
  <1>11. TaskInv(t)'
    BY <1>1, <1>5, <1>6, <1>8, <1>9 DEF TaskInv, after
  <1>12. Derived(graph, applied, journal)'
    BY <1>2, <1>7, <1>8 DEF Derived
  <1>. QED  BY <1>1, <1>4, <1>8, <1>9, <1>10, <1>11, <1>12, HolderStep DEF Critical

LEMMA MarkingKeeps ==
    ASSUME StoreInv, NEW t \in Tasks, BulkMark(t)
    PROVE  StoreInv'
  <1>. DEFINE u == task[t].upto
              after == SubSeq(journal, 1, u)
              x == [task[t] EXCEPT !.pc = "apply", !.upto = 0]
  <1>1. /\ task[t] \in TaskRecords /\ TaskInv(t) /\ task \in [Tasks -> TaskRecords]
        /\ journal \in Seq(Rows) /\ applied \in Seq(Rows) /\ graph \in Views
        /\ Len(journal) \in Nat /\ task[t].pc = "mark" /\ Home[t] \in Contexts
        /\ ContextInv(Home[t]) /\ ctx[Home[t]] \in ContextRecords
        /\ Derived(graph, applied, journal)
    <2>1. Home[t] \in Contexts /\ task[t].pc = "mark"
      BY HomeAssumption DEF BulkMark
    <2>. QED  BY <2>1 DEF StoreInv, Types
  <1>2. /\ u \in Nat /\ u \in 0..Len(journal) /\ u <= Len(journal)
        /\ Behind(graph, after, journal, u, task[t].head)
    BY <1>1 DEF TaskInv, TaskRecords
  <1>3. after \in Seq(Rows) /\ Len(after) = u /\ Begins(after, journal)
    BY <1>1, <1>2, PrefixOf
  <1>4. /\ applied' = after /\ task' = [task EXCEPT ![t] = x]
        /\ UNCHANGED <<journal, graph, lock, saved>>
        /\ Learns(Home[t], u, ctx[Home[t]].verified)
    BY <1>1 DEF BulkMark
  <1>5. x \in TaskRecords /\ x.pc = "apply" /\ x.head = task[t].head /\ x.since = task[t].since
    BY <1>1 DEF TaskRecords, CatchingUp
  <1>. HIDE DEF x, after
  <1>6. ctx' \in [Contexts -> ContextRecords] /\ \A d \in Contexts : ContextInv(d)'
    BY <1>1, <1>2, <1>4, LearnsKeeps DEF ContextInv, ContextRecords
  <1>7. Behind(graph, after, journal, u, Len(journal))
    <2>1. task[t].head <= Len(journal) /\ task[t].head \in Nat
      BY <1>1 DEF TaskInv, TaskRecords
    <2>2. \A i \in u + 1..task[t].head : i \in u + 1..Len(journal)
      BY <1>1, <2>1
    <2>. QED  BY <1>2, <2>2 DEF Behind
  <1>8. TaskInv(t)'
    BY <1>1, <1>2, <1>3, <1>4, <1>5 DEF TaskInv
  <1>9. Derived(graph, applied, journal)'
    BY <1>3, <1>4, <1>7 DEF Derived
  <1>. QED  BY <1>1, <1>3, <1>4, <1>5, <1>6, <1>8, <1>9, HolderStep DEF Critical

(* What NeverPastJournal says of the end of a catch-up. *)
LEMMA AtTheEnd ==
    ASSUME StoreInv, NEW t \in Tasks, task[t].pc = "apply", Len(applied) >= task[t].head
    PROVE  /\ Begins(applied, journal) /\ graph = Log!Contents(applied)
           /\ Len(applied) \in 0..Len(journal) /\ task[t].since <= Len(applied)
  <1>1. /\ TaskInv(t) /\ task[t] \in TaskRecords /\ applied \in Seq(Rows) /\ graph \in Views
        /\ journal \in Seq(Rows)
    BY DEF StoreInv, Types
  <1>2. /\ Begins(applied, journal) /\ task[t].since <= task[t].head
        /\ Behind(graph, applied, journal, Len(applied), task[t].head)
        /\ task[t].head \in Nat /\ task[t].since \in Nat /\ Len(applied) \in Nat
    BY <1>1 DEF TaskInv, TaskRecords
  <1>3. graph = Log!Contents(applied)
    BY <1>1, <1>2, CaughtUp
  <1>. QED  BY <1>1, <1>2, <1>3 DEF Begins

LEMMA FinishingKeeps ==
    ASSUME StoreInv, NEW t \in Tasks, Finish(t)
    PROVE  StoreInv'
  <1>1. /\ task[t] \in TaskRecords /\ TaskInv(t) /\ task \in [Tasks -> TaskRecords]
        /\ journal \in Seq(Rows) /\ applied \in Seq(Rows) /\ graph \in Views
        /\ Len(journal) \in Nat /\ Home[t] \in Contexts /\ LockInv
    BY HomeAssumption DEF StoreInv, Types
  <1>2. /\ task[t].pc = "apply" /\ Len(applied) >= task[t].head /\ lock' = None
        /\ Learns(Home[t], Len(applied), applied)
        /\ UNCHANGED <<journal, graph, applied, saved>>
    BY DEF Finish, projection
  <1>3. Begins(applied, journal) /\ Len(applied) \in 0..Len(journal) /\ lock = t
    BY <1>1, <1>2, AtTheEnd DEF LockInv, Critical
  <1>4. ctx' \in [Contexts -> ContextRecords] /\ \A d \in Contexts : ContextInv(d)'
    BY <1>1, <1>2, <1>3, LearnsKeeps
  <1>5. ASSUME NEW view \in Views, Answers(t, view)
        PROVE  StoreInv'
    <2>. DEFINE x == [task[t] EXCEPT !.pc = "done", !.view = view]
    <2>1. x \in TaskRecords /\ x.pc = "done" /\ x.since = task[t].since
      BY <1>1 DEF TaskRecords
    <2>2. task' = [task EXCEPT ![t] = x]
      BY <1>1, <1>5 DEF Answers
    <2>. HIDE DEF x
    <2>3. TaskInv(t)'
      BY <1>1, <1>2, <2>1, <2>2 DEF TaskInv
    <2>. QED  BY <1>2, <1>3, <1>4, <2>1, <2>2, <2>3, QuietStep DEF Critical
  <1>6. CASE task' = [task EXCEPT ![t] = Idle]
    <2>1. TaskInv(t)'
      BY <1>1, <1>2, <1>6 DEF TaskInv, Idle
    <2>. QED  BY <1>2, <1>3, <1>4, <1>6, <2>1, IdleTyped, QuietStep DEF Critical
  <1>7. Log!Contents(SubSeq(journal, 1, Len(applied))) \in Views
    BY <1>1, <1>3, PrefixOf, ContentsType
  <1>. QED  BY <1>1, <1>5, <1>6, <1>7 DEF Finish

-----------------------------------------------------------------------------
(* Errors, and processes that stop. *)

LEMMA CutShortKeeps ==
    ASSUME StoreInv, NEW t \in Tasks, CutShort(t), UNCHANGED <<journal, applied>>
    PROVE  /\ graph' \in Views /\ Derived(graph, applied, journal)'
           /\ graph' # graph => task[t].pc = "apply"
  <1>1. /\ graph \in Views /\ journal \in Seq(Rows) /\ applied \in Seq(Rows)
        /\ Derived(graph, applied, journal) /\ TaskInv(t)
    BY DEF StoreInv, Types
  <1>2. CASE UNCHANGED graph
    BY <1>1, <1>2
  <1>3. CASE /\ Applying(t)
             /\ \E loaded \in SUBSET Written(Batch(t)) :
                   graph' = [s \in Subjects |->
                               IF s \in loaded THEN Loaded(Batch(t))[s] ELSE graph[s]]
    <2>1. PICK loaded \in SUBSET Written(Batch(t)) :
                   graph' = [s \in Subjects |->
                               IF s \in loaded THEN Loaded(Batch(t))[s] ELSE graph[s]]
      BY <1>3
    <2>2. task[t].pc = "apply" /\ Begins(applied, journal)
      BY <1>1, <1>3 DEF Applying, TaskInv
    <2>3. PICK u \in Len(applied)..Len(journal) :
                 Batch(t) = SubSeq(journal, Len(applied) + 1, u)
      BY <2>2, BatchIs
    <2>4. Loaded(Batch(t)) \in Views
      BY <1>1, <2>2, <2>3, LoadedBatch
    <2>5. graph' \in Views /\ \A s \in Subjects : s \notin loaded => graph'[s] = graph[s]
      BY <1>1, <2>1, <2>4 DEF Views
    <2>6. loaded \subseteq Written(SubSeq(journal, Len(applied) + 1, u))
      BY <2>3
    <2>7. Behind(graph', applied, journal, Len(applied), Len(journal))
      BY <1>1, <2>2, <2>5, <2>6, BehindAll, PartLoaded
    <2>. QED  BY <2>2, <2>5, <2>7 DEF Derived
  <1>. QED  BY <1>2, <1>3 DEF CutShort

LEMMA FailingKeeps ==
    ASSUME StoreInv, NEW t \in Tasks, Fail(t)
    PROVE  StoreInv'
  <1>1. /\ Types /\ LockInv /\ SavedInv /\ \A u \in Tasks : TaskInv(u)
        /\ \A c \in Contexts : ContextInv(c)
        /\ ctx \in [Contexts -> ContextRecords] /\ task \in [Tasks -> TaskRecords]
        /\ journal \in Seq(Rows) /\ Len(journal) \in Nat /\ Home[t] \in Contexts
    BY HomeAssumption DEF StoreInv, Types
  <1>2. /\ CutShort(t) /\ task' = [task EXCEPT ![t] = Idle]
        /\ lock' = (IF lock = t THEN None ELSE lock)
        /\ UNCHANGED <<journal, applied, saved>>
        /\ ctx' = ctx \/ ctx' = [ctx EXCEPT ![Home[t]] = Closed]
    BY DEF Fail
  <1>3. /\ graph' \in Views /\ Derived(graph, applied, journal)'
        /\ graph' # graph => task[t].pc = "apply"
    BY <1>2, CutShortKeeps
  <1>4. LockInv' /\ lock' \in Tasks \cup {None, "snapshot"} /\ task' \in [Tasks -> TaskRecords]
    BY <1>1, <1>2, IdleTyped, LockKept DEF Types, LockInv, Critical
  <1>5. ctx' \in [Contexts -> ContextRecords]
    BY <1>1, <1>2, ClosedInv
  <1>6. ASSUME NEW c \in Contexts
        PROVE  ContextInv(c)'
    <2>1. CASE ctx'[c] = ctx[c]
      BY <1>1, <1>2, <2>1, ContextKept
    <2>2. CASE ctx'[c] = Closed
      BY <1>1, <1>2, <2>2, ClosedInv DEF ContextInv, Closed
    <2>. QED  BY <1>1, <1>2, <2>1, <2>2
  <1>7. ASSUME NEW u \in Tasks
        PROVE  TaskInv(u)'
    <2>1. CASE u = t
      BY <1>1, <1>2, <2>1 DEF TaskInv, Idle
    <2>2. CASE u # t
      <3>1. graph' = graph \/ task[u].pc \notin {"apply", "mark"}
        BY <1>1, <1>3, <2>2, Alone DEF Critical
      <3>. QED  BY <1>1, <1>2, <2>2, <3>1, TaskKept
    <2>. QED  BY <2>1, <2>2
  <1>8. lock' = "snapshot" => lock = "snapshot" /\ graph' = graph
    <2>1. lock' = "snapshot" => lock = "snapshot" /\ lock # t
      BY <1>2, CallerAssumption
    <2>2. lock # t => task[t].pc # "apply"
      BY <1>1 DEF LockInv, Critical
    <2>. QED  BY <1>3, <2>1, <2>2
  <1>9. SavedInv'
    BY <1>1, <1>2, <1>8, SavedKept
  <1>10. Types'
    BY <1>1, <1>2, <1>3, <1>4, <1>5 DEF Types
  <1>. QED  BY <1>3, <1>4, <1>6, <1>7, <1>9, <1>10 DEF StoreInv

LEMMA CrashKeeps ==
    ASSUME StoreInv, NEW c \in Contexts, Crash(c)
    PROVE  StoreInv'
  <1>1. /\ Types /\ LockInv /\ SavedInv /\ \A u \in Tasks : TaskInv(u)
        /\ \A d \in Contexts : ContextInv(d) /\ Derived(graph, applied, journal)
        /\ ctx \in [Contexts -> ContextRecords] /\ task \in [Tasks -> TaskRecords]
        /\ journal \in Seq(Rows) /\ Len(journal) \in Nat /\ graph \in Views
    BY DEF StoreInv, Types
  <1>2. /\ lock' = (IF lock \in TasksOf(c) THEN None ELSE lock)
        /\ task' = [u \in Tasks |-> IF u \in TasksOf(c) THEN Idle ELSE task[u]]
        /\ UNCHANGED <<journal, applied, saved>>
        /\ ctx' = [ctx EXCEPT ![c] = Closed] /\ TasksOf(c) \subseteq Tasks
    BY DEF Crash, TasksOf
  <1>3. /\ graph' \in Views /\ Derived(graph, applied, journal)'
        /\ graph' # graph => lock \in TasksOf(c)
    <2>1. CASE lock \in TasksOf(c)
      BY <1>2, <2>1, CutShortKeeps DEF Crash
    <2>2. CASE lock \notin TasksOf(c)
      BY <1>1, <1>2, <2>2 DEF Crash
    <2>. QED  BY <2>1, <2>2
  <1>4. task' \in [Tasks -> TaskRecords] /\ lock' \in Tasks \cup {None, "snapshot"}
    BY <1>1, <1>2, IdleTyped DEF Types
  <1>5. LockInv'
    BY <1>1, <1>2, IdleTyped, CallerAssumption DEF LockInv, Critical
  <1>6. ctx' \in [Contexts -> ContextRecords]
    BY <1>1, <1>2, ClosedInv
  <1>7. ASSUME NEW d \in Contexts
        PROVE  ContextInv(d)'
    <2>1. CASE d = c
      BY <1>1, <1>2, <2>1, ClosedInv DEF ContextInv, Closed
    <2>2. CASE d # c
      BY <1>1, <1>2, <2>2, ContextKept
    <2>. QED  BY <2>1, <2>2
  <1>8. ASSUME NEW u \in Tasks
        PROVE  TaskInv(u)'
    <2>1. CASE u \in TasksOf(c)
      BY <1>1, <1>2, <2>1 DEF TaskInv, Idle
    <2>2. CASE u \notin TasksOf(c)
      <3>1. graph' = graph \/ task[u].pc \notin {"apply", "mark"}
        BY <1>1, <1>3, <2>2 DEF LockInv, Critical
      <3>. QED  BY <1>1, <1>2, <2>2, <3>1, TaskKept
    <2>. QED  BY <2>1, <2>2
  <1>9. SavedInv'
    <2>1. lock' = "snapshot" => lock = "snapshot" /\ graph' = graph
      BY <1>2, <1>3, CallerAssumption
    <2>. QED  BY <1>1, <1>2, <2>1, SavedKept
  <1>10. Types'
    BY <1>1, <1>2, <1>3, <1>4, <1>6 DEF Types
  <1>. QED  BY <1>3, <1>5, <1>7, <1>8, <1>9, <1>10 DEF StoreInv

LEMMA ClosingKeeps ==
    ASSUME StoreInv, NEW c \in Contexts, Close(c)
    PROVE  StoreInv'
  <1>1. /\ Types /\ LockInv /\ SavedInv /\ \A u \in Tasks : TaskInv(u)
        /\ \A d \in Contexts : ContextInv(d) /\ Derived(graph, applied, journal)
        /\ ctx \in [Contexts -> ContextRecords] /\ journal \in Seq(Rows)
    BY DEF StoreInv, Types
  <1>2. /\ UNCHANGED <<journal, graph, applied, lock, task, saved>>
        /\ ctx' = [ctx EXCEPT ![c] = Closed]
    BY DEF Close, projection
  <1>3. ctx' \in [Contexts -> ContextRecords]
    BY <1>1, <1>2, ClosedInv
  <1>4. ASSUME NEW d \in Contexts
        PROVE  ContextInv(d)'
    <2>1. CASE d = c
      BY <1>1, <1>2, <2>1, ClosedInv DEF ContextInv, Closed
    <2>2. CASE d # c
      BY <1>1, <1>2, <2>2, ContextKept
    <2>. QED  BY <2>1, <2>2
  <1>5. \A u \in Tasks : TaskInv(u)'
    BY <1>1, <1>2, TaskKept
  <1>6. Types' /\ LockInv' /\ SavedInv' /\ Derived(graph, applied, journal)'
    BY <1>1, <1>2, <1>3, SavedKept DEF Types, LockInv
  <1>. QED  BY <1>4, <1>5, <1>6 DEF StoreInv

-----------------------------------------------------------------------------
(* Snapshots, and what operators put in place of the files. *)

LEMMA SnapshotKeeps ==
    ASSUME StoreInv, SnapshotProjection \/ SnapshotJournal
    PROVE  StoreInv'
  <1>1. /\ Types /\ LockInv /\ SavedInv /\ Derived(graph, applied, journal)
        /\ \A u \in Tasks : TaskInv(u)
        /\ \A d \in Contexts : ContextInv(d)
    BY DEF StoreInv
  <1>2. /\ UNCHANGED <<journal, graph, applied, ctx, task>>
        /\ lock \in {None, "snapshot"} /\ lock' \in {None, "snapshot"}
    BY DEF SnapshotProjection, SnapshotJournal, projection
  <1>3. \A d \in Contexts : ContextInv(d)'
    BY <1>1, <1>2, ContextKept
  <1>4. \A u \in Tasks : TaskInv(u)'
    BY <1>1, <1>2, TaskKept
  <1>5. Types' /\ LockInv' /\ Derived(graph, applied, journal)'
    BY <1>1, <1>2, CallerAssumption DEF Types, LockInv
  <1>6. SavedInv'
    <2>1. CASE SnapshotProjection
      BY <1>1, <1>2, <2>1 DEF SnapshotProjection, SavedInv, Types
    <2>2. CASE SnapshotJournal
      <3>1. /\ saved' = [saved EXCEPT !.journal = journal] /\ lock' = None
            /\ saved.graph = graph /\ saved.applied = applied
        BY <1>1, <2>2 DEF SnapshotJournal, SavedInv
      <3>2. saved'.graph = saved.graph /\ saved'.applied = saved.applied
        BY <3>1
      <3>3. saved'.journal # None => saved'.journal = journal
        BY <3>1
      <3>. QED  BY <1>1, <1>2, <3>1, <3>2, <3>3, CallerAssumption DEF SavedInv, Types
    <2>. QED  BY <2>1, <2>2
  <1>. QED  BY <1>3, <1>4, <1>5, <1>6 DEF StoreInv

(* Nobody uses the store: any journal may be put there, beside a projection *)
(* that was derived from it, or is whole.                                   *)
LEMMA ReplacedKeeps ==
    ASSUME StoreInv, Unused, UNCHANGED <<lock, ctx, task, saved>>,
           journal' \in Seq(Rows), Len(journal') <= MaxRows,
           graph' \in Views, applied' \in Seq(Rows), Derived(graph, applied, journal)'
    PROVE  StoreInv'
  <1>1. /\ Types /\ LockInv /\ SavedInv
        /\ \A u \in Tasks : TaskInv(u) /\ task[u].pc = "idle"
        /\ \A d \in Contexts : ContextInv(d) /\ ~ctx[d].open
        /\ lock = None /\ Len(journal') \in Nat
    BY DEF StoreInv, Unused
  <1>2. \A d \in Contexts : ContextInv(d)'
    <2>1. Begins(<<>>, journal')
      BY EmptyBegins
    <2>. QED  BY <1>1, <2>1 DEF ContextInv, Closed
  <1>3. \A u \in Tasks : TaskInv(u)'
    BY <1>1 DEF TaskInv, Idle
  <1>4. Types' /\ LockInv'
    BY <1>1 DEF Types, LockInv
  <1>5. SavedInv'
    BY <1>1, CallerAssumption DEF SavedInv
  <1>. QED  BY <1>2, <1>3, <1>4, <1>5 DEF StoreInv

LEMMA RestoringKeeps ==
    ASSUME StoreInv, Restore
    PROVE  StoreInv'
  <1>1. /\ saved.journal \in Seq(Rows) /\ Len(saved.journal) <= MaxRows
        /\ Derived(saved.graph, saved.applied, saved.journal)
        /\ saved.graph \in Views /\ saved.applied \in Seq(Rows)
    BY DEF StoreInv, SavedInv, Restore
  <1>2. journal' = saved.journal /\ Unused /\ UNCHANGED <<lock, ctx, task, saved>>
    BY DEF Restore
  <1>3. CASE graph' = saved.graph /\ applied' = saved.applied
    BY <1>1, <1>2, <1>3, ReplacedKeeps
  <1>4. CASE graph' = Empty /\ applied' = <<>>
    <2>1. applied' \in Seq(Rows) /\ graph' \in Views /\ Derived(graph, applied, journal)'
      BY <1>4, EmptyIsContents DEF Derived
    <2>. QED  BY <1>1, <1>2, <2>1, ReplacedKeeps
  <1>. QED  BY <1>3, <1>4 DEF Restore

(* The sequences that are put together have rows only: the recursive        *)
(* function of FlattenSeq exists up to any length.                          *)
Flattens(f, seqs, k) ==
    f = [i \in 1..k |-> IF i = 1 THEN seqs[i] ELSE f[i - 1] \o seqs[i]]

LEMMA FlattensFurther ==
    ASSUME NEW seqs, NEW k \in Nat, k > 1, NEW f, Flattens(f, seqs, k - 1)
    PROVE  \E g : Flattens(g, seqs, k)
  <1>. DEFINE g == [i \in 1..k |-> IF i = k THEN f[k - 1] \o seqs[k] ELSE f[i]]
  <1>1. \A i \in 1..k - 1 : f[i] = IF i = 1 THEN seqs[i] ELSE f[i - 1] \o seqs[i]
    BY DEF Flattens
  <1>2. ASSUME NEW i \in 1..k
        PROVE  g[i] = IF i = 1 THEN seqs[i] ELSE g[i - 1] \o seqs[i]
    <2>1. CASE i = k
      <3>1. k - 1 \in 1..k
        OBVIOUS
      <3>2. k - 1 # k
        OBVIOUS
      <3>3. g[k - 1] = f[k - 1]
        BY <3>1, <3>2
      <3>4. k \in 1..k /\ k # 1
        OBVIOUS
      <3>5. g[k] = f[k - 1] \o seqs[k]
        BY <3>4
      <3>. HIDE DEF g
      <3>. QED  BY <2>1, <3>3, <3>4, <3>5
    <2>2. CASE i # k
      <3>1. i \in 1..k - 1 /\ g[i] = f[i]
        BY <2>2
      <3>2. i # 1 => i - 1 \in 1..k /\ i - 1 # k
        BY <2>2
      <3>3. i # 1 => g[i - 1] = f[i - 1]
        BY <3>2
      <3>. HIDE DEF g
      <3>. QED  BY <1>1, <3>1, <3>3
    <2>. QED  BY <2>1, <2>2
  <1>3. g = [i \in 1..k |-> g[i]]
    OBVIOUS
  <1>. HIDE DEF g
  <1>4. Flattens(g, seqs, k)
    BY <1>2, <1>3 DEF Flattens
  <1>. QED  BY <1>4

LEMMA FlattensAll ==
    ASSUME NEW seqs, NEW n \in Nat, n > 0
    PROVE  \E f : Flattens(f, seqs, n)
  <1>. DEFINE Bad == {k \in Nat : k > 0 /\ ~\E f : Flattens(f, seqs, k)}
  <1>1. ASSUME Bad # {}
        PROVE  FALSE
    <2>1. PICK k \in Bad : \A i \in Bad : k <= i
      <3>1. Bad \subseteq Nat
        OBVIOUS
      <3>. HIDE DEF Bad
      <3>. QED  BY <1>1, <3>1, LeastNat
    <2>2. k \in Nat /\ k > 0 /\ ~\E f : Flattens(f, seqs, k)
      OBVIOUS
    <2>3. CASE k = 1
      <3>. DEFINE g == [i \in 1..1 |-> seqs[i]]
      <3>1. Flattens(g, seqs, 1)
        BY DEF Flattens
      <3>. QED  BY <2>2, <2>3, <3>1
    <2>4. CASE k # 1
      <3>1. k - 1 \in Nat /\ k - 1 > 0 /\ k > 1 /\ ~(k <= k - 1)
        BY <2>2, <2>4
      <3>2. k - 1 \notin Bad
        BY <2>1, <3>1
      <3>3. \E f : Flattens(f, seqs, k - 1)
        BY <3>1, <3>2
      <3>. QED  BY <2>2, <3>1, <3>3, FlattensFurther
    <2>. QED  BY <2>3, <2>4
  <1>2. n \notin Bad
    BY <1>1
  <1>. QED  BY <1>2

LEMMA FlattenType ==
    ASSUME NEW S, NEW seqs \in Seq(Seq(S))
    PROVE  FlattenSeq(seqs) \in Seq(S)
  <1>. DEFINE n == Len(seqs)
  <1>1. n \in Nat /\ \A i \in 1..n : seqs[i] \in Seq(S)
    OBVIOUS
  <1>2. CASE n = 0
    <2>1. seqs = <<>> /\ <<>> \in Seq(S)
      BY <1>2
    <2>. QED  BY <1>2, <2>1 DEF FlattenSeq
  <1>3. CASE n > 0
    <2>. DEFINE h   == CHOOSE f : Flattens(f, seqs, n)
                Bad == {i \in 1..n : h[i] \notin Seq(S)}
    <2>1. Flattens(h, seqs, n)
      <3>1. \E f : Flattens(f, seqs, n)
        BY <1>1, <1>3, FlattensAll
      <3>. QED  BY <3>1
    <2>2. FlattenSeq(seqs) = h[n]
      BY <1>1, <1>3 DEF FlattenSeq, Flattens
    <2>. HIDE DEF h
    <2>3. \A i \in 1..n : h[i] = IF i = 1 THEN seqs[i] ELSE h[i - 1] \o seqs[i]
      BY <2>1 DEF Flattens
    <2>. HIDE DEF n
    <2>4. ASSUME Bad # {}
          PROVE  FALSE
      <3>1. Bad \subseteq Nat
        BY <1>1
      <3>2. PICK k \in Bad : \A i \in Bad : k <= i
        <4>. HIDE DEF Bad
        <4>. QED  BY <2>4, <3>1, LeastNat
      <3>3. k \in 1..n /\ h[k] \notin Seq(S) /\ k # 1
        BY <1>1, <2>3
      <3>4. k - 1 \in 1..n /\ ~(k <= k - 1)
        BY <1>1, <3>3
      <3>5. h[k - 1] \in Seq(S)
        BY <3>2, <3>4
      <3>6. h[k] = h[k - 1] \o seqs[k] /\ seqs[k] \in Seq(S)
        BY <1>1, <2>3, <3>3
      <3>. QED  BY <3>3, <3>5, <3>6
    <2>5. n \in 1..n /\ n \notin Bad
      BY <1>1, <1>3, <2>4
    <2>. QED  BY <2>2, <2>5
  <1>. QED  BY <1>1, <1>2, <1>3

LEMMA OtherJournal ==
    ASSUME NEW n \in Nat, NEW requests \in SeqOf(Requests, n)
    PROVE  FlattenSeq([i \in DOMAIN requests |-> RowsOf(requests[i])]) \in Seq(Rows)
  <1>1. PICK m \in 0..n : requests \in [1..m -> Requests]
    BY DEF SeqOf
  <1>2. m \in Nat /\ DOMAIN requests = 1..m /\ \A i \in 1..m : RowsOf(requests[i]) \in Seq(Rows)
    BY <1>1, RowTypes
  <1>3. [i \in 1..m |-> RowsOf(requests[i])] \in Seq(Seq(Rows))
    <2>1. [i \in 1..m |-> RowsOf(requests[i])] \in [1..m -> Seq(Rows)]
      BY <1>2
    <2>. QED  BY <1>2, <2>1, SeqDef
  <1>. QED  BY <1>2, <1>3, FlattenType

LEMMA ReplacingKeeps ==
    ASSUME StoreInv, Untouched, ReplaceJournal
    PROVE  StoreInv'
  <1>1. Cardinality(Ops) \in Nat
    <2>. DEFINE f == [r \in Requests |-> r.op]
    <2>1. f \in Surjection(Requests, Ops)
      BY DEF Surjection, Ops
    <2>. QED  BY <2>1, CallerAssumption, FS_Surjection, FS_CardinalityType
  <1>2. journal' \in Seq(Rows) /\ Len(journal') <= MaxRows
    BY <1>1, OtherJournal DEF ReplaceJournal
  <1>3. Unused /\ UNCHANGED <<graph, applied, lock, ctx, task, saved>>
    BY DEF ReplaceJournal, projection
  <1>4. graph' \in Views /\ applied' \in Seq(Rows) /\ Derived(graph, applied, journal)'
    BY <1>3 DEF StoreInv, Types, Derived, Untouched
  <1>. QED  BY <1>2, <1>3, <1>4, ReplacedKeeps

LEMMA StartsRight == Init => StoreInv
  <1>. SUFFICES ASSUME Init PROVE StoreInv
    OBVIOUS
  <1>1. <<>> \in Seq(Rows) /\ Len(<<>>) = 0 /\ MaxRows \in Nat
    BY CallerAssumption
  <1>2. Types
    BY <1>1, EmptyIsContents, IdleTyped, ClosedInv DEF Init, Types
  <1>3. LockInv
    BY CallerAssumption, IdleTyped DEF Init, LockInv, Critical
  <1>4. ASSUME NEW c \in Contexts
        PROVE  ContextInv(c)
    <2>1. ctx[c] = Closed /\ journal = <<>>
      BY DEF Init
    <2>2. Closed.confirmed = 0 /\ Closed.verified = <<>>
      BY DEF Closed
    <2>3. Begins(<<>>, journal) /\ Len(journal) = 0
      BY <1>1, <2>1, EmptyBegins
    <2>. QED  BY <2>1, <2>2, <2>3 DEF ContextInv
  <1>5. ASSUME NEW t \in Tasks
        PROVE  TaskInv(t)
    BY <1>1 DEF Init, TaskInv, Idle
  <1>6. Derived(graph, applied, journal) /\ SavedInv
    BY <1>1, EmptyIsContents, CallerAssumption DEF Init, Derived, SavedInv
  <1>. QED  BY <1>2, <1>3, <1>4, <1>5, <1>6 DEF StoreInv

LEMMA StutterKeeps == StoreInv /\ UNCHANGED vars => StoreInv'
  BY DEF StoreInv, vars, projection, Types, LockInv, ContextInv, TaskInv, SavedInv

LEMMA StoreStep == StoreInv /\ [Next]_vars => StoreInv'
  <1>. SUFFICES ASSUME StoreInv, [Next]_vars PROVE StoreInv'
    OBVIOUS
  <1>1. ASSUME NEW t \in Tasks, Call(t)
        PROVE  StoreInv'
    BY <1>1, OpeningKeeps, WritingKeeps, CallingKeeps, ReturningKeeps DEF Call
  <1>2. ASSUME NEW t \in Tasks, CatchUp(t)
        PROVE  StoreInv'
    BY <1>2, BarrierKeeps, LockingKeeps, InspectingKeeps, ApplyingKeeps, BulkLoadKeeps,
       MarkingKeeps, FinishingKeeps DEF CatchUp
  <1>3. CASE Maintain
    BY <1>3, SnapshotKeeps, RestoringKeeps, ReplacingKeeps DEF Maintain
  <1>4. ASSUME NEW t \in Tasks, Fail(t)
        PROVE  StoreInv'
    BY <1>4, FailingKeeps
  <1>5. ASSUME NEW c \in Contexts, Crash(c) \/ Close(c)
        PROVE  StoreInv'
    BY <1>5, CrashKeeps, ClosingKeeps
  <1>. QED  BY <1>1, <1>2, <1>3, <1>4, <1>5, StutterKeeps DEF Next, Serve

-----------------------------------------------------------------------------
(* The invariant holds in every run of the store: however opens, writes,    *)
(* reads, failures, crashes, snapshots and restores interleave, the quads   *)
(* differ from the watermark's rows only where a later row of the journal   *)
(* will put them right (storage/projection.py, _catch_up).                  *)
THEOREM StoreInductive == Spec => []StoreInv
  BY StartsRight, StoreStep, PTL DEF Spec

LEMMA BeginsIsPrefix ==
    ASSUME NEW a \in Seq(Rows), NEW rows \in Seq(Rows), Begins(a, rows)
    PROVE  IsPrefix(a, rows)
  <1>. DEFINE k == Len(a)
  <1>1. k \in 0..Len(rows) /\ a = SubSeq(rows, 1, k)
    BY DEF Begins
  <1>2. \A i \in 1..k : a[i] = rows[i]
    BY <1>1, SubSeqProperties
  <1>. QED  BY <1>1, <1>2 DEF IsPrefix

(* A catch-up that is about to finish has applied rows of this journal      *)
(* only, and the graph is their replay: a projection that lags, that was    *)
(* cut short or that belongs to another journal is never served.            *)
THEOREM NeverPast == Spec => []NeverPastJournal
  <1>1. StoreInv => NeverPastJournal
    <2>. SUFFICES ASSUME StoreInv, NEW t \in Tasks, task[t].pc = "apply",
                         Len(applied) >= task[t].head
                  PROVE  IsPrefix(applied, journal) /\ graph = Log!Contents(applied)
      BY DEF NeverPastJournal
    <2>1. applied \in Seq(Rows) /\ journal \in Seq(Rows)
      BY DEF StoreInv, Types
    <2>. QED  BY <2>1, AtTheEnd, BeginsIsPrefix
  <1>. QED  BY <1>1, StoreInductive, PTL

(* Rows, quads, the lock and the contexts' memories are what they should    *)
(* be, and the lock is held by the task between its acquisition and its     *)
(* release and by no other.                                                 *)
THEOREM StoreTypes == Spec => []TypeOK
  <1>1. StoreInv => TypeOK
    <2>. SUFFICES ASSUME StoreInv PROVE TypeOK
      OBVIOUS
    <2>1. Types /\ LockInv /\ \A c \in Contexts : ContextInv(c)
      BY DEF StoreInv
    <2>2. \A i \in DOMAIN journal : journal[i] \in UNION {ToSet(RowsOf(r)) : r \in Requests}
      BY <2>1 DEF Types, Rows
    <2>3. ASSUME NEW c \in Contexts
          PROVE  ctx[c].confirmed \in 0..MaxRows
      <3>1. ctx[c] \in ContextRecords /\ ctx[c].confirmed <= Len(journal)
        BY <2>1 DEF Types, ContextInv
      <3>2. ctx[c].confirmed \in Nat /\ Len(journal) \in Nat /\ Len(journal) <= MaxRows
        BY <2>1, <3>1 DEF Types, ContextRecords
      <3>. QED  BY <3>1, <3>2, CallerAssumption
    <2>4. ASSUME NEW t \in Tasks
          PROVE  /\ task[t].pc \in CatchingUp \cup {"idle", "barrier", "done"}
                 /\ lock = t <=> task[t].pc \in CatchingUp \ {"lock"}
      BY <2>1 DEF Types, LockInv, TaskRecords, CatchingUp, Critical
    <2>. QED  BY <2>1, <2>2, <2>3, <2>4 DEF TypeOK, Types, Views
  <1>. QED  BY <1>1, StoreInductive, PTL

-----------------------------------------------------------------------------
(* The steps of the store as steps of the log its callers see. *)

LEMMA CallsOf ==
    /\ CallOf(Idle) = Log!NoCall
    /\ \A x \in TaskRecords :
          /\ x.pc = "done" => CallOf(x) = Log!Answered(x.view)
          /\ x.pc # "done" /\ x.goal \in Reading => CallOf(x) = Log!Asked(x.since)
          /\ x.pc # "done" /\ x.goal \notin Reading => CallOf(x) = Log!NoCall
  <1>1. \A x : /\ x.pc = "done" => CallOf(x) = Log!Answered(x.view)
               /\ x.pc # "done" /\ x.goal \in Reading => CallOf(x) = Log!Asked(x.since)
               /\ x.pc # "done" /\ x.goal \notin Reading => CallOf(x) = Log!NoCall
    BY DEF CallOf, Log!Answered, Log!Asked, Log!NoCall
  <1>2. Idle.pc # "done" /\ Idle.goal \notin Reading
    BY DEF Idle, Reading
  <1>. QED  BY <1>1, <1>2

LEMMA CallsFollow ==
    ASSUME NEW t \in Tasks, NEW x, task \in [Tasks -> TaskRecords],
           task' = [task EXCEPT ![t] = x]
    PROVE  callView' = [callView EXCEPT ![t] = CallOf(x)]
  <1>1. task'[t] = x /\ \A u \in Tasks : u # t => task'[u] = task[u]
    OBVIOUS
  <1>. QED  BY <1>1 DEF callView

LEMMA QuietMaps ==
    ASSUME NEW t \in Tasks, NEW x, task \in [Tasks -> TaskRecords],
           task' = [task EXCEPT ![t] = x], CallOf(x) = CallOf(task[t]), journal' = journal
    PROVE  UNCHANGED <<journal, callView>>
  <1>1. callView' = [callView EXCEPT ![t] = CallOf(task[t])]
    BY CallsFollow
  <1>2. callView[t] = CallOf(task[t]) /\ callView = [u \in Tasks |-> callView[u]]
    BY DEF callView
  <1>. HIDE DEF callView
  <1>3. callView' = callView
    BY <1>1, <1>2
  <1>. QED  BY <1>3

LEMMA EndMaps ==
    ASSUME NEW gone \in SUBSET Tasks, task \in [Tasks -> TaskRecords], journal' = journal,
           task' = [t \in Tasks |-> IF t \in gone THEN Idle ELSE task[t]]
    PROVE  Log!End
  <1>1. callView' = [t \in Tasks |-> IF t \in gone THEN Log!NoCall ELSE callView[t]]
    BY CallsOf DEF callView
  <1>. QED  BY <1>1 DEF Log!End

LEMMA OneEnds ==
    ASSUME NEW t \in Tasks, task \in [Tasks -> TaskRecords], journal' = journal,
           task' = [task EXCEPT ![t] = Idle]
    PROVE  Log!End
  <1>1. task' = [u \in Tasks |-> IF u \in {t} THEN Idle ELSE task[u]]
    OBVIOUS
  <1>. QED  BY <1>1, EndMaps

LEMMA AnswerMaps ==
    ASSUME StoreInv, NEW t \in Tasks, NEW x \in TaskRecords, task' = [task EXCEPT ![t] = x],
           journal' = journal, task[t].pc # "done", task[t].goal \in Reading,
           x.pc = "done", NEW n \in Nat, task[t].since <= n, n <= Len(journal),
           x.view = Log!Contents(SubSeq(journal, 1, n))
    PROVE  Log!Answer(t)
  <1>1. task \in [Tasks -> TaskRecords] /\ task[t] \in TaskRecords /\ journal \in Seq(Rows)
    BY DEF StoreInv, Types
  <1>2. callView[t] = Log!Asked(task[t].since)
    BY <1>1, CallsOf DEF callView
  <1>3. callView[t].state = "asked" /\ callView[t].low = task[t].since
    BY <1>2 DEF Log!Asked
  <1>4. task[t].since \in Nat /\ Len(journal) \in Nat
    BY <1>1 DEF TaskRecords
  <1>5. n \in callView[t].low..Len(journal)
    BY <1>3, <1>4
  <1>6. callView' = [callView EXCEPT ![t] = Log!Answered(Log!Contents(Log!Prefix(journal, n)))]
    BY <1>1, CallsFollow, CallsOf DEF Log!Prefix
  <1>. QED  BY <1>3, <1>5, <1>6 DEF Log!Answer

LEMMA AskMaps ==
    ASSUME StoreInv, NEW t \in Tasks, task[t].pc = "idle",
           NEW pc \in {"lock", "barrier"},
           NEW goal \in {"open", "write", "rebuild", "read", "barrier"},
           Calls(t, pc, goal), journal' = journal
    PROVE  Log!Ask(t) \/ UNCHANGED <<journal, callView>>
  <1>. DEFINE low == IF goal \in Reading THEN Len(journal) ELSE 0
              x   == [Idle EXCEPT !.pc = pc, !.goal = goal, !.since = low]
  <1>1. task \in [Tasks -> TaskRecords] /\ task[t] = Idle /\ Len(journal) \in Nat
    BY DEF StoreInv, Types, TaskInv
  <1>2. task' = [task EXCEPT ![t] = x]
    BY DEF Calls
  <1>3. x \in TaskRecords /\ x.pc = pc /\ x.goal = goal /\ x.since = low
    BY <1>1, IdleTyped DEF TaskRecords, CatchingUp, Idle
  <1>. HIDE DEF x
  <1>4. CallOf(task[t]) = Log!NoCall /\ pc # "done"
    BY <1>1, CallsOf
  <1>5. CASE goal \in Reading
    <2>1. CallOf(x) = Log!Asked(Len(journal))
      BY <1>3, <1>4, <1>5, CallsOf
    <2>2. callView' = [callView EXCEPT ![t] = Log!Asked(Len(journal))]
      BY <1>1, <1>2, <2>1, CallsFollow
    <2>3. callView[t] = Log!NoCall
      BY <1>4 DEF callView
    <2>. QED  BY <2>2, <2>3 DEF Log!Ask
  <1>6. CASE goal \notin Reading
    <2>1. CallOf(x) = Log!NoCall
      BY <1>3, <1>4, <1>6, CallsOf
    <2>. QED  BY <1>1, <1>2, <1>4, <2>1, QuietMaps
  <1>. QED  BY <1>5, <1>6

LEMMA WriteMaps ==
    ASSUME StoreInv, NEW t \in Tasks, Write(t)
    PROVE  Log!Accept \/ UNCHANGED <<journal, callView>>
  <1>1. PICK request \in Requests : Commit(request)
    BY DEF Write
  <1>2. task[t].pc = "idle" /\ Calls(t, "lock", "write")
    BY DEF Write
  <1>3. UNCHANGED callView
    <2>. DEFINE x == [Idle EXCEPT !.pc = "lock", !.goal = "write", !.since = 0]
    <2>1. "write" \notin Reading
      BY DEF Reading
    <2>2. task \in [Tasks -> TaskRecords] /\ task[t] = Idle /\ task' = [task EXCEPT ![t] = x]
      BY <1>2, <2>1 DEF StoreInv, Types, TaskInv, Calls
    <2>3. x \in TaskRecords /\ x.pc = "lock" /\ x.goal = "write"
      BY IdleTyped DEF TaskRecords, CatchingUp, Idle
    <2>. HIDE DEF x
    <2>4. CallOf(x) = Log!NoCall /\ CallOf(task[t]) = Log!NoCall
      BY <2>1, <2>2, <2>3, CallsOf
    <2>5. callView[t] = Log!NoCall /\ callView' = [callView EXCEPT ![t] = Log!NoCall]
          /\ callView = [u \in Tasks |-> CallOf(task[u])]
      BY <2>2, <2>4, CallsFollow DEF callView
    <2>. QED  BY <2>5
  <1>4. CASE journal' = journal
    BY <1>3, <1>4
  <1>5. CASE journal' # journal
    <2>. DEFINE more == RowsOf(request)
    <2>1. /\ \A i \in DOMAIN journal : journal[i].op # request.op
          /\ journal' = journal \o more
      BY <1>1, <1>5 DEF Commit
    <2>2. journal \in Seq(Rows) /\ more \in Seq(Rows)
      BY RowTypes DEF StoreInv, Types
    <2>3. \A k \in 1..Len(more) : more[k].op = request.op
      <3>1. DOMAIN more = 1..Len(more)
        BY <2>2
      <3>2. \A k \in DOMAIN more : more[k].op = request.op
        BY DEF RowsOf
      <3>. QED  BY <3>1, <3>2
    <2>. HIDE DEF more
    <2>4. Len(more) # 0
      <3>1. Len(more) = 0 => more = <<>>
        BY <2>2
      <3>2. journal \o <<>> = journal
        BY <2>2
      <3>. QED  BY <1>5, <2>1, <3>1, <3>2
    <2>5. Len(journal') > Len(journal)
      BY <2>1, <2>2, <2>4
    <2>6. Log!Prefix(journal', Len(journal)) = journal
      <3>. DEFINE k == Len(journal)
                  q == SubSeq(journal \o more, 1, k)
      <3>1. k \in 0..Len(journal \o more) /\ journal \o more \in Seq(Rows)
        BY <2>2
      <3>2. q \in Seq(Rows) /\ Len(q) = k /\ \A i \in 1..k : q[i] = (journal \o more)[i]
        BY <3>1, PrefixOf, SubSeqProperties
      <3>3. \A i \in 1..k : (journal \o more)[i] = journal[i]
        BY <2>2
      <3>. HIDE DEF q
      <3>4. q = journal
        BY <2>2, <3>2, <3>3, SeqEqual
      <3>. QED  BY <2>1, <3>4 DEF q, Log!Prefix
    <2>7. ASSUME NEW i \in DOMAIN journal', i > Len(journal)
          PROVE  journal'[i].op = request.op
      <3>1. PICK k \in 1..Len(more) : i = Len(journal) + k
        BY <2>1, <2>2, <2>7
      <3>2. (journal \o more)[i] = more[k]
        BY <2>2, <3>1
      <3>. QED  BY <2>1, <2>3, <3>2
    <2>8. request.op \in Ops
      BY DEF Ops
    <2>. QED  BY <1>3, <2>1, <2>5, <2>6, <2>7, <2>8 DEF Log!Accept
  <1>. QED  BY <1>4, <1>5

LEMMA CallMaps ==
    ASSUME StoreInv, NEW t \in Tasks, Call(t)
    PROVE  [Log!Next]_<<journal, callView>>
  <1>. task \in [Tasks -> TaskRecords]
    BY DEF StoreInv, Types
  <1>1. CASE OpenContext(t)
    <2>1. task[t].pc = "idle" /\ Calls(t, "lock", "open") /\ journal' = journal
      BY <1>1 DEF OpenContext, TasksOf
    <2>. QED  BY <2>1, AskMaps DEF Log!Next
  <1>2. CASE Write(t)
    BY <1>2, WriteMaps DEF Log!Next
  <1>3. CASE CallProjection(t)
    <2>1. PICK goal \in {"read", "rebuild"} : Calls(t, "lock", goal)
      BY <1>3 DEF CallProjection
    <2>. QED  BY <1>3, <2>1, AskMaps DEF CallProjection, Log!Next
  <1>4. CASE CallBarrier(t)
    BY <1>4, AskMaps DEF CallBarrier, Log!Next
  <1>5. CASE Return(t)
    BY <1>5, OneEnds DEF Return, Log!Next
  <1>. QED  BY <1>1, <1>2, <1>3, <1>4, <1>5 DEF Call

LEMMA BarrierMaps ==
    ASSUME StoreInv, NEW t \in Tasks, Barrier(t)
    PROVE  [Log!Next]_<<journal, callView>>
  <1>1. /\ task \in [Tasks -> TaskRecords] /\ task[t] \in TaskRecords
        /\ journal \in Seq(Rows) /\ TaskInv(t)
    BY DEF StoreInv, Types
  <1>2. task[t].pc = "barrier" /\ task[t].goal = "barrier" /\ "barrier" \in Reading
    BY <1>1 DEF Barrier, TaskInv, Reading
  <1>3. CASE Len(journal) = ctx[Home[t]].confirmed
    <2>. DEFINE n == Len(journal)
                view == Log!Contents(journal)
                x == [task[t] EXCEPT !.pc = "done", !.view = view]
    <2>1. journal' = journal /\ Answers(t, view)
      BY <1>3 DEF Barrier
    <2>2. task' = [task EXCEPT ![t] = x]
      BY <1>1, <2>1 DEF Answers
    <2>3. view \in Views
      BY <1>1, ContentsType
    <2>4. SubSeq(journal, 1, n) = journal /\ n \in Nat /\ task[t].since <= n
      <3>1. n \in 0..Len(journal)
        BY <1>1
      <3>2. \A i \in 1..n : SubSeq(journal, 1, n)[i] = journal[i]
        BY <1>1, <3>1, SubSeqProperties
      <3>3. SubSeq(journal, 1, n) \in Seq(Rows) /\ Len(SubSeq(journal, 1, n)) = n
        BY <1>1, <3>1, PrefixOf
      <3>4. SubSeq(journal, 1, n) = journal
        BY <1>1, <3>2, <3>3, SeqEqual
      <3>. QED  BY <1>1, <3>4 DEF TaskInv
    <2>5. n <= Len(journal)
      BY <2>4
    <2>8. view = Log!Contents(SubSeq(journal, 1, n))
      BY <2>4
    <2>. HIDE DEF view, n
    <2>6. x \in TaskRecords /\ x.pc = "done" /\ x.view = view
      BY <1>1, <2>3 DEF TaskRecords
    <2>. HIDE DEF x
    <2>7. Log!Answer(t)
      BY <1>1, <1>2, <2>1, <2>2, <2>4, <2>5, <2>6, <2>8, AnswerMaps
    <2>. QED  BY <2>7 DEF Log!Next
  <1>4. CASE Len(journal) # ctx[Home[t]].confirmed
    <2>. DEFINE x == [task[t] EXCEPT !.pc = "lock"]
    <2>1. journal' = journal /\ task' = [task EXCEPT ![t] = x]
      BY <1>1, <1>4 DEF Barrier
    <2>2. /\ x \in TaskRecords /\ x.pc = "lock" /\ x.goal = task[t].goal
          /\ x.since = task[t].since
      BY <1>1 DEF TaskRecords, CatchingUp
    <2>. HIDE DEF x
    <2>3. CallOf(x) = CallOf(task[t])
      BY <1>1, <1>2, <2>2, CallsOf
    <2>. QED  BY <1>1, <2>1, <2>3, QuietMaps
  <1>. QED  BY <1>3, <1>4

(* A step that only moves a task along its catch-up shows nothing.          *)
LEMMA MovingMaps ==
    ASSUME StoreInv, NEW t \in Tasks, NEW x \in TaskRecords,
           task' = [task EXCEPT ![t] = x], journal' = journal,
           task[t].pc # "done", x.pc # "done",
           x.goal = task[t].goal, x.since = task[t].since
    PROVE  UNCHANGED <<journal, callView>>
  <1>1. task \in [Tasks -> TaskRecords] /\ task[t] \in TaskRecords
    BY DEF StoreInv, Types
  <1>2. CallOf(x) = CallOf(task[t])
    BY <1>1, CallsOf
  <1>. QED  BY <1>1, <1>2, QuietMaps

LEMMA FinishMaps ==
    ASSUME StoreInv, NEW t \in Tasks, Finish(t)
    PROVE  Log!Next
  <1>1. /\ task \in [Tasks -> TaskRecords] /\ task[t] \in TaskRecords
        /\ journal \in Seq(Rows) /\ graph \in Views
        /\ journal' = journal /\ task[t].pc = "apply" /\ Len(applied) >= task[t].head
    BY DEF StoreInv, Types, Finish
  <1>2. /\ Begins(applied, journal) /\ graph = Log!Contents(applied)
        /\ Len(applied) \in 0..Len(journal) /\ task[t].since <= Len(applied)
    BY <1>1, AtTheEnd
  <1>3. ASSUME NEW view, Answers(t, view), task[t].goal \in Reading,
               view = Log!Contents(SubSeq(journal, 1, Len(applied)))
        PROVE  Log!Answer(t)
    <2>. DEFINE x == [task[t] EXCEPT !.pc = "done", !.view = view]
    <2>1. task' = [task EXCEPT ![t] = x]
      BY <1>1, <1>3 DEF Answers
    <2>2. view \in Views
      BY <1>1, <1>2, <1>3, PrefixOf, ContentsType
    <2>3. x \in TaskRecords /\ x.pc = "done" /\ x.view = view
      BY <1>1, <2>2 DEF TaskRecords
    <2>. HIDE DEF x
    <2>4. Len(applied) \in Nat /\ Len(applied) <= Len(journal)
      BY <1>2
    <2>. QED  BY <1>1, <1>2, <1>3, <2>1, <2>3, <2>4, AnswerMaps
  <1>4. applied = SubSeq(journal, 1, Len(applied))
    BY <1>2 DEF Begins
  <1>5. "read" \in Reading /\ "barrier" \in Reading
    BY DEF Reading
  <1>6. CASE task[t].goal = "read"
    BY <1>2, <1>3, <1>4, <1>5, <1>6 DEF Finish, Log!Next
  <1>7. CASE task[t].goal = "barrier" /\ ctx[Home[t]].open
    BY <1>3, <1>5, <1>7 DEF Finish, Log!Next
  <1>8. CASE task[t].goal # "read" /\ ~(task[t].goal = "barrier" /\ ctx[Home[t]].open)
    <2>1. task' = [task EXCEPT ![t] = Idle]
      BY <1>8 DEF Finish
    <2>. QED  BY <1>1, <2>1, OneEnds DEF Log!Next
  <1>. QED  BY <1>6, <1>7, <1>8

LEMMA CatchUpMaps ==
    ASSUME StoreInv, NEW t \in Tasks, CatchUp(t)
    PROVE  [Log!Next]_<<journal, callView>>
  <1>1. task \in [Tasks -> TaskRecords] /\ task[t] \in TaskRecords
    BY DEF StoreInv, Types
  <1>2. CASE Barrier(t)
    BY <1>2, BarrierMaps
  <1>3. CASE AcquireLock(t)
    <2>. DEFINE x == [task[t] EXCEPT !.pc = "inspect"]
    <2>1. task' = [task EXCEPT ![t] = x] /\ journal' = journal /\ task[t].pc # "done"
      BY <1>1, <1>3 DEF AcquireLock
    <2>2. /\ x \in TaskRecords /\ x.pc # "done"
          /\ x.goal = task[t].goal /\ x.since = task[t].since
      BY <1>1 DEF TaskRecords, CatchingUp
    <2>. HIDE DEF x
    <2>. QED  BY <2>1, <2>2, MovingMaps
  <1>4. CASE Inspect(t)
    <2>. DEFINE head == Len(journal)
                x == [task[t] EXCEPT !.pc = "apply", !.head = head]
    <2>1. task' = [task EXCEPT ![t] = x] /\ journal' = journal /\ task[t].pc # "done"
      BY <1>1, <1>4 DEF Inspect
    <2>2. head \in Nat
      BY DEF StoreInv, Types
    <2>. HIDE DEF head
    <2>3. /\ x \in TaskRecords /\ x.pc # "done"
          /\ x.goal = task[t].goal /\ x.since = task[t].since
      BY <1>1, <2>2 DEF TaskRecords, CatchingUp
    <2>. HIDE DEF x
    <2>. QED  BY <2>1, <2>3, MovingMaps
  <1>5. CASE ApplyBatch(t)
    BY <1>5 DEF ApplyBatch, callView
  <1>6. CASE BulkLoad(t)
    <2>. DEFINE upto == Len(applied) + Len(Batch(t))
                x == [task[t] EXCEPT !.pc = "mark", !.upto = upto]
    <2>1. task' = [task EXCEPT ![t] = x] /\ journal' = journal /\ task[t].pc = "apply"
      BY <1>1, <1>6 DEF BulkLoad, Applying
    <2>2. upto \in Nat
      <3>1. PICK u \in Len(applied)..Len(journal) :
                Batch(t) = SubSeq(journal, Len(applied) + 1, u)
        BY <2>1, BatchIs
      <3>2. journal \in Seq(Rows) /\ applied \in Seq(Rows)
        BY DEF StoreInv, Types
      <3>3. Len(applied) \in 0..Len(journal) /\ Len(applied) \in Nat
        BY <3>1, <3>2
      <3>4. Len(SubSeq(journal, Len(applied) + 1, u)) = u - Len(applied)
        BY <3>2, <3>3, SubRows
      <3>. QED  BY <3>1, <3>3, <3>4
    <2>. HIDE DEF upto
    <2>3. /\ x \in TaskRecords /\ x.pc # "done"
          /\ x.goal = task[t].goal /\ x.since = task[t].since
      BY <1>1, <2>2 DEF TaskRecords, CatchingUp
    <2>. HIDE DEF x
    <2>. QED  BY <2>1, <2>3, MovingMaps
  <1>7. CASE BulkMark(t)
    <2>. DEFINE x == [task[t] EXCEPT !.pc = "apply", !.upto = 0]
    <2>1. task' = [task EXCEPT ![t] = x] /\ journal' = journal /\ task[t].pc # "done"
      BY <1>1, <1>7 DEF BulkMark
    <2>2. /\ x \in TaskRecords /\ x.pc # "done"
          /\ x.goal = task[t].goal /\ x.since = task[t].since
      BY <1>1 DEF TaskRecords, CatchingUp
    <2>. HIDE DEF x
    <2>. QED  BY <2>1, <2>2, MovingMaps
  <1>8. CASE Finish(t)
    BY <1>8, FinishMaps
  <1>. QED  BY <1>2, <1>3, <1>4, <1>5, <1>6, <1>7, <1>8 DEF CatchUp

LEMMA RowsAreRows == Seq(Rows) \subseteq Seq(Log!Row)
  <1>1. ASSUME NEW row \in Rows
        PROVE  row \in Log!Row
    <2>1. PICK r \in Requests : row \in ToSet(RowsOf(r))
      BY DEF Rows
    <2>2. r.body \in Seq([subject : Subjects, value : Values])
      BY CallerAssumption
    <2>3. PICK k \in DOMAIN r.body : row = [op |-> r.op, body |-> r.body, part |-> k]
      BY <2>1 DEF RowsOf, ToSet
    <2>4. k \in Nat /\ r.op \in Ops
      BY <2>2, <2>3 DEF Ops
    <2>. QED  BY <2>2, <2>3, <2>4 DEF Log!Row
  <1>. QED  BY <1>1

LEMMA MaintainMaps ==
    ASSUME StoreInv, StoreInv', Maintain
    PROVE  [Log!Next]_<<journal, callView>>
  <1>1. CASE SnapshotProjection \/ SnapshotJournal
    BY <1>1 DEF SnapshotProjection, SnapshotJournal, callView
  <1>2. CASE Restore \/ ReplaceJournal
    <2>1. Unused /\ task' = task /\ journal' \in Seq(Rows)
      BY <1>2 DEF Restore, ReplaceJournal, StoreInv, Types
    <2>2. \A t \in Tasks : task[t] = Idle
      BY <2>1 DEF Unused, StoreInv, TaskInv
    <2>3. callView = [t \in Tasks |-> Log!NoCall] /\ callView' = callView
      BY <2>1, <2>2, CallsOf DEF callView
    <2>. QED  BY <2>1, <2>3, RowsAreRows DEF Log!Restore, Log!Next
  <1>. QED  BY <1>1, <1>2 DEF Maintain

LEMMA StoreMaps == StoreInv /\ StoreInv' /\ [Next]_vars => [Log!Next]_<<journal, callView>>
  <1>. SUFFICES ASSUME StoreInv, StoreInv', [Next]_vars
                PROVE  [Log!Next]_<<journal, callView>>
    OBVIOUS
  <1>. task \in [Tasks -> TaskRecords]
    BY DEF StoreInv, Types
  <1>1. ASSUME NEW t \in Tasks, Fail(t)
        PROVE  Log!Next
    BY <1>1, OneEnds DEF Fail, Log!Next
  <1>2. ASSUME NEW c \in Contexts, Crash(c)
        PROVE  Log!Next
    <2>1. TasksOf(c) \in SUBSET Tasks
      BY DEF TasksOf
    <2>. QED  BY <1>2, <2>1, EndMaps DEF Crash, Log!Next
  <1>3. ASSUME NEW c \in Contexts, Close(c)
        PROVE  UNCHANGED <<journal, callView>>
    BY <1>3 DEF Close, callView
  <1>4. CASE UNCHANGED vars
    BY <1>4 DEF vars, callView
  <1>. QED  BY <1>1, <1>2, <1>3, <1>4, CallMaps, CatchUpMaps, MaintainMaps DEF Next, Serve

LEMMA StoreStarts == Init => Log!Init
  BY CallsOf DEF Init, Log!Init, callView

(* The store implements the log: an operation is accepted once however it   *)
(* is retried, and a read answers with the contents of a prefix of the      *)
(* journal that holds every write finished before the read was called,      *)
(* whatever the projection was and whoever fails or stops meanwhile.        *)
THEOREM StoreImplements == Spec => ImplementsLog
  BY StoreStarts, StoreMaps, StoreInductive, PTL DEF Spec, ImplementsLog, Log!Spec

-----------------------------------------------------------------------------
(***************************************************************************)
(* Theorems about CorpusCommit, for any writers, suites, shards, batches    *)
(* and limits.                                                              *)
(*                                                                         *)
(* A marker may lag, and the query that moves it on may have seen rows      *)
(* beyond the position it is given.  The invariant says what a marker       *)
(* still means then: it is right of every shard that no row beyond its      *)
(* position wrote, nor the shard it supersedes.                             *)
(***************************************************************************)
Entries == Entry("corpus", Shards) \cup Entry("local", Shards \cup {"events"})

Markers ==
    [suite : Suites \cup {Nothing}, position : Nat, failing : SUBSET Entries,
     truncated : BOOLEAN]

CommitRecords ==
    [pc : {"idle", "write", "turn", "query", "update", "late", "validate", "store"},
     first : Nat, body : Seq(CommitRows), read : Markers, since : Nat]

CommitTypes ==
    /\ committed \in Seq(CommitRows) /\ Len(committed) <= MaxCommitted
    /\ marker \in Markers
    /\ unmarked \in [Writers -> SUBSET Nat]
    /\ commit \in [Commits -> CommitRecords]

(* the shards that rows beyond a position wrote *)
Since(rows, p) == {rows[i].shard : i \in p + 1..Len(rows)} \ {Nothing}

CorpusListed(rows, failing, p) ==
    \A s \in Shards :
        s \notin Since(rows, p) /\ Current(rows)[s].supersedes \notin Since(rows, p)
        => ([tier |-> "corpus", focus |-> s] \in failing <=> Contradicts(Current(rows), s))

LocalListed(rows, failing, suite, p) ==
    /\ \A s \in Shards \ Since(rows, p) :
          [tier |-> "local", focus |-> s] \in failing <=> suite \in Current(rows)[s].breaks
    /\ [tier |-> "local", focus |-> "events"] \in failing
          <=> \E j \in 1..p : IsEvent(rows[j]) /\ suite \in rows[j].record.breaks

MarkerInv(rows, m) ==
    /\ m \in Markers
    /\ m.position <= Len(rows)
    /\ Cardinality(m.failing) <= MaxFailing
    /\ m = NoMarker \/ m.suite \in Suites
    /\ ~m.truncated => CorpusListed(rows, m.failing, m.position)
                       /\ LocalListed(rows, m.failing, m.suite, m.position)

CommitInv(t) ==
    /\ \A i \in DOMAIN commit[t].body : Suite(t) \notin commit[t].body[i].record.breaks
    /\ commit[t].pc \in {"turn", "query", "update", "late"} =>
          /\ commit[t].first >= 1 /\ LastRow(t) <= Len(committed)
          /\ \A i \in 1..Len(commit[t].body) :
                committed[commit[t].first - 1 + i] = commit[t].body[i]
    /\ commit[t].pc \in {"query", "update", "late", "store"} => MarkerInv(committed, commit[t].read)
    /\ commit[t].pc = "query" => Suite(t) # Nothing /\ Contiguous(t, commit[t].read)
    /\ commit[t].pc = "validate" =>
          /\ commit[t].read.suite \in Suites
          /\ commit[t].read.position <= Len(committed)
          /\ commit[t].read.failing \subseteq Entry("local", Shards \cup {"events"})
          /\ LocalListed(committed, commit[t].read.failing, commit[t].read.suite,
                         commit[t].read.position)

(* a turn is that of a commit whose marker step is to come *)
TurnsInv ==
    \A c \in Writers : \A p \in unmarked[c] :
        \E t \in Commits : /\ WriterOf[t] = c /\ commit[t].first = p
                           /\ commit[t].pc \in {"turn", "query", "update"}

CorpusInv ==
    /\ CommitTypes
    /\ MarkerInv(committed, marker)
    /\ TurnsInv
    /\ \A t \in Commits : CommitInv(t)

-----------------------------------------------------------------------------
(* The current record of a shard. *)

LEMMA LastOf ==
    ASSUME NEW rows \in Seq(CommitRows), NEW s \in Shards
    PROVE  \/ /\ \A i \in 1..Len(rows) : rows[i].shard # s
              /\ Current(rows)[s] = NoRecord
           \/ \E m \in 1..Len(rows) :
                 /\ rows[m].shard = s /\ \A i \in m + 1..Len(rows) : rows[i].shard # s
                 /\ Current(rows)[s] = rows[m].record
  <1>. DEFINE T == {i \in 1..Len(rows) : rows[i].shard = s}
  <1>1. Len(rows) \in Nat /\ T \subseteq 1..Len(rows)
    OBVIOUS
  <1>2. Current(rows)[s] = IF T # {} THEN (IF Max(T) = 0 THEN NoRecord ELSE rows[Max(T)].record)
                           ELSE NoRecord
    BY DEF Current, SelectLastInSeq
  <1>3. CASE T = {}
    BY <1>2, <1>3
  <1>4. CASE T # {}
    <2>1. Max(T) \in T /\ \A i \in T : i <= Max(T)
      BY <1>1, <1>4, MaxOfSome
    <2>2. Max(T) \in 1..Len(rows) /\ rows[Max(T)].shard = s
      BY <2>1
    <2>3. \A i \in Max(T) + 1..Len(rows) : i \notin T /\ i \in 1..Len(rows)
      BY <1>1, <2>1, <2>2
    <2>4. Max(T) # 0
      BY <2>2
    <2>5. Current(rows)[s] = rows[Max(T)].record
      BY <1>2, <1>4, <2>4
    <2>. QED  BY <2>2, <2>3, <2>5
  <1>. QED  BY <1>3, <1>4

LEMMA CurrentIs ==
    ASSUME NEW rows \in Seq(CommitRows), NEW s \in Shards,
           NEW m \in 1..Len(rows), rows[m].shard = s,
           \A i \in m + 1..Len(rows) : rows[i].shard # s
    PROVE  Current(rows)[s] = rows[m].record
  <1>1. PICK k \in 1..Len(rows) :
            /\ rows[k].shard = s /\ \A i \in k + 1..Len(rows) : rows[i].shard # s
            /\ Current(rows)[s] = rows[k].record
    BY LastOf
  <1>2. m \notin k + 1..Len(rows) /\ k \notin m + 1..Len(rows)
    BY <1>1
  <1>3. k = m
    BY <1>2
  <1>. QED  BY <1>1, <1>3

LEMMA NoRecordTyped ==
    /\ NoRecord \in ShardRecords
    /\ NoRecord.supersedes = Nothing /\ NoRecord.successor = Nothing
    /\ NoRecord.rests = {} /\ NoRecord.breaks = {}
  BY DEF NoRecord, ShardRecords

LEMMA CurrentTyped ==
    ASSUME NEW rows \in Seq(CommitRows)
    PROVE  Current(rows) \in [Shards -> ShardRecords]
  <1>1. ASSUME NEW s \in Shards
        PROVE  Current(rows)[s] \in ShardRecords
    <2>0. \A m \in 1..Len(rows) : rows[m] \in CommitRows
      OBVIOUS
    <2>1. \A m \in 1..Len(rows) : rows[m].record \in ShardRecords
      BY <2>0 DEF CommitRows
    <2>. QED  BY <2>1, LastOf, NoRecordTyped
  <1>2. Current(rows) = [s \in Shards |-> Current(rows)[s]]
    BY DEF Current
  <1>. QED  BY <1>1, <1>2

LEMMA Appended ==
    ASSUME NEW rows \in Seq(CommitRows), NEW body \in Seq(CommitRows)
    PROVE  /\ rows \o body \in Seq(CommitRows)
           /\ Len(rows \o body) = Len(rows) + Len(body)
           /\ \A i \in 1..Len(rows) : (rows \o body)[i] = rows[i]
           /\ \A k \in 1..Len(body) : (rows \o body)[Len(rows) + k] = body[k]
           /\ \A i \in Len(rows) + 1..Len(rows \o body) :
                 \E k \in 1..Len(body) : i = Len(rows) + k
  <1>1. Len(rows) \in Nat /\ Len(body) \in Nat
    OBVIOUS
  <1>2. ASSUME NEW i \in Len(rows) + 1..Len(rows \o body)
        PROVE  \E k \in 1..Len(body) : i = Len(rows) + k
    <2>1. i - Len(rows) \in 1..Len(body) /\ i = Len(rows) + (i - Len(rows))
      BY <1>1
    <2>. QED  BY <2>1
  <1>3. \A i \in 1..Len(rows) : (rows \o body)[i] = rows[i]
    OBVIOUS
  <1>4. \A k \in 1..Len(body) : (rows \o body)[Len(rows) + k] = body[k]
    OBVIOUS
  <1>. QED  BY <1>2, <1>3, <1>4

(* Rows that are appended leave the shards they do not write alone.         *)
LEMMA CurrentAppended ==
    ASSUME NEW rows \in Seq(CommitRows), NEW body \in Seq(CommitRows), NEW s \in Shards
    PROVE  /\ (\A i \in 1..Len(body) : body[i].shard # s)
              => Current(rows \o body)[s] = Current(rows)[s]
           /\ (\E i \in 1..Len(body) : body[i].shard = s)
              => Current(rows \o body)[s] = Current(body)[s]
  <1>. DEFINE all == rows \o body
  <1>1. /\ all \in Seq(CommitRows) /\ Len(all) = Len(rows) + Len(body)
        /\ \A i \in 1..Len(rows) : all[i] = rows[i]
        /\ \A k \in 1..Len(body) : all[Len(rows) + k] = body[k]
        /\ \A i \in Len(rows) + 1..Len(all) : \E k \in 1..Len(body) : i = Len(rows) + k
        /\ Len(rows) \in Nat /\ Len(body) \in Nat
    BY Appended
  <1>. HIDE DEF all
  <1>2. ASSUME \A i \in 1..Len(body) : body[i].shard # s
        PROVE  Current(all)[s] = Current(rows)[s]
    <2>1. \A i \in Len(rows) + 1..Len(all) : all[i].shard # s
      BY <1>1, <1>2
    <2>2. CASE \A i \in 1..Len(rows) : rows[i].shard # s
      <3>1. \A i \in 1..Len(all) : all[i].shard # s
        <4>. SUFFICES ASSUME NEW i \in 1..Len(all) PROVE all[i].shard # s
          OBVIOUS
        <4>1. CASE i \in 1..Len(rows)
          BY <1>1, <2>2, <4>1
        <4>2. CASE i \in Len(rows) + 1..Len(all)
          BY <2>1, <4>2
        <4>. QED  BY <1>1, <4>1, <4>2
      <3>2. Current(all)[s] = NoRecord
        <4>1. all \in Seq(CommitRows)
          BY <1>1
        <4>. QED  BY <3>1, <4>1, LastOf
      <3>3. Current(rows)[s] = NoRecord
        BY <2>2, LastOf
      <3>. QED  BY <3>2, <3>3
    <2>3. ASSUME NEW m \in 1..Len(rows), rows[m].shard = s,
                 \A i \in m + 1..Len(rows) : rows[i].shard # s,
                 Current(rows)[s] = rows[m].record
          PROVE  Current(all)[s] = Current(rows)[s]
      <3>1. m \in 1..Len(all) /\ all[m] = rows[m]
        BY <1>1
      <3>2. ASSUME NEW i \in m + 1..Len(all)
            PROVE  all[i].shard # s
        <4>1. CASE i \in 1..Len(rows)
          <5>1. i \in m + 1..Len(rows)
            BY <4>1
          <5>. QED  BY <1>1, <2>3, <4>1, <5>1
        <4>2. CASE i \in Len(rows) + 1..Len(all)
          BY <2>1, <4>2
        <4>. QED  BY <1>1, <4>1, <4>2
      <3>. QED  BY <1>1, <2>3, <3>1, <3>2, CurrentIs, SMTT(30)
    <2>. QED  BY <2>2, <2>3, LastOf
  <1>3. ASSUME NEW k \in 1..Len(body), body[k].shard = s
        PROVE  Current(all)[s] = Current(body)[s]
    <2>1. PICK m \in 1..Len(body) :
              /\ body[m].shard = s /\ \A i \in m + 1..Len(body) : body[i].shard # s
              /\ Current(body)[s] = body[m].record
      BY <1>3, LastOf
    <2>2. PICK n \in 1..Len(all) : n = Len(rows) + m /\ all[n] = body[m]
      <3>1. Len(rows) + m \in 1..Len(all)
        BY <1>1
      <3>. QED  BY <1>1, <3>1
    <2>3. ASSUME NEW i \in n + 1..Len(all)
          PROVE  all[i].shard # s
      <3>1. i \in Len(rows) + 1..Len(all)
        BY <1>1, <2>2
      <3>2. PICK j \in 1..Len(body) : i = Len(rows) + j
        BY <1>1, <3>1
      <3>3. j \in m + 1..Len(body)
        BY <1>1, <2>2, <3>2
      <3>. QED  BY <1>1, <2>1, <3>2, <3>3
    <2>4. all \in Seq(CommitRows) /\ all[n].shard = s
      BY <1>1, <2>1, <2>2
    <2>5. Current(all)[s] = all[n].record
      BY <2>3, <2>4, CurrentIs
    <2>. QED  BY <2>1, <2>2, <2>5
  <1>. QED  BY <1>2, <1>3 DEF all

-----------------------------------------------------------------------------
(* What a marker says stays right when rows are appended. *)

LEMMA SinceGrows ==
    ASSUME NEW rows \in Seq(CommitRows), NEW body \in Seq(CommitRows),
           NEW p \in 0..Len(rows), NEW s \in Shards, s \notin Since(rows \o body, p)
    PROVE  /\ s \notin Since(rows, p)
           /\ \A i \in 1..Len(body) : body[i].shard # s
           /\ Current(rows \o body)[s] = Current(rows)[s]
  <1>. DEFINE all == rows \o body
  <1>1. /\ Len(all) = Len(rows) + Len(body)
        /\ \A i \in 1..Len(rows) : all[i] = rows[i]
        /\ \A k \in 1..Len(body) : all[Len(rows) + k] = body[k]
        /\ Len(rows) \in Nat /\ Len(body) \in Nat
    BY Appended
  <1>2. s # Nothing /\ \A i \in p + 1..Len(all) : all[i].shard # s
    BY CommitAssumption DEF Since
  <1>. HIDE DEF all
  <1>3. \A i \in p + 1..Len(rows) : rows[i].shard # s
    <2>1. \A i \in p + 1..Len(rows) : i \in p + 1..Len(all) /\ i \in 1..Len(rows)
      BY <1>1
    <2>. QED  BY <1>1, <1>2, <2>1
  <1>4. \A k \in 1..Len(body) : body[k].shard # s
    <2>1. \A k \in 1..Len(body) : Len(rows) + k \in p + 1..Len(all)
      BY <1>1
    <2>. QED  BY <1>1, <1>2, <2>1
  <1>. QED  BY <1>2, <1>3, <1>4, CurrentAppended DEF Since

LEMMA ContradictsSame ==
    ASSUME NEW c, NEW d, NEW s \in Shards, c[s] = d[s],
           c[s].supersedes # Nothing => c[c[s].supersedes] = d[c[s].supersedes]
    PROVE  Contradicts(c, s) <=> Contradicts(d, s)
  BY DEF Contradicts

LEMMA CorpusGrows ==
    ASSUME NEW rows \in Seq(CommitRows), NEW body \in Seq(CommitRows),
           NEW p \in 0..Len(rows), NEW failing, CorpusListed(rows, failing, p)
    PROVE  CorpusListed(rows \o body, failing, p)
  <1>. DEFINE all == rows \o body
  <1>. SUFFICES ASSUME NEW s \in Shards, s \notin Since(all, p),
                       Current(all)[s].supersedes \notin Since(all, p)
                PROVE  [tier |-> "corpus", focus |-> s] \in failing
                          <=> Contradicts(Current(all), s)
    BY DEF CorpusListed
  <1>1. s \notin Since(rows, p) /\ Current(all)[s] = Current(rows)[s]
    BY SinceGrows
  <1>2. Current(rows)[s].supersedes \in Shards \cup {Nothing}
    BY CurrentTyped DEF ShardRecords
  <1>. DEFINE target == Current(rows)[s].supersedes
  <1>3. CASE target = Nothing
    <2>1. target \notin Since(rows, p)
      BY <1>3 DEF Since
    <2>2. Contradicts(Current(all), s) <=> Contradicts(Current(rows), s)
      BY <1>1, <1>3, ContradictsSame
    <2>. QED  BY <1>1, <2>1, <2>2 DEF CorpusListed
  <1>4. CASE target # Nothing
    <2>1. target \in Shards /\ target \notin Since(all, p)
      BY <1>1, <1>2, <1>4
    <2>2. target \notin Since(rows, p) /\ Current(all)[target] = Current(rows)[target]
      BY <2>1, SinceGrows
    <2>3. Contradicts(Current(all), s) <=> Contradicts(Current(rows), s)
      BY <1>1, <2>2, ContradictsSame
    <2>. QED  BY <1>1, <2>2, <2>3 DEF CorpusListed
  <1>. QED  BY <1>3, <1>4

LEMMA LocalGrows ==
    ASSUME NEW rows \in Seq(CommitRows), NEW body \in Seq(CommitRows),
           NEW p \in 0..Len(rows), NEW failing, NEW suite, LocalListed(rows, failing, suite, p)
    PROVE  LocalListed(rows \o body, failing, suite, p)
  <1>1. \A j \in 1..p : (rows \o body)[j] = rows[j]
    OBVIOUS
  <1>2. ASSUME NEW s \in Shards \ Since(rows \o body, p)
        PROVE  s \in Shards \ Since(rows, p) /\ Current(rows \o body)[s] = Current(rows)[s]
    BY SinceGrows
  <1>. QED  BY <1>1, <1>2 DEF LocalListed

LEMMA MarkerGrows ==
    ASSUME NEW rows \in Seq(CommitRows), NEW body \in Seq(CommitRows),
           NEW m, MarkerInv(rows, m)
    PROVE  MarkerInv(rows \o body, m)
  <1>1. m.position \in 0..Len(rows)
    BY DEF MarkerInv, Markers
  <1>2. m.position <= Len(rows \o body)
    BY <1>1
  <1>. QED  BY <1>1, <1>2, CorpusGrows, LocalGrows DEF MarkerInv

LEMMA NoMarkerTyped ==
    /\ NoMarker \in Markers /\ NoMarker.position = 0 /\ NoMarker.suite = Nothing
    /\ NoMarker.failing = {} /\ ~NoMarker.truncated /\ Cardinality(NoMarker.failing) = 0
  BY FS_EmptySet DEF NoMarker, Markers

(* Where no row has been written, nothing is wrong.                         *)
LEMMA NothingListed ==
    ASSUME NEW rows \in Seq(CommitRows), NEW suite
    PROVE  CorpusListed(rows, {}, 0) /\ LocalListed(rows, {}, suite, 0)
  <1>1. ASSUME NEW s \in Shards, s \notin Since(rows, 0)
        PROVE  Current(rows)[s] = NoRecord
    <2>1. \A i \in 1..Len(rows) : rows[i].shard # s
      BY <1>1, CommitAssumption DEF Since
    <2>. QED  BY <2>1, LastOf
  <1>2. ASSUME NEW s \in Shards, Current(rows)[s] = NoRecord
        PROVE  ~Contradicts(Current(rows), s)
    BY <1>2, NoRecordTyped, CommitAssumption DEF Contradicts
  <1>3. CorpusListed(rows, {}, 0)
    BY <1>1, <1>2 DEF CorpusListed
  <1>4. LocalListed(rows, {}, suite, 0)
    BY <1>1, NoRecordTyped DEF LocalListed
  <1>. QED  BY <1>3, <1>4

-----------------------------------------------------------------------------
(* What a query finds is right of the rows up to its commit. *)

WrittenIn(body) == {body[i].shard : i \in DOMAIN body} \ {Nothing}

(* The rows p+1..q are those of a body, and no shard outside `rechecked'    *)
(* was written in them or supersedes one that was.                          *)
LEMMA SinceSplits ==
    ASSUME NEW rows \in Seq(CommitRows), NEW body \in Seq(CommitRows),
           NEW p \in Nat, NEW q \in Nat, q = p + Len(body), q <= Len(rows),
           \A i \in 1..Len(body) : rows[p + i] = body[i]
    PROVE  Since(rows, p) \subseteq WrittenIn(body) \cup Since(rows, q)
  <1>. SUFFICES ASSUME NEW i \in p + 1..Len(rows), rows[i].shard # Nothing
                PROVE  rows[i].shard \in WrittenIn(body) \cup Since(rows, q)
    BY DEF Since
  <1>0. Len(rows) \in Nat /\ Len(body) \in Nat /\ DOMAIN body = 1..Len(body)
    OBVIOUS
  <1>1. CASE i <= q
    <2>1. PICK k \in 1..Len(body) : i = p + k
      <3>1. i - p \in 1..Len(body) /\ i = p + (i - p)
        BY <1>0, <1>1
      <3>. QED  BY <3>1
    <2>2. rows[i] = body[k]
      BY <2>1
    <2>. QED  BY <1>0, <2>2 DEF WrittenIn
  <1>2. CASE ~(i <= q)
    <2>1. i \in q + 1..Len(rows)
      BY <1>0, <1>2
    <2>. QED  BY <2>1 DEF Since
  <1>. QED  BY <1>1, <1>2

LEMMA CorpusFound ==
    ASSUME NEW rows \in Seq(CommitRows), NEW p, NEW q, NEW written,
           Since(rows, p) \subseteq written \cup Since(rows, q),
           NEW failing, CorpusListed(rows, failing, p),
           NEW rechecked, written \subseteq rechecked,
           \A s \in Shards : Current(rows)[s].supersedes \in written => s \in rechecked,
           NEW found,
           \A s \in Shards :
               [tier |-> "corpus", focus |-> s] \in found
                  <=> IF s \in rechecked THEN Contradicts(Current(rows), s)
                      ELSE [tier |-> "corpus", focus |-> s] \in failing
    PROVE  CorpusListed(rows, found, q)
  <1>. SUFFICES ASSUME NEW s \in Shards, s \notin Since(rows, q),
                       Current(rows)[s].supersedes \notin Since(rows, q)
                PROVE  [tier |-> "corpus", focus |-> s] \in found <=> Contradicts(Current(rows), s)
    BY DEF CorpusListed
  <1>1. CASE s \in rechecked
    BY <1>1
  <1>2. CASE s \notin rechecked
    <2>1. s \notin Since(rows, p) /\ Current(rows)[s].supersedes \notin Since(rows, p)
      BY <1>2
    <2>. QED  BY <1>2, <2>1 DEF CorpusListed
  <1>. QED  BY <1>1, <1>2

LEMMA LocalFound ==
    ASSUME NEW rows \in Seq(CommitRows), NEW body \in Seq(CommitRows),
           NEW p \in Nat, NEW q \in Nat, q = p + Len(body), q <= Len(rows),
           \A i \in 1..Len(body) : rows[p + i] = body[i],
           NEW suite, \A i \in 1..Len(body) : suite \notin body[i].record.breaks,
           NEW failing, LocalListed(rows, failing, suite, p),
           NEW found,
           \A f \in Shards \cup {"events"} :
               [tier |-> "local", focus |-> f] \in found
                  <=> f \notin WrittenIn(body) /\ [tier |-> "local", focus |-> f] \in failing
    PROVE  LocalListed(rows, found, suite, q)
  <1>0. Len(rows) \in Nat /\ Len(body) \in Nat /\ DOMAIN body = 1..Len(body)
        /\ \A i \in 1..Len(body) : body[i] \in CommitRows
    OBVIOUS
  <1>1. ASSUME NEW s \in Shards \ Since(rows, q)
        PROVE  [tier |-> "local", focus |-> s] \in found <=> suite \in Current(rows)[s].breaks
    <2>1. CASE s \in WrittenIn(body)
      <3>1. PICK k \in 1..Len(body) : body[k].shard = s
        BY <1>0, <2>1 DEF WrittenIn
      <3>2. PICK n \in p + 1..q : n = p + k /\ rows[n].shard = s
        <4>1. p + k \in p + 1..q
          BY <1>0
        <4>. QED  BY <3>1, <4>1
      <3>3. n \in 1..Len(rows)
        BY <1>0
      <3>4. PICK m \in 1..Len(rows) :
                /\ rows[m].shard = s /\ \A i \in m + 1..Len(rows) : rows[i].shard # s
                /\ Current(rows)[s] = rows[m].record
        BY <3>2, <3>3, LastOf
      <3>5. ~(m < n)
        <4>1. m < n => n \in m + 1..Len(rows)
          BY <3>3
        <4>. QED  BY <3>2, <3>4, <4>1
      <3>6. m <= q
        <4>1. ~(m <= q) => m \in q + 1..Len(rows)
          BY <1>0
        <4>2. m \in q + 1..Len(rows) => rows[m].shard \in Since(rows, q) \cup {Nothing}
          BY DEF Since
        <4>3. s # Nothing /\ s \notin Since(rows, q)
          BY CommitAssumption
        <4>. QED  BY <3>4, <4>1, <4>2, <4>3
      <3>7. PICK j \in 1..Len(body) : m = p + j
        <4>1. m - p \in 1..Len(body) /\ m = p + (m - p)
          BY <1>0, <3>2, <3>5, <3>6
        <4>. QED  BY <4>1
      <3>8. suite \notin Current(rows)[s].breaks
        BY <3>4, <3>7
      <3>. QED  BY <2>1, <3>8
    <2>2. CASE s \notin WrittenIn(body)
      <3>1. s \notin Since(rows, p)
        BY <2>2, SinceSplits
      <3>. QED  BY <2>2, <3>1 DEF LocalListed
    <2>. QED  BY <2>1, <2>2
  <1>2. [tier |-> "local", focus |-> "events"] \in found
            <=> \E j \in 1..q : IsEvent(rows[j]) /\ suite \in rows[j].record.breaks
    <2>1. "events" \notin WrittenIn(body)
      <3>1. WrittenIn(body) \subseteq Shards
        BY <1>0 DEF WrittenIn, CommitRows
      <3>. QED  BY <3>1, CommitAssumption
    <2>2. ASSUME NEW j \in 1..q, suite \in rows[j].record.breaks
          PROVE  j \in 1..p
      <3>1. CASE ~(j <= p)
        <4>1. PICK k \in 1..Len(body) : j = p + k
          <5>1. j - p \in 1..Len(body) /\ j = p + (j - p)
            BY <1>0, <3>1
          <5>. QED  BY <5>1
        <4>2. rows[j] = body[k]
          BY <4>1
        <4>. QED  BY <2>2, <4>2
      <3>. QED  BY <3>1
    <2>3. 1..p \subseteq 1..q
      BY <1>0
    <2>. QED  BY <2>1, <2>2, <2>3 DEF LocalListed
  <1>. QED  BY <1>1, <1>2 DEF LocalListed

LEMMA EntryFinite ==
    ASSUME NEW foci, IsFiniteSet(foci), NEW tier
    PROVE  IsFiniteSet(Entry(tier, foci))
  <1>. DEFINE f == [x \in foci |-> [tier |-> tier, focus |-> x]]
  <1>1. f \in Surjection(foci, Entry(tier, foci))
    BY DEF Surjection, Entry
  <1>. QED  BY <1>1, FS_Surjection

LEMMA EntriesFinite == IsFiniteSet(Entries)
  <1>1. IsFiniteSet(Shards) /\ IsFiniteSet(Shards \cup {"events"})
    BY CommitAssumption, FS_AddElement
  <1>2. IsFiniteSet(Entry("corpus", Shards)) /\ IsFiniteSet(Entry("local", Shards \cup {"events"}))
    BY <1>1, EntryFinite
  <1>. QED  BY <1>2, FS_Union DEF Entries

LEMMA CappedIs ==
    ASSUME NEW entries \in SUBSET Entries, NEW list \in Capped(entries)
    PROVE  /\ list[1] \in SUBSET Entries /\ Cardinality(list[1]) <= MaxFailing
           /\ list[2] \in BOOLEAN
           /\ ~list[2] => list[1] = entries
  <1>1. IsFiniteSet(entries) /\ Cardinality(entries) \in Nat
    BY EntriesFinite, FS_Subset, FS_CardinalityType
  <1>2. PICK cut \in SUBSET entries :
            /\ list = <<cut, Cardinality(entries) > MaxFailing>>
            /\ Cardinality(cut) = IF Cardinality(entries) > MaxFailing
                                  THEN MaxFailing ELSE Cardinality(entries)
    BY DEF Capped
  <1>3. list[1] = cut /\ list[2] = (Cardinality(entries) > MaxFailing)
    BY <1>2
  <1>4. MaxFailing \in Nat
    BY CommitAssumption
  <1>5. Cardinality(cut) <= MaxFailing
    BY <1>1, <1>2, <1>4
  <1>6. Cardinality(cut) = Cardinality(entries) => cut = entries
    BY <1>1, FS_Subset
  <1>7. list[2] \in BOOLEAN /\ (~list[2] => ~(Cardinality(entries) > MaxFailing))
    <2>. DEFINE over == Cardinality(entries) > MaxFailing
    <2>1. over \in BOOLEAN
      OBVIOUS
    <2>2. list = <<cut, over>>
      BY <1>2
    <2>3. ~over => ~(Cardinality(entries) > MaxFailing)
      OBVIOUS
    <2>. HIDE DEF over
    <2>. QED  BY <2>1, <2>2, <2>3, Zenon
  <1>8. ~list[2] => list[1] = entries
    BY <1>2, <1>3, <1>6, <1>7
  <1>9. list[1] \in SUBSET Entries
    BY <1>3
  <1>. QED  BY <1>3, <1>5, <1>7, <1>8, <1>9

-----------------------------------------------------------------------------
(* The steps. *)

LEMMA CommitFacts ==
    ASSUME CorpusInv, NEW t \in Commits
    PROVE  /\ committed \in Seq(CommitRows) /\ Len(committed) \in Nat
           /\ commit \in [Commits -> CommitRecords] /\ commit[t] \in CommitRecords
           /\ commit[t].body \in Seq(CommitRows) /\ Len(commit[t].body) \in Nat
           /\ DOMAIN commit[t].body = 1..Len(commit[t].body)
           /\ commit[t].read \in Markers /\ commit[t].first \in Nat
           /\ WriterOf[t] \in Writers /\ Suite(t) \in Suites \cup {Nothing}
           /\ CommitInv(t) /\ CommitTypes
  <1>1. commit \in [Commits -> CommitRecords] /\ committed \in Seq(CommitRows)
    BY DEF CorpusInv, CommitTypes
  <1>2. commit[t] \in CommitRecords
    BY <1>1
  <1>3. commit[t].body \in Seq(CommitRows) /\ commit[t].read \in Markers /\ commit[t].first \in Nat
    BY <1>2 DEF CommitRecords
  <1>4. WriterOf[t] \in Writers /\ Suite(t) \in Suites \cup {Nothing}
    BY CommitAssumption DEF Suite
  <1>. QED  BY <1>1, <1>2, <1>3, <1>4 DEF CorpusInv

LEMMA NoCommitTyped == NoCommit \in CommitRecords /\ NoCommit.pc = "idle" /\ NoCommit.body = <<>>
  <1>1. NoMarker \in Markers /\ <<>> \in Seq(CommitRows)
    BY NoMarkerTyped
  <1>. QED  BY <1>1 DEF NoCommit, CommitRecords

(* A commit that is over, or has not begun, claims nothing.                 *)
LEMMA OverInv ==
    ASSUME NEW t \in Commits, commit'[t] = NoCommit
    PROVE  CommitInv(t)'
  <1>1. commit'[t].pc = "idle" /\ commit'[t].body = <<>> /\ DOMAIN <<>> = {}
    BY NoCommitTyped
  <1>. QED  BY <1>1 DEF CommitInv

LEMMA CommitKept ==
    ASSUME NEW t \in Commits, CommitInv(t), commit'[t] = commit[t], committed' = committed
    PROVE  CommitInv(t)'
  BY DEF CommitInv, LastRow, Contiguous, Suite

(* One commit goes on and no row is added.                                  *)
LEMMA StepKeeps ==
    ASSUME CorpusInv, NEW t \in Commits, NEW x \in CommitRecords,
           commit' = [commit EXCEPT ![t] = x], committed' = committed,
           MarkerInv(committed, marker'),
           unmarked' \in [Writers -> SUBSET Nat], TurnsInv', CommitInv(t)'
    PROVE  CorpusInv'
  <1>1. CommitTypes'
    BY DEF CorpusInv, CommitTypes, MarkerInv
  <1>2. ASSUME NEW u \in Commits
        PROVE  CommitInv(u)'
    <2>1. CASE u = t
      BY <2>1
    <2>2. CASE u # t
      <3>1. commit'[u] = commit[u]
        BY <2>2 DEF CorpusInv, CommitTypes
      <3>. QED  BY <3>1, CommitKept DEF CorpusInv
    <2>. QED  BY <2>1, <2>2
  <1>. QED  BY <1>1, <1>2 DEF CorpusInv

Turning == {"turn", "query", "update"}

(* A turn is kept by a commit that goes on, and given back by one that      *)
(* ends.                                                                    *)
LEMMA TurnsKept ==
    ASSUME CorpusInv, NEW t \in Commits, NEW x \in CommitRecords,
           commit' = [commit EXCEPT ![t] = x],
           \/ /\ unmarked' = unmarked /\ x.first = commit[t].first
              /\ commit[t].pc \in Turning => x.pc \in Turning
           \/ unmarked' = unmarked /\ commit[t].pc \notin Turning
           \/ Release(t)
    PROVE  TurnsInv' /\ unmarked' \in [Writers -> SUBSET Nat]
  <1>0. /\ unmarked \in [Writers -> SUBSET Nat] /\ commit \in [Commits -> CommitRecords]
        /\ TurnsInv /\ WriterOf[t] \in Writers
    BY CommitFacts DEF CorpusInv, CommitTypes
  <1>1. unmarked' \in [Writers -> SUBSET Nat]
    BY <1>0 DEF Release
  <1>2. \A c \in Writers : unmarked'[c] \subseteq unmarked[c]
    BY <1>0 DEF Release
  <1>3. ASSUME NEW c \in Writers, NEW p \in unmarked'[c]
        PROVE  \E u \in Commits : /\ WriterOf[u] = c /\ commit'[u].first = p
                                  /\ commit'[u].pc \in Turning
    <2>1. PICK u \in Commits : /\ WriterOf[u] = c /\ commit[u].first = p
                               /\ commit[u].pc \in Turning
      BY <1>0, <1>2, <1>3 DEF TurnsInv, Turning
    <2>2. CASE u = t
      <3>1. commit'[t] = x
        BY <1>0
      <3>2. CASE Release(t)
        <4>1. unmarked'[c] = unmarked[c] \ {p}
          BY <1>0, <2>1, <2>2, <3>2 DEF Release
        <4>. QED  BY <1>3, <4>1
      <3>. QED  BY <2>1, <2>2, <3>1, <3>2
    <2>3. CASE u # t
      <3>1. commit'[u] = commit[u]
        BY <1>0, <2>3
      <3>. QED  BY <2>1, <3>1
    <2>. QED  BY <2>2, <2>3
  <1>. QED  BY <1>1, <1>3 DEF TurnsInv, Turning

(* A turn that ends.                                                        *)
LEMMA EndingKeeps ==
    ASSUME CorpusInv, NEW t \in Commits, EndTurn(t), committed' = committed,
           MarkerInv(committed, marker')
    PROVE  CorpusInv'
  <1>1. commit' = [commit EXCEPT ![t] = NoCommit] /\ Release(t)
    BY DEF EndTurn
  <1>2. TurnsInv' /\ unmarked' \in [Writers -> SUBSET Nat]
    BY <1>1, NoCommitTyped, TurnsKept
  <1>3. commit'[t] = NoCommit
    BY <1>1, CommitFacts
  <1>4. CommitInv(t)'
    BY <1>3, OverInv
  <1>. QED  BY <1>1, <1>2, <1>4, NoCommitTyped, StepKeeps

LEMMA BeginningKeeps ==
    ASSUME CorpusInv, NEW t \in Commits, BeginWrite(t)
    PROVE  CorpusInv'
  <1>1. PICK body \in Batches :
            /\ \A i \in DOMAIN body : Suite(t) \notin body[i].record.breaks
            /\ commit' = [commit EXCEPT ![t] = [NoCommit EXCEPT !.pc = "write", !.body = body,
                                                               !.since = Len(committed)]]
    BY DEF BeginWrite
  <1>. DEFINE since == Len(committed)
              x == [NoCommit EXCEPT !.pc = "write", !.body = body, !.since = since]
  <1>2. body \in Seq(CommitRows) /\ since \in Nat /\ NoCommit \in CommitRecords
    BY CommitAssumption, CommitFacts, NoCommitTyped
  <1>3. commit' = [commit EXCEPT ![t] = x]
    BY <1>1
  <1>. HIDE DEF since
  <1>4. x \in CommitRecords /\ x.pc = "write" /\ x.body = body
    BY <1>2 DEF CommitRecords, NoCommit
  <1>. HIDE DEF x
  <1>5. commit'[t] = x /\ commit[t].pc = "idle" /\ UNCHANGED <<committed, marker, unmarked>>
    BY <1>3, CommitFacts DEF BeginWrite, At
  <1>6. CommitInv(t)'
    BY <1>1, <1>4, <1>5 DEF CommitInv, Suite
  <1>7. TurnsInv' /\ unmarked' \in [Writers -> SUBSET Nat]
    BY <1>3, <1>4, <1>5, TurnsKept DEF Turning
  <1>8. MarkerInv(committed, marker')
    BY <1>5 DEF CorpusInv
  <1>. QED  BY <1>3, <1>4, <1>5, <1>6, <1>7, <1>8, StepKeeps

(* Rows are appended: what markers say stays right, and the rows of a commit *)
(* stay where they are.                                                      *)
LEMMA CommitGrows ==
    ASSUME CorpusInv, NEW u \in Commits, commit'[u] = commit[u],
           NEW body \in Seq(CommitRows), committed' = committed \o body
    PROVE  CommitInv(u)'
  <1>1. /\ committed \in Seq(CommitRows) /\ Len(committed) \in Nat /\ commit[u] \in CommitRecords
        /\ CommitInv(u) /\ commit[u].first \in Nat /\ Len(commit[u].body) \in Nat
        /\ commit[u].read \in Markers
    BY CommitFacts
  <1>2. /\ committed' \in Seq(CommitRows) /\ Len(committed') = Len(committed) + Len(body)
        /\ \A i \in 1..Len(committed) : committed'[i] = committed[i] /\ Len(body) \in Nat
    BY <1>1, Appended
  <1>3. ASSUME commit[u].pc \in {"turn", "query", "update", "late"}
        PROVE  /\ commit[u].first >= 1 /\ LastRow(u)' <= Len(committed')
               /\ \A i \in 1..Len(commit[u].body) :
                     committed'[commit[u].first - 1 + i] = commit[u].body[i]
    <2>1. /\ commit[u].first >= 1 /\ LastRow(u) <= Len(committed) /\ LastRow(u)' = LastRow(u)
          /\ LastRow(u) = commit[u].first + Len(commit[u].body) - 1
      BY <1>1, <1>3 DEF CommitInv, LastRow
    <2>2. \A i \in 1..Len(commit[u].body) : commit[u].first - 1 + i \in 1..Len(committed)
      <3>. DEFINE first == commit[u].first
                  size == Len(commit[u].body)
                  whole == Len(committed)
      <3>1. /\ first \in Nat /\ size \in Nat /\ whole \in Nat /\ first >= 1
            /\ first + size - 1 <= whole
        BY <1>1, <2>1
      <3>. HIDE DEF first, size, whole
      <3>2. \A i \in 1..size : first - 1 + i \in 1..whole
        BY <3>1
      <3>. QED  BY <3>2 DEF first, size, whole
    <2>3. \A i \in 1..Len(commit[u].body) :
                     committed[commit[u].first - 1 + i] = commit[u].body[i]
      BY <1>1, <1>3 DEF CommitInv
    <2>4. \A i \in 1..Len(commit[u].body) :
                     committed'[commit[u].first - 1 + i] = commit[u].body[i]
      BY <1>2, <2>2, <2>3
    <2>5. LastRow(u)' <= Len(committed')
      <3>1. LastRow(u) \in Int /\ Len(body) \in Nat
        BY <1>1, <2>1
      <3>. QED  BY <1>1, <1>2, <2>1, <3>1
    <2>. QED  BY <2>1, <2>4, <2>5
  <1>4. \A m : MarkerInv(committed, m) => MarkerInv(committed', m)
    BY <1>1, MarkerGrows
  <1>5. ASSUME commit[u].pc = "validate"
        PROVE  /\ commit[u].read.position <= Len(committed')
               /\ LocalListed(committed', commit[u].read.failing, commit[u].read.suite,
                              commit[u].read.position)
    <2>1. /\ commit[u].read.position <= Len(committed) /\ commit[u].read.position \in Nat
          /\ LocalListed(committed, commit[u].read.failing, commit[u].read.suite,
                         commit[u].read.position)
      BY <1>1, <1>5 DEF CommitInv, Markers
    <2>2. commit[u].read.position \in 0..Len(committed)
      BY <1>1, <2>1
    <2>. QED  BY <1>1, <1>2, <2>1, <2>2, LocalGrows
  <1>. QED  BY <1>1, <1>3, <1>4, <1>5 DEF CommitInv, Contiguous, Suite

LEMMA CommittingKeeps ==
    ASSUME CorpusInv, NEW t \in Commits, CommitBatch(t)
    PROVE  CorpusInv'
  <1>1. /\ committed \in Seq(CommitRows) /\ Len(committed) \in Nat
        /\ commit \in [Commits -> CommitRecords] /\ commit[t] \in CommitRecords
        /\ commit[t].body \in Seq(CommitRows) /\ CommitInv(t) /\ commit[t].pc = "write"
        /\ unmarked \in [Writers -> SUBSET Nat] /\ WriterOf[t] \in Writers
        /\ Len(commit[t].body) \in Nat
    BY CommitFacts DEF CommitBatch, At, CommitTypes
  <1>2. CASE Refused(t)
    <2>1. /\ commit' = [commit EXCEPT ![t] = NoCommit]
          /\ UNCHANGED <<committed, unmarked, marker>>
      BY <1>2 DEF CommitBatch
    <2>2. TurnsInv' /\ unmarked' \in [Writers -> SUBSET Nat]
      BY <1>1, <2>1, NoCommitTyped, TurnsKept DEF Turning
    <2>3. commit'[t] = NoCommit
      BY <1>1, <2>1
    <2>4. CommitInv(t)'
      BY <2>3, OverInv
    <2>5. MarkerInv(committed, marker')
      BY <2>1 DEF CorpusInv
    <2>. QED  BY <2>1, <2>2, <2>4, <2>5, NoCommitTyped, StepKeeps
  <1>3. CASE ~Refused(t)
    <2>. DEFINE body == commit[t].body
                first == Len(committed) + 1
                x == [commit[t] EXCEPT !.pc = "turn", !.first = first]
    <2>1. /\ Len(committed) + Len(body) <= MaxCommitted
          /\ committed' = committed \o body
          /\ unmarked' = [unmarked EXCEPT ![WriterOf[t]] = @ \cup {first}]
          /\ commit' = [commit EXCEPT ![t] = x] /\ marker' = marker
      BY <1>1, <1>3 DEF CommitBatch
    <2>2. first \in Nat /\ first >= 1 /\ body \in Seq(CommitRows)
      BY <1>1
    <2>3. /\ committed' \in Seq(CommitRows) /\ Len(committed') = Len(committed) + Len(body)
          /\ \A k \in 1..Len(body) : committed'[Len(committed) + k] = body[k]
      BY <1>1, <2>1, Appended
    <2>4. first - 1 = Len(committed)
      BY <1>1
    <2>. HIDE DEF first
    <2>5. x \in CommitRecords /\ x.pc = "turn" /\ x.first = first /\ x.body = body
      BY <1>1, <2>2 DEF CommitRecords
    <2>. HIDE DEF x, body
    <2>6. commit'[t] = x /\ commit' \in [Commits -> CommitRecords]
          /\ \A u \in Commits : u # t => commit'[u] = commit[u]
      BY <1>1, <2>1, <2>5
    <2>7. CommitTypes'
      BY <1>1, <2>1, <2>2, <2>3, <2>6 DEF CorpusInv, CommitTypes
    <2>8. CommitInv(t)'
      <3>1. \A i \in DOMAIN body : Suite(t) \notin body[i].record.breaks
        BY <1>1 DEF CommitInv, body
      <3>2. LastRow(t)' <= Len(committed')
        <4>1. LastRow(t)' = first + Len(body) - 1
          BY <2>5, <2>6 DEF LastRow
        <4>2. Len(body) \in Nat
          BY <2>2
        <4>. QED  BY <1>1, <2>2, <2>3, <2>4, <4>1, <4>2
      <3>3. \A i \in 1..Len(body) : committed'[first - 1 + i] = body[i]
        BY <2>3, <2>4
      <3>. QED  BY <2>2, <2>5, <2>6, <3>1, <3>2, <3>3 DEF CommitInv, Suite
    <2>9. ASSUME NEW u \in Commits, u # t
          PROVE  CommitInv(u)'
      BY <2>1, <2>2, <2>6, <2>9, CommitGrows
    <2>10. MarkerInv(committed, marker)'
      BY <1>1, <2>1, <2>2, MarkerGrows DEF CorpusInv
    <2>11. TurnsInv'
      <3>1. ASSUME NEW c \in Writers, NEW p \in unmarked'[c]
            PROVE  \E u \in Commits : /\ WriterOf[u] = c /\ commit'[u].first = p
                                      /\ commit'[u].pc \in Turning
        <4>1. CASE c = WriterOf[t] /\ p = first
          BY <2>5, <2>6, <4>1 DEF Turning
        <4>2. CASE p \in unmarked[c]
          <5>1. PICK u \in Commits : /\ WriterOf[u] = c /\ commit[u].first = p
                                     /\ commit[u].pc \in Turning
            BY <4>2 DEF CorpusInv, TurnsInv, Turning
          <5>2. u # t
            BY <1>1, <5>1 DEF Turning
          <5>. QED  BY <2>6, <5>1, <5>2
        <4>. QED  BY <1>1, <2>1, <3>1, <4>1, <4>2
      <3>. QED  BY <3>1 DEF TurnsInv, Turning
    <2>. QED  BY <2>7, <2>8, <2>9, <2>10, <2>11 DEF CorpusInv
  <1>. QED  BY <1>2, <1>3

LEMMA TakingKeeps ==
    ASSUME CorpusInv, NEW t \in Commits, TakeTurn(t)
    PROVE  CorpusInv'
  <1>1. /\ committed' = committed /\ marker' = marker /\ MarkerInv(committed, marker)
        /\ commit[t] \in CommitRecords /\ commit[t].pc = "turn" /\ CommitInv(t)
        /\ marker \in Markers /\ commit \in [Commits -> CommitRecords]
    BY CommitFacts DEF TakeTurn, At, CorpusInv, CommitTypes
  <1>2. CASE Suite(t) # Nothing /\ Contiguous(t, marker)
    <2>. DEFINE x == [commit[t] EXCEPT !.pc = "query", !.read = marker]
    <2>1. commit' = [commit EXCEPT ![t] = x] /\ unmarked' = unmarked
      BY <1>1, <1>2 DEF TakeTurn
    <2>2. /\ x \in CommitRecords /\ x.pc = "query" /\ x.read = marker
          /\ x.first = commit[t].first /\ x.body = commit[t].body
      BY <1>1 DEF CommitRecords
    <2>. HIDE DEF x
    <2>3. commit'[t] = x
      BY <1>1, <2>1
    <2>4. CommitInv(t)'
      BY <1>1, <1>2, <2>2, <2>3 DEF CommitInv, LastRow, Contiguous, Suite
    <2>5. TurnsInv' /\ unmarked' \in [Writers -> SUBSET Nat]
      BY <2>1, <2>2, TurnsKept DEF Turning
    <2>. QED  BY <1>1, <2>1, <2>2, <2>4, <2>5, StepKeeps
  <1>3. CASE ~(Suite(t) # Nothing /\ Contiguous(t, marker))
    BY <1>1, <1>3, EndingKeeps DEF TakeTurn
  <1>. QED  BY <1>2, <1>3

LEMMA AnchoredAt ==
    ASSUME CorpusInv, NEW t \in Commits, commit[t].pc = "query"
    PROVE  /\ commit[t].read.position = commit[t].first - 1
           /\ commit[t].read.suite = Suite(t) \/ commit[t].read = NoMarker
  BY NoMarkerTyped DEF CorpusInv, CommitInv, Contiguous

LEMMA LinkedIsNeighbour ==
    ASSUME NEW rows, NEW foci, NEW s \in Shards, Links(Current(rows)[s]) \cap foci # {}
    PROVE  s \in Neighbours(rows, foci)
  BY DEF Neighbours

LEMMA RecheckedShards ==
    ASSUME CorpusInv, NEW t \in Commits
    PROVE  /\ WrittenBy(t) \subseteq Rechecked(t)
           /\ \A s \in Shards : Current(committed)[s].supersedes \in WrittenBy(t)
                                => s \in Rechecked(t)
           /\ WrittenBy(t) = WrittenIn(commit[t].body) /\ WrittenBy(t) \subseteq Shards
  <1>1. WrittenBy(t) = WrittenIn(commit[t].body)
    BY DEF WrittenBy, WrittenIn
  <1>2. WrittenBy(t) \subseteq Shards
    <2>1. \A i \in DOMAIN commit[t].body : commit[t].body[i] \in CommitRows
      BY CommitFacts
    <2>. QED  BY <2>1 DEF WrittenBy, CommitRows
  <1>3. WrittenBy(t) \subseteq Focus(t)
    BY DEF Focus
  <1>4. ASSUME NEW s \in Shards, Current(committed)[s].supersedes \in WrittenBy(t), ~Complete(t)
        PROVE  s \in Rechecked(t)
    <2>1. Current(committed)[s].supersedes # Nothing
      BY <1>2, <1>4, CommitAssumption
    <2>2. Current(committed)[s].supersedes \in Links(Current(committed)[s])
      BY <2>1 DEF Links
    <2>3. Links(Current(committed)[s]) \cap Focus(t) # {}
      BY <1>3, <1>4, <2>2
    <2>4. s \in Neighbours(committed, Focus(t))
      BY <2>3, LinkedIsNeighbour
    <2>. QED  BY <1>4, <2>4 DEF Rechecked
  <1>5. WrittenBy(t) \subseteq Rechecked(t)
    BY <1>2, <1>3 DEF Rechecked, Neighbours
  <1>. QED  BY <1>1, <1>2, <1>4, <1>5 DEF Rechecked

(* The list before it is capped.                                            *)
FoundBy(t) ==
    {e \in commit[t].read.failing :
        e.focus \notin IF e.tier = "corpus" THEN Rechecked(t) ELSE WrittenBy(t)}
    \cup Entry("corpus", CorpusTier(committed) \cap Rechecked(t))

LEMMA FoundIs ==
    ASSUME CorpusInv, NEW t \in Commits
    PROVE  /\ FoundBy(t) \in SUBSET Entries
           /\ \A s \in Shards :
                 [tier |-> "corpus", focus |-> s] \in FoundBy(t)
                    <=> IF s \in Rechecked(t) THEN Contradicts(Current(committed), s)
                        ELSE [tier |-> "corpus", focus |-> s] \in commit[t].read.failing
           /\ \A f \in Shards \cup {"events"} :
                 [tier |-> "local", focus |-> f] \in FoundBy(t)
                    <=> /\ f \notin WrittenBy(t)
                        /\ [tier |-> "local", focus |-> f] \in commit[t].read.failing
  <1>. DEFINE found == Entry("corpus", CorpusTier(committed) \cap Rechecked(t))
              listed == commit[t].read.failing
  <1>1. listed \in SUBSET Entries
    BY CommitFacts DEF Markers
  <1>2. \A tier, f : [tier |-> tier, focus |-> f] \in found
                        <=> tier = "corpus" /\ f \in CorpusTier(committed) /\ f \in Rechecked(t)
    BY DEF Entry
  <1>3. \A tier, f : [tier |-> tier, focus |-> f] \in FoundBy(t)
            <=> \/ /\ [tier |-> tier, focus |-> f] \in listed
                   /\ f \notin IF tier = "corpus" THEN Rechecked(t) ELSE WrittenBy(t)
                \/ [tier |-> tier, focus |-> f] \in found
    BY DEF FoundBy
  <1>4. found \subseteq Entries
    BY DEF Entries, Entry, CorpusTier
  <1>5. FoundBy(t) \in SUBSET Entries
    BY <1>1, <1>4 DEF FoundBy
  <1>. HIDE DEF found, listed
  <1>6. \A s \in Shards : s \in CorpusTier(committed) <=> Contradicts(Current(committed), s)
    BY DEF CorpusTier
  <1>. QED  BY <1>2, <1>3, <1>5, <1>6 DEF listed

(* The marker a query prepares is right up to the last row of its commit.   *)
LEMMA QueryRight ==
    ASSUME CorpusInv, NEW t \in Commits, commit[t].pc = "query",
           ~commit[t].read.truncated
    PROVE  /\ CorpusListed(committed, FoundBy(t), LastRow(t))
           /\ LocalListed(committed, FoundBy(t), Suite(t), LastRow(t))
  <1>. DEFINE body == commit[t].body
              p == commit[t].first - 1
              q == LastRow(t)
              failing == commit[t].read.failing
  <1>1. /\ committed \in Seq(CommitRows) /\ Len(committed) \in Nat
        /\ body \in Seq(CommitRows) /\ Len(body) \in Nat /\ DOMAIN body = 1..Len(body)
        /\ commit[t].first \in Nat /\ CommitInv(t)
    BY CommitFacts
  <1>2. /\ commit[t].first >= 1 /\ q <= Len(committed)
        /\ \A i \in 1..Len(body) : committed[p + i] = body[i]
        /\ \A i \in 1..Len(body) : Suite(t) \notin body[i].record.breaks
        /\ MarkerInv(committed, commit[t].read)
    BY <1>1 DEF CommitInv
  <1>3. p \in Nat
    BY <1>1, <1>2
  <1>4. q = p + Len(body)
    <2>1. q = commit[t].first + Len(body) - 1
      BY DEF LastRow
    <2>2. commit[t].first \in Int /\ Len(body) \in Int
      BY <1>1
    <2>. HIDE DEF q, body
    <2>. QED  BY <2>1, <2>2
  <1>5. q \in Nat
    BY <1>1, <1>3, <1>4
  <1>6. commit[t].read.position = p
    BY AnchoredAt
  <1>7. CorpusListed(committed, failing, p) /\ LocalListed(committed, failing, Suite(t), p)
    <2>1. CASE commit[t].read.suite = Suite(t)
      BY <1>2, <1>6, <2>1 DEF MarkerInv
    <2>2. CASE commit[t].read = NoMarker
      <3>1. failing = {} /\ p = 0
        BY <1>6, <2>2, NoMarkerTyped
      <3>. QED  BY <1>1, <3>1, NothingListed
    <2>. QED  BY <2>1, <2>2, AnchoredAt
  <1>. HIDE DEF p, q, body, failing
  <1>8. Since(committed, p) \subseteq WrittenIn(body) \cup Since(committed, q)
    BY <1>1, <1>2, <1>3, <1>4, <1>5, SinceSplits
  <1>9. WrittenBy(t) = WrittenIn(body)
    BY RecheckedShards DEF body
  <1>10. CorpusListed(committed, FoundBy(t), q)
    <2>1. \A s \in Shards :
              [tier |-> "corpus", focus |-> s] \in FoundBy(t)
                 <=> IF s \in Rechecked(t) THEN Contradicts(Current(committed), s)
                     ELSE [tier |-> "corpus", focus |-> s] \in failing
      BY FoundIs DEF failing
    <2>2. /\ WrittenBy(t) \subseteq Rechecked(t)
          /\ \A s \in Shards : Current(committed)[s].supersedes \in WrittenBy(t)
                               => s \in Rechecked(t)
      BY RecheckedShards
    <2>3. Since(committed, p) \subseteq WrittenBy(t) \cup Since(committed, q)
      BY <1>8, <1>9
    <2>. QED  BY <1>1, <1>7, <2>1, <2>2, <2>3, CorpusFound
  <1>11. LocalListed(committed, FoundBy(t), Suite(t), q)
    <2>1. \A f \in Shards \cup {"events"} :
              [tier |-> "local", focus |-> f] \in FoundBy(t)
                 <=> f \notin WrittenIn(body) /\ [tier |-> "local", focus |-> f] \in failing
      BY <1>9, FoundIs DEF failing
    <2>. QED  BY <1>1, <1>2, <1>3, <1>4, <1>5, <1>7, <2>1, LocalFound
  <1>. QED  BY <1>10, <1>11 DEF q

LEMMA QueryingKeeps ==
    ASSUME CorpusInv, NEW t \in Commits, Query(t)
    PROVE  CorpusInv'
  <1>1. /\ commit[t] \in CommitRecords /\ commit[t].pc = "query" /\ CommitInv(t)
        /\ commit \in [Commits -> CommitRecords] /\ committed \in Seq(CommitRows)
        /\ UNCHANGED <<committed, marker, unmarked>> /\ MarkerInv(committed, marker)
        /\ commit[t].first \in Nat /\ Len(commit[t].body) \in Nat
        /\ commit[t].read.truncated \in BOOLEAN /\ Suite(t) \in Suites \cup {Nothing}
    BY CommitFacts DEF Query, At, CorpusInv, Markers
  <1>2. PICK list \in Capped(FoundBy(t)) :
            commit' = [commit EXCEPT ![t].pc = "update",
                       ![t].read = [suite |-> Suite(t), position |-> LastRow(t),
                                    failing |-> list[1],
                                    truncated |-> StaysTruncated(t, list[2])]]
    BY DEF Query, FoundBy
  <1>. DEFINE now == StaysTruncated(t, list[2])
              failing == list[1]
              position == LastRow(t)
              suite == Suite(t)
              m == [suite |-> suite, position |-> position, failing |-> failing, truncated |-> now]
              x == [commit[t] EXCEPT !.pc = "update", !.read = m]
  <1>3. /\ failing \in SUBSET Entries /\ Cardinality(failing) <= MaxFailing
        /\ list[2] \in BOOLEAN /\ (~list[2] => failing = FoundBy(t))
    BY FoundIs, CappedIs
  <1>4. now \in BOOLEAN /\ (~now => failing = FoundBy(t) /\ ~commit[t].read.truncated)
    BY <1>1, <1>3 DEF StaysTruncated
  <1>5. position \in Nat /\ position <= Len(committed)
    BY <1>1 DEF CommitInv, LastRow
  <1>6. suite \in Suites
    BY <1>1 DEF CommitInv
  <1>7. ~now => CorpusListed(committed, failing, position)
                /\ LocalListed(committed, failing, suite, position)
    BY <1>1, <1>4, QueryRight
  <1>8. commit' = [commit EXCEPT ![t] = x]
    BY <1>1, <1>2
  <1>. HIDE DEF now, failing, position, suite
  <1>9. /\ m \in Markers /\ m.position = position /\ m.failing = failing /\ m.suite = suite
        /\ m.truncated = now
    BY <1>3, <1>4, <1>5, <1>6 DEF Markers
  <1>. HIDE DEF m
  <1>10. MarkerInv(committed, m)
    BY <1>3, <1>5, <1>6, <1>7, <1>9 DEF MarkerInv
  <1>11. /\ x \in CommitRecords /\ x.pc = "update" /\ x.read = m
         /\ x.first = commit[t].first /\ x.body = commit[t].body
    BY <1>1, <1>9 DEF CommitRecords
  <1>. HIDE DEF x
  <1>12. commit'[t] = x
    BY <1>1, <1>8
  <1>13. CommitInv(t)'
    BY <1>1, <1>10, <1>11, <1>12 DEF CommitInv, LastRow, Suite
  <1>14. TurnsInv' /\ unmarked' \in [Writers -> SUBSET Nat]
    BY <1>1, <1>8, <1>11, TurnsKept DEF Turning
  <1>. QED  BY <1>1, <1>8, <1>11, <1>13, <1>14, StepKeeps

LEMMA FailingTurnKeeps ==
    ASSUME CorpusInv, NEW t \in Commits, FailTurn(t)
    PROVE  CorpusInv'
  BY EndingKeeps DEF FailTurn, CorpusInv

LEMMA LeavingKeeps ==
    ASSUME CorpusInv, NEW t \in Commits, LeaveThread(t)
    PROVE  CorpusInv'
  <1>. DEFINE x == [commit[t] EXCEPT !.pc = "late"]
  <1>1. /\ commit[t] \in CommitRecords /\ commit[t].pc = "update" /\ CommitInv(t)
        /\ commit \in [Commits -> CommitRecords]
        /\ UNCHANGED <<committed, marker>> /\ MarkerInv(committed, marker)
    BY CommitFacts DEF LeaveThread, At, CorpusInv
  <1>2. commit' = [commit EXCEPT ![t] = x] /\ Release(t)
    BY <1>1 DEF LeaveThread, Goto
  <1>3. /\ x \in CommitRecords /\ x.pc = "late" /\ x.read = commit[t].read
        /\ x.first = commit[t].first /\ x.body = commit[t].body
    BY <1>1 DEF CommitRecords
  <1>. HIDE DEF x
  <1>4. commit'[t] = x
    BY <1>1, <1>2
  <1>5. CommitInv(t)'
    BY <1>1, <1>3, <1>4 DEF CommitInv, LastRow, Suite
  <1>6. TurnsInv' /\ unmarked' \in [Writers -> SUBSET Nat]
    BY <1>2, <1>3, TurnsKept
  <1>. QED  BY <1>1, <1>2, <1>3, <1>5, <1>6, StepKeeps

LEMMA UpdatingKeeps ==
    ASSUME CorpusInv, NEW t \in Commits, Update(t)
    PROVE  CorpusInv'
  <1>1. MarkerInv(committed, commit[t].read) /\ MarkerInv(committed, marker)
    BY CommitFacts DEF Update, CommitInv, CorpusInv
  <1>2. marker' = commit[t].read \/ marker' = marker
    BY DEF Update
  <1>. QED  BY <1>1, <1>2, EndingKeeps DEF Update

LEMMA ValidatingKeeps ==
    ASSUME CorpusInv, NEW t \in Commits, BeginValidate(t)
    PROVE  CorpusInv'
  <1>. DEFINE suite == ValidatingSuite(t)
              position == Len(committed)
              failing == Entry("local", LocalTier(committed, suite))
              m == [NoMarker EXCEPT !.suite = suite, !.position = position, !.failing = failing]
              x == [NoCommit EXCEPT !.pc = "validate", !.read = m]
  <1>1. /\ commit' = [commit EXCEPT ![t] = x] /\ commit[t].pc = "idle"
        /\ UNCHANGED <<committed, marker, unmarked>> /\ MarkerInv(committed, marker)
        /\ committed \in Seq(CommitRows) /\ position \in Nat
        /\ commit \in [Commits -> CommitRecords]
    BY CommitFacts DEF BeginValidate, At, CorpusInv
  <1>2. suite \in Suites
    BY CommitFacts, CommitAssumption DEF ValidatingSuite
  <1>3. failing \subseteq Entry("local", Shards \cup {"events"})
    BY DEF Entry, LocalTier
  <1>4. LocalListed(committed, failing, suite, position)
    <2>1. \A f : [tier |-> "local", focus |-> f] \in failing <=> f \in LocalTier(committed, suite)
      BY DEF Entry
    <2>2. \A s \in Shards : s \in LocalTier(committed, suite) <=> suite \in Current(committed)[s].breaks
      BY CommitAssumption DEF LocalTier
    <2>3. "events" \in LocalTier(committed, suite)
            <=> \E j \in 1..position : IsEvent(committed[j]) /\ suite \in committed[j].record.breaks
      <3>1. DOMAIN committed = 1..position
        BY <1>1
      <3>. QED  BY <3>1, CommitAssumption DEF LocalTier
    <2>. HIDE DEF failing, position, suite
    <2>. QED  BY <2>1, <2>2, <2>3 DEF LocalListed
  <1>5. position <= Len(committed)
    BY <1>1
  <1>. HIDE DEF suite, position, failing
  <1>6. failing \subseteq Entries
    BY <1>3 DEF Entries
  <1>7. /\ m \in Markers /\ m.suite = suite /\ m.position = position /\ m.failing = failing
    BY <1>1, <1>2, <1>6, NoMarkerTyped DEF Markers, NoMarker
  <1>. HIDE DEF m
  <1>8. x \in CommitRecords /\ x.pc = "validate" /\ x.read = m /\ x.body = <<>>
    BY <1>7, NoCommitTyped DEF CommitRecords, NoCommit
  <1>. HIDE DEF x
  <1>9. commit'[t] = x
    BY <1>1
  <1>10. CommitInv(t)'
    <2>1. DOMAIN <<>> = {} /\ committed' = committed
      BY <1>1
    <2>. QED  BY <1>2, <1>3, <1>4, <1>5, <1>7, <1>8, <1>9, <2>1 DEF CommitInv
  <1>11. TurnsInv' /\ unmarked' \in [Writers -> SUBSET Nat]
    BY <1>1, <1>8, TurnsKept DEF Turning
  <1>. QED  BY <1>1, <1>8, <1>10, <1>11, StepKeeps

LEMMA ValidatedKeeps ==
    ASSUME CorpusInv, NEW t \in Commits, ValidateCorpusTier(t)
    PROVE  CorpusInv'
  <1>. DEFINE old == commit[t].read
              entries == old.failing \cup Entry("corpus", CorpusTier(committed))
  <1>1. /\ commit[t] \in CommitRecords /\ commit[t].pc = "validate" /\ CommitInv(t)
        /\ commit \in [Commits -> CommitRecords] /\ committed \in Seq(CommitRows)
        /\ UNCHANGED <<committed, marker, unmarked>> /\ MarkerInv(committed, marker)
        /\ old \in Markers
    BY CommitFacts DEF ValidateCorpusTier, At, CorpusInv
  <1>2. /\ old.suite \in Suites /\ old.position <= Len(committed)
        /\ old.failing \subseteq Entry("local", Shards \cup {"events"})
        /\ LocalListed(committed, old.failing, old.suite, old.position)
        /\ \A i \in DOMAIN commit[t].body : Suite(t) \notin commit[t].body[i].record.breaks
    BY <1>1 DEF CommitInv
  <1>3. PICK list \in Capped(entries) :
            commit' = [commit EXCEPT ![t].pc = "store", ![t].read.failing = list[1],
                                     ![t].read.truncated = list[2]]
    BY DEF ValidateCorpusTier
  <1>4. entries \in SUBSET Entries
    BY <1>2 DEF Entries, Entry, CorpusTier
  <1>5. /\ \A s \in Shards : [tier |-> "corpus", focus |-> s] \in entries
                                <=> Contradicts(Current(committed), s)
        /\ \A f : [tier |-> "local", focus |-> f] \in entries
                     <=> [tier |-> "local", focus |-> f] \in old.failing
    <2>1. \A s : [tier |-> "corpus", focus |-> s] \notin old.failing
      BY <1>2 DEF Entry
    <2>2. \A tier, f : [tier |-> tier, focus |-> f] \in Entry("corpus", CorpusTier(committed))
                          <=> tier = "corpus" /\ f \in CorpusTier(committed)
      BY DEF Entry
    <2>. QED  BY <2>1, <2>2 DEF CorpusTier
  <1>. DEFINE failing == list[1]
              cut == list[2]
              m == [old EXCEPT !.failing = failing, !.truncated = cut]
              x == [commit[t] EXCEPT !.pc = "store", !.read = m]
  <1>6. /\ failing \in SUBSET Entries /\ Cardinality(failing) <= MaxFailing
        /\ cut \in BOOLEAN /\ (~cut => failing = entries)
    BY <1>4, CappedIs
  <1>. HIDE DEF entries, failing, cut
  <1>7. ~cut => CorpusListed(committed, failing, old.position)
                /\ LocalListed(committed, failing, old.suite, old.position)
    BY <1>2, <1>5, <1>6 DEF CorpusListed, LocalListed
  <1>8. commit' = [commit EXCEPT ![t] = x]
    BY <1>1, <1>3 DEF failing, cut
  <1>. HIDE DEF old
  <1>9. /\ m \in Markers /\ m.suite = old.suite /\ m.position = old.position
        /\ m.failing = failing /\ m.truncated = cut
    BY <1>1, <1>6 DEF Markers
  <1>. HIDE DEF m
  <1>10. MarkerInv(committed, m)
    BY <1>2, <1>6, <1>7, <1>9 DEF MarkerInv
  <1>11. x \in CommitRecords /\ x.pc = "store" /\ x.read = m /\ x.body = commit[t].body
    BY <1>1, <1>9 DEF CommitRecords
  <1>. HIDE DEF x
  <1>12. commit'[t] = x
    BY <1>1, <1>8
  <1>13. CommitInv(t)'
    BY <1>1, <1>2, <1>10, <1>11, <1>12 DEF CommitInv, Suite
  <1>14. TurnsInv' /\ unmarked' \in [Writers -> SUBSET Nat]
    BY <1>1, <1>8, <1>11, TurnsKept DEF Turning
  <1>. QED  BY <1>1, <1>8, <1>11, <1>13, <1>14, StepKeeps

LEMMA StoringKeeps ==
    ASSUME CorpusInv, NEW t \in Commits, StoreValidation(t)
    PROVE  CorpusInv'
  <1>1. /\ commit[t].pc = "store" /\ commit' = [commit EXCEPT ![t] = NoCommit]
        /\ UNCHANGED <<committed, unmarked>>
        /\ commit \in [Commits -> CommitRecords]
    BY CommitFacts DEF StoreValidation, At
  <1>2. MarkerInv(committed, commit[t].read) /\ MarkerInv(committed, marker)
    BY <1>1, CommitFacts DEF CommitInv, CorpusInv
  <1>3. MarkerInv(committed, marker')
    BY <1>2 DEF StoreValidation
  <1>4. TurnsInv' /\ unmarked' \in [Writers -> SUBSET Nat]
    BY <1>1, NoCommitTyped, TurnsKept DEF Turning
  <1>5. commit'[t] = NoCommit
    BY <1>1
  <1>6. CommitInv(t)'
    BY <1>5, OverInv
  <1>. QED  BY <1>1, <1>3, <1>4, <1>6, NoCommitTyped, StepKeeps

LEMMA StoppingKeeps ==
    ASSUME CorpusInv, NEW c \in Writers, CrashWriter(c)
    PROVE  CorpusInv'
  <1>1. /\ commit \in [Commits -> CommitRecords] /\ unmarked \in [Writers -> SUBSET Nat]
        /\ unmarked' = [unmarked EXCEPT ![c] = {}]
        /\ commit' = [t \in Commits |-> IF WriterOf[t] = c THEN NoCommit ELSE commit[t]]
        /\ UNCHANGED <<committed, marker>>
    BY DEF CrashWriter, CorpusInv, CommitTypes
  <1>2. CommitTypes'
    BY <1>1, NoCommitTyped DEF CorpusInv, CommitTypes
  <1>3. ASSUME NEW t \in Commits
        PROVE  CommitInv(t)'
    <2>1. CASE WriterOf[t] = c
      <3>1. commit'[t] = NoCommit
        BY <1>1, <2>1
      <3>. QED  BY <3>1, OverInv
    <2>2. CASE WriterOf[t] # c
      <3>1. commit'[t] = commit[t]
        BY <1>1, <2>2
      <3>. QED  BY <1>1, <3>1, CommitKept DEF CorpusInv
    <2>. QED  BY <2>1, <2>2
  <1>4. TurnsInv'
    <2>1. ASSUME NEW d \in Writers, NEW p \in unmarked'[d]
          PROVE  \E u \in Commits : /\ WriterOf[u] = d /\ commit'[u].first = p
                                    /\ commit'[u].pc \in Turning
      <3>1. d # c /\ p \in unmarked[d]
        BY <1>1, <2>1
      <3>2. PICK u \in Commits : /\ WriterOf[u] = d /\ commit[u].first = p
                                 /\ commit[u].pc \in Turning
        BY <3>1 DEF CorpusInv, TurnsInv, Turning
      <3>3. commit'[u] = commit[u]
        BY <1>1, <3>1, <3>2
      <3>. QED  BY <3>2, <3>3
    <2>. QED  BY <2>1 DEF TurnsInv, Turning
  <1>. QED  BY <1>1, <1>2, <1>3, <1>4 DEF CorpusInv

LEMMA CorpusStarts == InitCommit => CorpusInv
  <1>. SUFFICES ASSUME InitCommit PROVE CorpusInv
    OBVIOUS
  <1>1. <<>> \in Seq(CommitRows) /\ Len(<<>>) = 0 /\ MaxCommitted \in Nat /\ MaxFailing \in Nat
    BY CommitAssumption
  <1>2. CommitTypes
    BY <1>1, NoMarkerTyped, NoCommitTyped DEF InitCommit, CommitTypes
  <1>3. CorpusListed(<<>>, {}, 0) /\ LocalListed(<<>>, {}, Nothing, 0)
    BY <1>1, NothingListed
  <1>4. MarkerInv(committed, marker)
    <2>1. committed = <<>> /\ marker = NoMarker
      BY DEF InitCommit
    <2>. QED  BY <1>1, <1>3, <2>1, NoMarkerTyped DEF MarkerInv
  <1>5. TurnsInv
    BY DEF InitCommit, TurnsInv
  <1>6. ASSUME NEW t \in Commits
        PROVE  CommitInv(t)
    <2>1. commit[t].pc = "idle" /\ commit[t].body = <<>> /\ DOMAIN <<>> = {}
      BY NoCommitTyped DEF InitCommit
    <2>. QED  BY <2>1 DEF CommitInv
  <1>. QED  BY <1>2, <1>4, <1>5, <1>6 DEF CorpusInv

LEMMA CorpusStep == CorpusInv /\ [NextCommit]_commitVars => CorpusInv'
  <1>. SUFFICES ASSUME CorpusInv, [NextCommit]_commitVars PROVE CorpusInv'
    OBVIOUS
  <1>1. ASSUME NEW t \in Commits, WriteStep(t)
        PROVE  CorpusInv'
    BY <1>1, CommittingKeeps, TakingKeeps, QueryingKeeps, UpdatingKeeps DEF WriteStep
  <1>2. ASSUME NEW t \in Commits, ValidateStep(t)
        PROVE  CorpusInv'
    BY <1>2, ValidatedKeeps, StoringKeeps DEF ValidateStep
  <1>3. CASE UNCHANGED commitVars
    <2>1. UNCHANGED <<committed, marker, unmarked, commit>>
      BY <1>3 DEF commitVars
    <2>2. \A t \in Commits : CommitInv(t)'
      BY <2>1, CommitKept DEF CorpusInv
    <2>3. CommitTypes' /\ TurnsInv' /\ MarkerInv(committed, marker)'
      BY <2>1 DEF CorpusInv, CommitTypes, TurnsInv
    <2>. QED  BY <2>2, <2>3 DEF CorpusInv
  <1>. QED  BY <1>1, <1>2, <1>3, BeginningKeeps, FailingTurnKeeps, LeavingKeeps, ValidatingKeeps,
            StoppingKeeps DEF NextCommit

-----------------------------------------------------------------------------
(* However commits, failures, cancelled writes and validations interleave,  *)
(* an uncut marker is right of every shard that no later row touches        *)
(* (storage/context.py, _advance_shacl_marker).                             *)
THEOREM CorpusInductive == CommitSpec => []CorpusInv
  BY CorpusStarts, CorpusStep, PTL DEF CommitSpec

LEMMA ExactAtHead ==
    ASSUME NEW rows \in Seq(CommitRows), NEW m, MarkerInv(rows, m),
           m.position = Len(rows), ~m.truncated
    PROVE  m.failing = Violations(rows, m.suite)
  <1>1. /\ m.failing \subseteq Entries /\ Len(rows) \in Nat /\ DOMAIN rows = 1..Len(rows)
        /\ CorpusListed(rows, m.failing, Len(rows))
        /\ LocalListed(rows, m.failing, m.suite, Len(rows))
    BY DEF MarkerInv, Markers
  <1>2. Since(rows, Len(rows)) = {}
    <2>1. Len(rows) + 1..Len(rows) = {}
      BY <1>1
    <2>. QED  BY <2>1 DEF Since
  <1>3. \A s \in Shards : [tier |-> "corpus", focus |-> s] \in m.failing <=> s \in CorpusTier(rows)
    BY <1>1, <1>2 DEF CorpusListed, CorpusTier
  <1>4. \A f \in Shards \cup {"events"} :
            [tier |-> "local", focus |-> f] \in m.failing <=> f \in LocalTier(rows, m.suite)
    <2>1. ASSUME NEW s \in Shards
          PROVE  [tier |-> "local", focus |-> s] \in m.failing <=> s \in LocalTier(rows, m.suite)
      <3>1. s # "events"
        BY CommitAssumption
      <3>. QED  BY <1>1, <1>2, <3>1 DEF LocalListed, LocalTier
    <2>2. [tier |-> "local", focus |-> "events"] \in m.failing
              <=> "events" \in LocalTier(rows, m.suite)
      <3>1. "events" \notin Shards
        BY CommitAssumption
      <3>. QED  BY <1>1, <3>1 DEF LocalListed, LocalTier
    <2>. QED  BY <2>1, <2>2
  <1>5. CorpusTier(rows) \subseteq Shards /\ LocalTier(rows, m.suite) \subseteq Shards \cup {"events"}
    BY DEF CorpusTier, LocalTier
  <1>6. \A e : e \in Entries <=> \/ \E s \in Shards : e = [tier |-> "corpus", focus |-> s]
                                 \/ \E f \in Shards \cup {"events"} : e = [tier |-> "local", focus |-> f]
    BY DEF Entries, Entry
  <1>7. \A e : e \in Violations(rows, m.suite)
                 <=> \/ \E s \in CorpusTier(rows) : e = [tier |-> "corpus", focus |-> s]
                     \/ \E f \in LocalTier(rows, m.suite) : e = [tier |-> "local", focus |-> f]
    BY DEF Violations, Entry
  <1>8. m.failing \subseteq Violations(rows, m.suite)
    BY <1>1, <1>3, <1>4, <1>6, <1>7
  <1>9. Violations(rows, m.suite) \subseteq m.failing
    BY <1>3, <1>4, <1>5, <1>7
  <1>. QED  BY <1>8, <1>9

(* A marker at the head of the journal lists exactly the violations of the  *)
(* corpus, or says that the list was cut.                                   *)
THEOREM MarkersExact == CommitSpec => []MarkerExact
  <1>1. CorpusInv => MarkerExact
    BY ExactAtHead DEF CorpusInv, CommitTypes, MarkerExact
  <1>. QED  BY <1>1, CorpusInductive, PTL

(* full_shacl never passes a corpus that breaks the suite it is asked of    *)
(* (storage/shacl_status.py).                                               *)
THEOREM PassesAreTrue == CommitSpec => []PassIsTrue
  <1>1. CorpusInv => PassIsTrue
    <2>. SUFFICES ASSUME CorpusInv, NEW s \in Suites,
                         StatusOf(marker, s, Len(committed)) = "pass"
                  PROVE  Violations(committed, s) = {}
      BY DEF PassIsTrue
    <2>1. committed \in Seq(CommitRows) /\ MarkerInv(committed, marker) /\ Len(committed) \in Nat
      BY DEF CorpusInv, CommitTypes
    <2>2. CASE marker = NoMarker
      <3>1. Len(committed) = 0
        BY <2>2 DEF StatusOf
      <3>2. PICK m : /\ m \in Markers /\ m.suite = s /\ m.position = 0
                     /\ m.failing = {} /\ ~m.truncated
        <4>. DEFINE m == [NoMarker EXCEPT !.suite = s]
        <4>1. /\ m \in Markers /\ m.suite = s /\ m.position = 0 /\ m.failing = {} /\ ~m.truncated
          BY NoMarkerTyped DEF Markers, NoMarker
        <4>. QED  BY <4>1
      <3>3. MarkerInv(committed, m)
        <4>1. CorpusListed(committed, {}, 0) /\ LocalListed(committed, {}, s, 0)
          BY <2>1, NothingListed
        <4>2. Cardinality(m.failing) <= MaxFailing
          BY <3>2, CommitAssumption, FS_EmptySet
        <4>. QED  BY <2>1, <3>2, <4>1, <4>2 DEF MarkerInv
      <3>. QED  BY <2>1, <3>1, <3>2, <3>3, ExactAtHead
    <2>3. CASE marker # NoMarker
      <3>1. /\ marker.suite = s /\ marker.position = Len(committed)
            /\ marker.failing = {} /\ ~marker.truncated
        BY <2>3 DEF StatusOf
      <3>. QED  BY <2>1, <3>1, ExactAtHead
    <2>. QED  BY <2>2, <2>3
  <1>. QED  BY <1>1, CorpusInductive, PTL

(* Rows, the marker and the turns hold values of their types, and a turn is  *)
(* that of a commit whose marker step is to come: it is always given back.   *)
THEOREM CommitTypesHold == CommitSpec => []CommitTypeOK
  <1>1. CorpusInv => CommitTypeOK
    <2>. SUFFICES ASSUME CorpusInv PROVE CommitTypeOK
      OBVIOUS
    <2>1. CommitTypes /\ MarkerInv(committed, marker) /\ TurnsInv
      BY DEF CorpusInv
    <2>2. marker \in Markers /\ marker.position <= Len(committed)
      BY <2>1 DEF MarkerInv
    <2>3. /\ marker.suite \in Suites \cup {Nothing} /\ marker.position \in Nat
          /\ Len(committed) \in Nat
      BY <2>1, <2>2 DEF Markers, CommitTypes
    <2>4. marker.position \in 0..Len(committed)
      BY <2>2, <2>3
    <2>. QED  BY <2>1, <2>3, <2>4 DEF CommitTypeOK, CommitTypes, MarkerInv, TurnsInv
  <1>. QED  BY <1>1, CorpusInductive, PTL

-----------------------------------------------------------------------------
(* The search of the cycle guard: what Reached computes, in as many levels   *)
(* as there are shards, is closed under the edges and nothing smaller is.    *)

Levels(f, edgesOf, from, k) ==
    f = [n \in 0..k |-> IF n = 0 THEN from ELSE f[n - 1] \cup UNION {edgesOf[s] : s \in f[n - 1]}]

Follows(edgesOf, T) == \A s \in T : edgesOf[s] \subseteq T

LEMMA LevelsFurther ==
    ASSUME NEW edgesOf, NEW from, NEW k \in Nat, k > 0, NEW f, Levels(f, edgesOf, from, k - 1)
    PROVE  \E g : Levels(g, edgesOf, from, k)
  <1>. DEFINE last == f[k - 1] \cup UNION {edgesOf[s] : s \in f[k - 1]}
              g == [n \in 0..k |-> IF n = k THEN last ELSE f[n]]
  <1>1. \A n \in 0..k - 1 : f[n] = IF n = 0 THEN from
                                   ELSE f[n - 1] \cup UNION {edgesOf[s] : s \in f[n - 1]}
    BY DEF Levels
  <1>2. \A n \in 0..k - 1 : g[n] = f[n]
    <2>1. \A n \in 0..k - 1 : n \in 0..k /\ n # k
      OBVIOUS
    <2>. HIDE DEF last
    <2>. QED  BY <2>1
  <1>3. g[k] = last
    OBVIOUS
  <1>4. g = [n \in 0..k |-> g[n]]
    OBVIOUS
  <1>. HIDE DEF g
  <1>5. ASSUME NEW n \in 0..k
        PROVE  g[n] = IF n = 0 THEN from ELSE g[n - 1] \cup UNION {edgesOf[s] : s \in g[n - 1]}
    <2>1. CASE n = k
      <3>1. k - 1 \in 0..k - 1 /\ k # 0
        OBVIOUS
      <3>2. g[k - 1] = f[k - 1]
        BY <1>2, <3>1
      <3>. QED  BY <1>3, <2>1, <3>1, <3>2
    <2>2. CASE n # k
      <3>1. n \in 0..k - 1 /\ (n # 0 => n - 1 \in 0..k - 1)
        BY <2>2
      <3>2. g[n] = f[n] /\ (n # 0 => g[n - 1] = f[n - 1])
        BY <1>2, <3>1
      <3>. QED  BY <1>1, <3>1, <3>2
    <2>. QED  BY <2>1, <2>2
  <1>6. Levels(g, edgesOf, from, k)
    BY <1>4, <1>5 DEF Levels
  <1>. QED  BY <1>6

LEMMA LevelsAll ==
    ASSUME NEW edgesOf, NEW from, NEW k \in Nat
    PROVE  \E f : Levels(f, edgesOf, from, k)
  <1>. DEFINE Bad == {n \in Nat : ~\E f : Levels(f, edgesOf, from, n)}
  <1>1. ASSUME Bad # {}
        PROVE  FALSE
    <2>1. PICK n \in Bad : \A i \in Bad : n <= i
      <3>1. Bad \subseteq Nat
        OBVIOUS
      <3>. HIDE DEF Bad
      <3>. QED  BY <1>1, <3>1, LeastNat
    <2>2. n \in Nat /\ ~\E f : Levels(f, edgesOf, from, n)
      OBVIOUS
    <2>3. CASE n = 0
      <3>. DEFINE g == [i \in 0..0 |-> from]
      <3>1. Levels(g, edgesOf, from, 0)
        BY DEF Levels
      <3>. QED  BY <2>2, <2>3, <3>1
    <2>4. CASE n # 0
      <3>1. n - 1 \in Nat /\ n > 0 /\ ~(n <= n - 1)
        BY <2>2, <2>4
      <3>2. n - 1 \notin Bad
        BY <2>1, <3>1
      <3>3. \E f : Levels(f, edgesOf, from, n - 1)
        BY <3>1, <3>2
      <3>. QED  BY <2>2, <3>1, <3>3, LevelsFurther
    <2>. QED  BY <2>3, <2>4
  <1>. QED  BY <1>1

LEMMA ReachedIs ==
    ASSUME NEW S, IsFiniteSet(S), NEW edgesOf, DOMAIN edgesOf = S, NEW from
    PROVE  \E f : /\ f[0] = from /\ Reached(edgesOf, from) = f[Cardinality(S)]
                  /\ \A n \in 1..Cardinality(S) :
                        f[n] = f[n - 1] \cup UNION {edgesOf[s] : s \in f[n - 1]}
  <1>. DEFINE N == Cardinality(S)
              h == CHOOSE f : Levels(f, edgesOf, from, N)
  <1>1. N \in Nat
    BY FS_CardinalityType
  <1>2. Levels(h, edgesOf, from, N)
    <2>1. \E f : Levels(f, edgesOf, from, N)
      BY <1>1, LevelsAll
    <2>. QED  BY <2>1
  <1>3. Reached(edgesOf, from) = h[N]
    BY DEF Reached, Levels
  <1>. HIDE DEF h
  <1>4. \A n \in 0..N : h[n] = IF n = 0 THEN from
                               ELSE h[n - 1] \cup UNION {edgesOf[s] : s \in h[n - 1]}
    BY <1>2 DEF Levels
  <1>. HIDE DEF N
  <1>5. h[0] = from
    <2>1. 0 \in 0..N
      BY <1>1
    <2>. QED  BY <1>4, <2>1
  <1>6. ASSUME NEW n \in 1..N
        PROVE  h[n] = h[n - 1] \cup UNION {edgesOf[s] : s \in h[n - 1]}
    <2>1. n \in 0..N /\ n # 0
      BY <1>1
    <2>. QED  BY <1>4, <2>1
  <1>. QED  BY <1>3, <1>5, <1>6 DEF N

(* A level that is not closed yet has one shard more than the one before,   *)
(* and there are no more than Cardinality(S) of them.                       *)
LEMMA ReachedFollows ==
    ASSUME NEW S, IsFiniteSet(S), NEW edgesOf \in [S -> SUBSET S], NEW from \in SUBSET S
    PROVE  /\ from \subseteq Reached(edgesOf, from) /\ Reached(edgesOf, from) \subseteq S
           /\ Follows(edgesOf, Reached(edgesOf, from))
  <1>. DEFINE N == Cardinality(S)
  <1>1. N \in Nat
    BY FS_CardinalityType
  <1>2. PICK f : /\ f[0] = from /\ Reached(edgesOf, from) = f[N]
                 /\ \A n \in 1..N : f[n] = f[n - 1] \cup UNION {edgesOf[s] : s \in f[n - 1]}
    BY ReachedIs
  <1>. HIDE DEF N
  <1>. DEFINE Good(n) == /\ f[n] \subseteq S /\ from \subseteq f[n]
                         /\ Follows(edgesOf, f[n]) \/ Cardinality(f[n]) >= n
              Bad == {n \in 0..N : ~Good(n)}
  <1>3. ASSUME NEW n \in 1..N, Good(n - 1)
        PROVE  Good(n)
    <2>1. f[n] = f[n - 1] \cup UNION {edgesOf[s] : s \in f[n - 1]}
      BY <1>2
    <2>2. f[n - 1] \subseteq S /\ from \subseteq f[n - 1]
      BY <1>3
    <2>3. f[n] \subseteq S /\ from \subseteq f[n] /\ f[n - 1] \subseteq f[n]
      BY <2>1, <2>2
    <2>4. CASE Follows(edgesOf, f[n - 1])
      <3>1. f[n] = f[n - 1]
        BY <2>1, <2>4 DEF Follows
      <3>. QED  BY <2>3, <2>4, <3>1
    <2>5. CASE ~Follows(edgesOf, f[n - 1])
      <3>1. f[n] # f[n - 1]
        BY <2>1, <2>5 DEF Follows
      <3>2. IsFiniteSet(f[n]) /\ IsFiniteSet(f[n - 1])
        BY <2>2, <2>3, FS_Subset
      <3>3. /\ Cardinality(f[n]) \in Nat /\ Cardinality(f[n - 1]) \in Nat
            /\ Cardinality(f[n - 1]) <= Cardinality(f[n])
            /\ Cardinality(f[n]) # Cardinality(f[n - 1])
        BY <2>3, <3>1, <3>2, FS_Subset, FS_CardinalityType
      <3>4. Cardinality(f[n - 1]) >= n - 1
        BY <1>3, <2>5
      <3>5. Cardinality(f[n]) >= n
        BY <3>3, <3>4
      <3>. QED  BY <2>3, <3>5
    <2>. QED  BY <2>4, <2>5
  <1>4. Good(0)
    <2>1. Cardinality(from) \in Nat
      BY FS_Subset, FS_CardinalityType
    <2>2. Cardinality(from) >= 0
      BY <2>1
    <2>. QED  BY <1>2, <2>2
  <1>. HIDE DEF Good
  <1>5. ASSUME Bad # {}
        PROVE  FALSE
    <2>1. PICK n \in Bad : \A i \in Bad : n <= i
      <3>1. Bad \subseteq Nat
        BY <1>1
      <3>. HIDE DEF Bad
      <3>. QED  BY <1>5, <3>1, LeastNat
    <2>2. n \in 1..N /\ ~Good(n)
      <3>1. n \in 0..N /\ ~Good(n)
        OBVIOUS
      <3>2. n # 0
        BY <1>4, <3>1
      <3>. QED  BY <1>1, <3>1, <3>2
    <2>3. n - 1 \in 0..N /\ ~(n <= n - 1)
      BY <1>1, <2>2
    <2>4. Good(n - 1)
      BY <2>1, <2>3
    <2>. QED  BY <1>3, <2>2, <2>4
  <1>6. Good(N)
    <2>1. N \in 0..N
      BY <1>1
    <2>. QED  BY <1>5, <2>1
  <1>7. Cardinality(f[N]) >= N => f[N] = S
    <2>1. f[N] \in SUBSET S
      BY <1>6 DEF Good
    <2>2. Cardinality(f[N]) \in Nat /\ Cardinality(f[N]) <= Cardinality(S)
      BY <2>1, FS_Subset, FS_CardinalityType
    <2>3. Cardinality(S) = Cardinality(f[N]) => S = f[N]
      BY <2>1, FS_Subset
    <2>. QED  BY <1>1, <2>2, <2>3 DEF N
  <1>8. Follows(edgesOf, S)
    BY DEF Follows
  <1>. QED  BY <1>2, <1>6, <1>7, <1>8 DEF Good

LEMMA ReachedLeast ==
    ASSUME NEW S, IsFiniteSet(S), NEW edgesOf, DOMAIN edgesOf = S, NEW from,
           NEW T, from \subseteq T, Follows(edgesOf, T)
    PROVE  Reached(edgesOf, from) \subseteq T
  <1>. DEFINE N == Cardinality(S)
  <1>1. N \in Nat
    BY FS_CardinalityType
  <1>2. PICK f : /\ f[0] = from /\ Reached(edgesOf, from) = f[N]
                 /\ \A n \in 1..N : f[n] = f[n - 1] \cup UNION {edgesOf[s] : s \in f[n - 1]}
    BY ReachedIs
  <1>. HIDE DEF N
  <1>. DEFINE Bad == {n \in 0..N : ~(f[n] \subseteq T)}
  <1>3. ASSUME Bad # {}
        PROVE  FALSE
    <2>1. PICK n \in Bad : \A i \in Bad : n <= i
      <3>1. Bad \subseteq Nat
        BY <1>1
      <3>. HIDE DEF Bad
      <3>. QED  BY <1>3, <3>1, LeastNat
    <2>2. n \in 0..N /\ ~(f[n] \subseteq T)
      OBVIOUS
    <2>3. n # 0
      BY <1>2, <2>2
    <2>4. n \in 1..N /\ n - 1 \in 0..N /\ ~(n <= n - 1)
      BY <1>1, <2>2, <2>3
    <2>5. f[n - 1] \subseteq T
      BY <2>1, <2>4
    <2>6. f[n] = f[n - 1] \cup UNION {edgesOf[s] : s \in f[n - 1]}
      BY <1>2, <2>4
    <2>. QED  BY <2>2, <2>5, <2>6 DEF Follows
  <1>4. N \in 0..N
    BY <1>1
  <1>. QED  BY <1>2, <1>3, <1>4

-----------------------------------------------------------------------------
(* An edge whose target does not reach its source lies on no cycle: the     *)
(* number of shards a shard reaches ranks them.                             *)
LEMMA UnreachedIsOffCycles ==
    ASSUME NEW S, IsFiniteSet(S), NEW edgesOf \in [S -> SUBSET S], NEW e \in Edges(edgesOf),
           e[1] \notin Reached(edgesOf, {e[2]})
    PROVE  OnNoCycle(e, edgesOf)
  <1>. DEFINE rank == [s \in S |-> Cardinality(Reached(edgesOf, {s}))]
  <1>1. ASSUME NEW s \in S
        PROVE  /\ s \in Reached(edgesOf, {s}) /\ Reached(edgesOf, {s}) \subseteq S
               /\ Follows(edgesOf, Reached(edgesOf, {s}))
               /\ IsFiniteSet(Reached(edgesOf, {s}))
               /\ Cardinality(Reached(edgesOf, {s})) \in 1..Cardinality(S)
    <2>1. {s} \in SUBSET S
      OBVIOUS
    <2>2. /\ {s} \subseteq Reached(edgesOf, {s}) /\ Reached(edgesOf, {s}) \subseteq S
          /\ Follows(edgesOf, Reached(edgesOf, {s}))
      BY <2>1, ReachedFollows
    <2>3. /\ IsFiniteSet(Reached(edgesOf, {s}))
          /\ Cardinality(Reached(edgesOf, {s})) <= Cardinality(S)
          /\ Cardinality(S) \in Nat /\ Cardinality(Reached(edgesOf, {s})) \in Nat
      BY <2>2, FS_Subset, FS_CardinalityType
    <2>4. Cardinality(Reached(edgesOf, {s})) # 0
      BY <2>2, <2>3, FS_EmptySet
    <2>5. Cardinality(Reached(edgesOf, {s})) \in 1..Cardinality(S)
      BY <2>3, <2>4
    <2>6. s \in Reached(edgesOf, {s})
      BY <2>2
    <2>. QED  BY <2>2, <2>3, <2>5, <2>6
  <1>2. ASSUME NEW d \in Edges(edgesOf)
        PROVE  /\ d[1] \in S /\ d[2] \in S
               /\ Reached(edgesOf, {d[2]}) \subseteq Reached(edgesOf, {d[1]})
    <2>1. d[1] \in S /\ d[2] \in S /\ d[2] \in edgesOf[d[1]]
      BY DEF Edges
    <2>2. {d[2]} \subseteq Reached(edgesOf, {d[1]})
      BY <1>1, <2>1 DEF Follows
    <2>3. DOMAIN edgesOf = S /\ Follows(edgesOf, Reached(edgesOf, {d[1]}))
      BY <1>1, <2>1
    <2>4. Reached(edgesOf, {d[2]}) \subseteq Reached(edgesOf, {d[1]})
      BY <2>2, <2>3, ReachedLeast
    <2>. QED  BY <2>1, <2>4
  <1>3. rank \in [DOMAIN edgesOf -> 1..Cardinality(DOMAIN edgesOf)]
    BY <1>1
  <1>4. \A d \in Edges(edgesOf) : rank[d[2]] <= rank[d[1]]
    <2>. SUFFICES ASSUME NEW d \in Edges(edgesOf)
                  PROVE  Cardinality(Reached(edgesOf, {d[2]})) <= Cardinality(Reached(edgesOf, {d[1]}))
      BY <1>2
    <2>. QED  BY <1>1, <1>2, FS_Subset
  <1>5. rank[e[2]] < rank[e[1]]
    <2>. DEFINE above == Reached(edgesOf, {e[1]})
                below == Reached(edgesOf, {e[2]})
    <2>1. /\ e[1] \in S /\ e[2] \in S /\ below \subseteq above
          /\ e[1] \in above /\ e[1] \notin below
      BY <1>1, <1>2
    <2>2. /\ IsFiniteSet(above) /\ Cardinality(above) \in Nat /\ Cardinality(below) \in Nat
      BY <1>1, <2>1, FS_CardinalityType
    <2>3. Cardinality(below) <= Cardinality(above) /\ Cardinality(below) # Cardinality(above)
      BY <2>1, <2>2, FS_Subset
    <2>4. rank[e[1]] = Cardinality(above) /\ rank[e[2]] = Cardinality(below)
      BY <2>1
    <2>. QED  BY <2>2, <2>3, <2>4
  <1>. QED  BY <1>3, <1>4, <1>5 DEF OnNoCycle

(* The search of revision/acyclicity.py is right: a batch it lets through   *)
(* adds no edge that lies on a cycle.                                       *)
LEMMA SearchIsRight ==
    ASSUME NEW S, IsFiniteSet(S), NEW old \in [S -> SUBSET S],
           NEW batch, DOMAIN batch \subseteq S, \A s \in DOMAIN batch : batch[s] \subseteq S,
           ~ClosesCycle(batch, old),
           NEW e \in Edges(PostWrite(batch, old)) \ Edges(old)
    PROVE  OnNoCycle(e, PostWrite(batch, old))
  <1>. DEFINE after == PostWrite(batch, old)
              new == NewEdges(batch, old)
              targets == {d[2] : d \in new}
  <1>1. after \in [S -> SUBSET S]
    BY DEF PostWrite
  <1>2. e[1] \in S /\ e[2] \in S /\ e[2] \in after[e[1]] /\ e = <<e[1], e[2]>>
    BY <1>1 DEF Edges
  <1>3. e[2] \notin old[e[1]]
    BY <1>2 DEF Edges
  <1>4. e[1] \in DOMAIN batch /\ e[2] \in batch[e[1]]
    BY <1>2, <1>3 DEF PostWrite
  <1>5. e \in new
    BY <1>2, <1>3, <1>4 DEF NewEdges
  <1>6. targets \subseteq S
    BY DEF NewEdges
  <1>7. e[2] \in targets
    BY <1>5
  <1>8. ~(e[1] \in Reached(after, targets) /\ SameComponent(after, e[1], e[2]))
    BY <1>5 DEF ClosesCycle
  <1>. HIDE DEF after, new, targets
  <1>9. ASSUME e[1] \in Reached(after, {e[2]})
        PROVE  FALSE
    <2>1. /\ targets \subseteq Reached(after, targets)
          /\ Follows(after, Reached(after, targets))
      BY <1>1, <1>6, ReachedFollows
    <2>2. {e[2]} \subseteq Reached(after, targets) /\ DOMAIN after = S
      BY <1>1, <1>7, <2>1
    <2>3. Reached(after, {e[2]}) \subseteq Reached(after, targets)
      BY <2>1, <2>2, ReachedLeast
    <2>4. e[1] \in Reached(after, targets)
      BY <1>9, <2>3
    <2>5. {e[1]} \in SUBSET S
      BY <1>2
    <2>6. {e[1]} \subseteq Reached(after, {e[1]}) /\ Follows(after, Reached(after, {e[1]}))
      BY <1>1, <2>5, ReachedFollows
    <2>7. e[2] \in Reached(after, {e[1]})
      BY <1>2, <2>6 DEF Follows
    <2>. QED  BY <1>8, <1>9, <2>4, <2>7 DEF SameComponent
  <1>10. e \in Edges(after)
    BY DEF after
  <1>11. OnNoCycle(e, after)
    BY <1>1, <1>9, <1>10, UnreachedIsOffCycles
  <1>. QED  BY <1>11 DEF after

LEMMA GraphTyped ==
    ASSUME NEW rows \in Seq(CommitRows)
    PROVE  Graph(rows) \in [Shards -> SUBSET Shards]
  <1>1. \A s \in Shards : Current(rows)[s].rests \in SUBSET Shards
    BY CurrentTyped DEF ShardRecords
  <1>. QED  BY <1>1 DEF Graph

LEMMA GraphAfter ==
    ASSUME NEW rows \in Seq(CommitRows), NEW body \in Seq(CommitRows)
    PROVE  Graph(rows \o body) = PostWrite(BatchEdges(body), Graph(rows))
  <1>. DEFINE batch == BatchEdges(body)
  <1>1. /\ DOMAIN batch = {body[i].shard : i \in DOMAIN body} \ {Nothing}
        /\ \A s \in DOMAIN batch : batch[s] = Current(body)[s].rests
        /\ DOMAIN body = 1..Len(body)
    BY DEF BatchEdges
  <1>2. ASSUME NEW s \in Shards
        PROVE  Current(rows \o body)[s].rests
                  = IF s \in DOMAIN batch THEN batch[s] ELSE Current(rows)[s].rests
    <2>1. s # Nothing
      BY CommitAssumption
    <2>2. CASE s \in DOMAIN batch
      <3>1. \E i \in 1..Len(body) : body[i].shard = s
        BY <1>1, <2>2
      <3>. QED  BY <1>1, <2>2, <3>1, CurrentAppended
    <2>3. CASE s \notin DOMAIN batch
      <3>1. \A i \in 1..Len(body) : body[i].shard # s
        BY <1>1, <2>1, <2>3
      <3>. QED  BY <2>3, <3>1, CurrentAppended
    <2>. QED  BY <2>2, <2>3
  <1>. HIDE DEF batch
  <1>3. PostWrite(batch, Graph(rows))
            = [s \in Shards |-> IF s \in DOMAIN batch THEN batch[s] ELSE Current(rows)[s].rests]
    BY DEF PostWrite, Graph
  <1>. QED  BY <1>2, <1>3 DEF Graph, batch

(* Only the transaction of a commit takes it from its checks to its turn.   *)
LEMMA EntersItsTurn ==
    ASSUME CorpusInv, NextCommit, NEW t \in Commits,
           At(t, "write"), commit'[t].pc = "turn"
    PROVE  CommitBatch(t) /\ ~Refused(t)
  <1>1. commit \in [Commits -> CommitRecords] /\ commit[t].pc = "write" /\ NoCommit.pc = "idle"
    BY NoCommitTyped DEF CorpusInv, CommitTypes, At
  <1>2. ASSUME NEW u \in Commits,
               BeginWrite(u) \/ TakeTurn(u) \/ Query(u) \/ Update(u) \/ FailTurn(u)
               \/ LeaveThread(u) \/ BeginValidate(u) \/ ValidateStep(u)
        PROVE  FALSE
    <2>1. u # t
      BY <1>1, <1>2 DEF BeginWrite, TakeTurn, Query, Update, FailTurn, LeaveThread,
         BeginValidate, ValidateStep, ValidateCorpusTier, StoreValidation, At
    <2>2. commit'[t] = commit[t]
      BY <1>1, <1>2, <2>1 DEF BeginWrite, TakeTurn, Query, Update, FailTurn, LeaveThread,
         BeginValidate, ValidateStep, ValidateCorpusTier, StoreValidation, EndTurn, Goto
    <2>. QED  BY <1>1, <2>2
  <1>3. ASSUME NEW c \in Writers, CrashWriter(c)
        PROVE  FALSE
    BY <1>1, <1>3 DEF CrashWriter
  <1>4. PICK u \in Commits : CommitBatch(u)
    BY <1>2, <1>3 DEF NextCommit, WriteStep
  <1>5. u = t
    <2>1. u # t => commit'[t] = commit[t]
      BY <1>1, <1>4 DEF CommitBatch
    <2>. QED  BY <1>1, <2>1
  <1>6. ~Refused(t)
    BY <1>1, <1>4, <1>5 DEF CommitBatch
  <1>. QED  BY <1>4, <1>5, <1>6

(* A context with the cycle guard never adds an edge that lies on a cycle   *)
(* of the committed corpus, whatever other writers commit beside it         *)
(* (storage/context.py, _refuse_cycles in the transaction).                 *)
THEOREM GuardAlwaysHolds == CommitSpec => GuardHolds
  <1>1. CorpusInv /\ [NextCommit]_commitVars =>
            [\A t \in Commits :
                /\ At(t, "write") /\ commit'[t].pc = "turn"
                /\ WriterOf[t] \in Guarded
                => \A e \in Edges(Graph(committed')) \ Edges(Graph(committed)) :
                      OnNoCycle(e, Graph(committed'))]_commitVars
    <2>. SUFFICES ASSUME CorpusInv, NextCommit, NEW t \in Commits,
                         At(t, "write"), commit'[t].pc = "turn", WriterOf[t] \in Guarded,
                         NEW e \in Edges(Graph(committed')) \ Edges(Graph(committed))
                  PROVE  OnNoCycle(e, Graph(committed'))
      OBVIOUS
    <2>. DEFINE body == commit[t].body
    <2>1. CommitBatch(t) /\ ~Refused(t)
      BY EntersItsTurn
    <2>2. committed \in Seq(CommitRows) /\ body \in Seq(CommitRows)
      BY CommitFacts
    <2>3. committed' = committed \o body
      BY <2>1 DEF CommitBatch
    <2>4. Graph(committed') = PostWrite(BatchEdges(body), Graph(committed))
      BY <2>2, <2>3, GraphAfter
    <2>5. ~ClosesCycle(BatchEdges(body), Graph(committed))
      BY <2>1 DEF Refused, CommittedGraph
    <2>6. Graph(committed) \in [Shards -> SUBSET Shards] /\ IsFiniteSet(Shards)
      BY <2>2, GraphTyped, CommitAssumption
    <2>7. /\ DOMAIN BatchEdges(body) \subseteq Shards
          /\ \A s \in DOMAIN BatchEdges(body) : BatchEdges(body)[s] \subseteq Shards
      <3>1. \A i \in DOMAIN body : body[i] \in CommitRows
        BY <2>2
      <3>2. {body[i].shard : i \in DOMAIN body} \ {Nothing} \subseteq Shards
        BY <3>1 DEF CommitRows
      <3>3. \A s \in Shards : Current(body)[s].rests \subseteq Shards
        BY <2>2, CurrentTyped DEF ShardRecords
      <3>. QED  BY <3>2, <3>3 DEF BatchEdges
    <2>. HIDE DEF body
    <2>. QED  BY <2>4, <2>5, <2>6, <2>7, SearchIsRight
  <1>. QED  BY <1>1, CorpusInductive, PTL DEF CommitSpec, GuardHolds
================================================================================
