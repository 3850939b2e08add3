---------------------------- MODULE Pipeline_proofs ----------------------------
(* Theorems about an extraction job, about what it spends, and about the      *)
(* proposal ledger, for any files, runs, texts, calls, caps and clients.      *)
EXTENDS Extraction, SpendMeter, ProposalLedger, Counting

-----------------------------------------------------------------------------
(* What is proved of the extraction pipeline: of the tags one unit gets, and of *)
(* the checkpoints and the output files of a job's attempts.                    *)
-----------------------------------------------------------------------------
(* Tagging: what the paths leave in an entry, step by step.                     *)

Paths == {"entity_ruler", "llm", "semantic", "heading_context"}

\* An entry keeps the path it came from, and only the model proposes a class.
GoodEntry(e) ==
    /\ e = Entry(e.iri, e.label, e.paths, e.from)
    /\ e.paths \subseteq Paths /\ e.paths # {}
    /\ e.from = "heading_context" => "heading_context" \in e.paths
    /\ e.iri = NoIri => "llm" \in e.paths

GoodEntries(entries) == \A e \in entries : GoodEntry(e)

LEMMA BaseIsGood ==
    ASSUME NEW text \in AnyText
    PROVE  GoodEntries(Base(text))
  <1>1. text.ruler \subseteq Concepts
    BY DEF AnyText, Texts
  <1>2. ASSUME NEW c \in text.ruler, NEW paths, paths \subseteq {"entity_ruler", "llm"},
               "entity_ruler" \in paths
        PROVE  GoodEntry(Entry(c, LabelOf[c], paths, "surface"))
    BY <1>1, <1>2, TaggingAssumption DEF GoodEntry, Entry, Paths
  <1>3. ASSUME NEW l PROVE GoodEntry(Entry(NoIri, l, {"llm"}, "surface"))
    BY DEF GoodEntry, Entry, Paths
  <1>4. ASSUME NEW e \in Base(text) PROVE GoodEntry(e)
    <2>1. CASE \E c \in text.ruler : e = Entry(c, LabelOf[c],
                 {"entity_ruler"} \union (IF LabelOf[c] \in text.llm THEN {"llm"} ELSE {}), "surface")
      <3>1. PICK c \in text.ruler : e = Entry(c, LabelOf[c],
                 {"entity_ruler"} \union (IF LabelOf[c] \in text.llm THEN {"llm"} ELSE {}), "surface")
        BY <2>1
      <3>. QED  BY <1>2, <3>1
    <2>2. CASE \E l : e = Entry(NoIri, l, {"llm"}, "surface")
      BY <1>3, <2>2
    <2>. QED  BY <1>4, <2>1, <2>2 DEF Base
  <1>. QED  BY <1>4 DEF GoodEntries

LEMMA IntegratedIsGood ==
    ASSUME NEW entries, GoodEntries(entries), NEW concept \in Concepts,
           NEW path \in {"semantic", "heading_context"}
    PROVE  GoodEntries(Integrated(entries, concept, path))
  <1>. DEFINE byIri == {e \in entries : e.iri = concept}
              byLabel == {e \in entries : e.label = LabelOf[concept]}
              found == IF byIri # {} THEN byIri ELSE byLabel
              match == CHOOSE e \in found : TRUE
              new == Entry(concept, LabelOf[concept], {path}, path)
              boosted == [match EXCEPT !.paths = @ \union {path}]
  <1>1. CASE found = {}
    <2>1. Integrated(entries, concept, path) = entries \union {new}
      BY <1>1 DEF Integrated
    <2>2. GoodEntry(new)
      BY TaggingAssumption DEF GoodEntry, Entry, Paths
    <2>. QED  BY <2>1, <2>2 DEF GoodEntries
  <1>2. CASE found # {}
    <2>1. Integrated(entries, concept, path) = (entries \ {match}) \union {boosted}
      BY <1>2 DEF Integrated
    <2>2. match \in entries
      BY <1>2
    <2>3. GoodEntry(match)
      BY <2>2 DEF GoodEntries
    <2>. HIDE DEF match
    <2>4. /\ boosted.iri = match.iri /\ boosted.label = match.label /\ boosted.from = match.from
          /\ boosted.paths = match.paths \union {path}
          /\ boosted = Entry(boosted.iri, boosted.label, boosted.paths, boosted.from)
      BY <2>3 DEF GoodEntry, Entry
    <2>. HIDE DEF boosted
    <2>5. GoodEntry(boosted)
      BY <2>3, <2>4 DEF GoodEntry, Paths
    <2>. QED  BY <2>1, <2>5 DEF GoodEntries
  <1>. QED  BY <1>1, <1>2

\* The entries after each concept of a path.
AreAfter(g, n, entries, concepts, path) ==
    g = [k \in 0..n |-> IF k = 0 THEN entries ELSE Integrated(g[k - 1], concepts[k], path)]

LEMMA AfterExists ==
    ASSUME NEW entries, NEW concepts, NEW path
    PROVE  \A n \in Nat : \E g : AreAfter(g, n, entries, concepts, path)
  <1>. DEFINE Missing == {n \in Nat : ~\E g : AreAfter(g, n, entries, concepts, path)}
  <1>1. SUFFICES ASSUME Missing # {} PROVE FALSE
    OBVIOUS
  <1>2. PICK n \in Missing : \A i \in Missing : n <= i
    BY <1>1, LeastNat
  <1>3. CASE n = 0
    <2>. DEFINE g == [k \in 0..0 |-> entries]
    <2>1. g = [k \in 0..0 |-> IF k = 0 THEN entries ELSE Integrated(g[k - 1], concepts[k], path)]
      OBVIOUS
    <2>. QED  BY <1>3, <2>1 DEF AreAfter
  <1>4. CASE n # 0
    <2>1. n \in Nat /\ n - 1 \in Nat /\ n - 1 \notin Missing
      BY <1>2, <1>4
    <2>2. PICK h : AreAfter(h, n - 1, entries, concepts, path)
      BY <2>1
    <2>. DEFINE g == [k \in 0..n |-> IF k = n THEN Integrated(h[n - 1], concepts[n], path)
                                     ELSE h[k]]
    <2>3. \A k \in 0..(n - 1) :
             h[k] = IF k = 0 THEN entries ELSE Integrated(h[k - 1], concepts[k], path)
      BY <2>2 DEF AreAfter
    <2>4. \A k \in 0..(n - 1) : g[k] = h[k]
      BY <2>1
    <2>5. \A k \in 0..n : g[k] = IF k = 0 THEN entries ELSE Integrated(g[k - 1], concepts[k], path)
      <3>1. ASSUME NEW k \in 0..n
            PROVE  g[k] = IF k = 0 THEN entries ELSE Integrated(g[k - 1], concepts[k], path)
        <4>1. CASE k = n
          <5>1. g[k] = Integrated(h[n - 1], concepts[n], path) /\ n - 1 \in 0..(n - 1)
            BY <2>1, <4>1
          <5>2. g[k - 1] = h[n - 1]
            BY <2>4, <4>1, <5>1
          <5>. QED  BY <1>4, <4>1, <5>1, <5>2
        <4>2. CASE k # n
          <5>1. k \in 0..(n - 1) /\ (k # 0 => k - 1 \in 0..(n - 1))
            BY <2>1, <4>2
          <5>. HIDE DEF g
          <5>. QED  BY <2>3, <2>4, <5>1
        <4>. QED  BY <4>1, <4>2
      <3>. QED  BY <3>1
    <2>6. g = [k \in 0..n |-> g[k]]
      OBVIOUS
    <2>. HIDE DEF g
    <2>7. AreAfter(g, n, entries, concepts, path)
      BY <2>5, <2>6 DEF AreAfter
    <2>. QED  BY <2>7
  <1>. QED  BY <1>3, <1>4

LEMMA BoostedIsGood ==
    ASSUME NEW entries, GoodEntries(entries), NEW concepts \in Seq(Concepts),
           NEW path \in {"semantic", "heading_context"}
    PROVE  GoodEntries(Boosted(entries, concepts, path))
  <1>. DEFINE size == Len(concepts)
              after == CHOOSE g : AreAfter(g, size, entries, concepts, path)
              Bad == {n \in 0..size : ~GoodEntries(after[n])}
  <1>1. size \in Nat
    OBVIOUS
  <1>2. AreAfter(after, size, entries, concepts, path)
    BY <1>1, AfterExists
  <1>3. Boosted(entries, concepts, path) = after[size]
    BY DEF Boosted, AreAfter
  <1>. HIDE DEF after
  <1>4. \A k \in 0..size :
            after[k] = IF k = 0 THEN entries ELSE Integrated(after[k - 1], concepts[k], path)
    BY <1>2 DEF AreAfter
  <1>5. Bad = {}
    <2>1. SUFFICES ASSUME Bad # {} PROVE FALSE
      OBVIOUS
    <2>2. Bad \subseteq Nat
      BY <1>1
    <2>3. PICK n \in Bad : \A i \in Bad : n <= i
      BY <2>1, <2>2, LeastNat
    <2>4. n \in 0..size /\ ~GoodEntries(after[n])
      BY <2>3
    <2>5. n # 0
      BY <1>4, <2>4
    <2>6. n - 1 \in 0..size /\ n - 1 < n /\ n \in 1..size
      BY <1>1, <2>4, <2>5
    <2>7. GoodEntries(after[n - 1])
      BY <2>3, <2>6
    <2>8. concepts[n] \in Concepts
      BY <2>6
    <2>9. after[n] = Integrated(after[n - 1], concepts[n], path)
      BY <1>4, <2>4, <2>5
    <2>. QED  BY <2>4, <2>7, <2>8, <2>9, IntegratedIsGood
  <1>6. size \in 0..size
    BY <1>1
  <1>. QED  BY <1>3, <1>5, <1>6

LEMMA ReconciledIsGood ==
    ASSUME NEW text \in AnyText
    PROVE  GoodEntries(Reconciled(text))
  <1>1. text.semantic \in Seq(Concepts) /\ text.heading \in Seq(Concepts)
    BY DEF AnyText, Texts
  <1>2. GoodEntries(Boosted(Base(text), text.semantic, "semantic"))
    BY <1>1, BaseIsGood, BoostedIsGood
  <1>. QED  BY <1>1, <1>2, BoostedIsGood DEF Reconciled

-----------------------------------------------------------------------------
(* Tagging: what a tag owes to its text.                                        *)

\* A tag before the judge.
OfEntry(tag, entry) == tag = Tag(tag.iri, entry)

LEMMA GatedPlaces ==
    ASSUME NEW entry, GoodEntry(entry), NEW c, ~Gated(entry, c)
    PROVE  c \in Places => entry.paths # {"heading_context"}
  <1>1. SUFFICES ASSUME c \in Places, entry.paths = {"heading_context"} PROVE FALSE
    OBVIOUS
  <1>2. entry.paths \ {"heading_context"} = {}
    BY <1>1
  <1>3. Demoted(entry, c)
    BY <1>1, <1>2, FS_EmptySet DEF Demoted
  <1>. QED  BY <1>3 DEF Gated

LEMMA TagIsEarned ==
    ASSUME NEW text, NEW atomic \in BOOLEAN, NEW entry, GoodEntry(entry), NEW iri,
           iri \in Places => entry.paths # {"heading_context"},
           \/ iri = NoIri
           \/ "entity_ruler" \in entry.paths
           \/ "llm" \in entry.paths /\ ~atomic
           \/ Verified(entry, iri, text)
           \/ iri \in text.named
    PROVE  Earned(Tag(iri, entry), text, atomic)
  <1>1. Tag(iri, entry).iri = iri /\ Tag(iri, entry).paths = entry.paths
    BY DEF Tag
  <1>2. Verified(entry, iri, text) =>
          iri \in text.named \/ (iri \in text.headed /\ "heading_context" \in entry.paths)
    BY DEF Verified, GoodEntry
  <1>. QED  BY <1>1, <1>2 DEF Earned

LEMMA LegacyTagsEarned ==
    ASSUME NEW text, NEW entry, GoodEntry(entry), NEW tag \in LegacyTags(entry, text)
    PROVE  Earned(tag, text, FALSE) /\ OfEntry(tag, entry)
  <1>1. \/ tag = Tag(NoIri, entry)
        \/ \E c : /\ tag = Tag(c, entry) /\ ~Gated(entry, c)
                  /\ \/ Deterministic(entry) \/ Verified(entry, c, text)
                     \/ entry.iri = NoIri \/ LabelIsOwnText(entry)
    BY DEF LegacyTags, TagsOf
  <1>2. NoIri \notin Places
    BY TaggingAssumption
  <1>3. OfEntry(tag, entry)
    BY <1>1 DEF OfEntry, Tag
  <1>4. CASE tag = Tag(NoIri, entry)
    BY <1>2, <1>3, <1>4, TagIsEarned
  <1>5. ASSUME NEW c, tag = Tag(c, entry), ~Gated(entry, c),
               \/ Deterministic(entry) \/ Verified(entry, c, text)
               \/ entry.iri = NoIri \/ LabelIsOwnText(entry)
        PROVE  Earned(tag, text, FALSE)
    <2>1. c \in Places => entry.paths # {"heading_context"}
      BY <1>5, GatedPlaces
    <2>2. "entity_ruler" \in entry.paths \/ "llm" \in entry.paths \/ Verified(entry, c, text)
      BY <1>5 DEF Deterministic, LabelIsOwnText, GoodEntry, Paths
    <2>. QED  BY <1>5, <2>1, <2>2, TagIsEarned
  <1>. QED  BY <1>1, <1>3, <1>4, <1>5

LEMMA AtomicTagsEarned ==
    ASSUME NEW text, NEW entry, GoodEntry(entry), NEW tag \in AtomicTags(entry, text)
    PROVE  Earned(tag, text, TRUE) /\ OfEntry(tag, entry)
  <1>1. \/ tag = Tag(NoIri, entry)
        \/ \E c : /\ tag = Tag(c, entry) /\ ~Gated(entry, c)
                  /\ (Deterministic(entry) \/ Verified(entry, c, text) \/ c \in text.named)
    BY DEF AtomicTags, TagsOf
  <1>2. NoIri \notin Places
    BY TaggingAssumption
  <1>3. OfEntry(tag, entry)
    BY <1>1 DEF OfEntry, Tag
  <1>4. CASE tag = Tag(NoIri, entry)
    BY <1>2, <1>3, <1>4, TagIsEarned
  <1>5. ASSUME NEW c, tag = Tag(c, entry), ~Gated(entry, c),
               Deterministic(entry) \/ (Verified(entry, c, text) \/ c \in text.named)
        PROVE  Earned(tag, text, TRUE)
    <2>1. c \in Places => entry.paths # {"heading_context"}
      BY <1>5, GatedPlaces
    <2>. QED  BY <1>5, <2>1, TagIsEarned DEF Deterministic
  <1>. QED  BY <1>1, <1>3, <1>4, <1>5

LEMMA TagsForEarned ==
    ASSUME NEW text \in AnyText, NEW atomic \in BOOLEAN, NEW tag \in TagsFor(text, atomic)
    PROVE  Earned(tag, text, atomic) /\ \E entry : OfEntry(tag, entry)
  <1>1. PICK entry \in Reconciled(text) :
            tag \in IF atomic THEN AtomicTags(entry, text) ELSE LegacyTags(entry, text)
    BY DEF TagsFor
  <1>2. GoodEntry(entry)
    BY ReconciledIsGood DEF GoodEntries
  <1>. QED  BY <1>1, <1>2, LegacyTagsEarned, AtomicTagsEarned

\* The judge marks the tags it should have ruled on, and changes nothing else about them.
LEMMA JudgedTags ==
    ASSUME NEW tags, \A t \in tags : \E entry : OfEntry(t, entry),
           NEW left, left \in Verdicts(tags) \/ left = Outage(tags), NEW tag \in left
    PROVE  /\ SaysIfJudged(tag)
           /\ \E t \in tags : t.iri = tag.iri /\ t.paths = tag.paths
  <1>1. ASSUME NEW t \in tags, NEW status \in {"judged", "unjudged"},
               tag = [t EXCEPT !.judge = status]
        PROVE  /\ SaysIfJudged(tag)
               /\ \E u \in tags : u.iri = tag.iri /\ u.paths = tag.paths
    <2>1. PICK entry : t = [iri |-> t.iri, paths |-> entry.paths, judge |-> "none"]
      BY DEF OfEntry, Tag
    <2>2. tag.iri = t.iri /\ tag.paths = t.paths /\ tag.judge = status
      BY <1>1, <2>1
    <2>. QED  BY <2>2 DEF SaysIfJudged
  <1>2. CASE tag \in tags \ Adjudicated(tags)
    BY <1>2 DEF Adjudicated, SaysIfJudged
  <1>3. CASE left \in Verdicts(tags)
    <2>. DEFINE shown == Adjudicated(tags)
    <2>1. PICK p \in (SUBSET shown) \X (SUBSET shown) :
             left = (tags \ shown) \union Ruled(p[1], "judged") \union Ruled(p[2], "unjudged")
      BY <1>3 DEF Verdicts
    <2>2. p[1] \subseteq tags /\ p[2] \subseteq tags
      BY DEF Adjudicated
    <2>3. \/ tag \in tags \ shown
          \/ \E t \in tags : tag = [t EXCEPT !.judge = "judged"]
          \/ \E t \in tags : tag = [t EXCEPT !.judge = "unjudged"]
      BY <2>1, <2>2 DEF Ruled
    <2>. QED  BY <1>1, <1>2, <2>3
  <1>4. CASE left = Outage(tags)
    <2>1. \/ tag \in tags \ Adjudicated(tags)
          \/ \E t \in tags : tag = [t EXCEPT !.judge = "unjudged"]
      BY <1>4 DEF Outage, Ruled, Adjudicated
    <2>. QED  BY <1>1, <1>2, <2>1
  <1>. QED  BY <1>3, <1>4

\* However the calls about a unit end, every tag left is earned by its text.
LEMMA TaggedEarned ==
    ASSUME NEW unit, unit.text \in AnyText, NEW concept, NEW judge, NEW atomic \in BOOLEAN,
           NEW tags \in Tagged(unit, concept, judge, atomic), NEW tag \in tags
    PROVE  Earned(tag, unit.text, atomic) /\ SaysIfJudged(tag)
  <1>. DEFINE text == IF concept = "answered" THEN unit.text ELSE [unit.text EXCEPT !.llm = {}]
              found == TagsFor(text, atomic)
  <1>1. text \in AnyText /\ text.named = unit.text.named /\ text.headed = unit.text.headed
    BY DEF AnyText, Texts
  <1>. HIDE DEF text
  <1>2. tags \in Verdicts(found) \/ tags = Outage(found)
    BY DEF Tagged, text
  <1>3. \A t \in found : Earned(t, text, atomic) /\ \E entry : OfEntry(t, entry)
    BY <1>1, TagsForEarned
  <1>. HIDE DEF found
  <1>4. /\ SaysIfJudged(tag)
        /\ \E t \in found : t.iri = tag.iri /\ t.paths = tag.paths
    BY <1>2, <1>3, JudgedTags
  <1>5. Earned(tag, unit.text, atomic)
    BY <1>1, <1>3, <1>4 DEF Earned
  <1>. QED  BY <1>4, <1>5

-----------------------------------------------------------------------------
(* The inductive invariant of the attempts.                                     *)

StageNames == {"ingestion", "structure_parser", "boundary_detection", "distiller",
               "knowledge_classifier", "folio_tagger", "deduplicator"}
Held == [Files -> AnyText \union {None}]

IsUnit(u) ==
    /\ u = [text |-> u.text, tags |-> u.tags, refused |-> u.refused, also |-> u.also]
    /\ u.text \in AnyText /\ u.refused \in BOOLEAN

IsResult(x) ==
    /\ x = [docs |-> x.docs, read |-> x.read, units |-> x.units, modes |-> x.modes]
    /\ x.read \in Held
    /\ x.units = [f \in Units(x) |-> x.units[f]] /\ Units(x) \subseteq Files
    /\ \A f \in Units(x) : IsUnit(x.units[f])

IsRun(run) ==
    /\ run = [pc |-> run.pc, job |-> run.job, at |-> run.at, result |-> run.result,
              atomic |-> run.atomic, halted |-> run.halted, trackers |-> run.trackers]
    /\ run.job \in Nat /\ run.atomic \in BOOLEAN /\ run.halted \in BOOLEAN
    /\ IsResult(run.result)

IsQueue(q) ==
    /\ q = [job |-> q.job, status |-> q.status, attempts |-> q.attempts, holder |-> q.holder,
            reported |-> q.reported, removed |-> q.removed]
    /\ q.job \in Nat /\ q.reported \subseteq 1..7 /\ q.removed \in BOOLEAN

\* The attempt runs its stage, or has run it and not saved it yet.
IsExecuting(run) == run.pc \in StageNames \union {"hashing", "ran"}

\* where an attempt may be
Placed(run) ==
    /\ run.at \in 1..11
    /\ \/ run.pc = "boundary" /\ run.at <= 10
       \/ run.pc \in StageNames /\ run.at <= 7 /\ run.pc = Stages[run.at]
       \/ run.pc \in {"ran", "saved"} /\ run.at <= 7
       \/ run.pc = "hashing" /\ run.at = 1
       \/ run.pc = "writing" /\ run.at \in 8..10
       \/ run.pc \in {"written", "cleaned"} /\ run.at = 11

Sound(result) == \A f \in Units(result) : ~result.units[f].refused

\* the result as the stages up to i, which ran in mode m, leave it
MadeBy(result, i, m) ==
    /\ result.modes = IF i >= 4 THEN {m} ELSE {}
    /\ \A f \in Units(result) : \A tag \in result.units[f].tags :
          i >= 6 /\ Earned(tag, result.units[f].text, m) /\ SaysIfJudged(tag)

Through(run) == IF run.pc \in {"ran", "saved"} THEN run.at ELSE run.at - 1

RunInv(run) ==
    /\ IsRun(run) /\ Placed(run) /\ run.job <= queue.job
    /\ run.halted => run.pc = "ran"
    /\ Sound(run.result) \/ run.halted
    /\ MadeBy(run.result, Through(run), run.atomic)

KeptInv(result, i) == IsResult(result) /\ Sound(result) /\ \E m \in BOOLEAN : MadeBy(result, i, m)

FilesInv ==
    /\ source \in Held /\ IsQueue(queue)
    /\ DOMAIN checkpoints \subseteq 1..7
    /\ checkpoints = [i \in DOMAIN checkpoints |-> checkpoints[i]]
    /\ \A i \in DOMAIN checkpoints : KeptInv(checkpoints[i], i)
    /\ output = [o \in {"extraction", "review", "corpus"} |-> output[o]]
    /\ \A o \in DOMAIN output : output[o] \in {None, Torn} \/ KeptInv(output[o].result, 7)

\* what was reported complete was saved, and stays so until it is removed
ReportInv ==
    ~queue.removed =>
        /\ queue.reported \subseteq DOMAIN checkpoints
        /\ \A r \in Runs : At(r, "saved") /\ runs[r].job = queue.job =>
              runs[r].at \in DOMAIN checkpoints
        /\ \A r \in Runs : runs[r].pc # "idle" /\ IsExecuting(runs[r]) /\ Holds(r) =>
              runs[r].at \notin queue.reported

ExtractInv ==
    /\ runs = [r \in Runs |-> runs[r]]
    /\ FilesInv /\ ReportInv
    /\ \A r \in Runs : runs[r] = IdleRun \/ (runs[r].pc # "idle" /\ RunInv(runs[r]))

-----------------------------------------------------------------------------
(* Steps that end an attempt, pass a stage boundary, or run a stage.            *)

LEMMA StageFacts ==
    /\ Len(Stages) = 7 /\ DOMAIN Stages = 1..7
    /\ Stages[1] = "ingestion" /\ Stages[2] = "structure_parser"
    /\ Stages[3] = "boundary_detection" /\ Stages[4] = "distiller"
    /\ Stages[5] = "knowledge_classifier" /\ Stages[6] = "folio_tagger"
    /\ Stages[7] = "deduplicator"
    /\ \A i \in 1..7 : Stages[i] \in StageNames
    /\ Len(OutputFiles) = 3
  BY DEF Stages, StageNames, OutputFiles

LEMMA RunStays ==
    ASSUME NEW run, RunInv(run), queue.job \in Nat, queue'.job \in Nat, queue.job <= queue'.job
    PROVE  RunInv(run)'
  <1>1. run.job \in Nat /\ run.job <= queue.job
    BY DEF RunInv, IsRun
  <1>2. run.job <= queue'.job
    BY <1>1
  <1>. QED  BY <1>2 DEF RunInv

LEMMA NothingMoves ==
    ASSUME ExtractInv, UNCHANGED <<output, checkpoints, queue, runs>>, source' \in Held
    PROVE  ExtractInv'
  <1>1. FilesInv'
    BY DEF ExtractInv, FilesInv
  <1>2. ReportInv'
    BY DEF ExtractInv, ReportInv, At, Holds
  <1>. QED  BY <1>1, <1>2 DEF ExtractInv, RunInv

LEMMA EndsKeeps ==
    ASSUME ExtractInv, NEW r \in Runs, NEW status, status # "running", Ends(r, status)
    PROVE  ExtractInv'
  <1>1. /\ runs' = [runs EXCEPT ![r] = IdleRun] /\ UNCHANGED <<source, output, checkpoints>>
        /\ queue' = queue \/ queue' = [queue EXCEPT !.status = status, !.holder = None,
                                   !.attempts = IF status = "paused" THEN @ - 1 ELSE @]
    BY DEF Ends
  <1>2. IsQueue(queue)
    BY DEF ExtractInv, FilesInv
  <1>3. /\ IsQueue(queue') /\ queue'.job = queue.job /\ queue'.reported = queue.reported
        /\ queue'.removed = queue.removed
        /\ queue'.status = "running" => queue' = queue
    <2>1. CASE queue' = queue
      BY <1>2, <2>1
    <2>2. CASE queue' # queue
      <3>. DEFINE left == IF status = "paused" THEN queue.attempts - 1 ELSE queue.attempts
      <3>1. queue' = [queue EXCEPT !.status = status, !.holder = None, !.attempts = left]
        BY <1>1, <2>2
      <3>. HIDE DEF left
      <3>. QED  BY <1>2, <3>1 DEF IsQueue
    <2>. QED  BY <2>1, <2>2
  <1>4. \A q \in Runs \ {r} : runs'[q] = runs[q]
    BY <1>1 DEF ExtractInv
  <1>5. runs'[r] = IdleRun /\ runs'[r].pc = "idle" /\ runs' = [q \in Runs |-> runs'[q]]
    BY <1>1 DEF ExtractInv, IdleRun
  <1>6. FilesInv'
    BY <1>1, <1>3 DEF ExtractInv, FilesInv
  <1>7. ReportInv'
    BY <1>1, <1>3, <1>4, <1>5 DEF ExtractInv, ReportInv, At, Holds, IsExecuting, StageNames
  <1>8. ASSUME NEW q \in Runs PROVE runs'[q] = IdleRun \/ (runs'[q].pc # "idle" /\ RunInv(runs[q])')
    BY <1>3, <1>4, <1>5, RunStays DEF ExtractInv, IsQueue, RunInv
  <1>. QED  BY <1>5, <1>6, <1>7, <1>8 DEF ExtractInv

LEMMA PassesKeeps ==
    ASSUME ExtractInv, NEW r \in Runs, NEW next, NEW done, Passes(r, next, done),
           RunInv(next), next.pc \notin {"idle", "saved"}, done \subseteq 1..7,
           ~queue.removed /\ Holds(r) => done \subseteq DOMAIN checkpoints,
           ~queue.removed /\ Holds(r) /\ IsExecuting(next) => next.at \notin queue.reported \union done
    PROVE  ExtractInv'
  <1>1. CASE ~Holds(r)
    <2>1. Ends(r, "failed")
      BY <1>1 DEF Passes
    <2>. QED  BY <2>1, EndsKeeps
  <1>2. CASE Holds(r)
    <2>1. /\ runs' = [runs EXCEPT ![r] = next] /\ UNCHANGED <<source, output, checkpoints>>
          /\ queue' = [queue EXCEPT !.reported = queue.reported \union done]
      BY <1>2 DEF Passes
    <2>2. IsQueue(queue)
      BY DEF ExtractInv, FilesInv
    <2>3. /\ IsQueue(queue') /\ queue'.job = queue.job /\ queue'.reported = queue.reported \union done
          /\ queue'.removed = queue.removed /\ queue'.status = queue.status
          /\ queue'.holder = queue.holder
      BY <2>1, <2>2 DEF IsQueue
    <2>4. \A q \in Runs \ {r} : runs'[q] = runs[q]
      BY <2>1 DEF ExtractInv
    <2>5. runs'[r] = next /\ runs' = [q \in Runs |-> runs'[q]]
      BY <2>1 DEF ExtractInv
    <2>6. FilesInv'
      BY <2>1, <2>3 DEF ExtractInv, FilesInv
    <2>7. ReportInv'
      <3>1. SUFFICES ASSUME ~queue.removed PROVE
                /\ queue'.reported \subseteq DOMAIN checkpoints
                /\ \A q \in Runs : runs'[q].pc = "saved" /\ runs'[q].job = queue.job =>
                      runs'[q].at \in DOMAIN checkpoints
                /\ \A q \in Runs : runs'[q].pc # "idle" /\ IsExecuting(runs'[q]) /\ Holds(q)' =>
                      runs'[q].at \notin queue'.reported
        BY <2>1, <2>3 DEF ReportInv, At, IsExecuting
      <3>2. queue'.reported \subseteq DOMAIN checkpoints
        BY <1>2, <2>3, <3>1 DEF ExtractInv, ReportInv
      <3>3. ASSUME NEW q \in Runs, runs'[q].pc = "saved", runs'[q].job = queue.job
            PROVE  runs'[q].at \in DOMAIN checkpoints
        BY <2>4, <2>5, <3>1, <3>3 DEF ExtractInv, ReportInv, At
      <3>4. ASSUME NEW q \in Runs, IsExecuting(runs'[q]), Holds(q)'
            PROVE  runs'[q].at \notin queue'.reported
        <4>1. q = r
          BY <1>2, <2>3, <3>4 DEF Holds
        <4>. QED  BY <1>2, <2>3, <2>5, <3>1, <3>4, <4>1
      <3>. QED  BY <3>2, <3>3, <3>4
    <2>8. ASSUME NEW q \in Runs PROVE runs'[q] = IdleRun \/ (runs'[q].pc # "idle" /\ RunInv(runs[q])')
      <3>1. \A run : RunInv(run) => RunInv(run)'
        BY <2>2, <2>3, RunStays DEF IsQueue
      <3>. QED  BY <2>4, <2>5, <3>1 DEF ExtractInv, RunInv
    <2>. QED  BY <2>5, <2>6, <2>7, <2>8 DEF ExtractInv
  <1>. QED  BY <1>1, <1>2

LEMMA ExecutesKeeps ==
    ASSUME ExtractInv, NEW r \in Runs, runs[r].pc \in StageNames \union {"hashing"},
           NEW result, NEW halted \in BOOLEAN, NEW trackers, NEW pc \in {"hashing", "ran"},
           Executes(r, result, halted, trackers, pc),
           pc = "hashing" => runs[r].at = 1,
           IsResult(result), Sound(result) \/ (halted /\ pc = "ran"), halted => pc = "ran",
           MadeBy(result, IF pc = "ran" THEN runs[r].at ELSE 0, runs[r].atomic)
    PROVE  ExtractInv'
  <1>1. /\ runs' = [runs EXCEPT ![r].result = result, ![r].pc = pc, ![r].trackers = trackers,
                                ![r].halted = runs[r].halted \/ halted]
        /\ UNCHANGED <<source, output, checkpoints, queue>>
    BY DEF Executes
  <1>2. RunInv(runs[r])
    BY DEF ExtractInv, IdleRun, StageNames
  <1>3. ~runs[r].halted
    BY <1>2 DEF RunInv, StageNames
  <1>. DEFINE stopped == runs[r].halted \/ halted
              next == [runs[r] EXCEPT !.result = result, !.pc = pc, !.trackers = trackers,
                                      !.halted = stopped]
  <1>4. runs' = [runs EXCEPT ![r] = next]
    BY <1>1
  <1>5. stopped \in BOOLEAN /\ (stopped <=> halted)
    BY <1>3
  <1>. HIDE DEF stopped
  <1>6. /\ next = [pc |-> pc, job |-> runs[r].job, at |-> runs[r].at, result |-> result,
                   atomic |-> runs[r].atomic, halted |-> stopped, trackers |-> trackers]
    <2>. DEFINE run == runs[r]
    <2>1. run = [pc |-> run.pc, job |-> run.job, at |-> run.at, result |-> run.result,
                 atomic |-> run.atomic, halted |-> run.halted, trackers |-> run.trackers]
      BY <1>2 DEF RunInv, IsRun
    <2>2. next = [run EXCEPT !.result = result, !.pc = pc, !.trackers = trackers,
                             !.halted = stopped]
      OBVIOUS
    <2>. HIDE DEF next, run
    <2>3. next = [pc |-> pc, job |-> run.job, at |-> run.at, result |-> result,
                  atomic |-> run.atomic, halted |-> stopped, trackers |-> trackers]
      BY <2>1, <2>2
    <2>. QED  BY <2>3 DEF run
  <1>. HIDE DEF next
  <1>7. /\ next.pc = pc /\ next.job = runs[r].job /\ next.at = runs[r].at /\ next.result = result
        /\ next.atomic = runs[r].atomic /\ next.halted = stopped /\ next.trackers = trackers
    BY <1>6
  <1>8. runs[r].at \in 1..7
    BY <1>2, StageFacts DEF RunInv, Placed, StageNames
  <1>9. RunInv(next)
    <2>1. IsRun(next)
      BY <1>2, <1>5, <1>6, <1>7 DEF RunInv, IsRun
    <2>2. Placed(next)
      BY <1>7, <1>8 DEF Placed
    <2>3. MadeBy(next.result, Through(next), next.atomic)
      <3>1. Through(next) = IF pc = "ran" THEN runs[r].at ELSE 0
        BY <1>7, <1>8 DEF Through
      <3>. QED  BY <1>7, <3>1
    <2>. QED  BY <1>2, <1>5, <1>7, <2>1, <2>2, <2>3 DEF RunInv
  <1>10. \A q \in Runs \ {r} : runs'[q] = runs[q]
    BY <1>4 DEF ExtractInv
  <1>11. runs'[r] = next /\ runs' = [q \in Runs |-> runs'[q]]
    BY <1>4 DEF ExtractInv
  <1>12. FilesInv'
    BY <1>1 DEF ExtractInv, FilesInv
  <1>13. ReportInv'
    <2>1. SUFFICES ASSUME ~queue.removed PROVE
              /\ \A q \in Runs : runs'[q].pc = "saved" /\ runs'[q].job = queue.job =>
                    runs'[q].at \in DOMAIN checkpoints
              /\ \A q \in Runs : runs'[q].pc # "idle" /\ IsExecuting(runs'[q]) /\ Holds(q)' =>
                    runs'[q].at \notin queue.reported
      BY <1>1 DEF ReportInv, At, IsExecuting, ExtractInv
    <2>2. ASSUME NEW q \in Runs, runs'[q].pc = "saved", runs'[q].job = queue.job
          PROVE  runs'[q].at \in DOMAIN checkpoints
      BY <1>7, <1>10, <1>11, <2>1, <2>2 DEF ExtractInv, ReportInv, At
    <2>3. ASSUME NEW q \in Runs, runs'[q].pc # "idle", IsExecuting(runs'[q]), Holds(q)'
          PROVE  runs'[q].at \notin queue.reported
      <3>1. CASE q = r
        <4>1. IsExecuting(runs[r]) /\ runs[r].pc # "idle" /\ Holds(r)
          BY <1>1, <1>7, <1>11, <2>3, <3>1 DEF IsExecuting, Holds, StageNames
        <4>. QED  BY <1>7, <1>11, <2>1, <3>1, <4>1 DEF ExtractInv, ReportInv
      <3>2. CASE q # r
        BY <1>1, <1>10, <2>1, <2>3, <3>2 DEF ExtractInv, ReportInv, Holds
      <3>. QED  BY <3>1, <3>2
    <2>. QED  BY <2>2, <2>3
  <1>14. ASSUME NEW q \in Runs PROVE runs'[q] = IdleRun \/ (runs'[q].pc # "idle" /\ RunInv(runs[q])')
    <2>1. next.pc # "idle"
      BY <1>7
    <2>2. \A run : RunInv(run) => RunInv(run)'
      BY <1>1 DEF RunInv
    <2>. QED  BY <1>9, <1>10, <1>11, <2>1, <2>2 DEF ExtractInv, RunInv
  <1>. QED  BY <1>11, <1>12, <1>13, <1>14 DEF ExtractInv

-----------------------------------------------------------------------------
(* The stages.                                                                  *)

\* Where an attempt that runs a stage stands.
LEMMA AtItsStage ==
    ASSUME ExtractInv, NEW r \in Runs, runs[r].pc \in StageNames \union {"hashing"}
    PROVE  /\ IsResult(runs[r].result) /\ Sound(runs[r].result) /\ runs[r].atomic \in BOOLEAN
           /\ MadeBy(runs[r].result, runs[r].at - 1, runs[r].atomic)
           /\ runs[r].at \in 1..7
           /\ runs[r].pc = "hashing" => runs[r].at = 1
           /\ runs[r].pc \in StageNames => runs[r].pc = Stages[runs[r].at]
  <1>1. RunInv(runs[r])
    BY DEF ExtractInv, IdleRun, StageNames
  <1>2. /\ IsResult(runs[r].result) /\ runs[r].atomic \in BOOLEAN
        /\ Sound(runs[r].result)
    BY <1>1 DEF RunInv, IsRun, StageNames
  <1>3. /\ runs[r].at \in 1..7 /\ (runs[r].pc = "hashing" => runs[r].at = 1)
        /\ runs[r].pc \in StageNames => runs[r].pc = Stages[runs[r].at]
    BY <1>1 DEF RunInv, Placed, StageNames
  <1>4. MadeBy(runs[r].result, runs[r].at - 1, runs[r].atomic)
    BY <1>1 DEF RunInv, Through, StageNames
  <1>. QED  BY <1>2, <1>3, <1>4

\* A result whose units are replaced.
LEMMA OtherUnits ==
    ASSUME NEW x, IsResult(x), NEW modes, NEW units, units = [f \in DOMAIN units |-> units[f]],
           DOMAIN units \subseteq Files, \A f \in DOMAIN units : IsUnit(units[f]),
           NEW y, y = [docs |-> x.docs, read |-> x.read, units |-> units, modes |-> modes]
    PROVE  IsResult(y) /\ y.units = units /\ y.modes = modes
  <1>1. y = [docs |-> x.docs, read |-> x.read, units |-> units, modes |-> modes]
    OBVIOUS
  <1>2. y.docs = x.docs /\ y.read = x.read /\ y.units = units /\ y.modes = modes
    BY <1>1
  <1>. HIDE DEF IsUnit
  <1>. QED  BY <1>1, <1>2 DEF IsResult, Units

\* ... and one whose modes stay.
LEMMA OnlyOtherUnits ==
    ASSUME NEW x, IsResult(x), NEW units, units = [f \in DOMAIN units |-> units[f]],
           DOMAIN units \subseteq Files, \A f \in DOMAIN units : IsUnit(units[f]),
           NEW y, y = [x EXCEPT !.units = units]
    PROVE  IsResult(y) /\ y.units = units /\ y.modes = x.modes
  <1>1. y = [docs |-> x.docs, read |-> x.read, units |-> units, modes |-> x.modes]
    BY DEF IsResult
  <1>2. y.docs = x.docs /\ y.read = x.read /\ y.units = units /\ y.modes = x.modes
    BY <1>1
  <1>. HIDE DEF IsUnit
  <1>. QED  BY <1>1, <1>2 DEF IsResult, Units

LEMMA ReadKeeps ==
    ASSUME ExtractInv, NEW r \in Runs, Read(r)
    PROVE  ExtractInv'
  <1>. DEFINE x == runs[r].result
  <1>1. PICK parsed \in SUBSET {f \in Files : source[f] # None /\ source[f] # Recorded[f]} :
           Executes(r, [x EXCEPT
                           !.read = [f \in Files |-> IF f \in parsed THEN source[f] ELSE None]],
                    FALSE, {}, "hashing")
    BY DEF Read
  <1>. DEFINE read == [f \in Files |-> IF f \in parsed THEN source[f] ELSE None]
              y == [x EXCEPT !.read = read]
  <1>2. runs[r].pc = "ingestion" /\ runs[r].pc \in StageNames
    BY DEF Read, At, StageNames
  <1>3. IsResult(x) /\ Sound(x) /\ MadeBy(x, runs[r].at - 1, runs[r].atomic) /\ runs[r].at = 1
    BY <1>2, AtItsStage, StageFacts
  <1>4. read \in Held
    BY DEF ExtractInv, FilesInv, Held
  <1>5. Executes(r, y, FALSE, {}, "hashing")
    BY <1>1
  <1>. HIDE DEF read
  <1>6. /\ y.docs = x.docs /\ y.read = read /\ y.units = x.units /\ y.modes = x.modes
        /\ y = [docs |-> y.docs, read |-> y.read, units |-> y.units, modes |-> y.modes]
    BY <1>3 DEF IsResult
  <1>. HIDE DEF y, x
  <1>7. IsResult(y) /\ Sound(y)
    BY <1>3, <1>4, <1>6 DEF IsResult, Sound, Units
  <1>8. MadeBy(y, 0, runs[r].atomic)
    <2>1. MadeBy(x, 0, runs[r].atomic)
      BY <1>3
    <2>. QED  BY <1>6, <2>1 DEF MadeBy, Units
  <1>. QED  BY <1>2, <1>3, <1>5, <1>7, <1>8, ExecutesKeeps

LEMMA HashKeeps ==
    ASSUME ExtractInv, NEW r \in Runs, Hash(r)
    PROVE  ExtractInv'
  <1>. DEFINE x == runs[r].result
              docs == [f \in Files |-> IF x.read[f] = None THEN None ELSE source[f]]
              y == [x EXCEPT !.docs = docs]
  <1>1. runs[r].pc = "hashing" /\ Executes(r, y, FALSE, {}, "ran")
    BY DEF Hash, At
  <1>2. IsResult(x) /\ Sound(x) /\ MadeBy(x, runs[r].at - 1, runs[r].atomic) /\ runs[r].at = 1
    BY <1>1, AtItsStage
  <1>. HIDE DEF docs
  <1>3. /\ y.docs = docs /\ y.read = x.read /\ y.units = x.units /\ y.modes = x.modes
        /\ y = [docs |-> y.docs, read |-> y.read, units |-> y.units, modes |-> y.modes]
    BY <1>2 DEF IsResult
  <1>. HIDE DEF y, x
  <1>4. IsResult(y) /\ Sound(y)
    BY <1>2, <1>3 DEF IsResult, Sound, Units
  <1>5. MadeBy(y, 1, runs[r].atomic)
    <2>1. MadeBy(x, 0, runs[r].atomic)
      BY <1>2
    <2>. QED  BY <1>3, <2>1 DEF MadeBy, Units
  <1>. QED  BY <1>1, <1>2, <1>4, <1>5, ExecutesKeeps

LEMMA StructureKeeps ==
    ASSUME ExtractInv, NEW r \in Runs, Structure(r)
    PROVE  ExtractInv'
  <1>. DEFINE x == runs[r].result
  <1>1. runs[r].pc = "structure_parser" /\ Executes(r, x, FALSE, {}, "ran")
    BY DEF Structure, At
  <1>2. runs[r].pc \in StageNames
    BY <1>1 DEF StageNames
  <1>3. IsResult(x) /\ Sound(x) /\ MadeBy(x, runs[r].at - 1, runs[r].atomic) /\ runs[r].at = 2
    BY <1>1, <1>2, AtItsStage, StageFacts
  <1>. HIDE DEF x
  <1>4. MadeBy(x, 2, runs[r].atomic)
    <2>1. MadeBy(x, 1, runs[r].atomic)
      BY <1>3
    <2>. QED  BY <2>1 DEF MadeBy
  <1>. QED  BY <1>1, <1>2, <1>3, <1>4, ExecutesKeeps

LEMMA SplitKeeps ==
    ASSUME ExtractInv, NEW r \in Runs, Split(r)
    PROVE  ExtractInv'
  <1>. DEFINE x == runs[r].result
              units == [f \in {f \in Files : x.read[f] # None} |-> NewUnit(x.read[f])]
              y == [x EXCEPT !.units = units]
  <1>1. runs[r].pc = "boundary_detection" /\ Executes(r, y, FALSE, {}, "ran")
    BY DEF Split, At
  <1>2. runs[r].pc \in StageNames
    BY <1>1 DEF StageNames
  <1>3. IsResult(x) /\ Sound(x) /\ MadeBy(x, runs[r].at - 1, runs[r].atomic) /\ runs[r].at = 3
    BY <1>1, <1>2, AtItsStage, StageFacts
  <1>4. \A f \in DOMAIN units : x.read[f] \in AnyText
    BY <1>3 DEF IsResult, Held
  <1>. HIDE DEF x
  <1>5. \A f \in DOMAIN units : /\ IsUnit(units[f]) /\ ~units[f].refused
                                /\ units[f].tags = {}
    BY <1>4 DEF IsUnit, NewUnit
  <1>6. units = [f \in DOMAIN units |-> units[f]] /\ DOMAIN units \subseteq Files
    OBVIOUS
  <1>. HIDE DEF units
  <1>7. IsResult(y) /\ y.units = units /\ y.modes = x.modes
    BY <1>3, <1>5, <1>6, OnlyOtherUnits
  <1>. HIDE DEF y
  <1>8. Sound(y)
    BY <1>5, <1>7 DEF Sound, Units
  <1>9. MadeBy(y, 3, runs[r].atomic)
    <2>1. MadeBy(x, 2, runs[r].atomic)
      BY <1>3
    <2>. QED  BY <1>5, <1>7, <2>1 DEF MadeBy, Units
  <1>. QED  BY <1>1, <1>2, <1>3, <1>7, <1>8, <1>9, ExecutesKeeps

LEMMA RewordedIsText ==
    ASSUME NEW text \in AnyText, NEW answer \in Answers
    PROVE  Reworded(text, answer) \in AnyText
  BY ExtractionAssumption DEF Reworded, AnyText, Texts

\* A unit after a call that may have changed its text.
LEMMA CalledUnit ==
    ASSUME NEW u, IsUnit(u), NEW text \in AnyText, NEW refused \in BOOLEAN, NEW v,
           v = [text |-> text, tags |-> u.tags, refused |-> refused, also |-> u.also]
    PROVE  IsUnit(v) /\ v.tags = u.tags /\ v.refused = refused
  BY DEF IsUnit

LEMMA DistillKeeps ==
    ASSUME ExtractInv, NEW r \in Runs, Distill(r)
    PROVE  ExtractInv'
  <1>. DEFINE x == runs[r].result
              atomic == runs[r].atomic
  <1>1. PICK ends \in [Units(x) -> {"answered", "kept", "failed", "refused"}],
             answer \in [Units(x) -> Answers] :
           Executes(r, [x EXCEPT
                   !.units = [f \in {f \in Units(x) : ~atomic \/ ends[f] \in {"answered", "kept"}} |->
                       [x.units[f] EXCEPT
                           !.text = IF ends[f] = "answered" THEN Reworded(@, answer[f]) ELSE @,
                           !.refused = @ \/ ends[f] = "refused"]],
                   !.modes = @ \union {atomic}],
                \E f \in Units(x) : ends[f] = "refused", {Calls(ends)}, "ran")
    BY DEF Distill
  <1>. DEFINE lasting == {f \in Units(x) : ~atomic \/ ends[f] \in {"answered", "kept"}}
              text(f) == IF ends[f] = "answered" THEN Reworded(x.units[f].text, answer[f])
                         ELSE x.units[f].text
              refused(f) == x.units[f].refused \/ ends[f] = "refused"
              units == [f \in lasting |-> [x.units[f] EXCEPT !.text = text(f),
                                                             !.refused = refused(f)]]
              halted == \E f \in Units(x) : ends[f] = "refused"
              modes == x.modes \union {atomic}
              y == [x EXCEPT !.units = units, !.modes = modes]
  <1>2. runs[r].pc = "distiller" /\ runs[r].pc \in StageNames
    BY DEF Distill, At, StageNames
  <1>3. Executes(r, y, halted, {Calls(ends)}, "ran")
    BY <1>1
  <1>4. /\ IsResult(x) /\ Sound(x) /\ MadeBy(x, runs[r].at - 1, atomic) /\ runs[r].at = 4
        /\ atomic \in BOOLEAN
    BY <1>2, AtItsStage, StageFacts
  <1>. HIDE DEF x, atomic
  <1>5. \A f \in lasting : /\ IsUnit(units[f]) /\ units[f].tags = x.units[f].tags
                           /\ units[f].refused = refused(f)
    <2>1. ASSUME NEW f \in lasting
          PROVE  /\ IsUnit(units[f]) /\ units[f].tags = x.units[f].tags
                 /\ units[f].refused = refused(f)
      <3>1. IsUnit(x.units[f]) /\ x.units[f].text \in AnyText
        BY <1>4 DEF IsResult, IsUnit
      <3>2. text(f) \in AnyText
        BY <3>1, RewordedIsText
      <3>3. refused(f) \in BOOLEAN
        OBVIOUS
      <3>4. units[f] = [text |-> text(f), tags |-> x.units[f].tags, refused |-> refused(f),
                        also |-> x.units[f].also]
        <4>. HIDE DEF text, refused
        <4>. QED  BY <3>1 DEF IsUnit
      <3>. HIDE DEF units, text, refused
      <3>. QED  BY <3>1, <3>2, <3>3, <3>4, CalledUnit
    <2>. QED  BY <2>1
  <1>6. units = [f \in DOMAIN units |-> units[f]] /\ DOMAIN units = lasting /\ lasting \subseteq Files
    BY <1>4 DEF IsResult
  <1>7. \A f \in lasting : refused(f) => halted
    BY <1>4 DEF Sound
  <1>8. halted \in BOOLEAN
    OBVIOUS
  <1>9. lasting \subseteq Units(x)
    OBVIOUS
  <1>. HIDE DEF units, text, refused, halted, lasting
  <1>10. IsResult(y) /\ y.units = units /\ y.modes = modes
    <2>. HIDE DEF modes
    <2>1. y = [x EXCEPT !.units = units, !.modes = modes]
      OBVIOUS
    <2>2. x = [docs |-> x.docs, read |-> x.read, units |-> x.units, modes |-> x.modes]
      BY <1>4 DEF IsResult
    <2>. HIDE DEF y
    <2>3. y = [docs |-> x.docs, read |-> x.read, units |-> units, modes |-> modes]
      BY <2>1, <2>2
    <2>. QED  BY <1>4, <1>5, <1>6, <2>3, OtherUnits
  <1>. HIDE DEF y
  <1>11. Sound(y) \/ halted
    BY <1>5, <1>6, <1>7, <1>10 DEF Sound, Units
  <1>12. MadeBy(y, 4, atomic)
    <2>1. MadeBy(x, 3, atomic)
      BY <1>4
    <2>2. x.modes = {} /\ \A f \in Units(x) : x.units[f].tags = {}
      BY <2>1 DEF MadeBy
    <2>3. modes = {atomic}
      BY <2>2
    <2>4. \A f \in Units(y) : y.units[f].tags = {}
      BY <1>5, <1>6, <1>9, <1>10, <2>2 DEF Units
    <2>. HIDE DEF modes
    <2>. QED  BY <1>10, <2>3, <2>4 DEF MadeBy
  <1>. QED  BY <1>2, <1>3, <1>4, <1>8, <1>10, <1>11, <1>12, ExecutesKeeps DEF atomic

\* A unit whose calls leave its text alone.
LEMMA MarkedUnit ==
    ASSUME NEW u, IsUnit(u), NEW refused \in BOOLEAN, NEW v,
           v = [u EXCEPT !.refused = refused]
    PROVE  IsUnit(v) /\ v.text = u.text /\ v.tags = u.tags /\ v.refused = refused
  <1>1. v = [text |-> u.text, tags |-> u.tags, refused |-> refused, also |-> u.also]
    BY DEF IsUnit
  <1>. QED  BY <1>1 DEF IsUnit

LEMMA ClassifyKeeps ==
    ASSUME ExtractInv, NEW r \in Runs, Classify(r)
    PROVE  ExtractInv'
  <1>. DEFINE x == runs[r].result
              atomic == runs[r].atomic
              Outcomes == [Units(x) -> {"answered", "failed", "refused"}]
  <1>1. PICK type \in Outcomes, novelty \in Outcomes :
           Executes(r, [x EXCEPT
                   !.units = [f \in Units(x) |->
                       [x.units[f] EXCEPT !.refused = @ \/ "refused" \in {type[f], novelty[f]}]]],
                \E f \in Units(x) : "refused" \in {type[f], novelty[f]},
                {Calls(type), Calls(novelty)}, "ran")
    BY DEF Classify
  <1>. DEFINE refused(f) == x.units[f].refused \/ "refused" \in {type[f], novelty[f]}
              units == [f \in Units(x) |-> [x.units[f] EXCEPT !.refused = refused(f)]]
              halted == \E f \in Units(x) : "refused" \in {type[f], novelty[f]}
              y == [x EXCEPT !.units = units]
  <1>2. runs[r].pc = "knowledge_classifier" /\ runs[r].pc \in StageNames
    BY DEF Classify, At, StageNames
  <1>3. Executes(r, y, halted, {Calls(type), Calls(novelty)}, "ran")
    BY <1>1
  <1>4. /\ IsResult(x) /\ Sound(x) /\ MadeBy(x, runs[r].at - 1, atomic) /\ runs[r].at = 5
        /\ atomic \in BOOLEAN
    BY <1>2, AtItsStage, StageFacts
  <1>. HIDE DEF x, atomic
  <1>5. \A f \in Units(x) : /\ IsUnit(units[f]) /\ units[f].tags = x.units[f].tags
                            /\ units[f].refused = refused(f)
    <2>1. ASSUME NEW f \in Units(x)
          PROVE  /\ IsUnit(units[f]) /\ units[f].tags = x.units[f].tags
                 /\ units[f].refused = refused(f)
      <3>1. IsUnit(x.units[f])
        BY <1>4 DEF IsResult
      <3>2. refused(f) \in BOOLEAN
        OBVIOUS
      <3>3. units[f] = [x.units[f] EXCEPT !.refused = refused(f)]
        OBVIOUS
      <3>. HIDE DEF units, refused
      <3>. QED  BY <3>1, <3>2, <3>3, MarkedUnit
    <2>. QED  BY <2>1
  <1>6. units = [f \in DOMAIN units |-> units[f]] /\ DOMAIN units = Units(x) /\ Units(x) \subseteq Files
    BY <1>4 DEF IsResult
  <1>7. \A f \in Units(x) : refused(f) => halted
    BY <1>4 DEF Sound
  <1>8. halted \in BOOLEAN
    OBVIOUS
  <1>. HIDE DEF units, refused, halted
  <1>9. IsResult(y) /\ y.units = units /\ y.modes = x.modes
    BY <1>4, <1>5, <1>6, OnlyOtherUnits
  <1>. HIDE DEF y
  <1>10. Sound(y) \/ halted
    BY <1>5, <1>6, <1>7, <1>9 DEF Sound, Units
  <1>11. MadeBy(y, 5, atomic)
    <2>1. MadeBy(x, 4, atomic)
      BY <1>4
    <2>2. x.modes = {atomic} /\ \A f \in Units(x) : x.units[f].tags = {}
      BY <2>1 DEF MadeBy
    <2>3. \A f \in Units(y) : y.units[f].tags = {}
      BY <1>5, <1>6, <1>9, <2>2 DEF Units
    <2>. QED  BY <1>9, <2>2, <2>3 DEF MadeBy
  <1>. QED  BY <1>2, <1>3, <1>4, <1>8, <1>9, <1>10, <1>11, ExecutesKeeps DEF atomic

LEMMA TagStageKeeps ==
    ASSUME ExtractInv, NEW r \in Runs, TagStage(r)
    PROVE  ExtractInv'
  <1>. DEFINE x == runs[r].result
              atomic == runs[r].atomic
              Outcomes == [Units(x) -> {"answered", "failed", "refused"}]
  <1>1. PICK concept \in Outcomes, judge \in Outcomes :
        \E tags \in [Units(x) -> UNION {Tagged(x.units[f], concept[f], judge[f], atomic) :
                                            f \in Units(x)}] :
           /\ \A f \in Units(x) : tags[f] \in Tagged(x.units[f], concept[f], judge[f], atomic)
           /\ Executes(r, [x EXCEPT
                   !.units = [f \in Units(x) |->
                       [x.units[f] EXCEPT !.tags = tags[f],
                                          !.refused = @ \/ "refused" \in {concept[f], judge[f]}]],
                   !.modes = @ \union {atomic}],
                \E f \in Units(x) : "refused" \in {concept[f], judge[f]},
                {Calls(concept)}, "ran")
    BY DEF TagStage
  <1>2. PICK tags :
           /\ \A f \in Units(x) : tags[f] \in Tagged(x.units[f], concept[f], judge[f], atomic)
           /\ Executes(r, [x EXCEPT
                   !.units = [f \in Units(x) |->
                       [x.units[f] EXCEPT !.tags = tags[f],
                                          !.refused = @ \/ "refused" \in {concept[f], judge[f]}]],
                   !.modes = @ \union {atomic}],
                \E f \in Units(x) : "refused" \in {concept[f], judge[f]},
                {Calls(concept)}, "ran")
    BY <1>1
  <1>. DEFINE refused(f) == x.units[f].refused \/ "refused" \in {concept[f], judge[f]}
              units == [f \in Units(x) |-> [x.units[f] EXCEPT !.tags = tags[f],
                                                              !.refused = refused(f)]]
              halted == \E f \in Units(x) : "refused" \in {concept[f], judge[f]}
              modes == x.modes \union {atomic}
              y == [x EXCEPT !.units = units, !.modes = modes]
  <1>3. runs[r].pc = "folio_tagger" /\ runs[r].pc \in StageNames
    BY DEF TagStage, At, StageNames
  <1>4. Executes(r, y, halted, {Calls(concept)}, "ran")
    BY <1>2
  <1>5. /\ IsResult(x) /\ Sound(x) /\ MadeBy(x, runs[r].at - 1, atomic) /\ runs[r].at = 6
        /\ atomic \in BOOLEAN
    BY <1>3, AtItsStage, StageFacts
  <1>6. \A f \in Units(x) : tags[f] \in Tagged(x.units[f], concept[f], judge[f], atomic)
    BY <1>2
  <1>. HIDE DEF x, atomic
  <1>7. \A f \in Units(x) : /\ IsUnit(units[f]) /\ units[f].text = x.units[f].text
                            /\ units[f].tags = tags[f] /\ units[f].refused = refused(f)
    <2>1. ASSUME NEW f \in Units(x)
          PROVE  /\ IsUnit(units[f]) /\ units[f].text = x.units[f].text
                 /\ units[f].tags = tags[f] /\ units[f].refused = refused(f)
      <3>. DEFINE u == x.units[f]
                  v == units[f]
      <3>1. IsUnit(u)
        BY <1>5 DEF IsResult
      <3>2. refused(f) \in BOOLEAN
        OBVIOUS
      <3>3. v = [u EXCEPT !.tags = tags[f], !.refused = refused(f)]
        OBVIOUS
      <3>. HIDE DEF units, refused, u, v
      <3>4. v = [text |-> u.text, tags |-> tags[f], refused |-> refused(f), also |-> u.also]
        BY <3>1, <3>3 DEF IsUnit
      <3>5. IsUnit(v) /\ v.text = u.text /\ v.tags = tags[f] /\ v.refused = refused(f)
        BY <3>1, <3>2, <3>4 DEF IsUnit
      <3>. QED  BY <3>5 DEF u, v
    <2>. QED  BY <2>1
  <1>8. units = [f \in DOMAIN units |-> units[f]] /\ DOMAIN units = Units(x) /\ Units(x) \subseteq Files
    BY <1>5 DEF IsResult
  <1>9. \A f \in Units(x) : refused(f) => halted
    BY <1>5 DEF Sound
  <1>10. halted \in BOOLEAN
    OBVIOUS
  <1>. HIDE DEF units, refused, halted
  <1>11. IsResult(y) /\ y.units = units /\ y.modes = modes
    <2>. HIDE DEF modes
    <2>1. y = [x EXCEPT !.units = units, !.modes = modes]
      OBVIOUS
    <2>2. x = [docs |-> x.docs, read |-> x.read, units |-> x.units, modes |-> x.modes]
      BY <1>5 DEF IsResult
    <2>. HIDE DEF y
    <2>3. y = [docs |-> x.docs, read |-> x.read, units |-> units, modes |-> modes]
      BY <2>1, <2>2
    <2>4. \A f \in DOMAIN units : IsUnit(units[f])
      BY <1>7, <1>8
    <2>5. DOMAIN units \subseteq Files /\ units = [f \in DOMAIN units |-> units[f]]
      BY <1>8
    <2>. QED  BY <1>5, <2>3, <2>4, <2>5, OtherUnits
  <1>. HIDE DEF y
  <1>12. Sound(y) \/ halted
    BY <1>7, <1>8, <1>9, <1>11 DEF Sound, Units
  <1>13. MadeBy(y, 6, atomic)
    <2>1. MadeBy(x, 5, atomic)
      BY <1>5
    <2>2. modes = {atomic}
      BY <2>1 DEF MadeBy
    <2>3. ASSUME NEW f \in Units(y), NEW tag \in y.units[f].tags
          PROVE  Earned(tag, y.units[f].text, atomic) /\ SaysIfJudged(tag)
      <3>1. f \in Units(x)
        BY <1>8, <1>11 DEF Units
      <3>2. x.units[f].text \in AnyText
        BY <1>5, <3>1 DEF IsResult, IsUnit
      <3>3. tags[f] \in Tagged(x.units[f], concept[f], judge[f], atomic)
        BY <1>6, <3>1
      <3>4. tag \in tags[f] /\ y.units[f].text = x.units[f].text
        BY <1>7, <1>11, <2>3, <3>1
      <3>. QED  BY <1>5, <3>2, <3>3, <3>4, TaggedEarned
    <2>. HIDE DEF modes
    <2>. QED  BY <1>11, <2>2, <2>3 DEF MadeBy
  <1>. QED  BY <1>3, <1>4, <1>5, <1>10, <1>11, <1>12, <1>13, ExecutesKeeps DEF atomic

LEMMA DeduplicateKeeps ==
    ASSUME ExtractInv, NEW r \in Runs, Deduplicate(r)
    PROVE  ExtractInv'
  <1>. DEFINE x == runs[r].result
              atomic == runs[r].atomic
              Equal(f) == IF atomic THEN {f}
                          ELSE {g \in Units(x) : x.units[g].text = x.units[f].text}
  <1>1. PICK kept \in SUBSET Units(x) :
           Executes(r, [x EXCEPT
                   !.units = [f \in kept |-> [x.units[f] EXCEPT !.also = Equal(f) \ {f}]],
                   !.modes = @ \union {atomic}],
                FALSE, {}, "ran")
    BY DEF Deduplicate
  <1>. DEFINE units == [f \in kept |-> [x.units[f] EXCEPT !.also = Equal(f) \ {f}]]
              modes == x.modes \union {atomic}
              y == [x EXCEPT !.units = units, !.modes = modes]
  <1>2. runs[r].pc = "deduplicator" /\ runs[r].pc \in StageNames
    BY DEF Deduplicate, At, StageNames
  <1>3. Executes(r, y, FALSE, {}, "ran")
    BY <1>1
  <1>4. /\ IsResult(x) /\ Sound(x) /\ MadeBy(x, runs[r].at - 1, atomic) /\ runs[r].at = 7
        /\ atomic \in BOOLEAN
    BY <1>2, AtItsStage, StageFacts
  <1>. HIDE DEF x, atomic, Equal
  <1>5. \A f \in kept : /\ IsUnit(units[f]) /\ units[f].text = x.units[f].text
                        /\ units[f].tags = x.units[f].tags
                        /\ units[f].refused = x.units[f].refused
    <2>1. ASSUME NEW f \in kept
          PROVE  /\ IsUnit(units[f]) /\ units[f].text = x.units[f].text
                 /\ units[f].tags = x.units[f].tags
                 /\ units[f].refused = x.units[f].refused
      <3>. DEFINE u == x.units[f]
                  v == units[f]
                  also == Equal(f) \ {f}
      <3>1. IsUnit(u)
        BY <1>4 DEF IsResult
      <3>2. v = [u EXCEPT !.also = also]
        OBVIOUS
      <3>. HIDE DEF units, u, v, also
      <3>3. v = [text |-> u.text, tags |-> u.tags, refused |-> u.refused, also |-> also]
        BY <3>1, <3>2 DEF IsUnit
      <3>4. IsUnit(v) /\ v.text = u.text /\ v.tags = u.tags /\ v.refused = u.refused
        BY <3>1, <3>3 DEF IsUnit
      <3>. QED  BY <3>4 DEF u, v
    <2>. QED  BY <2>1
  <1>6. units = [f \in DOMAIN units |-> units[f]] /\ DOMAIN units = kept /\ kept \subseteq Files
    BY <1>4 DEF IsResult
  <1>. HIDE DEF units
  <1>7. IsResult(y) /\ y.units = units /\ y.modes = modes
    <2>. HIDE DEF modes
    <2>1. y = [x EXCEPT !.units = units, !.modes = modes]
      OBVIOUS
    <2>2. x = [docs |-> x.docs, read |-> x.read, units |-> x.units, modes |-> x.modes]
      BY <1>4 DEF IsResult
    <2>. HIDE DEF y
    <2>3. y = [docs |-> x.docs, read |-> x.read, units |-> units, modes |-> modes]
      BY <2>1, <2>2
    <2>4. \A f \in DOMAIN units : IsUnit(units[f])
      BY <1>5, <1>6
    <2>5. DOMAIN units \subseteq Files /\ units = [f \in DOMAIN units |-> units[f]]
      BY <1>6
    <2>. QED  BY <1>4, <2>3, <2>4, <2>5, OtherUnits
  <1>. HIDE DEF y
  <1>8. Sound(y)
    BY <1>4, <1>5, <1>6, <1>7 DEF Sound, Units
  <1>9. MadeBy(y, 7, atomic)
    <2>1. MadeBy(x, 6, atomic)
      BY <1>4
    <2>2. modes = {atomic}
      BY <2>1 DEF MadeBy
    <2>3. ASSUME NEW f \in Units(y), NEW tag \in y.units[f].tags
          PROVE  Earned(tag, y.units[f].text, atomic) /\ SaysIfJudged(tag)
      <3>1. f \in kept /\ f \in Units(x)
        BY <1>6, <1>7 DEF Units
      <3>2. y.units[f].text = x.units[f].text /\ tag \in x.units[f].tags
        BY <1>5, <1>7, <2>3, <3>1
      <3>. QED  BY <2>1, <3>1, <3>2 DEF MadeBy
    <2>. HIDE DEF modes
    <2>. QED  BY <1>7, <2>2, <2>3 DEF MadeBy
  <1>. QED  BY <1>2, <1>3, <1>4, <1>7, <1>8, <1>9, ExecutesKeeps DEF atomic

-----------------------------------------------------------------------------
(* The corpus, the queue and the stage boundaries.                              *)

\* The attempts when one of them moves.
LEMMA OneRunMoves ==
    ASSUME ExtractInv, NEW r \in Runs, NEW next, runs' = [runs EXCEPT ![r] = next],
           IsQueue(queue'), queue.job <= queue'.job,
           next = IdleRun \/ (next.pc # "idle" /\ RunInv(next))
    PROVE  /\ runs' = [q \in Runs |-> runs'[q]] /\ runs'[r] = next
           /\ \A q \in Runs \ {r} : runs'[q] = runs[q]
           /\ \A q \in Runs : runs'[q] = IdleRun \/ (runs'[q].pc # "idle" /\ RunInv(runs[q])')
  <1>1. /\ runs' = [q \in Runs |-> runs'[q]] /\ runs'[r] = next
        /\ \A q \in Runs \ {r} : runs'[q] = runs[q]
    BY DEF ExtractInv
  <1>2. queue.job \in Nat /\ queue'.job \in Nat
    BY DEF ExtractInv, FilesInv, IsQueue
  <1>3. ASSUME NEW q \in Runs
        PROVE  runs'[q] = IdleRun \/ (runs'[q].pc # "idle" /\ RunInv(runs[q])')
    <2>1. \A run : RunInv(run) => RunInv(run)'
      BY <1>2, RunStays
    <2>. QED  BY <1>1, <2>1 DEF ExtractInv, RunInv
  <1>. QED  BY <1>1, <1>3

\* ... and when none does.
LEMMA NoRunMoves ==
    ASSUME ExtractInv, UNCHANGED runs, IsQueue(queue'), queue.job <= queue'.job
    PROVE  /\ runs' = [q \in Runs |-> runs'[q]]
           /\ \A q \in Runs : runs'[q] = IdleRun \/ (runs'[q].pc # "idle" /\ RunInv(runs[q])')
  <1>1. queue.job \in Nat /\ queue'.job \in Nat
    BY DEF ExtractInv, FilesInv, IsQueue
  <1>2. \A run : RunInv(run) => RunInv(run)'
    BY <1>1, RunStays
  <1>. QED  BY <1>2 DEF ExtractInv, RunInv

LEMMA UploadKeeps ==
    ASSUME ExtractInv, NEW f \in Files, NEW text \in Contents, Upload(f, text)
    PROVE  ExtractInv'
  <1>1. source' = [source EXCEPT ![f] = text] /\ UNCHANGED <<output, checkpoints, queue, runs>>
    BY DEF Upload
  <1>2. source' \in Held
    BY <1>1, ExtractionAssumption DEF ExtractInv, FilesInv, Held
  <1>. QED  BY <1>1, <1>2, NothingMoves

LEMMA SubmitKeeps ==
    ASSUME ExtractInv, Submit
    PROVE  ExtractInv'
  <1>1. /\ queue' = [job |-> queue.job + 1, status |-> "queued", attempts |-> 0, holder |-> None,
                     reported |-> {}, removed |-> FALSE]
        /\ checkpoints' = NoCheckpoints /\ UNCHANGED <<source, output, runs>>
    BY DEF Submit
  <1>2. IsQueue(queue) /\ queue.job \in Nat
    BY DEF ExtractInv, FilesInv, IsQueue
  <1>3. queue'.job = queue.job + 1 /\ queue'.reported = {} /\ queue'.status = "queued"
    BY <1>1
  <1>4. IsQueue(queue')
    BY <1>1, <1>2 DEF IsQueue
  <1>5. queue.job <= queue'.job
    BY <1>2, <1>3
  <1>6. DOMAIN checkpoints' = {} /\ checkpoints' = [i \in DOMAIN checkpoints' |-> checkpoints'[i]]
    BY <1>1 DEF NoCheckpoints
  <1>7. FilesInv'
    BY <1>1, <1>4, <1>6 DEF ExtractInv, FilesInv
  <1>8. ASSUME NEW r \in Runs, runs[r].pc = "saved" PROVE runs[r].job # queue'.job
    <2>1. runs[r].job \in Nat /\ runs[r].job <= queue.job
      BY <1>8 DEF ExtractInv, IdleRun, RunInv, IsRun
    <2>. QED  BY <1>2, <1>3, <2>1
  <1>9. ReportInv'
    BY <1>1, <1>3, <1>6, <1>8 DEF ReportInv, At, Holds
  <1>. QED  BY <1>1, <1>4, <1>5, <1>7, <1>9, NoRunMoves DEF ExtractInv

\* The job leaves the queue or enters it again; its attempts do not notice.
LEMMA StatusKeeps ==
    ASSUME ExtractInv, UNCHANGED <<source, output, checkpoints, runs>>,
           IsQueue(queue'), queue'.job = queue.job, queue'.reported = queue.reported,
           queue'.removed = queue.removed, queue'.status # "running"
    PROVE  ExtractInv'
  <1>1. queue.job \in Nat /\ queue.job <= queue'.job
    BY DEF ExtractInv, FilesInv, IsQueue
  <1>2. FilesInv'
    BY DEF ExtractInv, FilesInv
  <1>3. ReportInv'
    BY DEF ExtractInv, ReportInv, At, Holds
  <1>. QED  BY <1>1, <1>2, <1>3, NoRunMoves DEF ExtractInv

LEMMA ExpireKeeps ==
    ASSUME ExtractInv, Expire
    PROVE  ExtractInv'
  <1>1. /\ queue' = [queue EXCEPT !.status = Retried, !.holder = None]
        /\ UNCHANGED <<source, output, checkpoints, runs>>
    BY DEF Expire
  <1>2. Retried # "running"
    BY DEF Retried
  <1>3. IsQueue(queue)
    BY DEF ExtractInv, FilesInv
  <1>4. /\ IsQueue(queue') /\ queue'.job = queue.job /\ queue'.reported = queue.reported
        /\ queue'.removed = queue.removed /\ queue'.status = Retried
    BY <1>1, <1>3 DEF IsQueue
  <1>. QED  BY <1>1, <1>2, <1>4, StatusKeeps

LEMMA ResumeKeeps ==
    ASSUME ExtractInv, Resume
    PROVE  ExtractInv'
  <1>1. /\ queue' = [queue EXCEPT !.status = "queued"]
        /\ UNCHANGED <<source, output, checkpoints, runs>>
    BY DEF Resume
  <1>2. IsQueue(queue)
    BY DEF ExtractInv, FilesInv
  <1>3. /\ IsQueue(queue') /\ queue'.job = queue.job /\ queue'.reported = queue.reported
        /\ queue'.removed = queue.removed /\ queue'.status = "queued"
    BY <1>1, <1>2 DEF IsQueue
  <1>. QED  BY <1>1, <1>3, StatusKeeps

LEMMA BeginKeeps ==
    ASSUME ExtractInv, NEW r \in Runs, Begin(r)
    PROVE  ExtractInv'
  <1>1. PICK mode \in Modes : runs' = [runs EXCEPT ![r] =
              [pc |-> "boundary", job |-> queue.job, at |-> 1, result |-> NewResult,
               atomic |-> mode, halted |-> FALSE, trackers |-> {}]]
    BY DEF Begin
  <1>. DEFINE next == [pc |-> "boundary", job |-> queue.job, at |-> 1, result |-> NewResult,
                       atomic |-> mode, halted |-> FALSE, trackers |-> {}]
  <1>2. /\ queue' = [queue EXCEPT !.status = "running", !.attempts = @ + 1, !.holder = r]
        /\ UNCHANGED <<source, output, checkpoints>>
    BY DEF Begin
  <1>3. IsQueue(queue) /\ queue.job \in Nat
    BY DEF ExtractInv, FilesInv, IsQueue
  <1>4. /\ IsQueue(queue') /\ queue'.job = queue.job /\ queue'.reported = queue.reported
        /\ queue'.removed = queue.removed /\ queue'.holder = r
    <2>. DEFINE more == queue.attempts + 1
    <2>1. queue' = [queue EXCEPT !.status = "running", !.attempts = more, !.holder = r]
      BY <1>2
    <2>. HIDE DEF more
    <2>. QED  BY <1>3, <2>1 DEF IsQueue
  <1>5. mode \in BOOLEAN
    BY ExtractionAssumption
  <1>6. IsResult(NewResult) /\ Sound(NewResult) /\ MadeBy(NewResult, 0, mode)
    <2>1. NewResult.read = NoTexts /\ NewResult.units = <<>> /\ NewResult.modes = {}
      BY DEF NewResult
    <2>2. Units(NewResult) = {}
      BY <2>1 DEF Units
    <2>3. NoTexts \in Held
      BY DEF NoTexts, Held
    <2>4. NewResult.units = [f \in Units(NewResult) |-> NewResult.units[f]]
      BY <2>1, <2>2
    <2>5. NewResult = [docs |-> NewResult.docs, read |-> NewResult.read,
                       units |-> NewResult.units, modes |-> NewResult.modes]
      BY DEF NewResult
    <2>. HIDE DEF NewResult
    <2>. QED  BY <2>1, <2>2, <2>3, <2>4, <2>5 DEF IsResult, Sound, MadeBy
  <1>7. /\ next.pc = "boundary" /\ next.job = queue.job /\ next.at = 1 /\ next.result = NewResult
        /\ next.atomic = mode /\ next.halted = FALSE
        /\ next = [pc |-> next.pc, job |-> next.job, at |-> next.at, result |-> next.result,
                   atomic |-> next.atomic, halted |-> next.halted, trackers |-> next.trackers]
    OBVIOUS
  <1>8. runs' = [runs EXCEPT ![r] = next]
    BY <1>1
  <1>. HIDE DEF next
  <1>9. RunInv(next) /\ next.pc # "idle"
    <2>1. Through(next) = 0
      BY <1>7 DEF Through
    <2>2. IsRun(next)
      BY <1>3, <1>5, <1>6, <1>7 DEF IsRun
    <2>3. Placed(next)
      BY <1>7 DEF Placed
    <2>. QED  BY <1>3, <1>6, <1>7, <2>1, <2>2, <2>3 DEF RunInv
  <1>10. queue.job <= queue'.job
    BY <1>3, <1>4
  <1>11. /\ runs' = [q \in Runs |-> runs'[q]] /\ runs'[r] = next
         /\ \A q \in Runs \ {r} : runs'[q] = runs[q]
         /\ \A q \in Runs : runs'[q] = IdleRun \/ (runs'[q].pc # "idle" /\ RunInv(runs[q])')
    BY <1>4, <1>8, <1>9, <1>10, OneRunMoves
  <1>12. FilesInv'
    BY <1>2, <1>4 DEF ExtractInv, FilesInv
  <1>13. ReportInv'
    <2>1. \A q \in Runs \ {r} : ~Holds(q)'
      BY <1>4 DEF Holds
    <2>2. ~IsExecuting(runs'[r]) /\ runs'[r].pc # "saved"
      BY <1>7, <1>11 DEF IsExecuting, StageNames
    <2>. QED  BY <1>2, <1>4, <1>11, <2>1, <2>2 DEF ExtractInv, ReportInv, At, IsExecuting
  <1>. QED  BY <1>11, <1>12, <1>13 DEF ExtractInv

\* A run given its next place.
LEMMA MovedRun ==
    ASSUME NEW run, IsRun(run), NEW pc, NEW at, NEW next,
           next = [pc |-> pc, job |-> run.job, at |-> at, result |-> run.result,
                   atomic |-> run.atomic, halted |-> run.halted, trackers |-> run.trackers]
    PROVE  /\ IsRun(next) /\ next.pc = pc /\ next.at = at /\ next.job = run.job
           /\ next.result = run.result /\ next.atomic = run.atomic /\ next.halted = run.halted
  <1>1. /\ next.pc = pc /\ next.at = at /\ next.job = run.job
        /\ next.result = run.result /\ next.atomic = run.atomic /\ next.halted = run.halted
        /\ next.trackers = run.trackers
    OBVIOUS
  <1>. QED  BY <1>1 DEF IsRun

LEMMA StartKeeps ==
    ASSUME ExtractInv, NEW r \in Runs, Start(r)
    PROVE  ExtractInv'
  <1>. DEFINE run == runs[r]
              next == [run EXCEPT !.pc = Stages[run.at]]
  <1>1. run.pc = "boundary" /\ run.at <= 7 /\ ~HasCheckpoint(r) /\ Passes(r, next, {})
    BY StageFacts DEF Start, AtStage, At
  <1>2. RunInv(run)
    BY <1>1 DEF ExtractInv, IdleRun
  <1>3. run.at \in 1..7
    BY <1>1, <1>2 DEF RunInv, Placed
  <1>4. Stages[run.at] \in StageNames
    BY <1>3, StageFacts
  <1>. DEFINE pc == Stages[run.at]
  <1>5. next = [pc |-> pc, job |-> run.job, at |-> run.at, result |-> run.result,
                atomic |-> run.atomic, halted |-> run.halted, trackers |-> run.trackers]
    <2>1. next = [run EXCEPT !.pc = pc]
      OBVIOUS
    <2>2. IsRun(run)
      BY <1>2 DEF RunInv
    <2>. HIDE DEF next, pc, run
    <2>. QED  BY <2>1, <2>2 DEF IsRun
  <1>. HIDE DEF pc, next
  <1>6. /\ IsRun(next) /\ next.pc = pc /\ next.at = run.at /\ next.job = run.job
        /\ next.result = run.result /\ next.atomic = run.atomic /\ next.halted = run.halted
    BY <1>2, <1>5, MovedRun DEF RunInv
  <1>7. RunInv(next)
    <2>1. Through(next) = Through(run)
      BY <1>1, <1>4, <1>6 DEF Through, StageNames, pc
    <2>2. Placed(next)
      BY <1>3, <1>4, <1>6 DEF Placed, pc
    <2>3. ~run.halted
      BY <1>1, <1>2 DEF RunInv
    <2>. QED  BY <1>2, <1>6, <2>1, <2>2, <2>3 DEF RunInv
  <1>8. next.pc \notin {"idle", "saved"}
    BY <1>4, <1>6 DEF StageNames, pc
  <1>9. ~queue.removed /\ Holds(r) => next.at \notin queue.reported
    BY <1>1, <1>6 DEF HasCheckpoint, Holds, ExtractInv, ReportInv
  <1>. QED  BY <1>1, <1>7, <1>8, <1>9, PassesKeeps

LEMMA RestoreKeeps ==
    ASSUME ExtractInv, NEW r \in Runs, Restore(r)
    PROVE  ExtractInv'
  <1>. DEFINE run == runs[r]
              at == run.at + 1
              next == [run EXCEPT !.result = Checkpoint(r), !.at = at]
  <1>1. run.pc = "boundary" /\ run.at <= 7 /\ HasCheckpoint(r)
    BY StageFacts DEF Restore, AtStage, At
  <1>2. CASE OtherMode(r)
    <2>1. Ends(r, Retried)
      BY <1>2 DEF Restore
    <2>. QED  BY <2>1, EndsKeeps DEF Retried
  <1>3. CASE ~OtherMode(r)
    <2>1. Passes(r, next, {})
      BY <1>3 DEF Restore
    <2>2. RunInv(run)
      BY <1>1 DEF ExtractInv, IdleRun
    <2>3. run.at \in 1..7
      BY <1>1, <2>2 DEF RunInv, Placed
    <2>4. KeptInv(Checkpoint(r), run.at)
      BY <1>1 DEF HasCheckpoint, Checkpoint, ExtractInv, FilesInv
    <2>5. PICK m \in BOOLEAN : MadeBy(Checkpoint(r), run.at, m)
      BY <2>4 DEF KeptInv
    <2>6. run.atomic \in BOOLEAN
      BY <2>2 DEF RunInv, IsRun
    <2>7. run.at >= 4 => m = run.atomic
      <3>1. SUFFICES ASSUME run.at >= 4 PROVE m = run.atomic
        OBVIOUS
      <3>2. Checkpoint(r).modes = {m}
        BY <2>5, <3>1 DEF MadeBy
      <3>3. Stages[run.at] \in ModeChecked
        BY <2>3, <3>1, StageFacts DEF ModeChecked
      <3>4. (TRUE \in Checkpoint(r).modes) = run.atomic
        BY <1>3, <3>3 DEF OtherMode
      <3>. QED  BY <2>6, <3>2, <3>4
    <2>8. MadeBy(Checkpoint(r), run.at, run.atomic)
      <3>1. CASE run.at >= 4
        BY <2>5, <2>7, <3>1
      <3>2. CASE ~(run.at >= 4)
        BY <2>3, <2>5, <3>2 DEF MadeBy
      <3>. QED  BY <3>1, <3>2
    <2>. DEFINE result == Checkpoint(r)
    <2>9. IsResult(result) /\ Sound(result)
      BY <2>4 DEF KeptInv
    <2>10. at \in 2..8 /\ at - 1 = run.at
      BY <2>3
    <2>. HIDE DEF at, result
    <2>11. next = [pc |-> run.pc, job |-> run.job, at |-> at, result |-> result,
                   atomic |-> run.atomic, halted |-> run.halted, trackers |-> run.trackers]
      <3>1. run = [pc |-> run.pc, job |-> run.job, at |-> run.at, result |-> run.result,
                   atomic |-> run.atomic, halted |-> run.halted, trackers |-> run.trackers]
        BY <2>2 DEF RunInv, IsRun
      <3>2. next = [run EXCEPT !.result = result, !.at = at]
        BY DEF result
      <3>. HIDE DEF next, run
      <3>. QED  BY <3>1, <3>2
    <2>. HIDE DEF next
    <2>12. /\ next.pc = run.pc /\ next.at = at /\ next.job = run.job /\ next.result = result
           /\ next.atomic = run.atomic /\ next.halted = run.halted
      BY <2>11
    <2>13. RunInv(next)
      <3>1. IsRun(next)
        BY <2>2, <2>9, <2>11, <2>12 DEF RunInv, IsRun
      <3>2. Placed(next)
        BY <1>1, <2>10, <2>12 DEF Placed
      <3>3. Through(next) = run.at
        BY <1>1, <2>10, <2>12 DEF Through
      <3>4. ~run.halted
        BY <1>1, <2>2 DEF RunInv
      <3>5. MadeBy(next.result, Through(next), next.atomic)
        BY <2>8, <2>12, <3>3 DEF result
      <3>. QED  BY <2>2, <2>9, <2>12, <3>1, <3>2, <3>4, <3>5 DEF RunInv
    <2>14. next.pc \notin {"idle", "saved"} /\ ~IsExecuting(next)
      BY <1>1, <2>12 DEF IsExecuting, StageNames
    <2>15. Passes(r, next, {})
      BY <2>1 DEF next, result, at
    <2>. QED  BY <2>13, <2>14, <2>15, PassesKeeps
  <1>. QED  BY <1>2, <1>3

LEMMA CrashKeeps ==
    ASSUME ExtractInv, NEW r \in Runs, Crash(r)
    PROVE  ExtractInv'
  <1>1. runs' = [runs EXCEPT ![r] = IdleRun] /\ UNCHANGED <<source, output, checkpoints, queue>>
    BY DEF Crash
  <1>2. IsQueue(queue') /\ queue.job <= queue'.job
    BY <1>1 DEF ExtractInv, FilesInv, IsQueue
  <1>3. /\ runs' = [q \in Runs |-> runs'[q]] /\ runs'[r] = IdleRun
        /\ \A q \in Runs \ {r} : runs'[q] = runs[q]
        /\ \A q \in Runs : runs'[q] = IdleRun \/ (runs'[q].pc # "idle" /\ RunInv(runs[q])')
    BY <1>1, <1>2, OneRunMoves
  <1>4. FilesInv'
    BY <1>1 DEF ExtractInv, FilesInv
  <1>5. ReportInv'
    BY <1>1, <1>3 DEF ExtractInv, ReportInv, At, Holds, IdleRun
  <1>. QED  BY <1>3, <1>4, <1>5 DEF ExtractInv

LEMMA EndingsKeep ==
    ASSUME ExtractInv, NEW r \in Runs,
           ReadTorn(r) \/ Halt(r) \/ TooMany(r) \/ Finish(r)
    PROVE  ExtractInv'
  <1>1. \E status \in {"queued", "failed", "paused", "completed"} : Ends(r, status)
    BY DEF ReadTorn, Halt, TooMany, Finish, Retried
  <1>. QED  BY <1>1, EndsKeeps

LEMMA DoneKeeps ==
    ASSUME ExtractInv, NEW r \in Runs, Done(r)
    PROVE  ExtractInv'
  <1>. DEFINE run == runs[r]
              at == run.at + 1
              next == NextStage(run)
  <1>1. run.pc = "saved" /\ Passes(r, next, {run.at})
    BY DEF Done, At
  <1>2. RunInv(run)
    BY <1>1 DEF ExtractInv, IdleRun
  <1>3. run.at \in 1..7 /\ at \in 2..8 /\ at - 1 = run.at
    BY <1>1, <1>2 DEF RunInv, Placed, StageNames
  <1>. DEFINE pc == "boundary"
  <1>4. next = [pc |-> pc, job |-> run.job, at |-> at, result |-> run.result,
                atomic |-> run.atomic, halted |-> run.halted, trackers |-> run.trackers]
    <2>1. next = [run EXCEPT !.pc = pc, !.at = at]
      BY DEF NextStage
    <2>2. IsRun(run)
      BY <1>2 DEF RunInv
    <2>. HIDE DEF next, run, at, pc
    <2>. QED  BY <2>1, <2>2 DEF IsRun
  <1>. HIDE DEF at, next
  <1>5. /\ IsRun(next) /\ next.pc = pc /\ next.at = at /\ next.job = run.job
        /\ next.result = run.result /\ next.atomic = run.atomic /\ next.halted = run.halted
    BY <1>2, <1>4, MovedRun DEF RunInv
  <1>6. RunInv(next)
    <2>1. Through(next) = run.at /\ Through(run) = run.at
      BY <1>1, <1>3, <1>5 DEF Through
    <2>2. Placed(next)
      BY <1>3, <1>5 DEF Placed
    <2>3. ~run.halted
      BY <1>1, <1>2 DEF RunInv
    <2>. QED  BY <1>2, <1>5, <2>1, <2>2, <2>3 DEF RunInv
  <1>7. next.pc \notin {"idle", "saved"} /\ ~IsExecuting(next)
    BY <1>5 DEF IsExecuting, StageNames
  <1>8. ~queue.removed /\ Holds(r) => {run.at} \subseteq DOMAIN checkpoints
    BY <1>1 DEF Holds, ExtractInv, ReportInv, At
  <1>. QED  BY <1>1, <1>3, <1>6, <1>7, <1>8, PassesKeeps

LEMMA SaveKeeps ==
    ASSUME ExtractInv, NEW r \in Runs, Save(r)
    PROVE  ExtractInv'
  <1>. DEFINE run == runs[r]
              next == [run EXCEPT !.pc = "saved"]
  <1>1. /\ run.pc = "ran" /\ StageVerdict(run) = "saved"
        /\ checkpoints' = IF run.job = queue.job
                          THEN [i \in DOMAIN checkpoints \union {run.at} |->
                                   IF i = run.at THEN run.result ELSE checkpoints[i]]
                          ELSE checkpoints
        /\ UNCHANGED <<source, output, queue>>
    BY DEF Save, At
  <1>2. RunInv(run)
    BY <1>1 DEF ExtractInv, IdleRun
  <1>3. run.at \in 1..7
    BY <1>1, <1>2 DEF RunInv, Placed, StageNames
  <1>4. ~run.halted
    BY <1>1, <1>2 DEF StageVerdict, RunInv, IsRun
  <1>5. runs' = [runs EXCEPT ![r] = next]
    <2>1. runs' = [runs EXCEPT ![r].pc = "saved"]
      BY DEF Save
    <2>. QED  BY <2>1 DEF ExtractInv
  <1>. DEFINE pc == "saved"
  <1>6. next = [pc |-> pc, job |-> run.job, at |-> run.at, result |-> run.result,
                atomic |-> run.atomic, halted |-> run.halted, trackers |-> run.trackers]
    <2>1. next = [run EXCEPT !.pc = pc]
      OBVIOUS
    <2>2. IsRun(run)
      BY <1>2 DEF RunInv
    <2>. HIDE DEF next, run, pc
    <2>. QED  BY <2>1, <2>2 DEF IsRun
  <1>. HIDE DEF next
  <1>7. /\ IsRun(next) /\ next.pc = pc /\ next.at = run.at /\ next.job = run.job
        /\ next.result = run.result /\ next.atomic = run.atomic /\ next.halted = run.halted
    BY <1>2, <1>6, MovedRun DEF RunInv
  <1>8. RunInv(next) /\ next.pc # "idle"
    <2>1. Through(next) = run.at /\ Through(run) = run.at
      BY <1>1, <1>7 DEF Through
    <2>2. Placed(next)
      BY <1>3, <1>7 DEF Placed
    <2>. QED  BY <1>2, <1>4, <1>7, <2>1, <2>2 DEF RunInv
  <1>9. IsQueue(queue') /\ queue.job <= queue'.job
    BY <1>1 DEF ExtractInv, FilesInv, IsQueue
  <1>10. /\ runs' = [q \in Runs |-> runs'[q]] /\ runs'[r] = next
         /\ \A q \in Runs \ {r} : runs'[q] = runs[q]
         /\ \A q \in Runs : runs'[q] = IdleRun \/ (runs'[q].pc # "idle" /\ RunInv(runs[q])')
    BY <1>5, <1>8, <1>9, OneRunMoves
  <1>11. KeptInv(run.result, run.at)
    <2>1. Through(run) = run.at
      BY <1>1 DEF Through
    <2>. QED  BY <1>2, <1>4, <2>1 DEF KeptInv, RunInv, IsRun
  <1>12. /\ DOMAIN checkpoints' \subseteq 1..7 /\ DOMAIN checkpoints \subseteq DOMAIN checkpoints'
         /\ checkpoints' = [i \in DOMAIN checkpoints' |-> checkpoints'[i]]
         /\ \A i \in DOMAIN checkpoints' : KeptInv(checkpoints'[i], i)
         /\ run.job = queue.job => run.at \in DOMAIN checkpoints'
    <2>1. CASE run.job = queue.job
      <3>1. checkpoints' = [i \in DOMAIN checkpoints \union {run.at} |->
                               IF i = run.at THEN run.result ELSE checkpoints[i]]
        BY <1>1, <2>1
      <3>. HIDE DEF run
      <3>. QED  BY <1>3, <1>11, <3>1 DEF ExtractInv, FilesInv
    <2>2. CASE run.job # queue.job
      <3>1. checkpoints' = checkpoints
        BY <1>1, <2>2
      <3>. QED  BY <2>2, <3>1 DEF ExtractInv, FilesInv
    <2>. QED  BY <2>1, <2>2
  <1>13. FilesInv'
    BY <1>1, <1>12 DEF ExtractInv, FilesInv, KeptInv
  <1>14. ReportInv'
    <2>1. ~IsExecuting(runs'[r])
      BY <1>7, <1>10 DEF IsExecuting, StageNames
    <2>2. SUFFICES ASSUME ~queue.removed PROVE
              /\ queue.reported \subseteq DOMAIN checkpoints'
              /\ \A q \in Runs : runs'[q].pc = "saved" /\ runs'[q].job = queue.job =>
                    runs'[q].at \in DOMAIN checkpoints'
              /\ \A q \in Runs : runs'[q].pc # "idle" /\ IsExecuting(runs'[q]) /\ Holds(q)' =>
                    runs'[q].at \notin queue.reported
      BY <1>1 DEF ReportInv, At, IsExecuting
    <2>3. queue.reported \subseteq DOMAIN checkpoints'
      BY <1>12, <2>2 DEF ExtractInv, ReportInv
    <2>4. ASSUME NEW q \in Runs, runs'[q].pc = "saved", runs'[q].job = queue.job
          PROVE  runs'[q].at \in DOMAIN checkpoints'
      <3>1. CASE q = r
        BY <1>7, <1>10, <1>12, <2>4, <3>1
      <3>2. CASE q # r
        BY <1>10, <1>12, <2>2, <2>4, <3>2 DEF ExtractInv, ReportInv, At
      <3>. QED  BY <3>1, <3>2
    <2>5. ASSUME NEW q \in Runs, runs'[q].pc # "idle", IsExecuting(runs'[q]), Holds(q)'
          PROVE  runs'[q].at \notin queue.reported
      BY <1>1, <1>10, <2>1, <2>2, <2>5 DEF ExtractInv, ReportInv, Holds
    <2>. QED  BY <2>3, <2>4, <2>5
  <1>. QED  BY <1>10, <1>13, <1>14 DEF ExtractInv

-----------------------------------------------------------------------------
(* The end of an attempt.                                                       *)

\* An attempt past its stages moves on; the report it made stays true.
LEMMA EndMoves ==
    ASSUME ExtractInv, NEW r \in Runs, NEW next, runs' = [runs EXCEPT ![r] = next],
           RunInv(next), next.pc # "idle", next.pc # "saved", ~IsExecuting(next),
           \/ UNCHANGED <<checkpoints, queue>>
           \/ IsQueue(queue') /\ queue'.removed /\ queue'.job = queue.job
    PROVE  /\ ReportInv' /\ runs' = [q \in Runs |-> runs'[q]]
           /\ \A q \in Runs : runs'[q] = IdleRun \/ (runs'[q].pc # "idle" /\ RunInv(runs[q])')
  <1>1. IsQueue(queue') /\ queue.job <= queue'.job
    BY DEF ExtractInv, FilesInv, IsQueue
  <1>2. /\ runs' = [q \in Runs |-> runs'[q]] /\ runs'[r] = next
        /\ \A q \in Runs \ {r} : runs'[q] = runs[q]
        /\ \A q \in Runs : runs'[q] = IdleRun \/ (runs'[q].pc # "idle" /\ RunInv(runs[q])')
    BY <1>1, OneRunMoves
  <1>3. CASE UNCHANGED <<checkpoints, queue>>
    BY <1>2, <1>3 DEF ExtractInv, ReportInv, At, Holds, IsExecuting
  <1>4. CASE queue'.removed
    BY <1>2, <1>4 DEF ReportInv
  <1>. QED  BY <1>3, <1>4

LEMMA TruncateKeeps ==
    ASSUME ExtractInv, NEW r \in Runs, Truncate(r)
    PROVE  ExtractInv'
  <1>. DEFINE run == runs[r]
              next == [run EXCEPT !.pc = "writing"]
              file == OutputFiles[run.at - 7]
              pc == "writing"
  <1>1. /\ run.pc = "boundary" /\ run.at > 7 /\ output' = [output EXCEPT ![file] = Torn]
        /\ UNCHANGED <<source, checkpoints, queue>>
    BY StageFacts DEF Truncate, At
  <1>2. RunInv(run)
    BY <1>1 DEF ExtractInv, IdleRun
  <1>3. run.at \in 8..10
    BY <1>1, <1>2 DEF RunInv, Placed, StageNames
  <1>4. runs' = [runs EXCEPT ![r] = next]
    <2>1. runs' = [runs EXCEPT ![r].pc = "writing"]
      BY DEF Truncate
    <2>. QED  BY <2>1 DEF ExtractInv
  <1>5. next = [pc |-> pc, job |-> run.job, at |-> run.at, result |-> run.result,
                atomic |-> run.atomic, halted |-> run.halted, trackers |-> run.trackers]
    <2>1. next = [run EXCEPT !.pc = pc]
      OBVIOUS
    <2>2. IsRun(run)
      BY <1>2 DEF RunInv
    <2>. HIDE DEF next, run, pc
    <2>. QED  BY <2>1, <2>2 DEF IsRun
  <1>. HIDE DEF next, file
  <1>6. /\ IsRun(next) /\ next.pc = pc /\ next.at = run.at /\ next.job = run.job
        /\ next.result = run.result /\ next.atomic = run.atomic /\ next.halted = run.halted
    BY <1>2, <1>5, MovedRun DEF RunInv
  <1>7. RunInv(next)
    <2>1. Through(next) = Through(run)
      BY <1>1, <1>6 DEF Through
    <2>2. Placed(next)
      BY <1>3, <1>6 DEF Placed
    <2>3. ~run.halted
      BY <1>1, <1>2 DEF RunInv
    <2>. QED  BY <1>2, <1>6, <2>1, <2>2, <2>3 DEF RunInv
  <1>8. next.pc \notin {"idle", "saved"} /\ ~IsExecuting(next)
    BY <1>6 DEF IsExecuting, StageNames
  <1>9. FilesInv'
    BY <1>1 DEF ExtractInv, FilesInv, KeptInv
  <1>. QED  BY <1>1, <1>4, <1>7, <1>8, <1>9, EndMoves DEF ExtractInv

LEMMA FillKeeps ==
    ASSUME ExtractInv, NEW r \in Runs, Fill(r)
    PROVE  ExtractInv'
  <1>. DEFINE run == runs[r]
              at == run.at + 1
              pc == IF run.at - 7 < 3 THEN "boundary" ELSE "written"
              next == [run EXCEPT !.at = at, !.pc = pc]
              file == OutputFiles[run.at - 7]
              written == [job |-> run.job, result |-> run.result]
  <1>1. /\ run.pc = "writing" /\ output' = [output EXCEPT ![file] = written]
        /\ UNCHANGED <<source, checkpoints, queue>>
    BY StageFacts DEF Fill, At
  <1>2. RunInv(run)
    BY <1>1 DEF ExtractInv, IdleRun
  <1>3. run.at \in 8..10
    BY <1>1, <1>2 DEF RunInv, Placed, StageNames
  <1>4. runs' = [runs EXCEPT ![r] = next]
    <2>1. runs' = [runs EXCEPT ![r].at = run.at + 1, ![r].pc = pc]
      BY StageFacts DEF Fill
    <2>. QED  BY <2>1 DEF ExtractInv
  <1>5. /\ at \in 9..11 /\ at - 1 = run.at /\ pc \in {"boundary", "written"}
        /\ pc = "boundary" => at <= 10
        /\ pc = "written" => at = 11
    BY <1>3
  <1>6. next = [pc |-> pc, job |-> run.job, at |-> at, result |-> run.result,
                atomic |-> run.atomic, halted |-> run.halted, trackers |-> run.trackers]
    <2>1. next = [run EXCEPT !.at = at, !.pc = pc]
      OBVIOUS
    <2>2. IsRun(run)
      BY <1>2 DEF RunInv
    <2>. HIDE DEF next, run, pc, at
    <2>. QED  BY <2>1, <2>2 DEF IsRun
  <1>. HIDE DEF next, pc, at
  <1>7. /\ IsRun(next) /\ next.pc = pc /\ next.at = at /\ next.job = run.job
        /\ next.result = run.result /\ next.atomic = run.atomic /\ next.halted = run.halted
    BY <1>2, <1>6, MovedRun DEF RunInv
  <1>8. ~run.halted
    BY <1>1, <1>2 DEF RunInv
  <1>9. MadeBy(run.result, run.at - 1, run.atomic)
    BY <1>1, <1>2 DEF RunInv, Through
  <1>10. MadeBy(run.result, 7, run.atomic)
    BY <1>3, <1>9 DEF MadeBy
  <1>11. RunInv(next)
    <2>1. Through(next) = run.at
      BY <1>5, <1>7 DEF Through
    <2>2. Placed(next)
      BY <1>5, <1>7 DEF Placed
    <2>3. MadeBy(run.result, run.at, run.atomic)
      BY <1>3, <1>9 DEF MadeBy
    <2>. QED  BY <1>2, <1>7, <1>8, <2>1, <2>2, <2>3 DEF RunInv
  <1>12. next.pc \notin {"idle", "saved"} /\ ~IsExecuting(next)
    BY <1>5, <1>7 DEF IsExecuting, StageNames
  <1>13. KeptInv(written.result, 7)
    BY <1>2, <1>8, <1>10 DEF KeptInv, RunInv, IsRun
  <1>. HIDE DEF written, file
  <1>14. FilesInv'
    BY <1>1, <1>13 DEF ExtractInv, FilesInv, KeptInv
  <1>. QED  BY <1>1, <1>4, <1>11, <1>12, <1>14, EndMoves DEF ExtractInv

LEMMA CleanKeeps ==
    ASSUME ExtractInv, NEW r \in Runs, Clean(r)
    PROVE  ExtractInv'
  <1>. DEFINE run == runs[r]
              next == [run EXCEPT !.pc = "cleaned"]
              pc == "cleaned"
  <1>1. /\ run.pc = "written" /\ UNCHANGED <<source, output>>
        /\ \/ UNCHANGED <<checkpoints, queue>>
           \/ checkpoints' = NoCheckpoints /\ queue' = [queue EXCEPT !.removed = TRUE]
    BY DEF Clean, At
  <1>2. RunInv(run)
    BY <1>1 DEF ExtractInv, IdleRun
  <1>3. run.at = 11
    BY <1>1, <1>2 DEF RunInv, Placed, StageNames
  <1>4. runs' = [runs EXCEPT ![r] = next]
    <2>1. runs' = [runs EXCEPT ![r].pc = "cleaned"]
      BY DEF Clean
    <2>. QED  BY <2>1 DEF ExtractInv
  <1>5. next = [pc |-> pc, job |-> run.job, at |-> run.at, result |-> run.result,
                atomic |-> run.atomic, halted |-> run.halted, trackers |-> run.trackers]
    <2>1. next = [run EXCEPT !.pc = pc]
      OBVIOUS
    <2>2. IsRun(run)
      BY <1>2 DEF RunInv
    <2>. HIDE DEF next, run, pc
    <2>. QED  BY <2>1, <2>2 DEF IsRun
  <1>. HIDE DEF next
  <1>6. /\ IsRun(next) /\ next.pc = pc /\ next.at = run.at /\ next.job = run.job
        /\ next.result = run.result /\ next.atomic = run.atomic /\ next.halted = run.halted
    BY <1>2, <1>5, MovedRun DEF RunInv
  <1>7. RunInv(next)
    <2>1. Through(next) = Through(run)
      BY <1>1, <1>6 DEF Through
    <2>2. Placed(next)
      BY <1>3, <1>6 DEF Placed
    <2>3. ~run.halted
      BY <1>1, <1>2 DEF RunInv
    <2>. QED  BY <1>2, <1>6, <2>1, <2>2, <2>3 DEF RunInv
  <1>8. next.pc \notin {"idle", "saved"} /\ ~IsExecuting(next)
    BY <1>6 DEF IsExecuting, StageNames
  <1>9. IsQueue(queue)
    BY DEF ExtractInv, FilesInv
  <1>10. UNCHANGED <<checkpoints, queue>> \/
         (IsQueue(queue') /\ queue'.removed /\ queue'.job = queue.job
            /\ checkpoints' = NoCheckpoints)
    BY <1>1, <1>9 DEF IsQueue
  <1>11. FilesInv'
    <2>1. CASE UNCHANGED <<checkpoints, queue>>
      BY <1>1, <2>1 DEF ExtractInv, FilesInv, KeptInv
    <2>2. CASE IsQueue(queue') /\ checkpoints' = NoCheckpoints
      <3>1. DOMAIN checkpoints' = {} /\ checkpoints' = [i \in DOMAIN checkpoints' |-> checkpoints'[i]]
        BY <2>2 DEF NoCheckpoints
      <3>. QED  BY <1>1, <2>2, <3>1 DEF ExtractInv, FilesInv, KeptInv
    <2>. QED  BY <1>10, <2>1, <2>2
  <1>. QED  BY <1>4, <1>7, <1>8, <1>10, <1>11, EndMoves DEF ExtractInv

-----------------------------------------------------------------------------
(* The theorems.                                                                *)

LEMMA InitHolds ==
    ASSUME InitExtraction
    PROVE  ExtractInv
  <1>1. /\ source = NoTexts /\ checkpoints = NoCheckpoints
        /\ output = [o \in {"extraction", "review", "corpus"} |-> None]
        /\ queue = [job |-> 0, status |-> "none", attempts |-> 0, holder |-> None,
                    reported |-> {}, removed |-> FALSE]
        /\ runs = [r \in Runs |-> IdleRun]
    BY DEF InitExtraction, InitWith
  <1>2. source \in Held
    BY <1>1 DEF NoTexts, Held
  <1>3. IsQueue(queue) /\ queue.reported = {} /\ queue.status = "none"
    BY <1>1 DEF IsQueue
  <1>4. DOMAIN checkpoints = {} /\ checkpoints = [i \in DOMAIN checkpoints |-> checkpoints[i]]
    BY <1>1 DEF NoCheckpoints
  <1>5. FilesInv
    BY <1>1, <1>2, <1>3, <1>4 DEF FilesInv
  <1>6. ReportInv
    BY <1>1, <1>3, <1>4 DEF ReportInv, At, IdleRun
  <1>. QED  BY <1>1, <1>5, <1>6 DEF ExtractInv

LEMMA StepHolds ==
    ASSUME ExtractInv, [NextExtraction]_extractionVars
    PROVE  ExtractInv'
  <1>1. CASE UNCHANGED extractionVars
    BY <1>1, NothingMoves DEF extractionVars, ExtractInv, FilesInv
  <1>2. ASSUME NEW f \in Files, NEW text \in Contents, Upload(f, text) PROVE ExtractInv'
    BY <1>2, UploadKeeps
  <1>3. ASSUME NEW r \in Runs, Stage(r) PROVE ExtractInv'
    BY <1>3, ReadKeeps, EndingsKeep, HashKeeps, StructureKeeps, SplitKeeps, DistillKeeps,
       ClassifyKeeps, TagStageKeeps, DeduplicateKeeps DEF Stage
  <1>4. ASSUME NEW r \in Runs, Attempt(r) PROVE ExtractInv'
    BY <1>3, <1>4, BeginKeeps, RestoreKeeps, StartKeeps, EndingsKeep, SaveKeeps, DoneKeeps,
       TruncateKeeps, FillKeeps, CleanKeeps DEF Attempt
  <1>5. CASE Working
    BY <1>4, <1>5, SubmitKeeps, ResumeKeeps DEF Working
  <1>6. CASE Failing
    BY <1>6, ExpireKeeps, CrashKeeps DEF Failing
  <1>. QED  BY <1>1, <1>2, <1>5, <1>6 DEF NextExtraction

\* Through every crash, lost lease, halt, change of mode and second attempt, a checkpoint and an
\* output file hold only what stages of one mode made, and what a job reported is in its
\* checkpoints until they are removed (PipelineOrchestrator.run).
THEOREM ExtractionInductive == ExtractionSpec => []ExtractInv
  <1>1. InitExtraction => ExtractInv
    BY InitHolds
  <1>2. ExtractInv /\ [NextExtraction]_extractionVars => ExtractInv'
    BY StepHolds
  <1>. QED  BY <1>1, <1>2, PTL DEF ExtractionSpec

\* What is kept, in the checkpoints or in the output files, and the place it was kept at.
LEMMA WhatIsKept ==
    ASSUME ExtractInv, NEW result \in Saved \union Written
    PROVE  \E i \in Nat : KeptInv(result, i)
  <1>1. CASE result \in Saved
    <2>1. PICK i \in DOMAIN checkpoints : result = checkpoints[i]
      BY <1>1 DEF Saved
    <2>2. KeptInv(result, i) /\ i \in 1..7
      BY <2>1 DEF ExtractInv, FilesInv
    <2>. QED  BY <2>2
  <1>2. CASE result \in Written
    <2>1. PICK o \in DOMAIN output : output[o] \notin {None, Torn} /\ result = output[o].result
      BY <1>2 DEF Written
    <2>2. KeptInv(result, 7)
      BY <2>1 DEF ExtractInv, FilesInv
    <2>. QED  BY <2>2
  <1>. QED  BY <1>1, <1>2

\* No unit whose call was refused is checkpointed or written (raise_if_halted before the save).
THEOREM SoundWhenSaved == ExtractionSpec => []SavedIsSound
  <1>1. ExtractInv => SavedIsSound
    BY WhatIsKept DEF SavedIsSound, KeptInv, Sound
  <1>. QED  BY <1>1, ExtractionInductive, PTL

\* A stage that was reported complete is not run again while its checkpoint lasts
\* (PipelineCheckpoint.save before notify_stage).
THEOREM PaidForOnce == ExtractionSpec => []NothingRedone
  <1>1. ExtractInv => NothingRedone
    <2>1. SUFFICES ASSUME ExtractInv, NEW r \in Runs, NEW i \in DOMAIN Stages, At(r, Stages[i]),
                          Holds(r), ~queue.removed
                   PROVE  runs[r].at \notin queue.reported
      BY DEF NothingRedone
    <2>2. IsExecuting(runs[r]) /\ runs[r].pc # "idle"
      BY <2>1, StageFacts DEF At, IsExecuting, StageNames
    <2>. QED  BY <2>1, <2>2 DEF ExtractInv, ReportInv
  <1>. QED  BY <1>1, ExtractionInductive, PTL

\* Whatever failed on the way, a tag that is kept was earned by the text of its unit in the mode
\* it was made in, and says whether the judge ruled on it (FolioTaggerStage._tag_unit).
THEOREM KeptTagsAreEarned == ExtractionSpec => []TagsEarned
  <1>1. ExtractInv => TagsEarned
    <2>1. SUFFICES ASSUME ExtractInv, NEW result \in Saved \union Written,
                          NEW f \in Units(result), NEW tag \in result.units[f].tags
                   PROVE  /\ Earned(tag, result.units[f].text, TRUE \in result.modes)
                          /\ SaysIfJudged(tag)
      BY DEF TagsEarned
    <2>2. PICK i \in Nat, m \in BOOLEAN : MadeBy(result, i, m)
      BY <2>1, WhatIsKept DEF KeptInv
    <2>3. i >= 6 /\ Earned(tag, result.units[f].text, m) /\ SaysIfJudged(tag)
      BY <2>1, <2>2 DEF MadeBy
    <2>4. result.modes = {m}
      BY <2>2, <2>3 DEF MadeBy
    <2>5. CASE m = TRUE
      <3>1. (TRUE \in result.modes) = TRUE
        BY <2>4, <2>5
      <3>. QED  BY <2>3, <2>5, <3>1
    <2>6. CASE m = FALSE
      <3>1. TRUE \notin {FALSE}
        BY Zenon
      <3>2. result.modes = {FALSE}
        BY <2>4, <2>6
      <3>3. ~(TRUE \in result.modes)
        BY <3>1, <3>2, Zenon
      <3>4. Earned(tag, result.units[f].text, FALSE)
        BY <2>3, <2>6
      <3>5. Earned(tag, result.units[f].text, TRUE \in result.modes)
        BY <3>3, <3>4 DEF Earned
      <3>. QED  BY <2>3, <3>5
    <2>. QED  BY <2>5, <2>6
  <1>. QED  BY <1>1, ExtractionInductive, PTL

\* One result's units were made in one mode, although each attempt reads the setting anew
\* (the orchestrator's check of the checkpoints it restores).
THEOREM NeverMixed == ExtractionSpec => []OneMode
  <1>1. ExtractInv => OneMode
    <2>1. SUFFICES ASSUME ExtractInv, NEW result \in Saved \union Written
                   PROVE  Cardinality(result.modes) <= 1
      BY DEF OneMode
    <2>2. PICK i \in Nat, m \in BOOLEAN : MadeBy(result, i, m)
      BY <2>1, WhatIsKept DEF KeptInv
    <2>3. result.modes = {m} \/ result.modes = {}
      BY <2>2 DEF MadeBy
    <2>4. Cardinality({m}) = 1 /\ Cardinality({}) = 0
      BY FS_Singleton, FS_EmptySet
    <2>. QED  BY <2>3, <2>4
  <1>. QED  BY <1>1, ExtractionInductive, PTL

-----------------------------------------------------------------------------
(* What is proved of the spend meter, for every number of runs and calls. *)
-----------------------------------------------------------------------------
(* The inductive invariant of the meter, call by call. *)

(* the call is on its way: its meter has not settled it *)
Unsettled == {"begun", "next", "reserving", "sent", "settle", "halting"}
Settling  == {"booking", "booking, halt"}

ThreadHeld(c) == IF thread[c].pc \in {"unwritten", "reserved", "failed"} THEN thread[c].bound ELSE 0

(* which states go together *)
PlaceInv(c) ==
    /\ call[c].run # NoRun => Up(call[c].run)
    /\ CallAt(c, "free") => /\ call[c] = Free /\ row[c] = NoRow
                            /\ reserved[c] = 0 /\ billed[c] = 0
    /\ CallAt(c, "begun") => billed[c] = 0
    /\ CallAt(c, "overtaken") => call[c].run = NoRun
    /\ call[c].pc \in Unsettled \cup Settling => call[c].run # NoRun
    /\ call[c].run = NoRun => thread[c] = Quiet /\ reserved[c] = 0
    /\ call[c].pc \in {"begun", "next", "sent", "halting"} => thread[c] = Quiet
    /\ CallAt(c, "reserving") => thread[c].pc # "none" /\ call[c].sent < MaxRequests
    /\ thread[c].pc = "none" => thread[c] = Quiet
    /\ thread[c].pc # "none" => thread[c].bound > 0

(* what was reserved is enough, and what may be billed is accounted *)
MeterInv(c) ==
    /\ ~CallAt(c, "sent") => call[c].bound = 0 /\ call[c].charge = 0
    /\ call[c].charge <= call[c].bound
    /\ call[c].pc \in Unsettled => Cost(c) + call[c].bound + ThreadHeld(c) <= reserved[c]
    /\ call[c].pc \in Unsettled \cup Settling => billed[c] <= Cost(c) + call[c].charge
    /\ CallAt(c, "reserving") /\ thread[c].pc = "unwritten" => thread[c].amount = reserved[c]

(* what the ledger's row shows *)
RowInv(c) ==
    /\ row[c].status = "none" => row[c] = NoRow /\ billed[c] = 0 /\ Cost(c) = 0
    /\ row[c].status = "in_flight" /\ ~Understated(c) =>
          /\ billed[c] <= row[c].cost
          /\ call[c].pc \in Unsettled => Cost(c) + call[c].bound <= row[c].cost
          /\ thread[c].pc = "reserved" => Cost(c) + thread[c].bound <= row[c].cost
    /\ thread[c].pc = "reserved" \/ CallAt(c, "sent") => row[c].status # "none"
    /\ row[c].status = "settled" =>
          /\ billed[c] <= row[c].cost
          /\ call[c].pc \in {"done", "overtaken"}

CallInv(c) == PlaceInv(c) /\ MeterInv(c) /\ RowInv(c)

MeteredInv == SpendTypeOK /\ \A c \in PortCalls : CallInv(c)

MeterRecords == [state : {"new", "up", "gone"}, cap : Nat, spent : Nat, halted : BOOLEAN]
CallPlaces == {"free", "begun", "next", "reserving", "sent", "settle", "halting", "booking",
               "booking, halt", "done", "overtaken"}
Tries == 0..MaxRequests
CallRecords ==
    [pc : CallPlaces, run : MeteredRuns \cup {NoRun}, sent : Tries,
     bound : Nat, charge : Nat, usage : Nat, unaccounted : Nat]
ThreadRecords ==
    [pc : {"none", "asked", "refused", "unwritten", "reserved", "failed"},
     bound : Nat, amount : Nat]
RowRecords == [status : {"none", "in_flight", "settled"}, cost : Nat]

-----------------------------------------------------------------------------
(* The inductive invariant of the cap: what the runs' meters know adds up. *)

Total(f) == SumFunctionOnSet(f, PortCalls)

(* what a run's meter has reserved, and what is billed for the calls it     *)
(* counts as spent                                                          *)
HeldOf(r) == [c \in PortCalls |-> IF call[c].run = r THEN reserved[c] ELSE 0]
OwedOf(r) ==
    [c \in PortCalls |-> IF call[c].run = r /\ call[c].pc \in Unsettled THEN 0 ELSE billed[c]]

SpentInv(r) ==
    /\ Total(OwedOf(r)) <= meter[r].spent
    /\ \/ meter[r].spent + Total(HeldOf(r)) <= meter[r].cap
       \/ \A c \in PortCalls : HeldOf(r)[c] = 0

Lost == \E c \in PortCalls : CallAt(c, "overtaken") /\ row[c].status = "in_flight"

OneUp == \A r, o \in MeteredRuns : Up(r) /\ Up(o) => r = o

CapInv ==
    /\ OneUp
    /\ Lost \/ (InBudget /\ \A r \in MeteredRuns : Up(r) => SpentInv(r))

-----------------------------------------------------------------------------
(* The meter, call by call. *)

LEMMA SpendTypes ==
    SpendTypeOK <=> /\ meter \in [MeteredRuns -> MeterRecords]
                    /\ reserved \in [PortCalls -> Nat]
                    /\ call \in [PortCalls -> CallRecords]
                    /\ thread \in [PortCalls -> ThreadRecords]
                    /\ row \in [PortCalls -> RowRecords]
                    /\ booked \in [PortCalls -> Nat]
                    /\ billed \in [PortCalls -> Nat]
  BY DEF SpendTypeOK, MeterRecords, CallRecords, CallPlaces, Tries, ThreadRecords, RowRecords

LEMMA Fields ==
    ASSUME SpendTypeOK, NEW c \in PortCalls
    PROVE  /\ call[c].run \in MeteredRuns \cup {NoRun} /\ call[c].sent \in Nat
           /\ call[c].bound \in Nat /\ call[c].charge \in Nat
           /\ call[c].usage \in Nat /\ call[c].unaccounted \in Nat
           /\ thread[c].bound \in Nat /\ thread[c].amount \in Nat
           /\ row[c].cost \in Nat /\ booked[c] \in Nat
           /\ reserved[c] \in Nat /\ billed[c] \in Nat
  <1>1. call[c] \in CallRecords /\ thread[c] \in ThreadRecords /\ row[c] \in RowRecords
    BY SpendTypes
  <1>2. call[c].sent \in 0..MaxRequests
    BY <1>1 DEF CallRecords, Tries
  <1>. QED  BY <1>1, <1>2, SpendTypes DEF CallRecords, ThreadRecords, RowRecords

LEMMA CostNat ==
    ASSUME SpendTypeOK, NEW c \in PortCalls
    PROVE  Cost(c) \in Nat /\ Charged(c) \in Nat
  BY Fields DEF Cost, Charged

LEMMA RunTotalNat ==
    ASSUME SpendTypeOK
    PROVE  RunTotal \in Nat
  <1>. DEFINE f == [c \in PortCalls |-> Charged(c)]
  <1>1. \A c \in PortCalls : f[c] \in Nat
    BY CostNat
  <1>2. DOMAIN f = PortCalls
    OBVIOUS
  <1>3. RunTotal = SumFunctionOnSet(f, PortCalls)
    BY DEF RunTotal, SumFunction
  <1>. HIDE DEF f
  <1>. QED  BY <1>1, <1>3, SpendAssumption, SumNat

LEMMA SpendStarts == InitSpend => MeteredInv
  <1>. SUFFICES ASSUME InitSpend PROVE MeteredInv
    OBVIOUS
  <1>1. SpendTypeOK
    BY SpendAssumption DEF InitSpend, SpendTypeOK, Free, Quiet, NoRow
  <1>2. ASSUME NEW c \in PortCalls PROVE CallInv(c)
    <2>1. /\ call[c] = Free /\ thread[c] = Quiet /\ row[c] = NoRow
          /\ reserved[c] = 0 /\ billed[c] = 0
      BY DEF InitSpend
    <2>. QED  BY <2>1 DEF CallInv, PlaceInv, MeterInv, RowInv, CallAt, Free, Quiet, NoRow,
                  Unsettled, Settling, Understated, Overtaken, Cost, ThreadHeld
  <1>. QED  BY <1>1, <1>2 DEF MeteredInv

(* A call that a step leaves alone, as it leaves the runs that are up. *)
LEMMA CallStays ==
    ASSUME NEW c \in PortCalls, CallInv(c),
           call'[c] = call[c], thread'[c] = thread[c], row'[c] = row[c],
           reserved'[c] = reserved[c], billed'[c] = billed[c],
           call[c].run # NoRun => (Up(call[c].run) => Up(call[c].run)')
    PROVE  CallInv(c)'
  <1>1. PlaceInv(c)'
    BY DEF CallInv, PlaceInv, CallAt
  <1>2. MeterInv(c)'
    BY DEF CallInv, MeterInv, CallAt, Cost, ThreadHeld
  <1>3. RowInv(c)'
    BY DEF CallInv, RowInv, CallAt, Cost, Understated, Overtaken
  <1>. QED  BY <1>1, <1>2, <1>3 DEF CallInv

LEMMA SpendTypesStep ==
    ASSUME MeteredInv, [NextSpend]_spendVars
    PROVE  SpendTypeOK'
  <1>. SpendTypeOK
    BY DEF MeteredInv
  <1>. 0 \in Tries
    BY SpendAssumption DEF Tries
  <1>0. CASE UNCHANGED spendVars
    BY <1>0 DEF spendVars, SpendTypeOK
  <1>1. ASSUME NEW r \in MeteredRuns, NEW cap \in Caps, StartRun(r, cap) PROVE SpendTypeOK'
    <2>1. SeededSpend \in Nat
      BY RunTotalNat DEF SeededSpend
    <2>2. cap \in Nat
      BY SpendAssumption
    <2>. QED  BY <1>1, <2>1, <2>2, SpendTypes DEF StartRun, SpendTypeOK
  <1>2. ASSUME NEW r \in MeteredRuns, StopRun(r) PROVE SpendTypeOK'
    <2>1. /\ meter' \in [MeteredRuns -> MeterRecords] /\ reserved' \in [PortCalls -> Nat]
          /\ thread' \in [PortCalls -> ThreadRecords]
      BY <1>2, SpendTypes DEF StopRun, MeterRecords, ThreadRecords, Quiet
    <2>2. call' \in [PortCalls -> CallRecords]
      BY <1>2, SpendTypes, SpendAssumption DEF StopRun, CallRecords, CallPlaces, Free
    <2>. QED  BY <1>2, <2>1, <2>2, SpendTypes DEF StopRun, SpendTypeOK, MeterRecords, CallRecords,
                CallPlaces, Tries, ThreadRecords, RowRecords
  <1>3. ASSUME NEW c \in PortCalls, CallStep(c) PROVE SpendTypeOK'
    <2>0. /\ call[c] \in CallRecords /\ thread[c] \in ThreadRecords /\ row[c] \in RowRecords
          /\ call \in [PortCalls -> CallRecords] /\ thread \in [PortCalls -> ThreadRecords]
          /\ row \in [PortCalls -> RowRecords] /\ meter \in [MeteredRuns -> MeterRecords]
          /\ reserved \in [PortCalls -> Nat] /\ booked \in [PortCalls -> Nat]
          /\ billed \in [PortCalls -> Nat] /\ reserved[c] \in Nat /\ billed[c] \in Nat
      BY SpendTypes
    <2>1. CallInv(c) /\ SpendTypeOK
      BY DEF MeteredInv
    <2>. DEFINE Typed ==
              /\ meter' \in [MeteredRuns -> MeterRecords] /\ reserved' \in [PortCalls -> Nat]
              /\ call' \in [PortCalls -> CallRecords] /\ thread' \in [PortCalls -> ThreadRecords]
              /\ row' \in [PortCalls -> RowRecords] /\ booked' \in [PortCalls -> Nat]
              /\ billed' \in [PortCalls -> Nat]
    <2>2. SUFFICES Typed
      BY DEF SpendTypeOK, MeterRecords, CallRecords, CallPlaces, Tries, ThreadRecords, RowRecords
    <2>3. ASSUME NEW r \in MeteredRuns, BeginCall(c, r) PROVE Typed
      BY <2>0, <2>3 DEF BeginCall, CallRecords, CallPlaces
    <2>4. ASSUME NEW bound \in Bounds, PreCheck(c, bound) PROVE Typed
      <3>1. call' \in [PortCalls -> CallRecords]
        <4>1. PICK pc \in {"done", "next"} : call' = [call EXCEPT ![c].pc = pc]
          BY <2>4 DEF PreCheck
        <4>2. pc \in CallPlaces
          BY DEF CallPlaces
        <4>. QED  BY <2>0, <4>1, <4>2 DEF CallRecords
      <3>2. meter' \in [MeteredRuns -> MeterRecords]
        <4>1. meter' = meter \/ meter' = [meter EXCEPT ![call[c].run].halted = TRUE]
          BY <2>4 DEF PreCheck, HaltRun
        <4>. QED  BY <2>0, <4>1, ZenonT(40) DEF MeterRecords
      <3>. QED  BY <2>0, <2>4, <3>1, <3>2 DEF PreCheck
    <2>5. ASSUME NEW bound \in Bounds, AskReserve(c, bound) PROVE Typed
      <3>1. bound \in Nat
        BY SpendAssumption
      <3>2. call' \in [PortCalls -> CallRecords]
        BY <2>0, <2>5 DEF AskReserve, CallRecords, CallPlaces
      <3>3. thread' \in [PortCalls -> ThreadRecords]
        BY <2>0, <2>5, <3>1 DEF AskReserve, ThreadRecords
      <3>. QED  BY <2>0, <2>5, <3>2, <3>3 DEF AskReserve
    <2>6. CASE ReserveInMemory(c)
      <3>1. reserved[c] + thread[c].bound \in Nat
        BY <2>1, Fields
      <3>. DEFINE amount == reserved[c] + thread[c].bound
      <3>2. \/ thread' = [thread EXCEPT ![c].pc = "refused"] /\ UNCHANGED reserved
            \/ /\ reserved' = [reserved EXCEPT ![c] = amount]
               /\ thread' = [thread EXCEPT ![c].pc = "unwritten", ![c].amount = reserved'[c]]
        BY <2>6 DEF ReserveInMemory
      <3>. HIDE DEF amount
      <3>3. reserved' \in [PortCalls -> Nat] /\ reserved'[c] \in Nat
        BY <2>0, <3>1, <3>2 DEF amount
      <3>4. thread' \in [PortCalls -> ThreadRecords]
        <4>. DEFINE refused == [thread[c] EXCEPT !.pc = "refused"]
                    granted == [thread[c] EXCEPT !.pc = "unwritten", !.amount = reserved'[c]]
        <4>1. thread[c] \in ThreadRecords /\ reserved'[c] \in Nat
          BY <2>0, <3>3
        <4>2. refused \in ThreadRecords /\ granted \in ThreadRecords
          BY <4>1 DEF ThreadRecords
        <4>3. thread' = [thread EXCEPT ![c] = refused] \/ thread' = [thread EXCEPT ![c] = granted]
          BY <3>2
        <4>. HIDE DEF refused, granted
        <4>. QED  BY <2>0, <4>2, <4>3
      <3>. QED  BY <2>0, <2>6, <3>3, <3>4 DEF ReserveInMemory
    <2>7. CASE WriteReservation(c)
      <3>1. thread' \in [PortCalls -> ThreadRecords]
        <4>1. PICK pc \in {"reserved", "failed"} : thread' = [thread EXCEPT ![c].pc = pc]
          BY <2>7 DEF WriteReservation
        <4>2. [thread[c] EXCEPT !.pc = pc] \in ThreadRecords
          <5>1. thread[c] \in ThreadRecords
            BY <2>0
          <5>. QED  BY <5>1 DEF ThreadRecords
        <4>3. thread' = [thread EXCEPT ![c] = [thread[c] EXCEPT !.pc = pc]]
          BY <4>1
        <4>. HIDE DEF ThreadRecords
        <4>. QED  BY <2>0, <4>2, <4>3
      <3>2. row' \in [PortCalls -> RowRecords]
        <4>1. thread[c].amount \in Nat
          BY <2>1, Fields
        <4>2. \/ row' = row
              \/ row' = [row EXCEPT ![c] = [status |-> "in_flight", cost |-> thread[c].amount]]
              \/ row' = [row EXCEPT ![c].cost = thread[c].amount]
          BY <2>0, <2>7 DEF WriteReservation, RowRecords, OpenInFlight, RaiseInFlight
        <4>. QED  BY <2>0, <4>1, <4>2 DEF RowRecords
      <3>. QED  BY <2>0, <2>7, <3>1, <3>2 DEF WriteReservation
    <2>8. CASE Send(c)
      <3>1. thread[c].bound \in Nat
        BY <2>1, Fields
      <3>2. call[c].sent \in Nat /\ call[c].sent < MaxRequests
        BY <2>1, <2>8, Fields DEF CallInv, PlaceInv, Send
      <3>3. call[c].sent + 1 \in Tries
        BY <3>2, SpendAssumption DEF Tries
      <3>4. PICK charge \in 0..thread[c].bound :
              /\ call' = [call EXCEPT ![c].pc = "sent", ![c].sent = @ + 1,
                                      ![c].bound = thread[c].bound, ![c].charge = charge]
              /\ billed' = [billed EXCEPT ![c] = @ + charge]
        BY <2>8 DEF Send
      <3>5. charge \in Nat /\ billed[c] + charge \in Nat
        BY <2>0, <3>1
      <3>. DEFINE sent == call[c].sent + 1
                  bill == billed[c] + charge
      <3>6. /\ call' = [call EXCEPT ![c].pc = "sent", ![c].sent = sent,
                                    ![c].bound = thread[c].bound, ![c].charge = charge]
            /\ billed' = [billed EXCEPT ![c] = bill]
        BY <3>4
      <3>. HIDE DEF sent, bill
      <3>7. call' \in [PortCalls -> CallRecords]
        BY <2>0, <3>1, <3>3, <3>5, <3>6 DEF CallRecords, CallPlaces, sent
      <3>8. billed' \in [PortCalls -> Nat]
        BY <2>0, <3>5, <3>6 DEF bill
      <3>. QED  BY <2>0, <2>8, <3>7, <3>8 DEF Send, ThreadRecords, Quiet
    <2>9. CASE SendRefused(c)
      BY <2>0, <2>9 DEF SendRefused, CallRecords, CallPlaces, ThreadRecords, Quiet
    <2>10. CASE NotBilled(c) \/ Unreported(c) \/ Reported(c)
      <3>1. ASSUME NEW usage \in Nat, NEW unaccounted \in Nat, EndRequest(c, usage, unaccounted)
            PROVE  call' \in [PortCalls -> CallRecords]
        <4>. DEFINE u == call[c].usage + usage
                    v == call[c].unaccounted + unaccounted
        <4>1. u \in Nat /\ v \in Nat
          BY <2>1, Fields
        <4>2. PICK pc \in {"settle", "next"} :
                call' = [call EXCEPT ![c].pc = pc, ![c].bound = 0, ![c].charge = 0,
                                     ![c].usage = u, ![c].unaccounted = v]
          BY <3>1 DEF EndRequest
        <4>3. pc \in CallPlaces
          BY DEF CallPlaces
        <4>. HIDE DEF u, v
        <4>. QED  BY <2>0, <4>1, <4>2, <4>3 DEF CallRecords
      <3>2. call[c].bound \in Nat /\ call[c].charge \in Nat /\ 0 \in Nat
        BY <2>1, Fields
      <3>3. call' \in [PortCalls -> CallRecords]
        BY <2>10, <3>1, <3>2 DEF NotBilled, Unreported, Reported
      <3>. QED  BY <2>0, <2>10, <3>3 DEF NotBilled, Unreported, Reported
    <2>11. CASE GiveUp(c)
      BY <2>0, <2>11 DEF GiveUp, CallRecords, CallPlaces
    <2>12. CASE Cancel(c)
      <3>1. call' \in [PortCalls -> CallRecords]
        BY <2>0, <2>12 DEF Cancel, CallRecords, CallPlaces
      <3>2. thread' \in [PortCalls -> ThreadRecords]
        BY <2>0, <2>12 DEF Cancel, ThreadRecords, Quiet
      <3>. QED  BY <2>0, <2>12, <3>1, <3>2 DEF Cancel
    <2>13. CASE SettleInMemory(c)
      <3>. DEFINE r == call[c].run
                  spent == meter[r].spent + Cost(c)
      <3>1. r \in MeteredRuns
        BY <2>1, <2>13, Fields DEF SettleInMemory, CallInv, PlaceInv, Unsettled
      <3>2. meter[r] \in MeterRecords
        BY <2>0, <3>1
      <3>3. meter[r].spent \in Nat
        BY <3>2 DEF MeterRecords
      <3>4. spent \in Nat
        BY <2>1, <3>3, CostNat
      <3>5. meter' = [meter EXCEPT ![r].spent = spent]
        BY <2>13 DEF SettleInMemory
      <3>. HIDE DEF spent, r
      <3>6. meter' \in [MeteredRuns -> MeterRecords]
        BY <2>0, <3>4, <3>5 DEF MeterRecords
      <3>7. call' \in [PortCalls -> CallRecords]
        BY <2>0, <2>13 DEF SettleInMemory, CallRecords, CallPlaces
      <3>. QED  BY <2>0, <2>13, <3>6, <3>7 DEF SettleInMemory
    <2>14. CASE SettleRow(c)
      <3>1. Cost(c) \in Nat
        BY <2>1, CostNat
      <3>2. call' \in [PortCalls -> CallRecords]
        BY <2>0, <2>14, SpendAssumption DEF SettleRow, CallRecords, CallPlaces, Free
      <3>3. meter' \in [MeteredRuns -> MeterRecords]
        <4>1. call[c].run \in MeteredRuns
          BY <2>1, <2>14, Fields DEF SettleRow, CallInv, PlaceInv, Settling
        <4>2. (UNCHANGED meter) \/ HaltRun(call[c].run)
          BY <2>14 DEF SettleRow
        <4>. QED  BY <2>0, <4>1, <4>2, ZenonT(40) DEF HaltRun, MeterRecords
      <3>4. row' \in [PortCalls -> RowRecords] /\ booked' \in [PortCalls -> Nat]
        <4>1. /\ row' = row \/ row' = [row EXCEPT ![c] = [status |-> "settled", cost |-> Cost(c)]]
              /\ booked' = booked \/ booked' = [booked EXCEPT ![c] = Cost(c)]
          BY <2>14 DEF SettleRow
        <4>. QED  BY <2>0, <3>1, <4>1 DEF RowRecords
      <3>. QED  BY <2>0, <2>14, <3>2, <3>3, <3>4 DEF SettleRow
    <2>. QED  BY <1>3, <2>3, <2>4, <2>5, <2>6, <2>7, <2>8, <2>9, <2>10, <2>11, <2>12, <2>13, <2>14
              DEF CallStep
  <1>. QED  BY <1>0, <1>1, <1>2, <1>3 DEF NextSpend

(* The steps of one call keep what is known of it.  Every case says first   *)
(* what the step makes of the call, its thread and its row.                 *)

SameCall(c) == UNCHANGED <<call[c].run, call[c].sent, call[c].bound, call[c].charge,
                           call[c].usage, call[c].unaccounted>>

LEMMA CallKeeps ==
    ASSUME MeteredInv, NEW c \in PortCalls, CallStep(c)
    PROVE  CallInv(c)'
  <1>0. /\ call \in [PortCalls -> CallRecords] /\ thread \in [PortCalls -> ThreadRecords]
        /\ row \in [PortCalls -> RowRecords] /\ meter \in [MeteredRuns -> MeterRecords]
        /\ reserved \in [PortCalls -> Nat] /\ booked \in [PortCalls -> Nat]
        /\ billed \in [PortCalls -> Nat]
    BY SpendTypes DEF MeteredInv
  <1>1. call[c] \in CallRecords /\ thread[c] \in ThreadRecords /\ row[c] \in RowRecords
    BY <1>0
  <1>2. /\ call[c].run \in MeteredRuns \cup {NoRun} /\ call[c].sent \in Nat
        /\ call[c].bound \in Nat /\ call[c].charge \in Nat
        /\ call[c].usage \in Nat /\ call[c].unaccounted \in Nat
        /\ thread[c].bound \in Nat /\ thread[c].amount \in Nat
        /\ row[c].cost \in Nat /\ booked[c] \in Nat
        /\ reserved[c] \in Nat /\ billed[c] \in Nat
    BY Fields DEF MeteredInv
  <1>3. PlaceInv(c) /\ MeterInv(c) /\ RowInv(c)
    BY DEF MeteredInv, CallInv
  <1>4. ASSUME (UNCHANGED meter) \/ (\E r \in MeteredRuns : HaltRun(r))
        PROVE  \A r \in MeteredRuns : Up(r)' <=> Up(r)
    <2>1. meter' = meter \/ \E r \in MeteredRuns : meter' = [meter EXCEPT ![r].halted = TRUE]
      BY <1>4 DEF HaltRun
    <2>2. ASSUME NEW r \in MeteredRuns PROVE meter'[r].state = meter[r].state
      <3>1. meter[r] \in MeterRecords
        BY <1>0
      <3>. QED  BY <1>0, <2>1, <3>1 DEF MeterRecords
    <2>. QED  BY <2>2 DEF Up
  <1>5. ASSUME NEW r \in MeteredRuns, BeginCall(c, r) PROVE CallInv(c)'
    <2>1. /\ CallAt(c, "free") /\ call[c] = Free /\ thread[c] = Quiet /\ row[c] = NoRow
          /\ reserved[c] = 0 /\ billed[c] = 0 /\ Up(r)
      BY <1>3, <1>5 DEF BeginCall, PlaceInv, Free
    <2>2. call'[c] = [Free EXCEPT !.pc = "begun", !.run = r]
      BY <1>0, <1>5, <2>1 DEF BeginCall
    <2>3. UNCHANGED <<meter, reserved[c], thread[c], row[c], billed[c]>>
      BY <1>5 DEF BeginCall
    <2>4. /\ call'[c].pc = "begun" /\ call'[c].run = r /\ call'[c].bound = 0
          /\ call'[c].charge = 0 /\ call'[c].usage = 0 /\ call'[c].unaccounted = 0
      BY <2>2 DEF Free
    <2>5. r # NoRun /\ Up(r)'
      BY <2>1, <2>3, SpendAssumption DEF Up
    <2>6. PlaceInv(c)'
      BY <2>1, <2>3, <2>4, <2>5 DEF PlaceInv, CallAt, Unsettled, Settling, Quiet
    <2>7. MeterInv(c)'
      BY <2>1, <2>3, <2>4 DEF MeterInv, CallAt, Unsettled, Settling, Cost, ThreadHeld, Quiet
    <2>8. RowInv(c)'
      BY <2>1, <2>3, <2>4 DEF RowInv, CallAt, Understated, Cost, NoRow, Quiet
    <2>. QED  BY <2>6, <2>7, <2>8 DEF CallInv
  <1>6. ASSUME NEW bound \in Bounds, PreCheck(c, bound) PROVE CallInv(c)'
    <2>1. /\ CallAt(c, "begun") /\ SameCall(c) /\ call'[c].pc \in {"done", "next"}
          /\ UNCHANGED <<reserved[c], thread[c], row[c], billed[c]>>
          /\ ((UNCHANGED meter) \/ HaltRun(call[c].run))
      <3>1. PICK pc \in {"done", "next"} : call' = [call EXCEPT ![c].pc = pc]
        BY <1>6 DEF PreCheck
      <3>2. SameCall(c) /\ call'[c].pc = pc
        BY <1>0, <3>1 DEF SameCall
      <3>. QED  BY <1>6, <3>2 DEF PreCheck
    <2>2. call[c].run \in MeteredRuns /\ thread[c].pc = "none"
      BY <1>2, <1>3, <2>1 DEF PlaceInv, Unsettled, CallAt, Quiet
    <2>3. Up(call[c].run)'
      <3>1. call[c].run # NoRun /\ call'[c].run = call[c].run
        BY <2>1, <2>2, SpendAssumption DEF SameCall
      <3>2. Up(call[c].run)' <=> meter'[call[c].run].state = "up"
        BY <3>1 DEF Up
      <3>3. (UNCHANGED meter) \/ (\E r \in MeteredRuns : HaltRun(r))
        BY <2>1, <2>2
      <3>4. \A r \in MeteredRuns : Up(r)' <=> Up(r)
        BY <1>4, <3>3
      <3>. QED  BY <1>3, <2>2, <3>1, <3>2, <3>4 DEF PlaceInv, Up
    <2>4. PlaceInv(c)'
      BY <1>3, <2>1, <2>2, <2>3 DEF PlaceInv, CallAt, Unsettled, Settling, SameCall
    <2>5. MeterInv(c)'
      BY <1>3, <2>1 DEF MeterInv, CallAt, Unsettled, Settling, SameCall, Cost, ThreadHeld
    <2>6. RowInv(c)'
      BY <1>3, <2>1 DEF RowInv, CallAt, Unsettled, Settling, SameCall, Cost, Understated, Overtaken
    <2>. QED  BY <2>4, <2>5, <2>6 DEF CallInv
  <1>7. ASSUME NEW bound \in Bounds, AskReserve(c, bound) PROVE CallInv(c)'
    <2>1. /\ CallAt(c, "next") /\ SameCall(c) /\ call'[c].pc = "reserving"
          /\ call[c].sent < MaxRequests
          /\ thread'[c] = [pc |-> "asked", bound |-> bound, amount |-> 0]
          /\ UNCHANGED <<meter, reserved[c], row[c], billed[c]>>
      BY <1>0, <1>7 DEF AskReserve, SameCall
    <2>2. thread[c] = Quiet /\ bound \in Nat /\ bound > 0
      BY <1>3, <2>1, SpendAssumption DEF PlaceInv, CallAt
    <2>3. thread'[c].pc = "asked" /\ thread'[c].bound = bound
      BY <2>1
    <2>4. PlaceInv(c)'
      BY <1>3, <2>1, <2>2, <2>3 DEF PlaceInv, CallAt, Unsettled, Settling, SameCall, Up
    <2>5. MeterInv(c)'
      BY <1>2, <1>3, <2>1, <2>2, <2>3
         DEF MeterInv, CallAt, Unsettled, Settling, SameCall, Cost, ThreadHeld, Quiet
    <2>6. RowInv(c)'
      BY <1>3, <2>1, <2>2, <2>3
         DEF RowInv, CallAt, Unsettled, Settling, SameCall, Cost, Understated, Overtaken, Quiet
    <2>. QED  BY <2>4, <2>5, <2>6 DEF CallInv
  <1>8. CASE ReserveInMemory(c)
    <2>1. /\ thread[c].pc = "asked" /\ UNCHANGED <<meter, call[c], row[c], billed[c]>>
          /\ thread'[c].bound = thread[c].bound
          /\ \/ thread'[c].pc = "refused" /\ UNCHANGED reserved[c]
             \/ /\ thread'[c].pc = "unwritten" /\ reserved'[c] = reserved[c] + thread[c].bound
                /\ thread'[c].amount = reserved'[c]
      <3>1. CASE thread' = [thread EXCEPT ![c].pc = "refused"] /\ UNCHANGED reserved
        BY <1>0, <1>8, <3>1 DEF ReserveInMemory
      <3>2. CASE /\ reserved' = [reserved EXCEPT ![c] = reserved[c] + thread[c].bound]
                 /\ thread' = [thread EXCEPT ![c].pc = "unwritten", ![c].amount = reserved'[c]]
        <4>1. reserved'[c] = reserved[c] + thread[c].bound
          BY <1>0, <3>2
        <4>2. /\ thread'[c].pc = "unwritten" /\ thread'[c].bound = thread[c].bound
              /\ thread'[c].amount = reserved'[c]
          BY <1>0, <3>2
        <4>. QED  BY <1>8, <4>1, <4>2 DEF ReserveInMemory
      <3>. QED  BY <1>8, <3>1, <3>2 DEF ReserveInMemory
    <2>2. call[c].run # NoRun
      BY <1>3, <2>1 DEF PlaceInv, Quiet
    <2>3. PlaceInv(c)'
      <3>1. call[c].pc \notin {"free", "begun", "next", "sent", "halting"} /\ thread[c].bound > 0
        BY <1>3, <2>1, <2>2 DEF PlaceInv, CallAt, Quiet, Free
      <3>2. thread'[c].pc # "none" /\ thread'[c].bound > 0
        BY <2>1, <3>1
      <3>. QED  BY <1>3, <2>1, <2>2, <3>1, <3>2 DEF PlaceInv, CallAt, Unsettled, Settling, Up
    <2>4. MeterInv(c)'
      <3>1. Cost(c)' = Cost(c) /\ Cost(c) \in Nat /\ ThreadHeld(c) = 0
        BY <1>2, <2>1 DEF Cost, ThreadHeld
      <3>2. call[c].pc \in Unsettled => Cost(c) + call[c].bound <= reserved[c]
        BY <1>2, <1>3, <3>1 DEF MeterInv
      <3>3. call[c].pc \in Unsettled => (Cost(c) + call[c].bound + ThreadHeld(c) <= reserved[c])'
        BY <1>2, <2>1, <3>1, <3>2 DEF ThreadHeld
      <3>4. CallAt(c, "reserving") /\ thread'[c].pc = "unwritten" => thread'[c].amount = reserved'[c]
        BY <2>1
      <3>. QED  BY <1>3, <2>1, <3>1, <3>3, <3>4 DEF MeterInv, CallAt
    <2>5. RowInv(c)'
      BY <1>3, <2>1, <2>2 DEF RowInv, CallAt, Unsettled, Settling, Cost, Understated, Overtaken
    <2>. QED  BY <2>3, <2>4, <2>5 DEF CallInv
  <1>9. CASE WriteReservation(c)
    <2>1. /\ thread[c].pc = "unwritten" /\ UNCHANGED <<meter, reserved[c], call[c], billed[c]>>
          /\ thread'[c].bound = thread[c].bound
          /\ \/ thread'[c].pc = "failed" /\ UNCHANGED row[c]
             \/ /\ thread'[c].pc = "reserved"
                /\ row[c].status = "none" => /\ row'[c].status = "in_flight"
                                             /\ row'[c].cost = thread[c].amount
                /\ row[c].status = "in_flight" => /\ row'[c].status = "in_flight"
                                                  /\ row'[c].cost = thread[c].amount
                /\ row[c].status = "settled" => UNCHANGED row[c]
      <3>1. /\ thread[c].pc = "unwritten" /\ UNCHANGED <<meter, reserved, call, billed>>
            /\ \/ thread' = [thread EXCEPT ![c].pc = "failed"] /\ UNCHANGED row
               \/ /\ thread' = [thread EXCEPT ![c].pc = "reserved"]
                  /\ \/ row[c].status = "none" /\ OpenInFlight(c, thread[c].amount)
                     \/ row[c].status # "none" /\ RaiseInFlight(c, thread[c].amount)
        BY <1>9 DEF WriteReservation
      <3>2. CASE thread' = [thread EXCEPT ![c].pc = "failed"] /\ UNCHANGED row
        BY <1>0, <3>1, <3>2
      <3>3. CASE /\ thread' = [thread EXCEPT ![c].pc = "reserved"]
                 /\ \/ row[c].status = "none" /\ OpenInFlight(c, thread[c].amount)
                    \/ row[c].status # "none" /\ RaiseInFlight(c, thread[c].amount)
        <4>1. thread'[c].pc = "reserved" /\ thread'[c].bound = thread[c].bound
          BY <1>0, <3>3
        <4>2. row[c].status = "none" => /\ row'[c].status = "in_flight"
                                        /\ row'[c].cost = thread[c].amount
          BY <1>0, <3>3 DEF OpenInFlight
        <4>3. /\ row[c].status = "in_flight" => /\ row'[c].status = "in_flight"
                                                /\ row'[c].cost = thread[c].amount
              /\ row[c].status = "settled" => row'[c] = row[c]
          <5>1. row[c].status # "none" =>
                  row'[c] = IF row[c].status = "in_flight"
                            THEN [row[c] EXCEPT !.cost = thread[c].amount] ELSE row[c]
            BY <1>0, <3>3 DEF RaiseInFlight
          <5>. QED  BY <1>1, <5>1 DEF RowRecords
        <4>. QED  BY <3>1, <4>1, <4>2, <4>3
      <3>. QED  BY <3>1, <3>2, <3>3
    <2>2. call[c].run # NoRun
      BY <1>3, <2>1 DEF PlaceInv, Quiet
    <2>3. PlaceInv(c)'
      <3>1. call[c].pc \notin {"free", "begun", "next", "sent", "halting"} /\ thread[c].bound > 0
        BY <1>3, <2>1, <2>2 DEF PlaceInv, CallAt, Quiet, Free
      <3>2. thread'[c].pc # "none" /\ thread'[c].bound > 0
        BY <2>1, <3>1
      <3>. QED  BY <1>3, <2>1, <2>2, <3>1, <3>2 DEF PlaceInv, CallAt, Unsettled, Settling, Up
    <2>4. MeterInv(c)'
      BY <1>2, <1>3, <2>1, <2>2 DEF MeterInv, CallAt, Unsettled, Settling, Cost, ThreadHeld
    <2>5. row[c].status \in {"none", "in_flight", "settled"}
      BY <1>1 DEF RowRecords
    <2>6. RowInv(c)'
      <3>1. CASE thread'[c].pc = "failed"
        BY <1>3, <2>1, <3>1 DEF RowInv, CallAt, Unsettled, Settling, Cost, Understated, Overtaken
      <3>2. CASE row[c].status = "settled"
        BY <1>3, <2>1, <3>2 DEF RowInv, CallAt, Unsettled, Settling, Cost, Understated, Overtaken
      <3>3. CASE CallAt(c, "reserving") /\ thread'[c].pc = "reserved" /\ row[c].status # "settled"
        <4>1. /\ thread[c].amount = reserved[c] /\ call[c].bound = 0 /\ call[c].charge = 0
              /\ Cost(c) + thread[c].bound <= reserved[c]
              /\ billed[c] <= Cost(c)
          BY <1>2, <1>3, <2>1, <3>3 DEF MeterInv, CallAt, Unsettled, ThreadHeld, Cost
        <4>2. row'[c].status = "in_flight" /\ row'[c].cost = reserved[c]
          BY <2>1, <2>5, <3>3, <4>1
        <4>. QED  BY <1>2, <2>1, <3>3, <4>1, <4>2 DEF RowInv, CallAt, Cost, Unsettled
      <3>4. CASE ~CallAt(c, "reserving") /\ thread'[c].pc = "reserved" /\ row[c].status # "settled"
        <4>1. row'[c].status = "in_flight" /\ Understated(c)'
          BY <2>1, <2>5, <3>4 DEF Understated, Overtaken, CallAt
        <4>. QED  BY <2>1, <4>1 DEF RowInv
      <3>. QED  BY <2>1, <3>1, <3>2, <3>3, <3>4
    <2>. QED  BY <2>3, <2>4, <2>6 DEF CallInv
  <1>10. CASE Send(c)
    <2>1. PICK charge \in 0..thread[c].bound :
            /\ call' = [call EXCEPT ![c].pc = "sent", ![c].sent = @ + 1,
                                    ![c].bound = thread[c].bound, ![c].charge = charge]
            /\ billed' = [billed EXCEPT ![c] = @ + charge]
      BY <1>10 DEF Send
    <2>2. /\ CallAt(c, "reserving") /\ thread[c].pc = "reserved" /\ thread'[c] = Quiet
          /\ UNCHANGED <<meter, reserved[c], row[c]>>
          /\ call'[c].pc = "sent" /\ call'[c].bound = thread[c].bound /\ call'[c].charge = charge
          /\ UNCHANGED <<call[c].run, call[c].usage, call[c].unaccounted>>
          /\ billed'[c] = billed[c] + charge
      BY <1>0, <1>10, <2>1 DEF Send
    <2>3. charge \in Nat /\ charge <= thread[c].bound
      BY <1>2
    <2>4. /\ call[c].run # NoRun /\ thread'[c].pc = "none"
      BY <1>3, <2>2 DEF PlaceInv, Unsettled, CallAt, Quiet
    <2>5. /\ call[c].bound = 0 /\ call[c].charge = 0
          /\ Cost(c) + thread[c].bound <= reserved[c] /\ billed[c] <= Cost(c)
          /\ row[c].status = "in_flight" /\ ~Understated(c)
          /\ Cost(c) + thread[c].bound <= row[c].cost
      <3>1. row[c].status \in {"none", "in_flight", "settled"}
        BY <1>1 DEF RowRecords
      <3>2. ~Understated(c) /\ row[c].status # "none" /\ row[c].status # "settled"
        BY <1>3, <2>2 DEF RowInv, Understated, Overtaken, CallAt
      <3>. QED  BY <1>2, <1>3, <2>2, <3>1, <3>2 DEF MeterInv, RowInv, CallAt, Unsettled, ThreadHeld, Cost
    <2>6. PlaceInv(c)'
      BY <1>3, <2>2, <2>4 DEF PlaceInv, CallAt, Unsettled, Settling, Up
    <2>7. MeterInv(c)'
      BY <1>2, <2>2, <2>3, <2>4, <2>5 DEF MeterInv, CallAt, Unsettled, Settling, Cost, ThreadHeld
    <2>8. RowInv(c)'
      BY <1>2, <2>2, <2>3, <2>4, <2>5 DEF RowInv, CallAt, Unsettled, Cost
    <2>. QED  BY <2>6, <2>7, <2>8 DEF CallInv
  <1>11. CASE SendRefused(c)
    <2>1. /\ CallAt(c, "reserving") /\ thread[c].pc \in {"refused", "failed"}
          /\ SameCall(c) /\ call'[c].pc \in {"halting", "settle"} /\ thread'[c] = Quiet
          /\ UNCHANGED <<meter, reserved[c], row[c], billed[c]>>
      BY <1>0, <1>11 DEF SendRefused, SameCall
    <2>2. thread'[c].pc = "none"
      BY <2>1 DEF Quiet
    <2>3. PlaceInv(c)'
      BY <1>3, <2>1, <2>2 DEF PlaceInv, CallAt, Unsettled, Settling, Up, SameCall
    <2>4. MeterInv(c)'
      <3>1. /\ Cost(c)' = Cost(c) /\ Cost(c) \in Nat /\ ThreadHeld(c) \in Nat
            /\ ThreadHeld(c)' = 0
        BY <1>2, <2>1, <2>2 DEF Cost, ThreadHeld, SameCall
      <3>2. /\ call[c].bound = 0 /\ call[c].charge = 0
            /\ Cost(c) + call[c].bound + ThreadHeld(c) <= reserved[c]
            /\ billed[c] <= Cost(c) + call[c].charge
        BY <1>3, <2>1 DEF MeterInv, CallAt, Unsettled
      <3>3. call'[c].bound = 0 /\ call'[c].charge = 0 /\ reserved'[c] = reserved[c] /\ billed'[c] = billed[c]
        BY <2>1, <3>2 DEF SameCall
      <3>4. Cost(c) <= reserved[c] /\ billed[c] <= Cost(c)
        BY <1>2, <3>1, <3>2
      <3>5. (Cost(c) + call[c].bound + ThreadHeld(c))' = Cost(c) /\ (Cost(c) + call[c].charge)' = Cost(c)
        BY <3>1, <3>3
      <3>. QED  BY <2>1, <2>2, <3>3, <3>4, <3>5 DEF MeterInv, CallAt
    <2>5. RowInv(c)'
      BY <1>2, <1>3, <2>1, <2>2
         DEF RowInv, CallAt, Unsettled, Settling, Cost, Understated, Overtaken, SameCall
    <2>. QED  BY <2>3, <2>4, <2>5 DEF CallInv
  <1>12. CASE NotBilled(c) \/ Unreported(c) \/ Reported(c)
    <2>1. \E usage \in Nat, unaccounted \in Nat :
            /\ EndRequest(c, usage, unaccounted)
            /\ call[c].charge <= usage + unaccounted /\ usage + unaccounted <= call[c].bound
      <3>1. CallAt(c, "sent") /\ call[c].charge <= call[c].bound
        BY <1>3, <1>12 DEF NotBilled, Unreported, Reported, MeterInv
      <3>2. CASE NotBilled(c)
        <4>1. EndRequest(c, 0, 0) /\ call[c].charge = 0
          BY <3>2 DEF NotBilled
        <4>2. 0 + 0 = 0 /\ 0 \in Nat /\ 0 <= call[c].bound
          BY <1>2
        <4>. QED  BY <4>1, <4>2
      <3>3. CASE Unreported(c)
        <4>1. EndRequest(c, 0, call[c].bound)
          BY <3>3 DEF Unreported
        <4>2. 0 + call[c].bound = call[c].bound /\ 0 \in Nat /\ call[c].bound <= call[c].bound
          BY <1>2
        <4>. QED  BY <1>2, <3>1, <4>1, <4>2
      <3>4. CASE Reported(c)
        <4>1. EndRequest(c, call[c].charge, 0)
          BY <3>4 DEF Reported
        <4>2. call[c].charge + 0 = call[c].charge /\ 0 \in Nat /\ call[c].charge <= call[c].charge
          BY <1>2
        <4>. QED  BY <1>2, <3>1, <4>1, <4>2
      <3>. QED  BY <1>12, <3>2, <3>3, <3>4
    <2>2. PICK usage \in Nat, unaccounted \in Nat :
            /\ EndRequest(c, usage, unaccounted)
            /\ call[c].charge <= usage + unaccounted /\ usage + unaccounted <= call[c].bound
      BY <2>1
    <2>3. /\ call'[c].pc \in {"settle", "next"} /\ call'[c].bound = 0 /\ call'[c].charge = 0
          /\ call'[c].usage = call[c].usage + usage
          /\ call'[c].unaccounted = call[c].unaccounted + unaccounted
          /\ call'[c].run = call[c].run
      BY <1>0, <2>2 DEF EndRequest
    <2>4. /\ CallAt(c, "sent")
          /\ UNCHANGED <<meter, thread[c], reserved[c], row[c], billed[c]>>
      BY <1>12 DEF NotBilled, Unreported, Reported
    <2>5. thread[c].pc = "none"
      BY <1>3, <2>4 DEF PlaceInv, CallAt, Quiet
    <2>6. PlaceInv(c)'
      BY <1>3, <2>3, <2>4, <2>5 DEF PlaceInv, CallAt, Unsettled, Settling, Up
    <2>7. Cost(c)' = Cost(c) + (usage + unaccounted)
      BY <1>2, <2>3 DEF Cost
    <2>8. MeterInv(c)'
      <3>1. /\ Cost(c) + call[c].bound <= reserved[c] /\ billed[c] <= Cost(c) + call[c].charge
        BY <1>2, <1>3, <2>4, <2>5 DEF MeterInv, CallAt, Unsettled, ThreadHeld, Cost
      <3>2. Cost(c)' <= reserved[c] /\ billed[c] <= Cost(c)'
        <4>1. Cost(c) \in Nat
          BY <1>2 DEF Cost
        <4>. QED  BY <1>2, <2>2, <2>7, <3>1, <4>1
      <3>3. Cost(c)' \in Nat
        BY <1>2, <2>7 DEF Cost
      <3>. QED  BY <1>2, <2>3, <2>4, <2>5, <3>2, <3>3 DEF MeterInv, CallAt, ThreadHeld
    <2>9. RowInv(c)'
      <3>1. row[c].status \in {"none", "in_flight", "settled"}
        BY <1>1 DEF RowRecords
      <3>2. ~Understated(c) /\ row[c].status # "settled"
        BY <1>3, <2>4, <2>5 DEF RowInv, Understated, Overtaken, CallAt
      <3>3. CASE row[c].status = "none"
        BY <1>3, <2>4, <3>3 DEF RowInv
      <3>4. CASE row[c].status = "in_flight"
        <4>1. billed[c] <= row[c].cost /\ Cost(c) + call[c].bound <= row[c].cost
          BY <1>3, <2>4, <3>2, <3>4 DEF RowInv, CallAt, Unsettled
        <4>2. Cost(c)' <= row[c].cost
          <5>1. Cost(c) \in Nat
            BY <1>2 DEF Cost
          <5>. QED  BY <1>2, <2>2, <2>7, <4>1, <5>1
        <4>3. Cost(c)' \in Nat
          BY <1>2, <2>7 DEF Cost
        <4>. QED  BY <2>3, <2>4, <2>5, <3>4, <4>1, <4>2, <4>3 DEF RowInv
      <3>. QED  BY <3>1, <3>2, <3>3, <3>4
    <2>. QED  BY <2>6, <2>8, <2>9 DEF CallInv
  <1>13. CASE GiveUp(c)
    <2>1. /\ CallAt(c, "next") /\ SameCall(c) /\ call'[c].pc = "settle"
          /\ UNCHANGED <<meter, reserved[c], thread[c], row[c], billed[c]>>
      BY <1>0, <1>13 DEF GiveUp, SameCall
    <2>2. thread[c].pc = "none"
      BY <1>3, <2>1 DEF PlaceInv, CallAt, Quiet
    <2>3. PlaceInv(c)'
      BY <1>3, <2>1, <2>2 DEF PlaceInv, CallAt, Unsettled, Settling, Up, SameCall
    <2>4. MeterInv(c)'
      BY <1>3, <2>1, <2>2 DEF MeterInv, CallAt, Unsettled, Settling, Cost, ThreadHeld, SameCall
    <2>5. RowInv(c)'
      BY <1>3, <2>1, <2>2
         DEF RowInv, CallAt, Unsettled, Settling, Cost, Understated, Overtaken, SameCall
    <2>. QED  BY <2>3, <2>4, <2>5 DEF CallInv
  <1>14. CASE Cancel(c)
    <2>1. /\ CallAt(c, "reserving") /\ SameCall(c) /\ call'[c].pc = "settle"
          /\ UNCHANGED <<meter, reserved[c], row[c], billed[c]>>
          /\ (thread'[c] = thread[c] \/ (thread[c].pc = "asked" /\ thread'[c] = Quiet))
      BY <1>0, <1>14 DEF Cancel, SameCall
    <2>2. PlaceInv(c)'
      BY <1>3, <2>1 DEF PlaceInv, CallAt, Unsettled, Settling, Up, SameCall, Quiet
    <2>3. MeterInv(c)'
      BY <1>2, <1>3, <2>1 DEF MeterInv, CallAt, Unsettled, Settling, Cost, ThreadHeld, SameCall, Quiet
    <2>4. RowInv(c)'
      BY <1>2, <1>3, <2>1
         DEF RowInv, CallAt, Unsettled, Settling, Cost, Understated, Overtaken, SameCall, Quiet
    <2>. QED  BY <2>2, <2>3, <2>4 DEF CallInv
  <1>15. CASE SettleInMemory(c)
    <2>1. /\ call[c].pc \in {"settle", "halting"} /\ SameCall(c)
          /\ call'[c].pc \in {"booking", "booking, halt"} /\ reserved'[c] = 0
          /\ UNCHANGED <<thread[c], row[c], billed[c]>>
      <3>1. PICK pc \in {"booking", "booking, halt"} : call' = [call EXCEPT ![c].pc = pc]
        BY <1>0, <1>15 DEF SettleInMemory
      <3>2. call'[c] = [call[c] EXCEPT !.pc = pc]
        BY <1>0, <3>1
      <3>3. SameCall(c) /\ call'[c].pc = pc
        BY <1>1, <3>2 DEF SameCall, CallRecords
      <3>. QED  BY <1>0, <1>15, <3>3 DEF SettleInMemory
    <2>2. \A r \in MeteredRuns : Up(r)' <=> Up(r)
      <3>1. meter' = [meter EXCEPT ![call[c].run].spent = meter[call[c].run].spent + Cost(c)]
        BY <1>15 DEF SettleInMemory
      <3>. HIDE DEF Cost
      <3>. QED  BY <1>0, <3>1 DEF Up
    <2>3. PlaceInv(c)'
      <3>1. call[c].run # NoRun /\ call[c].run \in MeteredRuns /\ Up(call[c].run)'
        <4>1. call[c].run # NoRun /\ call[c].run \in MeteredRuns /\ Up(call[c].run)
          BY <1>2, <1>3, <2>1 DEF PlaceInv, Unsettled
        <4>2. call'[c].run = call[c].run
          BY <2>1 DEF SameCall
        <4>. QED  BY <2>2, <4>1, <4>2 DEF Up
      <3>. QED  BY <1>3, <2>1, <3>1 DEF PlaceInv, CallAt, Unsettled, Settling, SameCall
    <2>4. MeterInv(c)'
      BY <1>2, <1>3, <2>1 DEF MeterInv, CallAt, Unsettled, Settling, Cost, ThreadHeld, SameCall
    <2>5. RowInv(c)'
      BY <1>2, <1>3, <2>1
         DEF RowInv, CallAt, Unsettled, Settling, Cost, Understated, Overtaken, SameCall
    <2>. QED  BY <2>3, <2>4, <2>5 DEF CallInv
  <1>16. CASE SettleRow(c)
    <2>1. /\ call[c].pc \in Settling
          /\ call'[c] = [Free EXCEPT !.pc = "done", !.run = call[c].run]
          /\ UNCHANGED <<reserved[c], thread[c], billed[c]>>
          /\ ((UNCHANGED meter) \/ HaltRun(call[c].run))
          /\ \/ row'[c] = row[c]
             \/ row[c].status # "none" /\ row'[c] = [status |-> "settled", cost |-> Cost(c)]
      BY <1>0, <1>16 DEF SettleRow, Settling
    <2>2. /\ call'[c].pc = "done" /\ call'[c].run = call[c].run /\ call'[c].bound = 0
          /\ call'[c].charge = 0 /\ Cost(c)' = 0
      BY <2>1 DEF Free, Cost
    <2>3. call[c].run # NoRun /\ call[c].run \in MeteredRuns
      BY <1>2, <1>3, <2>1 DEF PlaceInv
    <2>4. Up(call[c].run)'
      BY <1>3, <1>4, <2>1, <2>3 DEF PlaceInv
    <2>5. PlaceInv(c)'
      BY <1>3, <2>1, <2>2, <2>3, <2>4 DEF PlaceInv, CallAt, Unsettled, Settling
    <2>6. MeterInv(c)'
      BY <2>2 DEF MeterInv, CallAt, Unsettled, Settling
    <2>7. /\ call[c].charge = 0 /\ billed[c] <= Cost(c)
      <3>1. ~CallAt(c, "sent") /\ Cost(c) \in Nat
        <4>1. ~CallAt(c, "sent")
          BY <2>1 DEF Settling, CallAt
        <4>. QED  BY <1>2, <4>1 DEF Cost
      <3>2. call[c].charge = 0 /\ billed[c] <= Cost(c) + call[c].charge
        BY <1>3, <2>1, <3>1 DEF MeterInv
      <3>. QED  BY <1>2, <3>1, <3>2
    <2>8. RowInv(c)'
      <3>1. CASE row'[c] = row[c]
        <4>1. Understated(c)' <=> Understated(c)
          BY <2>1, <2>2, <3>1 DEF Understated, Overtaken, CallAt, Settling
        <4>2. call'[c].pc \notin Unsettled /\ ~CallAt(c, "sent")' /\ call'[c].pc \in {"done", "overtaken"}
          BY <2>2 DEF Unsettled, CallAt
        <4>3. row[c].status # "settled" /\ thread[c].pc = thread'[c].pc
          BY <1>3, <2>1 DEF RowInv, Settling
        <4>4. row'[c].status = "none" => row'[c] = NoRow /\ billed'[c] = 0 /\ Cost(c)' = 0
          BY <1>3, <2>1, <2>2, <3>1 DEF RowInv
        <4>5. row'[c].status = "in_flight" /\ ~Understated(c)' =>
                /\ billed'[c] <= row'[c].cost
                /\ thread'[c].pc # "reserved"
          BY <1>3, <2>1, <2>2, <3>1, <4>1, <4>2 DEF RowInv, Understated, Overtaken, CallAt, Settling
        <4>. QED  BY <1>3, <2>1, <2>2, <3>1, <4>2, <4>3, <4>4, <4>5 DEF RowInv
      <3>2. CASE row[c].status # "none" /\ row'[c] = [status |-> "settled", cost |-> Cost(c)]
        BY <2>1, <2>2, <2>7, <3>2 DEF RowInv
      <3>. QED  BY <2>1, <3>1, <3>2
    <2>. QED  BY <2>5, <2>6, <2>8 DEF CallInv
  <1>. QED  BY <1>5, <1>6, <1>7, <1>8, <1>9, <1>10, <1>11, <1>12, <1>13, <1>14, <1>15, <1>16
            DEF CallStep

(* A step of one call leaves the others and the state of the runs alone. *)
LEMMA OneCallMoves ==
    ASSUME NEW c \in PortCalls, NEW d \in PortCalls, c # d, CallStep(d), SpendTypeOK
    PROVE  /\ call'[c] = call[c] /\ thread'[c] = thread[c] /\ row'[c] = row[c]
           /\ reserved'[c] = reserved[c] /\ billed'[c] = billed[c] /\ booked'[c] = booked[c]
  <1>. /\ call \in [PortCalls -> CallRecords] /\ thread \in [PortCalls -> ThreadRecords]
       /\ row \in [PortCalls -> RowRecords] /\ reserved \in [PortCalls -> Nat]
       /\ booked \in [PortCalls -> Nat] /\ billed \in [PortCalls -> Nat]
    BY SpendTypes
  <1>1. call'[c] = call[c]
    BY DEF CallStep, BeginCall, PreCheck, AskReserve, ReserveInMemory, WriteReservation, Send,
           SendRefused, NotBilled, Unreported, Reported, EndRequest, GiveUp, Cancel,
           SettleInMemory, SettleRow
  <1>2. thread'[c] = thread[c]
    BY DEF CallStep, BeginCall, PreCheck, AskReserve, ReserveInMemory, WriteReservation, Send,
           SendRefused, NotBilled, Unreported, Reported, GiveUp, Cancel, SettleInMemory, SettleRow
  <1>3. row'[c] = row[c] /\ booked'[c] = booked[c]
    BY DEF CallStep, BeginCall, PreCheck, AskReserve, ReserveInMemory, WriteReservation, Send,
           SendRefused, NotBilled, Unreported, Reported, GiveUp, Cancel, SettleInMemory, SettleRow,
           OpenInFlight, RaiseInFlight
  <1>4. reserved'[c] = reserved[c] /\ billed'[c] = billed[c]
    BY DEF CallStep, BeginCall, PreCheck, AskReserve, ReserveInMemory, WriteReservation, Send,
           SendRefused, NotBilled, Unreported, Reported, GiveUp, Cancel, SettleInMemory, SettleRow
  <1>. QED  BY <1>1, <1>2, <1>3, <1>4

LEMMA RunsStay ==
    ASSUME NEW c \in PortCalls, CallStep(c), SpendTypeOK, NEW r \in MeteredRuns
    PROVE  (Up(r)' <=> Up(r)) /\ meter'[r].state = meter[r].state /\ meter'[r].cap = meter[r].cap
  <1>. meter \in [MeteredRuns -> MeterRecords] /\ meter[r] \in MeterRecords
    BY SpendTypes
  <1>1. \/ meter' = meter
        \/ \E o : meter' = [meter EXCEPT ![o].halted = TRUE]
        \/ \E o, spent : meter' = [meter EXCEPT ![o].spent = spent]
    BY DEF CallStep, BeginCall, PreCheck, AskReserve, ReserveInMemory, WriteReservation, Send,
           SendRefused, NotBilled, Unreported, Reported, GiveUp, Cancel, SettleInMemory, SettleRow,
           HaltRun
  <1>2. meter'[r].state = meter[r].state /\ meter'[r].cap = meter[r].cap
    BY <1>1 DEF MeterRecords
  <1>. QED  BY <1>2 DEF Up

LEMMA MeteredStep ==
    ASSUME MeteredInv, [NextSpend]_spendVars
    PROVE  MeteredInv'
  <1>1. SpendTypeOK'
    BY SpendTypesStep
  <1>2. SUFFICES ASSUME NEW c \in PortCalls PROVE CallInv(c)'
    BY <1>1 DEF MeteredInv
  <1>3. /\ call \in [PortCalls -> CallRecords] /\ thread \in [PortCalls -> ThreadRecords]
        /\ row \in [PortCalls -> RowRecords] /\ meter \in [MeteredRuns -> MeterRecords]
        /\ reserved \in [PortCalls -> Nat] /\ booked \in [PortCalls -> Nat]
        /\ billed \in [PortCalls -> Nat]
    BY SpendTypes DEF MeteredInv
  <1>4. CallInv(c) /\ PlaceInv(c) /\ MeterInv(c) /\ RowInv(c)
    BY DEF MeteredInv, CallInv
  <1>5. call[c].run \in MeteredRuns \cup {NoRun} /\ row[c].status \in {"none", "in_flight", "settled"}
    BY <1>3 DEF CallRecords, RowRecords
  <1>6. CASE UNCHANGED spendVars
    BY <1>4, <1>6, CallStays DEF spendVars, Up
  <1>7. ASSUME NEW r \in MeteredRuns, NEW cap \in Caps, StartRun(r, cap) PROVE CallInv(c)'
    <2>1. UNCHANGED <<reserved, call, thread, row, booked, billed>>
      BY <1>7 DEF StartRun
    <2>2. ASSUME NEW o \in MeteredRuns, Up(o) PROVE Up(o)'
      BY <1>3, <1>7, <2>2 DEF StartRun, Up
    <2>3. Up(call[c].run) => Up(call[c].run)' \/ call[c].run = NoRun
      BY <1>5, <2>1, <2>2 DEF Up
    <2>. QED  BY <1>4, <2>1, <2>3, CallStays
  <1>8. ASSUME NEW d \in PortCalls, CallStep(d) PROVE CallInv(c)'
    <2>1. CASE c = d
      BY <1>8, <2>1, CallKeeps
    <2>2. CASE c # d
      <3>1. /\ call'[c] = call[c] /\ thread'[c] = thread[c] /\ row'[c] = row[c]
            /\ reserved'[c] = reserved[c] /\ billed'[c] = billed[c]
        BY <1>8, <2>2, OneCallMoves DEF MeteredInv
      <3>2. \A o \in MeteredRuns : Up(o)' <=> Up(o)
        BY <1>8, RunsStay DEF MeteredInv
      <3>3. call[c].run # NoRun => (Up(call[c].run) => Up(call[c].run)')
        BY <1>5, <3>1, <3>2 DEF Up
      <3>. QED  BY <1>4, <3>1, <3>3, CallStays
    <2>. QED  BY <2>1, <2>2
  <1>9. ASSUME NEW r \in MeteredRuns, StopRun(r) PROVE CallInv(c)'
    <2>1. CASE call[c].run # r
      <3>1. /\ call'[c] = call[c] /\ thread'[c] = thread[c] /\ row'[c] = row[c]
            /\ reserved'[c] = reserved[c] /\ billed'[c] = billed[c]
        BY <1>3, <1>9, <2>1 DEF StopRun
      <3>2. call[c].run # NoRun => (Up(call[c].run) => Up(call[c].run)')
        BY <1>3, <1>5, <1>9, <2>1, <3>1 DEF StopRun, Up
      <3>. QED  BY <1>4, <3>1, <3>2, CallStays
    <2>2. CASE call[c].run = r
      <3>1. /\ reserved'[c] = 0 /\ thread'[c] = Quiet /\ row'[c] = row[c] /\ billed'[c] = billed[c]
        BY <1>3, <1>9, <2>2 DEF StopRun
      <3>2. /\ call'[c] = [Free EXCEPT !.pc = IF Overtaken(c) THEN "overtaken" ELSE "done"]
        BY <1>3, <1>9, <2>2 DEF StopRun
      <3>3. /\ call'[c].run = NoRun /\ call'[c].bound = 0 /\ call'[c].charge = 0 /\ Cost(c)' = 0
            /\ call'[c].pc = IF Overtaken(c) THEN "overtaken" ELSE "done"
        BY <3>2 DEF Free, Cost
      <3>4. PlaceInv(c)'
        BY <3>1, <3>3 DEF PlaceInv, CallAt, Unsettled, Settling, Quiet
      <3>5. MeterInv(c)'
        BY <3>3 DEF MeterInv, CallAt, Unsettled, Settling
      <3>6. RowInv(c)'
        <4>1. thread'[c].pc = "none"
          BY <3>1 DEF Quiet
        <4>2. call'[c].pc \notin Unsettled /\ ~CallAt(c, "sent")' /\ call'[c].pc \in {"done", "overtaken"}
          BY <3>3 DEF CallAt, Unsettled
        <4>3. row[c].status = "in_flight" /\ ~Understated(c)' => billed[c] <= row[c].cost
          <5>1. SUFFICES ASSUME row[c].status = "in_flight", ~Understated(c)'
                         PROVE  billed[c] <= row[c].cost
            OBVIOUS
          <5>2. ~Overtaken(c) /\ ~CallAt(c, "overtaken")
            BY <1>4, <2>2, <1>9, <3>1, <3>3, <5>1, SpendAssumption
               DEF Understated, CallAt, PlaceInv
          <5>. QED  BY <1>4, <5>1, <5>2 DEF RowInv, Understated
        <4>. QED  BY <1>4, <3>1, <3>3, <4>1, <4>2, <4>3 DEF RowInv
      <3>. QED  BY <3>4, <3>5, <3>6 DEF CallInv
    <2>. QED  BY <2>1, <2>2
  <1>. QED  BY <1>6, <1>7, <1>8, <1>9 DEF NextSpend

(* The meter's bookkeeping is exact at every step: what the run reserved    *)
(* covers what its requests may cost, and the ledger's rows show it.        *)
THEOREM SpendInductive == SpendSpec => []MeteredInv
  <1>1. InitSpend => MeteredInv
    BY SpendStarts
  <1>2. MeteredInv /\ [NextSpend]_spendVars => MeteredInv'
    BY MeteredStep
  <1>. QED  BY <1>1, <1>2, PTL DEF SpendSpec

(* Meters, calls and rows hold values of their types. *)
THEOREM SpendTypesHold == SpendSpec => []SpendTypeOK
  <1>1. MeteredInv => SpendTypeOK
    BY DEF MeteredInv
  <1>. QED  BY <1>1, SpendInductive, PTL

(* What the provider bills for a call is in the ledger, whatever failed and *)
(* whenever its process stopped, but for an overtaken reservation.          *)
THEOREM ChargedInFull == SpendSpec => []ChargedAtMost
  <1>1. MeteredInv => ChargedAtMost
    <2>1. SUFFICES ASSUME MeteredInv, NEW c \in PortCalls, ~Understated(c)
                   PROVE  billed[c] <= Charged(c)
      BY DEF ChargedAtMost
    <2>2. /\ row[c].cost \in Nat /\ booked[c] \in Nat /\ billed[c] \in Nat
      BY <2>1, Fields DEF MeteredInv
    <2>3. row[c].status \in {"none", "in_flight", "settled"}
      BY <2>1, SpendTypes DEF MeteredInv, RowRecords
    <2>4. RowInv(c)
      BY <2>1 DEF MeteredInv, CallInv
    <2>5. billed[c] = 0 \/ billed[c] <= row[c].cost
      BY <2>1, <2>3, <2>4 DEF RowInv
    <2>. QED  BY <2>2, <2>5 DEF Charged
  <1>. QED  BY <1>1, SpendInductive, PTL

(* A settled row is final: no later step charges the call again. *)
THEOREM RowsSettleOnce == SpendSpec => SettledOnce
  <1>1. MeteredInv /\ [NextSpend]_spendVars =>
          [\A c \in PortCalls : row[c].status = "settled" => row'[c] = row[c]]_row
    <2>1. SUFFICES ASSUME MeteredInv, NextSpend, NEW c \in PortCalls, row[c].status = "settled"
                   PROVE  row'[c] = row[c]
      BY DEF spendVars
    <2>2. row \in [PortCalls -> RowRecords] /\ CallInv(c)
      BY <2>1, SpendTypes DEF MeteredInv
    <2>3. call[c].pc \in {"done", "overtaken"}
      BY <2>1, <2>2 DEF CallInv, RowInv
    <2>4. ASSUME NEW r \in MeteredRuns, StopRun(r) \/ \E cap \in Caps : StartRun(r, cap)
          PROVE  row' = row
      BY <2>4 DEF StopRun, StartRun
    <2>5. ASSUME NEW d \in PortCalls, CallStep(d) PROVE row'[c] = row[c]
      <3>1. row' = row \/ WriteReservation(d) \/ SettleRow(d)
        BY <2>5 DEF CallStep, BeginCall, PreCheck, AskReserve, ReserveInMemory, Send, SendRefused,
                    NotBilled, Unreported, Reported, GiveUp, Cancel, SettleInMemory
      <3>2. CASE WriteReservation(d)
        BY <2>1, <2>2, <3>2 DEF WriteReservation, OpenInFlight, RaiseInFlight, RowRecords
      <3>3. CASE SettleRow(d)
        <4>1. c # d
          BY <2>3, <3>3 DEF SettleRow
        <4>. QED  BY <2>2, <3>3, <4>1 DEF SettleRow
      <3>. QED  BY <3>1, <3>2, <3>3
    <2>. QED  BY <2>1, <2>4, <2>5 DEF NextSpend
  <1>. QED  BY <1>1, SpendInductive, PTL DEF SpendSpec, SettledOnce

-----------------------------------------------------------------------------
(* The cap of the run. *)

(* What the sums of the cap range over. *)
LEMMA Shares ==
    ASSUME SpendTypeOK, NEW r \in MeteredRuns, NEW c \in PortCalls
    PROVE  /\ HeldOf(r)[c] = IF call[c].run = r THEN reserved[c] ELSE 0
           /\ OwedOf(r)[c] = IF call[c].run = r /\ call[c].pc \in Unsettled THEN 0 ELSE billed[c]
           /\ HeldOf(r)[c] \in Nat /\ OwedOf(r)[c] \in Nat
  BY Fields DEF HeldOf, OwedOf

LEMMA TotalsNat ==
    ASSUME SpendTypeOK, NEW r \in MeteredRuns
    PROVE  /\ Total(HeldOf(r)) \in Nat /\ Total(OwedOf(r)) \in Nat /\ Bill \in Nat
           /\ Bill = Total(billed) /\ meter[r].spent \in Nat /\ meter[r].cap \in Nat
  <1>1. \A c \in PortCalls : HeldOf(r)[c] \in Nat /\ OwedOf(r)[c] \in Nat /\ billed[c] \in Nat
    BY Shares, Fields
  <1>2. Bill = Total(billed)
    <2>1. DOMAIN billed = PortCalls
      BY DEF SpendTypeOK
    <2>. QED  BY <2>1 DEF Bill, SumFunction, Total
  <1>3. /\ Total(HeldOf(r)) \in Nat /\ Total(OwedOf(r)) \in Nat /\ Total(billed) \in Nat
    BY <1>1, SpendAssumption, SumNat DEF Total
  <1>4. meter[r] \in MeterRecords
    BY SpendTypes
  <1>. QED  BY <1>2, <1>3, <1>4 DEF MeterRecords

(* What a run has committed is what it has spent and what its calls hold. *)
LEMMA CommittedIs ==
    ASSUME SpendTypeOK, NEW r \in MeteredRuns
    PROVE  Committed(r) = meter[r].spent + Total(HeldOf(r))
  <1>. DEFINE kept == [c \in PortCalls |-> IF c \in CallsOf(r) THEN reserved[c] ELSE 0]
  <1>1. CallsOf(r) \subseteq PortCalls /\ \A c \in PortCalls : reserved[c] \in Nat
    BY Fields DEF CallsOf
  <1>2. SumFunctionOnSet(reserved, CallsOf(r)) = SumFunctionOnSet(kept, PortCalls)
    BY <1>1, SpendAssumption, SumOfPart
  <1>3. kept = HeldOf(r)
    BY DEF HeldOf, CallsOf
  <1>. QED  BY <1>2, <1>3 DEF Committed, Total

(* Whatever the provider bills for the request that goes out, all it bills   *)
(* is no more than the run has committed.                                    *)
LEMMA BillCommitted ==
    ASSUME MeteredInv, NEW r \in MeteredRuns, Total(OwedOf(r)) <= meter[r].spent,
           NEW c \in PortCalls, call[c].run = r, CallAt(c, "reserving"), thread[c].pc = "reserved",
           NEW charge \in 0..thread[c].bound, NEW bills,
           bills = [billed EXCEPT ![c] = billed[c] + charge]
    PROVE  /\ Total(bills) \in Nat
           /\ Total(bills) <= meter[r].spent + Total(HeldOf(r))
  <1>. SpendTypeOK
    BY DEF MeteredInv
  <1>1. ASSUME NEW d \in PortCalls
        PROVE  /\ OwedOf(r)[d] \in Nat /\ HeldOf(r)[d] \in Nat /\ bills[d] \in Nat
               /\ bills[d] <= OwedOf(r)[d] + HeldOf(r)[d]
    <2>1. /\ call[d].bound \in Nat /\ call[d].charge \in Nat /\ reserved[d] \in Nat
          /\ billed[d] \in Nat /\ thread[d].bound \in Nat /\ Cost(d) \in Nat
      BY Fields, CostNat
    <2>2. ThreadHeld(d) \in Nat
      BY <2>1 DEF ThreadHeld
    <2>3. MeterInv(d)
      BY DEF MeteredInv, CallInv
    <2>4. bills[d] = IF d = c THEN billed[d] + charge ELSE billed[d]
      BY DEF SpendTypeOK
    <2>5. CASE d = c
      <3>1. /\ call[c].charge = 0 /\ call[c].pc \in Unsettled /\ ThreadHeld(c) = thread[c].bound
            /\ Cost(c) + call[c].bound + ThreadHeld(c) <= reserved[c]
            /\ billed[c] <= Cost(c) + call[c].charge
        BY <2>3, <2>5 DEF MeterInv, CallAt, Unsettled, ThreadHeld
      <3>2. OwedOf(r)[c] = 0 /\ HeldOf(r)[c] = reserved[c]
        BY <3>1, Shares
      <3>. QED  BY <2>1, <2>4, <2>5, <3>1, <3>2
    <2>6. CASE d # c
      <3>1. call[d].pc \in Unsettled => billed[d] <= reserved[d]
        <4>1. SUFFICES ASSUME call[d].pc \in Unsettled PROVE billed[d] <= reserved[d]
          OBVIOUS
        <4>2. /\ Cost(d) + call[d].bound + ThreadHeld(d) <= reserved[d]
              /\ billed[d] <= Cost(d) + call[d].charge
              /\ call[d].charge <= call[d].bound
          BY <2>3, <4>1 DEF MeterInv
        <4>. QED  BY <2>1, <2>2, <4>2
      <3>. QED  BY <2>1, <2>4, <2>6, <3>1, Shares
    <2>. QED  BY <2>5, <2>6
  <1>2. Total(bills) <= Total(OwedOf(r)) + Total(HeldOf(r))
    BY <1>1, SpendAssumption, SumOfBoth DEF Total
  <1>3. Total(bills) \in Nat
    BY <1>1, SpendAssumption, SumNat DEF Total
  <1>. QED  BY <1>2, <1>3, TotalsNat

(* The run of a call that moves is up. *)
LEMMA CallInRun ==
    ASSUME MeteredInv, NEW c \in PortCalls, CallStep(c)
    PROVE  \E r \in MeteredRuns : /\ Up(r) /\ call'[c].run = r
                                  /\ (call[c].run = r \/ BeginCall(c, r))
  <1>1. /\ call \in [PortCalls -> CallRecords] /\ call[c] \in CallRecords
    BY SpendTypes DEF MeteredInv
  <1>2. PlaceInv(c)
    BY DEF MeteredInv, CallInv
  <1>3. ASSUME NEW r \in MeteredRuns, BeginCall(c, r) PROVE Up(r) /\ call'[c].run = r
    BY <1>1, <1>3 DEF BeginCall, CallRecords
  <1>4. CASE \A r \in MeteredRuns : ~BeginCall(c, r)
    <2>1. call[c].run # NoRun
      <3>1. CASE ReserveInMemory(c) \/ WriteReservation(c)
        BY <1>2, <3>1 DEF PlaceInv, ReserveInMemory, WriteReservation, Quiet
      <3>2. CASE ~ReserveInMemory(c) /\ ~WriteReservation(c)
        <4>1. call[c].pc \in Unsettled \cup Settling
          BY <1>4, <3>2 DEF CallStep, PreCheck, AskReserve, Send, SendRefused, NotBilled, Unreported,
                Reported, GiveUp, Cancel, SettleInMemory, SettleRow, CallAt, Unsettled, Settling
        <4>. QED  BY <1>2, <4>1 DEF PlaceInv
      <3>. QED  BY <3>1, <3>2
    <2>2. call[c].run \in MeteredRuns /\ Up(call[c].run)
      BY <1>1, <1>2, <2>1 DEF PlaceInv, CallRecords
    <2>3. call'[c].run = call[c].run
      <3>1. CASE \E bound \in Bounds : PreCheck(c, bound) \/ AskReserve(c, bound)
        BY <1>1, <3>1 DEF PreCheck, AskReserve, CallRecords
      <3>2. CASE ReserveInMemory(c) \/ WriteReservation(c) \/ SendRefused(c) \/ GiveUp(c) \/ Cancel(c)
        BY <1>1, <3>2 DEF ReserveInMemory, WriteReservation, SendRefused, GiveUp, Cancel, CallRecords
      <3>3. CASE Send(c)
        BY <1>1, <3>3 DEF Send, CallRecords
      <3>4. CASE NotBilled(c) \/ Unreported(c) \/ Reported(c)
        BY <1>1, <3>4 DEF NotBilled, Unreported, Reported, EndRequest, CallRecords
      <3>5. CASE SettleInMemory(c)
        BY <1>1, <3>5 DEF SettleInMemory, CallRecords
      <3>6. CASE SettleRow(c)
        BY <1>1, <3>6 DEF SettleRow, Free
      <3>. QED  BY <1>4, <3>1, <3>2, <3>3, <3>4, <3>5, <3>6 DEF CallStep
    <2>. QED  BY <2>2, <2>3
  <1>. QED  BY <1>3, <1>4

(* A step of a call that neither reserves nor settles in the meter leaves   *)
(* its shares, and what the run has spent, as they were.                    *)
LEMMA SharesStay ==
    ASSUME MeteredInv, MeteredInv', NEW c \in PortCalls, CallStep(c), NEW r \in MeteredRuns,
           call'[c].run = r, (call[c].run = r \/ BeginCall(c, r)),
           ~ReserveInMemory(c), ~SettleInMemory(c)
    PROVE  /\ HeldOf(r)'[c] = HeldOf(r)[c] /\ OwedOf(r)'[c] = OwedOf(r)[c]
           /\ meter'[r].spent = meter[r].spent
  <1>0. SpendTypeOK /\ SpendTypeOK' /\ PlaceInv(c) /\ PlaceInv(c)' /\ r # NoRun
    BY SpendAssumption DEF MeteredInv, CallInv
  <1>1. /\ HeldOf(r)[c] = IF call[c].run = r THEN reserved[c] ELSE 0
        /\ OwedOf(r)[c] = IF call[c].run = r /\ call[c].pc \in Unsettled THEN 0 ELSE billed[c]
    BY <1>0, Shares
  <1>2. /\ HeldOf(r)'[c] = reserved'[c]
        /\ OwedOf(r)'[c] = IF call'[c].pc \in Unsettled THEN 0 ELSE billed'[c]
    BY DEF HeldOf, OwedOf
  <1>3. /\ call \in [PortCalls -> CallRecords] /\ call[c] \in CallRecords
        /\ meter \in [MeteredRuns -> MeterRecords]
        /\ reserved \in [PortCalls -> Nat] /\ billed \in [PortCalls -> Nat]
    BY <1>0, SpendTypes
  <1>4. reserved'[c] = reserved[c]
    BY DEF CallStep, BeginCall, PreCheck, AskReserve, WriteReservation, Send,
           SendRefused, NotBilled, Unreported, Reported, GiveUp, Cancel, SettleRow
  <1>5. meter'[r].spent = meter[r].spent
    <2>1. meter' = meter \/ \E o : meter' = [meter EXCEPT ![o].halted = TRUE]
      BY DEF CallStep, BeginCall, PreCheck, AskReserve, WriteReservation, Send, HaltRun,
           SendRefused, NotBilled, Unreported, Reported, GiveUp, Cancel, SettleRow
    <2>2. meter[r] \in MeterRecords
      BY <1>3
    <2>. QED  BY <1>3, <2>1, <2>2 DEF MeterRecords
  <1>6. CASE BeginCall(c, r)
    <2>1. CallAt(c, "free") /\ call'[c].pc = "begun" /\ UNCHANGED <<reserved, billed>>
      BY <1>3, <1>6 DEF BeginCall, CallRecords
    <2>2. call[c].run = NoRun /\ reserved[c] = 0 /\ billed[c] = 0
      BY <1>0, <2>1 DEF PlaceInv, Free
    <2>. QED  BY <1>0, <1>1, <1>2, <1>5, <2>1, <2>2 DEF Unsettled
  <1>7. CASE call[c].run = r
    <2>1. OwedOf(r)'[c] = OwedOf(r)[c]
      <3>1. CASE Send(c)
        <4>1. call[c].pc \in Unsettled /\ call'[c].pc \in Unsettled
          BY <1>3, <3>1 DEF Send, CallRecords, CallAt, Unsettled
        <4>. QED  BY <1>1, <1>2, <1>7, <4>1
      <3>2. CASE ~Send(c)
        <4>1. billed' = billed
          BY <3>2 DEF CallStep, BeginCall, PreCheck, AskReserve, WriteReservation,
             SendRefused, NotBilled, Unreported, Reported, GiveUp, Cancel, SettleRow
        <4>2. billed[c] = 0 \/ (call[c].pc \in Unsettled <=> call'[c].pc \in Unsettled)
          <5>1. ASSUME NEW bound \in Bounds, PreCheck(c, bound) PROVE billed[c] = 0
            BY <1>0, <5>1 DEF PreCheck, PlaceInv
          <5>2. ASSUME NEW bound \in Bounds, AskReserve(c, bound) PROVE <4>2
            BY <1>3, <5>2 DEF AskReserve, CallAt, Unsettled, CallRecords
          <5>3. CASE WriteReservation(c)
            BY <5>3 DEF WriteReservation
          <5>4. CASE SendRefused(c) \/ GiveUp(c) \/ Cancel(c)
            BY <1>3, <5>4 DEF SendRefused, GiveUp, Cancel, CallAt, Unsettled, CallRecords
          <5>5. CASE NotBilled(c) \/ Unreported(c) \/ Reported(c)
            BY <1>3, <5>5 DEF NotBilled, Unreported, Reported, EndRequest, CallAt, Unsettled, CallRecords
          <5>6. CASE SettleRow(c)
            BY <1>3, <5>6 DEF SettleRow, Free, Unsettled
          <5>7. ASSUME NEW o \in MeteredRuns, BeginCall(c, o) PROVE billed[c] = 0
            BY <1>0, <5>7 DEF BeginCall, PlaceInv
          <5>. QED  BY <3>2, <5>1, <5>2, <5>3, <5>4, <5>5, <5>6, <5>7 DEF CallStep
        <4>. QED  BY <1>1, <1>2, <1>7, <4>1, <4>2
      <3>. QED  BY <3>1, <3>2
    <2>. QED  BY <1>1, <1>2, <1>4, <1>5, <1>7, <2>1
  <1>. QED  BY <1>6, <1>7

(* What the other calls hold and owe stays. *)
LEMMA OthersShares ==
    ASSUME SpendTypeOK, SpendTypeOK', NEW c \in PortCalls, CallStep(c),
           NEW r \in MeteredRuns, NEW d \in PortCalls, d # c
    PROVE  HeldOf(r)'[d] = HeldOf(r)[d] /\ OwedOf(r)'[d] = OwedOf(r)[d]
  <1>1. call'[d] = call[d] /\ reserved'[d] = reserved[d] /\ billed'[d] = billed[d]
    BY OneCallMoves
  <1>. QED  BY <1>1 DEF HeldOf, OwedOf

LEMMA SharesAre ==
    ASSUME NEW r \in MeteredRuns,
           \A d \in PortCalls : HeldOf(r)'[d] = HeldOf(r)[d]
    PROVE  HeldOf(r)' = HeldOf(r)
  BY DEF HeldOf

LEMMA OwedAre ==
    ASSUME NEW r \in MeteredRuns,
           \A d \in PortCalls : OwedOf(r)'[d] = OwedOf(r)[d]
    PROVE  OwedOf(r)' = OwedOf(r)
  BY DEF OwedOf

(* Every step of a call keeps what its run's meter knows. *)
LEMMA SpentStep ==
    ASSUME MeteredInv, MeteredInv', NEW c \in PortCalls, CallStep(c), NEW r \in MeteredRuns,
           call'[c].run = r, (call[c].run = r \/ BeginCall(c, r)), SpentInv(r)
    PROVE  SpentInv(r)'
  <1>0. SpendTypeOK /\ SpendTypeOK' /\ PlaceInv(c) /\ MeterInv(c) /\ r # NoRun
    BY SpendAssumption DEF MeteredInv, CallInv
  <1>1. meter'[r].cap = meter[r].cap
    BY <1>0, RunsStay
  <1>2. /\ Total(HeldOf(r)) \in Nat /\ Total(OwedOf(r)) \in Nat
        /\ meter[r].spent \in Nat /\ meter[r].cap \in Nat
    BY <1>0, TotalsNat
  <1>3. \A d \in PortCalls \ {c} : HeldOf(r)'[d] = HeldOf(r)[d] /\ OwedOf(r)'[d] = OwedOf(r)[d]
    BY <1>0, OthersShares
  <1>4. \A d \in PortCalls : HeldOf(r)'[d] \in Nat /\ OwedOf(r)'[d] \in Nat
    <2>1. ASSUME NEW d \in PortCalls PROVE reserved'[d] \in Nat /\ billed'[d] \in Nat
      BY <1>0 DEF SpendTypeOK
    <2>. QED  BY <2>1 DEF HeldOf, OwedOf
  <1>5. \A d \in PortCalls : HeldOf(r)[d] \in Nat /\ OwedOf(r)[d] \in Nat
    BY <1>0, Shares
  <1>6. /\ Total(HeldOf(r))' \in Nat
        /\ Total(HeldOf(r))' + HeldOf(r)[c] = Total(HeldOf(r)) + HeldOf(r)'[c]
    BY <1>3, <1>4, <1>5, SumChanges, SpendAssumption, SMTT(30) DEF Total
  <1>7. /\ Total(OwedOf(r))' \in Nat
        /\ Total(OwedOf(r))' + OwedOf(r)[c] = Total(OwedOf(r)) + OwedOf(r)'[c]
    BY <1>3, <1>4, <1>5, SumChanges, SpendAssumption DEF Total
  <1>8. Total(OwedOf(r)) <= meter[r].spent
    BY DEF SpentInv
  <1>9. CASE ~ReserveInMemory(c) /\ ~SettleInMemory(c)
    <2>1. /\ HeldOf(r)'[c] = HeldOf(r)[c] /\ OwedOf(r)'[c] = OwedOf(r)[c]
          /\ meter'[r].spent = meter[r].spent
      BY <1>9, SharesStay
    <2>2. HeldOf(r)' = HeldOf(r) /\ OwedOf(r)' = OwedOf(r)
      BY <1>3, <2>1, SharesAre, OwedAre
    <2>. QED  BY <1>1, <2>1, <2>2 DEF SpentInv, Total
  <1>10. CASE ReserveInMemory(c)
    <2>1. thread[c].pc = "asked" /\ UNCHANGED <<meter, call, billed>> /\ call[c].run = r
      BY <1>10, <1>0 DEF ReserveInMemory, BeginCall, CallAt, PlaceInv, Free, Quiet
    <2>2. OwedOf(r)' = OwedOf(r)
      BY <2>1 DEF OwedOf
    <2>3. CASE reserved' = reserved
      <3>1. HeldOf(r)' = HeldOf(r)
        BY <2>1, <2>3 DEF HeldOf
      <3>. QED  BY <2>1, <2>2, <3>1 DEF SpentInv, Total
    <2>4. CASE reserved' # reserved
      <3>1. /\ ~Exceeds(r, thread[c].bound)
            /\ reserved' = [reserved EXCEPT ![c] = reserved[c] + thread[c].bound]
        BY <1>10, <2>1, <2>4 DEF ReserveInMemory
      <3>2. thread[c].bound \in Nat /\ reserved[c] \in Nat
        BY <1>0, Fields
      <3>3. reserved'[c] = reserved[c] + thread[c].bound
        BY <1>0, <3>1 DEF SpendTypeOK
      <3>4. HeldOf(r)[c] = reserved[c] /\ HeldOf(r)'[c] = reserved'[c]
        BY <2>1 DEF HeldOf
      <3>5. Total(HeldOf(r))' = Total(HeldOf(r)) + thread[c].bound
        BY <1>2, <1>6, <3>2, <3>3, <3>4
      <3>6. ~(meter[r].spent + Total(HeldOf(r)) + thread[c].bound > meter[r].cap)
        BY <1>0, <3>1, CommittedIs DEF Exceeds
      <3>7. meter'[r].spent + Total(HeldOf(r))' <= meter'[r].cap
        BY <1>2, <2>1, <3>2, <3>5, <3>6
      <3>8. Total(OwedOf(r))' <= meter'[r].spent
        BY <1>8, <2>1, <2>2 DEF Total
      <3>. QED  BY <3>7, <3>8 DEF SpentInv
    <2>. QED  BY <2>3, <2>4
  <1>11. CASE SettleInMemory(c)
    <2>1. call[c].pc \in {"settle", "halting"} /\ call[c].run = r
      BY <1>11 DEF SettleInMemory, BeginCall, CallAt
    <2>2. /\ reserved' = [reserved EXCEPT ![c] = 0] /\ UNCHANGED billed
          /\ meter' = [meter EXCEPT ![r].spent = meter[r].spent + Cost(c)]
      BY <1>11, <2>1 DEF SettleInMemory
    <2>3. call'[c].pc \in {"booking", "booking, halt"}
      <3>1. call \in [PortCalls -> CallRecords] /\ call[c] \in CallRecords
        BY <1>0, SpendTypes
      <3>2. PICK pc \in {"booking", "booking, halt"} : call' = [call EXCEPT ![c].pc = pc]
        BY <1>11, <2>1, <3>1 DEF SettleInMemory
      <3>. QED  BY <3>1, <3>2 DEF CallRecords
    <2>4. meter'[r].spent = meter[r].spent + Cost(c)
      <3>1. meter \in [MeteredRuns -> MeterRecords] /\ meter[r] \in MeterRecords
        BY <1>0, SpendTypes
      <3>. HIDE DEF Cost
      <3>. QED  BY <2>2, <3>1 DEF MeterRecords
    <2>5. HeldOf(r)[c] = reserved[c] /\ HeldOf(r)'[c] = 0
      <3>1. reserved'[c] = 0
        BY <1>0, <2>2 DEF SpendTypeOK
      <3>. QED  BY <2>1, <3>1 DEF HeldOf
    <2>6. OwedOf(r)[c] = 0 /\ OwedOf(r)'[c] = billed[c]
      BY <2>1, <2>2, <2>3 DEF OwedOf, Unsettled
    <2>7. /\ Cost(c) \in Nat /\ call[c].bound \in Nat /\ reserved[c] \in Nat /\ billed[c] \in Nat
          /\ thread[c].bound \in Nat
      BY <1>0, CostNat, Fields
    <2>8. ThreadHeld(c) \in Nat
      BY <2>7 DEF ThreadHeld
    <2>9. /\ call[c].charge = 0 /\ Cost(c) + call[c].bound + ThreadHeld(c) <= reserved[c]
          /\ billed[c] <= Cost(c) + call[c].charge
      BY <1>0, <2>1 DEF MeterInv, CallAt, Unsettled
    <2>10. Cost(c) <= reserved[c] /\ billed[c] <= Cost(c)
      BY <2>7, <2>8, <2>9
    <2>11. Total(OwedOf(r))' <= meter'[r].spent
      BY <1>2, <1>7, <1>8, <2>4, <2>6, <2>7, <2>10
    <2>12. CASE meter[r].spent + Total(HeldOf(r)) <= meter[r].cap
      <3>1. meter'[r].spent + Total(HeldOf(r))' <= meter'[r].cap
        BY <1>1, <1>2, <1>6, <2>4, <2>5, <2>7, <2>10, <2>12
      <3>. QED  BY <2>11, <3>1 DEF SpentInv
    <2>13. CASE \A d \in PortCalls : HeldOf(r)[d] = 0
      <3>1. \A d \in PortCalls : HeldOf(r)'[d] = 0
        BY <1>3, <2>5, <2>13
      <3>. QED  BY <2>11, <3>1 DEF SpentInv
    <2>. QED  BY <2>12, <2>13 DEF SpentInv
  <1>. QED  BY <1>9, <1>10, <1>11

(* A lost reservation stays lost. *)
LEMMA LostStays ==
    ASSUME MeteredInv, [NextSpend]_spendVars, Lost
    PROVE  Lost'
  <1>. SpendTypeOK
    BY DEF MeteredInv
  <1>1. PICK c \in PortCalls : CallAt(c, "overtaken") /\ row[c].status = "in_flight"
    BY DEF Lost
  <1>2. call[c].run = NoRun /\ thread[c].pc = "none"
    BY <1>1 DEF MeteredInv, CallInv, PlaceInv, Quiet
  <1>3. call'[c] = call[c] /\ row'[c] = row[c]
    <2>1. CASE UNCHANGED spendVars
      BY <2>1 DEF spendVars
    <2>2. ASSUME NEW r \in MeteredRuns, NEW cap \in Caps, StartRun(r, cap) PROVE call'[c] = call[c] /\ row'[c] = row[c]
      BY <2>2 DEF StartRun
    <2>3. ASSUME NEW r \in MeteredRuns, StopRun(r) PROVE call'[c] = call[c] /\ row'[c] = row[c]
      BY <1>2, <2>3, SpendAssumption DEF StopRun, SpendTypeOK
    <2>4. ASSUME NEW d \in PortCalls, CallStep(d) PROVE call'[c] = call[c] /\ row'[c] = row[c]
      <3>1. CASE d # c
        BY <2>4, <3>1, OneCallMoves
      <3>2. CASE d = c
        <4>1. CallStep(c) /\ call[c].pc = "overtaken" /\ thread[c].pc = "none"
          BY <1>1, <1>2, <2>4, <3>2 DEF CallAt
        <4>2. ~ReserveInMemory(c) /\ ~WriteReservation(c) /\ ~SettleInMemory(c) /\ ~SettleRow(c)
          BY <4>1 DEF ReserveInMemory, WriteReservation, SettleInMemory, SettleRow
        <4>3. ASSUME NEW r \in MeteredRuns PROVE ~BeginCall(c, r)
          BY <4>1 DEF BeginCall, CallAt
        <4>4. ASSUME NEW bound \in Bounds PROVE ~PreCheck(c, bound) /\ ~AskReserve(c, bound)
          BY <4>1 DEF PreCheck, AskReserve, CallAt
        <4>5. /\ ~Send(c) /\ ~SendRefused(c) /\ ~NotBilled(c) /\ ~Unreported(c) /\ ~Reported(c)
              /\ ~GiveUp(c) /\ ~Cancel(c)
          BY <4>1 DEF Send, SendRefused, NotBilled, Unreported, Reported, GiveUp, Cancel, CallAt
        <4>. QED  BY <4>1, <4>2, <4>3, <4>4, <4>5 DEF CallStep
      <3>. QED  BY <3>1, <3>2
    <2>. QED  BY <2>1, <2>2, <2>3, <2>4 DEF NextSpend
  <1>. QED  BY <1>1, <1>3 DEF Lost, CallAt

(* While one run at a time is up, a request goes out only against money its *)
(* run still has.                                                           *)
LEMMA BudgetKept ==
    ASSUME MeteredInv, MeteredInv', NEW c \in PortCalls, CallStep(c), NEW r \in MeteredRuns,
           Up(r), call'[c].run = r, SpentInv(r), InBudget
    PROVE  InBudget'
  <1>0. SpendTypeOK /\ SpendTypeOK'
    BY DEF MeteredInv
  <1>1. Granted' = Granted
    <2>1. \A o \in MeteredRuns : meter'[o].state = meter[o].state /\ meter'[o].cap = meter[o].cap
      BY <1>0, RunsStay
    <2>. QED  BY <2>1 DEF Granted
  <1>2. CASE billed' = billed
    BY <1>1, <1>2 DEF InBudget, Bill
  <1>3. CASE billed' # billed
    <2>1. Send(c)
      BY <1>3 DEF CallStep, BeginCall, PreCheck, AskReserve, ReserveInMemory, WriteReservation,
         SendRefused, NotBilled, Unreported, Reported, GiveUp, Cancel, SettleInMemory, SettleRow
    <2>2. /\ CallAt(c, "reserving") /\ thread[c].pc = "reserved" /\ meter' = meter
          /\ reserved' = reserved
      BY <2>1 DEF Send
    <2>3. call[c].run = r
      <3>1. call \in [PortCalls -> CallRecords]
        BY <1>0, SpendTypes
      <3>. QED  BY <2>1, <3>1 DEF Send, CallRecords
    <2>4. reserved[c] > 0
      <3>1. /\ thread[c].bound > 0
            /\ Cost(c) + call[c].bound + thread[c].bound <= reserved[c]
        BY <2>2 DEF MeteredInv, CallInv, PlaceInv, MeterInv, CallAt, Unsettled, ThreadHeld
      <3>2. /\ Cost(c) \in Nat /\ call[c].bound \in Nat /\ reserved[c] \in Nat
            /\ thread[c].bound \in Nat
        BY <1>0, CostNat, Fields
      <3>. QED  BY <3>1, <3>2
    <2>5. HeldOf(r)[c] # 0 /\ reserved[c] \in Nat
      BY <1>0, <2>3, <2>4, Fields DEF HeldOf
    <2>6. meter[r].spent + Total(HeldOf(r)) <= meter[r].cap
      BY <2>5 DEF SpentInv
    <2>8. Bill' = Total(billed')
      <3>1. DOMAIN billed' = PortCalls
        BY <1>0 DEF SpendTypeOK
      <3>. QED  BY <3>1 DEF Bill, SumFunction, Total
    <2>9. Bill' <= meter[r].cap
      <3>1. PICK charge \in 0..thread[c].bound : billed' = [billed EXCEPT ![c] = billed[c] + charge]
        BY <2>1 DEF Send
      <3>2. Total(billed') \in Nat /\ Total(billed') <= meter[r].spent + Total(HeldOf(r))
        BY <2>2, <2>3, <3>1, BillCommitted DEF SpentInv
      <3>3. Total(HeldOf(r)) \in Nat /\ meter[r].spent \in Nat /\ meter[r].cap \in Nat
        BY <1>0, TotalsNat
      <3>. QED  BY <2>6, <2>8, <3>2, <3>3
    <2>10. meter[r].cap \in Granted
      BY DEF Granted, Up
    <2>. QED  BY <1>1, <2>9, <2>10 DEF InBudget
  <1>. QED  BY <1>2, <1>3

LEMMA CapStarts == InitSpend => CapInv
  <1>. SUFFICES ASSUME InitSpend PROVE CapInv
    OBVIOUS
  <1>1. \A r \in MeteredRuns : meter[r].state = "new"
    BY DEF InitSpend
  <1>2. Bill = 0
    <2>1. \A c \in PortCalls : billed[c] = 0
      BY DEF InitSpend
    <2>2. Bill = Total(billed)
      BY DEF InitSpend, Bill, SumFunction, Total
    <2>. DEFINE none == [c \in PortCalls |-> 0]
    <2>3. Total(billed) = SumFunctionOnSet(billed, {})
      <3>1. {} \subseteq PortCalls /\ \A c \in PortCalls : billed[c] \in Nat
        BY <2>1
      <3>2. [c \in PortCalls |-> IF c \in {} THEN billed[c] ELSE 0] = billed
        BY DEF InitSpend
      <3>. QED  BY <3>1, <3>2, SpendAssumption, SumOfPart DEF Total
    <2>. QED  BY <2>2, <2>3, SumEmpty
  <1>. QED  BY <1>1, <1>2 DEF CapInv, OneUp, Up, InBudget

LEMMA CapStep ==
    ASSUME ~Overlapping, MeteredInv, MeteredInv', CapInv, [NextSpend]_spendVars
    PROVE  CapInv'
  <1>0. SpendTypeOK /\ SpendTypeOK' /\ meter \in [MeteredRuns -> MeterRecords]
    BY SpendTypes DEF MeteredInv
  <1>1. CASE UNCHANGED spendVars
    <2>1. \A r \in MeteredRuns : (Up(r)' <=> Up(r)) /\ (SpentInv(r)' <=> SpentInv(r))
      BY <1>1 DEF spendVars, Up, SpentInv, Total, OwedOf, HeldOf
    <2>2. (InBudget' <=> InBudget) /\ (Lost' <=> Lost)
      BY <1>1 DEF spendVars, InBudget, Bill, Granted, Lost, CallAt
    <2>. QED  BY <2>1, <2>2 DEF CapInv, OneUp
  <1>2. ASSUME NEW r \in MeteredRuns, NEW cap \in Caps, StartRun(r, cap) PROVE CapInv'
    <2>1. /\ meter[r].state = "new" /\ \A o \in MeteredRuns : ~Up(o)
          /\ UNCHANGED <<reserved, call, thread, row, booked, billed>>
      BY <1>2 DEF StartRun
    <2>2. /\ meter'[r].state = "up" /\ meter'[r].spent = RunTotal
          /\ \A o \in MeteredRuns \ {r} : meter'[o] = meter[o]
      BY <1>0, <1>2 DEF StartRun, SeededSpend
    <2>3. \A o \in MeteredRuns : Up(o)' => o = r
      BY <2>1, <2>2 DEF Up
    <2>4. SUFFICES ASSUME ~Lost, InBudget PROVE InBudget' /\ SpentInv(r)'
      <3>1. (Lost' <=> Lost) /\ OneUp'
        BY <2>1, <2>3 DEF Lost, CallAt, OneUp
      <3>. QED  BY <2>3, <3>1 DEF CapInv
    <2>5. \A c \in PortCalls : call[c].run = NoRun /\ thread[c].pc = "none"
      <3>1. ASSUME NEW c \in PortCalls PROVE call[c].run = NoRun /\ thread[c].pc = "none"
        <4>1. call[c].run \in MeteredRuns \cup {NoRun} /\ PlaceInv(c)
          BY <1>0, Fields DEF MeteredInv, CallInv
        <4>. QED  BY <2>1, <4>1 DEF PlaceInv, Quiet
      <3>. QED  BY <3>1
    <2>6. InBudget'
      <3>1. Granted \subseteq Granted'
        <4>1. ASSUME NEW o \in MeteredRuns, meter[o].state # "new"
              PROVE  meter'[o].state # "new" /\ meter'[o].cap = meter[o].cap
          BY <2>1, <2>2, <4>1
        <4>. QED  BY <4>1 DEF Granted
      <3>2. Bill' = Bill
        BY <2>1 DEF Bill
      <3>. QED  BY <2>4, <3>1, <3>2 DEF InBudget
    <2>7. SpentInv(r)'
      <3>1. \A c \in PortCalls : HeldOf(r)'[c] = 0 /\ OwedOf(r)'[c] = billed[c]
        BY <2>1, <2>5, SpendAssumption DEF HeldOf, OwedOf
      <3>2. \A c \in PortCalls : billed[c] \in Nat /\ Charged(c) \in Nat /\ billed[c] <= Charged(c)
        <4>1. ASSUME NEW c \in PortCalls PROVE billed[c] <= Charged(c)
          <5>1. ~Understated(c)
            BY <2>4, <2>5 DEF Understated, Overtaken, Lost
          <5>2. /\ row[c].cost \in Nat /\ booked[c] \in Nat /\ billed[c] \in Nat
                /\ row[c].status \in {"none", "in_flight", "settled"}
            BY <1>0, Fields, SpendTypes DEF RowRecords
          <5>3. billed[c] = 0 \/ billed[c] <= row[c].cost
            BY <5>1, <5>2 DEF MeteredInv, CallInv, RowInv
          <5>. QED  BY <5>2, <5>3 DEF Charged
        <4>. QED  BY <1>0, <4>1, Fields, CostNat
      <3>. DEFINE charges == [c \in PortCalls |-> Charged(c)]
                  owed == [c \in PortCalls |-> billed[c]]
      <3>3. RunTotal = SumFunctionOnSet(charges, PortCalls)
        BY DEF RunTotal, SumFunction
      <3>4. \A c \in PortCalls : charges[c] = Charged(c) /\ owed[c] = billed[c]
        OBVIOUS
      <3>5. OwedOf(r)' = owed
        BY <3>1 DEF OwedOf
      <3>. HIDE DEF charges, owed
      <3>6. SumFunctionOnSet(owed, PortCalls) <= SumFunctionOnSet(charges, PortCalls)
        BY <3>2, <3>4, SpendAssumption, SumAtMost
      <3>7. Total(OwedOf(r))' <= meter'[r].spent
        BY <2>2, <3>3, <3>5, <3>6 DEF Total
      <3>. QED  BY <3>1, <3>7 DEF SpentInv
    <2>. QED  BY <2>6, <2>7
  <1>3. ASSUME NEW r \in MeteredRuns, StopRun(r) PROVE CapInv'
    <2>1. \A o \in MeteredRuns : ~Up(o)'
      BY <1>0, <1>3 DEF StopRun, Up, CapInv, OneUp
    <2>2. Lost => Lost'
      BY LostStays
    <2>3. Granted' = Granted /\ Bill' = Bill
      <3>1. \A o \in MeteredRuns : /\ meter'[o].cap = meter[o].cap
                                   /\ meter'[o].state # "new" <=> meter[o].state # "new"
        <4>1. ASSUME NEW o \in MeteredRuns
              PROVE  /\ meter'[o].cap = meter[o].cap
                     /\ meter'[o].state # "new" <=> meter[o].state # "new"
          <5>1. meter[o] \in MeterRecords
            BY <1>0
          <5>. QED  BY <1>0, <1>3, <5>1 DEF StopRun, Up, MeterRecords
        <4>. QED  BY <4>1
      <3>. QED  BY <1>3, <3>1 DEF StopRun, Granted, Bill
    <2>. QED  BY <2>1, <2>2, <2>3 DEF CapInv, OneUp, InBudget
  <1>4. ASSUME NEW c \in PortCalls, CallStep(c) PROVE CapInv'
    <2>1. PICK r \in MeteredRuns : /\ Up(r) /\ call'[c].run = r
                                   /\ (call[c].run = r \/ BeginCall(c, r))
      BY <1>4, CallInRun
    <2>2. \A o \in MeteredRuns : Up(o)' <=> Up(o)
      BY <1>0, <1>4, RunsStay
    <2>3. OneUp'
      BY <2>2 DEF CapInv, OneUp
    <2>4. Lost => Lost'
      BY LostStays
    <2>5. CASE ~Lost
      <3>1. SpentInv(r) /\ InBudget
        BY <2>1, <2>5 DEF CapInv
      <3>2. SpentInv(r)'
        BY <1>4, <2>1, <3>1, SpentStep
      <3>3. InBudget'
        BY <1>4, <2>1, <3>1, BudgetKept
      <3>4. \A o \in MeteredRuns : Up(o)' => o = r
        BY <2>1, <2>2 DEF CapInv, OneUp
      <3>. QED  BY <2>3, <3>2, <3>3, <3>4 DEF CapInv
    <2>. QED  BY <2>3, <2>4, <2>5 DEF CapInv
  <1>. QED  BY <1>1, <1>2, <1>3, <1>4 DEF NextSpend

(* Runs of one run id that follow one another are billed no more than the   *)
(* highest cap any of them was given, unless a reservation was overtaken.   *)
(* Runs that overlap have a cap each: the theorem is about the others.      *)
THEOREM CapHolds ==
    ASSUME ~Overlapping
    PROVE  SpendSpec => []WithinCap
  <1>1. InitSpend => CapInv
    BY CapStarts
  <1>2. MeteredInv /\ MeteredInv' /\ CapInv /\ [NextSpend]_spendVars => CapInv'
    BY CapStep
  <1>3. CapInv => WithinCap
    BY DEF CapInv, WithinCap, Lost, Understated
  <1>. QED  BY <1>1, <1>2, <1>3, SpendInductive, PTL DEF SpendSpec

-----------------------------------------------------------------------------
(* The proposal ledger. The registry is a fold of the ledger, so what it says  *)
(* of the rows below a position stays as it is when rows are added. A decision *)
(* that is about to be appended is either an operation that is committed, or   *)
(* was validated at the very head it is appended at.                           *)

RegistryUpTo(rows, n, reg) ==
    reg = [i \in 0 .. n |-> IF i = 0 THEN EmptyRegistry ELSE Apply(reg[i - 1], rows[i], i)]

LEMMA RegistryExists ==
    ASSUME NEW rows
    PROVE  \A n \in Nat : \E reg : RegistryUpTo(rows, n, reg)
  <1>. DEFINE T == {n \in Nat : ~\E reg : RegistryUpTo(rows, n, reg)}
  <1>1. SUFFICES ASSUME T # {} PROVE FALSE
    OBVIOUS
  <1>2. PICK m \in T : \A i \in T : m <= i
    BY <1>1, LeastNat
  <1>3. m # 0
    <2>1. PICK reg : reg = [i \in 0 .. 0 |-> EmptyRegistry]
      OBVIOUS
    <2>2. RegistryUpTo(rows, 0, reg)
      BY <2>1 DEF RegistryUpTo
    <2>. QED  BY <2>2
  <1>4. m \in Nat /\ m - 1 \in Nat /\ m - 1 \notin T
    BY <1>2, <1>3
  <1>5. PICK p : RegistryUpTo(rows, m - 1, p)
    BY <1>4
  <1>6. PICK q : q = [i \in 0 .. m |->
                         IF i = 0 THEN EmptyRegistry ELSE Apply(p[i - 1], rows[i], i)]
    OBVIOUS
  <1>. HIDE DEF T
  <1>7. \A i \in 0 .. m - 1 : q[i] = p[i]
    <2>1. \A i \in 0 .. m - 1 : i \in 0 .. m
      BY <1>4
    <2>. QED  BY <1>5, <1>6, <2>1 DEF RegistryUpTo
  <1>8. \A i \in 1 .. m : q[i - 1] = p[i - 1]
    BY <1>4, <1>7
  <1>9. RegistryUpTo(rows, m, q)
    <2>1. \A i \in 0 .. m : i # 0 => i \in 1 .. m
      BY <1>4
    <2>2. [i \in 0 .. m |-> IF i = 0 THEN EmptyRegistry ELSE Apply(p[i - 1], rows[i], i)]
             = [i \in 0 .. m |-> IF i = 0 THEN EmptyRegistry ELSE Apply(q[i - 1], rows[i], i)]
      BY <1>8, <2>1
    <2>. QED  BY <1>6, <2>2 DEF RegistryUpTo
  <1>. QED  BY <1>2, <1>9 DEF T

LEMMA RegistryUnfolds ==
    ASSUME NEW rows, NEW n \in Nat, NEW reg, RegistryUpTo(rows, n, reg)
    PROVE  /\ reg[0] = EmptyRegistry
           /\ \A i \in 1 .. n : reg[i] = Apply(reg[i - 1], rows[i], i)
  <1>1. \A i \in 0 .. n : reg[i] = IF i = 0 THEN EmptyRegistry ELSE Apply(reg[i - 1], rows[i], i)
    BY DEF RegistryUpTo
  <1>2. 0 \in 0 .. n /\ \A i \in 1 .. n : i \in 0 .. n /\ i # 0
    OBVIOUS
  <1>. QED  BY <1>1, <1>2

\* Rows that are added above do not change what the rows below fold to.
LEMMA RegistryAgrees ==
    ASSUME NEW rows, NEW n \in Nat, NEW reg, RegistryUpTo(rows, n, reg),
           NEW more, NEW k \in Nat, NEW then, RegistryUpTo(more, k, then),
           n <= k, \A i \in 1 .. n : more[i] = rows[i]
    PROVE  \A i \in 0 .. n : then[i] = reg[i]
  <1>. DEFINE T == {i \in Nat : i <= n /\ then[i] # reg[i]}
  <1>1. SUFFICES ASSUME T # {} PROVE FALSE
    OBVIOUS
  <1>2. PICK m \in T : \A i \in T : m <= i
    BY <1>1, LeastNat
  <1>3. m \in Nat /\ m <= n /\ then[m] # reg[m]
    BY <1>2
  <1>4. m # 0
    BY <1>3, RegistryUnfolds
  <1>5. m \in 1 .. n /\ m \in 1 .. k /\ m - 1 \in Nat /\ m - 1 <= n /\ ~(m <= m - 1)
    BY <1>3, <1>4
  <1>6. then[m - 1] = reg[m - 1]
    BY <1>2, <1>5
  <1>. HIDE DEF T
  <1>7. reg[m] = Apply(reg[m - 1], rows[m], m) /\ then[m] = Apply(then[m - 1], more[m], m)
    BY <1>5, RegistryUnfolds
  <1>. QED  BY <1>3, <1>5, <1>6, <1>7

LEMMA RegistryIs ==
    ASSUME NEW rows, NEW n \in Nat, NEW reg,
           reg = CHOOSE f : RegistryUpTo(rows, n, f)
    PROVE  RegistryUpTo(rows, n, reg)
  <1>1. \E f : RegistryUpTo(rows, n, f)
    BY RegistryExists
  <1>. QED  BY <1>1

\* A batch every item of which decides, and whose nonces nobody used.
Decisive(reg, body) ==
    /\ \A p \in DOMAIN body :
          /\ p \in Known(reg) /\ TargetValid(reg, p, body[p])
          /\ Signed(body[p]) => /\ Matches(body[p])
                                /\ body[p].sig.nonce # 0 /\ body[p].sig.nonce \notin reg.nonces
    /\ \A p, q \in DOMAIN body :
          Signed(body[p]) /\ Signed(body[q]) /\ body[p].sig.nonce = body[q].sig.nonce => p = q

InTime(added) == \A p \in DOMAIN added.body :
                  Signed(added.body[p]) => Fresh(added.body[p].sig.issued, added.at)

Sequenced(rows) == rows \in Seq({rows[i] : i \in DOMAIN rows})

RegistryShape(reg) ==
    reg = [first |-> reg.first, judgment |-> reg.judgment, decision |-> reg.decision,
           nonces |-> reg.nonces, invalid |-> reg.invalid]

Remembers(reg, added) ==
    added.kind = "decision" =>
        \A p \in DOMAIN added.body : Signed(added.body[p]) => added.body[p].sig.nonce \in reg.nonces

RowsDecide(rows, reg) ==
    /\ Sequenced(rows)
    /\ \A n \in 1 .. Len(rows) :
          /\ rows[n].kind \in Kinds
          /\ rows[n].kind = "decision" => Decisive(reg[n - 1], rows[n].body) /\ InTime(rows[n])
    /\ \A n \in 0 .. Len(rows) :
          /\ RegistryShape(reg[n]) /\ reg[n].invalid = {}
          /\ \A m \in 1 .. n : Remembers(reg[n], rows[m])

CallShape(x) ==
    x = [pc |-> x.pc, op |-> x.op, kind |-> x.kind, body |-> x.body, asked |-> x.asked,
         head |-> x.head, expected |-> x.expected, replaying |-> x.replaying, tries |-> x.tries]

Nonced(items) == \A p \in DOMAIN items : items[p].sig = NoSignature \/ items[p].sig.nonce # 0

Prepared(x, rows, reg) ==
    /\ CallShape(x)
    /\ x.pc \in {"load", "validate"} => x.kind = "decision" /\ Nonced(x.asked)
    /\ x.pc = "validate" => x.head \in 0 .. Len(rows)
    /\ x.pc = "append" => x.kind \in Kinds
    /\ x.pc = "append" /\ x.kind = "decision" =>
          \/ \E n \in 1 .. Len(rows) : rows[n].op = x.op
          \/ x.expected \in 0 .. Len(rows) /\ Decisive(reg[x.expected], x.body)

LedgerInv ==
    /\ RowsDecide(log, RegistryAt)
    /\ calls = [c \in Clients |-> calls[c]]
    /\ \A c \in Clients : Prepared(calls[c], log, RegistryAt)

LEMMA LedgerImplies == LedgerInv => EveryRowDecides
  <1>. SUFFICES ASSUME LedgerInv PROVE EveryRowDecides
    OBVIOUS
  <1>1. PICK rows, reg : rows = log /\ reg = RegistryAt
    OBVIOUS
  <1>2. RowsDecide(rows, reg)
    BY <1>1 DEF LedgerInv
  <1>3. Len(rows) \in Nat
    BY <1>2 DEF RowsDecide, Sequenced
  <1>4. Registry.invalid = {}
    BY <1>1, <1>2, <1>3 DEF RowsDecide, Registry, LedgerHead
  <1>5. ASSUME NEW m \in 1 .. Len(rows), NEW n \in 1 .. Len(rows),
               NEW p \in DOMAIN rows[m].body, NEW q \in DOMAIN rows[n].body,
               rows[m].kind = "decision", rows[n].kind = "decision",
               Signed(rows[m].body[p]), rows[m].body[p].sig.nonce = rows[n].body[q].sig.nonce
        PROVE  m = n /\ p = q
    <2>1. /\ Decisive(reg[m - 1], rows[m].body) /\ Decisive(reg[n - 1], rows[n].body)
      BY <1>2, <1>5 DEF RowsDecide
    <2>2. rows[m].body[p].sig.nonce # 0 /\ rows[m].body[p].sig.nonce \notin reg[m - 1].nonces
      BY <1>5, <2>1 DEF Decisive
    <2>3. Signed(rows[n].body[q])
      BY <1>5, <2>2 DEF Signed, NoSignature
    <2>4. rows[n].body[q].sig.nonce \notin reg[n - 1].nonces
      BY <2>1, <2>3 DEF Decisive
    <2>5. CASE m < n
      <3>1. n - 1 \in 0 .. Len(rows) /\ m \in 1 .. n - 1
        BY <1>3, <2>5
      <3>. QED  BY <1>2, <1>5, <2>4, <3>1 DEF RowsDecide, Remembers
    <2>6. CASE n < m
      <3>1. m - 1 \in 0 .. Len(rows) /\ n \in 1 .. m - 1
        BY <1>3, <2>6
      <3>. QED  BY <1>2, <1>5, <2>2, <2>3, <3>1 DEF RowsDecide, Remembers
    <2>7. CASE m = n
      BY <1>5, <2>1, <2>3, <2>7 DEF Decisive
    <2>. QED  BY <1>3, <2>5, <2>6, <2>7
  <1>. QED  BY <1>1, <1>4, <1>5 DEF EveryRowDecides, LedgerHead

\* A row that decides marks nothing invalid, and no row forgets a nonce.
LEMMA ApplyDecides ==
    ASSUME NEW reg, RegistryShape(reg), NEW added, NEW n, added.kind \in Kinds,
           added.kind = "decision" => Decisive(reg, added.body) /\ InTime(added)
    PROVE  /\ RegistryShape(Apply(reg, added, n))
           /\ Apply(reg, added, n).invalid = reg.invalid
           /\ reg.nonces \subseteq Apply(reg, added, n).nonces
           /\ Remembers(Apply(reg, added, n), added)
  <1>1. CASE added.kind = "collect"
    <2>1. PICK first : first = [p \in Proposals |->
                         IF p \in added.body.found /\ reg.first[p] = 0 THEN n ELSE reg.first[p]]
      OBVIOUS
    <2>2. PICK y : y = [reg EXCEPT !.first = first]
      OBVIOUS
    <2>3. y = [first |-> first, judgment |-> reg.judgment, decision |-> reg.decision,
               nonces |-> reg.nonces, invalid |-> reg.invalid]
      BY <2>2 DEF RegistryShape
    <2>4. Apply(reg, added, n) = y
      BY <1>1, <2>1, <2>2 DEF Apply, ApplyCollect
    <2>5. RegistryShape(y) /\ y.invalid = reg.invalid /\ y.nonces = reg.nonces
      BY <2>3 DEF RegistryShape
    <2>. QED  BY <1>1, <2>4, <2>5 DEF Remembers
  <1>2. CASE added.kind = "judgment"
    <2>1. PICK judged : judged = [p \in Proposals |->
                 IF p \in DOMAIN added.body /\ p \in Known(reg) THEN added.body[p] ELSE reg.judgment[p]]
      OBVIOUS
    <2>2. PICK y : y = [reg EXCEPT !.judgment = judged]
      OBVIOUS
    <2>3. y = [first |-> reg.first, judgment |-> judged, decision |-> reg.decision,
               nonces |-> reg.nonces, invalid |-> reg.invalid]
      BY <2>2 DEF RegistryShape
    <2>4. Apply(reg, added, n) = y
      BY <1>2, <2>1, <2>2 DEF Apply, ApplyJudgment
    <2>5. RegistryShape(y) /\ y.invalid = reg.invalid /\ y.nonces = reg.nonces
      BY <2>3 DEF RegistryShape
    <2>. QED  BY <1>2, <2>4, <2>5 DEF Remembers
  <1>3. CASE added.kind = "decision"
    <2>. DEFINE valid == {p \in DOMAIN added.body : Decides(reg, p, added.body[p], added.at)}
                Decided(p) == [status |-> added.body[p].status, into |-> added.body[p].into,
                               by |-> added.body[p].by, signed |-> Signed(added.body[p]),
                               at |-> added.at, position |-> n]
    <2>1. valid = DOMAIN added.body
      BY <1>3 DEF Decisive, InTime, Decides
    <2>2. PICK decided : decided = [p \in Proposals |->
                IF p \in valid /\ Core(added.body[p]) # Core(reg.decision[p]) THEN Decided(p)
                ELSE reg.decision[p]]
      OBVIOUS
    <2>3. PICK nonces : nonces = reg.nonces \union
                {added.body[p].sig.nonce : p \in {q \in valid : Signed(added.body[q])}}
      OBVIOUS
    <2>4. PICK invalid : invalid = reg.invalid \union {<<n, p>> : p \in DOMAIN added.body \ valid}
      OBVIOUS
    <2>5. invalid = reg.invalid
      BY <2>1, <2>4
    <2>6. reg.nonces \subseteq nonces
          /\ \A p \in DOMAIN added.body : Signed(added.body[p]) => added.body[p].sig.nonce \in nonces
      BY <2>1, <2>3
    <2>7. PICK y : y = [reg EXCEPT !.decision = decided, !.nonces = nonces, !.invalid = invalid]
      OBVIOUS
    <2>8. y = [first |-> reg.first, judgment |-> reg.judgment, decision |-> decided,
               nonces |-> nonces, invalid |-> invalid]
      <3>. HIDE DEF valid, Decided
      <3>. QED  BY <2>7 DEF RegistryShape
    <2>9. Apply(reg, added, n) = y
      BY <1>3, <2>2, <2>3, <2>4, <2>7 DEF Apply, ApplyDecision
    <2>10. RegistryShape(y) /\ y.invalid = invalid /\ y.nonces = nonces
      <3>. HIDE DEF valid, Decided
      <3>. QED  BY <2>8 DEF RegistryShape
    <2>. HIDE DEF valid, Decided
    <2>. QED  BY <2>5, <2>6, <2>9, <2>10 DEF Remembers
  <1>. QED  BY <1>1, <1>2, <1>3 DEF Kinds

LEMMA SeqOfItsOwn ==
    ASSUME NEW S, NEW s \in Seq(S)
    PROVE  Sequenced(s)
  <1>1. Len(s) \in Nat /\ DOMAIN s = 1 .. Len(s) /\ s = [i \in 1 .. Len(s) |-> s[i]]
    OBVIOUS
  <1>2. PICK R : R = {s[i] : i \in DOMAIN s}
    OBVIOUS
  <1>3. s \in [1 .. Len(s) -> R]
    BY <1>1, <1>2
  <1>. QED  BY <1>1, <1>2, <1>3, SeqDef DEF Sequenced

LEMMA AppendIs ==
    ASSUME NEW rows, Sequenced(rows), NEW added
    PROVE  /\ Sequenced(Append(rows, added)) /\ Len(rows) \in Nat
           /\ Len(Append(rows, added)) = Len(rows) + 1
           /\ \A i \in 1 .. Len(rows) : Append(rows, added)[i] = rows[i]
           /\ Append(rows, added)[Len(rows) + 1] = added
  <1>1. rows \in Seq({rows[i] : i \in DOMAIN rows})
    BY DEF Sequenced
  <1>2. PICK S : S = {rows[i] : i \in DOMAIN rows} \cup {added}
    OBVIOUS
  <1>3. rows \in Seq(S) /\ added \in S
    BY <1>1, <1>2
  <1>4. Append(rows, added) \in Seq(S)
    BY <1>3
  <1>5. Sequenced(Append(rows, added))
    BY <1>4, SeqOfItsOwn
  <1>. QED  BY <1>3, <1>5

LEMMA RowAdded ==
    ASSUME NEW rows, NEW reg, RowsDecide(rows, reg), RegistryUpTo(rows, Len(rows), reg),
           NEW added, NEW more, Sequenced(more), Len(rows) \in Nat, Len(more) = Len(rows) + 1,
           \A i \in 1 .. Len(rows) : more[i] = rows[i], more[Len(rows) + 1] = added,
           NEW then, RegistryUpTo(more, Len(more), then),
           added.kind \in Kinds,
           added.kind = "decision" => Decisive(reg[Len(rows)], added.body) /\ InTime(added)
    PROVE  /\ RowsDecide(more, then)
           /\ \A i \in 0 .. Len(rows) : then[i] = reg[i]
  <1>2. PICK k : k = Len(rows)
    OBVIOUS
  <1>5. /\ Len(more) = k + 1 /\ k \in Nat
        /\ (\A i \in 1 .. k : more[i] = rows[i]) /\ more[k + 1] = added
    BY <1>2
  <1>7. \A i \in 0 .. k : then[i] = reg[i]
    <2>1. PICK j : j = Len(more)
      OBVIOUS
    <2>2. RegistryUpTo(rows, k, reg) /\ RegistryUpTo(more, j, then)
      BY <1>2, <2>1
    <2>3. k <= j /\ j \in Nat /\ k \in Nat
      BY <1>5, <2>1
    <2>4. \A i \in 1 .. k : more[i] = rows[i]
      BY <1>5
    <2>. QED  BY <2>2, <2>3, <2>4, RegistryAgrees
  <1>8. then[k + 1] = Apply(reg[k], added, k + 1)
    <2>1. k + 1 \in Nat /\ k + 1 \in 1 .. k + 1 /\ k + 1 - 1 = k /\ k \in 0 .. k
      BY <1>5
    <2>2. PICK j : j = Len(more)
      OBVIOUS
    <2>4. j = k + 1 /\ j \in Nat /\ j \in 1 .. j /\ j - 1 = k /\ RegistryUpTo(more, j, then)
      BY <1>5, <2>2
    <2>5. then[j] = Apply(then[j - 1], more[j], j)
      BY <2>4, RegistryUnfolds
    <2>3. then[k + 1] = Apply(then[k], more[k + 1], k + 1)
      BY <2>4, <2>5
    <2>. QED  BY <1>5, <1>7, <2>1, <2>3
  <1>9. RegistryShape(reg[k]) /\ reg[k].invalid = {} /\ \A m \in 1 .. k : Remembers(reg[k], rows[m])
    BY <1>2, <1>5 DEF RowsDecide
  <1>10. /\ RegistryShape(then[k + 1]) /\ then[k + 1].invalid = {}
         /\ reg[k].nonces \subseteq then[k + 1].nonces /\ Remembers(then[k + 1], added)
    BY <1>2, <1>8, <1>9, ApplyDecides
  <1>11. ASSUME NEW n \in 1 .. k + 1
         PROVE  /\ more[n].kind \in Kinds
                /\ more[n].kind = "decision" =>
                      Decisive(then[n - 1], more[n].body) /\ InTime(more[n])
    <2>1. CASE n \in 1 .. k
      <3>1. n - 1 \in 0 .. k
        BY <1>5, <2>1
      <3>. QED  BY <1>2, <1>5, <1>7, <2>1, <3>1 DEF RowsDecide
    <2>2. CASE n = k + 1
      <3>1. n - 1 = k /\ k \in 0 .. k
        BY <1>5, <2>2
      <3>. QED  BY <1>2, <1>5, <1>7, <2>2, <3>1
    <2>. QED  BY <1>5, <2>1, <2>2
  <1>12. ASSUME NEW n \in 0 .. k + 1
         PROVE  /\ RegistryShape(then[n]) /\ then[n].invalid = {}
                /\ \A m \in 1 .. n : Remembers(then[n], more[m])
    <2>1. CASE n \in 0 .. k
      <3>1. \A m \in 1 .. n : m \in 1 .. k
        BY <1>5, <2>1
      <3>. QED  BY <1>2, <1>5, <1>7, <2>1, <3>1 DEF RowsDecide
    <2>2. CASE n = k + 1
      <3>1. \A m \in 1 .. n : m \in 1 .. k \/ m = k + 1
        BY <1>5, <2>2
      <3>2. \A m \in 1 .. k : Remembers(then[n], more[m])
        BY <1>5, <1>9, <1>10, <2>2 DEF Remembers
      <3>. QED  BY <1>5, <1>10, <2>2, <3>1, <3>2
    <2>. QED  BY <1>5, <2>1, <2>2
  <1>. QED  BY <1>2, <1>5, <1>7, <1>11, <1>12 DEF RowsDecide

LEMMA FoldNow ==
    ASSUME Len(log) \in Nat
    PROVE  RegistryUpTo(log, Len(log), RegistryAt)
  <1>1. PICK rows, n, reg : rows = log /\ n = Len(log) /\ reg = RegistryAt
    OBVIOUS
  <1>2. reg = CHOOSE f : RegistryUpTo(rows, n, f)
    BY <1>1 DEF RegistryAt, RegistryUpTo, LedgerHead
  <1>3. RegistryUpTo(rows, n, reg)
    BY <1>1, <1>2, RegistryIs
  <1>. QED  BY <1>1, <1>3

LEMMA FoldThen ==
    ASSUME Len(log') \in Nat
    PROVE  RegistryUpTo(log', Len(log'), RegistryAt')
  <1>1. PICK rows, n, reg : rows = log' /\ n = Len(log') /\ reg = RegistryAt'
    OBVIOUS
  <1>2. reg = CHOOSE f : RegistryUpTo(rows, n, f)
    BY <1>1 DEF RegistryAt, RegistryUpTo, LedgerHead
  <1>3. RegistryUpTo(rows, n, reg)
    BY <1>1, <1>2, RegistryIs
  <1>. QED  BY <1>1, <1>3

LEMMA FoldStays ==
    ASSUME UNCHANGED log
    PROVE  RegistryAt' = RegistryAt
  BY DEF RegistryAt, LedgerHead

\* One client's call changes and no row is added.
LEMMA CallChanges ==
    ASSUME LedgerInv, UNCHANGED log, NEW c \in Clients, NEW x,
           calls' = [calls EXCEPT ![c] = x], Prepared(x, log, RegistryAt)
    PROVE  LedgerInv'
  <1>1. RegistryAt' = RegistryAt
    BY FoldStays
  <1>2. calls = [d \in Clients |-> calls[d]] /\ \A d \in Clients : Prepared(calls[d], log, RegistryAt)
        /\ RowsDecide(log, RegistryAt)
    BY DEF LedgerInv
  <1>3. calls' = [d \in Clients |-> calls'[d]]
        /\ \A d \in Clients : calls'[d] = IF d = c THEN x ELSE calls[d]
    BY <1>2
  <1>4. \A d \in Clients : Prepared(calls'[d], log', RegistryAt')
    BY <1>1, <1>2, <1>3
  <1>. QED  BY <1>1, <1>2, <1>3, <1>4 DEF LedgerInv

LEMMA NoCallPrepared ==
    ASSUME NEW rows, NEW reg
    PROVE  Prepared(NoCall, rows, reg)
  BY DEF Prepared, CallShape, NoCall

LEMMA EndedKeeps ==
    ASSUME LedgerInv, UNCHANGED log, NEW c \in Clients, Ended(c)
    PROVE  LedgerInv'
  BY NoCallPrepared, CallChanges DEF Ended

LEMMA PlanImportKeeps ==
    ASSUME LedgerInv, UNCHANGED log, NEW c \in Clients, NEW tries, PlanImport(c, tries)
    PROVE  LedgerInv'
  <1>1. CASE Ended(c)
    BY <1>1, EndedKeeps
  <1>2. CASE ~Ended(c)
    <2>1. PICK items, head : items = ToImport(Registry) /\ head = LedgerHead
      OBVIOUS
    <2>2. Nonced(items)
      BY <2>1 DEF ToImport, Nonced
    <2>3. PICK x : x = [NoCall EXCEPT !.pc = "load", !.kind = "decision",
                            !.op = <<"legacy", items, 0>>, !.asked = items, !.expected = head,
                            !.tries = tries]
      OBVIOUS
    <2>4. x = [pc |-> "load", op |-> <<"legacy", items, 0>>, kind |-> "decision", body |-> <<>>,
               asked |-> items, head |-> 0, expected |-> head, replaying |-> FALSE,
               tries |-> tries]
      BY <2>3 DEF NoCall
    <2>5. Prepared(x, log, RegistryAt)
      BY <2>2, <2>4 DEF Prepared, CallShape
    <2>6. calls' = [calls EXCEPT ![c] = x]
      BY <1>2, <2>1, <2>3 DEF PlanImport
    <2>. QED  BY <2>5, <2>6, CallChanges
  <1>. QED  BY <1>1, <1>2

LEMMA MovedKeeps ==
    ASSUME LedgerInv, UNCHANGED log, NEW c \in Clients, Moved(c)
    PROVE  LedgerInv'
  BY EndedKeeps, PlanImportKeeps DEF Moved

LEMMA LedgerBeginKeeps ==
    ASSUME LedgerInv, NEW c \in Clients,
           BeginCollect(c) \/ BeginDedupe(c) \/ BeginJudge(c) \/ BeginDecide(c) \/ BeginImport(c)
    PROVE  LedgerInv'
  <1>1. UNCHANGED log
    BY DEF BeginCollect, BeginDedupe, BeginJudge, BeginDecide, BeginImport
  <1>2. CASE BeginCollect(c)
    <2>1. PICK input \in Collects : calls' = [calls EXCEPT ![c] = [NoCall EXCEPT
              !.pc = "append", !.kind = "collect", !.op = <<"collect", input.run, 0>>,
              !.body = input, !.head = LedgerHead]]
      BY <1>2 DEF BeginCollect
    <2>2. PICK op, head : op = <<"collect", input.run, 0>> /\ head = LedgerHead
      OBVIOUS
    <2>3. PICK x : x = [NoCall EXCEPT !.pc = "append", !.kind = "collect", !.op = op,
                                     !.body = input, !.head = head]
      OBVIOUS
    <2>4. x = [pc |-> "append", op |-> op, kind |-> "collect", body |-> input, asked |-> <<>>,
               head |-> head, expected |-> AnyHead, replaying |-> FALSE, tries |-> 0]
      BY <2>3 DEF NoCall
    <2>5. Prepared(x, log, RegistryAt)
      BY <2>4 DEF Prepared, CallShape, Kinds
    <2>. QED  BY <1>1, <2>1, <2>2, <2>3, <2>5, CallChanges
  <1>3. CASE BeginDedupe(c)
    <2>1. PICK lexicon \in Lexicons : calls' = [calls EXCEPT ![c] = [NoCall EXCEPT
              !.pc = "append", !.kind = "judgment",
              !.op = <<"dedupe", Changes(lexicon, Registry), LedgerHead>>,
              !.body = Changes(lexicon, Registry), !.asked = lexicon, !.head = LedgerHead,
              !.expected = LedgerHead]]
      BY <1>3 DEF BeginDedupe
    <2>2. PICK op, body, head : op = <<"dedupe", Changes(lexicon, Registry), LedgerHead>>
                                /\ body = Changes(lexicon, Registry) /\ head = LedgerHead
      OBVIOUS
    <2>3. PICK x : x = [NoCall EXCEPT !.pc = "append", !.kind = "judgment", !.op = op,
                                     !.body = body, !.asked = lexicon, !.head = head,
                                     !.expected = head]
      OBVIOUS
    <2>4. x = [pc |-> "append", op |-> op, kind |-> "judgment", body |-> body, asked |-> lexicon,
               head |-> head, expected |-> head, replaying |-> FALSE, tries |-> 0]
      BY <2>3 DEF NoCall
    <2>5. Prepared(x, log, RegistryAt)
      BY <2>4 DEF Prepared, CallShape, Kinds
    <2>. QED  BY <1>1, <2>1, <2>2, <2>3, <2>5, CallChanges
  <1>4. CASE BeginJudge(c)
    <2>1. PICK request \in Judgings : calls' = [calls EXCEPT ![c] = [NoCall EXCEPT
              !.pc = "append", !.kind = "judgment", !.op = <<"client", request.key, 0>>,
              !.body = request.items, !.asked = request.items, !.head = LedgerHead]]
      BY <1>4 DEF BeginJudge
    <2>2. PICK op, body, head : op = <<"client", request.key, 0>> /\ body = request.items
                                /\ head = LedgerHead
      OBVIOUS
    <2>3. PICK x : x = [NoCall EXCEPT !.pc = "append", !.kind = "judgment", !.op = op,
                                     !.body = body, !.asked = body, !.head = head]
      OBVIOUS
    <2>4. x = [pc |-> "append", op |-> op, kind |-> "judgment", body |-> body, asked |-> body,
               head |-> head, expected |-> AnyHead, replaying |-> FALSE, tries |-> 0]
      BY <2>3 DEF NoCall
    <2>5. Prepared(x, log, RegistryAt)
      BY <2>4 DEF Prepared, CallShape, Kinds
    <2>. QED  BY <1>1, <2>1, <2>2, <2>3, <2>5, CallChanges
  <1>5. CASE BeginDecide(c)
    <2>1. PICK request \in Batches : \E op : calls' = [calls EXCEPT ![c] = [NoCall EXCEPT
              !.pc = "load", !.kind = "decision", !.op = op, !.asked = request.items]]
      BY <1>5 DEF BeginDecide
    <2>2. PICK op : calls' = [calls EXCEPT ![c] = [NoCall EXCEPT
              !.pc = "load", !.kind = "decision", !.op = op, !.asked = request.items]]
      BY <2>1
    <2>3. PICK items : items = request.items
      OBVIOUS
    <2>4. PICK x : x = [NoCall EXCEPT !.pc = "load", !.kind = "decision", !.op = op,
                                     !.asked = items]
      OBVIOUS
    <2>5. x = [pc |-> "load", op |-> op, kind |-> "decision", body |-> <<>>, asked |-> items,
               head |-> 0, expected |-> AnyHead, replaying |-> FALSE, tries |-> 0]
      BY <2>4 DEF NoCall
    <2>6. Nonced(items)
      BY <2>3, BatchAssumption DEF Nonced
    <2>7. Prepared(x, log, RegistryAt)
      BY <2>5, <2>6 DEF Prepared, CallShape
    <2>. QED  BY <1>1, <2>2, <2>3, <2>4, <2>7, CallChanges
  <1>6. CASE BeginImport(c)
    BY <1>1, <1>6, PlanImportKeeps DEF BeginImport
  <1>. QED  BY <1>2, <1>3, <1>4, <1>5, <1>6

LEMMA LoadKeeps ==
    ASSUME LedgerInv, NEW c \in Clients, Load(c)
    PROVE  LedgerInv'
  <1>1. UNCHANGED log /\ calls[c].pc = "load" /\ Prepared(calls[c], log, RegistryAt)
    BY DEF Load, LedgerInv
  <1>2. PICK w, head : w = calls[c] /\ head = LedgerHead
    OBVIOUS
  <1>3. PICK x : x = [w EXCEPT !.pc = "validate", !.head = head]
    OBVIOUS
  <1>4. CallShape(w) /\ w.kind = "decision" /\ Nonced(w.asked)
    BY <1>1, <1>2 DEF Prepared
  <1>5. x = [pc |-> "validate", op |-> w.op, kind |-> w.kind, body |-> w.body, asked |-> w.asked,
             head |-> head, expected |-> w.expected, replaying |-> w.replaying,
             tries |-> w.tries]
    BY <1>3, <1>4 DEF CallShape
  <1>6. head \in 0 .. Len(log)
    <2>1. Len(log) \in Nat
      BY DEF LedgerInv, RowsDecide, Sequenced
    <2>. QED  BY <1>2, <2>1 DEF LedgerHead
  <1>7. Prepared(x, log, RegistryAt)
    BY <1>4, <1>5, <1>6 DEF Prepared, CallShape
  <1>8. calls' = [calls EXCEPT ![c] = x]
    <2>1. calls' = [calls EXCEPT ![c].pc = "validate", ![c].head = LedgerHead]
      BY DEF Load
    <2>2. calls = [d \in Clients |-> calls[d]]
      BY DEF LedgerInv
    <2>. QED  BY <1>2, <1>3, <2>1, <2>2
  <1>. QED  BY <1>1, <1>7, <1>8, CallChanges

\* What was accepted at a head decides at that head.
LEMMA AcceptedDecides ==
    ASSUME NEW reg, NEW op, NEW items, Nonced(items), NEW body, body = StoredBatch(reg, op, items),
           \A p \in DOMAIN body : ItemAccepted(reg, p, body[p], FALSE),
           NoncesUnused(reg, body, FALSE)
    PROVE  Decisive(reg, body)
  <1>1. DOMAIN body = DOMAIN items /\ \A p \in DOMAIN items : body[p].sig = items[p].sig
    BY DEF StoredBatch, Stored
  <1>2. \A p \in DOMAIN body : Signed(body[p]) => body[p].sig.nonce # 0
    BY <1>1 DEF Nonced, Signed
  <1>. QED  BY <1>2 DEF Decisive, ItemAccepted, NoncesUnused

LEMMA ValidateKeeps ==
    ASSUME LedgerInv, NEW c \in Clients, Validate(c)
    PROVE  LedgerInv'
  <1>1. /\ UNCHANGED log /\ calls[c].pc = "validate" /\ Prepared(calls[c], log, RegistryAt)
        /\ Len(log) \in Nat
    BY DEF Validate, LedgerInv, RowsDecide, Sequenced
  <1>2. CASE Ended(c)
    BY <1>1, <1>2, EndedKeeps
  <1>3. CASE Moved(c)
    BY <1>1, <1>3, MovedKeeps
  <1>4. CASE ~Ended(c) /\ ~Moved(c)
    <2>1. PICK w : w = calls[c]
      OBVIOUS
    <2>2. PICK replaying : replaying = (RowsUnder(w.op) # {})
      OBVIOUS
    <2>3. PICK reg, body : reg = RegistryAt[w.head] /\ body = StoredBatch(reg, w.op, w.asked)
      OBVIOUS
    <2>4. PICK expected : expected = ExpectedHead(c, replaying)
      OBVIOUS
    <2>5. /\ \A p \in DOMAIN body : ItemAccepted(reg, p, body[p], replaying)
          /\ NoncesUnused(reg, body, replaying)
          /\ replaying \/ w.expected \in {AnyHead, w.head}
          /\ calls' = [calls EXCEPT ![c].pc = "append", ![c].body = body,
                               ![c].replaying = replaying, ![c].expected = expected]
      BY <1>4, <2>1, <2>2, <2>3, <2>4 DEF Validate
    <2>6. PICK x : x = [w EXCEPT !.pc = "append", !.body = body, !.replaying = replaying,
                                 !.expected = expected]
      OBVIOUS
    <2>7. /\ CallShape(w) /\ w.kind = "decision" /\ Nonced(w.asked) /\ w.head \in 0 .. Len(log)
      BY <1>1, <2>1 DEF Prepared
    <2>8. x = [pc |-> "append", op |-> w.op, kind |-> w.kind, body |-> body, asked |-> w.asked,
               head |-> w.head, expected |-> expected, replaying |-> replaying,
               tries |-> w.tries]
      BY <2>6, <2>7 DEF CallShape
    <2>9. \/ \E n \in 1 .. Len(log) : log[n].op = w.op
          \/ expected \in 0 .. Len(log) /\ Decisive(RegistryAt[expected], body)
      <3>1. CASE replaying
        BY <2>2, <3>1 DEF RowsUnder, LedgerHead
      <3>2. CASE ~replaying
        <4>1. replaying = FALSE
          BY <2>2, <3>2
        <4>2. expected = w.head
          BY <2>1, <2>4, <2>5, <4>1 DEF ExpectedHead
        <4>3. Decisive(reg, body)
          BY <2>3, <2>5, <2>7, <4>1, AcceptedDecides
        <4>. QED  BY <2>3, <2>7, <4>2, <4>3
      <3>. QED  BY <3>1, <3>2
    <2>10. Prepared(x, log, RegistryAt)
      BY <2>7, <2>8, <2>9 DEF Prepared, CallShape, Kinds
    <2>11. calls' = [calls EXCEPT ![c] = x]
      <3>1. calls = [d \in Clients |-> calls[d]]
        BY DEF LedgerInv
      <3>. QED  BY <2>1, <2>5, <2>6, <3>1
    <2>. QED  BY <1>1, <2>10, <2>11, CallChanges
  <1>. QED  BY <1>2, <1>3, <1>4

\* What is prepared stays so when a row is added.
LEMMA PreparedStays ==
    ASSUME NEW rows, NEW reg, NEW more, NEW then, Len(rows) \in Nat, Len(more) = Len(rows) + 1,
           \A i \in 1 .. Len(rows) : more[i] = rows[i],
           \A i \in 0 .. Len(rows) : then[i] = reg[i],
           NEW x, Prepared(x, rows, reg)
    PROVE  Prepared(x, more, then)
  <1>1. \A i \in 1 .. Len(rows) : i \in 1 .. Len(more)
    OBVIOUS
  <1>2. \A i \in 0 .. Len(rows) : i \in 0 .. Len(more)
    OBVIOUS
  <1>. QED  BY <1>1, <1>2 DEF Prepared

LEMMA AppendRowKeeps ==
    ASSUME LedgerInv, NEW c \in Clients, Append_(c)
    PROVE  LedgerInv'
  <1>1. CASE UNCHANGED log
    BY <1>1, EndedKeeps, MovedKeeps DEF Append_
  <1>2. CASE log' # log
    <2>1. PICK w : w = calls[c]
      OBVIOUS
    <2>2. PICK rows, reg, added : rows = log /\ reg = RegistryAt /\ added = Row(w)
      OBVIOUS
    <2>3. PICK more, then : more = log' /\ then = RegistryAt'
      OBVIOUS
    <2>4. /\ w.pc = "append" /\ RowsUnder(w.op) = {} /\ ~HeadMoved(w) /\ CommitTimeOk(w)
          /\ more = Append(rows, added) /\ Ended(c)
      BY <1>2, <2>1, <2>2, <2>3 DEF Append_
    <2>5. RowsDecide(rows, reg) /\ Prepared(w, rows, reg)
      BY <2>1, <2>2 DEF LedgerInv
    <2>6. Sequenced(rows)
      BY <2>5 DEF RowsDecide
    <2>7. /\ Sequenced(more) /\ Len(rows) \in Nat /\ Len(more) = Len(rows) + 1
          /\ \A i \in 1 .. Len(rows) : more[i] = rows[i]
          /\ more[Len(rows) + 1] = added
      BY <2>4, <2>6, AppendIs
    <2>8. RegistryUpTo(rows, Len(rows), reg)
      BY <2>2, <2>7, FoldNow
    <2>9. RegistryUpTo(more, Len(more), then)
      BY <2>3, <2>7, FoldThen
    <2>10. added.kind = w.kind /\ added.body = w.body /\ added.at = now
      BY <2>2 DEF Row
    <2>11. added.kind \in Kinds
      BY <2>4, <2>5, <2>10 DEF Prepared
    <2>12. ASSUME added.kind = "decision"
           PROVE  Decisive(reg[Len(rows)], added.body) /\ InTime(added)
      <3>1. w.expected \in 0 .. Len(rows) /\ Decisive(reg[w.expected], w.body)
        BY <2>2, <2>4, <2>5, <2>10, <2>12 DEF Prepared, RowsUnder, LedgerHead
      <3>2. w.expected = Len(rows)
        BY <2>2, <2>4, <2>7, <3>1 DEF HeadMoved, AnyHead, LedgerHead
      <3>3. InTime(added)
        BY <2>4, <2>10, <2>12 DEF InTime, CommitTimeOk
      <3>. QED  BY <2>10, <3>1, <3>2, <3>3
    <2>13. RowsDecide(more, then) /\ \A i \in 0 .. Len(rows) : then[i] = reg[i]
      BY <2>5, <2>7, <2>8, <2>9, <2>11, <2>12, RowAdded
    <2>14. calls = [d \in Clients |-> calls[d]] /\ \A d \in Clients : Prepared(calls[d], rows, reg)
      BY <2>2 DEF LedgerInv
    <2>15. calls' = [d \in Clients |-> calls'[d]]
           /\ \A d \in Clients : calls'[d] = IF d = c THEN NoCall ELSE calls[d]
      BY <2>4, <2>14 DEF Ended
    <2>16. \A d \in Clients : Prepared(calls[d], more, then)
      BY <2>7, <2>13, <2>14, PreparedStays
    <2>17. \A d \in Clients : Prepared(calls'[d], more, then)
      BY <2>15, <2>16, NoCallPrepared
    <2>. QED  BY <2>3, <2>13, <2>15, <2>17 DEF LedgerInv
  <1>. QED  BY <1>1, <1>2

LEMMA LedgerInit == Init => LedgerInv
  <1>. SUFFICES ASSUME Init PROVE LedgerInv
    OBVIOUS
  <1>1. log = <<>> /\ calls = [c \in Clients |-> NoCall]
    BY DEF Init
  <1>2. Len(log) = 0 /\ DOMAIN log = {} /\ Sequenced(log)
    BY <1>1 DEF Sequenced
  <1>3. RegistryUpTo(log, Len(log), RegistryAt)
    BY <1>2, FoldNow
  <1>4. RegistryAt[0] = EmptyRegistry
    <2>1. PICK rows, reg : rows = log /\ reg = RegistryAt
      OBVIOUS
    <2>2. RegistryUpTo(rows, 0, reg) /\ 0 \in Nat
      BY <1>2, <1>3, <2>1
    <2>. QED  BY <2>1, <2>2, RegistryUnfolds
  <1>5. RegistryShape(EmptyRegistry) /\ EmptyRegistry.invalid = {}
    BY DEF RegistryShape, EmptyRegistry
  <1>6. RowsDecide(log, RegistryAt)
    BY <1>2, <1>4, <1>5 DEF RowsDecide
  <1>. QED  BY <1>1, <1>6, NoCallPrepared DEF LedgerInv

LEMMA LedgerStep ==
    ASSUME LedgerInv, [Next]_vars
    PROVE  LedgerInv'
  <1>1. ASSUME NEW c \in Clients,
               \/ BeginCollect(c) \/ BeginDedupe(c) \/ BeginJudge(c)
               \/ BeginDecide(c) \/ BeginImport(c)
        PROVE  LedgerInv'
    BY <1>1, LedgerBeginKeeps
  <1>2. ASSUME NEW c \in Clients, Load(c) \/ Validate(c) \/ Append_(c)
        PROVE  LedgerInv'
    BY <1>2, LoadKeeps, ValidateKeeps, AppendRowKeeps
  <1>3. CASE Tick \/ UNCHANGED vars
    <2>1. UNCHANGED <<log, calls>>
      BY <1>3 DEF Tick, vars
    <2>2. RegistryAt' = RegistryAt
      BY <2>1, FoldStays
    <2>. QED  BY <2>1, <2>2 DEF LedgerInv
  <1>. QED  BY <1>1, <1>2, <1>3 DEF Next

\* What the clients of the ledger loaded and validated stays true of the rows below the head they
\* loaded, and every committed row decides where it stands: the inductive invariant of the ledger.
THEOREM LedgerInductive == Spec => []LedgerInv
  <1>1. LedgerInv /\ [Next]_vars => LedgerInv'
    BY LedgerStep
  <1>. QED  BY <1>1, LedgerInit, PTL DEF Spec

\* Every decision that the ledger accepts decides, whatever was committed and however much time
\* passed between its validation and its append, and a signature decides once.
THEOREM AcceptedRowsDecide == Spec => []EveryRowDecides
  BY LedgerInductive, LedgerImplies, PTL
=============================================================================
