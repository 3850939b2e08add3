------------------------------- MODULE Tagging --------------------------------
(* How one unit gets its FOLIO tags: four paths offer concepts, the offers are *)
(* reconciled, a carried IRI is kept only if the entity ruler gave it or the   *)
(* text it was matched from names the concept (B9), the deterministic gates    *)
(* veto, and the LLM judge rules on what is left (pipeline/stages/             *)
(* folio_tagger.py, services/bridge/reconciliation_bridge.py).                 *)
(*                                                                             *)
(* A text is what the paths find in it, so word matching, embedding scores     *)
(* and confidences are left out. An LLM path offers labels, the others         *)
(* concepts, which they call by the concept's own label.                       *)
EXTENDS Integers, FiniteSets, Sequences

CONSTANTS
    Concepts,    \* FOLIO concepts, by IRI
    Labels,      \* labels: those of the concepts and others
    LabelOf,     \* concept -> its preferred label
    Resolves,    \* label -> the concepts LabelResolver finds for it (several when conjoined)
    Places,      \* the concepts of place and governmental-body branches
    Blocked,     \* <<label, concept>> pairs of the seed alias blocklist
    NoIri        \* the IRI of a proposed class

ASSUME TaggingAssumption ==
    /\ LabelOf \in [Concepts -> Labels]
    /\ Resolves \in [Labels -> SUBSET Concepts]
    /\ Places \subseteq Concepts
    /\ NoIri \notin Concepts

\* What the paths find in a text and in its headings; named and headed are the concepts
\* whose labels the text and the headings spell out.
Texts(ruler, llm, semantic, heading, named, headed) ==
    [ruler : ruler, llm : llm, semantic : semantic, heading : heading,
     named : named, headed : headed]

AnyText ==
    Texts(SUBSET Concepts, SUBSET Labels, Seq(Concepts), Seq(Concepts),
          SUBSET Concepts, SUBSET Concepts)

-----------------------------------------------------------------------------
(* Reconciliation.                                                             *)

Entry(iri, label, paths, from) ==
    [iri |-> iri, label |-> label, paths |-> paths, from |-> from]

\* folio_resolve.Reconciler: an LLM label the ruler matched too is one concept on two paths.
Base(text) ==
    {Entry(c, LabelOf[c],
           {"entity_ruler"} \union (IF LabelOf[c] \in text.llm THEN {"llm"} ELSE {}),
           "surface") : c \in text.ruler}
    \union {Entry(NoIri, l, {"llm"}, "surface") : l \in text.llm \ {LabelOf[c] : c \in text.ruler}}

\* FourPathReconciler: a concept already there, by its IRI or else by its label, is only
\* boosted; another is added with the text it was matched from.
Integrated(entries, concept, path) ==
    LET byIri == {e \in entries : e.iri = concept}
        byLabel == {e \in entries : e.label = LabelOf[concept]}
        found == IF byIri # {} THEN byIri ELSE byLabel
        match == CHOOSE e \in found : TRUE
    IN  IF found = {}
        THEN entries \union {Entry(concept, LabelOf[concept], {path}, path)}
        ELSE (entries \ {match}) \union {[match EXCEPT !.paths = @ \union {path}]}

\* The concepts of a path are taken one after another.
Boosted(entries, concepts, path) ==
    LET after[n \in 0..Len(concepts)] ==
            IF n = 0 THEN entries ELSE Integrated(after[n - 1], concepts[n], path)
    IN  after[Len(concepts)]

Reconciled(text) ==
    Boosted(Boosted(Base(text), text.semantic, "semantic"), text.heading, "heading_context")

-----------------------------------------------------------------------------
(* IRIs, evidence and gates.                                                   *)

Deterministic(entry) == "entity_ruler" \in entry.paths

\* The label is the path's own text, not that of the concept a search matched.
LabelIsOwnText(entry) ==
    "llm" \in entry.paths \/ entry.paths \intersect {"semantic", "heading_context"} = {}

\* _verify_iri_concept: by the unit's text for a semantic match, by the heading for another.
Verified(entry, concept, text) ==
    \/ entry.from = "semantic" /\ concept \in text.named
    \/ entry.from = "heading_context" /\ concept \in text.headed

\* PlaceNameGate(min_signals=2): headings corroborate nothing, and only a surface that no
\* heading supplied exempts by an exact match.
Demoted(entry, concept) ==
    LET signals == entry.paths \ {"heading_context"}
    IN  /\ concept \in Places
        /\ Cardinality(signals) < 2
        /\ ~(signals # {} /\ entry.label = LabelOf[concept])

(* fault: the place gate counts a heading as a signal.                         *)
GatedByAnyPath(entry, concept) ==
    \/ concept \in Places /\ Cardinality(entry.paths) < 2 /\ "heading_context" \notin entry.paths
    \/ <<entry.label, concept>> \in Blocked

Gated(entry, concept) ==
    Demoted(entry, concept) \/ <<entry.label, concept>> \in Blocked

Tag(iri, entry) == [iri |-> iri, paths |-> entry.paths, judge |-> "none"]

TagsOf(entry, concepts) == {Tag(c, entry) : c \in {c \in concepts : ~Gated(entry, c)}}

\* _reconciled_to_tags: a rejected IRI whose label is not the path's own text takes its label
\* with it; a label that resolves to nothing is a proposed class.
LegacyTags(entry, text) ==
    IF entry.iri # NoIri /\ (Deterministic(entry) \/ Verified(entry, entry.iri, text))
    THEN TagsOf(entry, {entry.iri})
    ELSE IF entry.iri # NoIri /\ ~LabelIsOwnText(entry) THEN {}
    ELSE IF Resolves[entry.label] # {} THEN TagsOf(entry, Resolves[entry.label])
    ELSE {Tag(NoIri, entry)}

\* _candidate_tags: the label selects one concept of the pinned catalogue, and a selection
\* needs the unit's own text for evidence.
AtomicTags(entry, text) ==
    LET selected == {c \in Concepts : LabelOf[c] = entry.label}
        concept == IF entry.iri # NoIri THEN entry.iri ELSE CHOOSE c \in selected : TRUE
    IN  IF entry.iri = NoIri /\ Cardinality(selected) # 1 THEN {Tag(NoIri, entry)}
        ELSE IF \/ Deterministic(entry)
                \/ entry.iri # NoIri /\ "llm" \notin entry.paths /\ Verified(entry, concept, text)
                \/ entry.iri = NoIri /\ concept \in text.named
        THEN TagsOf(entry, {concept})
        ELSE {}

TagsFor(text, atomic) ==
    UNION {IF atomic THEN AtomicTags(e, text) ELSE LegacyTags(e, text) : e \in Reconciled(text)}

-----------------------------------------------------------------------------
(* The judge.                                                                  *)

\* Ruler tags and proposed classes bypass it.
Adjudicated(tags) == {t \in tags : t.iri # NoIri /\ "entity_ruler" \notin t.paths}

Ruled(tags, status) == {[t EXCEPT !.judge = status] : t \in tags}

(* fault: an outage keeps the tags as they are.                                *)
OutageUnmarked(tags) == tags

\* A call that failed, or that named a candidate it was not shown, leaves its tags unjudged.
Outage(tags) == Ruled(Adjudicated(tags), "unjudged") \union (tags \ Adjudicated(tags))

\* What a call that returned may make of the tags: some rejected, some it did not rule on.
Verdicts(tags) ==
    LET shown == Adjudicated(tags)
        Rulings == {p \in (SUBSET shown) \X (SUBSET shown) : p[1] \intersect p[2] = {}}
    IN  {(tags \ shown) \union Ruled(p[1], "judged") \union Ruled(p[2], "unjudged") :
            p \in Rulings}

-----------------------------------------------------------------------------
(* What a saved tag owes to its text.                                          *)

\* Nothing but the ruler and the model's own words tags a concept the text and its headings do
\* not name; the atomic path does not take the model's words for it either. A place never comes
\* from a heading alone.
Earned(tag, text, atomic) ==
    /\ \/ tag.iri = NoIri
       \/ "entity_ruler" \in tag.paths
       \/ "llm" \in tag.paths /\ ~atomic
       \/ tag.iri \in text.named
       \/ tag.iri \in text.headed /\ "heading_context" \in tag.paths
    /\ tag.iri \in Places => tag.paths # {"heading_context"}

\* With the judge on, a tag it should have ruled on says whether it did.
SaysIfJudged(tag) ==
    tag \in Adjudicated({tag}) => tag.judge \in {"judged", "unjudged"}
=============================================================================
