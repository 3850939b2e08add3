-------------------------------- MODULE Minting --------------------------------
(***************************************************************************)
(* From an extraction run to signed shards (src/folio_insights/minting):   *)
(* which units may become a shard, what a shard says of the calls that     *)
(* made it, and the one ExtractEvent that attests it, while several mints  *)
(* of one corpus run at once, stop anywhere, are run again by the same or  *)
(* another signer, and roles are granted and revoked.                      *)
(*                                                                         *)
(* The journal refuses what CorpusCommit and GovernanceLog refuse; here it *)
(* takes or refuses a shard, and knows its operations.  Text is what the   *)
(* checks find in it: a unit says of its passage whether it verifies, says *)
(* something and supports the claim.                                       *)
(***************************************************************************)
EXTENDS Naturals, Sequences, FiniteSets

CONSTANTS
    Mints,              \* runs of mint_run
    Extractions,        \* what a run may mint from: sequences of units
    Signers, Unsigned,
    Templates,          \* of the calls a mint makes: FieldsCall, DetectCall, BfoCall
    FieldsCall, DetectCall, BfoCall,
    NoMint

ASSUME MintAssumption ==
    /\ {FieldsCall, DetectCall, BfoCall} \subseteq Templates
    /\ Unsigned \notin Signers

VARIABLES
    minted,     \* the shards of the corpus: IRI to what is recorded
    attested,   \* the ExtractEvents of each shard
    extractors, \* who holds the extractor role
    mint        \* each run

mintVars == <<minted, attested, extractors, mint>>

-----------------------------------------------------------------------------
(* evaluate: what the unit's own fields, the source file and this run say *)

Ruler == "entity_ruler"
B9Paths == {"llm", "semantic", "heading_context"}

WithIri(u) == {t \in u.tags : t.iri}

(* _iri_checks: every tag that carries an IRI, not only the ones that are used *)
IriChecks(u) ==
    LET carried == WithIri(u)
        judgeable == {t \in carried : t.path \in B9Paths}
    IN  [no_folio_concept |-> carried = {},
         iri_unverified   |-> \/ \E t \in carried : t.path \notin B9Paths \cup {Ruler}
                              \/ judgeable # {} /\ ~u.b9_verified,
         iri_unjudged     |-> \E t \in judgeable : t.judge_status # "judged"]

(* _iri_oracle_checks *)
OracleChecks(u) ==
    [iri_nonexistent  |-> \E t \in WithIri(u) : ~t.exists,
     iri_wrong_branch |-> \E t \in WithIri(u) : t.exists /\ t.branch # "right"]

(* _prompt_identity: every call that shaped the unit names its template *)
PromptIdentityKnown(u) ==
    /\ NoMint \notin u.lineage
    /\ (\E t \in u.tags : t.path = "llm") => "concept" \in u.lineage
    /\ (\E t \in WithIri(u) : t.judge_status = "judged") => "judge" \in u.lineage

(* _verify_anchor: the run's own record can only refuse *)
AnchorVerified(u) == u.stored # "failed" /\ u.passage.verified

Failing(checks) == {code \in DOMAIN checks : checks[code]}

(* the keys of the passage and of the content *)
Keys(u) == {<<"span", u.source, u.passage.span>>, <<"hash", u.content_hash>>}

Reasons(u, seen) ==
    Failing([metadata_unit |-> u.metadata, unit_type_unsupported |-> ~u.supported_type])
    \cup Failing(IriChecks(u)) \cup Failing(OracleChecks(u))
    \cup Failing([no_prompt_identity |-> ~PromptIdentityKnown(u),
                  anchor_unverified |-> ~AnchorVerified(u),
                  not_substantive |-> ~u.passage.substantive,
                  unsupported |-> AnchorVerified(u) /\ ~u.passage.supports,
                  duplicate_in_run |-> Keys(u) \cap seen # {}])

(* mint_shard_iri: the IRI is the source and the verified passage *)
Iri(u) == <<u.source, u.passage.span>>
MintUnits == UNION {{x[i] : i \in DOMAIN x} : x \in Extractions}
MintIris == {Iri(u) : u \in MintUnits}
Sources == {u.source : u \in MintUnits}

(* what is recorded of a call and of a shard *)
CallRecords ==
    [template : Templates, about : Sources \cup {u.id : u \in MintUnits}, ok : BOOLEAN]
MintedShards ==
    [unit : MintUnits, extractor : Signers, signed : BOOLEAN, by : Mints,
     prompt : SUBSET (Templates \cup UNION {u.lineage : u \in MintUnits}),
     calls : SUBSET CallRecords]

(* load_run refuses a file that names a unit twice; the id of a unit is a *)
(* uuid, which is no path of a source                                     *)
ASSUME ExtractionsAssumption ==
    /\ Extractions \subseteq Seq(MintUnits) \ {<<>>}
    /\ \A x \in Extractions : \A i, j \in DOMAIN x : x[i].id = x[j].id => i = j
    /\ \A u \in MintUnits : u.id \notin Sources
    /\ NoMint \notin MintedShards

-----------------------------------------------------------------------------
NoDetection == [done |-> FALSE, confident |-> FALSE, templates |-> {}]
NoRunYet ==
    [pc |-> "idle", units |-> <<>>, did |-> Unsigned, signed |-> FALSE, at |-> 1, seen |-> {}, halted |-> FALSE,
     detections |-> [s \in Sources |-> NoDetection], records |-> <<>>, before |-> 0]

InitMint ==
    /\ minted = [i \in MintIris |-> NoMint]
    /\ attested = [i \in MintIris |-> <<>>]
    /\ extractors \in SUBSET Signers
    /\ mint = [m \in Mints |-> NoRunYet]

MintAt(m, pc) == mint[m].pc = pc
Unit(m) == mint[m].units[mint[m].at]
Set(m, new) == mint' = [mint EXCEPT ![m] = new]

(* the next unit; a run that is through with all of them is over *)
NextUnit(run) ==
    IF run.at = Len(run.units) THEN NoRunYet
    ELSE [run EXCEPT !.at = @ + 1, !.pc = "evaluate"]

(* A signer must hold the role before anything is called or written; an    *)
(* unsigned mint claims some extractor.                                    *)
BeginMint(m) ==
    /\ MintAt(m, "idle")
    /\ \E d \in Signers, signed \in BOOLEAN, x \in Extractions :
          /\ signed => d \in extractors
          /\ Set(m, [NoRunYet EXCEPT !.pc = "evaluate", !.units = x, !.did = d,
                                     !.signed = signed])
    /\ UNCHANGED <<minted, attested, extractors>>

(* eligibility, cross references, and what the corpus holds already *)
EvaluateUnit(m) ==
    LET u == Unit(m)
        run == [mint[m] EXCEPT !.seen = @ \cup Keys(u)]
    IN  /\ MintAt(m, "evaluate")
        /\ IF Reasons(u, mint[m].seen) # {} THEN Set(m, NextUnit(mint[m]))
           ELSE IF \E i \in u.references : minted[i] = NoMint THEN Set(m, NextUnit(run))
           ELSE IF minted[Iri(u)] # NoMint THEN Set(m, [run EXCEPT !.pc = "present"])
           ELSE IF mint[m].halted THEN Set(m, NextUnit(run))
           ELSE Set(m, [run EXCEPT !.pc = "detect"])
        /\ UNCHANGED <<minted, attested, extractors>>

-----------------------------------------------------------------------------
(* The calls.  Each is recorded with its template, as ok or not; "about" is   *)
(* the source or the unit it was made for, which the records do not hold.     *)

Call(template, about, ok) == [template |-> template, about |-> about, ok |-> ok]
OkTemplates(records) == {records[i].template : i \in {j \in DOMAIN records : records[j].ok}}
Halt(run) == NextUnit([run EXCEPT !.halted = TRUE])

(* _detect, once for each source of the run: explicit or by a call, which may *)
(* fail, and confident or not                                                 *)
Detect(m) ==
    LET u == Unit(m)
        run == mint[m]
    IN  /\ MintAt(m, "detect")
        /\ IF run.detections[u.source].done
           THEN Set(m, IF run.detections[u.source].confident THEN [run EXCEPT !.pc = "infer"]
                       ELSE NextUnit(run))
           ELSE \E calls \in {<<>>, <<Call(DetectCall, u.source, TRUE)>>,
                              <<Call(DetectCall, u.source, FALSE)>>}, confident \in BOOLEAN :
                   /\ confident => \A i \in DOMAIN calls : calls[i].ok
                   /\ Set(m, [run EXCEPT !.records = @ \o calls,
                                !.detections[u.source] =
                                   [done |-> TRUE, confident |-> confident,
                                    templates |-> OkTemplates(calls)]])
        /\ UNCHANGED <<minted, attested, extractors>>

(* a call of any step finds no credentials or the budget spent *)
HaltMint(m) ==
    /\ mint[m].pc \in {"detect", "infer", "classify"}
    /\ Set(m, Halt(mint[m]))
    /\ UNCHANGED <<minted, attested, extractors>>

(* infer_fields: failed, below a floor or with specifics the passage lacks *)
Infer(m) ==
    LET u == Unit(m)
        run == [mint[m] EXCEPT !.before = Len(mint[m].records)]
        Called(ok) == [run EXCEPT !.records = Append(@, Call(FieldsCall, u.id, ok))]
    IN  /\ MintAt(m, "infer")
        /\ \/ \E ok \in BOOLEAN : Set(m, NextUnit(Called(ok)))
           \/ Set(m, [Called(TRUE) EXCEPT !.pc = "classify"])
        /\ UNCHANGED <<minted, attested, extractors>>

(* classify_bfo: from the tags, or by a call *)
Classify(m) ==
    LET u == Unit(m)
        Called(ok) == [mint[m] EXCEPT !.records = Append(@, Call(BfoCall, u.id, ok))]
    IN  /\ MintAt(m, "classify")
        /\ \/ \E ok \in BOOLEAN : Set(m, NextUnit(Called(ok)))
           \/ Set(m, NextUnit(mint[m]))
           \/ Set(m, [Called(TRUE) EXCEPT !.pc = "write"])
           \/ Set(m, [mint[m] EXCEPT !.pc = "write"])
        /\ UNCHANGED <<minted, attested, extractors>>

(* fault: the calls are those since the unit was taken up, as they were made *)
PromptOfUnitsCalls(run, u) ==
    u.lineage \cup {FieldsCall} \cup
    OkTemplates(SubSeq(run.records, run.before + 1, Len(run.records)))

(* prompt_hash: the lineage, the detection of the source, the unit's own calls *)
PromptHash(run, u) ==
    u.lineage \cup {FieldsCall} \cup run.detections[u.source].templates \cup
    OkTemplates(SubSeq(run.records, run.before + 1, Len(run.records)))

-----------------------------------------------------------------------------
(* _check_identity, in the transaction: extracted_at and the extractor of a *)
(* stored shard are frozen, and this one was extracted just now             *)
Storable(m) == minted[Iri(Unit(m))] = NoMint

(* register, build_shard and ingest_shards; the suite, the PII gate and the *)
(* guards may refuse                                                        *)
WriteShard(m) ==
    LET u == Unit(m)
        run == mint[m]
        shard == [unit |-> u, extractor |-> run.did, signed |-> run.signed, by |-> m,
                  prompt |-> PromptHash(run, u),
                  calls |-> {run.records[i] : i \in DOMAIN run.records}]
    IN  /\ MintAt(m, "write")
        /\ \/ /\ Storable(m)
              /\ minted' = [minted EXCEPT ![Iri(u)] = shard]
              /\ Set(m, [run EXCEPT !.pc = "attest"])
           \/ Set(m, NextUnit(run)) /\ UNCHANGED minted
        /\ UNCHANGED <<attested, extractors>>

(* fault: whoever runs the mint signs the event of a shard that is there *)
AnySigner(m, shard) == mint[m].signed

(* only the shard's own extractor may *)
MayAttest(m, shard) == mint[m].signed /\ shard.extractor = mint[m].did

(* _ensure_extract_event for a shard that is there already *)
FindPresent(m) ==
    LET shard == minted[Iri(Unit(m))]
    IN  /\ MintAt(m, "present")
        /\ IF MayAttest(m, shard) /\ attested[Iri(Unit(m))] = <<>>
           THEN Set(m, [mint[m] EXCEPT !.pc = "append"])
           ELSE Set(m, NextUnit(mint[m]))
        /\ UNCHANGED <<minted, attested, extractors>>

(* and for the one this run has written *)
Attest(m) ==
    /\ MintAt(m, "attest")
    /\ Set(m, IF mint[m].signed /\ attested[Iri(Unit(m))] = <<>>
              THEN [mint[m] EXCEPT !.pc = "append"] ELSE NextUnit(mint[m]))
    /\ UNCHANGED <<minted, attested, extractors>>

(* one operation id for each shard, found again in the transaction *)
OpFree(i) == attested[i] = <<>>

(* The event is signed and appended, if its signer holds the role by then;   *)
(* any failure is reported and the run goes on.                              *)
AppendExtract(m) ==
    LET i == Iri(Unit(m))
    IN  /\ MintAt(m, "append")
        /\ \/ /\ OpFree(i) /\ mint[m].did \in extractors
              /\ attested' = [attested EXCEPT ![i] =
                                 Append(@, [signer |-> mint[m].did, model |-> minted[i].by])]
           \/ UNCHANGED attested
        /\ Set(m, NextUnit(mint[m]))
        /\ UNCHANGED <<minted, extractors>>

StopMint(m) ==
    /\ ~MintAt(m, "idle")
    /\ Set(m, NoRunYet)
    /\ UNCHANGED <<minted, attested, extractors>>

ChangeRole(d) ==
    /\ extractors' = IF d \in extractors THEN extractors \ {d} ELSE extractors \cup {d}
    /\ UNCHANGED <<minted, attested, mint>>

MintStep(m) ==
    \/ BeginMint(m) \/ EvaluateUnit(m) \/ Detect(m) \/ HaltMint(m) \/ Infer(m) \/ Classify(m)
    \/ WriteShard(m) \/ FindPresent(m) \/ Attest(m) \/ AppendExtract(m) \/ StopMint(m)

NextMint ==
    \/ \E m \in Mints : MintStep(m)
    \/ \E d \in Signers : ChangeRole(d)

MintSpec == InitMint /\ [][NextMint]_mintVars

-----------------------------------------------------------------------------
(* A shard has at most one ExtractEvent, signed by the extractor the shard    *)
(* names and naming the run whose calls made the shard that is stored, after  *)
(* every overlap, crash, re-run and change of roles.                          *)
EventAttestsShard ==
    \A i \in MintIris :
        /\ Len(attested[i]) <= 1
        /\ attested[i] # <<>> =>
              /\ minted[i] # NoMint
              /\ attested[i][1].signer = minted[i].extractor
              /\ attested[i][1].model = minted[i].by

(* The prompt hash of a shard covers exactly the templates of the calls that  *)
(* shaped it: its lineage, its own calls, and those that found the framework  *)
(* of its source, whichever unit they were made for.                          *)
PromptsAreWhole ==
    \A i \in MintIris : minted[i] # NoMint =>
        LET shard == minted[i]
            about == {shard.unit.id, shard.unit.source}
        IN  shard.prompt = shard.unit.lineage \cup
                {c.template : c \in {d \in shard.calls : d.ok /\ d.about \in about}}
=============================================================================
