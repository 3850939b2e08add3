------------------------------ MODULE Extraction ------------------------------
(* The extraction pipeline of one corpus (pipeline/orchestrator.py and its     *)
(* stages) as the queue runs it (api/services/pipeline_runner.py): attempts    *)
(* that restore the checkpoints of their job, run the other stages over the    *)
(* units, and write extraction.json, review.json and the corpus manifest file  *)
(* by file. An attempt may crash anywhere, and one whose lease ran out goes on *)
(* beside its successor until its next stage boundary.                         *)
(*                                                                             *)
(* A file gives one unit, and a text is what the tagger finds in it (Tagging). *)
(* review.json stands for proposed_classes.json too, and the judge is on. The  *)
(* queue is reduced to one job at a time, its attempts and its lease; JobQueue *)
(* models it.                                                                  *)
EXTENDS Tagging

CONSTANTS
    Files,        \* the files of the corpus's sources directory
    Contents,     \* what a file may hold: texts
    Answers,      \* the texts the distiller may answer with
    Modes,        \* the values of settings.atomic_extraction over the deployments
    FailPct,      \* llm_max_unit_failure_ratio, in percent
    Runs,         \* attempts that may be alive at once
    MaxJobs,      \* bound: jobs
    MaxAttempts,  \* max_attempts of a job
    None

ASSUME ExtractionAssumption ==
    /\ Contents \subseteq AnyText /\ Answers \subseteq AnyText
    /\ Modes \subseteq BOOLEAN
    /\ FailPct \in Nat /\ MaxJobs \in Nat /\ MaxAttempts \in Nat

VARIABLES
    source,       \* the sources directory: file -> text, or None
    held,         \* what extraction.json last held of each file (for KeepsExtracted)
    output,       \* the output files: each nothing, torn, or the result it was written from
    checkpoints,  \* the current job's directory: the stages saved in it, each with its result
    queue,        \* the current job: its number, status, attempts, lease holder, the stages
                  \* it reported complete, and whether its checkpoints were removed
    runs          \* the attempts

extractionVars == <<source, held, output, checkpoints, queue, runs>>

Stages == <<"ingestion", "structure_parser", "boundary_detection", "distiller",
            "knowledge_classifier", "folio_tagger", "deduplicator">>

NoTexts == [f \in Files |-> None]

\* An InsightsJob: the documents it records, what was read of each file, its units, and the
\* modes of the stages from the distiller on.
NewResult == [docs |-> NoTexts, read |-> NoTexts, units |-> <<>>, modes |-> {}]

Units(result) == DOMAIN result.units

\* refused: a call about the unit was refused; also: the files whose equal units were merged
\* into this one.
NewUnit(text) == [text |-> text, tags |-> {}, refused |-> FALSE, also |-> {}]

IdleRun == [pc |-> "idle"]

OutputFiles == <<"extraction", "review", "corpus">>
Torn == [torn |-> TRUE]
NoCheckpoints == <<>>

InitWith(texts) ==
    /\ source = texts
    /\ held = NoTexts
    /\ output = [o \in {"extraction", "review", "corpus"} |-> None]
    /\ checkpoints = NoCheckpoints
    /\ queue = [job |-> 0, status |-> "none", attempts |-> 0, holder |-> None,
                reported |-> {}, removed |-> FALSE]
    /\ runs = [r \in Runs |-> IdleRun]

InitExtraction == InitWith(NoTexts)

-----------------------------------------------------------------------------
(* The corpus and its jobs.                                                    *)

\* POST upload: a new file, or another text for one.
Upload(f, text) ==
    /\ source[f] # text
    /\ source' = [source EXCEPT ![f] = text]
    /\ UNCHANGED <<held, output, checkpoints, queue, runs>>

Submit ==
    /\ queue.status \in {"none", "completed", "failed"}
    /\ queue.job < MaxJobs
    /\ queue' = [job |-> queue.job + 1, status |-> "queued", attempts |-> 0, holder |-> None,
                 reported |-> {}, removed |-> FALSE]
    /\ checkpoints' = NoCheckpoints
    /\ UNCHANGED <<source, held, output, runs>>

Retried == IF queue.attempts < MaxAttempts THEN "queued" ELSE "failed"

\* The lease of a crashed or stalled attempt runs out.
Expire ==
    /\ queue.status = "running"
    /\ queue' = [queue EXCEPT !.status = Retried, !.holder = None]
    /\ UNCHANGED <<source, held, output, checkpoints, runs>>

\* A paused job gets a key or a higher cap.
Resume ==
    /\ queue.status = "paused"
    /\ queue' = [queue EXCEPT !.status = "queued"]
    /\ UNCHANGED <<source, held, output, checkpoints, runs>>

-----------------------------------------------------------------------------
(* An attempt at its stage boundaries.                                         *)

Begin(r) ==
    /\ runs[r].pc = "idle" /\ queue.status = "queued"
    /\ \E mode \in Modes :
          runs' = [runs EXCEPT ![r] =
              [pc |-> "boundary", job |-> queue.job, at |-> 1, result |-> NewResult,
               atomic |-> mode, halted |-> FALSE, trackers |-> {}]]
    /\ queue' = [queue EXCEPT !.status = "running", !.attempts = @ + 1, !.holder = r]
    /\ UNCHANGED <<source, held, output, checkpoints>>

Holds(r) == queue.status = "running" /\ queue.holder = r /\ queue.job = runs[r].job

\* The attempt ends; its verdict stands only if it still holds the lease.
Ends(r, status) ==
    /\ runs' = [runs EXCEPT ![r] = IdleRun]
    /\ queue' = IF ~Holds(r) THEN queue
                ELSE [queue EXCEPT !.status = status, !.holder = None,
                                   !.attempts = IF status = "paused" THEN @ - 1 ELSE @]
    /\ UNCHANGED <<source, held, output, checkpoints>>

\* notify_stage: the report is fenced, and an attempt without its lease stops there.
Passes(r, next, done) ==
    IF Holds(r)
    THEN /\ runs' = [runs EXCEPT ![r] = next]
         /\ queue' = [queue EXCEPT !.reported = @ \union done]
         /\ UNCHANGED <<source, held, output, checkpoints>>
    ELSE Ends(r, "failed")

At(r, pc) == runs[r].pc = pc

\* An attempt sees the directory of its own job.
HasCheckpoint(r) == runs[r].job = queue.job /\ runs[r].at \in DOMAIN checkpoints
Checkpoint(r) == checkpoints[runs[r].at]

AtStage(r) == At(r, "boundary") /\ runs[r].at <= Len(Stages)

\* From the distiller on, a checkpoint of the other mode is refused.
ModeChecked == {"distiller", "knowledge_classifier", "folio_tagger", "deduplicator"}
(* fault: the distiller's own checkpoint is restored in any mode.              *)
OtherModeAfterDistiller(r) ==
    /\ Stages[runs[r].at] \in ModeChecked \ {"distiller"}
    /\ (TRUE \in Checkpoint(r).modes) # runs[r].atomic

OtherMode(r) ==
    /\ Stages[runs[r].at] \in ModeChecked
    /\ (TRUE \in Checkpoint(r).modes) # runs[r].atomic

Restore(r) ==
    /\ AtStage(r) /\ HasCheckpoint(r)
    /\ IF OtherMode(r) THEN Ends(r, Retried)
       ELSE Passes(r, [runs[r] EXCEPT !.result = Checkpoint(r), !.at = @ + 1], {})

Start(r) ==
    /\ AtStage(r) /\ ~HasCheckpoint(r)
    /\ Passes(r, [runs[r] EXCEPT !.pc = Stages[runs[r].at]], {})

Crash(r) ==
    /\ runs[r].pc # "idle"
    /\ runs' = [runs EXCEPT ![r] = IdleRun]
    /\ UNCHANGED <<source, held, output, checkpoints, queue>>

-----------------------------------------------------------------------------
(* The stages.                                                                 *)

\* The stage's effect on the attempt; the caller says what the stage does to its result.
Executes(r, result, halted, trackers, pc) ==
    /\ runs' = [runs EXCEPT ![r].result = result, ![r].pc = pc, ![r].trackers = trackers,
                            ![r].halted = @ \/ halted]
    /\ UNCHANGED <<source, held, output, checkpoints, queue>>

\* CorpusRegistry: the texts the manifest records.
Recorded == IF output["corpus"] = None THEN NoTexts ELSE output["corpus"].result.docs

\* needs_processing, and then the files that parse; the others are skipped.
Read(r) ==
    LET new == {f \in Files : source[f] # None /\ source[f] # Recorded[f]}
    IN  /\ At(r, "ingestion") /\ output["corpus"] # Torn
        /\ \E parsed \in SUBSET new :
              Executes(r, [runs[r].result EXCEPT
                              !.read = [f \in Files |-> IF f \in parsed THEN source[f] ELSE None]],
                       FALSE, {}, "hashing")

\* A torn manifest fails the stage.
ReadTorn(r) ==
    /\ At(r, "ingestion") /\ output["corpus"] = Torn
    /\ Ends(r, Retried)

\* The document records the hash of the file as it is now.
Hash(r) ==
    LET result == runs[r].result
    IN  /\ At(r, "hashing")
        /\ Executes(r, [result EXCEPT
                           !.docs = [f \in Files |-> IF result.read[f] = None THEN None
                                                     ELSE source[f]]],
                    FALSE, {}, "ran")

\* Structured elements go to the job's metadata.
Structure(r) ==
    /\ At(r, "structure_parser")
    /\ Executes(r, runs[r].result, FALSE, {}, "ran")

Split(r) ==
    LET result == runs[r].result
    IN  /\ At(r, "boundary_detection")
        /\ Executes(r, [result EXCEPT
                           !.units = [f \in {f \in Files : result.read[f] # None} |->
                                         NewUnit(result.read[f])]],
                    FALSE, {}, "ran")

\* LLMFailureTracker: a refusal is not a failure.
Calls(ends) == [failed |-> Cardinality({f \in DOMAIN ends : ends[f] = "failed"}),
                attempted |-> Cardinality(DOMAIN ends)]

\* The answer replaces the text, its headings stay.
Reworded(text, answer) == [answer EXCEPT !.heading = text.heading, !.headed = text.headed]

\* A unit's call ends with another text, or with none and the unit keeps its own; failed after
\* its retries; or refused because the run has halted (no key, a rejected key, the spend cap, an
\* unknown model). These two leave the unit as it was; the atomic extractor finds nothing in it.
Distill(r) ==
    LET result == runs[r].result
        atomic == runs[r].atomic
        units == result.units
    IN  /\ At(r, "distiller")
        /\ \E ends \in [Units(result) -> {"answered", "kept", "failed", "refused"}],
              answer \in [Units(result) -> Answers] :
              LET lasting == {f \in Units(result) : ~atomic \/ ends[f] \in {"answered", "kept"}}
                  New(f) == [units[f] EXCEPT
                                !.text = IF ends[f] = "answered" THEN Reworded(@, answer[f]) ELSE @,
                                !.refused = @ \/ ends[f] = "refused"]
              IN  Executes(r, [result EXCEPT !.units = [f \in lasting |-> New(f)],
                                             !.modes = @ \union {atomic}],
                           \E f \in Units(result) : ends[f] = "refused", {Calls(ends)}, "ran")

\* Two calls per unit, each with a tracker; a unit neither answered keeps its default type.
Classify(r) ==
    LET result == runs[r].result
        Outcomes == [Units(result) -> {"answered", "failed", "refused"}]
    IN  /\ At(r, "knowledge_classifier")
        /\ \E type \in Outcomes, novelty \in Outcomes :
              LET Refused(f) == "refused" \in {type[f], novelty[f]}
              IN  Executes(r, [result EXCEPT
                                  !.units = [f \in Units(result) |->
                                      [result.units[f] EXCEPT !.refused = @ \/ Refused(f)]]],
                           \E f \in Units(result) : Refused(f),
                           {Calls(type), Calls(novelty)}, "ran")

\* Whatever the tagger may make of a unit whose concept call ended so, and whose judge's did.
Tagged(unit, concept, judge, atomic) ==
    LET text == IF concept = "answered" THEN unit.text ELSE [unit.text EXCEPT !.llm = {}]
        tags == TagsFor(text, atomic)
    IN  IF judge = "answered" THEN Verdicts(tags) ELSE {Outage(tags)}

TagStage(r) ==
    LET result == runs[r].result
        units == result.units
        Outcomes == [Units(result) -> {"answered", "failed", "refused"}]
    IN  /\ At(r, "folio_tagger")
        /\ \E concept \in Outcomes, judge \in Outcomes :
           \E tags \in [Units(result) -> UNION {Tagged(units[f], concept[f], judge[f],
                                                       runs[r].atomic) : f \in Units(result)}] :
              LET Refused(f) == "refused" \in {concept[f], judge[f]}
              IN  /\ \A f \in Units(result) :
                        tags[f] \in Tagged(units[f], concept[f], judge[f], runs[r].atomic)
                  /\ Executes(r, [result EXCEPT
                                     !.units = [f \in Units(result) |->
                                        [units[f] EXCEPT !.tags = tags[f],
                                                         !.refused = @ \/ Refused(f)]],
                                     !.modes = @ \union {runs[r].atomic}],
                              \E f \in Units(result) : Refused(f),
                              {Calls(concept)}, "ran")

\* Of units of equal text one is kept; atomic units carry their source and stay apart. Near
\* duplicates are left out.
Deduplicate(r) ==
    LET result == runs[r].result
        units == result.units
        Equal(f) == IF runs[r].atomic THEN {f}
                    ELSE {g \in Units(result) : units[g].text = units[f].text}
    IN  /\ At(r, "deduplicator")
        /\ \E kept \in SUBSET Units(result) :
              /\ \A f \in Units(result) : Cardinality(Equal(f) \intersect kept) = 1
              /\ Executes(r, [result EXCEPT
                                 !.units = [f \in kept |->
                                              [units[f] EXCEPT !.also = Equal(f) \ {f}]],
                                 !.modes = @ \union {runs[r].atomic}],
                          FALSE, {}, "ran")

\* More calls of one kind failed than llm_max_unit_failure_ratio allows.
TooManyFailed(run) == \E t \in run.trackers : t.failed * 100 > FailPct * t.attempted

(* fault: a halted call is left to the failure ratio, which does not count it. *)
VerdictByRatio(run) == IF TooManyFailed(run) THEN "failed" ELSE "saved"

\* A halt is swallowed call by call; it is raised at the end of the stage, before the ratio is
\* looked at and before the checkpoint.
StageVerdict(run) ==
    IF run.halted THEN "paused" ELSE IF TooManyFailed(run) THEN "failed" ELSE "saved"

\* The job pauses, or fails for good if the model is unknown.
Halt(r) ==
    /\ At(r, "ran") /\ StageVerdict(runs[r]) = "paused"
    /\ \E status \in {"paused", "failed"} : Ends(r, status)

\* StageFailureRatioError is not retried.
TooMany(r) ==
    /\ At(r, "ran") /\ StageVerdict(runs[r]) = "failed"
    /\ Ends(r, "failed")

\* PipelineCheckpoint.save: not fenced, and into the directory of the attempt's own job.
Save(r) ==
    /\ At(r, "ran") /\ StageVerdict(runs[r]) = "saved"
    /\ checkpoints' = IF runs[r].job = queue.job
                      THEN [i \in DOMAIN checkpoints \union {runs[r].at} |->
                               IF i = runs[r].at THEN runs[r].result ELSE checkpoints[i]]
                      ELSE checkpoints
    /\ runs' = [runs EXCEPT ![r].pc = "saved"]
    /\ UNCHANGED <<source, held, output, queue>>

NextStage(run) == [run EXCEPT !.pc = "boundary", !.at = @ + 1]

(* fault: a stage is reported complete before its checkpoint is saved.         *)
DoneUnsaved(r) ==
    /\ At(r, "ran") /\ StageVerdict(runs[r]) = "saved"
    /\ Passes(r, NextStage(runs[r]), {runs[r].at})

Done(r) ==
    /\ At(r, "saved")
    /\ Passes(r, NextStage(runs[r]), {runs[r].at})

-----------------------------------------------------------------------------
(* The end of an attempt: the output files, one after another, the checkpoints *)
(* and the queue.                                                              *)

\* open(path, "w") empties the file ...
Truncate(r) ==
    /\ At(r, "boundary") /\ runs[r].at > Len(Stages)
    /\ LET file == OutputFiles[runs[r].at - Len(Stages)]
       IN  output' = [output EXCEPT ![file] = Torn]
    /\ runs' = [runs EXCEPT ![r].pc = "writing"]
    /\ UNCHANGED <<source, held, checkpoints, queue>>

\* The files whose text a result holds: a unit's, and those merged into it.
Covered(result) == Units(result) \union UNION {result.units[f].also : f \in Units(result)}

\* ... and json.dump fills it.
Fill(r) ==
    LET result == runs[r].result
        n == runs[r].at - Len(Stages)
    IN  /\ At(r, "writing")
        /\ output' = [output EXCEPT ![OutputFiles[n]] = [job |-> runs[r].job, result |-> result]]
        /\ held' = [f \in Files |-> IF OutputFiles[n] = "extraction" /\ f \in Covered(result)
                                    THEN result.read[f] ELSE held[f]]
        /\ runs' = [runs EXCEPT ![r].at = @ + 1,
                                ![r].pc = IF n < Len(OutputFiles) THEN "boundary" ELSE "written"]
        /\ UNCHANGED <<source, checkpoints, queue>>

\* rmtree of the job's checkpoints, with or without the lease.
Clean(r) ==
    /\ At(r, "written")
    /\ runs' = [runs EXCEPT ![r].pc = "cleaned"]
    /\ IF runs[r].job = queue.job
       THEN checkpoints' = NoCheckpoints /\ queue' = [queue EXCEPT !.removed = TRUE]
       ELSE UNCHANGED <<checkpoints, queue>>
    /\ UNCHANGED <<source, held, output>>

Finish(r) ==
    /\ At(r, "cleaned")
    /\ Ends(r, "completed")

-----------------------------------------------------------------------------
Stage(r) ==
    \/ Read(r) \/ ReadTorn(r) \/ Hash(r) \/ Structure(r) \/ Split(r) \/ Distill(r)
    \/ Classify(r) \/ TagStage(r) \/ Deduplicate(r)

Attempt(r) ==
    \/ Begin(r) \/ Restore(r) \/ Start(r) \/ Stage(r) \/ Halt(r) \/ TooMany(r)
    \/ Save(r) \/ Done(r) \/ Truncate(r) \/ Fill(r) \/ Clean(r) \/ Finish(r)

Working ==
    \/ Submit \/ Resume
    \/ \E r \in Runs : Attempt(r)

Failing == Expire \/ \E r \in Runs : Crash(r)

NextExtraction ==
    \/ \E f \in Files, text \in Contents : Upload(f, text)
    \/ Working
    \/ Failing

ExtractionSpec == InitExtraction /\ [][NextExtraction]_extractionVars

-----------------------------------------------------------------------------
(* Properties.                                                                 *)

Saved == {checkpoints[i] : i \in DOMAIN checkpoints}
Written == {output[o].result : o \in {o \in DOMAIN output : output[o] \notin {None, Torn}}}

\* No unit whose LLM call was refused, by a missing key, a rejected one or the spend cap,
\* reaches a checkpoint or an output file: such a unit looks like one the model had nothing to
\* say about, and no resume would ask again (raise_if_halted before PipelineCheckpoint.save).
SavedIsSound ==
    \A result \in Saved \union Written : \A f \in Units(result) : ~result.units[f].refused

\* A stage the job reported complete is not run, and paid for, again until an attempt removes the
\* job's checkpoints, whatever crashes, halts and lost leases come between (PipelineCheckpoint.save
\* before notify_stage).
NothingRedone ==
    \A r \in Runs :
        (\E i \in DOMAIN Stages : At(r, Stages[i])) /\ Holds(r) /\ ~queue.removed
        => runs[r].at \notin queue.reported

\* The units of one result were all made with the same extraction mode, although the setting is
\* read anew by every attempt (PipelineOrchestrator.run's check of the checkpoints it restores).
OneMode == \A result \in Saved \union Written : Cardinality(result.modes) <= 1

\* Every tag that is checkpointed or written was earned by the text of its unit, and says whether
\* it was judged (FolioTaggerStage._tag_unit, through every failure of its calls).
TagsEarned ==
    \A result \in Saved \union Written : \A f \in Units(result) : \A tag \in result.units[f].tags :
        /\ Earned(tag, result.units[f].text, TRUE \in result.modes)
        /\ SaysIfJudged(tag)

\* What extraction.json held of a file that has not changed since is still in it when the next
\* job completes.
KeepsExtracted ==
    queue.status = "completed" =>
        \A f \in Files : held[f] # None /\ held[f] = source[f] =>
            output["extraction"] # Torn /\ f \in Covered(output["extraction"].result)
=============================================================================
