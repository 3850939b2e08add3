------------------------------ MODULE MCPipeline ------------------------------
(* Four settings of Extraction and one of SpendMeter. Overlap: the attempts of *)
(* one job crash, halt, lose their leases and find the extraction mode         *)
(* changed. Growing: two files uploaded between and during two jobs. Tagging:  *)
(* one attempt over every kind of text. Failing calls halt or fail every       *)
(* setting but Growing's. Spending: two runs of one run id and two calls.      *)
EXTENDS Extraction, SpendMeter, TLC
CONSTANTS f1, f2, r1, r2, c1, c2, l1, l2, l3, m1, m2, p1, p2
VARIABLE setting
pipelineVars == <<extractionVars, spendVars, setting>>

MCLabelOf == (c1 :> l1) @@ (c2 :> l2)
\* l3 is a conjoined label and names both.
MCResolves == (l1 :> {c1}) @@ (l2 :> {}) @@ (l3 :> {c1, c2})
MCBlocked == {<<l3, c1>>}

Text(ruler, llm, semantic, heading, named, headed) ==
    [ruler |-> ruler, llm |-> llm, semantic |-> semantic, heading |-> heading,
     named |-> named, headed |-> headed]
Plain == Text({c1}, {}, <<>>, <<>>, {c1}, {})
Other == Text({}, {l3}, <<>>, <<>>, {}, {})
MCAnswers == {Other}
\* The ruler matches what the text names.
AllTexts ==
    {t \in Texts(SUBSET {c1, c2}, SUBSET {l1, l2, l3}, {<<>>, <<c1>>, <<c2>>}, {<<>>, <<c2>>},
                 SUBSET {c1, c2}, SUBSET {c2}) : t.ruler \subseteq t.named}

AlikeCalls == Permutations({p1, p2})

-----------------------------------------------------------------------------
MCInit ==
    /\ InitSpend
    /\ \/ setting = "overlap" /\ InitWith([NoTexts EXCEPT ![f1] = Plain])
       \/ setting \in {"growing", "spending"} /\ InitExtraction
       \/ setting = "tagging" /\ \E t \in AllTexts : InitWith([NoTexts EXCEPT ![f1] = t])

OneJob == queue'.job <= 1
OneRun == runs'[r2] = IdleRun
NoFailures ==
    runs'[r1].pc # "idle" => ~runs'[r1].atomic /\ ~runs'[r1].halted /\ ~TooManyFailed(runs'[r1])
\* The unit keeps its text, and the attempt ends with the tagger's checkpoint.
UpToTagger ==
    /\ queue'.status \notin {"paused", "failed"}
    /\ runs'[r1].pc # "idle" =>
           /\ runs'[r1].at <= 6
           /\ \A f \in Units(runs'[r1].result) : runs'[r1].result.units[f].text = source[f]

Uploads == \E f \in Files, text \in {Plain, Other} : Upload(f, text)

Extracting ==
    \/ setting = "overlap" /\ (Working \/ Failing) /\ OneJob
    \/ setting = "growing" /\ (Working \/ Uploads) /\ OneRun /\ NoFailures
    \/ setting = "tagging" /\ Working /\ OneRun /\ OneJob /\ UpToTagger

MCNext ==
    /\ \/ Extracting /\ UNCHANGED spendVars
       \/ setting = "spending" /\ NextSpend /\ UNCHANGED extractionVars
    /\ UNCHANGED setting

GrowingSpec == (setting = "growing" /\ MCInit) /\ [][MCNext]_pipelineVars
MCSpec == MCInit /\ [][MCNext]_pipelineVars
=============================================================================
