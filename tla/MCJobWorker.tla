---------------------------- MODULE MCJobWorker ----------------------------
(* An instance of JobWorker: one job, two API processes with their embedded *)
(* workers.  Two tokens let a run that lost its lease meet the next one.    *)
(* And one of JobView: a page that moves between two corpora, on which at   *)
(* most two jobs run, and one connection or answer that is lost.            *)
EXTENDS JobWorker, JobView

CONSTANTS w1, w2, c1, v1, v2

OneJob    == 1..1
TwoTokens == 1..2
Both      == {w1, w2}
OneCorpus == {c1}

-----------------------------------------------------------------------------
\* The run is about the workers or about the page; each has its own fairness.
VARIABLE setting
mcVars == <<vars, viewVars, setting>>

MCInit == Init /\ InitView(v1) /\ setting \in {"workers", "page"}

OfWorkers(A) == setting = "workers" /\ A /\ UNCHANGED <<viewVars, setting>>
OfPage(A) == setting = "page" /\ A /\ UNCHANGED <<vars, setting>>

MCNext == OfWorkers(Next) \/ OfPage(NextView)

MCFair ==
    /\ WF_mcVars(OfWorkers(Time))
    /\ \A w \in Owners : WF_mcVars(OfWorkers(Loop(w)))
    /\ WF_mcVars(OfPage(Poll)) /\ WF_mcVars(OfPage(Deliver)) /\ WF_mcVars(OfPage(Reconnect))

MCSpec == MCInit /\ [][MCNext]_mcVars /\ MCFair
=============================================================================
