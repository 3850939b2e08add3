------------------------------- MODULE MCReview -------------------------------
(* UnitReview and TaskExport. Reviewers of the units of a corpus of two;       *)
(* changes of its task tree; and exports of a tree, one asked of the server    *)
(* and one on the command line, which die and start again.                     *)
EXTENDS TaskExport, TLC

CONSTANTS u1, u2, p1, p2, n1, t1, t2, t3, a1, c1

MCRuns == {{u1}, {u1, u2}}

\* The server requires no signature and no reviewer decides but in the first setting.
VARIABLE setting
mcVars == <<taskVars, setting>>

Unsigned == [require |-> FALSE, signers |-> NotYet]

InitTask == InitUnits /\ policy = Unsigned /\ InitTree

\* An approved task and the unreviewed one below it share a unit, which was rejected.
InitExported ==
    /\ tasks = [t \in TaskIds |->
                    CASE t = t1 -> [parent |-> NotYet, approved |-> TRUE]
                      [] t = t2 -> [parent |-> t1, approved |-> FALSE]
                      [] OTHER -> NotYet]
    /\ links = {<<t1, u1>>, <<t1, u2>>, <<t2, u2>>}
    /\ locked = NotYet /\ treeEdits = 0
    /\ written = UnitIds /\ served = NotYet
    /\ reviews = [u \in UnitIds |->
                      IF u = u1 THEN NotYet
                      ELSE [status |-> "rejected", nonce |-> NotYet, registered |-> FALSE,
                            edited |-> NotYet]]
    /\ claimed = {} /\ policy = Unsigned
    /\ signed = [n \in ReviewNonces |-> NotYet]
    /\ asks = [p \in People |-> NoAsk]

MCInit ==
    /\ InitExport
    /\ \/ setting = "units" /\ InitUnits /\ InitTree
       \/ setting = "tree" /\ InitTask
       \/ setting = "exports" /\ InitExported

MCNext ==
    /\ \/ setting = "units" /\ NextUnits /\ UNCHANGED <<treeVars, exportVars>>
       \/ setting = "tree" /\ (NextTree \/ ExtractAgain)
       \/ setting = "exports" /\ NextExport
    /\ UNCHANGED setting

MCSpec == MCInit /\ [][MCNext]_mcVars
=============================================================================
