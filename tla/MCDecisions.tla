----------------------------- MODULE MCDecisions -----------------------------
(* Two settings of ProposalLedger and two of ReviewDb. Two clients on the      *)
(* proposals of one corpus: 1 and 2 have one stem, so dedupe merges the later  *)
(* one into the earlier; which is which depends on the run that is collected   *)
(* first. The lexicon changes once: in the later one the label of proposal 1   *)
(* is a FOLIO concept. And reviewers of the discovered tasks: two whose        *)
(* requests are all signed, over the tasks of one run, or one who signs        *)
(* nothing, beside runs that crash and resume.                                 *)
EXTENDS ProposalLedger, ReviewDb, TLC

CONSTANTS c1, c2, r1, r2, n1, MaxRows

MCClients == {c1, c2}
MCProposals == 1 .. 2
MCStem == [p \in MCProposals |-> "stem"]

MCCollects == {[run |-> "r1", found |-> {1, 2}], [run |-> "r2", found |-> {2}],
               [run |-> "r2", found |-> {1, 2}]}

MCLexicons == {[p \in MCProposals |-> "none"],
               [p \in MCProposals |-> IF p = 1 THEN "primary" ELSE "none"]}

MCJudgings == {[key |-> "j", items |-> 2 :> [verdict |-> "NEW", into |-> 0, by |-> "human"]]}

Unsigned(status, into) == [status |-> status, into |-> into, sig |-> NoSignature]
SignedItem(status, into, nonce) ==
    [status |-> status, into |-> into,
     sig |-> [nonce |-> nonce, issued |-> 0, status |-> status,
              into |-> IF status = "merged" THEN 1 ELSE 0]]

\* A merge that leaves the target to the judgment, with its retry; a signed decision
\* submitted under two ids; a signed merge to the target the reviewer saw.
MCBatches ==
    {[key |-> "a", items |-> 2 :> Unsigned("merged", 0)],
     [key |-> "b", items |-> 1 :> SignedItem("approved", 0, 7)],
     [key |-> "auto", items |-> 1 :> SignedItem("approved", 0, 7)],
     [key |-> "c", items |-> (2 :> SignedItem("merged", 0, 8)) @@ (1 :> Unsigned("rejected", 0))]}

MCLegacy == 2 :> "approved"

-----------------------------------------------------------------------------
\* Proposals are decided in one of two ways: signed decisions and dedupe while time passes,
\* or judgments, dedupe, unsigned merges and the legacy import at one time.
VARIABLE setting
decisionVars == <<vars, reviewVars, setting>>

MCInit ==
    /\ Init /\ InitReview
    /\ setting \in {"signing", "judging", "reviewing", "discovering"}

Asks(call) ==
    LET signs == call.kind = "decision" /\ \E p \in DOMAIN call.asked : Signed(call.asked[p])
    IN  CASE call.op[1] \in {"none", "collect", "dedupe"} -> TRUE
          [] OTHER -> (setting = "signing") = signs

Proposing ==
    /\ setting \in {"signing", "judging"}
    /\ Next
    /\ \A c \in Clients : Asks(calls'[c])
    /\ setting = "judging" => UNCHANGED now

AllSigned == \A r \in Reviewers : requests'[r].pc = "write" => requests'[r].nonce # None
NoneSigned == \A r \in Reviewers : requests'[r].pc = "write" => requests'[r].nonce = None

Reviewing ==
    \/ setting = "reviewing" /\ (Review \/ (Discover /\ made' = 1 /\ run'.pc # "idle")) /\ AllSigned
    \/ setting = "discovering" /\ NextReview /\ NoneSigned /\ requests'[r2] = NoRequest

\* The nonce is used and every run was made: only the ledger's clients must never be stuck.
Bounded == setting \in {"reviewing", "discovering"} /\ UNCHANGED <<vars, reviewVars>>

MCNext ==
    /\ \/ Proposing /\ UNCHANGED reviewVars
       \/ Reviewing /\ UNCHANGED vars
       \/ Bounded
    /\ UNCHANGED setting

\* Bound: the last row is checked and not followed; signing needs one row less.
RowBound == LedgerHead + (IF setting = "signing" THEN 1 ELSE 0) < MaxRows

MCSpec == MCInit /\ [][MCNext]_decisionVars
=============================================================================
