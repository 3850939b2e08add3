------------------------------ MODULE UnitReview ------------------------------
(* The reviews of one corpus's extracted units (api/routes/review.py): what a  *)
(* reviewer is shown, the decision signed over it, and what the server then    *)
(* stores, while extractions replace the units, the server restarts, the       *)
(* signers file is edited and other reviewers decide.                          *)
(*                                                                             *)
(* The server keeps the units it has read in memory and never reads them again *)
(* (api/main.py).  Unit ids are uuid4: an id stands for its text.  A signature *)
(* is its nonce; what it covers is kept in "signed", which no code reads.      *)
(* Freshness and the nonces' ledger are modelled in ProposalLedger and         *)
(* ReviewDb; notes are left out.                                               *)
EXTENDS Naturals, FiniteSets

CONSTANTS
    UnitIds,
    Runs,         \* extractions: the sets of units a run may write
    Confident,    \* the units at or above the threshold
    Verdicts,     \* of a review that edits nothing: approved, rejected
    People,       \* reviewers with a key of their own
    ReviewNonces, \* signatures
    NotYet

ASSUME ReviewAssumption ==
    /\ Runs \subseteq SUBSET UnitIds
    /\ Confident \subseteq UnitIds

VARIABLES
    written,    \* the units of extraction.json
    served,     \* the units the server holds, or NotYet
    reviews,    \* review_decisions: unit -> row, or NotYet
    claimed,    \* decision_nonces
    policy,     \* the server's signed-decision policy: [require, signers]
    signed,     \* what each signature covers, by whom and over which list
    asks        \* the request each reviewer has in flight

unitVars == <<written, served, reviews, claimed, policy, signed, asks>>

NoAsk == [pc |-> "idle"]
AnyPolicy == [require : BOOLEAN, signers : {NotYet, People}]

InitUnits ==
    /\ written \in Runs
    /\ served = NotYet
    /\ reviews = [u \in UnitIds |-> NotYet]
    /\ claimed = {}
    /\ policy \in AnyPolicy
    /\ signed = [n \in ReviewNonces |-> NotYet]
    /\ asks = [p \in People |-> NoAsk]

-----------------------------------------------------------------------------
(* get_extraction_data: read once, by the first request that needs it *)
Units == IF served = NotYet THEN written ELSE served
Serve == served' = Units

(* _merge_review: the row's verdict, and the text that replaces the unit's *)
Shown(u) == IF reviews[u] = NotYet THEN "unreviewed" ELSE reviews[u].status

Selected == Units \cap Confident

(* What a request asks, and what its signature must describe word for word: a  *)
(* threshold is bound by the digest of the units it selects.                   *)
Decision(kind, target, verdict, edited) ==
    [kind |-> kind, target |-> target, verdict |-> verdict, edited |-> edited]

Asked(kind, u) ==
    CASE kind = "review" -> {Decision(kind, {u}, v, NotYet) : v \in Verdicts}
                            \cup {Decision(kind, {u}, "edited", "text")}
      [] kind = "ids" -> {Decision(kind, {u}, "approved", NotYet)}
      [] kind = "threshold" -> {Decision(kind, Selected, "approved", NotYet)}
      [] kind = "reset" -> {Decision(kind, {}, "reset", NotYet)}

Kinds == {"review", "ids", "threshold", "reset"}

(* sign_decision by a reviewer who has just listed the units *)
Sign(p, n) ==
    /\ signed[n] = NotYet
    /\ \E kind \in Kinds, u \in Units : \E d \in Asked(kind, u) :
          signed' = [signed EXCEPT ![n] = [by |-> p, decision |-> d, seen |-> Units]]
    /\ Serve
    /\ UNCHANGED <<written, reviews, claimed, policy, asks>>

(* load_policy: signatures may be required only of listed signers *)
Usable == policy.require => policy.signers # NotYet

(* fault: a threshold is compared, and the units it selects now are taken *)
MatchesThreshold(d, asked) ==
    d.kind = asked.kind /\ (d.kind = "threshold" \/ d.target = asked.target)
    /\ d.verdict = asked.verdict /\ d.edited = asked.edited

(* check_matches: the signed body is the decision about to be stored *)
Matches(d, asked) == d = asked

(* verify_or_refuse, with the policy of this moment *)
Verified(n, asked) ==
    IF n = NotYet THEN ~policy.require
    ELSE /\ Matches(signed[n].decision, asked)
         /\ policy.signers # NotYet => signed[n].by \in policy.signers

(* review_unit, bulk_approve, reset_reviews: the units are looked up and the   *)
(* selection is made once, when the request is received                        *)
Receive(p) ==
    /\ asks[p] = NoAsk
    /\ Usable
    /\ \E kind \in Kinds, u \in UnitIds, n \in {NotYet} \cup {m \in ReviewNonces : signed[m] # NotYet} :
          \E d \in Asked(kind, u) :
             /\ kind = "review" => u \in Units
             /\ Verified(n, d)
             /\ asks' = [asks EXCEPT ![p] =
                   [pc |-> "write", decision |-> d, nonce |-> n,
                    registered |-> n # NotYet /\ policy.signers # NotYet]]
    /\ Serve
    /\ UNCHANGED <<written, reviews, claimed, policy, signed>>

(* The row of a verdict.  A review replaces the edited text, an approval of    *)
(* many leaves it.                                                             *)
Row(u, ask) ==
    LET d == ask.decision
    IN  [status |-> d.verdict, nonce |-> ask.nonce, registered |-> ask.registered,
         edited |-> IF d.kind = "review" \/ reviews[u] = NotYet THEN d.edited
                    ELSE reviews[u].edited]

Stored(ask) ==
    IF ask.decision.kind = "reset" THEN [u \in UnitIds |-> NotYet]
    ELSE [u \in UnitIds |-> IF u \in ask.decision.target THEN Row(u, ask) ELSE reviews[u]]

(* fault: the nonce is recorded after the rows *)
NonceFreeLater(ask) == TRUE

(* prepare_write: the nonce is claimed in the transaction of the rows *)
NonceFree(ask) == ask.nonce = NotYet \/ ask.nonce \notin claimed

CommitReview(p) ==
    LET ask == asks[p]
    IN  /\ ask.pc = "write"
        /\ \/ /\ NonceFree(ask)
              /\ claimed' = claimed \cup ({ask.nonce} \ {NotYet})
              /\ reviews' = Stored(ask)
           \/ ~NonceFree(ask) /\ UNCHANGED <<claimed, reviews>>
        /\ asks' = [asks EXCEPT ![p] = NoAsk]
        /\ UNCHANGED <<written, served, policy, signed>>

-----------------------------------------------------------------------------
(* An extraction replaces the file; the server goes on with what it holds. *)
Extract ==
    /\ \E units \in Runs : written' = units
    /\ UNCHANGED <<served, reviews, claimed, policy, signed, asks>>

(* The default corpus is read at once, any other by the first request. *)
Restart ==
    /\ served' \in {NotYet, written}
    /\ asks' = [p \in People |-> NoAsk]
    /\ UNCHANGED <<written, reviews, claimed, policy, signed>>

(* The operator edits the signers file, which is read again when it changes, *)
(* or restarts the server with another setting.                              *)
EditSigners ==
    /\ \E signers \in SUBSET People : policy' = [policy EXCEPT !.signers = signers]
    /\ policy.signers # NotYet
    /\ UNCHANGED <<written, served, reviews, claimed, signed, asks>>

NextUnits ==
    \/ \E p \in People :
          \/ \E n \in ReviewNonces : Sign(p, n)
          \/ Receive(p) \/ CommitReview(p)
    \/ Extract \/ Restart \/ EditSigners

UnitSpec == InitUnits /\ [][NextUnits]_unitVars

-----------------------------------------------------------------------------
(* A signed verdict stands on a unit only if its signer was shown that unit    *)
(* and said just that of it, however the units, the server and the other rows  *)
(* have changed since; and a signature that was used is used up.               *)
VerdictAsSeen ==
    \A u \in UnitIds : reviews[u] # NotYet /\ reviews[u].nonce # NotYet =>
        LET row == reviews[u]
            s == signed[row.nonce]
        IN  /\ u \in s.decision.target /\ row.status = s.decision.verdict
            /\ s.decision.kind = "threshold" => u \in s.seen
            /\ row.nonce \in claimed

(* A signature is written once: rows it stands on never come back after they   *)
(* were decided again or reset.                                                *)
NeverRestored ==
    [][\A u \in UnitIds :
          /\ reviews'[u] # reviews[u] /\ reviews'[u] # NotYet
          /\ reviews'[u].nonce # NotYet
          => reviews'[u].nonce \notin claimed]_unitVars

(* signed_decisions.py: "a signature cannot be moved to another unit, proposal, *)
(* corpus or verdict": the edited text a signed row shows is the signer's.      *)
(* (It may be another's: bulk_approve leaves edited_text.)                      *)
EditIsSigned ==
    \A u \in UnitIds : reviews[u] # NotYet /\ reviews[u].nonce # NotYet =>
        reviews[u].edited = signed[reviews[u].nonce].decision.edited
=============================================================================
