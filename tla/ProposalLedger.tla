---------------------------- MODULE ProposalLedger ----------------------------
(* The append-only proposal ledger of one corpus and the operations of         *)
(* ProposalStore on it (proposals/store.py, storage/proposals.py): runs        *)
(* collect proposed classes, deterministic dedupe and human judges judge them, *)
(* reviewers decide them, and the legacy import carries old decisions over.    *)
(* The registry is a pure fold of the ledger (proposals/registry.py).          *)
(*                                                                             *)
(* Every operation reads the ledger, works outside any transaction, and then   *)
(* appends one row in a transaction that checks the operation id, the head     *)
(* the work was done against and, for signed decisions, the commit time.       *)
(* Between these steps the other clients append and time passes.               *)
(*                                                                             *)
(* Proposals are numbered in the order of their ids; 0 is no proposal. Labels, *)
(* notes, provenance and counts are left out. One signer signs, so a nonce     *)
(* stands for the pair of signer and nonce.                                    *)
EXTENDS Integers, Sequences, FiniteSets

CONSTANTS
    Clients,      \* concurrent callers: API requests, scripts, other processes
    Proposals,    \* the proposals a run can propose, 1 .. n
    Stem,         \* Stem[p]: the plural stem of p's label
    Collects,     \* what runs collect: [run, found]
    Lexicons,     \* FOLIO lexicons: each gives every proposal "primary", "alias" or "none"
    Judgings,     \* human judgment requests: [key, items]
    Batches,      \* decision requests: [key, items]; key "auto" lets the API derive the id
    Legacy,       \* Legacy[p]: the decided row of the legacy table for p
    SigningSkew,  \* how far issued_at may be from server time
    MaxTime       \* bound: the clock

ASSUME LedgerAssumption ==
    /\ Proposals \subseteq Nat \ {0}
    /\ DOMAIN Legacy \subseteq Proposals
    /\ SigningSkew \in Nat /\ MaxTime \in Nat

VARIABLES
    log,    \* proposal_ledger: the committed rows, in position order
    calls,  \* calls[c]: what client c's call has read and computed so far
    now     \* server time

vars == <<log, calls, now>>

NoSignature == [nonce |-> 0, issued |-> 0, status |-> "none", into |-> 0]

\* A signature has a nonce.
ASSUME BatchAssumption ==
    \A request \in Batches : \A p \in DOMAIN request.items :
        request.items[p].sig = NoSignature \/ request.items[p].sig.nonce # 0

NoJudgment == [verdict |-> "none", into |-> 0, by |-> "none"]
NoDecision == [status |-> "pending", into |-> 0, by |-> "none", signed |-> FALSE,
               at |-> 0, position |-> 0]

-----------------------------------------------------------------------------
(* The fold: the registry of one corpus after the first n rows.              *)

\* first[p]: first_seen_position, 0 for a proposal no run has collected.
EmptyRegistry ==
    [first |-> [p \in Proposals |-> 0],
     judgment |-> [p \in Proposals |-> NoJudgment],
     decision |-> [p \in Proposals |-> NoDecision],
     nonces |-> {}, invalid |-> {}]

Known(reg) == {p \in Proposals : reg.first[p] # 0}

ApplyCollect(reg, row, n) ==
    [reg EXCEPT !.first = [p \in Proposals |->
        IF p \in row.body.found /\ @[p] = 0 THEN n ELSE @[p]]]

ApplyJudgment(reg, row) ==
    [reg EXCEPT !.judgment = [p \in Proposals |->
        IF p \in DOMAIN row.body /\ p \in Known(reg) THEN row.body[p] ELSE @[p]]]

\* check_fresh, the one freshness rule of the verifier, the commit and the fold.
Fresh(issued, t) == t - issued \in -SigningSkew .. SigningSkew

\* check_matches: the signed body describes the decision, its merge target included.
Matches(item) == item.sig.status = item.status /\ item.sig.into = item.into

Signed(item) == item.sig # NoSignature

\* The rules of a merge target, at validation and again in the fold.
TargetValid(reg, p, item) ==
    IF item.status = "merged" THEN item.into \in Known(reg) \ {p} ELSE item.into = 0

\* decision_row_problem and signature_record_problem: the fold checks a stored item again.
Decides(reg, p, item, t) ==
    /\ p \in Known(reg)
    /\ TargetValid(reg, p, item)
    /\ Signed(item) => Matches(item) /\ Fresh(item.sig.issued, t)

Core(d) == <<d.status, d.into, d.by>>

\* An item equal to the current decision keeps its time; an invalid one decides nothing.
ApplyDecision(reg, row, n) ==
    LET valid == {p \in DOMAIN row.body : Decides(reg, p, row.body[p], row.at)}
        Decided(p) == [status |-> row.body[p].status, into |-> row.body[p].into,
                       by |-> row.body[p].by, signed |-> Signed(row.body[p]),
                       at |-> row.at, position |-> n]
    IN  [reg EXCEPT
            !.decision = [p \in Proposals |->
                IF p \in valid /\ Core(row.body[p]) # Core(@[p]) THEN Decided(p) ELSE @[p]],
            !.nonces = @ \union {row.body[p].sig.nonce : p \in {q \in valid : Signed(row.body[q])}},
            !.invalid = @ \union {<<n, p>> : p \in DOMAIN row.body \ valid}]

Apply(reg, row, n) ==
    CASE row.kind = "collect"  -> ApplyCollect(reg, row, n)
      [] row.kind = "judgment" -> ApplyJudgment(reg, row)
      [] row.kind = "decision" -> ApplyDecision(reg, row, n)

LedgerHead == Len(log)

RegistryAt[n \in 0 .. LedgerHead] ==
    IF n = 0 THEN EmptyRegistry ELSE Apply(RegistryAt[n - 1], log[n], n)

Registry == RegistryAt[LedgerHead]
RowsUnder(op) == {n \in 1 .. LedgerHead : log[n].op = op}

-----------------------------------------------------------------------------
(* What the operations compute from the registry they loaded.                *)

\* The proposal collected first among those with one stem (ties by id).
Canonical(reg, p) ==
    CHOOSE q \in Known(reg) :
        /\ Stem[q] = Stem[p]
        /\ \A r \in Known(reg) : Stem[r] = Stem[p] =>
              reg.first[q] < reg.first[r] \/ (reg.first[q] = reg.first[r] /\ q <= r)

\* DeterministicDeduper.judge: a FOLIO label first, then a plural stem met earlier.
Verdict(lexicon, reg, p) ==
    LET block(verdict, into) == [verdict |-> verdict, into |-> into, by |-> "deterministic"]
    IN  CASE lexicon[p] = "primary" -> block("DUPLICATE_OF", 0)
          [] lexicon[p] = "alias"   -> block("ALIAS_CANDIDATE", 0)
          [] lexicon[p] = "none" /\ Canonical(reg, p) # p -> block("MERGE_WITH", Canonical(reg, p))
          [] OTHER -> NoJudgment

\* is_preserved: dedupe leaves what a human or a model judged.
Preserved(reg, p) == reg.judgment[p].by = "human"

\* changes(): the verdicts that differ from the current ones; NoJudgment clears one.
Changes(lexicon, reg) ==
    LET changed == {p \in Known(reg) :
                      ~Preserved(reg, p) /\ Verdict(lexicon, reg, p) # reg.judgment[p]}
    IN  [p \in changed |-> Verdict(lexicon, reg, p)]

\* The stored form of a requested item: a merge without a target takes the one the
\* current MERGE_WITH judgment names; a verified signer is the author.
Stored(reg, p, item, author) ==
    LET judged == reg.judgment[p]
        into == IF item.status = "merged" /\ item.into = 0 /\ judged.verdict = "MERGE_WITH"
                THEN judged.into ELSE item.into
    IN  [status |-> item.status, into |-> into, sig |-> item.sig,
         by |-> IF Signed(item) THEN "signer" ELSE author]

\* decided_by: the legacy import has a reviewer of its own.
Author(op) == IF op[1] = "legacy" THEN "legacy" ELSE "reviewer"

StoredBatch(reg, op, items) ==
    [p \in DOMAIN items |-> Stored(reg, p, items[p], Author(op))]

\* validate_decision and verify_signed_decision on one item.
ItemAccepted(reg, p, item, replaying) ==
    /\ p \in Known(reg)
    /\ TargetValid(reg, p, item)
    /\ Signed(item) => Matches(item) /\ (replaying \/ Fresh(item.sig.issued, now))

\* A nonce is used once in a batch and, unless the batch is a replay, once in the ledger.
NoncesUnused(reg, body, replaying) ==
    LET signed == {p \in DOMAIN body : Signed(body[p])}
    IN  /\ \A p, q \in signed : body[p].sig.nonce = body[q].sig.nonce => p = q
        /\ replaying \/ \A p \in signed : body[p].sig.nonce \notin reg.nonces

\* What the legacy import still has to carry over: rows no earlier import recorded, for
\* proposals nobody has decided.
ToImport(reg) ==
    LET imports == {n \in 1 .. LedgerHead : log[n].op[1] = "legacy"}
        imported == UNION {DOMAIN log[n].body : n \in imports}
        open == {p \in DOMAIN Legacy : /\ p \in Known(reg) \ imported
                                       /\ reg.decision[p].status = "pending"}
    IN  [p \in open |-> [status |-> Legacy[p], into |-> 0, sig |-> NoSignature]]

-----------------------------------------------------------------------------
(* The calls.                                                                *)

AnyHead == -1
NoOp == <<"none", 0, 0>>

\* pc       what the call does next
\* op       its operation id; kind and body: the row it wants to append
\* asked    the request as the client sent it
\* head     the head its registry was folded at; expected: expected_head
\* replaying whether its op was committed when it looked; tries: of the legacy import
NoCall == [pc |-> "idle", op |-> NoOp, kind |-> "none", body |-> <<>>, asked |-> <<>>,
           head |-> 0, expected |-> AnyHead, replaying |-> FALSE, tries |-> 0]

Init ==
    /\ log = <<>>
    /\ calls = [c \in Clients |-> NoCall]
    /\ now = 0

\* An answer or a refusal ends a call. A caller that dies earlier leaves the ledger as if
\* it had not called, and one that dies after its commit leaves the row.
Ended(c) == calls' = [calls EXCEPT ![c] = NoCall]

\* collect_run: the row is built from the run alone and appended at any head.
BeginCollect(c) ==
    /\ calls[c].pc = "idle"
    /\ \E input \in Collects :
          calls' = [calls EXCEPT ![c] = [NoCall EXCEPT
              !.pc = "append", !.kind = "collect", !.op = <<"collect", input.run, 0>>,
              !.body = input, !.head = LedgerHead]]
    /\ UNCHANGED <<log, now>>

\* apply_dedupe up to its append, whose id holds the head and the changes.
BeginDedupe(c) ==
    /\ calls[c].pc = "idle"
    /\ \E lexicon \in Lexicons :
         LET changes == Changes(lexicon, Registry)
         IN  /\ DOMAIN changes # {}
             /\ calls' = [calls EXCEPT ![c] = [NoCall EXCEPT
                    !.pc = "append", !.kind = "judgment", !.op = <<"dedupe", changes, LedgerHead>>,
                    !.body = changes, !.asked = lexicon, !.head = LedgerHead,
                    !.expected = LedgerHead]]
    /\ UNCHANGED <<log, now>>

\* record_judgments up to its append: every item is validated, at any head.
BeginJudge(c) ==
    /\ calls[c].pc = "idle"
    /\ \E request \in Judgings :
          /\ \A p \in DOMAIN request.items :
                /\ p \in Known(Registry)
                /\ request.items[p].into \in (Known(Registry) \ {p}) \union {0}
          /\ calls' = [calls EXCEPT ![c] = [NoCall EXCEPT
                !.pc = "append", !.kind = "judgment", !.op = <<"client", request.key, 0>>,
                !.body = request.items, !.asked = request.items, !.head = LedgerHead]]
    /\ UNCHANGED <<log, now>>

\* The review route or the script names the operation: by the client's key, or derived
\* from the request and the head it reads first.
BeginDecide(c) ==
    /\ calls[c].pc = "idle"
    /\ \E request \in Batches :
         LET op == IF request.key = "auto" THEN <<"auto", request.items, LedgerHead>>
                                           ELSE <<"client", request.key, 0>>
         IN  calls' = [calls EXCEPT ![c] = [NoCall EXCEPT
                !.pc = "load", !.kind = "decision", !.op = op, !.asked = request.items]]
    /\ UNCHANGED <<log, now>>

\* _import_once: evaluate the rules, and make the batch conditional on that head.
PlanImport(c, tries) ==
    LET items == ToImport(Registry)
    IN  IF DOMAIN items = {}
        THEN Ended(c)
        ELSE calls' = [calls EXCEPT ![c] = [NoCall EXCEPT
                 !.pc = "load", !.kind = "decision", !.op = <<"legacy", items, 0>>,
                 !.asked = items, !.expected = LedgerHead, !.tries = tries]]

\* import_legacy_decisions.
BeginImport(c) ==
    /\ calls[c].pc = "idle"
    /\ DOMAIN Legacy # {}
    /\ PlanImport(c, 1)
    /\ UNCHANGED <<log, now>>

\* record_decisions folds the ledger it will validate against ...
Load(c) ==
    /\ calls[c].pc = "load"
    /\ calls' = [calls EXCEPT ![c].pc = "validate", ![c].head = LedgerHead]
    /\ UNCHANGED <<log, now>>

\* A head that moved: the import starts again once, every other call is refused.
Moved(c) ==
    IF calls[c].op[1] = "legacy" /\ calls[c].tries = 1
    THEN PlanImport(c, 2)
    ELSE Ended(c)

(* fault: a batch is appended at whatever head the ledger has by then *)
ExpectedAnyHead(c, replaying) == AnyHead

(* fault: the head is the position the batch will get *)
ExpectedNext(c, replaying) == IF replaying THEN AnyHead ELSE calls[c].head + 1

\* The head a batch must still be at: none when its id is committed already.
ExpectedHead(c, replaying) ==
    IF replaying THEN AnyHead
    ELSE IF calls[c].expected = AnyHead THEN calls[c].head ELSE calls[c].expected

\* ... and then reads which operations are committed, validates the whole batch and
\* verifies its signatures; one bad item refuses it all.
Validate(c) ==
    LET call == calls[c]
        reg == RegistryAt[call.head]
        replaying == RowsUnder(call.op) # {}
        body == StoredBatch(reg, call.op, call.asked)
        accepted == /\ \A p \in DOMAIN body : ItemAccepted(reg, p, body[p], replaying)
                    /\ NoncesUnused(reg, body, replaying)
    IN  /\ call.pc = "validate"
        /\ \/ /\ ~accepted
              /\ Ended(c)
           \/ /\ accepted
              /\ ~replaying /\ call.expected \notin {AnyHead, call.head}
              /\ Moved(c)
           \/ /\ accepted
              /\ replaying \/ call.expected \in {AnyHead, call.head}
              /\ calls' = [calls EXCEPT ![c].pc = "append", ![c].body = body,
                               ![c].replaying = replaying,
                               ![c].expected = ExpectedHead(c, replaying)]
        /\ UNCHANGED <<log, now>>

-----------------------------------------------------------------------------
(* The write transaction of storage/proposals.py and the answer.             *)

(* fault: freshness was checked before the lock was taken *)
CommitTimeAssumed(call) == TRUE

\* check_commit_time: every signature is fresh at the instant the row records.
CommitTimeOk(call) ==
    call.kind = "decision" =>
        \A p \in DOMAIN call.body :
            Signed(call.body[p]) => Fresh(call.body[p].sig.issued, now)

(* fault: only decisions are held to the head they were made against *)
DecisionMoved(call) == call.kind = "decision" /\ call.expected \notin {AnyHead, LedgerHead}

HeadMoved(call) == call.expected \notin {AnyHead, LedgerHead}

Row(call) == [op |-> call.op, kind |-> call.kind, body |-> call.body,
              asked |-> call.asked, at |-> now]

\* _append. In this order: a committed operation replays for the same request and is a
\* conflict for another one; a head that moved, then a commit time, refuses; else the row
\* is appended.
Append_(c) ==
    LET call == calls[c]
        existing == RowsUnder(call.op)
    IN  /\ call.pc = "append"
        /\ \/ \E n \in existing :
                 /\ UNCHANGED log
                 /\ IF log[n].kind = call.kind /\ log[n].body = call.body
                    THEN Ended(c)
                    ELSE Ended(c)
           \/ /\ existing = {}
              /\ HeadMoved(call)
              /\ Moved(c)
              /\ UNCHANGED log
           \/ /\ existing = {}
              /\ ~HeadMoved(call)
              /\ ~CommitTimeOk(call)
              /\ Ended(c)
              /\ UNCHANGED log
           \/ /\ existing = {}
              /\ ~HeadMoved(call)
              /\ CommitTimeOk(call)
              /\ log' = Append(log, Row(call))
              /\ Ended(c)
        /\ UNCHANGED now

Tick ==
    /\ now < MaxTime
    /\ now' = now + 1
    /\ UNCHANGED <<log, calls>>

Next ==
    \/ \E c \in Clients :
          \/ BeginCollect(c) \/ BeginDedupe(c) \/ BeginJudge(c)
          \/ BeginDecide(c) \/ BeginImport(c)
          \/ Load(c) \/ Validate(c) \/ Append_(c)
    \/ Tick

Spec == Init /\ [][Next]_vars

-----------------------------------------------------------------------------
(* Properties.                                                               *)

Kinds == {"collect", "judgment", "decision"}

\* Types, and that a call holds heads the ledger has reached.
TypeOK ==
    /\ now \in 0 .. MaxTime
    /\ \A n \in 1 .. LedgerHead : log[n].kind \in Kinds /\ log[n].at \in 0 .. now
    /\ \A c \in Clients :
          /\ calls[c].pc \in {"idle", "load", "validate", "append"}
          /\ calls[c].head \in 0 .. LedgerHead
          /\ calls[c].expected \in AnyHead .. LedgerHead

\* Every decision the store accepts decides: no committed item folds invalid, though its
\* signature ages while the batch waits for the write lock, so DecisionNotRecorded is
\* unreachable; and a signed decision decides once, whatever ids it is submitted under.
EveryRowDecides ==
    /\ Registry.invalid = {}
    /\ \A m, n \in 1 .. LedgerHead :
          \A p \in DOMAIN log[m].body, q \in DOMAIN log[n].body :
             /\ log[m].kind = "decision" /\ log[n].kind = "decision"
             /\ Signed(log[m].body[p])
             /\ log[m].body[p].sig.nonce = log[n].body[q].sig.nonce
             => m = n /\ p = q

\* A row says what its request means on the ledger just below it, whatever was committed
\* while it was prepared. A merge goes to the target the judgment of that moment names,
\* dedupe records the verdicts of that moment and no human judgment changes with them, and
\* the legacy import decides nothing that a reviewer has decided.
WrittenAtItsHead ==
    \A n \in 1 .. LedgerHead :
        LET row == log[n]
            reg == RegistryAt[n - 1]
        IN  /\ row.kind = "decision" => row.body = StoredBatch(reg, row.op, row.asked)
            /\ row.op[1] = "dedupe" =>
                  /\ row.body = Changes(row.asked, reg)
                  /\ \A p \in DOMAIN row.body : ~Preserved(reg, p)
            /\ row.op[1] = "legacy" =>
                  \A p \in DOMAIN row.body : reg.decision[p].status = "pending"

=============================================================================
