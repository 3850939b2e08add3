---------------------------- MODULE ShardLifecycle ----------------------------
(* The revisions of a corpus's shards and the events that govern them:         *)
(* audited content edits (revision/content_edit.py) put through the persistent *)
(* store (storage/shards.py, storage/context.py), and the promote, contest,    *)
(* resolve, supersede and retract commands (governance/). A shard record is    *)
(* its edited fields, what a cascade weighs and its chain of content edits;    *)
(* signatures are taken as valid and roles as granted, which GovernanceLog     *)
(* models with the staleness of a confirmed preview. Several editors work at   *)
(* once: each reads the stored shard, edits a copy and puts it.                *)
EXTENDS EffectiveState

CONSTANTS
    Shards, Editors,
    Values,         \* field an editor may name, protected or not -> the values tried
    NoEdit,           \* an editor with nothing in hand
    MaxTime,        \* bound on the clock
    MaxEvents,      \* bound on the governance log
    MaxChain        \* bound on the edits of one shard

ASSUME ShardAssumption ==
    IsFiniteSet(Shards) /\ MaxTime \in Nat /\ MaxEvents \in Nat /\ MaxChain \in Nat

VARIABLES
    revisions,      \* journal: shard -> every committed record, oldest first
    log,            \* journal: the governance events in commit order
    editors,        \* editor -> the edited copy it is about to put, or NoEdit
    clock

shardVars == <<revisions, log, editors, clock>>

StoredShards == {s \in Shards : revisions[s] # <<>>}
Store == [s \in StoredShards |-> Last(revisions[s])]
States == DeriveEffectiveStates(Store, log)

\* IMMUTABLE_FIELD_PATHS, by what they protect.
Protected == {"shard_iri", "extracted_at", "triple.subject", "content_edits", "signatures"}

-----------------------------------------------------------------------------
(* Content edits                                                               *)

\* validate_shard: the chain never runs backward in time.
ForwardOnly(record) ==
    \A i \in 1 .. Len(record.content_edits) - 1 :
        record.content_edits[i].edited_at <= record.content_edits[i + 1].edited_at

Edited(record, field, value, now) ==
    [record EXCEPT ![field] = value,
                   !.content_edits = Append(@, [field_path |-> field, old_value |-> record[field],
                                                new_value |-> value, edited_at |-> now])]

\* edit_shard_content up to the put: the wall clock may have been stepped back a little.
EditContent(p, s, field, value) ==
    /\ editors[p] = NoEdit /\ s \in StoredShards
    /\ field \notin Protected
    /\ Len(Store[s].content_edits) < MaxChain
    /\ \E now \in {clock, clock - 1} \cap Nat :
          /\ ForwardOnly(Edited(Store[s], field, value, now))
          /\ editors' = [editors EXCEPT ![p] = [shard |-> s,
                                                record |-> Edited(Store[s], field, value, now)]]
    /\ UNCHANGED <<revisions, log, clock>>

\* _check_identity: a revision keeps the frozen fields and never shortens the edit chain.
RevisionAllowed(prior, record) ==
    /\ prior.extracted_at = record.extracted_at
    /\ Len(record.content_edits) >= Len(prior.content_edits)

PutEdit(p) ==
    /\ editors[p] # NoEdit
    /\ LET s == editors[p].shard
           record == editors[p].record
       IN  revisions' = [revisions EXCEPT ![s] = IF RevisionAllowed(Store[s], record)
                                                 THEN Append(@, record) ELSE @]
    /\ editors' = [editors EXCEPT ![p] = NoEdit]
    /\ UNCHANGED <<log, clock>>

\* The editor's process dies before the put: nothing was written.
CrashEdit(p) ==
    /\ editors[p] # NoEdit
    /\ editors' = [editors EXCEPT ![p] = NoEdit]
    /\ UNCHANGED <<revisions, log, clock>>

(* fault: the edits are undone oldest first. *)
UndoneOldestFirst(record, edits) ==
    FoldLeft(LAMBDA r, e : [r EXCEPT ![e.field_path] = e.old_value], record, edits)
\* Put the old values back, newest edit first.
Undone(record, edits) ==
    FoldLeft(LAMBDA r, e : [r EXCEPT ![e.field_path] = e.old_value], record, Reverse(edits))

\* get_shard_at: an edit at exactly t happened by t.
GetShardAt(record, t) ==
    [Undone(record, SelectSeq(record.content_edits, LAMBDA e : e.edited_at > t))
        EXCEPT !.content_edits = SelectSeq(@, LAMBDA e : e.edited_at <= t)]

-----------------------------------------------------------------------------
(* Governance commands: each validates, passes its SHACL shape and appends     *)

CommitEvent(event) ==
    /\ Len(log) < MaxEvents
    /\ log' = Append(log, event @@ [at |-> clock])
    /\ UNCHANGED <<revisions, editors, clock>>

\* D-20 and D-21: the citations resolve, none is the shard itself, and one carries the rank.
Commensurate(status, cited) ==
    CASE status = "per_se_nota_quoad_nos" -> TRUE
      [] status = "authority_only" ->
            \E c \in cited : Store[c].reconciled \/ Store[c].epistemic_status = "authority_only"
      [] status = "demonstrable" -> \E c \in cited : Store[c].epistemic_status \in Attested

Promote(s, status, cited) ==
    /\ cited # {} /\ cited \subseteq StoredShards \ {s}
    /\ Commensurate(status, cited)
    /\ CommitEvent([kind |-> "promote", shard |-> s, new_status |-> status, cited |-> cited])

Contest(s) == CommitEvent([kind |-> "contest", shard |-> s])

\* A resolution needs some earlier contest of the shard, resolved since or not.
ResolveContest(s, path) ==
    /\ \E i \in DOMAIN log : log[i].kind = "contest" /\ log[i].shard = s
    /\ CommitEvent([kind |-> "resolve_contest", shard |-> s, path |-> path])

Supersede(old, new) ==
    /\ old # new /\ {old, new} \subseteq StoredShards
    /\ CommitEvent([kind |-> "supersede", old |-> old, new |-> new])

\* commit_cascade under the policy of a preview that is still current.
Retract(s, policy) ==
    /\ s \in StoredShards
    /\ CommitEvent([kind |-> "retract", shard |-> s, policy |-> policy])

Tick ==
    /\ clock < MaxTime
    /\ clock' = clock + 1
    /\ UNCHANGED <<revisions, log, editors>>

InitWith(records, events) ==
    /\ revisions = [s \in Shards |-> IF s \in DOMAIN records THEN <<records[s]>> ELSE <<>>]
    /\ log = events
    /\ editors = [p \in Editors |-> NoEdit]
    /\ clock = 1

Editing ==
    \/ \E p \in Editors, s \in Shards, f \in DOMAIN Values :
          \E v \in Values[f] : EditContent(p, s, f, v)
    \/ \E p \in Editors : PutEdit(p) \/ CrashEdit(p)

Governing ==
    \/ \E s \in Shards, cited \in SUBSET Shards,
          status \in {"per_se_nota_quoad_nos", "authority_only", "demonstrable"} :
              Promote(s, status, cited)
    \/ \E s \in Shards : Contest(s)
    \/ \E s \in Shards, path \in {"arbiter", "distinguo", "aporetic"} : ResolveContest(s, path)
    \/ \E old, new \in Shards : Supersede(old, new)
    \/ \E s \in Shards, policy \in Policies : Retract(s, policy)

-----------------------------------------------------------------------------
(* Properties                                                                  *)

Times == 0 .. MaxTime
Retractions == {i \in DOMAIN log : log[i].kind = "retract"}
Swapped(i, j) == [log EXCEPT ![i] = log[j], ![j] = log[i]]

\* The order of two retractions does not matter: whatever was contested, superseded or
\* retracted in between, every shard reads the same (derive_effective_states).
OrderIndependent ==
    LET states == States
    IN  \A i, j \in Retractions : i < j => DeriveEffectiveStates(Store, Swapped(i, j)) = states

\* A retraction never leaves a direct dependent with less caution than the preview its operator
\* confirmed: with other causes and contests the dependent may only be held back further.
CommitKeepsPreview ==
    log # <<>> /\ Last(log).kind = "retract" /\ Last(log).policy # NoPolicy =>
        LET e == Last(log)
            depths == TransitiveDependents(Store, e.shard)
            states == States
        IN  \A d \in DOMAIN depths :
                depths[d] = 1 /\ Rank[states[d].status] < Rank.superseded =>
                    /\ states[d].status \in DOMAIN Conservative
                    /\ Conservative[states[d].status] >=
                           Conservative[PreviewBucket(Store, Front(log), e.shard, e.policy, d)]

\* No later event revives a shard: what read as retracted after some event still does, and what
\* read as superseded gave way only to a retraction.
NeverRevived ==
    LET states == States
    IN  \A n \in 0 .. Len(log) :
            LET before == DeriveEffectiveStates(Store, SubSeq(log, 1, n))
            IN  \A s \in StoredShards :
                    /\ before[s].status = "retracted" => states[s].status = "retracted"
                    /\ before[s].status = "superseded" =>
                           states[s].status \in {"superseded", "retracted"}

\* As of any time, a superseded shard and the successor it reads never both hold, however late
\* the event was committed and whichever chain or cycle of supersessions they are on.
OneHoldsAsOf ==
    LET store == Store
        states == States
    IN  \A s \in StoredShards, t \in Times :
            LET new == states[s].superseded_by
            IN  new \in StoredShards =>
                    ~(HoldsAt(store, states, s, t) /\ HoldsAt(store, states, new, t))

\* Whatever past time is asked for, reverse replay of the current record reconstructs a record
\* that really was the stored revision once, edits on one clock tick and lost puts included.
ReplayedWasStored ==
    \A s \in StoredShards, t \in Times :
        \E i \in DOMAIN revisions[s] : GetShardAt(Store[s], t) = revisions[s][i]

\* An audited edit is never dropped from the chain: content_edits only ever grows at its end.
EditsAppendOnly ==
    [][\A s \in Shards : revisions[s] # <<>> /\ revisions'[s] # <<>> =>
        IsPrefix(Last(revisions[s]).content_edits, Last(revisions'[s]).content_edits)]_shardVars

\* A contested shard reads contested until a resolution event.
ContestReads ==
    log # <<>> /\ Last(log).kind = "contest" /\ Last(log).shard \in StoredShards
               /\ (\A i \in DOMAIN log : log[i].kind \notin {"supersede", "retract"}) =>
        States[Last(log).shard].status = "contested"
=============================================================================
