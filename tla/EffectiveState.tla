---------------------------- MODULE EffectiveState ----------------------------
(* What the signed governance events mean for each shard                       *)
(* (revision/effective_state.py, revision/policies.py): nothing is written     *)
(* back to a shard, so its state is derived from the current records and the   *)
(* whole event history on every read. A record's deps are the shards its four  *)
(* depends_on lists name; a framework is the sequence of its dotted segments.  *)
(* The preview a retraction is confirmed on (governance/retract.py) classifies *)
(* the same dependents from the records alone.                                 *)
EXTENDS Naturals, Sequences, FiniteSets, SequencesExt, FiniteSetsExt, TLC

CONSTANTS
    NoShard,        \* no successor
    NoTime,         \* an open end, or a record without a valid time
    NoPolicy        \* a retraction that recorded no cascade policy

Policies == {"prefer_latest", "prefer_authority", "prefer_most_specific_jurisdiction"}
Attested == {"per_se_nota_quoad_se", "per_se_nota_quoad_nos", "demonstrable", "authority_only"}

Rank == [current |-> 0, contested |-> 1, resolved |-> 1, aporetic |-> 2, auto_rederive |-> 2,
         review_needed |-> 2, superseded |-> 3, retracted |-> 4]
Conservative == [auto_rederive |-> 0, aporetic |-> 1, review_needed |-> 2]

-----------------------------------------------------------------------------
(* The dependency graph, breadth first                                         *)

RestOn(store, near) == {d \in DOMAIN store : store[d].deps \cap near # {}}

\* Everything that rests on s, itself included, within n hops.
Within(store, s) ==
    LET hops[n \in 0 .. Cardinality(DOMAIN store)] ==
            IF n = 0 THEN {s}
            ELSE LET near == hops[n - 1] IN near \cup RestOn(store, near)
    IN  hops

\* transitive_dependents: every shard that rests on s -> its least number of hops.
TransitiveDependents(store, s) ==
    LET hops == Within(store, s)
    IN  [d \in hops[Cardinality(DOMAIN store)] \ {s} |-> Min({n \in DOMAIN hops : d \in hops[n]})]

-----------------------------------------------------------------------------
(* The cascade policies                                                        *)

AtLeastAsSpecific(candidate, base) ==
    candidate # <<>> /\ base # <<>> /\ IsPrefix(base, candidate)

\* The last supersession event wins over the record's own superseded_by.
ResolveSuccessor(store, log, s) ==
    LET naming == {n \in DOMAIN log : log[n].kind = "supersede" /\ log[n].old = s}
    IN  IF naming # {} THEN log[Max(naming)].new
        ELSE IF s \in DOMAIN store THEN store[s].superseded_by ELSE NoShard

\* dependent_attrs: what the classifier looks at in a dependent.
DependentAttrs(record) ==
    [epistemic_status |-> record.epistemic_status, votes |-> record.votes,
     reconciled |-> record.reconciled, framework |-> record.framework]

\* A dependent that already needs a human.
MarkedForReview(attrs) ==
    attrs.epistemic_status \in {"contested", "aporetic"} \/ attrs.votes \/ attrs.reconciled

\* What the policy asks of the successor; a successor outside the store has nothing to weigh.
Rederivable(store, policy, successor, attrs) ==
    CASE policy = "prefer_latest" -> TRUE
      [] policy = "prefer_authority" ->
            successor \in DOMAIN store /\ store[successor].epistemic_status \in Attested
      [] policy = "prefer_most_specific_jurisdiction" ->
            /\ successor \in DOMAIN store
            /\ AtLeastAsSpecific(store[successor].framework, attrs.framework)

ClassifyDependent(store, policy, successor, attrs) ==
    IF MarkedForReview(attrs) THEN "review_needed"
    ELSE IF successor = NoShard THEN "aporetic"
    ELSE IF Rederivable(store, policy, successor, attrs) THEN "auto_rederive"
    ELSE "review_needed"

ClassifyAtDepth(store, depth, policy, successor, attrs) ==
    IF depth = 1 THEN ClassifyDependent(store, policy, successor, attrs) ELSE "review_needed"

\* The bucket the operator confirms for dependent d of s: read from the records alone.
PreviewBucket(store, log, s, policy, d) ==
    ClassifyAtDepth(store, TransitiveDependents(store, s)[d], policy,
                    ResolveSuccessor(store, log, s), DependentAttrs(store[d]))

-----------------------------------------------------------------------------
(* derive_effective_states                                                     *)

Current == [status |-> "current", superseded_by |-> NoShard, valid_time_end |-> NoTime,
            depth |-> 0, causes |-> {}, resolution |-> ""]

\* dataclasses.replace: the fields the change names, the others as they were.
With(state, change) ==
    [x \in DOMAIN state |-> IF x \in DOMAIN change THEN change[x] ELSE state[x]]

(* fault: the last event of a shard decides. *)
TouchLast(states, s, change) ==
    IF s \in DOMAIN states THEN [states EXCEPT ![s] = With(@, change)] ELSE states
\* A weaker effect never overrides a stronger state.
Touch(states, s, change) ==
    IF s \in DOMAIN states /\ Rank[change.status] >= Rank[states[s].status]
    THEN [states EXCEPT ![s] = With(@, change)] ELSE states

(* fault: the old shard always ends when the event took effect. *)
EndAtEvent(store, e) == e.at
\* The old shard ends where its successor starts, else when the event took effect.
SupersededEnd(store, e) ==
    IF e.new \in DOMAIN store /\ store[e.new].valid_time_start # NoTime
    THEN store[e.new].valid_time_start ELSE e.at

Superseded(store, states, e) ==
    Touch(states, e.old, [status |-> "superseded", superseded_by |-> e.new,
                          valid_time_end |-> SupersededEnd(store, e)])

ApplySupersessions(store, log) ==
    LET after[n \in 0 .. Len(log)] ==
            IF n = 0 THEN [s \in DOMAIN store |-> Current]
            ELSE IF log[n].kind = "supersede" THEN Superseded(store, after[n - 1], log[n])
            ELSE after[n - 1]
    IN  after[Len(log)]

\* A resolution answers only a shard that reads as contested or settled from a contest.
Resolve(states, e) ==
    IF e.shard \in DOMAIN states /\ states[e.shard].status \in {"contested", "resolved", "aporetic"}
    THEN [states EXCEPT ![e.shard] =
              With(@, [status |-> IF e.path = "aporetic" THEN "aporetic" ELSE "resolved",
                       resolution |-> e.path])]
    ELSE states

Contested(states, e) == Touch(states, e.shard, [status |-> "contested", resolution |-> ""])

ApplyContests(states, log) ==
    LET after[n \in 0 .. Len(log)] ==
            IF n = 0 THEN states
            ELSE CASE log[n].kind = "contest" -> Contested(after[n - 1], log[n])
                   [] log[n].kind = "resolve_contest" -> Resolve(after[n - 1], log[n])
                   [] OTHER -> after[n - 1]
    IN  after[Len(log)]

\* What one retraction asks of a dependent, which may be contested by event.
Outcome(store, log, states, e, d) ==
    LET depth == TransitiveDependents(store, e.shard)[d]
        record == DependentAttrs(store[d])
        attrs == IF states[d].status = "contested"
                 THEN [record EXCEPT !.epistemic_status = "contested"] ELSE record
        successor == ResolveSuccessor(store, log, e.shard)
    IN  [dep |-> d, depth |-> depth, cause |-> e.shard,
         bucket |-> IF e.policy = NoPolicy THEN "review_needed"
                    ELSE ClassifyAtDepth(store, depth, e.policy, successor, attrs)]
Outcomes(store, log, states, e) ==
    {Outcome(store, log, states, e, d) : d \in DOMAIN TransitiveDependents(store, e.shard)}

(* fault: each retraction marks its dependents on the spot. *)
RetractAtOnce(store, log, acc, e) ==
    LET touched == FoldSet(LAMBDA o, sts : Touch(sts, o.dep, [status |-> o.bucket]),
                           acc.states, Outcomes(store, log, acc.states, e))
    IN  [acc EXCEPT !.states = Touch(touched, e.shard, [status |-> "retracted"])]
\* The shard reads retracted; what its dependents become is settled when every retraction is in.
RetractOne(store, log, acc, e) ==
    LET retracted == Touch(acc.states, e.shard, [status |-> "retracted"])
    IN  [states |-> retracted,
         outcomes |-> acc.outcomes \cup Outcomes(store, log, retracted, e)]

ApplyRetractions(store, log, states) ==
    LET after[n \in 0 .. Len(log)] ==
            IF n = 0 THEN [states |-> states, outcomes |-> {}]
            ELSE IF log[n].kind = "retract" THEN RetractOne(store, log, after[n - 1], log[n])
            ELSE after[n - 1]
    IN  after[Len(log)]

\* The closest retractions decide; the most conservative of their buckets wins.
Closest(found) == {o \in found : \A other \in found : o.depth <= other.depth}
(* fault: the least conservative bucket wins. *)
MildestBucket(found) ==
    CHOOSE b \in {o.bucket : o \in found} :
        \A o \in found : Conservative[o.bucket] >= Conservative[b]
WorstBucket(found) ==
    CHOOSE b \in {o.bucket : o \in found} :
        \A o \in found : Conservative[o.bucket] <= Conservative[b]

Cascaded(states, outcomes, s) ==
    LET found == {o \in outcomes : o.dep = s}
        change == [status |-> WorstBucket(Closest(found)),
                   depth |-> Min({o.depth : o \in found}), causes |-> {o.cause : o \in found}]
    IN  IF found = {} THEN states[s] ELSE Touch(states, s, change)[s]

DeriveEffectiveStates(store, log) ==
    LET contested == ApplyContests(ApplySupersessions(store, log), log)
        cascade == ApplyRetractions(store, log, contested)
    IN  [s \in DOMAIN store |-> Cascaded(cascade.states, cascade.outcomes, s)]

-----------------------------------------------------------------------------
(* as_of_graph and query_as_of: the half-open windows in which shards hold     *)

EffectiveEnd(store, states, s) ==
    IF states[s].valid_time_end # NoTime THEN states[s].valid_time_end
    ELSE store[s].valid_time_end

HoldsAt(store, states, s, t) ==
    /\ states[s].status # "retracted"
    /\ store[s].valid_time_start # NoTime
    /\ store[s].valid_time_start <= t
    /\ EffectiveEnd(store, states, s) # NoTime => t < EffectiveEnd(store, states, s)
=============================================================================
