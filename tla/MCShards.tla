------------------------------- MODULE MCShards -------------------------------
(* Two settings of ShardLifecycle and two of ShardReads. Events: three shards  *)
(* that rest on one another, governed. Edits: two editors on one shard. Cache: *)
(* two readers of two corpora while shards are committed and earlier files     *)
(* restored. Graphs: every small dependency web, each walked within every      *)
(* bound.                                                                      *)
EXTENDS ShardLifecycle, ShardReads
CONSTANTS a, b, c, k, e1, e2, r1, r2, x, y
VARIABLE setting
shardsVars == <<shardVars, readVars, setting>>
AlikeReaders == Permutations({r1, r2})

Record(deps, status, reconciled, start) ==
    [sense |-> "v0", epistemic_status |-> status, reconciled |-> reconciled, votes |-> FALSE,
     framework |-> <<"us">>, superseded_by |-> NoShard, valid_time_start |-> start,
     valid_time_end |-> NoTime, deps |-> deps, extracted_at |-> 1, content_edits |-> <<>>]
Named(r, framework) == [r EXCEPT !.framework = framework]

MCValues == [sense |-> {"v1", "v2"}, epistemic_status |-> {"demonstrable"}, extracted_at |-> {0}]

\* A chain; and a cycle with a third shard on it. c also stands in as a successor.
Chain ==
    (a :> Record({}, "demonstrable", FALSE, 0)) @@ (b :> Record({a}, "hypothesis", FALSE, 1))
        @@ (c :> Named(Record({b}, "hypothesis", FALSE, 2), <<"us", "federal">>))
Cycle ==
    (a :> Record({b}, "hypothesis", FALSE, 1)) @@ (b :> Record({a}, "hypothesis", TRUE, 0))
        @@ (c :> Record({a}, "authority_only", FALSE, NoTime))

-----------------------------------------------------------------------------
MCEdgeFields == <<"principle", "fact">>
Row(corpus, iri, edges) == [corpus |-> corpus, iri |-> iri, edges |-> edges, op |-> 0]

\* What a shard may rest on: nothing, one target, two, one twice, or a target not stored.
Targets(iri) ==
    LET others == {a, b, c, k} \ {iri}
    IN  {<<>>} \cup {<<<<"fact", t>>>> : t \in others}
        \cup {<<<<"principle", t>>, <<"fact", u>>>> : t, u \in others}

-----------------------------------------------------------------------------
NoShards == InitWith(a :> Record({}, "hypothesis", FALSE, 0), <<>>)
NoFile == InitFile(1, <<>>)

InitEvents ==
    \/ \E records \in {Chain, Cycle} : InitWith(records, <<>>)
    \/ InitWith(Chain, <<[kind |-> "retract", shard |-> a, policy |-> NoPolicy, at |-> 0]>>)

InitGraphs ==
    \E ta \in Targets(a), tb \in Targets(b), tc \in Targets(c) :
       \E rows \in {<<Row(x, a, ta), Row(x, b, tb), Row(x, c, tc)>>,
                    <<Row(x, c, tc), Row(x, a, ta), Row(x, b, tb)>>} : InitFile(1, rows)

MCInit ==
    \/ setting = "events" /\ InitEvents /\ NoFile
    \/ setting = "edits" /\ NoShards /\ NoFile
    \/ setting = "cache" /\ NoShards /\ InitFile(1, <<Row(x, a, <<>>), Row(y, b, <<>>)>>)
    \/ setting = "graphs" /\ NoShards /\ InitGraphs

\* Commits of either record into x, and of one record into y, which stands by in the cache.
OneRecordOfY == \A i \in DOMAIN file'.rows : file'.rows[i].corpus = y => file'.rows[i].edges = <<>>
MCJournalChanges == JournalChanges({a}, {<<>>, <<<<"fact", b>>>>}) /\ OneRecordOfY

\* One reader answers one request.
Alone(r) ==
    /\ cache = <<>>
    /\ \A other \in Readers \ {r} : calls[other] = NoCall
    /\ BeginRequest(r, x) \/ OpenRead(r) \/ Read(r) \/ StoreRead(r)

MCNext ==
    /\ \/ setting = "events" /\ (Governing \/ Tick) /\ UNCHANGED readVars
       \/ setting = "edits" /\ (Editing \/ Tick) /\ UNCHANGED readVars
       \/ setting = "cache" /\ (Reading \/ MCJournalChanges) /\ UNCHANGED shardVars
       \/ setting = "graphs" /\ (\E r \in Readers : Alone(r)) /\ UNCHANGED shardVars
    /\ UNCHANGED setting

MCSpec == MCInit /\ [][MCNext]_shardsVars
EditsSpec == (setting = "edits" /\ MCInit) /\ [][MCNext]_shardsVars
=============================================================================
