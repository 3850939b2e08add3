------------------------------ MODULE ShardReads ------------------------------
(* The read-only graph routes over a corpus (api/routes/shard.py,              *)
(* kernel/traversal.py, revision/dependency_graph.py): a request reads the     *)
(* journal's head and, unless the snapshot cached for exactly that head        *)
(* serves, its rows in one read transaction, then walks the dependency web     *)
(* within its bounds. Writers commit and a restore may put another journal     *)
(* file in place between any two steps of a request. A shard record is its     *)
(* out-edges, <<field, target>> in EDGE_FIELDS order.                          *)
EXTENDS Integers, Sequences, FiniteSets, SequencesExt, FiniteSetsExt, TLC

CONSTANTS
    Corpora,
    Iris,           \* every IRI a shard may have or name
    Kernel,         \* the packaged kernel IRIs
    EdgeFields,     \* EDGE_FIELDS, in tie-break order
    Readers,        \* the worker threads that answer requests
    NoCall,
    CacheSize,      \* SNAPSHOT_CACHE_SIZE
    Inodes,         \* what identifies a journal file; a restored one may get a freed identity
    MaxOps,         \* bound on the commits
    MaxRestores     \* bound on the restores

ASSUME SnapshotAssumption ==
    IsFiniteSet(Iris) /\ Kernel \subseteq Iris /\ CacheSize \in Nat \ {0}

VARIABLES
    file,           \* the journal file: its device and inode, and its rows
    backup,         \* the rows a backup of it holds
    ops,            \* how many op IDs were given out
    restores,       \* how often a backup was restored
    cache,          \* _cache: heads and their snapshots, the least recently stored first
    calls           \* reader -> its request

readVars == <<file, backup, ops, restores, cache, calls>>
onDisk == <<file, backup, ops, restores>>

-----------------------------------------------------------------------------
(* The snapshot of a corpus and its cache                                      *)

\* A corpus's rows by their position in the journal.
RowsIn(rows, corpus) ==
    [i \in {n \in DOMAIN rows : rows[n].corpus = corpus} |-> rows[i]]

LastRow(f, corpus) == Max(DOMAIN RowsIn(f.rows, corpus))

(* fault: the op ID is no part of a head. *)
HeadByPosition(f, corpus) ==
    [inode |-> f.inode, corpus |-> corpus, position |-> LastRow(f, corpus), op |-> 0]
\* What a snapshot is valid for: after a restore other rows may stand at the same positions.
HeadOf(f, corpus) ==
    [inode |-> f.inode, corpus |-> corpus, position |-> LastRow(f, corpus),
     op |-> f.rows[LastRow(f, corpus)].op]

IsFirst(rows, n) ==
    n \in DOMAIN rows /\ \A j \in DOMAIN rows : j < n => rows[j].iri # rows[n].iri
LastEdges(rows, iri) == rows[Max({j \in DOMAIN rows : rows[j].iri = iri})].edges
\* The current shards in first-commit order: iri and record.
Entries(rows) ==
    LET upTo[n \in 0 .. Max(DOMAIN rows)] ==
            IF n = 0 THEN <<>>
            ELSE IF IsFirst(rows, n)
            THEN Append(upTo[n - 1], [iri |-> rows[n].iri, edges |-> LastEdges(rows, rows[n].iri)])
            ELSE upTo[n - 1]
    IN  upTo[Max(DOMAIN rows)]

Known(corpus) == DOMAIN RowsIn(file.rows, corpus) # {}

\* cached_corpus_snapshot, first hold of the lock: a private copy of the cache.
BeginRequest(r, corpus) ==
    /\ calls[r] = NoCall
    /\ calls' = [calls EXCEPT ![r] = [pc |-> "read", corpus |-> corpus, view |-> cache]]
    /\ UNCHANGED <<onDisk, cache>>

Cached(view, head) == {i \in DOMAIN view : view[i].head = head}

\* _read: one read transaction, which keeps the journal as it is now.
OpenRead(r) ==
    /\ calls[r] # NoCall /\ calls[r].pc = "read"
    /\ calls' = [calls EXCEPT ![r] = IF ~Known(calls[r].corpus) THEN NoCall         \* 404
                                     ELSE [pc |-> "stat", corpus |-> calls[r].corpus,
                                           view |-> calls[r].view, journal |-> file.rows]]
    /\ UNCHANGED <<onDisk, cache>>

\* The path is asked for its file while the transaction is open: by then it may name another.
Read(r) ==
    /\ calls[r] # NoCall /\ calls[r].pc = "stat"
    /\ LET corpus == calls[r].corpus
           rows == RowsIn(calls[r].journal, corpus)
           head == HeadOf([inode |-> file.inode, rows |-> calls[r].journal], corpus)
           hit == Cached(calls[r].view, head)
           entries == IF hit # {} THEN calls[r].view[Min(hit)].entries ELSE Entries(rows)
       IN  calls' = [calls EXCEPT ![r] = [pc |-> "store", corpus |-> corpus, head |-> head,
                                          entries |-> entries, rows |-> rows]]
    /\ UNCHANGED <<onDisk, cache>>

\* Second hold of the lock: other heads of this corpus leave, then the oldest beyond the size.
Kept(c, head) ==
    LET kept[i \in 0 .. Len(c)] ==
            IF i = 0 THEN <<>>
            ELSE IF c[i].head.corpus = head.corpus THEN kept[i - 1] ELSE Append(kept[i - 1], c[i])
    IN  kept[Len(c)]
Newest(c) == IF Len(c) > CacheSize THEN SubSeq(c, Len(c) - CacheSize + 1, Len(c)) ELSE c

StoreRead(r) ==
    /\ calls[r] # NoCall /\ calls[r].pc = "store"
    /\ cache' = Newest(Append(Kept(cache, calls[r].head),
                              [head |-> calls[r].head, entries |-> calls[r].entries]))
    /\ calls' = [calls EXCEPT ![r].pc = "walk"]
    /\ UNCHANGED onDisk

Answer(r) ==
    /\ calls[r] # NoCall /\ calls[r].pc = "walk"
    /\ calls' = [calls EXCEPT ![r] = NoCall]
    /\ UNCHANGED <<onDisk, cache>>

CommitShard(corpus, iri, edges) ==
    /\ ops < MaxOps
    /\ ops' = ops + 1
    /\ file' = [file EXCEPT !.rows = Append(@, [corpus |-> corpus, iri |-> iri, edges |-> edges,
                                                op |-> ops'])]
    /\ UNCHANGED <<backup, restores, cache, calls>>

BackUp ==
    /\ backup' = file.rows
    /\ UNCHANGED <<file, ops, restores, cache, calls>>

\* The backup takes the journal's place while the routes keep their cache.
RestoreFile(inode) ==
    /\ restores < MaxRestores
    /\ restores' = restores + 1
    /\ file' = [inode |-> inode, rows |-> backup]
    /\ UNCHANGED <<backup, ops, cache, calls>>

InitFile(inode, rows) ==
    /\ file = [inode |-> inode, rows |-> rows]
    /\ backup = rows
    /\ ops = 0 /\ restores = 0
    /\ cache = <<>>
    /\ calls = [r \in Readers |-> NoCall]

Reading ==
    \E r \in Readers :
        \/ \E corpus \in Corpora : BeginRequest(r, corpus)
        \/ OpenRead(r) \/ Read(r) \/ StoreRead(r) \/ Answer(r)

\* Commits of some shards with some out-edges, backups and restores.
JournalChanges(iris, records) ==
    \/ \E corpus \in Corpora, iri \in iris, edges \in records : CommitShard(corpus, iri, edges)
    \/ BackUp
    \/ \E inode \in Inodes : RestoreFile(inode)

-----------------------------------------------------------------------------
(* build_graph                                                                 *)

OutEdges(entries, iri) ==
    LET at == {n \in DOMAIN entries : entries[n].iri = iri}
    IN  IF at = {} THEN <<>> ELSE entries[Min(at)].edges

\* A kernel IRI ends a derivation; a dangling one has no fields.
Upstream(entries, iri) ==
    LET out == OutEdges(entries, iri)
    IN  IF iri \in Kernel THEN <<>> ELSE [n \in DOMAIN out |-> out[n][2]]

Names(edges, iri) == \E m \in DOMAIN edges : edges[m][2] = iri
Downstream(entries, iri) ==
    LET naming[n \in 0 .. Len(entries)] ==
            IF n = 0 THEN <<>>
            ELSE IF Names(entries[n].edges, iri) THEN Append(naming[n - 1], entries[n].iri)
            ELSE naming[n - 1]
    IN  naming[Len(entries)]

Neighbours(entries, direction, iri) ==
    IF direction = "upstream" THEN Upstream(entries, iri) ELSE Downstream(entries, iri)

\* Every <<node, neighbour>> of a frontier, in order.
Reaches(entries, direction, frontier) ==
    FlattenSeq([n \in DOMAIN frontier |->
        LET near == Neighbours(entries, direction, frontier[n])
        IN  [m \in DOMAIN near |-> <<frontier[n], near[m]>>]])

IsPlaced(walk, iri) == \E n \in DOMAIN walk.placed : walk.placed[n].iri = iri

Place(walk, direction, hop, reach, nodeCap) ==
    IF IsPlaced(walk, reach[2]) THEN walk
    ELSE IF Len(walk.placed) >= nodeCap THEN [walk EXCEPT !.capped = TRUE]
    ELSE [walk EXCEPT
            !.placed = Append(@, [iri |-> reach[2], direction |-> direction, distance |-> hop]),
            !.tree = @ \cup {IF direction = "upstream" THEN reach ELSE <<reach[2], reach[1]>>},
            !.reached = Append(@, reach[2])]

\* One hop in one direction.
Hop(entries, walk, direction, hop, nodeCap) ==
    LET reaches == Reaches(entries, direction, walk.frontier[direction])
        after[n \in 0 .. Len(reaches)] ==
            IF n = 0 THEN [walk EXCEPT !.reached = <<>>]
            ELSE Place(after[n - 1], direction, hop, reaches[n], nodeCap)
        moved == after[Len(reaches)]
    IN  [moved EXCEPT !.frontier[direction] = moved.reached]

\* Breadth first and level by level, upstream before downstream at every hop.
Walked(entries, root, depth, nodeCap) ==
    LET after[hop \in 0 .. depth] ==
            IF hop = 0
            THEN [placed |-> <<[iri |-> root, direction |-> "root", distance |-> 0]>>,
                  tree |-> {}, capped |-> FALSE, reached |-> <<>>,
                  frontier |-> [upstream |-> <<root>>, downstream |-> <<root>>]]
            ELSE Hop(entries, Hop(entries, after[hop - 1], "upstream", hop, nodeCap),
                     "downstream", hop, nodeCap)
    IN  after[depth]

(* fault: only the upstream frontier is looked at. *)
DepthCutUpstream(entries, walk) ==
    LET near == Reaches(entries, "upstream", walk.frontier.upstream)
    IN  \E n \in DOMAIN near : ~IsPlaced(walk, near[n][2])
\* The depth bound cut something off iff a last frontier has an unplaced neighbour.
DepthCut(entries, walk) ==
    \E direction \in {"upstream", "downstream"} :
        LET near == Reaches(entries, direction, walk.frontier[direction])
        IN  \E n \in DOMAIN near : ~IsPlaced(walk, near[n][2])

\* Dependency edges between placed nodes, in node then field order.
EdgesAmong(entries, walk) ==
    FlattenSeq([n \in DOMAIN walk.placed |->
        LET iri == walk.placed[n].iri
            kept == SelectSeq(OutEdges(entries, iri), LAMBDA e : IsPlaced(walk, e[2]))
        IN  [m \in DOMAIN kept |-> [from |-> iri, to |-> kept[m][2], field |-> kept[m][1]]]])

FieldRank(field) == CHOOSE n \in DOMAIN EdgeFields : EdgeFields[n] = field
Before(edges, i, j) ==
    \/ FieldRank(edges[i].field) < FieldRank(edges[j].field)
    \/ edges[i].field = edges[j].field /\ i < j
Pair(edge) == <<edge.from, edge.to>>

(* fault: the first edges by priority are kept. *)
KeepByPriority(edges, tree, cap) ==
    LET order == SetToSortSeq(DOMAIN edges, LAMBDA i, j : Before(edges, i, j))
    IN  {edges[order[n]] : n \in 1 .. (IF Len(edges) < cap THEN Len(edges) ELSE cap)}
\* _keep_edges: one edge for each pair that placed a node, then the others by priority.
KeepEdges(edges, tree, cap) ==
    LET order == SetToSortSeq(DOMAIN edges, LAMBDA i, j : Before(edges, i, j))
        reserved == {i \in DOMAIN edges : Pair(edges[i]) \in tree /\
                        \A j \in DOMAIN edges : Pair(edges[j]) = Pair(edges[i]) => ~Before(edges, j, i)}
        chosen == SelectSeq(order, LAMBDA i : i \in reserved)
                      \o SelectSeq(order, LAMBDA i : i \notin reserved)
        keep == {chosen[n] : n \in 1 .. (IF Len(edges) < cap THEN Len(edges) ELSE cap)}
    IN  {edges[i] : i \in keep}

GraphOf(entries, walk, edgeCap) ==
    LET edges == EdgesAmong(entries, walk)
    IN  [nodes |-> walk.placed, tree |-> walk.tree, edges |-> KeepEdges(edges, walk.tree, edgeCap),
         truncated |-> DepthCut(entries, walk) \/ walk.capped \/ Len(edges) > edgeCap]
BuildGraph(entries, root, depth, nodeCap, edgeCap) ==
    GraphOf(entries, Walked(entries, root, depth, nodeCap), edgeCap)

-----------------------------------------------------------------------------
(* derivation_tree over at most so many shards                                 *)

\* _CappedShards lends the nearest shards; the farthest are refused, not missing.
Lend(walk, entries, iri, nodeCap) ==
    IF iri \notin {entries[n].iri : n \in DOMAIN entries} \/ iri \in walk.lent THEN walk
    ELSE IF Cardinality(walk.lent) >= nodeCap THEN [walk EXCEPT !.refused = @ \cup {iri}]
    ELSE [walk EXCEPT !.lent = @ \cup {iri}]

Follow(walk, node, target, atLimit) ==
    IF target \in DOMAIN walk.parent THEN walk
    ELSE IF atLimit THEN [walk EXCEPT !.cut = TRUE]
    ELSE [walk EXCEPT !.parent = [i \in DOMAIN @ \cup {target} |->
                                     IF i = target THEN node ELSE @[i]],
                      !.next = Append(@, target)]

Visit(walk, entries, node, atLimit, nodeCap) ==
    IF node \in Kernel THEN [walk EXCEPT !.kernels = @ \cup {node}]
    ELSE LET lent == Lend(walk, entries, node, nodeCap)
             edges == IF node \in lent.lent THEN OutEdges(entries, node) ELSE <<>>
             after[n \in 0 .. Len(edges)] ==
                 IF n = 0 THEN lent ELSE Follow(after[n - 1], node, edges[n][2], atLimit)
         IN  after[Len(edges)]

DeriveLevel(walk, entries, depth, maxDepth, nodeCap) ==
    LET after[n \in 0 .. Len(walk.next)] ==
            IF n = 0 THEN [walk EXCEPT !.next = <<>>]
            ELSE Visit(after[n - 1], entries, walk.next[n], depth >= maxDepth, nodeCap)
    IN  after[Len(walk.next)]

DerivationTree(entries, root, maxDepth, nodeCap) ==
    LET after[n \in 0 .. maxDepth + 1] ==
            IF n = 0 THEN [parent |-> [i \in {root} |-> root], next |-> <<root>>, kernels |-> {},
                           cut |-> FALSE, lent |-> {}, refused |-> {}]
            ELSE DeriveLevel(after[n - 1], entries, n - 1, maxDepth, nodeCap)
    IN  after[maxDepth + 1]

(* fault: refused shards count as visited. *)
IncompleteByDepth(walk) == walk.cut
Incomplete(walk) == walk.cut \/ walk.refused # {}

PathLength(walk, root, iri) ==
    LET up[n \in 0 .. Cardinality(Iris)] == IF n = 0 THEN iri ELSE walk.parent[up[n - 1]]
    IN  Min({n \in 0 .. Cardinality(Iris) : up[n] = root})

-----------------------------------------------------------------------------
(* Properties                                                                  *)

\* Every answer is the corpus as it stood at one moment of the request, whatever was committed,
\* restored or cached meanwhile: a snapshot is never served for a head it was not read at.
AnswersOneMoment ==
    \A r \in Readers : calls[r] # NoCall /\ calls[r].pc = "walk" =>
        calls[r].entries = Entries(calls[r].rows)

\* References: shortest distances that stop at the kernel upstream.
Steps(entries, direction, iri) ==
    LET near == Neighbours(entries, direction, iri) IN {near[n] : n \in DOMAIN near}
Around(entries, direction, near) == UNION {Steps(entries, direction, i) : i \in near}
Ball(entries, direction, root) ==
    LET ball[n \in 0 .. Cardinality(Iris)] ==
            IF n = 0 THEN {root}
            ELSE LET near == ball[n - 1] IN near \cup Around(entries, direction, near)
    IN  ball
Whole(ball) == ball[Cardinality(Iris)]
Dist(ball, iri) == Min({n \in DOMAIN ball : iri \in ball[n]})

EntryIris(entries) == {entries[n].iri : n \in DOMAIN entries}
Acyclic(entries) ==
    \A i \in EntryIris(entries) :
        ~\E j \in Steps(entries, "downstream", i) :
            i \in Whole(Ball(entries, "downstream", j))
\* The snapshots walked at this moment.
Walking == {calls[r].entries : r \in {q \in Readers : calls[q] # NoCall /\ calls[q].pc = "walk"}}
Depths == 0 .. Cardinality(Iris) - 1
Caps == 1 .. Cardinality(Iris)

\* What an answer shows, against the balls around its root.
ShowsJust(graph, up, down) ==
    LET placed == {graph.nodes[n].iri : n \in DOMAIN graph.nodes}
        reach == Whole(up) \cup Whole(down)
        dist(i) == IF i \in Whole(up) THEN Dist(up, i) ELSE Dist(down, i)
    IN  /\ ~graph.truncated => placed = reach
        /\ \A n \in DOMAIN graph.nodes : graph.nodes[n].distance = dist(graph.nodes[n].iri)
        /\ \A i \in reach \ placed, n \in DOMAIN graph.nodes : graph.nodes[n].distance <= dist(i)

\* A graph not marked truncated holds everything within reach both ways at its least distance,
\* and a cap drops only nodes at least as far as every node it keeps.
GraphIsHonest ==
    \A entries \in Walking : Acyclic(entries) =>
        \A root \in EntryIris(entries), depth \in Depths, nodeCap \in Caps :
            ShowsJust(BuildGraph(entries, root, depth, nodeCap, 100),
                      Ball(entries, "upstream", root), Ball(entries, "downstream", root))

\* However few edges are kept, parallel fields never crowd out a node's link to the walk.
EdgesReachEveryNode ==
    \A entries \in Walking :
        \A root \in EntryIris(entries), edgeCap \in 1 .. 3 :
            LET graph == BuildGraph(entries, root, 3, 4, edgeCap)
            IN  Cardinality(graph.tree) <= edgeCap =>
                    graph.tree \subseteq {Pair(e) : e \in graph.edges}

\* A derivation not marked truncated found every kernel maxim behind the root, and each chain it
\* gives is a shortest one.
DerivationIsHonest ==
    \A entries \in Walking :
        \A root \in EntryIris(entries), maxDepth \in Depths, nodeCap \in Caps :
            LET walk == DerivationTree(entries, root, maxDepth, nodeCap)
                up == Ball(entries, "upstream", root)
            IN  /\ ~Incomplete(walk) => walk.kernels = Whole(up) \cap Kernel
                /\ \A k \in walk.kernels :
                      k \in Whole(up) /\ PathLength(walk, root, k) = Dist(up, k)
=============================================================================
