------------------------------ MODULE Acyclicity ------------------------------
(***************************************************************************)
(* The search of the dependency-cycle guard,                                *)
(* src/folio_insights/revision/acyclicity.py: does a batch of shards close  *)
(* a cycle over the committed dependencies?  A graph is a function from     *)
(* shards to the shards they rest on.                                       *)
(***************************************************************************)
EXTENDS Integers, FiniteSets

Edges(graph) == {e \in (DOMAIN graph) \X (DOMAIN graph) : e[2] \in graph[e[1]]}

(* the graph after the write: a shard of the batch has the batch's edges *)
PostWrite(batch, committed) ==
    [s \in DOMAIN committed |-> IF s \in DOMAIN batch THEN batch[s] ELSE committed[s]]

(* the edges a shard did not declare in its committed revision *)
NewEdges(batch, committed) ==
    {e \in (DOMAIN batch) \X (DOMAIN committed) : e[2] \in batch[e[1]] \ committed[e[1]]}

(* the forward closure, one breadth-first level at a time *)
Reached(graph, from) ==
    LET level[n \in 0..Cardinality(DOMAIN graph)] ==
            IF n = 0 THEN from ELSE level[n - 1] \cup UNION {graph[s] : s \in level[n - 1]}
    IN  level[Cardinality(DOMAIN graph)]

SameComponent(graph, u, v) == u \in Reached(graph, {v}) /\ v \in Reached(graph, {u})

(* _search: a new self-edge, or a new edge within a component of the        *)
(* closure of the new edges' targets                                        *)
ClosesCycle(batch, committed) ==
    LET new == NewEdges(batch, committed)
        after == PostWrite(batch, committed)
    IN  \E e \in new :
            \/ e[1] = e[2]
            \/ /\ e[1] \in Reached(after, {d[2] : d \in new})
               /\ SameComponent(after, e[1], e[2])

(* Without a search: an edge is on no cycle when the shards can be ranked   *)
(* so that no edge goes up and this one goes down.                          *)
OnNoCycle(e, graph) ==
    \E rank \in [DOMAIN graph -> 1..Cardinality(DOMAIN graph)] :
        /\ \A d \in Edges(graph) : rank[d[2]] <= rank[d[1]]
        /\ rank[e[2]] < rank[e[1]]
=============================================================================
