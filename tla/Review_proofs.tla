----------------------------- MODULE Review_proofs -----------------------------
(* Theorems about the reviews of units, about what is published of the         *)
(* reviewed tasks, about the tasks in review.db beside discovery runs, about   *)
(* the answers of the graph routes and their walks, and about what governance  *)
(* events mean for shards, for any units, tasks, reviewers, signatures,        *)
(* exporters, labels, corpora, readers, dependency webs, bounds, shards and    *)
(* logs.                                                                       *)
EXTENDS TaskExport, ReviewDb, ShardReads, ShardLifecycle, Counting

-----------------------------------------------------------------------------
(* The reviews of units. What a signature covers is fixed when it is made; a   *)
(* request carries the decision its signature covers, and the row it writes is *)
(* that decision's on units the decision names.                                *)

SignedInv ==
    \A n \in ReviewNonces :
        signed[n] # NotYet /\ signed[n].decision.kind = "threshold" =>
            signed[n].decision.target \subseteq signed[n].seen

AskInv(ask) ==
    ask.pc = "write" /\ ask.nonce # NotYet =>
        /\ ask.nonce \in ReviewNonces /\ signed[ask.nonce] # NotYet
        /\ ask.decision = signed[ask.nonce].decision

RowInv(u, row) ==
    row.nonce # NotYet =>
        /\ row.nonce \in ReviewNonces /\ signed[row.nonce] # NotYet
        /\ u \in signed[row.nonce].decision.target
        /\ row.status = signed[row.nonce].decision.verdict
        /\ row.nonce \in claimed

ReviewInv ==
    /\ signed = [n \in ReviewNonces |-> signed[n]] /\ SignedInv
    /\ asks = [p \in People |-> asks[p]] /\ \A p \in People : AskInv(asks[p])
    /\ reviews = [u \in UnitIds |-> reviews[u]]
    /\ \A u \in UnitIds : reviews[u] # NotYet => RowInv(u, reviews[u])

\* Only an approval by threshold asks for a threshold, and it asks for the units it selects.
LEMMA ThresholdAsked ==
    ASSUME NEW kind \in Kinds, NEW u, NEW d \in Asked(kind, u), d.kind = "threshold"
    PROVE  d.target \subseteq Units
  <1>1. CASE kind = "review"
    BY <1>1 DEF Asked, Decision
  <1>2. CASE kind = "ids"
    BY <1>2 DEF Asked, Decision
  <1>3. CASE kind = "threshold"
    BY <1>3 DEF Asked, Decision, Selected
  <1>4. CASE kind = "reset"
    BY <1>4 DEF Asked, Decision
  <1>. QED  BY <1>1, <1>2, <1>3, <1>4 DEF Kinds

LEMMA ReviewInit == InitUnits => ReviewInv
  BY DEF InitUnits, ReviewInv, SignedInv, AskInv, NoAsk

\* Nothing that leaves rows, nonces and signatures alone and asks for nothing new disturbs it.
LEMMA Undisturbed ==
    ASSUME ReviewInv, UNCHANGED <<signed, reviews, claimed>>,
           asks' = [p \in People |-> asks'[p]],
           \A p \in People : AskInv(asks'[p])
    PROVE  ReviewInv'
  <1>1. \A p \in People : AskInv(asks[p])'
    BY DEF AskInv
  <1>2. \A u \in UnitIds : (reviews[u] # NotYet => RowInv(u, reviews[u]))'
    BY DEF ReviewInv, RowInv
  <1>3. SignedInv'
    BY DEF ReviewInv, SignedInv
  <1>. QED  BY <1>1, <1>2, <1>3 DEF ReviewInv

LEMMA SignKeeps ==
    ASSUME ReviewInv, NEW p \in People, NEW n \in ReviewNonces, Sign(p, n)
    PROVE  ReviewInv'
  <1>1. PICK kind \in Kinds, u \in Units : \E d \in Asked(kind, u) :
            signed' = [signed EXCEPT ![n] = [by |-> p, decision |-> d, seen |-> Units]]
    BY DEF Sign
  <1>2. PICK d \in Asked(kind, u) :
            signed' = [signed EXCEPT ![n] = [by |-> p, decision |-> d, seen |-> Units]]
    BY <1>1
  <1>3. signed[n] = NotYet /\ UNCHANGED <<reviews, claimed, asks>>
    BY DEF Sign
  <1>4. /\ signed' = [m \in ReviewNonces |-> signed'[m]]
        /\ signed'[n] = [by |-> p, decision |-> d, seen |-> Units]
        /\ \A m \in ReviewNonces : m # n => signed'[m] = signed[m]
    BY <1>2 DEF ReviewInv
  <1>5. d.kind = "threshold" => d.target \subseteq Units
    BY ThresholdAsked
  <1>6. SignedInv'
    BY <1>4, <1>5 DEF ReviewInv, SignedInv
  <1>7. \A q \in People : AskInv(asks[q])'
    BY <1>3, <1>4 DEF ReviewInv, AskInv
  <1>8. \A v \in UnitIds : (reviews[v] # NotYet => RowInv(v, reviews[v]))'
    BY <1>3, <1>4 DEF ReviewInv, RowInv
  <1>. QED  BY <1>3, <1>4, <1>6, <1>7, <1>8 DEF ReviewInv

LEMMA ReceiveKeeps ==
    ASSUME ReviewInv, NEW p \in People, Receive(p)
    PROVE  ReviewInv'
  <1>1. PICK kind \in Kinds, u \in UnitIds,
             n \in {NotYet} \cup {m \in ReviewNonces : signed[m] # NotYet} :
          \E d \in Asked(kind, u) :
             /\ kind = "review" => u \in Units
             /\ Verified(n, d)
             /\ asks' = [asks EXCEPT ![p] =
                   [pc |-> "write", decision |-> d, nonce |-> n,
                    registered |-> n # NotYet /\ policy.signers # NotYet]]
    BY Zenon DEF Receive
  <1>2. PICK d \in Asked(kind, u) :
             /\ Verified(n, d)
             /\ asks' = [asks EXCEPT ![p] =
                   [pc |-> "write", decision |-> d, nonce |-> n,
                    registered |-> n # NotYet /\ policy.signers # NotYet]]
    BY <1>1
  <1>. DEFINE registered == n # NotYet /\ policy.signers # NotYet
              ask == [pc |-> "write", decision |-> d, nonce |-> n, registered |-> registered]
  <1>3. n # NotYet => n \in ReviewNonces /\ signed[n] # NotYet /\ signed[n].decision = d
    BY <1>2 DEF Verified, Matches
  <1>4. AskInv(ask)
    BY <1>3 DEF AskInv
  <1>5. asks' = [asks EXCEPT ![p] = ask]
    BY <1>2
  <1>. HIDE DEF ask
  <1>6. asks' = [q \in People |-> asks'[q]] /\ \A q \in People : AskInv(asks'[q])
    BY <1>4, <1>5 DEF ReviewInv
  <1>7. UNCHANGED <<signed, reviews, claimed>>
    BY DEF Receive
  <1>. QED  BY <1>6, <1>7, Undisturbed

LEMMA CommitKeeps ==
    ASSUME ReviewInv, NEW p \in People, CommitReview(p)
    PROVE  ReviewInv'
  <1>. DEFINE ask == asks[p]
  <1>1. /\ ask.pc = "write" /\ UNCHANGED signed
        /\ \/ /\ claimed' = claimed \cup ({ask.nonce} \ {NotYet})
              /\ reviews' = Stored(ask)
           \/ UNCHANGED <<claimed, reviews>>
    BY DEF CommitReview
  <1>2. AskInv(ask)
    BY DEF ReviewInv
  <1>3. asks' = [q \in People |-> asks'[q]] /\ \A q \in People : AskInv(asks'[q])
    BY DEF CommitReview, ReviewInv, AskInv, NoAsk
  <1>4. CASE UNCHANGED <<claimed, reviews>>
    BY <1>1, <1>3, <1>4, Undisturbed
  <1>5. CASE /\ claimed' = claimed \cup ({ask.nonce} \ {NotYet})
             /\ reviews' = Stored(ask)
    <2>1. reviews' = [u \in UnitIds |-> reviews'[u]]
      BY <1>5 DEF Stored
    <2>2. ASSUME NEW u \in UnitIds, reviews'[u] # NotYet
          PROVE  RowInv(u, reviews[u])'
      <3>1. \/ /\ u \in ask.decision.target /\ reviews'[u] = Row(u, ask)
            \/ reviews'[u] = reviews[u]
        BY <1>5, <2>2 DEF Stored
      <3>2. CASE u \in ask.decision.target /\ reviews'[u] = Row(u, ask)
        <4>1. reviews'[u].nonce = ask.nonce /\ reviews'[u].status = ask.decision.verdict
          BY <3>2 DEF Row
        <4>2. ask.nonce # NotYet => ask.nonce \in claimed'
          BY <1>5
        <4>. QED  BY <1>1, <1>2, <3>2, <4>1, <4>2 DEF RowInv, AskInv
      <3>3. CASE reviews'[u] = reviews[u]
        BY <1>1, <1>5, <2>2, <3>3 DEF RowInv, ReviewInv
      <3>. QED  BY <3>1, <3>2, <3>3
    <2>3. \A q \in People : AskInv(asks[q])'
      BY <1>1, <1>3 DEF AskInv
    <2>4. SignedInv'
      BY <1>1 DEF ReviewInv, SignedInv
    <2>. QED  BY <1>1, <1>3, <2>1, <2>2, <2>3, <2>4 DEF ReviewInv
  <1>. QED  BY <1>1, <1>4, <1>5

LEMMA RestartKeeps == ReviewInv /\ Restart => ReviewInv'
  <1>. SUFFICES ASSUME ReviewInv, Restart PROVE ReviewInv'
    OBVIOUS
  <1>1. asks' = [p \in People |-> asks'[p]] /\ \A p \in People : AskInv(asks'[p])
    BY DEF Restart, AskInv, NoAsk
  <1>2. UNCHANGED <<signed, reviews, claimed>>
    BY DEF Restart
  <1>. QED  BY <1>1, <1>2, Undisturbed

LEMMA ReviewStill ==
    ReviewInv /\ UNCHANGED <<signed, reviews, claimed, asks>> => ReviewInv'
  <1>. SUFFICES ASSUME ReviewInv, UNCHANGED <<signed, reviews, claimed, asks>> PROVE ReviewInv'
    OBVIOUS
  <1>1. asks' = [p \in People |-> asks'[p]] /\ \A p \in People : AskInv(asks'[p])
    BY DEF ReviewInv
  <1>. QED  BY <1>1, Undisturbed

LEMMA ReviewStep == ReviewInv /\ [NextUnits]_unitVars => ReviewInv'
  <1>. SUFFICES ASSUME ReviewInv, [NextUnits]_unitVars PROVE ReviewInv'
    OBVIOUS
  <1>1. ASSUME NEW p \in People, NEW n \in ReviewNonces, Sign(p, n) PROVE ReviewInv'
    BY <1>1, SignKeeps
  <1>2. ASSUME NEW p \in People, Receive(p) PROVE ReviewInv'
    BY <1>2, ReceiveKeeps
  <1>3. ASSUME NEW p \in People, CommitReview(p) PROVE ReviewInv'
    BY <1>3, CommitKeeps
  <1>4. CASE Extract
    BY <1>4, ReviewStill DEF Extract
  <1>5. CASE Restart
    BY <1>5, RestartKeeps
  <1>6. CASE EditSigners
    BY <1>6, ReviewStill DEF EditSigners
  <1>7. CASE UNCHANGED unitVars
    BY <1>7, ReviewStill DEF unitVars
  <1>. QED  BY <1>1, <1>2, <1>3, <1>4, <1>5, <1>6, <1>7 DEF NextUnits

(* Signed rows, requests and signatures agree, whatever reviewers, extractions, *)
(* restarts and changes of the signers file come between (api/routes/review.py).*)
THEOREM ReviewInductive == UnitSpec => []ReviewInv
  BY ReviewInit, ReviewStep, PTL DEF UnitSpec

(* A signed verdict stands on a unit only if its signer was shown that unit and *)
(* said just that of it, and its nonce is used up.                              *)
THEOREM VerdictsAsSeen == UnitSpec => []VerdictAsSeen
  <1>1. ReviewInv => VerdictAsSeen
    <2>. SUFFICES ASSUME ReviewInv, NEW u \in UnitIds,
                         reviews[u] # NotYet, reviews[u].nonce # NotYet
                  PROVE  LET row == reviews[u]
                             s == signed[row.nonce]
                         IN  /\ u \in s.decision.target /\ row.status = s.decision.verdict
                             /\ s.decision.kind = "threshold" => u \in s.seen
                             /\ row.nonce \in claimed
      BY DEF VerdictAsSeen
    <2>1. RowInv(u, reviews[u])
      BY DEF ReviewInv
    <2>2. SignedInv
      BY DEF ReviewInv
    <2>. QED  BY <2>1, <2>2 DEF RowInv, SignedInv
  <1>. QED  BY <1>1, ReviewInductive, PTL

(* A signature is written once: prepare_write claims its nonce in the           *)
(* transaction of the rows.                                                     *)
THEOREM SignedOnceOnly == UnitSpec => NeverRestored
  <1>1. ASSUME [NextUnits]_unitVars, NEW u \in UnitIds,
               reviews'[u] # reviews[u], reviews'[u] # NotYet, reviews'[u].nonce # NotYet
        PROVE  reviews'[u].nonce \notin claimed
    <2>1. PICK p \in People : CommitReview(p)
      BY <1>1 DEF NextUnits, unitVars, Sign, Receive, Extract, Restart, EditSigners
    <2>. DEFINE ask == asks[p]
    <2>2. NonceFree(ask) /\ reviews' = Stored(ask)
      BY <1>1, <2>1 DEF CommitReview
    <2>3. reviews'[u] = Row(u, ask)
      BY <1>1, <2>2 DEF Stored
    <2>4. reviews'[u].nonce = ask.nonce
      BY <2>3 DEF Row
    <2>. QED  BY <1>1, <2>2, <2>4 DEF NonceFree
  <1>2. [NextUnits]_unitVars =>
          [\A u \in UnitIds :
              /\ reviews'[u] # reviews[u] /\ reviews'[u] # NotYet
              /\ reviews'[u].nonce # NotYet
              => reviews'[u].nonce \notin claimed]_unitVars
    BY <1>1
  <1>. QED  BY <1>2, PTL DEF UnitSpec, NeverRestored

-----------------------------------------------------------------------------
(* The IRIs. The registry gives an entity one IRI and an IRI one entity; what   *)
(* an exporter holds is in the registry, but for the one row it is about to     *)
(* insert, whose number nobody else was given.                                  *)

IriRow(a) == a[2] \in 1..iris

Held(x) ==
    x = [pc |-> x.pc, tasks |-> x.tasks, roots |-> x.roots, links |-> x.links,
         todo |-> x.todo, iri |-> x.iri]

Written(x) == x = [pc |-> x.pc, graph |-> x.graph, old |-> x.old, replaces |-> x.replaces]

\* An exporter between two steps of get_or_create_iri, or outside of it.
Settled(x) ==
    /\ x.pc \in {"idle", "links", "mint", "owl", "log"}
    /\ x.pc = "mint" => Held(x) /\ x.iri \subseteq registry
    /\ x.pc \in {"owl", "log"} => /\ Written(x)
                                  /\ \A a \in x.graph : a[2] # 0 => a \in registry

Inserting(x) ==
    /\ x.pc = "insert" /\ Held(x)
    /\ \A a \in x.iri \ registry : IriRow(a) /\ \A r \in registry : a[2] # r[2]
    /\ \A a, b \in x.iri \ registry : a = b

IriInv ==
    /\ iris \in Nat
    /\ \A a \in registry : IriRow(a)
    /\ \A a, b \in registry : a[1] = b[1] <=> a[2] = b[2]
    /\ exports = [e \in Exporters |-> exports[e]]
    /\ \A e \in Exporters : Settled(exports[e]) \/ Inserting(exports[e])
    /\ \A e, f \in Exporters :
          e # f /\ exports[e].pc = "insert" /\ exports[f].pc = "insert" =>
             \A a \in Pending(e), b \in Pending(f) : a[2] # b[2]
    /\ \A a \in named : a[2] # 0 => a \in registry

LEMMA IriInit == InitExport => IriInv
  BY DEF InitExport, IriInv, NoExport, Settled

\* Exporters that settle change nothing of what the others hold.
LEMMA ExportersSettle ==
    ASSUME IriInv, UNCHANGED <<registry, iris>>,
           exports' = [e \in Exporters |-> exports'[e]],
           \A e \in Exporters : exports'[e] = exports[e] \/ Settled(exports'[e]),
           \A a \in named' : a[2] # 0 => a \in registry
    PROVE  IriInv'
  <1>1. \A x : /\ Settled(x) => x.pc # "insert"
               /\ Inserting(x) => x.pc = "insert"
    BY DEF Settled, Inserting
  <1>2. \A e \in Exporters : exports'[e].pc = "insert" => exports'[e] = exports[e]
    BY <1>1
  <1>3. \A e \in Exporters : (Settled(exports[e]) \/ Inserting(exports[e]))'
    BY DEF IriInv, Settled, Inserting, IriRow
  <1>4. \A e, f \in Exporters :
          (e # f /\ exports[e].pc = "insert" /\ exports[f].pc = "insert" =>
             \A a \in Pending(e), b \in Pending(f) : a[2] # b[2])'
    BY <1>2 DEF IriInv, Pending
  <1>5. (\A a \in registry : IriRow(a))'
    BY DEF IriInv, IriRow
  <1>. QED  BY <1>3, <1>4, <1>5 DEF IriInv

LEMMA ExporterSettles ==
    ASSUME IriInv, UNCHANGED <<registry, iris>>, NEW e \in Exporters, NEW x, Settled(x),
           exports' = [exports EXCEPT ![e] = x],
           \A a \in named' : a[2] # 0 => a \in registry
    PROVE  IriInv'
  <1>1. exports' = [f \in Exporters |-> exports'[f]]
    BY DEF IriInv
  <1>2. \A f \in Exporters : exports'[f] = exports[f] \/ Settled(exports'[f])
    BY DEF IriInv
  <1>. QED  BY <1>1, <1>2, ExportersSettle

LEMMA TasksKeep ==
    ASSUME IriInv, NEW e \in Exporters, ExportTasks(e)
    PROVE  IriInv'
  <1>1. PICK chosen, roots :
           exports' = [exports EXCEPT ![e] = [pc |-> "links", tasks |-> chosen, roots |-> roots]]
    BY DEF ExportTasks
  <1>. DEFINE x == [pc |-> "links", tasks |-> chosen, roots |-> roots]
  <1>2. exports' = [exports EXCEPT ![e] = x] /\ Settled(x)
    BY <1>1 DEF Settled
  <1>. HIDE DEF x
  <1>3. UNCHANGED <<registry, iris>> /\ \A a \in named' : a[2] # 0 => a \in registry
    BY DEF ExportTasks, IriInv
  <1>. QED  BY <1>2, <1>3, ExporterSettles

LEMMA LinksKeep ==
    ASSUME IriInv, NEW e \in Exporters, ExportLinks(e)
    PROVE  IriInv'
  <1>1. PICK ts, rs, ls, todo :
           exports' = [exports EXCEPT ![e] =
              [pc |-> "mint", tasks |-> ts, roots |-> rs, links |-> ls, todo |-> todo, iri |-> {}]]
    BY DEF ExportLinks
  <1>. DEFINE x == [pc |-> "mint", tasks |-> ts, roots |-> rs, links |-> ls, todo |-> todo,
                    iri |-> {}]
  <1>2. Settled(x)
    BY DEF Settled, Held
  <1>. HIDE DEF x
  <1>3. UNCHANGED <<registry, iris>> /\ \A a \in named' : a[2] # 0 => a \in registry
    BY DEF ExportLinks, IriInv
  <1>4. exports' = [exports EXCEPT ![e] = x]
    BY <1>1 DEF x
  <1>. QED  BY <1>2, <1>3, <1>4, ExporterSettles

LEMMA LookUpKeeps ==
    ASSUME IriInv, NEW e \in Exporters, LookUp(e)
    PROVE  IriInv'
  <1>. DEFINE now == exports[e]
  <1>1. /\ now.pc = "mint" /\ UNCHANGED <<registry, named>>
        /\ exports = [f \in Exporters |-> exports[f]]
    BY DEF LookUp, IriInv
  <1>2. Held(now) /\ now.iri \subseteq registry
    BY <1>1 DEF IriInv, Settled, Inserting
  <1>3. PICK x \in now.todo :
          \/ /\ UNCHANGED iris
             /\ \E row \in Rows(x) :
                   exports' = [exports EXCEPT ![e].iri = @ \cup {row}, ![e].todo = @ \ {x}]
          \/ /\ iris' = iris + 1
             /\ exports' = [exports EXCEPT ![e].pc = "insert", ![e].todo = @ \ {x},
                                           ![e].iri = @ \cup {<<x, iris + 1>>}]
    BY DEF LookUp
  <1>4. CASE /\ UNCHANGED iris
             /\ \E row \in Rows(x) :
                   exports' = [exports EXCEPT ![e].iri = @ \cup {row}, ![e].todo = @ \ {x}]
    <2>1. PICK row \in Rows(x) :
             exports' = [exports EXCEPT ![e].iri = @ \cup {row}, ![e].todo = @ \ {x}]
      BY <1>4
    <2>. DEFINE next == [pc |-> now.pc, tasks |-> now.tasks, roots |-> now.roots,
                         links |-> now.links, todo |-> now.todo \ {x},
                         iri |-> now.iri \cup {row}]
    <2>2. exports' = [f \in Exporters |-> exports'[f]]
      BY <1>1, <2>1
    <2>3. exports'[e] = next
      BY <1>1, <1>2, <2>1 DEF Held
    <2>4. \A f \in Exporters : f # e => exports'[f] = exports[f]
      BY <1>1, <2>1
    <2>5. Settled(next)
      BY <1>1, <1>2 DEF Settled, Held, Rows
    <2>6. \A a \in named' : a[2] # 0 => a \in registry
      BY <1>1 DEF IriInv
    <2>. HIDE DEF next
    <2>. QED  BY <1>1, <1>4, <2>2, <2>3, <2>4, <2>5, <2>6, ExportersSettle
  <1>5. CASE /\ iris' = iris + 1
             /\ exports' = [exports EXCEPT ![e].pc = "insert", ![e].todo = @ \ {x},
                                           ![e].iri = @ \cup {<<x, iris + 1>>}]
    <2>. DEFINE new == <<x, iris + 1>>
                next == [pc |-> "insert", tasks |-> now.tasks, roots |-> now.roots,
                         links |-> now.links, todo |-> now.todo \ {x},
                         iri |-> now.iri \cup {new}]
    <2>13. iris \in Nat
      BY DEF IriInv
    <2>14. exports' = [f \in Exporters |-> exports'[f]]
      BY <1>1, <1>5
    <2>1. exports' = [f \in Exporters |-> exports'[f]] /\ iris' \in Nat /\ iris \in Nat
      BY <1>5, <2>13, <2>14
    <2>2. exports'[e] = next
      BY <1>1, <1>2, <1>5 DEF Held
    <2>3. \A f \in Exporters : f # e => exports'[f] = exports[f]
      BY <1>1, <1>5
    <2>4. new[2] = iris + 1
      OBVIOUS
    <2>. HIDE DEF new
    <2>5. \A a : IriRow(a) => IriRow(a)' /\ a[2] # iris + 1
      BY <1>5, <2>1 DEF IriRow
    <2>6. next.iri \ registry \subseteq {new} /\ next.pc = "insert" /\ Held(next)
      BY <1>2 DEF Held
    <2>. HIDE DEF next
    <2>15. new[2] \in 1..iris'
      BY <1>5, <2>1, <2>4
    <2>7. \A r \in registry : new[2] # r[2]
      BY <2>4, <2>5 DEF IriInv
    <2>16. /\ \A a \in next.iri \ registry : a[2] \in 1..iris' /\ \A r \in registry : a[2] # r[2]
           /\ \A a, b \in next.iri \ registry : a = b
      BY <2>6, <2>7, <2>15
    <2>8. Inserting(exports[e])'
      BY <1>1, <2>2, <2>6, <2>16 DEF Inserting, IriRow, Held
    <2>9. ASSUME NEW f \in Exporters, f # e
          PROVE  /\ (Settled(exports[f]) \/ Inserting(exports[f]))'
                 /\ exports'[f].pc = "insert" => \A a \in Pending(f)' : a[2] # iris + 1
      <3>1. exports'[f] = exports[f] /\ Pending(f)' = Pending(f)
        BY <1>1, <2>3, <2>9 DEF Pending
      <3>2. CASE Settled(exports[f])
        BY <1>1, <3>1, <3>2 DEF Settled
      <3>3. CASE Inserting(exports[f])
        BY <1>1, <2>5, <3>1, <3>3 DEF Inserting, Pending
      <3>. QED  BY <3>2, <3>3 DEF IriInv
    <2>10. Pending(e)' \subseteq {new}
      BY <1>1, <2>2, <2>6 DEF Pending
    <2>11. \A f, g \in Exporters :
          (f # g /\ exports[f].pc = "insert" /\ exports[g].pc = "insert" =>
             \A a \in Pending(f), b \in Pending(g) : a[2] # b[2])'
      <3>1. ASSUME NEW f \in Exporters, NEW g \in Exporters, f # g, f # e, g # e,
                   exports'[f].pc = "insert", exports'[g].pc = "insert"
            PROVE  \A a \in Pending(f)', b \in Pending(g)' : a[2] # b[2]
        BY <1>1, <2>3, <3>1 DEF IriInv, Pending
      <3>. QED  BY <2>4, <2>9, <2>10, <3>1
    <2>12. (\A a \in registry : IriRow(a))'
      BY <1>1, <2>5 DEF IriInv
    <2>. QED  BY <1>1, <2>1, <2>8, <2>9, <2>11, <2>12 DEF IriInv
  <1>. QED  BY <1>3, <1>4, <1>5

LEMMA InsertKeeps ==
    ASSUME IriInv, NEW e \in Exporters, Insert(e)
    PROVE  IriInv'
  <1>. DEFINE now == exports[e]
              pending == Pending(e)
  <1>1. /\ now.pc = "insert" /\ UNCHANGED <<iris, named>>
        /\ exports = [f \in Exporters |-> exports[f]]
    BY DEF Insert, IriInv
  <1>2. Inserting(now)
    BY <1>1 DEF IriInv, Settled
  <1>3. CASE UNCHANGED registry /\ exports' = [exports EXCEPT ![e] = NoExport]
    <2>1. Settled(NoExport)
      BY DEF Settled, NoExport
    <2>2. \A a \in named' : a[2] # 0 => a \in registry
      BY <1>1 DEF IriInv
    <2>. QED  BY <1>1, <1>3, <2>1, <2>2, ExporterSettles
  <1>4. CASE /\ InsertFits(pending) /\ registry' = registry \cup pending
             /\ exports' = [exports EXCEPT ![e].pc = "mint"]
    <2>. DEFINE next == [pc |-> "mint", tasks |-> now.tasks, roots |-> now.roots,
                         links |-> now.links, todo |-> now.todo, iri |-> now.iri]
    <2>1. exports' = [f \in Exporters |-> exports'[f]]
      BY <1>1, <1>4
    <2>2. exports'[e] = next
      BY <1>1, <1>2, <1>4 DEF Inserting, Held
    <2>3. \A f \in Exporters : f # e => exports'[f] = exports[f]
      BY <1>1, <1>4
    <2>4. pending = now.iri \ registry
      BY DEF Pending
    <2>5. \A a \in pending : /\ IriRow(a)
                             /\ \A r \in registry : a[2] # r[2] /\ a[1] # r[1]
                             /\ \A b \in pending : a = b
      BY <1>2, <1>4, <2>4 DEF Inserting, InsertFits, Rows
    <2>6. \A a \in registry' : IriRow(a)'
      BY <1>1, <1>4, <2>5 DEF IriInv, IriRow
    <2>7. \A a, b \in registry' : a[1] = b[1] <=> a[2] = b[2]
      BY <1>4, <2>5 DEF IriInv
    <2>8. Settled(exports[e])'
      BY <1>4, <2>2, <2>4 DEF Settled, Held
    <2>. HIDE DEF next, pending
    <2>9. ASSUME NEW f \in Exporters, f # e
          PROVE  (Settled(exports[f]) \/ Inserting(exports[f]))'
      <3>1. CASE Settled(exports[f])
        BY <1>4, <2>3, <2>9, <3>1 DEF Settled
      <3>2. CASE Inserting(exports[f])
        <4>1. \A a \in exports[f].iri \ registry, b \in pending : a[2] # b[2]
          BY <1>1, <2>9, <3>2 DEF IriInv, Inserting, Pending, pending
        <4>2. \A a \in exports[f].iri \ registry' : \A r \in registry' : a[2] # r[2]
          BY <1>4, <3>2, <4>1 DEF Inserting
        <4>. QED  BY <1>1, <1>4, <2>3, <2>9, <3>2, <4>2 DEF Inserting, IriRow
      <3>. QED  BY <3>1, <3>2 DEF IriInv
    <2>10. \A f, g \in Exporters :
          (f # g /\ exports[f].pc = "insert" /\ exports[g].pc = "insert" =>
             \A a \in Pending(f), b \in Pending(g) : a[2] # b[2])'
      <3>1. exports'[e].pc # "insert"
        BY <2>8 DEF Settled
      <3>2. \A f \in Exporters : f # e => Pending(f)' \subseteq Pending(f)
        BY <1>4, <2>3 DEF Pending
      <3>. QED  BY <2>3, <3>1, <3>2 DEF IriInv
    <2>11. \A a \in named' : a[2] # 0 => a \in registry'
      BY <1>1, <1>4 DEF IriInv
    <2>12. iris' \in Nat
      BY <1>1 DEF IriInv
    <2>. QED  BY <2>1, <2>6, <2>7, <2>8, <2>9, <2>10, <2>11, <2>12 DEF IriInv
  <1>. QED  BY <1>3, <1>4 DEF Insert

LEMMA ChunksKeep ==
    ASSUME IriInv, NEW e \in Exporters, WriteChunks(e)
    PROVE  IriInv'
  <1>1. /\ exports[e].pc = "mint" /\ UNCHANGED <<registry, iris>>
        /\ named' = named \cup Chunks(e) /\ exports' = [exports EXCEPT ![e] = NoExport]
    BY DEF WriteChunks, Enter
  <1>2. Chunks(e) \subseteq registry
    BY <1>1 DEF IriInv, Settled, Inserting, Chunks
  <1>3. Settled(NoExport)
    BY DEF Settled, NoExport
  <1>4. \A a \in named' : a[2] # 0 => a \in registry
    BY <1>1, <1>2 DEF IriInv
  <1>. QED  BY <1>1, <1>3, <1>4, ExporterSettles

LEMMA ArchiveKeeps ==
    ASSUME IriInv, NEW e \in Exporters, Archive(e)
    PROVE  IriInv'
  <1>1. exports[e].pc = "mint" /\ UNCHANGED <<registry, iris, named>>
    BY DEF Archive, Enter
  <1>2. \A a \in Graph(e) : a[2] # 0 => a \in registry
    BY <1>1 DEF IriInv, Settled, Inserting, Graph
  <1>. DEFINE graph == Graph(e)
              x == [pc |-> "owl", graph |-> graph, old |-> disk.prev, replaces |-> disk.owl]
  <1>3. Settled(x) /\ Settled(NoExport)
    BY <1>2 DEF Settled, Written, NoExport
  <1>4. \A a \in named' : a[2] # 0 => a \in registry
    BY <1>1 DEF IriInv
  <1>5. exports' = [exports EXCEPT ![e] = x] \/ exports' = [exports EXCEPT ![e] = NoExport]
    BY DEF Archive
  <1>. HIDE DEF x
  <1>. QED  BY <1>1, <1>3, <1>4, <1>5, ExporterSettles

LEMMA OwlKeeps ==
    ASSUME IriInv, NEW e \in Exporters, WriteOwl(e)
    PROVE  IriInv'
  <1>. DEFINE now == exports[e]
              x == [pc |-> "log", graph |-> now.graph, old |-> now.old, replaces |-> now.replaces]
  <1>1. /\ now.pc = "owl" /\ UNCHANGED <<registry, iris>> /\ named' = named \cup now.graph
        /\ exports' = [exports EXCEPT ![e].pc = "log"]
        /\ exports = [f \in Exporters |-> exports[f]]
    BY DEF WriteOwl, Enter, Goto, IriInv
  <1>2. Written(now) /\ \A a \in now.graph : a[2] # 0 => a \in registry
    BY <1>1 DEF IriInv, Settled, Inserting
  <1>3. Settled(x)
    BY <1>2 DEF Settled, Written
  <1>4. /\ exports' = [f \in Exporters |-> exports'[f]] /\ exports'[e] = x
        /\ \A f \in Exporters : f # e => exports'[f] = exports[f]
    BY <1>1, <1>2 DEF Written
  <1>5. \A a \in named' : a[2] # 0 => a \in registry
    BY <1>1, <1>2 DEF IriInv
  <1>. HIDE DEF x
  <1>. QED  BY <1>1, <1>3, <1>4, <1>5, ExportersSettle

LEMMA LogKeeps ==
    ASSUME IriInv, NEW e \in Exporters, WriteLog(e)
    PROVE  IriInv'
  <1>1. Settled(NoExport)
    BY DEF Settled, NoExport
  <1>2. \A a \in named' : a[2] # 0 => a \in registry
    BY DEF WriteLog, IriInv
  <1>. QED  BY <1>1, <1>2, ExporterSettles DEF WriteLog

LEMMA DieKeeps ==
    ASSUME IriInv, NEW es, Die(es)
    PROVE  IriInv'
  <1>1. Settled(NoExport)
    BY DEF Settled, NoExport
  <1>2. UNCHANGED <<registry, iris>> /\ \A a \in named' : a[2] # 0 => a \in registry
    BY DEF Die, IriInv
  <1>3. /\ exports' = [e \in Exporters |-> exports'[e]]
        /\ \A e \in Exporters : exports'[e] = exports[e] \/ Settled(exports'[e])
    BY <1>1 DEF Die
  <1>. QED  BY <1>2, <1>3, ExportersSettle

LEMMA IriStill == IriInv /\ UNCHANGED exportVars => IriInv'
  <1>. SUFFICES ASSUME IriInv, UNCHANGED exportVars PROVE IriInv'
    OBVIOUS
  <1>1. UNCHANGED <<registry, iris, exports, named>>
    BY DEF exportVars
  <1>2. \A a \in named' : a[2] # 0 => a \in registry
    BY <1>1 DEF IriInv
  <1>3. exports' = [e \in Exporters |-> exports'[e]]
    BY <1>1 DEF IriInv
  <1>. QED  BY <1>1, <1>2, <1>3, ExportersSettle

LEMMA IriStep ==
    IriInv /\ [NextTree \/ NextExport \/ ExtractAgain]_taskVars => IriInv'
  <1>. SUFFICES ASSUME IriInv, [NextTree \/ NextExport \/ ExtractAgain]_taskVars PROVE IriInv'
    OBVIOUS
  <1>1. CASE NextTree
    BY <1>1, IriStill DEF NextTree, CreateTask, DecideTask, DeleteTask, MoveTask, MergeTask,
                          EditTree, DiscoverStart, DiscoverEnd
  <1>2. ASSUME NEW e \in Exporters,
               \/ ExportTasks(e) \/ ExportLinks(e) \/ LookUp(e) \/ Insert(e)
               \/ WriteChunks(e) \/ Archive(e) \/ WriteOwl(e) \/ WriteLog(e)
        PROVE  IriInv'
    BY <1>2, TasksKeep, LinksKeep, LookUpKeeps, InsertKeeps, ChunksKeep, ArchiveKeeps, OwlKeeps,
       LogKeeps
  <1>3. CASE Kill
    BY <1>3, DieKeeps DEF Kill
  <1>4. CASE RestartServer
    BY <1>4, DieKeeps DEF RestartServer
  <1>5. CASE ExtractAgain
    BY <1>5, IriStill DEF ExtractAgain
  <1>6. CASE UNCHANGED taskVars
    BY <1>6, IriStill DEF taskVars
  <1>. QED  BY <1>1, <1>2, <1>3, <1>4, <1>5, <1>6 DEF NextExport

(* What exporters hold and have written is in the registry, which gives an      *)
(* entity one IRI (persistence/iri_registry, entity_id is UNIQUE).              *)
THEOREM IrisInductive == TaskSpec => []IriInv
  BY IriInit, IriStep, PTL DEF TaskSpec

(* Whatever exports overlap, die or fail, no two written files give a unit      *)
(* different IRIs, and no two units one IRI.                                    *)
THEOREM IrisAreStable == TaskSpec => []StableIri
  <1>1. IriInv => StableIri
    BY DEF IriInv, StableIri
  <1>. QED  BY <1>1, IrisInductive, PTL

-----------------------------------------------------------------------------
(* The tasks in review.db. A run holds only ids that were made, so that no id  *)
(* it makes is one of a row; and rows are typed, so that an upsert is seen to  *)
(* leave the columns of the verdict alone.                                     *)

TaskStatus == {"unreviewed", "approved", "rejected", "edited"}

RequestRow(request) ==
    request.pc = "write" =>
        /\ request.nonce \in Nonces \cup {None}
        /\ request.kind \in {"task_review", "task_bulk_approve"} => request.verdict \in TaskStatus

\* What a run knows of tasks: labels of ids that were made.
Named(labels) ==
    /\ DOMAIN labels \subseteq 1 .. made
    /\ \A t \in DOMAIN labels : labels[t] \in Labels \cup {EditedLabel}

RunShape(x) == x = [pc |-> x.pc, locked |-> x.locked, tasks |-> x.tasks]

RunRow(x) ==
    /\ x.pc \in {"idle", "build", "write", "persist", "done"}
    /\ x.pc = "build" => RunShape(x) /\ Named(x.locked)
    /\ x.pc \in {"write", "persist"} => RunShape(x) /\ Named(x.tasks)

DecisionInv ==
    /\ made \in Nat
    /\ decisions = [t \in RowIds |-> decisions[t]]
    /\ \A t \in TaskRows : t \in 1 .. made /\ decisions[t] \in DecisionRow
    /\ requests = [r \in Reviewers |-> requests[r]]
    /\ \A r \in Reviewers : RequestRow(requests[r])
    /\ RunRow(run)
    /\ checkpoint # None => checkpoint.pc = "write" /\ RunRow(checkpoint)

LEMMA DecisionInit == InitReview => DecisionInv
  BY DEF InitReview, DecisionInv, TaskRows, NoRequest, RequestRow, Idle, RunRow

\* Ids that were made stay made.
LEMMA NamedStays ==
    ASSUME made \in Nat, made' \in Nat, made <= made', NEW x
    PROVE  /\ Named(x) => Named(x)'
           /\ RunRow(x) => RunRow(x)'
  BY DEF Named, RunRow

LEMMA RowParts ==
    ASSUME NEW x \in DecisionRow
    PROVE  /\ x = [label |-> x.label, status |-> x.status, edited |-> x.edited, nonce |-> x.nonce]
           /\ x.label \in Labels \cup {EditedLabel} /\ x.status \in TaskStatus
           /\ x.edited \in {None, EditedLabel} /\ x.nonce \in Nonces \cup {None}
  BY DEF DecisionRow, TaskStatus

\* An upsert changes the label of a row and no part of its verdict.
LEMMA UpsertKeepsVerdict ==
    ASSUME NEW x \in DecisionRow, NEW label \in Labels \cup {EditedLabel},
           NEW y, y = [x EXCEPT !.label = label]
    PROVE  y \in DecisionRow /\ y.status = x.status /\ y.edited = x.edited /\ y.nonce = x.nonce
  <1>1. y = [label |-> label, status |-> x.status, edited |-> x.edited, nonce |-> x.nonce]
    BY RowParts
  <1>. QED  BY <1>1, RowParts DEF DecisionRow, TaskStatus

LEMMA VerdictIsRow ==
    ASSUME NEW x \in DecisionRow, NEW status \in TaskStatus, NEW nonce \in Nonces \cup {None},
           NEW edited \in {None, EditedLabel},
           NEW y, y = [x EXCEPT !.status = status, !.nonce = nonce, !.edited = edited]
    PROVE  y \in DecisionRow
  <1>2. x = [label |-> x.label, status |-> x.status, edited |-> x.edited, nonce |-> x.nonce]
    BY RowParts
  <1>3. PICK z : z = [x EXCEPT !.status = status, !.nonce = nonce, !.edited = edited]
    OBVIOUS
  <1>4. z = [label |-> x.label, status |-> status, edited |-> edited, nonce |-> nonce]
    BY <1>2, <1>3
  <1>1. y = [label |-> x.label, status |-> status, edited |-> edited, nonce |-> nonce]
    BY <1>3, <1>4
  <1>. QED  BY <1>1, RowParts DEF DecisionRow, TaskStatus

LEMMA NewRowIsRow ==
    ASSUME NEW label \in Labels \cup {EditedLabel}, NEW nonce \in Nonces \cup {None},
           NEW y, y = [NewRow(label) EXCEPT !.nonce = nonce]
    PROVE  y \in DecisionRow /\ NewRow(label) \in DecisionRow
  <1>1. NewRow(label) \in DecisionRow
    BY DEF NewRow, DecisionRow
  <1>2. y = [label |-> label, status |-> "unreviewed", edited |-> None, nonce |-> nonce]
    BY DEF NewRow
  <1>. QED  BY <1>1, <1>2 DEF DecisionRow

\* What a step owes to the reviewers of the tasks.
Survives ==
    \A t \in TaskRows :
        \/ decisions'[t] # None /\ ReviewVerdict(t)' = ReviewVerdict(t)
        \/ \E r \in Reviewers : /\ requests[r].pc = "write" /\ requests'[r].pc = "idle"
                                /\ t \in requests[r].target

LEMMA SameDecisions ==
    ASSUME DecisionInv, decisions' = decisions, made \in Nat, made' \in Nat, made <= made'
    PROVE  /\ Survives
           /\ decisions' = [t \in RowIds |-> decisions'[t]]
           /\ \A t \in TaskRows' : t \in 1 .. made' /\ decisions'[t] \in DecisionRow
  <1>1. TaskRows' = TaskRows /\ \A t \in TaskRows : decisions[t] # None
    BY DEF TaskRows
  <1>. QED  BY <1>1 DEF DecisionInv, Survives, ReviewVerdict

LEMMA AcceptKeeps ==
    ASSUME DecisionInv, NEW r \in Reviewers, NEW request, Accept(r, request), RequestRow(request)
    PROVE  DecisionInv' /\ Survives
  <1>1. decisions' = decisions /\ made' = made /\ run' = run /\ checkpoint' = checkpoint
    BY DEF Accept
  <1>2. /\ requests' = [q \in Reviewers |-> requests'[q]]
        /\ \A q \in Reviewers : RequestRow(requests'[q])
    BY DEF Accept, DecisionInv
  <1>3. made \in Nat /\ made <= made' /\ made' \in Nat
    BY <1>1 DEF DecisionInv
  <1>. QED  BY <1>1, <1>2, <1>3, SameDecisions, NamedStays DEF DecisionInv

LEMMA RequestsKeep ==
    ASSUME DecisionInv, NEW r \in Reviewers,
           BeginReview(r) \/ BeginDelete(r) \/ BeginBulkApprove(r) \/ BeginEdit(r) \/ BeginCreate(r)
    PROVE  DecisionInv' /\ Survives
  <1>1. \A kind, target, verdict : \A n \in Nonces \cup {None} :
           LET x == Request(kind, target, verdict, n)
           IN  x.nonce = n /\ x.kind = kind /\ x.verdict = verdict
    BY DEF Request
  <1>2. ASSUME NEW kind, NEW target, NEW verdict, NEW n \in Nonces \cup {None},
               Accept(r, Request(kind, target, verdict, n)),
               kind \in {"task_review", "task_bulk_approve"} => verdict \in TaskStatus
        PROVE  DecisionInv' /\ Survives
    <2>1. RequestRow(Request(kind, target, verdict, n))
      BY <1>1, <1>2 DEF RequestRow
    <2>. QED  BY <1>2, <2>1, AcceptKeeps
  <1>3. CASE BeginReview(r)
    BY <1>2, <1>3 DEF BeginReview, TaskStatus
  <1>4. CASE BeginBulkApprove(r)
    BY <1>2, <1>4 DEF BeginBulkApprove, TaskStatus
  <1>5. CASE BeginDelete(r) \/ BeginEdit(r) \/ BeginCreate(r)
    BY <1>2, <1>5 DEF BeginDelete, BeginEdit, BeginCreate
  <1>. QED  BY <1>3, <1>4, <1>5

\* The write of one request, which touches only rows the request names or a new one.
LEMMA DecisionCommitKeeps ==
    ASSUME DecisionInv, NEW r \in Reviewers, Commit(r)
    PROVE  DecisionInv' /\ Survives
  <1>. DEFINE request == requests[r]
  <1>1. /\ request.pc = "write" /\ requests' = [requests EXCEPT ![r] = NoRequest]
        /\ run' = run /\ checkpoint' = checkpoint
    BY DEF Commit
  <1>2. requests'[r].pc = "idle"
    BY <1>1 DEF DecisionInv, NoRequest
  <1>3. /\ requests' = [q \in Reviewers |-> requests'[q]]
        /\ \A q \in Reviewers : RequestRow(requests'[q])
    BY <1>1 DEF DecisionInv, NoRequest, RequestRow
  <1>4. made \in Nat
    BY DEF DecisionInv
  <1>5. RequestRow(request)
    BY DEF DecisionInv
  <1>6. ASSUME made' \in Nat, made <= made',
               decisions' = [t \in RowIds |-> decisions'[t]],
               \A t \in TaskRows' : t \in 1 .. made' /\ decisions'[t] \in DecisionRow,
               \A t \in TaskRows : t \in request.target \/ decisions'[t] = decisions[t]
        PROVE  DecisionInv' /\ Survives
    <2>1. DecisionInv'
      BY <1>1, <1>3, <1>4, <1>6, NamedStays DEF DecisionInv
    <2>2. Survives
      BY <1>1, <1>2, <1>6 DEF Survives, ReviewVerdict, TaskRows
    <2>. QED  BY <2>1, <2>2
  <1>7. CASE decisions' = decisions /\ made' = made
    BY <1>4, <1>6, <1>7, SameDecisions
  <1>8. CASE WriteVerdict(request)
    <2>1. made' = made /\ decisions' = Decided(request) /\ request.verdict \in TaskStatus
      BY <1>1, <1>5, <1>8 DEF WriteVerdict, RequestRow
    <2>2. ASSUME NEW t \in RowIds
          PROVE  /\ decisions[t] = None => decisions'[t] = None
                 /\ decisions[t] # None => decisions'[t] \in DecisionRow
                 /\ t \notin request.target => decisions'[t] = decisions[t]
      <3>. DEFINE edited == IF request.kind = "task_bulk_approve" THEN decisions[t].edited
                            ELSE IF request.verdict = "edited" THEN EditedLabel ELSE None
      <3>1. decisions'[t] = IF t \in request.target /\ decisions[t] # None
                            THEN [decisions[t] EXCEPT !.status = request.verdict,
                                                      !.nonce = request.nonce, !.edited = edited]
                            ELSE decisions[t]
        BY <2>1 DEF Decided
      <3>2. decisions[t] # None => decisions[t] \in DecisionRow
        BY DEF DecisionInv, TaskRows
      <3>3. decisions[t] # None => edited \in {None, EditedLabel}
        BY <3>2, RowParts
      <3>4. request.nonce \in Nonces \cup {None}
        BY <1>1, <1>5 DEF RequestRow
      <3>. HIDE DEF edited, request
      <3>5. decisions[t] = None \/ t \notin request.target => decisions'[t] = decisions[t]
        BY <3>1
      <3>6. ASSUME decisions[t] # None, t \in request.target
            PROVE  decisions'[t] \in DecisionRow
        <4>1. PICK x : x = decisions[t]
          OBVIOUS
        <4>2. PICK y : y = [x EXCEPT !.status = request.verdict, !.nonce = request.nonce,
                                     !.edited = edited]
          OBVIOUS
        <4>3. y \in DecisionRow
          BY <2>1, <3>2, <3>3, <3>4, <3>6, <4>1, <4>2, VerdictIsRow
        <4>. QED  BY <3>1, <3>6, <4>1, <4>2, <4>3
      <3>. QED  BY <3>2, <3>5, <3>6
    <2>3. decisions' = [t \in RowIds |-> decisions'[t]]
      BY <2>1 DEF Decided
    <2>. QED  BY <1>4, <1>6, <2>1, <2>2, <2>3 DEF DecisionInv, TaskRows
  <1>9. CASE WriteDelete(request) \/ WriteEdit(request)
    <2>1. CASE decisions' = Without(request.target) /\ made' = made
      BY <1>4, <1>6, <2>1 DEF Without, DecisionInv, TaskRows
    <2>. QED  BY <1>7, <1>9, <2>1 DEF WriteDelete, WriteEdit
  <1>10. CASE WriteCreate(request)
    <2>1. made' = made + 1
      BY <1>10 DEF WriteCreate
    <2>2. PICK label \in Labels :
            decisions' = [decisions EXCEPT ![made + 1] = [NewRow(label) EXCEPT !.nonce = request.nonce]]
      BY <1>10 DEF WriteCreate
    <2>3. PICK y : y = [NewRow(label) EXCEPT !.nonce = request.nonce]
      OBVIOUS
    <2>4. y \in DecisionRow
      BY <1>1, <1>5, <2>3, NewRowIsRow DEF RequestRow
    <2>5. decisions' = [decisions EXCEPT ![made + 1] = y]
      BY <2>2, <2>3
    <2>6. /\ decisions' = [t \in RowIds |-> decisions'[t]]
          /\ \A t \in RowIds : decisions'[t] = IF t = made + 1 THEN y ELSE decisions[t]
      BY <2>5 DEF DecisionInv
    <2>7. ASSUME NEW t \in TaskRows
          PROVE  t # made + 1
      <3>1. t \in 1 .. made
        BY DEF DecisionInv
      <3>. QED  BY <1>4, <3>1
    <2>8. \A t \in TaskRows' : t \in 1 .. made' /\ decisions'[t] \in DecisionRow
      BY <1>4, <2>1, <2>4, <2>6 DEF DecisionInv, TaskRows
    <2>9. \A t \in TaskRows : decisions'[t] = decisions[t]
      BY <2>6, <2>7 DEF TaskRows
    <2>. QED  BY <1>4, <1>6, <2>1, <2>6, <2>8, <2>9
  <1>. QED  BY <1>7, <1>8, <1>9, <1>10 DEF Commit, Write, db

\* The labels a run builds: the locked ones it holds, and the candidates' on new ids.
LEMMA BuiltIsNamed ==
    ASSUME made \in Nat, made' = made + Cardinality(Labels), NEW known, Named(known),
           NEW x, x = Built(known)
    PROVE  Named(x)'
  <1>. DEFINE n == Cardinality(Labels)
              candidates == made + 1 .. made + n
              Onto(f) == \A l \in Labels : \E t \in candidates : f[t] = l
              labelOf == CHOOSE f \in [candidates -> Labels] : Onto(f)
  <1>1. n \in Nat /\ ExistsBijection(1 .. n, Labels)
    BY TaskAssumption, FS_CardinalityType
  <1>2. PICK b \in [1 .. n -> Labels] : \A l \in Labels : \E i \in 1 .. n : b[i] = l
    BY <1>1 DEF ExistsBijection, Bijection, Surjection
  <1>3. \E f \in [candidates -> Labels] : Onto(f)
    <2>1. PICK f : f = [t \in candidates |-> b[t - made]]
      OBVIOUS
    <2>2. f \in [candidates -> Labels]
      BY <1>1, <1>2, <2>1
    <2>3. ASSUME NEW l \in Labels
          PROVE  \E t \in candidates : f[t] = l
      <3>1. PICK i \in 1 .. n : b[i] = l
        BY <1>2
      <3>2. made + i \in candidates /\ made + i - made = i
        BY <1>1
      <3>. QED  BY <2>1, <3>1, <3>2
    <2>. QED  BY <2>2, <2>3
  <1>4. labelOf \in [candidates -> Labels]
    BY <1>3
  <1>5. Built(known) = [t \in candidates \cup DOMAIN known |->
                            IF t \in DOMAIN known THEN known[t] ELSE labelOf[t]]
    BY DEF Built
  <1>6. candidates \subseteq 1 .. made' /\ DOMAIN known \subseteq 1 .. made'
    BY <1>1 DEF Named
  <1>8. DOMAIN x \subseteq 1 .. made' /\ \A t \in DOMAIN x : x[t] \in Labels \cup {EditedLabel}
    <2>. HIDE DEF labelOf
    <2>. QED  BY <1>4, <1>5, <1>6 DEF Named
  <1>. QED  BY <1>8 DEF Named

LEMMA LockedIsNamed == DecisionInv => Named(Locked)
  <1>. SUFFICES ASSUME DecisionInv PROVE Named(Locked)
    OBVIOUS
  <1>1. ASSUME NEW t \in TaskRows
        PROVE  /\ t \in 1 .. made
               /\ decisions[t].label \in Labels \cup {EditedLabel}
               /\ decisions[t].edited \in {None, EditedLabel}
    BY RowParts DEF DecisionInv
  <1>2. DOMAIN Locked \subseteq TaskRows
    BY DEF Locked
  <1>3. \A t \in DOMAIN Locked :
           Locked[t] = IF decisions[t].edited # None THEN decisions[t].edited
                                                     ELSE decisions[t].label
    BY DEF Locked
  <1>. QED  BY <1>1, <1>2, <1>3 DEF Named

\* Steps of a run that write no row.
LEMMA RunKeeps ==
    ASSUME DecisionInv, RunStart \/ RunBuild \/ RunWriteTree \/ RunEnd \/ RunCrash
    PROVE  DecisionInv' /\ Survives
  <1>1. decisions' = decisions /\ requests' = requests /\ made \in Nat
    BY DEF RunStart, RunBuild, RunWriteTree, RunEnd, RunCrash, db, DecisionInv
  <1>2. ASSUME made' \in Nat, made <= made', RunRow(run)',
               checkpoint' # None => checkpoint'.pc = "write" /\ RunRow(checkpoint)'
        PROVE  DecisionInv' /\ Survives
    <2>1. \A r \in Reviewers : RequestRow(requests'[r])
      BY <1>1 DEF DecisionInv
    <2>. QED  BY <1>1, <1>2, <2>1, SameDecisions DEF DecisionInv
  <1>3. CASE RunStart
    <2>1. made' = made /\ checkpoint' = checkpoint
      BY <1>3 DEF RunStart
    <2>2. checkpoint # None => RunRow(checkpoint)' /\ checkpoint.pc = "write"
      BY <1>1, <2>1 DEF DecisionInv, RunRow, Named
    <2>3. CASE checkpoint = None
      <3>1. run' = [pc |-> "build", locked |-> Locked, tasks |-> [t \in {} |-> None]]
        BY <1>3, <2>3 DEF RunStart
      <3>2. PICK x : x = Locked
        OBVIOUS
      <3>3. Named(x)'
        BY <2>1, <3>2, LockedIsNamed DEF Named
      <3>4. RunShape(run') /\ run'.pc = "build" /\ run'.locked = x
        BY <3>1, <3>2 DEF RunShape
      <3>5. RunRow(run)'
        BY <3>3, <3>4 DEF RunRow
      <3>. QED  BY <1>1, <1>2, <2>1, <2>3, <3>5
    <2>4. CASE checkpoint # None
      <3>1. run' = checkpoint
        BY <1>3, <2>4 DEF RunStart
      <3>2. RunRow(run)'
        BY <2>1, <2>2, <2>4, <3>1
      <3>. QED  BY <1>1, <1>2, <2>1, <2>2, <3>2
    <2>. QED  BY <2>3, <2>4
  <1>4. CASE RunBuild
    <2>1. /\ run.pc = "build" /\ made' = made + Cardinality(Labels)
          /\ run' = [run EXCEPT !.pc = "write", !.tasks = Built(run.locked)]
          /\ checkpoint' = run'
      BY <1>4 DEF RunBuild
    <2>2. Cardinality(Labels) \in Nat
      BY TaskAssumption, FS_CardinalityType
    <2>3. PICK x : x = Built(run.locked)
      OBVIOUS
    <2>4. RunShape(run) /\ Named(run.locked)
      BY <2>1 DEF DecisionInv, RunRow
    <2>5. Named(x)'
      BY <1>1, <2>1, <2>3, <2>4, BuiltIsNamed
    <2>6. PICK y : y = [run EXCEPT !.pc = "write", !.tasks = x]
      OBVIOUS
    <2>7. y = [pc |-> "write", locked |-> run.locked, tasks |-> x]
      BY <2>4, <2>6 DEF RunShape
    <2>8. y.pc = "write" /\ y.tasks = x /\ RunShape(y)
      BY <2>7 DEF RunShape
    <2>9. run' = y /\ checkpoint' = y
      BY <2>1, <2>3, <2>6
    <2>10. RunRow(run)' /\ RunRow(checkpoint)' /\ checkpoint'.pc = "write"
      BY <2>5, <2>8, <2>9 DEF RunRow
    <2>. QED  BY <1>1, <1>2, <2>1, <2>2, <2>10
  <1>5. CASE RunWriteTree
    <2>1. /\ run.pc = "write" /\ made' = made /\ checkpoint' = checkpoint
          /\ run' = [run EXCEPT !.pc = "persist"]
      BY <1>5 DEF RunWriteTree, db
    <2>2. RunShape(run) /\ Named(run.tasks)
      BY <2>1 DEF DecisionInv, RunRow
    <2>3. PICK y : y = [run EXCEPT !.pc = "persist"]
      OBVIOUS
    <2>4. y = [pc |-> "persist", locked |-> run.locked, tasks |-> run.tasks]
      BY <2>2, <2>3 DEF RunShape
    <2>5. y.pc = "persist" /\ y.tasks = run.tasks /\ RunShape(y)
      BY <2>4 DEF RunShape
    <2>6. Named(y.tasks)'
      BY <2>1, <2>2, <2>5 DEF Named
    <2>7. RunRow(run)'
      BY <2>1, <2>3, <2>5, <2>6 DEF RunRow
    <2>8. checkpoint' # None => checkpoint'.pc = "write" /\ RunRow(checkpoint)'
      BY <1>1, <2>1 DEF DecisionInv, RunRow, Named
    <2>. QED  BY <1>1, <1>2, <2>1, <2>7, <2>8
  <1>6. CASE RunEnd \/ RunCrash
    <2>1. made' = made /\ run' = Idle /\ (checkpoint' = None \/ checkpoint' = checkpoint)
      BY <1>6 DEF RunEnd, RunCrash
    <2>2. RunRow(run)'
      BY <2>1 DEF RunRow, Idle
    <2>3. checkpoint' # None => checkpoint'.pc = "write" /\ RunRow(checkpoint)'
      BY <1>1, <2>1 DEF DecisionInv, RunRow, Named
    <2>. QED  BY <1>1, <1>2, <2>1, <2>2, <2>3
  <1>. QED  BY <1>3, <1>4, <1>5, <1>6

\* The upsert of a run.
LEMMA PersistKeeps ==
    ASSUME DecisionInv, RunPersist
    PROVE  DecisionInv' /\ Survives
  <1>1. /\ run.pc = "persist" /\ requests' = requests /\ made' = made /\ made \in Nat
        /\ checkpoint' = checkpoint /\ run' = [run EXCEPT !.pc = "done"]
        /\ decisions' = [t \in RowIds |-> IF t \in DOMAIN run.tasks THEN UpsertedRow(t)
                                                                  ELSE decisions[t]]
    BY DEF RunPersist, DecisionInv
  <1>2. RunShape(run) /\ Named(run.tasks)
    BY <1>1 DEF DecisionInv, RunRow
  <1>3. ASSUME NEW t \in RowIds, t \in DOMAIN run.tasks
        PROVE  /\ t \in 1 .. made /\ decisions'[t] \in DecisionRow
               /\ decisions[t] # None => ReviewVerdict(t)' = ReviewVerdict(t)
    <2>. DEFINE label == run.tasks[t]
    <2>1. t \in 1 .. made /\ label \in Labels \cup {EditedLabel}
      BY <1>2, <1>3 DEF Named
    <2>2. PICK y : y = UpsertedRow(t)
      OBVIOUS
    <2>3. decisions'[t] = y
      BY <1>1, <1>3, <2>2
    <2>4. CASE decisions[t] = None
      <3>1. y = NewRow(label)
        BY <2>2, <2>4 DEF UpsertedRow
      <3>2. NewRow(label) \in DecisionRow
        <4>. HIDE DEF label
        <4>. QED  BY <2>1 DEF NewRow, DecisionRow
      <3>. QED  BY <2>1, <2>3, <2>4, <3>1, <3>2
    <2>5. CASE decisions[t] # None
      <3>1. PICK x : x = decisions[t]
        OBVIOUS
      <3>2. x \in DecisionRow
        BY <2>5, <3>1 DEF DecisionInv, TaskRows
      <3>3. y = [x EXCEPT !.label = label]
        BY <2>2, <2>5, <3>1 DEF UpsertedRow
      <3>. HIDE DEF label
      <3>4. y \in DecisionRow /\ y.status = x.status /\ y.edited = x.edited /\ y.nonce = x.nonce
        BY <2>1, <3>2, <3>3, UpsertKeepsVerdict
      <3>. QED  BY <2>1, <2>3, <3>1, <3>4 DEF ReviewVerdict
    <2>. QED  BY <2>4, <2>5
  <1>4. \A t \in RowIds : t \notin DOMAIN run.tasks => decisions'[t] = decisions[t]
    BY <1>1
  <1>5. decisions' = [t \in RowIds |-> decisions'[t]]
    BY <1>1
  <1>6. \A t \in TaskRows' : t \in 1 .. made' /\ decisions'[t] \in DecisionRow
    BY <1>1, <1>3, <1>4 DEF TaskRows, DecisionInv
  <1>7. Survives
    <2>1. ASSUME NEW t \in TaskRows
          PROVE  decisions'[t] # None /\ ReviewVerdict(t)' = ReviewVerdict(t)
      <3>1. t \in RowIds /\ decisions[t] # None
        BY DEF TaskRows
      <3>2. CASE t \in DOMAIN run.tasks
        BY <1>3, <3>1, <3>2, TaskAssumption
      <3>3. CASE t \notin DOMAIN run.tasks
        BY <1>4, <3>1, <3>3 DEF ReviewVerdict
      <3>. QED  BY <3>2, <3>3
    <2>. QED  BY <2>1 DEF Survives
  <1>8. run'.pc = "done"
    <2>1. PICK y : y = [run EXCEPT !.pc = "done"]
      OBVIOUS
    <2>2. y = [pc |-> "done", locked |-> run.locked, tasks |-> run.tasks]
      BY <1>2, <2>1 DEF RunShape
    <2>. QED  BY <1>1, <2>1, <2>2
  <1>9. RunRow(run)'
    BY <1>8 DEF RunRow
  <1>10. checkpoint' # None => checkpoint'.pc = "write" /\ RunRow(checkpoint)'
    BY <1>1 DEF DecisionInv, RunRow, Named
  <1>11. \A r \in Reviewers : RequestRow(requests'[r])
    BY <1>1 DEF DecisionInv
  <1>. QED  BY <1>1, <1>5, <1>6, <1>7, <1>9, <1>10, <1>11 DEF DecisionInv

LEMMA DecisionStep ==
    ASSUME DecisionInv, [NextReview]_reviewVars
    PROVE  DecisionInv' /\ [Survives]_reviewVars
  <1>1. CASE Review
    BY <1>1, RequestsKeep, DecisionCommitKeeps DEF Review
  <1>2. CASE Discover
    BY <1>2, RunKeeps, PersistKeeps DEF Discover
  <1>3. CASE UNCHANGED reviewVars
    <2>1. made' = made /\ made \in Nat /\ made <= made'
      BY <1>3 DEF reviewVars, DecisionInv
    <2>2. /\ decisions' = decisions /\ requests' = requests /\ run' = run
          /\ checkpoint' = checkpoint
      BY <1>3 DEF reviewVars
    <2>3. RunRow(run)' /\ (checkpoint' # None => checkpoint'.pc = "write" /\ RunRow(checkpoint)')
      BY <2>1, <2>2 DEF DecisionInv, RunRow, Named
    <2>4. \A r \in Reviewers : RequestRow(requests'[r])
      BY <2>2 DEF DecisionInv
    <2>. QED  BY <1>3, <2>1, <2>2, <2>3, <2>4, SameDecisions DEF DecisionInv
  <1>. QED  BY <1>1, <1>2, <1>3 DEF NextReview

(* Rows have ids that were made, and what a run or its checkpoint holds names *)
(* only such ids: a run that comes back from an old checkpoint never takes    *)
(* the id of a row for a new task's.                                          *)
THEOREM DecisionsInductive == ReviewSpec => []DecisionInv
  BY DecisionInit, DecisionStep, PTL DEF ReviewSpec

(* A reviewer's verdict outlives discovery: no run, resumed or repeated from  *)
(* an old checkpoint, changes the verdict of a row or removes it; only a      *)
(* request that names the task does.                                          *)
THEOREM VerdictsOutliveRuns == ReviewSpec => VerdictsSurvive
  <1>1. DecisionInv /\ [NextReview]_reviewVars => [Survives]_reviewVars
    BY DecisionStep
  <1>. QED  BY <1>1, DecisionsInductive, PTL DEF ReviewSpec, VerdictsSurvive, Survives

-----------------------------------------------------------------------------
(* The dependency web seen from a root: what lies within reach of it in one    *)
(* direction, how far, and what is one step from each.                         *)

Entry == [iri : Iris, edges : Seq(STRING \X Iris)]
Ways == {"upstream", "downstream"}

IsWeb(root, all, dist, next) ==
    /\ root \in all
    /\ \A i \in all : dist[i] \in Nat /\ (dist[i] = 0 <=> i = root)
    /\ \A i \in all : \A t \in next[i] : t \in all /\ dist[t] <= dist[i] + 1
    /\ \A t \in all : t # root => \E i \in all : dist[i] + 1 = dist[t] /\ t \in next[i]

LEMMA OutEdgesIn ==
    ASSUME NEW entries \in Seq(Entry), NEW i
    PROVE  OutEdges(entries, i) \in Seq(STRING \X Iris)
  <1>. DEFINE at == {n \in DOMAIN entries : entries[n].iri = i}
  <1>1. CASE at = {}
    <2>1. <<>> \in Seq(STRING \X Iris)
      OBVIOUS
    <2>. QED  BY <1>1, <2>1 DEF OutEdges
  <1>2. CASE at # {}
    <2>1. at \subseteq Nat
      OBVIOUS
    <2>2. Min(at) \in at
      <3>. HIDE DEF at
      <3>. QED  BY <1>2, <2>1, MinOfSome
    <2>3. entries[Min(at)] \in Entry
      BY <2>2
    <2>4. OutEdges(entries, i) = entries[Min(at)].edges
      BY <1>2 DEF OutEdges
    <2>. HIDE DEF at
    <2>. QED  BY <2>3, <2>4 DEF Entry
  <1>. QED  BY <1>1, <1>2

LEMMA UpstreamSteps ==
    ASSUME NEW entries, NEW i
    PROVE  Steps(entries, "upstream", i)
              = IF i \in Kernel THEN {}
                ELSE {OutEdges(entries, i)[n][2] : n \in DOMAIN OutEdges(entries, i)}
  <1>1. CASE i \in Kernel
    <2>1. Upstream(entries, i) = <<>>
      BY <1>1 DEF Upstream
    <2>. QED  BY <1>1, <2>1 DEF Steps, Neighbours
  <1>2. CASE i \notin Kernel
    <2>. DEFINE out == OutEdges(entries, i)
    <2>1. Upstream(entries, i) = [n \in DOMAIN out |-> out[n][2]]
      BY <1>2 DEF Upstream
    <2>. HIDE DEF out
    <2>2. Steps(entries, "upstream", i) = {out[n][2] : n \in DOMAIN out}
      BY <2>1 DEF Steps, Neighbours
    <2>. QED  BY <1>2, <2>2 DEF out
  <1>. QED  BY <1>1, <1>2

NamingUpTo(entries, iri, n, p) ==
    p = [i \in 0 .. n |->
            IF i = 0 THEN <<>>
            ELSE IF Names(entries[i].edges, iri) THEN Append(p[i - 1], entries[i].iri)
            ELSE p[i - 1]]

LEMMA NamingExists ==
    ASSUME NEW entries, NEW iri
    PROVE  \A n \in Nat : \E p : NamingUpTo(entries, iri, n, p)
  <1>. DEFINE Good == {n \in Nat : \E p : NamingUpTo(entries, iri, n, p)}
  <1>1. 0 \in Good
    <2>1. PICK p : p = [i \in 0 .. 0 |-> <<>>]
      OBVIOUS
    <2>2. NamingUpTo(entries, iri, 0, p)
      BY <2>1 DEF NamingUpTo
    <2>. QED  BY <2>2
  <1>2. ASSUME NEW m \in Nat \ {0}, m - 1 \in Good PROVE m \in Good
    <2>1. PICK p : NamingUpTo(entries, iri, m - 1, p)
      BY <1>2
    <2>2. PICK q : q = [i \in 0 .. m |->
                           IF i = 0 THEN <<>>
                           ELSE IF Names(entries[i].edges, iri)
                                THEN Append(p[i - 1], entries[i].iri)
                           ELSE p[i - 1]]
      OBVIOUS
    <2>3. \A i \in 0 .. m - 1 : q[i] = p[i]
      <3>1. \A i \in 0 .. m - 1 : i \in 0 .. m
        OBVIOUS
      <3>. QED  BY <2>1, <2>2, <3>1 DEF NamingUpTo
    <2>4. \A i \in 1 .. m : q[i - 1] = p[i - 1]
      BY <2>3
    <2>5. NamingUpTo(entries, iri, m, q)
      <3>1. \A i \in 0 .. m : i # 0 => i \in 1 .. m
        OBVIOUS
      <3>. HIDE DEF Good
      <3>2. [i \in 0 .. m |-> IF i = 0 THEN <<>>
                             ELSE IF Names(entries[i].edges, iri)
                                  THEN Append(p[i - 1], entries[i].iri)
                             ELSE p[i - 1]]
               = [i \in 0 .. m |-> IF i = 0 THEN <<>>
                                  ELSE IF Names(entries[i].edges, iri)
                                       THEN Append(q[i - 1], entries[i].iri)
                                  ELSE q[i - 1]]
        BY <2>4, <3>1
      <3>. QED  BY <2>2, <3>2 DEF NamingUpTo
    <2>. QED  BY <2>5
  <1>. HIDE DEF Good
  <1>3. \A n \in Nat : n \in Good
    BY <1>1, <1>2, AllNumbers
  <1>. QED  BY <1>3 DEF Good

LEMMA DownstreamIs ==
    ASSUME NEW entries \in Seq(Entry), NEW iri
    PROVE  /\ Downstream(entries, iri) \in Seq(Iris)
           /\ {Downstream(entries, iri)[m] : m \in DOMAIN Downstream(entries, iri)}
                 = {entries[n].iri : n \in {k \in DOMAIN entries : Names(entries[k].edges, iri)}}
  <1>. DEFINE N == Len(entries)
  <1>1. N \in Nat
    OBVIOUS
  <1>2. PICK p : NamingUpTo(entries, iri, N, p) /\ Downstream(entries, iri) = p[N]
    <2>1. \E p : NamingUpTo(entries, iri, N, p)
      BY <1>1, NamingExists
    <2>. QED  BY <2>1 DEF Downstream, NamingUpTo
  <1>. DEFINE Good == {i \in Nat : /\ p[i] \in Seq(Iris)
                                  /\ {p[i][m] : m \in DOMAIN p[i]}
                                        = {entries[n].iri : n \in {k \in 1 .. i :
                                                               Names(entries[k].edges, iri)}}}
  <1>3. \A i \in 0 .. N : p[i] = IF i = 0 THEN <<>>
            ELSE IF Names(entries[i].edges, iri) THEN Append(p[i - 1], entries[i].iri)
            ELSE p[i - 1]
    BY <1>2 DEF NamingUpTo
  <1>4. 0 \in Good
    <2>1. p[0] = <<>>
      <3>1. 0 \in 0 .. N
        BY <1>1
      <3>. HIDE DEF Good, N
      <3>. QED  BY <1>3, <3>1
    <2>2. {k \in 1 .. 0 : Names(entries[k].edges, iri)} = {} /\ <<>> \in Seq(Iris)
      OBVIOUS
    <2>3. {p[0][m] : m \in DOMAIN p[0]} = {}
      BY <2>1
    <2>. QED  BY <2>1, <2>2, <2>3
  <1>5. ASSUME NEW i \in 1 .. N, i - 1 \in Good PROVE i \in Good
    <2>1. i \in 0 .. N /\ i # 0 /\ i \in Nat /\ 1 .. i = 1 .. i - 1 \cup {i}
      OBVIOUS
    <2>. DEFINE q == p[i - 1]
                A == {k \in 1 .. i - 1 : Names(entries[k].edges, iri)}
    <2>2. q \in Seq(Iris) /\ {q[m] : m \in DOMAIN q} = {entries[n].iri : n \in A}
      BY <1>5
    <2>3. entries[i].iri \in Iris
      <3>1. entries[i] \in Entry
        <4>. HIDE DEF Good
        <4>. QED  OBVIOUS
      <3>. QED  BY <3>1 DEF Entry
    <2>4. CASE Names(entries[i].edges, iri)
      <3>1. p[i] = Append(q, entries[i].iri)
        BY <1>3, <2>1, <2>4
      <3>. HIDE DEF q
      <3>2. p[i] \in Seq(Iris) /\ {p[i][m] : m \in DOMAIN p[i]}
                                     = {q[m] : m \in DOMAIN q} \cup {entries[i].iri}
        <4>1. /\ DOMAIN p[i] = 1 .. Len(q) + 1 /\ DOMAIN q = 1 .. Len(q) /\ Len(q) \in Nat
              /\ p[i][Len(q) + 1] = entries[i].iri /\ \A m \in 1 .. Len(q) : p[i][m] = q[m]
          BY <2>2, <2>3, <3>1
        <4>2. 1 .. Len(q) + 1 = 1 .. Len(q) \cup {Len(q) + 1}
          BY <4>1
        <4>3. p[i] \in Seq(Iris)
          BY <2>2, <2>3, <3>1
        <4>. QED  BY <4>1, <4>2, <4>3
      <3>3. {k \in 1 .. i : Names(entries[k].edges, iri)} = A \cup {i}
        BY <2>1, <2>4
      <3>4. {entries[n].iri : n \in A \cup {i}} = {entries[n].iri : n \in A} \cup {entries[i].iri}
        <4>. HIDE DEF A
        <4>. QED  OBVIOUS
      <3>. HIDE DEF A
      <3>. QED  BY <2>1, <2>2, <3>2, <3>3, <3>4
    <2>5. CASE ~Names(entries[i].edges, iri)
      <3>1. p[i] = q
        BY <1>3, <2>1, <2>5
      <3>2. {k \in 1 .. i : Names(entries[k].edges, iri)} = A
        BY <2>1, <2>5
      <3>. HIDE DEF q, A
      <3>. QED  BY <2>1, <2>2, <3>1, <3>2
    <2>. QED  BY <2>4, <2>5
  <1>6. N \in 0 .. N /\ DOMAIN entries = 1 .. N
    BY <1>1
  <1>7. N \in Good
    <2>. HIDE DEF Good
    <2>. QED  BY <1>1, <1>4, <1>5, <1>6, NumbersUpTo
  <1>. QED  BY <1>2, <1>6, <1>7

LEMMA StepsIn ==
    ASSUME NEW entries \in Seq(Entry), NEW way \in Ways, NEW i
    PROVE  Steps(entries, way, i) \subseteq Iris
  <1>1. CASE way = "upstream"
    <2>1. OutEdges(entries, i) \in Seq(STRING \X Iris)
      BY OutEdgesIn
    <2>2. \A n \in DOMAIN OutEdges(entries, i) : OutEdges(entries, i)[n][2] \in Iris
      BY <2>1
    <2>. QED  BY <1>1, <2>2, UpstreamSteps
  <1>2. CASE way = "downstream"
    <2>1. Downstream(entries, i) \in Seq(Iris)
      BY DownstreamIs
    <2>. QED  BY <1>2, <2>1 DEF Steps, Neighbours
  <1>. QED  BY <1>1, <1>2 DEF Ways

BallOf(entries, way, root, b) ==
    b = [n \in 0 .. Cardinality(Iris) |->
            IF n = 0 THEN {root}
            ELSE LET near == b[n - 1] IN near \cup Around(entries, way, near)]

LEMMA BallIs ==
    ASSUME NEW entries \in Seq(Entry), NEW way \in Ways, NEW root \in Iris
    PROVE  LET N == Cardinality(Iris)
               b == Ball(entries, way, root)
           IN  /\ N \in Nat /\ DOMAIN b = 0 .. N /\ b[0] = {root}
               /\ \A n \in 1 .. N : b[n] = b[n - 1] \cup Around(entries, way, b[n - 1])
               /\ \A n \in 0 .. N : b[n] \subseteq Iris /\ b[n] \subseteq b[N]
               /\ Around(entries, way, b[N]) \subseteq b[N]
  <1>. DEFINE N == Cardinality(Iris)
  <1>1. N \in Nat /\ IsFiniteSet(Iris)
    BY SnapshotAssumption, FS_CardinalityType
  <1>2. \A T : Around(entries, way, T) \subseteq Iris
    BY StepsIn DEF Around
  <1>. HIDE DEF N
  <1>3. PICK G : G = [T \in SUBSET Iris |-> T \cup Around(entries, way, T)]
    OBVIOUS
  <1>4. PICK own \in SUBSET Iris : own = {root}
    OBVIOUS
  <1>5. GrowsWithin(Iris, G, own, N)
    BY <1>1, <1>2, <1>3 DEF GrowsWithin, StepGrows, N
  <1>6. PICK f : ReachesBy(Iris, G, own, N, f)
    BY <1>5, IteratesWhole
  <1>7. /\ IteratesOf(G, own, N, f) /\ f[0] = own
        /\ \A i \in 1 .. N : f[i] = G[f[i - 1]]
        /\ \A i \in 0 .. N : f[i] \in SUBSET Iris /\ f[i] \subseteq f[N]
        /\ G[f[N]] = f[N]
    BY <1>6 DEF ReachesBy
  <1>8. f[0] = {root}
    BY <1>4, <1>7
  <1>9. \A i \in 1 .. N : G[f[i - 1]] = f[i - 1] \cup Around(entries, way, f[i - 1])
    <2>1. \A i \in 1 .. N : i - 1 \in 0 .. N
      BY <1>1
    <2>. QED  BY <1>3, <1>7, <2>1
  <1>10. f = [n \in 0 .. N |->
                IF n = 0 THEN {root}
                ELSE LET near == f[n - 1] IN near \cup Around(entries, way, near)]
    <2>1. f = [i \in 0 .. N |-> IF i = 0 THEN {root} ELSE G[f[i - 1]]]
      BY <1>4, <1>7 DEF IteratesOf
    <2>2. \A i \in 0 .. N : i # 0 => i \in 1 .. N
      BY <1>1
    <2>. QED  BY <1>9, <2>1, <2>2
  <1>11. BallOf(entries, way, root, f)
    BY <1>10 DEF BallOf, N
  <1>12. PICK b : BallOf(entries, way, root, b) /\ Ball(entries, way, root) = b
    BY <1>11 DEF Ball, BallOf
  <1>13. \A i \in 0 .. N : b[i] = IF i = 0 THEN {root}
                                 ELSE b[i - 1] \cup Around(entries, way, b[i - 1])
    BY <1>12 DEF BallOf, N
  <1>. DEFINE Good == {i \in Nat : b[i] = f[i]}
  <1>14. 0 \in Good
    <2>1. 0 \in 0 .. N
      BY <1>1
    <2>. QED  BY <1>8, <1>13, <2>1
  <1>15. ASSUME NEW i \in 1 .. N, i - 1 \in Good PROVE i \in Good
    <2>1. i \in 0 .. N /\ i # 0 /\ i \in Nat /\ b[i - 1] = f[i - 1]
      BY <1>1, <1>15
    <2>2. f[i] = f[i - 1] \cup Around(entries, way, f[i - 1])
      BY <1>7, <1>9
    <2>. QED  BY <1>13, <2>1, <2>2
  <1>16. \A i \in 0 .. N : i \in Good
    <2>. HIDE DEF Good
    <2>. QED  BY <1>1, <1>14, <1>15, NumbersUpTo
  <1>17. \A i \in 0 .. N : b[i] = f[i]
    BY <1>16
  <1>18. N \in 0 .. N /\ 0 \in 0 .. N
    BY <1>1
  <1>19. Around(entries, way, f[N]) \subseteq f[N]
    BY <1>3, <1>7, <1>18
  <1>20. DOMAIN b = 0 .. N /\ b[0] = {root}
    BY <1>12, <1>13, <1>18 DEF BallOf, N
  <1>21. \A n \in 1 .. N : b[n] = b[n - 1] \cup Around(entries, way, b[n - 1])
    <2>1. \A n \in 1 .. N : n \in 0 .. N /\ n # 0
      BY <1>1
    <2>. QED  BY <1>13, <2>1
  <1>22. \A n \in 0 .. N : b[n] \subseteq Iris /\ b[n] \subseteq b[N]
    BY <1>7, <1>17, <1>18
  <1>23. Around(entries, way, b[N]) \subseteq b[N]
    BY <1>17, <1>18, <1>19
  <1>. QED  BY <1>1, <1>12, <1>20, <1>21, <1>22, <1>23 DEF N

Reach(entries, way, root) == Whole(Ball(entries, way, root))
Far(entries, way, root) ==
    [i \in Reach(entries, way, root) |-> Dist(Ball(entries, way, root), i)]
Near(entries, way, root) == [i \in Reach(entries, way, root) |-> Steps(entries, way, i)]

LEMMA ReachIsWeb ==
    ASSUME NEW entries \in Seq(Entry), NEW way \in Ways, NEW root \in Iris
    PROVE  /\ IsWeb(root, Reach(entries, way, root), Far(entries, way, root),
                    Near(entries, way, root))
           /\ Reach(entries, way, root) \subseteq Iris
           /\ \A i \in Reach(entries, way, root) :
                 Far(entries, way, root)[i] \in 0 .. Cardinality(Iris)
  <1>. DEFINE N == Cardinality(Iris)
              b == Ball(entries, way, root)
              all == Reach(entries, way, root)
              dist == Far(entries, way, root)
              at(i) == {n \in DOMAIN b : i \in b[n]}
  <1>1. /\ N \in Nat /\ DOMAIN b = 0 .. N /\ b[0] = {root}
        /\ \A n \in 1 .. N : b[n] = b[n - 1] \cup Around(entries, way, b[n - 1])
        /\ \A n \in 0 .. N : b[n] \subseteq Iris /\ b[n] \subseteq b[N]
        /\ Around(entries, way, b[N]) \subseteq b[N]
    BY BallIs
  <1>2. all = b[N] /\ \A i \in all : dist[i] = Min(at(i))
    BY DEF Reach, Whole, Far, Dist
  <1>. HIDE DEF b, N, all, dist
  <1>3. N \in 0 .. N /\ 0 \in 0 .. N
    BY <1>1
  <1>4. \A i \in all : dist[i] \in at(i) /\ \A n \in at(i) : dist[i] <= n
    <2>. SUFFICES ASSUME NEW i \in all
                  PROVE  Min(at(i)) \in at(i) /\ \A n \in at(i) : Min(at(i)) <= n
      BY <1>2
    <2>1. N \in at(i) /\ at(i) \subseteq Nat
      BY <1>1, <1>2, <1>3
    <2>. HIDE DEF at
    <2>. QED  BY <2>1, MinOfSome
  <1>5. \A i \in all : dist[i] \in 0 .. N /\ i \in b[dist[i]]
    BY <1>1, <1>4
  <1>6. \A i \in all, n \in 0 .. N : i \in b[n] => dist[i] <= n
    BY <1>1, <1>4
  <1>. HIDE DEF at
  <1>7. root \in all /\ \A i \in all : dist[i] \in Nat /\ (dist[i] = 0 <=> i = root)
    <2>1. root \in all
      BY <1>1, <1>2, <1>3
    <2>2. dist[root] = 0
      BY <1>1, <1>3, <1>5, <1>6, <2>1
    <2>3. \A i \in all : dist[i] = 0 => i = root
      BY <1>1, <1>5
    <2>. QED  BY <1>1, <1>5, <2>1, <2>2, <2>3
  <1>8. ASSUME NEW i \in all, NEW t \in Steps(entries, way, i)
        PROVE  t \in all /\ dist[t] <= dist[i] + 1
    <2>1. t \in Around(entries, way, b[N]) /\ t \in Around(entries, way, b[dist[i]])
      BY <1>2, <1>5 DEF Around
    <2>2. t \in all
      BY <1>1, <1>2, <2>1
    <2>3. CASE dist[i] < N
      <3>. DEFINE h == dist[i] + 1
      <3>1. h \in 1 .. N /\ h \in 0 .. N /\ h - 1 = dist[i]
        BY <1>1, <1>5, <2>3
      <3>. HIDE DEF h
      <3>2. b[h] = b[h - 1] \cup Around(entries, way, b[h - 1])
        BY <1>1, <3>1
      <3>3. t \in b[h]
        BY <2>1, <3>1, <3>2
      <3>. QED  BY <1>6, <2>2, <3>1, <3>3 DEF h
    <2>4. CASE ~(dist[i] < N)
      BY <1>1, <1>5, <2>2, <2>4
    <2>. QED  BY <2>2, <2>3, <2>4
  <1>9. ASSUME NEW t \in all, t # root
        PROVE  \E i \in all : dist[i] + 1 = dist[t] /\ t \in Steps(entries, way, i)
    <2>. DEFINE m == dist[t]
    <2>1. m \in 1 .. N /\ m - 1 \in 0 .. N /\ t \in b[m]
      BY <1>1, <1>5, <1>7, <1>9
    <2>2. t \notin b[m - 1]
      BY <1>1, <1>6, <2>1
    <2>3. t \in Around(entries, way, b[m - 1])
      <3>. HIDE DEF m
      <3>. QED  BY <1>1, <2>1, <2>2
    <2>4. PICK i \in b[m - 1] : t \in Steps(entries, way, i)
      BY <2>3 DEF Around
    <2>5. i \in all
      <3>. HIDE DEF m
      <3>. QED  BY <1>1, <1>2, <2>1
    <2>6. dist[i] <= m - 1 /\ m <= dist[i] + 1
      BY <1>6, <1>8, <2>1, <2>4, <2>5
    <2>7. dist[i] \in Nat /\ m \in Nat
      BY <1>7, <2>5
    <2>. QED  BY <2>4, <2>5, <2>6, <2>7
  <1>10. \A i \in all : Near(entries, way, root)[i] = Steps(entries, way, i)
    BY DEF Near, all
  <1>11. IsWeb(root, all, dist, Near(entries, way, root))
    BY <1>7, <1>8, <1>9, <1>10 DEF IsWeb
  <1>. QED  BY <1>1, <1>2, <1>3, <1>5, <1>11 DEF N, all, dist

-----------------------------------------------------------------------------
(* The derivation: what following the edges of one shard does to a walk.       *)

Listed(s) == {s[n] : n \in DOMAIN s}
Distinct(s) == \A m, n \in DOMAIN s : s[m] = s[n] => m = n

LEMMA AppendLists ==
    ASSUME NEW S, NEW s \in Seq(S), NEW x \in S
    PROVE  /\ Append(s, x) \in Seq(S)
           /\ Listed(Append(s, x)) = Listed(s) \cup {x}
           /\ Distinct(s) /\ x \notin Listed(s) => Distinct(Append(s, x))
  <1>. DEFINE a == Append(s, x)
  <1>1. /\ a \in Seq(S) /\ Len(s) \in Nat /\ DOMAIN s = 1 .. Len(s) /\ DOMAIN a = 1 .. Len(s) + 1
        /\ a[Len(s) + 1] = x /\ \A m \in 1 .. Len(s) : a[m] = s[m]
    OBVIOUS
  <1>2. 1 .. Len(s) + 1 = 1 .. Len(s) \cup {Len(s) + 1} /\ Len(s) + 1 \notin 1 .. Len(s)
    BY <1>1
  <1>. HIDE DEF a
  <1>3. DOMAIN a = DOMAIN s \cup {Len(s) + 1} /\ \A m \in DOMAIN s : a[m] = s[m]
    BY <1>1, <1>2
  <1>4. Listed(a) = Listed(s) \cup {x}
    BY <1>1, <1>3 DEF Listed
  <1>5. ASSUME Distinct(s), x \notin Listed(s) PROVE Distinct(a)
    <2>. SUFFICES ASSUME NEW m \in DOMAIN a, NEW n \in DOMAIN a, a[m] = a[n] PROVE m = n
      BY DEF Distinct
    <2>1. \A k \in DOMAIN s : a[k] # x
      BY <1>3, <1>5 DEF Listed
    <2>. QED  BY <1>1, <1>3, <1>5, <2>1 DEF Distinct
  <1>. QED  BY <1>1, <1>4, <1>5 DEF a

IsWalk(w) ==
    /\ w = [parent |-> w.parent, next |-> w.next, kernels |-> w.kernels, cut |-> w.cut,
            lent |-> w.lent, refused |-> w.refused]
    /\ w.next \in Seq(Iris) /\ w.cut \in BOOLEAN
    /\ w.parent = [i \in DOMAIN w.parent |-> w.parent[i]]

FollowsTo(w, r, node, ts, atLimit) ==
    /\ IsWalk(r) /\ r.kernels = w.kernels /\ r.lent = w.lent /\ r.refused = w.refused
    /\ atLimit => /\ r.parent = w.parent /\ r.next = w.next
                  /\ r.cut <=> (w.cut \/ ~(ts \subseteq DOMAIN w.parent))
    /\ ~atLimit => /\ r.cut = w.cut /\ DOMAIN r.parent = DOMAIN w.parent \cup ts
                   /\ \A i \in DOMAIN w.parent : r.parent[i] = w.parent[i]
                   /\ \A i \in ts \ DOMAIN w.parent : r.parent[i] = node
                   /\ Listed(r.next) = Listed(w.next) \cup (ts \ DOMAIN w.parent)
                   /\ Distinct(w.next) /\ Listed(w.next) \subseteq DOMAIN w.parent =>
                         Distinct(r.next)

LEMMA FollowsNone ==
    ASSUME NEW w, IsWalk(w), NEW node, NEW atLimit
    PROVE  FollowsTo(w, w, node, {}, atLimit)
  BY DEF FollowsTo

LEMMA FollowsOne ==
    ASSUME NEW w, NEW p, NEW node, NEW ts, NEW atLimit \in BOOLEAN,
           FollowsTo(w, p, node, ts, atLimit), NEW t \in Iris
    PROVE  FollowsTo(w, Follow(p, node, t, atLimit), node, ts \cup {t}, atLimit)
  <1>. DEFINE r == Follow(p, node, t, atLimit)
  <1>1. IsWalk(p) /\ p.kernels = w.kernels /\ p.lent = w.lent /\ p.refused = w.refused
    BY DEF FollowsTo
  <1>2. CASE t \in DOMAIN p.parent
    <2>1. r = p
      BY <1>2 DEF Follow
    <2>2. CASE atLimit
      <3>1. p.parent = w.parent /\ t \in DOMAIN w.parent
        BY <1>2, <2>2 DEF FollowsTo
      <3>. QED  BY <2>1, <2>2, <3>1 DEF FollowsTo
    <2>3. CASE ~atLimit
      <3>1. DOMAIN p.parent = DOMAIN w.parent \cup ts
        BY <2>3 DEF FollowsTo
      <3>2. /\ (ts \cup {t}) \ DOMAIN w.parent = ts \ DOMAIN w.parent
            /\ DOMAIN w.parent \cup (ts \cup {t}) = DOMAIN w.parent \cup ts
        BY <1>2, <3>1
      <3>. QED  BY <2>1, <2>3, <3>2 DEF FollowsTo
    <2>. QED  BY <2>2, <2>3
  <1>3. CASE t \notin DOMAIN p.parent /\ atLimit
    <2>1. r = [p EXCEPT !.cut = TRUE]
      BY <1>3 DEF Follow
    <2>2. /\ IsWalk(r) /\ r.parent = p.parent /\ r.next = p.next /\ r.kernels = p.kernels
          /\ r.cut = TRUE /\ r.lent = p.lent /\ r.refused = p.refused
      BY <1>1, <2>1 DEF IsWalk
    <2>3. p.parent = w.parent /\ p.next = w.next
      BY <1>3 DEF FollowsTo
    <2>. HIDE DEF r
    <2>. QED  BY <1>1, <1>3, <2>2, <2>3 DEF FollowsTo, r
  <1>4. CASE t \notin DOMAIN p.parent /\ ~atLimit
    <2>. DEFINE grown == [i \in DOMAIN p.parent \cup {t} |-> IF i = t THEN node ELSE p.parent[i]]
    <2>1. r = [p EXCEPT !.parent = grown, !.next = Append(p.next, t)]
      BY <1>4 DEF Follow
    <2>2. /\ Append(p.next, t) \in Seq(Iris) /\ Listed(Append(p.next, t)) = Listed(p.next) \cup {t}
          /\ Distinct(p.next) /\ t \notin Listed(p.next) => Distinct(Append(p.next, t))
      BY <1>1, AppendLists DEF IsWalk
    <2>3. /\ DOMAIN grown = DOMAIN p.parent \cup {t} /\ grown = [i \in DOMAIN grown |-> grown[i]]
          /\ grown[t] = node /\ \A i \in DOMAIN p.parent : grown[i] = p.parent[i]
      BY <1>4
    <2>. HIDE DEF grown
    <2>4. /\ IsWalk(r) /\ r.parent = grown /\ r.next = Append(p.next, t) /\ r.kernels = p.kernels
          /\ r.cut = p.cut /\ r.lent = p.lent /\ r.refused = p.refused
      BY <1>1, <2>1, <2>2, <2>3 DEF IsWalk
    <2>. HIDE DEF r
    <2>5. /\ p.cut = w.cut /\ DOMAIN p.parent = DOMAIN w.parent \cup ts
          /\ \A i \in DOMAIN w.parent : p.parent[i] = w.parent[i]
          /\ \A i \in ts \ DOMAIN w.parent : p.parent[i] = node
          /\ Listed(p.next) = Listed(w.next) \cup (ts \ DOMAIN w.parent)
      BY <1>4 DEF FollowsTo
    <2>6. ASSUME Distinct(w.next), Listed(w.next) \subseteq DOMAIN w.parent
          PROVE  Distinct(r.next)
      <3>1. Distinct(p.next)
        BY <1>4, <2>6 DEF FollowsTo
      <3>2. t \notin Listed(p.next)
        BY <1>4, <2>5, <2>6
      <3>. QED  BY <2>2, <2>4, <3>1, <3>2
    <2>7. /\ DOMAIN r.parent = DOMAIN w.parent \cup (ts \cup {t})
          /\ \A i \in DOMAIN w.parent : r.parent[i] = w.parent[i]
          /\ \A i \in (ts \cup {t}) \ DOMAIN w.parent : r.parent[i] = node
      BY <1>4, <2>3, <2>4, <2>5
    <2>8. Listed(r.next) = Listed(w.next) \cup ((ts \cup {t}) \ DOMAIN w.parent)
      BY <1>4, <2>2, <2>4, <2>5
    <2>. QED  BY <1>1, <1>4, <2>4, <2>5, <2>6, <2>7, <2>8 DEF FollowsTo, r
  <1>. QED  BY <1>2, <1>3, <1>4

Followed(w, node, edges, atLimit) ==
    LET after[n \in 0 .. Len(edges)] ==
            IF n = 0 THEN w ELSE Follow(after[n - 1], node, edges[n][2], atLimit)
    IN  after[Len(edges)]

FollowedUpTo(w, node, edges, atLimit, n, p) ==
    p = [i \in 0 .. n |-> IF i = 0 THEN w ELSE Follow(p[i - 1], node, edges[i][2], atLimit)]

LEMMA FollowedExists ==
    ASSUME NEW w, NEW node, NEW edges, NEW atLimit
    PROVE  \A n \in Nat : \E p : FollowedUpTo(w, node, edges, atLimit, n, p)
  <1>. DEFINE Good == {n \in Nat : \E p : FollowedUpTo(w, node, edges, atLimit, n, p)}
  <1>1. 0 \in Good
    <2>1. PICK p : p = [i \in 0 .. 0 |-> w]
      OBVIOUS
    <2>2. FollowedUpTo(w, node, edges, atLimit, 0, p)
      BY <2>1 DEF FollowedUpTo
    <2>. QED  BY <2>2
  <1>2. ASSUME NEW m \in Nat \ {0}, m - 1 \in Good PROVE m \in Good
    <2>1. PICK p : FollowedUpTo(w, node, edges, atLimit, m - 1, p)
      BY <1>2
    <2>2. PICK q : q = [i \in 0 .. m |->
                           IF i = 0 THEN w ELSE Follow(p[i - 1], node, edges[i][2], atLimit)]
      OBVIOUS
    <2>3. \A i \in 0 .. m - 1 : q[i] = p[i]
      <3>1. \A i \in 0 .. m - 1 : i \in 0 .. m
        OBVIOUS
      <3>. QED  BY <2>1, <2>2, <3>1 DEF FollowedUpTo
    <2>4. \A i \in 1 .. m : q[i - 1] = p[i - 1]
      BY <2>3
    <2>5. FollowedUpTo(w, node, edges, atLimit, m, q)
      <3>1. \A i \in 0 .. m : i # 0 => i \in 1 .. m
        OBVIOUS
      <3>. HIDE DEF Good
      <3>2. [i \in 0 .. m |-> IF i = 0 THEN w ELSE Follow(p[i - 1], node, edges[i][2], atLimit)]
               = [i \in 0 .. m |-> IF i = 0 THEN w
                                  ELSE Follow(q[i - 1], node, edges[i][2], atLimit)]
        BY <2>4, <3>1
      <3>. QED  BY <2>2, <3>2 DEF FollowedUpTo
    <2>. QED  BY <2>5
  <1>. HIDE DEF Good
  <1>3. \A n \in Nat : n \in Good
    BY <1>1, <1>2, AllNumbers
  <1>. QED  BY <1>3 DEF Good

Targets(edges) == {edges[n][2] : n \in DOMAIN edges}

LEMMA FollowedTo ==
    ASSUME NEW w, IsWalk(w), NEW node, NEW edges \in Seq(STRING \X Iris), NEW atLimit \in BOOLEAN
    PROVE  FollowsTo(w, Followed(w, node, edges, atLimit), node, Targets(edges), atLimit)
  <1>. DEFINE N == Len(edges)
              ts(i) == {edges[n][2] : n \in 1 .. i}
  <1>1. N \in Nat /\ DOMAIN edges = 1 .. N /\ \A i \in 1 .. N : edges[i][2] \in Iris
    OBVIOUS
  <1>2. PICK p : /\ FollowedUpTo(w, node, edges, atLimit, N, p)
                 /\ Followed(w, node, edges, atLimit) = p[N]
    <2>1. \E p : FollowedUpTo(w, node, edges, atLimit, N, p)
      BY <1>1, FollowedExists
    <2>. QED  BY <2>1 DEF Followed, FollowedUpTo
  <1>3. \A i \in 0 .. N :
            p[i] = IF i = 0 THEN w ELSE Follow(p[i - 1], node, edges[i][2], atLimit)
    BY <1>2 DEF FollowedUpTo
  <1>. DEFINE Good == {i \in Nat : FollowsTo(w, p[i], node, ts(i), atLimit)}
  <1>4. 0 \in Good
    <2>1. p[0] = w
      <3>1. 0 \in 0 .. N
        BY <1>1
      <3>. HIDE DEF Good, N
      <3>. QED  BY <1>3, <3>1
    <2>2. ts(0) = {}
      OBVIOUS
    <2>. HIDE DEF ts
    <2>. QED  BY <2>1, <2>2, FollowsNone
  <1>5. ASSUME NEW i \in 1 .. N, i - 1 \in Good PROVE i \in Good
    <2>1. i \in 0 .. N /\ i # 0 /\ i \in Nat /\ 1 .. i = 1 .. i - 1 \cup {i}
      OBVIOUS
    <2>2. ts(i) = ts(i - 1) \cup {edges[i][2]}
      BY <2>1
    <2>3. p[i] = Follow(p[i - 1], node, edges[i][2], atLimit)
      <3>. HIDE DEF Good, N
      <3>. QED  BY <1>3, <2>1
    <2>4. FollowsTo(w, p[i - 1], node, ts(i - 1), atLimit)
      BY <1>5
    <2>5. edges[i][2] \in Iris
      BY <1>1
    <2>. HIDE DEF ts
    <2>6. FollowsTo(w, p[i], node, ts(i - 1) \cup {edges[i][2]}, atLimit)
      <3>. HIDE DEF Good, N
      <3>. QED  BY <2>3, <2>4, <2>5, FollowsOne
    <2>. QED  BY <2>1, <2>2, <2>6
  <1>6. N \in 0 .. N
    BY <1>1
  <1>7. N \in Good
    <2>. HIDE DEF Good
    <2>. QED  BY <1>1, <1>4, <1>5, <1>6, NumbersUpTo
  <1>8. ts(N) = Targets(edges)
    BY <1>1 DEF Targets
  <1>. QED  BY <1>2, <1>7, <1>8

-----------------------------------------------------------------------------
(* The derivation: what visiting the shards of one distance does to a walk.    *)

\* What is closed under the steps of everything nearer holds everything up to a distance.
LEMMA LevelsFilled ==
    ASSUME NEW root, NEW all, NEW dist, NEW next, IsWeb(root, all, dist, next),
           NEW P, root \in P, NEW h \in Nat,
           \A i \in all : i \in P /\ dist[i] < h => next[i] \subseteq P
    PROVE  \A i \in all : dist[i] <= h => i \in P
  <1>. DEFINE Good == {n \in Nat : \A i \in all : dist[i] <= n => i \in P}
  <1>1. \A i \in all : dist[i] \in Nat /\ (dist[i] = 0 <=> i = root)
    BY DEF IsWeb
  <1>2. 0 \in Good
    BY <1>1
  <1>3. ASSUME NEW n \in 1 .. h, n - 1 \in Good PROVE n \in Good
    <2>. SUFFICES ASSUME NEW t \in all, dist[t] <= n PROVE t \in P
      OBVIOUS
    <2>1. CASE dist[t] <= n - 1
      BY <1>3, <2>1
    <2>2. CASE ~(dist[t] <= n - 1)
      <3>1. dist[t] = n /\ t # root
        BY <1>1, <2>2
      <3>2. PICK i \in all : dist[i] + 1 = dist[t] /\ t \in next[i]
        BY <3>1 DEF IsWeb
      <3>3. dist[i] = n - 1 /\ dist[i] < h
        BY <1>1, <3>1, <3>2
      <3>4. i \in P
        BY <1>3, <3>3
      <3>. QED  BY <3>2, <3>3, <3>4
    <2>. QED  BY <2>1, <2>2
  <1>4. h \in 0 .. h
    OBVIOUS
  <1>5. h \in Good
    <2>. HIDE DEF Good
    <2>. QED  BY <1>2, <1>3, <1>4, NumbersUpTo
  <1>. QED  BY <1>5

UpReach(entries, root) == Reach(entries, "upstream", root)
UpFar(entries, root) == Far(entries, "upstream", root)
UpNext(entries, i) == Steps(entries, "upstream", i)

IsTree(entries, root, w) ==
    LET P == DOMAIN w.parent
        D == UpFar(entries, root)
    IN  /\ IsWalk(w) /\ root \in P /\ P \subseteq UpReach(entries, root)
        /\ \A i \in P \ {root} : w.parent[i] \in P /\ D[w.parent[i]] + 1 = D[i]

\* The walk has gone as far as h, and has visited these shards.
VisitInv(entries, root, nodeCap, maxDepth, h, V, w) ==
    LET P == DOMAIN w.parent
        D == UpFar(entries, root)
    IN  /\ IsTree(entries, root, w)
        /\ \A i \in P : D[i] <= h + 1
        /\ Listed(w.next) = {i \in P : D[i] = h + 1} /\ Distinct(w.next)
        /\ V \subseteq P /\ \A i \in V : D[i] <= h
        /\ \A i \in P : D[i] < h => i \in V
        /\ w.kernels = V \cap Kernel
        /\ w.lent \subseteq V
        /\ w.refused # {} => Cardinality(w.lent) >= nodeCap
        /\ w.refused = {} /\ ~w.cut => \A i \in V : UpNext(entries, i) \subseteq P
        /\ w.cut => h >= maxDepth
        /\ h >= maxDepth => w.next = <<>>

LEMMA NoOutEdges ==
    ASSUME NEW entries, NEW i, i \notin EntryIris(entries)
    PROVE  UpNext(entries, i) = {}
  <1>1. {n \in DOMAIN entries : entries[n].iri = i} = {}
    BY DEF EntryIris
  <1>2. OutEdges(entries, i) = <<>>
    BY <1>1 DEF OutEdges
  <1>. QED  BY <1>2, UpstreamSteps DEF UpNext

LEMMA UpWeb ==
    ASSUME NEW entries \in Seq(Entry), NEW root \in Iris
    PROVE  /\ root \in UpReach(entries, root) /\ UpReach(entries, root) \subseteq Iris
           /\ \A i \in UpReach(entries, root) :
                 /\ UpFar(entries, root)[i] \in 0 .. Cardinality(Iris)
                 /\ UpFar(entries, root)[i] = 0 <=> i = root
                 /\ \A t \in UpNext(entries, i) :
                       t \in UpReach(entries, root)
                          /\ UpFar(entries, root)[t] <= UpFar(entries, root)[i] + 1
           /\ IsWeb(root, UpReach(entries, root), UpFar(entries, root),
                    [i \in UpReach(entries, root) |-> UpNext(entries, i)])
  <1>. DEFINE B == Reach(entries, "upstream", root)
              D == Far(entries, "upstream", root)
              S == Near(entries, "upstream", root)
  <1>1. IsWeb(root, B, D, S) /\ B \subseteq Iris /\ \A i \in B : D[i] \in 0 .. Cardinality(Iris)
    BY ReachIsWeb DEF Ways
  <1>2. S = [i \in B |-> Steps(entries, "upstream", i)]
    BY DEF Near
  <1>. HIDE DEF B, D, S
  <1>3. \A i \in B : S[i] = Steps(entries, "upstream", i)
    BY <1>2
  <1>4. root \in B /\ \A i \in B : D[i] = 0 <=> i = root
    BY <1>1 DEF IsWeb
  <1>5. \A i \in B : \A t \in Steps(entries, "upstream", i) : t \in B /\ D[t] <= D[i] + 1
    BY <1>1, <1>3 DEF IsWeb
  <1>. QED  BY <1>1, <1>2, <1>4, <1>5 DEF B, D, UpReach, UpFar, UpNext

LEMMA FollowedNone ==
    ASSUME NEW w, NEW node, NEW atLimit
    PROVE  Followed(w, node, <<>>, atLimit) = w
  <1>. DEFINE edges == <<>>
  <1>1. Len(edges) = 0
    OBVIOUS
  <1>. HIDE DEF edges
  <1>2. \E p : FollowedUpTo(w, node, edges, atLimit, 0, p)
    BY FollowedExists
  <1>3. PICK p : /\ FollowedUpTo(w, node, edges, atLimit, 0, p)
                 /\ Followed(w, node, edges, atLimit) = p[0]
    BY <1>1, <1>2 DEF Followed, FollowedUpTo
  <1>4. 0 \in 0 .. 0
    OBVIOUS
  <1>5. p[0] = w
    BY <1>3, <1>4 DEF FollowedUpTo
  <1>. QED  BY <1>3, <1>5 DEF edges

LEMMA VisitAlone ==
    ASSUME NEW entries, NEW root, NEW nodeCap, NEW maxDepth, NEW h \in Nat, NEW V, NEW w,
           VisitInv(entries, root, nodeCap, maxDepth, h, V, w),
           NEW node \in DOMAIN w.parent, UpFar(entries, root)[node] = h,
           NEW r, IsWalk(r), r.parent = w.parent, r.next = w.next, r.cut = w.cut,
           r.lent = w.lent, r.kernels = (V \cup {node}) \cap Kernel,
           r.refused = {} => w.refused = {} /\ UpNext(entries, node) = {},
           r.refused # {} => Cardinality(w.lent) >= nodeCap
    PROVE  VisitInv(entries, root, nodeCap, maxDepth, h, V \cup {node}, r)
  <1>1. IsTree(entries, root, r)
    BY DEF VisitInv, IsTree
  <1>2. r.refused = {} /\ ~r.cut =>
            \A i \in V \cup {node} : UpNext(entries, i) \subseteq DOMAIN r.parent
    BY DEF VisitInv
  <1>3. V \cup {node} \subseteq DOMAIN r.parent /\ \A i \in V \cup {node} : UpFar(entries, root)[i] <= h
    BY DEF VisitInv
  <1>4. r.lent \subseteq V \cup {node}
    BY DEF VisitInv
  <1>. QED  BY <1>1, <1>2, <1>3, <1>4 DEF VisitInv

LEMMA VisitIs ==
    ASSUME NEW w, NEW entries, NEW node, NEW atLimit, NEW nodeCap, node \notin Kernel
    PROVE  LET lent == Lend(w, entries, node, nodeCap)
           IN  Visit(w, entries, node, atLimit, nodeCap)
                  = Followed(lent, node,
                             IF node \in lent.lent THEN OutEdges(entries, node) ELSE <<>>, atLimit)
  BY DEF Visit, Followed

\* A shard of the walk's last level that is still to be visited.
Visitable(entries, root, nodeCap, maxDepth, h, V, w, node) ==
    /\ entries \in Seq(Entry) /\ root \in Iris /\ nodeCap \in Nat /\ maxDepth \in Nat /\ h \in Nat
    /\ VisitInv(entries, root, nodeCap, maxDepth, h, V, w)
    /\ node \in DOMAIN w.parent /\ UpFar(entries, root)[node] = h /\ node \notin V

LentTo(w, node, w1) ==
    /\ w.refused = {} /\ w1.parent = w.parent /\ w1.next = w.next /\ w1.kernels = w.kernels
    /\ w1.cut = w.cut /\ w1.lent = w.lent \cup {node} /\ w1.refused = {}

Visited(entries, root, nodeCap, maxDepth, h, V, w, node, r) ==
    /\ VisitInv(entries, root, nodeCap, maxDepth, h, V \cup {node}, r)
    /\ DOMAIN w.parent \subseteq DOMAIN r.parent
    /\ \A i \in DOMAIN r.parent \ DOMAIN w.parent : UpFar(entries, root)[i] = h + 1

LEMMA VisitLent ==
    ASSUME NEW entries, NEW root, NEW nodeCap, NEW maxDepth, NEW h, NEW V, NEW w, NEW node,
           Visitable(entries, root, nodeCap, maxDepth, h, V, w, node), node \notin Kernel,
           NEW w1, LentTo(w, node, w1),
           NEW atLimit, atLimit = (h >= maxDepth),
           NEW r, FollowsTo(w1, r, node, UpNext(entries, node), atLimit)
    PROVE  Visited(entries, root, nodeCap, maxDepth, h, V, w, node, r)
  <1>. DEFINE D == UpFar(entries, root)
              B == UpReach(entries, root)
              P == DOMAIN w.parent
              ts == UpNext(entries, node)
              all == V \cup {node}
  <1>0. /\ entries \in Seq(Entry) /\ root \in Iris /\ nodeCap \in Nat /\ maxDepth \in Nat
        /\ h \in Nat /\ VisitInv(entries, root, nodeCap, maxDepth, h, V, w)
        /\ node \in DOMAIN w.parent /\ UpFar(entries, root)[node] = h
    BY DEF Visitable
  <1>1. /\ IsWalk(w) /\ root \in P /\ P \subseteq B
        /\ \A i \in P \ {root} : w.parent[i] \in P /\ D[w.parent[i]] + 1 = D[i]
    BY <1>0 DEF VisitInv, IsTree
  <1>2. /\ \A i \in P : D[i] <= h + 1
        /\ Listed(w.next) = {i \in P : D[i] = h + 1} /\ Distinct(w.next)
        /\ V \subseteq P /\ \A i \in V : D[i] <= h
        /\ \A i \in P : D[i] < h => i \in V
        /\ w.kernels = V \cap Kernel /\ w.lent \subseteq V
        /\ ~w.cut => \A i \in V : UpNext(entries, i) \subseteq P
        /\ w.cut => h >= maxDepth
        /\ h >= maxDepth => w.next = <<>>
    BY <1>0 DEF VisitInv, LentTo
  <1>3. /\ w1.parent = w.parent /\ w1.next = w.next /\ w1.kernels = w.kernels
        /\ w1.cut = w.cut /\ w1.lent = w.lent \cup {node} /\ w1.refused = {}
    BY DEF LentTo
  <1>4. node \in B /\ D[node] = h /\ \A t \in ts : t \in B /\ D[t] <= h + 1
    BY <1>0, <1>1, UpWeb
  <1>5. \A i \in B : D[i] \in Nat
    <2>1. Cardinality(Iris) \in Nat
      BY SnapshotAssumption, FS_CardinalityType
    <2>2. \A i \in B : D[i] \in 0 .. Cardinality(Iris)
      BY <1>0, UpWeb
    <2>. HIDE DEF B, D
    <2>. QED  BY <2>1, <2>2
  <1>6. FollowsTo(w1, r, node, ts, atLimit)
    OBVIOUS
  <1>7. IsWalk(r) /\ r.kernels = all \cap Kernel /\ r.lent \subseteq all /\ r.refused = {}
    <2>. HIDE DEF ts, P, D, B
    <2>1. IsWalk(r) /\ r.kernels = w.kernels /\ r.lent = w.lent \cup {node} /\ r.refused = {}
      BY <1>3, <1>6 DEF FollowsTo
    <2>. QED  BY <1>2, <2>1
  <1>8. \A i \in all : i \in P /\ D[i] <= h
    <2>1. \A i \in V : i \in P /\ D[i] <= h
      BY <1>2
    <2>. QED  BY <1>0, <2>1
  <1>. HIDE DEF D, B, P, ts
  <1>9. CASE h >= maxDepth
    <2>1. r.parent = w.parent /\ r.next = w.next /\ (r.cut <=> (w.cut \/ ~(ts \subseteq P)))
      BY <1>3, <1>6, <1>9 DEF FollowsTo, P
    <2>2. IsTree(entries, root, r)
      BY <1>1, <1>7, <2>1 DEF IsTree, P, D, B
    <2>3. ~r.cut => \A i \in all : UpNext(entries, i) \subseteq P
      BY <1>2, <2>1 DEF ts
    <2>4. VisitInv(entries, root, nodeCap, maxDepth, h, all, r)
      <3>. HIDE DEF all
      <3>1. \A i \in P : D[i] < h => i \in all
        BY <1>2 DEF all
      <3>. QED  BY <1>2, <1>7, <1>8, <1>9, <2>1, <2>2, <2>3, <3>1 DEF VisitInv, P, D
    <2>. QED  BY <2>1, <2>4 DEF D, P, Visited
  <1>10. CASE ~(h >= maxDepth)
    <2>. DEFINE Q == DOMAIN r.parent
    <2>1. ~w.cut
      BY <1>2, <1>10
    <2>2. /\ r.cut = w.cut /\ Q = P \cup ts
          /\ \A i \in P : r.parent[i] = w.parent[i]
          /\ \A i \in ts \ P : r.parent[i] = node
          /\ Listed(r.next) = Listed(w.next) \cup (ts \ P)
      BY <1>3, <1>6, <1>10 DEF FollowsTo, P
    <2>3. Listed(w.next) \subseteq P
      BY <1>2
    <2>4. Distinct(r.next)
      BY <1>2, <1>3, <1>6, <1>10, <2>3 DEF FollowsTo, P
    <2>5. \A i \in B : D[i] <= h => i \in P
      <3>. DEFINE S == [i \in B |-> UpNext(entries, i)]
      <3>1. IsWeb(root, B, D, S)
        BY <1>0, UpWeb DEF B, D
      <3>2. \A i \in B : i \in P /\ D[i] < h => S[i] \subseteq P
        BY <1>2, <2>1
      <3>. HIDE DEF S
      <3>. QED  BY <1>0, <1>1, <3>1, <3>2, LevelsFilled
    <2>6. \A i \in ts \ P : i \in B /\ D[i] = h + 1
      <3>. SUFFICES ASSUME NEW i \in ts \ P PROVE i \in B /\ D[i] = h + 1
        OBVIOUS
      <3>1. i \in B /\ D[i] <= h + 1 /\ ~(D[i] <= h) /\ D[i] \in Nat
        BY <1>0, <1>4, <1>5, <2>5
      <3>. QED  BY <1>0, <3>1
    <2>. HIDE DEF Q
    <2>7. IsTree(entries, root, r)
      <3>1. root \in Q /\ Q \subseteq B
        BY <1>1, <2>2, <2>6
      <3>2. ASSUME NEW i \in Q \ {root} PROVE r.parent[i] \in Q /\ D[r.parent[i]] + 1 = D[i]
        <4>1. CASE i \in P
          BY <1>1, <2>2, <4>1
        <4>2. CASE i \notin P
          <5>1. i \in ts \ P
            BY <2>2, <4>2
          <5>2. r.parent[i] = node /\ D[i] = h + 1 /\ node \in P
            BY <1>0, <2>2, <2>6, <5>1 DEF P
          <5>. QED  BY <1>4, <2>2, <5>2
        <4>. QED  BY <4>1, <4>2
      <3>. QED  BY <1>7, <3>1, <3>2 DEF IsTree, Q, D, B
    <2>8. Listed(r.next) = {i \in Q : D[i] = h + 1}
      BY <1>0, <1>2, <2>2, <2>6
    <2>9. \A i \in Q : D[i] <= h + 1
      BY <1>0, <1>2, <2>2, <2>6
    <2>10. \A i \in Q : D[i] < h => i \in all
      <3>1. \A i \in ts \ P : ~(D[i] < h)
        BY <1>0, <2>6
      <3>. QED  BY <1>2, <2>2, <3>1
    <2>11. all \subseteq Q /\ \A i \in all : D[i] <= h /\ UpNext(entries, i) \subseteq Q
      <3>1. \A i \in V : UpNext(entries, i) \subseteq P
        BY <1>2, <2>1
      <3>. QED  BY <1>8, <2>2, <3>1 DEF ts
    <2>12. VisitInv(entries, root, nodeCap, maxDepth, h, all, r)
      <3>. HIDE DEF all
      <3>. QED  BY <1>7, <1>10, <2>1, <2>2, <2>4, <2>7, <2>8, <2>9, <2>10, <2>11 DEF VisitInv, Q, D
    <2>. QED  BY <2>2, <2>6, <2>12 DEF Q, P, D, Visited
  <1>. QED  BY <1>9, <1>10

LEMMA VisitKeeps ==
    ASSUME NEW entries, NEW root, NEW nodeCap, NEW maxDepth, NEW h, NEW V, NEW w, NEW node,
           Visitable(entries, root, nodeCap, maxDepth, h, V, w, node)
    PROVE  Visited(entries, root, nodeCap, maxDepth, h, V, w, node,
                   Visit(w, entries, node, h >= maxDepth, nodeCap))
  <1>. DEFINE r == Visit(w, entries, node, h >= maxDepth, nodeCap)
              atLimit == h >= maxDepth
              lent == Lend(w, entries, node, nodeCap)
  <1>0. /\ entries \in Seq(Entry) /\ root \in Iris /\ nodeCap \in Nat /\ maxDepth \in Nat
        /\ h \in Nat /\ VisitInv(entries, root, nodeCap, maxDepth, h, V, w)
        /\ node \in DOMAIN w.parent /\ UpFar(entries, root)[node] = h /\ node \notin V
    BY DEF Visitable
  <1>1. IsWalk(w) /\ node \notin w.lent /\ w.kernels = V \cap Kernel
        /\ (w.refused # {} => Cardinality(w.lent) >= nodeCap)
    BY <1>0 DEF VisitInv, IsTree
  <1>2. CASE node \in Kernel
    <2>1. r = [w EXCEPT !.kernels = w.kernels \cup {node}]
      BY <1>2 DEF Visit
    <2>. HIDE DEF r, Visited
    <2>2. /\ IsWalk(r) /\ r.parent = w.parent /\ r.next = w.next /\ r.cut = w.cut
          /\ r.lent = w.lent /\ r.kernels = (V \cup {node}) \cap Kernel /\ r.refused = w.refused
      BY <1>1, <1>2, <2>1 DEF IsWalk
    <2>3. UpNext(entries, node) = {}
      BY <1>2, UpstreamSteps DEF UpNext
    <2>4. VisitInv(entries, root, nodeCap, maxDepth, h, V \cup {node}, r)
      BY <1>0, <1>1, <2>2, <2>3, VisitAlone
    <2>. QED  BY <2>2, <2>4 DEF r, Visited
  <1>3. CASE node \notin Kernel
    <2>1. r = Followed(lent, node, IF node \in lent.lent THEN OutEdges(entries, node) ELSE <<>>,
                       atLimit)
      BY <1>3, VisitIs
    <2>2. EntryIris(entries) = {entries[n].iri : n \in DOMAIN entries}
      BY DEF EntryIris
    <2>. HIDE DEF r, atLimit
    <2>3. CASE node \notin EntryIris(entries)
      <3>1. lent = w
        BY <2>2, <2>3 DEF Lend
      <3>2. r = w
        BY <1>1, <2>1, <3>1, FollowedNone
      <3>3. UpNext(entries, node) = {} /\ w.kernels = (V \cup {node}) \cap Kernel
        BY <1>1, <1>3, <2>3, NoOutEdges
      <3>4. VisitInv(entries, root, nodeCap, maxDepth, h, V \cup {node}, r)
        BY <1>0, <1>1, <3>2, <3>3, VisitAlone
      <3>. QED  BY <3>2, <3>4 DEF r, Visited
    <2>4. CASE node \in EntryIris(entries) /\ Cardinality(w.lent) >= nodeCap
      <3>1. lent = [w EXCEPT !.refused = w.refused \cup {node}]
        BY <1>1, <2>2, <2>4 DEF Lend
      <3>. HIDE DEF lent
      <3>2. /\ IsWalk(lent) /\ lent.parent = w.parent /\ lent.next = w.next /\ lent.cut = w.cut
            /\ lent.lent = w.lent /\ lent.kernels = w.kernels
            /\ lent.refused = w.refused \cup {node}
        BY <1>1, <3>1 DEF IsWalk
      <3>3. r = lent
        BY <1>1, <2>1, <3>2, FollowedNone
      <3>4. lent.kernels = (V \cup {node}) \cap Kernel /\ lent.refused # {}
        BY <1>1, <1>3, <3>2
      <3>5. VisitInv(entries, root, nodeCap, maxDepth, h, V \cup {node}, r)
        BY <1>0, <2>4, <3>2, <3>3, <3>4, VisitAlone
      <3>. QED  BY <3>2, <3>3, <3>5 DEF r, Visited
    <2>5. CASE node \in EntryIris(entries) /\ ~(Cardinality(w.lent) >= nodeCap)
      <3>1. lent = [w EXCEPT !.lent = w.lent \cup {node}]
        BY <1>1, <2>2, <2>5 DEF Lend
      <3>2. w.refused = {}
        BY <1>1, <2>5
      <3>. HIDE DEF lent
      <3>3. /\ IsWalk(lent) /\ node \in lent.lent /\ lent.parent = w.parent /\ lent.next = w.next
            /\ lent.kernels = w.kernels /\ lent.cut = w.cut /\ lent.lent = w.lent \cup {node}
            /\ lent.refused = {}
        BY <1>1, <3>1, <3>2 DEF IsWalk
      <3>4. OutEdges(entries, node) \in Seq(STRING \X Iris) /\ atLimit \in BOOLEAN
        BY <1>0, OutEdgesIn DEF atLimit
      <3>5. r = Followed(lent, node, OutEdges(entries, node), atLimit)
        BY <2>1, <3>3
      <3>6. UpNext(entries, node) = Targets(OutEdges(entries, node))
        BY <1>3, UpstreamSteps DEF UpNext, Targets
      <3>7. FollowsTo(lent, r, node, UpNext(entries, node), atLimit)
        BY <3>3, <3>4, <3>5, <3>6, FollowedTo
      <3>8. atLimit = (h >= maxDepth)
        BY DEF atLimit
      <3>9. LentTo(w, node, lent)
        BY <3>2, <3>3 DEF LentTo
      <3>10. Visited(entries, root, nodeCap, maxDepth, h, V, w, node, r)
        BY <1>3, <3>7, <3>8, <3>9, VisitLent
      <3>. QED  BY <3>10 DEF r
    <2>. QED  BY <2>3, <2>4, <2>5
  <1>. QED  BY <1>2, <1>3

-----------------------------------------------------------------------------
(* The derivation: level by level.                                             *)

LevelUpTo(walk, entries, atLimit, nodeCap, n, p) ==
    p = [i \in 0 .. n |->
            IF i = 0 THEN [walk EXCEPT !.next = <<>>]
            ELSE Visit(p[i - 1], entries, walk.next[i], atLimit, nodeCap)]

LEMMA LevelExists ==
    ASSUME NEW walk, NEW entries, NEW atLimit, NEW nodeCap
    PROVE  \A n \in Nat : \E p : LevelUpTo(walk, entries, atLimit, nodeCap, n, p)
  <1>. DEFINE Good == {n \in Nat : \E p : LevelUpTo(walk, entries, atLimit, nodeCap, n, p)}
              w0 == [walk EXCEPT !.next = <<>>]
              step(v, i) == Visit(v, entries, walk.next[i], atLimit, nodeCap)
  <1>0. \A n, p : LevelUpTo(walk, entries, atLimit, nodeCap, n, p)
                     <=> p = [i \in 0 .. n |-> IF i = 0 THEN w0 ELSE step(p[i - 1], i)]
    BY DEF LevelUpTo
  <1>. HIDE DEF w0, step
  <1>1. 0 \in Good
    <2>1. PICK p : p = [i \in 0 .. 0 |-> w0]
      OBVIOUS
    <2>2. p = [i \in 0 .. 0 |-> IF i = 0 THEN w0 ELSE step(p[i - 1], i)]
      BY <2>1
    <2>. QED  BY <1>0, <2>2
  <1>2. ASSUME NEW m \in Nat \ {0}, m - 1 \in Good PROVE m \in Good
    <2>1. PICK p : LevelUpTo(walk, entries, atLimit, nodeCap, m - 1, p)
      BY <1>2
    <2>2. PICK q : q = [i \in 0 .. m |-> IF i = 0 THEN w0 ELSE step(p[i - 1], i)]
      OBVIOUS
    <2>3. \A i \in 0 .. m - 1 : q[i] = p[i]
      <3>1. \A i \in 0 .. m - 1 : i \in 0 .. m
        OBVIOUS
      <3>2. p = [i \in 0 .. m - 1 |-> IF i = 0 THEN w0 ELSE step(p[i - 1], i)]
        BY <1>0, <2>1
      <3>. QED  BY <2>2, <3>1, <3>2
    <2>4. \A i \in 1 .. m : q[i - 1] = p[i - 1]
      BY <2>3
    <2>5. q = [i \in 0 .. m |-> IF i = 0 THEN w0 ELSE step(q[i - 1], i)]
      <3>1. \A i \in 0 .. m : i # 0 => i \in 1 .. m
        OBVIOUS
      <3>. HIDE DEF Good
      <3>2. [i \in 0 .. m |-> IF i = 0 THEN w0 ELSE step(p[i - 1], i)]
               = [i \in 0 .. m |-> IF i = 0 THEN w0 ELSE step(q[i - 1], i)]
        BY <2>4, <3>1
      <3>. QED  BY <2>2, <3>2
    <2>. QED  BY <1>0, <2>5
  <1>. HIDE DEF Good
  <1>3. \A n \in Nat : n \in Good
    BY <1>1, <1>2, AllNumbers
  <1>. QED  BY <1>3 DEF Good

\* The walk when every shard up to a distance was visited.
LevelInv(entries, root, nodeCap, maxDepth, h, w) ==
    VisitInv(entries, root, nodeCap, maxDepth, h,
             {i \in DOMAIN w.parent : UpFar(entries, root)[i] <= h}, w)

LEMMA LevelBegins ==
    ASSUME NEW entries \in Seq(Entry), NEW root \in Iris, NEW nodeCap, NEW maxDepth \in Nat,
           NEW h \in Nat, NEW w, LevelInv(entries, root, nodeCap, maxDepth, h - 1, w)
    PROVE  VisitInv(entries, root, nodeCap, maxDepth, h,
                    {i \in DOMAIN w.parent : UpFar(entries, root)[i] < h},
                    [w EXCEPT !.next = <<>>])
  <1>. DEFINE r == [w EXCEPT !.next = <<>>]
              P == DOMAIN w.parent
              D == UpFar(entries, root)
              V == {i \in P : D[i] <= h - 1}
              U == {i \in P : D[i] < h}
  <1>1. VisitInv(entries, root, nodeCap, maxDepth, h - 1, V, w)
    BY DEF LevelInv
  <1>2. IsTree(entries, root, w)
    BY <1>1 DEF VisitInv
  <1>3. \A i \in P : D[i] \in Nat
    <2>1. Cardinality(Iris) \in Nat
      BY SnapshotAssumption, FS_CardinalityType
    <2>2. \A i \in P : D[i] \in 0 .. Cardinality(Iris)
      BY <1>2, UpWeb DEF IsTree
    <2>. HIDE DEF P, D
    <2>. QED  BY <2>1, <2>2
  <1>4. V = U
    BY <1>3
  <1>. HIDE DEF P, D, V, U
  <1>5. /\ \A i \in P : D[i] <= h - 1 + 1
        /\ V \subseteq P /\ w.kernels = V \cap Kernel
        /\ w.lent \subseteq V
        /\ w.refused # {} => Cardinality(w.lent) >= nodeCap
        /\ w.refused = {} /\ ~w.cut => \A i \in V : UpNext(entries, i) \subseteq P
        /\ w.cut => h - 1 >= maxDepth
    BY <1>1 DEF VisitInv, P, D
  <1>6. /\ IsWalk(r) /\ r.parent = w.parent /\ r.next = <<>> /\ r.kernels = w.kernels
        /\ r.cut = w.cut /\ r.lent = w.lent /\ r.refused = w.refused
    <2>1. <<>> \in Seq(Iris)
      OBVIOUS
    <2>. QED  BY <1>2, <2>1 DEF IsTree, IsWalk
  <1>. HIDE DEF r
  <1>7. IsTree(entries, root, r)
    BY <1>2, <1>6 DEF IsTree
  <1>8. Listed(<<>>) = {} /\ Distinct(<<>>)
    BY DEF Listed, Distinct
  <1>9. Listed(r.next) = {i \in P : D[i] = h + 1} /\ \A i \in P : D[i] <= h + 1
    BY <1>3, <1>5, <1>6, <1>8
  <1>10. /\ U \subseteq P /\ \A i \in U : D[i] <= h
         /\ \A i \in P : D[i] < h => i \in U
    BY <1>3 DEF U
  <1>11. r.cut => h >= maxDepth
    BY <1>5, <1>6
  <1>12. VisitInv(entries, root, nodeCap, maxDepth, h, U, r)
    BY <1>4, <1>5, <1>6, <1>7, <1>8, <1>9, <1>10, <1>11 DEF VisitInv, P, D
  <1>. QED  BY <1>12 DEF U, P, D, r

LEMMA LevelKeeps ==
    ASSUME NEW entries \in Seq(Entry), NEW root \in Iris, NEW nodeCap \in Nat,
           NEW maxDepth \in Nat, NEW h \in Nat, NEW w,
           LevelInv(entries, root, nodeCap, maxDepth, h - 1, w)
    PROVE  LevelInv(entries, root, nodeCap, maxDepth, h,
                    DeriveLevel(w, entries, h, maxDepth, nodeCap))
  <1>. DEFINE F == w.next
              L == Len(F)
              P == DOMAIN w.parent
              D == UpFar(entries, root)
              V0 == {i \in P : D[i] < h}
              vis(n) == V0 \cup {F[m] : m \in 1 .. n}
              atLimit == h >= maxDepth
  <1>1. /\ IsTree(entries, root, w) /\ Distinct(F) /\ Listed(F) = {i \in P : D[i] = h}
        /\ \A i \in P : D[i] <= h
    <2>1. h - 1 + 1 = h
      OBVIOUS
    <2>. QED  BY <2>1 DEF LevelInv, VisitInv
  <1>2. L \in Nat /\ DOMAIN F = 1 .. L
    BY <1>1 DEF IsTree, IsWalk
  <1>3. PICK p : /\ LevelUpTo(w, entries, atLimit, nodeCap, L, p)
                 /\ DeriveLevel(w, entries, h, maxDepth, nodeCap) = p[L]
    <2>1. \E p : LevelUpTo(w, entries, atLimit, nodeCap, L, p)
      BY <1>2, LevelExists
    <2>. QED  BY <2>1 DEF DeriveLevel, LevelUpTo
  <1>4. \A i \in 0 .. L : p[i] = IF i = 0 THEN [w EXCEPT !.next = <<>>]
                                 ELSE Visit(p[i - 1], entries, w.next[i], atLimit, nodeCap)
    BY <1>3 DEF LevelUpTo
  <1>5. L \in 0 .. L /\ 0 \in 0 .. L /\ \A i \in 1 .. L : i \in 0 .. L /\ i # 0
    BY <1>2
  <1>6. p[0] = [w EXCEPT !.next = <<>>]
        /\ \A i \in 1 .. L : p[i] = Visit(p[i - 1], entries, F[i], atLimit, nodeCap)
    <2>. HIDE DEF L, atLimit
    <2>. QED  BY <1>4, <1>5
  <1>. DEFINE grown(v) == /\ P \subseteq DOMAIN v.parent
                          /\ \A i \in DOMAIN v.parent \ P : D[i] = h + 1
              Good == {n \in Nat : /\ VisitInv(entries, root, nodeCap, maxDepth, h, vis(n), p[n])
                                   /\ grown(p[n])}
  <1>7. 0 \in Good
    <2>1. vis(0) = V0
      OBVIOUS
    <2>2. VisitInv(entries, root, nodeCap, maxDepth, h, V0, p[0])
      BY <1>6, LevelBegins
    <2>3. p[0].parent = w.parent
      <3>. HIDE DEF P, D, V0, F, L, vis, atLimit
      <3>. QED  BY <1>1, <1>6 DEF IsTree, IsWalk
    <2>4. grown(p[0])
      BY <2>3
    <2>. HIDE DEF vis, V0, grown
    <2>. QED  BY <2>1, <2>2, <2>4
  <1>8. ASSUME NEW n \in 1 .. L, n - 1 \in Good PROVE n \in Good
    <2>. DEFINE v == p[n - 1]
                node == F[n]
    <2>1. n \in Nat /\ VisitInv(entries, root, nodeCap, maxDepth, h, vis(n - 1), v) /\ grown(v)
      BY <1>8
    <2>2. node \in P /\ D[node] = h
      <3>1. node \in Listed(F)
        BY <1>2 DEF Listed
      <3>. HIDE DEF F, P, D
      <3>. QED  BY <1>1, <3>1
    <2>3. node \notin vis(n - 1)
      <3>1. node \notin V0
        BY <2>2
      <3>2. \A m \in 1 .. n - 1 : F[m] # node
        <4>1. \A m \in 1 .. n - 1 : m \in 1 .. L /\ m # n
          BY <1>2
        <4>. HIDE DEF F, L
        <4>. QED  BY <1>1, <1>2, <4>1 DEF Distinct
      <3>. QED  BY <3>1, <3>2
    <2>4. vis(n) = vis(n - 1) \cup {node}
      <3>1. 1 .. n = 1 .. n - 1 \cup {n}
        BY <2>1
      <3>. HIDE DEF V0, F
      <3>. QED  BY <3>1
    <2>5. p[n] = Visit(v, entries, node, atLimit, nodeCap)
      BY <1>6
    <2>6. node \in DOMAIN v.parent
      BY <2>1, <2>2
    <2>. HIDE DEF Good, vis, node, v, P, D
    <2>7. Visitable(entries, root, nodeCap, maxDepth, h, vis(n - 1), v, node)
      BY <2>1, <2>2, <2>3, <2>6 DEF Visitable, D
    <2>8. Visited(entries, root, nodeCap, maxDepth, h, vis(n - 1), v, node, p[n])
      BY <2>5, <2>7, VisitKeeps
    <2>9. /\ VisitInv(entries, root, nodeCap, maxDepth, h, vis(n), p[n])
          /\ DOMAIN v.parent \subseteq DOMAIN p[n].parent
          /\ \A i \in DOMAIN p[n].parent \ DOMAIN v.parent : D[i] = h + 1
      BY <2>4, <2>8 DEF Visited, D
    <2>10. grown(p[n])
      BY <2>1, <2>9
    <2>. HIDE DEF grown
    <2>. QED  BY <2>1, <2>9, <2>10 DEF Good
  <1>9. L \in Good
    <2>. HIDE DEF Good, L
    <2>. QED  BY <1>2, <1>5, <1>7, <1>8, NumbersUpTo
  <1>. DEFINE r == p[L]
              Q == DOMAIN r.parent
              V == {i \in Q : D[i] <= h}
  <1>10. /\ VisitInv(entries, root, nodeCap, maxDepth, h, vis(L), r)
         /\ P \subseteq Q /\ \A i \in Q \ P : D[i] = h + 1
    BY <1>9
  <1>11. vis(L) = V0 \cup Listed(F)
    BY <1>2 DEF Listed
  <1>12. \A i \in P : D[i] \in Nat
    <2>1. Cardinality(Iris) \in Nat
      BY SnapshotAssumption, FS_CardinalityType
    <2>2. \A i \in P : D[i] \in 0 .. Cardinality(Iris)
      BY <1>1, UpWeb DEF IsTree
    <2>. HIDE DEF P, D
    <2>. QED  BY <2>1, <2>2
  <1>13. vis(L) = V
    <2>. HIDE DEF vis, F, L, P, D, r, Q
    <2>1. V0 \cup Listed(F) = P
      BY <1>1, <1>12
    <2>2. V = P
      BY <1>1, <1>10
    <2>. HIDE DEF V, V0
    <2>. QED  BY <1>11, <2>1, <2>2
  <1>14. LevelInv(entries, root, nodeCap, maxDepth, h, r)
    <2>. HIDE DEF vis, F, L, P, r
    <2>. QED  BY <1>10, <1>13 DEF LevelInv
  <1>. QED  BY <1>3, <1>14

-----------------------------------------------------------------------------
(* The derivation: the whole walk.                                             *)

Rooted(root) ==
    [parent |-> [i \in {root} |-> root], next |-> <<root>>, kernels |-> {},
     cut |-> FALSE, lent |-> {}, refused |-> {}]

TreeUpTo(entries, root, maxDepth, nodeCap, n, p) ==
    p = [i \in 0 .. n |-> IF i = 0 THEN Rooted(root)
                          ELSE DeriveLevel(p[i - 1], entries, i - 1, maxDepth, nodeCap)]

LEMMA TreeExists ==
    ASSUME NEW entries, NEW root, NEW maxDepth, NEW nodeCap
    PROVE  \A n \in Nat : \E p : TreeUpTo(entries, root, maxDepth, nodeCap, n, p)
  <1>. DEFINE Good == {n \in Nat : \E p : TreeUpTo(entries, root, maxDepth, nodeCap, n, p)}
              w0 == Rooted(root)
              step(v, i) == DeriveLevel(v, entries, i - 1, maxDepth, nodeCap)
  <1>0. \A n, p : TreeUpTo(entries, root, maxDepth, nodeCap, n, p)
                     <=> p = [i \in 0 .. n |-> IF i = 0 THEN w0 ELSE step(p[i - 1], i)]
    BY DEF TreeUpTo
  <1>. HIDE DEF w0, step
  <1>1. 0 \in Good
    <2>1. PICK p : p = [i \in 0 .. 0 |-> w0]
      OBVIOUS
    <2>2. p = [i \in 0 .. 0 |-> IF i = 0 THEN w0 ELSE step(p[i - 1], i)]
      BY <2>1
    <2>. QED  BY <1>0, <2>2
  <1>2. ASSUME NEW m \in Nat \ {0}, m - 1 \in Good PROVE m \in Good
    <2>1. PICK p : TreeUpTo(entries, root, maxDepth, nodeCap, m - 1, p)
      BY <1>2
    <2>2. PICK q : q = [i \in 0 .. m |-> IF i = 0 THEN w0 ELSE step(p[i - 1], i)]
      OBVIOUS
    <2>3. \A i \in 0 .. m - 1 : q[i] = p[i]
      <3>1. \A i \in 0 .. m - 1 : i \in 0 .. m
        OBVIOUS
      <3>2. p = [i \in 0 .. m - 1 |-> IF i = 0 THEN w0 ELSE step(p[i - 1], i)]
        BY <1>0, <2>1
      <3>. QED  BY <2>2, <3>1, <3>2
    <2>4. \A i \in 1 .. m : q[i - 1] = p[i - 1]
      BY <2>3
    <2>5. q = [i \in 0 .. m |-> IF i = 0 THEN w0 ELSE step(q[i - 1], i)]
      <3>1. \A i \in 0 .. m : i # 0 => i \in 1 .. m
        OBVIOUS
      <3>. HIDE DEF Good
      <3>2. [i \in 0 .. m |-> IF i = 0 THEN w0 ELSE step(p[i - 1], i)]
               = [i \in 0 .. m |-> IF i = 0 THEN w0 ELSE step(q[i - 1], i)]
        BY <2>4, <3>1
      <3>. QED  BY <2>2, <3>2
    <2>. QED  BY <1>0, <2>5
  <1>. HIDE DEF Good
  <1>3. \A n \in Nat : n \in Good
    BY <1>1, <1>2, AllNumbers
  <1>. QED  BY <1>3 DEF Good

LEMMA TreeBegins ==
    ASSUME NEW entries \in Seq(Entry), NEW root \in Iris, NEW nodeCap \in Nat, NEW maxDepth \in Nat
    PROVE  LevelInv(entries, root, nodeCap, maxDepth, 0 - 1, Rooted(root))
  <1>. DEFINE w == Rooted(root)
              D == UpFar(entries, root)
  <1>1. /\ w.parent = [i \in {root} |-> root] /\ w.next = <<root>> /\ w.kernels = {}
        /\ w.cut = FALSE /\ w.lent = {} /\ w.refused = {}
    BY DEF Rooted
  <1>2. IsWalk(w)
    <2>1. <<root>> \in Seq(Iris) /\ DOMAIN w.parent = {root}
      BY <1>1
    <2>2. w.parent = [i \in DOMAIN w.parent |-> w.parent[i]]
      BY <1>1
    <2>3. w = [parent |-> w.parent, next |-> w.next, kernels |-> w.kernels, cut |-> w.cut,
               lent |-> w.lent, refused |-> w.refused]
      BY DEF Rooted
    <2>. HIDE DEF w
    <2>. QED  BY <1>1, <2>1, <2>2, <2>3 DEF IsWalk
  <1>3. DOMAIN w.parent = {root}
    BY <1>1
  <1>4. root \in UpReach(entries, root) /\ D[root] = 0
    BY UpWeb
  <1>. HIDE DEF w, D
  <1>5. IsTree(entries, root, w)
    BY <1>2, <1>3, <1>4 DEF IsTree
  <1>6. Listed(<<root>>) = {root} /\ Distinct(<<root>>)
    BY DEF Listed, Distinct
  <1>7. {i \in DOMAIN w.parent : D[i] <= 0 - 1} = {} /\ {i \in DOMAIN w.parent : D[i] = 0 - 1 + 1} = {root}
    BY <1>3, <1>4
  <1>8. \A i \in DOMAIN w.parent : D[i] <= 0 - 1 + 1 /\ ~(D[i] < 0 - 1)
    BY <1>3, <1>4
  <1>9. ~(0 - 1 >= maxDepth)
    OBVIOUS
  <1>10. VisitInv(entries, root, nodeCap, maxDepth, 0 - 1, {}, w)
    BY <1>1, <1>5, <1>6, <1>7, <1>8, <1>9 DEF VisitInv, D
  <1>. QED  BY <1>7, <1>10 DEF LevelInv, w, D

LEMMA TreeEnds ==
    ASSUME NEW entries \in Seq(Entry), NEW root \in Iris, NEW nodeCap \in Nat, NEW maxDepth \in Nat
    PROVE  LevelInv(entries, root, nodeCap, maxDepth, maxDepth,
                    DerivationTree(entries, root, maxDepth, nodeCap))
  <1>. DEFINE N == maxDepth + 1
  <1>1. N \in Nat
    OBVIOUS
  <1>2. PICK p : /\ TreeUpTo(entries, root, maxDepth, nodeCap, N, p)
                 /\ DerivationTree(entries, root, maxDepth, nodeCap) = p[N]
    <2>1. \E p : TreeUpTo(entries, root, maxDepth, nodeCap, N, p)
      BY <1>1, TreeExists
    <2>. QED  BY <2>1 DEF DerivationTree, TreeUpTo, Rooted
  <1>3. \A i \in 0 .. N : p[i] = IF i = 0 THEN Rooted(root)
                                 ELSE DeriveLevel(p[i - 1], entries, i - 1, maxDepth, nodeCap)
    BY <1>2 DEF TreeUpTo
  <1>. DEFINE Good == {i \in Nat : LevelInv(entries, root, nodeCap, maxDepth, i - 1, p[i])}
  <1>4. 0 \in Good
    <2>1. p[0] = Rooted(root)
      <3>1. 0 \in 0 .. N
        BY <1>1
      <3>. HIDE DEF N
      <3>. QED  BY <1>3, <3>1
    <2>. QED  BY <2>1, TreeBegins
  <1>5. ASSUME NEW i \in 1 .. N, i - 1 \in Good PROVE i \in Good
    <2>. DEFINE h == i - 1
    <2>1. h \in Nat /\ i \in 0 .. N /\ i # 0 /\ i \in Nat
      OBVIOUS
    <2>2. p[i] = DeriveLevel(p[h], entries, h, maxDepth, nodeCap)
      <3>. HIDE DEF N, Good
      <3>. QED  BY <1>3, <2>1
    <2>3. LevelInv(entries, root, nodeCap, maxDepth, h - 1, p[h])
      BY <1>5
    <2>. HIDE DEF h, Good
    <2>4. LevelInv(entries, root, nodeCap, maxDepth, h, p[i])
      BY <2>1, <2>2, <2>3, LevelKeeps
    <2>. QED  BY <2>1, <2>4 DEF h, Good
  <1>6. N \in 0 .. N /\ N - 1 = maxDepth
    BY <1>1
  <1>7. N \in Good
    <2>. HIDE DEF Good, N
    <2>. QED  BY <1>1, <1>4, <1>5, <1>6, NumbersUpTo
  <1>. QED  BY <1>2, <1>6, <1>7

\* Up the parents of a tree the distance falls by one at each step.
LEMMA PathIsShortest ==
    ASSUME NEW entries \in Seq(Entry), NEW root \in Iris, NEW w, IsTree(entries, root, w),
           NEW k \in DOMAIN w.parent
    PROVE  PathLength(w, root, k) = UpFar(entries, root)[k]
  <1>. DEFINE N == Cardinality(Iris)
              P == DOMAIN w.parent
              D == UpFar(entries, root)
              G == w.parent
  <1>1. N \in Nat
    BY SnapshotAssumption, FS_CardinalityType
  <1>2. /\ root \in P /\ \A i \in P : D[i] \in 0 .. N /\ (D[i] = 0 <=> i = root)
        /\ \A i \in P \ {root} : G[i] \in P /\ D[G[i]] + 1 = D[i]
    BY UpWeb DEF IsTree
  <1>. HIDE DEF N, P, D, G
  <1>3. PICK up : /\ IteratesOf(G, k, N, up)
                  /\ PathLength(w, root, k) = Min({n \in 0 .. N : up[n] = root})
    <2>1. \E up : IteratesOf(G, k, N, up)
      BY <1>1, IteratesExist
    <2>. QED  BY <2>1 DEF PathLength, IteratesOf, G, N
  <1>4. up[0] = k /\ \A i \in 1 .. N : up[i] = G[up[i - 1]]
    <2>1. PICK g, m : g = G /\ m = N
      OBVIOUS
    <2>2. m \in Nat /\ IteratesOf(g, k, m, up)
      BY <1>1, <1>3, <2>1
    <2>3. \A i \in 0 .. m : up[i] = IF i = 0 THEN k ELSE g[up[i - 1]]
      BY <2>2 DEF IteratesOf
    <2>4. 0 \in 0 .. m /\ \A i \in 1 .. m : i \in 0 .. m /\ i # 0
      BY <2>2
    <2>. QED  BY <2>1, <2>3, <2>4
  <1>5. PICK d : d = D[k]
    OBVIOUS
  <1>6. k \in P /\ d \in 0 .. N
    BY <1>2, <1>5 DEF P
  <1>. DEFINE Good == {n \in Nat : up[n] \in P /\ D[up[n]] = d - n}
  <1>7. 0 \in Good
    BY <1>4, <1>5, <1>6
  <1>8. ASSUME NEW n \in 1 .. d, n - 1 \in Good PROVE n \in Good
    <2>1. n \in Nat /\ n \in 1 .. N /\ up[n - 1] \in P /\ D[up[n - 1]] = d - (n - 1) /\ d - (n - 1) # 0
      BY <1>1, <1>6, <1>8
    <2>2. up[n] = G[up[n - 1]]
      BY <1>4, <2>1
    <2>3. up[n - 1] # root
      BY <1>2, <2>1
    <2>4. up[n] \in P /\ D[up[n]] + 1 = d - (n - 1)
      BY <1>2, <2>1, <2>2, <2>3
    <2>5. D[up[n]] \in Int
      BY <1>1, <1>2, <2>4
    <2>. QED  BY <1>1, <1>6, <2>1, <2>4, <2>5
  <1>9. \A n \in 0 .. d : n \in Good
    <2>1. d \in Nat
      BY <1>1, <1>6
    <2>. HIDE DEF Good
    <2>. QED  BY <1>7, <1>8, <2>1, NumbersUpTo
  <1>10. \A n \in 0 .. d : up[n] = root <=> n = d
    <2>. SUFFICES ASSUME NEW n \in 0 .. d PROVE up[n] = root <=> n = d
      OBVIOUS
    <2>1. up[n] \in P /\ D[up[n]] = d - n
      BY <1>9
    <2>2. up[n] = root <=> d - n = 0
      BY <1>2, <2>1
    <2>. QED  BY <1>1, <1>6, <2>2
  <1>11. PICK T : T = {n \in 0 .. N : up[n] = root}
    OBVIOUS
  <1>12. d \in T /\ T \subseteq Nat /\ \A n \in T : d <= n
    BY <1>1, <1>6, <1>10, <1>11
  <1>13. Min(T) = d
    <2>1. Min(T) \in T /\ \A n \in T : Min(T) <= n
      BY <1>12, MinOfSome
    <2>2. Min(T) <= d /\ d <= Min(T) /\ Min(T) \in Nat /\ d \in Nat
      BY <1>12, <2>1
    <2>. QED  BY <2>2
  <1>. QED  BY <1>3, <1>5, <1>11, <1>13 DEF D

LEMMA DerivationHolds ==
    ASSUME NEW entries \in Seq(Entry), NEW root \in Iris, NEW nodeCap \in Nat, NEW maxDepth \in Nat
    PROVE  LET walk == DerivationTree(entries, root, maxDepth, nodeCap)
               up == Ball(entries, "upstream", root)
           IN  /\ ~Incomplete(walk) => walk.kernels = Whole(up) \cap Kernel
               /\ \A k \in walk.kernels :
                     k \in Whole(up) /\ PathLength(walk, root, k) = Dist(up, k)
  <1>. DEFINE w == DerivationTree(entries, root, maxDepth, nodeCap)
              P == DOMAIN w.parent
              B == UpReach(entries, root)
              D == UpFar(entries, root)
              V == {i \in P : D[i] <= maxDepth}
  <1>1. VisitInv(entries, root, nodeCap, maxDepth, maxDepth, V, w)
    BY TreeEnds DEF LevelInv
  <1>. HIDE DEF w
  <1>2. /\ IsTree(entries, root, w) /\ root \in P /\ P \subseteq B /\ w.kernels = V \cap Kernel
        /\ \A i \in P : D[i] <= maxDepth + 1
        /\ Listed(w.next) = {i \in P : D[i] = maxDepth + 1} /\ w.next = <<>>
        /\ w.refused = {} /\ ~w.cut => \A i \in V : UpNext(entries, i) \subseteq P
    BY <1>1 DEF VisitInv, IsTree
  <1>3. B = Whole(Ball(entries, "upstream", root))
        /\ \A i \in B : D[i] = Dist(Ball(entries, "upstream", root), i)
    BY DEF UpReach, Reach, UpFar, Far
  <1>4. \A i \in B : D[i] \in Nat
    <2>1. Cardinality(Iris) \in Nat
      BY SnapshotAssumption, FS_CardinalityType
    <2>2. \A i \in B : D[i] \in 0 .. Cardinality(Iris)
      BY UpWeb
    <2>. HIDE DEF B, D
    <2>. QED  BY <2>1, <2>2
  <1>5. V = P
    <2>1. Listed(<<>>) = {}
      BY DEF Listed
    <2>. HIDE DEF P, B, D
    <2>. QED  BY <1>2, <1>4, <2>1
  <1>6. ASSUME NEW k \in w.kernels
        PROVE  k \in B /\ PathLength(w, root, k) = D[k]
    <2>1. k \in P /\ k \in B
      BY <1>2, <1>5
    <2>. QED  BY <1>2, <2>1, PathIsShortest
  <1>7. ASSUME ~Incomplete(w) PROVE w.kernels = B \cap Kernel
    <2>1. \A i \in P : UpNext(entries, i) \subseteq P
      BY <1>2, <1>5, <1>7 DEF Incomplete
    <2>2. ASSUME NEW i \in B PROVE i \in P
      <3>. DEFINE S == [j \in B |-> UpNext(entries, j)]
      <3>1. IsWeb(root, B, D, S)
        BY UpWeb
      <3>2. \A j \in B : j \in P => S[j] \subseteq P
        BY <2>1
      <3>3. D[i] \in Nat /\ D[i] <= D[i]
        BY <1>4
      <3>. HIDE DEF S, B, D, P
      <3>. QED  BY <1>2, <2>2, <3>1, <3>2, <3>3, LevelsFilled
    <2>. QED  BY <1>2, <1>5, <2>2
  <1>. QED  BY <1>3, <1>6, <1>7 DEF w

-----------------------------------------------------------------------------
(* What a snapshot holds is a sequence of entries.                             *)

JournalRow == [corpus : Corpora, iri : Iris, edges : Seq(STRING \X Iris), op : Nat]

EntriesUpTo(rows, n, p) ==
    p = [i \in 0 .. n |->
            IF i = 0 THEN <<>>
            ELSE IF IsFirst(rows, i)
            THEN Append(p[i - 1], [iri |-> rows[i].iri, edges |-> LastEdges(rows, rows[i].iri)])
            ELSE p[i - 1]]

LEMMA EntriesExist ==
    ASSUME NEW rows
    PROVE  \A n \in Nat : \E p : EntriesUpTo(rows, n, p)
  <1>. DEFINE Good == {n \in Nat : \E p : EntriesUpTo(rows, n, p)}
              step(v, i) == IF IsFirst(rows, i)
                            THEN Append(v, [iri |-> rows[i].iri,
                                            edges |-> LastEdges(rows, rows[i].iri)])
                            ELSE v
  <1>0. \A n, p : EntriesUpTo(rows, n, p)
                     <=> p = [i \in 0 .. n |-> IF i = 0 THEN <<>> ELSE step(p[i - 1], i)]
    BY DEF EntriesUpTo
  <1>. HIDE DEF step
  <1>1. 0 \in Good
    <2>1. PICK p : p = [i \in 0 .. 0 |-> <<>>]
      OBVIOUS
    <2>2. p = [i \in 0 .. 0 |-> IF i = 0 THEN <<>> ELSE step(p[i - 1], i)]
      BY <2>1
    <2>. QED  BY <1>0, <2>2
  <1>2. ASSUME NEW m \in Nat \ {0}, m - 1 \in Good PROVE m \in Good
    <2>1. PICK p : EntriesUpTo(rows, m - 1, p)
      BY <1>2
    <2>2. PICK q : q = [i \in 0 .. m |-> IF i = 0 THEN <<>> ELSE step(p[i - 1], i)]
      OBVIOUS
    <2>3. \A i \in 0 .. m - 1 : q[i] = p[i]
      <3>1. \A i \in 0 .. m - 1 : i \in 0 .. m
        OBVIOUS
      <3>2. p = [i \in 0 .. m - 1 |-> IF i = 0 THEN <<>> ELSE step(p[i - 1], i)]
        BY <1>0, <2>1
      <3>. QED  BY <2>2, <3>1, <3>2
    <2>4. \A i \in 1 .. m : q[i - 1] = p[i - 1]
      BY <2>3
    <2>5. q = [i \in 0 .. m |-> IF i = 0 THEN <<>> ELSE step(q[i - 1], i)]
      <3>1. \A i \in 0 .. m : i # 0 => i \in 1 .. m
        OBVIOUS
      <3>. HIDE DEF Good
      <3>2. [i \in 0 .. m |-> IF i = 0 THEN <<>> ELSE step(p[i - 1], i)]
               = [i \in 0 .. m |-> IF i = 0 THEN <<>> ELSE step(q[i - 1], i)]
        BY <2>4, <3>1
      <3>. QED  BY <2>2, <3>2
    <2>. QED  BY <1>0, <2>5
  <1>. HIDE DEF Good
  <1>3. \A n \in Nat : n \in Good
    BY <1>1, <1>2, AllNumbers
  <1>. QED  BY <1>3 DEF Good

LEMMA EntriesTyped ==
    ASSUME NEW all \in Seq(JournalRow), NEW corpus, NEW rows, rows = RowsIn(all, corpus),
           DOMAIN rows # {}
    PROVE  Entries(rows) \in Seq(Entry)
  <1>. DEFINE N == Max(DOMAIN rows)
  <1>1. DOMAIN rows \subseteq 1 .. Len(all) /\ Len(all) \in Nat
        /\ \A i \in DOMAIN rows : rows[i] \in JournalRow
    BY DEF RowsIn
  <1>2. N \in Nat
    <2>1. N \in DOMAIN rows
      BY <1>1, MaxOfSome
    <2>. QED  BY <1>1, <2>1
  <1>. HIDE DEF N
  <1>3. PICK p : EntriesUpTo(rows, N, p) /\ Entries(rows) = p[N]
    <2>1. \E p : EntriesUpTo(rows, N, p)
      BY <1>2, EntriesExist
    <2>. QED  BY <2>1 DEF Entries, EntriesUpTo, N
  <1>4. \A i \in 0 .. N :
            p[i] = IF i = 0 THEN <<>>
                   ELSE IF IsFirst(rows, i)
                   THEN Append(p[i - 1], [iri |-> rows[i].iri, edges |-> LastEdges(rows, rows[i].iri)])
                   ELSE p[i - 1]
    BY <1>3 DEF EntriesUpTo
  <1>5. ASSUME NEW i \in DOMAIN rows
        PROVE  [iri |-> rows[i].iri, edges |-> LastEdges(rows, rows[i].iri)] \in Entry
    <2>1. PICK at : at = {j \in DOMAIN rows : rows[j].iri = rows[i].iri}
      OBVIOUS
    <2>2. at \subseteq 1 .. Len(all) /\ i \in at
      BY <1>1, <2>1
    <2>3. Max(at) \in at
      BY <1>1, <2>2, MaxOfSome
    <2>4. rows[Max(at)] \in JournalRow /\ rows[i] \in JournalRow
      BY <1>1, <2>1, <2>3
    <2>. QED  BY <2>1, <2>4 DEF LastEdges, JournalRow, Entry
  <1>. DEFINE Good == {i \in Nat : p[i] \in Seq(Entry)}
  <1>6. 0 \in Good
    <2>1. 0 \in 0 .. N /\ <<>> \in Seq(Entry)
      BY <1>2
    <2>2. p[0] = <<>>
      BY <1>4, <2>1
    <2>. QED  BY <2>1, <2>2
  <1>7. ASSUME NEW i \in 1 .. N, i - 1 \in Good PROVE i \in Good
    <2>1. i \in 0 .. N /\ i # 0 /\ i \in Nat /\ p[i - 1] \in Seq(Entry)
      BY <1>2, <1>7
    <2>2. CASE IsFirst(rows, i)
      <3>1. PICK e : e = [iri |-> rows[i].iri, edges |-> LastEdges(rows, rows[i].iri)]
        OBVIOUS
      <3>2. e \in Entry
        BY <1>5, <2>2, <3>1 DEF IsFirst
      <3>3. p[i] = Append(p[i - 1], e)
        BY <1>4, <2>1, <2>2, <3>1
      <3>4. Append(p[i - 1], e) \in Seq(Entry)
        <4>. HIDE DEF Good
        <4>. QED  BY <2>1, <3>2
      <3>. QED  BY <2>1, <3>3, <3>4
    <2>3. CASE ~IsFirst(rows, i)
      <3>1. p[i] = p[i - 1]
        <4>. HIDE DEF Good
        <4>. QED  BY <1>4, <2>1, <2>3
      <3>. QED  BY <2>1, <3>1
    <2>. QED  BY <2>2, <2>3
  <1>8. N \in 0 .. N
    BY <1>2
  <1>9. N \in Good
    <2>. HIDE DEF Good
    <2>. QED  BY <1>2, <1>6, <1>7, <1>8, NumbersUpTo
  <1>. QED  BY <1>3, <1>9

-----------------------------------------------------------------------------
(* What lies both behind a shard and in front of it, in a web without cycles.  *)

LEMMA ReachLeast ==
    ASSUME NEW entries \in Seq(Entry), NEW way \in Ways, NEW root \in Iris,
           NEW T, root \in T, \A i \in T : Steps(entries, way, i) \subseteq T
    PROVE  Reach(entries, way, root) \subseteq T
  <1>. DEFINE B == Reach(entries, way, root)
              D == Far(entries, way, root)
              S == Near(entries, way, root)
  <1>1. IsWeb(root, B, D, S)
    BY ReachIsWeb
  <1>2. \A i \in B : S[i] = Steps(entries, way, i)
    BY DEF Near
  <1>. HIDE DEF B, D, S
  <1>3. ASSUME NEW i \in B PROVE i \in T
    <2>1. D[i] \in Nat /\ D[i] <= D[i]
      BY <1>1 DEF IsWeb
    <2>2. \A j \in B : j \in T => S[j] \subseteq T
      BY <1>2
    <2>. QED  BY <1>1, <2>1, <2>2, LevelsFilled
  <1>. QED  BY <1>3 DEF B

LEMMA ReachCloses ==
    ASSUME NEW entries \in Seq(Entry), NEW way \in Ways, NEW root \in Iris
    PROVE  /\ root \in Reach(entries, way, root) /\ Reach(entries, way, root) \subseteq Iris
           /\ \A i \in Reach(entries, way, root) :
                 Steps(entries, way, i) \subseteq Reach(entries, way, root)
  <1>. DEFINE B == Reach(entries, way, root)
              S == Near(entries, way, root)
  <1>1. IsWeb(root, B, Far(entries, way, root), S) /\ B \subseteq Iris
    BY ReachIsWeb
  <1>2. \A i \in B : S[i] = Steps(entries, way, i)
    BY DEF Near
  <1>. HIDE DEF B, S
  <1>. QED  BY <1>1, <1>2 DEF IsWeb, B

LEMMA ReachThrough ==
    ASSUME NEW entries \in Seq(Entry), NEW way \in Ways, NEW root \in Iris,
           NEW j \in Reach(entries, way, root)
    PROVE  Reach(entries, way, j) \subseteq Reach(entries, way, root)
  <1>1. j \in Iris
    BY ReachCloses
  <1>2. \A i \in Reach(entries, way, root) :
            Steps(entries, way, i) \subseteq Reach(entries, way, root)
    BY ReachCloses
  <1>. QED  BY <1>1, <1>2, ReachLeast

LEMMA ReachFirstStep ==
    ASSUME NEW entries \in Seq(Entry), NEW way \in Ways, NEW root \in Iris,
           NEW x \in Reach(entries, way, root), x # root
    PROVE  \E j \in Steps(entries, way, root) : j \in Iris /\ x \in Reach(entries, way, j)
  <1>. DEFINE T == {root} \cup {i \in Iris : \E j \in Steps(entries, way, root) :
                                      j \in Iris /\ i \in Reach(entries, way, j)}
  <1>1. \A j \in Steps(entries, way, root) : j \in Iris
    BY StepsIn
  <1>2. ASSUME NEW i \in T, NEW t \in Steps(entries, way, i) PROVE t \in T
    <2>1. t \in Iris
      BY StepsIn
    <2>2. CASE i = root
      <3>1. t \in Steps(entries, way, root) /\ t \in Reach(entries, way, t)
        BY <2>1, <2>2, ReachCloses
      <3>. QED  BY <2>1, <3>1
    <2>3. CASE i # root
      <3>1. PICK j \in Steps(entries, way, root) : j \in Iris /\ i \in Reach(entries, way, j)
        BY <2>3
      <3>2. t \in Reach(entries, way, j)
        BY <3>1, ReachCloses
      <3>. QED  BY <2>1, <3>1, <3>2
    <2>. QED  BY <2>2, <2>3
  <1>3. root \in T /\ \A i \in T : Steps(entries, way, i) \subseteq T
    BY <1>2
  <1>4. x \in T
    <2>. HIDE DEF T
    <2>. QED  BY <1>3, ReachLeast
  <1>. QED  BY <1>4

LEMMA StepsBack ==
    ASSUME NEW entries \in Seq(Entry), NEW i, NEW t \in Steps(entries, "upstream", i)
    PROVE  i \in Steps(entries, "downstream", t)
  <1>1. PICK at : at = {n \in DOMAIN entries : entries[n].iri = i}
    OBVIOUS
  <1>2. PICK m \in DOMAIN OutEdges(entries, i) : t = OutEdges(entries, i)[m][2]
    BY UpstreamSteps
  <1>3. at # {}
    <2>. SUFFICES ASSUME at = {} PROVE FALSE
      OBVIOUS
    <2>1. OutEdges(entries, i) = <<>>
      BY <1>1 DEF OutEdges
    <2>. QED  BY <1>2, <2>1
  <1>4. at \subseteq Nat
    BY <1>1
  <1>5. Min(at) \in at
    BY <1>3, <1>4, MinOfSome
  <1>6. OutEdges(entries, i) = entries[Min(at)].edges
    BY <1>1, <1>3 DEF OutEdges
  <1>7. Min(at) \in DOMAIN entries /\ entries[Min(at)].iri = i
    BY <1>1, <1>5
  <1>8. Names(entries[Min(at)].edges, t)
    BY <1>2, <1>6 DEF Names
  <1>9. i \in {Downstream(entries, t)[n] : n \in DOMAIN Downstream(entries, t)}
    <2>1. Min(at) \in {k \in DOMAIN entries : Names(entries[k].edges, t)}
      BY <1>7, <1>8
    <2>2. i \in {entries[n].iri : n \in {k \in DOMAIN entries : Names(entries[k].edges, t)}}
      BY <1>7, <2>1
    <2>. QED  BY <2>2, DownstreamIs
  <1>. QED  BY <1>9 DEF Steps, Neighbours

\* No shard but the root lies on both sides of it.
LEMMA SidesApart ==
    ASSUME NEW entries \in Seq(Entry), Acyclic(entries), NEW root \in EntryIris(entries),
           NEW x \in Reach(entries, "upstream", root), x \in Reach(entries, "downstream", root)
    PROVE  x = root
  <1>. SUFFICES ASSUME x # root PROVE FALSE
    OBVIOUS
  <1>1. "upstream" \in Ways /\ "downstream" \in Ways
    BY DEF Ways
  <1>2. root \in Iris
    <2>1. \A n \in DOMAIN entries : entries[n] \in Entry
      OBVIOUS
    <2>. QED  BY <2>1 DEF EntryIris, Entry
  <1>3. root \in Reach(entries, "downstream", x) /\ x \in Iris
    <2>. DEFINE T == {i \in Iris : root \in Reach(entries, "downstream", i)}
    <2>1. root \in T
      BY <1>1, <1>2, ReachCloses
    <2>2. ASSUME NEW i \in T, NEW t \in Steps(entries, "upstream", i) PROVE t \in T
      <3>1. t \in Iris
        BY <1>1, StepsIn
      <3>2. i \in Reach(entries, "downstream", t)
        <4>1. i \in Steps(entries, "downstream", t)
          BY StepsBack
        <4>. QED  BY <1>1, <3>1, <4>1, ReachCloses
      <3>3. Reach(entries, "downstream", i) \subseteq Reach(entries, "downstream", t)
        BY <1>1, <3>1, <3>2, ReachThrough
      <3>. QED  BY <3>1, <3>3
    <2>. HIDE DEF T
    <2>3. Reach(entries, "upstream", root) \subseteq T
      BY <1>1, <1>2, <2>1, <2>2, ReachLeast
    <2>. QED  BY <2>3 DEF T
  <1>4. PICK j \in Steps(entries, "downstream", root) :
            j \in Iris /\ x \in Reach(entries, "downstream", j)
    BY <1>1, <1>2, ReachFirstStep
  <1>5. root \in Reach(entries, "downstream", j)
    BY <1>1, <1>3, <1>4, ReachThrough
  <1>. QED  BY <1>4, <1>5 DEF Acyclic, Reach

-----------------------------------------------------------------------------
(* The graph: what a frontier's nodes have next to them, in order.             *)

LEMMA ConcatLists ==
    ASSUME NEW S, NEW s \in Seq(S), NEW t \in Seq(S)
    PROVE  s \o t \in Seq(S) /\ Listed(s \o t) = Listed(s) \cup Listed(t)
  <1>1. PICK r : r = s \o t
    OBVIOUS
  <1>2. /\ r \in Seq(S) /\ Len(s) \in Nat /\ Len(t) \in Nat
        /\ DOMAIN s = 1 .. Len(s) /\ DOMAIN t = 1 .. Len(t) /\ DOMAIN r = 1 .. Len(s) + Len(t)
        /\ \A i \in 1 .. Len(s) : r[i] = s[i]
        /\ \A i \in 1 .. Len(t) : r[Len(s) + i] = t[i]
    BY <1>1
  <1>3. Listed(s) \cup Listed(t) \subseteq Listed(r)
    <2>1. \A i \in DOMAIN s : i \in DOMAIN r /\ r[i] = s[i]
      BY <1>2
    <2>2. \A i \in DOMAIN t : Len(s) + i \in DOMAIN r /\ r[Len(s) + i] = t[i]
      BY <1>2
    <2>. QED  BY <2>1, <2>2 DEF Listed
  <1>4. Listed(r) \subseteq Listed(s) \cup Listed(t)
    <2>. SUFFICES ASSUME NEW i \in DOMAIN r PROVE r[i] \in Listed(s) \cup Listed(t)
      BY DEF Listed
    <2>1. CASE i \in 1 .. Len(s)
      BY <1>2, <2>1 DEF Listed
    <2>2. CASE i \notin 1 .. Len(s)
      <3>1. i - Len(s) \in 1 .. Len(t) /\ i = Len(s) + (i - Len(s))
        BY <1>2, <2>2
      <3>2. r[i] = t[i - Len(s)]
        BY <1>2, <3>1
      <3>. QED  BY <1>2, <3>1, <3>2 DEF Listed
    <2>. QED  BY <2>1, <2>2
  <1>. QED  BY <1>1, <1>2, <1>3, <1>4

FlattenedUpTo(ss, n, p) == p = [i \in 1 .. n |-> IF i = 1 THEN ss[i] ELSE p[i - 1] \o ss[i]]

LEMMA FlattenedExist ==
    ASSUME NEW ss
    PROVE  \A n \in Nat : \E p : FlattenedUpTo(ss, n, p)
  <1>. DEFINE Good == {n \in Nat : \E p : FlattenedUpTo(ss, n, p)}
              step(v, i) == v \o ss[i]
  <1>0. \A n, p : FlattenedUpTo(ss, n, p)
                     <=> p = [i \in 1 .. n |-> IF i = 1 THEN ss[i] ELSE step(p[i - 1], i)]
    BY DEF FlattenedUpTo
  <1>. HIDE DEF step
  <1>1. 0 \in Good
    <2>1. PICK p : p = [i \in 1 .. 0 |-> ss[i]]
      OBVIOUS
    <2>2. p = [i \in 1 .. 0 |-> IF i = 1 THEN ss[i] ELSE step(p[i - 1], i)]
      BY <2>1
    <2>. QED  BY <1>0, <2>2
  <1>2. ASSUME NEW m \in Nat \ {0}, m - 1 \in Good PROVE m \in Good
    <2>1. PICK p : FlattenedUpTo(ss, m - 1, p)
      BY <1>2
    <2>2. PICK q : q = [i \in 1 .. m |-> IF i = 1 THEN ss[i] ELSE step(p[i - 1], i)]
      OBVIOUS
    <2>3. \A i \in 1 .. m - 1 : q[i] = p[i]
      <3>1. \A i \in 1 .. m - 1 : i \in 1 .. m
        OBVIOUS
      <3>2. p = [i \in 1 .. m - 1 |-> IF i = 1 THEN ss[i] ELSE step(p[i - 1], i)]
        BY <1>0, <2>1
      <3>. QED  BY <2>2, <3>1, <3>2
    <2>4. q = [i \in 1 .. m |-> IF i = 1 THEN ss[i] ELSE step(q[i - 1], i)]
      <3>1. \A i \in 1 .. m : i # 1 => i - 1 \in 1 .. m - 1
        OBVIOUS
      <3>. HIDE DEF Good
      <3>2. [i \in 1 .. m |-> IF i = 1 THEN ss[i] ELSE step(p[i - 1], i)]
               = [i \in 1 .. m |-> IF i = 1 THEN ss[i] ELSE step(q[i - 1], i)]
        BY <2>3, <3>1
      <3>. QED  BY <2>2, <3>2
    <2>. QED  BY <1>0, <2>4
  <1>. HIDE DEF Good
  <1>3. \A n \in Nat : n \in Good
    BY <1>1, <1>2, AllNumbers
  <1>. QED  BY <1>3 DEF Good

LEMMA FlattenLists ==
    ASSUME NEW S, NEW ss \in Seq(Seq(S))
    PROVE  /\ FlattenSeq(ss) \in Seq(S)
           /\ Listed(FlattenSeq(ss)) = UNION {Listed(ss[n]) : n \in DOMAIN ss}
  <1>. DEFINE N == Len(ss)
              upTo(i) == UNION {Listed(ss[n]) : n \in 1 .. i}
  <1>1. N \in Nat /\ DOMAIN ss = 1 .. N /\ \A i \in 1 .. N : ss[i] \in Seq(S)
    OBVIOUS
  <1>2. CASE N = 0
    <2>1. ss = <<>> /\ <<>> \in Seq(S) /\ DOMAIN ss = {}
      BY <1>1, <1>2
    <2>2. FlattenSeq(ss) = <<>>
      BY <1>2, <2>1 DEF FlattenSeq
    <2>3. Listed(<<>>) = {}
      BY DEF Listed
    <2>. QED  BY <2>1, <2>2, <2>3
  <1>3. CASE N # 0
    <2>1. PICK p : FlattenedUpTo(ss, N, p) /\ FlattenSeq(ss) = p[N]
      <3>1. \E p : FlattenedUpTo(ss, N, p)
        BY <1>1, FlattenedExist
      <3>. QED  BY <1>3, <3>1 DEF FlattenSeq, FlattenedUpTo
    <2>2. \A i \in 1 .. N : p[i] = IF i = 1 THEN ss[i] ELSE p[i - 1] \o ss[i]
      BY <2>1 DEF FlattenedUpTo
    <2>. DEFINE Good == {i \in Nat : i # 0 => p[i] \in Seq(S) /\ Listed(p[i]) = upTo(i)}
    <2>3. 0 \in Good
      OBVIOUS
    <2>4. ASSUME NEW i \in 1 .. N, i - 1 \in Good PROVE i \in Good
      <3>1. i \in Nat /\ ss[i] \in Seq(S)
        BY <1>1
      <3>2. upTo(i) = upTo(i - 1) \cup Listed(ss[i])
        <4>1. 1 .. i = 1 .. i - 1 \cup {i}
          BY <3>1
        <4>. QED  BY <4>1
      <3>3. CASE i = 1
        <4>1. p[i] = ss[i]
          <5>. HIDE DEF Good, N
          <5>. QED  BY <2>2, <3>3
        <4>2. upTo(i - 1) = {}
          BY <3>3
        <4>. HIDE DEF upTo
        <4>. QED  BY <3>1, <3>2, <4>1, <4>2
      <3>4. CASE i # 1
        <4>1. p[i] = p[i - 1] \o ss[i]
          <5>. HIDE DEF Good, N
          <5>. QED  BY <2>2, <3>4
        <4>2. p[i - 1] \in Seq(S) /\ Listed(p[i - 1]) = upTo(i - 1)
          BY <2>4, <3>1, <3>4
        <4>. HIDE DEF upTo
        <4>3. p[i] \in Seq(S) /\ Listed(p[i]) = upTo(i)
          <5>. HIDE DEF Good, N
          <5>. QED  BY <3>1, <3>2, <4>1, <4>2, ConcatLists
        <4>. QED  BY <3>1, <4>3
      <3>. QED  BY <3>3, <3>4
    <2>5. N \in 0 .. N
      BY <1>1
    <2>6. N \in Good
      <3>. HIDE DEF Good, N
      <3>. QED  BY <1>1, <2>3, <2>4, <2>5, NumbersUpTo
    <2>7. p[N] \in Seq(S) /\ Listed(p[N]) = upTo(N)
      <3>. HIDE DEF upTo, N
      <3>. QED  BY <1>3, <2>6
    <2>. QED  BY <1>1, <2>1, <2>7
  <1>. QED  BY <1>2, <1>3

LEMMA ReachesAre ==
    ASSUME NEW entries \in Seq(Entry), NEW way \in Ways, NEW frontier \in Seq(Iris)
    PROVE  LET reaches == Reaches(entries, way, frontier)
           IN  /\ reaches \in Seq(Iris \X Iris)
               /\ {reaches[n][2] : n \in DOMAIN reaches} = Around(entries, way, Listed(frontier))
  <1>. DEFINE near(i) == Neighbours(entries, way, i)
              pairs(i) == [m \in DOMAIN near(i) |-> <<i, near(i)[m]>>]
              ss == [n \in DOMAIN frontier |-> pairs(frontier[n])]
              reaches == Reaches(entries, way, frontier)
  <1>1. \A i : near(i) \in Seq(Iris)
    <2>. SUFFICES ASSUME NEW i PROVE near(i) \in Seq(Iris)
      OBVIOUS
    <2>1. CASE way = "upstream"
      <3>1. OutEdges(entries, i) \in Seq(STRING \X Iris) /\ <<>> \in Seq(Iris)
        BY OutEdgesIn
      <3>2. PICK out : out = OutEdges(entries, i)
        OBVIOUS
      <3>3. [n \in DOMAIN out |-> out[n][2]] \in Seq(Iris)
        <4>1. out \in Seq(STRING \X Iris)
          BY <3>1, <3>2
        <4>2. Len(out) \in Nat /\ DOMAIN out = 1 .. Len(out)
          BY <4>1
        <4>3. \A n \in DOMAIN out : out[n] \in STRING \X Iris
          BY <4>1
        <4>4. \A n \in DOMAIN out : out[n][2] \in Iris
          BY <4>3
        <4>5. [n \in DOMAIN out |-> out[n][2]] \in [1 .. Len(out) -> Iris]
          BY <4>2, <4>4
        <4>. QED  BY <4>2, <4>5, SeqDef
      <3>. QED  BY <2>1, <3>1, <3>2, <3>3 DEF Neighbours, Upstream
    <2>2. CASE way # "upstream"
      BY <2>2, DownstreamIs DEF Neighbours
    <2>. QED  BY <2>1, <2>2
  <1>2. \A i : Steps(entries, way, i) = Listed(near(i))
    BY DEF Steps, Listed
  <1>. HIDE DEF near
  <1>3. ASSUME NEW i \in Iris
        PROVE  pairs(i) \in Seq(Iris \X Iris) /\ {r[2] : r \in Listed(pairs(i))} = Listed(near(i))
    <2>1. near(i) \in Seq(Iris)
      BY <1>1
    <2>2. pairs(i) \in Seq(Iris \X Iris)
      BY <2>1
    <2>3. DOMAIN pairs(i) = DOMAIN near(i) /\ \A m \in DOMAIN near(i) : pairs(i)[m] = <<i, near(i)[m]>>
      OBVIOUS
    <2>. HIDE DEF pairs
    <2>. QED  BY <2>2, <2>3 DEF Listed
  <1>. HIDE DEF pairs
  <1>4. ss \in Seq(Seq(Iris \X Iris))
    <2>1. PICK S : S = Seq(Iris \X Iris)
      OBVIOUS
    <2>2. Len(frontier) \in Nat /\ DOMAIN frontier = 1 .. Len(frontier)
          /\ \A n \in 1 .. Len(frontier) : frontier[n] \in Iris
      OBVIOUS
    <2>3. \A n \in 1 .. Len(frontier) : pairs(frontier[n]) \in S
      BY <1>3, <2>1, <2>2
    <2>4. ss \in [1 .. Len(frontier) -> S]
      BY <2>2, <2>3
    <2>. HIDE DEF ss
    <2>5. ss \in Seq(S)
      BY <2>2, <2>4, SeqDef
    <2>. QED  BY <2>1, <2>5
  <1>5. DOMAIN ss = DOMAIN frontier /\ \A n \in DOMAIN frontier :
            ss[n] = pairs(frontier[n]) /\ frontier[n] \in Iris
    OBVIOUS
  <1>6. reaches = FlattenSeq(ss)
    BY DEF Reaches, pairs, near
  <1>. HIDE DEF ss
  <1>7. reaches \in Seq(Iris \X Iris) /\ Listed(reaches) = UNION {Listed(ss[n]) : n \in DOMAIN ss}
    BY <1>4, <1>6, FlattenLists
  <1>. HIDE DEF reaches
  <1>8. {reaches[n][2] : n \in DOMAIN reaches} = {r[2] : r \in Listed(reaches)}
    BY DEF Listed
  <1>9. \A t : t \in {r[2] : r \in Listed(reaches)}
                  <=> \E n \in DOMAIN frontier : t \in Listed(near(frontier[n]))
    <2>1. \A r : r \in Listed(reaches) <=> \E n \in DOMAIN frontier : r \in Listed(pairs(frontier[n]))
      BY <1>5, <1>7
    <2>2. \A n \in DOMAIN frontier : \A t : t \in Listed(near(frontier[n]))
             <=> \E r \in Listed(pairs(frontier[n])) : t = r[2]
      BY <1>3, <1>5
    <2>. QED  BY <2>1, <2>2
  <1>10. \A t : t \in Around(entries, way, Listed(frontier))
                   <=> \E n \in DOMAIN frontier : t \in Listed(near(frontier[n]))
    BY <1>2 DEF Around, Listed
  <1>. QED  BY <1>7, <1>8, <1>9, <1>10 DEF reaches

-----------------------------------------------------------------------------
(* The graph: what placing the neighbours of a frontier does to a walk.        *)

Marks == [iri : Iris, direction : {"root"} \cup Ways, distance : Nat]

IsGraphWalk(w) ==
    /\ w = [placed |-> w.placed, tree |-> w.tree, capped |-> w.capped, reached |-> w.reached,
            frontier |-> w.frontier]
    /\ w.placed \in Seq(Marks) /\ w.capped \in BOOLEAN /\ w.reached \in Seq(Iris)
    /\ w.frontier \in [Ways -> Seq(Iris)]

PlacedIris(w) == {m.iri : m \in Listed(w.placed)}

PlacesTo(w, r, hop, ts, cap) ==
    /\ IsGraphWalk(r) /\ r.frontier = w.frontier
    /\ Listed(w.placed) \subseteq Listed(r.placed)
    /\ \A m \in Listed(r.placed) :
          m \in Listed(w.placed) \/ (m.iri \in ts \ PlacedIris(w) /\ m.distance = hop)
    /\ ~r.capped => /\ ~w.capped /\ PlacedIris(r) = PlacedIris(w) \cup ts
                    /\ Listed(r.reached) = Listed(w.reached) \cup (ts \ PlacedIris(w))
    /\ r.capped => Len(r.placed) >= cap
    /\ w.capped => r.placed = w.placed

LEMMA IsPlacedMeans ==
    ASSUME NEW w, NEW i
    PROVE  IsPlaced(w, i) <=> i \in PlacedIris(w)
  BY DEF IsPlaced, PlacedIris, Listed

LEMMA PlacesNone ==
    ASSUME NEW w, IsGraphWalk(w), NEW hop, NEW cap, w.capped => Len(w.placed) >= cap
    PROVE  PlacesTo(w, w, hop, {}, cap)
  BY DEF PlacesTo

LEMMA PlacesOne ==
    ASSUME NEW w, NEW p, NEW hop \in Nat, NEW ts, NEW cap \in Nat, PlacesTo(w, p, hop, ts, cap),
           NEW way \in Ways, NEW reach \in Iris \X Iris
    PROVE  PlacesTo(w, Place(p, way, hop, reach, cap), hop, ts \cup {reach[2]}, cap)
  <1>. DEFINE r == Place(p, way, hop, reach, cap)
              t == reach[2]
              n == Len(p.placed)
  <1>1. IsGraphWalk(p) /\ p.frontier = w.frontier /\ n \in Nat /\ t \in Iris
    BY DEF PlacesTo, IsGraphWalk
  <1>2. /\ Listed(w.placed) \subseteq Listed(p.placed)
        /\ \A m \in Listed(p.placed) :
              m \in Listed(w.placed) \/ (m.iri \in ts \ PlacedIris(w) /\ m.distance = hop)
        /\ ~p.capped => /\ ~w.capped /\ PlacedIris(p) = PlacedIris(w) \cup ts
                        /\ Listed(p.reached) = Listed(w.reached) \cup (ts \ PlacedIris(w))
        /\ p.capped => n >= cap
        /\ w.capped => p.placed = w.placed
    BY DEF PlacesTo
  <1>. HIDE DEF t, n
  <1>3. CASE IsPlaced(p, t)
    <2>1. r = p
      BY <1>3 DEF Place, t
    <2>2. t \in PlacedIris(p)
      BY <1>3, IsPlacedMeans
    <2>3. ~p.capped => t \in PlacedIris(w) \cup ts
      BY <1>2, <2>2
    <2>. HIDE DEF r
    <2>. QED  BY <1>1, <1>2, <2>1, <2>2, <2>3 DEF PlacesTo, t, n, r
  <1>4. CASE ~IsPlaced(p, t) /\ n >= cap
    <2>1. r = [p EXCEPT !.capped = TRUE]
      BY <1>4 DEF Place, t, n
    <2>. HIDE DEF r
    <2>2. /\ IsGraphWalk(r) /\ r.placed = p.placed /\ r.capped = TRUE /\ r.frontier = p.frontier
          /\ r.reached = p.reached
      BY <1>1, <2>1 DEF IsGraphWalk
    <2>. QED  BY <1>1, <1>2, <1>4, <2>2 DEF PlacesTo, t, n, r
  <1>5. CASE ~IsPlaced(p, t) /\ ~(n >= cap)
    <2>1. PICK mark : mark = [iri |-> t, direction |-> way, distance |-> hop]
      OBVIOUS
    <2>2. PICK more : more = p.tree \cup {IF way = "upstream" THEN reach ELSE <<reach[2], reach[1]>>}
      OBVIOUS
    <2>3. r = [p EXCEPT !.placed = Append(p.placed, mark), !.tree = more,
                        !.reached = Append(p.reached, t)]
      BY <1>5, <2>1, <2>2 DEF Place, t, n
    <2>4. mark \in Marks /\ mark.iri = t /\ mark.distance = hop
      BY <1>1, <2>1 DEF Marks
    <2>5. p.placed \in Seq(Marks) /\ p.reached \in Seq(Iris)
      BY <1>1 DEF IsGraphWalk
    <2>6. /\ Append(p.placed, mark) \in Seq(Marks)
          /\ Listed(Append(p.placed, mark)) = Listed(p.placed) \cup {mark}
      BY <2>4, <2>5, AppendLists
    <2>7. /\ Append(p.reached, t) \in Seq(Iris)
          /\ Listed(Append(p.reached, t)) = Listed(p.reached) \cup {t}
      BY <1>1, <2>5, AppendLists
    <2>. HIDE DEF r
    <2>8. /\ IsGraphWalk(r) /\ r.placed = Append(p.placed, mark) /\ r.capped = p.capped
          /\ r.frontier = p.frontier /\ r.reached = Append(p.reached, t)
      BY <1>1, <2>3, <2>6, <2>7 DEF IsGraphWalk
    <2>9. ~p.capped /\ ~w.capped
      BY <1>2, <1>5
    <2>10. t \notin PlacedIris(p) /\ PlacedIris(r) = PlacedIris(p) \cup {t}
      <3>1. t \notin PlacedIris(p)
        BY <1>5, IsPlacedMeans
      <3>. QED  BY <2>4, <2>6, <2>8, <3>1 DEF PlacedIris
    <2>11. /\ PlacedIris(p) = PlacedIris(w) \cup ts
           /\ Listed(p.reached) = Listed(w.reached) \cup (ts \ PlacedIris(w))
      BY <1>2, <2>9
    <2>12. /\ PlacedIris(r) = PlacedIris(w) \cup (ts \cup {t})
           /\ Listed(r.reached) = Listed(w.reached) \cup ((ts \cup {t}) \ PlacedIris(w))
           /\ t \in (ts \cup {t}) \ PlacedIris(w)
      BY <2>7, <2>8, <2>10, <2>11
    <2>13. Listed(r.placed) = Listed(p.placed) \cup {mark}
      BY <2>6, <2>8
    <2>14. \A m \in Listed(r.placed) :
              m \in Listed(w.placed) \/ (m.iri \in (ts \cup {t}) \ PlacedIris(w) /\ m.distance = hop)
      BY <1>2, <2>4, <2>12, <2>13
    <2>. QED  BY <1>1, <1>2, <2>8, <2>9, <2>12, <2>13, <2>14 DEF PlacesTo, t, r
  <1>. QED  BY <1>3, <1>4, <1>5

Moved(walk, way, hop, reaches, cap) ==
    LET after[n \in 0 .. Len(reaches)] ==
            IF n = 0 THEN [walk EXCEPT !.reached = <<>>]
            ELSE Place(after[n - 1], way, hop, reaches[n], cap)
    IN  after[Len(reaches)]

MovedUpTo(walk, way, hop, reaches, cap, n, p) ==
    p = [i \in 0 .. n |-> IF i = 0 THEN [walk EXCEPT !.reached = <<>>]
                          ELSE Place(p[i - 1], way, hop, reaches[i], cap)]

LEMMA MovedExists ==
    ASSUME NEW walk, NEW way, NEW hop, NEW reaches, NEW cap
    PROVE  \A n \in Nat : \E p : MovedUpTo(walk, way, hop, reaches, cap, n, p)
  <1>. DEFINE Good == {n \in Nat : \E p : MovedUpTo(walk, way, hop, reaches, cap, n, p)}
              w0 == [walk EXCEPT !.reached = <<>>]
              step(v, i) == Place(v, way, hop, reaches[i], cap)
  <1>0. \A n, p : MovedUpTo(walk, way, hop, reaches, cap, n, p)
                     <=> p = [i \in 0 .. n |-> IF i = 0 THEN w0 ELSE step(p[i - 1], i)]
    BY DEF MovedUpTo
  <1>. HIDE DEF w0, step
  <1>1. 0 \in Good
    <2>1. PICK p : p = [i \in 0 .. 0 |-> w0]
      OBVIOUS
    <2>2. p = [i \in 0 .. 0 |-> IF i = 0 THEN w0 ELSE step(p[i - 1], i)]
      BY <2>1
    <2>. QED  BY <1>0, <2>2
  <1>2. ASSUME NEW m \in Nat \ {0}, m - 1 \in Good PROVE m \in Good
    <2>1. PICK p : MovedUpTo(walk, way, hop, reaches, cap, m - 1, p)
      BY <1>2
    <2>2. PICK q : q = [i \in 0 .. m |-> IF i = 0 THEN w0 ELSE step(p[i - 1], i)]
      OBVIOUS
    <2>3. \A i \in 0 .. m - 1 : q[i] = p[i]
      <3>1. \A i \in 0 .. m - 1 : i \in 0 .. m
        OBVIOUS
      <3>2. p = [i \in 0 .. m - 1 |-> IF i = 0 THEN w0 ELSE step(p[i - 1], i)]
        BY <1>0, <2>1
      <3>. QED  BY <2>2, <3>1, <3>2
    <2>4. \A i \in 1 .. m : q[i - 1] = p[i - 1]
      BY <2>3
    <2>5. q = [i \in 0 .. m |-> IF i = 0 THEN w0 ELSE step(q[i - 1], i)]
      <3>1. \A i \in 0 .. m : i # 0 => i \in 1 .. m
        OBVIOUS
      <3>. HIDE DEF Good
      <3>2. [i \in 0 .. m |-> IF i = 0 THEN w0 ELSE step(p[i - 1], i)]
               = [i \in 0 .. m |-> IF i = 0 THEN w0 ELSE step(q[i - 1], i)]
        BY <2>4, <3>1
      <3>. QED  BY <2>2, <3>2
    <2>. QED  BY <1>0, <2>5
  <1>. HIDE DEF Good
  <1>3. \A n \in Nat : n \in Good
    BY <1>1, <1>2, AllNumbers
  <1>. QED  BY <1>3 DEF Good

LEMMA MovedTo ==
    ASSUME NEW w, IsGraphWalk(w), NEW way \in Ways, NEW hop \in Nat, NEW reaches \in Seq(Iris \X Iris),
           NEW cap \in Nat, w.capped => Len(w.placed) >= cap
    PROVE  PlacesTo([w EXCEPT !.reached = <<>>], Moved(w, way, hop, reaches, cap), hop,
                    {reaches[n][2] : n \in DOMAIN reaches}, cap)
  <1>. DEFINE N == Len(reaches)
              ts(i) == {reaches[n][2] : n \in 1 .. i}
              w0 == [w EXCEPT !.reached = <<>>]
  <1>1. N \in Nat /\ DOMAIN reaches = 1 .. N /\ \A i \in 1 .. N : reaches[i] \in Iris \X Iris
    OBVIOUS
  <1>2. PICK p : /\ MovedUpTo(w, way, hop, reaches, cap, N, p)
                 /\ Moved(w, way, hop, reaches, cap) = p[N]
    <2>1. \E p : MovedUpTo(w, way, hop, reaches, cap, N, p)
      BY <1>1, MovedExists
    <2>. QED  BY <2>1 DEF Moved, MovedUpTo
  <1>3. \A i \in 0 .. N : p[i] = IF i = 0 THEN w0 ELSE Place(p[i - 1], way, hop, reaches[i], cap)
    BY <1>2 DEF MovedUpTo
  <1>. DEFINE Good == {i \in Nat : PlacesTo(w0, p[i], hop, ts(i), cap)}
  <1>4. 0 \in Good
    <2>1. p[0] = w0
      <3>1. 0 \in 0 .. N
        BY <1>1
      <3>. HIDE DEF Good, N, w0
      <3>. QED  BY <1>3, <3>1
    <2>2. ts(0) = {}
      OBVIOUS
    <2>3. IsGraphWalk(w0) /\ w0.capped = w.capped /\ w0.placed = w.placed
      <3>1. <<>> \in Seq(Iris)
        OBVIOUS
      <3>2. w0 = [placed |-> w.placed, tree |-> w.tree, capped |-> w.capped, reached |-> <<>>,
                  frontier |-> w.frontier]
        <4>1. w = [placed |-> w.placed, tree |-> w.tree, capped |-> w.capped,
                   reached |-> w.reached, frontier |-> w.frontier]
          BY DEF IsGraphWalk
        <4>. HIDE DEF Good, ts, N
        <4>. QED  BY <4>1
      <3>. HIDE DEF w0, Good, ts, N
      <3>3. /\ w0.placed = w.placed /\ w0.tree = w.tree /\ w0.capped = w.capped
            /\ w0.reached = <<>> /\ w0.frontier = w.frontier
        BY <3>2
      <3>. QED  BY <3>1, <3>2, <3>3 DEF IsGraphWalk
    <2>. HIDE DEF ts, w0
    <2>. QED  BY <2>1, <2>2, <2>3, PlacesNone
  <1>5. ASSUME NEW i \in 1 .. N, i - 1 \in Good PROVE i \in Good
    <2>1. i \in 0 .. N /\ i # 0 /\ i \in Nat /\ 1 .. i = 1 .. i - 1 \cup {i}
      OBVIOUS
    <2>2. ts(i) = ts(i - 1) \cup {reaches[i][2]}
      BY <2>1
    <2>3. p[i] = Place(p[i - 1], way, hop, reaches[i], cap)
      <3>. HIDE DEF Good, N, w0
      <3>. QED  BY <1>3, <2>1
    <2>. HIDE DEF w0
    <2>4. PlacesTo(w0, p[i - 1], hop, ts(i - 1), cap)
      BY <1>5
    <2>5. reaches[i] \in Iris \X Iris
      BY <1>1
    <2>. HIDE DEF ts
    <2>6. PlacesTo(w0, p[i], hop, ts(i - 1) \cup {reaches[i][2]}, cap)
      <3>. HIDE DEF Good, N
      <3>. QED  BY <2>3, <2>4, <2>5, PlacesOne
    <2>. QED  BY <2>1, <2>2, <2>6
  <1>6. N \in 0 .. N
    BY <1>1
  <1>7. N \in Good
    <2>. HIDE DEF Good
    <2>. QED  BY <1>1, <1>4, <1>5, <1>6, NumbersUpTo
  <1>8. ts(N) = {reaches[n][2] : n \in DOMAIN reaches}
    BY <1>1
  <1>. QED  BY <1>2, <1>7, <1>8

-----------------------------------------------------------------------------
(* The graph: hop by hop. One side of the web is walked after the other, and   *)
(* the sides meet in the root only.                                            *)

IsTwoWeb(root, B, D, S) ==
    /\ \A way \in Ways : IsWeb(root, B[way], D[way], S[way])
    /\ \A i : i \in B["upstream"] /\ i \in B["downstream"] => i = root

\* What is within these distances on either side.
Holds(B, D, hs, P) == \A i : i \in P <=> \E way \in Ways : i \in B[way] /\ D[way][i] <= hs[way]

\* What the nodes at this distance on one side reach.
RingOf(B, D, S, way, h) == UNION {S[way][i] : i \in {j \in B[way] : D[way][j] = h}}
RingGrown(B, D, way, hs1, P, R) ==
    /\ \A i : i \in R => i \in B[way]
    /\ \A i : i \in R /\ i \notin P <=> i \in B[way] /\ D[way][i] = hs1[way]
    /\ Holds(B, D, hs1, P \cup R)

LEMMA RingGrows ==
    ASSUME NEW root, NEW B, NEW D, NEW S, IsTwoWeb(root, B, D, S),
           NEW hs \in [Ways -> Nat], NEW P, Holds(B, D, hs, P), NEW way \in Ways
    PROVE  RingGrown(B, D, way, [hs EXCEPT ![way] = hs[way] + 1], P, RingOf(B, D, S, way, hs[way]))
  <1>. DEFINE R == RingOf(B, D, S, way, hs[way])
  <1>0. R = UNION {S[way][i] : i \in {j \in B[way] : D[way][j] = hs[way]}}
    BY DEF RingOf
  <1>. HIDE DEF R
  <1>. DEFINE h == hs[way] + 1
              hs1 == [hs EXCEPT ![way] = h]
  <1>1. h \in Nat /\ hs[way] \in Nat /\ hs[way] = h - 1 /\ h # 0
    OBVIOUS
  <1>2. /\ root \in B[way]
        /\ \A i \in B[way] : D[way][i] \in Nat /\ (D[way][i] = 0 <=> i = root)
        /\ \A i \in B[way] : \A t \in S[way][i] : t \in B[way] /\ D[way][t] <= D[way][i] + 1
        /\ \A t \in B[way] : t # root =>
              \E i \in B[way] : D[way][i] + 1 = D[way][t] /\ t \in S[way][i]
    BY DEF IsTwoWeb, IsWeb
  <1>3. hs1[way] = h /\ \A v \in Ways : v # way => hs1[v] = hs[v]
    OBVIOUS
  <1>. HIDE DEF h, hs1
  <1>4. \A i \in R : i \in B[way] /\ D[way][i] <= h
    <2>. SUFFICES ASSUME NEW i \in R PROVE i \in B[way] /\ D[way][i] <= h
      OBVIOUS
    <2>1. PICK j \in B[way] : D[way][j] = hs[way] /\ i \in S[way][j]
      BY <1>0
    <2>. QED  BY <1>2, <2>1 DEF h
  <1>5. \A i \in B[way] : D[way][i] = h => i \in R
    <2>. SUFFICES ASSUME NEW i \in B[way], D[way][i] = h PROVE i \in R
      OBVIOUS
    <2>1. i # root
      BY <1>1, <1>2
    <2>2. PICK j \in B[way] : D[way][j] + 1 = D[way][i] /\ i \in S[way][j]
      BY <1>2, <2>1
    <2>3. D[way][j] = hs[way]
      BY <1>1, <1>2, <2>2
    <2>. QED  BY <1>0, <2>2, <2>3
  <1>6. \A i \in B[way] : D[way][i] <= hs[way] => i \in P
    BY DEF Holds
  <1>7. \A i \in B[way] : D[way][i] = h => i \notin P
    <2>. SUFFICES ASSUME NEW i \in B[way], D[way][i] = h, i \in P PROVE FALSE
      OBVIOUS
    <2>1. PICK v \in Ways : i \in B[v] /\ D[v][i] <= hs[v]
      BY DEF Holds
    <2>2. v # way
      BY <1>1, <2>1
    <2>3. i = root
      BY <2>1, <2>2 DEF Ways, IsTwoWeb
    <2>. QED  BY <1>1, <1>2, <2>3
  <1>8. \A i \in B[way] : D[way][i] <= h <=> (D[way][i] <= hs[way] \/ D[way][i] = h)
    BY <1>1, <1>2
  <1>9. R \ P = {i \in B[way] : D[way][i] = h}
    BY <1>4, <1>5, <1>6, <1>7, <1>8
  <1>10. ASSUME NEW i, i \in P \cup R
         PROVE  \E v \in Ways : i \in B[v] /\ D[v][i] <= hs1[v]
    <2>1. CASE i \in P
      <3>1. PICK v \in Ways : i \in B[v] /\ D[v][i] <= hs[v]
        BY <2>1 DEF Holds
      <3>2. CASE v = way
        BY <1>3, <1>8, <3>1, <3>2
      <3>3. CASE v # way
        BY <1>3, <3>1, <3>3
      <3>. QED  BY <3>2, <3>3
    <2>2. CASE i \in R
      BY <1>3, <1>4, <2>2
    <2>. QED  BY <1>10, <2>1, <2>2
  <1>11. ASSUME NEW i, NEW v \in Ways, i \in B[v], D[v][i] <= hs1[v]
         PROVE  i \in P \cup R
    <2>1. CASE v = way
      BY <1>3, <1>5, <1>6, <1>8, <1>11, <2>1
    <2>2. CASE v # way
      BY <1>3, <1>11, <2>2 DEF Holds
    <2>. QED  BY <2>1, <2>2
  <1>12. Holds(B, D, hs1, P \cup R)
    BY <1>10, <1>11 DEF Holds
  <1>. QED  BY <1>3, <1>4, <1>9, <1>12 DEF RingGrown, h, hs1, R

Sides(entries, root) == [way \in Ways |-> Reach(entries, way, root)]
FarOn(entries, root) == [way \in Ways |-> Far(entries, way, root)]
NextOn(entries, root) == [way \in Ways |-> Near(entries, way, root)]
FarFrom(entries, root, i) ==
    IF i \in Sides(entries, root)["upstream"] THEN FarOn(entries, root)["upstream"][i]
    ELSE FarOn(entries, root)["downstream"][i]

LEMMA SidesAreWebs ==
    ASSUME NEW entries \in Seq(Entry), Acyclic(entries), NEW root \in EntryIris(entries)
    PROVE  /\ root \in Iris
           /\ IsTwoWeb(root, Sides(entries, root), FarOn(entries, root), NextOn(entries, root))
           /\ \A way \in Ways : \A i \in Sides(entries, root)[way] :
                 /\ i \in Iris /\ FarOn(entries, root)[way][i] \in Nat
                 /\ NextOn(entries, root)[way][i] = Steps(entries, way, i)
                 /\ FarFrom(entries, root, i) = FarOn(entries, root)[way][i]
  <1>. DEFINE B == Sides(entries, root)
              D == FarOn(entries, root)
              S == NextOn(entries, root)
  <1>1. root \in Iris
    <2>1. \A n \in DOMAIN entries : entries[n] \in Entry
      OBVIOUS
    <2>. QED  BY <2>1 DEF EntryIris, Entry
  <1>2. \A way \in Ways : /\ B[way] = Reach(entries, way, root)
                          /\ D[way] = Far(entries, way, root) /\ S[way] = Near(entries, way, root)
    BY DEF Sides, FarOn, NextOn
  <1>. HIDE DEF B, D, S
  <1>3. \A way \in Ways : IsWeb(root, B[way], D[way], S[way]) /\ B[way] \subseteq Iris
    BY <1>1, <1>2, ReachIsWeb
  <1>4. "upstream" \in Ways /\ "downstream" \in Ways
    BY DEF Ways
  <1>5. \A i : i \in B["upstream"] /\ i \in B["downstream"] => i = root
    BY <1>2, <1>4, SidesApart
  <1>6. \A way \in Ways : \A i \in B[way] : S[way][i] = Steps(entries, way, i)
    BY <1>2 DEF Near
  <1>7. \A way \in Ways : D[way][root] = 0 /\ \A i \in B[way] : D[way][i] \in Nat
    BY <1>3 DEF IsWeb
  <1>8. ASSUME NEW way \in Ways, NEW i \in B[way]
        PROVE  FarFrom(entries, root, i) = D[way][i]
    <2>1. FarFrom(entries, root, i) = IF i \in B["upstream"] THEN D["upstream"][i]
                                      ELSE D["downstream"][i]
      BY DEF FarFrom, B, D
    <2>2. CASE way = "upstream"
      BY <1>8, <2>1, <2>2
    <2>3. CASE way = "downstream"
      BY <1>4, <1>5, <1>7, <1>8, <2>1, <2>3
    <2>. QED  BY <2>2, <2>3 DEF Ways
  <1>9. IsTwoWeb(root, B, D, S)
    BY <1>3, <1>5 DEF IsTwoWeb
  <1>. QED  BY <1>1, <1>3, <1>6, <1>7, <1>8, <1>9 DEF B, D, S

\* The graph has been walked so many hops on either side; nothing is farther than top.
GraphInv(entries, root, cap, hs, top, w) ==
    LET P == PlacedIris(w)
        B == Sides(entries, root)
        D == FarOn(entries, root)
    IN  /\ IsGraphWalk(w)
        /\ \A m \in Listed(w.placed) :
              /\ \E way \in Ways : m.iri \in B[way]
              /\ m.distance = FarFrom(entries, root, m.iri) /\ m.distance <= top
        /\ ~w.capped => /\ Holds(B, D, hs, P)
                        /\ \A way \in Ways :
                              Listed(w.frontier[way]) = {i \in B[way] : D[way][i] = hs[way]}
        /\ w.capped => /\ Len(w.placed) >= cap
                       /\ \A way \in Ways : \A i \in B[way] \ P : \A m \in Listed(w.placed) :
                             m.distance <= FarFrom(entries, root, i)

LEMMA HopIs ==
    ASSUME NEW entries, NEW w, NEW way, NEW hop, NEW cap
    PROVE  LET moved == Moved(w, way, hop, Reaches(entries, way, w.frontier[way]), cap)
           IN  Hop(entries, w, way, hop, cap) = [moved EXCEPT !.frontier[way] = moved.reached]
  BY DEF Hop, Moved

LEMMA HopKeeps ==
    ASSUME NEW entries \in Seq(Entry), Acyclic(entries), NEW root \in EntryIris(entries),
           NEW cap \in Nat, NEW hs \in [Ways -> Nat], NEW top \in Nat, NEW w,
           GraphInv(entries, root, cap, hs, top, w), NEW way \in Ways,
           NEW hop \in Nat, hop = hs[way] + 1, top <= hop, \A v \in Ways : hop <= hs[v] + 1
    PROVE  GraphInv(entries, root, cap, [hs EXCEPT ![way] = hs[way] + 1], hop,
                    Hop(entries, w, way, hop, cap))
  <1>. DEFINE B == Sides(entries, root)
              D == FarOn(entries, root)
              S == NextOn(entries, root)
              far(i) == FarFrom(entries, root, i)
              P == PlacedIris(w)
              R == Around(entries, way, Listed(w.frontier[way]))
              w0 == [w EXCEPT !.reached = <<>>]
              r == Moved(w, way, hop, Reaches(entries, way, w.frontier[way]), cap)
              hs1 == [hs EXCEPT ![way] = hs[way] + 1]
              x == Hop(entries, w, way, hop, cap)
  <1>1. /\ IsTwoWeb(root, B, D, S)
        /\ \A v \in Ways : \A i \in B[v] : /\ i \in Iris /\ D[v][i] \in Nat
                                           /\ S[v][i] = Steps(entries, v, i) /\ far(i) = D[v][i]
    BY SidesAreWebs
  <1>. HIDE DEF B, D, S, far
  <1>2. /\ IsGraphWalk(w)
        /\ \A m \in Listed(w.placed) :
              /\ \E v \in Ways : m.iri \in B[v]
              /\ m.distance = far(m.iri) /\ m.distance <= top
        /\ ~w.capped => /\ Holds(B, D, hs, P)
                        /\ \A v \in Ways : Listed(w.frontier[v]) = {i \in B[v] : D[v][i] = hs[v]}
        /\ w.capped => /\ Len(w.placed) >= cap
                       /\ \A v \in Ways : \A i \in B[v] \ P : \A m \in Listed(w.placed) :
                             m.distance <= far(i)
    BY DEF GraphInv, B, D, far
  <1>3. \A m \in Listed(w.placed) : m \in Marks
    BY <1>2 DEF IsGraphWalk, Listed
  <1>4. /\ w0.placed = w.placed /\ w0.capped = w.capped /\ w0.reached = <<>>
        /\ w0.frontier = w.frontier /\ w.frontier[way] \in Seq(Iris)
    <2>1. w = [placed |-> w.placed, tree |-> w.tree, capped |-> w.capped,
               reached |-> w.reached, frontier |-> w.frontier] /\ w.frontier \in [Ways -> Seq(Iris)]
      BY <1>2 DEF IsGraphWalk
    <2>. HIDE DEF P, R, r, hs1, x
    <2>. QED  BY <2>1
  <1>5. PlacesTo(w0, r, hop, R, cap)
    <2>. DEFINE reaches == Reaches(entries, way, w.frontier[way])
    <2>1. reaches \in Seq(Iris \X Iris) /\ {reaches[n][2] : n \in DOMAIN reaches} = R
      BY <1>4, ReachesAre
    <2>. HIDE DEF reaches, R
    <2>2. PlacesTo([w EXCEPT !.reached = <<>>], Moved(w, way, hop, reaches, cap), hop,
                   {reaches[n][2] : n \in DOMAIN reaches}, cap)
      BY <1>2, <2>1, MovedTo
    <2>. QED  BY <2>1, <2>2 DEF reaches
  <1>. HIDE DEF w0, r, R
  <1>6. PlacedIris(w0) = P /\ Listed(<<>>) = {}
    BY <1>4 DEF PlacedIris, Listed
  <1>7. /\ IsGraphWalk(r) /\ r.frontier = w.frontier
        /\ Listed(w.placed) \subseteq Listed(r.placed)
        /\ \A m \in Listed(r.placed) :
              m \in Listed(w.placed) \/ (m.iri \in R \ P /\ m.distance = hop)
        /\ ~r.capped => /\ ~w.capped /\ PlacedIris(r) = P \cup R /\ Listed(r.reached) = R \ P
        /\ r.capped => Len(r.placed) >= cap
        /\ w.capped => r.placed = w.placed
    BY <1>4, <1>5, <1>6 DEF PlacesTo
  <1>8. /\ x = [r EXCEPT !.frontier[way] = r.reached]
    BY HopIs DEF x, r
  <1>. HIDE DEF x
  <1>9. /\ IsGraphWalk(x) /\ x.placed = r.placed /\ x.capped = r.capped
        /\ x.frontier[way] = r.reached /\ \A v \in Ways : v # way => x.frontier[v] = w.frontier[v]
    <2>1. /\ r = [placed |-> r.placed, tree |-> r.tree, capped |-> r.capped,
                  reached |-> r.reached, frontier |-> r.frontier]
          /\ r.placed \in Seq(Marks) /\ r.capped \in BOOLEAN /\ r.reached \in Seq(Iris)
          /\ r.frontier \in [Ways -> Seq(Iris)]
      BY <1>7 DEF IsGraphWalk
    <2>2. PICK f : f = [r.frontier EXCEPT ![way] = r.reached]
      OBVIOUS
    <2>3. f \in [Ways -> Seq(Iris)] /\ f[way] = r.reached
          /\ \A v \in Ways : v # way => f[v] = r.frontier[v]
      BY <2>1, <2>2
    <2>4. x = [r EXCEPT !.frontier = f]
      BY <1>8, <2>2
    <2>5. /\ x.placed = r.placed /\ x.tree = r.tree /\ x.capped = r.capped
          /\ x.reached = r.reached /\ x.frontier = f
          /\ x = [placed |-> r.placed, tree |-> r.tree, capped |-> r.capped,
                  reached |-> r.reached, frontier |-> f]
      BY <2>1, <2>4
    <2>6. IsGraphWalk(x)
      BY <2>1, <2>3, <2>5 DEF IsGraphWalk
    <2>. QED  BY <1>7, <2>3, <2>5, <2>6
  <1>10. PlacedIris(x) = PlacedIris(r) /\ P \subseteq PlacedIris(x)
    BY <1>7, <1>9 DEF PlacedIris
  <1>11. hs1 \in [Ways -> Nat] /\ hs1[way] = hop /\ \A v \in Ways : v # way => hs1[v] = hs[v]
    OBVIOUS
  <1>12. ~w.capped => /\ R \subseteq B[way] /\ R \ P = {i \in B[way] : D[way][i] = hop}
                      /\ Holds(B, D, hs1, P \cup R)
    <2>. SUFFICES ASSUME ~w.capped
                  PROVE  /\ R \subseteq B[way] /\ R \ P = {i \in B[way] : D[way][i] = hs[way] + 1}
                         /\ Holds(B, D, hs1, P \cup R)
      OBVIOUS
    <2>. HIDE DEF P
    <2>1. Holds(B, D, hs, P) /\ Listed(w.frontier[way]) = {i \in B[way] : D[way][i] = hs[way]}
      BY <1>2
    <2>2. R = RingOf(B, D, S, way, hs[way])
      <3>1. R = UNION {Steps(entries, way, i) : i \in {j \in B[way] : D[way][j] = hs[way]}}
        BY <2>1 DEF R, Around
      <3>2. \A i \in {j \in B[way] : D[way][j] = hs[way]} : S[way][i] = Steps(entries, way, i)
        BY <1>1
      <3>. QED  BY <3>1, <3>2 DEF RingOf
    <2>3. RingGrown(B, D, way, hs1, P, R)
      BY <1>1, <2>1, <2>2, RingGrows
    <2>. HIDE DEF hs1
    <2>4. hs1[way] = hs[way] + 1
      BY <1>11
    <2>. QED  BY <2>3, <2>4 DEF RingGrown
  <1>. HIDE DEF P, hs1
  <1>13. ASSUME NEW m \in Listed(x.placed)
         PROVE  /\ \E v \in Ways : m.iri \in B[v]
                /\ m.distance = far(m.iri) /\ m.distance <= hop
    <2>1. m \in Listed(r.placed)
      BY <1>9
    <2>2. CASE m \in Listed(w.placed)
      <3>1. m.distance \in Nat
        BY <1>3, <2>2 DEF Marks
      <3>. QED  BY <1>2, <2>2, <3>1
    <2>3. CASE m \notin Listed(w.placed)
      <3>1. m.iri \in R \ P /\ m.distance = hop
        BY <1>7, <2>1, <2>3
      <3>2. ~w.capped
        BY <1>7, <2>1, <2>3
      <3>3. m.iri \in B[way] /\ D[way][m.iri] = hop
        BY <1>12, <3>1, <3>2
      <3>. QED  BY <1>1, <3>1, <3>3
    <2>. QED  BY <2>2, <2>3
  <1>14. ~x.capped => /\ Holds(B, D, hs1, PlacedIris(x))
                      /\ \A v \in Ways : Listed(x.frontier[v]) = {i \in B[v] : D[v][i] = hs1[v]}
    <2>. SUFFICES ASSUME ~x.capped
                  PROVE  /\ Holds(B, D, hs1, PlacedIris(x))
                         /\ \A v \in Ways : Listed(x.frontier[v]) = {i \in B[v] : D[v][i] = hs1[v]}
      OBVIOUS
    <2>1. ~w.capped /\ PlacedIris(x) = P \cup R /\ Listed(r.reached) = R \ P
      BY <1>7, <1>9, <1>10
    <2>2. Holds(B, D, hs1, PlacedIris(x))
      BY <1>12, <2>1
    <2>3. ASSUME NEW v \in Ways PROVE Listed(x.frontier[v]) = {i \in B[v] : D[v][i] = hs1[v]}
      <3>1. CASE v = way
        BY <1>9, <1>11, <1>12, <2>1, <3>1
      <3>2. CASE v # way
        <4>1. x.frontier[v] = w.frontier[v] /\ hs1[v] = hs[v]
          BY <1>9, <1>11, <3>2
        <4>. QED  BY <1>2, <2>1, <4>1
      <3>. QED  BY <3>1, <3>2
    <2>. QED  BY <2>2, <2>3
  <1>15. ASSUME x.capped, NEW v \in Ways, NEW i \in B[v] \ PlacedIris(x), NEW m \in Listed(x.placed)
         PROVE  m.distance <= far(i)
    <2>1. i \in B[v] \ P
      BY <1>10
    <2>2. CASE w.capped
      BY <1>2, <1>7, <1>9, <2>1, <2>2
    <2>3. CASE ~w.capped
      <3>1. Holds(B, D, hs, P)
        BY <1>2, <2>3
      <3>2. ~(D[v][i] <= hs[v])
        BY <2>1, <3>1 DEF Holds
      <3>3. D[v][i] \in Nat /\ far(i) = D[v][i] /\ hs[v] \in Nat /\ hop <= hs[v] + 1
        BY <1>1, <2>1
      <3>4. hop <= far(i)
        BY <3>2, <3>3
      <3>5. m.distance <= hop /\ m.distance \in Nat
        <4>1. m \in Marks
          BY <1>9 DEF IsGraphWalk, Listed
        <4>. QED  BY <1>13, <4>1 DEF Marks
      <3>. QED  BY <3>3, <3>4, <3>5
    <2>. QED  BY <2>2, <2>3
  <1>16. x.capped => Len(x.placed) >= cap
    BY <1>7, <1>9
  <1>17. GraphInv(entries, root, cap, hs1, hop, x)
    BY <1>9, <1>13, <1>14, <1>15, <1>16 DEF GraphInv, B, D, far
  <1>. QED  BY <1>17 DEF hs1, x

-----------------------------------------------------------------------------
(* The graph: the whole walk, and what its answer says.                        *)

GraphStart(root) ==
    [placed |-> <<[iri |-> root, direction |-> "root", distance |-> 0]>>,
     tree |-> {}, capped |-> FALSE, reached |-> <<>>,
     frontier |-> [upstream |-> <<root>>, downstream |-> <<root>>]]
Evenly(h) == [way \in Ways |-> h]
TwoHops(entries, w, hop, cap) ==
    Hop(entries, Hop(entries, w, "upstream", hop, cap), "downstream", hop, cap)

WalkedUpTo(entries, root, cap, n, p) ==
    p = [i \in 0 .. n |-> IF i = 0 THEN GraphStart(root) ELSE TwoHops(entries, p[i - 1], i, cap)]

LEMMA WalkExists ==
    ASSUME NEW entries, NEW root, NEW cap
    PROVE  \A n \in Nat : \E p : WalkedUpTo(entries, root, cap, n, p)
  <1>. DEFINE Good == {n \in Nat : \E p : WalkedUpTo(entries, root, cap, n, p)}
              w0 == GraphStart(root)
              step(v, i) == TwoHops(entries, v, i, cap)
  <1>0. \A n, p : WalkedUpTo(entries, root, cap, n, p)
                     <=> p = [i \in 0 .. n |-> IF i = 0 THEN w0 ELSE step(p[i - 1], i)]
    BY DEF WalkedUpTo
  <1>. HIDE DEF w0, step
  <1>1. 0 \in Good
    <2>1. PICK p : p = [i \in 0 .. 0 |-> w0]
      OBVIOUS
    <2>2. p = [i \in 0 .. 0 |-> IF i = 0 THEN w0 ELSE step(p[i - 1], i)]
      BY <2>1
    <2>. QED  BY <1>0, <2>2
  <1>2. ASSUME NEW m \in Nat \ {0}, m - 1 \in Good PROVE m \in Good
    <2>1. PICK p : WalkedUpTo(entries, root, cap, m - 1, p)
      BY <1>2
    <2>2. PICK q : q = [i \in 0 .. m |-> IF i = 0 THEN w0 ELSE step(p[i - 1], i)]
      OBVIOUS
    <2>3. \A i \in 0 .. m - 1 : q[i] = p[i]
      <3>1. \A i \in 0 .. m - 1 : i \in 0 .. m
        OBVIOUS
      <3>2. p = [i \in 0 .. m - 1 |-> IF i = 0 THEN w0 ELSE step(p[i - 1], i)]
        BY <1>0, <2>1
      <3>. QED  BY <2>2, <3>1, <3>2
    <2>4. \A i \in 1 .. m : q[i - 1] = p[i - 1]
      BY <2>3
    <2>5. q = [i \in 0 .. m |-> IF i = 0 THEN w0 ELSE step(q[i - 1], i)]
      <3>1. \A i \in 0 .. m : i # 0 => i \in 1 .. m
        OBVIOUS
      <3>. HIDE DEF Good
      <3>2. [i \in 0 .. m |-> IF i = 0 THEN w0 ELSE step(p[i - 1], i)]
               = [i \in 0 .. m |-> IF i = 0 THEN w0 ELSE step(q[i - 1], i)]
        BY <2>4, <3>1
      <3>. QED  BY <2>2, <3>2
    <2>. QED  BY <1>0, <2>5
  <1>. HIDE DEF Good
  <1>3. \A n \in Nat : n \in Good
    BY <1>1, <1>2, AllNumbers
  <1>. QED  BY <1>3 DEF Good

LEMMA GraphBegins ==
    ASSUME NEW entries \in Seq(Entry), Acyclic(entries), NEW root \in EntryIris(entries),
           NEW cap \in Nat
    PROVE  GraphInv(entries, root, cap, Evenly(0), 0, GraphStart(root))
  <1>. DEFINE B == Sides(entries, root)
              D == FarOn(entries, root)
              w == GraphStart(root)
  <1>1. PICK mark : mark = [iri |-> root, direction |-> "root", distance |-> 0]
    OBVIOUS
  <1>2. PICK f : f = [upstream |-> <<root>>, downstream |-> <<root>>]
    OBVIOUS
  <1>3. root \in Iris /\ \A way \in Ways : root \in B[way] /\ D[way][root] = 0
                           /\ \A i \in B[way] : D[way][i] \in Nat /\ (D[way][i] = 0 <=> i = root)
    <2>1. root \in Iris /\ IsTwoWeb(root, B, D, NextOn(entries, root))
      BY SidesAreWebs
    <2>. HIDE DEF B, D
    <2>. QED  BY <2>1 DEF IsTwoWeb, IsWeb
  <1>4. FarFrom(entries, root, root) = 0
    <2>1. "upstream" \in Ways
      BY DEF Ways
    <2>. QED  BY <1>3, <2>1, SidesAreWebs
  <1>5. <<root>> \in Seq(Iris) /\ Listed(<<root>>) = {root} /\ <<mark>> \in Seq(Marks)
        /\ Listed(<<mark>>) = {mark} /\ <<>> \in Seq(Iris)
    <2>1. mark \in Marks
      BY <1>1, <1>3 DEF Marks
    <2>. QED  BY <1>3, <2>1 DEF Listed
  <1>6. f \in [Ways -> Seq(Iris)] /\ \A way \in Ways : f[way] = <<root>>
    <2>1. DOMAIN f = Ways /\ f["upstream"] = <<root>> /\ f["downstream"] = <<root>>
      BY <1>2 DEF Ways
    <2>2. \A way \in Ways : f[way] = <<root>>
      BY <2>1 DEF Ways
    <2>3. f = [way \in Ways |-> <<root>>]
      BY <1>2, <2>1 DEF Ways
    <2>. QED  BY <1>5, <2>2, <2>3
  <1>7. /\ w = [placed |-> <<mark>>, tree |-> {}, capped |-> FALSE, reached |-> <<>>, frontier |-> f]
    BY <1>1, <1>2 DEF GraphStart
  <1>. HIDE DEF w
  <1>8. /\ w.placed = <<mark>> /\ w.tree = {} /\ w.capped = FALSE /\ w.reached = <<>>
        /\ w.frontier = f
    BY <1>7
  <1>9. IsGraphWalk(w) /\ PlacedIris(w) = {root}
    <2>1. IsGraphWalk(w)
      BY <1>5, <1>6, <1>7, <1>8 DEF IsGraphWalk
    <2>2. PlacedIris(w) = {root}
      BY <1>1, <1>5, <1>8 DEF PlacedIris
    <2>. QED  BY <2>1, <2>2
  <1>. HIDE DEF B, D
  <1>10. "upstream" \in Ways /\ \A way \in Ways : Evenly(0)[way] = 0
    BY DEF Ways, Evenly
  <1>11. Holds(B, D, Evenly(0), {root})
    <2>1. ASSUME NEW i, NEW way \in Ways, i \in B[way], D[way][i] <= 0 PROVE i = root
      <3>1. D[way][i] \in Nat /\ (D[way][i] = 0 <=> i = root)
        BY <1>3, <2>1
      <3>. QED  BY <2>1, <3>1
    <2>2. \A i : (\E way \in Ways : i \in B[way] /\ D[way][i] <= Evenly(0)[way]) => i = root
      BY <1>10, <2>1
    <2>3. \E way \in Ways : root \in B[way] /\ D[way][root] <= Evenly(0)[way]
      BY <1>3, <1>10
    <2>. QED  BY <2>2, <2>3 DEF Holds
  <1>12. \A way \in Ways : Listed(w.frontier[way]) = {i \in B[way] : D[way][i] = Evenly(0)[way]}
    BY <1>3, <1>5, <1>6, <1>8, <1>10
  <1>13. \A m \in Listed(w.placed) :
            /\ \E way \in Ways : m.iri \in B[way]
            /\ m.distance = FarFrom(entries, root, m.iri) /\ m.distance <= 0
    BY <1>1, <1>3, <1>4, <1>5, <1>8, <1>10
  <1>14. GraphInv(entries, root, cap, Evenly(0), 0, w)
    BY <1>8, <1>9, <1>11, <1>12, <1>13 DEF GraphInv, B, D
  <1>. QED  BY <1>14 DEF w

LEMMA TwoHopsKeep ==
    ASSUME NEW entries \in Seq(Entry), Acyclic(entries), NEW root \in EntryIris(entries),
           NEW cap \in Nat, NEW h \in Nat, NEW hop \in Nat, hop = h + 1, NEW w,
           GraphInv(entries, root, cap, Evenly(h), h, w)
    PROVE  GraphInv(entries, root, cap, Evenly(hop), hop, TwoHops(entries, w, hop, cap))
  <1>1. PICK hs : hs = Evenly(h)
    OBVIOUS
  <1>2. PICK hs1 : hs1 = [hs EXCEPT !["upstream"] = hs["upstream"] + 1]
    OBVIOUS
  <1>3. PICK hs2 : hs2 = [hs1 EXCEPT !["downstream"] = hs1["downstream"] + 1]
    OBVIOUS
  <1>4. "upstream" \in Ways /\ "downstream" \in Ways /\ \A v \in Ways : v = "upstream" \/ v = "downstream"
    BY DEF Ways
  <1>5. /\ hs \in [Ways -> Nat] /\ \A v \in Ways : hs[v] = h
    BY <1>1 DEF Evenly
  <1>6. hs1 \in [Ways -> Nat] /\ hs1["upstream"] = hop /\ hs1["downstream"] = h
    BY <1>2, <1>4, <1>5
  <1>7. hs2 \in [Ways -> Nat] /\ hs2["upstream"] = hop /\ hs2["downstream"] = hop
    BY <1>3, <1>4, <1>6
  <1>8. hs2 = Evenly(hop)
    BY <1>4, <1>7 DEF Evenly
  <1>9. PICK x : x = Hop(entries, w, "upstream", hop, cap)
    OBVIOUS
  <1>10. GraphInv(entries, root, cap, hs1, hop, x)
    <2>1. hop = hs["upstream"] + 1 /\ h <= hop /\ \A v \in Ways : hop <= hs[v] + 1
      BY <1>4, <1>5
    <2>. QED  BY <1>1, <1>2, <1>4, <1>5, <1>9, <2>1, HopKeeps
  <1>11. GraphInv(entries, root, cap, hs2, hop, Hop(entries, x, "downstream", hop, cap))
    <2>1. hop = hs1["downstream"] + 1 /\ hop <= hop
      BY <1>6
    <2>2. \A v \in Ways : hop <= hs1[v] + 1
      BY <1>4, <1>6
    <2>. QED  BY <1>3, <1>4, <1>6, <1>10, <2>1, <2>2, HopKeeps
  <1>. QED  BY <1>8, <1>9, <1>11 DEF TwoHops

LEMMA WalkEnds ==
    ASSUME NEW entries \in Seq(Entry), Acyclic(entries), NEW root \in EntryIris(entries),
           NEW cap \in Nat, NEW depth \in Nat
    PROVE  GraphInv(entries, root, cap, Evenly(depth), depth, Walked(entries, root, depth, cap))
  <1>2. PICK p : /\ WalkedUpTo(entries, root, cap, depth, p)
                 /\ Walked(entries, root, depth, cap) = p[depth]
    <2>1. \E p : WalkedUpTo(entries, root, cap, depth, p)
      BY WalkExists
    <2>. QED  BY <2>1 DEF Walked, WalkedUpTo, GraphStart, TwoHops
  <1>3. \A i \in 0 .. depth : p[i] = IF i = 0 THEN GraphStart(root)
                                     ELSE TwoHops(entries, p[i - 1], i, cap)
    BY <1>2 DEF WalkedUpTo
  <1>. DEFINE Good == {i \in Nat : GraphInv(entries, root, cap, Evenly(i), i, p[i])}
  <1>4. 0 \in Good
    <2>1. p[0] = GraphStart(root)
      <3>1. 0 \in 0 .. depth
        OBVIOUS
      <3>. HIDE DEF Good
      <3>. QED  BY <1>3, <3>1
    <2>. QED  BY <2>1, GraphBegins
  <1>5. ASSUME NEW i \in 1 .. depth, i - 1 \in Good PROVE i \in Good
    <2>. DEFINE h == i - 1
    <2>1. h \in Nat /\ i \in 0 .. depth /\ i # 0 /\ i \in Nat /\ i = h + 1
      OBVIOUS
    <2>2. p[i] = TwoHops(entries, p[h], i, cap)
      <3>. HIDE DEF Good
      <3>. QED  BY <1>3, <2>1
    <2>3. GraphInv(entries, root, cap, Evenly(h), h, p[h])
      BY <1>5
    <2>. HIDE DEF h, Good
    <2>4. GraphInv(entries, root, cap, Evenly(i), i, p[i])
      BY <2>1, <2>2, <2>3, TwoHopsKeep
    <2>. QED  BY <2>1, <2>4 DEF Good
  <1>6. depth \in 0 .. depth
    OBVIOUS
  <1>7. depth \in Good
    <2>. HIDE DEF Good
    <2>. QED  BY <1>4, <1>5, <1>6, NumbersUpTo
  <1>. QED  BY <1>2, <1>7

LEMMA GraphHolds ==
    ASSUME NEW entries \in Seq(Entry), Acyclic(entries), NEW root \in EntryIris(entries),
           NEW depth \in Nat, NEW nodeCap \in Nat, NEW edgeCap
    PROVE  ShowsJust(BuildGraph(entries, root, depth, nodeCap, edgeCap),
                     Ball(entries, "upstream", root), Ball(entries, "downstream", root))
  <1>. DEFINE graph == BuildGraph(entries, root, depth, nodeCap, edgeCap)
              w == Walked(entries, root, depth, nodeCap)
              P == PlacedIris(w)
              B == Sides(entries, root)
              D == FarOn(entries, root)
              S == NextOn(entries, root)
              hs == Evenly(depth)
              far(i) == FarFrom(entries, root, i)
              up == Ball(entries, "upstream", root)
              down == Ball(entries, "downstream", root)
              dist(i) == IF i \in Whole(up) THEN Dist(up, i) ELSE Dist(down, i)
  <1>1. GraphInv(entries, root, nodeCap, hs, depth, w)
    BY WalkEnds
  <1>2. /\ root \in Iris /\ IsTwoWeb(root, B, D, S)
        /\ \A v \in Ways : \A i \in B[v] : /\ i \in Iris /\ D[v][i] \in Nat
                                           /\ S[v][i] = Steps(entries, v, i) /\ far(i) = D[v][i]
    BY SidesAreWebs
  <1>3. graph.nodes = w.placed
        /\ graph.truncated = (DepthCut(entries, w) \/ w.capped
                                 \/ Len(EdgesAmong(entries, w)) > edgeCap)
    BY DEF BuildGraph, GraphOf
  <1>4. "upstream" \in Ways /\ "downstream" \in Ways
        /\ \A v \in Ways : v = "upstream" \/ v = "downstream"
    BY DEF Ways
  <1>5. B["upstream"] = Whole(up) /\ B["downstream"] = Whole(down)
    BY <1>4 DEF Sides, Reach
  <1>6. \A v \in Ways : \A i \in B[v] : far(i) = dist(i)
    <2>1. /\ D["upstream"] = Far(entries, "upstream", root)
          /\ D["downstream"] = Far(entries, "downstream", root)
      BY <1>4 DEF FarOn
    <2>2. /\ \A i \in B["upstream"] : D["upstream"][i] = Dist(up, i)
          /\ \A i \in B["downstream"] : D["downstream"][i] = Dist(down, i)
      BY <1>5, <2>1 DEF Far, Reach
    <2>. HIDE DEF B, D, up, down, far
    <2>3. \A i \in B["upstream"] : far(i) = Dist(up, i) /\ i \in Whole(up)
      BY <1>2, <1>4, <1>5, <2>2
    <2>4. \A i \in B["downstream"] : far(i) = Dist(down, i)
      BY <1>2, <1>4, <2>2
    <2>5. \A i : i \in B["upstream"] <=> i \in Whole(up)
      BY <1>5
    <2>6. ASSUME NEW v \in Ways, NEW i \in B[v] PROVE far(i) = dist(i)
      <3>1. CASE i \in Whole(up)
        BY <2>3, <2>5, <3>1
      <3>2. CASE i \notin Whole(up)
        BY <1>4, <2>4, <2>5, <2>6, <3>2
      <3>. QED  BY <3>1, <3>2
    <2>. QED  BY <2>6
  <1>7. P = {graph.nodes[n].iri : n \in DOMAIN graph.nodes}
        /\ \A n \in DOMAIN graph.nodes : graph.nodes[n] \in Listed(w.placed)
    BY <1>3 DEF PlacedIris, Listed
  <1>8. /\ IsGraphWalk(w)
        /\ \A m \in Listed(w.placed) :
              /\ \E v \in Ways : m.iri \in B[v]
              /\ m.distance = far(m.iri) /\ m.distance <= depth
        /\ ~w.capped => /\ Holds(B, D, hs, P)
                        /\ \A v \in Ways : Listed(w.frontier[v]) = {i \in B[v] : D[v][i] = hs[v]}
        /\ w.capped => \A v \in Ways : \A i \in B[v] \ P : \A m \in Listed(w.placed) :
                             m.distance <= far(i)
    <2>. HIDE DEF w, hs
    <2>. QED  BY <1>1 DEF GraphInv
  <1>9. \A v \in Ways : hs[v] = depth
    BY DEF Evenly
  <1>10. \A m \in Listed(w.placed) : m.distance \in Nat
    <2>. HIDE DEF w
    <2>1. w.placed \in Seq(Marks)
      BY <1>8 DEF IsGraphWalk
    <2>2. \A m \in Listed(w.placed) : m \in Marks
      BY <2>1 DEF Listed
    <2>. QED  BY <2>2 DEF Marks
  <1>11. ~DepthCut(entries, w) =>
            \A v \in Ways : Around(entries, v, Listed(w.frontier[v])) \subseteq P
    <2>. SUFFICES ASSUME ~DepthCut(entries, w), NEW v \in Ways,
                         NEW t \in Around(entries, v, Listed(w.frontier[v]))
                  PROVE  t \in P
      OBVIOUS
    <2>. HIDE DEF w, P
    <2>1. w.frontier[v] \in Seq(Iris)
      BY <1>8 DEF IsGraphWalk
    <2>. DEFINE near == Reaches(entries, v, w.frontier[v])
    <2>2. {near[n][2] : n \in DOMAIN near} = Around(entries, v, Listed(w.frontier[v]))
      BY <2>1, ReachesAre
    <2>3. \A n \in DOMAIN near : IsPlaced(w, near[n][2])
      BY DEF DepthCut, Ways
    <2>. HIDE DEF near
    <2>4. IsPlaced(w, t)
      BY <2>2, <2>3
    <2>. QED  BY <2>4, IsPlacedMeans DEF P
  <1>12. \A i \in P : \E v \in Ways : i \in B[v]
    BY <1>8 DEF PlacedIris
  <1>. HIDE DEF w, P, B, D, S, hs, graph, far
  <1>13. ASSUME ~graph.truncated, NEW v \in Ways PROVE B[v] \subseteq P
    <2>1. ~DepthCut(entries, w) /\ ~w.capped
      BY <1>3, <1>13
    <2>2. \A i : i \in P <=> \E u \in Ways : i \in B[u] /\ D[u][i] <= depth
      BY <1>8, <1>9, <2>1 DEF Holds
    <2>3. \A i : i \in Listed(w.frontier[v]) <=> i \in B[v] /\ D[v][i] = depth
      BY <1>8, <1>9, <2>1
    <2>4. /\ root \in B[v] /\ D[v][root] = 0
          /\ \A i \in B[v] : \A t \in S[v][i] : t \in B[v] /\ D[v][t] <= D[v][i] + 1
      BY <1>2 DEF IsTwoWeb, IsWeb
    <2>5. \A u \in Ways : \A i : u # v /\ i \in B[u] /\ i \in B[v] => i = root
      BY <1>2, <1>4 DEF IsTwoWeb
    <2>. DEFINE T == {i \in B[v] : D[v][i] <= depth}
    <2>6. root \in T
      BY <2>4
    <2>7. ASSUME NEW i \in T, NEW t \in Steps(entries, v, i) PROVE t \in T
      <3>1. i \in B[v] /\ t \in B[v] /\ D[v][t] <= D[v][i] + 1 /\ D[v][t] \in Nat /\ D[v][i] \in Nat
        BY <1>2, <2>4, <2>7
      <3>2. CASE D[v][i] < depth
        BY <3>1, <3>2
      <3>3. CASE D[v][i] = depth
        <4>1. i \in Listed(w.frontier[v])
          BY <2>3, <3>1, <3>3
        <4>2. t \in Around(entries, v, Listed(w.frontier[v]))
          BY <2>7, <4>1 DEF Around
        <4>3. t \in P
          BY <1>11, <2>1, <4>2
        <4>4. PICK u \in Ways : t \in B[u] /\ D[u][t] <= depth
          BY <2>2, <4>3
        <4>5. CASE u = v
          BY <3>1, <4>4, <4>5
        <4>6. CASE u # v
          <5>1. t = root
            BY <2>5, <3>1, <4>4, <4>6
          <5>. QED  BY <2>6, <5>1
        <4>. QED  BY <4>5, <4>6
      <3>. QED  BY <2>7, <3>1, <3>2, <3>3
    <2>8. B[v] = Reach(entries, v, root)
      BY DEF B, Sides
    <2>. HIDE DEF T
    <2>9. B[v] \subseteq T
      <3>1. \A i \in T : Steps(entries, v, i) \subseteq T
        BY <2>7
      <3>. QED  BY <1>2, <2>6, <2>8, <3>1, ReachLeast
    <2>. QED  BY <2>2, <2>9 DEF T
  <1>14. ~graph.truncated => P = Whole(up) \cup Whole(down)
    BY <1>4, <1>5, <1>12, <1>13
  <1>15. \A m \in Listed(w.placed) : m.distance = dist(m.iri)
    <2>. HIDE DEF dist
    <2>. QED  BY <1>6, <1>8
  <1>16. ASSUME NEW v \in Ways, NEW i \in B[v] \ P, NEW m \in Listed(w.placed)
         PROVE  m.distance <= dist(i)
    <2>. HIDE DEF dist
    <2>1. far(i) = dist(i) /\ far(i) = D[v][i] /\ D[v][i] \in Nat
      BY <1>2, <1>6
    <2>2. CASE w.capped
      BY <1>8, <2>1, <2>2
    <2>3. CASE ~w.capped
      <3>1. ~(D[v][i] <= depth)
        BY <1>8, <1>9, <2>3 DEF Holds
      <3>. QED  BY <1>8, <1>10, <2>1, <3>1
    <2>. QED  BY <2>2, <2>3
  <1>. HIDE DEF up, down
  <1>17. \A i \in (Whole(up) \cup Whole(down)) \ P, m \in Listed(w.placed) : m.distance <= dist(i)
    BY <1>4, <1>5, <1>16
  <1>18. \A n \in DOMAIN graph.nodes : graph.nodes[n].distance = dist(graph.nodes[n].iri)
    BY <1>7, <1>15
  <1>19. \A i \in (Whole(up) \cup Whole(down)) \ {graph.nodes[n].iri : n \in DOMAIN graph.nodes},
            n \in DOMAIN graph.nodes : graph.nodes[n].distance <= dist(i)
    BY <1>7, <1>17
  <1>20. ~graph.truncated =>
            {graph.nodes[n].iri : n \in DOMAIN graph.nodes} = Whole(up) \cup Whole(down)
    BY <1>7, <1>14
  <1>. QED  BY <1>18, <1>19, <1>20 DEF ShowsJust, dist, graph, up, down

-----------------------------------------------------------------------------
(* The answers of the graph routes. A head names the op ID of the corpus's     *)
(* last row, and op IDs are given out once: a snapshot is what a journal file  *)
(* with its head holds, and the file and its backup agree on every corpus for  *)
(* which they have one head.                                                   *)

\* Whether the rows of a corpus end with the row that a head names.
EndsWith(rows, head) ==
    /\ DOMAIN RowsIn(rows, head.corpus) # {}
    /\ Max(DOMAIN RowsIn(rows, head.corpus)) = head.position
    /\ rows[head.position].op = head.op

EntriesAt(rows, head) == Entries(RowsIn(rows, head.corpus))

\* Every journal that is or may come into use: the file, its backup, and what an open
\* transaction still reads.
Reads(r) == calls[r] # NoCall /\ calls[r].pc = "stat"
Journals == {file.rows, backup} \cup {calls[r].journal : r \in {q \in Readers : Reads(q)}}

\* A head and the entries that are held for it.
TrueTo(head, entries) ==
    /\ head.op <= ops /\ head.op \in Nat
    /\ \A rows \in Journals : EndsWith(rows, head) => entries = EntriesAt(rows, head)

Snapshots(c) == /\ c \in Seq({c[i] : i \in DOMAIN c})
                /\ \A i \in DOMAIN c : TrueTo(c[i].head, c[i].entries)

FileInv ==
    /\ file = [inode |-> file.inode, rows |-> file.rows]
    /\ ops \in Nat
    /\ \A rows \in Journals : rows \in Seq(JournalRow) /\ \A i \in DOMAIN rows : rows[i].op <= ops
    /\ \A one, other \in Journals : \A head :
          EndsWith(one, head) /\ EndsWith(other, head) =>
             RowsIn(one, head.corpus) = RowsIn(other, head.corpus)

ReadInv(call) ==
    /\ call.pc \in {"read", "stat"} => Snapshots(call.view)
    /\ call.pc = "stat" => DOMAIN RowsIn(call.journal, call.corpus) # {}
    /\ call.pc = "store" =>
          /\ call = [pc |-> "store", corpus |-> call.corpus, head |-> call.head,
                     entries |-> call.entries, rows |-> call.rows]
          /\ TrueTo(call.head, call.entries)
    /\ call.pc \in {"store", "walk"} =>
          call.entries = Entries(call.rows) /\ call.entries \in Seq(Entry)

CallsInv ==
    /\ calls = [r \in Readers |-> calls[r]]
    /\ \A r \in Readers : calls[r] # NoCall => ReadInv(calls[r])

SnapshotInv == FileInv /\ Snapshots(cache) /\ CallsInv

KeptUpTo(c, head, n, p) ==
    p = [i \in 0 .. n |->
            IF i = 0 THEN <<>>
            ELSE IF c[i].head.corpus = head.corpus THEN p[i - 1] ELSE Append(p[i - 1], c[i])]

LEMMA KeptExists ==
    ASSUME NEW c, NEW head
    PROVE  \A n \in Nat : \E p : KeptUpTo(c, head, n, p)
  <1>. DEFINE T == {n \in Nat : ~\E p : KeptUpTo(c, head, n, p)}
  <1>1. SUFFICES ASSUME T # {} PROVE FALSE
    OBVIOUS
  <1>2. PICK m \in T : \A i \in T : m <= i
    BY <1>1, LeastNat
  <1>3. m # 0
    <2>1. PICK p : p = [i \in 0 .. 0 |-> <<>>]
      OBVIOUS
    <2>2. KeptUpTo(c, head, 0, p)
      BY <2>1 DEF KeptUpTo
    <2>. QED  BY <2>2
  <1>4. m \in Nat /\ m - 1 \in Nat /\ m - 1 \notin T
    BY <1>2, <1>3
  <1>5. PICK p : KeptUpTo(c, head, m - 1, p)
    BY <1>4
  <1>6. PICK q : q = [i \in 0 .. m |->
                         IF i = 0 THEN <<>>
                         ELSE IF c[i].head.corpus = head.corpus THEN p[i - 1]
                         ELSE Append(p[i - 1], c[i])]
    OBVIOUS
  <1>7. \A i \in 0 .. m - 1 : q[i] = p[i]
    <2>1. \A i \in 0 .. m - 1 : i \in 0 .. m
      BY <1>4
    <2>. HIDE DEF T
    <2>. QED  BY <1>5, <1>6, <2>1 DEF KeptUpTo
  <1>8. \A i \in 1 .. m : q[i - 1] = p[i - 1]
    BY <1>4, <1>7
  <1>9. KeptUpTo(c, head, m, q)
    <2>1. \A i \in 0 .. m : i # 0 => i \in 1 .. m
      BY <1>4
    <2>2. [i \in 0 .. m |-> IF i = 0 THEN <<>>
                           ELSE IF c[i].head.corpus = head.corpus THEN p[i - 1]
                           ELSE Append(p[i - 1], c[i])]
             = [i \in 0 .. m |-> IF i = 0 THEN <<>>
                                ELSE IF c[i].head.corpus = head.corpus THEN q[i - 1]
                                ELSE Append(q[i - 1], c[i])]
      <3>. HIDE DEF T
      <3>. QED  BY <1>8, <2>1
    <2>. HIDE DEF T
    <2>. QED  BY <1>6, <2>2 DEF KeptUpTo
  <1>. QED  BY <1>2, <1>9

LEMMA KeptInCache ==
    ASSUME NEW S, NEW c \in Seq(S), NEW head
    PROVE  Kept(c, head) \in Seq(S)
  <1>1. PICK p : KeptUpTo(c, head, Len(c), p) /\ Kept(c, head) = p[Len(c)]
    <2>0. Len(c) \in Nat
      OBVIOUS
    <2>1. \E p : KeptUpTo(c, head, Len(c), p)
      BY <2>0, KeptExists
    <2>. QED  BY <2>1 DEF Kept, KeptUpTo
  <1>. DEFINE T == {n \in Nat : n <= Len(c) /\ p[n] \notin Seq(S)}
  <1>2. SUFFICES ASSUME T # {} PROVE FALSE
    <2>1. Len(c) \in Nat /\ Len(c) <= Len(c)
      OBVIOUS
    <2>. QED  BY <1>1, <2>1
  <1>3. PICK m \in T : \A i \in T : m <= i
    BY <1>2, LeastNat
  <1>4. \A i \in 0 .. Len(c) : p[i] = IF i = 0 THEN <<>>
            ELSE IF c[i].head.corpus = head.corpus THEN p[i - 1] ELSE Append(p[i - 1], c[i])
    BY <1>1 DEF KeptUpTo
  <1>0. Len(c) \in Nat
    OBVIOUS
  <1>5. m \in 0 .. Len(c) /\ m # 0
    <2>1. m \in 0 .. Len(c) /\ p[m] \notin Seq(S)
      BY <1>0, <1>3
    <2>2. p[0] = <<>>
      <3>1. 0 \in 0 .. Len(c)
        BY <1>0
      <3>. HIDE DEF T
      <3>. QED  BY <1>4, <3>1
    <2>3. <<>> \in Seq(S)
      OBVIOUS
    <2>. HIDE DEF T
    <2>. QED  BY <2>1, <2>2, <2>3
  <1>6. p[m - 1] \in Seq(S)
    <2>1. m - 1 \in Nat /\ m - 1 <= Len(c) /\ ~(m <= m - 1)
      BY <1>5
    <2>. QED  BY <1>3, <2>1
  <1>7. c[m] \in S
    BY <1>5
  <1>8. p[m] \in Seq(S)
    <2>1. p[m] = IF c[m].head.corpus = head.corpus THEN p[m - 1] ELSE Append(p[m - 1], c[m])
      <3>. HIDE DEF T
      <3>. QED  BY <1>4, <1>5
    <2>. QED  BY <1>6, <1>7, <2>1
  <1>. QED  BY <1>3, <1>8

LEMMA NewestInCache ==
    ASSUME NEW S, NEW c \in Seq(S)
    PROVE  Newest(c) \in Seq(S)
  <1>1. CacheSize \in Nat \ {0} /\ Len(c) \in Nat
    BY SnapshotAssumption
  <1>2. CASE Len(c) > CacheSize
    <2>1. Len(c) - CacheSize + 1 \in 1 .. Len(c)
      BY <1>1, <1>2
    <2>. QED  BY <1>1, <1>2, <2>1 DEF Newest
  <1>3. CASE ~(Len(c) > CacheSize)
    BY <1>3 DEF Newest
  <1>. QED  BY <1>2, <1>3

\* A row of another corpus changes nothing of this one, a newer row of it ends it elsewhere.
LEMMA RowsOfOthers ==
    ASSUME NEW rows \in Seq(JournalRow), NEW row \in JournalRow, NEW head,
           row.corpus # head.corpus
    PROVE  /\ RowsIn(Append(rows, row), head.corpus) = RowsIn(rows, head.corpus)
           /\ EndsWith(Append(rows, row), head) => EndsWith(rows, head)
  <1>1. PICK new : new = Append(rows, row)
    OBVIOUS
  <1>2. /\ Len(rows) \in Nat /\ DOMAIN rows = 1 .. Len(rows) /\ DOMAIN new = 1 .. Len(rows) + 1
        /\ \A i \in 1 .. Len(rows) : new[i] = rows[i]
        /\ new[Len(rows) + 1] = row
    BY <1>1
  <1>3. {i \in DOMAIN new : new[i].corpus = head.corpus}
            = {i \in DOMAIN rows : rows[i].corpus = head.corpus}
    BY <1>2
  <1>4. RowsIn(new, head.corpus) = RowsIn(rows, head.corpus)
    BY <1>2, <1>3 DEF RowsIn
  <1>5. ASSUME EndsWith(new, head) PROVE EndsWith(rows, head)
    <2>1. DOMAIN RowsIn(rows, head.corpus) # {} /\ DOMAIN RowsIn(rows, head.corpus) \subseteq DOMAIN rows
      BY <1>4, <1>5 DEF EndsWith, RowsIn
    <2>2. Max(DOMAIN RowsIn(rows, head.corpus)) \in 1 .. Len(rows)
      BY <1>2, <2>1, MaxOfSome
    <2>. QED  BY <1>2, <1>4, <1>5, <2>1, <2>2 DEF EndsWith
  <1>. QED  BY <1>1, <1>4, <1>5

LEMMA RowEndsElsewhere ==
    ASSUME NEW rows \in Seq(JournalRow), NEW row \in JournalRow, NEW head,
           row.corpus = head.corpus, row.op # head.op
    PROVE  ~EndsWith(Append(rows, row), head)
  <1>1. PICK new : new = Append(rows, row)
    OBVIOUS
  <1>2. PICK n : n = Len(rows) + 1
    OBVIOUS
  <1>3. n \in Nat /\ DOMAIN new = 1 .. n /\ new[n] = row /\ n \in 1 .. n
    BY <1>1, <1>2
  <1>4. PICK T : T = DOMAIN RowsIn(new, head.corpus)
    OBVIOUS
  <1>5. T \subseteq 1 .. n /\ n \in T
    BY <1>3, <1>4 DEF RowsIn
  <1>6. Max(T) = n
    <2>1. \A i \in T : i <= n
      BY <1>3, <1>5
    <2>. QED  BY <1>3, <1>5, <2>1, MaxIs
  <1>. QED  BY <1>1, <1>3, <1>4, <1>6 DEF EndsWith

\* What a head is read from ends with it.
LEMMA HeadIsTheEnd ==
    ASSUME NEW f, NEW corpus, f.rows \in Seq(JournalRow), DOMAIN RowsIn(f.rows, corpus) # {},
           NEW head, head = HeadOf(f, corpus)
    PROVE  /\ head.corpus = corpus /\ EndsWith(f.rows, head)
           /\ \E i \in DOMAIN f.rows : head.op = f.rows[i].op
  <1>1. PICK n : n = LastRow(f, corpus)
    OBVIOUS
  <1>2. PICK T : T = DOMAIN RowsIn(f.rows, corpus)
    OBVIOUS
  <1>3. T \subseteq 1 .. Len(f.rows) /\ Len(f.rows) \in Nat /\ DOMAIN f.rows = 1 .. Len(f.rows)
    BY <1>2 DEF RowsIn
  <1>4. n \in T /\ n = Max(T)
    BY <1>1, <1>2, <1>3, MaxOfSome DEF LastRow
  <1>5. head.corpus = corpus /\ head.position = n /\ head.op = f.rows[n].op
    BY <1>1 DEF HeadOf
  <1>6. EndsWith(f.rows, head)
    BY <1>2, <1>4, <1>5 DEF EndsWith
  <1>. QED  BY <1>3, <1>4, <1>5, <1>6

LEMMA SnapshotsImply == SnapshotInv => AnswersOneMoment
  BY DEF SnapshotInv, CallsInv, ReadInv, AnswersOneMoment

LEMMA SnapshotInit ==
    ASSUME NEW inode, NEW rows \in Seq(JournalRow), \A i \in DOMAIN rows : rows[i].op = 0,
           InitFile(inode, rows)
    PROVE  SnapshotInv
  <1>1. file = [inode |-> inode, rows |-> rows] /\ backup = rows /\ ops = 0
    BY DEF InitFile
  <1>2. FileInv
    <2>1. Journals = {rows}
      BY <1>1 DEF Journals, Reads, InitFile
    <2>. QED  BY <1>1, <2>1 DEF FileInv
  <1>3. Snapshots(cache)
    <2>1. cache = <<>>
      BY DEF InitFile
    <2>2. DOMAIN cache = {}
      BY <2>1
    <2>. QED  BY <2>1, <2>2 DEF Snapshots
  <1>4. CallsInv
    BY DEF InitFile, CallsInv
  <1>. QED  BY <1>2, <1>3, <1>4 DEF SnapshotInv

\* What is true of its head stays so: a cache of such entries, and a request that holds some.
LEMMA HeldStays ==
    ASSUME \A head, entries : TrueTo(head, entries) => TrueTo(head, entries)'
    PROVE  /\ \A c : Snapshots(c) => Snapshots(c)'
           /\ \A call : ReadInv(call) => ReadInv(call)'
  <1>1. ASSUME NEW c, Snapshots(c)
        PROVE  Snapshots(c)'
    BY <1>1 DEF Snapshots
  <1>2. ASSUME NEW call, ReadInv(call)
        PROVE  ReadInv(call)'
    BY <1>1, <1>2 DEF ReadInv
  <1>. QED  BY <1>1, <1>2

LEMMA CacheThen ==
    ASSUME NEW c, c = cache', Snapshots(c)'
    PROVE  Snapshots(cache)'
  BY DEF Snapshots, TrueTo

LEMMA CallThen ==
    ASSUME NEW q, NEW x, x = calls'[q], ReadInv(x)'
    PROVE  ReadInv(calls[q])'
  BY DEF ReadInv, Snapshots, TrueTo

\* The journals change and the requests do not.
LEMMA DiskMoves ==
    ASSUME SnapshotInv, FileInv', UNCHANGED <<cache, calls>>,
           \A head, entries : TrueTo(head, entries) => TrueTo(head, entries)'
    PROVE  SnapshotInv'
  <1>1. Snapshots(cache)'
    <2>1. PICK c : c = cache
      OBVIOUS
    <2>2. Snapshots(c)'
      BY <2>1, HeldStays DEF SnapshotInv
    <2>. QED  BY <2>1, <2>2, CacheThen
  <1>2. ASSUME NEW r \in Readers, calls'[r] # NoCall
        PROVE  ReadInv(calls[r])'
    <2>1. PICK call : call = calls[r]
      OBVIOUS
    <2>2. ReadInv(call)'
      BY <1>2, <2>1, HeldStays DEF SnapshotInv, CallsInv
    <2>. QED  BY <2>1, <2>2, CallThen
  <1>. QED  BY <1>1, <1>2 DEF SnapshotInv, CallsInv

\* No journal is new: what was true of a head is so of those that are left.
LEMMA NoNewJournal ==
    ASSUME FileInv, Journals' \subseteq Journals, UNCHANGED ops,
           file' = [inode |-> file'.inode, rows |-> file'.rows]
    PROVE  /\ FileInv'
           /\ \A head, entries : TrueTo(head, entries) => TrueTo(head, entries)'
  <1>1. PICK then : then = Journals'
    OBVIOUS
  <1>2. \A rows \in then : rows \in Journals
    BY <1>1
  <1>3. FileInv'
    BY <1>1, <1>2 DEF FileInv
  <1>4. ASSUME NEW head, NEW entries, TrueTo(head, entries)
        PROVE  TrueTo(head, entries)'
    BY <1>1, <1>2, <1>4 DEF TrueTo
  <1>. QED  BY <1>3, <1>4

LEMMA CommitShardKeeps ==
    ASSUME SnapshotInv, NEW corpus \in Corpora, NEW iri \in Iris, NEW edges \in Seq(STRING \X Iris),
           CommitShard(corpus, iri, edges)
    PROVE  SnapshotInv'
  <1>1. PICK row : row = [corpus |-> corpus, iri |-> iri, edges |-> edges, op |-> ops + 1]
    OBVIOUS
  <1>2. PICK rows, new : rows = file.rows /\ new = Append(rows, row)
    OBVIOUS
  <1>3. PICK before : before = Journals
    OBVIOUS
  <1>4. /\ file = [inode |-> file.inode, rows |-> rows] /\ ops \in Nat /\ rows \in before
        /\ \A j \in before : j \in Seq(JournalRow) /\ \A i \in DOMAIN j : j[i].op <= ops
        /\ \A one, other \in before : \A head :
              EndsWith(one, head) /\ EndsWith(other, head) =>
                 RowsIn(one, head.corpus) = RowsIn(other, head.corpus)
    <2>1. rows \in before
      BY <1>2, <1>3 DEF Journals
    <2>. QED  BY <1>2, <1>3, <2>1 DEF SnapshotInv, FileInv
  <1>5. row \in JournalRow /\ row.op = ops + 1 /\ row.corpus = corpus
    BY <1>1, <1>4 DEF JournalRow
  <1>6. file' = [file EXCEPT !.rows = new] /\ ops' = ops + 1 /\ UNCHANGED <<backup, cache, calls>>
    BY <1>1, <1>2 DEF CommitShard
  <1>7. file' = [inode |-> file.inode, rows |-> new]
    BY <1>4, <1>6
  <1>8. new \in Seq(JournalRow) /\ DOMAIN rows = 1 .. Len(rows) /\ Len(rows) \in Nat
        /\ DOMAIN new = 1 .. Len(rows) + 1
        /\ (\A i \in 1 .. Len(rows) : new[i] = rows[i]) /\ new[Len(rows) + 1] = row
    BY <1>2, <1>4, <1>5
  <1>9. ASSUME NEW head, head.op \in Nat, head.op <= ops, EndsWith(new, head)
        PROVE  RowsIn(new, head.corpus) = RowsIn(rows, head.corpus) /\ EndsWith(rows, head)
    <2>1. row.corpus # head.corpus
      BY <1>2, <1>4, <1>5, <1>9, RowEndsElsewhere
    <2>. QED  BY <1>2, <1>4, <1>5, <1>9, <2>1, RowsOfOthers
  <1>10. \A j \in before : \A i \in DOMAIN j : j[i].op \in Nat /\ j[i].op <= ops
    <2>1. ASSUME NEW j \in before, NEW i \in DOMAIN j
          PROVE  j[i] \in JournalRow
      BY <1>4
    <2>. QED  BY <1>4, <2>1 DEF JournalRow
  <1>11. \A j \in Journals' : j \in before \/ j = new
    <2>1. file'.rows = new /\ backup' = backup
      BY <1>6, <1>7
    <2>. QED  BY <1>3, <1>6, <2>1 DEF Journals, Reads
  <1>12. ASSUME NEW j \in before, NEW head, EndsWith(j, head), EndsWith(new, head)
         PROVE  RowsIn(j, head.corpus) = RowsIn(new, head.corpus)
    <2>1. head.op \in Nat /\ head.op <= ops
      <3>1. /\ DOMAIN RowsIn(j, head.corpus) # {}
            /\ DOMAIN RowsIn(j, head.corpus) \subseteq 1 .. Len(j)
            /\ Len(j) \in Nat /\ DOMAIN j = 1 .. Len(j)
        BY <1>4, <1>12 DEF EndsWith, RowsIn
      <3>2. head.position \in DOMAIN j
        BY <1>12, <3>1, MaxOfSome DEF EndsWith
      <3>. QED  BY <1>10, <1>12, <3>2 DEF EndsWith
    <2>2. RowsIn(new, head.corpus) = RowsIn(rows, head.corpus) /\ EndsWith(rows, head)
      BY <1>9, <1>12, <2>1
    <2>. QED  BY <1>4, <1>12, <2>2
  <1>13. FileInv'
    <2>1. \A i \in DOMAIN new : new[i].op <= ops + 1
      <3>1. \A i \in DOMAIN rows : rows[i].op \in Nat /\ rows[i].op <= ops
        BY <1>4, <1>10
      <3>. QED  BY <1>4, <1>5, <1>8, <3>1
    <2>2. \A j \in before : \A i \in DOMAIN j : j[i].op <= ops + 1
      BY <1>4, <1>10
    <2>3. \A j \in Journals' : j \in Seq(JournalRow) /\ \A i \in DOMAIN j : j[i].op <= ops'
      BY <1>4, <1>6, <1>8, <1>11, <2>1, <2>2
    <2>4. file' = [inode |-> file'.inode, rows |-> file'.rows] /\ ops' \in Nat
      BY <1>4, <1>6, <1>7
    <2>5. PICK then : then = Journals'
      OBVIOUS
    <2>6. \A one, other \in then : \A head :
             EndsWith(one, head) /\ EndsWith(other, head) =>
                RowsIn(one, head.corpus) = RowsIn(other, head.corpus)
      BY <1>4, <1>11, <1>12, <2>5
    <2>. QED  BY <2>3, <2>4, <2>5, <2>6 DEF FileInv
  <1>14. ASSUME NEW head, NEW entries, TrueTo(head, entries)
         PROVE  TrueTo(head, entries)'
    <2>1. head.op \in Nat /\ head.op <= ops
      BY <1>14 DEF TrueTo
    <2>2. \A j \in before : EndsWith(j, head) => entries = EntriesAt(j, head)
      BY <1>3, <1>14 DEF TrueTo
    <2>3. EndsWith(new, head) => entries = EntriesAt(new, head)
      BY <1>4, <1>9, <2>1, <2>2 DEF EntriesAt
    <2>4. head.op <= ops'
      BY <1>4, <1>6, <2>1
    <2>. QED  BY <1>11, <2>1, <2>2, <2>3, <2>4 DEF TrueTo
  <1>. QED  BY <1>6, <1>13, <1>14, DiskMoves

\* A backup and a restore put one journal in another's place.
LEMMA CopyKeeps ==
    ASSUME SnapshotInv, BackUp \/ \E inode \in Inodes : RestoreFile(inode)
    PROVE  SnapshotInv'
  <1>1. UNCHANGED <<ops, cache, calls>> /\ FileInv
    BY DEF BackUp, RestoreFile, SnapshotInv
  <1>2. CASE BackUp
    <2>1. backup' = file.rows /\ file' = file
      BY <1>2 DEF BackUp
    <2>2. Journals' \subseteq Journals
      BY <1>1, <2>1 DEF Journals, Reads
    <2>3. file' = [inode |-> file'.inode, rows |-> file'.rows]
      BY <1>1, <2>1 DEF FileInv
    <2>. QED  BY <1>1, <2>2, <2>3, NoNewJournal, DiskMoves
  <1>3. ASSUME NEW inode \in Inodes, RestoreFile(inode)
        PROVE  SnapshotInv'
    <2>1. file' = [inode |-> inode, rows |-> backup] /\ backup' = backup
      BY <1>3 DEF RestoreFile
    <2>2. file' = [inode |-> file'.inode, rows |-> file'.rows] /\ file'.rows = backup
      BY <2>1
    <2>3. Journals' \subseteq Journals
      BY <1>1, <2>1, <2>2 DEF Journals, Reads
    <2>. QED  BY <1>1, <2>2, <2>3, NoNewJournal, DiskMoves
  <1>. QED  BY <1>2, <1>3

\* One reader's call changes, and maybe the cache, while the journals stand still.
LEMMA CallMoves ==
    ASSUME SnapshotInv, UNCHANGED onDisk, NEW r \in Readers, NEW call,
           calls' = [calls EXCEPT ![r] = call], call # NoCall => ReadInv(call),
           call # NoCall /\ call.pc = "stat" => call.journal \in Journals,
           NEW c, Snapshots(c), cache' = c
    PROVE  SnapshotInv'
  <1>1. calls = [q \in Readers |-> calls[q]] /\ \A q \in Readers : calls[q] # NoCall => ReadInv(calls[q])
    BY DEF SnapshotInv, CallsInv
  <1>2. calls' = [q \in Readers |-> calls'[q]]
        /\ \A q \in Readers : calls'[q] = IF q = r THEN call ELSE calls[q]
    BY <1>1
  <1>3. Journals' \subseteq Journals
    <2>1. ASSUME NEW q \in Readers, Reads(q)'
          PROVE  calls'[q].journal \in Journals
      BY <1>2, <2>1 DEF Reads, Journals
    <2>2. file' = file /\ backup' = backup
      BY DEF onDisk
    <2>3. file'.rows \in Journals /\ backup' \in Journals
      BY <2>2 DEF Journals
    <2>. QED  BY <2>1, <2>3 DEF Journals
  <1>4. FileInv' /\ \A head, entries : TrueTo(head, entries) => TrueTo(head, entries)'
    <2>1. FileInv /\ UNCHANGED ops /\ file' = [inode |-> file'.inode, rows |-> file'.rows]
      BY DEF SnapshotInv, FileInv, onDisk
    <2>. QED  BY <1>3, <2>1, NoNewJournal
  <1>5. ASSUME NEW q \in Readers, calls'[q] # NoCall
        PROVE  ReadInv(calls[q])'
    <2>1. PICK x : x = calls'[q]
      OBVIOUS
    <2>2. ReadInv(x)
      BY <1>1, <1>2, <1>5, <2>1
    <2>3. ReadInv(x)'
      BY <1>4, <2>2, HeldStays
    <2>. QED  BY <2>1, <2>3, CallThen
  <1>6. Snapshots(cache)'
    <2>1. Snapshots(c)'
      BY <1>4, HeldStays
    <2>. QED  BY <2>1, CacheThen
  <1>. QED  BY <1>2, <1>4, <1>5, <1>6 DEF SnapshotInv, CallsInv

LEMMA AskKeeps ==
    ASSUME SnapshotInv, NEW r \in Readers,
           (\E corpus \in Corpora : BeginRequest(r, corpus)) \/ OpenRead(r) \/ Answer(r)
    PROVE  SnapshotInv'
  <1>. PICK c : c = cache
    OBVIOUS
  <1>1. UNCHANGED onDisk /\ cache' = c /\ Snapshots(c)
    BY DEF BeginRequest, OpenRead, Answer, SnapshotInv
  <1>2. ASSUME NEW corpus, BeginRequest(r, corpus)
        PROVE  SnapshotInv'
    <2>1. PICK call : call = [pc |-> "read", corpus |-> corpus, view |-> c]
      OBVIOUS
    <2>2. ReadInv(call) /\ call.pc # "stat"
      BY <1>1, <2>1 DEF ReadInv
    <2>3. calls' = [calls EXCEPT ![r] = call]
      BY <1>2, <2>1 DEF BeginRequest
    <2>. QED  BY <1>1, <2>2, <2>3, CallMoves
  <1>3. CASE calls' = [calls EXCEPT ![r] = NoCall]
    BY <1>1, <1>3, CallMoves
  <1>4. CASE OpenRead(r) /\ Known(calls[r].corpus)
    <2>1. PICK x, rows : x = calls[r] /\ rows = file.rows
      OBVIOUS
    <2>2. PICK call : call = [pc |-> "stat", corpus |-> x.corpus, view |-> x.view, journal |-> rows]
      OBVIOUS
    <2>3. Snapshots(x.view)
      BY <1>4, <2>1 DEF OpenRead, SnapshotInv, CallsInv, ReadInv
    <2>4. ReadInv(call) /\ call.journal \in Journals
      BY <1>4, <2>1, <2>2, <2>3 DEF ReadInv, Known, Journals
    <2>5. calls' = [calls EXCEPT ![r] = call]
      BY <1>4, <2>1, <2>2 DEF OpenRead
    <2>. QED  BY <1>1, <2>4, <2>5, CallMoves
  <1>. QED  BY <1>2, <1>3, <1>4 DEF OpenRead, Answer

\* A snapshot that is held for the head that is read is what the rows say.
LEMMA ReadKeeps ==
    ASSUME SnapshotInv, NEW r \in Readers, Read(r)
    PROVE  SnapshotInv'
  <1>1. PICK c, x : c = cache /\ x = calls[r]
    OBVIOUS
  <1>2. /\ UNCHANGED onDisk /\ cache' = c /\ Snapshots(c)
        /\ x # NoCall /\ x.pc = "stat"
    BY <1>1 DEF Read, SnapshotInv
  <1>3. PICK corpus, view, rows, journal : /\ corpus = x.corpus /\ view = x.view /\ journal = x.journal
                                           /\ rows = RowsIn(journal, corpus)
    OBVIOUS
  <1>4. Snapshots(view) /\ DOMAIN rows # {} /\ journal \in Journals
    BY <1>1, <1>2, <1>3 DEF SnapshotInv, CallsInv, ReadInv, Journals, Reads
  <1>5. PICK f : f = [inode |-> file.inode, rows |-> journal]
    OBVIOUS
  <1>6. PICK head : head = HeadOf(f, corpus)
    OBVIOUS
  <1>7. /\ journal \in Seq(JournalRow) /\ ops \in Nat /\ f.rows = journal
        /\ \A i \in DOMAIN journal : journal[i].op <= ops
    BY <1>4, <1>5 DEF SnapshotInv, FileInv
  <1>8. head.corpus = corpus /\ EndsWith(journal, head)
        /\ \E i \in DOMAIN journal : head.op = journal[i].op
    <2>1. f.rows \in Seq(JournalRow)
      BY <1>7
    <2>2. DOMAIN RowsIn(f.rows, corpus) # {}
      <3>1. RowsIn(f.rows, corpus) = rows
        BY <1>3, <1>7
      <3>. QED  BY <1>4, <3>1
    <2>3. head.corpus = corpus
      BY <1>6 DEF HeadOf
    <2>4. EndsWith(f.rows, head)
      BY <1>6, <2>1, <2>2, HeadIsTheEnd
    <2>5. \E i \in DOMAIN f.rows : head.op = f.rows[i].op
      BY <1>6, <2>1, <2>2, HeadIsTheEnd
    <2>. QED  BY <1>7, <2>3, <2>4, <2>5
  <1>9. head.op \in Nat /\ head.op <= ops
    <2>1. \A i \in DOMAIN journal : journal[i] \in JournalRow
      BY <1>7
    <2>. QED  BY <1>7, <1>8, <2>1 DEF JournalRow
  <1>10. PICK hit : hit = Cached(view, head)
    OBVIOUS
  <1>11. PICK entries : entries = IF hit # {} THEN view[Min(hit)].entries ELSE Entries(rows)
    OBVIOUS
  <1>12. TrueTo(head, entries) /\ entries = Entries(rows)
    <2>1. CASE hit # {}
      <3>1. hit \subseteq DOMAIN view /\ DOMAIN view \subseteq Nat
        BY <1>4, <1>10 DEF Cached, Snapshots
      <3>2. Min(hit) \in hit
        <4>1. PICK m \in hit : \A i \in hit : m <= i
          BY <2>1, <3>1, LeastNat
        <4>. QED  BY <4>1 DEF Min
      <3>3. view[Min(hit)].head = head /\ TrueTo(view[Min(hit)].head, view[Min(hit)].entries)
        BY <1>4, <1>10, <3>1, <3>2 DEF Cached, Snapshots
      <3>4. TrueTo(head, entries)
        BY <1>11, <2>1, <3>3
      <3>. QED  BY <1>3, <1>4, <1>8, <3>4 DEF TrueTo, EntriesAt
    <2>2. CASE hit = {}
      <3>1. entries = Entries(rows)
        BY <1>11, <2>2
      <3>2. \A other \in Journals : EndsWith(other, head) => RowsIn(other, corpus) = rows
        BY <1>3, <1>4, <1>8 DEF SnapshotInv, FileInv
      <3>. QED  BY <1>8, <1>9, <3>1, <3>2 DEF TrueTo, EntriesAt
    <2>. QED  BY <2>1, <2>2
  <1>13. PICK call : call = [pc |-> "store", corpus |-> corpus, head |-> head,
                             entries |-> entries, rows |-> rows]
    OBVIOUS
  <1>14. ReadInv(call) /\ call.pc # "stat"
    <2>1. entries \in Seq(Entry)
      BY <1>3, <1>4, <1>7, <1>12, EntriesTyped
    <2>. QED  BY <1>12, <1>13, <2>1 DEF ReadInv
  <1>15. calls' = [calls EXCEPT ![r] = call]
    BY <1>1, <1>3, <1>5, <1>6, <1>10, <1>11, <1>13 DEF Read
  <1>. QED  BY <1>2, <1>14, <1>15, CallMoves

LEMMA StoreReadKeeps ==
    ASSUME SnapshotInv, NEW r \in Readers, StoreRead(r)
    PROVE  SnapshotInv'
  <1>1. UNCHANGED onDisk /\ Snapshots(cache)
    BY DEF StoreRead, SnapshotInv
  <1>2. PICK x : x = calls[r]
    OBVIOUS
  <1>3. /\ x = [pc |-> "store", corpus |-> x.corpus, head |-> x.head,
                entries |-> x.entries, rows |-> x.rows]
        /\ TrueTo(x.head, x.entries) /\ x.entries = Entries(x.rows) /\ x.entries \in Seq(Entry)
    BY <1>2 DEF StoreRead, SnapshotInv, CallsInv, ReadInv
  <1>4. PICK y : y = [x EXCEPT !.pc = "walk"]
    OBVIOUS
  <1>11. ReadInv(y) /\ y.pc # "stat" /\ calls' = [calls EXCEPT ![r] = y]
    <2>1. y = [pc |-> "walk", corpus |-> x.corpus, head |-> x.head,
               entries |-> x.entries, rows |-> x.rows]
      BY <1>3, <1>4
    <2>. QED  BY <1>2, <1>3, <1>4, <2>1 DEF ReadInv, StoreRead
  <1>5. PICK S : S = {s \in {cache[i] : i \in DOMAIN cache} \cup {[head |-> x.head, entries |-> x.entries]} :
                          TrueTo(s.head, s.entries)}
    OBVIOUS
  <1>6. cache \in Seq(S) /\ [head |-> x.head, entries |-> x.entries] \in S
    <2>1. \A i \in DOMAIN cache : cache[i] \in S
      BY <1>1, <1>5 DEF Snapshots
    <2>2. cache \in Seq({cache[i] : i \in DOMAIN cache})
      BY <1>1 DEF Snapshots
    <2>3. Len(cache) \in Nat /\ cache = [i \in 1 .. Len(cache) |-> cache[i]]
          /\ DOMAIN cache = 1 .. Len(cache)
      BY <2>2
    <2>4. cache \in [1 .. Len(cache) -> S]
      BY <2>1, <2>3
    <2>5. cache \in Seq(S)
      BY <2>3, <2>4, SeqDef
    <2>. QED  BY <1>3, <1>5, <2>5
  <1>7. cache' \in Seq(S)
    <2>1. Append(Kept(cache, x.head), [head |-> x.head, entries |-> x.entries]) \in Seq(S)
      BY <1>6, KeptInCache
    <2>2. cache' = Newest(Append(Kept(cache, x.head), [head |-> x.head, entries |-> x.entries]))
      BY <1>2 DEF StoreRead
    <2>. QED  BY <2>1, <2>2, NewestInCache
  <1>8. PICK c : c = cache'
    OBVIOUS
  <1>9. Snapshots(c)
    <2>1. \A i \in DOMAIN c : c[i] \in S
      BY <1>7, <1>8
    <2>2. \A s \in S : TrueTo(s.head, s.entries)
      BY <1>5
    <2>3. Len(c) \in Nat /\ c = [i \in 1 .. Len(c) |-> c[i]] /\ DOMAIN c = 1 .. Len(c)
      BY <1>7, <1>8
    <2>4. c \in Seq({c[i] : i \in DOMAIN c})
      <3>1. PICK R : R = {c[i] : i \in DOMAIN c}
        OBVIOUS
      <3>2. c \in [1 .. Len(c) -> R]
        BY <2>3, <3>1
      <3>. QED  BY <2>3, <3>1, <3>2, SeqDef
    <2>. QED  BY <2>1, <2>2, <2>4 DEF Snapshots
  <1>. QED  BY <1>1, <1>8, <1>9, <1>11, CallMoves

NextReads == Reading \/ JournalChanges(Iris, Seq(STRING \X Iris))

LEMMA ReadsStep ==
    ASSUME SnapshotInv, [NextReads]_readVars
    PROVE  SnapshotInv'
  <1>1. CASE Reading
    BY <1>1, AskKeeps, ReadKeeps, StoreReadKeeps DEF Reading
  <1>2. CASE JournalChanges(Iris, Seq(STRING \X Iris))
    BY <1>2, CommitShardKeeps, CopyKeeps DEF JournalChanges
  <1>3. CASE UNCHANGED readVars
    <2>1. UNCHANGED <<file, backup, ops, cache, calls>> /\ FileInv
      BY <1>3 DEF readVars, SnapshotInv
    <2>2. Journals' \subseteq Journals /\ file' = [inode |-> file'.inode, rows |-> file'.rows]
      BY <2>1 DEF Journals, Reads, FileInv
    <2>. QED  BY <2>1, <2>2, NoNewJournal, DiskMoves
  <1>. QED  BY <1>1, <1>2, <1>3 DEF NextReads

\* Whatever is committed, backed up and restored between the steps of any number of requests,
\* every answer is the corpus as it stood at one moment of its request. The rows of the first
\* file were committed before the first op ID of the model is given out.
THEOREM OneMoment ==
    ASSUME NEW inode \in Inodes, NEW rows \in Seq(JournalRow),
           \A i \in DOMAIN rows : rows[i].op = 0
    PROVE  InitFile(inode, rows) /\ [][NextReads]_readVars => []AnswersOneMoment
  <1>1. InitFile(inode, rows) => SnapshotInv
    BY SnapshotInit
  <1>2. SnapshotInv /\ [NextReads]_readVars => SnapshotInv'
    BY ReadsStep
  <1>3. SnapshotInv => AnswersOneMoment
    BY SnapshotsImply
  <1>. QED  BY <1>1, <1>2, <1>3, PTL

\* What is walked is a sequence of entries.
LEMMA WalkedAreTyped ==
    ASSUME SnapshotInv
    PROVE  /\ Walking \subseteq Seq(Entry) /\ Depths \subseteq Nat /\ Caps \subseteq Nat
           /\ \A entries \in Walking : EntryIris(entries) \subseteq Iris
  <1>1. \A entries \in Walking : entries \in Seq(Entry)
    BY DEF Walking, SnapshotInv, CallsInv, ReadInv
  <1>2. Cardinality(Iris) \in Nat
    BY SnapshotAssumption, FS_CardinalityType
  <1>3. Depths \subseteq Nat /\ Caps \subseteq Nat
    BY <1>2 DEF Depths, Caps
  <1>4. ASSUME NEW entries \in Walking PROVE EntryIris(entries) \subseteq Iris
    <2>1. \A n \in DOMAIN entries : entries[n] \in Entry
      BY <1>1
    <2>. QED  BY <2>1 DEF EntryIris, Entry
  <1>. QED  BY <1>1, <1>3, <1>4

LEMMA DerivationsImply == SnapshotInv => DerivationIsHonest
  <1>. SUFFICES ASSUME SnapshotInv PROVE DerivationIsHonest
    OBVIOUS
  <1>. SUFFICES ASSUME NEW entries \in Walking, NEW root \in EntryIris(entries),
                       NEW maxDepth \in Depths, NEW nodeCap \in Caps
                PROVE  LET walk == DerivationTree(entries, root, maxDepth, nodeCap)
                           up == Ball(entries, "upstream", root)
                       IN  /\ ~Incomplete(walk) => walk.kernels = Whole(up) \cap Kernel
                           /\ \A k \in walk.kernels :
                                 k \in Whole(up) /\ PathLength(walk, root, k) = Dist(up, k)
    BY DEF DerivationIsHonest
  <1>1. entries \in Seq(Entry) /\ root \in Iris /\ maxDepth \in Nat /\ nodeCap \in Nat
    BY WalkedAreTyped
  <1>. QED  BY <1>1, DerivationHolds

LEMMA GraphsImply == SnapshotInv => GraphIsHonest
  <1>. SUFFICES ASSUME SnapshotInv PROVE GraphIsHonest
    OBVIOUS
  <1>. SUFFICES ASSUME NEW entries \in Walking, Acyclic(entries), NEW root \in EntryIris(entries),
                       NEW depth \in Depths, NEW nodeCap \in Caps
                PROVE  ShowsJust(BuildGraph(entries, root, depth, nodeCap, 100),
                                 Ball(entries, "upstream", root), Ball(entries, "downstream", root))
    BY DEF GraphIsHonest
  <1>1. entries \in Seq(Entry) /\ depth \in Nat /\ nodeCap \in Nat
    BY WalkedAreTyped
  <1>. QED  BY <1>1, GraphHolds

\* Of any corpus, however it is committed to and restored meanwhile, with any bounds: a
\* derivation that is not marked truncated names every kernel maxim behind its root, and each
\* chain it gives is a shortest one.
THEOREM DerivationsHonest ==
    ASSUME NEW inode \in Inodes, NEW rows \in Seq(JournalRow),
           \A i \in DOMAIN rows : rows[i].op = 0
    PROVE  InitFile(inode, rows) /\ [][NextReads]_readVars => []DerivationIsHonest
  <1>1. InitFile(inode, rows) => SnapshotInv
    BY SnapshotInit
  <1>2. SnapshotInv /\ [NextReads]_readVars => SnapshotInv'
    BY ReadsStep
  <1>3. SnapshotInv => DerivationIsHonest
    BY DerivationsImply
  <1>. QED  BY <1>1, <1>2, <1>3, PTL

\* Of any corpus whose dependencies close no cycle, with any bounds: a graph that is not marked
\* truncated holds just what is within reach of its root both ways, every node at its least
\* distance, and a cap leaves out only nodes at least as far as those it keeps.
THEOREM GraphsHonest ==
    ASSUME NEW inode \in Inodes, NEW rows \in Seq(JournalRow),
           \A i \in DOMAIN rows : rows[i].op = 0
    PROVE  InitFile(inode, rows) /\ [][NextReads]_readVars => []GraphIsHonest
  <1>1. InitFile(inode, rows) => SnapshotInv
    BY SnapshotInit
  <1>2. SnapshotInv /\ [NextReads]_readVars => SnapshotInv'
    BY ReadsStep
  <1>3. SnapshotInv => GraphIsHonest
    BY GraphsImply
  <1>. QED  BY <1>1, <1>2, <1>3, PTL

-----------------------------------------------------------------------------
(* The task tree. What the tree builder shows is the least set that holds the  *)
(* roots and the children of what it holds; the tasks above a task are the     *)
(* least set that holds its parent and the parents of what it holds. So no     *)
(* task below itself is shown, and of the tasks that are not shown and not     *)
(* below themselves one with the fewest tasks above it would have a parent     *)
(* with fewer.                                                                 *)

LEMMA ShownIsLeast ==
    /\ ShownTasks \subseteq Present
    /\ Roots \subseteq ShownTasks
    /\ ChildrenOf(ShownTasks) \subseteq ShownTasks
    /\ \A U \in SUBSET Present :
          Roots \subseteq U /\ (\A ts \in SUBSET U : ChildrenOf(ts) \subseteq U)
             => ShownTasks \subseteq U
  <1>. DEFINE N == Cardinality(TaskIds)
              G == [T \in SUBSET TaskIds |-> T \cup ChildrenOf(T)]
  <1>1. IsFiniteSet(TaskIds) /\ N \in Nat
    BY ExportAssumption, FS_CardinalityType
  <1>2. Roots \in SUBSET Present /\ Present \subseteq TaskIds
    BY DEF Roots, Present
  <1>3. StepGrows(G, TaskIds)
    BY DEF StepGrows, ChildrenOf, Present
  <1>. HIDE DEF G, N
  <1>4. PICK f : IteratesOf(G, Roots, N, f)
    BY <1>1, IteratesExist
  <1>5. f[0] = Roots /\ \A i \in 1 .. N : f[i] = G[f[i - 1]]
    BY <1>1, <1>4, IteratesUnfold
  <1>6. \A i \in 0 .. N : f[i] \in SUBSET TaskIds
    BY <1>1, <1>2, <1>3, <1>5, IteratesWithin
  <1>7. f = [n \in 0 .. N |-> IF n = 0 THEN Roots ELSE f[n - 1] \cup ChildrenOf(f[n - 1])]
    <2>1. \A n \in 0 .. N : n # 0 => n - 1 \in 0 .. N
      BY <1>1
    <2>2. \A n \in 0 .. N : n # 0 => G[f[n - 1]] = f[n - 1] \cup ChildrenOf(f[n - 1])
      BY <1>6, <2>1 DEF G
    <2>. QED  BY <1>4, <2>2 DEF IteratesOf
  <1>. DEFINE ByLevel(g) ==
                 g = [n \in 0 .. N |-> IF n = 0 THEN Roots ELSE g[n - 1] \cup ChildrenOf(g[n - 1])]
  <1>8. PICK g : ByLevel(g) /\ ShownTasks = g[N]
    BY <1>7 DEF ShownTasks, N
  <1>9. g[0] = Roots /\ \A n \in 1 .. N : g[n] = g[n - 1] \cup ChildrenOf(g[n - 1])
    <2>1. 0 \in 0 .. N /\ \A n \in 1 .. N : n \in 0 .. N /\ n # 0
      BY <1>1
    <2>. QED  BY <1>8, <2>1
  <1>10. ASSUME NEW U \in SUBSET Present, Roots \subseteq U,
                \A ts \in SUBSET U : ChildrenOf(ts) \subseteq U
         PROVE  \A n \in 0 .. N : g[n] \in SUBSET U
    <2>. DEFINE T == {n \in Nat : n <= N /\ g[n] \notin SUBSET U}
    <2>1. SUFFICES ASSUME T # {} PROVE FALSE
      BY <1>1
    <2>2. PICK m \in T : \A i \in T : m <= i
      BY <2>1, LeastNat
    <2>3. m \in Nat /\ m <= N /\ g[m] \notin SUBSET U /\ m # 0
      BY <1>9, <1>10
    <2>4. m - 1 \in Nat /\ m - 1 <= N /\ ~(m <= m - 1) /\ m \in 1 .. N
      BY <1>1, <2>3
    <2>5. g[m - 1] \in SUBSET U
      BY <2>2, <2>4
    <2>. HIDE DEF T
    <2>. QED  BY <1>9, <1>10, <2>3, <2>4, <2>5
  <1>11. \A n \in 0 .. N : g[n] \in SUBSET Present
    <2>1. \A ts \in SUBSET Present : ChildrenOf(ts) \subseteq Present
      BY DEF ChildrenOf
    <2>. QED  BY <1>2, <1>10, <2>1
  <1>12. \A n \in 1 .. N : g[n] = G[g[n - 1]]
    <2>1. \A n \in 1 .. N : n - 1 \in 0 .. N
      BY <1>1
    <2>. QED  BY <1>2, <1>9, <1>11, <2>1 DEF G
  <1>13. N \in 0 .. N /\ 0 \in 0 .. N /\ N <= N
    BY <1>1
  <1>14. G[g[N]] = g[N]
    BY <1>1, <1>2, <1>3, <1>9, <1>12, <1>13, IteratesClose DEF N
  <1>15. ChildrenOf(ShownTasks) \subseteq ShownTasks
    BY <1>2, <1>8, <1>11, <1>13, <1>14 DEF G
  <1>16. Roots \subseteq ShownTasks
    <2>1. g[0] \in SUBSET TaskIds
      BY <1>2, <1>9
    <2>2. \A i \in 0 .. N : g[0] \subseteq g[i]
      BY <1>1, <1>3, <1>12, <2>1, IteratesHoldStart
    <2>. QED  BY <1>8, <1>9, <1>13, <2>2
  <1>. QED  BY <1>8, <1>10, <1>11, <1>13, <1>15, <1>16

ParentsOf(ts) == {tasks[s].parent : s \in ts} \cap Present

LEMMA AboveIsLeast ==
    ASSUME NEW t
    PROVE  /\ Above(t) \subseteq Present
           /\ {tasks[t].parent} \cap Present \subseteq Above(t)
           /\ ParentsOf(Above(t)) \subseteq Above(t)
           /\ \A U \in SUBSET Present :
                 /\ {tasks[t].parent} \cap Present \subseteq U
                 /\ \A ts \in SUBSET U : ParentsOf(ts) \subseteq U
                 => Above(t) \subseteq U
  <1>. DEFINE N == Cardinality(TaskIds)
              G == [T \in SUBSET TaskIds |-> T \cup ParentsOf(T)]
              own == {tasks[t].parent} \cap Present
  <1>1. IsFiniteSet(TaskIds) /\ N \in Nat
    BY ExportAssumption, FS_CardinalityType
  <1>2. own \in SUBSET Present /\ Present \subseteq TaskIds
    BY DEF Present
  <1>3. StepGrows(G, TaskIds)
    BY DEF StepGrows, ParentsOf, Present
  <1>. HIDE DEF G, N, own
  <1>4. PICK f : IteratesOf(G, own, N, f)
    BY <1>1, IteratesExist
  <1>5. f[0] = own /\ \A i \in 1 .. N : f[i] = G[f[i - 1]]
    BY <1>1, <1>4, IteratesUnfold
  <1>6. \A i \in 0 .. N : f[i] \in SUBSET TaskIds
    BY <1>1, <1>2, <1>3, <1>5, IteratesWithin
  <1>. DEFINE ByStep(g) ==
                 g = [n \in 0 .. N |-> IF n = 0 THEN own ELSE g[n - 1] \cup ParentsOf(g[n - 1])]
  <1>7. ByStep(f)
    <2>1. \A n \in 0 .. N : n # 0 => n - 1 \in 0 .. N
      BY <1>1
    <2>2. \A n \in 0 .. N : n # 0 => G[f[n - 1]] = f[n - 1] \cup ParentsOf(f[n - 1])
      BY <1>6, <2>1 DEF G
    <2>. QED  BY <1>4, <2>2 DEF IteratesOf
  <1>8. PICK g : ByStep(g) /\ Above(t) = g[N]
    BY <1>7 DEF Above, N, own, ParentsOf
  <1>9. g[0] = own /\ \A n \in 1 .. N : g[n] = g[n - 1] \cup ParentsOf(g[n - 1])
    <2>1. 0 \in 0 .. N /\ \A n \in 1 .. N : n \in 0 .. N /\ n # 0
      BY <1>1
    <2>. QED  BY <1>8, <2>1
  <1>10. ASSUME NEW U \in SUBSET Present, own \subseteq U,
                \A ts \in SUBSET U : ParentsOf(ts) \subseteq U
         PROVE  \A n \in 0 .. N : g[n] \in SUBSET U
    <2>. DEFINE T == {n \in Nat : n <= N /\ g[n] \notin SUBSET U}
    <2>1. SUFFICES ASSUME T # {} PROVE FALSE
      BY <1>1
    <2>2. PICK m \in T : \A i \in T : m <= i
      BY <2>1, LeastNat
    <2>3. m \in Nat /\ m <= N /\ g[m] \notin SUBSET U /\ m # 0
      BY <1>9, <1>10
    <2>4. m - 1 \in Nat /\ m - 1 <= N /\ ~(m <= m - 1) /\ m \in 1 .. N
      BY <1>1, <2>3
    <2>5. g[m - 1] \in SUBSET U
      BY <2>2, <2>4
    <2>. HIDE DEF T
    <2>. QED  BY <1>9, <1>10, <2>3, <2>4, <2>5
  <1>11. \A n \in 0 .. N : g[n] \in SUBSET Present
    <2>1. \A ts \in SUBSET Present : ParentsOf(ts) \subseteq Present
      BY DEF ParentsOf
    <2>. QED  BY <1>2, <1>10, <2>1
  <1>12. \A n \in 1 .. N : g[n] = G[g[n - 1]]
    <2>1. \A n \in 1 .. N : n - 1 \in 0 .. N
      BY <1>1
    <2>. QED  BY <1>2, <1>9, <1>11, <2>1 DEF G
  <1>13. N \in 0 .. N /\ 0 \in 0 .. N /\ N <= N
    BY <1>1
  <1>14. G[g[N]] = g[N]
    BY <1>1, <1>2, <1>3, <1>9, <1>12, <1>13, IteratesClose DEF N
  <1>15. ParentsOf(Above(t)) \subseteq Above(t)
    <2>1. g[N] \in SUBSET TaskIds
      BY <1>2, <1>11, <1>13
    <2>2. g[N] \cup ParentsOf(g[N]) = g[N]
      BY <1>14, <2>1 DEF G
    <2>. QED  BY <1>8, <2>2
  <1>16. own \subseteq Above(t)
    <2>1. g[0] \in SUBSET TaskIds
      BY <1>2, <1>9
    <2>2. \A i \in 0 .. N : g[0] \subseteq g[i]
      BY <1>1, <1>3, <1>12, <2>1, IteratesHoldStart
    <2>. QED  BY <1>8, <1>9, <1>13, <2>2
  <1>. QED  BY <1>8, <1>10, <1>11, <1>13, <1>15, <1>16 DEF own

LEMMA AboveUnfolds ==
    ASSUME NEW t
    PROVE  LET p == tasks[t].parent
           IN  Above(t) = IF p \in Present THEN {p} \cup Above(p) ELSE {}
  <1>. DEFINE p == tasks[t].parent
  <1>1. CASE p \notin Present
    <2>1. {p} \cap Present \subseteq {} /\ \A ts \in SUBSET {} : ParentsOf(ts) \subseteq {}
      BY <1>1 DEF ParentsOf
    <2>2. {} \in SUBSET Present
      OBVIOUS
    <2>3. Above(t) \subseteq {}
      BY <2>1, <2>2, AboveIsLeast
    <2>. QED  BY <1>1, <2>3
  <1>2. CASE p \in Present
    <2>1. Above(p) \subseteq Above(t)
      <3>1. {tasks[p].parent} \cap Present \subseteq Above(t)
        BY <1>2, AboveIsLeast DEF ParentsOf
      <3>2. \A ts \in SUBSET Above(t) : ParentsOf(ts) \subseteq Above(t)
        BY AboveIsLeast DEF ParentsOf
      <3>3. Above(t) \in SUBSET Present
        BY AboveIsLeast
      <3>. QED  BY <3>1, <3>2, <3>3, AboveIsLeast
    <2>2. p \in Above(t)
      BY <1>2, AboveIsLeast
    <2>3. Above(t) \subseteq {p} \cup Above(p)
      <3>. DEFINE U == {p} \cup Above(p)
      <3>1. U \in SUBSET Present
        BY <1>2, AboveIsLeast
      <3>2. ASSUME NEW ts \in SUBSET U PROVE ParentsOf(ts) \subseteq U
        <4>1. {tasks[p].parent} \cap Present \subseteq Above(p)
              /\ ParentsOf(Above(p)) \subseteq Above(p)
          BY AboveIsLeast
        <4>. QED  BY <4>1 DEF ParentsOf
      <3>3. {p} \cap Present \subseteq U
        OBVIOUS
      <3>. HIDE DEF U
      <3>4. Above(t) \subseteq U
        BY <3>1, <3>2, <3>3, AboveIsLeast
      <3>. QED  BY <3>4 DEF U
    <2>. QED  BY <1>2, <2>1, <2>2, <2>3
  <1>. QED  BY <1>1, <1>2

\* The tree shows every task that is not below itself and rests on none that is, and no other,
\* for any table of tasks.
LEMMA TreeShowsAll == TreeIsWhole
  <1>. DEFINE Sound == {t \in Present : \A s \in Above(t) \cup {t} : s \notin Above(s)}
  <1>1. ShownTasks \subseteq Sound
    <2>1. Roots \subseteq Sound
      <3>. SUFFICES ASSUME NEW t \in Roots PROVE t \in Sound
        OBVIOUS
      <3>1. t \in Present /\ Above(t) = {}
        BY AboveUnfolds DEF Roots
      <3>. QED  BY <3>1
    <2>2. ASSUME NEW ts \in SUBSET Sound PROVE ChildrenOf(ts) \subseteq Sound
      <3>. SUFFICES ASSUME NEW t \in ChildrenOf(ts) PROVE t \in Sound
        OBVIOUS
      <3>. DEFINE p == tasks[t].parent
      <3>1. t \in Present /\ p \in Sound /\ p \in Present
        BY DEF ChildrenOf
      <3>2. Above(t) = {p} \cup Above(p)
        BY <3>1, AboveUnfolds
      <3>3. \A s \in Above(t) : s \notin Above(s)
        BY <3>1, <3>2
      <3>. QED  BY <3>1, <3>3
    <2>3. Sound \in SUBSET Present
      OBVIOUS
    <2>. HIDE DEF Sound
    <2>. QED  BY <2>1, <2>2, <2>3, ShownIsLeast
  <1>2. Sound \subseteq ShownTasks
    <2>. DEFINE Hidden == Sound \ ShownTasks
                Sizes == {n \in Nat : \E t \in Hidden : n = Cardinality(Above(t))}
    <2>1. SUFFICES ASSUME Hidden # {} PROVE FALSE
      OBVIOUS
    <2>2. \A t : IsFiniteSet(Above(t)) /\ Cardinality(Above(t)) \in Nat
      <3>1. IsFiniteSet(Present)
        BY ExportAssumption, FS_Subset DEF Present
      <3>. QED  BY <3>1, AboveIsLeast, FS_Subset, FS_CardinalityType
    <2>3. Sizes \subseteq Nat /\ Sizes # {}
      BY <2>1, <2>2
    <2>4. PICK m \in Sizes : \A i \in Sizes : m <= i
      BY <2>3, LeastNat
    <2>5. PICK t \in Hidden : m = Cardinality(Above(t))
      BY <2>4
    <2>. DEFINE p == tasks[t].parent
    <2>6. p \in Present /\ p \notin ShownTasks
      BY <2>5, ShownIsLeast DEF Roots, ChildrenOf
    <2>7. Above(t) = {p} \cup Above(p)
      BY <2>6, AboveUnfolds
    <2>8. p \notin Above(p)
      BY <2>5, <2>7
    <2>9. p \in Hidden
      BY <2>5, <2>6, <2>7
    <2>10. Cardinality(Above(p)) \in Sizes
      BY <2>2, <2>9
    <2>11. Above(p) = Above(t) \ {p} /\ p \in Above(t)
      BY <2>7, <2>8
    <2>12. Cardinality(Above(t) \ {p}) = Cardinality(Above(t)) - 1
      <3>1. IsFiniteSet(Above(t)) /\ p \in Above(t)
        BY <2>2, <2>11
      <3>. HIDE DEF p
      <3>. QED  BY <3>1, FS_RemoveElement
    <2>. HIDE DEF Sizes
    <2>13. m <= Cardinality(Above(p))
      BY <2>4, <2>10
    <2>. QED  BY <2>2, <2>5, <2>11, <2>12, <2>13
  <1>. QED  BY <1>1, <1>2 DEF TreeIsWhole

\* After any moves, merges, deletes and discovery runs, by any reviewers and over any tasks, the
\* tree shows every task but those below one of their own descendants.
THEOREM TreesAreWhole == TaskSpec => []TreeIsWhole
  BY TreeShowsAll, PTL
-----------------------------------------------------------------------------
(* The effective state of shards. After the supersessions and the contests     *)
(* every shard has a state; the retractions then only mark the retracted ones, *)
(* so what a retraction asks of a dependent that is not retracted is the same  *)
(* in whatever order the retractions are taken.                                *)

SupersededUpTo(store, events, n, p) ==
    p = [i \in 0 .. n |->
            IF i = 0 THEN [s \in DOMAIN store |-> Current]
            ELSE IF events[i].kind = "supersede" THEN Superseded(store, p[i - 1], events[i])
            ELSE p[i - 1]]

LEMMA SupersededExists ==
    ASSUME NEW store, NEW events
    PROVE  \A n \in Nat : \E p : SupersededUpTo(store, events, n, p)
  <1>. DEFINE Good == {n \in Nat : \E p : SupersededUpTo(store, events, n, p)}
  <1>1. 0 \in Good
    <2>1. PICK p : p = [i \in 0 .. 0 |-> [s \in DOMAIN store |-> Current]]
      OBVIOUS
    <2>2. SupersededUpTo(store, events, 0, p)
      BY <2>1 DEF SupersededUpTo
    <2>. QED  BY <2>2
  <1>2. ASSUME NEW m \in Nat \ {0}, m - 1 \in Good PROVE m \in Good
    <2>1. PICK p : SupersededUpTo(store, events, m - 1, p)
      BY <1>2
    <2>2. PICK q : q = [i \in 0 .. m |->
                           IF i = 0 THEN [s \in DOMAIN store |-> Current]
                           ELSE IF events[i].kind = "supersede"
                                THEN Superseded(store, p[i - 1], events[i])
                           ELSE p[i - 1]]
      OBVIOUS
    <2>3. \A i \in 0 .. m - 1 : q[i] = p[i]
      <3>1. \A i \in 0 .. m - 1 : i \in 0 .. m
        OBVIOUS
      <3>. QED  BY <2>1, <2>2, <3>1 DEF SupersededUpTo
    <2>4. \A i \in 1 .. m : q[i - 1] = p[i - 1]
      BY <2>3
    <2>5. SupersededUpTo(store, events, m, q)
      <3>1. \A i \in 0 .. m : i # 0 => i \in 1 .. m
        OBVIOUS
      <3>. HIDE DEF Good
      <3>2. [i \in 0 .. m |-> IF i = 0 THEN [s \in DOMAIN store |-> Current]
                             ELSE IF events[i].kind = "supersede"
                                  THEN Superseded(store, p[i - 1], events[i])
                             ELSE p[i - 1]]
               = [i \in 0 .. m |-> IF i = 0 THEN [s \in DOMAIN store |-> Current]
                                  ELSE IF events[i].kind = "supersede"
                                       THEN Superseded(store, q[i - 1], events[i])
                                  ELSE q[i - 1]]
        BY <2>4, <3>1
      <3>. QED  BY <2>2, <3>2 DEF SupersededUpTo
    <2>. QED  BY <2>5
  <1>. HIDE DEF Good
  <1>3. \A n \in Nat : n \in Good
    BY <1>1, <1>2, AllNumbers
  <1>. QED  BY <1>3 DEF Good

\* The records that stand for a shard's state.
Statuses == DOMAIN Rank
Typed(states, S, W) ==
    /\ states = [s \in S |-> states[s]]
    /\ \A s \in S : "status" \in DOMAIN states[s] /\ states[s].status \in W

LEMMA TouchTyped ==
    ASSUME NEW states, NEW S, NEW W, Typed(states, S, W), NEW s, NEW change,
           "status" \in DOMAIN change, change.status \in W
    PROVE  Typed(Touch(states, s, change), S, W)
  <1>1. DOMAIN states = S
    BY DEF Typed
  <1>2. CASE s \in S
    <2>. DEFINE w == With(states[s], change)
    <2>1. "status" \in DOMAIN w /\ w.status = change.status
      BY <1>2 DEF With, Typed
    <2>. HIDE DEF w
    <2>2. Typed([states EXCEPT ![s] = w], S, W)
      BY <1>1, <1>2, <2>1 DEF Typed
    <2>. QED  BY <2>2 DEF Touch, w
  <1>3. CASE s \notin S
    BY <1>1, <1>3 DEF Touch
  <1>. QED  BY <1>2, <1>3

LEMMA SupersededAt ==
    ASSUME NEW store, NEW E, NEW events \in Seq(E)
    PROVE  \E p : /\ SupersededUpTo(store, events, Len(events), p)
                  /\ ApplySupersessions(store, events) = p[Len(events)]
  <1>1. Len(events) \in Nat
    OBVIOUS
  <1>2. \E p : SupersededUpTo(store, events, Len(events), p)
    BY <1>1, SupersededExists
  <1>. QED  BY <1>2 DEF ApplySupersessions, SupersededUpTo

LEMMA SupersededTyped ==
    ASSUME NEW store, NEW E, NEW events \in Seq(E)
    PROVE  Typed(ApplySupersessions(store, events), DOMAIN store, {"current", "superseded"})
  <1>. DEFINE W == {"current", "superseded"}
              n == Len(events)
  <1>1. PICK p : SupersededUpTo(store, events, n, p) /\ ApplySupersessions(store, events) = p[n]
    BY SupersededAt
  <1>. DEFINE Good == {i \in Nat : Typed(p[i], DOMAIN store, W)}
  <1>2. n \in Nat
    OBVIOUS
  <1>3. \A i \in 0 .. n : p[i] = IF i = 0 THEN [s \in DOMAIN store |-> Current]
                                ELSE IF events[i].kind = "supersede"
                                     THEN Superseded(store, p[i - 1], events[i])
                                ELSE p[i - 1]
    BY <1>1 DEF SupersededUpTo
  <1>4. 0 \in Good
    <2>1. p[0] = [s \in DOMAIN store |-> Current]
      BY <1>2, <1>3
    <2>2. "status" \in DOMAIN Current /\ Current.status = "current"
      BY DEF Current
    <2>. QED  BY <2>1, <2>2 DEF Typed
  <1>5. ASSUME NEW i \in 1 .. n, i - 1 \in Good PROVE i \in Good
    <2>1. i \in 0 .. n /\ i # 0 /\ i \in Nat
      OBVIOUS
    <2>2. Typed(p[i - 1], DOMAIN store, W)
      BY <1>5
    <2>3. Typed(Superseded(store, p[i - 1], events[i]), DOMAIN store, W)
      BY <2>2, TouchTyped DEF Superseded
    <2>4. p[i] \in {p[i - 1], Superseded(store, p[i - 1], events[i])}
      BY <1>3, <2>1
    <2>. QED  BY <2>1, <2>2, <2>3, <2>4
  <1>6. n \in 0 .. n
    BY <1>2
  <1>7. n \in Good
    <2>. HIDE DEF Good
    <2>. QED  BY <1>2, <1>4, <1>5, <1>6, NumbersUpTo
  <1>. QED  BY <1>1, <1>7

ContestedUpTo(states, events, n, p) ==
    p = [i \in 0 .. n |->
            IF i = 0 THEN states
            ELSE CASE events[i].kind = "contest" -> Contested(p[i - 1], events[i])
                   [] events[i].kind = "resolve_contest" -> Resolve(p[i - 1], events[i])
                   [] OTHER -> p[i - 1]]

LEMMA ContestedExists ==
    ASSUME NEW states, NEW events
    PROVE  \A n \in Nat : \E p : ContestedUpTo(states, events, n, p)
  <1>. DEFINE Good == {n \in Nat : \E p : ContestedUpTo(states, events, n, p)}
  <1>1. 0 \in Good
    <2>1. PICK p : p = [i \in 0 .. 0 |-> states]
      OBVIOUS
    <2>2. ContestedUpTo(states, events, 0, p)
      BY <2>1 DEF ContestedUpTo
    <2>. QED  BY <2>2
  <1>2. ASSUME NEW m \in Nat \ {0}, m - 1 \in Good PROVE m \in Good
    <2>1. PICK p : ContestedUpTo(states, events, m - 1, p)
      BY <1>2
    <2>2. PICK q : q = [i \in 0 .. m |->
                           IF i = 0 THEN states
                           ELSE CASE events[i].kind = "contest" ->
                                       Contested(p[i - 1], events[i])
                                  [] events[i].kind = "resolve_contest" ->
                                       Resolve(p[i - 1], events[i])
                                  [] OTHER -> p[i - 1]]
      OBVIOUS
    <2>3. \A i \in 0 .. m - 1 : q[i] = p[i]
      <3>1. \A i \in 0 .. m - 1 : i \in 0 .. m
        OBVIOUS
      <3>. QED  BY <2>1, <2>2, <3>1 DEF ContestedUpTo
    <2>4. \A i \in 1 .. m : q[i - 1] = p[i - 1]
      BY <2>3
    <2>5. ContestedUpTo(states, events, m, q)
      <3>1. \A i \in 0 .. m : i # 0 => i \in 1 .. m
        OBVIOUS
      <3>. HIDE DEF Good
      <3>2. [i \in 0 .. m |->
                IF i = 0 THEN states
                ELSE CASE events[i].kind = "contest" -> Contested(p[i - 1], events[i])
                       [] events[i].kind = "resolve_contest" -> Resolve(p[i - 1], events[i])
                       [] OTHER -> p[i - 1]]
               = [i \in 0 .. m |->
                     IF i = 0 THEN states
                     ELSE CASE events[i].kind = "contest" -> Contested(q[i - 1], events[i])
                            [] events[i].kind = "resolve_contest" -> Resolve(q[i - 1], events[i])
                            [] OTHER -> q[i - 1]]
        BY <2>4, <3>1
      <3>. QED  BY <2>2, <3>2 DEF ContestedUpTo
    <2>. QED  BY <2>5
  <1>. HIDE DEF Good
  <1>3. \A n \in Nat : n \in Good
    BY <1>1, <1>2, AllNumbers
  <1>. QED  BY <1>3 DEF Good

LEMMA ResolveTyped ==
    ASSUME NEW states, NEW S, NEW W, Typed(states, S, W), {"resolved", "aporetic"} \subseteq W,
           NEW e
    PROVE  Typed(Resolve(states, e), S, W)
  <1>1. DOMAIN states = S
    BY DEF Typed
  <1>2. CASE e.shard \in S
    <2>. DEFINE change == [status |-> IF e.path = "aporetic" THEN "aporetic" ELSE "resolved",
                           resolution |-> e.path]
                w == With(states[e.shard], change)
    <2>1. "status" \in DOMAIN change /\ change.status \in W
      OBVIOUS
    <2>2. "status" \in DOMAIN w /\ w.status = change.status
      <3>. HIDE DEF change
      <3>. QED  BY <1>2, <2>1 DEF With, Typed
    <2>. HIDE DEF w
    <2>3. Typed([states EXCEPT ![e.shard] = w], S, W)
      <3>. HIDE DEF change
      <3>. QED  BY <1>1, <1>2, <2>1, <2>2 DEF Typed
    <2>. QED  BY <2>3 DEF Resolve, w
  <1>3. CASE e.shard \notin S
    BY <1>1, <1>3 DEF Resolve
  <1>. QED  BY <1>2, <1>3

LEMMA ContestedAt ==
    ASSUME NEW states, NEW E, NEW events \in Seq(E)
    PROVE  \E p : /\ ContestedUpTo(states, events, Len(events), p)
                  /\ ApplyContests(states, events) = p[Len(events)]
  <1>1. Len(events) \in Nat
    OBVIOUS
  <1>2. \E p : ContestedUpTo(states, events, Len(events), p)
    BY <1>1, ContestedExists
  <1>. QED  BY <1>2 DEF ApplyContests, ContestedUpTo

LEMMA ContestedTyped ==
    ASSUME NEW S, NEW W, {"contested", "resolved", "aporetic"} \subseteq W,
           NEW states, Typed(states, S, W), NEW E, NEW events \in Seq(E)
    PROVE  Typed(ApplyContests(states, events), S, W)
  <1>. DEFINE n == Len(events)
  <1>1. PICK p : ContestedUpTo(states, events, n, p) /\ ApplyContests(states, events) = p[n]
    BY ContestedAt
  <1>. DEFINE Good == {i \in Nat : Typed(p[i], S, W)}
  <1>2. n \in Nat
    OBVIOUS
  <1>3. \A i \in 0 .. n : p[i] = IF i = 0 THEN states
            ELSE CASE events[i].kind = "contest" -> Contested(p[i - 1], events[i])
                   [] events[i].kind = "resolve_contest" -> Resolve(p[i - 1], events[i])
                   [] OTHER -> p[i - 1]
    BY <1>1 DEF ContestedUpTo
  <1>4. 0 \in Good
    BY <1>2, <1>3
  <1>5. ASSUME NEW i \in 1 .. n, i - 1 \in Good PROVE i \in Good
    <2>1. i \in 0 .. n /\ i # 0 /\ i \in Nat
      OBVIOUS
    <2>2. Typed(p[i - 1], S, W)
      BY <1>5
    <2>3. Typed(Contested(p[i - 1], events[i]), S, W)
      BY <2>2, TouchTyped DEF Contested
    <2>4. Typed(Resolve(p[i - 1], events[i]), S, W)
      BY <2>2, ResolveTyped
    <2>5. p[i] \in {p[i - 1], Contested(p[i - 1], events[i]), Resolve(p[i - 1], events[i])}
      BY <1>3, <2>1
    <2>. QED  BY <2>1, <2>2, <2>3, <2>4, <2>5
  <1>6. n \in 0 .. n
    BY <1>2
  <1>7. n \in Good
    <2>. HIDE DEF Good
    <2>. QED  BY <1>2, <1>4, <1>5, <1>6, NumbersUpTo
  <1>. QED  BY <1>1, <1>7

\* The states before the retractions.
Unretracted(store, events) == ApplyContests(ApplySupersessions(store, events), events)
Mild == {"current", "contested", "resolved", "aporetic", "superseded"}

LEMMA UnretractedTyped ==
    ASSUME NEW store, NEW E, NEW events \in Seq(E)
    PROVE  Typed(Unretracted(store, events), DOMAIN store, Mild)
  <1>1. Typed(ApplySupersessions(store, events), DOMAIN store, {"current", "superseded"})
    BY SupersededTyped
  <1>2. Typed(ApplySupersessions(store, events), DOMAIN store, Mild)
    BY <1>1 DEF Typed, Mild
  <1>3. {"contested", "resolved", "aporetic"} \subseteq Mild
    BY DEF Mild
  <1>. QED  BY <1>2, <1>3, ContestedTyped DEF Unretracted

\* Two logs that differ only in which retraction stands where.
Alike(one, two) ==
    /\ Len(one) = Len(two)
    /\ \A i \in 1 .. Len(one) :
          one[i] = two[i] \/ (one[i].kind = "retract" /\ two[i].kind = "retract")

LEMMA SupersededAlike ==
    ASSUME NEW store, NEW E, NEW one \in Seq(E), NEW two \in Seq(E), Alike(one, two)
    PROVE  ApplySupersessions(store, one) = ApplySupersessions(store, two)
  <1>. DEFINE n == Len(one)
  <1>1. PICK p : SupersededUpTo(store, one, n, p) /\ ApplySupersessions(store, one) = p[n]
    BY SupersededAt
  <1>2. PICK q : SupersededUpTo(store, two, n, q) /\ ApplySupersessions(store, two) = q[n]
    BY SupersededAt DEF Alike
  <1>. DEFINE Good == {i \in Nat : p[i] = q[i]}
  <1>3. n \in Nat
    OBVIOUS
  <1>. HIDE DEF n
  <1>4. \A i \in 0 .. n :
           /\ p[i] = IF i = 0 THEN [s \in DOMAIN store |-> Current]
                     ELSE IF one[i].kind = "supersede" THEN Superseded(store, p[i - 1], one[i])
                     ELSE p[i - 1]
           /\ q[i] = IF i = 0 THEN [s \in DOMAIN store |-> Current]
                     ELSE IF two[i].kind = "supersede" THEN Superseded(store, q[i - 1], two[i])
                     ELSE q[i - 1]
    BY <1>1, <1>2 DEF SupersededUpTo
  <1>5. 0 \in Good
    BY <1>3, <1>4
  <1>6. ASSUME NEW i \in 1 .. n, i - 1 \in Good PROVE i \in Good
    <2>1. i \in 0 .. n /\ i # 0 /\ i \in Nat /\ p[i - 1] = q[i - 1]
      BY <1>3, <1>6
    <2>2. one[i] = two[i] \/ (one[i].kind = "retract" /\ two[i].kind = "retract")
      BY DEF Alike, n
    <2>3. p[i] = IF one[i].kind = "supersede" THEN Superseded(store, p[i - 1], one[i])
                 ELSE p[i - 1]
      BY <1>4, <2>1
    <2>4. q[i] = IF two[i].kind = "supersede" THEN Superseded(store, q[i - 1], two[i])
                 ELSE q[i - 1]
      BY <1>4, <2>1
    <2>5. p[i] = q[i]
      BY <2>1, <2>2, <2>3, <2>4
    <2>. QED  BY <2>1, <2>5
  <1>7. n \in 0 .. n
    BY <1>3
  <1>8. n \in Good
    <2>. HIDE DEF Good
    <2>. QED  BY <1>3, <1>5, <1>6, <1>7, NumbersUpTo
  <1>. QED  BY <1>1, <1>2, <1>8

LEMMA ContestedAlike ==
    ASSUME NEW states, NEW E, NEW one \in Seq(E), NEW two \in Seq(E), Alike(one, two)
    PROVE  ApplyContests(states, one) = ApplyContests(states, two)
  <1>. DEFINE n == Len(one)
  <1>1. PICK p : ContestedUpTo(states, one, n, p) /\ ApplyContests(states, one) = p[n]
    BY ContestedAt
  <1>2. PICK q : ContestedUpTo(states, two, n, q) /\ ApplyContests(states, two) = q[n]
    BY ContestedAt DEF Alike
  <1>. DEFINE Good == {i \in Nat : p[i] = q[i]}
  <1>3. n \in Nat
    OBVIOUS
  <1>. HIDE DEF n
  <1>4. \A i \in 0 .. n :
           /\ p[i] = IF i = 0 THEN states
                     ELSE CASE one[i].kind = "contest" -> Contested(p[i - 1], one[i])
                            [] one[i].kind = "resolve_contest" -> Resolve(p[i - 1], one[i])
                            [] OTHER -> p[i - 1]
           /\ q[i] = IF i = 0 THEN states
                     ELSE CASE two[i].kind = "contest" -> Contested(q[i - 1], two[i])
                            [] two[i].kind = "resolve_contest" -> Resolve(q[i - 1], two[i])
                            [] OTHER -> q[i - 1]
    BY <1>1, <1>2 DEF ContestedUpTo
  <1>5. 0 \in Good
    BY <1>3, <1>4
  <1>6. ASSUME NEW i \in 1 .. n, i - 1 \in Good PROVE i \in Good
    <2>1. i \in 0 .. n /\ i # 0 /\ i \in Nat /\ p[i - 1] = q[i - 1]
      BY <1>3, <1>6
    <2>2. one[i] = two[i] \/ (one[i].kind = "retract" /\ two[i].kind = "retract")
      BY DEF Alike, n
    <2>3. p[i] = CASE one[i].kind = "contest" -> Contested(p[i - 1], one[i])
                   [] one[i].kind = "resolve_contest" -> Resolve(p[i - 1], one[i])
                   [] OTHER -> p[i - 1]
      BY <1>4, <2>1
    <2>4. q[i] = CASE two[i].kind = "contest" -> Contested(p[i - 1], two[i])
                   [] two[i].kind = "resolve_contest" -> Resolve(p[i - 1], two[i])
                   [] OTHER -> p[i - 1]
      BY <1>4, <2>1
    <2>5. CASE one[i] = two[i]
      BY <2>3, <2>4, <2>5
    <2>6. CASE one[i].kind = "retract" /\ two[i].kind = "retract"
      BY <2>3, <2>4, <2>6
    <2>7. p[i] = q[i]
      BY <2>1, <2>2, <2>5, <2>6
    <2>. QED  BY <2>1, <2>7
  <1>7. n \in 0 .. n
    BY <1>3
  <1>8. n \in Good
    <2>. HIDE DEF Good
    <2>. QED  BY <1>3, <1>5, <1>6, <1>7, NumbersUpTo
  <1>. QED  BY <1>1, <1>2, <1>8

-----------------------------------------------------------------------------
(* The depths at which dependents lie. *)

WithinOf(store, s, h) ==
    h = [n \in 0 .. Cardinality(DOMAIN store) |->
            IF n = 0 THEN {s}
            ELSE LET near == h[n - 1] IN near \cup RestOn(store, near)]

LEMMA WithinExists ==
    ASSUME NEW store, IsFiniteSet(DOMAIN store), NEW s
    PROVE  /\ WithinOf(store, s, Within(store, s))
           /\ \A n \in 0 .. Cardinality(DOMAIN store) :
                 Within(store, s)[n] \subseteq DOMAIN store \cup {s}
  <1>. DEFINE N == Cardinality(DOMAIN store)
              U == DOMAIN store \cup {s}
              G == [T \in SUBSET U |-> T \cup RestOn(store, T)]
  <1>1. N \in Nat
    BY FS_CardinalityType
  <1>2. StepGrows(G, U)
    BY DEF StepGrows, RestOn
  <1>3. PICK f : IteratesOf(G, {s}, N, f)
    BY <1>1, IteratesExist
  <1>. HIDE DEF N, G
  <1>4. f[0] = {s} /\ \A i \in 1 .. N : f[i] = G[f[i - 1]]
    BY <1>1, <1>3, IteratesUnfold
  <1>5. \A i \in 0 .. N : f[i] \in SUBSET U
    BY <1>1, <1>2, <1>4, IteratesWithin
  <1>6. \A i \in 1 .. N : G[f[i - 1]] = f[i - 1] \cup RestOn(store, f[i - 1])
    <2>1. \A i \in 1 .. N : i - 1 \in 0 .. N
      BY <1>1
    <2>. QED  BY <1>5, <2>1 DEF G
  <1>7. f = [n \in 0 .. N |->
                IF n = 0 THEN {s}
                ELSE LET near == f[n - 1] IN near \cup RestOn(store, near)]
    <2>1. f = [i \in 0 .. N |-> IF i = 0 THEN {s} ELSE G[f[i - 1]]]
      BY <1>3 DEF IteratesOf
    <2>2. \A i \in 0 .. N : i # 0 => i \in 1 .. N
      BY <1>1
    <2>. QED  BY <1>6, <2>1, <2>2
  <1>8. WithinOf(store, s, f)
    BY <1>7 DEF WithinOf, N
  <1>9. WithinOf(store, s, Within(store, s))
    BY <1>8 DEF Within, WithinOf
  <1>. DEFINE h == Within(store, s)
              Good == {i \in Nat : h[i] = f[i]}
  <1>10. \A i \in 0 .. N : h[i] = IF i = 0 THEN {s}
               ELSE h[i - 1] \cup RestOn(store, h[i - 1])
    BY <1>9 DEF WithinOf, N
  <1>11. 0 \in Good
    <2>1. 0 \in 0 .. N
      BY <1>1
    <2>. HIDE DEF h
    <2>. QED  BY <1>4, <1>10, <2>1
  <1>12. ASSUME NEW i \in 1 .. N, i - 1 \in Good PROVE i \in Good
    <2>1. i \in 0 .. N /\ i # 0 /\ i \in Nat /\ h[i - 1] = f[i - 1]
      BY <1>1, <1>12
    <2>2. f[i] = f[i - 1] \cup RestOn(store, f[i - 1])
      BY <1>4, <1>6
    <2>. QED  BY <1>10, <2>1, <2>2
  <1>13. \A i \in 0 .. N : i \in Good
    <2>. HIDE DEF Good
    <2>. QED  BY <1>1, <1>11, <1>12, NumbersUpTo
  <1>. QED  BY <1>5, <1>9, <1>13 DEF N

LEMMA DependentDepth ==
    ASSUME NEW store, IsFiniteSet(DOMAIN store), NEW s,
           NEW d \in DOMAIN TransitiveDependents(store, s)
    PROVE  /\ d \in DOMAIN store /\ d # s
           /\ TransitiveDependents(store, s)[d] \in Nat \ {0}
  <1>. DEFINE N == Cardinality(DOMAIN store)
              hops == Within(store, s)
              at == {n \in DOMAIN hops : d \in hops[n]}
  <1>1. N \in Nat
    BY FS_CardinalityType
  <1>2. DOMAIN hops = 0 .. N
    BY WithinExists DEF WithinOf
  <1>3. hops[0] = {s} /\ hops[N] \subseteq DOMAIN store \cup {s}
    BY <1>1, WithinExists DEF WithinOf
  <1>. HIDE DEF hops
  <1>4. d \in hops[N] /\ d # s /\ TransitiveDependents(store, s)[d] = Min(at)
    BY DEF TransitiveDependents, hops
  <1>5. at \subseteq Nat /\ N \in at /\ 0 \notin at
    BY <1>1, <1>2, <1>3, <1>4
  <1>. HIDE DEF at, N
  <1>6. Min(at) \in at
    BY <1>5, MinOfSome
  <1>. QED  BY <1>3, <1>4, <1>5, <1>6

LEMMA OutcomeTyped ==
    ASSUME NEW store, IsFiniteSet(DOMAIN store), NEW events, NEW states, NEW e,
           NEW d \in DOMAIN TransitiveDependents(store, e.shard)
    PROVE  LET o == Outcome(store, events, states, e, d)
           IN  o.dep = d /\ o.depth \in Nat \ {0} /\ o.bucket \in DOMAIN Conservative
  <1>. DEFINE depth == TransitiveDependents(store, e.shard)[d]
              record == DependentAttrs(store[d])
              attrs == IF states[d].status = "contested"
                       THEN [record EXCEPT !.epistemic_status = "contested"] ELSE record
              successor == ResolveSuccessor(store, events, e.shard)
              bucket == IF e.policy = NoPolicy THEN "review_needed"
                        ELSE ClassifyAtDepth(store, depth, e.policy, successor, attrs)
  <1>1. depth \in Nat \ {0}
    BY DependentDepth
  <1>2. Outcome(store, events, states, e, d)
           = [dep |-> d, depth |-> depth, cause |-> e.shard, bucket |-> bucket]
    BY DEF Outcome
  <1>3. bucket \in {"review_needed", "aporetic", "auto_rederive"}
    <2>. HIDE DEF depth, attrs, successor
    <2>. QED  BY DEF ClassifyAtDepth, ClassifyDependent
  <1>4. DOMAIN Conservative = {"review_needed", "aporetic", "auto_rederive"}
    BY DEF Conservative
  <1>. HIDE DEF depth, bucket
  <1>. QED  BY <1>1, <1>2, <1>3, <1>4

\* Of some outcomes the closest are some, and one of their buckets is the worst of them.
LEMMA WorstIsOne ==
    ASSUME NEW found, found # {},
           \A o \in found : o.depth \in Nat /\ o.bucket \in DOMAIN Conservative
    PROVE  /\ WorstBucket(Closest(found)) \in DOMAIN Conservative
           /\ \A o \in Closest(found) :
                 Conservative[o.bucket] <= Conservative[WorstBucket(Closest(found))]
  <1>1. PICK o \in Closest(found) : TRUE
    <2>. DEFINE T == {i \in Nat : \E o \in found : o.depth = i}
    <2>1. T # {} /\ T \subseteq Nat
      OBVIOUS
    <2>2. PICK m \in T : \A i \in T : m <= i
      BY <2>1, LeastNat
    <2>3. PICK o \in found : o.depth = m
      OBVIOUS
    <2>4. \A other \in found : other.depth \in T
      OBVIOUS
    <2>. QED  BY <2>2, <2>3, <2>4 DEF Closest
  <1>. DEFINE B == {x.bucket : x \in Closest(found)}
  <1>2. B # {} /\ B \subseteq {"review_needed", "aporetic", "auto_rederive"}
    BY <1>1 DEF Closest, Conservative
  <1>3. /\ Conservative["auto_rederive"] = 0 /\ Conservative["aporetic"] = 1
        /\ Conservative["review_needed"] = 2
        /\ DOMAIN Conservative = {"review_needed", "aporetic", "auto_rederive"}
    BY DEF Conservative
  <1>. HIDE DEF B
  <1>4. \E b \in B : \A c \in B : Conservative[c] <= Conservative[b]
    <2>. PICK rank : rank = Conservative
      OBVIOUS
    <2>1. /\ rank["auto_rederive"] = 0 /\ rank["aporetic"] = 1 /\ rank["review_needed"] = 2
          /\ rank = Conservative
      BY <1>3
    <2>2. CASE "review_needed" \in B
      BY <1>2, <2>1, <2>2
    <2>3. CASE "review_needed" \notin B /\ "aporetic" \in B
      BY <1>2, <2>1, <2>3
    <2>4. CASE B = {"auto_rederive"}
      BY <2>1, <2>4
    <2>. QED  BY <1>2, <2>2, <2>3, <2>4
  <1>5. \E b \in {x.bucket : x \in Closest(found)} :
           \A x \in Closest(found) : Conservative[x.bucket] <= Conservative[b]
    BY <1>4 DEF B
  <1>6. /\ WorstBucket(Closest(found)) \in B
        /\ \A x \in Closest(found) :
              Conservative[x.bucket] <= Conservative[WorstBucket(Closest(found))]
    BY <1>5 DEF WorstBucket, B
  <1>. QED  BY <1>2, <1>3, <1>6

-----------------------------------------------------------------------------
(* The retractions. *)

RetractedUpTo(store, events, states, n, p) ==
    p = [i \in 0 .. n |->
            IF i = 0 THEN [states |-> states, outcomes |-> {}]
            ELSE IF events[i].kind = "retract" THEN RetractOne(store, events, p[i - 1], events[i])
            ELSE p[i - 1]]

LEMMA RetractedExists ==
    ASSUME NEW store, NEW events, NEW states
    PROVE  \A n \in Nat : \E p : RetractedUpTo(store, events, states, n, p)
  <1>. DEFINE Good == {n \in Nat : \E p : RetractedUpTo(store, events, states, n, p)}
              start == [states |-> states, outcomes |-> {}]
  <1>1. 0 \in Good
    <2>1. PICK p : p = [i \in 0 .. 0 |-> start]
      OBVIOUS
    <2>2. RetractedUpTo(store, events, states, 0, p)
      BY <2>1 DEF RetractedUpTo
    <2>. QED  BY <2>2
  <1>2. ASSUME NEW m \in Nat \ {0}, m - 1 \in Good PROVE m \in Good
    <2>1. PICK p : RetractedUpTo(store, events, states, m - 1, p)
      BY <1>2
    <2>2. PICK q : q = [i \in 0 .. m |->
                           IF i = 0 THEN start
                           ELSE IF events[i].kind = "retract"
                                THEN RetractOne(store, events, p[i - 1], events[i])
                           ELSE p[i - 1]]
      OBVIOUS
    <2>3. \A i \in 0 .. m - 1 : q[i] = p[i]
      <3>1. \A i \in 0 .. m - 1 : i \in 0 .. m
        OBVIOUS
      <3>. QED  BY <2>1, <2>2, <3>1 DEF RetractedUpTo
    <2>4. \A i \in 1 .. m : q[i - 1] = p[i - 1]
      BY <2>3
    <2>5. RetractedUpTo(store, events, states, m, q)
      <3>1. \A i \in 0 .. m : i # 0 => i \in 1 .. m
        OBVIOUS
      <3>. HIDE DEF Good
      <3>2. [i \in 0 .. m |-> IF i = 0 THEN start
                             ELSE IF events[i].kind = "retract"
                                  THEN RetractOne(store, events, p[i - 1], events[i])
                             ELSE p[i - 1]]
               = [i \in 0 .. m |-> IF i = 0 THEN start
                                  ELSE IF events[i].kind = "retract"
                                       THEN RetractOne(store, events, q[i - 1], events[i])
                                  ELSE q[i - 1]]
        BY <2>4, <3>1
      <3>. QED  BY <2>2, <3>2 DEF RetractedUpTo
    <2>. QED  BY <2>5
  <1>. HIDE DEF Good
  <1>3. \A n \in Nat : n \in Good
    BY <1>1, <1>2, AllNumbers
  <1>. QED  BY <1>3 DEF Good

LEMMA RetractedAt ==
    ASSUME NEW store, NEW E, NEW events \in Seq(E), NEW states
    PROVE  \E p : /\ RetractedUpTo(store, events, states, Len(events), p)
                  /\ ApplyRetractions(store, events, states) = p[Len(events)]
  <1>1. Len(events) \in Nat
    OBVIOUS
  <1>2. \E p : RetractedUpTo(store, events, states, Len(events), p)
    BY <1>1, RetractedExists
  <1>. QED  BY <1>2 DEF ApplyRetractions, RetractedUpTo

\* The first n events that retract some shard of a set, and those that reach a dependent.
RetractedBy(events, n, s) == \E k \in 1 .. n : events[k].kind = "retract" /\ events[k].shard = s
Reaching(store, events, n, s) ==
    {k \in 1 .. n : events[k].kind = "retract"
                    /\ s \in DOMAIN TransitiveDependents(store, events[k].shard)}
AskedFor(store, events, states, n, s) ==
    {Outcome(store, events, states, events[k], s) : k \in Reaching(store, events, n, s)}
Gone(state) == With(state, [status |-> "retracted"])
Marked(states, events, n) ==
    [s \in DOMAIN states |-> IF RetractedBy(events, n, s) THEN Gone(states[s]) ELSE states[s]]

LEMMA GoneOnce ==
    ASSUME NEW state, "status" \in DOMAIN state
    PROVE  Gone(Gone(state)) = Gone(state) /\ Gone(state).status = "retracted"
           /\ DOMAIN Gone(state) = DOMAIN state
  <1>. DEFINE c == [status |-> "retracted"]
  <1>1. DOMAIN c = {"status"} /\ c["status"] = "retracted"
    OBVIOUS
  <1>. HIDE DEF c
  <1>2. \A x : DOMAIN With(x, c) = DOMAIN x
    BY DEF With
  <1>3. \A x : With(x, c) = [f \in DOMAIN x |-> IF f = "status" THEN "retracted" ELSE x[f]]
    BY <1>1 DEF With
  <1>4. With(With(state, c), c) = With(state, c)
    BY <1>2, <1>3
  <1>5. With(state, c)["status"] = "retracted"
    BY <1>3
  <1>. QED  BY <1>2, <1>4, <1>5 DEF Gone, c

LEMMA MarkedTyped ==
    ASSUME NEW S, NEW states, Typed(states, S, Mild), NEW events, NEW n
    PROVE  Typed(Marked(states, events, n), S, Statuses)
  <1>1. DOMAIN states = S
    BY DEF Typed
  <1>2. Mild \subseteq Statuses /\ "retracted" \in Statuses
    BY DEF Mild, Statuses, Rank
  <1>3. \A s \in S : /\ "status" \in DOMAIN states[s] /\ states[s].status \in Statuses
                     /\ "status" \in DOMAIN Gone(states[s])
                     /\ Gone(states[s]).status = "retracted"
    BY <1>2, GoneOnce DEF Typed
  <1>. QED  BY <1>1, <1>2, <1>3 DEF Typed, Marked

\* A retraction marks its shard, whatever the shard reads.
LEMMA MarkOne ==
    ASSUME NEW S, NEW states, Typed(states, S, Mild), NEW events, NEW n \in Nat \ {0},
           events[n].kind = "retract"
    PROVE  Touch(Marked(states, events, n - 1), events[n].shard, [status |-> "retracted"])
              = Marked(states, events, n)
  <1>. DEFINE now == Marked(states, events, n - 1)
              s == events[n].shard
  <1>1. DOMAIN states = S /\ DOMAIN now = S
    BY DEF Typed, Marked
  <1>2. Typed(now, S, Statuses)
    BY MarkedTyped
  <1>3. \A x \in Statuses : Rank["retracted"] >= Rank[x]
    BY DEF Statuses, Rank
  <1>4. 1 .. n = 1 .. n - 1 \cup {n}
    OBVIOUS
  <1>5. \A x : RetractedBy(events, n, x) <=> RetractedBy(events, n - 1, x) \/ x = s
    BY <1>4 DEF RetractedBy
  <1>6. CASE s \notin S
    <2>1. Touch(now, s, [status |-> "retracted"]) = now
      BY <1>1, <1>6 DEF Touch
    <2>2. Marked(states, events, n) = now
      BY <1>1, <1>5, <1>6 DEF Marked
    <2>. QED  BY <2>1, <2>2
  <1>7. CASE s \in S
    <2>1. Rank["retracted"] >= Rank[now[s].status]
      BY <1>2, <1>3, <1>7 DEF Typed
    <2>2. Touch(now, s, [status |-> "retracted"]) = [now EXCEPT ![s] = Gone(now[s])]
      <3>. HIDE DEF now, s
      <3>. QED  BY <1>1, <1>7, <2>1 DEF Touch, Gone
    <2>3. Gone(now[s]) = Gone(states[s])
      <3>1. "status" \in DOMAIN states[s]
        BY <1>7 DEF Typed
      <3>2. now[s] \in {states[s], Gone(states[s])}
        BY <1>1, <1>7 DEF Marked
      <3>. HIDE DEF now, s
      <3>. QED  BY <3>1, <3>2, GoneOnce
    <2>4. [now EXCEPT ![s] = Gone(states[s])] = Marked(states, events, n)
      <3>. HIDE DEF s
      <3>. QED  BY <1>1, <1>5, <1>7 DEF Marked
    <2>. QED  BY <2>2, <2>3, <2>4
  <1>. QED  BY <1>6, <1>7

RetractionInv(store, events, states, n, acc) ==
    /\ acc.states = Marked(states, events, n)
    /\ \A o \in acc.outcomes : o.depth \in Nat \ {0} /\ o.bucket \in DOMAIN Conservative
    /\ \A s : ~RetractedBy(events, n, s) =>
          {o \in acc.outcomes : o.dep = s} = AskedFor(store, events, states, n, s)

\* What a retraction asks of a dependent that no retraction so far marked.
LEMMA AskedOf ==
    ASSUME NEW store, IsFiniteSet(DOMAIN store), NEW states, Typed(states, DOMAIN store, Mild),
           NEW events, NEW n \in Nat \ {0}, events[n].kind = "retract",
           NEW s, ~RetractedBy(events, n, s)
    PROVE  {o \in Outcomes(store, events, Marked(states, events, n), events[n]) : o.dep = s}
              = {Outcome(store, events, states, events[k], s) :
                    k \in Reaching(store, events, n, s) \cap {n}}
  <1>. DEFINE e == events[n]
              now == Marked(states, events, n)
              deps == DOMAIN TransitiveDependents(store, e.shard)
  <1>1. \A d \in deps : Outcome(store, events, now, e, d).dep = d
    BY OutcomeTyped
  <1>2. {o \in Outcomes(store, events, now, e) : o.dep = s}
           = {Outcome(store, events, now, e, d) : d \in deps \cap {s}}
    <2>. HIDE DEF now, e, deps
    <2>1. Outcomes(store, events, now, e) = {Outcome(store, events, now, e, d) : d \in deps}
      BY DEF Outcomes, deps
    <2>. QED  BY <1>1, <2>1
  <1>3. s \in deps => Outcome(store, events, now, e, s) = Outcome(store, events, states, e, s)
    <2>1. SUFFICES ASSUME s \in deps
                   PROVE  Outcome(store, events, now, e, s) = Outcome(store, events, states, e, s)
      OBVIOUS
    <2>2. s \in DOMAIN store /\ DOMAIN states = DOMAIN store
      BY <2>1, DependentDepth DEF Typed
    <2>3. now[s] = states[s]
      BY <2>2 DEF Marked
    <2>. HIDE DEF now, e, deps
    <2>. QED  BY <2>3 DEF Outcome
  <1>4. Reaching(store, events, n, s) \cap {n} = IF s \in deps THEN {n} ELSE {}
    <2>1. n \in 1 .. n
      OBVIOUS
    <2>. QED  BY <2>1 DEF Reaching
  <1>5. CASE s \in deps
    <2>1. deps \cap {s} = {s}
      BY <1>5
    <2>. HIDE DEF now, deps
    <2>2. {Outcome(store, events, now, e, d) : d \in deps \cap {s}}
             = {Outcome(store, events, states, e, s)}
      BY <1>3, <1>5, <2>1
    <2>3. {Outcome(store, events, states, events[k], s) :
              k \in Reaching(store, events, n, s) \cap {n}}
             = {Outcome(store, events, states, e, s)}
      BY <1>4, <1>5 DEF e
    <2>. QED  BY <1>2, <2>2, <2>3 DEF now
  <1>6. CASE s \notin deps
    <2>1. deps \cap {s} = {} /\ Reaching(store, events, n, s) \cap {n} = {}
      BY <1>4, <1>6
    <2>. HIDE DEF now, deps, e
    <2>2. {Outcome(store, events, now, e, d) : d \in deps \cap {s}} = {}
      BY <2>1
    <2>3. {Outcome(store, events, states, events[k], s) :
              k \in Reaching(store, events, n, s) \cap {n}} = {}
      BY <2>1
    <2>. QED  BY <1>2, <2>2, <2>3 DEF now, e
  <1>. QED  BY <1>5, <1>6

LEMMA RetractOneKeeps ==
    ASSUME NEW store, IsFiniteSet(DOMAIN store), NEW states, Typed(states, DOMAIN store, Mild),
           NEW events, NEW n \in Nat \ {0}, events[n].kind = "retract",
           NEW acc, RetractionInv(store, events, states, n - 1, acc)
    PROVE  RetractionInv(store, events, states, n, RetractOne(store, events, acc, events[n]))
  <1>. DEFINE e == events[n]
              now == Marked(states, events, n)
              new == Outcomes(store, events, now, e)
              next == RetractOne(store, events, acc, e)
  <1>1. acc.states = Marked(states, events, n - 1)
    BY DEF RetractionInv
  <1>2. Touch(acc.states, e.shard, [status |-> "retracted"]) = now
    BY <1>1, MarkOne
  <1>3. next.states = now /\ next.outcomes = acc.outcomes \cup new
    <2>. HIDE DEF e, now
    <2>. QED  BY <1>2 DEF RetractOne
  <1>4. \A o \in new : o.depth \in Nat \ {0} /\ o.bucket \in DOMAIN Conservative
    <2>. SUFFICES ASSUME NEW o \in new
                  PROVE  o.depth \in Nat \ {0} /\ o.bucket \in DOMAIN Conservative
      OBVIOUS
    <2>1. PICK d \in DOMAIN TransitiveDependents(store, e.shard) :
                  o = Outcome(store, events, now, e, d)
      BY DEF Outcomes
    <2>. QED  BY <2>1, OutcomeTyped
  <1>5. ASSUME NEW s, ~RetractedBy(events, n, s)
        PROVE  {o \in next.outcomes : o.dep = s} = AskedFor(store, events, states, n, s)
    <2>1. 1 .. n = 1 .. n - 1 \cup {n}
      OBVIOUS
    <2>2. ~RetractedBy(events, n - 1, s)
      BY <1>5, <2>1 DEF RetractedBy
    <2>3. {o \in acc.outcomes : o.dep = s} = AskedFor(store, events, states, n - 1, s)
      BY <2>2 DEF RetractionInv
    <2>4. {o \in new : o.dep = s} = {Outcome(store, events, states, events[k], s) :
                                        k \in Reaching(store, events, n, s) \cap {n}}
      BY <1>5, AskedOf
    <2>5. Reaching(store, events, n, s)
             = Reaching(store, events, n - 1, s) \cup (Reaching(store, events, n, s) \cap {n})
      BY <2>1 DEF Reaching
    <2>. DEFINE A == Reaching(store, events, n - 1, s)
                B == Reaching(store, events, n, s) \cap {n}
    <2>6. AskedFor(store, events, states, n, s)
             = AskedFor(store, events, states, n - 1, s)
                  \cup {Outcome(store, events, states, events[k], s) : k \in B}
      <3>1. AskedFor(store, events, states, n, s)
               = {Outcome(store, events, states, events[k], s) : k \in A \cup B}
        BY <2>5 DEF AskedFor
      <3>2. AskedFor(store, events, states, n - 1, s)
               = {Outcome(store, events, states, events[k], s) : k \in A}
        BY DEF AskedFor
      <3>. HIDE DEF A, B
      <3>. QED  BY <3>1, <3>2
    <2>. HIDE DEF new, next
    <2>. QED  BY <1>3, <2>3, <2>4, <2>6
  <1>. HIDE DEF next, new, now
  <1>. QED  BY <1>3, <1>4, <1>5 DEF RetractionInv, next, now

LEMMA RetractionsKeep ==
    ASSUME NEW store, IsFiniteSet(DOMAIN store), NEW states, Typed(states, DOMAIN store, Mild),
           NEW E, NEW events \in Seq(E)
    PROVE  RetractionInv(store, events, states, Len(events),
                         ApplyRetractions(store, events, states))
  <1>. DEFINE n == Len(events)
  <1>1. PICK p : RetractedUpTo(store, events, states, n, p)
                 /\ ApplyRetractions(store, events, states) = p[n]
    BY RetractedAt
  <1>. DEFINE Good == {i \in Nat : RetractionInv(store, events, states, i, p[i])}
  <1>2. n \in Nat
    OBVIOUS
  <1>3. \A i \in 0 .. n : p[i] = IF i = 0 THEN [states |-> states, outcomes |-> {}]
            ELSE IF events[i].kind = "retract" THEN RetractOne(store, events, p[i - 1], events[i])
            ELSE p[i - 1]
    BY <1>1 DEF RetractedUpTo
  <1>4. 0 \in Good
    <2>1. p[0] = [states |-> states, outcomes |-> {}]
      <3>1. 0 \in 0 .. n
        BY <1>2
      <3>. HIDE DEF Good, n
      <3>. QED  BY <1>3, <3>1
    <2>2. \A s : ~RetractedBy(events, 0, s) /\ Reaching(store, events, 0, s) = {}
      BY DEF RetractedBy, Reaching
    <2>3. Marked(states, events, 0) = states
      BY <2>2 DEF Marked, Typed
    <2>4. \A s : AskedFor(store, events, states, 0, s) = {}
      BY <2>2 DEF AskedFor
    <2>5. RetractionInv(store, events, states, 0, p[0])
      BY <2>1, <2>3, <2>4 DEF RetractionInv
    <2>. QED  BY <2>5
  <1>5. ASSUME NEW i \in 1 .. n, i - 1 \in Good PROVE i \in Good
    <2>1. i \in 0 .. n /\ i \in Nat \ {0}
      OBVIOUS
    <2>2. RetractionInv(store, events, states, i - 1, p[i - 1])
      BY <1>5
    <2>3. CASE events[i].kind = "retract"
      <3>1. p[i] = RetractOne(store, events, p[i - 1], events[i])
        BY <1>3, <2>1, <2>3
      <3>. QED  BY <2>1, <2>2, <2>3, <3>1, RetractOneKeeps
    <2>4. CASE events[i].kind # "retract"
      <3>1. p[i] = p[i - 1]
        BY <1>3, <2>1, <2>4
      <3>2. 1 .. i = 1 .. i - 1 \cup {i}
        BY <2>1
      <3>3. \A s : /\ RetractedBy(events, i, s) <=> RetractedBy(events, i - 1, s)
                   /\ Reaching(store, events, i, s) = Reaching(store, events, i - 1, s)
        BY <2>4, <3>2 DEF RetractedBy, Reaching
      <3>4. Marked(states, events, i) = Marked(states, events, i - 1)
        BY <3>3 DEF Marked
      <3>5. \A s : AskedFor(store, events, states, i, s) = AskedFor(store, events, states, i - 1, s)
        BY <3>3 DEF AskedFor
      <3>6. RetractionInv(store, events, states, i, p[i])
        BY <2>2, <3>1, <3>3, <3>4, <3>5 DEF RetractionInv
      <3>. QED  BY <2>1, <3>6
    <2>. QED  BY <2>3, <2>4
  <1>6. n \in 0 .. n
    BY <1>2
  <1>7. n \in Good
    <2>. HIDE DEF Good
    <2>. QED  BY <1>2, <1>4, <1>5, <1>6, NumbersUpTo
  <1>. QED  BY <1>1, <1>7

LEMMA SuccessorAlike ==
    ASSUME NEW store, NEW E, NEW one \in Seq(E), NEW two \in Seq(E), Alike(one, two), NEW s
    PROVE  ResolveSuccessor(store, one, s) = ResolveSuccessor(store, two, s)
  <1>. DEFINE naming(l) == {n \in DOMAIN l : l[n].kind = "supersede" /\ l[n].old = s}
  <1>1. DOMAIN one = 1 .. Len(one) /\ DOMAIN two = 1 .. Len(one) /\ Len(one) \in Nat
    BY DEF Alike
  <1>2. \A n \in 1 .. Len(one) :
           one[n].kind = "supersede" \/ two[n].kind = "supersede" => one[n] = two[n]
    BY DEF Alike
  <1>3. naming(one) = naming(two)
    BY <1>1, <1>2
  <1>4. CASE naming(one) = {}
    <2>1. naming(two) = {}
      BY <1>3, <1>4
    <2>. QED  BY <1>4, <2>1 DEF ResolveSuccessor
  <1>5. CASE naming(one) # {}
    <2>. DEFINE last == Max(naming(one))
    <2>1. naming(one) \subseteq 1 .. Len(one)
      BY <1>1
    <2>2. last \in naming(one)
      <3>. HIDE DEF naming
      <3>. QED  BY <1>1, <1>5, <2>1, MaxOfSome
    <2>3. one[last] = two[last]
      <3>. HIDE DEF last
      <3>. QED  BY <1>1, <1>2, <2>2
    <2>4. ResolveSuccessor(store, one, s) = one[Max(naming(one))].new
      BY <1>5 DEF ResolveSuccessor
    <2>5. ResolveSuccessor(store, two, s) = two[Max(naming(two))].new
      BY <1>3, <1>5 DEF ResolveSuccessor
    <2>. HIDE DEF naming
    <2>. QED  BY <1>3, <2>3, <2>4, <2>5
  <1>. QED  BY <1>4, <1>5

\* The events of some kind that a log holds, in whatever order.
Retracting(events) == {events[k] : k \in {n \in 1 .. Len(events) : events[n].kind = "retract"}}

LEMMA AskedAlike ==
    ASSUME NEW store, NEW states, NEW E, NEW one \in Seq(E), NEW two \in Seq(E),
           Alike(one, two), Retracting(one) \subseteq Retracting(two), NEW s
    PROVE  AskedFor(store, one, states, Len(one), s)
              \subseteq AskedFor(store, two, states, Len(two), s)
  <1>. SUFFICES ASSUME NEW k \in Reaching(store, one, Len(one), s)
                PROVE  Outcome(store, one, states, one[k], s)
                          \in AskedFor(store, two, states, Len(two), s)
    BY DEF AskedFor
  <1>1. k \in 1 .. Len(one) /\ one[k].kind = "retract"
        /\ s \in DOMAIN TransitiveDependents(store, one[k].shard)
    BY DEF Reaching
  <1>2. PICK j \in 1 .. Len(two) : two[j].kind = "retract" /\ two[j] = one[k]
    <2>1. one[k] \in Retracting(one)
      BY <1>1 DEF Retracting
    <2>2. one[k] \in Retracting(two)
      BY <2>1
    <2>. QED  BY <2>2 DEF Retracting
  <1>3. j \in Reaching(store, two, Len(two), s)
    BY <1>1, <1>2 DEF Reaching
  <1>4. Outcome(store, one, states, one[k], s) = Outcome(store, two, states, one[k], s)
    <2>1. ResolveSuccessor(store, one, one[k].shard) = ResolveSuccessor(store, two, one[k].shard)
      BY SuccessorAlike
    <2>. QED  BY <2>1 DEF Outcome
  <1>. QED  BY <1>2, <1>3, <1>4 DEF AskedFor

\* A retracted shard stays so, whatever other retractions ask of it.
LEMMA GoneStays ==
    ASSUME NEW store, IsFiniteSet(DOMAIN store), NEW states, Typed(states, DOMAIN store, Mild),
           NEW events, NEW n, NEW acc, RetractionInv(store, events, states, n, acc),
           NEW s \in DOMAIN store, RetractedBy(events, n, s)
    PROVE  Cascaded(acc.states, acc.outcomes, s) = Gone(states[s])
  <1>. DEFINE found == {o \in acc.outcomes : o.dep = s}
              change == [status |-> WorstBucket(Closest(found)),
                         depth |-> Min({o.depth : o \in found}), causes |-> {o.cause : o \in found}]
  <1>1. acc.states = Marked(states, events, n) /\ DOMAIN states = DOMAIN store
    BY DEF RetractionInv, Typed
  <1>2. acc.states[s] = Gone(states[s]) /\ s \in DOMAIN acc.states
    BY <1>1 DEF Marked
  <1>3. CASE found = {}
    BY <1>2, <1>3 DEF Cascaded
  <1>4. CASE found # {}
    <2>1. \A o \in found : o.depth \in Nat /\ o.bucket \in DOMAIN Conservative
      BY DEF RetractionInv
    <2>2. WorstBucket(Closest(found)) \in DOMAIN Conservative
      <3>. HIDE DEF found
      <3>. QED  BY <1>4, <2>1, WorstIsOne
    <2>3. change.status \in {"auto_rederive", "aporetic", "review_needed"}
      BY <2>2 DEF Conservative
    <2>4. ~(Rank[change.status] >= Rank["retracted"])
      <3>. HIDE DEF change
      <3>. QED  BY <2>3 DEF Rank
    <2>5. acc.states[s].status = "retracted"
      <3>1. "status" \in DOMAIN states[s]
        BY DEF Typed
      <3>. QED  BY <1>2, <3>1, GoneOnce
    <2>6. Touch(acc.states, s, change) = acc.states
      <3>. HIDE DEF change
      <3>. QED  BY <2>4, <2>5 DEF Touch
    <2>7. Cascaded(acc.states, acc.outcomes, s) = Touch(acc.states, s, change)[s]
      BY <1>4 DEF Cascaded
    <2>. HIDE DEF change
    <2>. QED  BY <1>2, <2>6, <2>7
  <1>. QED  BY <1>3, <1>4

LEMMA DerivedAlike ==
    ASSUME NEW store, IsFiniteSet(DOMAIN store), NEW E, NEW one \in Seq(E), NEW two \in Seq(E),
           Alike(one, two), Alike(two, one), Retracting(one) = Retracting(two)
    PROVE  DeriveEffectiveStates(store, one) = DeriveEffectiveStates(store, two)
  <1>. DEFINE base == Unretracted(store, one)
              a == ApplyRetractions(store, one, base)
              b == ApplyRetractions(store, two, base)
              n == Len(one)
  <1>1. base = Unretracted(store, two)
    BY SupersededAlike, ContestedAlike DEF Unretracted
  <1>2. Typed(base, DOMAIN store, Mild)
    BY UnretractedTyped
  <1>3. n = Len(two) /\ n \in Nat
    BY DEF Alike
  <1>. HIDE DEF base
  <1>4. RetractionInv(store, one, base, n, a)
    BY <1>2, RetractionsKeep
  <1>5. RetractionInv(store, two, base, n, b)
    BY <1>2, <1>3, RetractionsKeep
  <1>. DEFINE L == DeriveEffectiveStates(store, one)
              R == DeriveEffectiveStates(store, two)
  <1>6. /\ L = [s \in DOMAIN store |-> Cascaded(a.states, a.outcomes, s)]
        /\ R = [s \in DOMAIN store |-> Cascaded(b.states, b.outcomes, s)]
    <2>1. L = [s \in DOMAIN store |->
                  Cascaded(ApplyRetractions(store, one, Unretracted(store, one)).states,
                           ApplyRetractions(store, one, Unretracted(store, one)).outcomes, s)]
      BY DEF DeriveEffectiveStates, Unretracted
    <2>2. R = [s \in DOMAIN store |->
                  Cascaded(ApplyRetractions(store, two, Unretracted(store, two)).states,
                           ApplyRetractions(store, two, Unretracted(store, two)).outcomes, s)]
      BY DEF DeriveEffectiveStates, Unretracted
    <2>. HIDE DEF L, R
    <2>. QED  BY <1>1, <2>1, <2>2 DEF base
  <1>. HIDE DEF a, b, L, R, n
  <1>7. \A s : RetractedBy(one, n, s) <=> RetractedBy(two, n, s)
    <2>1. \A l, s : RetractedBy(l, Len(l), s) <=> \E e \in Retracting(l) : e.shard = s
      BY DEF RetractedBy, Retracting
    <2>2. n = Len(one)
      BY DEF n
    <2>. QED  BY <1>3, <2>1, <2>2
  <1>8. ASSUME NEW s \in DOMAIN store
        PROVE  Cascaded(a.states, a.outcomes, s) = Cascaded(b.states, b.outcomes, s)
    <2>1. CASE RetractedBy(one, n, s)
      <3>1. RetractedBy(two, n, s)
        BY <1>7, <2>1
      <3>2. Cascaded(a.states, a.outcomes, s) = Gone(base[s])
        BY <1>2, <1>4, <2>1, GoneStays
      <3>3. Cascaded(b.states, b.outcomes, s) = Gone(base[s])
        BY <1>2, <1>5, <3>1, GoneStays
      <3>. QED  BY <3>2, <3>3
    <2>2. CASE ~RetractedBy(one, n, s)
      <3>1. ~RetractedBy(two, n, s)
        BY <1>7, <2>2
      <3>2. {o \in a.outcomes : o.dep = s} = {o \in b.outcomes : o.dep = s}
        <4>1. {o \in a.outcomes : o.dep = s} = AskedFor(store, one, base, n, s)
          BY <1>4, <2>2 DEF RetractionInv
        <4>2. {o \in b.outcomes : o.dep = s} = AskedFor(store, two, base, n, s)
          BY <1>5, <3>1 DEF RetractionInv
        <4>3. n = Len(one)
          BY DEF n
        <4>4. AskedFor(store, one, base, n, s) \subseteq AskedFor(store, two, base, n, s)
          BY <1>3, <4>3, AskedAlike
        <4>5. AskedFor(store, two, base, n, s) \subseteq AskedFor(store, one, base, n, s)
          BY <1>3, <4>3, AskedAlike
        <4>. QED  BY <4>1, <4>2, <4>4, <4>5
      <3>3. a.states = b.states
        <4>1. Marked(base, one, n) = Marked(base, two, n)
          BY <1>7 DEF Marked
        <4>. QED  BY <1>4, <1>5, <4>1 DEF RetractionInv
      <3>. QED  BY <3>2, <3>3 DEF Cascaded
    <2>. QED  BY <2>1, <2>2
  <1>. QED  BY <1>6, <1>8 DEF L, R

LEMMA SwapAlike ==
    ASSUME NEW E, log \in Seq(E), NEW i \in Retractions, NEW j \in Retractions
    PROVE  LET two == Swapped(i, j)
           IN  /\ two \in Seq(E) /\ Alike(log, two) /\ Alike(two, log)
               /\ Retracting(two) = Retracting(log)
  <1>. DEFINE two == Swapped(i, j)
              n == Len(log)
  <1>1. /\ n \in Nat /\ DOMAIN log = 1 .. n /\ i \in 1 .. n /\ j \in 1 .. n
        /\ log[i].kind = "retract" /\ log[j].kind = "retract"
        /\ \A k \in 1 .. n : log[k] \in E
    BY DEF Retractions
  <1>2. two = [k \in 1 .. n |-> IF k = j THEN log[i] ELSE IF k = i THEN log[j] ELSE log[k]]
    BY <1>1 DEF Swapped
  <1>. HIDE DEF two, n
  <1>3. two \in Seq(E) /\ Len(two) = n
    <2>1. two \in [1 .. n -> E]
      BY <1>1, <1>2
    <2>. QED  BY <1>1, <2>1
  <1>4. Alike(log, two) /\ Alike(two, log)
    <2>1. \A k \in 1 .. n :
             two[k] = log[k] \/ (two[k].kind = "retract" /\ log[k].kind = "retract")
      BY <1>1, <1>2
    <2>. QED  BY <1>3, <2>1 DEF Alike, n
  <1>5. Retracting(two) = Retracting(log)
    <2>1. \A e : e \in Retracting(log) <=> \E k \in 1 .. n : log[k] = e /\ e.kind = "retract"
      BY DEF Retracting, n
    <2>2. \A e : e \in Retracting(two) <=> \E k \in 1 .. n : two[k] = e /\ e.kind = "retract"
      BY <1>3 DEF Retracting
    <2>3. ASSUME NEW k \in 1 .. n, log[k].kind = "retract"
          PROVE  \E m \in 1 .. n : two[m] = log[k]
      <3>1. two[j] = log[i] /\ two[i] = log[j] /\ (k # i /\ k # j => two[k] = log[k])
        BY <1>1, <1>2
      <3>. QED  BY <1>1, <3>1
    <2>4. ASSUME NEW k \in 1 .. n
          PROVE  \E m \in 1 .. n : log[m] = two[k]
      BY <1>1, <1>2
    <2>. QED  BY <2>1, <2>2, <2>3, <2>4
  <1>. QED  BY <1>3, <1>4, <1>5 DEF two

LEMMA StoreIsFinite == IsFiniteSet(DOMAIN Store)
  <1>1. StoredShards \subseteq Shards /\ DOMAIN Store = StoredShards
    BY DEF StoredShards, Store
  <1>. QED  BY <1>1, ShardAssumption, FS_Subset

LogInv == \E E : log \in Seq(E)

LEMMA RetractionsCommute == LogInv => OrderIndependent
  <1>. SUFFICES ASSUME NEW E, log \in Seq(E), NEW i \in Retractions, NEW j \in Retractions
                PROVE  DeriveEffectiveStates(Store, Swapped(i, j))
                          = DeriveEffectiveStates(Store, log)
    BY DEF LogInv, OrderIndependent, States
  <1>. QED  BY SwapAlike, StoreIsFinite, DerivedAlike

-----------------------------------------------------------------------------
(* The preview of a retraction. *)

\* The last event of the log, a retraction, names no successor.
LEMMA FrontSuccessor ==
    ASSUME NEW store, NEW E, NEW events \in Seq(E), events # <<>>,
           Last(events).kind = "retract", NEW s
    PROVE  ResolveSuccessor(store, Front(events), s) = ResolveSuccessor(store, events, s)
  <1>. DEFINE n == Len(events)
              front == Front(events)
              naming(l) == {k \in DOMAIN l : l[k].kind = "supersede" /\ l[k].old = s}
  <1>1. n \in Nat \ {0} /\ DOMAIN events = 1 .. n /\ events[n].kind = "retract"
    BY DEF Last
  <1>2. DOMAIN front = 1 .. n - 1 /\ \A k \in 1 .. n - 1 : front[k] = events[k]
    <2>1. front = [k \in 1 .. n - 1 |-> events[k]]
      BY <1>1 DEF Front
    <2>. QED  BY <2>1
  <1>. HIDE DEF n, front
  <1>3. naming(front) = naming(events)
    BY <1>1, <1>2
  <1>4. CASE naming(events) = {}
    <2>1. naming(front) = {}
      BY <1>3, <1>4
    <2>. QED  BY <1>4, <2>1 DEF ResolveSuccessor, front
  <1>5. CASE naming(events) # {}
    <2>. DEFINE last == Max(naming(events))
    <2>1. naming(events) \subseteq 1 .. n /\ naming(events) \subseteq 1 .. n - 1
      BY <1>1, <1>2, <1>3
    <2>2. last \in naming(events)
      <3>. HIDE DEF naming
      <3>. QED  BY <1>1, <1>5, <2>1, MaxOfSome
    <2>3. last \in 1 .. n - 1
      <3>. HIDE DEF naming, last
      <3>. QED  BY <2>1, <2>2
    <2>4. front[last] = events[last]
      <3>. HIDE DEF last
      <3>. QED  BY <1>2, <2>3
    <2>5. ResolveSuccessor(store, events, s) = events[Max(naming(events))].new
      BY <1>5 DEF ResolveSuccessor
    <2>6. ResolveSuccessor(store, front, s) = front[Max(naming(front))].new
      BY <1>3, <1>5 DEF ResolveSuccessor
    <2>. HIDE DEF naming
    <2>. QED  BY <1>3, <2>4, <2>5, <2>6 DEF front
  <1>. QED  BY <1>4, <1>5

\* What the last retraction asks of a direct dependent is no less than what was previewed.
LEMMA AskedAsPreviewed ==
    ASSUME NEW store, NEW E, NEW events \in Seq(E), events # <<>>, NEW states, NEW d,
           Last(events).kind = "retract", Last(events).policy # NoPolicy,
           TransitiveDependents(store, Last(events).shard)[d] = 1
    PROVE  LET e == Last(events)
               asked == Outcome(store, events, states, e, d).bucket
               shown == PreviewBucket(store, Front(events), e.shard, e.policy, d)
           IN  asked = shown \/ asked = "review_needed"
  <1>. DEFINE e == Last(events)
              successor == ResolveSuccessor(store, events, e.shard)
  <1>1. ResolveSuccessor(store, Front(events), e.shard) = successor
    BY FrontSuccessor
  <1>2. PreviewBucket(store, Front(events), e.shard, e.policy, d)
           = ClassifyAtDepth(store, 1, e.policy, successor, DependentAttrs(store[d]))
    <2>. HIDE DEF e, successor
    <2>. QED  BY <1>1 DEF PreviewBucket, e
  <1>. DEFINE record == DependentAttrs(store[d])
              attrs == IF states[d].status = "contested"
                       THEN [record EXCEPT !.epistemic_status = "contested"] ELSE record
  <1>3. Outcome(store, events, states, e, d).bucket
           = ClassifyAtDepth(store, 1, e.policy, successor, attrs)
    BY DEF Outcome
  <1>. HIDE DEF e, successor
  <1>4. CASE states[d].status # "contested"
    BY <1>2, <1>3, <1>4 DEF e
  <1>5. CASE states[d].status = "contested"
    <2>1. attrs.epistemic_status = "contested"
      BY <1>5 DEF DependentAttrs
    <2>2. MarkedForReview(attrs)
      <3>. HIDE DEF attrs
      <3>. QED  BY <2>1 DEF MarkedForReview
    <2>. HIDE DEF attrs
    <2>. QED  BY <1>2, <1>3, <2>2 DEF e, ClassifyAtDepth, ClassifyDependent
  <1>. QED  BY <1>4, <1>5

\* A direct dependent that is neither retracted nor superseded reads no milder than what the
\* last retraction asks of it.
LEMMA LastAsks ==
    ASSUME NEW store, IsFiniteSet(DOMAIN store), NEW E, NEW events \in Seq(E), events # <<>>,
           Last(events).kind = "retract", Last(events).policy # NoPolicy,
           NEW d \in DOMAIN TransitiveDependents(store, Last(events).shard),
           TransitiveDependents(store, Last(events).shard)[d] = 1,
           Rank[DeriveEffectiveStates(store, events)[d].status] < Rank.superseded
    PROVE  LET e == Last(events)
               reads == DeriveEffectiveStates(store, events)[d].status
           IN  /\ reads \in DOMAIN Conservative
               /\ Conservative[reads] >=
                      Conservative[PreviewBucket(store, Front(events), e.shard, e.policy, d)]
  <1>. DEFINE n == Len(events)
              e == Last(events)
              base == Unretracted(store, events)
              acc == ApplyRetractions(store, events, base)
              found == {o \in acc.outcomes : o.dep = d}
              reads == DeriveEffectiveStates(store, events)[d]
              shown == PreviewBucket(store, Front(events), e.shard, e.policy, d)
  <1>1. n \in Nat \ {0} /\ e = events[n] /\ n \in 1 .. n
    BY DEF Last
  <1>2. d \in DOMAIN store
    BY DependentDepth
  <1>3. Typed(base, DOMAIN store, Mild)
    BY UnretractedTyped
  <1>4. RetractionInv(store, events, base, n, acc)
    <2>. HIDE DEF base
    <2>. QED  BY <1>3, RetractionsKeep
  <1>5. reads = Cascaded(acc.states, acc.outcomes, d)
    BY <1>2 DEF DeriveEffectiveStates, Unretracted
  <1>6. Rank[reads.status] < 3
    BY DEF Rank
  <1>. HIDE DEF base, acc, reads
  <1>7. ~RetractedBy(events, n, d)
    <2>. SUFFICES ASSUME RetractedBy(events, n, d) PROVE FALSE
      OBVIOUS
    <2>1. reads = Gone(base[d])
      <3>. HIDE DEF n
      <3>. QED  BY <1>2, <1>3, <1>4, <1>5, GoneStays
    <2>2. "status" \in DOMAIN base[d]
      BY <1>2, <1>3 DEF Typed
    <2>3. reads.status = "retracted"
      BY <2>1, <2>2, GoneOnce
    <2>4. Rank["retracted"] = 4
      BY DEF Rank
    <2>. QED  BY <1>6, <2>3, <2>4
  <1>8. found = AskedFor(store, events, base, n, d)
    BY <1>4, <1>7 DEF RetractionInv
  <1>. DEFINE o1 == Outcome(store, events, base, e, d)
  <1>9. o1 \in found
    <2>1. n \in Reaching(store, events, n, d)
      BY <1>1 DEF Reaching
    <2>. QED  BY <1>1, <1>8, <2>1 DEF AskedFor
  <1>10. o1.depth = 1
    BY DEF Outcome
  <1>11. o1.bucket = shown \/ o1.bucket = "review_needed"
    BY AskedAsPreviewed
  <1>12. \A o \in found : o.depth \in Nat \ {0} /\ o.bucket \in DOMAIN Conservative
    BY <1>4 DEF RetractionInv
  <1>. HIDE DEF found, o1
  <1>13. o1 \in Closest(found)
    BY <1>9, <1>10, <1>12 DEF Closest
  <1>. DEFINE worst == WorstBucket(Closest(found))
  <1>14. worst \in DOMAIN Conservative /\ Conservative[o1.bucket] <= Conservative[worst]
    BY <1>9, <1>12, <1>13, WorstIsOne
  <1>. HIDE DEF worst, shown
  <1>15. Conservative[worst] >= Conservative[shown]
    <2>1. shown \in {"review_needed", "aporetic", "auto_rederive"}
      BY DEF shown, PreviewBucket, ClassifyAtDepth, ClassifyDependent
    <2>2. /\ Conservative["auto_rederive"] = 0 /\ Conservative["aporetic"] = 1
          /\ Conservative["review_needed"] = 2
          /\ DOMAIN Conservative = {"review_needed", "aporetic", "auto_rederive"}
      BY DEF Conservative
    <2>3. /\ Conservative[shown] \in 0 .. 2 /\ Conservative[o1.bucket] \in 0 .. 2
          /\ Conservative[worst] \in 0 .. 2 /\ Conservative[shown] <= Conservative[o1.bucket]
      BY <1>9, <1>11, <1>12, <1>14, <2>1, <2>2
    <2>. QED  BY <1>14, <2>3
  <1>16. reads.status = worst
    <2>. DEFINE change == [status |-> worst, depth |-> Min({o.depth : o \in found}),
                           causes |-> {o.cause : o \in found}]
    <2>1. acc.states[d] = base[d] /\ d \in DOMAIN acc.states
      BY <1>2, <1>3, <1>4, <1>7 DEF RetractionInv, Marked, Typed
    <2>2. reads = Touch(acc.states, d, change)[d]
      BY <1>5, <1>9 DEF Cascaded, found, worst
    <2>3. base[d].status \in Mild /\ "status" \in DOMAIN base[d]
      BY <1>2, <1>3 DEF Typed
    <2>4. "status" \in DOMAIN change /\ change.status = worst
      OBVIOUS
    <2>5. With(base[d], change)["status"] = worst
      <3>. HIDE DEF change
      <3>. QED  BY <2>3, <2>4 DEF With
    <2>. HIDE DEF change
    <2>6. worst \in {"review_needed", "aporetic", "auto_rederive"}
      BY <1>14 DEF Conservative
    <2>7. Rank[worst] = 2 /\ Rank["superseded"] = 3
      BY <2>6 DEF Rank
    <2>8. CASE base[d].status = "superseded"
      <3>1. ~(Rank[change.status] >= Rank[acc.states[d].status])
        BY <2>1, <2>4, <2>7, <2>8
      <3>2. reads.status = "superseded"
        BY <2>1, <2>2, <2>8, <3>1 DEF Touch
      <3>. QED  BY <1>6, <2>7, <3>2
    <2>9. CASE base[d].status # "superseded"
      <3>1. Rank[base[d].status] <= 2
        BY <2>3, <2>9 DEF Mild, Rank
      <3>2. Rank[change.status] >= Rank[acc.states[d].status]
        <4>1. Rank[base[d].status] \in Nat
          BY <2>3 DEF Mild, Rank
        <4>. QED  BY <2>1, <2>4, <2>7, <3>1, <4>1
      <3>3. Touch(acc.states, d, change)[d] = With(base[d], change)
        BY <2>1, <3>2 DEF Touch
      <3>. QED  BY <2>2, <2>5, <3>3
    <2>. QED  BY <2>8, <2>9
  <1>. QED  BY <1>14, <1>15, <1>16 DEF reads, shown

LEMMA PreviewKept == LogInv => CommitKeepsPreview
  <1>. SUFFICES ASSUME NEW E, log \in Seq(E), log # <<>>, Last(log).kind = "retract",
                       Last(log).policy # NoPolicy,
                       NEW d \in DOMAIN TransitiveDependents(Store, Last(log).shard),
                       TransitiveDependents(Store, Last(log).shard)[d] = 1,
                       Rank[States[d].status] < Rank.superseded
                PROVE  /\ States[d].status \in DOMAIN Conservative
                       /\ Conservative[States[d].status] >=
                              Conservative[PreviewBucket(Store, Front(log), Last(log).shard,
                                                         Last(log).policy, d)]
    BY DEF LogInv, CommitKeepsPreview
  <1>. QED  BY LastAsks, StoreIsFinite DEF States

-----------------------------------------------------------------------------
NextShards == Editing \/ Governing \/ Tick

LEMMA LogStep ==
    ASSUME LogInv, [NextShards]_shardVars
    PROVE  LogInv'
  <1>1. PICK E : log \in Seq(E)
    BY DEF LogInv
  <1>2. ASSUME NEW event, CommitEvent(event) PROVE LogInv'
    <2>. DEFINE new == event @@ [at |-> clock]
    <2>1. log' = Append(log, new)
      BY <1>2 DEF CommitEvent
    <2>. HIDE DEF new
    <2>2. log' \in Seq(E \cup {new})
      BY <1>1, <2>1
    <2>. QED  BY <2>2 DEF LogInv
  <1>3. CASE UNCHANGED log
    BY <1>3 DEF LogInv
  <1>4. CASE Editing
    BY <1>3, <1>4 DEF Editing, EditContent, PutEdit, CrashEdit
  <1>5. CASE Governing
    BY <1>2, <1>5 DEF Governing, Promote, Contest, ResolveContest, Supersede, Retract
  <1>6. CASE Tick
    BY <1>3, <1>6 DEF Tick
  <1>. QED  BY <1>3, <1>4, <1>5, <1>6 DEF NextShards, shardVars

\* Whatever was contested, superseded, edited or retracted in between, of any number of shards
\* that rest on one another in any way, two retractions commute: every shard reads the same.
THEOREM RetractionOrder ==
    ASSUME NEW records, NEW E, NEW events \in Seq(E)
    PROVE  InitWith(records, events) /\ [][NextShards]_shardVars => []OrderIndependent
  <1>1. InitWith(records, events) => LogInv
    BY DEF InitWith, LogInv
  <1>2. LogInv /\ [NextShards]_shardVars => LogInv'
    BY LogStep
  <1>3. LogInv => OrderIndependent
    BY RetractionsCommute
  <1>. QED  BY <1>1, <1>2, <1>3, PTL

\* A committed retraction leaves every direct dependent, unless that is itself retracted or
\* superseded, with at least the caution of the preview its operator confirmed.
THEOREM PreviewsHold ==
    ASSUME NEW records, NEW E, NEW events \in Seq(E)
    PROVE  InitWith(records, events) /\ [][NextShards]_shardVars => []CommitKeepsPreview
  <1>1. InitWith(records, events) => LogInv
    BY DEF InitWith, LogInv
  <1>2. LogInv /\ [NextShards]_shardVars => LogInv'
    BY LogStep
  <1>3. LogInv => CommitKeepsPreview
    BY PreviewKept
  <1>. QED  BY <1>1, <1>2, <1>3, PTL
=============================================================================
