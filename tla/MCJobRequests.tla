--------------------------- MODULE MCJobRequests ---------------------------
(* Instances of JobRequests: three requests of one corpus, of which two may *)
(* submit a job: the rest is for what crosses over the last one.            *)
EXTENDS JobRequests, TLC

CONSTANTS q1, q2, q3, k1, k2, p1, i1

Three == {q1, q2, q3}
TwoKeys == {k1, k2}
OnePayload == {p1}
OneIdem == {i1}

Alike == Permutations(Three) \cup Permutations(TwoKeys)

MaxSubmissions == 2
Submissions == {r \in Requests : req[r].kind = "submit"}

MCNext == Next /\ Cardinality(Submissions') <= MaxSubmissions
MCSpec == Init /\ [][MCNext]_vars
=============================================================================
