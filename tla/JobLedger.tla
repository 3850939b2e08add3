----------------------------- MODULE JobLedger -----------------------------
(***************************************************************************)
(* What the job queue promises, without leases that expire, clocks, keys   *)
(* or attempts: each (kind, corpus) works on at most one accepted job, a   *)
(* job is granted to at most one client at a time, a grant may be          *)
(* withdrawn at any moment, only a granted job succeeds, and an outcome    *)
(* is final.  This is the state machine of the docstring of                *)
(* src/folio_insights/jobs/queue.py reduced to what its users rely on;     *)
(* JobQueue implements it.                                                 *)
(***************************************************************************)
CONSTANTS Jobs, Corpora, Tokens, None

VARIABLES
    slot,       \* the unfinished jobs of each (kind, corpus)
    outcome,    \* how each job ended, if it has
    grant       \* the token under which each job is worked on

ledger == <<slot, outcome, grant>>

Outcome == {"unknown", "pending", "succeeded", "failed", "cancelled"}

Init ==
    /\ slot = [c \in Corpora |-> {}]
    /\ outcome = [j \in Jobs |-> "unknown"]
    /\ grant = [j \in Jobs |-> None]

Accept(c, j) ==
    /\ slot[c] = {}
    /\ outcome[j] = "unknown"
    /\ slot' = [slot EXCEPT ![c] = {j}]
    /\ outcome' = [outcome EXCEPT ![j] = "pending"]
    /\ UNCHANGED grant

Grant(j, t) ==
    /\ outcome[j] = "pending"
    /\ grant[j] = None
    /\ \A i \in Jobs : grant[i] # t
    /\ grant' = [grant EXCEPT ![j] = t]
    /\ UNCHANGED <<slot, outcome>>

Succeed(j) ==
    /\ grant[j] # None
    /\ slot' = [c \in Corpora |-> slot[c] \ {j}]
    /\ outcome' = [outcome EXCEPT ![j] = "succeeded"]
    /\ grant' = [grant EXCEPT ![j] = None]

(* Some unfinished jobs are given up and some grants are withdrawn, several *)
(* at once when a sweep does it.                                            *)
GiveUp ==
    /\ outcome' \in [Jobs -> Outcome]
    /\ grant' \in [Jobs -> Tokens \cup {None}]
    /\ \A j \in Jobs :
          \/ /\ outcome'[j] = outcome[j]
             /\ grant'[j] \in {grant[j], None}
          \/ /\ outcome[j] = "pending"
             /\ outcome'[j] \in {"failed", "cancelled"}
             /\ grant'[j] = None
    /\ slot' = [c \in Corpora |-> {j \in slot[c] : outcome'[j] = "pending"}]

Next ==
    \/ \E c \in Corpora, j \in Jobs : Accept(c, j)
    \/ \E j \in Jobs, t \in Tokens : Grant(j, t)
    \/ \E j \in Jobs : Succeed(j)
    \/ GiveUp

Spec == Init /\ [][Next]_ledger
=============================================================================
