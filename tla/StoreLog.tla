------------------------------ MODULE StoreLog ------------------------------
(***************************************************************************)
(* What a corpus store promises its callers: one log of accepted rows.  A  *)
(* write adds the rows of an operation once, however often it is retried.  *)
(* A read answers with the contents after some prefix of the log that is   *)
(* at least as long as the log was when the read was called, so it sees    *)
(* every write that finished before it.  Calls may be given up at any      *)
(* moment.  CorpusStorage implements it.                                   *)
(***************************************************************************)
EXTENDS Integers, Sequences, FiniteSets, FiniteSetsExt

CONSTANTS Callers, Subjects, Values, Ops, Absent

VARIABLES log, call

Row == [op : Ops, body : Seq([subject : Subjects, value : Values]), part : Nat]

Revision(row) == row.body[row.part]

(* the last revision of every subject *)
Contents(rows) ==
    [s \in Subjects |->
        LET revisions == {i \in DOMAIN rows : Revision(rows[i]).subject = s}
        IN  IF revisions = {} THEN Absent ELSE Revision(rows[Max(revisions)]).value]

Prefix(rows, n) == SubSeq(rows, 1, n)

NoCall          == [state |-> "none"]
Asked(low)      == [state |-> "asked", low |-> low]
Answered(view)  == [state |-> "answered", view |-> view]

Init ==
    /\ log = <<>>
    /\ call = [c \in Callers |-> NoCall]

(* all rows of an operation that is not in the log yet *)
Accept ==
    \E op \in Ops :
        /\ \A i \in DOMAIN log : log[i].op # op
        /\ Len(log') > Len(log)
        /\ Prefix(log', Len(log)) = log
        /\ \A i \in DOMAIN log' : i > Len(log) => log'[i].op = op
        /\ UNCHANGED call

Ask(c) ==
    /\ call[c] = NoCall
    /\ call' = [call EXCEPT ![c] = Asked(Len(log))]
    /\ UNCHANGED log

Answer(c) ==
    /\ call[c].state = "asked"
    /\ \E n \in call[c].low..Len(log) :
          call' = [call EXCEPT ![c] = Answered(Contents(Prefix(log, n)))]
    /\ UNCHANGED log

(* calls return or are given up, several at once when a process stops *)
End ==
    /\ \E gone \in SUBSET Callers :
          call' = [c \in Callers |-> IF c \in gone THEN NoCall ELSE call[c]]
    /\ UNCHANGED log

(* an operator restores another log while nobody uses the store *)
Restore ==
    /\ call = [c \in Callers |-> NoCall]
    /\ log' \in Seq(Row)
    /\ UNCHANGED call

Next ==
    \/ Accept
    \/ \E c \in Callers : Ask(c) \/ Answer(c)
    \/ End
    \/ Restore

Spec == Init /\ [][Next]_<<log, call>>
=============================================================================
