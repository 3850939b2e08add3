---------------------------- MODULE GovernanceLog ----------------------------
(***************************************************************************)
(* The governance log of one corpus: signed events in the corpus journal,  *)
(* the roles they give and take, and the commands that append them         *)
(* (src/folio_insights/governance, its command line, and the governance    *)
(* writes of storage/context.py).                                          *)
(*                                                                         *)
(* A command looks at the log, decides, signs, and only then appends, in a *)
(* write transaction that checks everything again.  Other commands, shard  *)
(* writers and steps of the server's clock come between.  A retraction is  *)
(* previewed first; the preview is a file that any later process may apply. *)
(***************************************************************************)
EXTENDS Integers, Sequences, FiniteSets, FiniteSetsExt

CONSTANTS
    Dids,           \* signers and the subjects of role events
    Roles,          \* the roles in use, corpus_admin among them
    Commands,       \* concurrent runs of the command line
    Actions,        \* bound: what the commands do, besides corpus init
    None,
    Skew,           \* SIGNING_SKEW
    MaxTime,        \* bound on the server clock
    MaxPreviews,    \* bound on the preview files
    MaxRows         \* bound on the length of the journal

ASSUME GovernanceAssumption ==
    /\ MaxTime \in Nat
    /\ None \notin Nat

VARIABLES
    journal,    \* the committed rows of the corpus
    clock,      \* the server's wall clock, which may step back
    previews,   \* saved preview files
    cmd         \* what each command is doing

vars == <<journal, clock, previews, cmd>>

Idle == [pc |-> "idle"]

Extractor   == {"extract", "content_edit"}
Reviewer    == Extractor \cup {"promote", "demote", "contest", "supersede", "retract",
                               "distinguo", "reparent", "reconcile", "export", "show"}
Arbiter     == Reviewer \cup {"resolve_contest"}
CorpusAdmin == Arbiter \cup {"role_assertion", "role_revocation"}

Permissions == [extractor |-> Extractor, reviewer |-> Reviewer,
                arbiter |-> Arbiter, corpus_admin |-> CorpusAdmin]

-----------------------------------------------------------------------------
(* What the log says. *)

Governed == {i \in DOMAIN journal : journal[i].event.action # "put_shard"}

Asserts(i, did, role) ==
    LET e == journal[i].event
    IN  e.action = "role_assertion" /\ e.subject = did /\ e.role = role

Revokes(i, did, role) ==
    LET e == journal[i].event
    IN  e.action = "role_revocation" /\ e.subject = did /\ e.role = role

(* roles_from_timed_events over some of the rows: an assertion that is in   *)
(* effect and that no later event in effect revokes                         *)
HoldsIn(rows, did, role, asof) ==
    \E i \in rows :
        /\ journal[i].at <= asof /\ Asserts(i, did, role)
        /\ \A k \in rows : k > i /\ journal[k].at <= asof => ~Revokes(k, did, role)

Holds(did, role, asof) == HoldsIn(Governed, did, role, asof)

Admins(asof) == {d \in Dids : Holds(d, "corpus_admin", asof)}

Permitted(did, action, asof) ==
    \E role \in Roles : Holds(did, role, asof) /\ action \in Permissions[role]

(* what a cascade preview depends on: the shards it reads, the log's length *)
ShardState(n) == Cardinality({i \in 1..n : journal[i].event.action = "put_shard"
                                           /\ journal[i].event.related})
LogState(n)   == Cardinality(Governed \cap 1..n)

Committed(op) == {i \in DOMAIN journal : journal[i].op = op}

-----------------------------------------------------------------------------
(* The command line, up to the append. *)

Goto(c, state) == cmd' = [cmd EXCEPT ![c] = state]
EndCommand(c)  == Goto(c, Idle)

Row(op, event, at) == [op |-> op, event |-> event, at |-> at]

RoleEvent(did, action, position, subject, role) ==
    [did |-> did, action |-> action, position |-> position, signed |-> clock,
     subject |-> subject, role |-> role]

Signed(op, event, head) ==
    [pc |-> "signed", op |-> op, event |-> event, head |-> head]

(* bound: a command starts while the journal has room *)
Starts(c) == cmd[c].pc = "idle" /\ Len(journal) < MaxRows

(* corpus init: authorize("corpus_init"), then the genesis event is signed  *)
CorpusInit(c) ==
    /\ Starts(c)
    /\ Governed = {}
    /\ \E did \in Dids :
          Goto(c, Signed([kind |-> "genesis"],
                         RoleEvent(did, "role_assertion", 0, did, "corpus_admin"), None))
    /\ UNCHANGED <<journal, clock, previews>>

(* role assert, role revoke: authorize reads the log, then the event is     *)
(* signed                                                                   *)
SignRoleEvent(c) ==
    /\ Starts(c)
    /\ \E did, subject \in Dids, role \in Roles :
          \E action \in Actions \cap {"role_assertion", "role_revocation"} :
              LET event == RoleEvent(did, action, -1, subject, role)
              IN  /\ Permitted(did, action, clock)
                  /\ Goto(c, Signed([kind |-> "command", by |-> c, event |-> event],
                                    event, None))
    /\ UNCHANGED <<journal, clock, previews>>

(* retract authorizes its signer first *)
AuthorizeRetract(c) ==
    /\ Starts(c)
    /\ "retract" \in Actions
    /\ \E did \in Dids :
          /\ Permitted(did, "retract", clock)
          /\ Goto(c, [pc |-> "allowed", did |-> did])
    /\ UNCHANGED <<journal, clock, previews>>

(* fault: the position of the next row is taken for the head *)
BeginPreviewAhead(c) ==
    /\ cmd[c].pc = "allowed"
    /\ Cardinality(previews) < MaxPreviews
    /\ Goto(c, [pc |-> "building", based |-> Len(journal) + 1])
    /\ UNCHANGED <<journal, clock, previews>>

(* retract --preview reads the journal head first, then builds the preview  *)
BeginPreview(c) ==
    /\ cmd[c].pc = "allowed"
    /\ Cardinality(previews) < MaxPreviews
    /\ Goto(c, [pc |-> "building", based |-> Len(journal)])
    /\ UNCHANGED <<journal, clock, previews>>

ReadShards(c) ==
    /\ cmd[c].pc = "building"
    /\ Goto(c, [pc |-> "hashing", based |-> cmd[c].based, shards |-> ShardState(Len(journal))])
    /\ UNCHANGED <<journal, clock, previews>>

SavePreview(c) ==
    /\ cmd[c].pc = "hashing"
    /\ previews' = previews \cup {[by |-> c, based |-> cmd[c].based, shards |-> cmd[c].shards,
                                   events |-> LogState(Len(journal))]}
    /\ EndCommand(c)
    /\ UNCHANGED <<journal, clock>>

PreviewOp(p) == [kind |-> "preview", of |-> p]

(* retract --apply, unless the preview is committed; the interactive mode   *)
(* applies the preview it has just built                                    *)
BeginApply(c) ==
    /\ cmd[c].pc = "allowed"
    /\ \E p \in previews :
          IF Committed(PreviewOp(p)) # {} THEN EndCommand(c)
          ELSE Goto(c, [pc |-> "rebuilding", did |-> cmd[c].did, saved |-> p])
    /\ UNCHANGED <<journal, clock, previews>>

(* commit_cascade builds the preview again and compares, in two reads *)
CompareShards(c) ==
    /\ cmd[c].pc = "rebuilding"
    /\ IF ShardState(Len(journal)) = cmd[c].saved.shards
       THEN Goto(c, [cmd[c] EXCEPT !.pc = "comparing"])
       ELSE EndCommand(c)
    /\ UNCHANGED <<journal, clock, previews>>

SignRetraction(c) ==
    /\ cmd[c].pc = "comparing"
    /\ LET p     == cmd[c].saved
           event == [did |-> cmd[c].did, action |-> "retract", position |-> -1,
                     signed |-> clock, preview |-> p]
       IN  IF LogState(Len(journal)) = p.events
           THEN Goto(c, Signed(PreviewOp(p), event, p.based))
           ELSE EndCommand(c)
    /\ UNCHANGED <<journal, clock, previews>>

-----------------------------------------------------------------------------
(* _append_governance: one write transaction. *)

(* fault: the wall clock alone, even after it was set back *)
ServerTimeOfClock == clock

(* _governance_server_time *)
ServerTime == Max({clock} \cup {journal[i].at : i \in Governed})

(* fault: only the operation id is looked up *)
ReplayedByOp(event) == FALSE

(* _refuse_replayed_event: signatures are deterministic, so a signed event  *)
(* is known by its contents                                                 *)
Replayed(event) == \E i \in Governed : journal[i].event = event

InSkew(event, at) == event.signed - at \in -Skew..Skew

(* fault: the decision the command took before it signed is trusted *)
AuthorizedBefore(event, at) == TRUE

(* _authorize_in_transaction *)
AuthorizedAt(event, at) ==
    IF Governed = {}
    THEN event.action # "retract" /\ event.subject = event.did
    ELSE Permitted(event.did, event.action, at)

(* fault: nobody looks whom a first assertion appoints *)
IsAnyFirst(event, position) == event.role = "corpus_admin" /\ event.subject = event.did

IsGenesis(event, position) ==
    /\ position = 0
    /\ event.role = "corpus_admin" /\ event.subject = event.did

(* fault: the roles are looked up at the time the signer claims *)
AcceptedAsSigned(event, position, at) ==
    CASE event.action = "role_assertion" ->
              IsGenesis(event, position)
                  \/ (event.subject # event.did /\ event.did \in Admins(event.signed))
      [] event.action = "role_revocation" ->
              /\ event.did \in Admins(event.signed)
              /\ event.role = "corpus_admin" => Admins(event.signed) # {event.subject}
      [] OTHER -> TRUE

(* the gates of InMemoryGovernanceLog._append *)
Accepted(event, position, at) ==
    CASE event.action = "role_assertion" ->
              IsGenesis(event, position)
                  \/ (event.subject # event.did /\ event.did \in Admins(at))
      [] event.action = "role_revocation" ->
              /\ event.did \in Admins(at)
              /\ event.role = "corpus_admin" => Admins(at) # {event.subject}
      [] OTHER -> TRUE

(* GovernanceLogShape: the positions stay 0..n-1 *)
Position(event) == IF event.position = -1 THEN Cardinality(Governed) ELSE event.position

(* fault: the head is not compared in the transaction *)
HeadIgnored(head) == TRUE

HeadUnmoved(head) == head = None \/ head = Len(journal)

Appendable(event, head) ==
    /\ HeadUnmoved(head)
    /\ ~Replayed(event)
    /\ InSkew(event, ServerTime)
    /\ AuthorizedAt(event, ServerTime)
    /\ Accepted(event, Position(event), ServerTime)
    /\ Position(event) = Cardinality(Governed)

AppendEvent(c) ==
    /\ cmd[c].pc = "signed"
    /\ LET s == cmd[c]
       IN  IF Committed(s.op) = {} /\ Appendable(s.event, s.head)
           THEN /\ Len(journal) < MaxRows
                /\ journal' = Append(journal, Row(s.op, s.event, ServerTime))
           ELSE UNCHANGED journal
    /\ EndCommand(c) \/ UNCHANGED cmd
    /\ UNCHANGED <<clock, previews>>

-----------------------------------------------------------------------------
(* A command is interrupted, or its process dies. *)
Crash(c) ==
    /\ cmd[c].pc # "idle"
    /\ EndCommand(c)
    /\ UNCHANGED <<journal, clock, previews>>

(* any other writer of the corpus; `related' if a cascade would read it *)
PutShard ==
    /\ "retract" \in Actions
    /\ Len(journal) < MaxRows
    /\ \E related \in BOOLEAN :
          journal' = Append(journal, Row([kind |-> "shard"],
                                         [action |-> "put_shard", related |-> related], 0))
    /\ UNCHANGED <<clock, previews, cmd>>

(* time passes, or the clock is set back *)
StepClock ==
    /\ clock' \in 0..MaxTime
    /\ UNCHANGED <<journal, previews, cmd>>

Init ==
    /\ journal = <<>>
    /\ clock = 0
    /\ previews = {}
    /\ cmd = [c \in Commands |-> Idle]

Command(c) ==
    \/ CorpusInit(c) \/ SignRoleEvent(c)
    \/ AuthorizeRetract(c) \/ BeginPreview(c) \/ ReadShards(c) \/ SavePreview(c)
    \/ BeginApply(c) \/ CompareShards(c) \/ SignRetraction(c)
    \/ AppendEvent(c) \/ Crash(c)

Next == (\E c \in Commands : Command(c)) \/ PutShard \/ StepClock

Spec == Init /\ [][Next]_vars

-----------------------------------------------------------------------------
(* Rows, previews and commands hold values of their types; a preview names  *)
(* a head the journal has reached.                                          *)
TypeOK ==
    /\ clock \in 0..MaxTime
    /\ \A i \in Governed : journal[i].event.did \in Dids /\ journal[i].at \in 0..MaxTime
    /\ previews \subseteq [by : Commands, based : 0..Len(journal),
                           shards : 0..Len(journal), events : 0..Len(journal)]
    /\ \A c \in Commands :
          cmd[c].pc \in {"idle", "allowed", "building", "hashing", "rebuilding",
                         "comparing", "signed"}

(* D-11, last-admin lockout: from its genesis on, a corpus has an admin,    *)
(* whichever revocations were signed and committed concurrently.            *)
NeverLockedOut == Governed # {} => Admins(ServerTime) # {}

(* Nothing is committed by a signer who was not permitted at the moment of  *)
(* the commit: every event but the first was signed by someone whom the     *)
(* rows before it permit, all of them, whatever the clock said.             *)
PermittedByThen(i) ==
    \E role \in Roles :
        /\ HoldsIn(Governed \cap 1..i - 1, journal[i].event.did, role, MaxTime)
        /\ journal[i].event.action \in Permissions[role]

CommittedByPermitted ==
    \A i \in Governed : Governed \cap 1..i - 1 # {} => PermittedByThen(i)

(* A corpus is initialised once, by an event in which an admin appoints     *)
(* itself; nobody gives itself a role later.                                *)
OneGenesis ==
    \A i \in Governed :
        LET e == journal[i].event
        IN  (e.action = "role_assertion" /\ e.subject = e.did)
                <=> Governed \cap 1..i - 1 = {}

(* A signed event is in the journal at most once, under one operation id.   *)
SignedOnce ==
    \A i, k \in Governed :
        journal[i].event = journal[k].event \/ journal[i].op = journal[k].op => i = k

(* A committed retraction carries the cascade of the very state it is       *)
(* committed on: what its preview read is what the rows before it say.      *)
CascadeCurrent ==
    \A i \in Governed :
        journal[i].event.action = "retract" =>
            LET p == journal[i].event.preview
            IN  p.shards = ShardState(i - 1) /\ p.events = LogState(i - 1)

(* Who held a role at a past time is settled: no later event, clock step or *)
(* signing date changes the answer for a time before the newest commit.     *)
PastSettled ==
    [][\A t \in 0..MaxTime :
          (\E i \in Governed : t < journal[i].at) =>
              \A d \in Dids, role \in Roles : Holds(d, role, t) = Holds(d, role, t)']_vars
=============================================================================
