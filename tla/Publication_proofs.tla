--------------------------- MODULE Publication_proofs ---------------------------
(* What is proved of what leaves a corpus: of the shards a mint writes and the  *)
(* events that attest them, and of the files of exports and dumps.              *)
EXTENDS GovernanceLog, Minting, CorpusExport, Counting

-----------------------------------------------------------------------------
(* Minting: the runs.                                                           *)

MintSteps == {"evaluate", "present", "detect", "infer", "classify", "write", "attest", "append"}

IsMintRun(run) ==
    /\ run = [pc |-> run.pc, units |-> run.units, did |-> run.did, signed |-> run.signed,
              at |-> run.at, seen |-> run.seen, halted |-> run.halted,
              detections |-> run.detections, records |-> run.records, before |-> run.before]
    /\ run.pc \in MintSteps /\ run.units \in Extractions /\ run.at \in DOMAIN run.units
    /\ run.did \in Signers /\ run.signed \in BOOLEAN
    /\ run.records \in Seq(CallRecords)
    /\ run.detections = [s \in Sources |-> run.detections[s]]
    /\ \A s \in Sources :
          run.detections[s] = [done |-> run.detections[s].done,
                               confident |-> run.detections[s].confident,
                               templates |-> run.detections[s].templates]

\* The templates of the calls about something that were answered.
About(records, a) ==
    {records[i].template : i \in {j \in DOMAIN records : records[j].ok /\ records[j].about = a}}

Uncalled == {"evaluate", "present", "detect", "infer"}

\* A run's records: those of each source are its detection, those of the unit at hand are the
\* ones since it was taken up, and there is none of the units to come.
CallsInv(run) ==
    /\ \A s \in Sources : /\ run.detections[s].templates = About(run.records, s)
                          /\ ~run.detections[s].done => About(run.records, s) = {}
    /\ \A i \in DOMAIN run.records, j \in DOMAIN run.units :
          run.records[i].about = run.units[j].id =>
             j < run.at \/ (j = run.at /\ run.pc \notin Uncalled)
    /\ run.pc \in {"classify", "write"} =>
          /\ run.before \in Nat
          /\ \A i \in DOMAIN run.records :
                i > run.before <=> run.records[i].about = run.units[run.at].id
          /\ FieldsCall \in About(run.records, run.units[run.at].id)

UnitOf(run) == run.units[run.at]

\* what the run knows of the shard it is about to attest
PlaceInv(run) ==
    /\ run.pc = "present" => minted[Iri(UnitOf(run))] # NoMint
    /\ run.pc \in {"attest", "append"} =>
          /\ minted[Iri(UnitOf(run))] # NoMint
          /\ minted[Iri(UnitOf(run))].extractor = run.did

IsWhole(shard) ==
    shard.prompt = shard.unit.lineage \cup
        {c.template : c \in {d \in shard.calls : d.ok /\ d.about \in {shard.unit.id, shard.unit.source}}}

ShardsInv ==
    /\ minted = [i \in MintIris |-> minted[i]]
    /\ \A i \in MintIris : minted[i] # NoMint => minted[i] \in MintedShards /\ IsWhole(minted[i])

EventOf(i) == [signer |-> minted[i].extractor, model |-> minted[i].by]

EventsInv ==
    /\ attested = [i \in MintIris |-> attested[i]]
    /\ \A i \in MintIris : attested[i] # <<>> => minted[i] # NoMint /\ attested[i] = <<EventOf(i)>>

MintInv ==
    /\ ShardsInv /\ EventsInv
    /\ mint = [m \in Mints |-> mint[m]]
    /\ \A m \in Mints : mint[m] = NoRunYet \/
          (IsMintRun(mint[m]) /\ CallsInv(mint[m]) /\ PlaceInv(mint[m]))

-----------------------------------------------------------------------------
(* One run.                                                                     *)

\* enough for the next unit
Behind(run) ==
    /\ \A s \in Sources : /\ run.detections[s].templates = About(run.records, s)
                          /\ ~run.detections[s].done => About(run.records, s) = {}
    /\ \A i \in DOMAIN run.records, j \in DOMAIN run.units :
          run.records[i].about = run.units[j].id => j <= run.at

LEMMA UnitFacts ==
    ASSUME NEW run, IsMintRun(run)
    PROVE  /\ UnitOf(run) \in MintUnits /\ Iri(UnitOf(run)) \in MintIris
           /\ UnitOf(run).source \in Sources
           /\ DOMAIN run.units = 1..Len(run.units) /\ Len(run.units) \in Nat /\ run.at \in Nat
           /\ \A i, j \in DOMAIN run.units : run.units[i].id = run.units[j].id => i = j
           /\ \A j \in DOMAIN run.units : run.units[j].id \notin Sources
           /\ DOMAIN run.records = 1..Len(run.records) /\ Len(run.records) \in Nat
  <1>1. run.units \in Seq(MintUnits) /\ run.at \in DOMAIN run.units /\ run.units \in Extractions
    BY ExtractionsAssumption DEF IsMintRun
  <1>2. /\ DOMAIN run.units = 1..Len(run.units) /\ Len(run.units) \in Nat
        /\ \A j \in DOMAIN run.units : run.units[j] \in MintUnits
    BY <1>1
  <1>3. UnitOf(run) \in MintUnits
    BY <1>1, <1>2 DEF UnitOf
  <1>4. \A i, j \in DOMAIN run.units : run.units[i].id = run.units[j].id => i = j
    BY <1>1, ExtractionsAssumption
  <1>5. \A j \in DOMAIN run.units : run.units[j].id \notin Sources
    BY <1>2, ExtractionsAssumption
  <1>6. Iri(UnitOf(run)) \in MintIris /\ UnitOf(run).source \in Sources
    BY <1>3 DEF MintIris, Sources
  <1>7. DOMAIN run.records = 1..Len(run.records) /\ Len(run.records) \in Nat
    BY DEF IsMintRun
  <1>. QED  BY <1>1, <1>2, <1>3, <1>4, <1>5, <1>6, <1>7

LEMMA CallsAreBehind ==
    ASSUME NEW run, IsMintRun(run), CallsInv(run)
    PROVE  Behind(run)
  <1>1. \A j \in DOMAIN run.units : j \in Nat
    BY UnitFacts
  <1>. QED  BY <1>1, UnitFacts DEF CallsInv, Behind

LEMMA NextUnitGoes ==
    ASSUME NEW run, IsMintRun(run), Behind(run), NEW next, next = NextUnit(run)
    PROVE  \/ next = NoRunYet
           \/ IsMintRun(next) /\ CallsInv(next) /\ next.pc = "evaluate"
  <1>1. CASE run.at = Len(run.units)
    BY <1>1 DEF NextUnit
  <1>2. CASE run.at # Len(run.units)
    <2>. DEFINE at == run.at + 1
                pc == "evaluate"
    <2>1. at \in DOMAIN run.units /\ \A j \in Nat : j <= run.at => j < at
      BY <1>2, UnitFacts DEF IsMintRun
    <2>2. \A j \in DOMAIN run.units : j \in Nat
      BY UnitFacts
    <2>3. next = [run EXCEPT !.at = at, !.pc = pc]
      BY <1>2 DEF NextUnit
    <2>. HIDE DEF at, pc
    <2>4. next = [pc |-> pc, units |-> run.units, did |-> run.did, signed |-> run.signed,
                  at |-> at, seen |-> run.seen, halted |-> run.halted,
                  detections |-> run.detections, records |-> run.records, before |-> run.before]
      BY <2>3 DEF IsMintRun
    <2>5. /\ next.pc = pc /\ next.units = run.units /\ next.did = run.did
          /\ next.signed = run.signed /\ next.at = at /\ next.seen = run.seen
          /\ next.halted = run.halted /\ next.detections = run.detections
          /\ next.records = run.records /\ next.before = run.before
      BY <2>4
    <2>6. pc = "evaluate" /\ pc \in MintSteps /\ pc \in Uncalled
      BY DEF pc, MintSteps, Uncalled
    <2>7. IsMintRun(next)
      BY <2>1, <2>4, <2>5, <2>6 DEF IsMintRun
    <2>8. CallsInv(next)
      BY <2>1, <2>2, <2>5, <2>6 DEF Behind, CallsInv
    <2>. QED  BY <2>5, <2>6, <2>7, <2>8
  <1>. QED  BY <1>1, <1>2

\* The run goes on to another step of its unit.
LEMMA StepGoes ==
    ASSUME NEW run, IsMintRun(run), CallsInv(run), NEW pc \in MintSteps, NEW seen, NEW halted,
           run.pc \in Uncalled \/ pc \notin Uncalled,
           pc \in {"classify", "write"} => run.pc \in {"classify", "write"},
           NEW next,
           next = [pc |-> pc, units |-> run.units, did |-> run.did, signed |-> run.signed,
                   at |-> run.at, seen |-> seen, halted |-> halted,
                   detections |-> run.detections, records |-> run.records, before |-> run.before]
    PROVE  IsMintRun(next) /\ CallsInv(next) /\ next.pc = pc
           /\ UnitOf(next) = UnitOf(run) /\ next.did = run.did
  <1>1. next = [pc |-> next.pc, units |-> next.units, did |-> next.did, signed |-> next.signed,
                at |-> next.at, seen |-> next.seen, halted |-> next.halted,
                detections |-> next.detections, records |-> next.records, before |-> next.before]
    OBVIOUS
  <1>2. /\ next.pc = pc /\ next.units = run.units /\ next.did = run.did
        /\ next.signed = run.signed /\ next.at = run.at /\ next.seen = seen
        /\ next.halted = halted /\ next.detections = run.detections
        /\ next.records = run.records /\ next.before = run.before
    OBVIOUS
  <1>3. IsMintRun(next)
    BY <1>1, <1>2 DEF IsMintRun
  <1>4. CallsInv(next)
    BY <1>2 DEF CallsInv
  <1>. QED  BY <1>2, <1>3, <1>4 DEF UnitOf

\* One more call.
LEMMA OneMoreCall ==
    ASSUME NEW records \in Seq(CallRecords), NEW c \in CallRecords
    PROVE  /\ Append(records, c) \in Seq(CallRecords)
           /\ Len(Append(records, c)) = Len(records) + 1
           /\ \A i \in DOMAIN records : Append(records, c)[i] = records[i]
           /\ Append(records, c)[Len(records) + 1] = c
           /\ DOMAIN records = 1..Len(records) /\ Len(records) \in Nat
           /\ DOMAIN Append(records, c) = 1..(Len(records) + 1)
           /\ \A a : About(Append(records, c), a) =
                        About(records, a) \cup (IF c.ok /\ c.about = a THEN {c.template} ELSE {})
  <1>. DEFINE more == Append(records, c)
              n == Len(records)
  <1>1. /\ more \in Seq(CallRecords) /\ Len(more) = n + 1
        /\ \A i \in DOMAIN records : more[i] = records[i]
        /\ more[n + 1] = c
        /\ DOMAIN records = 1..n /\ n \in Nat /\ DOMAIN more = 1..(n + 1)
    OBVIOUS
  <1>2. ASSUME NEW a
        PROVE  About(more, a) =
                  About(records, a) \cup (IF c.ok /\ c.about = a THEN {c.template} ELSE {})
    <2>. HIDE DEF more, n
    <2>1. \A i \in DOMAIN more : i \in DOMAIN records \/ i = n + 1
      BY <1>1
    <2>2. DOMAIN records \subseteq DOMAIN more /\ n + 1 \in DOMAIN more /\ n + 1 \notin DOMAIN records
      BY <1>1
    <2>3. ASSUME NEW t \in About(more, a)
          PROVE  t \in About(records, a) \cup (IF c.ok /\ c.about = a THEN {c.template} ELSE {})
      BY <1>1, <2>1 DEF About
    <2>4. About(records, a) \subseteq About(more, a)
      BY <1>1, <2>2 DEF About
    <2>5. c.ok /\ c.about = a => c.template \in About(more, a)
      BY <1>1, <2>2 DEF About
    <2>. QED  BY <2>3, <2>4, <2>5
  <1>. QED  BY <1>1, <1>2

\* The templates of the calls from some point on.
LEMMA OkFrom ==
    ASSUME NEW records \in Seq(CallRecords), NEW before \in Nat, before <= Len(records)
    PROVE  OkTemplates(SubSeq(records, before + 1, Len(records))) =
               {records[i].template : i \in {j \in DOMAIN records : records[j].ok /\ j > before}}
  <1>. DEFINE tail == SubSeq(records, before + 1, Len(records))
              n == Len(records)
              k == n - before
  <1>1. n \in Nat /\ k \in Nat /\ DOMAIN records = 1..n /\ n = before + k
    OBVIOUS
  <1>2. Len(tail) = k /\ DOMAIN tail = 1..k /\ \A i \in 1..k : tail[i] = records[before + i]
    <2>1. before \in 0..Len(records) /\ n \in before..Len(records)
      BY <1>1
    <2>2. /\ Len(tail) = n - before /\ DOMAIN tail = 1..(n - before)
          /\ \A i \in 1..(n - before) : tail[i] = records[before + i]
      BY <2>1, SubRows
    <2>. QED  BY <2>2
  <1>. HIDE DEF tail, k, n
  <1>3. ASSUME NEW t \in OkTemplates(tail)
        PROVE  t \in {records[i].template : i \in {j \in DOMAIN records : records[j].ok /\ j > before}}
    <2>1. PICK i \in DOMAIN tail : tail[i].ok /\ t = tail[i].template
      BY DEF OkTemplates
    <2>2. before + i \in DOMAIN records /\ before + i > before /\ tail[i] = records[before + i]
      BY <1>1, <1>2
    <2>. QED  BY <2>1, <2>2
  <1>4. ASSUME NEW j \in DOMAIN records, records[j].ok, j > before
        PROVE  records[j].template \in OkTemplates(tail)
    <2>1. j - before \in DOMAIN tail /\ tail[j - before] = records[j]
      BY <1>1, <1>2, <1>4
    <2>. QED  BY <1>4, <2>1 DEF OkTemplates
  <1>. QED  BY <1>3, <1>4 DEF tail, n

-----------------------------------------------------------------------------
(* Minting: the steps.                                                          *)

Ready(run) == IsMintRun(run) /\ CallsInv(run) /\ PlaceInv(run)

LEMMA RunMovesOn ==
    ASSUME MintInv, NEW m \in Mints, NEW next, mint' = [mint EXCEPT ![m] = next],
           next = NoRunYet \/ Ready(next), UNCHANGED minted, EventsInv'
    PROVE  MintInv'
  <1>1. mint' = [q \in Mints |-> mint'[q]] /\ mint'[m] = next
        /\ \A q \in Mints \ {m} : mint'[q] = mint[q]
    BY DEF MintInv
  <1>2. ASSUME NEW q \in Mints
        PROVE  mint'[q] = NoRunYet \/ (IsMintRun(mint'[q]) /\ CallsInv(mint'[q]) /\ PlaceInv(mint[q])')
    <2>1. \A run : PlaceInv(run) => PlaceInv(run)'
      BY DEF PlaceInv
    <2>. QED  BY <1>1, <2>1 DEF MintInv, Ready, PlaceInv
  <1>3. ShardsInv'
    BY DEF MintInv, ShardsInv
  <1>. QED  BY <1>1, <1>2, <1>3 DEF MintInv

LEMMA RunMoves ==
    ASSUME MintInv, NEW m \in Mints, NEW next, mint' = [mint EXCEPT ![m] = next],
           next = NoRunYet \/ Ready(next), UNCHANGED <<minted, attested>>
    PROVE  MintInv'
  <1>1. EventsInv'
    BY DEF MintInv, EventsInv, EventOf
  <1>. QED  BY <1>1, RunMovesOn

LEMMA NextUnitReady ==
    ASSUME NEW run, IsMintRun(run), Behind(run)
    PROVE  NextUnit(run) = NoRunYet \/ Ready(NextUnit(run))
  <1>. DEFINE next == NextUnit(run)
  <1>1. next = NoRunYet \/ (IsMintRun(next) /\ CallsInv(next) /\ next.pc = "evaluate")
    BY NextUnitGoes
  <1>. HIDE DEF next
  <1>2. next = NoRunYet \/ Ready(next)
    BY <1>1 DEF Ready, PlaceInv
  <1>. QED  BY <1>2 DEF next

LEMMA MintAtFacts ==
    ASSUME MintInv, NEW m \in Mints, mint[m].pc # "idle"
    PROVE  Ready(mint[m]) /\ Behind(mint[m]) /\ Unit(m) = UnitOf(mint[m])
  <1>1. Ready(mint[m])
    BY DEF MintInv, NoRunYet, Ready
  <1>. QED  BY <1>1, CallsAreBehind DEF Ready, Unit, UnitOf

LEMMA BeginMintKeeps ==
    ASSUME MintInv, NEW m \in Mints, BeginMint(m)
    PROVE  MintInv'
  <1>1. PICK d \in Signers, signed \in BOOLEAN, x \in Extractions :
            mint' = [mint EXCEPT ![m] = [NoRunYet EXCEPT !.pc = "evaluate", !.units = x, !.did = d,
                                                         !.signed = signed]]
    BY DEF BeginMint, Set
  <1>. DEFINE detections == [s \in Sources |-> NoDetection]
              next == [pc |-> "evaluate", units |-> x, did |-> d, signed |-> signed, at |-> 1,
                       seen |-> {}, halted |-> FALSE, detections |-> detections,
                       records |-> <<>>, before |-> 0]
  <1>2. mint' = [mint EXCEPT ![m] = next]
    <2>1. NoRunYet = [pc |-> "idle", units |-> <<>>, did |-> Unsigned, signed |-> FALSE, at |-> 1,
                      seen |-> {}, halted |-> FALSE, detections |-> detections, records |-> <<>>,
                      before |-> 0]
      BY DEF NoRunYet
    <2>. DEFINE began == [NoRunYet EXCEPT !.pc = "evaluate", !.units = x, !.did = d,
                                          !.signed = signed]
    <2>. HIDE DEF detections
    <2>2. began = [NoRunYet EXCEPT !.pc = "evaluate", !.units = x, !.did = d, !.signed = signed]
      OBVIOUS
    <2>. HIDE DEF began
    <2>3. began = next
      BY <2>1, <2>2
    <2>. QED  BY <1>1, <2>2, <2>3
  <1>3. /\ next.pc = "evaluate" /\ next.units = x /\ next.did = d /\ next.signed = signed
        /\ next.at = 1 /\ next.records = <<>> /\ next.detections = detections
        /\ next = [pc |-> next.pc, units |-> next.units, did |-> next.did, signed |-> next.signed,
                   at |-> next.at, seen |-> next.seen, halted |-> next.halted,
                   detections |-> next.detections, records |-> next.records,
                   before |-> next.before]
    OBVIOUS
  <1>4. 1 \in DOMAIN x
    BY ExtractionsAssumption
  <1>5. /\ detections = [s \in Sources |-> detections[s]]
        /\ \A s \in Sources : /\ detections[s].templates = {}
                              /\ detections[s] = [done |-> detections[s].done,
                                                  confident |-> detections[s].confident,
                                                  templates |-> detections[s].templates]
    BY DEF NoDetection
  <1>. HIDE DEF next, detections
  <1>6. IsMintRun(next)
    <2>1. <<>> \in Seq(CallRecords)
      OBVIOUS
    <2>. QED  BY <1>3, <1>4, <1>5, <2>1 DEF IsMintRun, MintSteps
  <1>7. CallsInv(next)
    <2>1. DOMAIN <<>> = {}
      OBVIOUS
    <2>2. \A a : About(<<>>, a) = {}
      BY <2>1 DEF About
    <2>. QED  BY <1>3, <1>5, <2>1, <2>2 DEF CallsInv
  <1>8. Ready(next)
    BY <1>3, <1>6, <1>7 DEF Ready, PlaceInv
  <1>. QED  BY <1>2, <1>8, RunMoves DEF BeginMint

\* the run goes on, having seen something or not, being halted or not
MovedOn(run, pc, seen, halted) ==
    [pc |-> pc, units |-> run.units, did |-> run.did, signed |-> run.signed,
     at |-> run.at, seen |-> seen, halted |-> halted,
     detections |-> run.detections, records |-> run.records, before |-> run.before]

LEMMA Moves ==
    ASSUME NEW run, IsMintRun(run), NEW pc, NEW seen, NEW halted
    PROVE  /\ [run EXCEPT !.pc = pc] = MovedOn(run, pc, run.seen, run.halted)
           /\ [run EXCEPT !.seen = seen] = MovedOn(run, run.pc, seen, run.halted)
           /\ [run EXCEPT !.halted = halted] = MovedOn(run, run.pc, run.seen, halted)
           /\ [MovedOn(run, run.pc, seen, run.halted) EXCEPT !.pc = pc]
                 = MovedOn(run, pc, seen, run.halted)
  <1>1. run = [pc |-> run.pc, units |-> run.units, did |-> run.did, signed |-> run.signed,
               at |-> run.at, seen |-> run.seen, halted |-> run.halted,
               detections |-> run.detections, records |-> run.records, before |-> run.before]
    BY DEF IsMintRun
  <1>2. [run EXCEPT !.pc = pc] = MovedOn(run, pc, run.seen, run.halted)
    BY <1>1 DEF MovedOn
  <1>3. [run EXCEPT !.seen = seen] = MovedOn(run, run.pc, seen, run.halted)
    BY <1>1 DEF MovedOn
  <1>4. [run EXCEPT !.halted = halted] = MovedOn(run, run.pc, run.seen, halted)
    BY <1>1 DEF MovedOn
  <1>5. [MovedOn(run, run.pc, seen, run.halted) EXCEPT !.pc = pc]
           = MovedOn(run, pc, seen, run.halted)
    BY <1>1 DEF MovedOn
  <1>. QED  BY <1>2, <1>3, <1>4, <1>5

LEMMA MovedOnKeeps ==
    ASSUME NEW run, IsMintRun(run), CallsInv(run), NEW pc \in MintSteps, NEW seen, NEW halted,
           run.pc \in Uncalled \/ pc \notin Uncalled,
           pc \in {"classify", "write"} => run.pc \in {"classify", "write"},
           NEW next, next = MovedOn(run, pc, seen, halted)
    PROVE  IsMintRun(next) /\ CallsInv(next) /\ next.pc = pc
           /\ UnitOf(next) = UnitOf(run) /\ next.did = run.did
  BY StepGoes DEF MovedOn

LEMMA EvaluateKeeps ==
    ASSUME MintInv, NEW m \in Mints, EvaluateUnit(m)
    PROVE  MintInv'
  <1>. DEFINE u == Unit(m)
              now == mint[m]
              seen == now.seen \cup Keys(u)
              run == MovedOn(now, now.pc, seen, now.halted)
              Goes(pc) == MovedOn(now, pc, seen, now.halted)
  <1>1. now.pc = "evaluate" /\ UNCHANGED <<minted, attested>>
    BY DEF EvaluateUnit, MintAt
  <1>2. Ready(now) /\ Behind(now) /\ u = UnitOf(now)
    BY <1>1, MintAtFacts
  <1>3. IsMintRun(now) /\ CallsInv(now)
    BY <1>2 DEF Ready
  <1>4. \/ mint' = [mint EXCEPT ![m] = NextUnit(now)]
        \/ mint' = [mint EXCEPT ![m] = NextUnit(run)]
        \/ minted[Iri(u)] # NoMint /\ mint' = [mint EXCEPT ![m] = Goes("present")]
        \/ mint' = [mint EXCEPT ![m] = Goes("detect")]
    <2>. HIDE DEF seen
    <2>1. /\ [now EXCEPT !.seen = seen] = run
          /\ [run EXCEPT !.pc = "present"] = Goes("present")
          /\ [run EXCEPT !.pc = "detect"] = Goes("detect")
      BY <1>3, Moves
    <2>. HIDE DEF run, Goes
    <2>2. \/ mint' = [mint EXCEPT ![m] = NextUnit(mint[m])]
          \/ mint' = [mint EXCEPT ![m] = NextUnit([mint[m] EXCEPT !.seen = seen])]
          \/ minted[Iri(u)] # NoMint
             /\ mint' = [mint EXCEPT ![m] = [[mint[m] EXCEPT !.seen = seen] EXCEPT !.pc = "present"]]
          \/ mint' = [mint EXCEPT ![m] = [[mint[m] EXCEPT !.seen = seen] EXCEPT !.pc = "detect"]]
      BY DEF EvaluateUnit, Set, seen
    <2>. QED  BY <2>1, <2>2
  <1>. HIDE DEF seen, run, Goes
  <1>5. CASE mint' = [mint EXCEPT ![m] = NextUnit(now)]
    BY <1>1, <1>2, <1>3, <1>5, NextUnitReady, RunMoves
  <1>6. CASE mint' = [mint EXCEPT ![m] = NextUnit(run)]
    <2>1. now.pc \in MintSteps /\ now.pc \in Uncalled
      BY <1>1 DEF MintSteps, Uncalled
    <2>2. IsMintRun(run) /\ CallsInv(run)
      BY <1>3, <2>1, MovedOnKeeps DEF run
    <2>3. Behind(run)
      BY <2>2, CallsAreBehind
    <2>. QED  BY <1>1, <1>6, <2>2, <2>3, NextUnitReady, RunMoves
  <1>7. ASSUME NEW pc \in {"present", "detect"}, mint' = [mint EXCEPT ![m] = Goes(pc)],
               pc = "present" => minted[Iri(u)] # NoMint
        PROVE  MintInv'
    <2>1. pc \in MintSteps /\ now.pc \in Uncalled /\ pc \notin {"classify", "write"}
      BY <1>1 DEF MintSteps, Uncalled
    <2>. DEFINE next == Goes(pc)
    <2>2. next = MovedOn(now, pc, seen, now.halted)
      BY DEF Goes
    <2>. HIDE DEF next
    <2>3. IsMintRun(next) /\ CallsInv(next) /\ next.pc = pc /\ UnitOf(next) = u
      BY <1>2, <1>3, <2>1, <2>2, MovedOnKeeps
    <2>4. Ready(next)
      BY <1>7, <2>3 DEF Ready, PlaceInv
    <2>. QED  BY <1>1, <1>7, <2>4, RunMoves DEF next
  <1>. QED  BY <1>4, <1>5, <1>6, <1>7

LEMMA MoveReady ==
    ASSUME MintInv, NEW m \in Mints, Ready(mint[m]), NEW pc \in MintSteps,
           mint[m].pc \in Uncalled \/ pc \notin Uncalled,
           pc \in {"classify", "write"} => mint[m].pc \in {"classify", "write"},
           pc = "present" => minted[Iri(UnitOf(mint[m]))] # NoMint,
           pc \in {"attest", "append"} =>
              /\ minted[Iri(UnitOf(mint[m]))] # NoMint
              /\ minted[Iri(UnitOf(mint[m]))].extractor = mint[m].did
    PROVE  Ready([mint[m] EXCEPT !.pc = pc])
  <1>. DEFINE now == mint[m]
              next == [mint[m] EXCEPT !.pc = pc]
  <1>1. IsMintRun(now) /\ CallsInv(now)
    BY DEF Ready
  <1>2. next = MovedOn(now, pc, now.seen, now.halted)
    BY <1>1, Moves
  <1>. HIDE DEF next
  <1>3. /\ IsMintRun(next) /\ CallsInv(next) /\ next.pc = pc
        /\ UnitOf(next) = UnitOf(now) /\ next.did = now.did
    BY <1>1, <1>2, MovedOnKeeps
  <1>4. Ready(next)
    BY <1>3 DEF Ready, PlaceInv
  <1>. QED  BY <1>4 DEF next

LEMMA HaltKeeps ==
    ASSUME MintInv, NEW m \in Mints, HaltMint(m)
    PROVE  MintInv'
  <1>. DEFINE now == mint[m]
              halted == TRUE
              next == [now EXCEPT !.halted = halted]
  <1>1. now.pc # "idle" /\ mint' = [mint EXCEPT ![m] = NextUnit(next)] /\ UNCHANGED <<minted, attested>>
    BY DEF HaltMint, Set, Halt
  <1>. HIDE DEF halted
  <1>2. IsMintRun(now) /\ CallsInv(now) /\ now.pc \in MintSteps
    BY <1>1, MintAtFacts DEF Ready, IsMintRun
  <1>3. next = MovedOn(now, now.pc, now.seen, halted)
    BY <1>2, Moves
  <1>. HIDE DEF next
  <1>4. IsMintRun(next) /\ CallsInv(next)
    BY <1>2, <1>3, MovedOnKeeps
  <1>5. Behind(next)
    BY <1>4, CallsAreBehind
  <1>. QED  BY <1>1, <1>4, <1>5, NextUnitReady, RunMoves

LEMMA FindPresentKeeps ==
    ASSUME MintInv, NEW m \in Mints, FindPresent(m)
    PROVE  MintInv'
  <1>. DEFINE now == mint[m]
              shard == minted[Iri(Unit(m))]
  <1>1. now.pc = "present" /\ UNCHANGED <<minted, attested>>
    BY DEF FindPresent, MintAt
  <1>2. Ready(now) /\ IsMintRun(now) /\ Behind(now) /\ Unit(m) = UnitOf(now)
    BY <1>1, MintAtFacts DEF Ready
  <1>3. \/ mint' = [mint EXCEPT ![m] = NextUnit(now)]
        \/ mint' = [mint EXCEPT ![m] = [now EXCEPT !.pc = "append"]]
           /\ shard.extractor = now.did
    BY DEF FindPresent, Set, MayAttest
  <1>4. CASE mint' = [mint EXCEPT ![m] = NextUnit(now)]
    BY <1>1, <1>2, <1>4, NextUnitReady, RunMoves
  <1>5. CASE mint' = [mint EXCEPT ![m] = [now EXCEPT !.pc = "append"]] /\ shard.extractor = now.did
    <2>1. minted[Iri(UnitOf(now))] # NoMint
      BY <1>1, <1>2 DEF Ready, PlaceInv
    <2>2. "append" \in MintSteps /\ "append" \notin Uncalled
      BY DEF MintSteps, Uncalled
    <2>3. Ready([now EXCEPT !.pc = "append"])
      BY <1>2, <1>5, <2>1, <2>2, MoveReady
    <2>. QED  BY <1>1, <1>5, <2>3, RunMoves
  <1>. QED  BY <1>3, <1>4, <1>5

LEMMA AttestKeeps ==
    ASSUME MintInv, NEW m \in Mints, Attest(m)
    PROVE  MintInv'
  <1>. DEFINE now == mint[m]
  <1>1. now.pc = "attest" /\ UNCHANGED <<minted, attested>>
    BY DEF Attest, MintAt
  <1>2. Ready(now) /\ IsMintRun(now) /\ Behind(now) /\ Unit(m) = UnitOf(now)
    BY <1>1, MintAtFacts DEF Ready
  <1>3. \/ mint' = [mint EXCEPT ![m] = NextUnit(now)]
        \/ mint' = [mint EXCEPT ![m] = [now EXCEPT !.pc = "append"]]
    BY DEF Attest, Set
  <1>4. CASE mint' = [mint EXCEPT ![m] = NextUnit(now)]
    BY <1>1, <1>2, <1>4, NextUnitReady, RunMoves
  <1>5. CASE mint' = [mint EXCEPT ![m] = [now EXCEPT !.pc = "append"]]
    <2>1. minted[Iri(UnitOf(now))] # NoMint /\ minted[Iri(UnitOf(now))].extractor = now.did
      BY <1>1, <1>2 DEF Ready, PlaceInv
    <2>2. "append" \in MintSteps /\ "append" \notin Uncalled
      BY DEF MintSteps, Uncalled
    <2>3. Ready([now EXCEPT !.pc = "append"])
      BY <1>2, <2>1, <2>2, MoveReady
    <2>. QED  BY <1>1, <1>5, <2>3, RunMoves
  <1>. QED  BY <1>3, <1>4, <1>5

LEMMA StopKeeps ==
    ASSUME MintInv, NEW m \in Mints, StopMint(m)
    PROVE  MintInv'
  BY RunMoves DEF StopMint, Set

LEMMA RoleKeeps ==
    ASSUME MintInv, NEW d \in Signers, ChangeRole(d)
    PROVE  MintInv'
  <1>1. UNCHANGED <<minted, attested, mint>>
    BY DEF ChangeRole
  <1>. QED  BY <1>1 DEF MintInv, ShardsInv, EventsInv, EventOf, PlaceInv

\* The event of the unit at hand, by the extractor the shard names.
LEMMA AppendKeeps ==
    ASSUME MintInv, NEW m \in Mints, AppendExtract(m)
    PROVE  MintInv'
  <1>. DEFINE now == mint[m]
              i == Iri(UnitOf(now))
              event == [signer |-> now.did, model |-> minted[i].by]
  <1>1. now.pc = "append" /\ UNCHANGED minted /\ mint' = [mint EXCEPT ![m] = NextUnit(now)]
    BY DEF AppendExtract, MintAt, Set
  <1>2. Ready(now) /\ IsMintRun(now) /\ Behind(now) /\ Unit(m) = UnitOf(now)
    BY <1>1, MintAtFacts DEF Ready
  <1>3. i \in MintIris /\ minted[i] # NoMint /\ minted[i].extractor = now.did
    BY <1>1, <1>2, UnitFacts DEF Ready, PlaceInv
  <1>4. \/ attested[i] = <<>> /\ attested' = [attested EXCEPT ![i] = Append(attested[i], event)]
        \/ UNCHANGED attested
    BY <1>2 DEF AppendExtract, OpFree
  <1>5. event = EventOf(i)
    BY <1>3 DEF EventOf
  <1>. HIDE DEF event, i
  <1>6. attested[i] = <<>> => Append(attested[i], event) = <<EventOf(i)>>
    BY <1>5
  <1>7. EventsInv'
    BY <1>1, <1>3, <1>4, <1>6 DEF MintInv, EventsInv, EventOf
  <1>. QED  BY <1>1, <1>2, <1>7, NextUnitReady, RunMovesOn

-----------------------------------------------------------------------------
(* Minting: the calls.                                                          *)

\* the run after a call
Having(run, pc, detections, records, before) ==
    [pc |-> pc, units |-> run.units, did |-> run.did, signed |-> run.signed,
     at |-> run.at, seen |-> run.seen, halted |-> run.halted,
     detections |-> detections, records |-> records, before |-> before]

LEMMA HavingFacts ==
    ASSUME NEW run, IsMintRun(run), NEW pc \in MintSteps, NEW records \in Seq(CallRecords),
           NEW before, NEW detections,
           detections = [s \in Sources |-> detections[s]],
           \A s \in Sources :
              detections[s] = [done |-> detections[s].done,
                               confident |-> detections[s].confident,
                               templates |-> detections[s].templates],
           NEW next, next = Having(run, pc, detections, records, before)
    PROVE  /\ IsMintRun(next)
           /\ next.pc = pc /\ next.units = run.units /\ next.did = run.did /\ next.at = run.at
           /\ next.detections = detections /\ next.records = records /\ next.before = before
           /\ UnitOf(next) = UnitOf(run)
  <1>1. next = [pc |-> next.pc, units |-> next.units, did |-> next.did, signed |-> next.signed,
                at |-> next.at, seen |-> next.seen, halted |-> next.halted,
                detections |-> next.detections, records |-> next.records, before |-> next.before]
    BY DEF Having
  <1>2. /\ next.pc = pc /\ next.units = run.units /\ next.did = run.did
        /\ next.signed = run.signed /\ next.at = run.at /\ next.seen = run.seen
        /\ next.halted = run.halted /\ next.detections = detections
        /\ next.records = records /\ next.before = before
    BY DEF Having
  <1>3. IsMintRun(next)
    BY <1>1, <1>2 DEF IsMintRun
  <1>. QED  BY <1>2, <1>3 DEF UnitOf

\* A call for the unit at hand says nothing of any source or other unit.
LEMMA UnitsCall ==
    ASSUME NEW run, IsMintRun(run), CallsInv(run), NEW c \in CallRecords, c.about = UnitOf(run).id,
           NEW pc \in MintSteps, NEW before,
           NEW next, next = Having(run, pc, run.detections, Append(run.records, c), before)
    PROVE  /\ IsMintRun(next) /\ Behind(next) /\ next.pc = pc
           /\ UnitOf(next) = UnitOf(run) /\ next.did = run.did
           /\ (/\ \/ /\ run.pc = "infer" /\ before = Len(run.records)
                     /\ c.ok /\ c.template = FieldsCall
                  \/ run.pc = "classify" /\ before = run.before
               /\ pc \in {"classify", "write"})
              => CallsInv(next)
  <1>. DEFINE more == Append(run.records, c)
              n == Len(run.records)
              id == UnitOf(run).id
  <1>1. /\ run.records \in Seq(CallRecords)
        /\ run.detections = [s \in Sources |-> run.detections[s]]
        /\ \A s \in Sources :
              run.detections[s] = [done |-> run.detections[s].done,
                                   confident |-> run.detections[s].confident,
                                   templates |-> run.detections[s].templates]
    BY DEF IsMintRun
  <1>2. /\ more \in Seq(CallRecords) /\ n \in Nat
        /\ \A i \in DOMAIN run.records : more[i] = run.records[i]
        /\ more[n + 1] = c
        /\ DOMAIN run.records = 1..n /\ DOMAIN more = 1..(n + 1)
        /\ \A a : About(more, a) =
                     About(run.records, a) \cup (IF c.ok /\ c.about = a THEN {c.template} ELSE {})
    BY <1>1, OneMoreCall
  <1>. HIDE DEF more, n
  <1>3. next = Having(run, pc, run.detections, more, before)
    BY DEF more
  <1>4. /\ IsMintRun(next)
        /\ next.pc = pc /\ next.units = run.units /\ next.did = run.did /\ next.at = run.at
        /\ next.detections = run.detections /\ next.records = more /\ next.before = before
        /\ UnitOf(next) = UnitOf(run)
    BY <1>1, <1>2, <1>3, HavingFacts
  <1>5. /\ run.at \in DOMAIN run.units /\ run.units[run.at].id = id
        /\ \A i, j \in DOMAIN run.units : run.units[i].id = run.units[j].id => i = j
        /\ \A j \in DOMAIN run.units : run.units[j].id \notin Sources /\ j \in Nat
        /\ run.at \in Nat
    BY UnitFacts DEF UnitOf, IsMintRun
  <1>6. \A s \in Sources : s # id
    BY <1>5
  <1>7. \A s \in Sources : About(more, s) = About(run.records, s)
    BY <1>2, <1>6
  <1>8. \A i \in DOMAIN more : i \in DOMAIN run.records \/ i = n + 1
    BY <1>2
  <1>9. Behind(next)
    <2>1. ASSUME NEW i \in DOMAIN more, NEW j \in DOMAIN run.units, more[i].about = run.units[j].id
          PROVE  j <= run.at
      <3>1. CASE i \in DOMAIN run.records
        BY <1>2, <1>5, <2>1, <3>1, CallsAreBehind DEF Behind
      <3>2. CASE i = n + 1
        BY <1>2, <1>5, <2>1, <3>2
      <3>. QED  BY <1>8, <3>1, <3>2
    <2>2. \A s \in Sources :
             /\ run.detections[s].templates = About(more, s)
             /\ ~run.detections[s].done => About(more, s) = {}
      BY <1>7 DEF CallsInv
    <2>. QED  BY <1>4, <2>1, <2>2 DEF Behind
  <1>10. ASSUME \/ /\ run.pc = "infer" /\ before = Len(run.records)
                   /\ c.ok /\ c.template = FieldsCall
                \/ run.pc = "classify" /\ before = run.before,
                pc \in {"classify", "write"}
         PROVE  CallsInv(next)
    <2>1. pc \notin Uncalled
      BY <1>10 DEF Uncalled
    <2>2. \A i \in DOMAIN more, j \in DOMAIN run.units :
             more[i].about = run.units[j].id => j < run.at \/ (j = run.at /\ pc \notin Uncalled)
      BY <1>4, <1>5, <1>9, <2>1 DEF Behind
    <2>3. /\ before \in Nat
          /\ \A i \in DOMAIN more : i > before <=> more[i].about = id
          /\ FieldsCall \in About(more, id)
      <3>1. CASE run.pc = "infer" /\ before = n /\ c.ok /\ c.template = FieldsCall
        <4>1. \A i \in DOMAIN run.records : run.records[i].about # id
          BY <1>5, <3>1 DEF CallsInv, Uncalled
        <4>2. \A i \in DOMAIN more : i > n <=> i = n + 1
          BY <1>2
        <4>3. \A i \in DOMAIN more : i > n <=> more[i].about = id
          BY <1>2, <1>8, <4>1, <4>2
        <4>. QED  BY <1>2, <3>1, <4>3
      <3>2. CASE run.pc = "classify" /\ before = run.before
        <4>1. /\ before \in Nat
              /\ \A i \in DOMAIN run.records : i > before <=> run.records[i].about = id
              /\ FieldsCall \in About(run.records, id)
          BY <1>5, <3>2 DEF CallsInv
        <4>2. PICK k \in DOMAIN run.records : run.records[k].about = id
          BY <4>1 DEF About
        <4>3. n + 1 > before
          BY <1>2, <4>1, <4>2
        <4>4. \A i \in DOMAIN more : i > before <=> more[i].about = id
          BY <1>2, <1>8, <4>1, <4>3
        <4>. QED  BY <1>2, <4>1, <4>4
      <3>. QED  BY <1>10, <3>1, <3>2 DEF n
    <2>4. \A s \in Sources : /\ run.detections[s].templates = About(more, s)
                             /\ ~run.detections[s].done => About(more, s) = {}
      BY <1>7 DEF CallsInv
    <2>. QED  BY <1>4, <1>5, <2>2, <2>3, <2>4 DEF CallsInv
  <1>. QED  BY <1>4, <1>9, <1>10

LEMMA RecordsShape ==
    ASSUME NEW run, IsMintRun(run), NEW records
    PROVE  [run EXCEPT !.records = records]
              = Having(run, run.pc, run.detections, records, run.before)
  <1>1. run = [pc |-> run.pc, units |-> run.units, did |-> run.did, signed |-> run.signed,
               at |-> run.at, seen |-> run.seen, halted |-> run.halted,
               detections |-> run.detections, records |-> run.records, before |-> run.before]
    BY DEF IsMintRun
  <1>. QED  BY <1>1 DEF Having

LEMMA CallIsRecord ==
    ASSUME NEW template \in {FieldsCall, DetectCall, BfoCall}, NEW ok \in BOOLEAN,
           NEW about \in Sources \cup {u.id : u \in MintUnits}
    PROVE  /\ Call(template, about, ok) \in CallRecords
           /\ Call(template, about, ok).ok = ok /\ Call(template, about, ok).about = about
           /\ Call(template, about, ok).template = template
  BY MintAssumption DEF Call, CallRecords

LEMMA InferKeeps ==
    ASSUME MintInv, NEW m \in Mints, Infer(m)
    PROVE  MintInv'
  <1>. DEFINE now == mint[m]
              u == UnitOf(now)
              n == Len(now.records)
              Made(ok) == Append(now.records, Call(FieldsCall, u.id, ok))
              Called(ok) == Having(now, now.pc, now.detections, Made(ok), n)
              on == Having(now, "classify", now.detections, Made(TRUE), n)
  <1>1. now.pc = "infer" /\ UNCHANGED <<minted, attested>>
    BY DEF Infer, MintAt
  <1>2. Ready(now) /\ IsMintRun(now) /\ CallsInv(now) /\ Unit(m) = u
    BY <1>1, MintAtFacts DEF Ready
  <1>3. \/ \E ok \in BOOLEAN : mint' = [mint EXCEPT ![m] = NextUnit(Called(ok))]
        \/ mint' = [mint EXCEPT ![m] = on]
    <2>. DEFINE run == [mint[m] EXCEPT !.before = Len(mint[m].records)]
                Records(ok) == Append(run.records, Call(FieldsCall, Unit(m).id, ok))
    <2>0. run = [now EXCEPT !.before = n]
      OBVIOUS
    <2>1. run = Having(now, now.pc, now.detections, now.records, n) /\ run.records = now.records
      <3>1. now = [pc |-> now.pc, units |-> now.units, did |-> now.did, signed |-> now.signed,
                   at |-> now.at, seen |-> now.seen, halted |-> now.halted,
                   detections |-> now.detections, records |-> now.records, before |-> now.before]
        BY <1>2 DEF IsMintRun
      <3>. HIDE DEF run, n, now
      <3>. QED  BY <2>0, <3>1 DEF Having
    <2>2. \/ \E ok \in BOOLEAN :
                mint' = [mint EXCEPT ![m] = NextUnit([run EXCEPT !.records = Records(ok)])]
          \/ mint' = [mint EXCEPT ![m] =
                         [[run EXCEPT !.records = Records(TRUE)] EXCEPT !.pc = "classify"]]
      BY DEF Infer, Set
    <2>. HIDE DEF run
    <2>3. \A ok : Records(ok) = Made(ok)
      BY <1>2, <2>1
    <2>. HIDE DEF Records, Made, n, u
    <2>4. ASSUME NEW ok
          PROVE  [run EXCEPT !.records = Records(ok)] = Called(ok)
      <3>. DEFINE records == Records(ok)
      <3>1. Called(ok) = Having(now, now.pc, now.detections, records, n)
        BY <2>3
      <3>. HIDE DEF records, Called
      <3>2. [Having(now, now.pc, now.detections, now.records, n) EXCEPT !.records = records]
               = Having(now, now.pc, now.detections, records, n)
        BY DEF Having
      <3>. QED  BY <2>1, <3>1, <3>2 DEF records
    <2>5. [Called(TRUE) EXCEPT !.pc = "classify"] = on
      <3>. DEFINE records == Made(TRUE)
                  pc == "classify"
      <3>. HIDE DEF records, pc
      <3>1. [Having(now, now.pc, now.detections, records, n) EXCEPT !.pc = pc]
               = Having(now, pc, now.detections, records, n)
        BY DEF Having
      <3>. QED  BY <3>1 DEF records, pc
    <2>. HIDE DEF Called, on
    <2>. QED  BY <2>2, <2>4, <2>5
  <1>4. now.pc \in MintSteps /\ "classify" \in MintSteps
    BY <1>1 DEF MintSteps
  <1>5. u.id \in Sources \cup {v.id : v \in MintUnits}
    BY <1>2, UnitFacts
  <1>6. CASE \E ok \in BOOLEAN : mint' = [mint EXCEPT ![m] = NextUnit(Called(ok))]
    <2>1. PICK ok \in BOOLEAN : mint' = [mint EXCEPT ![m] = NextUnit(Called(ok))]
      BY <1>6
    <2>. DEFINE c == Call(FieldsCall, u.id, ok)
                next == Called(ok)
    <2>2. c \in CallRecords /\ c.about = u.id
      BY <1>5, CallIsRecord
    <2>3. next = Having(now, now.pc, now.detections, Append(now.records, c), n)
      OBVIOUS
    <2>. HIDE DEF next, c, n, Called
    <2>4. IsMintRun(next) /\ Behind(next)
      <3>. DEFINE run == now
                  pc == now.pc
      <3>1. /\ IsMintRun(run) /\ CallsInv(run) /\ pc \in MintSteps
            /\ c \in CallRecords /\ c.about = UnitOf(run).id
        BY <1>2, <1>4, <2>2
      <3>2. next = Having(run, pc, run.detections, Append(run.records, c), n)
        BY <2>3
      <3>. HIDE DEF run, pc
      <3>. QED  BY <3>1, <3>2, UnitsCall
    <2>5. mint' = [mint EXCEPT ![m] = NextUnit(next)]
      BY <2>1 DEF next
    <2>. QED  BY <1>1, <2>4, <2>5, NextUnitReady, RunMoves
  <1>7. CASE mint' = [mint EXCEPT ![m] = on]
    <2>. DEFINE c == Call(FieldsCall, u.id, TRUE)
    <2>1. c \in CallRecords /\ c.about = u.id /\ c.ok /\ c.template = FieldsCall
      BY <1>5, CallIsRecord
    <2>2. on = Having(now, "classify", now.detections, Append(now.records, c), n)
      OBVIOUS
    <2>. HIDE DEF c, on
    <2>3. IsMintRun(on) /\ CallsInv(on) /\ on.pc = "classify"
      BY <1>1, <1>2, <1>4, <2>1, <2>2, UnitsCall
    <2>4. Ready(on)
      BY <2>3 DEF Ready, PlaceInv
    <2>. QED  BY <1>1, <1>7, <2>4, RunMoves
  <1>. QED  BY <1>3, <1>6, <1>7

LEMMA ClassifyKeeps ==
    ASSUME MintInv, NEW m \in Mints, Classify(m)
    PROVE  MintInv'
  <1>. DEFINE now == mint[m]
              u == UnitOf(now)
              Made(ok) == Append(now.records, Call(BfoCall, u.id, ok))
              Called(ok) == Having(now, now.pc, now.detections, Made(ok), now.before)
              on == Having(now, "write", now.detections, Made(TRUE), now.before)
  <1>1. now.pc = "classify" /\ UNCHANGED <<minted, attested>>
    BY DEF Classify, MintAt
  <1>2. Ready(now) /\ IsMintRun(now) /\ CallsInv(now) /\ Behind(now) /\ Unit(m) = u
    BY <1>1, MintAtFacts DEF Ready
  <1>3. \/ \E ok \in BOOLEAN : mint' = [mint EXCEPT ![m] = NextUnit(Called(ok))]
        \/ mint' = [mint EXCEPT ![m] = NextUnit(now)]
        \/ mint' = [mint EXCEPT ![m] = on]
        \/ mint' = [mint EXCEPT ![m] = [now EXCEPT !.pc = "write"]]
    <2>. DEFINE Records(ok) == Append(now.records, Call(BfoCall, Unit(m).id, ok))
    <2>1. \/ \E ok \in BOOLEAN :
                mint' = [mint EXCEPT ![m] = NextUnit([now EXCEPT !.records = Records(ok)])]
          \/ mint' = [mint EXCEPT ![m] = NextUnit(now)]
          \/ mint' = [mint EXCEPT ![m] =
                         [[now EXCEPT !.records = Records(TRUE)] EXCEPT !.pc = "write"]]
          \/ mint' = [mint EXCEPT ![m] = [now EXCEPT !.pc = "write"]]
      BY DEF Classify, Set
    <2>2. \A ok : Records(ok) = Made(ok)
      BY <1>2
    <2>. HIDE DEF Records, Made, u
    <2>3. \A ok : [now EXCEPT !.records = Records(ok)] = Called(ok)
      BY <1>2, <2>2, RecordsShape
    <2>4. [Called(TRUE) EXCEPT !.pc = "write"] = on
      <3>. DEFINE records == Made(TRUE)
                  pc == "write"
                  before == now.before
      <3>. HIDE DEF records, pc, before
      <3>1. [Having(now, now.pc, now.detections, records, before) EXCEPT !.pc = pc]
               = Having(now, pc, now.detections, records, before)
        BY DEF Having
      <3>. QED  BY <3>1 DEF records, pc, before
    <2>. HIDE DEF Called, on
    <2>. QED  BY <2>1, <2>3, <2>4
  <1>4. now.pc \in MintSteps /\ "write" \in MintSteps /\ "write" \notin Uncalled
    BY <1>1 DEF MintSteps, Uncalled
  <1>5. u.id \in Sources \cup {v.id : v \in MintUnits}
    BY <1>2, UnitFacts
  <1>6. CASE \E ok \in BOOLEAN : mint' = [mint EXCEPT ![m] = NextUnit(Called(ok))]
    <2>1. PICK ok \in BOOLEAN : mint' = [mint EXCEPT ![m] = NextUnit(Called(ok))]
      BY <1>6
    <2>. DEFINE c == Call(BfoCall, u.id, ok)
                next == Called(ok)
    <2>2. c \in CallRecords /\ c.about = u.id
      BY <1>5, CallIsRecord
    <2>3. next = Having(now, now.pc, now.detections, Append(now.records, c), now.before)
      OBVIOUS
    <2>. HIDE DEF next, c, Called
    <2>4. IsMintRun(next) /\ Behind(next)
      <3>. DEFINE run == now
                  pc == now.pc
                  before == now.before
      <3>1. /\ IsMintRun(run) /\ CallsInv(run) /\ pc \in MintSteps
            /\ c \in CallRecords /\ c.about = UnitOf(run).id
        BY <1>2, <1>4, <2>2
      <3>2. next = Having(run, pc, run.detections, Append(run.records, c), before)
        BY <2>3
      <3>. HIDE DEF run, pc, before
      <3>. QED  BY <3>1, <3>2, UnitsCall
    <2>5. mint' = [mint EXCEPT ![m] = NextUnit(next)]
      BY <2>1 DEF next
    <2>. QED  BY <1>1, <2>4, <2>5, NextUnitReady, RunMoves
  <1>7. CASE mint' = [mint EXCEPT ![m] = NextUnit(now)]
    BY <1>1, <1>2, <1>7, NextUnitReady, RunMoves
  <1>8. CASE mint' = [mint EXCEPT ![m] = on]
    <2>. DEFINE c == Call(BfoCall, u.id, TRUE)
    <2>1. c \in CallRecords /\ c.about = u.id
      BY <1>5, CallIsRecord
    <2>. DEFINE pc == "write"
                before == now.before
    <2>2. on = Having(now, pc, now.detections, Append(now.records, c), before)
      OBVIOUS
    <2>3. pc \in MintSteps /\ pc \in {"classify", "write"} /\ before = now.before
      BY <1>4
    <2>. HIDE DEF c, on, pc, before
    <2>4. IsMintRun(on) /\ CallsInv(on) /\ on.pc = pc
      <3>. HIDE DEF now
      <3>1. now.pc = "classify" /\ before = now.before
        BY <1>1, <2>3
      <3>2. pc \in MintSteps
        BY <2>3
      <3>4. IsMintRun(on) /\ on.pc = pc
        BY <1>2, <2>1, <2>2, <3>2, UnitsCall
      <3>3. CallsInv(on)
        BY <1>2, <2>1, <2>2, <2>3, <3>1, UnitsCall
      <3>. QED  BY <3>3, <3>4
    <2>5. pc = "write"
      BY DEF pc
    <2>6. Ready(on)
      BY <2>4, <2>5 DEF Ready, PlaceInv
    <2>. QED  BY <1>1, <1>8, <2>6, RunMoves
  <1>9. CASE mint' = [mint EXCEPT ![m] = [now EXCEPT !.pc = "write"]]
    <2>1. Ready([now EXCEPT !.pc = "write"])
      BY <1>1, <1>2, <1>4, MoveReady
    <2>. QED  BY <1>1, <1>9, <2>1, RunMoves
  <1>. QED  BY <1>3, <1>6, <1>7, <1>8, <1>9

\* The detection of the source of the unit at hand: by no call or by one.
LEMMA DetectKeeps ==
    ASSUME MintInv, NEW m \in Mints, Detect(m)
    PROVE  MintInv'
  <1>. DEFINE now == mint[m]
              u == UnitOf(now)
              s0 == u.source
              Found(calls, confident) ==
                  [done |-> TRUE, confident |-> confident, templates |-> OkTemplates(calls)]
              After(calls, confident) ==
                  [now EXCEPT !.records = @ \o calls, !.detections[s0] = Found(calls, confident)]
              Calls == {<<>>, <<Call(DetectCall, s0, TRUE)>>, <<Call(DetectCall, s0, FALSE)>>}
  <1>1. now.pc = "detect" /\ UNCHANGED <<minted, attested>>
    BY DEF Detect, MintAt
  <1>2. Ready(now) /\ IsMintRun(now) /\ CallsInv(now) /\ Behind(now) /\ Unit(m) = u
    BY <1>1, MintAtFacts DEF Ready
  <1>3. \/ mint' = [mint EXCEPT ![m] = [now EXCEPT !.pc = "infer"]]
        \/ mint' = [mint EXCEPT ![m] = NextUnit(now)]
        \/ /\ ~now.detections[s0].done
           /\ \E calls \in Calls, confident \in BOOLEAN :
                 mint' = [mint EXCEPT ![m] = After(calls, confident)]
    BY <1>2 DEF Detect, Set
  <1>4. CASE mint' = [mint EXCEPT ![m] = [now EXCEPT !.pc = "infer"]]
    <2>1. "infer" \in MintSteps /\ now.pc \in Uncalled
      BY <1>1 DEF MintSteps, Uncalled
    <2>2. Ready([now EXCEPT !.pc = "infer"])
      BY <1>2, <2>1, MoveReady
    <2>. QED  BY <1>1, <1>4, <2>2, RunMoves
  <1>5. CASE mint' = [mint EXCEPT ![m] = NextUnit(now)]
    BY <1>1, <1>2, <1>5, NextUnitReady, RunMoves
  <1>6. ASSUME ~now.detections[s0].done, NEW calls \in Calls, NEW confident \in BOOLEAN,
               mint' = [mint EXCEPT ![m] = After(calls, confident)]
        PROVE  MintInv'
    <2>. DEFINE records == now.records \o calls
                found == Found(calls, confident)
                detections == [now.detections EXCEPT ![s0] = found]
                next == After(calls, confident)
    <2>1. s0 \in Sources /\ now.pc \in MintSteps
      BY <1>1, <1>2, UnitFacts DEF MintSteps
    <2>2. /\ now = [pc |-> now.pc, units |-> now.units, did |-> now.did, signed |-> now.signed,
                    at |-> now.at, seen |-> now.seen, halted |-> now.halted,
                    detections |-> now.detections, records |-> now.records,
                    before |-> now.before]
          /\ now.records \in Seq(CallRecords)
      BY <1>2 DEF IsMintRun
    <2>3. next = Having(now, now.pc, detections, records, now.before)
      <3>1. next = [now EXCEPT !.records = now.records \o calls,
                               !.detections = [now.detections EXCEPT ![s0] = found]]
        OBVIOUS
      <3>2. next = [now EXCEPT !.records = records, !.detections = detections]
        BY <3>1
      <3>. HIDE DEF next, records, detections, found, s0, now
      <3>. QED  BY <2>2, <3>2 DEF Having
    <2>4. \/ /\ records = now.records /\ found.templates = {}
          \/ \E c \in CallRecords :
                /\ records = Append(now.records, c) /\ c.about = s0
                /\ found.templates = IF c.ok THEN {c.template} ELSE {}
      <3>1. CASE calls = <<>>
        <4>1. OkTemplates(<<>>) = {}
          BY DEF OkTemplates
        <4>. QED  BY <2>2, <3>1, <4>1
      <3>2. ASSUME NEW ok \in BOOLEAN, calls = <<Call(DetectCall, s0, ok)>>
            PROVE  \E c \in CallRecords :
                      /\ records = Append(now.records, c) /\ c.about = s0
                      /\ found.templates = IF c.ok THEN {c.template} ELSE {}
        <4>. DEFINE c == Call(DetectCall, s0, ok)
        <4>1. c \in CallRecords /\ c.about = s0
          BY <2>1, CallIsRecord
        <4>. HIDE DEF c
        <4>2. /\ calls = <<c>> /\ DOMAIN calls = {1} /\ calls[1] = c
          BY <3>2 DEF c
        <4>3. records = Append(now.records, c)
          BY <2>2, <4>1, <4>2
        <4>4. OkTemplates(calls) = IF c.ok THEN {c.template} ELSE {}
          BY <4>2 DEF OkTemplates
        <4>. QED  BY <4>1, <4>3, <4>4
      <3>. QED  BY <3>1, <3>2
    <2>. DEFINE SourceCalled ==
                    /\ records \in Seq(CallRecords)
                    /\ \A i \in DOMAIN records :
                          \/ i \in DOMAIN now.records /\ records[i] = now.records[i]
                          \/ records[i].about = s0
                    /\ \A a : a # s0 => About(records, a) = About(now.records, a)
                    /\ About(records, s0) = found.templates
    <2>5. SourceCalled
      <3>1. About(now.records, s0) = {}
        BY <1>2, <1>6, <2>1 DEF CallsInv
      <3>2. CASE records = now.records /\ found.templates = {}
        BY <2>2, <3>1, <3>2
      <3>3. ASSUME NEW c \in CallRecords, records = Append(now.records, c), c.about = s0,
                   found.templates = IF c.ok THEN {c.template} ELSE {}
            PROVE  SourceCalled
        <4>. DEFINE n == Len(now.records)
                    old == now.records
        <4>. HIDE DEF records, found, s0, old
        <4>0. old \in Seq(CallRecords) /\ records = Append(old, c)
          BY <2>2, <3>3 DEF old
        <4>1. /\ records \in Seq(CallRecords)
              /\ \A i \in DOMAIN old : records[i] = old[i]
              /\ records[Len(old) + 1] = c
              /\ DOMAIN old = 1..Len(old) /\ Len(old) \in Nat
              /\ DOMAIN records = 1..(Len(old) + 1)
              /\ \A a : About(records, a) =
                           About(old, a) \cup (IF c.ok /\ c.about = a THEN {c.template} ELSE {})
          BY <4>0, OneMoreCall
        <4>2. \A i \in DOMAIN records : i \in DOMAIN old \/ i = Len(old) + 1
          BY <4>1
        <4>3. \A i \in DOMAIN records :
                 \/ i \in DOMAIN old /\ records[i] = old[i]
                 \/ records[i].about = s0
          BY <3>3, <4>1, <4>2
        <4>4. \A a : a # s0 => About(records, a) = About(old, a)
          BY <3>3, <4>1
        <4>5. About(records, s0) = found.templates
          BY <3>1, <3>3, <4>1 DEF old
        <4>. QED  BY <4>1, <4>3, <4>4, <4>5 DEF old
      <3>. HIDE DEF SourceCalled, records, found, s0
      <3>. QED  BY <2>4, <3>2, <3>3
    <2>6. /\ detections = [s \in Sources |-> detections[s]]
          /\ detections[s0] = found /\ found.done
          /\ \A s \in Sources \ {s0} : detections[s] = now.detections[s]
      BY <1>2, <2>1 DEF IsMintRun
    <2>7. \A s \in Sources :
             detections[s] = [done |-> detections[s].done,
                              confident |-> detections[s].confident,
                              templates |-> detections[s].templates]
      <3>1. found = [done |-> found.done, confident |-> found.confident,
                     templates |-> found.templates]
        OBVIOUS
      <3>. HIDE DEF detections, found, s0
      <3>. QED  BY <1>2, <2>6, <3>1 DEF IsMintRun
    <2>. HIDE DEF next, records, detections, found, s0
    <2>8. /\ IsMintRun(next)
          /\ next.pc = now.pc /\ next.units = now.units /\ next.did = now.did /\ next.at = now.at
          /\ next.detections = detections /\ next.records = records /\ next.before = now.before
      <3>1. records \in Seq(CallRecords) /\ detections = [s \in Sources |-> detections[s]]
        BY <2>5, <2>6
      <3>. QED  BY <1>2, <2>1, <2>3, <2>7, <3>1, HavingFacts
    <2>9. \A j \in DOMAIN now.units : now.units[j].id # s0
      BY <1>2, <2>1, UnitFacts
    <2>10. \A i \in DOMAIN records, j \in DOMAIN now.units :
              records[i].about = now.units[j].id =>
                 j < now.at \/ (j = now.at /\ now.pc \notin Uncalled)
      BY <1>2, <2>5, <2>9 DEF CallsInv
    <2>11. \A s \in Sources : /\ detections[s].templates = About(records, s)
                              /\ ~detections[s].done => About(records, s) = {}
      BY <1>2, <2>5, <2>6 DEF CallsInv
    <2>12. CallsInv(next)
      BY <1>1, <2>8, <2>10, <2>11 DEF CallsInv
    <2>13. Ready(next)
      BY <1>1, <2>8, <2>12 DEF Ready, PlaceInv
    <2>. QED  BY <1>1, <1>6, <2>13, RunMoves DEF next
  <1>. QED  BY <1>3, <1>4, <1>5, <1>6

LEMMA WriteKeeps ==
    ASSUME MintInv, NEW m \in Mints, WriteShard(m)
    PROVE  MintInv'
  <1>. DEFINE now == mint[m]
              u == UnitOf(now)
              k == Iri(u)
              calls == {now.records[i] : i \in DOMAIN now.records}
              prompt == PromptHash(now, u)
              shard == [unit |-> u, extractor |-> now.did, signed |-> now.signed, by |-> m,
                        prompt |-> prompt, calls |-> calls]
  <1>1. now.pc = "write" /\ UNCHANGED attested
    BY DEF WriteShard, MintAt
  <1>2. Ready(now) /\ IsMintRun(now) /\ CallsInv(now) /\ Behind(now) /\ Unit(m) = u
    BY <1>1, MintAtFacts DEF Ready
  <1>3. \/ /\ minted[k] = NoMint /\ minted' = [minted EXCEPT ![k] = shard]
           /\ mint' = [mint EXCEPT ![m] = [now EXCEPT !.pc = "attest"]]
        \/ mint' = [mint EXCEPT ![m] = NextUnit(now)] /\ UNCHANGED minted
    BY <1>2 DEF WriteShard, Storable, Set
  <1>4. CASE mint' = [mint EXCEPT ![m] = NextUnit(now)] /\ UNCHANGED minted
    BY <1>1, <1>2, <1>4, NextUnitReady, RunMoves
  <1>5. ASSUME minted[k] = NoMint, minted' = [minted EXCEPT ![k] = shard],
               mint' = [mint EXCEPT ![m] = [now EXCEPT !.pc = "attest"]]
        PROVE  MintInv'
    <2>1. /\ u \in MintUnits /\ k \in MintIris /\ u.source \in Sources
          /\ now.records \in Seq(CallRecords) /\ now.did \in Signers /\ now.signed \in BOOLEAN
          /\ now.at \in DOMAIN now.units /\ u.id \notin Sources
      BY <1>2, UnitFacts DEF IsMintRun, UnitOf
    <2>2. /\ now.before \in Nat
          /\ \A i \in DOMAIN now.records : i > now.before <=> now.records[i].about = u.id
          /\ FieldsCall \in About(now.records, u.id)
      BY <1>1, <1>2 DEF CallsInv, UnitOf
    <2>3. prompt = u.lineage \cup About(now.records, u.source) \cup About(now.records, u.id)
      <3>1. DOMAIN now.records = 1..Len(now.records) /\ Len(now.records) \in Nat
        BY <1>2, UnitFacts
      <3>2. now.before <= Len(now.records)
        <4>1. PICK i \in DOMAIN now.records : now.records[i].about = u.id
          BY <2>2 DEF About
        <4>. QED  BY <2>2, <3>1, <4>1
      <3>3. OkTemplates(SubSeq(now.records, now.before + 1, Len(now.records)))
               = {now.records[i].template :
                    i \in {j \in DOMAIN now.records : now.records[j].ok /\ j > now.before}}
        BY <2>1, <2>2, <3>2, OkFrom
      <3>4. OkTemplates(SubSeq(now.records, now.before + 1, Len(now.records)))
               = About(now.records, u.id)
        BY <2>2, <3>3 DEF About
      <3>5. now.detections[u.source].templates = About(now.records, u.source)
        BY <1>2, <2>1 DEF CallsInv
      <3>. QED  BY <2>2, <3>4, <3>5 DEF PromptHash
    <2>4. calls \subseteq CallRecords
      BY <2>1
    <2>5. prompt \subseteq Templates \cup UNION {v.lineage : v \in MintUnits}
      <3>1. \A a : About(now.records, a) \subseteq Templates
        <4>1. \A i \in DOMAIN now.records : now.records[i] \in CallRecords
          BY <2>1
        <4>2. \A c \in CallRecords : c.template \in Templates
          BY DEF CallRecords
        <4>. QED  BY <4>1, <4>2 DEF About
      <3>. HIDE DEF prompt, u
      <3>. QED  BY <2>1, <2>3, <3>1
    <2>6. prompt = u.lineage \cup
                     {c.template : c \in {d \in calls : d.ok /\ d.about \in {u.id, u.source}}}
      <3>. HIDE DEF prompt, u
      <3>. QED  BY <2>3 DEF About
    <2>7. shard \in MintedShards
      <3>. HIDE DEF prompt, calls, u, now
      <3>. QED  BY <2>1, <2>4, <2>5 DEF MintedShards
    <2>8. /\ shard.unit = u /\ shard.prompt = prompt /\ shard.calls = calls
          /\ shard.extractor = now.did
      OBVIOUS
    <2>. HIDE DEF shard, prompt, calls, u, k
    <2>9. IsWhole(shard) /\ shard # NoMint
      BY <2>6, <2>7, <2>8, ExtractionsAssumption DEF IsWhole
    <2>10. /\ minted' = [i \in MintIris |-> minted'[i]] /\ minted'[k] = shard
           /\ \A i \in MintIris \ {k} : minted'[i] = minted[i]
      BY <1>5, <2>1 DEF MintInv, ShardsInv
    <2>11. ShardsInv'
      BY <2>7, <2>9, <2>10 DEF MintInv, ShardsInv, IsWhole
    <2>12. EventsInv'
      BY <1>1, <1>5, <2>1, <2>10 DEF MintInv, EventsInv, EventOf
    <2>. DEFINE next == [now EXCEPT !.pc = "attest"]
    <2>13. IsMintRun(next) /\ CallsInv(next) /\ next.pc = "attest" /\ UnitOf(next) = u
           /\ next.did = now.did
      <3>. DEFINE pc == "attest"
      <3>1. pc \in MintSteps /\ pc \notin Uncalled /\ pc \notin {"classify", "write"}
        BY DEF MintSteps, Uncalled
      <3>2. next = [now EXCEPT !.pc = pc]
        OBVIOUS
      <3>. HIDE DEF next, pc
      <3>3. next = MovedOn(now, pc, now.seen, now.halted)
        BY <1>2, <3>2, Moves
      <3>4. IsMintRun(next) /\ CallsInv(next) /\ next.pc = pc /\ UnitOf(next) = UnitOf(now)
            /\ next.did = now.did
        BY <1>2, <3>1, <3>3, MovedOnKeeps
      <3>. QED  BY <3>4 DEF pc, u
    <2>. HIDE DEF next
    <2>14. mint' = [q \in Mints |-> mint'[q]] /\ mint'[m] = next
           /\ \A q \in Mints \ {m} : mint'[q] = mint[q]
      BY <1>5 DEF MintInv, next
    <2>15. ASSUME NEW run, IsMintRun(run), PlaceInv(run)
           PROVE  PlaceInv(run)'
      <3>1. Iri(UnitOf(run)) \in MintIris
        BY <2>15, UnitFacts
      <3>2. minted[Iri(UnitOf(run))] # NoMint =>
               minted'[Iri(UnitOf(run))] = minted[Iri(UnitOf(run))]
        BY <1>5, <2>10, <3>1
      <3>. QED  BY <2>15, <3>2 DEF PlaceInv
    <2>16. ASSUME NEW run, run = next
           PROVE  PlaceInv(run)'
      <3>1. run.pc = "attest" /\ Iri(UnitOf(run)) = k /\ run.did = now.did
        BY <2>13, <2>16 DEF k
      <3>2. minted'[Iri(UnitOf(run))] = shard
        BY <2>10, <3>1
      <3>. QED  BY <2>8, <2>9, <3>1, <3>2 DEF PlaceInv
    <2>17. ASSUME NEW q \in Mints
           PROVE  mint'[q] = NoRunYet \/
                     (IsMintRun(mint'[q]) /\ CallsInv(mint'[q]) /\ PlaceInv(mint[q])')
      <3>1. CASE q = m
        BY <2>13, <2>14, <2>16, <3>1 DEF PlaceInv
      <3>2. CASE q # m
        BY <2>14, <2>15, <3>2 DEF MintInv, PlaceInv
      <3>. QED  BY <3>1, <3>2
    <2>. QED  BY <2>11, <2>12, <2>14, <2>17 DEF MintInv
  <1>. QED  BY <1>3, <1>4, <1>5

-----------------------------------------------------------------------------
LEMMA MintInit ==
    ASSUME InitMint
    PROVE  MintInv
  BY DEF InitMint, MintInv, ShardsInv, EventsInv

\* Whatever overlaps, stops, is run again or loses its role, every run knows which of its
\* calls were about what, and every shard and event is what it says it is.
THEOREM MintInductive == MintSpec => []MintInv
  <1>1. InitMint => MintInv
    BY MintInit
  <1>2. MintInv /\ [NextMint]_mintVars => MintInv'
    <2>. SUFFICES ASSUME MintInv, [NextMint]_mintVars PROVE MintInv'
      OBVIOUS
    <2>1. ASSUME NEW m \in Mints, MintStep(m)
          PROVE  MintInv'
      BY <2>1, BeginMintKeeps, EvaluateKeeps, DetectKeeps, HaltKeeps, InferKeeps, ClassifyKeeps,
         WriteKeeps, FindPresentKeeps, AttestKeeps, AppendKeeps, StopKeeps DEF MintStep
    <2>2. CASE UNCHANGED mintVars
      BY <2>2 DEF mintVars, MintInv, ShardsInv, EventsInv, EventOf, PlaceInv
    <2>. QED  BY <2>1, <2>2, RoleKeeps DEF NextMint
  <1>. QED  BY <1>1, <1>2, PTL DEF MintSpec

\* A shard has at most one ExtractEvent: by the extractor it names, of the run that wrote it.
THEOREM EventAttests == MintSpec => []EventAttestsShard
  <1>1. MintInv => EventAttestsShard
    <2>. SUFFICES ASSUME MintInv, NEW i \in MintIris
                  PROVE  /\ Len(attested[i]) <= 1
                         /\ attested[i] # <<>> =>
                               /\ minted[i] # NoMint
                               /\ attested[i][1].signer = minted[i].extractor
                               /\ attested[i][1].model = minted[i].by
      BY DEF EventAttestsShard
    <2>1. CASE attested[i] = <<>>
      BY <2>1
    <2>2. CASE attested[i] # <<>>
      <3>1. minted[i] # NoMint /\ attested[i] = <<EventOf(i)>>
        BY <2>2 DEF MintInv, EventsInv
      <3>2. Len(attested[i]) = 1 /\ attested[i][1] = EventOf(i)
        BY <3>1
      <3>. QED  BY <3>1, <3>2 DEF EventOf
    <2>. QED  BY <2>1, <2>2
  <1>. QED  BY <1>1, MintInductive, PTL

\* The prompt hash of a shard covers its lineage, its own calls and the detection of its
\* source, and nothing else.
THEOREM PromptsWhole == MintSpec => []PromptsAreWhole
  <1>1. MintInv => PromptsAreWhole
    BY DEF MintInv, ShardsInv, IsWhole, PromptsAreWhole
  <1>. QED  BY <1>1, MintInductive, PTL

-----------------------------------------------------------------------------
(* Exports and dumps: a moment of a corpus.                                     *)

JournalRows == [shard : ExportShards \cup {Event}, bad : BOOLEAN]

\* A position of a journal; what it says up to there stays.
Known(c, w) == c \in ExportCorpora /\ w \in 0..Len(rows[c])

RowsInv ==
    /\ rows = [c \in ExportCorpora |-> rows[c]]
    /\ checked = [c \in ExportCorpora |-> checked[c]]
    /\ \A c \in ExportCorpora :
          /\ rows[c] \in Seq(JournalRows)
          /\ Known(c, checked[c].position)
          /\ checked[c].state = Verdict(Upto(c, checked[c].position))

IsData(d) ==
    d = [corpus |-> d.corpus, watermark |-> d.watermark, abox |-> d.abox, gov |-> d.gov,
         records |-> d.records, signedEvents |-> d.signedEvents, full_shacl |-> d.full_shacl]

\* A dataset that is read, at some stage: all of one moment.
DataAt(d, stage) ==
    /\ IsData(d) /\ Known(d.corpus, d.watermark)
    /\ d.abox = Latest(Upto(d.corpus, d.watermark))
    /\ d.gov = Events(Upto(d.corpus, d.watermark))
    /\ d.full_shacl \in {"unvalidated", Verdict(Upto(d.corpus, d.watermark))}
    /\ stage \notin {"status", "records"} => d.records = d.abox
    /\ stage \notin {"status", "records", "events"} => d.signedEvents = d.gov

-----------------------------------------------------------------------------
(* Exports: destinations.                                                       *)

IsDest(d) ==
    d = [exists |-> d.exists, folders |-> d.folders, files |-> d.files, manifest |-> d.manifest]

\* what the manifest of a destination says of its files
IsTrueOf(m, files) ==
    /\ Known(m.corpus, m.watermark)
    /\ \A f \in m.formats : Paths(f) \subseteq {file.path : file \in files}
    /\ m.full_shacl \in {"unvalidated", Verdict(Upto(m.corpus, m.watermark))}
    /\ \A file \in files :
          /\ SameMoment(file.data, m.corpus, m.watermark)
          /\ m.profile = "EL" \/ m.el_conformant => file.el
          /\ file.whole \/ m.partial

DestsInv ==
    /\ dest = [p \in Dests |-> dest[p]]
    /\ \A p \in Dests : IsDest(dest[p]) /\
          (dest[p].manifest \in {NoFile, Torn} \/ IsTrueOf(dest[p].manifest, dest[p].files))

IsExport(e) ==
    /\ e = [pc |-> e.pc, data |-> e.data, at |-> e.at, formats |-> e.formats, query |-> e.query,
            named |-> e.named, partial |-> e.partial, profile |-> e.profile,
            conformant |-> e.conformant, created |-> e.created, written |-> e.written,
            done |-> e.done]
    /\ e.pc \in {"status", "records", "events", "data", "write"} /\ e.at \in Dests
    /\ DataAt(e.data, e.pc)
    /\ e.conformant => e.profile = "EL"

\* what an export has written, and where it has yet to begin
FilesInv(e, d) ==
    IF e.pc = "write"
    THEN /\ d.manifest = NoFile
         /\ \A f \in e.done : Paths(f) \subseteq {file.path : file \in d.files}
         /\ \A file \in d.files : /\ file.data = e.data
                                  /\ e.profile = "EL" => file.el
                                  /\ file.whole \/ e.partial
    ELSE d \in {Absent, Empty} /\ e.done = {}

ExportInv == export = NoExport \/ (IsExport(export) /\ FilesInv(export, dest[export.at]))

-----------------------------------------------------------------------------
(* Dumps: the work tree, the index, the commits.                                *)

CorpusFiles == {"abox", "governance", "manifest"}

\* a file of one corpus is that of its journal head
FileOf(file, c, head, name) ==
    CASE name = "abox" -> /\ file \in Contents /\ file.graph = Latest(Upto(c, head))
                          /\ file.records = file.graph
      [] name = "governance" -> file \in Contents /\ file.graph = Events(Upto(c, head))
      [] name = "manifest" -> file \in DumpManifests /\ file.head = head

WholeIn(files, c) ==
    \E head \in 0..Len(rows[c]) : \A name \in CorpusFiles : FileOf(files[<<c, name>>], c, head, name)

WholeTree(files) ==
    /\ files = [p \in DumpPaths |-> files[p]]
    /\ \A c \in ExportCorpora :
          \/ \A name \in CorpusFiles : files[<<c, name>>] = NoFile
          \/ WholeIn(files, c) /\ files[<<"tbox">>] # NoFile

\* the files of the corpus that is being dumped that are in the work tree by then
FilesBy == [status |-> {}, records |-> {}, events |-> {}, data |-> {}, governance |-> {"abox"},
            tbox |-> {"abox", "governance"}, manifest |-> {"abox", "governance"}]

IsDump(d) ==
    /\ d = [pc |-> d.pc, left |-> d.left, data |-> d.data, written |-> d.written]
    /\ d.pc \in DOMAIN FilesBy \cup {"open", "add", "commit"}
    /\ d.left \subseteq ExportCorpora /\ d.written \subseteq DumpPaths
    /\ d.pc \in DOMAIN FilesBy => DataAt(d.data, d.pc)

\* the files of the corpus that is dumped: some are written, as they are read
AtWork(d, files) ==
    /\ d.data.corpus \notin d.left
    /\ \A name \in CorpusFiles :
          <<d.data.corpus, name>> \in d.written <=> name \in FilesBy[d.pc]
    /\ \A name \in FilesBy[d.pc] :
          FileOf(files[<<d.data.corpus, name>>], d.data.corpus, d.data.watermark, name)
    /\ d.pc = "manifest" => <<"tbox">> \in d.written

\* a corpus of which a dump has written nothing, or every file
DumpedWhole(d, files, c) ==
    \/ \A name \in CorpusFiles : <<c, name>> \notin d.written
    \/ /\ \A name \in CorpusFiles : <<c, name>> \in d.written
       /\ WholeIn(files, c) /\ <<"tbox">> \in d.written

DumpedInv(d, files) ==
    /\ <<"tbox">> \in d.written => files[<<"tbox">>] = "tbox"
    /\ \A c \in ExportCorpora :
          DumpedWhole(d, files, c) \/ (d.pc \in DOMAIN FilesBy /\ c = d.data.corpus)
    /\ \A c \in d.left, name \in CorpusFiles : <<c, name>> \notin d.written
    /\ d.pc \in DOMAIN FilesBy => AtWork(d, files)

TreesInv ==
    /\ tree = [p \in DumpPaths |-> tree[p]]
    /\ WholeTree(index)
    /\ history \in Seq({history[i] : i \in DOMAIN history})
    /\ \A i \in DOMAIN history : WholeTree(history[i])

DumpInv == dump = NoDump \/ (IsDump(dump) /\ DumpedInv(dump, tree))

PublishedInv == RowsInv /\ DestsInv /\ ExportInv /\ TreesInv /\ DumpInv

-----------------------------------------------------------------------------
(* The journals grow.                                                           *)

Grows == \A c, w : Known(c, w) => Known(c, w)' /\ Upto(c, w)' = Upto(c, w)

LEMMA PrefixStays ==
    ASSUME NEW S, NEW s \in Seq(S), NEW r \in S, NEW w \in 0..Len(s)
    PROVE  SubSeq(Append(s, r), 1, w) = SubSeq(s, 1, w)
  OBVIOUS

LEMMA RowsMove ==
    ASSUME RowsInv, [NextExport]_exportVars
    PROVE  RowsInv' /\ Grows
  <1>1. ASSUME UNCHANGED <<rows, checked>>
        PROVE  RowsInv' /\ Grows
    BY <1>1 DEF RowsInv, Known, Upto, Grows
  <1>2. ASSUME NEW c \in ExportCorpora, Write(c)
        PROVE  RowsInv' /\ Grows
    <2>1. PICK r \in JournalRows : rows' = [rows EXCEPT ![c] = Append(rows[c], r)]
      BY <1>2 DEF Write, JournalRows
    <2>2. /\ rows' = [q \in ExportCorpora |-> rows'[q]] /\ rows'[c] = Append(rows[c], r)
          /\ \A q \in ExportCorpora \ {c} : rows'[q] = rows[q]
          /\ UNCHANGED checked
      BY <1>2, <2>1 DEF Write, RowsInv
    <2>3. rows[c] \in Seq(JournalRows)
      BY DEF RowsInv
    <2>4. rows'[c] \in Seq(JournalRows) /\ Len(rows'[c]) = Len(rows[c]) + 1 /\ Len(rows[c]) \in Nat
      BY <2>2, <2>3
    <2>5. ASSUME NEW q, NEW w, Known(q, w)
          PROVE  Known(q, w)' /\ Upto(q, w)' = Upto(q, w)
      <3>1. CASE q = c
        <4>1. SubSeq(Append(rows[c], r), 1, w) = SubSeq(rows[c], 1, w)
          BY <2>3, <2>5, <3>1, PrefixStays DEF Known
        <4>2. w \in 0..Len(rows'[c])
          BY <2>4, <2>5, <3>1 DEF Known
        <4>. QED  BY <2>2, <2>5, <3>1, <4>1, <4>2 DEF Known, Upto
      <3>2. CASE q # c
        BY <2>2, <2>5, <3>2 DEF Known, Upto
      <3>. QED  BY <3>1, <3>2
    <2>6. ASSUME NEW q \in ExportCorpora
          PROVE  /\ rows'[q] \in Seq(JournalRows)
                 /\ Known(q, checked[q].position)'
                 /\ checked'[q].state = Verdict(Upto(q, checked[q].position)')
      <3>1. /\ rows[q] \in Seq(JournalRows) /\ Known(q, checked[q].position)
            /\ checked[q].state = Verdict(Upto(q, checked[q].position))
        BY DEF RowsInv
      <3>2. checked'[q] = checked[q]
        BY <2>2
      <3>3. \A p : p = checked[q].position => Known(q, p)' /\ Upto(q, p)' = Upto(q, p)
        BY <2>5, <3>1
      <3>. QED  BY <2>2, <2>4, <3>1, <3>2, <3>3 DEF Known, Upto
    <2>7. checked' = [q \in ExportCorpora |-> checked'[q]]
      BY <2>2 DEF RowsInv
    <2>8. RowsInv'
      BY <2>2, <2>6, <2>7 DEF RowsInv
    <2>. QED  BY <2>5, <2>8 DEF Grows
  <1>3. ASSUME NEW c \in ExportCorpora, Validate(c)
        PROVE  RowsInv' /\ Grows
    <2>1. /\ UNCHANGED rows
          /\ checked' = [checked EXCEPT ![c] = [position |-> Len(rows[c]),
                                                state |-> Verdict(rows[c])]]
      BY <1>3 DEF Validate
    <2>2. rows[c] \in Seq(JournalRows)
      BY DEF RowsInv
    <2>3. Upto(c, Len(rows[c])) = rows[c] /\ Known(c, Len(rows[c]))
      BY <2>2, SubSeqFull DEF Upto, Known
    <2>4. Grows
      BY <2>1 DEF Grows, Known, Upto
    <2>5. /\ checked' = [q \in ExportCorpora |-> checked'[q]]
          /\ checked'[c].position = Len(rows[c]) /\ checked'[c].state = Verdict(rows[c])
          /\ \A q \in ExportCorpora \ {c} : checked'[q] = checked[q]
      BY <2>1 DEF RowsInv
    <2>6. ASSUME NEW q \in ExportCorpora
          PROVE  Known(q, checked'[q].position)
                 /\ checked'[q].state = Verdict(Upto(q, checked'[q].position))
      BY <2>3, <2>5 DEF RowsInv
    <2>7. RowsInv'
      BY <2>1, <2>5, <2>6 DEF RowsInv, Known, Upto
    <2>. QED  BY <2>4, <2>7
  <1>4. CASE UNCHANGED exportVars
    BY <1>1, <1>4 DEF exportVars
  <1>5. ASSUME NextExport, ~\E c \in ExportCorpora : Write(c) \/ Validate(c)
        PROVE  UNCHANGED <<rows, checked>>
    BY <1>5 DEF NextExport, ExportStep, DumpStep, BeginExport, ReadForExport, OpenDestination,
       WriteFormat, WriteManifest, FailFormat, FailManifest, CrashExport, BeginDump, DumpCorpus,
       ReadForDump, WriteDumpFile, AddDump, CommitDump, StopDump, Restore
  <1>. QED  BY <1>1, <1>2, <1>3, <1>4, <1>5

LEMMA DataStays ==
    ASSUME Grows, NEW d, NEW stage, DataAt(d, stage)
    PROVE  DataAt(d, stage)'
  <1>1. Known(d.corpus, d.watermark)' /\ Upto(d.corpus, d.watermark)' = Upto(d.corpus, d.watermark)
    BY DEF DataAt, Grows
  <1>. QED  BY <1>1 DEF DataAt

LEMMA TrueStays ==
    ASSUME Grows, NEW mf, NEW files, IsTrueOf(mf, files)
    PROVE  IsTrueOf(mf, files)'
  <1>1. /\ Known(mf.corpus, mf.watermark)'
        /\ Upto(mf.corpus, mf.watermark)' = Upto(mf.corpus, mf.watermark)
    BY DEF IsTrueOf, Grows
  <1>. QED  BY <1>1 DEF IsTrueOf, SameMoment

LEMMA WholeStays ==
    ASSUME Grows, NEW files, NEW c \in ExportCorpora, WholeIn(files, c)
    PROVE  WholeIn(files, c)'
  <1>1. PICK head \in 0..Len(rows[c]) :
            \A name \in CorpusFiles : FileOf(files[<<c, name>>], c, head, name)
    BY DEF WholeIn
  <1>2. Known(c, head)' /\ Upto(c, head)' = Upto(c, head)
    BY DEF Grows, Known
  <1>3. \A name \in CorpusFiles : FileOf(files[<<c, name>>], c, head, name)'
    BY <1>1, <1>2 DEF FileOf
  <1>. QED  BY <1>2, <1>3 DEF WholeIn, Known

-----------------------------------------------------------------------------
(* The reads of a dataset.                                                      *)

LEMMA GraphsAt ==
    ASSUME RowsInv, NEW c \in ExportCorpora
    PROVE  DataAt(Graphs(c), "status") /\ Graphs(c).corpus = c
  <1>. DEFINE d == [corpus |-> c, watermark |-> Len(rows[c]), abox |-> Latest(rows[c]),
                    gov |-> Events(rows[c]), records |-> {}, signedEvents |-> {},
                    full_shacl |-> "unvalidated"]
  <1>1. Graphs(c) = d
    <2>. DEFINE l == Latest(rows[c])
                v == Events(rows[c])
                w == Len(rows[c])
                read == [NoData EXCEPT !.corpus = c, !.watermark = w, !.abox = l, !.gov = v]
    <2>. HIDE DEF l, v, w
    <2>1. NoData = [corpus |-> NoFile, watermark |-> 0, abox |-> {}, gov |-> {}, records |-> {},
                    signedEvents |-> {}, full_shacl |-> "unvalidated"]
      BY DEF NoData
    <2>2. read = [NoData EXCEPT !.corpus = c, !.watermark = w, !.abox = l, !.gov = v]
      OBVIOUS
    <2>. HIDE DEF read
    <2>3. read = [corpus |-> c, watermark |-> w, abox |-> l, gov |-> v, records |-> {},
                  signedEvents |-> {}, full_shacl |-> "unvalidated"]
      BY <2>1, <2>2
    <2>. QED  BY <2>2, <2>3 DEF Graphs, l, v, w
  <1>2. rows[c] \in Seq(JournalRows)
    BY DEF RowsInv
  <1>3. Upto(c, Len(rows[c])) = rows[c] /\ Known(c, Len(rows[c]))
    BY <1>2, SubSeqFull DEF Upto, Known
  <1>4. /\ d.corpus = c /\ d.watermark = Len(rows[c]) /\ d.abox = Latest(rows[c])
        /\ d.gov = Events(rows[c]) /\ d.full_shacl = "unvalidated" /\ IsData(d)
    BY DEF IsData
  <1>. HIDE DEF d
  <1>5. DataAt(d, "status")
    BY <1>3, <1>4 DEF DataAt
  <1>. QED  BY <1>1, <1>4, <1>5

LEMMA ReadingAt ==
    ASSUME RowsInv, NEW d, NEW pc \in DOMAIN AfterRead, DataAt(d, pc)
    PROVE  DataAt(Reading(d, pc), AfterRead[pc]) /\ Reading(d, pc).corpus = d.corpus
  <1>. DEFINE w == d.watermark
              c == d.corpus
  <1>1. c \in ExportCorpora /\ Known(c, w) /\ IsData(d)
    BY DEF DataAt, Known
  <1>2. CASE pc = "status"
    <2>. DEFINE status == StatusAt(d)
                e == [d EXCEPT !.full_shacl = status]
    <2>1. status \in {"unvalidated", Verdict(Upto(c, w))}
      BY <1>1 DEF StatusAt, RowsInv
    <2>. HIDE DEF status
    <2>2. /\ e = [corpus |-> c, watermark |-> w, abox |-> d.abox, gov |-> d.gov,
                  records |-> d.records, signedEvents |-> d.signedEvents, full_shacl |-> status]
      BY <1>1 DEF IsData
    <2>. HIDE DEF e
    <2>3. /\ IsData(e) /\ e.corpus = c /\ e.watermark = w /\ e.abox = d.abox /\ e.gov = d.gov
          /\ e.full_shacl = status
      BY <2>2 DEF IsData
    <2>4. DataAt(e, "records")
      BY <1>1, <2>1, <2>3 DEF DataAt
    <2>5. Reading(d, pc) = e /\ AfterRead[pc] = "records"
      BY <1>2 DEF Reading, AfterRead, e, status
    <2>. QED  BY <2>3, <2>4, <2>5
  <1>3. CASE pc = "records"
    <2>. DEFINE read == RecordsAt(d)
                e == [d EXCEPT !.records = read]
    <2>1. read = d.abox
      BY DEF RecordsAt, DataAt
    <2>. HIDE DEF read
    <2>2. /\ e = [corpus |-> c, watermark |-> w, abox |-> d.abox, gov |-> d.gov,
                  records |-> read, signedEvents |-> d.signedEvents, full_shacl |-> d.full_shacl]
      BY <1>1 DEF IsData
    <2>. HIDE DEF e
    <2>3. /\ IsData(e) /\ e.corpus = c /\ e.watermark = w /\ e.abox = d.abox /\ e.gov = d.gov
          /\ e.full_shacl = d.full_shacl /\ e.records = read
      BY <2>2 DEF IsData
    <2>4. DataAt(e, "events")
      BY <1>1, <2>1, <2>3 DEF DataAt
    <2>5. Reading(d, pc) = e /\ AfterRead[pc] = "events"
      BY <1>3 DEF Reading, AfterRead, e, read
    <2>. QED  BY <2>3, <2>4, <2>5
  <1>4. CASE pc = "events"
    <2>. DEFINE read == EventsAt(d)
                e == [d EXCEPT !.signedEvents = read]
    <2>1. read = d.gov
      BY DEF EventsAt, DataAt
    <2>. HIDE DEF read
    <2>2. /\ e = [corpus |-> c, watermark |-> w, abox |-> d.abox, gov |-> d.gov,
                  records |-> d.records, signedEvents |-> read, full_shacl |-> d.full_shacl]
      BY <1>1 DEF IsData
    <2>. HIDE DEF e
    <2>3. /\ IsData(e) /\ e.corpus = c /\ e.watermark = w /\ e.abox = d.abox /\ e.gov = d.gov
          /\ e.full_shacl = d.full_shacl /\ e.records = d.records /\ e.signedEvents = read
      BY <2>2 DEF IsData
    <2>4. d.records = d.abox
      BY <1>4 DEF DataAt
    <2>5. DataAt(e, "data")
      BY <1>1, <2>1, <2>3, <2>4 DEF DataAt
    <2>6. Reading(d, pc) = e /\ AfterRead[pc] = "data"
      BY <1>4 DEF Reading, AfterRead, e, read
    <2>. QED  BY <2>3, <2>5, <2>6
  <1>. QED  BY <1>2, <1>3, <1>4 DEF AfterRead

-----------------------------------------------------------------------------
(* The steps of an export.                                                      *)

LEMMA DestsStay ==
    ASSUME Grows, DestsInv, UNCHANGED dest
    PROVE  DestsInv'
  <1>1. \A mf, files : IsTrueOf(mf, files) => IsTrueOf(mf, files)'
    BY TrueStays
  <1>. QED  BY <1>1 DEF DestsInv, IsDest, IsTrueOf

LEMMA DestMoves ==
    ASSUME Grows, DestsInv, NEW p \in Dests, NEW d, dest' = [dest EXCEPT ![p] = d], IsDest(d),
           d.manifest \in {NoFile, Torn} \/ IsTrueOf(d.manifest, d.files)
    PROVE  DestsInv' /\ dest'[p] = d
  <1>1. \A mf, files : IsTrueOf(mf, files) => IsTrueOf(mf, files)'
    BY TrueStays
  <1>2. /\ dest' = [q \in Dests |-> dest'[q]] /\ dest'[p] = d
        /\ \A q \in Dests \ {p} : dest'[q] = dest[q]
    BY DEF DestsInv
  <1>3. ASSUME NEW q \in Dests
        PROVE  \E e : e = dest'[q] /\ IsDest(e)
                      /\ (e.manifest \in {NoFile, Torn} \/ IsTrueOf(e.manifest, e.files)')
    BY <1>1, <1>2 DEF DestsInv
  <1>4. DestsInv'
    BY <1>2, <1>3 DEF DestsInv, IsDest, IsTrueOf
  <1>. QED  BY <1>2, <1>4

LEMMA ExportStays ==
    ASSUME Grows, ExportInv, UNCHANGED <<dest, export>>
    PROVE  ExportInv'
  <1>1. \A d, stage : DataAt(d, stage) => DataAt(d, stage)'
    BY DataStays
  <1>. QED  BY <1>1 DEF ExportInv, IsExport, FilesInv, DataAt

\* The next state of the export, at a destination as it is by then.
LEMMA ExportMoves ==
    ASSUME Grows, NEW e, NEW d, export' = e, dest'[e.at] = d, IsExport(e), FilesInv(e, d)
    PROVE  ExportInv'
  <1>1. DataAt(e.data, e.pc)'
    BY DataStays DEF IsExport
  <1>2. \A x : x = e => IsExport(x)'
    BY <1>1 DEF IsExport
  <1>3. FilesInv(e, dest'[e.at])
    OBVIOUS
  <1>. QED  BY <1>2, <1>3 DEF ExportInv, IsExport, FilesInv, DataAt

LEMMA BeginExportKeeps ==
    ASSUME RowsInv, Grows, DestsInv, BeginExport
    PROVE  DestsInv' /\ ExportInv'
  <1>1. PICK c \in ExportCorpora, p \in Dests, choice \in FormatChoices, q \in Queries,
             named \in BOOLEAN, partial \in BOOLEAN, profile \in {"EL", "DL"} :
            /\ dest[p] \in {Absent, Empty}
            /\ "construct" \notin Range(choice) => q.el /\ q.whole /\ ~partial
            /\ export' = [pc |-> "status", data |-> Graphs(c), at |-> p, formats |-> choice,
                          query |-> q, named |-> named, partial |-> partial, profile |-> profile,
                          conformant |-> FALSE, created |-> FALSE, written |-> {}, done |-> {}]
    BY DEF BeginExport
  <1>. DEFINE data == Graphs(c)
              e == [pc |-> "status", data |-> data, at |-> p, formats |-> choice,
                    query |-> q, named |-> named, partial |-> partial, profile |-> profile,
                    conformant |-> FALSE, created |-> FALSE, written |-> {}, done |-> {}]
  <1>2. UNCHANGED dest
    BY DEF BeginExport
  <1>3. DataAt(data, "status")
    BY GraphsAt
  <1>. HIDE DEF data
  <1>4. /\ e.pc = "status" /\ e.data = data /\ e.at = p /\ ~e.conformant /\ e.done = {}
        /\ e = [pc |-> e.pc, data |-> e.data, at |-> e.at, formats |-> e.formats,
                query |-> e.query, named |-> e.named, partial |-> e.partial,
                profile |-> e.profile, conformant |-> e.conformant, created |-> e.created,
                written |-> e.written, done |-> e.done]
    OBVIOUS
  <1>5. export' = e
    BY <1>1 DEF data
  <1>. HIDE DEF e
  <1>6. IsExport(e)
    BY <1>3, <1>4 DEF IsExport
  <1>7. FilesInv(e, dest[p])
    BY <1>1, <1>4 DEF FilesInv
  <1>. QED  BY <1>2, <1>4, <1>5, <1>6, <1>7, DestsStay, ExportMoves

LEMMA Exporter ==
    ASSUME ExportInv, export.pc # "idle"
    PROVE  IsExport(export) /\ FilesInv(export, dest[export.at]) /\ export.at \in Dests
  BY DEF ExportInv, NoExport, IsExport

LEMMA ReadForExportKeeps ==
    ASSUME RowsInv, Grows, DestsInv, ExportInv, ReadForExport
    PROVE  DestsInv' /\ ExportInv'
  <1>. DEFINE data == Reading(export.data, export.pc)
              pc == AfterRead[export.pc]
              e == [export EXCEPT !.data = data, !.pc = pc]
  <1>1. export.pc \in DOMAIN AfterRead /\ UNCHANGED dest /\ export' = e
    BY DEF ReadForExport
  <1>2. export.pc \in {"status", "records", "events"}
    BY <1>1 DEF AfterRead
  <1>3. IsExport(export) /\ FilesInv(export, dest[export.at])
    BY <1>2, Exporter
  <1>4. pc \in {"records", "events", "data"}
    BY <1>2 DEF AfterRead
  <1>5. DataAt(data, pc)
    BY <1>1, <1>3, ReadingAt DEF IsExport
  <1>6. export = [pc |-> export.pc, data |-> export.data, at |-> export.at,
                  formats |-> export.formats, query |-> export.query, named |-> export.named,
                  partial |-> export.partial, profile |-> export.profile,
                  conformant |-> export.conformant, created |-> export.created,
                  written |-> export.written, done |-> export.done]
    BY <1>3 DEF IsExport
  <1>7. e = [export EXCEPT !.data = data, !.pc = pc]
    OBVIOUS
  <1>. HIDE DEF e, data, pc
  <1>8. e = [pc |-> pc, data |-> data, at |-> export.at,
             formats |-> export.formats, query |-> export.query, named |-> export.named,
             partial |-> export.partial, profile |-> export.profile,
             conformant |-> export.conformant, created |-> export.created,
             written |-> export.written, done |-> export.done]
    BY <1>6, <1>7
  <1>9. /\ e.pc = pc /\ e.data = data /\ e.at = export.at /\ e.conformant = export.conformant
        /\ e.profile = export.profile /\ e.done = export.done
        /\ e = [pc |-> e.pc, data |-> e.data, at |-> e.at, formats |-> e.formats,
                query |-> e.query, named |-> e.named, partial |-> e.partial,
                profile |-> e.profile, conformant |-> e.conformant, created |-> e.created,
                written |-> e.written, done |-> e.done]
    BY <1>8
  <1>10. IsExport(e)
    BY <1>3, <1>4, <1>5, <1>9 DEF IsExport
  <1>11. FilesInv(e, dest[export.at])
    BY <1>2, <1>3, <1>4, <1>9 DEF FilesInv
  <1>. QED  BY <1>1, <1>9, <1>10, <1>11, DestsStay, ExportMoves

LEMMA OpenKeeps ==
    ASSUME RowsInv, Grows, DestsInv, ExportInv, OpenDestination
    PROVE  DestsInv' /\ ExportInv'
  <1>. DEFINE p == export.at
              created == ~dest[p].exists
              conformant == Range(export.formats) \cap CarriesTBox # {} /\ export.profile = "EL"
              pc == "write"
              e == [export EXCEPT !.pc = pc, !.created = created, !.conformant = conformant]
              d == [dest[p] EXCEPT !.exists = TRUE]
  <1>1. export.pc = "data"
    BY DEF OpenDestination, Exporting
  <1>2. /\ IsExport(export) /\ p \in Dests
        /\ dest[p] \in {Absent, Empty} /\ export.done = {}
    BY <1>1, Exporter DEF FilesInv
  <1>3. \/ export' = NoExport /\ UNCHANGED dest
        \/ dest' = [dest EXCEPT ![p] = d] /\ export' = e
    BY DEF OpenDestination
  <1>4. CASE export' = NoExport /\ UNCHANGED dest
    BY <1>4, DestsStay DEF ExportInv
  <1>5. CASE dest' = [dest EXCEPT ![p] = d] /\ export' = e
    <2>1. d = [exists |-> TRUE, folders |-> {}, files |-> {}, manifest |-> NoFile]
      <3>. DEFINE yes == TRUE
                  no == FALSE
      <3>1. /\ Absent = [exists |-> no, folders |-> {}, files |-> {}, manifest |-> NoFile]
            /\ Empty = [Absent EXCEPT !.exists = yes] /\ d = [dest[p] EXCEPT !.exists = yes]
        BY DEF Absent, Empty
      <3>. HIDE DEF yes, no, d
      <3>2. Empty = [exists |-> yes, folders |-> {}, files |-> {}, manifest |-> NoFile]
        BY <3>1
      <3>3. d = [exists |-> yes, folders |-> {}, files |-> {}, manifest |-> NoFile]
        <4>1. CASE dest[p] = Absent
          BY <3>1, <4>1
        <4>2. CASE dest[p] = Empty
          BY <3>1, <3>2, <4>2
        <4>. QED  BY <1>2, <4>1, <4>2
      <3>. QED  BY <3>3 DEF yes
    <2>. HIDE DEF d
    <2>2. d.files = {} /\ d.manifest = NoFile /\ IsDest(d)
      BY <2>1 DEF IsDest
    <2>3. DestsInv' /\ dest'[p] = d
      BY <1>2, <1>5, <2>2, DestMoves
    <2>4. conformant => export.profile = "EL"
      OBVIOUS
    <2>5. export = [pc |-> export.pc, data |-> export.data, at |-> export.at,
                    formats |-> export.formats, query |-> export.query, named |-> export.named,
                    partial |-> export.partial, profile |-> export.profile,
                    conformant |-> export.conformant, created |-> export.created,
                    written |-> export.written, done |-> export.done]
      BY <1>2 DEF IsExport
    <2>6. e = [export EXCEPT !.pc = pc, !.created = created, !.conformant = conformant]
      OBVIOUS
    <2>7. pc = "write"
      OBVIOUS
    <2>. HIDE DEF e, created, conformant, pc
    <2>8. e = [pc |-> pc, data |-> export.data, at |-> export.at,
               formats |-> export.formats, query |-> export.query, named |-> export.named,
               partial |-> export.partial, profile |-> export.profile,
               conformant |-> conformant, created |-> created,
               written |-> export.written, done |-> export.done]
      BY <2>5, <2>6
    <2>9. /\ e.pc = pc /\ e.data = export.data /\ e.at = export.at /\ e.conformant = conformant
          /\ e.profile = export.profile /\ e.done = export.done
          /\ e = [pc |-> e.pc, data |-> e.data, at |-> e.at, formats |-> e.formats,
                  query |-> e.query, named |-> e.named, partial |-> e.partial,
                  profile |-> e.profile, conformant |-> e.conformant, created |-> e.created,
                  written |-> e.written, done |-> e.done]
      BY <2>8
    <2>10. DataAt(export.data, "write")
      BY <1>1, <1>2 DEF IsExport, DataAt
    <2>11. IsExport(e)
      BY <1>2, <2>4, <2>7, <2>9, <2>10 DEF IsExport
    <2>12. FilesInv(e, d)
      BY <1>2, <2>2, <2>7, <2>9 DEF FilesInv
    <2>. QED  BY <1>5, <2>3, <2>9, <2>11, <2>12, ExportMoves
  <1>. QED  BY <1>3, <1>4, <1>5

\* The files of a format, as they are written.
LEMMA FilesWritten ==
    ASSUME ~(Format = "construct" /\ QueryRefused), NEW path
    PROVE  /\ File(Format, path).path = path /\ File(Format, path).data = export.data
           /\ export.profile = "EL" => File(Format, path).el
           /\ File(Format, path).whole \/ export.partial
  <1>1. File(Format, path).path = path /\ File(Format, path).data = export.data
    BY DEF File
  <1>2. ASSUME export.profile = "EL"
        PROVE  File(Format, path).el
    <2>1. CASE Format = "construct"
      BY <1>2, <2>1 DEF File, QueryRefused
    <2>2. CASE Format # "construct"
      BY <1>2, <2>2 DEF File
    <2>. QED  BY <2>1, <2>2
  <1>3. ASSUME ~export.partial
        PROVE  File(Format, path).whole
    BY <1>3 DEF File, QueryRefused
  <1>. QED  BY <1>1, <1>2, <1>3

LEMMA WriteFormatKeeps ==
    ASSUME RowsInv, Grows, DestsInv, ExportInv, WriteFormat
    PROVE  DestsInv' /\ ExportInv'
  <1>. DEFINE p == export.at
              new == {File(Format, path) : path \in Paths(Format)}
              files == dest[p].files \cup new
              folders == dest[p].folders \cup ({Format} \cap InFolder)
              d == [dest[p] EXCEPT !.files = files, !.folders = folders]
              formats == Tail(export.formats)
              done == export.done \cup {Format}
              written == export.written \cup Paths(Format)
              conformant == export.conformant /\ (Format = "construct" => export.query.el)
              e == [export EXCEPT !.formats = formats, !.done = done, !.written = written,
                                  !.conformant = conformant]
  <1>1. export.pc = "write" /\ ~(Format = "construct" /\ QueryRefused)
    BY DEF WriteFormat, Exporting
  <1>2. /\ IsExport(export) /\ p \in Dests /\ FilesInv(export, dest[p])
    BY <1>1, Exporter
  <1>3. dest' = [dest EXCEPT ![p] = d] /\ export' = e
    <2>1. /\ dest' = [dest EXCEPT ![p].files = files, ![p].folders = folders]
          /\ export' = e
      BY <1>2 DEF WriteFormat
    <2>. HIDE DEF files, folders, e
    <2>2. dest = [q \in Dests |-> dest[q]]
      BY DEF DestsInv
    <2>. QED  BY <1>2, <2>1, <2>2
  <1>4. /\ dest[p] = [exists |-> dest[p].exists, folders |-> dest[p].folders,
                      files |-> dest[p].files, manifest |-> dest[p].manifest]
        /\ dest[p].manifest = NoFile
    BY <1>1, <1>2 DEF DestsInv, IsDest, FilesInv
  <1>5. /\ conformant => export.conformant
        /\ files = dest[p].files \cup new /\ done = export.done \cup {Format}
    OBVIOUS
  <1>6. \A file \in new : /\ file.data = export.data
                          /\ export.profile = "EL" => file.el
                          /\ file.whole \/ export.partial
    BY <1>1, FilesWritten
  <1>7. Paths(Format) \subseteq {file.path : file \in new}
    BY <1>1, FilesWritten
  <1>8. /\ d = [dest[p] EXCEPT !.files = files, !.folders = folders]
        /\ e = [export EXCEPT !.formats = formats, !.done = done, !.written = written,
                              !.conformant = conformant]
    OBVIOUS
  <1>. HIDE DEF files, folders, formats, done, written, conformant, d, e, new
  <1>9. d = [exists |-> dest[p].exists, folders |-> folders, files |-> files, manifest |-> NoFile]
    BY <1>4, <1>8
  <1>10. d.files = files /\ d.manifest = NoFile /\ IsDest(d)
    BY <1>9 DEF IsDest
  <1>11. DestsInv' /\ dest'[p] = d
    BY <1>2, <1>3, <1>10, DestMoves
  <1>12. export = [pc |-> export.pc, data |-> export.data, at |-> export.at,
                   formats |-> export.formats, query |-> export.query, named |-> export.named,
                   partial |-> export.partial, profile |-> export.profile,
                   conformant |-> export.conformant, created |-> export.created,
                   written |-> export.written, done |-> export.done]
    BY <1>2 DEF IsExport
  <1>13. e = [pc |-> export.pc, data |-> export.data, at |-> export.at,
              formats |-> formats, query |-> export.query, named |-> export.named,
              partial |-> export.partial, profile |-> export.profile,
              conformant |-> conformant, created |-> export.created,
              written |-> written, done |-> done]
    BY <1>8, <1>12
  <1>14. /\ e.pc = export.pc /\ e.data = export.data /\ e.at = export.at
         /\ e.conformant = conformant /\ e.partial = export.partial
         /\ e.profile = export.profile /\ e.done = done
         /\ e = [pc |-> e.pc, data |-> e.data, at |-> e.at, formats |-> e.formats,
                 query |-> e.query, named |-> e.named, partial |-> e.partial,
                 profile |-> e.profile, conformant |-> e.conformant, created |-> e.created,
                 written |-> e.written, done |-> e.done]
    BY <1>13
  <1>15. IsExport(e)
    BY <1>2, <1>5, <1>14 DEF IsExport
  <1>16. FilesInv(e, d)
    <2>1. /\ \A f \in export.done : Paths(f) \subseteq {file.path : file \in dest[p].files}
          /\ \A file \in dest[p].files : /\ file.data = export.data
                                         /\ export.profile = "EL" => file.el
                                         /\ file.whole \/ export.partial
      BY <1>1, <1>2 DEF FilesInv
    <2>2. \A f \in done : Paths(f) \subseteq {file.path : file \in files}
      BY <1>5, <1>7, <2>1
    <2>3. \A file \in files : /\ file.data = export.data
                              /\ export.profile = "EL" => file.el
                              /\ file.whole \/ export.partial
      BY <1>5, <1>6, <2>1
    <2>. QED  BY <1>1, <1>10, <1>14, <2>2, <2>3 DEF FilesInv
  <1>. QED  BY <1>3, <1>11, <1>14, <1>15, <1>16, ExportMoves

\* The manifest says what the files hold.
LEMMA WriteManifestKeeps ==
    ASSUME RowsInv, Grows, DestsInv, ExportInv, WriteManifest
    PROVE  DestsInv' /\ ExportInv'
  <1>. DEFINE p == export.at
              formats == export.done \cup Range(export.formats)
              mf == [formats |-> formats, corpus |-> export.data.corpus,
                     watermark |-> export.data.watermark, full_shacl |-> export.data.full_shacl,
                     partial |-> export.partial, profile |-> export.profile,
                     el_conformant |-> export.conformant]
              d == [dest[p] EXCEPT !.manifest = mf]
  <1>1. export.pc = "write" /\ export.formats = <<>>
    BY DEF WriteManifest, Exporting, AllWritten
  <1>2. /\ IsExport(export) /\ p \in Dests /\ FilesInv(export, dest[p])
    BY <1>1, Exporter
  <1>3. dest' = [dest EXCEPT ![p].manifest = mf] /\ export' = NoExport
    BY DEF WriteManifest
  <1>4. formats = export.done
    BY <1>1 DEF Range
  <1>5. /\ mf.formats = formats /\ mf.corpus = export.data.corpus
        /\ mf.watermark = export.data.watermark /\ mf.full_shacl = export.data.full_shacl
        /\ mf.partial = export.partial /\ mf.profile = export.profile
        /\ mf.el_conformant = export.conformant
    OBVIOUS
  <1>. HIDE DEF mf, formats
  <1>6. dest' = [dest EXCEPT ![p] = d]
    BY <1>2, <1>3 DEF DestsInv
  <1>7. d = [exists |-> dest[p].exists, folders |-> dest[p].folders, files |-> dest[p].files,
             manifest |-> mf]
    BY <1>2 DEF DestsInv, IsDest
  <1>. HIDE DEF d
  <1>8. d.files = dest[p].files /\ d.manifest = mf /\ IsDest(d)
    BY <1>7 DEF IsDest
  <1>9. DataAt(export.data, "write") /\ (export.conformant => export.profile = "EL")
    BY <1>1, <1>2 DEF IsExport
  <1>10. SameMoment(export.data, mf.corpus, mf.watermark)
    BY <1>5, <1>9 DEF DataAt, SameMoment
  <1>11. IsTrueOf(mf, dest[p].files)
    <2>1. \A f \in mf.formats : Paths(f) \subseteq {file.path : file \in dest[p].files}
      BY <1>1, <1>2, <1>4, <1>5 DEF FilesInv
    <2>2. /\ Known(mf.corpus, mf.watermark)
          /\ mf.full_shacl \in {"unvalidated", Verdict(Upto(mf.corpus, mf.watermark))}
      BY <1>5, <1>9 DEF DataAt
    <2>3. \A file \in dest[p].files : /\ SameMoment(file.data, mf.corpus, mf.watermark)
                                      /\ mf.profile = "EL" \/ mf.el_conformant => file.el
                                      /\ file.whole \/ mf.partial
      BY <1>1, <1>2, <1>5, <1>9, <1>10 DEF FilesInv
    <2>. QED  BY <2>1, <2>2, <2>3 DEF IsTrueOf
  <1>12. DestsInv'
    BY <1>2, <1>6, <1>8, <1>11, DestMoves
  <1>. QED  BY <1>3, <1>12 DEF ExportInv

LEMMA FailKeeps ==
    ASSUME RowsInv, Grows, DestsInv, ExportInv, FailFormat \/ FailManifest \/ CrashExport
    PROVE  DestsInv' /\ ExportInv'
  <1>. DEFINE p == export.at
  <1>1. ASSUME NEW d, IsDest(d), d.manifest \in {NoFile, Torn}, p \in Dests,
               dest' = [dest EXCEPT ![p] = Cleared(d, export.written)]
        PROVE  DestsInv'
    <2>. DEFINE files == {f \in d.files : f.path \notin export.written}
                left == [d EXCEPT !.files = files]
    <2>. HIDE DEF files
    <2>1. left = [exists |-> d.exists, folders |-> d.folders, files |-> files,
                  manifest |-> d.manifest]
      BY <1>1 DEF IsDest
    <2>2. IsDest(left) /\ left.manifest \in {NoFile, Torn}
      <3>. HIDE DEF left
      <3>. QED  BY <1>1, <2>1 DEF IsDest
    <2>3. IsDest(Absent) /\ Absent.manifest \in {NoFile, Torn}
      BY DEF IsDest, Absent
    <2>4. Cleared(d, export.written) = Absent \/ Cleared(d, export.written) = left
      BY DEF Cleared, files
    <2>. DEFINE now == Cleared(d, export.written)
    <2>. HIDE DEF now, left
    <2>5. IsDest(now) /\ now.manifest \in {NoFile, Torn}
      BY <2>2, <2>3, <2>4 DEF now
    <2>6. dest' = [dest EXCEPT ![p] = now]
      BY <1>1 DEF now
    <2>. QED  BY <1>1, <2>5, <2>6, DestMoves
  <1>2. export' = NoExport
    BY DEF FailFormat, FailManifest, CrashExport
  <1>3. ASSUME export.pc = "write"
        PROVE  /\ p \in Dests /\ dest[p].manifest = NoFile
               /\ dest[p] = [exists |-> dest[p].exists, folders |-> dest[p].folders,
                             files |-> dest[p].files, manifest |-> dest[p].manifest]
    BY <1>3, Exporter DEF FilesInv, DestsInv, IsDest
  <1>4. CASE FailFormat
    <2>. DEFINE folders == dest[p].folders
                              \cup (IF Format = "construct" THEN {} ELSE {Format} \cap InFolder)
                d == [dest[p] EXCEPT !.folders = folders]
    <2>1. export.pc = "write" /\ dest' = [dest EXCEPT ![p] = Cleared(d, export.written)]
      BY <1>4 DEF FailFormat, Exporting
    <2>. HIDE DEF folders
    <2>2. d = [exists |-> dest[p].exists, folders |-> folders, files |-> dest[p].files,
               manifest |-> dest[p].manifest]
      BY <1>3, <2>1
    <2>. HIDE DEF d
    <2>3. IsDest(d) /\ d.manifest \in {NoFile, Torn} /\ p \in Dests
      BY <1>3, <2>1, <2>2 DEF IsDest
    <2>. QED  BY <1>1, <1>2, <2>1, <2>3 DEF ExportInv
  <1>5. CASE FailManifest
    <2>. DEFINE d == [dest[p] EXCEPT !.manifest = Torn]
    <2>1. export.pc = "write" /\ dest' = [dest EXCEPT ![p] = Cleared(d, export.written)]
      BY <1>5 DEF FailManifest, Exporting
    <2>2. d = [exists |-> dest[p].exists, folders |-> dest[p].folders, files |-> dest[p].files,
               manifest |-> Torn]
      BY <1>3, <2>1
    <2>. HIDE DEF d
    <2>3. IsDest(d) /\ d.manifest \in {NoFile, Torn} /\ p \in Dests
      BY <1>3, <2>1, <2>2 DEF IsDest
    <2>. QED  BY <1>1, <1>2, <2>1, <2>3 DEF ExportInv
  <1>6. CASE CrashExport
    BY <1>2, <1>6, DestsStay DEF CrashExport, ExportInv
  <1>. QED  BY <1>4, <1>5, <1>6

-----------------------------------------------------------------------------
(* The steps of a dump.                                                         *)

LEMMA PathFacts ==
    /\ <<"tbox">> \in DumpPaths
    /\ \A c \in ExportCorpora, name \in CorpusFiles :
          <<c, name>> \in DumpPaths /\ <<c, name>> # <<"tbox">>
    /\ \A c, q, name, other : <<c, name>> = <<q, other>> => c = q /\ name = other
    /\ \A p \in DumpPaths :
          p = <<"tbox">> \/ \E c \in ExportCorpora, name \in CorpusFiles : p = <<c, name>>
  BY DEF DumpPaths, CorpusFiles

LEMMA WholeTreeStays ==
    ASSUME Grows, NEW files, WholeTree(files)
    PROVE  WholeTree(files)'
  <1>1. \A c \in ExportCorpora : WholeIn(files, c) => WholeIn(files, c)'
    BY WholeStays
  <1>. QED  BY <1>1 DEF WholeTree

LEMMA TreesMove ==
    ASSUME Grows, TreesInv, NEW i, index' = i, WholeTree(i),
           tree' = [p \in DumpPaths |-> tree'[p]],
           history' = history \/ history' = Append(history, index)
    PROVE  TreesInv'
  <1>1. \A files : WholeTree(files) => WholeTree(files)'
    BY WholeTreeStays
  <1>. DEFINE Commits == {history[k] : k \in DOMAIN history}
  <1>2. /\ history \in Seq(Commits) /\ WholeTree(index)
        /\ \A k \in DOMAIN history : WholeTree(history[k])
    BY DEF TreesInv
  <1>3. /\ history' \in Seq({history'[k] : k \in DOMAIN history'})
        /\ \A k \in DOMAIN history' : \E files : files = history'[k] /\ WholeTree(files)
    <2>1. CASE history' = history
      BY <1>2, <2>1
    <2>2. CASE history' = Append(history, index)
      <3>. DEFINE n == Len(history)
      <3>1. /\ n \in Nat /\ Len(history') = n + 1 /\ DOMAIN history' = 1..(n + 1)
            /\ DOMAIN history = 1..n
            /\ \A k \in 1..n : history'[k] = history[k]
            /\ history'[n + 1] = index /\ history' \in Seq(Commits \cup {index})
        BY <1>2, <2>2
      <3>. HIDE DEF n, Commits
      <3>2. \A k \in DOMAIN history' : k \in DOMAIN history \/ k = n + 1
        BY <3>1
      <3>3. \A k \in DOMAIN history' : \E files : files = history'[k] /\ WholeTree(files)
        BY <1>2, <3>1, <3>2
      <3>4. history' \in Seq({history'[k] : k \in DOMAIN history'})
        BY <3>1
      <3>. QED  BY <3>3, <3>4
    <2>. QED  BY <2>1, <2>2
  <1>4. ASSUME NEW k \in DOMAIN history'
        PROVE  WholeTree(history[k])'
    <2>1. PICK files : files = history'[k] /\ WholeTree(files)
      BY <1>3
    <2>2. WholeTree(files)'
      BY <1>1, <2>1
    <2>. QED  BY <2>1, <2>2 DEF WholeTree, WholeIn
  <1>5. WholeTree(index)'
    BY <1>1 DEF WholeTree, WholeIn
  <1>. QED  BY <1>3, <1>4, <1>5 DEF TreesInv

LEMMA DumpMoves ==
    ASSUME Grows, NEW e, NEW files, dump' = e, tree' = files,
           e = NoDump \/ (IsDump(e) /\ DumpedInv(e, files))
    PROVE  DumpInv'
  <1>1. CASE e = NoDump
    BY <1>1 DEF DumpInv
  <1>2. CASE IsDump(e) /\ DumpedInv(e, files)
    <2>1. e.pc \in DOMAIN FilesBy => DataAt(e.data, e.pc)'
      BY <1>2, DataStays DEF IsDump
    <2>2. IsDump(e)'
      BY <1>2, <2>1 DEF IsDump
    <2>3. \A c \in ExportCorpora : DumpedWhole(e, files, c) => DumpedWhole(e, files, c)'
      BY WholeStays DEF DumpedWhole
    <2>4. ASSUME e.pc \in DOMAIN FilesBy
          PROVE  AtWork(e, files)'
      <3>1. Known(e.data.corpus, e.data.watermark) /\ AtWork(e, files)
        BY <1>2, <2>4 DEF IsDump, DataAt, DumpedInv
      <3>2. Upto(e.data.corpus, e.data.watermark)' = Upto(e.data.corpus, e.data.watermark)
        BY <3>1 DEF Grows
      <3>. QED  BY <3>1, <3>2 DEF AtWork, FileOf
    <2>5. DumpedInv(e, files)'
      BY <1>2, <2>3, <2>4 DEF DumpedInv
    <2>6. \A d, t : d = e /\ t = files => IsDump(d)' /\ DumpedInv(d, t)'
      BY <2>2, <2>5
    <2>. QED  BY <2>6 DEF DumpInv, IsDump, DumpedInv, DumpedWhole, AtWork, DataAt, WholeIn
  <1>. QED  BY <1>1, <1>2

LEMMA TreesStay ==
    ASSUME Grows, TreesInv, UNCHANGED <<tree, index, history>>
    PROVE  TreesInv'
  BY TreesMove DEF TreesInv

LEMMA DumpStays ==
    ASSUME Grows, DumpInv, UNCHANGED <<tree, dump>>
    PROVE  DumpInv'
  BY DumpMoves DEF DumpInv

LEMMA Dumper ==
    ASSUME DumpInv, dump.pc # "idle"
    PROVE  IsDump(dump) /\ DumpedInv(dump, tree)
  BY DEF DumpInv, NoDump

LEMMA BeginDumpKeeps ==
    ASSUME RowsInv, Grows, TreesInv, DumpInv, BeginDump
    PROVE  TreesInv' /\ DumpInv'
  <1>1. PICK chosen \in SUBSET ExportCorpora :
            dump' = [pc |-> "open", left |-> chosen, data |-> NoData, written |-> {}]
    BY DEF BeginDump
  <1>2. UNCHANGED <<tree, index, history>>
    BY DEF BeginDump
  <1>. DEFINE e == [pc |-> "open", left |-> chosen, data |-> NoData, written |-> {}]
  <1>3. /\ e.pc = "open" /\ e.left = chosen /\ e.written = {}
        /\ e = [pc |-> e.pc, left |-> e.left, data |-> e.data, written |-> e.written]
    OBVIOUS
  <1>4. dump' = e
    BY <1>1
  <1>. HIDE DEF e
  <1>5. e.pc \notin DOMAIN FilesBy
    BY <1>3 DEF FilesBy
  <1>6. IsDump(e)
    BY <1>3, <1>5 DEF IsDump
  <1>7. DumpedInv(e, tree)
    BY <1>3, <1>5 DEF DumpedInv, DumpedWhole
  <1>8. DumpInv'
    BY <1>2, <1>4, <1>6, <1>7, DumpMoves
  <1>. QED  BY <1>2, <1>8, TreesStay

LEMMA DumpCorpusKeeps ==
    ASSUME RowsInv, Grows, TreesInv, DumpInv, DumpCorpus
    PROVE  TreesInv' /\ DumpInv'
  <1>1. PICK c \in dump.left :
            dump' = [dump EXCEPT !.pc = "status", !.left = @ \ {c}, !.data = Graphs(c)]
    BY DEF DumpCorpus
  <1>2. dump.pc = "open" /\ UNCHANGED <<tree, index, history>>
    BY DEF DumpCorpus, Dumping
  <1>3. IsDump(dump) /\ DumpedInv(dump, tree)
    BY <1>2, Dumper
  <1>4. c \in ExportCorpora
    BY <1>3 DEF IsDump
  <1>. DEFINE pc == "status"
              left == dump.left \ {c}
              data == Graphs(c)
              e == [dump EXCEPT !.pc = pc, !.left = left, !.data = data]
  <1>5. DataAt(data, pc) /\ data.corpus = c
    BY <1>4, GraphsAt
  <1>6. FilesBy[pc] = {} /\ pc \in DOMAIN FilesBy /\ pc # "manifest"
    BY DEF FilesBy
  <1>7. left \subseteq dump.left /\ c \notin left
    OBVIOUS
  <1>8. dump' = e /\ e = [dump EXCEPT !.pc = pc, !.left = left, !.data = data]
    BY <1>1
  <1>. HIDE DEF e, pc, left, data
  <1>9. e = [pc |-> pc, left |-> left, data |-> data, written |-> dump.written]
    BY <1>3, <1>8 DEF IsDump
  <1>10. /\ e.pc = pc /\ e.left = left /\ e.data = data /\ e.written = dump.written
         /\ e = [pc |-> e.pc, left |-> e.left, data |-> e.data, written |-> e.written]
    BY <1>9
  <1>11. IsDump(e)
    BY <1>3, <1>5, <1>6, <1>7, <1>10 DEF IsDump
  <1>12. dump.pc \notin DOMAIN FilesBy
    BY <1>2 DEF FilesBy
  <1>13. AtWork(e, tree)
    BY <1>3, <1>5, <1>6, <1>7, <1>10 DEF AtWork, DumpedInv
  <1>14. DumpedInv(e, tree)
    BY <1>3, <1>7, <1>10, <1>12, <1>13 DEF DumpedInv, DumpedWhole
  <1>15. DumpInv'
    BY <1>2, <1>8, <1>11, <1>14, DumpMoves
  <1>. QED  BY <1>2, <1>15, TreesStay

LEMMA ReadForDumpKeeps ==
    ASSUME RowsInv, Grows, TreesInv, DumpInv, ReadForDump
    PROVE  TreesInv' /\ DumpInv'
  <1>. DEFINE pc == AfterRead[dump.pc]
              data == Reading(dump.data, dump.pc)
              e == [dump EXCEPT !.data = data, !.pc = pc]
  <1>1. dump.pc \in DOMAIN AfterRead /\ UNCHANGED <<tree, index, history>> /\ dump' = e
    BY DEF ReadForDump
  <1>2. dump.pc \in {"status", "records", "events"}
    BY <1>1 DEF AfterRead
  <1>3. IsDump(dump) /\ DumpedInv(dump, tree)
    BY <1>2, Dumper
  <1>4. /\ pc \in DOMAIN FilesBy /\ pc # "manifest" /\ FilesBy[pc] = {}
        /\ dump.pc \in DOMAIN FilesBy /\ FilesBy[dump.pc] = {}
    BY <1>2 DEF AfterRead, FilesBy
  <1>5. DataAt(data, pc) /\ data.corpus = dump.data.corpus
    BY <1>1, <1>3, <1>4, ReadingAt DEF IsDump
  <1>6. e = [dump EXCEPT !.data = data, !.pc = pc]
    OBVIOUS
  <1>. HIDE DEF e, pc, data
  <1>7. e = [pc |-> pc, left |-> dump.left, data |-> data, written |-> dump.written]
    BY <1>3, <1>6 DEF IsDump
  <1>8. /\ e.pc = pc /\ e.left = dump.left /\ e.data = data /\ e.written = dump.written
        /\ e = [pc |-> e.pc, left |-> e.left, data |-> e.data, written |-> e.written]
    BY <1>7
  <1>9. IsDump(e)
    BY <1>3, <1>4, <1>5, <1>8 DEF IsDump
  <1>10. AtWork(dump, tree)
    BY <1>3, <1>4 DEF DumpedInv
  <1>11. AtWork(e, tree)
    BY <1>4, <1>5, <1>8, <1>10 DEF AtWork
  <1>12. DumpedInv(e, tree)
    BY <1>3, <1>4, <1>5, <1>8, <1>11 DEF DumpedInv, DumpedWhole
  <1>13. DumpInv'
    BY <1>1, <1>9, <1>12, DumpMoves
  <1>. QED  BY <1>1, <1>13, TreesStay

\* What a dump writes of a corpus is of its journal head.
LEMMA FileIsOf ==
    ASSUME RowsInv, NEW d, DataAt(d, "data"), NEW name \in CorpusFiles
    PROVE  FileOf(DumpFile(d, name), d.corpus, d.watermark, name)
  <1>. DEFINE c == d.corpus
              w == d.watermark
              log == Upto(c, w)
  <1>1. rows[c] \in Seq(JournalRows) /\ w \in 0..Len(rows[c])
    BY DEF DataAt, Known, RowsInv
  <1>2. log \in Seq(JournalRows) /\ DOMAIN log = 1..w /\ w \in Nat
    BY <1>1 DEF Upto
  <1>3. /\ d.abox = Latest(log) /\ d.records = d.abox /\ d.gov = Events(log)
        /\ d.signedEvents = d.gov /\ d.full_shacl \in {"unvalidated", Verdict(log)}
    BY DEF DataAt
  <1>. HIDE DEF log
  <1>4. Latest(log) \subseteq 1..w /\ Events(log) \subseteq 1..w
    BY <1>2 DEF Latest, Events
  <1>5. IsFiniteSet(Latest(log)) /\ IsFiniteSet(Events(log))
    <2>1. IsFiniteSet(1..w)
      BY <1>2, FS_Interval
    <2>. QED  BY <1>4, <2>1, FS_Subset
  <1>6. Cardinality(Latest(log)) \in Nat /\ Cardinality(Events(log)) \in Nat
    BY <1>5, FS_CardinalityType
  <1>7. d.full_shacl \in {"unvalidated", "pass", "fail"}
    BY <1>3 DEF Verdict
  <1>8. CASE name = "abox"
    <2>1. Abox(d).graph = Latest(log) /\ Abox(d).records = Latest(log) /\ Abox(d) \in Contents
      <3>1. Latest(log) \in SUBSET Nat
        BY <1>2, <1>4
      <3>. QED  BY <1>3, <3>1 DEF Abox, Contents
    <2>. QED  BY <1>8, <2>1 DEF DumpFile, FileOf, log
  <1>9. CASE name = "governance"
    <2>1. Governance(d).graph = Events(log) /\ Governance(d) \in Contents
      <3>1. Events(log) \in SUBSET Nat
        BY <1>2, <1>4
      <3>. QED  BY <1>3, <3>1 DEF Governance, Contents
    <2>. QED  BY <1>9, <2>1 DEF DumpFile, FileOf, log
  <1>10. CASE name = "manifest"
    <2>. DEFINE mf == [head |-> DumpHead(d), full_shacl |-> d.full_shacl,
                       statements |-> [abox |-> Statements(Abox(d)),
                                       governance |-> Statements(Governance(d))]]
    <2>1. Statements(Abox(d)) \in Nat /\ Statements(Governance(d)) \in Nat
      BY <1>3, <1>6 DEF Statements, Abox, Governance
    <2>2. DumpHead(d) = w
      BY DEF DumpHead
    <2>3. mf \in DumpManifests /\ mf.head = w
      BY <1>2, <1>7, <2>1, <2>2 DEF DumpManifests
    <2>4. DumpFile(d, name) = mf
      BY <1>10 DEF DumpFile
    <2>. HIDE DEF mf
    <2>. QED  BY <1>10, <2>3, <2>4 DEF FileOf
  <1>. QED  BY <1>8, <1>9, <1>10 DEF CorpusFiles

LEMMA CorpusOf ==
    ASSUME DumpInv, dump.pc \in DOMAIN AfterFile
    PROVE  /\ IsDump(dump) /\ DumpedInv(dump, tree) /\ AtWork(dump, tree)
           /\ dump.data.corpus \in ExportCorpora
           /\ Known(dump.data.corpus, dump.data.watermark)
           /\ \A stage \in DOMAIN AfterFile : DataAt(dump.data, stage)
           /\ dump.pc \in DOMAIN FilesBy
  <1>1. dump.pc \in {"data", "governance", "tbox", "manifest"}
    BY DEF AfterFile
  <1>2. IsDump(dump) /\ DumpedInv(dump, tree)
    BY <1>1, Dumper
  <1>3. dump.pc \in DOMAIN FilesBy
    BY <1>1 DEF FilesBy
  <1>4. DataAt(dump.data, dump.pc) /\ AtWork(dump, tree)
    BY <1>2, <1>3 DEF IsDump, DumpedInv
  <1>5. \A stage \in DOMAIN AfterFile : DataAt(dump.data, stage)
    BY <1>1, <1>4 DEF DataAt, AfterFile
  <1>. QED  BY <1>2, <1>3, <1>4, <1>5 DEF DataAt, Known

\* A file of the corpus at hand is put into the work tree.
LEMMA CorpusFileKeeps ==
    ASSUME RowsInv, Grows, TreesInv, DumpInv, WriteDumpFile,
           dump.pc \in {"data", "governance", "manifest"}
    PROVE  TreesInv' /\ DumpInv'
  <1>. DEFINE name == IF dump.pc = "data" THEN "abox" ELSE dump.pc
              c == dump.data.corpus
              w == dump.data.watermark
              path == <<c, name>>
              file == DumpFile(dump.data, name)
              pc == IF AfterFile[dump.pc] # "corpora" THEN AfterFile[dump.pc]
                    ELSE IF dump.left = {} THEN "add" ELSE "open"
              written == dump.written \cup {path}
              files == [tree EXCEPT ![path] = file]
              e == [dump EXCEPT !.written = written, !.pc = pc]
              by == FilesBy[dump.pc] \cup {name}
  <1>1. name \in CorpusFiles /\ name # "tbox"
    BY DEF CorpusFiles
  <1>2. /\ tree' = files /\ dump' = e /\ UNCHANGED <<index, history>>
    BY <1>1 DEF WriteDumpFile, Dumping
  <1>3. dump.pc \in DOMAIN AfterFile
    BY DEF AfterFile
  <1>4. /\ IsDump(dump) /\ DumpedInv(dump, tree) /\ AtWork(dump, tree)
        /\ c \in ExportCorpora /\ Known(c, w)
        /\ \A stage \in DOMAIN AfterFile : DataAt(dump.data, stage)
        /\ dump.pc \in DOMAIN FilesBy
    BY <1>3, CorpusOf
  <1>5. FileOf(file, c, w, name)
    <2>1. DataAt(dump.data, "data")
      BY <1>4 DEF AfterFile
    <2>. QED  BY <1>1, <2>1, FileIsOf
  <1>6. \/ pc \in DOMAIN AfterFile /\ pc # "manifest" /\ pc \in DOMAIN FilesBy /\ by = FilesBy[pc]
        \/ /\ pc \in {"open", "add"} /\ pc \notin DOMAIN FilesBy /\ by = CorpusFiles
           /\ dump.pc = "manifest"
    BY DEF AfterFile, FilesBy, CorpusFiles
  <1>7. /\ e = [dump EXCEPT !.written = written, !.pc = pc]
        /\ files = [tree EXCEPT ![path] = file]
        /\ by = FilesBy[dump.pc] \cup {name} /\ written = dump.written \cup {path}
    OBVIOUS
  <1>. HIDE DEF name, pc, written, files, e, file, by
  <1>8. e = [pc |-> pc, left |-> dump.left, data |-> dump.data, written |-> written]
    BY <1>4, <1>7 DEF IsDump
  <1>9. /\ e.pc = pc /\ e.left = dump.left /\ e.data = dump.data /\ e.written = written
        /\ e = [pc |-> e.pc, left |-> e.left, data |-> e.data, written |-> e.written]
    BY <1>8
  <1>10. /\ files = [p \in DumpPaths |-> files[p]] /\ files[path] = file
         /\ \A p \in DumpPaths \ {path} : files[p] = tree[p]
    BY <1>1, <1>4, <1>7, PathFacts DEF TreesInv
  <1>11. /\ files[<<"tbox">>] = tree[<<"tbox">>]
         /\ \A q \in ExportCorpora \ {c}, n \in CorpusFiles :
               files[<<q, n>>] = tree[<<q, n>>] /\ (<<q, n>> \in written <=> <<q, n>> \in dump.written)
         /\ \A n \in CorpusFiles \ {name} :
               files[<<c, n>>] = tree[<<c, n>>] /\ (<<c, n>> \in written <=> <<c, n>> \in dump.written)
         /\ <<"tbox">> \in written <=> <<"tbox">> \in dump.written
         /\ <<c, name>> \in written
    BY <1>1, <1>4, <1>7, <1>10, PathFacts
  <1>12. FilesBy[dump.pc] \subseteq CorpusFiles
    BY DEF FilesBy, CorpusFiles
  <1>13. /\ \A n \in CorpusFiles : <<c, n>> \in written <=> n \in by
         /\ \A n \in by : FileOf(files[<<c, n>>], c, w, n)
    <2>1. \A n \in CorpusFiles : <<c, n>> \in written <=> n \in by
      BY <1>1, <1>4, <1>7, <1>11 DEF AtWork
    <2>2. ASSUME NEW n \in by
          PROVE  FileOf(files[<<c, n>>], c, w, n)
      <3>1. CASE n = name
        BY <1>5, <1>10, <3>1 DEF path
      <3>2. CASE n # name
        <4>1. n \in FilesBy[dump.pc] /\ n \in CorpusFiles
          BY <1>7, <1>12, <2>2, <3>2
        <4>2. files[<<c, n>>] = tree[<<c, n>>]
          BY <1>11, <3>2, <4>1
        <4>. QED  BY <1>4, <4>1, <4>2 DEF AtWork
      <3>. QED  BY <3>1, <3>2
    <2>. QED  BY <2>1, <2>2
  <1>14. ASSUME NEW q \in ExportCorpora \ {c}
         PROVE  DumpedWhole(e, files, q)
    <2>1. DumpedWhole(dump, tree, q)
      BY <1>4 DEF DumpedInv
    <2>2. WholeIn(tree, q) => WholeIn(files, q)
      BY <1>11 DEF WholeIn
    <2>. QED  BY <1>9, <1>11, <2>1, <2>2 DEF DumpedWhole
  <1>15. \A q \in e.left, n \in CorpusFiles : <<q, n>> \notin e.written
    <2>1. c \notin dump.left /\ dump.left \subseteq ExportCorpora
      BY <1>4 DEF AtWork, IsDump
    <2>. QED  BY <1>4, <1>9, <1>11, <2>1 DEF DumpedInv
  <1>16. <<"tbox">> \in e.written => files[<<"tbox">>] = "tbox"
    BY <1>4, <1>9, <1>11 DEF DumpedInv
  <1>17. written \subseteq DumpPaths
    BY <1>1, <1>4, <1>7, PathFacts DEF IsDump
  <1>18. IsDump(e) /\ DumpedInv(e, files)
    <2>1. CASE pc \in DOMAIN AfterFile /\ pc # "manifest" /\ pc \in DOMAIN FilesBy /\ by = FilesBy[pc]
      <3>1. IsDump(e)
        BY <1>4, <1>9, <1>17, <2>1 DEF IsDump
      <3>2. AtWork(e, files)
        BY <1>4, <1>9, <1>12, <1>13, <2>1 DEF AtWork
      <3>. QED  BY <1>9, <1>14, <1>15, <1>16, <2>1, <3>1, <3>2 DEF DumpedInv
    <2>2. CASE /\ pc \in {"open", "add"} /\ pc \notin DOMAIN FilesBy /\ by = CorpusFiles
               /\ dump.pc = "manifest"
      <3>1. IsDump(e)
        BY <1>4, <1>9, <1>17, <2>2 DEF IsDump
      <3>2. WholeIn(files, c)
        BY <1>4, <1>13, <2>2 DEF WholeIn, Known
      <3>3. DumpedWhole(e, files, c)
        BY <1>4, <1>9, <1>11, <1>13, <2>2, <3>2 DEF DumpedWhole, AtWork
      <3>. QED  BY <1>9, <1>14, <1>15, <1>16, <2>2, <3>1, <3>3 DEF DumpedInv
    <2>. QED  BY <1>6, <2>1, <2>2
  <1>19. DumpInv'
    BY <1>2, <1>18, DumpMoves
  <1>20. TreesInv'
    BY <1>2, <1>10, TreesMove DEF TreesInv
  <1>. QED  BY <1>19, <1>20

LEMMA TBoxKeeps ==
    ASSUME RowsInv, Grows, TreesInv, DumpInv, WriteDumpFile, dump.pc = "tbox"
    PROVE  TreesInv' /\ DumpInv'
  <1>. DEFINE c == dump.data.corpus
              path == <<"tbox">>
              pc == "manifest"
              written == dump.written \cup {path}
              files == [tree EXCEPT ![path] = "tbox"]
              e == [dump EXCEPT !.written = written, !.pc = pc]
  <1>1. /\ tree' = files /\ dump' = e /\ UNCHANGED <<index, history>>
    BY DEF WriteDumpFile, Dumping, AfterFile
  <1>2. dump.pc \in DOMAIN AfterFile /\ pc \in DOMAIN AfterFile /\ pc \in DOMAIN FilesBy
        /\ FilesBy[pc] = FilesBy[dump.pc] /\ FilesBy[pc] \subseteq CorpusFiles
    BY DEF AfterFile, FilesBy, CorpusFiles
  <1>3. /\ IsDump(dump) /\ DumpedInv(dump, tree) /\ AtWork(dump, tree)
        /\ c \in ExportCorpora
        /\ \A stage \in DOMAIN AfterFile : DataAt(dump.data, stage)
    BY <1>2, CorpusOf
  <1>4. /\ e = [dump EXCEPT !.written = written, !.pc = pc]
        /\ files = [tree EXCEPT ![path] = "tbox"] /\ written = dump.written \cup {path}
    OBVIOUS
  <1>. HIDE DEF pc, written, files, e
  <1>5. e = [pc |-> pc, left |-> dump.left, data |-> dump.data, written |-> written]
    BY <1>3, <1>4 DEF IsDump
  <1>6. /\ e.pc = pc /\ e.left = dump.left /\ e.data = dump.data /\ e.written = written
        /\ e = [pc |-> e.pc, left |-> e.left, data |-> e.data, written |-> e.written]
    BY <1>5
  <1>7. /\ files = [p \in DumpPaths |-> files[p]] /\ files[path] = "tbox"
        /\ \A p \in DumpPaths \ {path} : files[p] = tree[p]
    BY <1>4, PathFacts DEF TreesInv
  <1>8. \A q \in ExportCorpora, n \in CorpusFiles :
           files[<<q, n>>] = tree[<<q, n>>] /\ (<<q, n>> \in written <=> <<q, n>> \in dump.written)
    BY <1>4, <1>7, PathFacts
  <1>9. <<"tbox">> \in written
    BY <1>4
  <1>10. IsDump(e)
    BY <1>2, <1>3, <1>4, <1>6, PathFacts DEF IsDump
  <1>11. AtWork(e, files)
    BY <1>2, <1>3, <1>6, <1>8, <1>9 DEF AtWork
  <1>12. ASSUME NEW q \in ExportCorpora, DumpedWhole(dump, tree, q)
         PROVE  DumpedWhole(e, files, q)
    <2>1. WholeIn(tree, q) => WholeIn(files, q)
      BY <1>8 DEF WholeIn
    <2>. QED  BY <1>6, <1>8, <1>9, <1>12, <2>1 DEF DumpedWhole
  <1>13. \A q \in dump.left : q \in ExportCorpora
    BY <1>3 DEF IsDump
  <1>14. DumpedInv(e, files)
    BY <1>2, <1>3, <1>6, <1>7, <1>8, <1>11, <1>12, <1>13 DEF DumpedInv
  <1>15. DumpInv'
    BY <1>1, <1>10, <1>14, DumpMoves
  <1>16. TreesInv'
    BY <1>1, <1>7, TreesMove DEF TreesInv
  <1>. QED  BY <1>15, <1>16

\* What is added is whole: the corpora of this dump, and the others as they were.
LEMMA AddKeeps ==
    ASSUME RowsInv, Grows, TreesInv, DumpInv, AddDump
    PROVE  TreesInv' /\ DumpInv'
  <1>. DEFINE e == [dump EXCEPT !.pc = "commit"]
  <1>1. dump.pc = "add" /\ index' = Added /\ dump' = e /\ UNCHANGED <<tree, history>>
    BY DEF AddDump, Dumping
  <1>2. IsDump(dump) /\ DumpedInv(dump, tree) /\ dump.pc \notin DOMAIN FilesBy
    BY <1>1, Dumper DEF FilesBy
  <1>3. e = [pc |-> "commit", left |-> dump.left, data |-> dump.data, written |-> dump.written]
    BY <1>2 DEF IsDump
  <1>. HIDE DEF e
  <1>4. /\ e.pc = "commit" /\ e.left = dump.left /\ e.data = dump.data /\ e.written = dump.written
        /\ e = [pc |-> e.pc, left |-> e.left, data |-> e.data, written |-> e.written]
        /\ e.pc \notin DOMAIN FilesBy
    BY <1>3 DEF FilesBy
  <1>5. IsDump(e) /\ DumpedInv(e, tree)
    BY <1>2, <1>4 DEF IsDump, DumpedInv, DumpedWhole
  <1>6. DumpInv'
    BY <1>1, <1>5, DumpMoves
  <1>7. /\ Added = [p \in DumpPaths |-> Added[p]]
        /\ \A p \in DumpPaths : Added[p] = IF p \in dump.written THEN tree[p] ELSE index[p]
    BY DEF Added
  <1>8. ASSUME NEW c \in ExportCorpora
        PROVE  \/ \A name \in CorpusFiles : Added[<<c, name>>] = NoFile
               \/ WholeIn(Added, c) /\ Added[<<"tbox">>] # NoFile
    <2>1. \A name \in CorpusFiles :
             Added[<<c, name>>] = IF <<c, name>> \in dump.written THEN tree[<<c, name>>]
                                  ELSE index[<<c, name>>]
      BY <1>7, PathFacts
    <2>2. <<"tbox">> \in dump.written => Added[<<"tbox">>] # NoFile
      BY <1>2, <1>7, PathFacts, NoFileAssumption DEF DumpedInv
    <2>3. CASE \A name \in CorpusFiles : <<c, name>> \notin dump.written
      <3>1. \A name \in CorpusFiles : Added[<<c, name>>] = index[<<c, name>>]
        BY <2>1, <2>3
      <3>2. WholeIn(index, c) => WholeIn(Added, c)
        BY <3>1 DEF WholeIn
      <3>3. index[<<"tbox">>] # NoFile => Added[<<"tbox">>] # NoFile
        BY <1>7, <2>2, PathFacts
      <3>4. \/ \A name \in CorpusFiles : index[<<c, name>>] = NoFile
            \/ WholeIn(index, c) /\ index[<<"tbox">>] # NoFile
        BY DEF TreesInv, WholeTree
      <3>. QED  BY <3>1, <3>2, <3>3, <3>4
    <2>4. CASE /\ \A name \in CorpusFiles : <<c, name>> \in dump.written
               /\ WholeIn(tree, c) /\ <<"tbox">> \in dump.written
      <3>1. \A name \in CorpusFiles : Added[<<c, name>>] = tree[<<c, name>>]
        BY <2>1, <2>4
      <3>2. WholeIn(Added, c)
        BY <2>4, <3>1 DEF WholeIn
      <3>. QED  BY <2>2, <2>4, <3>2
    <2>5. DumpedWhole(dump, tree, c)
      BY <1>2 DEF DumpedInv
    <2>. QED  BY <2>3, <2>4, <2>5 DEF DumpedWhole
  <1>9. WholeTree(Added)
    BY <1>7, <1>8 DEF WholeTree
  <1>10. TreesInv'
    BY <1>1, <1>9, TreesMove DEF TreesInv
  <1>. QED  BY <1>6, <1>10

LEMMA CommitKeeps ==
    ASSUME RowsInv, Grows, TreesInv, DumpInv, CommitDump \/ StopDump
    PROVE  TreesInv' /\ DumpInv'
  <1>1. /\ dump' = NoDump /\ UNCHANGED <<tree, index>>
        /\ history' = history \/ history' = Append(history, index)
    BY DEF CommitDump, StopDump
  <1>. QED  BY <1>1, TreesMove DEF TreesInv, DumpInv

-----------------------------------------------------------------------------
LEMMA PublishedInit ==
    ASSUME InitExport
    PROVE  PublishedInv
  <1>1. RowsInv
    <2>1. \A c \in ExportCorpora : /\ rows[c] = <<>> /\ checked[c].position = 0
                                   /\ checked[c].state = "pass"
      BY DEF InitExport
    <2>2. <<>> \in Seq(JournalRows) /\ SubSeq(<<>>, 1, 0) = <<>> /\ 0 \in 0..Len(<<>>)
      OBVIOUS
    <2>3. Verdict(<<>>) = "pass"
      BY DEF Verdict, Latest
    <2>4. /\ rows = [c \in ExportCorpora |-> rows[c]]
          /\ checked = [c \in ExportCorpora |-> checked[c]]
      BY DEF InitExport
    <2>. QED  BY <2>1, <2>2, <2>3, <2>4 DEF RowsInv, Known, Upto
  <1>2. DestsInv
    <2>1. ASSUME NEW d \in {Absent, Empty}
          PROVE  IsDest(d) /\ d.manifest = NoFile
      <3>1. IsDest(Absent) /\ Absent.manifest = NoFile
        BY DEF IsDest, Absent
      <3>. DEFINE yes == TRUE
      <3>2. Empty = [Absent EXCEPT !.exists = yes]
        BY DEF Empty
      <3>. HIDE DEF yes
      <3>3. Empty = [exists |-> yes, folders |-> Absent.folders,
                     files |-> Absent.files, manifest |-> NoFile]
        BY <3>1, <3>2 DEF IsDest
      <3>4. IsDest(Empty) /\ Empty.manifest = NoFile
        BY <3>3 DEF IsDest
      <3>. QED  BY <3>1, <3>4
    <2>. QED  BY <2>1 DEF InitExport, DestsInv
  <1>3. ExportInv /\ DumpInv
    BY DEF InitExport, ExportInv, DumpInv
  <1>4. TreesInv
    <2>1. WholeTree(NoTree) /\ NoTree = [p \in DumpPaths |-> NoTree[p]]
      BY PathFacts DEF WholeTree, NoTree
    <2>2. <<>> \in Seq({<<>>[k] : k \in DOMAIN <<>>}) /\ DOMAIN <<>> = {}
      OBVIOUS
    <2>. QED  BY <2>1, <2>2 DEF InitExport, TreesInv
  <1>. QED  BY <1>1, <1>2, <1>3, <1>4 DEF PublishedInv

LEMMA PublishedNext ==
    ASSUME PublishedInv, [NextExport]_exportVars
    PROVE  PublishedInv'
  <1>1. RowsInv /\ DestsInv /\ ExportInv /\ TreesInv /\ DumpInv /\ RowsInv' /\ Grows
    BY RowsMove DEF PublishedInv
  <1>2. ASSUME UNCHANGED <<dest, export>>
        PROVE  DestsInv' /\ ExportInv'
    BY <1>1, <1>2, DestsStay, ExportStays
  <1>3. ASSUME UNCHANGED <<tree, index, history, dump>>
        PROVE  TreesInv' /\ DumpInv'
    BY <1>1, <1>3, TreesStay, DumpStays
  <1>4. CASE UNCHANGED exportVars \/ Restore \/ \E c \in ExportCorpora : Write(c) \/ Validate(c)
    BY <1>1, <1>2, <1>3, <1>4 DEF exportVars, Restore, Write, Validate, PublishedInv
  <1>5. CASE ExportStep \/ FailFormat \/ FailManifest \/ CrashExport
    <2>1. UNCHANGED <<tree, index, history, dump>>
      BY <1>5 DEF ExportStep, BeginExport, ReadForExport, OpenDestination, WriteFormat,
         WriteManifest, FailFormat, FailManifest, CrashExport
    <2>2. DestsInv' /\ ExportInv'
      BY <1>1, <1>5, BeginExportKeeps, ReadForExportKeeps, OpenKeeps, WriteFormatKeeps,
         WriteManifestKeeps, FailKeeps DEF ExportStep
    <2>. QED  BY <1>1, <1>3, <2>1, <2>2 DEF PublishedInv
  <1>6. CASE DumpStep \/ StopDump
    <2>1. UNCHANGED <<dest, export>>
      BY <1>6 DEF DumpStep, BeginDump, DumpCorpus, ReadForDump, WriteDumpFile, AddDump,
         CommitDump, StopDump
    <2>2. ASSUME WriteDumpFile
          PROVE  TreesInv' /\ DumpInv'
      <3>1. dump.pc \in {"data", "governance", "tbox", "manifest"}
        BY <2>2 DEF WriteDumpFile, AfterFile
      <3>. QED  BY <1>1, <2>2, <3>1, CorpusFileKeeps, TBoxKeeps
    <2>3. TreesInv' /\ DumpInv'
      BY <1>1, <1>6, <2>2, BeginDumpKeeps, DumpCorpusKeeps, ReadForDumpKeeps, AddKeeps,
         CommitKeeps DEF DumpStep
    <2>. QED  BY <1>1, <1>2, <2>1, <2>3 DEF PublishedInv
  <1>. QED  BY <1>4, <1>5, <1>6 DEF NextExport

\* Whatever is written meanwhile and wherever a call or a process stops: an export is of one
\* moment of its corpus, and so is each corpus of a dump.
THEOREM PublishedInductive == ExportSpec => []PublishedInv
  <1>. QED  BY PublishedInit, PublishedNext, PTL DEF ExportSpec

\* A manifest tells the truth about the files beside it.
THEOREM ManifestsAreTrue == ExportSpec => []ManifestIsTrue
  <1>1. PublishedInv => ManifestIsTrue
    BY DEF PublishedInv, DestsInv, IsTrueOf, ManifestIsTrue
  <1>. QED  BY <1>1, PublishedInductive, PTL

\* Every commit of the dump repository holds each corpus whole, as of the head its manifest
\* names.
THEOREM CommitsAreWhole == ExportSpec => []CommittedIsWhole
  <1>1. PublishedInv => CommittedIsWhole
    <2>. SUFFICES ASSUME PublishedInv, NEW i \in DOMAIN history, NEW c \in ExportCorpora,
                         NEW files, files = history[i],
                         ~\A name \in CorpusFiles : files[<<c, name>>] = NoFile
                  PROVE  /\ \A name \in CorpusFiles : files[<<c, name>>] # NoFile
                         /\ files[<<c, "abox">>].graph = Latest(Upto(c, HeadOf(files, c)))
                         /\ files[<<c, "abox">>].records = files[<<c, "abox">>].graph
                         /\ files[<<c, "governance">>].graph = Events(Upto(c, HeadOf(files, c)))
                         /\ files[<<"tbox">>] # NoFile
      BY DEF CommittedIsWhole, CorpusFiles
    <2>1. WholeTree(files)
      BY DEF PublishedInv, TreesInv
    <2>2. WholeIn(files, c) /\ files[<<"tbox">>] # NoFile
      BY <2>1 DEF WholeTree
    <2>3. PICK head \in 0..Len(rows[c]) :
             \A name \in CorpusFiles : FileOf(files[<<c, name>>], c, head, name)
      BY <2>2 DEF WholeIn
    <2>4. /\ FileOf(files[<<c, "abox">>], c, head, "abox")
          /\ FileOf(files[<<c, "governance">>], c, head, "governance")
          /\ FileOf(files[<<c, "manifest">>], c, head, "manifest")
      BY <2>3 DEF CorpusFiles
    <2>5. /\ files[<<c, "abox">>] \in Contents
          /\ files[<<c, "abox">>].graph = Latest(Upto(c, head))
          /\ files[<<c, "abox">>].records = files[<<c, "abox">>].graph
      BY <2>4 DEF FileOf
    <2>6. /\ files[<<c, "governance">>] \in Contents
          /\ files[<<c, "governance">>].graph = Events(Upto(c, head))
      BY <2>4 DEF FileOf
    <2>7. files[<<c, "manifest">>] \in DumpManifests /\ files[<<c, "manifest">>].head = head
      BY <2>4 DEF FileOf
    <2>8. \A name \in CorpusFiles : files[<<c, name>>] # NoFile
      BY <2>5, <2>6, <2>7, NoFileAssumption DEF CorpusFiles
    <2>. QED  BY <2>2, <2>5, <2>6, <2>7, <2>8 DEF HeadOf
  <1>. QED  BY <1>1, PublishedInductive, PTL

-----------------------------------------------------------------------------
(* The governance log, for any signers, roles, commands, clock and length of   *)
(* the journal. The inductive invariant says what a row, a preview and a       *)
(* command may hold (Shapes), that the times of the rows are in the order of   *)
(* the rows (InOrder), and what a preview is worth while the journal has not   *)
(* moved (PreviewsCurrent); the safety invariants the runs check are its last  *)
(* conjuncts.                                                                  *)

Previews == [by : Commands, based : Nat, shards : Nat, events : Nat]

RoleEvents ==
    [did : Dids, action : {"role_assertion", "role_revocation"}, position : {-1, 0},
     signed : Int, subject : Dids, role : Roles \cup {"corpus_admin"}]

Retractions ==
    [did : Dids, action : {"retract"}, position : {-1}, signed : Int, preview : Previews]

ShardEvents == [action : {"put_shard"}, related : BOOLEAN]

Ops == [kind : {"genesis", "shard"}] \cup [kind : {"command"}, by : Commands, event : RoleEvents]
           \cup [kind : {"preview"}, of : Previews]

Rows == [op : Ops, event : RoleEvents \cup Retractions \cup ShardEvents, at : 0..MaxTime]

JournalHead == Len(journal)

(* What a command remembers is still true, if the journal has not moved.    *)
CommandInv(s) ==
    \/ s = Idle
    \/ s \in [pc : {"allowed"}, did : Dids]
    \/ s \in [pc : {"building"}, based : Nat] /\ s.based <= JournalHead
    \/ /\ s \in [pc : {"hashing"}, based : Nat, shards : Nat]
       /\ s.based <= JournalHead /\ s.shards <= JournalHead
       /\ s.based = JournalHead => s.shards = ShardState(JournalHead)
    \/ /\ s \in [pc : {"rebuilding", "comparing"}, did : Dids, saved : Previews]
       /\ s.saved \in previews
    \/ s \in [pc : {"signed"}, op : Ops, event : RoleEvents, head : {None}]
    \/ /\ s \in [pc : {"signed"}, op : Ops, event : Retractions, head : Nat]
       /\ s.head = s.event.preview.based
       /\ s.event.preview \in previews

Shapes ==
    /\ journal \in Seq(Rows)
    /\ clock \in 0..MaxTime
    /\ previews \subseteq Previews
    /\ DOMAIN cmd = Commands
    /\ \A c \in Commands : CommandInv(cmd[c])

PreviewsCurrent ==
    \A p \in previews :
        /\ p.based <= JournalHead /\ p.shards <= JournalHead /\ p.events <= JournalHead
        /\ p.based = JournalHead => p.shards = ShardState(JournalHead) /\ p.events = LogState(JournalHead)

(* The newest event has the highest time: what Max({..}) of ServerTime      *)
(* needs to exist, without an induction over the journal.                   *)
InOrder ==
    Governed # {} => \E m \in Governed : \A i \in Governed : journal[i].at <= journal[m].at

HasAdmin == Governed # {} => \E d \in Dids : Holds(d, "corpus_admin", MaxTime)

(* What the rows say does not depend on the clock, the previews and the     *)
(* commands.                                                                *)
LogInv ==
    /\ InOrder
    /\ HasAdmin
    /\ CommittedByPermitted
    /\ OneGenesis
    /\ SignedOnce
    /\ CascadeCurrent

GovInv == Shapes /\ PreviewsCurrent /\ LogInv


-----------------------------------------------------------------------------
(* The journal and its clock. *)

LEMMA GovernanceRows ==
    ASSUME Shapes
    PROVE  /\ Len(journal) \in Nat
           /\ DOMAIN journal = 1..Len(journal)
           /\ Governed \subseteq 1..Len(journal)
           /\ \A i \in 1..Len(journal) : journal[i] \in Rows /\ journal[i].at \in 0..MaxTime
           /\ \A i \in Governed : journal[i].event \in RoleEvents \cup Retractions
           /\ IsFiniteSet(Governed)
  <1>1. /\ Len(journal) \in Nat
        /\ DOMAIN journal = 1..Len(journal)
        /\ \A i \in 1..Len(journal) : journal[i] \in Rows
    BY DEF Shapes
  <1>2. Governed \subseteq 1..Len(journal)
    BY <1>1 DEF Governed
  <1>3. \A i \in Governed : journal[i].event \in RoleEvents \cup Retractions
    BY <1>1, <1>2 DEF Governed, Rows, ShardEvents
  <1>4. IsFiniteSet(Governed)
    <2>1. IsFiniteSet(1..Len(journal))
      BY <1>1, FS_Interval
    <2>. QED  BY <1>2, <2>1, FS_Subset
  <1>. QED  BY <1>1, <1>2, <1>3, <1>4 DEF Rows

(* The log and the shards a cascade reads are no more than the rows. *)
LEMMA Counts ==
    ASSUME Shapes
    PROVE  /\ ShardState(Len(journal)) \in Nat /\ ShardState(Len(journal)) <= Len(journal)
           /\ LogState(Len(journal)) \in Nat /\ LogState(Len(journal)) <= Len(journal)
  <1>. DEFINE n == Len(journal)
  <1>1. ASSUME NEW S, S \subseteq 1..n
        PROVE  Cardinality(S) \in Nat /\ Cardinality(S) <= n
    <2>1. IsFiniteSet(1..n) /\ Cardinality(1..n) = n
      <3>1. n \in Nat
        BY GovernanceRows
      <3>2. Cardinality(1..n) = (IF 1 > n THEN 0 ELSE n - 1 + 1) /\ IsFiniteSet(1..n)
        BY <3>1, FS_Interval
      <3>. HIDE DEF n
      <3>. QED  BY <3>1, <3>2
    <2>2. IsFiniteSet(S) /\ Cardinality(S) <= Cardinality(1..n)
      BY <1>1, <2>1, FS_Subset
    <2>. QED  BY <2>1, <2>2, FS_CardinalityType
  <1>. QED  BY <1>1 DEF ShardState, LogState

(* The time of the next event is the clock's, or the newest event's. *)
LEMMA Times ==
    ASSUME Shapes, InOrder
    PROVE  /\ ServerTime \in 0..MaxTime
           /\ \A i \in Governed : journal[i].at <= ServerTime
  <1>. DEFINE S == {clock} \cup {journal[i].at : i \in Governed}
  <1>1. S \subseteq 0..MaxTime /\ 0..MaxTime \subseteq Int
    BY GovernanceRows, GovernanceAssumption DEF Shapes
  <1>2. \E m \in S : \A y \in S : m >= y
    <2>1. CASE Governed = {}
      BY <2>1, <1>1
    <2>2. CASE Governed # {}
      <3>1. PICK m \in Governed : \A i \in Governed : journal[i].at <= journal[m].at
        BY <2>2 DEF InOrder
      <3>2. journal[m].at \in S /\ clock \in S
        OBVIOUS
      <3>3. CASE clock >= journal[m].at
        <4>1. \A y \in S : clock >= y
          BY <1>1, <3>1, <3>2, <3>3
        <4>. QED  BY <3>2, <4>1
      <3>4. CASE ~(clock >= journal[m].at)
        <4>1. \A y \in S : journal[m].at >= y
          BY <1>1, <3>1, <3>2, <3>4
        <4>. QED  BY <3>2, <4>1
      <3>. QED  BY <3>3, <3>4
    <2>. QED  BY <2>1, <2>2
  <1>3. Max(S) \in S /\ \A y \in S : Max(S) >= y
    BY <1>2 DEF Max
  <1>4. ServerTime = Max(S)
    BY DEF ServerTime
  <1>. HIDE DEF S
  <1>5. \A i \in Governed : journal[i].at \in S
    BY DEF S
  <1>. QED  BY <1>1, <1>3, <1>4, <1>5

LEMMA Appended ==
    ASSUME Shapes, NEW r \in Rows, journal' = Append(journal, r)
    PROVE  /\ journal' \in Seq(Rows)
           /\ Len(journal)' = Len(journal) + 1
           /\ journal'[Len(journal) + 1] = r
           /\ \A i \in 1..Len(journal) : journal'[i] = journal[i]
           /\ Governed' = IF r.event.action = "put_shard" THEN Governed
                          ELSE Governed \cup {Len(journal) + 1}
           /\ \A n \in 0..Len(journal) : /\ ShardState(n)' = ShardState(n)
                                         /\ LogState(n)' = LogState(n)
                                         /\ (Governed \cap 1..n)' = Governed \cap 1..n
  <1>. DEFINE n == Len(journal)
  <1>1. /\ journal' \in Seq(Rows)
        /\ Len(journal') = n + 1
        /\ DOMAIN journal' = 1..n + 1
        /\ journal'[n + 1] = r
        /\ \A i \in 1..n : journal'[i] = journal[i]
    BY DEF Shapes
  <1>2. n \in Nat /\ DOMAIN journal = 1..n
    BY GovernanceRows
  <1>. HIDE DEF n
  <1>3. Governed' = IF r.event.action = "put_shard" THEN Governed ELSE Governed \cup {n + 1}
    BY <1>1, <1>2 DEF Governed
  <1>4. ASSUME NEW k \in 0..n
        PROVE  /\ ShardState(k)' = ShardState(k)
               /\ LogState(k)' = LogState(k)
               /\ (Governed \cap 1..k)' = Governed \cap 1..k
    <2>1. {i \in 1..k : journal'[i].event.action = "put_shard" /\ journal'[i].event.related}
            = {i \in 1..k : journal[i].event.action = "put_shard" /\ journal[i].event.related}
      BY <1>1, <1>2
    <2>2. Governed' \cap 1..k = Governed \cap 1..k
      BY <1>2, <1>3
    <2>. QED  BY <2>1, <2>2 DEF ShardState, LogState
  <1>. QED  BY <1>1, <1>3, <1>4 DEF n

-----------------------------------------------------------------------------
LEMMA LogUnchanged ==
    ASSUME LogInv, journal' = journal
    PROVE  LogInv'
  <1>1. Governed' = Governed
    BY DEF Governed
  <1>2. InOrder'
    BY <1>1 DEF LogInv, InOrder
  <1>3. HasAdmin'
    BY <1>1 DEF LogInv, HasAdmin, Holds, HoldsIn, Asserts, Revokes
  <1>4. CommittedByPermitted'
    BY <1>1 DEF LogInv, CommittedByPermitted, PermittedByThen, HoldsIn, Asserts, Revokes
  <1>5. OneGenesis' /\ SignedOnce'
    BY <1>1 DEF LogInv, OneGenesis, SignedOnce
  <1>6. CascadeCurrent'
    BY <1>1 DEF LogInv, CascadeCurrent, ShardState, LogState
  <1>. QED  BY <1>2, <1>3, <1>4, <1>5, <1>6 DEF LogInv

(* A command that writes nothing keeps the invariant if what it remembers   *)
(* afterwards is true.                                                      *)
LEMMA CommandKeeps ==
    ASSUME Shapes, PreviewsCurrent, LogInv, NEW c \in Commands, NEW s,
           cmd' = [cmd EXCEPT ![c] = s], CommandInv(s),
           journal' = journal, clock' = clock, previews' = previews
    PROVE  Shapes' /\ PreviewsCurrent' /\ LogInv'
  <1>1. Len(journal') = Len(journal) /\ ShardState(Len(journal))' = ShardState(Len(journal))
        /\ LogState(Len(journal))' = LogState(Len(journal))
    BY DEF ShardState, LogState, Governed
  <1>2. \A t : CommandInv(t) => CommandInv(t)'
    BY <1>1 DEF CommandInv, JournalHead
  <1>3. DOMAIN cmd' = Commands /\ \A d \in Commands : CommandInv(cmd'[d])
    BY DEF Shapes
  <1>4. Shapes'
    BY <1>2, <1>3 DEF Shapes
  <1>5. PreviewsCurrent'
    BY <1>1 DEF PreviewsCurrent, JournalHead
  <1>. QED  BY <1>4, <1>5, LogUnchanged

LEMMA IdleInv == CommandInv(Idle)
  BY DEF CommandInv

LEMMA SignedPosition ==
    ASSUME NEW did, NEW action, NEW position, NEW subject, NEW role,
           did \in Dids, action \in {"role_assertion", "role_revocation"}, position \in {-1, 0},
           subject \in Dids, role \in Roles \cup {"corpus_admin"}, Shapes
    PROVE  RoleEvent(did, action, position, subject, role) \in RoleEvents
  BY GovernanceAssumption DEF RoleEvent, RoleEvents, Shapes

LEMMA ReadingKeeps ==
    ASSUME GovInv, NEW c \in Commands,
           \/ CorpusInit(c) \/ SignRoleEvent(c) \/ AuthorizeRetract(c) \/ BeginPreview(c)
           \/ ReadShards(c) \/ BeginApply(c) \/ CompareShards(c) \/ SignRetraction(c)
           \/ Crash(c)
    PROVE  GovInv'
  <1>. Shapes /\ PreviewsCurrent /\ LogInv
    BY DEF GovInv
  <1>1. CommandInv(cmd[c]) /\ Len(journal) \in Nat
    BY GovernanceRows DEF Shapes
  <1>2. ASSUME NEW s, CommandInv(s), Goto(c, s), UNCHANGED <<journal, clock, previews>>
        PROVE  GovInv'
    BY <1>2, CommandKeeps DEF Goto, GovInv
  <1>3. CASE CorpusInit(c)
    <2>1. PICK did \in Dids :
            Goto(c, Signed([kind |-> "genesis"],
                           RoleEvent(did, "role_assertion", 0, did, "corpus_admin"), None))
      BY <1>3 DEF CorpusInit
    <2>. DEFINE e == RoleEvent(did, "role_assertion", 0, did, "corpus_admin")
    <2>2. e \in RoleEvents
      BY SignedPosition
    <2>. HIDE DEF e
    <2>3. CommandInv(Signed([kind |-> "genesis"], e, None))
      BY <2>2 DEF CommandInv, Signed, Ops
    <2>. QED  BY <1>2, <1>3, <2>1, <2>3 DEF CorpusInit, e
  <1>4. CASE SignRoleEvent(c)
    <2>1. PICK did \in Dids, subject \in Dids, role \in Roles,
               action \in {"role_assertion", "role_revocation"} :
            Goto(c, Signed([kind |-> "command", by |-> c,
                            event |-> RoleEvent(did, action, -1, subject, role)],
                           RoleEvent(did, action, -1, subject, role), None))
      BY <1>4 DEF SignRoleEvent
    <2>. DEFINE e == RoleEvent(did, action, -1, subject, role)
    <2>2. e \in RoleEvents
      BY SignedPosition
    <2>. HIDE DEF e
    <2>3. CommandInv(Signed([kind |-> "command", by |-> c, event |-> e], e, None))
      BY <2>2 DEF CommandInv, Signed, Ops
    <2>. QED  BY <1>2, <1>4, <2>1, <2>3 DEF SignRoleEvent, e
  <1>5. CASE AuthorizeRetract(c)
    BY <1>2, <1>5 DEF AuthorizeRetract, CommandInv
  <1>6. CASE BeginPreview(c)
    <2>1. CommandInv([pc |-> "building", based |-> Len(journal)])
      BY <1>1 DEF CommandInv, JournalHead
    <2>. QED  BY <1>2, <1>6, <2>1 DEF BeginPreview
  <1>7. CASE ReadShards(c)
    <2>1. cmd[c].based \in Nat /\ cmd[c].based <= Len(journal)
      BY <1>1, <1>7 DEF ReadShards, CommandInv, JournalHead, Idle
    <2>2. ShardState(Len(journal)) \in Nat /\ ShardState(Len(journal)) <= Len(journal)
      BY Counts
    <2>3. CommandInv([pc |-> "hashing", based |-> cmd[c].based,
                      shards |-> ShardState(Len(journal))])
      BY <2>1, <2>2 DEF CommandInv, JournalHead
    <2>. QED  BY <1>2, <1>7, <2>3 DEF ReadShards
  <1>8. CASE BeginApply(c)
    <2>1. cmd[c].did \in Dids
      BY <1>1, <1>8 DEF BeginApply, CommandInv, Idle
    <2>2. ASSUME NEW p \in previews
          PROVE  CommandInv([pc |-> "rebuilding", did |-> cmd[c].did, saved |-> p])
      BY <2>1 DEF CommandInv, Shapes
    <2>. QED  BY <1>2, <1>8, <2>2, IdleInv DEF BeginApply, EndCommand
  <1>9. CASE CompareShards(c)
    <2>1. /\ cmd[c] \in [pc : {"rebuilding", "comparing"}, did : Dids, saved : Previews]
          /\ cmd[c].saved \in previews
      BY <1>1, <1>9 DEF CompareShards, CommandInv, Idle
    <2>2. CommandInv([cmd[c] EXCEPT !.pc = "comparing"])
      BY <2>1 DEF CommandInv
    <2>. QED  BY <1>2, <1>9, <2>2, IdleInv DEF CompareShards, EndCommand
  <1>10. CASE SignRetraction(c)
    <2>. DEFINE p == cmd[c].saved
                e == [did |-> cmd[c].did, action |-> "retract", position |-> -1,
                      signed |-> clock, preview |-> p]
    <2>1. p \in previews /\ p \in Previews /\ cmd[c].did \in Dids
      BY <1>1, <1>10 DEF SignRetraction, CommandInv, Idle
    <2>2. e \in Retractions /\ e.preview = p
      BY <2>1, GovernanceAssumption DEF Retractions, Shapes
    <2>. HIDE DEF e
    <2>3. CommandInv(Signed(PreviewOp(p), e, p.based))
      <3>1. PreviewOp(p) \in Ops
        BY <2>1 DEF PreviewOp, Ops
      <3>2. p.based \in Nat
        BY <2>1 DEF Previews
      <3>. HIDE DEF p
      <3>. QED  BY <2>1, <2>2, <3>1, <3>2 DEF CommandInv, Signed
    <2>. QED  BY <1>2, <1>10, <2>3, IdleInv DEF SignRetraction, EndCommand, e
  <1>11. CASE Crash(c)
    BY <1>2, <1>11, IdleInv DEF Crash, EndCommand
  <1>. QED  BY <1>3, <1>4, <1>5, <1>6, <1>7, <1>8, <1>9, <1>10, <1>11

LEMMA SavingKeeps ==
    ASSUME GovInv, NEW c \in Commands, SavePreview(c)
    PROVE  GovInv'
  <1>. Shapes /\ PreviewsCurrent /\ LogInv
    BY DEF GovInv
  <1>. DEFINE p == [by |-> c, based |-> cmd[c].based, shards |-> cmd[c].shards,
                    events |-> LogState(Len(journal))]
  <1>1. CommandInv(cmd[c]) /\ Len(journal) \in Nat
    BY GovernanceRows DEF Shapes
  <1>2. /\ cmd[c] \in [pc : {"hashing"}, based : Nat, shards : Nat]
        /\ cmd[c].based <= JournalHead /\ cmd[c].shards <= JournalHead
        /\ cmd[c].based = JournalHead => cmd[c].shards = ShardState(JournalHead)
    BY <1>1 DEF SavePreview, CommandInv, Idle
  <1>3. LogState(Len(journal)) \in Nat /\ LogState(Len(journal)) <= Len(journal)
    BY Counts
  <1>4. p \in Previews /\ p.based = cmd[c].based /\ p.shards = cmd[c].shards
        /\ p.events = LogState(Len(journal))
    BY <1>2, <1>3 DEF Previews
  <1>5. /\ previews' = previews \cup {p} /\ journal' = journal /\ clock' = clock
        /\ cmd' = [cmd EXCEPT ![c] = Idle]
    BY DEF SavePreview, EndCommand, Goto
  <1>. HIDE DEF p
  <1>6. Len(journal') = Len(journal) /\ ShardState(Len(journal))' = ShardState(Len(journal))
        /\ LogState(Len(journal))' = LogState(Len(journal))
    BY <1>5 DEF ShardState, LogState, Governed
  <1>7. \A t : CommandInv(t) => CommandInv(t)'
    BY <1>5, <1>6 DEF CommandInv, JournalHead
  <1>8. DOMAIN cmd' = Commands /\ \A d \in Commands : CommandInv(cmd'[d])
    BY <1>5, IdleInv DEF Shapes
  <1>9. Shapes'
    BY <1>4, <1>5, <1>7, <1>8 DEF Shapes
  <1>10. PreviewsCurrent'
    BY <1>2, <1>3, <1>4, <1>5, <1>6 DEF PreviewsCurrent, JournalHead
  <1>. QED  BY <1>5, <1>9, <1>10, LogUnchanged DEF GovInv

LEMMA ClockKeeps == GovInv /\ StepClock => GovInv'
  <1>. SUFFICES ASSUME GovInv, StepClock PROVE GovInv'
    OBVIOUS
  <1>1. UNCHANGED <<journal, previews, cmd>> /\ clock' \in 0..MaxTime
    BY DEF StepClock
  <1>2. Shapes'
    BY <1>1, ZenonT(40) DEF GovInv, Shapes, CommandInv, JournalHead, ShardState
  <1>3. PreviewsCurrent'
    BY <1>1 DEF GovInv, PreviewsCurrent, JournalHead, ShardState, LogState, Governed
  <1>. QED  BY <1>1, <1>2, <1>3, LogUnchanged DEF GovInv

-----------------------------------------------------------------------------
(* A row is appended.  What is said of the rows before it stays as it was.  *)
LEMMA SameRoles ==
    ASSUME NEW among, \A k \in among : journal'[k] = journal[k],
           NEW did, NEW role, NEW asof
    PROVE  HoldsIn(among, did, role, asof)' <=> HoldsIn(among, did, role, asof)
  <1>1. ASSUME NEW k \in among
        PROVE  /\ journal'[k].at = journal[k].at
               /\ Asserts(k, did, role)' <=> Asserts(k, did, role)
               /\ Revokes(k, did, role)' <=> Revokes(k, did, role)
    BY DEF Asserts, Revokes
  <1>. QED  BY <1>1, Zenon DEF HoldsIn

LEMMA OldRows ==
    ASSUME Shapes, NEW r \in Rows, journal' = Append(journal, r), NEW i \in Governed
    PROVE  /\ i \in Governed' /\ i \in 1..Len(journal)
           /\ journal'[i] = journal[i]
           /\ (Governed \cap 1..i - 1)' = Governed \cap 1..i - 1
           /\ PermittedByThen(i)' <=> PermittedByThen(i)
           /\ ShardState(i - 1)' = ShardState(i - 1)
           /\ LogState(i - 1)' = LogState(i - 1)
  <1>1. i \in 1..Len(journal) /\ i - 1 \in 0..Len(journal) /\ i \in Governed'
    BY GovernanceRows, Appended
  <1>2. /\ journal'[i] = journal[i]
        /\ \A k \in Governed \cap 1..i - 1 : journal'[k] = journal[k]
        /\ (Governed \cap 1..i - 1)' = Governed \cap 1..i - 1
    BY <1>1, GovernanceRows, Appended
  <1>3. PermittedByThen(i)' <=> PermittedByThen(i)
    <2>. DEFINE before == Governed \cap 1..i - 1
    <2>1. before' = before /\ \A k \in before : journal'[k] = journal[k]
      BY <1>2
    <2>. HIDE DEF before
    <2>2. \A did, role : HoldsIn(before, did, role, MaxTime)'
                            <=> HoldsIn(before, did, role, MaxTime)
      BY <2>1, SameRoles
    <2>. QED  BY <1>2, <2>1, <2>2 DEF PermittedByThen, before
  <1>. QED  BY <1>1, <1>2, <1>3, Appended

LEMMA AppendKeepsShapes ==
    ASSUME GovInv, NEW r \in Rows, journal' = Append(journal, r),
           clock' = clock, previews' = previews,
           cmd' = cmd \/ \E c \in Commands : cmd' = [cmd EXCEPT ![c] = Idle]
    PROVE  Shapes' /\ PreviewsCurrent'
  <1>1. Shapes /\ PreviewsCurrent /\ Len(journal) \in Nat
    BY GovernanceRows DEF GovInv
  <1>2. journal' \in Seq(Rows) /\ Len(journal') = Len(journal) + 1
    BY <1>1, Appended
  <1>3. ASSUME NEW s, CommandInv(s)
        PROVE  CommandInv(s)'
    BY <1>1, <1>2, <1>3 DEF CommandInv, JournalHead
  <1>4. DOMAIN cmd' = Commands /\ \A c \in Commands : CommandInv(cmd'[c])
    BY <1>1, IdleInv DEF Shapes
  <1>5. Shapes'
    BY <1>1, <1>2, <1>3, <1>4 DEF Shapes
  <1>6. PreviewsCurrent'
    BY <1>1, <1>2 DEF PreviewsCurrent, JournalHead, Shapes, Previews
  <1>. QED  BY <1>5, <1>6

(* The rows of other writers are no events of the log. *)
LEMMA ShardRowKeeps ==
    ASSUME GovInv, NEW r \in Rows, journal' = Append(journal, r),
           r.event.action = "put_shard"
    PROVE  LogInv'
  <1>1. Shapes /\ LogInv
    BY DEF GovInv
  <1>2. Governed' = Governed
    BY <1>1, Appended
  <1>3. \A i \in Governed : journal'[i] = journal[i]
    BY <1>1, OldRows
  <1>4. InOrder'
    BY <1>1, <1>2, <1>3 DEF LogInv, InOrder
  <1>5. HasAdmin'
    <2>1. \A d : Holds(d, "corpus_admin", MaxTime)' <=> Holds(d, "corpus_admin", MaxTime)
      BY <1>2, <1>3, SameRoles DEF Holds
    <2>. QED  BY <1>1, <1>2, <2>1 DEF LogInv, HasAdmin
  <1>6. CommittedByPermitted'
    BY <1>1, <1>2, <1>3, OldRows DEF LogInv, CommittedByPermitted
  <1>7. OneGenesis'
    BY <1>1, <1>2, <1>3, OldRows DEF LogInv, OneGenesis
  <1>8. SignedOnce'
    <2>. SUFFICES ASSUME NEW i \in Governed', NEW k \in Governed',
                         \/ journal'[i].event = journal'[k].event
                         \/ journal'[i].op = journal'[k].op
                  PROVE  i = k
      BY DEF SignedOnce
    <2>. QED  BY <1>1, <1>2, <1>3 DEF LogInv, SignedOnce
  <1>9. CascadeCurrent'
    BY <1>1, <1>2, <1>3, OldRows DEF LogInv, CascadeCurrent
  <1>. QED  BY <1>4, <1>5, <1>6, <1>7, <1>8, <1>9 DEF LogInv

-----------------------------------------------------------------------------
(* Every event is in effect at the server's time, and at any later one.     *)
LEMMA HoldsNow ==
    ASSUME Shapes, InOrder, NEW d, NEW role
    PROVE  Holds(d, role, ServerTime) <=> Holds(d, role, MaxTime)
  <1>1. \A i \in Governed : journal[i].at <= ServerTime /\ journal[i].at <= MaxTime
    BY Times, GovernanceRows, GovernanceAssumption
  <1>. QED  BY <1>1 DEF Holds, HoldsIn

LEMMA NobodyAtFirst ==
    ASSUME Governed = {}, NEW asof
    PROVE  Admins(asof) = {}
  BY DEF Admins, Holds, HoldsIn

LEMMA PositionIsNext ==
    ASSUME Shapes
    PROVE  Cardinality(Governed) = 0 <=> Governed = {}
  BY GovernanceRows, FS_EmptySet

(* Who holds a role keeps it, if the new row does not revoke it. *)
LEMMA HoldsAfter ==
    ASSUME GovInv, NEW r \in Rows, journal' = Append(journal, r),
           NEW n, n = Len(journal) + 1, NEW d, NEW role, Holds(d, role, MaxTime),
           ~(r.event.action = "role_revocation" /\ r.event.subject = d /\ r.event.role = role)
    PROVE  Holds(d, role, MaxTime)'
  <1>1. Shapes /\ Len(journal) \in Nat /\ Governed \subseteq 1..Len(journal)
    BY GovernanceRows DEF GovInv
  <1>2. Governed \subseteq Governed' /\ Governed' \subseteq Governed \cup {n} /\ journal'[n] = r
    BY <1>1, Appended
  <1>3. \A k \in Governed : journal'[k] = journal[k]
    BY <1>1, OldRows
  <1>4. ~Revokes(n, d, role)'
    BY <1>2 DEF Revokes
  <1>5. PICK i \in Governed :
          /\ journal[i].at <= MaxTime /\ Asserts(i, d, role)
          /\ \A k \in Governed : k > i /\ journal[k].at <= MaxTime => ~Revokes(k, d, role)
    BY DEF Holds, HoldsIn
  <1>6. journal'[i].at <= MaxTime /\ Asserts(i, d, role)'
    BY <1>3, <1>5 DEF Asserts
  <1>7. ASSUME NEW k \in Governed', k > i, journal'[k].at <= MaxTime
        PROVE  ~Revokes(k, d, role)'
    <2>1. CASE k = n
      BY <1>4, <2>1
    <2>2. CASE k # n
      <3>1. k \in Governed /\ journal'[k] = journal[k]
        BY <1>2, <1>3, <1>7, <2>2
      <3>2. ~Revokes(k, d, role)
        BY <1>5, <1>7, <3>1
      <3>. QED  BY <3>1, <3>2 DEF Revokes
    <2>. QED  BY <2>1, <2>2
  <1>. QED  BY <1>2, <1>5, <1>6, <1>7 DEF Holds, HoldsIn

(* The event of a transaction that goes through: each gate keeps the part   *)
(* of the invariant it stands for.                                          *)
LEMMA EventRowKeeps ==
    ASSUME GovInv, NEW n, n = Len(journal) + 1, NEW op, NEW event, NEW head,
           Row(op, event, ServerTime) \in Rows,
           event \in RoleEvents \cup Retractions,
           event.action = "retract" => event.preview \in previews /\ head = event.preview.based,
           Committed(op) = {}, Appendable(event, head),
           journal' = Append(journal, Row(op, event, ServerTime))
    PROVE  LogInv'
  <1>. DEFINE L == Len(journal)
              r == Row(op, event, ServerTime)
  <1>1. /\ Shapes /\ PreviewsCurrent /\ LogInv /\ InOrder
        /\ L \in Nat /\ Governed \subseteq 1..L /\ DOMAIN journal = 1..L
    BY GovernanceRows DEF GovInv, LogInv
  <1>2. r.op = op /\ r.event = event /\ r.at = ServerTime /\ r \in Rows
    BY DEF Row
  <1>3. event.action \in {"role_assertion", "role_revocation", "retract"}
    BY DEF RoleEvents, Retractions
  <1>4. /\ Governed' = Governed \cup {n}
        /\ journal'[n] = r
        /\ \A m \in 0..L : ShardState(m)' = ShardState(m) /\ LogState(m)' = LogState(m)
                           /\ (Governed \cap 1..m)' = Governed \cap 1..m
    BY <1>1, <1>2, <1>3, Appended
  <1>5. \A i \in Governed : /\ journal'[i] = journal[i] /\ i \in 1..L
                            /\ (Governed \cap 1..i - 1)' = Governed \cap 1..i - 1
                            /\ PermittedByThen(i)' <=> PermittedByThen(i)
                            /\ ShardState(i - 1)' = ShardState(i - 1)
                            /\ LogState(i - 1)' = LogState(i - 1)
    BY <1>1, <1>2, OldRows
  <1>6. /\ n - 1 = L /\ Governed \cap 1..L = Governed /\ n \notin Governed
        /\ (Governed \cap 1..n - 1)' = Governed
    <2>1. n - 1 = L /\ Governed \cap 1..L = Governed /\ n \notin Governed /\ L \in 0..L
      <3>1. n = L + 1 /\ L \in Nat /\ Governed \subseteq 1..L
        BY <1>1
      <3>. HIDE DEF L
      <3>2. n - 1 = L
        BY <3>1
      <3>3. L \in 0..L
        BY <3>1
      <3>4. n \notin Governed
        BY <3>1
      <3>5. Governed \cap 1..L = Governed
        BY <3>1
      <3>. QED  BY <3>2, <3>3, <3>4, <3>5
    <2>2. PICK m \in 0..L : m = L
      BY <2>1
    <2>3. (Governed \cap 1..m)' = Governed \cap 1..m
      BY <1>4
    <2>. QED  BY <2>1, <2>2, <2>3
  <1>. HIDE DEF r
  <1>7. InOrder'
    <2>1. \A i \in Governed : journal[i].at <= ServerTime
      BY <1>1, Times
    <2>2. ServerTime <= ServerTime
      BY <1>1, Times
    <2>. QED  BY <1>2, <1>4, <1>5, <2>1, <2>2 DEF InOrder
  <1>8. HasAdmin'
    <2>1. CASE Governed = {}
      <3>1. /\ event.action = "role_assertion" /\ event.subject = event.did
            /\ event.role = "corpus_admin"
        BY <1>3, <2>1, NobodyAtFirst DEF Appendable, AuthorizedAt, Accepted, IsGenesis
      <3>2. event.did \in Dids
        BY DEF RoleEvents, Retractions
      <3>3. journal'[n].at <= MaxTime /\ Asserts(n, event.did, "corpus_admin")'
        <4>1. ServerTime <= MaxTime
          BY <1>1, Times, GovernanceAssumption
        <4>. QED  BY <1>2, <1>4, <3>1, <4>1 DEF Asserts
      <3>4. Holds(event.did, "corpus_admin", MaxTime)'
        BY <1>1, <1>4, <2>1, <3>3 DEF Holds, HoldsIn
      <3>. QED  BY <3>2, <3>4 DEF HasAdmin
    <2>2. CASE Governed # {}
      <3>1. ASSUME NEW d \in Dids, Holds(d, "corpus_admin", MaxTime),
                   ~(event.action = "role_revocation" /\ event.subject = d
                        /\ event.role = "corpus_admin")
            PROVE  HasAdmin'
        BY <1>2, <3>1, HoldsAfter DEF HasAdmin, r
      <3>2. CASE event.action = "role_revocation" /\ event.role = "corpus_admin"
        <4>1. event.did \in Admins(ServerTime) /\ Admins(ServerTime) # {event.subject}
          BY <3>2 DEF Appendable, Accepted
        <4>2. PICK d \in Admins(ServerTime) : d # event.subject
          BY <4>1
        <4>3. d \in Dids /\ Holds(d, "corpus_admin", MaxTime)
          BY <1>1, <4>2, HoldsNow DEF Admins
        <4>. QED  BY <3>1, <4>2, <4>3
      <3>3. CASE ~(event.action = "role_revocation" /\ event.role = "corpus_admin")
        <4>1. \E d \in Dids : Holds(d, "corpus_admin", MaxTime)
          BY <1>1, <2>2 DEF LogInv, HasAdmin
        <4>. QED  BY <3>1, <3>3, <4>1
      <3>. QED  BY <3>2, <3>3
    <2>. QED  BY <2>1, <2>2
  <1>9. CommittedByPermitted'
    <2>1. ASSUME Governed # {}
          PROVE  PermittedByThen(n)'
      <3>1. PICK role \in Roles : Holds(event.did, role, ServerTime)
                                    /\ event.action \in Permissions[role]
        BY <2>1 DEF Appendable, AuthorizedAt, Permitted
      <3>2. HoldsIn(Governed, event.did, role, MaxTime)
        BY <1>1, <3>1, HoldsNow DEF Holds
      <3>3. HoldsIn(Governed, event.did, role, MaxTime)
              => HoldsIn(Governed \cap 1..n - 1, event.did, role, MaxTime)'
        <4>. DEFINE before == Governed
        <4>1. ASSUME NEW k \in before
              PROVE  /\ journal'[k].at = journal[k].at
                     /\ Asserts(k, event.did, role)' <=> Asserts(k, event.did, role)
                     /\ Revokes(k, event.did, role)' <=> Revokes(k, event.did, role)
          BY <1>5 DEF Asserts, Revokes
        <4>2. (Governed \cap 1..n - 1)' = before
          BY <1>6
        <4>. HIDE DEF before
        <4>3. HoldsIn(before, event.did, role, MaxTime)
                => \E i \in before :
                    /\ journal'[i].at <= MaxTime /\ Asserts(i, event.did, role)'
                    /\ \A k \in before : k > i /\ journal'[k].at <= MaxTime
                                            => ~Revokes(k, event.did, role)'
          BY <4>1, Zenon DEF HoldsIn
        <4>. QED  BY <1>2, <4>2, <4>3 DEF HoldsIn, before
      <3>4. journal'[n].event = event
        BY <1>2, <1>4
      <3>. QED  BY <1>2, <3>1, <3>2, <3>3, <3>4 DEF PermittedByThen
    <2>. QED  BY <1>1, <1>4, <1>5, <1>6, <2>1 DEF LogInv, CommittedByPermitted
  <1>10. OneGenesis'
    <2>1. (event.action = "role_assertion" /\ event.subject = event.did) <=> Governed = {}
      <3>1. Position(event) = Cardinality(Governed)
        BY DEF Appendable
      <3>2. Position(event) = 0 <=> Governed = {}
        BY <1>1, <3>1, PositionIsNext
      <3>. QED  BY <1>3, <3>2, NobodyAtFirst
                DEF Appendable, AuthorizedAt, Accepted, IsGenesis
    <2>2. journal'[n].event = event
      BY <1>2, <1>4
    <2>. QED  BY <1>1, <1>4, <1>5, <1>6, <2>1, <2>2 DEF LogInv, OneGenesis
  <1>11. SignedOnce'
    <2>1. \A i \in Governed : journal[i].event # event /\ journal[i].op # op
      BY <1>1 DEF Appendable, Replayed, Committed
    <2>2. journal'[n].event = event /\ journal'[n].op = op
      BY <1>2, <1>4
    <2>. SUFFICES ASSUME NEW i \in Governed', NEW k \in Governed',
                         \/ journal'[i].event = journal'[k].event
                         \/ journal'[i].op = journal'[k].op
                  PROVE  i = k
      BY DEF SignedOnce
    <2>3. CASE i \in Governed /\ k \in Governed
      BY <1>1, <1>5, <2>3 DEF LogInv, SignedOnce
    <2>4. CASE ~(i \in Governed /\ k \in Governed)
      BY <1>4, <1>5, <2>1, <2>2, <2>4
    <2>. QED  BY <2>3, <2>4
  <1>12. CascadeCurrent'
    <2>1. ASSUME event.action = "retract"
          PROVE  /\ event.preview.shards = ShardState(n - 1)'
                 /\ event.preview.events = LogState(n - 1)'
      <3>1. event.preview \in previews /\ head = event.preview.based /\ head # None
        BY <2>1, GovernanceAssumption DEF GovInv, Shapes, Previews
      <3>2. event.preview.based = JournalHead
        BY <3>1 DEF Appendable, HeadUnmoved, JournalHead
      <3>. QED  BY <1>1, <1>4, <1>6, <3>1, <3>2 DEF PreviewsCurrent, JournalHead
    <2>2. journal'[n].event = event
      BY <1>2, <1>4
    <2>. SUFFICES ASSUME NEW i \in Governed', journal'[i].event.action = "retract"
                  PROVE  LET p == journal'[i].event.preview
                         IN  p.shards = ShardState(i - 1)' /\ p.events = LogState(i - 1)'
      BY DEF CascadeCurrent
    <2>3. CASE i = n
      BY <2>1, <2>2, <2>3
    <2>4. CASE i \in Governed
      BY <1>1, <1>5, <2>4 DEF LogInv, CascadeCurrent
    <2>. QED  BY <1>4, <2>3, <2>4
  <1>. QED  BY <1>7, <1>8, <1>9, <1>10, <1>11, <1>12 DEF LogInv

-----------------------------------------------------------------------------
(* The steps that append, and the theorem. *)

LEMMA StutteringKeeps == GovInv /\ UNCHANGED vars => GovInv'
  <1>. SUFFICES ASSUME GovInv, UNCHANGED vars PROVE GovInv'
    OBVIOUS
  <1>1. Shapes'
    BY ZenonT(40) DEF GovInv, Shapes, CommandInv, JournalHead, ShardState, vars
  <1>2. PreviewsCurrent'
    BY DEF GovInv, PreviewsCurrent, JournalHead, ShardState, LogState, Governed, vars
  <1>. QED  BY <1>1, <1>2, LogUnchanged DEF GovInv, vars

LEMMA AppendingKeeps ==
    ASSUME GovInv, NEW c \in Commands, AppendEvent(c)
    PROVE  GovInv'
  <1>. DEFINE s == cmd[c]
              r == Row(s.op, s.event, ServerTime)
  <1>1. Shapes /\ PreviewsCurrent /\ LogInv /\ InOrder /\ CommandInv(s)
    BY DEF GovInv, LogInv, Shapes
  <1>2. UNCHANGED <<clock, previews>> /\ (EndCommand(c) \/ UNCHANGED cmd)
    BY DEF AppendEvent
  <1>3. CASE Committed(s.op) = {} /\ Appendable(s.event, s.head)
    <2>1. journal' = Append(journal, r)
      BY <1>3 DEF AppendEvent
    <2>2. /\ s.op \in Ops /\ s.event \in RoleEvents \cup Retractions
          /\ s.event.action = "retract" =>
                s.event.preview \in previews /\ s.head = s.event.preview.based
      BY <1>1 DEF AppendEvent, CommandInv, Idle, RoleEvents, Retractions
    <2>3. r \in Rows
      BY <1>1, <2>2, Times DEF Row, Rows
    <2>. HIDE DEF s
    <2>4. LogInv'
      <3>1. Len(journal) + 1 = Len(journal) + 1
        OBVIOUS
      <3>. QED  BY <1>3, <2>1, <2>2, <2>3, <3>1, EventRowKeeps
    <2>. HIDE DEF r
    <2>5. Shapes' /\ PreviewsCurrent'
      BY <1>2, <2>1, <2>3, AppendKeepsShapes DEF EndCommand, Goto
    <2>. QED  BY <2>4, <2>5 DEF GovInv
  <1>4. CASE ~(Committed(s.op) = {} /\ Appendable(s.event, s.head))
    <2>1. journal' = journal
      BY <1>4 DEF AppendEvent
    <2>2. CASE EndCommand(c)
      BY <1>1, <1>2, <2>1, <2>2, IdleInv, CommandKeeps DEF EndCommand, Goto, GovInv
    <2>3. CASE UNCHANGED cmd
      BY <1>2, <2>1, <2>3, StutteringKeeps DEF vars
    <2>. QED  BY <1>2, <2>2, <2>3
  <1>. QED  BY <1>3, <1>4

LEMMA PutShardKeeps == GovInv /\ PutShard => GovInv'
  <1>. SUFFICES ASSUME GovInv, PutShard PROVE GovInv'
    OBVIOUS
  <1>1. PICK related \in BOOLEAN :
          journal' = Append(journal, Row([kind |-> "shard"],
                                         [action |-> "put_shard", related |-> related], 0))
    BY DEF PutShard
  <1>. DEFINE r == Row([kind |-> "shard"], [action |-> "put_shard", related |-> related], 0)
  <1>2. r \in Rows /\ r.event.action = "put_shard"
    BY GovernanceAssumption DEF Row, Rows, Ops, ShardEvents
  <1>. HIDE DEF r
  <1>3. LogInv'
    BY <1>1, <1>2, ShardRowKeeps DEF r
  <1>4. Shapes' /\ PreviewsCurrent'
    BY <1>1, <1>2, AppendKeepsShapes DEF PutShard, r
  <1>. QED  BY <1>3, <1>4 DEF GovInv

LEMMA InitHolds == Init => GovInv
  <1>. SUFFICES ASSUME Init PROVE GovInv
    OBVIOUS
  <1>1. Governed = {}
    BY DEF Init, Governed
  <1>2. Shapes
    BY IdleInv, GovernanceAssumption DEF Init, Shapes
  <1>3. PreviewsCurrent
    BY DEF Init, PreviewsCurrent
  <1>4. LogInv
    BY <1>1 DEF LogInv, InOrder, HasAdmin, CommittedByPermitted, OneGenesis, SignedOnce,
                CascadeCurrent
  <1>. QED  BY <1>2, <1>3, <1>4 DEF GovInv

LEMMA NextHolds == GovInv /\ [Next]_vars => GovInv'
  <1>. SUFFICES ASSUME GovInv, [Next]_vars PROVE GovInv'
    OBVIOUS
  <1>1. ASSUME NEW c \in Commands, Command(c)
        PROVE  GovInv'
    BY <1>1, ReadingKeeps, SavingKeeps, AppendingKeeps DEF Command
  <1>. QED  BY <1>1, PutShardKeeps, ClockKeeps, StutteringKeeps DEF Next

(* The inductive invariant holds in every state of the log.                 *)
THEOREM GovInductive == Spec => []GovInv
  <1>. QED  BY InitHolds, NextHolds, PTL DEF Spec

(* D-11: whichever revocations are signed and committed at the same time,   *)
(* an initialised corpus always has an admin.                               *)
THEOREM LastAdminStays == Spec => []NeverLockedOut
  <1>1. GovInv => NeverLockedOut
    <2>. SUFFICES ASSUME GovInv, Governed # {} PROVE Admins(ServerTime) # {}
      BY DEF NeverLockedOut
    <2>1. Shapes /\ InOrder /\ \E d \in Dids : Holds(d, "corpus_admin", MaxTime)
      BY DEF GovInv, LogInv, HasAdmin
    <2>. QED  BY <2>1, HoldsNow DEF Admins
  <1>. QED  BY <1>1, GovInductive, PTL

(* Every event but the first was signed by someone whom the rows before it  *)
(* permit: the authorization is the one of the transaction, not of the      *)
(* moment the command looked.                                               *)
THEOREM Authorized == Spec => []CommittedByPermitted
  <1>1. GovInv => CommittedByPermitted
    BY DEF GovInv, LogInv
  <1>. QED  BY <1>1, GovInductive, PTL

(* One event initialises the corpus; nobody appoints itself afterwards.     *)
THEOREM Genesis == Spec => []OneGenesis
  <1>1. GovInv => OneGenesis
    BY DEF GovInv, LogInv
  <1>. QED  BY <1>1, GovInductive, PTL

(* No signed event and no operation is committed twice, however often and   *)
(* by however many processes it is submitted.                               *)
THEOREM NoReplay == Spec => []SignedOnce
  <1>1. GovInv => SignedOnce
    BY DEF GovInv, LogInv
  <1>. QED  BY <1>1, GovInductive, PTL

(* A retraction commits the cascade its signer saw: the head it compares in *)
(* the transaction stands for everything the preview had read.              *)
THEOREM Cascades == Spec => []CascadeCurrent
  <1>1. GovInv => CascadeCurrent
    BY DEF GovInv, LogInv
  <1>. QED  BY <1>1, GovInductive, PTL

(* Rows, previews and commands have their types. *)
THEOREM Types == Spec => []TypeOK
  <1>1. GovInv => TypeOK
    <2>. SUFFICES ASSUME GovInv PROVE TypeOK
      OBVIOUS
    <2>1. Shapes /\ PreviewsCurrent /\ Len(journal) \in Nat
      BY GovernanceRows DEF GovInv
    <2>2. \A i \in Governed : journal[i].event.did \in Dids /\ journal[i].at \in 0..MaxTime
      BY <2>1, GovernanceRows DEF RoleEvents, Retractions
    <2>3. previews \subseteq [by : Commands, based : 0..Len(journal),
                              shards : 0..Len(journal), events : 0..Len(journal)]
      <3>. SUFFICES ASSUME NEW p \in previews
                    PROVE  p \in [by : Commands, based : 0..Len(journal),
                                  shards : 0..Len(journal), events : 0..Len(journal)]
        OBVIOUS
      <3>1. p \in Previews /\ p.based <= Len(journal) /\ p.shards <= Len(journal)
            /\ p.events <= Len(journal)
        BY <2>1 DEF Shapes, PreviewsCurrent, JournalHead
      <3>2. p.based \in 0..Len(journal) /\ p.shards \in 0..Len(journal)
            /\ p.events \in 0..Len(journal)
        BY <2>1, <3>1 DEF Previews
      <3>. QED  BY <3>1, <3>2 DEF Previews
    <2>4. \A c \in Commands :
             cmd[c].pc \in {"idle", "allowed", "building", "hashing", "rebuilding",
                            "comparing", "signed"}
      BY <2>1 DEF Shapes, CommandInv, Idle
    <2>. QED  BY <2>1, <2>2, <2>3, <2>4 DEF TypeOK, Shapes
  <1>. QED  BY <1>1, GovInductive, PTL

-----------------------------------------------------------------------------
(* The past is settled. *)

LEMMA PastKept ==
    ASSUME GovInv, NEW r \in Rows, journal' = Append(journal, r),
           r.event.action = "put_shard" \/ r.at = ServerTime,
           NEW t \in 0..MaxTime, \E i \in Governed : t < journal[i].at,
           NEW d, NEW role
    PROVE  Holds(d, role, t)' <=> Holds(d, role, t)
  <1>1. Shapes /\ InOrder
    BY DEF GovInv, LogInv
  <1>2. \A k \in Governed : journal'[k] = journal[k]
    BY <1>1, OldRows
  <1>3. HoldsIn(Governed, d, role, t) <=>
          \E i \in Governed :
             /\ journal'[i].at <= t /\ Asserts(i, d, role)'
             /\ \A k \in Governed : k > i /\ journal'[k].at <= t => ~Revokes(k, d, role)'
    <2>1. ASSUME NEW k \in Governed
          PROVE  /\ journal'[k].at = journal[k].at
                 /\ Asserts(k, d, role)' <=> Asserts(k, d, role)
                 /\ Revokes(k, d, role)' <=> Revokes(k, d, role)
      BY <1>2 DEF Asserts, Revokes
    <2>. QED  BY <2>1, Zenon DEF HoldsIn
  <1>4. CASE Governed' = Governed
    BY <1>3, <1>4 DEF Holds, HoldsIn
  <1>5. CASE Governed' # Governed
    <2>1. PICK n : Governed' = Governed \cup {n} /\ journal'[n] = r
      BY <1>1, <1>5, Appended
    <2>2. r.at = ServerTime
      BY <1>1, <1>5, Appended
    <2>3. ~(journal'[n].at <= t)
      BY <1>1, <2>1, <2>2, Times, GovernanceRows, GovernanceAssumption
    <2>. QED  BY <1>3, <2>1, <2>3 DEF Holds, HoldsIn
  <1>. QED  BY <1>4, <1>5

LEMMA StepPast ==
    ASSUME GovInv, [Next]_vars,
           NEW t \in 0..MaxTime, \E i \in Governed : t < journal[i].at, NEW d, NEW role
    PROVE  Holds(d, role, t)' <=> Holds(d, role, t)
  <1>1. CASE journal' = journal
    BY <1>1 DEF Holds, HoldsIn, Governed, Asserts, Revokes
  <1>2. CASE PutShard
    <2>1. PICK related \in BOOLEAN :
            journal' = Append(journal, Row([kind |-> "shard"],
                                           [action |-> "put_shard", related |-> related], 0))
      BY <1>2 DEF PutShard
    <2>. DEFINE r == Row([kind |-> "shard"],
                         [action |-> "put_shard", related |-> related], 0)
    <2>2. r \in Rows /\ r.event.action = "put_shard"
      BY GovernanceAssumption DEF Row, Rows, Ops, ShardEvents
    <2>. HIDE DEF r
    <2>. QED  BY <2>1, <2>2, PastKept DEF r
  <1>3. ASSUME NEW c \in Commands, AppendEvent(c), journal' # journal
        PROVE  Holds(d, role, t)' <=> Holds(d, role, t)
    <2>. DEFINE r == Row(cmd[c].op, cmd[c].event, ServerTime)
    <2>1. journal' = Append(journal, r)
      BY <1>3 DEF AppendEvent
    <2>2. cmd[c].op \in Ops /\ cmd[c].event \in RoleEvents \cup Retractions
      BY <1>3 DEF AppendEvent, GovInv, Shapes, CommandInv, Idle
    <2>3. r \in Rows /\ r.at = ServerTime
      BY <2>2, Times DEF Row, Rows, GovInv, LogInv
    <2>. HIDE DEF r
    <2>. QED  BY <2>1, <2>3, PastKept
  <1>4. journal' = journal \/ PutShard \/ \E c \in Commands : AppendEvent(c)
    BY DEF Next, Command, vars, StepClock, CorpusInit, SignRoleEvent, AuthorizeRetract,
           BeginPreview, ReadShards, SavePreview, BeginApply, CompareShards,
           SignRetraction, Crash
  <1>. QED  BY <1>1, <1>2, <1>3, <1>4

(* Who held a role before the newest event is settled: no later event and   *)
(* no clock that is set back changes the answer for that time.              *)
THEOREM SettledPast == Spec => PastSettled
  <1>1. GovInv /\ [Next]_vars =>
          [\A t \in 0..MaxTime :
             (\E i \in Governed : t < journal[i].at) =>
                \A d \in Dids, role \in Roles : Holds(d, role, t) = Holds(d, role, t)']_vars
    <2>. SUFFICES ASSUME GovInv, [Next]_vars, NEW t \in 0..MaxTime,
                         \E i \in Governed : t < journal[i].at,
                         NEW d \in Dids, NEW role \in Roles
                  PROVE  Holds(d, role, t) = Holds(d, role, t)'
      OBVIOUS
    <2>1. Holds(d, role, t)' <=> Holds(d, role, t)
      BY StepPast
    <2>2. Holds(d, role, t) \in BOOLEAN /\ Holds(d, role, t)' \in BOOLEAN
      BY DEF Holds, HoldsIn
    <2>. QED  BY <2>1, <2>2
  <1>. QED  BY <1>1, GovInductive, PTL DEF Spec, PastSettled
=============================================================================
