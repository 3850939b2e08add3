----------------------------- MODULE CorpusExport -----------------------------
(***************************************************************************)
(* What leaves a corpus as files while it is written (storage/exports.py   *)
(* and storage/dump.py): an export into a new or empty directory, with a   *)
(* manifest at the end; and the nightly Turtle dump, which fills a Git     *)
(* work tree file by file, commits it, and can be loaded again.            *)
(*                                                                         *)
(* A read of the projection sees the journal as it is at that moment and   *)
(* the status marker is true of the position it names, which CorpusStorage *)
(* and CorpusCommit show.  One call at a time works on a destination, and  *)
(* one on the dump repository: nothing in the code keeps two apart.        *)
(***************************************************************************)
EXTENDS Naturals, Sequences, FiniteSets, SequencesExt

CONSTANTS
    ExportCorpora, ExportShards,
    Dests,          \* destinations of exports
    FormatChoices,        \* the formats a caller asks for, sequences of formats
    Queries,        \* CONSTRUCT queries: whether the result is in OWL 2 EL and
                    \* whether it keeps the identity of what it names
    Event, NoFile, Torn,
    MaxExportRows, MaxDumps

ASSUME ExportAssumption ==
    /\ Event \notin ExportShards
    /\ \A q \in Queries : q.el \in BOOLEAN /\ q.whole \in BOOLEAN
    /\ MaxExportRows \in Nat /\ MaxDumps \in Nat

VARIABLES
    rows,       \* the journal of each corpus: shard revisions and events
    checked,    \* its status marker: the position it is true of, and the verdict
    dest,       \* what is at each destination
    export,     \* the export that runs
    tree, index, history,   \* the dump repository: work tree, index, commits
    dump,       \* the dump job that runs
    dumps,
    restored    \* the store loaded from the work tree, if any

exportVars == <<rows, checked, dest, export, tree, index, history, dump, dumps, restored>>

-----------------------------------------------------------------------------
(* The corpus *)

Upto(c, w) == SubSeq(rows[c], 1, w)

(* the position of the current revision of each shard, and of the events *)
Latest(log) ==
    {i \in DOMAIN log : log[i].shard # Event /\ \A j \in DOMAIN log : j > i => log[j].shard # log[i].shard}
Events(log) == {i \in DOMAIN log : log[i].shard = Event}

Verdict(log) == IF \E i \in Latest(log) : log[i].bad THEN "fail" ELSE "pass"

Write(c) ==
    /\ Len(rows[c]) < MaxExportRows
    /\ \E s \in ExportShards \cup {Event}, bad \in BOOLEAN :
          /\ s = Event => ~bad
          /\ rows' = [rows EXCEPT ![c] = Append(@, [shard |-> s, bad |-> bad])]
    /\ UNCHANGED <<checked, dest, export, tree, index, history, dump, dumps, restored>>

Validate(c) ==
    /\ checked[c].position # Len(rows[c])
    /\ checked' = [checked EXCEPT ![c] = [position |-> Len(rows[c]), state |-> Verdict(rows[c])]]
    /\ UNCHANGED <<rows, dest, export, tree, index, history, dump, dumps, restored>>

-----------------------------------------------------------------------------
(* build_export_dataset: four reads, with writers in between *)

NoData == [corpus |-> NoFile, watermark |-> 0, abox |-> {}, gov |-> {}, records |-> {},
           signedEvents |-> {}, full_shacl |-> "unvalidated"]

(* the graphs and the watermark, in one read of the projection *)
Graphs(c) == [NoData EXCEPT !.corpus = c, !.watermark = Len(rows[c]),
                            !.abox = Latest(rows[c]), !.gov = Events(rows[c])]

(* fault: the marker is compared with the head of the journal *)
StatusOfHead(d) ==
    IF checked[d.corpus].position = Len(rows[d.corpus]) THEN checked[d.corpus].state ELSE "unvalidated"

(* _shacl_status *)
StatusAt(d) ==
    IF checked[d.corpus].position = d.watermark THEN checked[d.corpus].state ELSE "unvalidated"

(* the signed records and events of the journal, up to the watermark *)
RecordsAt(d) == Latest(Upto(d.corpus, d.watermark))
EventsAt(d) == Events(Upto(d.corpus, d.watermark))

Reading(d, pc) ==
    CASE pc = "status"  -> [d EXCEPT !.full_shacl = StatusAt(d)]
      [] pc = "records" -> [d EXCEPT !.records = RecordsAt(d)]
      [] pc = "events"  -> [d EXCEPT !.signedEvents = EventsAt(d)]

AfterRead == [status |-> "records", records |-> "events", events |-> "data"]

-----------------------------------------------------------------------------
(* export_corpus *)

Formats == {"combined", "abox", "tbox", "governance", "jsonld", "construct", "nquads", "neo4j"}

(* CAPABILITIES, TBOX_CARRYING_FORMATS and the files of a format *)
Graphless == {"combined", "construct"}
CarriesTBox == {"combined", "tbox", "jsonld", "nquads", "neo4j"}
Paths(f) == IF f = "neo4j" THEN {"neo4j/nodes", "neo4j/relationships"} ELSE {f}
InFolder == {"abox", "neo4j"}

NoExport == [pc |-> "idle"]
Absent == [exists |-> FALSE, folders |-> {}, files |-> {}, manifest |-> NoFile]
Empty == [Absent EXCEPT !.exists = TRUE]

Exporting(pc) == export.pc = pc

(* _refuse_destination comes first; the boundaries of the served directory *)
(* and of the storage root are paths, which the model does not have        *)
BeginExport ==
    /\ Exporting("idle")
    /\ \E c \in ExportCorpora, d \in Dests, choice \in FormatChoices, q \in Queries,
          named \in BOOLEAN, partial \in BOOLEAN, profile \in {"EL", "DL"} :
          /\ dest[d] \in {Absent, Empty}
          /\ "construct" \notin Range(choice) => q.el /\ q.whole /\ ~partial
          /\ export' = [pc |-> "status", data |-> Graphs(c), at |-> d, formats |-> choice,
                        query |-> q, named |-> named, partial |-> partial, profile |-> profile,
                        conformant |-> FALSE, created |-> FALSE, written |-> {}, done |-> {}]
    /\ UNCHANGED <<rows, checked, dest, tree, index, history, dump, dumps, restored>>

ReadForExport ==
    /\ export.pc \in DOMAIN AfterRead
    /\ export' = [export EXCEPT !.data = Reading(export.data, export.pc), !.pc = AfterRead[export.pc]]
    /\ UNCHANGED <<rows, checked, dest, tree, index, history, dump, dumps, restored>>

(* check_capabilities and apply_tbox_profile refuse before anything is written; *)
(* the expressive layer, which OWL 2 EL does not allow, is added under DL       *)
Capable == export.named => Range(export.formats) \cap Graphless = {}

OpenDestination ==
    /\ Exporting("data")
    /\ IF ~Capable THEN export' = NoExport /\ UNCHANGED dest
       ELSE /\ dest' = [dest EXCEPT ![export.at].exists = TRUE]
            /\ export' = [export EXCEPT
                 !.pc = "write", !.created = ~dest[export.at].exists,
                 !.conformant = /\ Range(export.formats) \cap CarriesTBox # {}
                                /\ export.profile = "EL"]
    /\ UNCHANGED <<rows, checked, tree, index, history, dump, dumps, restored>>

(* _refuse_partial and check_construct_profile, after other formats are on disk *)
QueryRefused ==
    \/ ~export.partial /\ ~export.query.whole
    \/ export.profile = "EL" /\ ~export.query.el

File(f, path) == [format |-> f, path |-> path, data |-> export.data,
                  el |-> IF f = "construct" THEN export.query.el
                         ELSE f \in CarriesTBox => export.profile = "EL",
                  whole |-> f = "construct" => export.query.whole]

Format == Head(export.formats)

(* a format is written and parsed back *)
WriteFormat ==
    /\ Exporting("write") /\ export.formats # <<>>
    /\ Format = "construct" => ~QueryRefused
    /\ dest' = [dest EXCEPT ![export.at].files = @ \cup {File(Format, p) : p \in Paths(Format)},
                            ![export.at].folders = @ \cup ({Format} \cap InFolder)]
    /\ export' = [export EXCEPT !.formats = Tail(@), !.done = @ \cup {Format},
                    !.written = @ \cup Paths(Format),
                    !.conformant = @ /\ (Format = "construct" => export.query.el)]
    /\ UNCHANGED <<rows, checked, tree, index, history, dump, dumps, restored>>

AllWritten == export.formats = <<>>

WriteManifest ==
    /\ Exporting("write") /\ AllWritten
    /\ dest' = [dest EXCEPT ![export.at].manifest =
                  [formats |-> export.done \cup Range(export.formats),
                   corpus |-> export.data.corpus,
                   watermark |-> export.data.watermark, full_shacl |-> export.data.full_shacl,
                   partial |-> export.partial, profile |-> export.profile,
                   el_conformant |-> export.conformant]]
    /\ export' = NoExport
    /\ UNCHANGED <<rows, checked, tree, index, history, dump, dumps, restored>>

(* the directory is removed, or else what this call wrote *)
Cleared(d, written) ==
    IF export.created THEN Absent
    ELSE [d EXCEPT !.files = {f \in @ : f.path \notin written}]

(* a format is refused before it is written, or lost in the round trip and  *)
(* its folder made by then                                                   *)
FailFormat ==
    /\ Exporting("write") /\ ~AllWritten
    /\ LET folder == IF Format = "construct" THEN {} ELSE {Format} \cap InFolder
       IN  dest' = [dest EXCEPT ![export.at] =
                      Cleared([dest[export.at] EXCEPT !.folders = @ \cup folder],
                              export.written)]
    /\ export' = NoExport
    /\ UNCHANGED <<rows, checked, tree, index, history, dump, dumps, restored>>

(* a manifest that fails half way stays where the directory does *)
FailManifest ==
    /\ Exporting("write") /\ AllWritten
    /\ dest' = [dest EXCEPT ![export.at] =
                   Cleared([dest[export.at] EXCEPT !.manifest = Torn], export.written)]
    /\ export' = NoExport
    /\ UNCHANGED <<rows, checked, tree, index, history, dump, dumps, restored>>

(* the process stops, or a read fails before there is a destination *)
CrashExport ==
    /\ ~Exporting("idle")
    /\ export' = NoExport
    /\ UNCHANGED <<rows, checked, dest, tree, index, history, dump, dumps, restored>>

ExportStep == BeginExport \/ ReadForExport \/ OpenDestination \/ WriteFormat \/ WriteManifest

-----------------------------------------------------------------------------
(* run_ttl_dump *)

DumpPaths == {<<"tbox">>} \cup (ExportCorpora \X {"abox", "governance", "manifest"})
NoTree == [p \in DumpPaths |-> NoFile]
NoDump == [pc |-> "idle"]

Dumping(pc) == dump.pc = pc

(* every corpus that has a journal, or those that are named *)
BeginDump ==
    /\ Dumping("idle") /\ dumps < MaxDumps
    /\ \E chosen \in SUBSET {c \in ExportCorpora : rows[c] # <<>>} :
          /\ chosen # {}
          /\ dump' = [pc |-> "open", left |-> chosen, data |-> NoData, written |-> {}]
    /\ dumps' = dumps + 1
    /\ UNCHANGED <<rows, checked, dest, export, tree, index, history, restored>>

DumpCorpus ==
    /\ Dumping("open")
    /\ \E c \in dump.left :
          dump' = [dump EXCEPT !.pc = "status", !.left = @ \ {c}, !.data = Graphs(c)]
    /\ UNCHANGED <<rows, checked, dest, export, tree, index, history, dumps, restored>>

ReadForDump ==
    /\ dump.pc \in DOMAIN AfterRead
    /\ dump' = [dump EXCEPT !.data = Reading(dump.data, dump.pc), !.pc = AfterRead[dump.pc]]
    /\ UNCHANGED <<rows, checked, dest, export, tree, index, history, dumps, restored>>

(* what the files of one corpus hold, and how many statements that is *)
Abox(d) == [graph |-> d.abox, records |-> d.records]
Governance(d) == [graph |-> d.gov, records |-> d.signedEvents]
Statements(content) == Cardinality(content.graph)

(* fault: the head when the manifest is written *)
HeadNow(d) == Len(rows[d.corpus])

(* the journal head the manifest names: that of the read of the data *)
DumpHead(d) == d.watermark

Contents == [graph : SUBSET Nat, records : SUBSET Nat]
DumpManifests == [head : Nat, full_shacl : {"unvalidated", "pass", "fail"},
                  statements : [abox : Nat, governance : Nat]]

ASSUME NoFileAssumption == NoFile \notin Contents \cup DumpManifests \cup {"tbox"}

DumpFile(d, name) ==
    CASE name = "abox" -> Abox(d)
      [] name = "governance" -> Governance(d)
      [] name = "manifest" -> [head |-> DumpHead(d), full_shacl |-> d.full_shacl,
                               statements |-> [abox |-> Statements(Abox(d)),
                                               governance |-> Statements(Governance(d))]]

AfterFile == [data |-> "governance", governance |-> "tbox", tbox |-> "manifest",
              manifest |-> "corpora"]

(* the files of a corpus, one by one; the shared TBox with the first corpus *)
WriteDumpFile ==
    /\ dump.pc \in DOMAIN AfterFile
    /\ LET name == IF Dumping("data") THEN "abox" ELSE dump.pc
           path == IF name = "tbox" THEN <<"tbox">> ELSE <<dump.data.corpus, name>>
       IN  /\ tree' = [tree EXCEPT ![path] = IF name = "tbox" THEN "tbox"
                                             ELSE DumpFile(dump.data, name)]
           /\ dump' = [dump EXCEPT !.written = @ \cup {path}, !.pc =
                         IF AfterFile[@] # "corpora" THEN AfterFile[@]
                         ELSE IF dump.left = {} THEN "add" ELSE "open"]
    /\ UNCHANGED <<rows, checked, dest, export, index, history, dumps, restored>>

(* git add -- written *)
Added == [p \in DumpPaths |-> IF p \in dump.written THEN tree[p] ELSE index[p]]

AddDump ==
    /\ Dumping("add")
    /\ index' = Added
    /\ dump' = [dump EXCEPT !.pc = "commit"]
    /\ UNCHANGED <<rows, checked, dest, export, tree, history, dumps, restored>>

CommittedFiles == IF history = <<>> THEN NoTree ELSE Last(history)

(* only when something is staged *)
CommitDump ==
    /\ Dumping("commit")
    /\ history' = IF index = CommittedFiles THEN history ELSE Append(history, index)
    /\ dump' = NoDump
    /\ UNCHANGED <<rows, checked, dest, export, tree, index, dumps, restored>>

(* a corpus cannot be read, a file is lost in the round trip, git fails, or *)
(* the process stops: what is in the work tree and the index stays there    *)
StopDump ==
    /\ ~Dumping("idle")
    /\ dump' = NoDump
    /\ UNCHANGED <<rows, checked, dest, export, tree, index, history, dumps, restored>>

DumpStep == BeginDump \/ DumpCorpus \/ ReadForDump \/ WriteDumpFile \/ AddDump \/ CommitDump

(* restore_ttl_dump: the files of every manifest are loaded into a new store, *)
(* and counted                                                                *)
Counted(c) ==
    \A name \in {"abox", "governance"} :
        /\ tree[<<c, name>>] # NoFile
        /\ Statements(tree[<<c, name>>]) = tree[<<c, "manifest">>].statements[name]

Restore ==
    LET dumped == {c \in ExportCorpora : tree[<<c, "manifest">>] # NoFile}
    IN  /\ restored = NoFile /\ dumped # {}
        /\ \A c \in dumped : Counted(c)
        /\ restored' = [c \in dumped |-> [abox |-> tree[<<c, "abox">>].graph,
                                          governance |-> tree[<<c, "governance">>].graph,
                                          head |-> tree[<<c, "manifest">>].head]]
        /\ UNCHANGED <<rows, checked, dest, export, tree, index, history, dump, dumps>>

-----------------------------------------------------------------------------
InitExport ==
    /\ rows = [c \in ExportCorpora |-> <<>>]
    /\ checked = [c \in ExportCorpora |-> [position |-> 0, state |-> "pass"]]
    /\ dest \in [Dests -> {Absent, Empty}]
    /\ export = NoExport
    /\ tree = NoTree /\ index = NoTree /\ history = <<>>
    /\ dump = NoDump /\ dumps = 0
    /\ restored = NoFile

NextExport ==
    \/ \E c \in ExportCorpora : Write(c) \/ Validate(c)
    \/ ExportStep \/ FailFormat \/ FailManifest \/ CrashExport
    \/ DumpStep \/ StopDump \/ Restore

ExportSpec == InitExport /\ [][NextExport]_exportVars

-----------------------------------------------------------------------------
(* A manifest tells the truth about a directory: every format it names is    *)
(* there, with the graphs, signed records and signed events of one moment of *)
(* the corpus, the moment it names; a full_shacl other than "unvalidated" is *)
(* that moment's; an export under OWL 2 EL holds nothing outside it; and a   *)
(* subset of a shard is there only if the manifest says partial.             *)
SameMoment(d, c, w) ==
    /\ d.corpus = c /\ d.watermark = w
    /\ d.abox = Latest(Upto(c, w)) /\ d.records = d.abox
    /\ d.gov = Events(Upto(c, w)) /\ d.signedEvents = d.gov

ManifestIsTrue ==
    \A p \in Dests : dest[p].manifest \notin {NoFile, Torn} =>
        LET m == dest[p].manifest
        IN  /\ \A f \in m.formats : Paths(f) \subseteq {file.path : file \in dest[p].files}
            /\ m.full_shacl \in {"unvalidated", Verdict(Upto(m.corpus, m.watermark))}
            /\ \A file \in dest[p].files :
                  /\ SameMoment(file.data, m.corpus, m.watermark)
                  /\ m.profile = "EL" \/ m.el_conformant => file.el
                  /\ file.whole \/ m.partial

(* What is committed to the dump repository is whole: the files of a corpus  *)
(* are those of the journal head its manifest names, after dumps that were   *)
(* cut short, failed in Git or covered a part of the corpora.                *)
HeadOf(files, c) == files[<<c, "manifest">>].head
CommittedIsWhole ==
    \A i \in DOMAIN history : \A c \in ExportCorpora :
        LET files == history[i]
        IN  \/ \A name \in {"abox", "governance", "manifest"} : files[<<c, name>>] = NoFile
            \/ /\ \A name \in {"abox", "governance", "manifest"} : files[<<c, name>>] # NoFile
               /\ files[<<c, "abox">>].graph = Latest(Upto(c, HeadOf(files, c)))
               /\ files[<<c, "abox">>].records = files[<<c, "abox">>].graph
               /\ files[<<c, "governance">>].graph = Events(Upto(c, HeadOf(files, c)))
               /\ files[<<"tbox">>] # NoFile

(* A call that fails leaves its destination as it found it.                  *)
FailedLeavesNothing ==
    [][FailFormat \/ FailManifest => \A p \in Dests : dest'[p] \in {Absent, Empty}]_exportVars

(* A store restored from the dump answers as the projection did at the       *)
(* journal head the manifests name.                                          *)
RestoredAtItsHead ==
    restored # NoFile =>
        \A c \in DOMAIN restored :
            /\ restored[c].abox = Latest(Upto(c, restored[c].head))
            /\ restored[c].governance = Events(Upto(c, restored[c].head))
=============================================================================
