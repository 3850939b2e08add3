----------------------------- MODULE MCPublication -----------------------------
(* What is signed and published of a corpus, in six settings: two of           *)
(* GovernanceLog, with two signers who may both become admins and two commands *)
(* at a time; two of Minting; and two of CorpusExport.                         *)
EXTENDS GovernanceLog, Minting, CorpusExport, TLC

CONSTANTS alice, bob, c1, c2, m1, m2, d1, d2, x, y, s1

MCDids   == {alice, bob}
Alike == Permutations({alice, bob}) \cup Permutations({c1, c2})

\* Units as the checks see them: of an entity ruler, and of an LLM whose tags were judged,
\* which refers to the first one; and one whose content is the first one's.
Tag(path, status) ==
    [iri |-> TRUE, path |-> path, judge_status |-> status, exists |-> TRUE, branch |-> "right"]
Passage(s) == [span |-> s, verified |-> TRUE, substantive |-> TRUE, supports |-> TRUE]
Ruled(id, source, span, hash) ==
    [id |-> id, source |-> source, passage |-> Passage(span), content_hash |-> hash,
     tags |-> {Tag("entity_ruler", "none")}, b9_verified |-> TRUE, lineage |-> {},
     metadata |-> FALSE, supported_type |-> TRUE, stored |-> "none", references |-> {}]
Judged(u) == [u EXCEPT !.tags = {Tag("llm", "judged")}, !.lineage = {"concept", "judge"},
                       !.references = {<<"s1", "p1">>}]

First == Ruled("u1", "s1", "p1", "h1")
MCExtractions ==
    {<<First>>, <<First, Judged(Ruled("u2", "s1", "p2", "h2")), Ruled("u3", "s2", "p3", "h1")>>}

MCFormats ==
    {<<"nquads">>, <<"abox", "construct">>, <<"tbox", "neo4j">>, <<"construct", "governance">>}
MCQueries == [el : BOOLEAN, whole : BOOLEAN]

-----------------------------------------------------------------------------
\* Role events while the server's clock moves; retractions with role events at one time; one
\* mint of a run of three units; two mints of one unit while roles change; one export of one
\* corpus in every profile, with formats of each kind; and two dumps of two corpora that are
\* valid throughout.
VARIABLE setting
allVars == <<vars, mintVars, exportVars, setting>>

MCInit ==
    /\ Init /\ InitMint /\ InitExport
    /\ setting \in {"clock", "retractions", "mint", "mints", "export", "dump"}
    /\ extractors # {} => setting \in {"mint", "mints"}
    /\ dest[1] = Empty => setting = "export"

Clocks ==
    /\ Next
    /\ \A c \in Commands : cmd'[c].pc \in {"idle", "signed"}
    /\ \A i \in DOMAIN journal' : journal'[i].event.action # "put_shard"

Retractions == Next /\ UNCHANGED clock

OneMint == MintStep(m1) /\ (mint'[m1].signed => mint'[m1].did = d1)
TwoMints == NextMint /\ \A m \in Mints : Len(mint'[m].units) <= 1

Exports ==
    \/ Write(x) \/ Validate(x)
    \/ ExportStep /\ (export'.pc # "idle" => export'.data.corpus = x)
    \/ FailFormat \/ FailManifest \/ CrashExport

Dumps ==
    \/ Write(x) /\ ~Last(rows'[x]).bad
    \/ Write(y) /\ rows[y] = <<>> /\ ~Last(rows'[y]).bad
    \/ DumpStep \/ StopDump \/ Restore

MCNext ==
    /\ \/ setting = "clock" /\ Clocks /\ UNCHANGED <<mintVars, exportVars>>
       \/ setting = "retractions" /\ Retractions /\ UNCHANGED <<mintVars, exportVars>>
       \/ setting = "mint" /\ OneMint /\ UNCHANGED <<vars, exportVars>>
       \/ setting = "mints" /\ TwoMints /\ UNCHANGED <<vars, exportVars>>
       \/ setting = "export" /\ Exports /\ UNCHANGED <<vars, mintVars>>
       \/ setting = "dump" /\ Dumps /\ UNCHANGED <<vars, mintVars>>
    /\ UNCHANGED setting

MCSpec == MCInit /\ [][MCNext]_allVars
=============================================================================
