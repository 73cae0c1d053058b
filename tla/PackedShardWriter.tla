--------------------------- MODULE PackedShardWriter ---------------------------
(***************************************************************************)
(* One PackedShardWriter (pretrain/data.py), the caller that feeds it and  *)
(* the directory it writes into.                                           *)
(*                                                                         *)
(* The process may die between any two system calls.  What it had written  *)
(* but not fsynced may be lost; directory operations survive in order.     *)
(* Every fail-closed check of a resume is modelled: a check that fails     *)
(* takes the construction to "refused", where only an operator can help.   *)
(*                                                                         *)
(* A token is its position in the document stream, so a row is a sequence  *)
(* of SeqLen + 1 positions and a checksum is the sequence of rows it       *)
(* covers.  The starts file is a function of the same rows; only the       *)
(* lengths of the two files, their names and their durability can differ.  *)
(***************************************************************************)
EXTENDS Integers, Sequences, FiniteSets, Functions

CONSTANTS NumDocs,      \* documents of the source, fed in order
          DocEnd,       \* DocEnd[d]: stream length after document d, EOS included
          SeqLen,       \* sequence_length
          RowsPerShard, \* rows_per_shard
          DrainRows,    \* _drain_batch_rows
          MaxFaults,    \* bound on crashes and failed system calls
          ManifestTempSurvives, \* may a hard kill leave a manifest temporary?
          None          \* absence of a journal or of a manifest

ASSUME NumDocsAssumption == NumDocs \in Nat
ASSUME DocEndAssumption ==
    /\ DocEnd \in [0..NumDocs -> Nat]
    /\ DocEnd[0] = 0
    /\ \A d, e \in 0..NumDocs : d < e => DocEnd[d] + 2 <= DocEnd[e]
ASSUME DimensionAssumption ==
    /\ SeqLen \in Nat /\ SeqLen >= 2
    /\ RowsPerShard \in Nat \ {0}
    /\ DrainRows \in Nat \ {0}

(* What a journal and a manifest hold.                                     *)
Journals == [cursor : Nat, documents : Nat, content : Nat, rows : Nat, masked : Nat,
             carry : Seq(Nat), shards : Seq(Seq(Seq(Nat))), open : Seq(Seq(Nat))]
Manifests == [cursor : Nat, documents : Nat, content : Nat, rows : Nat, masked : Nat,
              shards : Seq(Seq(Seq(Nat)))]
ASSUME NoneAssumption == None \notin Journals \cup Manifests
ASSUME FaultAssumption == MaxFaults \in Nat /\ ManifestTempSurvives \in BOOLEAN

VARIABLES
    pc,         \* where the writer is; "down": no process
    at,         \* the file kind a two-file step has reached
    finishing,  \* is finish() running?
    fed,        \* caller: documents fed, the next one is fed + 1
    buf,        \* _tokens[_buffer_offset:]
    documents, content, rows, masked,   \* the stream and loss counters
    shards,     \* _shards: the rows of each completed shard
    digest,     \* rows under _tokens_digest; _rows_in_open_shard is its length
    opened,     \* are the part files' handles open?
    dirty,      \* _open_shard_dirty
    cursor,     \* _source_cursor (0: None, the caller starts at the first document)
    dir,        \* directory: path -> file contents and fsynced length
    journal,    \* .packing-journal.json
    manifest,   \* manifest.json
    temps,      \* temporaries a killed _atomic_json left behind
    faults      \* crashes and failed calls so far

memory == <<buf, documents, content, rows, masked, shards, digest, opened, dirty, cursor>>
disk == <<dir, journal, manifest, temps>>
vars == <<pc, at, finishing, fed, memory, disk, faults>>

Kinds == {"tokens", "starts"}
Path(kind, index, place) == <<kind, index, place>>
Part(kind) == Path(kind, Len(shards), "part")
Final(kind) == Path(kind, Len(shards), "final")

Exists(p) == p \in DOMAIN dir
Put(d, p, f) == [q \in DOMAIN d \cup {p} |-> IF q = p THEN f ELSE d[q]]
Rename(d, from, to) == Put(Restrict(d, DOMAIN d \ {from}), to, d[from])
Starts(s, t) == Len(s) <= Len(t) /\ SubSeq(t, 1, Len(s)) = s

DocStarts == {DocEnd[d] : d \in 0..NumDocs - 1}
Window(r) == SubSeq(buf, (r - 1) * SeqLen + 1, r * SeqLen + 1)

Promise == INSTANCE PackedStream WITH
    NotPublished <- None,
    committed <- IF manifest # None THEN manifest.documents
                 ELSE IF journal # None THEN journal.documents ELSE 0,
    published <- IF manifest = None THEN None
                 ELSE [s \in 1..Len(manifest.shards) |->
                        dir[Path("tokens", s - 1, "final")].rows]

Fresh == /\ buf' = <<>> /\ documents' = 0 /\ content' = 0 /\ rows' = 0 /\ masked' = 0
         /\ shards' = <<>> /\ digest' = <<>> /\ opened' = FALSE /\ dirty' = FALSE
         /\ cursor' = 0

Init == /\ pc = "down" /\ at = "tokens" /\ finishing = FALSE /\ fed = 0
        /\ buf = <<>> /\ documents = 0 /\ content = 0 /\ rows = 0 /\ masked = 0
        /\ shards = <<>> /\ digest = <<>> /\ opened = FALSE /\ dirty = FALSE
        /\ cursor = 0
        /\ dir = <<>> /\ journal = None /\ manifest = None /\ temps = {}
        /\ faults = 0

Goto(label) == pc' = label

-----------------------------------------------------------------------------
(* Construction of a writer with resume=True.                              *)

Start == /\ pc = "down"
         /\ temps' = temps \ {"journal"}
         /\ Goto("boot")
         /\ UNCHANGED <<at, finishing, fed, memory, dir, journal, manifest, faults>>

(* Neither manifest nor journal: only an empty directory may be used.      *)
BootFresh == /\ pc = "boot"
             /\ manifest = None /\ journal = None
             /\ Goto(IF dir = <<>> /\ temps = {} THEN "sync" ELSE "refused")
             /\ UNCHANGED <<at, finishing, fed, memory, disk, faults>>

(* _resume_finished_manifest: sizes and the absence of unknown files.      *)
FinishedIntact ==
    LET listed == {Path(k, i - 1, "final") : k \in Kinds, i \in 1..Len(manifest.shards)}
    IN  /\ temps = {}
        /\ DOMAIN dir = listed
        /\ \A k \in Kinds : \A i \in 1..Len(manifest.shards) :
              Len(dir[Path(k, i - 1, "final")].rows) = Len(manifest.shards[i])

ResumeFinished ==
    /\ pc = "boot" /\ manifest # None
    /\ IF FinishedIntact
       THEN /\ documents' = manifest.documents /\ content' = manifest.content
            /\ rows' = manifest.rows /\ masked' = manifest.masked
            /\ shards' = manifest.shards /\ cursor' = manifest.cursor
            /\ fed' = manifest.cursor
            /\ journal' = None
            /\ Goto("closed")
       ELSE /\ Goto("refused")
            /\ UNCHANGED <<documents, content, rows, masked, shards, cursor, fed, journal>>
    /\ UNCHANGED <<at, finishing, buf, digest, opened, dirty, dir, manifest, temps, faults>>

(* _resume_from_journal, up to the open shard: counters, committed shards  *)
(* and the names in the directory.                                         *)
CommittedIntact(j) ==
    /\ \A i \in 1..Len(j.shards) : \A k \in Kinds :
          /\ Exists(Path(k, i - 1, "final"))
          /\ dir[Path(k, i - 1, "final")].rows = j.shards[i]
          /\ ~Exists(Path(k, i - 1, "part"))
    /\ \A i \in 1..Len(j.shards) : Len(j.shards[i]) = RowsPerShard

CountersConsistent(j) ==
    /\ Len(j.carry) <= SeqLen
    /\ j.content + j.documents = j.rows * SeqLen + Len(j.carry)
    /\ Len(j.open) < RowsPerShard
    /\ j.rows = Len(j.shards) * RowsPerShard + Len(j.open)

ResumeJournal ==
    /\ pc = "boot" /\ manifest = None /\ journal # None
    /\ IF CommittedIntact(journal) /\ CountersConsistent(journal) /\ temps = {}
       THEN /\ buf' = journal.carry
            /\ documents' = journal.documents /\ content' = journal.content
            /\ rows' = journal.rows /\ masked' = journal.masked
            /\ shards' = journal.shards /\ digest' = journal.open
            /\ cursor' = journal.cursor /\ fed' = journal.cursor
            /\ Goto(IF journal.open = <<>> THEN "sweep" ELSE "restore")
       ELSE /\ Goto("refused")
            /\ UNCHANGED <<buf, documents, content, rows, masked, shards, digest, cursor, fed>>
    /\ at' = "tokens"
    /\ UNCHANGED <<finishing, opened, dirty, disk, faults>>

(* The open shard, one kind at a time: exactly one candidate, long enough, *)
(* with the journaled checksum; a sealed candidate goes back to its part   *)
(* name.                                                                   *)
Candidates(kind) == {p \in {Part(kind), Final(kind)} : Exists(p)}

RestorePart ==
    /\ pc = "restore"
    /\ IF Cardinality(Candidates(at)) = 1
          /\ \A p \in Candidates(at) : Starts(digest, dir[p].rows)
       THEN /\ dir' = IF Exists(Part(at)) THEN dir ELSE Rename(dir, Final(at), Part(at))
            /\ Goto("truncate")
       ELSE Goto("refused") /\ UNCHANGED dir
    /\ UNCHANGED <<at, finishing, fed, memory, journal, manifest, temps, faults>>

TruncatePartKeepsUncommittedRows ==
    /\ pc = "truncate"
    /\ dir' = [dir EXCEPT ![Part(at)].synced = Len(dir[Part(at)].rows)]
    /\ at' = IF at = "tokens" THEN "starts" ELSE "tokens"
    /\ IF at = "tokens" THEN Goto("restore") /\ UNCHANGED opened
                        ELSE Goto("sweep") /\ opened' = TRUE
    /\ UNCHANGED <<finishing, fed, buf, documents, content, rows, masked, shards, digest,
                   dirty, cursor, journal, manifest, temps, faults>>

TruncatePart ==
    /\ pc = "truncate"
    /\ dir' = [dir EXCEPT ![Part(at)] = [rows |-> digest, synced |-> Len(digest)]]
    /\ at' = IF at = "tokens" THEN "starts" ELSE "tokens"
    /\ IF at = "tokens" THEN Goto("restore") /\ UNCHANGED opened
                        ELSE Goto("sweep") /\ opened' = TRUE
    /\ UNCHANGED <<finishing, fed, buf, documents, content, rows, masked, shards, digest,
                   dirty, cursor, journal, manifest, temps, faults>>

(* Unlink, one by one, every shard file the journal does not keep.         *)
KeptWithStaleParts == {Path(k, i - 1, "final") : k \in Kinds, i \in 1..Len(shards)}
                        \cup {Part(k) : k \in Kinds}

Kept == {Path(k, i - 1, "final") : k \in Kinds, i \in 1..Len(shards)}
          \cup (IF opened THEN {Part(k) : k \in Kinds} ELSE {})

SweepOne == /\ pc = "sweep"
            /\ \E p \in DOMAIN dir \ Kept : dir' = Restrict(dir, DOMAIN dir \ {p})
            /\ UNCHANGED <<pc, at, finishing, fed, memory, journal, manifest, temps, faults>>

SweepDone == /\ pc = "sweep" /\ DOMAIN dir \subseteq Kept
             /\ Goto("idle")
             /\ UNCHANGED <<at, finishing, fed, memory, disk, faults>>

-----------------------------------------------------------------------------
(* The caller's loop.                                                      *)

(* add_document: append the content and one EOS, then drain.               *)
AddDocument ==
    /\ pc = "idle" /\ fed < NumDocs
    /\ LET start == DocEnd[fed]
           size == DocEnd[fed + 1] - start
       IN  /\ buf' = buf \o [k \in 1..size |-> start + k - 1]
           /\ content' = content + size - 1
    /\ documents' = documents + 1
    /\ fed' = fed + 1
    /\ Goto("drain")
    /\ UNCHANGED <<at, finishing, rows, masked, shards, digest, opened, dirty, cursor, disk, faults>>

(* checkpoint(source_cursor): the cursor names the next document.          *)
Checkpoint ==
    /\ pc = "idle" /\ fed > cursor
    /\ Goto("sync")
    /\ UNCHANGED <<at, finishing, fed, memory, disk, faults>>

(* finish(source_cursor=...) checkpoints first; the exit of the context    *)
(* manager calls finish() with no cursor.                                  *)
Finish ==
    /\ pc = "idle" /\ fed = NumDocs
    /\ finishing' = TRUE
    /\ Goto("sync") \/ Goto("drain")
    /\ UNCHANGED <<at, fed, memory, disk, faults>>

-----------------------------------------------------------------------------
(* _drain_rows: write batches of rows, sealing each shard as it fills.     *)

RowReady == Len(buf) >= SeqLen + 1

(* _open_shard opens both parts with mode "xb".                            *)
CreateParts ==
    /\ pc = "drain" /\ RowReady /\ ~opened
    /\ IF Exists(Part(at))
       THEN Goto("refused") /\ UNCHANGED <<at, opened, digest, dirty, dir>>
       ELSE /\ dir' = Put(dir, Part(at), [rows |-> <<>>, synced |-> 0])
            /\ at' = IF at = "tokens" THEN "starts" ELSE "tokens"
            /\ opened' = (at = "starts")
            /\ digest' = <<>> /\ dirty' = FALSE
            /\ UNCHANGED pc
    /\ UNCHANGED <<finishing, fed, buf, documents, content, rows, masked, shards, cursor,
                   journal, manifest, temps, faults>>

WriteBatch ==
    /\ pc = "drain" /\ RowReady /\ opened
    /\ LET available == (Len(buf) - 1) \div SeqLen
           room == RowsPerShard - Len(digest)
           batch == CHOOSE n \in {available, room, DrainRows} :
                      n <= available /\ n <= room /\ n <= DrainRows
           new == [r \in 1..batch |-> Window(r)]
           labels == {w \in (1..batch) \X (2..SeqLen + 1) : new[w[1]][w[2]] \in DocStarts}
       IN  /\ dir' = [p \in DOMAIN dir |->
                        IF p \in {Part("tokens"), Part("starts")}
                        THEN [dir[p] EXCEPT !.rows = @ \o new] ELSE dir[p]]
           /\ digest' = digest \o new
           /\ rows' = rows + batch
           /\ masked' = masked + Cardinality(labels)
           /\ buf' = SubSeq(buf, batch * SeqLen + 1, Len(buf))
           /\ dirty' = TRUE
           /\ Goto(IF Len(digest) + batch = RowsPerShard THEN "seal" ELSE "drain")
    /\ UNCHANGED <<at, finishing, fed, documents, content, shards, opened, cursor,
                   journal, manifest, temps, faults>>

DrainedDropsPartialShard ==
    /\ pc = "drain" /\ ~RowReady
    /\ Goto(IF finishing THEN "publish" ELSE "idle")
    /\ UNCHANGED <<at, finishing, fed, memory, disk, faults>>

Drained ==
    /\ pc = "drain" /\ ~RowReady
    /\ Goto(IF ~finishing THEN "idle" ELSE IF opened THEN "seal" ELSE "publish")
    /\ UNCHANGED <<at, finishing, fed, memory, disk, faults>>

-----------------------------------------------------------------------------
(* _finalize_open_shard: fsync and close both parts, rename tokens, then   *)
(* starts, then record the shard.                                          *)

Synced(f) == [f EXCEPT !.synced = Len(f.rows)]
SyncTokensOnly == [p \in DOMAIN dir |-> IF p = Part("tokens") THEN Synced(dir[p]) ELSE dir[p]]

SyncParts == [p \in DOMAIN dir |->
                IF p \in {Part("tokens"), Part("starts")} THEN Synced(dir[p]) ELSE dir[p]]

SealSync ==
    /\ pc = "seal"
    /\ dir' = SyncParts
    /\ opened' = FALSE /\ dirty' = FALSE
    /\ Goto("rename")
    /\ UNCHANGED <<at, finishing, fed, buf, documents, content, rows, masked, shards, digest,
                   cursor, journal, manifest, temps, faults>>

SealRename ==
    /\ pc = "rename"
    /\ dir' = Rename(dir, Part(at), Final(at))
    /\ IF at = "tokens"
       THEN at' = "starts" /\ UNCHANGED <<pc, shards, digest>>
       ELSE /\ at' = "tokens"
            /\ shards' = Append(shards, digest) /\ digest' = <<>>
            /\ Goto(IF finishing THEN "publish" ELSE "drain")
    /\ UNCHANGED <<finishing, fed, buf, documents, content, rows, masked, opened, dirty, cursor,
                   journal, manifest, temps, faults>>

-----------------------------------------------------------------------------
(* _write_journal.                                                         *)

SyncOpenShard ==
    /\ pc = "sync"
    /\ dir' = IF dirty THEN SyncParts ELSE dir
    /\ dirty' = FALSE
    /\ Goto("journal_temporary")
    /\ UNCHANGED <<at, finishing, fed, buf, documents, content, rows, masked, shards, digest,
                   opened, cursor, journal, manifest, temps, faults>>


JournalPayload ==
    [cursor |-> fed, documents |-> documents, content |-> content, rows |-> rows,
     masked |-> masked, carry |-> buf, shards |-> shards, open |-> digest]

WriteJournalTemporary ==
    /\ pc = "journal_temporary"
    /\ temps' = temps \cup {"journal"}
    /\ Goto("journal_replace")
    /\ UNCHANGED <<at, finishing, fed, memory, dir, journal, manifest, faults>>

ReplaceJournal ==
    /\ pc = "journal_replace"
    /\ journal' = JournalPayload
    /\ temps' = temps \ {"journal"}
    /\ Goto("journal_sync")
    /\ UNCHANGED <<at, finishing, fed, memory, dir, manifest, faults>>

JournalWrittenForgetsFinish ==
    /\ pc = "journal_sync"
    /\ cursor' = fed
    /\ Goto("idle")
    /\ UNCHANGED <<at, finishing, fed, buf, documents, content, rows, masked, shards, digest,
                   opened, dirty, disk, faults>>

JournalWritten ==
    /\ pc = "journal_sync"
    /\ cursor' = fed
    /\ Goto(IF finishing THEN "drain" ELSE "idle")
    /\ UNCHANGED <<at, finishing, fed, buf, documents, content, rows, masked, shards, digest,
                   opened, dirty, disk, faults>>

(* A failed fsync, write or replace reaches the caller, who may go on: the *)
(* temporary is unlinked and the shard stays dirty until both fsyncs pass. *)
JournalRaises ==
    /\ pc \in {"sync", "journal_temporary", "journal_replace", "journal_sync"}
    /\ journal # None
    /\ faults < MaxFaults /\ faults' = faults + 1
    /\ \/ pc = "sync" /\ dirty
          /\ dir' = [dir EXCEPT ![Part("tokens")] = Synced(@)]
       \/ UNCHANGED dir
    /\ temps' = temps \ {"journal"}
    /\ finishing' = FALSE
    /\ Goto("idle")
    /\ UNCHANGED <<at, fed, memory, journal, manifest>>

-----------------------------------------------------------------------------
(* The end of finish(): the manifest is the commit point.                  *)

WriteManifestTemporary ==
    /\ pc = "publish"
    /\ temps' = temps \cup {"manifest"}
    /\ Goto("manifest_replace")
    /\ UNCHANGED <<at, finishing, fed, memory, dir, journal, manifest, faults>>

ReplaceManifest ==
    /\ pc = "manifest_replace"
    /\ manifest' = [cursor |-> cursor, documents |-> documents, content |-> content,
                    rows |-> rows, masked |-> masked, shards |-> shards]
    /\ temps' = temps \ {"manifest"}
    /\ Goto("unlink")
    /\ UNCHANGED <<at, finishing, fed, memory, dir, journal, faults>>

UnlinkJournal ==
    /\ pc = "unlink"
    /\ journal' = None
    /\ Goto("closed")
    /\ UNCHANGED <<at, finishing, fed, memory, dir, manifest, temps, faults>>

-----------------------------------------------------------------------------
(* The process dies.  A file keeps its fsynced rows and any number of the  *)
(* later ones.  An exception unlinks the temporary of _atomic_json, a hard *)
(* kill does not.                                                          *)
Crash ==
    /\ pc \notin {"down", "refused"}
    /\ faults < MaxFaults /\ faults' = faults + 1
    /\ \E lost \in [Kinds -> 0..RowsPerShard] :
          dir' = [p \in DOMAIN dir |->
                    LET kept == Len(dir[p].rows) - lost[p[1]]
                    IN  [dir[p] EXCEPT !.rows =
                           SubSeq(@, 1, IF kept > dir[p].synced THEN kept ELSE dir[p].synced)]]
    /\ temps' \in {{}, IF ManifestTempSurvives THEN temps ELSE temps \ {"manifest"}}
    /\ Fresh
    /\ at' = "tokens" /\ finishing' = FALSE /\ fed' = 0
    /\ Goto("down")
    /\ UNCHANGED <<journal, manifest>>

Closed == pc = "closed" /\ UNCHANGED vars

Boot == Start \/ BootFresh \/ ResumeFinished \/ ResumeJournal
          \/ RestorePart \/ TruncatePart \/ SweepOne \/ SweepDone
Caller == AddDocument \/ Checkpoint \/ Finish
Drain == CreateParts \/ WriteBatch \/ Drained \/ SealSync \/ SealRename
Journal == SyncOpenShard \/ WriteJournalTemporary \/ ReplaceJournal \/ JournalWritten
Publication == WriteManifestTemporary \/ ReplaceManifest \/ UnlinkJournal
Progress == Boot \/ Caller \/ Drain \/ Journal \/ Publication

Next == Progress \/ JournalRaises \/ Crash \/ Closed

Spec == Init /\ [][Next]_vars

(* The caller loops until it has finished, and an interrupted build is run *)
(* again; Checkpoint alone cannot go on for ever (fed > cursor).           *)
FairSpec == Spec /\ WF_vars(Progress)

-----------------------------------------------------------------------------
(* Properties.                                                             *)

\* No interruption leaves a state that the fail-closed checks of a resume
\* reject (_resume_from_journal, _resume_finished_manifest, _open_shard).
ResumeNeverRefuses == pc # "refused"

\* However often construction was interrupted, what a journal commits is a
\* prefix of the reference packing, and the published shards are all of it, in
\* both files of every shard and in no other file; every document boundary
\* inside the stored rows is masked exactly once (finish; "byte-identical to
\* uninterrupted construction").
PublishedIsReference ==
    /\ journal # None =>
      LET reference == Promise!Packing(NumDocs)
      IN  /\ Starts(journal.shards, reference)
          /\ journal.open # <<>> => Starts(journal.open, reference[Len(journal.shards) + 1])
    /\ manifest # None =>
      LET reference == Promise!Packing(NumDocs)
      IN  /\ DOMAIN dir = {Path(k, i - 1, "final") : k \in Kinds, i \in 1..Len(reference)}
          /\ \A k \in Kinds : \A i \in 1..Len(reference) :
                dir[Path(k, i - 1, "final")] =
                  [rows |-> reference[i], synced |-> Len(reference[i])]
          /\ manifest.documents = NumDocs
          /\ manifest.masked = Cardinality({d \in 1..NumDocs - 1 :
                                              DocEnd[d] <= manifest.rows * SeqLen})

\* What a journal commits is on stable storage: a power failure right after
\* the replace cannot shorten a row the journal vouches for (_sync_open_shard).
CommittedRowsDurable ==
    journal # None /\ manifest = None =>
      \A k \in Kinds :
        /\ \A i \in 1..Len(journal.shards) :
              LET p == Path(k, i - 1, "final")
              IN  Exists(p) /\ dir[p].synced = Len(journal.shards[i])
        /\ journal.open # <<>> =>
              \E place \in {"part", "final"} :
                LET p == Path(k, Len(journal.shards), place)
                IN  /\ Exists(p) /\ dir[p].synced >= Len(journal.open)
                    /\ Starts(journal.open, dir[p].rows)

\* A commit vouches for rows that are right and that are there.
CommitsHold == PublishedIsReference /\ CommittedRowsDurable

\* The construction implements the promise of PackedStream: commits only grow
\* and the whole stream is published once, whatever was interrupted.
Promised == Promise!Spec

\* With finitely many interruptions every construction publishes its manifest.
EventuallyPublished == <>[](manifest # None /\ journal = None)
=============================================================================
