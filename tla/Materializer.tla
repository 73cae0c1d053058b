------------------------------- MODULE Materializer -------------------------------
(***************************************************************************)
(* CorpusMaterializer (pretrain/materialize.py): one packed writer for     *)
(* every split and domain, fed from the raw archives in order, a document  *)
(* index beside each, the training orders, and the top-level manifest.     *)
(*                                                                         *)
(* The writers commit one after another at archive boundaries, without a   *)
(* transaction over all of them; the bridge journal only records phases.   *)
(* A writer is what PackedStream promises: documents it has committed and, *)
(* at the end, a published packing.  A run dies at any step, or is stopped *)
(* at an archive boundary, and a later one goes on.  The output lock makes *)
(* a run the only one: there is one pc.                                    *)
(*                                                                         *)
(* Archives, decisions and configurations are immutable inputs that pass   *)
(* their checks; only the geometry of the orders differs between runs.     *)
(***************************************************************************)
EXTENDS Integers, Sequences, FiniteSets

CONSTANTS Destinations, \* <<split, domain>> of every writer, in sorted order
          Splits,       \* SPLITS, in order; the first one is the training split
          Kept,         \* Kept[a]: destinations of the kept documents of archive a
          Geometries,   \* batch geometries a run may be given
          Target,       \* Target[kind][split]: input tokens kind asks of an order
          MaxInterruptions,    \* bound on interruptions
          TempSurvives, \* may a hard kill leave a temporary in the output root?
          None

SeqSet(s) == {s[i] : i \in DOMAIN s}
Dests == SeqSet(Destinations)
Archives == DOMAIN Kept
Train == Splits[1]

(* The kept documents of a destination in the order of the archives.       *)
Documents(d) == UNION {{a} \X {i \in DOMAIN Kept[a] : Kept[a][i] = d} : a \in Archives}
Earlier(x, y) == x[1] < y[1] \/ (x[1] = y[1] /\ x[2] < y[2])
Place(d, x) == Cardinality({y \in Documents(d) : Earlier(y, x)})
References == [d \in Dests |-> [n \in 1..Cardinality(Documents(d)) |->
                   CHOOSE x \in Documents(d) : Place(d, x) = n - 1]]
Reference(d) == References[d]

(* Provenance files, in the order they are written; the rest of them and   *)
(* their payloads do not differ between the two programs that publish.     *)
ProvenanceFiles(kind) == IF kind = "portable" THEN <<"handoff", "source">> ELSE <<"source">>

(***************************************************************************)
(* The records kept in files: an index row is a document and its position. *)
(***************************************************************************)
Outcomes == {"complete", "packed", "held_out", "stopped", "crashed", "refused", "unrecoverable"}
Phases == {"packing", "packed", "orders", "finalizing"}
Streams == Seq(Archives \X Nat)
Shards == Seq((Archives \X Nat) \X Nat)
Indexes == Seq([archive : Archives, rows : Shards])
Cursors == [next : 0..Len(Kept), documents : Nat, index : Indexes]
Journals == [phase : Phases, cursors : [Dests -> Cursors] \cup {<<>>}]
IndexManifests == [documents : Nat, shards : Indexes]
Orders == [target : UNION {{Target[k][s] : s \in SeqSet(Splits)} : k \in DOMAIN Target},
           geometry : Geometries \cup {None},
           packed : SUBSET (Dests \X Streams)]
Payloads == {"source"} \cup Journals
Manifests == [configuration : [target : {Target[k] : k \in DOMAIN Target},
                               geometry : Geometries \cup {None}],
              contents : [packed : [Dests -> Streams],
                          index : [Dests -> IndexManifests \cup {None}],
                          orders : [SeqSet(Splits) -> Orders \cup {None}],
                          provenance : [{"handoff", "source"} -> Payloads \cup {None}]]]

ASSUME DestinationsAssumption ==
    /\ Destinations # <<>> /\ Dests \subseteq SeqSet(Splits) \X {d[2] : d \in Dests}
    /\ Destinations \in Seq(Dests) /\ Splits \in Seq(SeqSet(Splits)) /\ Splits # <<>>
    /\ Kept \in Seq(Seq(Dests)) /\ Geometries # {}
ASSUME TargetAssumption == DOMAIN Target = {"materialize", "portable"}
ASSUME NoneAssumption ==
    None \notin Outcomes \cup Journals \cup IndexManifests \cup Orders \cup Payloads \cup Manifests
ASSUME MaterializerBoundsAssumption == MaxInterruptions \in Nat /\ TempSurvives \in BOOLEAN

VARIABLES
    pc, job, outcome, \* the run: where it is, what was asked, how the last one ended
    left, todo, \* destinations, and splits or files, still to be visited
    fed,        \* documents of the current archive read so far
    stream,     \* stream[d]: documents in writer d, committed or not
    cursor,     \* cursor[d]: the cursor of the destination
    shard,      \* shard[d]: index rows of the current archive
    pending,    \* the atomic_json in progress: file, value, what comes next
    writer,     \* writer[d]: durable state of writer d
    indexParts, indexFiles, indexManifest, \* provenance/documents
    journal, orders, staging, provenance, manifest, sidecar,
    temps,      \* temporaries a killed atomic_json left in the output root
    interruptions

run == <<pc, job, outcome>>
held == <<stream, cursor, shard, pending>>
memory == <<left, todo, fed, stream, cursor, shard>>
indexes == <<indexParts, indexFiles, indexManifest>>
publication == <<orders, staging, provenance, manifest, sidecar>>
directory == <<writer, indexes, journal, publication>>
failures == <<temps, interruptions>>
vars == <<run, memory, pending, directory, failures>>

InitialCursor == [next |-> 0, documents |-> 0, index |-> <<>>]
NoCursors == [d \in Dests |-> InitialCursor]
Nothing == [d \in Dests |-> <<>>]

Init == /\ pc = "down" /\ job = None /\ outcome = None
        /\ left = {} /\ todo = <<>> /\ fed = 0 /\ pending = None
        /\ stream = Nothing /\ shard = Nothing /\ cursor = NoCursors
        /\ writer = [d \in Dests |->
                       [docs |-> <<>>, cursor |-> InitialCursor, published |-> FALSE]]
        /\ indexParts = {} /\ indexFiles = <<>> /\ indexManifest = [d \in Dests |-> None]
        /\ journal = None
        /\ orders = [s \in SeqSet(Splits) |-> None] /\ staging = {}
        /\ provenance = [n \in SeqSet(ProvenanceFiles("portable")) |-> None]
        /\ manifest = None /\ sidecar = None /\ temps = {} /\ interruptions = 0

Goto(label) == pc' = label /\ UNCHANGED <<job, outcome>>

(* A run returns or raises: its memory is gone, the lock is free.          *)
End(result) == pc' = "down" /\ outcome' = result /\ job' = None
Forget == /\ left' = {} /\ todo' = <<>> /\ fed' = 0 /\ pending' = None
          /\ stream' = Nothing /\ shard' = Nothing /\ cursor' = NoCursors

(* atomic_json in the output root: a temporary, then os.replace.           *)
Write(file, value, then) ==
    /\ pc' = "replace" /\ UNCHANGED <<job, outcome>>
    /\ pending' = [file |-> file, value |-> value, then |-> then]

Replace ==
    /\ pc = "replace"
    /\ journal' = IF pending.file = "journal" THEN pending.value ELSE journal
    /\ manifest' = IF pending.file = "manifest" THEN pending.value ELSE manifest
    /\ sidecar' = IF pending.file = "sidecar" THEN pending.value ELSE sidecar
    /\ pending' = None
    /\ Goto(pending.then)
    /\ UNCHANGED <<memory, writer, indexes, orders, staging, provenance, failures>>

JournalPayload(phase) == [phase |-> phase, cursors |-> cursor]
WriteJournal(phase, then) == Write("journal", JournalPayload(phase), then)

-----------------------------------------------------------------------------
(* Start of a run.                                                         *)

Launch(j) ==
    /\ pc = "down"
    /\ pc' = "prepare" /\ job' = j /\ outcome' = None
    /\ UNCHANGED <<memory, pending, directory, failures>>

(* _prepare_output: a finished output is only validated; otherwise the     *)
(* root must be empty or hold a journal and nothing unknown.               *)
Complete == manifest # None /\ sidecar # None
Unknown == temps # {} \/ (journal = None /\ (manifest # None \/ DOMAIN indexFiles # {}))

Prepare ==
    /\ pc = "prepare" /\ job.kind = "materialize"
    /\ \/ Complete /\ Goto("validate") /\ UNCHANGED <<memory, pending>>
       \/ ~Complete /\ Unknown /\ End("unrecoverable") /\ Forget
       \/ ~Complete /\ ~Unknown /\ journal # None /\ Goto("open") /\ UNCHANGED <<memory,
                                                                                 pending>>
       \/ ~Complete /\ ~Unknown /\ journal = None
            /\ Write("journal", [phase |-> "packing", cursors |-> <<>>], "open")
            /\ UNCHANGED memory
    /\ UNCHANGED <<directory, failures>>

(* _open_destinations: every writer resumes at its own cursor, the listed   *)
(* index shards must be there, and the cursors at most one archive apart.  *)
RowsBefore(index, i) ==
    Cardinality(UNION {{j} \X (1..Len(index[j].rows)) : j \in 1..i - 1})
Records(index) == RowsBefore(index, Len(index) + 1)
ListedIntact(d, index) ==
    \A i \in 1..Len(index) :
      LET key == <<d, index[i].archive>>
      IN  key \in DOMAIN indexFiles /\ indexFiles[key] = index[i].rows

CursorValid(d, c) ==
    /\ ListedIntact(d, c.index)
    /\ \A i \in 1..Len(c.index) :
          /\ c.index[i].archive <= c.next /\ c.index[i].rows # <<>>
          /\ i > 1 => c.index[i - 1].archive < c.index[i].archive
    /\ Records(c.index) = c.documents
    /\ c.next <= Len(Kept)

Spread(c) == \A d, e \in Dests : c[d].next - c[e].next <= 1

OpenDestinations ==
    /\ pc = "open" /\ job.kind = "materialize"
    /\ LET resumed == [d \in Dests |-> writer[d].cursor]
       IN  IF (\A d \in Dests : CursorValid(d, resumed[d])) /\ Spread(resumed)
           THEN /\ cursor' = resumed
                /\ stream' = [d \in Dests |-> writer[d].docs]
                /\ Write("journal", [phase |-> "packing", cursors |-> resumed], "loop")
                /\ UNCHANGED <<left, todo, fed, shard>>
           ELSE End("unrecoverable") /\ Forget
    /\ UNCHANGED <<directory, failures>>

-----------------------------------------------------------------------------
(* _process_archive: feed the lagging writers, publish the index shards,   *)
(* commit the writers, journal.                                            *)

Lowest == CHOOSE n \in {cursor[d].next : d \in Dests} : \A d \in Dests : n <= cursor[d].next
Archive == Lowest + 1
Eligible == {d \in Dests : cursor[d].next = Lowest}

(* Every loop over destinations visits them in sorted order.               *)
NextDestination ==
    LET places == {i \in DOMAIN Destinations : Destinations[i] \in left}
    IN  Destinations[CHOOSE i \in places : \A j \in places : i <= j]
Visited == left' = left \ {NextDestination}

BeginArchive ==
    /\ pc = "loop" /\ Lowest < Len(Kept)
    /\ IF Spread(cursor) THEN Goto("feed") /\ fed' = 0 /\ shard' = [d \in Dests |-> <<>>]
                              /\ UNCHANGED <<left, todo, stream, cursor, pending>>
       ELSE End("unrecoverable") /\ Forget
    /\ UNCHANGED <<directory, failures>>

(* max_archives: a controlled stop between two archives.                   *)
ControlledStop ==
    /\ pc = "loop" /\ Lowest < Len(Kept)
    /\ interruptions < MaxInterruptions /\ interruptions' = interruptions + 1
    /\ End("stopped") /\ Forget
    /\ UNCHANGED <<directory, temps>>

PositionFromZero(d) == Len(shard[d])

(* logical_positions start from the cursor, not from the writer.           *)
Position(d) == cursor[d].documents + Len(shard[d])

FeedDocument ==
    /\ pc = "feed" /\ fed < Len(Kept[Archive])
    /\ fed' = fed + 1
    /\ LET d == Kept[Archive][fed + 1]
           doc == <<Archive, fed + 1>>
       IN  IF d \in Eligible
           THEN /\ stream' = [stream EXCEPT ![d] = Append(@, doc)]
                /\ shard' = [shard EXCEPT ![d] = Append(@, <<doc, Position(d)>>)]
                /\ indexParts' = indexParts \cup {<<d, Archive>>}
           ELSE UNCHANGED <<stream, shard, indexParts>>
    /\ UNCHANGED <<run, left, todo, cursor, pending, writer, indexFiles, indexManifest, journal,
                   publication, failures>>

ArchiveRead ==
    /\ pc = "feed" /\ fed = Len(Kept[Archive])
    /\ Goto("index") /\ left' = Eligible
    /\ UNCHANGED <<todo, fed, held, directory, failures>>

(* _DocumentIndexShardWriter.finish: a shard published before a crash must *)
(* be regenerated exactly; one that is not expected must not exist.        *)
PublishIndexShard ==
    /\ pc = "index" /\ left # {}
    /\ LET d == NextDestination
           key == <<d, Archive>>
           exists == key \in DOMAIN indexFiles
       IN  IF exists /\ indexFiles[key] # shard[d]
           THEN /\ End("unrecoverable") /\ Forget
                /\ indexParts' = {p \in indexParts : p[2] # Archive}
                /\ UNCHANGED indexFiles
           ELSE /\ Visited
                /\ indexParts' = indexParts \ {key}
                /\ indexFiles' = IF shard[d] = <<>> THEN indexFiles
                                 ELSE [k \in DOMAIN indexFiles \cup {key} |->
                                         IF k = key THEN shard[d] ELSE indexFiles[k]]
                /\ UNCHANGED <<run, todo, fed, held>>
    /\ UNCHANGED <<writer, indexManifest, journal, publication, failures>>

IndexPublished ==
    /\ pc = "index" /\ left = {}
    /\ Goto("commit") /\ left' = Eligible
    /\ UNCHANGED <<todo, fed, held, directory, failures>>

(* writer.checkpoint(cursor), one writer after another.                    *)
Advanced(d) ==
    [next |-> Archive,
     documents |-> cursor[d].documents + Len(shard[d]),
     index |-> IF shard[d] = <<>> THEN cursor[d].index
               ELSE Append(cursor[d].index, [archive |-> Archive, rows |-> shard[d]])]
CommitWriter ==
    /\ pc = "commit" /\ left # {}
    /\ LET d == NextDestination
       IN  /\ writer' = [writer EXCEPT ![d].docs = stream[d], ![d].cursor = Advanced(d)]
           /\ cursor' = [cursor EXCEPT ![d] = Advanced(d)]
           /\ shard' = [shard EXCEPT ![d] = <<>>]
    /\ Visited
    /\ UNCHANGED <<run, todo, fed, stream, pending, indexes, journal, publication, failures>>

ArchiveCommitted ==
    /\ pc = "commit" /\ left = {}
    /\ WriteJournal("packing", "loop")
    /\ UNCHANGED <<memory, directory, failures>>

-----------------------------------------------------------------------------
(* The end of packing.                                                     *)

BeginFinish ==
    /\ pc = "loop" /\ Lowest = Len(Kept)
    /\ IF \A d \in Dests : cursor[d].documents = Len(Reference(d))
       THEN Goto("finish") /\ left' = Dests
            /\ UNCHANGED <<todo, fed, held>>
       ELSE End("unrecoverable") /\ Forget
    /\ UNCHANGED <<directory, failures>>

(* writer.finish(source_cursor=...): nothing to do for a finished writer.  *)
FinishWriter ==
    /\ pc = "finish" /\ left # {}
    /\ LET d == NextDestination
       IN  /\ writer' = [writer EXCEPT ![d] = [docs |-> stream[d], cursor |-> cursor[d],
                                               published |-> TRUE]]
           /\ IF cursor[d].documents = Len(stream[d])
              THEN Visited /\ UNCHANGED <<run, todo, fed, held>>
              ELSE End("unrecoverable") /\ Forget
    /\ UNCHANGED <<indexes, journal, publication, failures>>

WritersFinished ==
    /\ pc = "finish" /\ left = {}
    /\ Goto("index_manifests") /\ left' = Dests
    /\ UNCHANGED <<todo, fed, held, directory, failures>>

(* The index positions follow each other and cover the packed documents.   *)
IndexManifest(d) == [documents |-> cursor[d].documents, shards |-> cursor[d].index]
IndexValid(d, m) ==
    /\ ListedIntact(d, m.shards)
    /\ \A i \in 1..Len(m.shards) : \A k \in 1..Len(m.shards[i].rows) :
          m.shards[i].rows[k][2] = RowsBefore(m.shards, i) + k - 1
    /\ Records(m.shards) = m.documents
    /\ m.documents = Len(writer[d].docs)

FinishDocumentIndex ==
    /\ pc = "index_manifests" /\ left # {}
    /\ LET d == NextDestination
           m == IndexManifest(d)
       IN  /\ indexManifest' = IF indexManifest[d] = None
                               THEN [indexManifest EXCEPT ![d] = m] ELSE indexManifest
           /\ IF indexManifest[d] \in {None, m} /\ IndexValid(d, m)
              THEN Visited /\ UNCHANGED <<run, todo, fed, held>>
              ELSE End("unrecoverable") /\ Forget
    /\ UNCHANGED <<writer, indexParts, indexFiles, journal, publication, failures>>

Packed ==
    /\ pc = "index_manifests" /\ left = {}
    /\ WriteJournal("packed", "packed")
    /\ UNCHANGED <<memory, directory, failures>>

StopAfterPacking ==
    /\ pc = "packed"
    /\ IF job.stop THEN End("packed") /\ Forget
       ELSE Goto("orders") /\ todo' = Splits /\ UNCHANGED <<left, fed, held>>
    /\ UNCHANGED <<directory, failures>>

-----------------------------------------------------------------------------
(* _build_orders: each order is built in a staging directory and renamed;  *)
(* one that is there already must be the one this run would build.         *)

Order(split) ==
    [target |-> Target[job.kind][split],
     geometry |-> IF split = Train THEN job.geometry ELSE None,
     packed |-> {<<d, writer[d].docs>> : d \in {e \in Dests : e[1] = split}}]
OrderValidAnyGeometry(split) == orders[split].target = Target[job.kind][split]
OrderValid(split) ==
    /\ orders[split].target = Target[job.kind][split]
    /\ orders[split].geometry = IF split = Train THEN job.geometry ELSE None

Staged(split) == <<job.kind, split>>

ReuseOrder ==
    /\ pc = "orders" /\ todo # <<>> /\ orders[Head(todo)] # None
    /\ IF Staged(Head(todo)) \in staging THEN End("unrecoverable") /\ Forget
       ELSE IF OrderValid(Head(todo))
       THEN todo' = Tail(todo) /\ UNCHANGED <<run, left, fed, held>>
       ELSE End("refused") /\ Forget
    /\ UNCHANGED <<directory, failures>>

StageOrderReplaces ==
    /\ pc = "orders" /\ todo # <<>>
    /\ staging' = staging \cup {Staged(Head(todo))}
    /\ Goto("publish_order")
    /\ UNCHANGED <<memory, pending, writer, indexes, journal, orders, provenance, manifest,
                   sidecar, failures>>

StageOrder ==
    /\ pc = "orders" /\ todo # <<>> /\ orders[Head(todo)] = None
    /\ staging' = staging \cup {Staged(Head(todo))}
    /\ Goto("publish_order")
    /\ UNCHANGED <<memory, pending, writer, indexes, journal, orders, provenance, manifest,
                   sidecar, failures>>

PublishOrder ==
    /\ pc = "publish_order"
    /\ orders' = [orders EXCEPT ![Head(todo)] = Order(Head(todo))]
    /\ staging' = staging \ {Staged(Head(todo))}
    /\ todo' = Tail(todo)
    /\ IF job.kind = "materialize" THEN WriteJournal("orders", "orders")
       ELSE Goto("orders") /\ UNCHANGED pending
    /\ UNCHANGED <<left, fed, stream, cursor, shard, writer, indexes, journal, provenance,
                   manifest, sidecar, failures>>

-----------------------------------------------------------------------------
(* _write_provenance and the top-level manifest, then its checksum, then   *)
(* the end of the journal.                                                 *)

Payload(file) == IF file = "handoff" THEN journal ELSE file

OrdersDone ==
    /\ pc = "orders" /\ todo = <<>> /\ job.kind = "materialize"
    /\ Goto("provenance") /\ todo' = ProvenanceFiles(job.kind)
    /\ UNCHANGED <<left, fed, held, directory, failures>>

WriteProvenance ==
    /\ pc = "provenance" /\ job.kind = "materialize"
    /\ IF todo # <<>>
       THEN /\ provenance' = [provenance EXCEPT ![Head(todo)] = Payload(Head(todo))]
            /\ todo' = Tail(todo) /\ UNCHANGED <<run, pending>>
       ELSE WriteJournal("finalizing", "manifest") /\ UNCHANGED <<todo, provenance>>
    /\ UNCHANGED <<left, fed, stream, cursor, shard, writer, indexes, journal, orders, staging,
                   manifest, sidecar, failures>>

OrderConfiguration == [target |-> Target[job.kind], geometry |-> job.geometry]
Contents(files) == [packed |-> [d \in Dests |-> writer[d].docs], index |-> indexManifest,
                    orders |-> orders,
                    provenance |-> [n \in DOMAIN provenance |->
                                       IF n \in files THEN provenance[n] ELSE None]]
FinalManifest == [configuration |-> OrderConfiguration,
                  contents |-> Contents(SeqSet(ProvenanceFiles(job.kind)))]
Listed(contents) == {n \in DOMAIN provenance : contents.provenance[n] # None}
Described == manifest.contents = Contents(Listed(manifest.contents))

WriteManifest ==
    /\ pc = "manifest" /\ job.kind = "materialize"
    /\ Write("manifest", FinalManifest, "sidecar")
    /\ UNCHANGED <<memory, directory, failures>>

WriteSidecar ==
    /\ pc = "sidecar"
    /\ Write("sidecar", manifest, "unlink")
    /\ UNCHANGED <<memory, directory, failures>>

UnlinkJournal ==
    /\ pc = "unlink"
    /\ journal' = None
    /\ End("complete") /\ Forget
    /\ UNCHANGED <<writer, indexes, publication, failures>>

ValidateCompletedKeepsJournal ==
    /\ pc = "validate" /\ job.kind = "materialize"
    /\ End("complete") /\ Forget
    /\ UNCHANGED <<directory, failures>>

(* _validate_completed: every digest of a finished output.                 *)
ValidateCompleted ==
    /\ pc = "validate" /\ job.kind = "materialize"
    /\ IF sidecar # manifest THEN End("unrecoverable") /\ UNCHANGED journal
       ELSE IF manifest.configuration # OrderConfiguration
       THEN End("refused") /\ UNCHANGED journal
       ELSE IF Described /\ (\A d \in Dests : IndexValid(d, indexManifest[d]))
       THEN End("complete") /\ journal' = None
       ELSE End("unrecoverable") /\ UNCHANGED journal
    /\ Forget
    /\ UNCHANGED <<writer, indexes, publication, failures>>

(* An exception unwinds (atomic_json and the index shards unlink their     *)
(* temporaries), a kill does not.  Writers roll back to their commits.     *)
Crash ==
    /\ pc # "down"
    /\ interruptions < MaxInterruptions /\ interruptions' = interruptions + 1
    /\ \/ UNCHANGED indexParts
       \/ indexParts' = {p \in indexParts : shard[p[1]] = <<>>}
    /\ \/ UNCHANGED temps
       \/ pc = "replace" /\ TempSurvives /\ temps' = temps \cup {pending.file}
    /\ End("crashed") /\ Forget
    /\ UNCHANGED <<writer, indexFiles, indexManifest, journal, publication>>

Jobs == [kind : {"materialize"}, geometry : Geometries, stop : {FALSE}]
          \cup {[kind |-> "materialize", geometry |-> None, stop |-> TRUE]}

Setup == Prepare \/ OpenDestinations
ProcessArchive == \/ BeginArchive \/ FeedDocument \/ ArchiveRead \/ PublishIndexShard
                  \/ IndexPublished \/ CommitWriter \/ ArchiveCommitted
FinishPacking == \/ BeginFinish \/ FinishWriter \/ WritersFinished \/ FinishDocumentIndex
                 \/ Packed \/ StopAfterPacking
Finalize == \/ ReuseOrder \/ StageOrder \/ PublishOrder \/ OrdersDone \/ WriteProvenance
            \/ WriteManifest \/ WriteSidecar \/ UnlinkJournal \/ ValidateCompleted
Progress == Setup \/ ProcessArchive \/ FinishPacking \/ Finalize \/ Replace

Next == (\E j \in Jobs : Launch(j)) \/ Progress \/ ControlledStop \/ Crash

Spec == Init /\ [][Next]_vars

(* The final run an operator who wants a finished corpus asks for.         *)
Wanted == [kind |-> "materialize", geometry |-> CHOOSE g \in Geometries : TRUE, stop |-> FALSE]

-----------------------------------------------------------------------------
(* Properties.                                                             *)


\* Whatever interrupted a run, wherever, no later run meets a state its
\* fail-closed checks call damaged: a cursor vector, an index shard, a journal
\* or an order that no configuration could accept (_prepare_output,
\* _validate_cursor, _DocumentIndexShardWriter.finish, _build_orders).
ResumeNeverRefuses == outcome # "unrecoverable"

\* Writers that are an archive ahead are left alone: every published packing
\* holds the kept documents once, in order, and its index names their places
\* ("byte-identical to an uninterrupted build", docs/data/materialization.md).
PublishedIsReference ==
    \A d \in Dests :
      /\ writer[d].published => writer[d].docs = Reference(d)
      /\ indexManifest[d] # None =>
            /\ indexManifest[d].documents = Len(Reference(d))
            /\ \A i \in 1..Len(indexManifest[d].shards) :
                 LET m == indexManifest[d].shards
                 IN  \A k \in 1..Len(m[i].rows) :
                       m[i].rows[k] = <<Reference(d)[RowsBefore(m, i) + k], RowsBefore(m, i) + k - 1>>

\* The bridge journal never claims more than the writers committed, and phase
\* "packed", which the portable finalizer relies on, is written only when every
\* writer and every index manifest is published (_write_journal).
JournalBacked ==
    journal # None =>
      /\ \A d \in DOMAIN journal.cursors : journal.cursors[d].next <= writer[d].cursor.next
      /\ journal.phase \in {"packed", "orders", "finalizing"} =>
            \A d \in Dests : writer[d].published /\ indexManifest[d] # None
                             /\ journal.cursors[d] = writer[d].cursor

\* A finished corpus is consistent: the manifest describes the files that are
\* there and the geometry of its train order, whatever runs with whatever
\* geometry came before it (_validate_order_identity, _final_manifest).
PublicationConsistent ==
    Complete => /\ sidecar = manifest /\ Described
                /\ orders[Train].geometry = manifest.configuration.geometry
                /\ \A s \in SeqSet(Splits) : orders[s].target = manifest.configuration.target[s]

\* Every writer keeps the promise of PackedStream (two tokens a document).
Stream(d) == INSTANCE PackedStream WITH
    NumDocs <- Len(Reference(d)), DocEnd <- [n \in 0..Len(Reference(d)) |-> 2 * n],
    SeqLen <- 2, RowsPerShard <- 2, NotPublished <- None, committed <- 0, published <- None
Writer(d) == INSTANCE PackedStream WITH
    NumDocs <- Len(Reference(d)), DocEnd <- [n \in 0..Len(Reference(d)) |-> 2 * n],
    SeqLen <- 2, RowsPerShard <- 2, NotPublished <- None,
    committed <- Len(writer[d].docs),
    published <- IF writer[d].published THEN Stream(d)!Packing(Len(writer[d].docs)) ELSE None
WritersPromised ==
    /\ \A d \in Dests : Writer(d)!Init
    /\ [][\A d \in Dests : Writer(d)!Next \/ UNCHANGED Writer(d)!avars]_vars

(* The corpus is finished and nothing temporary is left beside it.         *)
Completed == Complete /\ journal = None /\ indexParts = {} /\ staging = {}
=============================================================================
