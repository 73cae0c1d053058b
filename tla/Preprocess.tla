------------------------------- MODULE Preprocess -------------------------------
(***************************************************************************)
(* scripts/preprocess_raw_stream.py: watch the finalized archives of a     *)
(* collection that may still be growing, publish a fingerprint shard and a *)
(* report for each, keep the optional dedup index, and decide at a gate    *)
(* whether the collection is closed and completely audited.  One process   *)
(* at a time holds .preprocess.lock.                                       *)
(***************************************************************************)
EXTENDS Collection

CONSTANTS MaxTroubles    \* bound: failing archives, kills and stop requests

VARIABLES
    fingerprints, reports,   \* archives whose files are published
    errors,                  \* names with an error record
    index,                   \* dedup.sqlite3
    pre,                     \* the process: place, mode, what it has still to do
    passed,                  \* the last snapshot a gate accepted
    troubles                 \* counts troubles
published == <<fingerprints, reports, errors>>
preprocess == <<published, index, pre, passed, troubles>>

Off == [place |-> "off", mode |-> "deferred", retry |-> FALSE, todo |-> {}, at |-> None,
        snapshot |-> None]

PreprocessInit ==
    /\ fingerprints = {} /\ reports = {} /\ errors = {}
    /\ index = [archives |-> {}, clusters |-> <<>>, duplicates |-> 0]
    /\ pre = Off /\ passed = None /\ troubles = 0

Move(place) == pre' = [pre EXCEPT !.place = place]

(* reconcile_published_states: a report wins over an error record.         *)
Reconciled == errors \ {Name(a) : a \in reports}

(* A completed corpus is not watched again (docs/data/                     *)
(* streaming-preprocess.md, "Historical production operation").            *)
StartPreprocess ==
    /\ pre.place = "off" /\ passed = None
    /\ \E mode \in {"inline", "deferred", "only"}, retry \in BOOLEAN :
          /\ mode = "only" => ~retry    \* no archive is processed then
          /\ pre' = [Off EXCEPT !.place = "index", !.mode = mode, !.retry = retry]
    /\ errors' = Reconciled
    /\ UNCHANGED <<fingerprints, reports, index, passed, troubles>>

-----------------------------------------------------------------------------
(* DedupIndex: one transaction per archive.  A cluster keeps the smallest  *)
(* document id (here: of the row) and counts what shares its text.         *)
Cluster(archives, t) ==
    LET docs == {r \in UNION {a.rows : a \in archives} : r.text = t}
    IN  [first |-> Min({r.id : r \in docs}), documents |-> Cardinality(docs),
         tokens |-> TokensIn(docs)]
TextsIn(a) == {r.text : r \in a.rows}

MergeKeepsFirst(old, new) ==
    [first |-> old.first, documents |-> old.documents + new.documents,
     tokens |-> old.tokens + new.tokens]
Merge(old, new) ==
    [first |-> Min({old.first, new.first}), documents |-> old.documents + new.documents,
     tokens |-> old.tokens + new.tokens]

Upsert(clusters, a) ==
    [t \in DOMAIN clusters \cup TextsIn(a) |->
        IF t \notin TextsIn(a) THEN clusters[t]
        ELSE IF t \notin DOMAIN clusters THEN Cluster({a}, t)
        ELSE Merge(clusters[t], Cluster({a}, t))]

(* validate_ingested_report makes a repetition do nothing.                 *)
Ingest(a) ==
    /\ a \in fingerprints
    /\ index' = IF a \in index.archives THEN index
                ELSE [archives |-> index.archives \cup {a},
                      clusters |-> Upsert(index.clusters, a),
                      duplicates |-> index.duplicates
                         + Cardinality(a.rows) - Cardinality(TextsIn(a) \ DOMAIN index.clusters)]

IngestPublished ==
    /\ pre.place = "index" /\ pre.mode # "deferred"
    /\ \E a \in reports \ index.archives : Ingest(a)
    /\ UNCHANGED <<published, pre, passed, troubles>>

-----------------------------------------------------------------------------
(* discover_archives, then process_archive for each of them.               *)
CandidatesNeverRetried ==
    {a \in ledger \cap raw : Name(a) \notin {Name(x) : x \in reports} \cup errors}
Candidates ==
    {a \in ledger \cap raw :
        Name(a) \notin {Name(x) : x \in reports} /\ (pre.retry \/ Name(a) \notin errors)}

Discover ==
    /\ pre.place = "index" /\ (pre.mode = "deferred" \/ reports \subseteq index.archives)
    /\ pre' = [pre EXCEPT !.place = "archives",
                          !.todo = IF pre.mode = "only" THEN {} ELSE Candidates]
    /\ UNCHANGED <<published, index, passed, troubles>>

(* The fingerprint shard replaces what an interrupted attempt left.        *)
PublishFingerprint ==
    /\ pre.place = "archives"
    /\ \E a \in pre.todo :
          /\ fingerprints' = fingerprints \cup {a}
          /\ pre' = [pre EXCEPT !.place = "fingerprint", !.at = a, !.todo = @ \ {a}]
    /\ UNCHANGED <<reports, errors, index, passed, troubles>>

UnlinkError ==
    /\ pre.place = "fingerprint"
    /\ errors' = errors \ {Name(pre.at)}
    /\ Move("report")
    /\ UNCHANGED <<fingerprints, reports, index, passed, troubles>>

PublishReport ==
    /\ pre.place = "report"
    /\ reports' = reports \cup {pre.at}
    /\ Move(IF pre.mode = "inline" THEN "ingest" ELSE "archives")
    /\ UNCHANGED <<fingerprints, errors, index, passed, troubles>>

IngestInline ==
    /\ pre.place = "ingest" /\ Ingest(pre.at) /\ Move("archives")
    /\ UNCHANGED <<published, passed, troubles>>

(* record_error: the archive is left for a run that retries errors.        *)
RecordError(a) == errors' = IF a \in reports THEN errors \ {Name(a)} ELSE errors \cup {Name(a)}

Trouble == troubles < MaxTroubles /\ troubles' = troubles + 1
ArchiveFails ==
    /\ Trouble
    /\ \/ /\ pre.place = "archives"
          /\ \E a \in pre.todo : RecordError(a) /\ pre' = [pre EXCEPT !.todo = @ \ {a}]
       \/ /\ pre.place \in {"fingerprint", "report"}
          /\ RecordError(pre.at) /\ Move("archives")
    /\ UNCHANGED <<fingerprints, reports, index, passed>>

EndPass ==
    /\ pre.place = "archives" /\ pre.todo = {}
    /\ \/ Move("snapshot") \/ Move("index")
    /\ UNCHANGED <<published, index, passed, troubles>>

(* A stop request or --max-archives ends the pass after an archive.        *)
StopEarly ==
    /\ Trouble /\ pre.place = "archives" /\ pre.todo # {}
    /\ pre' = [pre EXCEPT !.place = "snapshot", !.todo = {}]
    /\ UNCHANGED <<published, index, passed>>

KillPreprocess ==
    /\ Trouble /\ pre.place # "off"
    /\ pre' = Off
    /\ UNCHANGED <<published, index, passed>>

-----------------------------------------------------------------------------
(* status_payload and terminal_gate_failures.  The coverage is read before *)
(* the closure, and collectors may run in between.                         *)
raw_audit_complete(errs) ==
    /\ reports = ledger /\ ledger = raw /\ reports \subseteq fingerprints
    /\ errs = {}

collection_closureUnmarked ==
    /\ {a.bucket : a \in ledger} = Buckets
    /\ \A s \in Sources : Reached(quota_status, s)
    /\ raw = ledger /\ orphans = {}

collection_closure ==
    /\ {a.bucket : a \in ledger} = Buckets
    /\ \A s \in Sources : Reached(quota_status, s)
    /\ raw = ledger /\ orphans = {}
    /\ \A s \in Sources : markers[s] = [b \in BucketsOf(s) |-> quota_status[b]]

ReadCoverage ==
    /\ pre.place = "snapshot"
    /\ errors' = Reconciled
    /\ pre' = [pre EXCEPT !.place = "closure",
                          !.snapshot = [audited |-> raw_audit_complete(Reconciled), ledger |-> ledger,
                                        indexed |-> pre.mode = "deferred" \/ index.archives = reports]]
    /\ UNCHANGED <<fingerprints, reports, index, passed, troubles>>

Gate ==
    /\ pre.place = "closure"
    /\ passed' = IF collection_closure /\ pre.snapshot.audited /\ pre.snapshot.indexed
                 THEN [ledger |-> pre.snapshot.ledger, indexed |-> pre.mode # "deferred"]
                 ELSE passed
    /\ pre' = Off
    /\ UNCHANGED <<published, index, troubles>>

PreprocessWork ==
    \/ IngestPublished \/ Discover \/ PublishFingerprint \/ UnlinkError \/ PublishReport
    \/ IngestInline \/ EndPass \/ ReadCoverage \/ Gate
PreprocessNext == StartPreprocess \/ PreprocessWork \/ ArchiveFails \/ StopEarly \/ KillPreprocess

-----------------------------------------------------------------------------
(* Properties.                                                             *)

\* In whatever order archives are audited and indexed, whichever attempt is
\* killed, the dedup index is that of the set of archives it names, a report
\* speaks of an archive that is fingerprinted and recorded, and there is "never
\* a new report plus a stale error" (DedupIndex.ingest, process_archive;
\* docs/data/streaming-preprocess.md:83).
AuditTrailExact ==
    /\ errors \cap {Name(a) : a \in reports} = {}
    /\ index.archives \subseteq reports /\ reports \subseteq fingerprints /\ reports \subseteq ledger
    /\ DOMAIN index.clusters = UNION {TextsIn(a) : a \in index.archives}
    /\ \A t \in DOMAIN index.clusters : index.clusters[t] = Cluster(index.archives, t)
    /\ index.duplicates = Cardinality(UNION {a.rows : a \in index.archives})
                            - Cardinality(DOMAIN index.clusters)

\* "an empty or still-growing collection returns exit 2 even if every currently
\* finalized archive was audited" (docs/data/streaming-preprocess.md:112): once a
\* gate has passed, the collection is closed and all of it is reported.
GateMeansAudited ==
    passed # None =>
      /\ \A s \in Sources : markers[s] # None
      /\ raw = ledger /\ reports = ledger /\ errors = {}
      /\ passed.indexed => index.archives = ledger

\* AuditTrailExact, and GateMeansAudited when no archive was recorded between
\* the gate's two readings.
AuditHolds ==
    /\ AuditTrailExact
    /\ passed # None /\ passed.ledger = ledger => GateMeansAudited
=============================================================================
