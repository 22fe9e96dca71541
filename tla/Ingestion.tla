------------------------------ MODULE Ingestion ------------------------------
(***************************************************************************)
(* `barbarion ingest`: IngestionService.run (application/ingest.py) over    *)
(* the local file system (infrastructure/filesystem.py, fingerprint.py) and *)
(* the SQLite catalogue (SQLiteIngestionRepository, infrastructure/         *)
(* sqlite.py).                                                              *)
(*                                                                          *)
(* Every action is one SQLite transaction or one read of the file system    *)
(* together with the bookkeeping that follows it, so a user editing the     *)
(* corpus, a Ctrl+C, a database error or a killed process may fall between  *)
(* any two of them.  One domain is modelled; a SHA-256 is the content it    *)
(* digests; the pair (size, mtime_ns) is one stamp, `mtime`, which every    *)
(* change of a file renews.                                                 *)
(***************************************************************************)
EXTENDS Naturals, Sequences, FiniteSets

CONSTANTS
    Roots,        \* ingestion roots: numbers, in the order of their paths
    Paths,        \* relative paths: numbers, in their order
    RootName,     \* [Roots -> name]: last component of the root's path
    RootLists,    \* the root sequences a user may pass to one run
    RootStates,   \* what may happen to a root: subset of RootCondition
    Contents,     \* the byte contents a file may have
    NoContent,    \* absent file, or NULL sha256
    Kind,         \* [Contents -> ContentKind]
    Sigs,         \* processing signatures (one per configuration)
    NoSig,        \* NULL processing_signature
    MaxRuns,      \* bound: runs started
    MaxEdits,     \* bound: changes made to the file system
    StatFaults,   \* BOOLEAN: stat() of an existing file may fail in discovery
    DbFaults      \* BOOLEAN: a SQLite operation may fail

RootCondition == {"ok", "missing", "unreadable"}
ContentKind == {"text", "pbl", "corrupt", "large"}

ASSUME RootsAssumption ==
    /\ Roots \subseteq Nat /\ Paths \subseteq Nat \ {0}
    /\ IsFiniteSet(Roots) /\ IsFiniteSet(Paths)
ASSUME RootListsAssumption ==
    \A s \in RootLists : DOMAIN s \in SUBSET Nat /\ \A i \in DOMAIN s : s[i] \in Roots
ASSUME ContentsAssumption ==
    /\ NoContent \notin Contents
    /\ Kind \in [Contents -> ContentKind]
    /\ NoSig \notin Sigs
ASSUME BoundsAssumption ==
    /\ RootStates \subseteq RootCondition
    /\ MaxRuns \in Nat /\ MaxEdits \in Nat
    /\ StatFaults \in BOOLEAN /\ DbFaults \in BOOLEAN

File == Roots \X Paths
NoFile == <<>>
NoPath == 0
Stamp == Nat \ {0}     \* 0 is no stamp

FileStatus == {"none", "processed", "skipped", "error", "deleted"}
RunStatus == {"running", "completed", "completed_with_errors", "failed", "interrupted"}
Mode == {"incremental", "full"}
Action == {"process", "unchanged", "hash_required"}

\* A row of `files`; status "none" stands for "no row".
FileRow == [status : FileStatus, sha : Contents \cup {NoContent},
            sig : Sigs \cup {NoSig}, mtime : Nat, seen : Nat]
NoRow == [status |-> "none", sha |-> NoContent, sig |-> NoSig, mtime |-> 0, seen |-> 0]

\* A row of `documents` with its chunks: source_sha256, the text extracted,
\* and the signature hashed into the chunk ids.
Document == [sha : Contents, text : Contents, sig : Sigs]
NoDoc == [sha |-> NoContent, text |-> NoContent, sig |-> NoSig]

Counters == [discovered : Nat, processed : Nat, unchanged : Nat,
             skipped : Nat, deleted : Nat, errors : Nat]
NoCounters == [discovered |-> 0, processed |-> 0, unchanged |-> 0,
               skipped |-> 0, deleted |-> 0, errors |-> 0]

FaultCode == {"ROOT_NOT_FOUND", "DIRECTORY_READ_FAILED", "FILE_STAT_FAILED", "FILE_TOO_LARGE"}
Fault == [code : FaultCode, root : Roots, path : Paths \cup {NoPath}]

VARIABLES
    (* environment *)
    disk,       \* [File -> Contents \cup {NoContent}]
    mtime,      \* [File -> Nat] current stamp
    rootState,  \* [Roots -> RootCondition]
    edits,      \* changes made so far (bound)
    (* SQLite *)
    files,      \* [File -> FileRow]
    docs,       \* [File -> Document or NoDoc]
    runs,       \* Seq of ingestion_runs rows
    (* the running process *)
    phase,      \* where IngestionService.run is
    job,        \* run id, arguments, and completed_roots
    work,       \* discovery result still to handle, and seen_files
    item,       \* current_file and what was computed for it
    m,          \* metrics
    (* auxiliary, read by no action *)
    dirty,      \* the file system changed since the last discovery
    history     \* [File -> contents the file has had]

env == <<disk, mtime, rootState, edits, history>>
database == <<files, docs, runs>>
process == <<phase, job, work, item, m>>
vars == <<disk, mtime, rootState, edits, files, docs, runs,
          phase, job, work, item, m, dirty, history>>

Phase == {"idle", "discover", "items", "hash", "parse", "persist", "count",
          "reconcile", "close", "returning", "interrupted", "fatal", "failed"}

NoJob == [id |-> 0, mode |-> "full", sig |-> NoSig, roots |-> <<>>,
          completed |-> {}, walked |-> {}]
NoWork == [faults |-> {}, todo |-> {}, stat |-> [f \in File |-> 0], seen |-> {}]
NoItem == [file |-> NoFile, action |-> "process", sha |-> NoContent, text |-> NoContent]

Init ==
    /\ disk \in [File -> Contents \cup {NoContent}]
    /\ mtime = [f \in File |-> 1]
    /\ rootState = [r \in Roots |-> "ok"]
    /\ edits = 0
    /\ files = [f \in File |-> NoRow]
    /\ docs = [f \in File |-> NoDoc]
    /\ runs = <<>>
    /\ phase = "idle" /\ job = NoJob /\ work = NoWork /\ item = NoItem /\ m = NoCounters
    /\ dirty = FALSE
    /\ history = [f \in File |-> {disk[f]} \ {NoContent}]

------------------------------------------------------------------------------
(* The file system, changed by the user at any time. *)

Changed == edits < MaxEdits /\ edits' = edits + 1 /\ dirty' = TRUE

\* A file is written (created or replaced), possibly with the same bytes.
WriteFile(f, c) ==
    /\ Changed
    /\ disk' = [disk EXCEPT ![f] = c]
    /\ mtime' = [mtime EXCEPT ![f] = @ + 1]
    /\ history' = [history EXCEPT ![f] = @ \cup {c}]
    /\ UNCHANGED <<rootState, database, process>>

RemoveFile(f) ==
    /\ Changed
    /\ disk[f] # NoContent
    /\ disk' = [disk EXCEPT ![f] = NoContent]
    /\ UNCHANGED <<mtime, rootState, history, database, process>>

\* A root is unmounted or renamed away, loses its read permission, or is back.
ChangeRoot(r, s) ==
    /\ Changed
    /\ rootState[r] # s
    /\ rootState' = [rootState EXCEPT ![r] = s]
    /\ UNCHANGED <<disk, mtime, history, database, process>>

\* The bytes open() finds at a path: a root without list permission can still
\* be traversed.
Bytes(f) == IF rootState[f[1]] = "missing" THEN NoContent ELSE disk[f]
KindAt(f) == IF Bytes(f) = NoContent THEN "absent" ELSE Kind[Bytes(f)]

------------------------------------------------------------------------------
(* Start of a run and discovery. *)

BeginRun(mode, sig, roots) ==
    /\ phase = "idle" /\ Len(runs) < MaxRuns
    /\ runs' = Append(runs, [status |-> "running", counters |-> NoCounters])
    /\ job' = [id |-> Len(runs) + 1, mode |-> mode, sig |-> sig, roots |-> roots,
               completed |-> {roots[i] : i \in DOMAIN roots}, walked |-> {}]
    /\ phase' = "discover" /\ work' = NoWork /\ item' = NoItem /\ m' = NoCounters
    /\ UNCHANGED <<env, files, docs, dirty>>

RootFault(r) ==
    [code |-> IF rootState[r] = "missing" THEN "ROOT_NOT_FOUND" ELSE "DIRECTORY_READ_FAILED",
     root |-> r, path |-> NoPath]
FileFault(code, f) == [code |-> code, root |-> f[1], path |-> f[2]]

TooLarge(f) == KindAt(f) = "large"

\* _normalize_roots keeps the readable roots; _iter_regular_files finds their files.
\* The roots are directories, none of them inside another: an overlapping root, a
\* root that is a single file and ROOT_UNSUPPORTED are left out.
Walked == {r \in job.completed : rootState[r] = "ok"}
Found == {f \in File : f[1] \in Walked /\ disk[f] # NoContent}

\* _classify_file: a file whose stat fails is lost, one over the limit is refused.
Oversized(lost) == {f \in Found \ lost : TooLarge(f)}
Listed(lost) == Found \ (lost \cup Oversized(lost))
DiscoveryFaults(lost) ==
    {RootFault(r) : r \in job.completed \ Walked}
        \cup {FileFault("FILE_TOO_LARGE", f) : f \in Oversized(lost)}
        \cup {FileFault("FILE_STAT_FAILED", f) : f \in lost}

Discover ==
    /\ phase = "discover"
    /\ \E lost \in SUBSET Found :
          /\ lost = {} \/ StatFaults
          /\ work' = [faults |-> DiscoveryFaults(lost), todo |-> Listed(lost),
                      stat |-> [f \in File |-> IF f \in Listed(lost) THEN mtime[f] ELSE 0],
                      seen |-> {}]
          /\ job' = [job EXCEPT !.walked = {r \in Walked : \A f \in lost : f[1] # r}]
    /\ phase' = "items"
    /\ dirty' = FALSE
    /\ UNCHANGED <<env, database, item, m>>

------------------------------------------------------------------------------
(* Repository writes shared by several handlers. *)

Row(status, sha, sig, stamp) ==
    [status |-> status, sha |-> sha, sig |-> sig, mtime |-> stamp, seen |-> job.id]

\* Mutant: an error leaves the row processed.
ErrorRowStillProcessed(f) ==
    IF files[f].status = "none"
    THEN Row("error", NoContent, NoSig, work.stat[f])
    ELSE [files[f] EXCEPT !.seen = job.id]

\* record_error for a file: an existing row keeps its document and fingerprint.
ErrorRow(f) ==
    IF files[f].status = "none"
    THEN Row("error", NoContent, NoSig, work.stat[f])
    ELSE [files[f] EXCEPT !.status = "error", !.seen = job.id]

RecordSkipped(f, stamp) ==
    /\ files' = [files EXCEPT ![f] = Row("skipped", NoContent, NoSig, stamp)]
    /\ docs' = [docs EXCEPT ![f] = NoDoc]

Count(field) == m' = [m EXCEPT ![field] = @ + 1]

------------------------------------------------------------------------------
(* Errors found by discovery come first in the sorted result. *)

\* _discovered_from_error: the first root, in the order the user gave them,
\* under which the relative path exists.
Holders(p) == {i \in DOMAIN job.roots : Bytes(<<job.roots[i], p>>) # NoContent}

SkipTooLarge(e) ==
    /\ e.code = "FILE_TOO_LARGE"
    /\ \E i \in Holders(e.path) :
          /\ \A j \in Holders(e.path) : i <= j
          /\ LET f == <<job.roots[i], e.path>>
             IN RecordSkipped(f, mtime[f])
    /\ Count("skipped")
    /\ UNCHANGED job

\* Mutant: a root that failed stays among the completed ones.
NoUnsafeRoots(e) == {}

UnsafeRoots(e) ==
    IF e.code = "ROOT_NOT_FOUND"
    THEN {r \in Roots : RootName[r] = RootName[e.root]} ELSE {}

\* Any other code is recorded without a file; ROOT_* codes withdraw every root
\* whose name is the one reported (_remove_unsafe_roots).
RecordDiscoveryError(e) ==
    /\ e.code = "FILE_TOO_LARGE" => Holders(e.path) = {}
    /\ job' = [job EXCEPT !.completed = @ \ UnsafeRoots(e)]
    /\ Count("errors")
    /\ UNCHANGED <<files, docs>>

HandleDiscoveryError(e) ==
    /\ phase = "items" /\ e \in work.faults
    /\ SkipTooLarge(e) \/ RecordDiscoveryError(e)
    /\ work' = [work EXCEPT !.faults = @ \ {e}]
    /\ UNCHANGED <<env, runs, phase, item, dirty>>

------------------------------------------------------------------------------
(* _process_file, one file at a time in (root, relative path) order. *)

Before(f, g) == f[1] < g[1] \/ (f[1] = g[1] /\ f[2] <= g[2])

\* Mutant: a new configuration does not reprocess.
MustProcessIgnoresSignature(f) == job.mode = "full" \/ files[f].status # "processed"

\* decide_incremental up to the metadata comparison.
MustProcess(f) ==
    \/ job.mode = "full"
    \/ files[f].status # "processed"
    \/ files[f].sig # job.sig
Decision(f) ==
    IF MustProcess(f) THEN "process"
    ELSE IF files[f].mtime = work.stat[f] THEN "unchanged" ELSE "hash_required"

IsNext(f) ==
    /\ phase = "items" /\ work.faults = {}
    /\ f \in work.todo /\ \A g \in work.todo : Before(f, g)

StartFile(f) ==
    /\ IsNext(f)
    /\ IF Decision(f) = "unchanged"
       THEN /\ m' = [m EXCEPT !.discovered = @ + 1, !.unchanged = @ + 1]
            /\ work' = [work EXCEPT !.todo = @ \ {f}, !.seen = @ \cup {f}]
            /\ UNCHANGED <<phase, item>>
       ELSE /\ m' = [m EXCEPT !.discovered = @ + 1]
            /\ work' = [work EXCEPT !.todo = @ \ {f}]
            /\ item' = [NoItem EXCEPT !.file = f, !.action = Decision(f)]
            /\ phase' = "hash"
    /\ UNCHANGED <<env, database, job, dirty>>

\* get_file_state raises a plain sqlite3 error, which _is_fatal_error does not
\* recognise: the file is recorded as a parser failure.
GetFileStateFails(f) ==
    /\ DbFaults /\ IsNext(f)
    /\ files' = [files EXCEPT ![f] = ErrorRow(f)]
    /\ m' = [m EXCEPT !.discovered = @ + 1, !.errors = @ + 1]
    /\ work' = [work EXCEPT !.todo = @ \ {f}]
    /\ UNCHANGED <<env, docs, runs, phase, job, item, dirty>>

\* The catalogue cannot be opened for it, or the record of that failure fails too:
\* the outer handler finds the file in current_file.
FileStateFault(f) ==
    /\ DbFaults /\ IsNext(f)
    /\ m' = [m EXCEPT !.discovered = @ + 1]
    /\ work' = [work EXCEPT !.todo = @ \ {f}]
    /\ item' = [NoItem EXCEPT !.file = f]
    /\ phase' = "fatal"
    /\ UNCHANGED <<env, database, job, dirty>>

\* The recoverable branch of the file's exception handler.
FailFile ==
    /\ files' = [files EXCEPT ![item.file] = ErrorRow(item.file)]
    /\ Count("errors")
    /\ phase' = "items" /\ item' = NoItem
    /\ UNCHANGED <<env, docs, runs, job, work, dirty>>

\* Mutant: wait until the file has the discovered stat again.
FingerprintRetries ==
    /\ phase = "hash"
    /\ Bytes(item.file) = NoContent \/ mtime[item.file] # work.stat[item.file]
    /\ UNCHANGED vars

\* fingerprint_file fails: the file is gone, or its stat is not the discovered one.
FingerprintFails ==
    /\ phase = "hash"
    /\ Bytes(item.file) = NoContent \/ mtime[item.file] # work.stat[item.file]
    /\ FailFile

\* fingerprint_file succeeds; a candidate whose hash did not change is touched.
\* Mutant: the comparison looks at the stamp again instead of the hash.
SameStamp == item.action = "hash_required" /\ files[item.file].mtime = work.stat[item.file]

SameHash == item.action = "hash_required" /\ files[item.file].sha = Bytes(item.file)

Fingerprint ==
    /\ phase = "hash"
    /\ Bytes(item.file) # NoContent /\ mtime[item.file] = work.stat[item.file]
    /\ IF SameHash
       THEN /\ work' = [work EXCEPT !.seen = @ \cup {item.file}]
            /\ Count("unchanged")
            /\ phase' = "items" /\ item' = NoItem
       ELSE /\ item' = [item EXCEPT !.sha = Bytes(item.file)]
            /\ phase' = "parse"
            /\ UNCHANGED <<work, m>>
    /\ UNCHANGED <<env, database, job, dirty>>

\* parser.extract opens the file again: what it reads need not be what was hashed.
ExtractFails ==
    /\ phase = "parse"
    /\ KindAt(item.file) \in {"absent", "corrupt"}
    /\ FailFile

ExtractBinaryPbl ==
    /\ phase = "parse"
    /\ KindAt(item.file) = "pbl"
    /\ RecordSkipped(item.file, work.stat[item.file])
    /\ Count("skipped")
    /\ phase' = "items" /\ item' = NoItem
    /\ UNCHANGED <<env, runs, job, work, dirty>>

Extract ==
    /\ phase = "parse"
    /\ KindAt(item.file) \in {"text", "large"}
    /\ item' = [item EXCEPT !.text = Bytes(item.file)]
    /\ phase' = "persist"
    /\ UNCHANGED <<env, database, job, work, m, dirty>>

NewDocument == [sha |-> item.sha, text |-> item.text, sig |-> job.sig]

\* chunk_id_for hashes the relative path, not the root: chunks.id is a primary
\* key, so the same path and bytes under another root collide.
ChunkCollision(f, d) == \E g \in File : g # f /\ g[2] = f[2] /\ docs[g] = d

\* Mutant: the row is looked up by relative path only, whatever its root.
ReplaceEveryRoot ==
    /\ phase = "persist"
    /\ files' = [f \in File |-> IF f[2] = item.file[2]
                    THEN Row("processed", item.sha, job.sig, work.stat[item.file])
                    ELSE files[f]]
    /\ docs' = [f \in File |-> IF f[2] = item.file[2] THEN NewDocument ELSE docs[f]]
    /\ phase' = "count"
    /\ UNCHANGED <<env, runs, job, work, item, m, dirty>>

\* replace_document: upsert of the row, old document deleted, new one inserted,
\* in one transaction.
ReplaceDocument ==
    /\ phase = "persist"
    /\ ~ChunkCollision(item.file, NewDocument)
    /\ files' = [files EXCEPT ![item.file] =
                    Row("processed", item.sha, job.sig, work.stat[item.file])]
    /\ docs' = [docs EXCEPT ![item.file] = NewDocument]
    /\ phase' = "count"
    /\ UNCHANGED <<env, runs, job, work, item, m, dirty>>

ReplaceDocumentFails ==
    /\ phase = "persist"
    /\ ChunkCollision(item.file, NewDocument)
    /\ phase' = "fatal"
    /\ UNCHANGED <<env, database, job, work, item, m, dirty>>

CountProcessed ==
    /\ phase = "count"
    /\ Count("processed")
    /\ phase' = "items" /\ item' = NoItem
    /\ UNCHANGED <<env, database, job, work, dirty>>

------------------------------------------------------------------------------
(* End of the run. *)

\* Mutant: the stamp is taken again when the file is marked.
SeenRowRestat(f) == [files[f] EXCEPT !.mtime = mtime[f], !.seen = job.id]

SeenRow(f) == [files[f] EXCEPT !.mtime = work.stat[f], !.seen = job.id]

MarkSeenMany ==
    /\ phase = "items" /\ work.faults = {} /\ work.todo = {}
    /\ files' = [f \in File |-> IF f \in work.seen /\ files[f].status # "none"
                                THEN SeenRow(f) ELSE files[f]]
    /\ phase' = "reconcile"
    /\ UNCHANGED <<env, docs, runs, job, work, item, m, dirty>>

\* Rows of the completed roots that this run did not see.
Missing == {f \in File : /\ f[1] \in job.completed
                         /\ files[f].status \notin {"none", "deleted"}
                         /\ files[f].seen # job.id}

\* Mutant: a tombstone keeps the run that last saw the file.
TombstoneUnmarked(f) == [files[f] EXCEPT !.status = "deleted"]

Tombstone(f) == [files[f] EXCEPT !.status = "deleted", !.seen = job.id]

ReconcileDeleted ==
    /\ phase = "reconcile"
    /\ files' = [f \in File |-> IF f \in Missing THEN Tombstone(f) ELSE files[f]]
    /\ docs' = [f \in File |-> IF f \in Missing THEN NoDoc ELSE docs[f]]
    /\ m' = [m EXCEPT !.deleted = @ + Cardinality(Missing)]
    /\ phase' = "close"
    /\ UNCHANGED <<env, runs, job, work, item, dirty>>

CloseRun(status) == runs' = [runs EXCEPT ![job.id] = [status |-> status, counters |-> m]]

FinishRun ==
    /\ phase = "close"
    /\ CloseRun(IF m.errors = 0 THEN "completed" ELSE "completed_with_errors")
    /\ phase' = "returning"
    /\ UNCHANGED <<env, files, docs, job, work, item, m, dirty>>

\* The process ends: everything it held in memory is gone.
Exit == phase' = "idle" /\ job' = NoJob /\ work' = NoWork /\ item' = NoItem /\ m' = NoCounters

Return ==
    /\ phase = "returning"
    /\ Exit
    /\ UNCHANGED <<env, database, dirty>>

------------------------------------------------------------------------------
(* Interruptions and failures. *)

InTry == {"discover", "items", "hash", "parse", "persist", "count", "reconcile",
          "close", "returning"}

\* Ctrl+C anywhere in the try block; an open transaction is rolled back.
KeyboardInterrupt ==
    /\ phase \in InTry
    /\ phase' = "interrupted"
    /\ UNCHANGED <<env, database, job, work, item, m, dirty>>

FinishInterrupted ==
    /\ phase = "interrupted"
    /\ CloseRun("interrupted")
    /\ Exit
    /\ UNCHANGED <<env, files, docs, dirty>>

\* A SQLite statement fails for good in the try block; in "items" no file is current
\* (see FileStateFault for the one that is next).
DatabaseFault ==
    /\ DbFaults
    /\ phase \in {"items", "hash", "parse", "persist", "reconcile", "close"}
    /\ phase' = "fatal"
    /\ UNCHANGED <<env, database, job, work, item, m, dirty>>

\* The handler of the outer exception: the error is recorded against
\* current_file, unless recording it fails too.
RecordFatal ==
    /\ phase = "fatal"
    /\ \/ /\ files' = IF item.file = NoFile THEN files
                      ELSE [files EXCEPT ![item.file] = ErrorRow(item.file)]
       \/ DbFaults /\ UNCHANGED files
    /\ Count("errors")
    /\ phase' = "failed"
    /\ UNCHANGED <<env, docs, runs, job, work, item, dirty>>

FinishFailed ==
    /\ phase = "failed"
    /\ CloseRun("failed")
    /\ Exit
    /\ UNCHANGED <<env, files, docs, dirty>>

\* The process is killed, or an exception escapes one of its handlers.
Crash ==
    /\ phase # "idle"
    /\ Exit
    /\ UNCHANGED <<env, database, dirty>>

------------------------------------------------------------------------------
Environment ==
    \/ \E f \in File : RemoveFile(f) \/ \E c \in Contents : WriteFile(f, c)
    \/ \E r \in Roots, s \in RootStates : ChangeRoot(r, s)

Program ==
    \/ Discover
    \/ \E e \in work.faults : HandleDiscoveryError(e)
    \/ \E f \in File : StartFile(f)
    \/ \E f \in File : GetFileStateFails(f)
    \/ FingerprintFails \/ Fingerprint
    \/ ExtractFails \/ ExtractBinaryPbl \/ Extract
    \/ ReplaceDocument \/ ReplaceDocumentFails \/ CountProcessed
    \/ MarkSeenMany \/ ReconcileDeleted \/ FinishRun \/ Return
    \/ FinishInterrupted \/ RecordFatal \/ FinishFailed

Start == \E mode \in Mode, sig \in Sigs, roots \in RootLists : BeginRun(mode, sig, roots)

Next ==
    \/ Environment \/ Start \/ Program
    \/ KeyboardInterrupt \/ DatabaseFault \/ Crash
    \/ \E f \in File : FileStateFault(f)

Spec == Init /\ [][Next]_vars

\* The process executes sequentially and never waits for anyone.
FairSpec == Spec /\ WF_vars(Program)

------------------------------------------------------------------------------
(* Properties *)

RunRow == [status : RunStatus, counters : Counters]

EnvType ==
    /\ disk \in [File -> Contents \cup {NoContent}]
    /\ mtime \in [File -> Stamp]
    /\ rootState \in [Roots -> RootCondition]
    /\ edits \in 0..MaxEdits
    /\ history \in [File -> SUBSET Contents]
    /\ dirty \in BOOLEAN

DatabaseType ==
    /\ files \in [File -> FileRow]
    /\ docs \in [File -> Document \cup {NoDoc}]
    /\ runs \in Seq(RunRow)

ProcessType ==
    /\ phase \in Phase
    /\ job \in [id : 0..Len(runs), mode : Mode, sig : Sigs \cup {NoSig},
               roots : RootLists \cup {<<>>}, completed : SUBSET Roots,
               walked : SUBSET Roots]
    /\ work \in [faults : SUBSET Fault, todo : SUBSET File, stat : [File -> Nat],
                seen : SUBSET File]
    /\ item \in [file : File \cup {NoFile}, action : Action,
                sha : Contents \cup {NoContent}, text : Contents \cup {NoContent}]
    /\ m \in Counters

TypeOK == EnvType /\ DatabaseType /\ ProcessType

\* The rule every reader of the catalogue relies on (design 7.7).
Vigente(f) == files[f].status = "processed" /\ docs[f].sha = files[f].sha

\* At every commit, even inside a run and after a crash: a processed row owns the
\* document of exactly its hash and signature, and a document only survives under a
\* processed row or, for diagnosis, under one in error.
CatalogConsistent ==
    \A f \in File :
        /\ files[f].status = "processed" =>
              /\ docs[f] # NoDoc
              /\ docs[f].sha = files[f].sha /\ docs[f].sig = files[f].sig
        /\ docs[f] # NoDoc => files[f].status \in {"processed", "error"}

\* What makes the metadata fast path of decide_incremental safe: a processed row
\* carrying the stamp the file has now carries the hash of its bytes.
FastPathSound ==
    \A f \in File :
        (files[f].status = "processed" /\ disk[f] # NoContent /\ files[f].mtime = mtime[f])
            => files[f].sha = disk[f]

\* The rows of the catalogue can be trusted at any instant, by readers and by the next
\* run, wherever this one is or died.
RowsAreSound == CatalogConsistent /\ FastPathSound

\* Whatever failed during a run, once it has reconciled no root it still holds for
\* complete publishes knowledge of a file that is gone or has other bytes.
NoStaleKnowledge ==
    (phase = "close" /\ ~dirty) =>
        \A f \in File : (f[1] \in job.completed /\ Vigente(f)) => docs[f].sha = Bytes(f)

\* A run without errors leaves the catalogue a mirror of its roots, whatever earlier
\* runs, crashes and interruptions left behind: every readable text is published as
\* this configuration extracts it, and nothing is known of a file that is not there
\* or may not be read.
CompletedRunMirrorsDisk ==
    (phase = "close" /\ m.errors = 0 /\ ~dirty) =>
        \A f \in File : f[1] \in job.completed =>
            /\ KindAt(f) = "text" =>
                  Vigente(f) /\ files[f].sha = disk[f] /\ files[f].sig = job.sig
            /\ KindAt(f) \in {"absent", "large"} =>
                  docs[f] = NoDoc /\ files[f].status # "processed"

\* Before a run is closed its counters agree with the rows it marked (H2-REQ-024).
CountersMatchCatalog ==
    phase = "close" =>
        /\ m.deleted = Cardinality({f \in File : /\ files[f].status = "deleted"
                                                /\ files[f].seen = job.id})
        /\ m.processed + m.unchanged =
              Cardinality({f \in File : /\ files[f].status = "processed"
                                       /\ files[f].seen = job.id})

Tombstones(f) == files[f].status # "deleted" /\ files'[f].status = "deleted"

\* A run never deletes what its own discovery listed, however the handling of
\* that file ended.
ListedIsNeverDeleted ==
    [][\A f \in File : Tombstones(f) => work.stat[f] = 0]_vars

\* A root this run could not list loses no file (H2-REQ-008).
OnlyListedRootsReconciled ==
    [][\A f \in File : Tombstones(f) => f[1] \in job.walked]_vars

\* An incremental run never extracts again content that is already processed with
\* the same hash and signature (H2-REQ-006).
NoRedundantRewrite ==
    [][\A f \in File :
          (job.mode = "incremental" /\ phase = "persist" /\ phase' = "count"
             /\ item.file = f /\ files[f].status = "processed")
          => <<files'[f].sha, files'[f].sig>> # <<files[f].sha, files[f].sig>>]_vars

\* Nothing listed is deleted and nothing current is rewritten, run after run.
WritesAreDue == ListedIsNeverDeleted /\ NoRedundantRewrite

\* Every run that starts comes to an end, whatever fails in it or in the handler of
\* what failed.  Of its row it says nothing: a killed run leaves it "running".
RunEnds == phase # "idle" ~> phase = "idle"

\* Readers of the catalogue see whole texts the files really had, one file at a time.
Published == [f \in File |-> IF Vigente(f) THEN docs[f].text ELSE NoContent]
Promise == INSTANCE Catalog WITH published <- Published
ImplementsCatalog == Promise!Spec
==============================================================================
