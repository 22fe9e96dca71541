--------------------------- MODULE IngestionProofs ---------------------------
(***************************************************************************)
(* What ingestion guarantees for every corpus, number of runs and           *)
(* interleaving of edits, interruptions, database errors and crashes.       *)
(***************************************************************************)
EXTENDS Ingestion, SequenceTheorems, FiniteSetTheorems, TLAPS

\* What the running process holds in each phase.
ProcessInv ==
    /\ phase # "idle" => job.sig \in Sigs
    /\ phase \in {"hash", "parse", "persist", "count"} => item.file \in File
    /\ phase \in {"parse", "persist"} => item.sha \in Contents
    /\ phase = "persist" => item.text \in Contents

LEMMA NoRowType == NoRow \in FileRow
  BY DEF NoRow, FileRow, FileStatus

LEMMA InitType == Init => TypeOK /\ ProcessInv
  <1> SUFFICES ASSUME Init PROVE TypeOK /\ ProcessInv
    OBVIOUS
  <1>1. EnvType
    <2>1. disk \in [File -> Contents \cup {NoContent}]
      BY DEF Init
    <2>5. mtime \in [File -> Stamp]
      <3>1. 1 \in Stamp
        BY DEF Stamp
      <3> QED
        BY <3>1 DEF Init
    <2>2. rootState \in [Roots -> RootCondition]
      BY DEF Init, RootCondition
    <2>3. edits \in 0..MaxEdits
      BY BoundsAssumption DEF Init
    <2>6. dirty \in BOOLEAN
      BY DEF Init
    <2>4. history \in [File -> SUBSET Contents]
      BY <2>1 DEF Init
    <2> QED
      BY <2>1, <2>2, <2>3, <2>4, <2>5, <2>6 DEF EnvType
  <1>2. DatabaseType
    <2>1. runs \in Seq(RunRow)
      BY DEF Init
    <2> QED
      BY <2>1, NoRowType DEF Init, DatabaseType
  <1>3. ProcessType
    <2>1. job \in [id : 0..Len(runs), mode : Mode, sig : Sigs \cup {NoSig},
               roots : RootLists \cup {<<>>}, completed : SUBSET Roots,
               walked : SUBSET Roots]
      BY DEF Init, NoJob, Mode
    <2>2. work \in [faults : SUBSET Fault, todo : SUBSET File, stat : [File -> Nat],
                seen : SUBSET File]
      BY DEF Init, NoWork
    <2>3. item \in [file : File \cup {NoFile}, action : Action,
                sha : Contents \cup {NoContent}, text : Contents \cup {NoContent}]
      BY DEF Init, NoItem, Action
    <2>4. m \in Counters
      BY DEF Init, NoCounters, Counters
    <2> QED
      BY <2>1, <2>2, <2>3, <2>4 DEF Init, ProcessType, Phase
  <1>4. ProcessInv
    BY DEF Init, ProcessInv
  <1> QED
    BY <1>1, <1>2, <1>3, <1>4 DEF TypeOK

------------------------------------------------------------------------------
(* Types of what the handlers write. *)

\* Every row an action writes is a FileRow.
LEMMA RowType ==
    ASSUME TypeOK, NEW status \in FileStatus, NEW sha \in Contents \cup {NoContent},
           NEW sig \in Sigs \cup {NoSig}, NEW stamp \in Nat
    PROVE  Row(status, sha, sig, stamp) \in FileRow
  <1>1. job.id \in Nat
    BY DEF TypeOK, ProcessType
  <1> QED
    BY <1>1 DEF Row, FileRow

LEMMA ErrorRowType ==
    ASSUME TypeOK, NEW f \in File
    PROVE  ErrorRow(f) \in FileRow
  <1>1. job.id \in Nat /\ work.stat[f] \in Nat /\ files[f] \in FileRow
    BY DEF TypeOK, ProcessType, DatabaseType
  <1>2. [files[f] EXCEPT !.status = "error", !.seen = job.id] \in FileRow
    BY <1>1 DEF FileRow, FileStatus
  <1>3. Row("error", NoContent, NoSig, work.stat[f]) \in FileRow
    BY <1>1, RowType DEF FileStatus
  <1> QED
    BY <1>2, <1>3 DEF ErrorRow

LEMMA CountType ==
    ASSUME TypeOK, NEW field \in {"discovered", "processed", "unchanged",
                                  "skipped", "deleted", "errors"},
           Count(field)
    PROVE  m' \in Counters
  <1>1. m \in Counters
    BY DEF TypeOK, ProcessType
  <1>2. m[field] + 1 \in Nat
    BY <1>1 DEF Counters
  <1> QED
    BY <1>1, <1>2 DEF Count, Counters

\* Steps that leave the file system alone keep its type.
LEMMA EnvKept ==
    ASSUME TypeOK, UNCHANGED env, dirty' \in BOOLEAN
    PROVE  EnvType'
  BY DEF TypeOK, EnvType, env

\* Whatever status closes a run, its row stays a RunRow and no run is added.
LEMMA CloseRunType ==
    ASSUME TypeOK, NEW status \in RunStatus, CloseRun(status)
    PROVE  runs' \in Seq(RunRow) /\ Len(runs') = Len(runs)
  <1>1. runs \in Seq(RunRow) /\ m \in Counters
    BY DEF TypeOK, DatabaseType, ProcessType
  <1>2. [status |-> status, counters |-> m] \in RunRow
    BY <1>1 DEF RunRow
  <1>3. CASE job.id \in 1..Len(runs)
    BY <1>1, <1>2, <1>3, ExceptSeq DEF CloseRun
  <1>4. CASE job.id \notin 1..Len(runs)
    <2>1. runs' = runs
      BY <1>1, <1>4 DEF CloseRun
    <2> QED
      BY <1>1, <2>1
  <1> QED
    BY <1>3, <1>4

\* The process that ends leaves nothing in memory.
LEMMA ExitType ==
    ASSUME Exit, Len(runs') \in Nat
    PROVE  ProcessType' /\ ProcessInv'
  <1>1. job' \in [id : 0..Len(runs'), mode : Mode, sig : Sigs \cup {NoSig},
               roots : RootLists \cup {<<>>}, completed : SUBSET Roots,
               walked : SUBSET Roots]
    BY DEF Exit, NoJob, Mode
  <1>2. work' \in [faults : SUBSET Fault, todo : SUBSET File, stat : [File -> Nat],
                seen : SUBSET File]
    BY DEF Exit, NoWork
  <1>3. item' \in [file : File \cup {NoFile}, action : Action,
                sha : Contents \cup {NoContent}, text : Contents \cup {NoContent}]
    BY DEF Exit, NoItem, Action
  <1>4. m' \in Counters
    BY DEF Exit, NoCounters, Counters
  <1>5. phase' = "idle"
    BY DEF Exit
  <1> QED
    BY <1>1, <1>2, <1>3, <1>4, <1>5 DEF ProcessType, Phase, ProcessInv

------------------------------------------------------------------------------
(* Each action keeps the types. *)

LEMMA EnvironmentType ==
    ASSUME TypeOK, ProcessInv, Environment
    PROVE  TypeOK' /\ ProcessInv'
  <1>1. EnvType
    BY DEF TypeOK
  <1>2. edits' \in 0..MaxEdits
    BY <1>1, BoundsAssumption
       DEF Environment, WriteFile, RemoveFile, ChangeRoot, Changed, EnvType
  <1>3. dirty' = TRUE
    BY DEF Environment, WriteFile, RemoveFile, ChangeRoot, Changed
  <1>4. disk' \in [File -> Contents \cup {NoContent}]
    BY <1>1 DEF Environment, WriteFile, RemoveFile, ChangeRoot, EnvType
  <1>5. mtime' \in [File -> Stamp]
    <2>1. \A n \in Stamp : n + 1 \in Stamp
      BY DEF Stamp
    <2> QED
      BY <1>1, <2>1 DEF Environment, WriteFile, RemoveFile, ChangeRoot, EnvType
  <1>6. rootState' \in [Roots -> RootCondition]
    BY <1>1, BoundsAssumption DEF Environment, WriteFile, RemoveFile, ChangeRoot, EnvType
  <1>7. history' \in [File -> SUBSET Contents]
    BY <1>1 DEF Environment, WriteFile, RemoveFile, ChangeRoot, EnvType
  <1>8. EnvType'
    BY <1>2, <1>3, <1>4, <1>5, <1>6, <1>7 DEF EnvType
  <1>9. UNCHANGED <<database, process>>
    BY DEF Environment, WriteFile, RemoveFile, ChangeRoot
  <1>10. DatabaseType'
    BY <1>9 DEF TypeOK, DatabaseType, database
  <1>11. ProcessType' /\ ProcessInv'
    BY <1>9 DEF TypeOK, ProcessType, ProcessInv, database, process
  <1> QED
    BY <1>8, <1>10, <1>11 DEF TypeOK

LEMMA BeginRunType ==
    ASSUME TypeOK, NEW mode \in Mode, NEW sig \in Sigs, NEW roots \in RootLists,
           BeginRun(mode, sig, roots)
    PROVE  TypeOK' /\ ProcessInv'
  <1>1. runs \in Seq(RunRow)
    BY DEF TypeOK, DatabaseType
  <1>2. [status |-> "running", counters |-> NoCounters] \in RunRow
    BY DEF RunRow, RunStatus, NoCounters, Counters
  <1>3. runs' \in Seq(RunRow) /\ Len(runs') = Len(runs) + 1
    BY <1>1, <1>2 DEF BeginRun
  <1>4. EnvType'
    BY EnvKept DEF BeginRun, TypeOK, EnvType
  <1>5. DatabaseType'
    BY <1>3 DEF BeginRun, TypeOK, DatabaseType
  <1>6. {roots[i] : i \in DOMAIN roots} \in SUBSET Roots
    BY RootListsAssumption
  <1>7. job' \in [id : 0..Len(runs'), mode : Mode, sig : Sigs \cup {NoSig},
               roots : RootLists \cup {<<>>}, completed : SUBSET Roots,
               walked : SUBSET Roots] /\ job'.sig \in Sigs
    <2>1. Len(runs) + 1 \in 0..Len(runs')
      BY <1>1, <1>3
    <2> QED
      BY <1>6, <2>1 DEF BeginRun
  <1>8. work' \in [faults : SUBSET Fault, todo : SUBSET File, stat : [File -> Nat],
                seen : SUBSET File]
    BY DEF BeginRun, NoWork
  <1>9. item' \in [file : File \cup {NoFile}, action : Action,
                sha : Contents \cup {NoContent}, text : Contents \cup {NoContent}]
    BY DEF BeginRun, NoItem, Action
  <1>10. m' \in Counters
    BY DEF BeginRun, NoCounters, Counters
  <1>11. phase' = "discover"
    BY DEF BeginRun
  <1> QED
    BY <1>4, <1>5, <1>7, <1>8, <1>9, <1>10, <1>11
       DEF TypeOK, ProcessType, Phase, ProcessInv

LEMMA DiscoverType ==
    ASSUME TypeOK, ProcessInv, Discover
    PROVE  TypeOK' /\ ProcessInv'
  <1>1. EnvType'
    BY EnvKept DEF Discover
  <1>2. DatabaseType'
    BY DEF TypeOK, DatabaseType, Discover, database
  <1>3. PICK lost \in SUBSET Found :
            /\ work' = [faults |-> DiscoveryFaults(lost), todo |-> Listed(lost),
                        stat |-> [f \in File |-> IF f \in Listed(lost) THEN mtime[f] ELSE 0],
                        seen |-> {}]
            /\ job' = [job EXCEPT !.walked = {r \in Walked : \A f \in lost : f[1] # r}]
    BY Zenon DEF Discover
  <1>4. \A f \in File : f[1] \in Roots /\ f[2] \in Paths
    BY DEF File
  <1>5. job.completed \in SUBSET Roots /\ Walked \in SUBSET Roots
    BY DEF TypeOK, ProcessType, Walked
  <1>6. \A r \in Roots : RootFault(r) \in Fault
    BY DEF RootFault, Fault, FaultCode
  <1>7. \A f \in File, code \in FaultCode : FileFault(code, f) \in Fault
    BY <1>4 DEF FileFault, Fault
  <1>8. DiscoveryFaults(lost) \in SUBSET Fault
    <2>1. lost \in SUBSET File /\ Oversized(lost) \in SUBSET File
      BY <1>3 DEF Found, Oversized
    <2> QED
      BY <1>5, <1>6, <1>7, <2>1 DEF DiscoveryFaults, FaultCode
  <1>9. \A f \in File : mtime[f] \in Nat
    BY DEF TypeOK, EnvType, Stamp
  <1>10. [f \in File |-> IF f \in Listed(lost) THEN mtime[f] ELSE 0] \in [File -> Nat]
    BY <1>9
  <1>11. work' \in [faults : SUBSET Fault, todo : SUBSET File, stat : [File -> Nat],
                seen : SUBSET File]
    BY <1>3, <1>8, <1>10 DEF Listed, Found
  <1>12. job' \in [id : 0..Len(runs'), mode : Mode, sig : Sigs \cup {NoSig},
               roots : RootLists \cup {<<>>}, completed : SUBSET Roots,
               walked : SUBSET Roots] /\ job'.sig = job.sig
    BY <1>3, <1>5 DEF TypeOK, ProcessType, Discover, database
  <1>13. UNCHANGED <<item, m>> /\ phase = "discover" /\ phase' = "items"
    BY DEF Discover
  <1> QED
    BY <1>1, <1>2, <1>11, <1>12, <1>13 DEF TypeOK, ProcessType, Phase, ProcessInv

\* One row rewritten, and at most one document.
LEMMA RowWritten ==
    ASSUME TypeOK, NEW f \in File, NEW row \in FileRow,
           files' = [files EXCEPT ![f] = row],
           \/ UNCHANGED docs
           \/ \E d \in Document \cup {NoDoc} : docs' = [docs EXCEPT ![f] = d],
           UNCHANGED runs
    PROVE  DatabaseType'
  BY DEF TypeOK, DatabaseType

\* Steps inside a file's processing keep the job; they are described by the next
\* phase, the item, and the discovered work.
LEMMA ProcessKept ==
    ASSUME TypeOK, UNCHANGED <<runs, job>>, phase' \in Phase, m' \in Counters,
           item' \in {NoItem, item},
           work'.faults \in SUBSET work.faults, work'.todo \in SUBSET work.todo,
           work'.seen \in SUBSET File,
           work' = [work EXCEPT !.faults = work'.faults, !.todo = work'.todo,
                                !.seen = work'.seen]
    PROVE  ProcessType'
  <1>1. work' \in [faults : SUBSET Fault, todo : SUBSET File, stat : [File -> Nat],
                seen : SUBSET File]
    BY DEF TypeOK, ProcessType
  <1>2. item' \in [file : File \cup {NoFile}, action : Action,
                sha : Contents \cup {NoContent}, text : Contents \cup {NoContent}]
    BY DEF TypeOK, ProcessType, NoItem, Action
  <1> QED
    BY <1>1, <1>2 DEF TypeOK, ProcessType

\* The type of work is untouched when work is.
LEMMA WorkSame ==
    ASSUME TypeOK, UNCHANGED work
    PROVE  /\ work' = [work EXCEPT !.faults = work'.faults, !.todo = work'.todo,
                                   !.seen = work'.seen]
           /\ work'.faults \in SUBSET work.faults /\ work'.todo \in SUBSET work.todo
           /\ work'.seen \in SUBSET File
  BY DEF TypeOK, ProcessType

LEMMA HandleDiscoveryErrorType ==
    ASSUME TypeOK, ProcessInv, NEW e \in work.faults, HandleDiscoveryError(e)
    PROVE  TypeOK' /\ ProcessInv'
  <1>1. EnvType'
    BY EnvKept DEF HandleDiscoveryError, TypeOK, EnvType
  <1>2. e \in Fault /\ e.path \in Paths \cup {NoPath} /\ UNCHANGED runs
    BY DEF TypeOK, ProcessType, Fault, HandleDiscoveryError
  <1>3. DatabaseType'
    <2>1. CASE SkipTooLarge(e)
      <3>1. PICK i \in Holders(e.path) :
               RecordSkipped(<<job.roots[i], e.path>>, mtime[<<job.roots[i], e.path>>])
        BY <2>1, Zenon DEF SkipTooLarge
      <3> DEFINE f == <<job.roots[i], e.path>>
      <3>2. job.roots[i] \in Roots
        BY RootListsAssumption DEF Holders, TypeOK, ProcessType
      <3>3. CASE f \in File
        <4>1. mtime[f] \in Nat
          BY <3>3 DEF TypeOK, EnvType, Stamp
        <4>2. Row("skipped", NoContent, NoSig, mtime[f]) \in FileRow
          BY <4>1, RowType DEF FileStatus
        <4> QED
          BY <1>2, <3>1, <3>3, <4>2 DEF RecordSkipped, TypeOK, DatabaseType
      <3>4. CASE f \notin File
        <4>1. UNCHANGED <<files, docs>>
          BY <3>1, <3>4 DEF RecordSkipped, TypeOK, DatabaseType
        <4> QED
          BY <1>2, <4>1 DEF TypeOK, DatabaseType
      <3> QED
        BY <3>3, <3>4
    <2>2. CASE RecordDiscoveryError(e)
      BY <1>2, <2>2 DEF RecordDiscoveryError, TypeOK, DatabaseType
    <2> QED
      BY <2>1, <2>2 DEF HandleDiscoveryError
  <1>4. m' \in Counters
    BY CountType DEF HandleDiscoveryError, SkipTooLarge, RecordDiscoveryError
  <1>5. job' \in [id : 0..Len(runs'), mode : Mode, sig : Sigs \cup {NoSig},
               roots : RootLists \cup {<<>>}, completed : SUBSET Roots,
               walked : SUBSET Roots] /\ job'.sig = job.sig
    BY <1>2 DEF TypeOK, ProcessType, HandleDiscoveryError, SkipTooLarge, RecordDiscoveryError
  <1>6. work' \in [faults : SUBSET Fault, todo : SUBSET File, stat : [File -> Nat],
                seen : SUBSET File]
    BY DEF TypeOK, ProcessType, HandleDiscoveryError
  <1>7. phase = "items" /\ UNCHANGED <<phase, item>>
    BY DEF HandleDiscoveryError
  <1> QED
    BY <1>1, <1>3, <1>4, <1>5, <1>6, <1>7 DEF TypeOK, ProcessType, ProcessInv

LEMMA StartFileType ==
    ASSUME TypeOK, ProcessInv, NEW f \in File, StartFile(f)
    PROVE  TypeOK' /\ ProcessInv'
  <1>1. EnvType'
    BY EnvKept DEF StartFile, TypeOK, EnvType
  <1>2. DatabaseType'
    BY DEF TypeOK, DatabaseType, StartFile, database
  <1>3. m' \in Counters
    <2>1. CASE m' = [m EXCEPT !.discovered = @ + 1, !.unchanged = @ + 1]
      <3>1. m \in Counters /\ m.discovered + 1 \in Nat /\ m.unchanged + 1 \in Nat
        BY DEF TypeOK, ProcessType, Counters
      <3> QED
        BY <2>1, <3>1 DEF Counters
    <2>2. CASE m' = [m EXCEPT !.discovered = @ + 1]
      BY <2>2, SMTT(20) DEF TypeOK, ProcessType, Counters
    <2> QED
      BY <2>1, <2>2 DEF StartFile
  <1>4. work' \in [faults : SUBSET Fault, todo : SUBSET File, stat : [File -> Nat],
                seen : SUBSET File]
    <2>1. CASE work' = [work EXCEPT !.todo = @ \ {f}, !.seen = @ \cup {f}]
      BY <2>1 DEF TypeOK, ProcessType
    <2>2. CASE work' = [work EXCEPT !.todo = @ \ {f}]
      BY <2>2 DEF TypeOK, ProcessType
    <2> QED
      BY <2>1, <2>2 DEF StartFile
  <1>5. item' \in [file : File \cup {NoFile}, action : Action,
                sha : Contents \cup {NoContent}, text : Contents \cup {NoContent}]
    <2>1. Decision(f) \in Action
      BY DEF Decision, Action
    <2> QED
      BY <2>1 DEF TypeOK, ProcessType, StartFile, NoItem
  <1>6. phase' = "items" \/ (phase' = "hash" /\ item'.file = f)
    <2>1. [NoItem EXCEPT !.file = f, !.action = Decision(f)].file = f
      BY DEF NoItem
    <2>2. phase = "items"
      BY DEF StartFile, IsNext
    <2>3. CASE phase' = "hash" /\ item' = [NoItem EXCEPT !.file = f, !.action = Decision(f)]
      BY <2>1, <2>3, Zenon
    <2>4. CASE phase' = phase
      BY <2>2, <2>4, Zenon
    <2> QED
      BY <2>3, <2>4, Zenon DEF StartFile
  <1>7. phase = "items" /\ UNCHANGED <<job, runs>>
    BY DEF StartFile, IsNext, database
  <1> QED
    BY <1>1, <1>2, <1>3, <1>4, <1>5, <1>6, <1>7 DEF TypeOK, ProcessType, ProcessInv, Phase

LEMMA GetFileStateFailsType ==
    ASSUME TypeOK, ProcessInv, NEW f \in File, GetFileStateFails(f)
    PROVE  TypeOK' /\ ProcessInv'
  <1>1. EnvType'
    BY EnvKept DEF GetFileStateFails, TypeOK, EnvType
  <1>2. DatabaseType'
    BY ErrorRowType, RowWritten DEF GetFileStateFails
  <1>3. m' \in Counters
    <2>1. m' = [m EXCEPT !.discovered = @ + 1, !.errors = @ + 1]
      BY DEF GetFileStateFails
    <2>2. m \in Counters /\ m.discovered + 1 \in Nat /\ m.errors + 1 \in Nat
      BY DEF TypeOK, ProcessType, Counters
    <2> QED
      BY <2>1, <2>2 DEF Counters
  <1>4. work' \in [faults : SUBSET Fault, todo : SUBSET File, stat : [File -> Nat],
                seen : SUBSET File]
    BY DEF TypeOK, ProcessType, GetFileStateFails
  <1>5. phase = "items" /\ UNCHANGED <<phase, item, job, runs>>
    BY DEF GetFileStateFails, IsNext
  <1> QED
    BY <1>1, <1>2, <1>3, <1>4, <1>5 DEF TypeOK, ProcessType, ProcessInv

\* The handlers that record the current file as failed.
LEMMA FailFileType ==
    ASSUME TypeOK, ProcessInv, phase \in {"hash", "parse"}, FailFile
    PROVE  TypeOK' /\ ProcessInv'
  <1>1. EnvType'
    BY EnvKept DEF FailFile, TypeOK, EnvType
  <1>2. item.file \in File
    BY DEF ProcessInv
  <1>3. DatabaseType'
    BY <1>2, ErrorRowType, RowWritten DEF FailFile
  <1>4. m' \in Counters
    BY CountType DEF FailFile
  <1>5. ProcessType'
    BY <1>4, WorkSame, ProcessKept DEF FailFile, Phase
  <1>6. phase' = "items" /\ UNCHANGED job
    BY DEF FailFile
  <1> QED
    BY <1>1, <1>3, <1>5, <1>6 DEF TypeOK, ProcessInv

LEMMA FingerprintType ==
    ASSUME TypeOK, ProcessInv, Fingerprint
    PROVE  TypeOK' /\ ProcessInv'
  <1>1. EnvType'
    BY EnvKept DEF Fingerprint, TypeOK, EnvType
  <1>2. DatabaseType'
    BY DEF TypeOK, DatabaseType, Fingerprint, database
  <1>3. item.file \in File /\ UNCHANGED <<job, runs>> /\ phase = "hash"
    BY DEF ProcessInv, Fingerprint, database
  <1>4. CASE SameHash
    <2>1. work' = [work EXCEPT !.seen = @ \cup {item.file}] /\ Count("unchanged")
          /\ phase' = "items" /\ item' = NoItem
      BY <1>4 DEF Fingerprint
    <2>2. m' \in Counters
      BY <2>1, CountType
    <2>3. /\ work'.faults \in SUBSET work.faults /\ work'.todo \in SUBSET work.todo
          /\ work'.seen \in SUBSET File
          /\ work' = [work EXCEPT !.faults = work'.faults, !.todo = work'.todo,
                                  !.seen = work'.seen]
      BY <1>3, <2>1 DEF TypeOK, ProcessType
    <2>4. ProcessType'
      BY <1>3, <2>1, <2>2, <2>3, ProcessKept DEF Phase
    <2> QED
      BY <1>1, <1>2, <1>3, <2>1, <2>4 DEF TypeOK, ProcessInv
  <1>5. CASE ~SameHash
    <2>1. UNCHANGED <<work, m>> /\ phase' = "parse"
          /\ item' = [item EXCEPT !.sha = Bytes(item.file)]
      BY <1>5 DEF Fingerprint
    <2>2. Bytes(item.file) \in Contents
      BY <1>3 DEF Fingerprint, Bytes, TypeOK, EnvType
    <2>3. item' \in [file : File \cup {NoFile}, action : Action,
                sha : Contents \cup {NoContent}, text : Contents \cup {NoContent}]
      BY <2>1, <2>2 DEF TypeOK, ProcessType
    <2>4. item'.file = item.file /\ item'.sha = Bytes(item.file)
      BY <2>1 DEF TypeOK, ProcessType
    <2>5. ProcessType'
      BY <1>3, <2>1, <2>3 DEF TypeOK, ProcessType, Phase
    <2> QED
      BY <1>1, <1>2, <1>3, <2>1, <2>2, <2>4, <2>5 DEF TypeOK, ProcessInv
  <1> QED
    BY <1>4, <1>5

LEMMA ExtractBinaryPblType ==
    ASSUME TypeOK, ProcessInv, ExtractBinaryPbl
    PROVE  TypeOK' /\ ProcessInv'
  <1>1. EnvType'
    BY EnvKept DEF ExtractBinaryPbl, TypeOK, EnvType
  <1>2. item.file \in File /\ work.stat[item.file] \in Nat
    BY DEF ExtractBinaryPbl, ProcessInv, TypeOK, ProcessType
  <1>3. Row("skipped", NoContent, NoSig, work.stat[item.file]) \in FileRow
    BY <1>2, RowType DEF FileStatus
  <1>4. DatabaseType'
    BY <1>2, <1>3, RowWritten DEF ExtractBinaryPbl, RecordSkipped
  <1>5. m' \in Counters
    BY CountType DEF ExtractBinaryPbl
  <1>6. ProcessType'
    BY <1>5, WorkSame, ProcessKept DEF ExtractBinaryPbl, Phase
  <1> QED
    BY <1>1, <1>4, <1>6 DEF TypeOK, ProcessInv, ExtractBinaryPbl

LEMMA ExtractType ==
    ASSUME TypeOK, ProcessInv, Extract
    PROVE  TypeOK' /\ ProcessInv'
  <1>1. EnvType'
    BY EnvKept DEF Extract, TypeOK, EnvType
  <1>2. DatabaseType'
    BY DEF TypeOK, DatabaseType, Extract, database
  <1>3. item.file \in File /\ item.sha \in Contents
    BY DEF ProcessInv, Extract
  <1>4. Bytes(item.file) \in Contents
    <2>1. Bytes(item.file) # NoContent
      BY DEF Extract, KindAt
    <2> QED
      BY <1>3, <2>1 DEF Bytes, TypeOK, EnvType
  <1>5. item' \in [file : File \cup {NoFile}, action : Action,
                sha : Contents \cup {NoContent}, text : Contents \cup {NoContent}]
    BY <1>4 DEF TypeOK, ProcessType, Extract
  <1>6. item'.file = item.file /\ item'.sha = item.sha /\ item'.text = Bytes(item.file)
    BY DEF TypeOK, ProcessType, Extract
  <1>7. UNCHANGED <<runs, job, work, m>> /\ phase = "parse" /\ phase' = "persist"
    BY DEF Extract, database
  <1>8. ProcessType'
    BY <1>5, <1>7 DEF TypeOK, ProcessType, Phase
  <1> QED
    BY <1>1, <1>2, <1>3, <1>4, <1>6, <1>7, <1>8 DEF TypeOK, ProcessInv

LEMMA ReplaceDocumentType ==
    ASSUME TypeOK, ProcessInv, ReplaceDocument
    PROVE  TypeOK' /\ ProcessInv'
  <1>1. EnvType'
    BY EnvKept DEF ReplaceDocument, TypeOK, EnvType
  <1>2. /\ item.file \in File /\ item.sha \in Contents /\ item.text \in Contents
        /\ job.sig \in Sigs /\ phase = "persist"
    BY DEF ReplaceDocument, ProcessInv
  <1>3. work.stat[item.file] \in Nat
    BY <1>2 DEF TypeOK, ProcessType
  <1>4. Row("processed", item.sha, job.sig, work.stat[item.file]) \in FileRow
    BY <1>2, <1>3, RowType DEF FileStatus
  <1>5. NewDocument \in Document
    BY <1>2 DEF NewDocument, Document
  <1>6. DatabaseType'
    BY <1>2, <1>4, <1>5, RowWritten DEF ReplaceDocument
  <1>7. ProcessType'
    BY DEF ReplaceDocument, TypeOK, ProcessType, Phase
  <1> QED
    BY <1>1, <1>2, <1>6, <1>7 DEF TypeOK, ProcessInv, ReplaceDocument

LEMMA MarkSeenManyType ==
    ASSUME TypeOK, ProcessInv, MarkSeenMany
    PROVE  TypeOK' /\ ProcessInv'
  <1>1. EnvType'
    BY EnvKept DEF MarkSeenMany, TypeOK, EnvType
  <1>2. \A f \in File : SeenRow(f) \in FileRow
    <2>1. \A f \in File : files[f] \in FileRow /\ job.id \in Nat /\ work.stat[f] \in Nat
      BY DEF TypeOK, DatabaseType, ProcessType
    <2> QED
      BY <2>1 DEF SeenRow, FileRow
  <1>3. DatabaseType'
    BY <1>2 DEF MarkSeenMany, TypeOK, DatabaseType
  <1>4. ProcessType'
    BY DEF MarkSeenMany, TypeOK, ProcessType, Phase
  <1> QED
    BY <1>1, <1>3, <1>4 DEF MarkSeenMany, TypeOK, ProcessInv

LEMMA ReconcileDeletedType ==
    ASSUME TypeOK, ProcessInv, ReconcileDeleted
    PROVE  TypeOK' /\ ProcessInv'
  <1>1. EnvType'
    BY EnvKept DEF ReconcileDeleted, TypeOK, EnvType
  <1>2. \A f \in File : Tombstone(f) \in FileRow
    <2>1. \A f \in File : files[f] \in FileRow /\ job.id \in Nat
      BY DEF TypeOK, DatabaseType, ProcessType
    <2> QED
      BY <2>1 DEF Tombstone, FileRow, FileStatus
  <1>3. DatabaseType'
    BY <1>2 DEF ReconcileDeleted, TypeOK, DatabaseType
  <1>4. Cardinality(Missing) \in Nat
    <2>1. IsFiniteSet(File)
      BY RootsAssumption, FS_Product DEF File
    <2>2. Missing \in SUBSET File
      BY DEF Missing
    <2> QED
      BY <2>1, <2>2, FS_Subset, FS_CardinalityType
  <1>5. m' \in Counters
    <2>1. m \in Counters /\ m.deleted + Cardinality(Missing) \in Nat
      BY <1>4 DEF TypeOK, ProcessType, Counters
    <2>2. m' = [m EXCEPT !.deleted = m.deleted + Cardinality(Missing)]
      BY DEF ReconcileDeleted
    <2> QED
      BY <2>1, <2>2 DEF Counters
  <1>6. ProcessType'
    BY <1>5 DEF ReconcileDeleted, TypeOK, ProcessType, Phase
  <1> QED
    BY <1>1, <1>3, <1>6 DEF ReconcileDeleted, TypeOK, ProcessInv

\* Steps that change nothing of the catalogue but the row of the run.
LEMMA ClosingType ==
    ASSUME TypeOK, ProcessInv, FinishRun \/ Return \/ FinishInterrupted \/ FinishFailed
    PROVE  TypeOK' /\ ProcessInv'
  <1>1. EnvType'
    BY EnvKept DEF FinishRun, Return, FinishInterrupted, FinishFailed, TypeOK, EnvType
  <1>2. runs' \in Seq(RunRow) /\ Len(runs') = Len(runs)
    <2>1. CASE FinishRun
      <3>1. CloseRun("completed") \/ CloseRun("completed_with_errors")
        BY <2>1 DEF FinishRun
      <3> QED
        BY <3>1, CloseRunType DEF RunStatus
    <2>2. CASE Return
      BY <2>2 DEF Return, database, TypeOK, DatabaseType
    <2>3. CASE FinishInterrupted
      BY <2>3, CloseRunType DEF FinishInterrupted, RunStatus
    <2>4. CASE FinishFailed
      BY <2>4, CloseRunType DEF FinishFailed, RunStatus
    <2> QED
      BY <2>1, <2>2, <2>3, <2>4
  <1>3. DatabaseType'
    BY <1>2 DEF FinishRun, Return, FinishInterrupted, FinishFailed, database,
                TypeOK, DatabaseType
  <1>4. CASE FinishRun
    <2>1. ProcessType'
      BY <1>2, <1>4 DEF FinishRun, TypeOK, ProcessType, Phase
    <2> QED
      BY <1>1, <1>3, <1>4, <2>1 DEF FinishRun, TypeOK, ProcessInv
  <1>5. CASE Exit
    BY <1>1, <1>2, <1>3, <1>5, ExitType, LenProperties DEF TypeOK
  <1> QED
    BY <1>4, <1>5 DEF Return, FinishInterrupted, FinishFailed

LEMMA RecordFatalType ==
    ASSUME TypeOK, ProcessInv, RecordFatal
    PROVE  TypeOK' /\ ProcessInv'
  <1>1. EnvType'
    BY EnvKept DEF RecordFatal, TypeOK, EnvType
  <1>2. DatabaseType'
    <2>1. CASE UNCHANGED files
      BY <2>1 DEF RecordFatal, TypeOK, DatabaseType
    <2>2. CASE item.file # NoFile /\ files' = [files EXCEPT ![item.file] = ErrorRow(item.file)]
      <3>1. item.file \in File
        BY <2>2 DEF TypeOK, ProcessType
      <3> QED
        BY <2>2, <3>1, ErrorRowType, RowWritten DEF RecordFatal
    <2> QED
      BY <2>1, <2>2 DEF RecordFatal
  <1>3. m' \in Counters
    BY CountType DEF RecordFatal
  <1>4. ProcessType'
    BY <1>3 DEF RecordFatal, TypeOK, ProcessType, Phase
  <1> QED
    BY <1>1, <1>2, <1>4 DEF RecordFatal, TypeOK, ProcessInv

\* Steps that only move the process to another phase.
LEMMA PhaseType ==
    ASSUME TypeOK, ProcessInv, phase # "idle",
           phase' \in {"interrupted", "fatal"}, UNCHANGED <<env, database, job, work, item, m, dirty>>
    PROVE  TypeOK' /\ ProcessInv'
  <1>1. EnvType'
    BY EnvKept DEF TypeOK, EnvType
  <1>2. DatabaseType'
    BY DEF TypeOK, DatabaseType, database
  <1>3. ProcessType'
    BY DEF TypeOK, ProcessType, Phase, database
  <1> QED
    BY <1>1, <1>2, <1>3 DEF TypeOK, ProcessInv

LEMMA CountProcessedType ==
    ASSUME TypeOK, ProcessInv, CountProcessed
    PROVE  TypeOK' /\ ProcessInv'
  <1>1. EnvType'
    BY EnvKept DEF CountProcessed, TypeOK, EnvType
  <1>2. DatabaseType'
    BY DEF CountProcessed, TypeOK, DatabaseType, database
  <1>3. m' \in Counters
    BY CountType DEF CountProcessed
  <1>4. ProcessType'
    BY <1>3, WorkSame, ProcessKept DEF CountProcessed, database, Phase
  <1> QED
    BY <1>1, <1>2, <1>4 DEF TypeOK, ProcessInv, CountProcessed

LEMMA CrashType ==
    ASSUME TypeOK, ProcessInv, Crash
    PROVE  TypeOK' /\ ProcessInv'
  <1>1. EnvType' /\ DatabaseType'
    BY EnvKept DEF Crash, TypeOK, EnvType, DatabaseType, database
  <1>2. Len(runs') \in Nat
    BY <1>1, LenProperties DEF DatabaseType
  <1> QED
    BY <1>1, <1>2, ExitType DEF Crash, TypeOK

LEMMA FileStateFaultType ==
    ASSUME TypeOK, ProcessInv, NEW f \in File, FileStateFault(f)
    PROVE  TypeOK' /\ ProcessInv'
  <1>1. /\ UNCHANGED <<env, database, job, dirty>>
        /\ phase = "items" /\ phase' = "fatal" /\ item'.file = f
        /\ item' = [NoItem EXCEPT !.file = f]
    BY DEF FileStateFault, IsNext, NoItem
  <1>2. EnvType' /\ DatabaseType'
    BY <1>1 DEF env, database, TypeOK, EnvType, DatabaseType
  <1>3. m' \in Counters
    <2>1. m' = [m EXCEPT !.discovered = @ + 1]
      BY DEF FileStateFault
    <2>2. m \in Counters /\ m.discovered + 1 \in Nat
      BY DEF TypeOK, ProcessType, Counters
    <2> QED
      BY <2>1, <2>2 DEF Counters
  <1>4. work' \in [faults : SUBSET Fault, todo : SUBSET File, stat : [File -> Nat],
                seen : SUBSET File]
    BY DEF TypeOK, ProcessType, FileStateFault
  <1>5. item' \in [file : File \cup {NoFile}, action : Action,
                sha : Contents \cup {NoContent}, text : Contents \cup {NoContent}]
    BY <1>1 DEF NoItem, Action
  <1>6. job' = job /\ runs' = runs
    BY <1>1 DEF database
  <1> QED
    BY <1>1, <1>2, <1>3, <1>4, <1>5, <1>6 DEF TypeOK, ProcessType, ProcessInv, Phase

LEMMA StutterType ==
    ASSUME TypeOK, ProcessInv, UNCHANGED vars
    PROVE  TypeOK' /\ ProcessInv'
  BY DEF vars, TypeOK, EnvType, DatabaseType, ProcessType, ProcessInv

LEMMA NextType == TypeOK /\ ProcessInv /\ [Next]_vars => TypeOK' /\ ProcessInv'
  <1> SUFFICES ASSUME TypeOK, ProcessInv, [Next]_vars
               PROVE  TypeOK' /\ ProcessInv'
    OBVIOUS
  <1>1. CASE Environment
    BY <1>1, EnvironmentType
  <1>2. CASE Start
    BY <1>2, BeginRunType DEF Start
  <1>3. CASE Program
    <2>1. CASE Discover
      BY <2>1, DiscoverType
    <2>2. CASE \E e \in work.faults : HandleDiscoveryError(e)
      BY <2>2, HandleDiscoveryErrorType
    <2>3. CASE \E f \in File : StartFile(f) \/ GetFileStateFails(f)
      BY <2>3, StartFileType, GetFileStateFailsType
    <2>4. CASE FingerprintFails \/ ExtractFails
      BY <2>4, FailFileType DEF FingerprintFails, ExtractFails
    <2>5. CASE Fingerprint
      BY <2>5, FingerprintType
    <2>6. CASE ExtractBinaryPbl \/ Extract
      BY <2>6, ExtractBinaryPblType, ExtractType
    <2>7. CASE ReplaceDocument
      BY <2>7, ReplaceDocumentType
    <2>8. CASE ReplaceDocumentFails
      BY <2>8, PhaseType DEF ReplaceDocumentFails
    <2>9. CASE CountProcessed
      BY <2>9, CountProcessedType
    <2>10. CASE MarkSeenMany \/ ReconcileDeleted
      BY <2>10, MarkSeenManyType, ReconcileDeletedType
    <2>11. CASE FinishRun \/ Return \/ FinishInterrupted \/ FinishFailed
      BY <2>11, ClosingType
    <2>12. CASE RecordFatal
      BY <2>12, RecordFatalType
    <2> QED
      BY <1>3, <2>1, <2>2, <2>3, <2>4, <2>5, <2>6, <2>7, <2>8, <2>9, <2>10, <2>11, <2>12
         DEF Program
  <1>4. CASE KeyboardInterrupt \/ DatabaseFault
    BY <1>4, PhaseType DEF KeyboardInterrupt, DatabaseFault, InTry
  <1>5. CASE Crash
    BY <1>5, CrashType
  <1>6. CASE UNCHANGED vars
    BY <1>6, StutterType
  <1>7. CASE \E f \in File : FileStateFault(f)
    BY <1>7, FileStateFaultType
  <1> QED
    BY <1>1, <1>2, <1>3, <1>4, <1>5, <1>6, <1>7 DEF Next

\* Every reachable state is well typed, for every corpus, configuration and bound.
THEOREM TypeCorrect == Spec => []TypeOK
  <1>1. TypeOK /\ ProcessInv /\ [Next]_vars => (TypeOK /\ ProcessInv)'
    BY NextType
  <1> QED
    BY InitType, <1>1, PTL DEF Spec

------------------------------------------------------------------------------
(* CatalogConsistent: the row and the document of a file move together. *)

\* An error row never claims to be processed, whatever it was before.
LEMMA ErrorRowStatus ==
    ASSUME TypeOK, NEW f \in File
    PROVE  ErrorRow(f).status = "error"
  <1>1. files[f] \in FileRow
    BY DEF TypeOK, DatabaseType
  <1>2. [files[f] EXCEPT !.status = "error", !.seen = job.id].status = "error"
    BY <1>1 DEF FileRow
  <1> QED
    BY <1>2 DEF ErrorRow, Row


LEMMA ErrorRowSeen ==
    ASSUME TypeOK, NEW f \in File
    PROVE  ErrorRow(f).seen = job.id
  <1>1. files[f] \in FileRow
    BY DEF TypeOK, DatabaseType
  <1>2. [files[f] EXCEPT !.status = "error", !.seen = job.id].seen = job.id
    BY <1>1 DEF FileRow
  <1> QED
    BY <1>2 DEF ErrorRow, Row

LEMMA ConsistentKept ==
    ASSUME CatalogConsistent, UNCHANGED <<files, docs>>
    PROVE  CatalogConsistent'
  BY DEF CatalogConsistent

LEMMA ErrorKeepsConsistency ==
    ASSUME TypeOK, CatalogConsistent, NEW f \in File,
           files' = [files EXCEPT ![f] = ErrorRow(f)], UNCHANGED docs
    PROVE  CatalogConsistent'
  BY ErrorRowStatus DEF CatalogConsistent, TypeOK, DatabaseType

\* RecordSkipped is harmless even for a pair outside the catalogue.
LEMMA SkipKeepsConsistency ==
    ASSUME TypeOK, CatalogConsistent, NEW f, NEW stamp, RecordSkipped(f, stamp)
    PROVE  CatalogConsistent'
  <1>1. Row("skipped", NoContent, NoSig, stamp).status = "skipped"
    BY DEF Row
  <1> QED
    BY <1>1 DEF RecordSkipped, CatalogConsistent, TypeOK, DatabaseType

LEMMA ReplaceKeepsConsistency ==
    ASSUME TypeOK, ProcessInv, CatalogConsistent, ReplaceDocument
    PROVE  CatalogConsistent'
  <1>1. item.sha \in Contents /\ item.file \in File
    BY DEF ReplaceDocument, ProcessInv
  <1>2. NewDocument.sha # NoDoc.sha
    BY <1>1, ContentsAssumption DEF NewDocument, NoDoc
  <1>3. LET row == Row("processed", item.sha, job.sig, work.stat[item.file])
        IN  row.status = "processed" /\ row.sha = NewDocument.sha /\ row.sig = NewDocument.sig
    BY DEF Row, NewDocument
  <1>4. \A f \in File \ {item.file} : files'[f] = files[f] /\ docs'[f] = docs[f]
    BY DEF ReplaceDocument, TypeOK, DatabaseType
  <1>5. /\ files'[item.file] = Row("processed", item.sha, job.sig, work.stat[item.file])
        /\ docs'[item.file] = NewDocument
    BY <1>1 DEF ReplaceDocument, TypeOK, DatabaseType
  <1> QED
    BY <1>2, <1>3, <1>4, <1>5 DEF CatalogConsistent

LEMMA MarkKeepsConsistency ==
    ASSUME TypeOK, CatalogConsistent, MarkSeenMany
    PROVE  CatalogConsistent'
  <1>1. ASSUME NEW f \in File
        PROVE  /\ files'[f].status = files[f].status
               /\ files'[f].sha = files[f].sha /\ files'[f].sig = files[f].sig
    BY DEF MarkSeenMany, SeenRow, TypeOK, DatabaseType, FileRow
  <1>2. docs' = docs
    BY DEF MarkSeenMany
  <1> QED
    BY <1>1, <1>2 DEF CatalogConsistent

LEMMA ReconcileKeepsConsistency ==
    ASSUME TypeOK, CatalogConsistent, ReconcileDeleted
    PROVE  CatalogConsistent'
  <1>1. ASSUME NEW f \in Missing
        PROVE  files'[f].status = "deleted" /\ docs'[f] = NoDoc
    BY <1>1 DEF ReconcileDeleted, Missing, Tombstone, TypeOK, DatabaseType, FileRow
  <1>2. \A f \in File \ Missing : files'[f] = files[f] /\ docs'[f] = docs[f]
    BY DEF ReconcileDeleted
  <1> QED
    BY <1>1, <1>2 DEF CatalogConsistent, Missing

LEMMA NextConsistent ==
    ASSUME TypeOK, ProcessInv, CatalogConsistent, [Next]_vars
    PROVE  CatalogConsistent'
  <1>1. CASE \E e \in work.faults : HandleDiscoveryError(e)
    <2>1. PICK e \in work.faults : HandleDiscoveryError(e)
      BY <1>1
    <2>2. CASE SkipTooLarge(e)
      BY <2>2, SkipKeepsConsistency DEF SkipTooLarge
    <2>3. CASE RecordDiscoveryError(e)
      BY <2>3, ConsistentKept DEF RecordDiscoveryError
    <2> QED
      BY <2>1, <2>2, <2>3 DEF HandleDiscoveryError
  <1>2. CASE \E f \in File : GetFileStateFails(f)
    BY <1>2, ErrorKeepsConsistency DEF GetFileStateFails
  <1>3. CASE FingerprintFails \/ ExtractFails
    BY <1>3, ErrorKeepsConsistency DEF FingerprintFails, ExtractFails, FailFile, ProcessInv
  <1>4. CASE ExtractBinaryPbl
    BY <1>4, SkipKeepsConsistency DEF ExtractBinaryPbl
  <1>5. CASE ReplaceDocument
    BY <1>5, ReplaceKeepsConsistency
  <1>6. CASE MarkSeenMany
    BY <1>6, MarkKeepsConsistency
  <1>7. CASE ReconcileDeleted
    BY <1>7, ReconcileKeepsConsistency
  <1>8. CASE RecordFatal
    <2>1. CASE UNCHANGED files
      BY <1>8, <2>1, ConsistentKept DEF RecordFatal
    <2>2. CASE item.file # NoFile /\ files' = [files EXCEPT ![item.file] = ErrorRow(item.file)]
      BY <1>8, <2>2, ErrorKeepsConsistency DEF RecordFatal, TypeOK, ProcessType
    <2> QED
      BY <1>8, <2>1, <2>2 DEF RecordFatal
  <1>9. CASE UNCHANGED <<files, docs>>
    BY <1>9, ConsistentKept
  <1>10. CASE Environment
    BY <1>9, <1>10 DEF Environment, WriteFile, RemoveFile, ChangeRoot, database
  <1>11. CASE Start
    BY <1>9, <1>11 DEF Start, BeginRun
  <1>12. CASE \E f \in File : StartFile(f) \/ FileStateFault(f)
    BY <1>9, <1>12 DEF StartFile, FileStateFault, database
  <1>13. CASE Discover \/ Fingerprint \/ Extract \/ ReplaceDocumentFails \/ CountProcessed
    BY <1>9, <1>13
       DEF Discover, Fingerprint, Extract, ReplaceDocumentFails, CountProcessed, database
  <1>14. CASE FinishRun \/ Return \/ FinishInterrupted \/ FinishFailed \/ Crash
    BY <1>9, <1>14 DEF FinishRun, Return, FinishInterrupted, FinishFailed, Crash, database
  <1>15. CASE KeyboardInterrupt \/ DatabaseFault \/ UNCHANGED vars
    BY <1>9, <1>15 DEF KeyboardInterrupt, DatabaseFault, database, vars
  <1> QED
    BY <1>1, <1>2, <1>3, <1>4, <1>5, <1>6, <1>7, <1>8, <1>10, <1>11, <1>12, <1>13,
       <1>14, <1>15 DEF Next, Program

\* Between any two commits, through errors, interruptions and crashes, a processed
\* row owns the document of exactly its hash and signature.
THEOREM Consistency == Spec => []CatalogConsistent
  <1>1. Init => CatalogConsistent
    BY DEF Init, CatalogConsistent, NoRow, NoDoc
  <1>2. TypeOK /\ ProcessInv /\ CatalogConsistent /\ [Next]_vars
          => (TypeOK /\ ProcessInv /\ CatalogConsistent)'
    BY NextType, NextConsistent
  <1> QED
    BY InitType, <1>1, <1>2, PTL DEF Spec

------------------------------------------------------------------------------
(* FastPathSound: why comparing stamps is enough. *)

\* No stamp kept by the catalogue or by the running process is newer than the
\* file's own, and whichever is the file's present one goes with its present bytes.
StampInv ==
    /\ FastPathSound
    /\ \A f \in File : files[f].status = "processed" => files[f].mtime <= mtime[f]
    /\ \A f \in File : work.stat[f] <= mtime[f]
    /\ (phase \in {"parse", "persist"} /\ work.stat[item.file] = mtime[item.file]
           /\ disk[item.file] # NoContent)
          => item.sha = disk[item.file]
    /\ \A f \in work.seen :
          (files[f].status = "processed" /\ work.stat[f] = mtime[f] /\ disk[f] # NoContent)
             => files[f].sha = disk[f]

LEMMA StampKept ==
    ASSUME StampInv, UNCHANGED <<disk, mtime, files, work>>, UNCHANGED item,
           phase' \in {"parse", "persist"} => phase \in {"parse", "persist"}
    PROVE  StampInv'
  BY DEF StampInv, FastPathSound

\* Between two files, or when the process is gone, there is no item to speak of.
LEMMA StampRows ==
    ASSUME TypeOK, StampInv, UNCHANGED <<disk, mtime>>, work'.stat = work.stat,
           work'.seen \in SUBSET work.seen, phase' \notin {"parse", "persist"},
           \A f \in File : \/ files'[f] = files[f]
                           \/ files'[f].status # "processed"
    PROVE  StampInv'
  BY DEF StampInv, FastPathSound, TypeOK, ProcessType

LEMMA StampEnvironment ==
    ASSUME TypeOK, ProcessInv, StampInv, Environment
    PROVE  StampInv'
  <1>1. UNCHANGED <<files, work, phase, item>>
    BY DEF Environment, WriteFile, RemoveFile, ChangeRoot, database, process
  <1>2. CASE \E f \in File, c \in Contents : WriteFile(f, c)
    <2>1. PICK f \in File, c \in Contents : WriteFile(f, c)
      BY <1>2
    <2>2. /\ \A g \in File \ {f} : mtime'[g] = mtime[g] /\ disk'[g] = disk[g]
          /\ mtime'[f] = mtime[f] + 1
      BY <2>1 DEF WriteFile, TypeOK, EnvType
    <2>3. /\ \A g \in File : mtime[g] \in Nat /\ work.stat[g] \in Nat
          /\ \A g \in File : files[g].mtime \in Nat
      BY DEF TypeOK, EnvType, ProcessType, DatabaseType, Stamp, FileRow
    <2>4. work.seen \in SUBSET File /\ (phase \in {"parse", "persist"} => item.file \in File)
      BY DEF TypeOK, ProcessType, ProcessInv
    <2>5. work.stat[f] < mtime'[f] /\ (files[f].status = "processed" => files[f].mtime < mtime'[f])
      BY <2>2, <2>3 DEF StampInv
    <2>6. FastPathSound'
      BY <1>1, <2>2, <2>3, <2>5 DEF StampInv, FastPathSound
    <2>7. /\ \A g \in File : files'[g].status = "processed" => files'[g].mtime <= mtime'[g]
          /\ \A g \in File : work'.stat[g] <= mtime'[g]
      BY <1>1, <2>2, <2>3 DEF StampInv
    <2> QED
      BY <1>1, <2>2, <2>3, <2>4, <2>5, <2>6, <2>7 DEF StampInv
  <1>3. CASE \E f \in File : RemoveFile(f)
    <2>1. PICK f \in File : RemoveFile(f)
      BY <1>3
    <2>2. /\ \A g \in File \ {f} : disk'[g] = disk[g]
          /\ disk'[f] = NoContent /\ mtime' = mtime
      BY <2>1 DEF RemoveFile, TypeOK, EnvType
    <2>3. work.seen \in SUBSET File /\ (phase \in {"parse", "persist"} => item.file \in File)
      BY DEF TypeOK, ProcessType, ProcessInv
    <2> QED
      BY <1>1, <2>2, <2>3 DEF StampInv, FastPathSound
  <1>4. CASE \E r \in Roots, s \in RootStates : ChangeRoot(r, s)
    BY <1>1, <1>4, StampKept DEF ChangeRoot
  <1> QED
    BY <1>2, <1>3, <1>4 DEF Environment

\* Exit, and a process that starts, forget every discovered stamp.
LEMMA StampFresh ==
    ASSUME TypeOK, StampInv, UNCHANGED <<disk, mtime, files>>, work' = NoWork,
           phase' \notin {"parse", "persist"}
    PROVE  StampInv'
  <1>1. \A f \in File : work'.stat[f] = 0 /\ mtime[f] \in Nat
    BY DEF NoWork, TypeOK, EnvType, Stamp
  <1>2. work'.seen = {}
    BY DEF NoWork
  <1> QED
    BY <1>1, <1>2 DEF StampInv, FastPathSound

LEMMA StampDiscover ==
    ASSUME TypeOK, StampInv, Discover
    PROVE  StampInv'
  <1>1. UNCHANGED <<disk, mtime, files>> /\ phase' = "items"
    BY DEF Discover, env, database
  <1>2. \A f \in File : mtime[f] \in Nat
    BY DEF TypeOK, EnvType, Stamp
  <1>3. work'.seen = {} /\ \A f \in File : work'.stat[f] \in {0, mtime[f]}
    BY DEF Discover
  <1> QED
    BY <1>1, <1>2, <1>3 DEF StampInv, FastPathSound

LEMMA StampStartFile ==
    ASSUME TypeOK, StampInv, NEW f \in File, StartFile(f)
    PROVE  StampInv'
  <1>1. UNCHANGED <<disk, mtime, files>> /\ phase = "items"
    BY DEF StartFile, IsNext, env, database
  <1>2. CASE Decision(f) = "unchanged"
    <2>1. work' = [work EXCEPT !.todo = @ \ {f}, !.seen = @ \cup {f}] /\ phase' = phase
      BY <1>2, Zenon DEF StartFile
    <2>2. work'.stat = work.stat /\ work'.seen = work.seen \cup {f}
      BY <2>1 DEF TypeOK, ProcessType
    <2>3. files[f].mtime = work.stat[f]
      BY <1>2 DEF Decision
    <2> QED
      BY <1>1, <2>1, <2>2, <2>3 DEF StampInv, FastPathSound
  <1>3. CASE Decision(f) # "unchanged"
    <2>1. work' = [work EXCEPT !.todo = @ \ {f}] /\ phase' = "hash"
      BY <1>3, Zenon DEF StartFile
    <2>2. work'.stat = work.stat /\ work'.seen = work.seen
      BY <2>1 DEF TypeOK, ProcessType
    <2> QED
      BY <1>1, <2>1, <2>2, StampRows
  <1> QED
    BY <1>2, <1>3

LEMMA StampFingerprint ==
    ASSUME TypeOK, ProcessInv, StampInv, Fingerprint
    PROVE  StampInv'
  <1>1. UNCHANGED <<disk, mtime, files>> /\ item.file \in File
    BY DEF Fingerprint, env, database, ProcessInv
  <1>2. Bytes(item.file) = disk[item.file]
    BY DEF Fingerprint, Bytes
  <1>3. CASE SameHash
    <2>1. work' = [work EXCEPT !.seen = @ \cup {item.file}] /\ phase' = "items"
      BY <1>3 DEF Fingerprint
    <2>2. work'.stat = work.stat /\ work'.seen = work.seen \cup {item.file}
      BY <2>1 DEF TypeOK, ProcessType
    <2>3. files[item.file].sha = disk[item.file]
      BY <1>2, <1>3 DEF SameHash
    <2> QED
      BY <1>1, <2>1, <2>2, <2>3 DEF StampInv, FastPathSound
  <1>4. CASE ~SameHash
    <2>1. work' = work /\ item'.sha = disk[item.file] /\ item'.file = item.file
      BY <1>2, <1>4 DEF Fingerprint, TypeOK, ProcessType
    <2> QED
      BY <1>1, <2>1 DEF StampInv, FastPathSound
  <1> QED
    BY <1>3, <1>4

LEMMA StampReplace ==
    ASSUME TypeOK, ProcessInv, StampInv, ReplaceDocument
    PROVE  StampInv'
  <1>1. UNCHANGED <<disk, mtime, work>> /\ phase = "persist" /\ phase' = "count"
    BY DEF ReplaceDocument, env
  <1>2. item.file \in File /\ work.seen \in SUBSET File
    BY <1>1 DEF ProcessInv, TypeOK, ProcessType
  <1>3. \A f \in File \ {item.file} : files'[f] = files[f]
    BY DEF ReplaceDocument, TypeOK, DatabaseType
  <1>4. files'[item.file].sha = item.sha /\ files'[item.file].mtime = work.stat[item.file]
    BY <1>2 DEF ReplaceDocument, TypeOK, DatabaseType, Row
  <1>5. FastPathSound'
    BY <1>1, <1>2, <1>3, <1>4 DEF StampInv, FastPathSound
  <1> QED
    BY <1>1, <1>2, <1>3, <1>4, <1>5 DEF StampInv

LEMMA StampMarkSeen ==
    ASSUME TypeOK, StampInv, MarkSeenMany
    PROVE  StampInv'
  <1>1. UNCHANGED <<disk, mtime, work>> /\ phase' = "reconcile"
    BY DEF MarkSeenMany, env
  <1>2. work.seen \in SUBSET File
    BY DEF TypeOK, ProcessType
  <1>3. ASSUME NEW f \in File
        PROVE  /\ files'[f].status = files[f].status /\ files'[f].sha = files[f].sha
               /\ \/ files'[f].mtime = files[f].mtime
                  \/ f \in work.seen /\ files'[f].mtime = work.stat[f]
    BY DEF MarkSeenMany, SeenRow, TypeOK, DatabaseType, FileRow
  <1>4. FastPathSound'
    BY <1>1, <1>3 DEF StampInv, FastPathSound
  <1> QED
    BY <1>1, <1>2, <1>3, <1>4 DEF StampInv

LEMMA StampError ==
    ASSUME TypeOK, StampInv, NEW f \in File, UNCHANGED <<disk, mtime>>,
           files' = [files EXCEPT ![f] = ErrorRow(f)], work'.stat = work.stat,
           work'.seen \in SUBSET work.seen, phase' \notin {"parse", "persist"}
    PROVE  StampInv'
  <1>1. \A g \in File : files'[g] = files[g] \/ files'[g].status = "error"
    BY ErrorRowStatus DEF TypeOK, DatabaseType
  <1> QED
    BY <1>1, StampRows

LEMMA SkippedRows ==
    ASSUME TypeOK, NEW g, NEW stamp, RecordSkipped(g, stamp)
    PROVE  \A f \in File : files'[f] = files[f] \/ files'[f].status = "skipped"
  BY DEF RecordSkipped, Row, TypeOK, DatabaseType

LEMMA NextStamp ==
    ASSUME TypeOK, ProcessInv, StampInv, [Next]_vars
    PROVE  StampInv'
  <1>1. CASE Environment
    BY <1>1, StampEnvironment
  <1>2. CASE Start
    BY <1>2, StampFresh DEF Start, BeginRun, env
  <1>3. CASE Discover
    BY <1>3, StampDiscover
  <1>4. CASE \E e \in work.faults : HandleDiscoveryError(e)
    <2>1. PICK e \in work.faults : HandleDiscoveryError(e)
      BY <1>4
    <2>2. UNCHANGED <<disk, mtime>> /\ phase' = "items"
      BY <2>1 DEF HandleDiscoveryError, env
    <2>3. work'.stat = work.stat /\ work'.seen = work.seen
      BY <2>1 DEF HandleDiscoveryError, TypeOK, ProcessType
    <2>4. \A f \in File : files'[f] = files[f] \/ files'[f].status = "skipped"
      <3>1. CASE SkipTooLarge(e)
        BY <3>1, SkippedRows DEF SkipTooLarge
      <3>2. CASE RecordDiscoveryError(e)
        BY <3>2 DEF RecordDiscoveryError
      <3> QED
        BY <2>1, <3>1, <3>2 DEF HandleDiscoveryError
    <2> QED
      BY <2>2, <2>3, <2>4, StampRows
  <1>5. CASE \E f \in File : StartFile(f)
    BY <1>5, StampStartFile
  <1>6. CASE \E f \in File : GetFileStateFails(f)
    <2>1. PICK f \in File : GetFileStateFails(f)
      BY <1>6
    <2>2. work'.stat = work.stat /\ work'.seen = work.seen
      BY <2>1 DEF GetFileStateFails, TypeOK, ProcessType
    <2> QED
      BY <2>1, <2>2, StampError DEF GetFileStateFails, IsNext, env
  <1>7. CASE FingerprintFails \/ ExtractFails
    <2>1. item.file \in File
      BY <1>7 DEF FingerprintFails, ExtractFails, ProcessInv
    <2> QED
      BY <1>7, <2>1, StampError DEF FingerprintFails, ExtractFails, FailFile, env
  <1>8. CASE Fingerprint
    BY <1>8, StampFingerprint
  <1>9. CASE ExtractBinaryPbl
    <2>1. \A f \in File : files'[f] = files[f] \/ files'[f].status = "skipped"
      BY <1>9, SkippedRows DEF ExtractBinaryPbl
    <2> QED
      BY <1>9, <2>1, StampRows DEF ExtractBinaryPbl, env
  <1>10. CASE Extract
    <2>1. item'.file = item.file /\ item'.sha = item.sha
      BY <1>10 DEF Extract, TypeOK, ProcessType
    <2>2. UNCHANGED <<disk, mtime, files, work>> /\ phase = "parse"
      BY <1>10 DEF Extract, env, database
    <2> QED
      BY <2>1, <2>2 DEF StampInv, FastPathSound
  <1>11. CASE ReplaceDocument
    BY <1>11, StampReplace
  <1>12. CASE ReplaceDocumentFails \/ CountProcessed \/ FinishRun
    <2>1. UNCHANGED <<disk, mtime, files, work>> /\ phase' \notin {"parse", "persist"}
      BY <1>12 DEF ReplaceDocumentFails, CountProcessed, FinishRun, env, database
    <2> QED
      BY <2>1, StampRows
  <1>13. CASE MarkSeenMany
    BY <1>13, StampMarkSeen
  <1>14. CASE ReconcileDeleted
    <2>1. \A f \in File : files'[f] = files[f] \/ files'[f].status = "deleted"
      BY <1>14 DEF ReconcileDeleted, Tombstone, TypeOK, DatabaseType, FileRow
    <2> QED
      BY <1>14, <2>1, StampRows DEF ReconcileDeleted, env
  <1>15. CASE Return \/ FinishInterrupted \/ FinishFailed \/ Crash
    BY <1>15, StampFresh DEF Return, FinishInterrupted, FinishFailed, Crash, Exit, env, database
  <1>16. CASE RecordFatal
    <2>1. CASE UNCHANGED files
      BY <1>16, <2>1, StampRows DEF RecordFatal, env
    <2>2. CASE item.file # NoFile /\ files' = [files EXCEPT ![item.file] = ErrorRow(item.file)]
      BY <1>16, <2>2, StampError DEF RecordFatal, env, TypeOK, ProcessType
    <2> QED
      BY <1>16, <2>1, <2>2 DEF RecordFatal
  <1>17. CASE KeyboardInterrupt \/ DatabaseFault
    BY <1>17, StampRows DEF KeyboardInterrupt, DatabaseFault, env, database
  <1>18. CASE UNCHANGED vars
    BY <1>18, StampKept DEF vars
  <1>19. CASE \E f \in File : FileStateFault(f)
    <2>1. work'.stat = work.stat /\ work'.seen = work.seen
      BY <1>19 DEF FileStateFault, TypeOK, ProcessType
    <2> QED
      BY <1>19, <2>1, StampRows DEF FileStateFault, env, database
  <1> QED
    BY <1>1, <1>2, <1>3, <1>4, <1>5, <1>6, <1>7, <1>8, <1>9, <1>10, <1>11, <1>12, <1>13,
       <1>14, <1>15, <1>16, <1>17, <1>18, <1>19 DEF Next, Program

\* However edits, interruptions and crashes interleave with the runs, a processed
\* row that carries the stamp of the file carries the hash of its bytes: skipping
\* the file on its metadata alone (decide_incremental) never loses a change.
THEOREM FastPath == Spec => []FastPathSound
  <1>1. Init => StampInv
    <2>1. ASSUME Init PROVE \A f \in File : mtime[f] = 1 /\ work.stat[f] = 0
      BY <2>1 DEF Init, NoWork
    <2> QED
      BY <2>1 DEF Init, StampInv, FastPathSound, NoRow, NoWork
  <1>2. TypeOK /\ ProcessInv /\ StampInv /\ [Next]_vars => (TypeOK /\ ProcessInv /\ StampInv)'
    BY NextType, NextStamp
  <1>3. StampInv => FastPathSound
    BY DEF StampInv
  <1> QED
    BY InitType, <1>1, <1>2, <1>3, PTL DEF Spec

------------------------------------------------------------------------------
(* ListedIsNeverDeleted: every way of finishing with a file marks its row. *)

\* What a step may do to a row: only reconciliation deletes, and whoever rewrites a
\* row marks it as seen by the current run.
LEMMA RowsStep ==
    ASSUME TypeOK, ProcessInv, [Next]_vars, ~ReconcileDeleted
    PROVE  \A f \in File :
              \/ files'[f] = files[f]
              \/ /\ files'[f].seen = job.id
                 /\ files'[f].status = "deleted" => files[f].status = "deleted"
  <1> DEFINE Marked == \A f \in File :
                 \/ files'[f] = files[f]
                 \/ /\ files'[f].seen = job.id
                    /\ files'[f].status = "deleted" => files[f].status = "deleted"
  <1>1. ASSUME NEW g, NEW stamp, RecordSkipped(g, stamp) PROVE Marked
    BY <1>1 DEF RecordSkipped, Row, TypeOK, DatabaseType
  <1>2. ASSUME NEW g \in File, files' = [files EXCEPT ![g] = ErrorRow(g)] PROVE Marked
    BY <1>2, ErrorRowSeen, ErrorRowStatus DEF TypeOK, DatabaseType
  <1>3. CASE \E e \in work.faults : HandleDiscoveryError(e)
    <2>1. PICK e \in work.faults : HandleDiscoveryError(e)
      BY <1>3
    <2>2. CASE SkipTooLarge(e)
      BY <1>1, <2>2 DEF SkipTooLarge
    <2>3. CASE RecordDiscoveryError(e)
      BY <2>3 DEF RecordDiscoveryError
    <2> QED
      BY <2>1, <2>2, <2>3 DEF HandleDiscoveryError
  <1>4. CASE \E f \in File : GetFileStateFails(f)
    BY <1>2, <1>4 DEF GetFileStateFails
  <1>5. CASE FingerprintFails \/ ExtractFails
    BY <1>2, <1>5 DEF FingerprintFails, ExtractFails, FailFile, ProcessInv
  <1>6. CASE ExtractBinaryPbl
    BY <1>1, <1>6 DEF ExtractBinaryPbl
  <1>7. CASE ReplaceDocument
    BY <1>7 DEF ReplaceDocument, Row, TypeOK, DatabaseType
  <1>8. CASE MarkSeenMany
    BY <1>8 DEF MarkSeenMany, SeenRow, TypeOK, DatabaseType, FileRow
  <1>9. CASE RecordFatal
    <2>1. CASE item.file # NoFile /\ files' = [files EXCEPT ![item.file] = ErrorRow(item.file)]
      BY <1>2, <2>1 DEF TypeOK, ProcessType
    <2>2. CASE files' = files
      BY <2>2
    <2> QED
      BY <1>9, <2>1, <2>2 DEF RecordFatal
  <1>10. CASE Environment \/ Start
    BY <1>10 DEF Environment, WriteFile, RemoveFile, ChangeRoot, Start, BeginRun, database
  <1>11. CASE \E f \in File : StartFile(f) \/ FileStateFault(f)
    BY <1>11 DEF StartFile, FileStateFault, database
  <1>12. CASE Discover \/ Fingerprint \/ Extract \/ ReplaceDocumentFails \/ CountProcessed
    BY <1>12
       DEF Discover, Fingerprint, Extract, ReplaceDocumentFails, CountProcessed, database
  <1>13. CASE FinishRun \/ Return \/ FinishInterrupted \/ FinishFailed \/ Crash
    BY <1>13 DEF FinishRun, Return, FinishInterrupted, FinishFailed, Crash, database
  <1>14. CASE KeyboardInterrupt \/ DatabaseFault \/ UNCHANGED vars
    BY <1>14 DEF KeyboardInterrupt, DatabaseFault, database, vars
  <1>15. Marked
    BY <1>3, <1>4, <1>5, <1>6, <1>7, <1>8, <1>9, <1>10, <1>11, <1>12, <1>13, <1>14
       DEF Next, Program
  <1> QED
    BY <1>15

\* A listed file that was handled is marked, waits to be marked, or has no row.
Handled(f) == \/ files[f].seen = job.id
              \/ f \in work.seen
              \/ files[f].status = "none"

ListedInv ==
    /\ phase \in {"items", "count"} =>
          \A f \in File \ work.todo : work.stat[f] # 0 => Handled(f)
    /\ phase \in {"hash", "parse", "persist"} =>
          \A f \in File \ (work.todo \cup {item.file}) : work.stat[f] # 0 => Handled(f)
    /\ phase = "reconcile" =>
          \A f \in File : work.stat[f] # 0 =>
              files[f].seen = job.id \/ files[f].status = "none"

LEMMA HandledKept ==
    ASSUME TypeOK, ProcessInv, [Next]_vars, ~ReconcileDeleted, job'.id = job.id,
           work.seen \in SUBSET work'.seen
    PROVE  \A f \in File : Handled(f) => Handled(f)'
  BY RowsStep DEF Handled

LEMMA ListedMarkSeen ==
    ASSUME TypeOK, ListedInv, MarkSeenMany
    PROVE  ListedInv'
  <1>1. /\ phase = "items" /\ work.todo = {} /\ phase' = "reconcile"
        /\ UNCHANGED <<job, work>>
    BY DEF MarkSeenMany
  <1>2. ASSUME NEW f \in File, work.stat[f] # 0
        PROVE  files'[f].seen = job.id \/ files'[f].status = "none"
    <2>1. Handled(f)
      BY <1>1, <1>2 DEF ListedInv
    <2>2. CASE f \in work.seen /\ files[f].status # "none"
      BY <2>2 DEF MarkSeenMany, SeenRow, TypeOK, DatabaseType, FileRow
    <2>3. CASE ~(f \in work.seen /\ files[f].status # "none")
      BY <2>1, <2>3 DEF MarkSeenMany, Handled
    <2> QED
      BY <2>2, <2>3
  <1> QED
    BY <1>1, <1>2 DEF ListedInv

\* The steps that finish with the current file, or that leave it where it is.
LEMMA ListedItems ==
    ASSUME TypeOK, ProcessInv, ListedInv, [Next]_vars, ~ReconcileDeleted,
           job'.id = job.id, work'.stat = work.stat, work'.todo = work.todo,
           work.seen \in SUBSET work'.seen,
           phase \in {"items", "hash", "parse", "persist", "count"},
           phase' \in {"items", "count"},
           phase \in {"hash", "parse", "persist"} => files'[item.file].seen = job.id
    PROVE  ListedInv'
  <1>1. ASSUME NEW f \in File \ work.todo, work.stat[f] # 0
        PROVE  Handled(f)'
    <2>1. CASE phase \in {"hash", "parse", "persist"} /\ f = item.file
      BY <2>1 DEF Handled
    <2>2. CASE ~(phase \in {"hash", "parse", "persist"} /\ f = item.file)
      <3>1. Handled(f)
        BY <1>1, <2>2 DEF ListedInv
      <3> QED
        BY <3>1, HandledKept
    <2> QED
      BY <2>1, <2>2
  <1> QED
    BY <1>1 DEF ListedInv

LEMMA NextListed ==
    ASSUME TypeOK, ProcessInv, ListedInv, [Next]_vars
    PROVE  ListedInv'
  <1>1. CASE phase' \notin {"items", "count", "hash", "parse", "persist", "reconcile"}
    BY <1>1 DEF ListedInv
  <1>2. CASE UNCHANGED <<files, process>>
    BY <1>2 DEF ListedInv, Handled, process
  <1>3. CASE Discover
    BY <1>3 DEF Discover, ListedInv
  <1>4. CASE \E e \in work.faults : HandleDiscoveryError(e)
    <2>1. PICK e \in work.faults : HandleDiscoveryError(e)
      BY <1>4
    <2>2. /\ phase = "items" /\ phase' = "items" /\ job'.id = job.id
          /\ work'.stat = work.stat /\ work'.todo = work.todo /\ work'.seen = work.seen
      BY <2>1 DEF HandleDiscoveryError, SkipTooLarge, RecordDiscoveryError, TypeOK, ProcessType
    <2> QED
      BY <2>2, ListedItems DEF ReconcileDeleted
  <1>5. CASE \E f \in File : StartFile(f)
    <2>1. PICK f \in File : StartFile(f)
      BY <1>5
    <2>2. phase = "items" /\ UNCHANGED <<files, job>>
      BY <2>1 DEF StartFile, IsNext, database
    <2>3. CASE phase' = phase /\ work' = [work EXCEPT !.todo = @ \ {f}, !.seen = @ \cup {f}]
      <3>1. /\ work'.stat = work.stat /\ work'.todo = work.todo \ {f}
            /\ work'.seen = work.seen \cup {f}
        BY <2>3 DEF TypeOK, ProcessType
      <3> QED
        BY <2>2, <2>3, <3>1 DEF ListedInv, Handled
    <2>4. CASE /\ phase' = "hash" /\ work' = [work EXCEPT !.todo = @ \ {f}]
               /\ item' = [NoItem EXCEPT !.file = f, !.action = Decision(f)]
      <3>1. /\ work'.stat = work.stat /\ work'.todo = work.todo \ {f}
            /\ work'.seen = work.seen /\ item'.file = f
        BY <2>4 DEF TypeOK, ProcessType, NoItem
      <3> QED
        BY <2>2, <2>4, <3>1 DEF ListedInv, Handled
    <2> QED
      BY <2>1, <2>3, <2>4, Zenon DEF StartFile
  <1>6. CASE \E f \in File : GetFileStateFails(f)
    <2>1. PICK f \in File : GetFileStateFails(f)
      BY <1>6
    <2>2. phase = "items" /\ phase' = "items" /\ UNCHANGED job
      BY <2>1 DEF GetFileStateFails, IsNext
    <2>3. /\ work'.stat = work.stat /\ work'.todo = work.todo \ {f}
          /\ work'.seen = work.seen
      BY <2>1 DEF GetFileStateFails, TypeOK, ProcessType
    <2>4. Handled(f)'
      BY <2>1, <2>2, ErrorRowSeen DEF GetFileStateFails, Handled, TypeOK, DatabaseType
    <2> QED
      BY <2>2, <2>3, <2>4, HandledKept DEF ListedInv, ReconcileDeleted
  <1>7. CASE FingerprintFails \/ ExtractFails
    <2>1. item.file \in File /\ phase \in {"hash", "parse"} /\ FailFile
      BY <1>7 DEF FingerprintFails, ExtractFails, ProcessInv
    <2>2. files'[item.file].seen = job.id
      BY <2>1, ErrorRowSeen DEF FailFile, TypeOK, DatabaseType
    <2> QED
      BY <2>1, <2>2, ListedItems DEF FailFile, ReconcileDeleted
  <1>8. CASE Fingerprint
    <2>1. phase = "hash" /\ UNCHANGED <<files, job>>
      BY <1>8 DEF Fingerprint, database
    <2>2. CASE SameHash
      <3>1. work' = [work EXCEPT !.seen = @ \cup {item.file}] /\ phase' = "items"
        BY <1>8, <2>2 DEF Fingerprint
      <3>2. /\ work'.stat = work.stat /\ work'.todo = work.todo
            /\ work'.seen = work.seen \cup {item.file}
        BY <3>1 DEF TypeOK, ProcessType
      <3> QED
        BY <2>1, <3>1, <3>2 DEF ListedInv, Handled
    <2>3. CASE ~SameHash
      <3>1. work' = work /\ phase' = "parse" /\ item'.file = item.file
        BY <1>8, <2>3 DEF Fingerprint, TypeOK, ProcessType
      <3> QED
        BY <2>1, <3>1 DEF ListedInv, Handled
    <2> QED
      BY <2>2, <2>3
  <1>9. CASE ExtractBinaryPbl
    <2>1. item.file \in File /\ phase = "parse" /\ phase' = "items" /\ UNCHANGED <<job, work>>
      BY <1>9 DEF ExtractBinaryPbl, ProcessInv
    <2>2. files'[item.file].seen = job.id
      BY <1>9, <2>1 DEF ExtractBinaryPbl, RecordSkipped, Row, TypeOK, DatabaseType
    <2> QED
      BY <2>1, <2>2, ListedItems DEF ReconcileDeleted
  <1>10. CASE Extract
    <2>1. item'.file = item.file /\ phase = "parse" /\ phase' = "persist"
          /\ UNCHANGED <<job, work, files>>
      BY <1>10 DEF Extract, TypeOK, ProcessType, database
    <2> QED
      BY <2>1 DEF ListedInv, Handled
  <1>11. CASE ReplaceDocument
    <2>1. /\ item.file \in File /\ phase = "persist" /\ phase' = "count"
          /\ UNCHANGED <<job, work>>
      BY <1>11 DEF ReplaceDocument, ProcessInv
    <2>2. files'[item.file].seen = job.id
      BY <1>11, <2>1 DEF ReplaceDocument, Row, TypeOK, DatabaseType
    <2> QED
      BY <2>1, <2>2, ListedItems DEF ReconcileDeleted
  <1>12. CASE CountProcessed
    BY <1>12, ListedItems DEF CountProcessed, ReconcileDeleted
  <1>13. CASE MarkSeenMany
    BY <1>13, ListedMarkSeen
  <1>14. CASE Environment \/ UNCHANGED vars
    BY <1>2, <1>14 DEF Environment, WriteFile, RemoveFile, ChangeRoot, database, process, vars
  <1>15. CASE Start \/ ReplaceDocumentFails \/ ReconcileDeleted \/ FinishRun \/ RecordFatal
    BY <1>1, <1>15
       DEF Start, BeginRun, ReplaceDocumentFails, ReconcileDeleted, FinishRun, RecordFatal
  <1>16. CASE \/ Return \/ FinishInterrupted \/ FinishFailed \/ Crash
              \/ KeyboardInterrupt \/ DatabaseFault \/ \E f \in File : FileStateFault(f)
    BY <1>1, <1>16
       DEF Return, FinishInterrupted, FinishFailed, Crash, Exit, KeyboardInterrupt,
           DatabaseFault, FileStateFault
  <1> QED
    BY <1>3, <1>4, <1>5, <1>6, <1>7, <1>8, <1>9, <1>10, <1>11, <1>12, <1>13, <1>14,
       <1>15, <1>16 DEF Next, Program

\* Whatever happens to a file that discovery listed - parse error, skip, touch,
\* database error, edit under the parser - the run that listed it does not delete it.
THEOREM ListedSurvives == Spec => ListedIsNeverDeleted
  <1>1. Init => ListedInv
    BY DEF Init, ListedInv
  <1>2. TypeOK /\ ProcessInv /\ ListedInv /\ [Next]_vars
          => (TypeOK /\ ProcessInv /\ ListedInv)'
    BY NextType, NextListed
  <1>3. TypeOK /\ ProcessInv /\ ListedInv /\ [Next]_vars
          => [\A f \in File : Tombstones(f) => work.stat[f] = 0]_vars
    <2> SUFFICES ASSUME TypeOK, ProcessInv, ListedInv, [Next]_vars, NEW f \in File,
                        Tombstones(f)
                 PROVE  work.stat[f] = 0
      BY Zenon
    <2>1. ReconcileDeleted
      BY RowsStep DEF Tombstones
    <2>2. f \in Missing
      BY <2>1 DEF ReconcileDeleted, Tombstones
    <2> QED
      BY <2>1, <2>2 DEF Missing, ReconcileDeleted, ListedInv
  <1> QED
    BY InitType, <1>1, <1>2, <1>3, PTL DEF Spec, ListedIsNeverDeleted

------------------------------------------------------------------------------
(* NoRedundantRewrite: an incremental run only persists what really changed. *)

RewriteInv ==
    /\ phase = "hash" =>
          item.action = "hash_required" \/ (item.action = "process" /\ MustProcess(item.file))
    /\ (phase \in {"parse", "persist"} /\ job.mode = "incremental"
           /\ files[item.file].status = "processed")
          => files[item.file].sig # job.sig \/ files[item.file].sha # item.sha

LEMMA NextRewrite ==
    ASSUME TypeOK, ProcessInv, RewriteInv, [Next]_vars
    PROVE  RewriteInv'
  <1>1. CASE phase' \notin {"hash", "parse", "persist"}
    BY <1>1 DEF RewriteInv
  <1>2. CASE UNCHANGED <<files, process>>
    BY <1>2 DEF RewriteInv, MustProcess, process
  <1>3. CASE \E f \in File : StartFile(f)
    <2>1. PICK f \in File : StartFile(f)
      BY <1>3
    <2>2. CASE phase' = phase
      BY <1>1, <2>1, <2>2 DEF StartFile, IsNext
    <2>3. CASE /\ phase' = "hash" /\ Decision(f) # "unchanged"
               /\ item' = [NoItem EXCEPT !.file = f, !.action = Decision(f)]
      <3>1. item'.file = f /\ item'.action = Decision(f)
        BY <2>3 DEF NoItem
      <3>2. UNCHANGED <<files, job>>
        BY <2>1 DEF StartFile, database
      <3> QED
        BY <2>3, <3>1, <3>2 DEF RewriteInv, Decision, MustProcess
    <2> QED
      BY <2>1, <2>2, <2>3, Zenon DEF StartFile
  <1>4. CASE Fingerprint
    <2>1. phase = "hash" /\ UNCHANGED <<files, job>>
      BY <1>4 DEF Fingerprint, database
    <2>2. CASE SameHash
      BY <1>1, <1>4, <2>2 DEF Fingerprint
    <2>3. CASE ~SameHash
      <3>1. /\ phase' = "parse" /\ item'.file = item.file
            /\ item'.sha = Bytes(item.file)
        BY <1>4, <2>3 DEF Fingerprint, TypeOK, ProcessType
      <3> QED
        BY <2>1, <2>3, <3>1 DEF RewriteInv, SameHash, MustProcess
    <2> QED
      BY <2>2, <2>3
  <1>5. CASE Extract
    <2>1. /\ item'.file = item.file /\ item'.sha = item.sha
          /\ phase = "parse" /\ phase' = "persist" /\ UNCHANGED <<job, files>>
      BY <1>5 DEF Extract, TypeOK, ProcessType, database
    <2> QED
      BY <2>1 DEF RewriteInv
  <1>6. CASE Environment \/ UNCHANGED vars
    BY <1>2, <1>6 DEF Environment, WriteFile, RemoveFile, ChangeRoot, database, process, vars
  <1>7. CASE \/ Discover \/ Start \/ \E e \in work.faults : HandleDiscoveryError(e)
             \/ \E f \in File : GetFileStateFails(f)
    BY <1>1, <1>7 DEF Discover, Start, BeginRun, HandleDiscoveryError, GetFileStateFails, IsNext
  <1>8. CASE \/ FingerprintFails \/ ExtractFails \/ ExtractBinaryPbl \/ ReplaceDocument
             \/ ReplaceDocumentFails \/ CountProcessed \/ MarkSeenMany
    BY <1>1, <1>8 DEF FingerprintFails, ExtractFails, FailFile, ExtractBinaryPbl,
                      ReplaceDocument, ReplaceDocumentFails, CountProcessed, MarkSeenMany
  <1>9. CASE \/ ReconcileDeleted \/ FinishRun \/ RecordFatal \/ Return \/ FinishInterrupted
             \/ FinishFailed \/ Crash \/ KeyboardInterrupt \/ DatabaseFault
             \/ \E f \in File : FileStateFault(f)
    BY <1>1, <1>9 DEF ReconcileDeleted, FinishRun, RecordFatal, Return, FinishInterrupted,
                      FinishFailed, Crash, Exit, KeyboardInterrupt, DatabaseFault,
                      FileStateFault
  <1> QED
    BY <1>3, <1>4, <1>5, <1>6, <1>7, <1>8, <1>9 DEF Next, Program

\* Only replace_document moves the process from persisting to counting.
LEMMA PersistStep ==
    ASSUME [Next]_vars, phase = "persist", phase' = "count"
    PROVE  ReplaceDocument
  BY DEF Next, Environment, WriteFile, RemoveFile, ChangeRoot, process, Start, BeginRun,
         Program, Discover, HandleDiscoveryError, StartFile, IsNext, GetFileStateFails,
         FingerprintFails, Fingerprint, ExtractFails, ExtractBinaryPbl, Extract,
         ReplaceDocumentFails, CountProcessed, MarkSeenMany, ReconcileDeleted, FinishRun,
         Return, FinishInterrupted, RecordFatal, FinishFailed, KeyboardInterrupt,
         DatabaseFault, FileStateFault, Crash, Exit, FailFile, vars

\* A second incremental run over the same content, signature and status never
\* rewrites the document, whatever happened between the two runs.
THEOREM Idempotent == Spec => NoRedundantRewrite
  <1>1. Init => RewriteInv
    BY DEF Init, RewriteInv
  <1>2. TypeOK /\ ProcessInv /\ RewriteInv /\ [Next]_vars
          => (TypeOK /\ ProcessInv /\ RewriteInv)'
    BY NextType, NextRewrite
  <1>3. TypeOK /\ ProcessInv /\ RewriteInv /\ [Next]_vars
          => [\A f \in File :
                 (job.mode = "incremental" /\ phase = "persist" /\ phase' = "count"
                    /\ item.file = f /\ files[f].status = "processed")
                 => <<files'[f].sha, files'[f].sig>> # <<files[f].sha, files[f].sig>>]_vars
    <2> SUFFICES ASSUME TypeOK, ProcessInv, RewriteInv, [Next]_vars, NEW f \in File,
                        job.mode = "incremental", phase = "persist", phase' = "count",
                        item.file = f, files[f].status = "processed"
                 PROVE  <<files'[f].sha, files'[f].sig>> # <<files[f].sha, files[f].sig>>
      BY Zenon
    <2>1. ReplaceDocument
      BY PersistStep
    <2>2. files'[f].sha = item.sha /\ files'[f].sig = job.sig
      BY <2>1 DEF ReplaceDocument, Row, TypeOK, DatabaseType
    <2> QED
      BY <2>2 DEF RewriteInv
  <1> QED
    BY InitType, <1>1, <1>2, <1>3, PTL DEF Spec, NoRedundantRewrite

------------------------------------------------------------------------------
(* ImplementsCatalog: what readers see. *)

\* Every text on its way to the catalogue is one the file really had.
HistoryInv ==
    /\ \A f \in File : disk[f] # NoContent => disk[f] \in history[f]
    /\ phase = "persist" => item.text \in history[item.file]
    /\ \A f \in File : docs[f] # NoDoc => docs[f].text \in history[f]

LEMMA HistoryKept ==
    ASSUME TypeOK, ProcessInv, HistoryInv, UNCHANGED <<disk, history>>,
           phase' # "persist" \/ UNCHANGED <<phase, item>>,
           \A f \in File : docs'[f] = docs[f] \/ docs'[f] = NoDoc
    PROVE  HistoryInv'
  BY DEF HistoryInv

\* No step but replace_document makes a file visible or changes its text.
LEMMA PublishStep ==
    ASSUME TypeOK, ProcessInv, [Next]_vars, ~ReplaceDocument
    PROVE  \A f \in File :
              /\ docs'[f] = docs[f] \/ docs'[f] = NoDoc
              /\ \/ files'[f].status # "processed"
                 \/ /\ files'[f].status = files[f].status /\ files'[f].sha = files[f].sha
                    /\ docs'[f] = docs[f]
  <1> DEFINE Withdrawn == \A f \in File :
              /\ docs'[f] = docs[f] \/ docs'[f] = NoDoc
              /\ \/ files'[f].status # "processed"
                 \/ /\ files'[f].status = files[f].status /\ files'[f].sha = files[f].sha
                    /\ docs'[f] = docs[f]
  <1>1. ASSUME NEW g, NEW stamp, RecordSkipped(g, stamp) PROVE Withdrawn
    BY <1>1 DEF RecordSkipped, Row, TypeOK, DatabaseType
  <1>2. ASSUME NEW g \in File, files' = [files EXCEPT ![g] = ErrorRow(g)], docs' = docs
        PROVE  Withdrawn
    BY <1>2, ErrorRowStatus DEF TypeOK, DatabaseType
  <1>3. ASSUME UNCHANGED <<files, docs>> PROVE Withdrawn
    BY <1>3
  <1>4. CASE \E e \in work.faults : HandleDiscoveryError(e)
    <2>1. PICK e \in work.faults : HandleDiscoveryError(e)
      BY <1>4
    <2>2. CASE SkipTooLarge(e)
      BY <1>1, <2>2 DEF SkipTooLarge
    <2>3. CASE RecordDiscoveryError(e)
      BY <1>3, <2>3 DEF RecordDiscoveryError
    <2> QED
      BY <2>1, <2>2, <2>3 DEF HandleDiscoveryError
  <1>5. CASE \E f \in File : GetFileStateFails(f)
    BY <1>2, <1>5 DEF GetFileStateFails
  <1>6. CASE FingerprintFails \/ ExtractFails
    BY <1>2, <1>6 DEF FingerprintFails, ExtractFails, FailFile, ProcessInv
  <1>7. CASE ExtractBinaryPbl
    BY <1>1, <1>7 DEF ExtractBinaryPbl
  <1>8. CASE MarkSeenMany
    BY <1>8 DEF MarkSeenMany, SeenRow, TypeOK, DatabaseType, FileRow
  <1>9. CASE ReconcileDeleted
    BY <1>9 DEF ReconcileDeleted, Tombstone, TypeOK, DatabaseType, FileRow
  <1>10. CASE RecordFatal
    <2>1. CASE item.file # NoFile /\ files' = [files EXCEPT ![item.file] = ErrorRow(item.file)]
      BY <1>2, <1>10, <2>1 DEF RecordFatal, TypeOK, ProcessType
    <2>2. CASE files' = files
      BY <1>3, <1>10, <2>2 DEF RecordFatal
    <2> QED
      BY <1>10, <2>1, <2>2 DEF RecordFatal
  <1>11. CASE Environment \/ Start
    BY <1>3, <1>11 DEF Environment, WriteFile, RemoveFile, ChangeRoot, Start, BeginRun, database
  <1>12. CASE \E f \in File : StartFile(f) \/ FileStateFault(f)
    BY <1>3, <1>12 DEF StartFile, FileStateFault, database
  <1>13. CASE Discover \/ Fingerprint \/ Extract \/ ReplaceDocumentFails \/ CountProcessed
    BY <1>3, <1>13
       DEF Discover, Fingerprint, Extract, ReplaceDocumentFails, CountProcessed, database
  <1>14. CASE FinishRun \/ Return \/ FinishInterrupted \/ FinishFailed \/ Crash
    BY <1>3, <1>14 DEF FinishRun, Return, FinishInterrupted, FinishFailed, Crash, database
  <1>15. CASE KeyboardInterrupt \/ DatabaseFault \/ UNCHANGED vars
    BY <1>3, <1>15 DEF KeyboardInterrupt, DatabaseFault, database, vars
  <1>16. Withdrawn
    BY <1>4, <1>5, <1>6, <1>7, <1>8, <1>9, <1>10, <1>11, <1>12, <1>13, <1>14, <1>15
       DEF Next, Program
  <1> QED
    BY <1>16

LEMMA NextHistory ==
    ASSUME TypeOK, ProcessInv, HistoryInv, [Next]_vars
    PROVE  HistoryInv'
  <1>1. CASE ReplaceDocument
    <2>1. /\ item.file \in File /\ phase = "persist" /\ phase' = "count"
          /\ UNCHANGED <<disk, history>>
      BY <1>1 DEF ReplaceDocument, ProcessInv, env
    <2>2. /\ \A f \in File \ {item.file} : docs'[f] = docs[f]
          /\ docs'[item.file].text = item.text
      BY <1>1, <2>1 DEF ReplaceDocument, NewDocument, TypeOK, DatabaseType
    <2> QED
      BY <2>1, <2>2 DEF HistoryInv
  <1>2. CASE \E f \in File, c \in Contents : WriteFile(f, c)
    <2>1. PICK f \in File, c \in Contents : WriteFile(f, c)
      BY <1>2
    <2>2. /\ \A g \in File \ {f} : disk'[g] = disk[g] /\ history'[g] = history[g]
          /\ disk'[f] = c /\ history'[f] = history[f] \cup {c}
      BY <2>1 DEF WriteFile, TypeOK, EnvType
    <2>3. UNCHANGED <<docs, phase, item>> /\ (phase = "persist" => item.file \in File)
      BY <2>1 DEF WriteFile, database, process, ProcessInv
    <2> QED
      BY <2>2, <2>3 DEF HistoryInv
  <1>3. CASE \E f \in File : RemoveFile(f)
    <2>1. PICK f \in File : RemoveFile(f)
      BY <1>3
    <2>2. \A g \in File : disk'[g] = disk[g] \/ disk'[g] = NoContent
      BY <2>1 DEF RemoveFile, TypeOK, EnvType
    <2>3. UNCHANGED <<docs, phase, item, history>>
      BY <2>1 DEF RemoveFile, database, process
    <2> QED
      BY <2>2, <2>3 DEF HistoryInv
  <1>4. CASE Extract
    <2>1. /\ item.file \in File /\ phase' = "persist" /\ item'.file = item.file
          /\ item'.text = Bytes(item.file) /\ UNCHANGED <<disk, history, docs>>
      BY <1>4 DEF Extract, TypeOK, ProcessType, ProcessInv, env, database
    <2>2. Bytes(item.file) # NoContent
      BY <1>4 DEF Extract, KindAt
    <2> QED
      BY <2>1, <2>2 DEF HistoryInv, Bytes
  <1>5. CASE ~ReplaceDocument /\ UNCHANGED <<disk, history>>
             /\ (phase' # "persist" \/ UNCHANGED <<phase, item>>)
    BY <1>5, PublishStep, HistoryKept
  <1>6. CASE \/ \E r \in Roots, s \in RootStates : ChangeRoot(r, s)
             \/ KeyboardInterrupt \/ DatabaseFault \/ UNCHANGED vars
    BY <1>1, <1>5, <1>6
       DEF ChangeRoot, process, KeyboardInterrupt, DatabaseFault, vars, env
  <1>7. CASE Start \/ Discover \/ \E e \in work.faults : HandleDiscoveryError(e)
    BY <1>1, <1>5, <1>7 DEF Start, BeginRun, Discover, HandleDiscoveryError, env
  <1>8. CASE \E f \in File : StartFile(f) \/ GetFileStateFails(f) \/ FileStateFault(f)
    <2>1. UNCHANGED <<disk, history>> /\ phase' # "persist"
      BY <1>8 DEF StartFile, GetFileStateFails, FileStateFault, IsNext, env
    <2> QED
      BY <1>1, <1>5, <2>1
  <1>9. CASE FingerprintFails \/ Fingerprint \/ ExtractFails \/ ExtractBinaryPbl
    <2>1. UNCHANGED <<disk, history>> /\ phase' # "persist"
      BY <1>9 DEF FingerprintFails, Fingerprint, ExtractFails, FailFile, ExtractBinaryPbl, env
    <2> QED
      BY <1>1, <1>5, <2>1
  <1>10. CASE ReplaceDocumentFails \/ CountProcessed \/ MarkSeenMany \/ ReconcileDeleted
    BY <1>1, <1>5, <1>10
       DEF ReplaceDocumentFails, CountProcessed, MarkSeenMany, ReconcileDeleted, env
  <1>11. CASE FinishRun \/ Return \/ FinishInterrupted \/ RecordFatal \/ FinishFailed \/ Crash
    BY <1>1, <1>5, <1>11
       DEF FinishRun, Return, FinishInterrupted, RecordFatal, FinishFailed, Crash, Exit, env
  <1> QED
    BY <1>1, <1>2, <1>3, <1>4, <1>6, <1>7, <1>8, <1>9, <1>10, <1>11
       DEF Next, Program, Environment

LEMMA InitRefines == Init => Promise!Init
  <1> SUFFICES ASSUME Init PROVE Promise!Init
    OBVIOUS
  <1>1. history \in [File -> SUBSET Contents]
    BY InitType DEF TypeOK, EnvType
  <1>2. \A f \in File : ~Vigente(f)
    BY DEF Init, Vigente, NoRow
  <1> QED
    BY <1>1, <1>2 DEF Promise!Init, Published

LEMMA ReplaceRefines ==
    ASSUME TypeOK, ProcessInv, HistoryInv, ReplaceDocument
    PROVE  Promise!Publish(item.file)
  <1>1. item.file \in File /\ phase = "persist" /\ history' = history
    BY DEF ReplaceDocument, ProcessInv, env
  <1>2. item.text \in history[item.file]
    BY <1>1 DEF HistoryInv
  <1>3. \A f \in File \ {item.file} : files'[f] = files[f] /\ docs'[f] = docs[f]
    BY DEF ReplaceDocument, TypeOK, DatabaseType
  <1>4. /\ files'[item.file].status = "processed" /\ files'[item.file].sha = item.sha
        /\ docs'[item.file].sha = item.sha /\ docs'[item.file].text = item.text
    BY <1>1 DEF ReplaceDocument, Row, NewDocument, TypeOK, DatabaseType
  <1>5. Published' = [Published EXCEPT ![item.file] = item.text]
    BY <1>1, <1>3, <1>4 DEF Published, Vigente
  <1> QED
    BY <1>1, <1>2, <1>5 DEF Promise!Publish

LEMMA WriteRefines ==
    ASSUME TypeOK, NEW f \in File, NEW c \in Contents, WriteFile(f, c)
    PROVE  Promise!Write(f)
  <1>1. Published' = Published
    BY DEF WriteFile, database, Published, Vigente
  <1> QED
    BY <1>1 DEF WriteFile, Promise!Write

LEMMA WithdrawRefines ==
    ASSUME TypeOK, ProcessInv, [Next]_vars, ~ReplaceDocument, history' = history
    PROVE  \E S \in SUBSET File : Promise!Withdraw(S)
  <1> DEFINE S == {f \in File : Published'[f] # Published[f]}
  <1>1. ASSUME NEW f \in File, Published'[f] # Published[f]
        PROVE  Published'[f] = NoContent
    <2>1. CASE ~Vigente(f)'
      BY <2>1 DEF Published
    <2>2. CASE Vigente(f)'
      <3>1. /\ files'[f].status = files[f].status /\ files'[f].sha = files[f].sha
            /\ docs'[f] = docs[f]
        BY <2>2, PublishStep DEF Vigente
      <3> QED
        BY <1>1, <3>1 DEF Published, Vigente
    <2> QED
      BY <2>1, <2>2
  <1>2. Published' = [f \in File |-> IF f \in S THEN NoContent ELSE Published[f]]
    <2>1. Published' = [f \in File |-> Published'[f]]
      BY DEF Published
    <2> QED
      BY <1>1, <2>1
  <1>3. Promise!Withdraw(S)
    BY <1>2 DEF Promise!Withdraw
  <1> QED
    BY <1>3

\* The catalogue as its readers see it is what Catalog promises: a text a file really
\* had, whole, replaced one file at a time.
THEOREM Refinement == Spec => ImplementsCatalog
  <1>1. Init => HistoryInv
    <2> SUFFICES ASSUME Init PROVE HistoryInv
      OBVIOUS
    <2>1. \A f \in File : disk[f] # NoContent => disk[f] \in history[f]
      BY DEF Init
    <2>2. phase # "persist" /\ \A f \in File : docs[f] = NoDoc
      BY DEF Init
    <2> QED
      BY <2>1, <2>2 DEF HistoryInv
  <1>2. TypeOK /\ ProcessInv /\ HistoryInv /\ [Next]_vars
          => (TypeOK /\ ProcessInv /\ HistoryInv)'
    BY NextType, NextHistory
  <1>3. TypeOK /\ ProcessInv /\ HistoryInv /\ [Next]_vars => [Promise!Next]_(Promise!vars)
    <2> SUFFICES ASSUME TypeOK, ProcessInv, HistoryInv, [Next]_vars
                 PROVE  Promise!Next
      BY Zenon
    <2>1. CASE ReplaceDocument
      <3>1. item.file \in File
        BY <2>1 DEF ReplaceDocument, ProcessInv
      <3> QED
        BY <2>1, <3>1, ReplaceRefines DEF Promise!Next
    <2>2. CASE \E f \in File, c \in Contents : WriteFile(f, c)
      BY <2>2, WriteRefines DEF Promise!Next
    <2>3. CASE ~ReplaceDocument /\ history' = history
      BY <2>3, WithdrawRefines DEF Promise!Next
    <2>4. ASSUME ~\E f \in File, c \in Contents : WriteFile(f, c)
          PROVE  history' = history
      BY <2>4 DEF Next, Environment, RemoveFile, ChangeRoot, Start, BeginRun,
         Program, Discover, HandleDiscoveryError, StartFile, GetFileStateFails,
         FingerprintFails, Fingerprint, ExtractFails, ExtractBinaryPbl, Extract,
         ReplaceDocument, ReplaceDocumentFails, CountProcessed, MarkSeenMany,
         ReconcileDeleted, FinishRun, Return, FinishInterrupted, RecordFatal, FinishFailed,
         KeyboardInterrupt, DatabaseFault, FileStateFault, Crash, FailFile, vars, env
    <2> QED
      BY <2>1, <2>2, <2>3, <2>4
  <1> QED
    BY InitType, InitRefines, <1>1, <1>2, <1>3, PTL DEF Spec, ImplementsCatalog, Promise!Spec

\* The rows that readers and the next run rely on can be trusted at any instant.
THEOREM RowsSound == Spec => []RowsAreSound
  BY Consistency, FastPath, PTL DEF RowsAreSound

\* Nothing listed is deleted and nothing current is rewritten, in any run.
THEOREM WritesDue == Spec => WritesAreDue
  BY ListedSurvives, Idempotent DEF WritesAreDue

---------------------------------------------------------------------------
(* What a run of ingestion leaves: NoStaleKnowledge, CompletedRunMirrorsDisk,       *)
(* CountersMatchCatalog.                                                           *)

IngestInv == TypeOK /\ ProcessInv /\ CatalogConsistent /\ StampInv

Handling == {"items", "hash", "parse", "persist", "count", "reconcile", "close"}
InHand == phase \in {"hash", "parse", "persist"}

\* The disk is as discovery found it.
Quiet == phase \in Handling /\ ~dirty

Seen(f) == files[f].seen = job.id \/ f \in work.seen

\* No row has been seen by a run that has not discovered yet.
RunInv ==
    /\ phase # "idle" => job.id = Len(runs)
    /\ \A f \in File : files[f].seen <= Len(runs)
    /\ phase = "discover" => \A f \in File : files[f].seen < job.id

\* On a quiet disk, a row is marked as seen and processed only for a listed file, and
\* then with its present bytes.
FreshInv ==
    Quiet =>
        /\ \A f \in File : work.stat[f] # 0 =>
              /\ rootState[f[1]] = "ok" /\ disk[f] # NoContent
              /\ ~TooLarge(f) /\ work.stat[f] = mtime[f]
        /\ \A f \in work.todo \cup work.seen : work.stat[f] # 0
        /\ InHand => work.stat[item.file] # 0
        /\ phase \in {"parse", "persist"} => item.sha = disk[item.file]
        /\ \A f \in File : (files[f].status = "processed" /\ Seen(f)) =>
              work.stat[f] # 0 /\ files[f].sha = disk[f]
        /\ phase = "close" =>
              \A f \in File : f[1] \in job.completed =>
                  files[f].status \in {"none", "deleted"} \/ files[f].seen = job.id

\* A listed text that was handled is recorded under the configuration of the run.
Recorded(f) ==
    /\ files[f].status = "processed" /\ files[f].sig = job.sig
    /\ Seen(f) /\ (phase \in {"reconcile", "close"} => files[f].seen = job.id)

AllRecorded ==
    \A f \in File \ work.todo :
        (work.stat[f] # 0 /\ ~(InHand /\ f = item.file) /\ KindAt(f) = "text")
            => Recorded(f)

\* A text that was not listed still has an error to be handled.
Covered ==
    \A f \in File :
        (f[1] \in job.completed /\ work.stat[f] = 0 /\ KindAt(f) \notin {"absent", "large"})
            => \/ RootFault(f[1]) \in work.faults
               \/ FileFault("FILE_STAT_FAILED", f) \in work.faults

NoErrorSeen == \A f \in File : files[f].status = "error" => ~Seen(f)

\* The order in which a run works.
OrderInv ==
    /\ (phase = "hash" /\ item.action = "hash_required") => ~MustProcess(item.file)
    /\ phase \in Handling \ {"items"} => work.faults = {}
    /\ phase \in {"reconcile", "close"} => work.todo = {}

\* What a run without errors has done so far on a quiet disk.
MirrorInv ==
    (Quiet /\ m.errors = 0) =>
        /\ AllRecorded /\ Covered /\ NoErrorSeen
        /\ work.faults # {} => \A f \in File : work.stat[f] # 0 => f \in work.todo

------------------------------------------------------------------------------
(* Facts shared by several steps. *)

LEMMA IngestTypes ==
    ASSUME IngestInv
    PROVE  /\ files \in [File -> FileRow] /\ docs \in [File -> Document \cup {NoDoc}]
           /\ m \in Counters /\ m.errors \in Nat /\ job.id \in Nat
           /\ work \in [faults : SUBSET Fault, todo : SUBSET File, stat : [File -> Nat],
                        seen : SUBSET File]
           /\ InHand => item.file \in File
  BY DEF IngestInv, TypeOK, DatabaseType, ProcessType, ProcessInv, Counters, InHand

LEMMA NextIngest == IngestInv /\ [Next]_vars => IngestInv'
  BY NextType, NextConsistent, NextStamp DEF IngestInv

\* A step that ends on a quiet disk is one of these, and leaves the disk alone.
LEMMA QuietStep ==
    ASSUME IngestInv, [Next]_vars, Quiet'
    PROVE  /\ UNCHANGED <<disk, mtime, rootState>>
           /\ Discover \/ (Quiet /\ job'.id = job.id /\ job'.sig = job.sig)
           /\ \/ Discover \/ \E e \in work.faults : HandleDiscoveryError(e)
              \/ \E f \in File : StartFile(f) \/ GetFileStateFails(f)
              \/ FingerprintFails \/ Fingerprint
              \/ ExtractFails \/ ExtractBinaryPbl \/ Extract
              \/ ReplaceDocument \/ CountProcessed
              \/ MarkSeenMany \/ ReconcileDeleted \/ UNCHANGED vars
  <1> USE DEF Quiet, Handling
  <1>1. CASE Environment \/ Start
    BY <1>1 DEF Environment, WriteFile, RemoveFile, ChangeRoot, Changed, Start, BeginRun
  <1>2. CASE \/ ReplaceDocumentFails \/ FinishRun \/ Return \/ FinishInterrupted
             \/ RecordFatal \/ FinishFailed
             \/ KeyboardInterrupt \/ DatabaseFault \/ Crash
             \/ \E f \in File : FileStateFault(f)
    BY <1>2 DEF ReplaceDocumentFails, FinishRun, Return, FinishInterrupted, RecordFatal,
                FinishFailed, KeyboardInterrupt, DatabaseFault, FileStateFault, Crash, Exit
  <1>3. CASE Discover
    BY <1>3 DEF Discover, env
  <1>4. CASE \E e \in work.faults : HandleDiscoveryError(e)
    <2>1. PICK e \in work.faults : HandleDiscoveryError(e)
      BY <1>4
    <2>2. job'.id = job.id /\ job'.sig = job.sig
      BY <2>1 DEF HandleDiscoveryError, SkipTooLarge, RecordDiscoveryError, IngestInv,
                  TypeOK, ProcessType
    <2>3. UNCHANGED <<disk, mtime, rootState, dirty>> /\ phase = "items"
      BY <2>1 DEF HandleDiscoveryError, env
    <2> QED
      BY <1>4, <2>2, <2>3
  <1>5. CASE \E f \in File : StartFile(f) \/ GetFileStateFails(f)
    <2>1. PICK f \in File : StartFile(f) \/ GetFileStateFails(f)
      BY <1>5
    <2>2. UNCHANGED <<disk, mtime, rootState, dirty, job>> /\ phase = "items"
      BY <2>1 DEF StartFile, GetFileStateFails, IsNext, env
    <2> QED
      BY <1>5, <2>2
  <1>6. CASE FingerprintFails \/ Fingerprint \/ ExtractFails \/ ExtractBinaryPbl \/ Extract
    BY <1>6 DEF FingerprintFails, Fingerprint, ExtractFails, ExtractBinaryPbl, Extract,
                FailFile, env
  <1>7. CASE ReplaceDocument \/ CountProcessed \/ MarkSeenMany \/ ReconcileDeleted
    BY <1>7 DEF ReplaceDocument, CountProcessed, MarkSeenMany, ReconcileDeleted, env
  <1>8. CASE UNCHANGED vars
    BY <1>8 DEF vars
  <1> QED
    BY <1>1, <1>2, <1>3, <1>4, <1>5, <1>6, <1>7, <1>8 DEF Next, Program

------------------------------------------------------------------------------
(* The run in progress is the last one, and it alone marks rows. *)

LEMMA MarksStep ==
    ASSUME IngestInv, [Next]_vars
    PROVE  \A f \in File : files'[f].seen \in {files[f].seen, job.id}
  <1>1. CASE ReconcileDeleted
    BY <1>1, IngestTypes, ZenonT(30) DEF ReconcileDeleted, Tombstone, FileRow
  <1>2. CASE ~ReconcileDeleted
    BY <1>2, RowsStep DEF IngestInv
  <1> QED
    BY <1>1, <1>2

\* Runs are only added by start_run.
LEMMA RunsStep ==
    ASSUME IngestInv, [Next]_vars, ~Start
    PROVE  /\ Len(runs') = Len(runs)
           /\ phase' = "idle" \/ (phase # "idle" /\ job'.id = job.id)
           /\ phase' = "discover" => phase = "discover"
  <1>1. CASE FinishRun \/ FinishInterrupted \/ FinishFailed
    <2>1. \E status \in RunStatus : CloseRun(status)
      BY <1>1 DEF FinishRun, FinishInterrupted, FinishFailed, RunStatus
    <2>2. Len(runs') = Len(runs)
      BY <2>1, CloseRunType DEF IngestInv
    <2> QED
      BY <1>1, <2>2 DEF FinishRun, FinishInterrupted, FinishFailed, Exit
  <1>2. CASE Environment \/ UNCHANGED vars
    BY <1>2 DEF Environment, WriteFile, RemoveFile, ChangeRoot, database, process, vars
  <1>3. CASE Discover
    BY <1>3 DEF Discover, database, IngestInv, TypeOK, ProcessType
  <1>4. CASE \E e \in work.faults : HandleDiscoveryError(e)
    BY <1>4 DEF HandleDiscoveryError, SkipTooLarge, RecordDiscoveryError, IngestInv,
                TypeOK, ProcessType
  <1>5. CASE \E f \in File : StartFile(f) \/ GetFileStateFails(f) \/ FileStateFault(f)
    BY <1>5 DEF StartFile, GetFileStateFails, FileStateFault, IsNext, database
  <1>6. CASE FingerprintFails \/ Fingerprint \/ ExtractFails \/ ExtractBinaryPbl \/ Extract
    BY <1>6 DEF FingerprintFails, Fingerprint, ExtractFails, ExtractBinaryPbl, Extract,
                FailFile, database
  <1>7. CASE \/ ReplaceDocument \/ ReplaceDocumentFails \/ CountProcessed \/ MarkSeenMany
             \/ ReconcileDeleted \/ RecordFatal \/ KeyboardInterrupt \/ DatabaseFault
    BY <1>7 DEF ReplaceDocument, ReplaceDocumentFails, CountProcessed, MarkSeenMany,
                ReconcileDeleted, RecordFatal, KeyboardInterrupt, DatabaseFault, InTry,
                database
  <1>8. CASE Return \/ Crash
    BY <1>8 DEF Return, Crash, Exit, database
  <1> QED
    BY <1>1, <1>2, <1>3, <1>4, <1>5, <1>6, <1>7, <1>8 DEF Next, Program

LEMMA NextRun ==
    ASSUME IngestInv, RunInv, [Next]_vars
    PROVE  RunInv'
  <1>1. /\ runs \in Seq(RunRow) /\ Len(runs) \in Nat
        /\ \A f \in File : files[f].seen \in Nat
    BY IngestTypes DEF FileRow, IngestInv, TypeOK, DatabaseType
  <1>2. CASE Start
    <2>1. /\ Len(runs') = Len(runs) + 1 /\ job'.id = Len(runs) + 1 /\ files' = files
      BY <1>1, <1>2 DEF Start, BeginRun
    <2> QED
      BY <1>1, <2>1 DEF RunInv
  <1>3. CASE ~Start
    <2>1. /\ Len(runs') = Len(runs)
          /\ phase' = "idle" \/ (phase # "idle" /\ job'.id = job.id)
          /\ phase' = "discover" => phase = "discover"
      BY <1>3, RunsStep
    <2>2. \A f \in File : files'[f].seen <= Len(runs')
      <3>1. job.id \in Nat /\ job.id <= Len(runs)
        BY <1>1 DEF IngestInv, TypeOK, ProcessType
      <3> QED
        BY <1>1, <2>1, <3>1, MarksStep DEF RunInv
    <2>3. phase' = "discover" => files' = files
      BY <1>3, <2>1
         DEF Next, Environment, WriteFile, RemoveFile, ChangeRoot, database, Program,
             Discover, HandleDiscoveryError, StartFile, IsNext, GetFileStateFails,
             FingerprintFails, Fingerprint, ExtractFails, ExtractBinaryPbl, Extract,
             FailFile, ReplaceDocument, ReplaceDocumentFails, CountProcessed,
             MarkSeenMany, ReconcileDeleted, FinishRun, Return, FinishInterrupted,
             RecordFatal, FinishFailed, KeyboardInterrupt, DatabaseFault,
             FileStateFault, Crash, Exit, vars
    <2> QED
      BY <1>1, <2>1, <2>2, <2>3 DEF RunInv
  <1> QED
    BY <1>2, <1>3

------------------------------------------------------------------------------
(* FreshInv. *)

\* Steps that publish nothing and move no further than the file in hand.
LEMMA FreshKept ==
    ASSUME IngestInv, FreshInv, Quiet, UNCHANGED <<disk, mtime, rootState>>,
           job'.id = job.id, work'.stat = work.stat,
           work'.todo \in SUBSET work.todo, work'.seen \in SUBSET work.seen,
           InHand' => InHand /\ item'.file = item.file,
           phase' \in {"parse", "persist"} =>
               phase \in {"parse", "persist"} /\ item'.sha = item.sha,
           phase' # "close",
           \A f \in File : files'[f] = files[f] \/ files'[f].status # "processed"
    PROVE  FreshInv'
  <1>1. \A f \in File : TooLarge(f)' = TooLarge(f)
    BY DEF TooLarge, KindAt, Bytes
  <1>2. \A f \in File : (files'[f].status = "processed" /\ Seen(f)') =>
           files'[f] = files[f] /\ Seen(f)
    BY IngestTypes DEF Seen
  <1>3. \A f \in work'.todo \cup work'.seen : f \in work.todo \cup work.seen
    OBVIOUS
  <1>4. \A f \in File : work'.stat[f] # 0 =>
           /\ rootState'[f[1]] = "ok" /\ disk'[f] # NoContent
           /\ ~TooLarge(f)' /\ work'.stat[f] = mtime'[f]
    BY <1>1 DEF FreshInv
  <1>5. \A f \in work'.todo \cup work'.seen : work'.stat[f] # 0
    BY <1>3 DEF FreshInv
  <1>6. InHand' => work'.stat[item'.file] # 0
    BY DEF FreshInv
  <1>7. phase' \in {"parse", "persist"} => item'.sha = disk'[item'.file]
    BY DEF FreshInv, InHand
  <1>8. \A f \in File : (files'[f].status = "processed" /\ Seen(f)') =>
           work'.stat[f] # 0 /\ files'[f].sha = disk'[f]
    BY <1>2 DEF FreshInv
  <1> QED
    BY <1>4, <1>5, <1>6, <1>7, <1>8 DEF FreshInv

LEMMA FreshDiscover ==
    ASSUME IngestInv, RunInv, Discover
    PROVE  FreshInv'
  <1>1. /\ UNCHANGED <<disk, mtime, rootState, files>> /\ job'.id = job.id
        /\ phase' = "items" /\ work'.seen = {}
        /\ \A f \in File : work'.stat[f] # 0 =>
              /\ work'.stat[f] = mtime[f] /\ f[1] \in Walked
              /\ disk[f] # NoContent /\ ~TooLarge(f)
        /\ \A f \in work'.todo : work'.stat[f] # 0
    <2>1. PICK lost \in SUBSET Found :
            work' = [faults |-> DiscoveryFaults(lost), todo |-> Listed(lost),
                     stat |-> [f \in File |-> IF f \in Listed(lost) THEN mtime[f] ELSE 0],
                     seen |-> {}]
      BY DEF Discover
    <2>2. \A f \in Listed(lost) : /\ f \in File /\ f[1] \in Walked
                                  /\ disk[f] # NoContent /\ ~TooLarge(f)
      BY DEF Listed, Found, Oversized
    <2>3. \A f \in File : mtime[f] # 0
      BY DEF IngestInv, TypeOK, EnvType, Stamp
    <2>4. UNCHANGED <<disk, mtime, rootState, files>> /\ phase' = "items"
      BY DEF Discover, env, database
    <2>5. job'.id = job.id
      BY DEF Discover, IngestInv, TypeOK, ProcessType
    <2> QED
      BY <2>1, <2>2, <2>3, <2>4, <2>5
  <1>2. \A f \in File : files[f].seen # job.id
    BY IngestTypes DEF Discover, RunInv, FileRow
  <1> QED
    BY <1>1, <1>2 DEF FreshInv, Seen, InHand, Walked, TooLarge, KindAt, Bytes

LEMMA FreshStartFile ==
    ASSUME IngestInv, FreshInv, Quiet, UNCHANGED <<disk, mtime, rootState>>,
           NEW f \in File, StartFile(f)
    PROVE  FreshInv'
  <1>1. f \in work.todo /\ phase = "items" /\ UNCHANGED <<files, job>>
    BY DEF StartFile, IsNext, database
  <1>2. work.stat[f] # 0 /\ disk[f] # NoContent /\ work.stat[f] = mtime[f]
    BY <1>1 DEF FreshInv
  <1>3. CASE Decision(f) = "unchanged"
    <2>1. work' = [work EXCEPT !.todo = @ \ {f}, !.seen = @ \cup {f}] /\ phase' = phase
      BY <1>3, Zenon DEF StartFile
    <2>2. /\ work'.stat = work.stat /\ work'.seen = work.seen \cup {f}
          /\ work'.todo = work.todo \ {f}
      BY <2>1, IngestTypes
    <2>3. files[f].status = "processed" => files[f].sha = disk[f]
      BY <1>2, <1>3 DEF Decision, MustProcess, IngestInv, StampInv, FastPathSound
    <2> QED
      BY <1>1, <1>2, <2>1, <2>2, <2>3
         DEF FreshInv, Seen, InHand, TooLarge, KindAt, Bytes
  <1>4. CASE Decision(f) # "unchanged"
    <2>1. /\ work' = [work EXCEPT !.todo = @ \ {f}] /\ phase' = "hash"
          /\ item' = [NoItem EXCEPT !.file = f, !.action = Decision(f)]
      BY <1>4, Zenon DEF StartFile
    <2>2. /\ work'.stat = work.stat /\ work'.seen = work.seen
          /\ work'.todo = work.todo \ {f} /\ item'.file = f
      BY <2>1, IngestTypes DEF NoItem
    <2> QED
      BY <1>1, <1>2, <2>1, <2>2 DEF FreshInv, Seen, InHand, TooLarge, KindAt, Bytes
  <1> QED
    BY <1>3, <1>4

LEMMA FreshFingerprint ==
    ASSUME IngestInv, FreshInv, Quiet, UNCHANGED <<disk, mtime, rootState>>, Fingerprint
    PROVE  FreshInv'
  <1>1. /\ UNCHANGED <<files, job>> /\ phase = "hash" /\ item.file \in File
        /\ work.stat[item.file] # 0
    BY IngestTypes DEF Fingerprint, database, InHand, FreshInv
  <1>2. Bytes(item.file) = disk[item.file]
    BY DEF Fingerprint, Bytes
  <1>3. CASE SameHash
    <2>1. work' = [work EXCEPT !.seen = @ \cup {item.file}] /\ phase' = "items"
      BY <1>3 DEF Fingerprint
    <2>2. /\ work'.stat = work.stat /\ work'.todo = work.todo
          /\ work'.seen = work.seen \cup {item.file}
      BY <2>1, IngestTypes
    <2>3. files[item.file].sha = disk[item.file]
      BY <1>2, <1>3 DEF SameHash
    <2> QED
      BY <1>1, <2>1, <2>2, <2>3 DEF FreshInv, Seen, InHand, TooLarge, KindAt, Bytes
  <1>4. CASE ~SameHash
    <2>1. /\ work' = work /\ item'.sha = disk[item.file] /\ item'.file = item.file
          /\ phase' = "parse"
      BY <1>2, <1>4 DEF Fingerprint, IngestInv, TypeOK, ProcessType
    <2> QED
      BY <1>1, <2>1 DEF FreshInv, Seen, InHand, TooLarge, KindAt, Bytes
  <1> QED
    BY <1>3, <1>4

LEMMA FreshReplace ==
    ASSUME IngestInv, FreshInv, Quiet, UNCHANGED <<disk, mtime, rootState>>, ReplaceDocument
    PROVE  FreshInv'
  <1>1. UNCHANGED <<job, work>> /\ phase = "persist" /\ phase' = "count"
    BY DEF ReplaceDocument
  <1>2. item.file \in File /\ work.stat[item.file] # 0 /\ item.sha = disk[item.file]
    BY <1>1, IngestTypes DEF FreshInv, InHand
  <1>3. /\ files'[item.file].sha = item.sha
        /\ \A f \in File \ {item.file} : files'[f] = files[f]
    BY <1>2, IngestTypes DEF ReplaceDocument, Row
  <1> QED
    BY <1>1, <1>2, <1>3 DEF FreshInv, Seen, InHand, TooLarge, KindAt, Bytes

LEMMA FreshMarkSeen ==
    ASSUME IngestInv, FreshInv, Quiet, UNCHANGED <<disk, mtime, rootState>>, MarkSeenMany
    PROVE  FreshInv'
  <1>1. UNCHANGED <<job, work>> /\ phase' = "reconcile"
    BY DEF MarkSeenMany
  <1>2. ASSUME NEW f \in File
        PROVE  /\ files'[f].status = files[f].status /\ files'[f].sha = files[f].sha
               /\ files'[f].seen = files[f].seen \/ f \in work.seen
    BY IngestTypes DEF MarkSeenMany, SeenRow, FileRow
  <1> QED
    BY <1>1, <1>2 DEF FreshInv, Seen, InHand, TooLarge, KindAt, Bytes

LEMMA FreshReconcile ==
    ASSUME IngestInv, FreshInv, Quiet, UNCHANGED <<disk, mtime, rootState>>,
           ReconcileDeleted
    PROVE  FreshInv'
  <1>1. UNCHANGED <<job, work>> /\ phase' = "close"
    BY DEF ReconcileDeleted
  <1>2. ASSUME NEW f \in File
        PROVE  IF f \in Missing THEN files'[f].status = "deleted" ELSE files'[f] = files[f]
    BY IngestTypes DEF ReconcileDeleted, Tombstone, FileRow
  <1> QED
    BY <1>1, <1>2 DEF FreshInv, Seen, InHand, TooLarge, KindAt, Bytes, Missing

LEMMA FreshHandleError ==
    ASSUME IngestInv, FreshInv, Quiet, UNCHANGED <<disk, mtime, rootState>>,
           job'.id = job.id, NEW e \in work.faults, HandleDiscoveryError(e)
    PROVE  FreshInv'
  <1>1. /\ phase = "items" /\ phase' = "items" /\ work'.stat = work.stat
        /\ work'.todo = work.todo /\ work'.seen = work.seen
    BY IngestTypes DEF HandleDiscoveryError
  <1>2. \A f \in File : files'[f] = files[f] \/ files'[f].status = "skipped"
    <2>1. CASE SkipTooLarge(e)
      BY <2>1, SkippedRows DEF SkipTooLarge, IngestInv
    <2>2. CASE RecordDiscoveryError(e)
      BY <2>2 DEF RecordDiscoveryError
    <2> QED
      BY <2>1, <2>2 DEF HandleDiscoveryError
  <1> QED
    BY <1>1, <1>2, FreshKept DEF InHand

\* Files that fail: the row is no longer processed.
LEMMA FreshFail ==
    ASSUME IngestInv, FreshInv, Quiet, UNCHANGED <<disk, mtime, rootState>>,
           \/ \E f \in File : GetFileStateFails(f)
           \/ FingerprintFails \/ ExtractFails
    PROVE  FreshInv'
  <1>1. PICK f \in File : files' = [files EXCEPT ![f] = ErrorRow(f)]
    BY IngestTypes DEF GetFileStateFails, FingerprintFails, ExtractFails, FailFile, InHand
  <1>2. \A g \in File : files'[g] = files[g] \/ files'[g].status # "processed"
    BY <1>1, IngestTypes, ErrorRowStatus DEF IngestInv
  <1>3. /\ phase' = "items" /\ job' = job /\ work'.stat = work.stat
        /\ work'.todo \in SUBSET work.todo /\ work'.seen = work.seen
    BY IngestTypes DEF GetFileStateFails, IsNext, FingerprintFails, ExtractFails, FailFile
  <1> QED
    BY <1>2, <1>3, FreshKept DEF InHand

LEMMA NextFresh ==
    ASSUME IngestInv, RunInv, FreshInv, [Next]_vars
    PROVE  FreshInv'
  <1> SUFFICES ASSUME Quiet' PROVE FreshInv'
    BY DEF FreshInv
  <1>1. CASE Discover
    BY <1>1, FreshDiscover
  <1>2. CASE ~Discover
    <2>1. Quiet /\ UNCHANGED <<disk, mtime, rootState>> /\ job'.id = job.id
      BY <1>2, QuietStep
    <2>2. CASE \E e \in work.faults : HandleDiscoveryError(e)
      BY <2>1, <2>2, FreshHandleError
    <2>3. CASE \E f \in File : StartFile(f)
      BY <2>1, <2>3, FreshStartFile
    <2>4. CASE \/ \E f \in File : GetFileStateFails(f)
               \/ FingerprintFails \/ ExtractFails
      BY <2>1, <2>4, FreshFail
    <2>5. CASE Fingerprint
      BY <2>1, <2>5, FreshFingerprint
    <2>6. CASE ExtractBinaryPbl
      <3>1. \A f \in File : files'[f] = files[f] \/ files'[f].status = "skipped"
        BY <2>6, SkippedRows DEF ExtractBinaryPbl, IngestInv
      <3> QED
        BY <2>1, <2>6, <3>1, FreshKept DEF ExtractBinaryPbl, InHand
    <2>7. CASE Extract
      <3>1. item'.file = item.file /\ item'.sha = item.sha
        BY <2>7 DEF Extract, IngestInv, TypeOK, ProcessType
      <3> QED
        BY <2>1, <2>7, <3>1, FreshKept DEF Extract, InHand, database
    <2>8. CASE ReplaceDocument
      BY <2>1, <2>8, FreshReplace
    <2>9. CASE CountProcessed
      BY <2>1, <2>9, FreshKept DEF CountProcessed, InHand, database
    <2>10. CASE MarkSeenMany
      BY <2>1, <2>10, FreshMarkSeen
    <2>11. CASE ReconcileDeleted
      BY <2>1, <2>11, FreshReconcile
    <2>12. CASE UNCHANGED vars
      BY <2>12 DEF vars, FreshInv, Quiet, InHand, Seen, TooLarge, KindAt, Bytes
    <2> QED
      BY <1>2, <2>2, <2>3, <2>4, <2>5, <2>6, <2>7, <2>8, <2>9, <2>10, <2>11, <2>12,
         QuietStep
  <1> QED
    BY <1>1, <1>2

LEMMA InitFresh == Init => IngestInv /\ RunInv /\ FreshInv
  <1>1. Init => CatalogConsistent
    BY DEF Init, CatalogConsistent, NoRow, NoDoc
  <1>2. Init => StampInv
    <2>1. ASSUME Init PROVE \A f \in File : mtime[f] = 1 /\ work.stat[f] = 0
      BY <2>1 DEF Init, NoWork
    <2> QED
      BY <2>1 DEF Init, StampInv, FastPathSound, NoRow, NoWork
  <1>3. Init => RunInv /\ FreshInv
    BY DEF Init, RunInv, FreshInv, Quiet, Handling, NoRow
  <1> QED
    BY <1>1, <1>2, <1>3, InitType DEF IngestInv

\* NoStaleKnowledge: whatever failed during a run, and whatever earlier runs left,
\* once it has reconciled, on a disk that held still, what it publishes under the
\* roots it holds for complete has the bytes that are there.
THEOREM NothingStale == Spec => []NoStaleKnowledge
  <1>1. Init => IngestInv /\ RunInv /\ FreshInv
    BY InitFresh
  <1>2. IngestInv /\ RunInv /\ FreshInv /\ [Next]_vars => (IngestInv /\ RunInv /\ FreshInv)'
    BY NextIngest, NextRun, NextFresh
  <1>3. IngestInv /\ FreshInv => NoStaleKnowledge
    <2> SUFFICES ASSUME IngestInv, FreshInv, phase = "close", ~dirty, NEW f \in File,
                        f[1] \in job.completed, Vigente(f)
                 PROVE  docs[f].sha = Bytes(f)
      BY DEF NoStaleKnowledge
    <2>1. files[f].status = "processed" /\ files[f].seen = job.id
      BY DEF Vigente, FreshInv, Quiet, Handling
    <2>2. files[f].sha = disk[f] /\ rootState[f[1]] = "ok"
      BY <2>1 DEF FreshInv, Quiet, Handling, Seen
    <2> QED
      BY <2>2 DEF Vigente, Bytes
  <1> QED
    BY <1>1, <1>2, <1>3, PTL DEF Spec

------------------------------------------------------------------------------
(* OrderInv. *)

LEMMA OrderStartFile ==
    ASSUME IngestInv, OrderInv, NEW f \in File, StartFile(f)
    PROVE  OrderInv'
  <1>1. /\ phase = "items" /\ work.faults = {} /\ UNCHANGED <<files, job>>
        /\ work'.faults = work.faults
    BY IngestTypes DEF StartFile, IsNext, database
  <1>2. CASE phase' = phase
    BY <1>1, <1>2 DEF OrderInv
  <1>3. CASE /\ phase' = "hash" /\ Decision(f) # "unchanged"
             /\ item' = [NoItem EXCEPT !.file = f, !.action = Decision(f)]
    <2>1. item'.file = f /\ item'.action = Decision(f)
      BY <1>3 DEF NoItem
    <2> QED
      BY <1>1, <1>3, <2>1 DEF OrderInv, Decision, MustProcess
  <1> QED
    BY <1>2, <1>3, Zenon DEF StartFile

LEMMA NextOrder ==
    ASSUME IngestInv, OrderInv, [Next]_vars
    PROVE  OrderInv'
  <1> USE DEF Handling
  <1>1. CASE Environment \/ UNCHANGED vars
    BY <1>1 DEF Environment, WriteFile, RemoveFile, ChangeRoot, database, process, vars,
                OrderInv, MustProcess
  <1>2. CASE \E f \in File : StartFile(f)
    BY <1>2, OrderStartFile
  <1>3. CASE \/ Start \/ Discover \/ \E e \in work.faults : HandleDiscoveryError(e)
             \/ \E f \in File : GetFileStateFails(f)
    BY <1>3 DEF Start, BeginRun, Discover, HandleDiscoveryError, GetFileStateFails,
                IsNext, OrderInv
  <1>4. CASE FingerprintFails \/ ExtractFails \/ ExtractBinaryPbl \/ CountProcessed
    BY <1>4 DEF FingerprintFails, ExtractFails, FailFile, ExtractBinaryPbl,
                CountProcessed, OrderInv
  <1>5. CASE Fingerprint
    BY <1>5, IngestTypes DEF Fingerprint, OrderInv
  <1>6. CASE Extract \/ ReplaceDocument \/ MarkSeenMany \/ ReconcileDeleted
    BY <1>6 DEF Extract, ReplaceDocument, MarkSeenMany, ReconcileDeleted, OrderInv
  <1>7. CASE \/ ReplaceDocumentFails \/ FinishRun \/ Return \/ FinishInterrupted
             \/ RecordFatal \/ FinishFailed
             \/ KeyboardInterrupt \/ DatabaseFault \/ Crash
             \/ \E f \in File : FileStateFault(f)
    BY <1>7 DEF ReplaceDocumentFails, FinishRun, Return, FinishInterrupted, RecordFatal,
                FinishFailed, KeyboardInterrupt, DatabaseFault, FileStateFault, Crash, Exit,
                OrderInv
  <1> QED
    BY <1>1, <1>2, <1>3, <1>4, <1>5, <1>6, <1>7 DEF Next, Program

------------------------------------------------------------------------------
(* MirrorInv. *)

\* After an error the run promises no mirror.
LEMMA MirrorFail ==
    ASSUME IngestInv,
           \/ \E e \in work.faults : RecordDiscoveryError(e)
           \/ \E f \in File : GetFileStateFails(f)
           \/ FingerprintFails \/ ExtractFails
    PROVE  MirrorInv'
  <1>1. m'.errors = m.errors + 1 /\ m.errors \in Nat
    BY IngestTypes DEF RecordDiscoveryError, GetFileStateFails, FingerprintFails,
                       ExtractFails, FailFile, Count, Counters
  <1> QED
    BY <1>1 DEF MirrorInv

\* Nothing but discovery and the handling of its errors changes what is covered.
LEMMA CoveredKept ==
    ASSUME Covered, UNCHANGED <<disk, rootState, job>>, work'.stat = work.stat,
           work'.faults = work.faults
    PROVE  Covered'
  BY DEF Covered, KindAt, Bytes, RootFault, FileFault

LEMMA MirrorDiscover ==
    ASSUME IngestInv, RunInv, Discover
    PROVE  MirrorInv'
  <1>1. PICK lost \in SUBSET Found :
            /\ work' = [faults |-> DiscoveryFaults(lost), todo |-> Listed(lost),
                        stat |-> [f \in File |-> IF f \in Listed(lost) THEN mtime[f] ELSE 0],
                        seen |-> {}]
            /\ job' = [job EXCEPT !.walked = {r \in Walked : \A f \in lost : f[1] # r}]
    BY DEF Discover
  <1>2. /\ UNCHANGED <<disk, mtime, rootState, files>> /\ phase' = "items"
        /\ job'.id = job.id /\ job'.completed = job.completed
    BY <1>1 DEF Discover, env, database, IngestInv, TypeOK, ProcessType
  <1>3. \A f \in File : work'.stat[f] # 0 <=> f \in Listed(lost)
    BY <1>1 DEF IngestInv, TypeOK, EnvType, Stamp
  <1>4. ASSUME NEW f \in File, f[1] \in job.completed, f \notin Listed(lost),
               KindAt(f) \notin {"absent", "large"}
        PROVE  \/ RootFault(f[1]) \in work'.faults
               \/ FileFault("FILE_STAT_FAILED", f) \in work'.faults
    <2>1. CASE f[1] \notin Walked
      BY <2>1, <1>1, <1>4 DEF DiscoveryFaults
    <2>2. CASE f[1] \in Walked
      <3>1. f \in Found /\ ~TooLarge(f)
        BY <2>2, <1>4 DEF Found, Walked, KindAt, Bytes, TooLarge
      <3>2. f \in lost
        BY <3>1, <1>4 DEF Listed, Oversized
      <3> QED
        BY <3>2, <1>1 DEF DiscoveryFaults
    <2> QED
      BY <2>1, <2>2
  <1>5. Covered'
    BY <1>2, <1>3, <1>4 DEF Covered, KindAt, Bytes, RootFault, FileFault
  <1>6. \A f \in File : files'[f].seen # job'.id
    BY <1>2, IngestTypes DEF Discover, RunInv, FileRow
  <1>7. AllRecorded' /\ \A f \in File : work'.stat[f] # 0 => f \in work'.todo
    BY <1>1, <1>3 DEF AllRecorded
  <1> QED
    BY <1>1, <1>5, <1>6, <1>7 DEF MirrorInv, NoErrorSeen, Seen

LEMMA MirrorSkipTooLarge ==
    ASSUME IngestInv, FreshInv, MirrorInv, Quiet, UNCHANGED <<disk, mtime, rootState>>,
           NEW e \in work.faults, HandleDiscoveryError(e), SkipTooLarge(e)
    PROVE  MirrorInv'
  <1>1. /\ phase = "items" /\ phase' = "items" /\ work'.stat = work.stat
        /\ work'.todo = work.todo /\ work'.faults = work.faults \ {e}
        /\ work'.seen = work.seen /\ UNCHANGED job /\ m'.errors = m.errors
    BY IngestTypes DEF HandleDiscoveryError, SkipTooLarge, Count, Counters
  <1> SUFFICES ASSUME m.errors = 0
               PROVE  AllRecorded' /\ Covered' /\ NoErrorSeen'
                      /\ \A f \in File : work'.stat[f] # 0 => f \in work'.todo
    BY <1>1 DEF MirrorInv
  <1>2. AllRecorded /\ Covered /\ NoErrorSeen
        /\ \A f \in File : work.stat[f] # 0 => f \in work.todo
    BY DEF MirrorInv
  <1>3. \A f \in File : files'[f] = files[f] \/ files'[f].status = "skipped"
    BY SkippedRows DEF SkipTooLarge, IngestInv
  <1>4. Covered'
    <2>1. e.code = "FILE_TOO_LARGE"
      BY DEF SkipTooLarge
    <2>2. \A f \in File : RootFault(f[1]) # e /\ FileFault("FILE_STAT_FAILED", f) # e
      BY <2>1 DEF RootFault, FileFault
    <2> QED
      BY <1>1, <1>2, <2>2 DEF Covered, KindAt, Bytes, RootFault, FileFault
  <1> QED
    BY <1>1, <1>2, <1>3, <1>4 DEF AllRecorded, NoErrorSeen, Seen

\* Once the errors of discovery are handled, a mirror is kept by keeping what is
\* recorded and adding no row in error.
LEMMA MirrorKept ==
    ASSUME MirrorInv, Quiet, UNCHANGED <<disk, rootState, job>>, work'.stat = work.stat,
           work.faults = {}, work'.faults = {}, m'.errors = m.errors,
           (AllRecorded /\ NoErrorSeen) => (AllRecorded' /\ NoErrorSeen')
    PROVE  MirrorInv'
  BY CoveredKept DEF MirrorInv

LEMMA MirrorStartFile ==
    ASSUME IngestInv, MirrorInv, Quiet, UNCHANGED <<disk, mtime, rootState>>,
           NEW f \in File, StartFile(f)
    PROVE  MirrorInv'
  <1>1. /\ f \in work.todo /\ phase = "items" /\ work.faults = {}
        /\ UNCHANGED <<files, job>>
    BY DEF StartFile, IsNext, database
  <1>2. \A g \in File : KindAt(g)' = KindAt(g)
    BY DEF KindAt, Bytes
  <1>3. m'.errors = m.errors
    BY IngestTypes DEF StartFile, Counters
  <1>4. CASE Decision(f) = "unchanged"
    <2>1. work' = [work EXCEPT !.todo = @ \ {f}, !.seen = @ \cup {f}] /\ phase' = phase
      BY <1>4, Zenon DEF StartFile
    <2>2. /\ work'.stat = work.stat /\ work'.seen = work.seen \cup {f}
          /\ work'.todo = work.todo \ {f} /\ work'.faults = work.faults
      BY <2>1, IngestTypes
    <2>3. files[f].status = "processed" /\ files[f].sig = job.sig
      BY <1>4 DEF Decision, MustProcess
    <2>4. AllRecorded => AllRecorded'
      BY <1>1, <1>2, <2>1, <2>2, <2>3 DEF AllRecorded, Recorded, Seen, InHand
    <2>5. NoErrorSeen => NoErrorSeen'
      BY <1>1, <2>2, <2>3 DEF NoErrorSeen, Seen
    <2> QED
      BY <1>1, <1>3, <2>2, <2>4, <2>5, MirrorKept
  <1>5. CASE Decision(f) # "unchanged"
    <2>1. /\ work' = [work EXCEPT !.todo = @ \ {f}] /\ phase' = "hash"
          /\ item' = [NoItem EXCEPT !.file = f, !.action = Decision(f)]
      BY <1>5, Zenon DEF StartFile
    <2>2. /\ work'.stat = work.stat /\ work'.seen = work.seen /\ item'.file = f
          /\ work'.todo = work.todo \ {f} /\ work'.faults = work.faults
      BY <2>1, IngestTypes DEF NoItem
    <2>3. AllRecorded => AllRecorded'
      BY <1>1, <1>2, <2>1, <2>2 DEF AllRecorded, Recorded, Seen, InHand
    <2>4. NoErrorSeen => NoErrorSeen'
      BY <1>1, <2>2 DEF NoErrorSeen, Seen
    <2> QED
      BY <1>1, <1>3, <2>2, <2>3, <2>4, MirrorKept
  <1> QED
    BY <1>4, <1>5

LEMMA MirrorFingerprint ==
    ASSUME IngestInv, OrderInv, MirrorInv, Quiet, UNCHANGED <<disk, mtime, rootState>>,
           Fingerprint
    PROVE  MirrorInv'
  <1>1. /\ UNCHANGED <<files, job>> /\ phase = "hash" /\ item.file \in File
        /\ work.faults = {}
    BY IngestTypes DEF Fingerprint, database, InHand, OrderInv, Handling
  <1>2. \A g \in File : KindAt(g)' = KindAt(g)
    BY DEF KindAt, Bytes
  <1>3. CASE SameHash
    <2>1. /\ work' = [work EXCEPT !.seen = @ \cup {item.file}] /\ phase' = "items"
          /\ m'.errors = m.errors
      BY <1>3, IngestTypes DEF Fingerprint, Count, Counters
    <2>2. /\ work'.stat = work.stat /\ work'.seen = work.seen \cup {item.file}
          /\ work'.todo = work.todo /\ work'.faults = work.faults
      BY <2>1, IngestTypes
    <2>3. files[item.file].status = "processed" /\ files[item.file].sig = job.sig
      BY <1>1, <1>3 DEF SameHash, OrderInv, MustProcess
    <2>4. AllRecorded => AllRecorded'
      BY <1>1, <1>2, <2>1, <2>2, <2>3 DEF AllRecorded, Recorded, Seen, InHand
    <2>5. NoErrorSeen => NoErrorSeen'
      BY <1>1, <2>2, <2>3 DEF NoErrorSeen, Seen
    <2> QED
      BY <1>1, <2>1, <2>2, <2>4, <2>5, MirrorKept
  <1>4. CASE ~SameHash
    <2>1. /\ UNCHANGED <<work, m>> /\ item'.file = item.file /\ phase' = "parse"
      BY <1>4 DEF Fingerprint, IngestInv, TypeOK, ProcessType
    <2>2. AllRecorded => AllRecorded'
      BY <1>1, <1>2, <2>1 DEF AllRecorded, Recorded, Seen, InHand
    <2>3. NoErrorSeen => NoErrorSeen'
      BY <1>1, <2>1 DEF NoErrorSeen, Seen
    <2> QED
      BY <1>1, <2>1, <2>2, <2>3, MirrorKept
  <1> QED
    BY <1>3, <1>4

LEMMA MirrorBinaryPbl ==
    ASSUME IngestInv, OrderInv, MirrorInv, Quiet, UNCHANGED <<disk, mtime, rootState>>,
           ExtractBinaryPbl
    PROVE  MirrorInv'
  <1>1. /\ UNCHANGED <<job, work>> /\ phase = "parse" /\ phase' = "items"
        /\ work.faults = {} /\ KindAt(item.file) = "pbl" /\ m'.errors = m.errors
    BY IngestTypes DEF ExtractBinaryPbl, Count, Counters, OrderInv, Handling
  <1>2. \A g \in File : KindAt(g)' = KindAt(g)
    BY DEF KindAt, Bytes
  <1>3. /\ \A f \in File \ {item.file} : files'[f] = files[f]
        /\ \A f \in File : files'[f] = files[f] \/ files'[f].status = "skipped"
    BY SkippedRows, IngestTypes DEF ExtractBinaryPbl, RecordSkipped, IngestInv
  <1>4. AllRecorded => AllRecorded'
    BY <1>1, <1>2, <1>3 DEF AllRecorded, Recorded, Seen, InHand
  <1>5. NoErrorSeen => NoErrorSeen'
    BY <1>1, <1>3 DEF NoErrorSeen, Seen
  <1> QED
    BY <1>1, <1>4, <1>5, MirrorKept

\* Extraction and the final count change no row.
LEMMA MirrorExtract ==
    ASSUME IngestInv, OrderInv, MirrorInv, Quiet, UNCHANGED <<disk, mtime, rootState>>,
           Extract
    PROVE  MirrorInv'
  <1>1. /\ UNCHANGED <<job, work, files, m>> /\ phase = "parse" /\ phase' = "persist"
        /\ work.faults = {} /\ item'.file = item.file
    BY DEF Extract, database, OrderInv, Handling, IngestInv, TypeOK, ProcessType
  <1>2. \A g \in File : KindAt(g)' = KindAt(g)
    BY DEF KindAt, Bytes
  <1>3. AllRecorded => AllRecorded'
    BY <1>1, <1>2 DEF AllRecorded, Recorded, Seen, InHand
  <1>4. NoErrorSeen => NoErrorSeen'
    BY <1>1 DEF NoErrorSeen, Seen
  <1> QED
    BY <1>1, <1>3, <1>4, MirrorKept

LEMMA MirrorReplace ==
    ASSUME IngestInv, OrderInv, MirrorInv, Quiet, UNCHANGED <<disk, mtime, rootState>>,
           ReplaceDocument
    PROVE  MirrorInv'
  <1>1. /\ UNCHANGED <<job, work, m>> /\ phase = "persist" /\ phase' = "count"
        /\ work.faults = {} /\ item.file \in File
    BY IngestTypes DEF ReplaceDocument, InHand, OrderInv, Handling
  <1>2. \A g \in File : KindAt(g)' = KindAt(g)
    BY DEF KindAt, Bytes
  <1>3. /\ files'[item.file].status = "processed" /\ files'[item.file].sig = job.sig
        /\ files'[item.file].seen = job.id
        /\ \A f \in File \ {item.file} : files'[f] = files[f]
    BY <1>1, IngestTypes DEF ReplaceDocument, Row
  <1>4. AllRecorded => AllRecorded'
    BY <1>1, <1>2, <1>3 DEF AllRecorded, Recorded, Seen, InHand
  <1>5. NoErrorSeen => NoErrorSeen'
    BY <1>1, <1>3 DEF NoErrorSeen, Seen
  <1> QED
    BY <1>1, <1>4, <1>5, MirrorKept

LEMMA MirrorCount ==
    ASSUME IngestInv, OrderInv, MirrorInv, Quiet, UNCHANGED <<disk, mtime, rootState>>,
           CountProcessed
    PROVE  MirrorInv'
  <1>1. /\ UNCHANGED <<job, work, files>> /\ phase = "count" /\ phase' = "items"
        /\ work.faults = {} /\ m'.errors = m.errors
    BY IngestTypes DEF CountProcessed, Count, Counters, database, OrderInv, Handling
  <1>2. \A g \in File : KindAt(g)' = KindAt(g)
    BY DEF KindAt, Bytes
  <1>3. AllRecorded => AllRecorded'
    BY <1>1, <1>2 DEF AllRecorded, Recorded, Seen, InHand
  <1>4. NoErrorSeen => NoErrorSeen'
    BY <1>1 DEF NoErrorSeen, Seen
  <1> QED
    BY <1>1, <1>3, <1>4, MirrorKept

LEMMA MirrorMarkSeen ==
    ASSUME IngestInv, MirrorInv, Quiet, UNCHANGED <<disk, mtime, rootState>>, MarkSeenMany
    PROVE  MirrorInv'
  <1>1. /\ UNCHANGED <<job, work, m>> /\ phase = "items" /\ phase' = "reconcile"
        /\ work.faults = {} /\ work.todo = {}
    BY DEF MarkSeenMany
  <1>2. \A g \in File : KindAt(g)' = KindAt(g)
    BY DEF KindAt, Bytes
  <1>3. ASSUME NEW f \in File
        PROVE  /\ files'[f].status = files[f].status /\ files'[f].sig = files[f].sig
               /\ files'[f].seen = IF f \in work.seen /\ files[f].status # "none"
                                   THEN job.id ELSE files[f].seen
    BY IngestTypes, ZenonT(30) DEF MarkSeenMany, SeenRow, FileRow
  <1>4. AllRecorded => AllRecorded'
    BY <1>1, <1>2, <1>3 DEF AllRecorded, Recorded, Seen, InHand
  <1>5. NoErrorSeen => NoErrorSeen'
    BY <1>1, <1>3 DEF NoErrorSeen, Seen
  <1> QED
    BY <1>1, <1>4, <1>5, MirrorKept

LEMMA MirrorReconcile ==
    ASSUME IngestInv, OrderInv, MirrorInv, Quiet, UNCHANGED <<disk, mtime, rootState>>,
           ReconcileDeleted
    PROVE  MirrorInv'
  <1>1. /\ UNCHANGED <<job, work>> /\ phase = "reconcile" /\ phase' = "close"
        /\ work.faults = {} /\ work.todo = {} /\ m'.errors = m.errors
    BY IngestTypes DEF ReconcileDeleted, Counters, OrderInv, Handling
  <1>2. \A g \in File : KindAt(g)' = KindAt(g)
    BY DEF KindAt, Bytes
  <1>3. ASSUME NEW f \in File
        PROVE  IF f \in Missing THEN files'[f].status = "deleted" ELSE files'[f] = files[f]
    BY IngestTypes DEF ReconcileDeleted, Tombstone, FileRow
  <1>4. AllRecorded => AllRecorded'
    BY <1>1, <1>2, <1>3 DEF AllRecorded, Recorded, Seen, InHand, Missing
  <1>5. NoErrorSeen => NoErrorSeen'
    BY <1>1, <1>3 DEF NoErrorSeen, Seen
  <1> QED
    BY <1>1, <1>4, <1>5, MirrorKept

LEMMA NextMirror ==
    ASSUME IngestInv, RunInv, FreshInv, OrderInv, MirrorInv, [Next]_vars
    PROVE  MirrorInv'
  <1> SUFFICES ASSUME Quiet' PROVE MirrorInv'
    BY DEF MirrorInv
  <1>1. CASE Discover
    BY <1>1, MirrorDiscover
  <1>2. CASE ~Discover
    <2>1. Quiet /\ UNCHANGED <<disk, mtime, rootState>>
      BY <1>2, QuietStep
    <2>2. CASE \E e \in work.faults : HandleDiscoveryError(e)
      BY <2>1, <2>2, MirrorSkipTooLarge, MirrorFail DEF HandleDiscoveryError
    <2>3. CASE \E f \in File : StartFile(f)
      BY <2>1, <2>3, MirrorStartFile
    <2>4. CASE \/ \E f \in File : GetFileStateFails(f)
               \/ FingerprintFails \/ ExtractFails
      BY <2>4, MirrorFail
    <2>5. CASE Fingerprint
      BY <2>1, <2>5, MirrorFingerprint
    <2>6. CASE ExtractBinaryPbl
      BY <2>1, <2>6, MirrorBinaryPbl
    <2>7. CASE Extract
      BY <2>1, <2>7, MirrorExtract
    <2>8. CASE ReplaceDocument
      BY <2>1, <2>8, MirrorReplace
    <2>9. CASE CountProcessed
      BY <2>1, <2>9, MirrorCount
    <2>10. CASE MarkSeenMany
      BY <2>1, <2>10, MirrorMarkSeen
    <2>11. CASE ReconcileDeleted
      BY <2>1, <2>11, MirrorReconcile
    <2>12. CASE UNCHANGED vars
      BY <2>12 DEF vars, MirrorInv, AllRecorded, Recorded, Covered, NoErrorSeen, Quiet,
                   InHand, Seen, KindAt, Bytes, RootFault, FileFault
    <2> QED
      BY <1>2, <2>2, <2>3, <2>4, <2>5, <2>6, <2>7, <2>8, <2>9, <2>10, <2>11, <2>12,
         QuietStep
  <1> QED
    BY <1>1, <1>2

\* CompletedRunMirrorsDisk: a run that met no error leaves, on a disk that held still,
\* every readable text of its roots published as its configuration extracts it and
\* nothing known of files that are gone or too large, whatever runs came before it.
THEOREM DiskMirrored == Spec => []CompletedRunMirrorsDisk
  <1> DEFINE Inv == IngestInv /\ RunInv /\ FreshInv /\ OrderInv /\ MirrorInv
  <1>1. Init => Inv
    <2>1. Init => OrderInv /\ MirrorInv
      BY DEF Init, OrderInv, MirrorInv, Quiet, Handling
    <2> QED
      BY <2>1, InitFresh
  <1>2. Inv /\ [Next]_vars => Inv'
    BY NextIngest, NextRun, NextFresh, NextOrder, NextMirror
  <1>3. Inv => CompletedRunMirrorsDisk
    <2> SUFFICES ASSUME Inv, phase = "close", m.errors = 0, ~dirty, NEW f \in File,
                        f[1] \in job.completed
                 PROVE  /\ KindAt(f) = "text" =>
                              /\ Vigente(f) /\ files[f].sha = disk[f]
                              /\ files[f].sig = job.sig
                        /\ KindAt(f) \in {"absent", "large"} =>
                              docs[f] = NoDoc /\ files[f].status # "processed"
      BY DEF CompletedRunMirrorsDisk
    <2>1. AllRecorded /\ Covered /\ NoErrorSeen /\ work.faults = {} /\ work.todo = {}
      BY DEF MirrorInv, OrderInv, Quiet, Handling
    <2>2. Quiet /\ ~InHand
      BY DEF Quiet, Handling, InHand
    <2>3. CASE KindAt(f) = "text"
      <3>1. work.stat[f] # 0
        BY <2>1, <2>3 DEF Covered
      <3>2. Recorded(f)
        BY <2>1, <2>2, <2>3, <3>1 DEF AllRecorded
      <3>3. files[f].sha = disk[f]
        BY <2>2, <3>2 DEF Recorded, FreshInv
      <3> QED
        BY <2>3, <3>2, <3>3 DEF Recorded, Vigente, IngestInv, CatalogConsistent
    <2>4. CASE KindAt(f) \in {"absent", "large"}
      <3>1. work.stat[f] = 0
        <4>1. CASE KindAt(f) = "large"
          BY <2>2, <4>1 DEF FreshInv, TooLarge
        <4>2. CASE KindAt(f) = "absent"
          <5> SUFFICES ASSUME work.stat[f] # 0 PROVE FALSE
            OBVIOUS
          <5>1. Bytes(f) = disk[f] /\ disk[f] # NoContent
            BY <2>2 DEF FreshInv, Bytes
          <5>2. Kind[disk[f]] \in ContentKind
            BY <5>1, ContentsAssumption DEF IngestInv, TypeOK, EnvType
          <5> QED
            BY <4>2, <5>1, <5>2 DEF KindAt, ContentKind
        <4> QED
          BY <2>4, <4>1, <4>2
      <3>2. files[f].status \in {"none", "deleted"} \/ files[f].seen = job.id
        BY <2>2 DEF FreshInv
      <3>3. files[f].status # "processed"
        BY <2>2, <3>1, <3>2 DEF FreshInv, Seen
      <3>4. files[f].status # "error"
        BY <2>1, <3>2 DEF NoErrorSeen, Seen
      <3> QED
        BY <2>4, <3>3, <3>4 DEF IngestInv, CatalogConsistent
    <2> QED
      BY <2>3, <2>4
  <1> QED
    BY <1>1, <1>2, <1>3, PTL DEF Spec

------------------------------------------------------------------------------
(* The counters of a run and the rows it marked. *)

Marked(status) == {f \in File : files[f].status = status /\ files[f].seen = job.id}
Proc == Marked("processed")
Gone == Marked("deleted")

Counting == {"discover", "items", "hash", "parse", "persist", "count"}

\* Until the unchanged files are marked, they and the processed ones are apart, and no
\* file is handled twice.
MarksApart ==
    /\ \A f \in work.seen :
          /\ files[f].status = "processed" /\ files[f].seen # job.id /\ f \notin work.todo
    /\ work.todo \cap Proc = {}
    /\ InHand => item.file \notin Proc \cup work.todo \cup work.seen
    /\ (phase = "discover" \/ work.faults # {}) => Proc = {} /\ work.seen = {}

Tally ==
    /\ phase \in Counting =>
          /\ MarksApart
          /\ Gone = {} /\ m.deleted = 0
          /\ Cardinality(work.seen) = m.unchanged
          /\ Cardinality(Proc) = IF phase = "count" THEN m.processed + 1 ELSE m.processed
    /\ phase = "reconcile" =>
          Gone = {} /\ m.deleted = 0 /\ Cardinality(Proc) = m.processed + m.unchanged
    /\ phase = "close" =>
          m.deleted = Cardinality(Gone) /\ Cardinality(Proc) = m.processed + m.unchanged

LEMMA FilesAreFinite == \A S \in SUBSET File : IsFiniteSet(S) /\ Cardinality(S) \in Nat
  <1>1. IsFiniteSet(File)
    BY RootsAssumption, FS_Product DEF File
  <1> QED
    BY <1>1, FS_Subset, FS_CardinalityType

LEMMA NoFiles == Cardinality({}) = 0
  BY FS_EmptySet

LEMMA CounterTypes ==
    ASSUME IngestInv
    PROVE  /\ m.processed \in Nat /\ m.unchanged \in Nat /\ m.deleted \in Nat
           /\ m = [discovered |-> m.discovered, processed |-> m.processed,
                   unchanged |-> m.unchanged, skipped |-> m.skipped,
                   deleted |-> m.deleted, errors |-> m.errors]
           /\ Proc \in SUBSET File /\ Gone \in SUBSET File /\ work.seen \in SUBSET File
  BY IngestTypes DEF Counters, Proc, Gone, Marked

LEMMA TallyBegin ==
    ASSUME IngestInv, RunInv, Start
    PROVE  Tally'
  <1>1. /\ phase' = "discover" /\ work' = NoWork /\ m' = NoCounters /\ files' = files
        /\ job'.id = Len(runs) + 1
    BY DEF Start, BeginRun
  <1>2. \A f \in File : files[f].seen \in Nat /\ files[f].seen <= Len(runs)
    BY IngestTypes DEF RunInv, FileRow
  <1>3. Len(runs) \in Nat
    BY DEF IngestInv, TypeOK, DatabaseType
  <1>4. Proc' = {} /\ Gone' = {}
    BY <1>1, <1>2, <1>3 DEF Proc, Gone, Marked
  <1> QED
    BY <1>1, <1>4, NoFiles DEF Tally, MarksApart, Counting, InHand, NoWork, NoCounters

LEMMA TallyDiscover ==
    ASSUME IngestInv, Tally, Discover
    PROVE  Tally'
  <1>1. /\ phase = "discover" /\ phase' = "items" /\ UNCHANGED <<files, m>>
        /\ job'.id = job.id /\ work'.seen = {}
    BY DEF Discover, database, IngestInv, TypeOK, ProcessType
  <1>2. Proc' = Proc /\ Gone' = Gone
    BY <1>1 DEF Proc, Gone, Marked
  <1> QED
    BY <1>1, <1>2, NoFiles DEF Tally, MarksApart, Counting, InHand

LEMMA TallyDiscoveryError ==
    ASSUME IngestInv, Tally, NEW e \in work.faults, HandleDiscoveryError(e)
    PROVE  Tally'
  <1>1. /\ phase = "items" /\ phase' = "items" /\ job'.id = job.id
        /\ work'.seen = work.seen /\ work'.todo = work.todo
    BY IngestTypes DEF HandleDiscoveryError, SkipTooLarge, RecordDiscoveryError, IngestInv,
                       TypeOK, ProcessType
  <1>2. /\ m'.processed = m.processed /\ m'.unchanged = m.unchanged
        /\ m'.deleted = m.deleted
    BY IngestTypes DEF HandleDiscoveryError, SkipTooLarge, RecordDiscoveryError, Count,
                       Counters
  <1>3. Proc = {} /\ work.seen = {} /\ Gone = {}
    BY <1>1 DEF Tally, MarksApart, Counting
  <1>4. \A f \in File : \/ files'[f] = files[f]
                        \/ files'[f].status = "skipped"
    <2>1. CASE SkipTooLarge(e)
      <3>1. PICK g, stamp : RecordSkipped(g, stamp)
        BY <2>1 DEF SkipTooLarge
      <3>2. Row("skipped", NoContent, NoSig, stamp).status = "skipped"
        BY DEF Row
      <3> QED
        BY <3>1, <3>2, IngestTypes DEF RecordSkipped
    <2>2. CASE RecordDiscoveryError(e)
      BY <2>2 DEF RecordDiscoveryError
    <2> QED
      BY <2>1, <2>2 DEF HandleDiscoveryError
  <1>5. Proc' = {} /\ Gone' = {}
    BY <1>1, <1>3, <1>4 DEF Proc, Gone, Marked
  <1> QED
    BY <1>1, <1>2, <1>3, <1>5, NoFiles DEF Tally, MarksApart, Counting, InHand

LEMMA TallyStartFile ==
    ASSUME IngestInv, Tally, NEW f \in File, StartFile(f)
    PROVE  Tally'
  <1>1. /\ phase = "items" /\ work.faults = {} /\ f \in work.todo
        /\ UNCHANGED <<files, job>> /\ work'.faults = {}
        /\ work'.todo = work.todo \ {f}
    BY IngestTypes DEF StartFile, IsNext, database
  <1>2. /\ MarksApart /\ Gone = {} /\ m.deleted = 0 /\ Cardinality(work.seen) = m.unchanged
        /\ Cardinality(Proc) = m.processed
    BY <1>1 DEF Tally, Counting
  <1>3. Proc' = Proc /\ Gone' = Gone
    BY <1>1 DEF Proc, Gone, Marked
  <1>4. f \notin Proc /\ f \notin work.seen
    BY <1>1, <1>2 DEF MarksApart
  <1>5. CASE Decision(f) = "unchanged"
    <2>1. /\ work'.seen = work.seen \cup {f} /\ phase' = phase
          /\ m'.processed = m.processed /\ m'.unchanged = m.unchanged + 1
          /\ m'.deleted = m.deleted
      BY <1>5, IngestTypes, CounterTypes DEF StartFile
    <2>2. files[f].status = "processed" /\ files[f].seen # job.id
      BY <1>4, <1>5 DEF Decision, MustProcess, Proc, Marked
    <2>3. Cardinality(work'.seen) = m'.unchanged
      BY <1>2, <1>4, <2>1, FilesAreFinite, CounterTypes, FS_AddElement
    <2>4. MarksApart'
      BY <1>1, <1>2, <1>3, <2>1, <2>2 DEF MarksApart, InHand
    <2> QED
      BY <1>1, <1>2, <1>3, <2>1, <2>3, <2>4 DEF Tally, Counting
  <1>6. CASE Decision(f) # "unchanged"
    <2>1. /\ work'.seen = work.seen /\ phase' = "hash" /\ item'.file = f
          /\ m'.processed = m.processed /\ m'.unchanged = m.unchanged
          /\ m'.deleted = m.deleted
      BY <1>6, IngestTypes, CounterTypes DEF StartFile, NoItem
    <2>2. MarksApart'
      BY <1>1, <1>2, <1>3, <1>4, <2>1 DEF MarksApart, InHand
    <2> QED
      BY <1>1, <1>2, <1>3, <2>1, <2>2 DEF Tally, Counting
  <1> QED
    BY <1>5, <1>6

\* A row in error is no longer processed.
LEMMA TallyError ==
    ASSUME IngestInv, OrderInv, Tally,
           \/ \E f \in File : GetFileStateFails(f)
           \/ FingerprintFails \/ ExtractFails
    PROVE  Tally'
  <1>1. PICK f \in File :
           /\ files' = [files EXCEPT ![f] = ErrorRow(f)]
           /\ f \notin Proc /\ f \notin work.seen
           /\ phase \in Counting \ {"count", "discover"} /\ phase' = "items"
           /\ work.faults = {} /\ work'.faults = {}
           /\ UNCHANGED job /\ work'.seen = work.seen /\ work'.todo \subseteq work.todo
    <2>1. CASE \E f \in File : GetFileStateFails(f)
      <3>1. PICK f \in File : GetFileStateFails(f)
        BY <2>1
      <3>2. phase = "items" /\ f \in work.todo /\ work.faults = {}
        BY <3>1 DEF GetFileStateFails, IsNext
      <3>3. f \notin Proc /\ f \notin work.seen
        BY <3>2 DEF Tally, MarksApart, Counting
      <3> QED
        BY <3>1, <3>2, <3>3, IngestTypes DEF GetFileStateFails, Counting
    <2>2. CASE FingerprintFails \/ ExtractFails
      <3>1. phase \in {"hash", "parse"} /\ FailFile
        BY <2>2 DEF FingerprintFails, ExtractFails
      <3>2. item.file \in File /\ item.file \notin Proc /\ item.file \notin work.seen
        BY <3>1, IngestTypes DEF Tally, MarksApart, Counting, InHand
      <3>3. work.faults = {}
        BY <3>1 DEF OrderInv, Handling
      <3> QED
        BY <3>1, <3>2, <3>3 DEF FailFile, Counting
    <2> QED
      BY <2>1, <2>2
  <1>2. /\ MarksApart /\ Gone = {} /\ m.deleted = 0 /\ Cardinality(work.seen) = m.unchanged
        /\ Cardinality(Proc) = m.processed
    BY <1>1 DEF Tally
  <1>3. /\ m'.processed = m.processed /\ m'.unchanged = m.unchanged
        /\ m'.deleted = m.deleted
    BY IngestTypes, CounterTypes DEF GetFileStateFails, FingerprintFails, ExtractFails,
                                     FailFile, Count
  <1>4. ErrorRow(f).status = "error"
    BY IngestTypes DEF ErrorRow, Row, FileRow
  <1>5. \A g \in File : files'[g] = IF g = f THEN ErrorRow(f) ELSE files[g]
    BY <1>1, IngestTypes
  <1>6. Proc' = Proc /\ Gone' = Gone
    BY <1>1, <1>2, <1>4, <1>5 DEF Proc, Gone, Marked
  <1>7. MarksApart'
    <2>1. \A g \in work'.seen :
             files'[g].status = "processed" /\ files'[g].seen # job'.id /\ g \notin work'.todo
      BY <1>1, <1>2, <1>5, CounterTypes DEF MarksApart
    <2> QED
      BY <1>1, <1>2, <1>6, <2>1 DEF MarksApart, InHand
  <1> QED
    BY <1>1, <1>2, <1>3, <1>6, <1>7 DEF Tally, Counting

LEMMA TallyFingerprint ==
    ASSUME IngestInv, OrderInv, Tally, Fingerprint
    PROVE  Tally'
  <1>1. /\ phase = "hash" /\ UNCHANGED <<files, job>> /\ work.faults = {}
        /\ item.file \in File
    BY IngestTypes DEF Fingerprint, database, OrderInv, Handling, InHand
  <1>2. /\ MarksApart /\ Gone = {} /\ m.deleted = 0 /\ Cardinality(work.seen) = m.unchanged
        /\ Cardinality(Proc) = m.processed
        /\ item.file \notin Proc \cup work.todo \cup work.seen
    BY <1>1 DEF Tally, Counting, MarksApart, InHand
  <1>3. Proc' = Proc /\ Gone' = Gone
    BY <1>1 DEF Proc, Gone, Marked
  <1>4. CASE SameHash
    <2>1. /\ work'.seen = work.seen \cup {item.file} /\ phase' = "items"
          /\ work'.todo = work.todo /\ work'.faults = {}
          /\ m'.processed = m.processed /\ m'.unchanged = m.unchanged + 1
          /\ m'.deleted = m.deleted
      BY <1>1, <1>4, IngestTypes, CounterTypes DEF Fingerprint, Count
    <2>2. files[item.file].status = "processed" /\ files[item.file].seen # job.id
      BY <1>1, <1>2, <1>4 DEF SameHash, OrderInv, MustProcess, Proc, Marked
    <2>3. Cardinality(work'.seen) = m'.unchanged
      BY <1>2, <2>1, FilesAreFinite, CounterTypes, FS_AddElement
    <2>4. MarksApart'
      BY <1>1, <1>2, <1>3, <2>1, <2>2 DEF MarksApart, InHand
    <2> QED
      BY <1>2, <1>3, <2>1, <2>3, <2>4 DEF Tally, Counting
  <1>5. CASE ~SameHash
    <2>1. item'.file = item.file /\ phase' = "parse" /\ UNCHANGED <<work, m>>
      BY <1>5, IngestTypes DEF Fingerprint, IngestInv, TypeOK, ProcessType
    <2>2. MarksApart'
      BY <1>1, <1>2, <1>3, <2>1 DEF MarksApart, InHand
    <2> QED
      BY <1>2, <1>3, <2>1, <2>2 DEF Tally, Counting
  <1> QED
    BY <1>4, <1>5

LEMMA TallyBinaryPbl ==
    ASSUME IngestInv, OrderInv, Tally, ExtractBinaryPbl
    PROVE  Tally'
  <1>1. /\ phase = "parse" /\ phase' = "items" /\ UNCHANGED <<job, work>>
        /\ work.faults = {} /\ item.file \in File
    BY IngestTypes DEF ExtractBinaryPbl, OrderInv, Handling, InHand
  <1>2. /\ MarksApart /\ Gone = {} /\ m.deleted = 0 /\ Cardinality(work.seen) = m.unchanged
        /\ Cardinality(Proc) = m.processed
        /\ item.file \notin Proc \cup work.todo \cup work.seen
    BY <1>1 DEF Tally, Counting, MarksApart, InHand
  <1>3. \A g \in File : files'[g] = IF g = item.file
                                   THEN Row("skipped", NoContent, NoSig, work.stat[g])
                                   ELSE files[g]
    BY IngestTypes DEF ExtractBinaryPbl, RecordSkipped
  <1>4. Row("skipped", NoContent, NoSig, work.stat[item.file]).status = "skipped"
    BY DEF Row
  <1>5. Proc' = Proc /\ Gone' = Gone
    BY <1>1, <1>2, <1>3, <1>4 DEF Proc, Gone, Marked
  <1>6. /\ m'.processed = m.processed /\ m'.unchanged = m.unchanged
        /\ m'.deleted = m.deleted
    BY CounterTypes DEF ExtractBinaryPbl, Count
  <1>7. MarksApart'
    BY <1>1, <1>2, <1>3, <1>5, CounterTypes DEF MarksApart, InHand
  <1> QED
    BY <1>1, <1>2, <1>5, <1>6, <1>7 DEF Tally, Counting

LEMMA TallyReplace ==
    ASSUME IngestInv, OrderInv, Tally, ReplaceDocument
    PROVE  Tally'
  <1>1. /\ phase = "persist" /\ phase' = "count" /\ UNCHANGED <<job, work, m>>
        /\ work.faults = {} /\ item.file \in File
    BY IngestTypes DEF ReplaceDocument, OrderInv, Handling, InHand
  <1>2. /\ MarksApart /\ Gone = {} /\ m.deleted = 0 /\ Cardinality(work.seen) = m.unchanged
        /\ Cardinality(Proc) = m.processed
        /\ item.file \notin Proc \cup work.todo \cup work.seen
    BY <1>1 DEF Tally, Counting, MarksApart, InHand
  <1>3. \A g \in File :
           files'[g] = IF g = item.file
                       THEN Row("processed", item.sha, job.sig, work.stat[g])
                       ELSE files[g]
    BY IngestTypes DEF ReplaceDocument
  <1>4. files'[item.file].status = "processed" /\ files'[item.file].seen = job.id
    <2>1. files'[item.file] = Row("processed", item.sha, job.sig, work.stat[item.file])
      BY <1>1, <1>3
    <2> QED
      BY <2>1 DEF Row
  <1>5. Proc' = Proc \cup {item.file} /\ Gone' = Gone
    BY <1>1, <1>2, <1>3, <1>4 DEF Proc, Gone, Marked
  <1>6. Cardinality(Proc') = m.processed + 1
    BY <1>2, <1>5, FilesAreFinite, CounterTypes, FS_AddElement, SMTT(20)
  <1>7. MarksApart'
    BY <1>1, <1>2, <1>3, <1>5, CounterTypes DEF MarksApart, InHand
  <1> QED
    BY <1>1, <1>2, <1>5, <1>6, <1>7 DEF Tally, Counting

LEMMA TallyMarkSeen ==
    ASSUME IngestInv, Tally, MarkSeenMany
    PROVE  Tally'
  <1>1. phase = "items" /\ phase' = "reconcile" /\ UNCHANGED <<job, work, m>>
    BY DEF MarkSeenMany
  <1>2. /\ MarksApart /\ Gone = {} /\ m.deleted = 0 /\ Cardinality(work.seen) = m.unchanged
        /\ Cardinality(Proc) = m.processed
    BY <1>1 DEF Tally, Counting
  <1>3. \A f \in work.seen : files[f].status = "processed" /\ files[f].seen # job.id
    BY <1>2 DEF MarksApart
  <1>4. \A f \in File : files'[f] = IF f \in work.seen THEN SeenRow(f) ELSE files[f]
    BY <1>3, CounterTypes DEF MarkSeenMany
  <1>5. \A f \in work.seen : SeenRow(f).status = "processed" /\ SeenRow(f).seen = job.id
    BY <1>3, IngestTypes, CounterTypes DEF SeenRow, FileRow
  <1>6. Proc' = Proc \cup work.seen /\ Gone' = Gone
    BY <1>1, <1>2, <1>4, <1>5, CounterTypes DEF Proc, Gone, Marked
  <1>7. Proc \cap work.seen = {}
    BY <1>3 DEF Proc, Marked
  <1>8. Cardinality(Proc') = m.processed + m.unchanged
    <2>1. IsFiniteSet(Proc) /\ IsFiniteSet(work.seen)
      BY FilesAreFinite, CounterTypes
    <2>2. Cardinality(Proc \cup work.seen)
            = Cardinality(Proc) + Cardinality(work.seen) - Cardinality(Proc \cap work.seen)
      BY <2>1, FS_Union
    <2>3. Cardinality(Proc \cap work.seen) = 0
      BY <1>7, NoFiles
    <2>4. Cardinality(Proc \cup work.seen) = m.processed + m.unchanged
      BY <1>2, <2>2, <2>3, CounterTypes
    <2> QED
      BY <1>6, <2>4
  <1> QED
    BY <1>1, <1>2, <1>6, <1>8 DEF Tally, Counting

LEMMA TallyReconcile ==
    ASSUME IngestInv, Tally, ReconcileDeleted
    PROVE  Tally'
  <1>1. phase = "reconcile" /\ phase' = "close" /\ UNCHANGED <<job, work>>
    BY DEF ReconcileDeleted
  <1>2. Gone = {} /\ m.deleted = 0 /\ Cardinality(Proc) = m.processed + m.unchanged
    BY <1>1 DEF Tally
  <1>3. /\ m'.deleted = m.deleted + Cardinality(Missing)
        /\ m'.processed = m.processed /\ m'.unchanged = m.unchanged
    BY CounterTypes DEF ReconcileDeleted
  <1>4. Missing \in SUBSET File /\ \A f \in Missing : files[f].seen # job.id
    BY DEF Missing
  <1>5. \A f \in File : files'[f] = IF f \in Missing THEN Tombstone(f) ELSE files[f]
    BY DEF ReconcileDeleted
  <1>6. \A f \in Missing : Tombstone(f).status = "deleted" /\ Tombstone(f).seen = job.id
    BY <1>4, IngestTypes DEF Tombstone, FileRow
  <1>7. Proc' = Proc /\ Gone' = Missing
    BY <1>1, <1>2, <1>4, <1>5, <1>6 DEF Proc, Gone, Marked
  <1>8. Cardinality(Missing) \in Nat
    BY <1>4, FilesAreFinite
  <1> QED
    BY <1>1, <1>2, <1>3, <1>7, <1>8 DEF Tally, Counting

LEMMA NextTally ==
    ASSUME IngestInv, RunInv, OrderInv, Tally, [Next]_vars
    PROVE  Tally'
  <1>1. CASE Environment \/ UNCHANGED vars
    <2>1. UNCHANGED <<files, phase, job, work, item, m>>
      BY <1>1 DEF Environment, WriteFile, RemoveFile, ChangeRoot, database, process, vars
    <2> QED
      BY <2>1 DEF Tally, MarksApart, Proc, Gone, Marked, InHand
  <1>2. CASE Extract
    <2>1. /\ UNCHANGED <<files, job, work, m>> /\ phase = "parse" /\ phase' = "persist"
          /\ item'.file = item.file
      BY <1>2 DEF Extract, database, IngestInv, TypeOK, ProcessType
    <2> QED
      BY <2>1 DEF Tally, MarksApart, Proc, Gone, Marked, InHand, Counting
  <1>3. CASE CountProcessed
    <2>1. /\ UNCHANGED <<files, job, work>> /\ phase = "count" /\ phase' = "items"
          /\ m'.processed = m.processed + 1 /\ m'.unchanged = m.unchanged
          /\ m'.deleted = m.deleted
      BY <1>3, CounterTypes DEF CountProcessed, Count, database
    <2> QED
      BY <2>1 DEF Tally, MarksApart, Proc, Gone, Marked, InHand, Counting
  <1>4. CASE \/ ReplaceDocumentFails \/ FinishRun \/ Return \/ FinishInterrupted
             \/ RecordFatal \/ FinishFailed
             \/ KeyboardInterrupt \/ DatabaseFault \/ Crash
             \/ \E f \in File : FileStateFault(f)
    BY <1>4 DEF ReplaceDocumentFails, FinishRun, Return, FinishInterrupted, RecordFatal,
                FinishFailed, KeyboardInterrupt, DatabaseFault, FileStateFault, Crash, Exit,
                Tally, Counting
  <1>5. CASE \/ \E f \in File : GetFileStateFails(f)
             \/ FingerprintFails \/ ExtractFails
    BY <1>5, TallyError
  <1> QED
    BY <1>1, <1>2, <1>3, <1>4, <1>5, TallyBegin, TallyDiscover, TallyDiscoveryError,
       TallyStartFile, TallyFingerprint, TallyBinaryPbl, TallyReplace, TallyMarkSeen,
       TallyReconcile
       DEF Next, Program

\* CountersMatchCatalog: what a run is about to record of itself (processed, unchanged
\* and deleted files) is what it marked in the catalogue (H2-REQ-024), whatever was
\* there before and whatever failed on the way.
THEOREM Counted == Spec => []CountersMatchCatalog
  <1> DEFINE Inv == IngestInv /\ RunInv /\ OrderInv /\ Tally
  <1>1. Init => Inv
    <2>1. Init => OrderInv /\ Tally
      BY DEF Init, OrderInv, Tally, Handling, Counting
    <2> QED
      BY <2>1, InitFresh
  <1>2. Inv /\ [Next]_vars => Inv'
    BY NextIngest, NextRun, NextOrder, NextTally
  <1>3. Inv => CountersMatchCatalog
    <2> SUFFICES ASSUME Inv, phase = "close" PROVE CountersMatchCatalog
      BY DEF CountersMatchCatalog
    <2>1. m.deleted = Cardinality(Gone) /\ Cardinality(Proc) = m.processed + m.unchanged
      BY DEF Tally
    <2> QED
      BY <2>1 DEF CountersMatchCatalog, Gone, Proc, Marked
  <1> QED
    BY <1>1, <1>2, <1>3, PTL DEF Spec
==============================================================================
