----------------------------- MODULE SetupProofs -----------------------------
(***************************************************************************)
(* What Setup promises for any number of processes, releases, commands and   *)
(* models.  The two halves share no variable: each half of SetupInv is kept  *)
(* by the steps of its own and cannot see the other's.                      *)
(***************************************************************************)
EXTENDS Setup, TLAPS

(* The schema. *)

Writing == {"write", "commit"}
InitSteps == Initialized \cup Writing \cup {"read", "migrate", "check"}
InitRow == {NotStarted} \cup [step : InitSteps, release : Releases, next : Nat, done : 0..Statements]

\* What a row says of the schema: the version that its process is about to apply is at most
\* one beyond it, however long ago the process read the version; and one that is about to
\* commit has executed everything of the next version, which nobody else can have applied.
InStep(row) ==
    /\ row.step \in Writing \cup {"migrate"} => row.next \in 1..SchemaVersion + 1
    /\ row.step = "commit" => row.done = Statements /\ row.next = SchemaVersion + 1
    /\ row.step = "ready" => row.release <= SchemaVersion

MigrationsInv ==
    /\ init \in [Processes -> InitRow]
    /\ \E n \in Nat : registered = 1..n /\ tables = (1..n) \X (1..Statements)
    /\ \A p \in Processes : InStep(init[p])

\* SQLite's lock is held by the process that writes.
LockInv ==
    /\ writer \in Processes \cup {Nobody}
    /\ \A p \in Processes : writer = p <=> init[p].step \in Writing

\* The largest of 0..n is n: what _read_schema_version finds in a whole schema.
LEMMA VersionOfWhole == ASSUME NEW n \in Nat PROVE Max((1..n) \cup {0}) = n
<1>1. n \in (1..n) \cup {0} /\ \A y \in (1..n) \cup {0} : n >= y
  OBVIOUS
<1>2. \A x \in (1..n) \cup {0} : (\A y \in (1..n) \cup {0} : x >= y) => x = n
  BY <1>1
<1> QED
  BY <1>1, <1>2 DEF Max

LEMMA WholeSchema ==
    ASSUME MigrationsInv
    PROVE  /\ SchemaVersion \in Nat /\ registered = 1..SchemaVersion
           /\ tables = (1..SchemaVersion) \X (1..Statements)
  BY VersionOfWhole DEF MigrationsInv, SchemaVersion

LEMMA SchemaInit == MigrationsInit => MigrationsInv
<1> SUFFICES ASSUME MigrationsInit PROVE MigrationsInv
  OBVIOUS
<1>1. registered = 1..0 /\ tables = (1..0) \X (1..Statements) /\ 0 \in Nat
  BY DEF MigrationsInit
<1>2. init \in [Processes -> InitRow] /\ \A p \in Processes : init[p].step = "none"
  BY DEF MigrationsInit, InitRow, NotStarted
<1> QED
  BY <1>1, <1>2 DEF MigrationsInv, InStep, Writing

\* What a process does to its own row, to the lock and to nothing else.
LEMMA OwnRow ==
    ASSUME MigrationsInv, NEW p \in Processes, UNCHANGED <<registered, tables>>,
           NEW row \in InitRow, init' = [init EXCEPT ![p] = row], InStep(row)
    PROVE  MigrationsInv'
<1>1. SchemaVersion' = SchemaVersion
  BY DEF SchemaVersion
<1>2. \A q \in Processes : init'[q] = IF q = p THEN row ELSE init[q]
  BY DEF MigrationsInv
<1>3. \A q \in Processes : InStep(init'[q])
  BY <1>2 DEF MigrationsInv
<1>4. \A q \in Processes : InStep(init[q])'
  BY <1>1, <1>3 DEF InStep
<1> QED
  BY <1>4 DEF MigrationsInv

\* The row of a process that has started.
StartedRows == [step : InitSteps, release : Releases, next : Nat, done : 0..Statements]

LEMMA StartedRow ==
    ASSUME MigrationsInv, NEW p \in Processes, init[p].step # "none"
    PROVE  /\ init[p] \in StartedRows
           /\ init[p].release \in Nat /\ InStep(init[p])
<1>1. init[p] \in InitRow /\ InStep(init[p])
  BY DEF MigrationsInv
<1>2. init[p] # NotStarted
  BY DEF NotStarted
<1>3. init[p] \in StartedRows
  BY <1>1, <1>2 DEF InitRow, StartedRows
<1>4. \A r \in StartedRows : r.release \in Nat
  BY MigrationsAssumption DEF StartedRows
<1> QED
  BY <1>1, <1>3, <1>4

\* A process goes on, or gives up, with the row it has.
LEMMA OwnStep ==
    ASSUME MigrationsInv, NEW p \in Processes, init[p].step # "none", UNCHANGED <<registered, tables>>,
           NEW s \in InitSteps, NEW d \in 0..Statements,
           init' = [init EXCEPT ![p].step = s, ![p].done = d],
           s \in Writing \cup {"migrate"} => init[p].next \in 1..SchemaVersion + 1,
           s = "commit" => d = Statements /\ init[p].next = SchemaVersion + 1,
           s = "ready" => init[p].release <= SchemaVersion
    PROVE  MigrationsInv'
<1> DEFINE row == [init[p] EXCEPT !.step = s, !.done = d]
<1>1. /\ row \in InitRow /\ row.step = s /\ row.done = d /\ row.next = init[p].next
      /\ row.release = init[p].release
  <2>1. init[p] \in StartedRows
    BY StartedRow
  <2> QED
    BY <2>1 DEF StartedRows, InitRow
<1>2. init' = [init EXCEPT ![p] = row]
  OBVIOUS
<1> HIDE DEF row
<1>3. InStep(row)
  BY <1>1 DEF InStep
<1> QED
  BY <1>1, <1>2, <1>3, OwnRow

\* The same, when only the step or only the count of the statements is set.
LEMMA OnlyStep ==
    ASSUME MigrationsInv, NEW p \in Processes, init[p].step # "none"
    PROVE  /\ init[p].done \in 0..Statements /\ init[p].step \in InitSteps
           /\ \A s : [init EXCEPT ![p].step = s] = [init EXCEPT ![p].step = s, ![p].done = init[p].done]
           /\ \A d : [init EXCEPT ![p].done = d] = [init EXCEPT ![p].step = init[p].step, ![p].done = d]
<1>1. init[p] \in StartedRows
  BY StartedRow
<1> USE DEF StartedRows
<1>2. \A s : [init[p] EXCEPT !.step = s] = [init[p] EXCEPT !.step = s, !.done = init[p].done]
  BY <1>1
<1>3. \A d : [init[p] EXCEPT !.done = d] = [init[p] EXCEPT !.step = init[p].step, !.done = d]
  BY <1>1
<1>4. init \in [Processes -> InitRow]
  BY DEF MigrationsInv
<1> QED
  BY <1>1, <1>2, <1>3, <1>4

\* The one step that publishes: everything of the version after the schema's.
LEMMA CommitKeeps ==
    ASSUME MigrationsInv, LockInv, NEW p \in Processes, Commit(p)
    PROVE  MigrationsInv'
<1> DEFINE n == SchemaVersion
           r == init[p]
           row(step) == [r EXCEPT !.next = @ + 1, !.done = 0, !.step = step]
<1>1. r \in StartedRows
      /\ r.done = Statements /\ r.next = n + 1 /\ n \in Nat
  BY StartedRow, WholeSchema DEF Commit, InStep
<1>2. registered' = 1..n + 1 /\ tables' = (1..n + 1) \X (1..Statements)
  <2>1. registered = 1..n /\ tables = (1..n) \X (1..Statements)
    BY WholeSchema
  <2>2. registered' = registered \cup {n + 1} /\ tables' = tables \cup ({n + 1} \X (1..Statements))
    BY <1>1 DEF Commit, InHand
  <2>3. 1..n + 1 = (1..n) \cup {n + 1}
    BY <1>1
  <2> HIDE DEF n
  <2> QED
    BY <2>1, <2>2, <2>3
<1>3. SchemaVersion' = n + 1
  <2>1. Max((1..n + 1) \cup {0}) = n + 1
    BY <1>1, VersionOfWhole
  <2> QED
    BY <2>1, <1>2 DEF SchemaVersion
<1>4. PICK step \in {"check", "migrate"} : init' = [init EXCEPT ![p] = row(step)]
  BY DEF Commit
<1>5. row(step) \in InitRow /\ row(step).next = n + 2 /\ row(step).step = step
  <2>1. row(step) = [r EXCEPT !.next = n + 2, !.done = 0, !.step = step]
    <3>1. r.next + 1 = n + 2
      BY <1>1
    <3> HIDE DEF n, r
    <3> QED
      BY <3>1
  <2>2. n + 2 \in Nat /\ step \in InitSteps /\ 0 \in 0..Statements
    BY <1>1, MigrationsAssumption DEF InitSteps, Initialized
  <2> HIDE DEF n, r
  <2> QED
    BY <1>1, <2>1, <2>2 DEF InitRow, StartedRows
<1>6. init' \in [Processes -> InitRow]
  BY <1>4, <1>5 DEF MigrationsInv
<1>7. \A q \in Processes : init'[q] = IF q = p THEN row(step) ELSE init[q]
  BY <1>4 DEF MigrationsInv
<1>8. ASSUME NEW q \in Processes PROVE InStep(init[q])'
  <2>1. CASE q = p
    <3>1. init'[q] = row(step) /\ row(step).step \notin {"ready", "commit"}
      BY <2>1, <1>5, <1>7
    <3> HIDE DEF n, row
    <3> QED
      BY <3>1, <1>1, <1>3, <1>5 DEF InStep
  <2>2. CASE q # p
    <3>1. init[q].step \notin Writing
      BY <2>2 DEF LockInv, Commit, Writing
    <3>2. init[q].step = "ready" => init[q].release \in Nat
      BY StartedRow
    <3>3. init'[q] = init[q] /\ InStep(init[q])
      BY <2>2, <1>7 DEF MigrationsInv
    <3> HIDE DEF n
    <3> QED
      BY <3>1, <3>2, <3>3, <1>1, <1>3 DEF InStep, Writing, n
  <2> QED
    BY <2>1, <2>2
<1> QED
  BY <1>1, <1>2, <1>6, <1>8 DEF MigrationsInv

DatabaseStep(p) == MigrationStep(p) \/ Die(p) \/ (\E release \in Releases : Open(p, release))

LEMMA SchemaStep ==
    ASSUME MigrationsInv, LockInv, NEW p \in Processes, DatabaseStep(p)
    PROVE  MigrationsInv'
<1> USE WholeSchema
<1>s. /\ "rejected" \in InitSteps /\ "write" \in InitSteps /\ "commit" \in InitSteps /\ "ready" \in InitSteps
      /\ "rejected" \notin Writing \cup {"migrate"} /\ "ready" \notin Writing \cup {"migrate"}
      /\ 0 \in 0..Statements
  BY MigrationsAssumption DEF InitSteps, Initialized, Writing
<1>1. ASSUME NEW release \in Releases, Open(p, release) PROVE MigrationsInv'
  <2> DEFINE row(step) == [step |-> step, release |-> release, next |-> 0, done |-> 0]
  <2>1. PICK step \in {"read", "rejected"} : init' = [init EXCEPT ![p] = row(step)]
    BY <1>1 DEF Open
  <2>2. row(step) \in InitRow /\ row(step).step = step
    BY <1>s DEF InitRow, InitSteps, Initialized
  <2>3. InStep(row(step))
    BY <2>2 DEF InStep, Writing
  <2> HIDE DEF row
  <2> QED
    BY <1>1, <2>1, <2>2, <2>3, OwnRow DEF Open
<1>2. CASE ReadVersion(p)
  <2> DEFINE row(step) == [init[p] EXCEPT !.next = SchemaVersion + 1, !.step = step]
  <2>1. PICK step \in {"rejected", "migrate", "check"} : init' = [init EXCEPT ![p] = row(step)]
    BY <1>2 DEF ReadVersion
  <2>2. row(step) \in InitRow /\ row(step).next = SchemaVersion + 1 /\ row(step).step = step
    BY <1>2 DEF ReadVersion, MigrationsInv, InitRow, InitSteps, Initialized, NotStarted
  <2>3. SchemaVersion + 1 \in 1..SchemaVersion + 1
    OBVIOUS
  <2>4. UNCHANGED <<registered, tables>>
    BY <1>2 DEF ReadVersion
  <2> HIDE DEF row
  <2>5. InStep(row(step))
    BY <2>2, <2>3 DEF InStep
  <2> QED
    BY <2>1, <2>2, <2>4, <2>5, OwnRow
<1>3. CASE Begin(p)
  <2>1. PICK s \in {"write", "rejected"} : init' = [init EXCEPT ![p].step = s]
    BY <1>3 DEF Begin, Reject
  <2>2. init[p].next \in 1..SchemaVersion + 1
    BY <1>3 DEF Begin, MigrationsInv, InStep
  <2>3. UNCHANGED <<registered, tables>> /\ init[p].step # "none"
    BY <1>3 DEF Begin
  <2> QED
    BY <2>1, <2>2, <2>3, <1>s, OnlyStep, OwnStep
<1>4. CASE Execute(p)
  <2>1. init[p].step = "write" /\ init[p].done < Statements /\ UNCHANGED <<registered, tables>>
    BY <1>4 DEF Execute
  <2>2. init' = [init EXCEPT ![p].done = init[p].done + 1]
    BY <1>4 DEF Execute
  <2>3. init[p].done + 1 \in 0..Statements
    <3>1. init[p].done \in 0..Statements
      BY <2>1, OnlyStep
    <3> QED
      BY <2>1, <3>1, MigrationsAssumption
  <2>4. init[p].next \in 1..SchemaVersion + 1
    BY <2>1 DEF MigrationsInv, InStep, Writing
  <2>5. init' = [init EXCEPT ![p].step = "write", ![p].done = init[p].done + 1]
    <3>1. \A d : [init EXCEPT ![p].done = d] = [init EXCEPT ![p].step = init[p].step, ![p].done = d]
      BY <2>1, OnlyStep
    <3> QED
      BY <2>1, <2>2, <3>1
  <2> QED
    BY <2>1, <2>3, <2>4, <2>5, <1>s, OwnStep
<1>5. CASE InsertVersion(p)
  <2>1. /\ init[p].step = "write" /\ init[p].done = Statements /\ UNCHANGED <<registered, tables>>
        /\ init' = [init EXCEPT ![p].step = "commit"]
    BY <1>5 DEF InsertVersion
  <2>2. init[p].next \in 1..SchemaVersion + 1 /\ init[p].next \notin 1..SchemaVersion
    BY <1>5, <2>1 DEF InsertVersion, MigrationsInv, InStep, Writing
  <2>3. init[p].next = SchemaVersion + 1
    BY <2>2
  <2> QED
    BY <2>1, <2>2, <2>3, <1>s, OnlyStep, OwnStep
<1>6. CASE Commit(p)
  BY <1>6, CommitKeeps
<1>7. CASE Rollback(p)
  <2>1. /\ init[p].step # "none" /\ UNCHANGED <<registered, tables>>
        /\ init' = [init EXCEPT ![p].step = "rejected", ![p].done = 0]
    BY <1>7 DEF Rollback
  <2> QED
    BY <2>1, <1>s, OwnStep
<1>8. CASE CheckHealth(p)
  <2>1. PICK s \in {"ready", "rejected"} :
            /\ init' = [init EXCEPT ![p].step = s]
            /\ s = "ready" => SchemaVersion = init[p].release
    BY <1>8 DEF CheckHealth
  <2>2. UNCHANGED <<registered, tables>> /\ init[p].step # "none"
    BY <1>8 DEF CheckHealth
  <2>3. s = "ready" => init[p].release <= SchemaVersion
    BY <2>1
  <2>4. s # "commit"
    OBVIOUS
  <2> QED
    BY <2>1, <2>2, <2>3, <2>4, <1>s, OnlyStep, OwnStep
<1>9. CASE Die(p)
  <2>1. NotStarted \in InitRow /\ InStep(NotStarted)
    BY DEF InitRow, InStep, NotStarted, Writing
  <2> QED
    BY <1>9, <2>1, OwnRow DEF Die
<1> QED
  BY <1>1, <1>2, <1>3, <1>4, <1>5, <1>6, <1>7, <1>8, <1>9 DEF DatabaseStep, MigrationStep

\* A step of a process is seen in its own row only, and a step that is not of opening ends
\* where it says.
LEMMA OthersRows ==
    ASSUME MigrationsInv, NEW p \in Processes, DatabaseStep(p)
    PROVE  \A q \in Processes \ {p} : init'[q] = init[q]
  BY DEF DatabaseStep, MigrationStep, Open, Reject, ReadVersion, Begin, Execute, InsertVersion, Commit, Rollback,
      CheckHealth, Die, MigrationsInv

LEMMA StepEnds ==
    ASSUME MigrationsInv, NEW p \in Processes, MigrationStep(p)
    PROVE  /\ init[p].step \in Writing \cup {"read", "migrate", "check"}
           /\ ReadVersion(p) => init'[p].step \in {"rejected", "migrate", "check"}
           /\ Begin(p) => \/ writer = Nobody /\ writer' = p /\ init'[p].step = "write"
                          \/ writer' = writer /\ init'[p].step = "rejected"
           /\ Execute(p) => init'[p].step = "write"
           /\ InsertVersion(p) => init'[p].step = "commit"
           /\ Commit(p) => init'[p].step \in {"check", "migrate"}
           /\ Rollback(p) => init'[p].step = "rejected"
           /\ CheckHealth(p) => init'[p].step \in {"ready", "rejected"}
<1>1. init[p].step \in Writing \cup {"read", "migrate", "check"}
  BY DEF MigrationStep, ReadVersion, Begin, Execute, InsertVersion, Commit, Rollback, CheckHealth, Writing
<1>2. init[p] \in [step : InitSteps, release : Releases, next : Nat, done : 0..Statements]
  BY <1>1, StartedRow DEF Writing, StartedRows
<1>3. \A x : [init EXCEPT ![p] = x][p] = x
  BY DEF MigrationsInv
<1>4. /\ \A s : [init[p] EXCEPT !.step = s].step = s
      /\ \A d : [init[p] EXCEPT !.done = d].step = init[p].step
      /\ \A s, d : [init[p] EXCEPT !.step = s, !.done = d].step = s
      /\ \A s, d : [init[p] EXCEPT !.next = d, !.step = s].step = s
      /\ \A s, d, e : [init[p] EXCEPT !.next = d, !.done = e, !.step = s].step = s
  BY <1>2
<1>5. Begin(p) => \/ writer = Nobody /\ writer' = p /\ init'[p].step = "write"
                  \/ writer' = writer /\ init'[p].step = "rejected"
  <2>1. \A s : [init EXCEPT ![p].step = s][p].step = s
    BY <1>3, <1>4
  <2> QED
    BY <2>1 DEF Begin, Reject
<1>6. ReadVersion(p) => init'[p].step \in {"rejected", "migrate", "check"}
  BY <1>3, <1>4 DEF ReadVersion
<1>7. Execute(p) => init'[p].step = "write"
  BY <1>3, <1>4 DEF Execute
<1>8. Commit(p) => init'[p].step \in {"check", "migrate"}
  BY <1>3, <1>4 DEF Commit
<1>9. InsertVersion(p) => init'[p].step = "commit"
  BY <1>3, <1>4 DEF InsertVersion
<1>10. Rollback(p) => init'[p].step = "rejected"
  BY <1>3, <1>4 DEF Rollback
<1>11. CheckHealth(p) => init'[p].step \in {"ready", "rejected"}
  BY <1>3, <1>4 DEF CheckHealth
<1> QED
  BY <1>1, <1>5, <1>6, <1>7, <1>8, <1>9, <1>10, <1>11

\* A process becomes ready only by looking at the whole schema of its own release.
LEMMA ReadyStep ==
    ASSUME MigrationsInv, NEW p \in Processes, NEW q \in Processes, DatabaseStep(p),
           init'[q].step = "ready", init[q].step # "ready"
    PROVE  registered' = 1..init[q].release
<1>1. p = q
  BY OthersRows
<1>2. ~Die(p) /\ ~(\E release \in Releases : Open(p, release))
  BY <1>1 DEF Die, Open, MigrationsInv, NotStarted
<1>3. MigrationStep(p) /\ CheckHealth(p)
  BY <1>1, <1>2, StepEnds DEF DatabaseStep, MigrationStep
<1>4. SchemaVersion = init[p].release /\ registered' = registered
  <2>1. \A s : [init EXCEPT ![p].step = s][p].step = s
    BY <1>3, StartedRow DEF CheckHealth, MigrationsInv
  <2> QED
    BY <1>1, <1>3, <2>1 DEF CheckHealth
<1> QED
  BY <1>1, <1>4, WholeSchema

LEMMA LockStep ==
    ASSUME MigrationsInv, LockInv, NEW p \in Processes, DatabaseStep(p),
           (\E release \in Releases : Open(p, release)) => init[p].step \notin Writing
    PROVE  LockInv'
<1>1. \A q \in Processes \ {p} : init'[q] = init[q]
  BY OthersRows
<1>2. ASSUME NEW release \in Releases, Open(p, release) PROVE LockInv'
  <2>1. init'[p].step \in {"read", "rejected"} /\ init[p].step \notin Writing /\ writer' = writer
    <3>1. PICK step \in {"read", "rejected"} : init' = [init EXCEPT ![p] =
            [step |-> step, release |-> release, next |-> 0, done |-> 0]]
      BY <1>2 DEF Open
    <3>2. init'[p].step = step
      BY <3>1 DEF MigrationsInv
    <3> QED
      BY <1>2, <3>2 DEF Open
  <2> QED
    BY <2>1, <1>1 DEF LockInv, Writing
<1>3. CASE ReadVersion(p) \/ CheckHealth(p)
  <2>1. init[p].step \notin Writing /\ init'[p].step \notin Writing /\ writer' = writer
    BY <1>3, StepEnds DEF ReadVersion, CheckHealth, Writing, MigrationStep
  <2> QED
    BY <2>1, <1>1 DEF LockInv
<1>4. CASE Begin(p)
  <2>1. init[p].step \notin Writing
    BY <1>4 DEF Begin, Writing
  <2>2. \/ writer = Nobody /\ writer' = p /\ init'[p].step = "write"
        \/ writer' = writer /\ init'[p].step = "rejected"
    BY <1>4, StepEnds DEF MigrationStep
  <2> QED
    BY <2>1, <2>2, <1>1, MigrationsAssumption DEF LockInv, Writing
<1>5. CASE Execute(p) \/ InsertVersion(p)
  <2>1. init[p].step \in Writing /\ init'[p].step \in Writing /\ writer' = writer
    BY <1>5, StepEnds DEF Execute, InsertVersion, Writing, MigrationStep
  <2> QED
    BY <2>1, <1>1 DEF LockInv
<1>6. CASE Commit(p) \/ Rollback(p)
  <2>1. init[p].step \in Writing /\ init'[p].step \notin Writing /\ writer' = Nobody
    BY <1>6, StepEnds DEF Commit, Rollback, Writing, MigrationStep
  <2>2. writer = p
    BY <2>1 DEF LockInv
  <2> QED
    BY <2>1, <2>2, <1>1, MigrationsAssumption DEF LockInv
<1>7. CASE Die(p)
  <2>1. init'[p].step \notin Writing /\ writer' = (IF writer = p THEN Nobody ELSE writer)
    BY <1>7 DEF Die, MigrationsInv, NotStarted, Writing
  <2> QED
    BY <2>1, <1>1, MigrationsAssumption DEF LockInv
<1> QED
  BY <1>2, <1>3, <1>4, <1>5, <1>6, <1>7 DEF DatabaseStep, MigrationStep

---------------------------------------------------------------------------
(* The models. *)

AskingSteps == {"preview", "list", "generate", "pull", "progress", "confirm", "read"}
EditingSteps == {"temporary", "compare", "replace", "reload"}
Names == Models \cup {NoModel}
Asking == [step : AskingSteps \cup Over, kind : {"select", "validate", "install"}, model : Names,
           dry : BOOLEAN, expected : Names, attempt : 1..2, ready : BOOLEAN]
Editing == [step : EditingSteps \cup Over, kind : {"select"}, model : Models, ready : BOOLEAN,
            original : Configuration]

\* What a command has done by the time it is at a step.
GoodRow(r) ==
    /\ r \in {Waiting} \cup Asking \cup Editing
    /\ r.step \in AskingSteps => r \in Asking /\ (r.kind # "validate" => r.model \in Models)
    /\ r.step = "preview" => r.kind = "select"
    /\ r.step \in {"pull", "progress", "confirm"} => r.kind = "install"
    /\ r.step = "read" => r.kind = "select" /\ r.ready
    /\ r.step \in EditingSteps => r \in Editing /\ r.ready

GoodServer(s) ==
    /\ s \in [up : BOOLEAN, installed : SUBSET {ReportedAs[m] : m \in Models}, pulling : SUBSET Models]
    /\ s.up = FALSE => s.pulling = {}

ModelsInv ==
    /\ file \in Configuration
    /\ GoodServer(server)
    /\ client \in [Clients -> {Waiting} \cup Asking \cup Editing]
    /\ \A c \in Clients : GoodRow(client[c])
    /\ temporaries \subseteq Clients /\ TemporariesAreOwned

LEMMA ModelsInitially == ModelsInit => ModelsInv
<1> SUFFICES ASSUME ModelsInit PROVE ModelsInv
  OBVIOUS
<1>1. Waiting \in {Waiting} \cup Asking \cup Editing /\ Waiting.step = "waiting"
  BY DEF Waiting
<1>2. GoodRow(Waiting)
  BY <1>1 DEF GoodRow, AskingSteps, EditingSteps
<1>3. GoodServer(server)
  BY DEF ModelsInit, GoodServer
<1> QED
  BY <1>1, <1>2, <1>3, LocalModelsAssumption DEF ModelsInit, ModelsInv, TemporariesAreOwned

LEMMA GoesOver ==
    ASSUME NEW r, GoodRow(r), r.step \in AskingSteps \cup EditingSteps, NEW s \in Over
    PROVE  GoodRow([r EXCEPT !.step = s]) /\ [r EXCEPT !.step = s].step = s
<1>1. r \in Asking \/ r \in Editing
  BY DEF GoodRow
<1>2. s \notin AskingSteps \cup EditingSteps
  BY DEF Over, AskingSteps, EditingSteps
<1>3. [r EXCEPT !.step = s] \in Asking \cup Editing /\ [r EXCEPT !.step = s].step = s
  BY <1>1 DEF Asking, Editing
<1> QED
  BY <1>2, <1>3 DEF GoodRow, AskingSteps, EditingSteps

LEMMA GoesAsking ==
    ASSUME NEW r, GoodRow(r), r.step \in AskingSteps, NEW s \in AskingSteps,
           s = "preview" => r.kind = "select",
           s \in {"pull", "progress", "confirm"} => r.kind = "install",
           s = "read" => r.kind = "select" /\ r.ready
    PROVE  GoodRow([r EXCEPT !.step = s]) /\ [r EXCEPT !.step = s].step = s
<1>1. r \in Asking /\ (r.kind # "validate" => r.model \in Models)
  BY DEF GoodRow
<1>2. s \notin EditingSteps
  BY DEF EditingSteps, AskingSteps
<1>3. /\ [r EXCEPT !.step = s] \in Asking /\ [r EXCEPT !.step = s].step = s
      /\ [r EXCEPT !.step = s].kind = r.kind /\ [r EXCEPT !.step = s].ready = r.ready
      /\ [r EXCEPT !.step = s].model = r.model
  BY <1>1 DEF Asking
<1> QED
  BY <1>1, <1>2, <1>3 DEF GoodRow

LEMMA GoesEditing ==
    ASSUME NEW r, GoodRow(r), r.step \in EditingSteps, NEW s \in EditingSteps
    PROVE  GoodRow([r EXCEPT !.step = s]) /\ [r EXCEPT !.step = s].step = s
<1>1. r \in Editing /\ r.ready
  BY DEF GoodRow
<1>2. s \notin AskingSteps
  BY DEF EditingSteps, AskingSteps
<1>3. /\ [r EXCEPT !.step = s] \in Editing /\ [r EXCEPT !.step = s].step = s
      /\ [r EXCEPT !.step = s].ready = r.ready
  BY <1>1 DEF Editing
<1> QED
  BY <1>1, <1>2, <1>3 DEF GoodRow, AskingSteps

\* A command changes its own row and no temporary file but its own.
LEMMA OwnClient ==
    ASSUME ModelsInv, NEW c \in Clients, NEW row, GoodRow(row), client' = [client EXCEPT ![c] = row],
           temporaries' \subseteq temporaries \cup {c},
           c \in temporaries' => row.step \in {"compare", "replace", "refused", "killed"},
           file' \in Configuration, GoodServer(server')
    PROVE  ModelsInv'
<1>1. \A d \in Clients : client'[d] = IF d = c THEN row ELSE client[d]
  BY DEF ModelsInv
<1>2. client' \in [Clients -> {Waiting} \cup Asking \cup Editing]
  BY DEF ModelsInv, GoodRow
<1>3. \A d \in Clients : GoodRow(client'[d])
  BY <1>1 DEF ModelsInv
<1>4. temporaries' \subseteq Clients /\ TemporariesAreOwned'
  BY <1>1 DEF ModelsInv, TemporariesAreOwned
<1> QED
  BY <1>2, <1>3, <1>4 DEF ModelsInv

\* Most steps only say where a command is, and hold no temporary file.
LEMMA OwnGo ==
    ASSUME ModelsInv, NEW c \in Clients, NEW s, Goes(c, s),
           GoodRow([client[c] EXCEPT !.step = s]) /\ [client[c] EXCEPT !.step = s].step = s,
           UNCHANGED temporaries, client[c].step \notin {"compare", "replace", "refused", "killed"},
           UNCHANGED file, GoodServer(server')
    PROVE  ModelsInv'
<1> DEFINE row == [client[c] EXCEPT !.step = s]
<1>1. client' = [client EXCEPT ![c] = row]
  BY DEF Goes
<1>2. c \notin temporaries
  BY DEF ModelsInv, TemporariesAreOwned
<1>3. file' \in Configuration
  BY DEF ModelsInv
<1>4. GoodRow(row)
  OBVIOUS
<1> HIDE DEF row
<1> QED
  BY <1>1, <1>2, <1>3, <1>4, OwnClient

\* An edit goes on or ends.
LEMMA EditGoes ==
    ASSUME NEW r, GoodRow(r), r.step \in EditingSteps, NEW s \in Over \cup EditingSteps
    PROVE  GoodRow([r EXCEPT !.step = s]) /\ [r EXCEPT !.step = s].step = s
  BY GoesOver, GoesEditing

\* A step of an edit may write the file, and make or remove the temporary file.
LEMMA OwnEdit ==
    ASSUME ModelsInv, NEW c \in Clients, NEW s, Goes(c, s),
           GoodRow([client[c] EXCEPT !.step = s]), [client[c] EXCEPT !.step = s].step = s,
           temporaries' \subseteq temporaries \cup {c},
           c \in temporaries' => s \in {"compare", "replace", "refused", "killed"},
           file' \in Configuration, GoodServer(server')
    PROVE  ModelsInv'
<1> DEFINE row == [client[c] EXCEPT !.step = s]
<1>1. client' = [client EXCEPT ![c] = row] /\ GoodRow(row) /\ row.step = s
  BY DEF Goes
<1> HIDE DEF row
<1> QED
  BY <1>1, OwnClient

LEMMA ModelsStepKeeps ==
    ASSUME ModelsInv, NEW c \in Clients, ModelsStep(c) \/ StartModels(c) \/ Kill(c)
    PROVE  ModelsInv'
<1> DEFINE r == client[c]
<1>r. GoodRow(r) /\ GoodServer(server) /\ file \in Configuration
  BY DEF ModelsInv
<1>0. /\ "refused" \in Over /\ "done" \in Over /\ "failed" \in Over /\ "killed" \in Over
      /\ "compare" \in EditingSteps /\ "replace" \in EditingSteps /\ "reload" \in EditingSteps
  BY DEF Over, EditingSteps
<1>1. CASE StartModels(c)
  <2>1. PICK kind \in {"select", "validate", "install"}, m \in Models \cup {NoModel}, dry \in BOOLEAN,
             step \in {"refused", "preview", "list"} :
        /\ m = NoModel => kind = "validate"
        /\ step = "preview" => kind = "select"
        /\ client' = [client EXCEPT ![c] =
                [step |-> step, kind |-> kind, model |-> IF m = NoModel THEN file.model ELSE m, dry |-> dry,
                 expected |-> file.model, attempt |-> 1, ready |-> FALSE]]
    BY <1>1, ZenonT(30) DEF StartModels
  <2> DEFINE row == [step |-> step, kind |-> kind, model |-> IF m = NoModel THEN file.model ELSE m,
                     dry |-> dry, expected |-> file.model, attempt |-> 1, ready |-> FALSE]
  <2>2. file.model \in Names
    BY <1>r DEF Configuration, Names
  <2>3. row \in Asking
    BY <2>2, <1>0 DEF Asking, AskingSteps, Names
  <2>4. row.step = step /\ row.kind = kind /\ (kind # "validate" => row.model \in Models)
    BY <2>1
  <2>5. GoodRow(row)
    BY <2>1, <2>3, <2>4, <1>0 DEF GoodRow, AskingSteps, EditingSteps, Over
  <2>6. c \notin temporaries
    BY <1>1 DEF StartModels, ModelsInv, TemporariesAreOwned
  <2>7. client' = [client EXCEPT ![c] = row] /\ UNCHANGED <<file, server, temporaries>>
    BY <1>1, <2>1 DEF StartModels, configuration, ollama
  <2> HIDE DEF row
  <2> QED
    BY <2>5, <2>6, <2>7, <1>r, OwnClient
<1>2. CASE ListModels(c)
  <2>1. PICK s \in {"refused", "done", "pull", "generate"} : Goes(c, s) /\ (s = "pull" => r.kind = "install")
    BY <1>2 DEF ListModels
  <2>2. r.step \in AskingSteps /\ r.step \notin {"compare", "replace", "refused", "killed"}
    BY <1>2 DEF ListModels, AskingSteps
  <2>3. GoodRow([r EXCEPT !.step = s]) /\ [r EXCEPT !.step = s].step = s
    <3>1. CASE s \in Over
      BY <3>1, <2>2, <1>r, GoesOver
    <3>2. CASE s \in {"pull", "generate"}
      <4>1. s \in AskingSteps /\ s # "preview" /\ s # "read"
        BY <3>2 DEF AskingSteps
      <4> HIDE DEF r
      <4> QED
        BY <4>1, <2>1, <2>2, <1>r, GoesAsking
    <3> QED
      BY <3>1, <3>2, <2>1, <1>0
  <2> QED
    BY <1>2, <1>r, <2>1, <2>2, <2>3, OwnGo DEF ListModels, configuration, ollama
<1>3. CASE Generate(c)
  <2>1. r.step = "generate" /\ r \in Asking /\ (r.kind # "validate" => r.model \in Models)
    BY <1>3, <1>r DEF Generate, GoodRow, AskingSteps
  <2>2. UNCHANGED <<file, server, temporaries>> /\ c \notin temporaries
    BY <1>3 DEF Generate, configuration, ollama, ModelsInv, TemporariesAreOwned
  <2>3. ASSUME NEW row \in Asking, client' = [client EXCEPT ![c] = row],
               row.kind = r.kind, row.model = r.model,
               row.step \in {"generate", "done", "refused"} \/ (row.step = "read" /\ r.kind = "select" /\ row.ready)
        PROVE  ModelsInv'
    <3>1. GoodRow(row)
      BY <2>1, <2>3 DEF GoodRow, AskingSteps, EditingSteps
    <3> QED
      BY <3>1, <2>2, <2>3, <1>r, OwnClient
  <2>4. CASE client' = [client EXCEPT ![c].ready = TRUE,
                  ![c].step = IF client[c].kind = "select" THEN "read" ELSE "done"]
    <3> DEFINE step == IF r.kind = "select" THEN "read" ELSE "done"
               row == [r EXCEPT !.ready = TRUE, !.step = step]
    <3>1. step \in AskingSteps \cup Over
      BY <1>0 DEF AskingSteps
    <3>2. row \in Asking /\ row.kind = r.kind /\ row.model = r.model /\ row.ready /\ row.step = step
      BY <2>1, <3>1 DEF Asking
    <3>3. client' = [client EXCEPT ![c] = row]
      BY <2>4
    <3>4. row.step = "done" \/ (row.step = "read" /\ r.kind = "select" /\ row.ready)
      BY <3>2
    <3> HIDE DEF row
    <3> QED
      BY <3>2, <3>3, <3>4, <2>3
  <2>5. CASE client' = [client EXCEPT ![c].attempt = 2]
    <3> DEFINE row == [r EXCEPT !.attempt = 2]
    <3>1. row \in Asking /\ row.kind = r.kind /\ row.model = r.model /\ row.step = r.step
      BY <2>1 DEF Asking
    <3>2. client' = [client EXCEPT ![c] = row]
      BY <2>5
    <3> HIDE DEF row
    <3> QED
      BY <3>1, <3>2, <2>1, <2>3
  <2>6. CASE Goes(c, "refused")
    <3>1. GoodRow([r EXCEPT !.step = "refused"]) /\ [r EXCEPT !.step = "refused"].step = "refused"
      BY <2>1, <1>r, <1>0, GoesOver DEF AskingSteps
    <3> QED
      BY <2>1, <2>2, <2>6, <3>1, <1>r, OwnGo
  <2> QED
    BY <1>3, <2>4, <2>5, <2>6 DEF Generate
<1>4. CASE Pull(c)
  <2>1. PICK s \in {"refused", "progress"} : Goes(c, s)
    BY <1>4 DEF Pull
  <2>2. r.step = "pull" /\ r.step \in AskingSteps /\ r.kind = "install" /\ r.model \in Models
    BY <1>4, <1>r DEF Pull, AskingSteps, GoodRow
  <2>3. GoodRow([r EXCEPT !.step = s]) /\ [r EXCEPT !.step = s].step = s
    <3>1. CASE s = "refused"
      BY <3>1, <2>2, <1>r, <1>0, GoesOver
    <3>2. CASE s = "progress"
      <4>1. "progress" \in AskingSteps
        BY DEF AskingSteps
      <4> HIDE DEF r
      <4> QED
        BY <3>2, <4>1, <2>2, <1>r, GoesAsking
    <3> QED
      BY <3>1, <3>2, <2>1
  <2>4. GoodServer(server')
    <3>1. server' = server \/ (server.up /\ server' = [server EXCEPT !.pulling = @ \cup {r.model}])
      BY <1>4 DEF Pull
    <3> QED
      BY <3>1, <2>2, <1>r DEF GoodServer
  <2> QED
    BY <1>4, <2>1, <2>2, <2>3, <2>4, OwnGo DEF Pull, configuration
<1>5. CASE PullEnds(c) \/ ConfirmInstall(c)
  <2>1. PICK s \in {"refused", "confirm", "done"} : Goes(c, s)
    BY <1>5 DEF PullEnds, ConfirmInstall
  <2>2. r.step \in {"progress", "confirm"} /\ r.step \in AskingSteps /\ r.kind = "install"
    BY <1>5, <1>r DEF PullEnds, ConfirmInstall, AskingSteps, GoodRow
  <2>3. GoodRow([r EXCEPT !.step = s]) /\ [r EXCEPT !.step = s].step = s
    <3>1. CASE s \in Over
      BY <3>1, <2>2, <1>r, GoesOver
    <3>2. CASE s = "confirm"
      <4>1. "confirm" \in AskingSteps
        BY DEF AskingSteps
      <4> HIDE DEF r
      <4> QED
        BY <3>2, <4>1, <2>2, <1>r, GoesAsking
    <3> QED
      BY <3>1, <3>2, <2>1, <1>0
  <2> QED
    BY <1>5, <1>r, <2>1, <2>2, <2>3, OwnGo DEF PullEnds, ConfirmInstall, configuration, ollama
<1>6. CASE Preview(c)
  <2>1. PICK s \in {"refused", "list", "done"} : Goes(c, s)
    BY <1>6 DEF Preview
  <2>2. r.step = "preview" /\ r.step \in AskingSteps
    BY <1>6 DEF Preview, AskingSteps
  <2>3. GoodRow([r EXCEPT !.step = s]) /\ [r EXCEPT !.step = s].step = s
    <3>1. CASE s \in Over
      BY <3>1, <2>2, <1>r, GoesOver
    <3>2. CASE s = "list"
      <4>1. "list" \in AskingSteps
        BY DEF AskingSteps
      <4> HIDE DEF r
      <4> QED
        BY <3>2, <4>1, <2>2, <1>r, GoesAsking
    <3> QED
      BY <3>1, <3>2, <2>1, <1>0
  <2> QED
    BY <1>6, <1>r, <2>1, <2>2, <2>3, OwnGo DEF Preview, configuration, ollama
<1>7. CASE ReadFile(c)
  <2>1. PICK step \in {"refused", "reload", "temporary"} : client' = [client EXCEPT ![c] =
            [step |-> step, kind |-> "select", model |-> r.model, ready |-> r.ready, original |-> file]]
    BY <1>7 DEF ReadFile
  <2> DEFINE row == [step |-> step, kind |-> "select", model |-> r.model, ready |-> r.ready, original |-> file]
  <2>2. r \in Asking /\ r.ready /\ r.model \in Models /\ r.ready \in BOOLEAN
    BY <1>7, <1>r DEF ReadFile, GoodRow, AskingSteps, Asking
  <2>3. row \in Editing /\ row.step = step /\ row.ready
    BY <2>2, <1>r, <1>0 DEF Editing, EditingSteps
  <2>4. GoodRow(row)
    BY <2>3, <2>1 DEF GoodRow, AskingSteps, EditingSteps
  <2>5. c \notin temporaries /\ UNCHANGED <<file, server, temporaries>>
    BY <1>7 DEF ReadFile, ModelsInv, TemporariesAreOwned, configuration, ollama
  <2>6. client' = [client EXCEPT ![c] = row]
    BY <2>1
  <2> HIDE DEF row
  <2> QED
    BY <2>4, <2>5, <2>6, <1>r, OwnClient
<1>8. CASE WriteTemporary(c)
  <2>1. PICK s \in {"refused", "compare"} : Goes(c, s)
    BY <1>8 DEF WriteTemporary
  <2>2. r.step = "temporary" /\ r.step \in EditingSteps
    BY <1>8 DEF WriteTemporary, EditingSteps
  <2>3. GoodRow([r EXCEPT !.step = s]) /\ [r EXCEPT !.step = s].step = s
    BY <2>1, <2>2, <1>r, <1>0, EditGoes
  <2>4. temporaries' \subseteq temporaries \cup {c} /\ UNCHANGED <<file, server>>
    BY <1>8 DEF WriteTemporary, ollama
  <2> QED
    BY <1>r, <2>1, <2>2, <2>3, <2>4, OwnEdit
<1>9. CASE Compare(c)
  <2>1. PICK s \in {"replace", "refused"} : Goes(c, s)
    BY <1>9 DEF Compare, GiveUp
  <2>2. r.step = "compare" /\ r.step \in EditingSteps /\ temporaries' \subseteq temporaries
    BY <1>9 DEF Compare, GiveUp, EditingSteps
  <2>3. UNCHANGED <<file, server>>
    BY <1>9 DEF Compare, ollama
  <2>4. GoodRow([r EXCEPT !.step = s]) /\ [r EXCEPT !.step = s].step = s
    BY <2>1, <2>2, <1>r, <1>0, EditGoes
  <2> QED
    BY <1>r, <2>1, <2>2, <2>3, <2>4, OwnEdit
<1>10. CASE Replace(c)
  <2>1. PICK s \in {"reload", "refused"} :
            /\ Goes(c, s)
            /\ file' = [r.original EXCEPT !.model = r.model] \/ file' = file
            /\ s = "reload" => c \notin temporaries'
    BY <1>10 DEF Replace, GiveUp
  <2>2. r.step = "replace" /\ r.step \in EditingSteps /\ r \in Editing
    BY <1>10, <1>r DEF Replace, EditingSteps, GoodRow
  <2>3. file' \in Configuration
    <3>1. r.original \in Configuration /\ r.model \in Models
      BY <2>2 DEF Editing
    <3>2. [r.original EXCEPT !.model = r.model] \in Configuration
      BY <3>1 DEF Configuration
    <3> QED
      BY <3>2, <2>1, <1>r
  <2>4. temporaries' \subseteq temporaries \cup {c} /\ server' = server
    BY <1>10 DEF Replace, GiveUp, ollama
  <2>5. GoodRow([r EXCEPT !.step = s]) /\ [r EXCEPT !.step = s].step = s
    BY <2>1, <2>2, <1>r, <1>0, EditGoes
  <2> QED
    BY <1>r, <2>1, <2>2, <2>3, <2>4, <2>5, OwnEdit
<1>11. CASE Reload(c)
  <2>1. PICK s \in {"done", "failed"} : Goes(c, s)
    BY <1>11 DEF Reload
  <2>2. r.step = "reload" /\ r.step \in EditingSteps
    BY <1>11 DEF Reload, EditingSteps
  <2>3. GoodRow([r EXCEPT !.step = s]) /\ [r EXCEPT !.step = s].step = s
    BY <2>1, <2>2, <1>r, <1>0, GoesOver
  <2> QED
    BY <1>11, <1>r, <2>1, <2>2, <2>3, OwnGo DEF Reload, configuration, ollama
<1>12. CASE Kill(c)
  <2>1. Goes(c, "killed") /\ temporaries' \subseteq temporaries \cup {c} /\ UNCHANGED <<file, server>>
    BY <1>12 DEF Kill, ollama
  <2>2. r.step \in AskingSteps \cup EditingSteps
    <3>1. r.step \notin Over /\ Waiting.step \in Over
      BY <1>12 DEF Kill, Over, Waiting
    <3>2. r \in Asking \cup Editing
      BY <3>1, <1>r DEF GoodRow
    <3> QED
      BY <3>1, <3>2 DEF Asking, Editing
  <2>3. GoodRow([r EXCEPT !.step = "killed"]) /\ [r EXCEPT !.step = "killed"].step = "killed"
    BY <2>2, <1>r, <1>0, GoesOver
  <2> QED
    BY <1>r, <2>1, <2>3, OwnEdit
<1> QED
  BY <1>1, <1>2, <1>3, <1>4, <1>5, <1>6, <1>7, <1>8, <1>9, <1>10, <1>11, <1>12 DEF ModelsStep

LEMMA OthersKeep == ASSUME ModelsInv, OthersMove PROVE ModelsInv'
<1>1. client' = client /\ temporaries' = temporaries
  BY DEF OthersMove, EditConfiguration, FinishPull, ServerChanges, configuration
<1>2. file' \in Configuration
  BY LocalModelsAssumption DEF OthersMove, EditConfiguration, FinishPull, ServerChanges, configuration,
      ModelsInv
<1>3. GoodServer(server')
  <2>1. CASE EditConfiguration
    BY <2>1 DEF EditConfiguration, ollama, ModelsInv
  <2>2. CASE FinishPull
    <3>1. PICK m \in server.pulling : server.up /\ server' = [server EXCEPT
                !.pulling = @ \ {m}, !.installed = @ \cup {ReportedAs[m]}]
      BY <2>2 DEF FinishPull
    <3>2. m \in Models
      BY DEF ModelsInv, GoodServer
    <3> QED
      BY <3>1, <3>2 DEF ModelsInv, GoodServer
  <2>3. CASE ServerChanges
    <3>1. CASE server' = [server EXCEPT !.up = ~@, !.pulling = {}]
      BY <3>1 DEF ModelsInv, GoodServer
    <3>2. CASE \E m \in server.installed : server' = [server EXCEPT !.installed = @ \ {m}]
      BY <3>2 DEF ModelsInv, GoodServer
    <3> QED
      BY <2>3, <3>1, <3>2 DEF ServerChanges
  <2> QED
    BY <2>1, <2>2, <2>3 DEF OthersMove
<1> QED
  BY <1>1, <1>2, <1>3 DEF ModelsInv, TemporariesAreOwned

LEMMA ModelsStay == ModelsInv /\ UNCHANGED modelVars => ModelsInv'
  BY DEF ModelsInv, modelVars, TemporariesAreOwned

LEMMA SchemaStays == MigrationsInv /\ LockInv /\ UNCHANGED migrationVars => MigrationsInv' /\ LockInv'
  BY DEF MigrationsInv, InStep, LockInv, migrationVars, SchemaVersion

---------------------------------------------------------------------------
(* The doctor, which sees both. *)

NotAsked == [step |-> "waiting"]
Asked == [step : {"database", "probe", "reported", "killed"}, failures : SUBSET Checked, warned : BOOLEAN,
          model : Names]

\* What a doctor found stays true: no directory disappears, and a process that was told that
\* the database is ready is not told otherwise.
GoodDoctor(d) ==
    /\ doctor[d].step = "waiting" => init[d].step = "none"
    /\ doctor[d].step # "waiting" => Checked \ doctor[d].failures \subseteq created
    /\ doctor[d].step = "database" => init[d].step # "none"
    /\ doctor[d].step \in {"probe", "reported"} /\ doctor[d].failures = {} => init[d].step = "ready"

DoctorInv ==
    /\ doctor \in [Processes -> {NotAsked} \cup Asked]
    /\ \A d \in Processes : GoodDoctor(d)
    /\ created \subseteq Directories
    /\ commands \in 0..MaxCommands

SetupInv == MigrationsInv /\ LockInv /\ ModelsInv /\ DoctorInv /\ edits \in Nat

\* The other processes see their rows as they were.
LEMMA OwnDoctor ==
    ASSUME DoctorInv, NEW d \in Processes, commands' \in 0..MaxCommands,
           created \subseteq created', created' \subseteq Directories,
           NEW row \in Asked, doctor' = [doctor EXCEPT ![d] = row],
           \A q \in Processes \ {d} : init'[q] = init[q],
           Checked \ row.failures \subseteq created',
           row.step = "database" => init'[d].step # "none",
           row.step \in {"probe", "reported"} /\ row.failures = {} => init'[d].step = "ready"
    PROVE  DoctorInv'
<1>1. \A q \in Processes : doctor'[q] = IF q = d THEN row ELSE doctor[q]
  BY DEF DoctorInv
<1>2. doctor' \in [Processes -> {NotAsked} \cup Asked]
  BY DEF DoctorInv
<1>3. row.step # "waiting"
  BY DEF Asked
<1>4. \A q \in Processes : GoodDoctor(q)'
  BY <1>1, <1>3 DEF DoctorInv, GoodDoctor
<1> QED
  BY <1>2, <1>4 DEF DoctorInv

LEMMA Counted == ASSUME DoctorInv, Starts PROVE commands' \in 0..MaxCommands
  BY SetupAssumption DEF Starts, DoctorInv

\* Where a doctor that has started stands.
LEMMA AskedRow ==
    ASSUME DoctorInv, NEW d \in Processes, doctor[d].step # "waiting"
    PROVE  /\ doctor[d] \in Asked /\ Checked \ doctor[d].failures \subseteq created
           /\ doctor[d].step = "database" => init[d].step # "none"
           /\ doctor[d].step \in {"probe", "reported"} /\ doctor[d].failures = {} => init[d].step = "ready"
  BY DEF DoctorInv, GoodDoctor, NotAsked

LEMMA DoctorStep == ASSUME SetupInv, Doctors PROVE SetupInv'
<1>i. MigrationsInv /\ LockInv /\ ModelsInv /\ DoctorInv
  BY DEF SetupInv
<1>1. PICK d \in Processes :
        \/ StartDoctor(d) \/ CheckDatabase(d) \/ ProbeOllama(d) \/ KillDoctor(d)
        \/ MigrationStep(d) /\ UNCHANGED <<modelVars, created, doctor, commands>>
  BY DEF Doctors
<1>2. ModelsInv'
  <2>1. UNCHANGED modelVars
    BY <1>1 DEF StartDoctor, CheckDatabase, ProbeOllama, KillDoctor
  <2> QED
    BY <1>i, <2>1, ModelsStay
<1>3. MigrationsInv' /\ LockInv'
  <2>1. CASE UNCHANGED migrationVars
    BY <1>i, <2>1, SchemaStays
  <2>2. CASE MigrationStep(d) \/ Die(d)
    <3>1. (\E release \in Releases : Open(d, release)) => init[d].step \notin Writing
      <4> SUFFICES ASSUME NEW release \in Releases, Open(d, release), init[d].step \in Writing PROVE FALSE
        OBVIOUS
      <4>1. writer' = writer /\ init'[d].step \in {"read", "rejected"} /\ init' # init /\ writer = d
        BY <1>i DEF Open, MigrationsInv, LockInv, Writing
      <4>2. CASE MigrationStep(d)
        <5>1. ~Rollback(d) /\ ~Commit(d)
          BY <4>1, MigrationsAssumption DEF Rollback, Commit
        <5>2. ~ReadVersion(d) /\ ~Begin(d) /\ ~CheckHealth(d)
          BY DEF ReadVersion, Begin, CheckHealth, Writing
        <5> QED
          BY <1>i, <4>1, <4>2, <5>1, <5>2, StepEnds DEF MigrationStep
      <4>3. CASE Die(d)
        BY <1>i, <4>1, <4>3 DEF Die, NotStarted, MigrationsInv
      <4> QED
        BY <2>2, <4>2, <4>3
    <3> QED
      BY <1>i, <2>2, <3>1, SchemaStep, LockStep DEF DatabaseStep
  <2>3. CASE StartDoctor(d) /\ \E release \in Releases : Open(d, release)
    <3>1. init[d].step = "none"
      BY <1>i, <2>3 DEF StartDoctor, DoctorInv, GoodDoctor
    <3> QED
      BY <1>i, <2>3, <3>1, SchemaStep, LockStep DEF DatabaseStep, Writing
  <2> QED
    BY <1>1, <2>1, <2>2, <2>3 DEF StartDoctor, CheckDatabase, ProbeOllama, KillDoctor
<1>4. DoctorInv'
  <2>0. \A q \in Processes \ {d} : init'[q] = init[q]
    BY <1>1, <1>i, OthersRows DEF DatabaseStep, StartDoctor, CheckDatabase, ProbeOllama, KillDoctor, migrationVars
  <2>s. created \subseteq Directories /\ commands \in 0..MaxCommands
    BY <1>i DEF DoctorInv
  <2>1. CASE StartDoctor(d)
    <3>1. PICK blocked \in {{}} \cup {{x} : x \in Directories} :
            /\ created' = created \cup (Directories \ blocked)
            /\ doctor' = [doctor EXCEPT ![d] =
                    [step |-> IF "database" \in blocked THEN "probe" ELSE "database",
                     failures |-> blocked \cap Checked, warned |-> FALSE, model |-> file.model]]
            /\ IF "database" \in blocked THEN UNCHANGED migrationVars
               ELSE \E release \in Releases : Open(d, release)
      BY <2>1 DEF StartDoctor
    <3> DEFINE row == [step |-> IF "database" \in blocked THEN "probe" ELSE "database",
                       failures |-> blocked \cap Checked, warned |-> FALSE, model |-> file.model]
    <3>m. file.model \in Names
      BY <1>i DEF ModelsInv, Configuration, Names
    <3>2. row \in Asked /\ row.failures = blocked \cap Checked
          /\ row.step = (IF "database" \in blocked THEN "probe" ELSE "database")
      BY <3>m DEF Asked
    <3>3. Checked \ row.failures \subseteq created' /\ created \subseteq created' /\ created' \subseteq Directories
      BY <3>1, <3>2, <2>s, SetupAssumption
    <3>4. "database" \notin blocked => init'[d].step # "none"
      BY <1>i, <3>1 DEF Open, MigrationsInv
    <3>5. "database" \in blocked => row.failures # {}
      BY <3>2, SetupAssumption
    <3>6. commands' \in 0..MaxCommands
      BY <1>i, <2>1, Counted DEF StartDoctor
    <3>7. doctor' = [doctor EXCEPT ![d] = row]
      BY <3>1
    <3> HIDE DEF row
    <3> QED
      BY <1>i, <2>0, <3>2, <3>3, <3>4, <3>5, <3>6, <3>7, OwnDoctor
  <2>2. CASE CheckDatabase(d)
    <3> DEFINE row == [doctor[d] EXCEPT !.step = "probe",
                       !.failures = @ \cup {x \in {"database"} : init[d].step = "rejected"}]
    <3>1. doctor[d] \in Asked /\ Checked \ doctor[d].failures \subseteq created
      BY <1>i, <2>2, AskedRow DEF CheckDatabase
    <3>2. row \in Asked /\ row.step = "probe"
          /\ row.failures = doctor[d].failures \cup {x \in {"database"} : init[d].step = "rejected"}
      BY <3>1, SetupAssumption DEF Asked
    <3>3. row.failures = {} => init[d].step = "ready"
      BY <2>2, <3>2 DEF CheckDatabase, Initialized
    <3>4. doctor' = [doctor EXCEPT ![d] = row] /\ init' = init /\ created' = created /\ commands' = commands
      BY <2>2 DEF CheckDatabase, migrationVars
    <3>5. Checked \ row.failures \subseteq created
      BY <3>1, <3>2
    <3> HIDE DEF row
    <3> QED
      BY <1>i, <2>0, <2>s, <3>2, <3>3, <3>4, <3>5, OwnDoctor
  <2>3. CASE ProbeOllama(d)
    <3>1. PICK answers \in {server.up, FALSE} :
            doctor' = [doctor EXCEPT ![d].step = "reported",
                ![d].warned = ~answers \/ doctor[d].model \notin server.installed]
      BY <2>3 DEF ProbeOllama
    <3> DEFINE row == [doctor[d] EXCEPT !.step = "reported",
                       !.warned = ~answers \/ doctor[d].model \notin server.installed]
    <3>2. /\ doctor[d] \in Asked /\ Checked \ doctor[d].failures \subseteq created
          /\ doctor[d].failures = {} => init[d].step = "ready"
      BY <1>i, <2>3, AskedRow DEF ProbeOllama
    <3>3. (~answers \/ doctor[d].model \notin server.installed) \in BOOLEAN
      OBVIOUS
    <3>4. row \in Asked /\ row.step = "reported" /\ row.failures = doctor[d].failures
      BY <3>2, <3>3 DEF Asked
    <3>5. doctor' = [doctor EXCEPT ![d] = row] /\ init' = init /\ created' = created /\ commands' = commands
      BY <2>3, <3>1 DEF ProbeOllama, migrationVars
    <3> HIDE DEF row
    <3> QED
      BY <1>i, <2>0, <2>s, <3>2, <3>4, <3>5, OwnDoctor
  <2>4. CASE KillDoctor(d)
    <3> DEFINE row == [doctor[d] EXCEPT !.step = "killed"]
    <3>1. doctor[d] \in Asked /\ Checked \ doctor[d].failures \subseteq created
      BY <1>i, <2>4, AskedRow DEF KillDoctor
    <3>2. row \in Asked /\ row.step = "killed" /\ row.failures = doctor[d].failures
      BY <3>1 DEF Asked
    <3>3. doctor' = [doctor EXCEPT ![d] = row] /\ created' = created /\ commands' = commands
      BY <2>4 DEF KillDoctor
    <3> HIDE DEF row
    <3> QED
      BY <1>i, <2>0, <2>s, <3>1, <3>2, <3>3, OwnDoctor
  <2>5. CASE MigrationStep(d) /\ UNCHANGED <<modelVars, created, doctor, commands>>
    <3>1. init[d].step \notin Initialized \cup {"none"}
      BY <1>i, <2>5, StepEnds DEF Initialized, Writing
    <3>2. init'[d].step # "none"
      BY <1>i, <2>5, StepEnds DEF MigrationStep
    <3>3. GoodDoctor(d)'
      BY <1>i, <2>5, <3>1, <3>2 DEF DoctorInv, GoodDoctor, Initialized
    <3>4. \A q \in Processes \ {d} : GoodDoctor(q)'
      BY <1>i, <2>0, <2>5 DEF DoctorInv, GoodDoctor
    <3> QED
      BY <1>i, <2>5, <3>3, <3>4 DEF DoctorInv
  <2> QED
    BY <1>1, <2>1, <2>2, <2>3, <2>4, <2>5
<1>5. edits' = edits
  BY <1>1 DEF StartDoctor, CheckDatabase, ProbeOllama, KillDoctor, modelVars
<1> QED
  BY <1>2, <1>3, <1>4, <1>5 DEF SetupInv

LEMMA SetupStep == ASSUME SetupInv, [SetupNext]_setupVars PROVE SetupInv'
<1>i. MigrationsInv /\ LockInv /\ ModelsInv /\ DoctorInv
  BY DEF SetupInv
<1>1. CASE Doctors
  BY <1>1, DoctorStep
<1>2. CASE ModelCommands \/ (OthersMove /\ UNCHANGED <<Elsewhere, commands>>)
  <2>1. ModelsInv'
    BY <1>i, <1>2, ModelsStepKeeps, OthersKeep DEF ModelCommands
  <2>2. UNCHANGED Elsewhere /\ commands' \in 0..MaxCommands
    BY <1>i, <1>2, Counted DEF ModelCommands, DoctorInv
  <2>3. MigrationsInv' /\ LockInv'
    BY <1>i, <2>2, SchemaStays DEF Elsewhere
  <2>4. DoctorInv'
    BY <1>i, <2>2 DEF Elsewhere, migrationVars, DoctorInv, GoodDoctor
  <2>5. edits' \in Nat
    <3>1. CASE ModelCommands
      <4>1. PICK c \in Clients : StartModels(c) \/ ModelsStep(c) \/ Kill(c)
        BY <3>1 DEF ModelCommands
      <4>2. edits' = edits
        BY <4>1 DEF StartModels, ModelsStep, Kill, ListModels, Generate, Pull, PullEnds, ConfirmInstall,
            Preview, ReadFile, WriteTemporary, Compare, Replace, Reload, configuration
      <4> QED
        BY <4>2 DEF SetupInv
    <3>2. CASE OthersMove
      <4>1. edits' = edits \/ edits' = edits + 1
        BY <3>2 DEF OthersMove, EditConfiguration, FinishPull, ServerChanges, configuration
      <4> QED
        BY <4>1 DEF SetupInv
    <3> QED
      BY <1>2, <3>1, <3>2
  <2> QED
    BY <2>1, <2>3, <2>4, <2>5 DEF SetupInv
<1>3. CASE UNCHANGED setupVars
  <2>1. UNCHANGED modelVars /\ UNCHANGED migrationVars
    BY <1>3 DEF setupVars
  <2>2. DoctorInv'
    BY <1>i, <1>3 DEF setupVars, migrationVars, DoctorInv, GoodDoctor
  <2> QED
    BY <1>i, <1>3, <2>1, <2>2, ModelsStay, SchemaStays DEF SetupInv, setupVars, modelVars
<1> QED
  BY <1>1, <1>2, <1>3 DEF SetupNext

LEMMA SetupStarts == SetupInit => SetupInv
<1> SUFFICES ASSUME SetupInit PROVE SetupInv
  OBVIOUS
<1>1. MigrationsInv /\ ModelsInv
  BY SchemaInit, ModelsInitially DEF SetupInit
<1>2. init = [p \in Processes |-> NotStarted] /\ writer = Nobody
  BY DEF SetupInit, MigrationsInit
<1>3. LockInv
  BY <1>2, MigrationsAssumption DEF LockInv, NotStarted, Writing
<1>4. doctor = [d \in Processes |-> NotAsked] /\ created = {} /\ commands = 0
  BY DEF SetupInit, NotAsked
<1>5. \A d \in Processes : GoodDoctor(d)
  BY <1>2, <1>4 DEF GoodDoctor, NotAsked, NotStarted
<1>6. DoctorInv
  BY <1>4, <1>5, SetupAssumption DEF DoctorInv
<1> QED
  BY <1>1, <1>3, <1>6 DEF SetupInv, SetupInit, ModelsInit

LEMMA AlwaysSetupInv == SetupSpec => []SetupInv
  BY SetupStarts, SetupStep, PTL DEF SetupSpec

---------------------------------------------------------------------------
\* However many doctors of however many releases race, fail and die next to however many
\* edits, what is committed is a whole schema, and the temporary files are those of edits that
\* did not reach the file.
THEOREM Prepared == SetupSpec => []SetupInvariant
<1>1. SetupInv => SetupInvariant
  <2> SUFFICES ASSUME SetupInv PROVE SetupInvariant
    OBVIOUS
  <2>i. MigrationsInv /\ LockInv /\ ModelsInv /\ DoctorInv
    BY DEF SetupInv
  <2>1. SchemaIsWhole /\ registered \subseteq Nat /\ tables \subseteq Nat \X Nat
    BY <2>i, WholeSchema, MigrationsAssumption DEF SchemaIsWhole
  <2>2. \A p \in Processes : init[p].step \in InitSteps \cup {"none"}
    BY <2>i DEF MigrationsInv, InitRow, NotStarted
  <2>3. MigrationsTypeOK
    BY <2>i, <2>1, <2>2 DEF MigrationsTypeOK, LockInv, InitSteps, Writing
  <2>4. \A c \in Clients : client[c].step \in Over \cup AskingSteps \cup EditingSteps
    <3>1. Waiting.step \in Over
      BY DEF Waiting, Over
    <3> QED
      BY <2>i, <3>1 DEF ModelsInv, Asking, Editing
  <2>5. LocalModelsTypeOK
    BY <2>i, <2>4 DEF LocalModelsTypeOK, ModelsInv, GoodServer, AskingSteps, EditingSteps
  <2>6. \A d \in Processes : doctor[d].step \in {"waiting", "database", "probe", "reported", "killed"}
    BY <2>i DEF DoctorInv, NotAsked, Asked
  <2> QED
    BY <2>i, <2>1, <2>3, <2>5, <2>6 DEF SetupInvariant, SetupTypeOK, ModelsInv, DoctorInv
<1> QED
  BY <1>1, AlwaysSetupInv, PTL

\* `doctor` without a failure: the directories exist and the schema has everything of the
\* release of that process, now and for ever.
THEOREM Healthy == SetupSpec => []HealthyIsReady
<1>1. SetupInv => HealthyIsReady
  <2> SUFFICES ASSUME SetupInv, NEW d \in Processes,
                      doctor[d].step = "reported", doctor[d].failures = {}
               PROVE  Checked \subseteq created /\ (1..init[d].release) \X (1..Statements) \subseteq tables
    BY DEF HealthyIsReady
  <2>1. Checked \subseteq created /\ init[d].step = "ready"
    BY DEF SetupInv, DoctorInv, GoodDoctor
  <2>2. init[d].release \in Nat /\ init[d].release <= SchemaVersion
    BY <2>1, StartedRow DEF SetupInv, InStep
  <2>3. SchemaVersion \in Nat /\ tables = (1..SchemaVersion) \X (1..Statements)
    BY WholeSchema DEF SetupInv
  <2>4. 1..init[d].release \subseteq 1..SchemaVersion
    BY <2>2, <2>3
  <2> QED
    BY <2>1, <2>3, <2>4
<1> QED
  BY <1>1, AlwaysSetupInv, PTL

LEMMA ReadyEarned ==
    ASSUME SetupInv, [SetupNext]_setupVars
    PROVE  [\A p \in Processes : init'[p].step = "ready" /\ init[p].step # "ready" =>
                registered' = 1..init[p].release]_migrationVars
<1>1. CASE UNCHANGED migrationVars
  BY <1>1
<1>2. ASSUME NEW d \in Processes, DatabaseStep(d)
      PROVE  \A p \in Processes : init'[p].step = "ready" /\ init[p].step # "ready" =>
                registered' = 1..init[p].release
  BY <1>2, ReadyStep DEF SetupInv
<1> QED
  BY <1>1, <1>2 DEF SetupNext, setupVars, Doctors, ModelCommands, Elsewhere, StartDoctor, CheckDatabase,
      ProbeOllama, KillDoctor, DatabaseStep

LEMMA SelectionEarned ==
    ASSUME SetupInv, [SetupNext]_setupVars, file' # file, edits' = edits
    PROVE  \E c \in Clients : client[c].step = "replace" /\ client[c].kind = "select" /\ client[c].ready
                /\ file'.model = client[c].model
<1>1. UNCHANGED modelVars \/ Doctors \/ OthersMove => FALSE
  <2>1. ~UNCHANGED modelVars
    BY DEF modelVars
  <2>2. ~EditConfiguration
    <3>1. edits + 1 # edits
      BY DEF SetupInv
    <3> QED
      BY <3>1 DEF EditConfiguration
  <2> QED
    BY <2>1, <2>2 DEF OthersMove, FinishPull, ServerChanges, configuration, Doctors, StartDoctor,
        CheckDatabase, ProbeOllama, KillDoctor
<1>2. PICK c \in Clients : StartModels(c) \/ ModelsStep(c) \/ Kill(c)
  BY <1>1 DEF SetupNext, ModelCommands, setupVars, modelVars
<1>3. Replace(c) /\ file' = [client[c].original EXCEPT !.model = client[c].model]
  BY <1>2 DEF StartModels, ModelsStep, Kill, ListModels, Generate, Pull, PullEnds, ConfirmInstall, Preview,
      ReadFile, WriteTemporary, Compare, Replace, Reload, GiveUp, configuration, ollama
<1>4. client[c] \in Editing /\ client[c].ready /\ client[c].step = "replace"
  BY <1>3 DEF SetupInv, ModelsInv, GoodRow, EditingSteps, Replace
<1>5. client[c].original \in Configuration /\ client[c].kind = "select"
  BY <1>4 DEF Editing
<1> QED
  BY <1>3, <1>4, <1>5 DEF Configuration

\* The step by which a command ends well, whichever command it is.
LEMMA OwnSuccess ==
    ASSUME SetupInv, [SetupNext]_setupVars, NEW c \in Clients,
           client'[c].step = "done", client[c].step # "done"
    PROVE  /\ client[c] \in Asking \cup Editing /\ GoodRow(client[c])
           /\ ListModels(c) \/ Generate(c) \/ ConfirmInstall(c) \/ Preview(c) \/ Reload(c)
<1>1. client' # client
  OBVIOUS
<1>2. PICK d \in Clients : StartModels(d) \/ ModelsStep(d) \/ Kill(d)
  BY <1>1 DEF SetupNext, setupVars, modelVars, ModelCommands, OthersMove, EditConfiguration, FinishPull,
      ServerChanges, configuration, Doctors, StartDoctor, CheckDatabase, ProbeOllama, KillDoctor
<1>3. d = c
  BY <1>2 DEF StartModels, ModelsStep, Kill, ListModels, Generate, Pull, PullEnds, ConfirmInstall, Preview,
      ReadFile, WriteTemporary, Compare, Replace, Reload, Goes, GiveUp, SetupInv, ModelsInv
<1>4. ~StartModels(c)
  <2> SUFFICES ASSUME StartModels(c) PROVE FALSE
    OBVIOUS
  <2>1. PICK kind \in {"select", "validate", "install"}, m \in Models \cup {NoModel}, dry \in BOOLEAN,
             step \in {"refused", "preview", "list"} :
        client' = [client EXCEPT ![c] =
                [step |-> step, kind |-> kind, model |-> IF m = NoModel THEN file.model ELSE m, dry |-> dry,
                 expected |-> file.model, attempt |-> 1, ready |-> FALSE]]
    BY ZenonT(30) DEF StartModels
  <2>2. client \in [Clients -> {Waiting} \cup Asking \cup Editing]
    BY DEF SetupInv, ModelsInv
  <2> QED
    BY <2>1, <2>2
<1>5. ModelsStep(c) \/ Kill(c)
  BY <1>2, <1>3, <1>4
<1>6. GoodRow(client[c]) /\ client[c] \in {Waiting} \cup Asking \cup Editing
  BY DEF SetupInv, ModelsInv, GoodRow
<1>7. client[c].step # "waiting"
  BY <1>5 DEF ModelsStep, Kill, Over, ListModels, Generate, Pull, PullEnds, ConfirmInstall, Preview, ReadFile,
      WriteTemporary, Compare, Replace, Reload
<1>8. client[c] \in Asking \cup Editing
  BY <1>6, <1>7 DEF Waiting
<1>9. \A s : Goes(c, s) => s = "done"
  BY <1>8 DEF Goes, Asking, Editing, SetupInv, ModelsInv
<1>10. ~ReadFile(c)
  <2> SUFFICES ASSUME ReadFile(c) PROVE FALSE
    OBVIOUS
  <2>1. PICK step \in {"refused", "reload", "temporary"} : client' = [client EXCEPT ![c] =
            [step |-> step, kind |-> "select", model |-> client[c].model, ready |-> client[c].ready,
             original |-> file]]
    BY DEF ReadFile
  <2> QED
    BY <2>1 DEF SetupInv, ModelsInv
<1> QED
  BY <1>5, <1>6, <1>8, <1>9, <1>10 DEF ModelsStep, Pull, PullEnds, WriteTemporary, Compare, Replace, GiveUp, Kill

LEMMA InstallationEarned ==
    ASSUME SetupInv, [SetupNext]_setupVars, NEW c \in Clients, Succeeds(c, "install"), ~client[c].dry
    PROVE  server.up /\ client[c].model \in server.installed
<1>1. /\ client[c] \in Asking \cup Editing /\ GoodRow(client[c]) /\ client[c].kind = "install"
      /\ ListModels(c) \/ Generate(c) \/ ConfirmInstall(c) \/ Preview(c) \/ Reload(c)
  BY OwnSuccess DEF Succeeds
<1>2. client[c] \in Asking /\ ~Preview(c) /\ ~Reload(c)
  BY <1>1 DEF Editing, GoodRow, EditingSteps, Preview, Reload
<1>3. \A s : Goes(c, s) => s = "done"
  BY <1>2 DEF Goes, Asking, Succeeds, SetupInv, ModelsInv
<1>4. CASE ListModels(c)
  BY <1>1, <1>3, <1>4 DEF ListModels
<1>5. CASE Generate(c)
  <2>1. \A x : [client[c] EXCEPT !.attempt = x].step = client[c].step
    BY <1>2 DEF Asking
  <2>2. ~(client' = [client EXCEPT ![c].attempt = 2])
    BY <2>1, <1>5 DEF Generate, Succeeds, SetupInv, ModelsInv
  <2> QED
    BY <1>3, <1>5, <2>2 DEF Generate
<1>6. CASE ConfirmInstall(c)
  BY <1>3, <1>6 DEF ConfirmInstall
<1> QED
  BY <1>1, <1>2, <1>4, <1>5, <1>6

LEMMA ReportEarned ==
    ASSUME SetupInv, [SetupNext]_setupVars, NEW c \in Clients
    PROVE  /\ Succeeds(c, "validate") => client'[c].ready
           /\ Succeeds(c, "select") /\ client[c].step # "preview" =>
                client'[c].ready /\ file.model = client[c].model
<1> SUFFICES ASSUME client'[c].step = "done", client[c].step # "done",
                    client[c].kind = "validate" \/ (client[c].kind = "select" /\ client[c].step # "preview")
             PROVE  /\ client'[c].ready
                    /\ client[c].kind = "select" => file.model = client[c].model
  BY DEF Succeeds
<1>1. /\ client[c] \in Asking \cup Editing /\ GoodRow(client[c])
      /\ ListModels(c) \/ Generate(c) \/ ConfirmInstall(c) \/ Preview(c) \/ Reload(c)
  BY OwnSuccess
<1>2. \A s : Goes(c, s) => s = "done"
  BY <1>1 DEF Goes, Asking, Editing, SetupInv, ModelsInv
<1>3. ~ListModels(c)
  BY <1>2 DEF ListModels
<1>4. ~ConfirmInstall(c) /\ ~Preview(c)
  BY <1>1 DEF ConfirmInstall, Preview, GoodRow
<1>5. CASE Generate(c)
  <2>1. client[c] \in Asking
    BY <1>1, <1>5 DEF GoodRow, Generate, AskingSteps
  <2>2. ~(client' = [client EXCEPT ![c].attempt = 2])
    <3>1. \A x : [client[c] EXCEPT !.attempt = x].step = client[c].step
      BY <2>1 DEF Asking
    <3> QED
      BY <3>1, <1>5 DEF Generate, SetupInv, ModelsInv
  <2>3. client' = [client EXCEPT ![c].ready = TRUE,
                  ![c].step = IF client[c].kind = "select" THEN "read" ELSE "done"]
    BY <1>2, <1>5, <2>2 DEF Generate
  <2>4. /\ client'[c].ready
        /\ client'[c].step = IF client[c].kind = "select" THEN "read" ELSE "done"
    <3>1. \A x : /\ [client[c] EXCEPT !.ready = TRUE, !.step = x].ready
                 /\ [client[c] EXCEPT !.ready = TRUE, !.step = x].step = x
      BY <2>1 DEF Asking
    <3> QED
      BY <2>3, <3>1 DEF SetupInv, ModelsInv
  <2> QED
    BY <2>4
<1>6. CASE Reload(c)
  <2>1. client[c] \in Editing /\ client[c].ready
    BY <1>1, <1>6 DEF Reload, GoodRow, EditingSteps
  <2>2. file.model = client[c].model /\ client' = [client EXCEPT ![c].step = "done"]
    BY <1>2, <1>6 DEF Reload, Goes
  <2>3. client'[c].ready
    <3>1. [client[c] EXCEPT !.step = "done"].ready = client[c].ready
      BY <2>1 DEF Editing
    <3> QED
      BY <2>1, <2>2, <3>1 DEF SetupInv, ModelsInv
  <2> QED
    BY <2>2, <2>3
<1> QED
  BY <1>1, <1>3, <1>4, <1>5, <1>6

\* A command reports only what happened: the schema is that of its release, the model that it
\* validated, or wrote into the file, had answered, the model that it installed was listed.
THEOREM Earned == SetupSpec => SuccessIsEarned
<1>1. SetupInv /\ [SetupNext]_setupVars =>
        [\A p \in Processes : init'[p].step = "ready" /\ init[p].step # "ready" =>
            registered' = 1..init[p].release]_migrationVars
  BY ReadyEarned
<1>2. SetupInv /\ [SetupNext]_setupVars =>
        [file' # file /\ edits' = edits =>
            \E c \in Clients : client[c].step = "replace" /\ client[c].kind = "select" /\ client[c].ready
                /\ file'.model = client[c].model]_modelVars
  BY SelectionEarned
<1>3. SetupInv /\ [SetupNext]_setupVars =>
        [\A c \in Clients : Succeeds(c, "install") /\ ~client[c].dry =>
            server.up /\ client[c].model \in server.installed]_modelVars
  BY InstallationEarned
<1>4. SetupInv /\ [SetupNext]_setupVars =>
        [\A c \in Clients :
            /\ Succeeds(c, "validate") => client'[c].ready
            /\ Succeeds(c, "select") /\ client[c].step # "preview" =>
                    client'[c].ready /\ file.model = client[c].model]_modelVars
  BY ReportEarned
<1>5. SetupSpec => ReadyIsCurrent
  BY <1>1, AlwaysSetupInv, PTL DEF SetupSpec, ReadyIsCurrent
<1>6. SetupSpec => SelectedHasAnswered
  BY <1>2, AlwaysSetupInv, PTL DEF SetupSpec, SelectedHasAnswered
<1>7. SetupSpec => InstalledIsListed
  BY <1>3, AlwaysSetupInv, PTL DEF SetupSpec, InstalledIsListed
<1>8. SetupSpec => ReportedIsSo
  BY <1>4, AlwaysSetupInv, PTL DEF SetupSpec, ReportedIsSo
<1> QED
  BY <1>5, <1>6, <1>7, <1>8 DEF SuccessIsEarned

=============================================================================
