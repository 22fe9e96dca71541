--------------------------- MODULE AnsweringProofs ---------------------------
(***************************************************************************)
(* What ask promises for any scenario, corpus, ranking and model.  First     *)
(* what is sent, what comes back and what is recorded, for which the choice  *)
(* of the context plays no part (AskInv).  Then what the pure functions of   *)
(* ContextSelection return: loops over sequences, sorting, the builder,      *)
(* trimming, the input budget, the repair, the fallback, the selection.      *)
(* Last the context of a run: it fits, it loses no text, and what was left   *)
(* out has a reason (ContextInv, SelectionInv).                              *)
(***************************************************************************)
EXTENDS Answering, FiniteSetTheorems, FunctionTheorems, SequenceTheorems, WellFoundedInduction, TLAPS

SearchSteps == {"manifest", "semantic", "keyword", "rank"}
EvidenceSteps == {"structured", "enrich", "graph", "select", "decide", "blocked", "confirm"}
ModelSteps == {"generate", "repair", "deliver"}
Statuses == {"completed", "insufficient_evidence", "error"}
QueryRow == [status : Statuses, told : BOOLEAN]
\* A row as a search that did not fail leaves it.
Untold(row) == row.status # "error" /\ ~row.told

One == \E t : calls = <<Call("generation", t)>>
Two == \E t, u : calls = <<Call("generation", t), Call("repair", u)>>
\* What let the calls of this operation happen.
LetThrough == preflight \in {"pass", "warning"} /\ (preflight = "warning" => accepted) /\ ~scenario.noLlm

\* Nothing is sent before the preflight, and no operation begins after something was.
CallsInv ==
    /\ step \in SearchSteps \cup EvidenceSteps \cup {"generate"} => calls = <<>>
    /\ step = "repair" => One
    /\ step = "deliver" => One \/ Two
    /\ calls = <<>> \/ One \/ Two
    /\ step \in ModelSteps \/ calls # <<>> => LetThrough

\* Each operation adds one row, by the end of its search; only a run that ends makes it an
\* error or writes its metrics.
RowsInv ==
    /\ rows \in Seq(QueryRow)
    /\ step \in SearchSteps => Len(rows) = operation - 1
    /\ step \in EvidenceSteps \cup ModelSteps => Len(rows) = operation
    /\ step # "ended" => \A k \in 1..Len(rows) : Untold(rows[k])
    /\ step = "ended" => RowsTellFailures

\* An answer is delivered as it was judged, with the context by which it was judged.
AnswerInv ==
    /\ step = "repair" => validation = "invalid"
    /\ step = "deliver" /\ validation = "valid" => answer \in Answers /\ Valid(answer, context)
    /\ step = "ended" /\ calls # <<>> /\ outcome.status = "completed" =>
            answer \in Answers /\ Valid(answer, context)

AskInv ==
    /\ step \in SearchSteps \cup EvidenceSteps \cup ModelSteps \cup {"ended"}
    /\ operation \in 1..2 /\ (step = "confirm" => ~accepted) /\ (operation = 2 => accepted)
    /\ CallsInv /\ RowsInv /\ AnswerInv

\* Reads and choices go from step to step and touch nothing of this.
LEMMA Quiet ==
    ASSUME AskInv, UNCHANGED <<scenario, operation, accepted, preflight, calls, rows>>,
           \/ step \in SearchSteps /\ step' \in SearchSteps
           \/ step \in EvidenceSteps /\ step' \in EvidenceSteps \ {"confirm"}
    PROVE  AskInv'
<1>1. CallsInv'
  BY DEF AskInv, CallsInv, One, Two, Call, LetThrough, SearchSteps, EvidenceSteps, ModelSteps
<1>2. RowsInv'
  BY DEF AskInv, RowsInv, SearchSteps, EvidenceSteps, ModelSteps
<1>3. AnswerInv'
  BY DEF AnswerInv, SearchSteps, EvidenceSteps
<1> QED
  BY <1>1, <1>2, <1>3 DEF AskInv, SearchSteps, EvidenceSteps

\* A run that ends before anything is sent.
LEMMA EndsUnsent ==
    ASSUME AskInv, step \in SearchSteps \cup EvidenceSteps, step' = "ended",
           UNCHANGED <<scenario, operation, accepted, preflight, calls>>, rows' \in Seq(QueryRow),
           RowsTellFailures'
    PROVE  AskInv'
<1>1. calls = <<>> /\ calls' = <<>>
  BY DEF AskInv, CallsInv
<1>2. CallsInv' /\ AnswerInv'
  BY <1>1 DEF CallsInv, AnswerInv, SearchSteps, EvidenceSteps, ModelSteps
<1>3. RowsInv'
  BY DEF RowsInv, SearchSteps, EvidenceSteps, ModelSteps
<1> QED
  BY <1>2, <1>3 DEF AskInv

LEMMA SearchKeeps == ASSUME AskInv, ReadManifest \/ SemanticSearch \/ KeywordSearch PROVE AskInv'
<1>1. step \in SearchSteps /\ step' \in SearchSteps
  BY DEF ReadManifest, SemanticSearch, KeywordSearch, SearchSteps
<1>2. UNCHANGED <<scenario, operation, accepted, modelVars, rows>>
  BY DEF ReadManifest, SemanticSearch, KeywordSearch
<1> QED
  BY <1>1, <1>2, Quiet DEF modelVars

LEMMA EvidenceKeeps ==
    ASSUME AskInv, RetrieveStructured \/ EnrichAgain \/ RetrieveGraph \/ SelectContext
    PROVE  AskInv'
<1>1. step \in EvidenceSteps /\ step' \in EvidenceSteps \ {"confirm"}
  BY DEF RetrieveStructured, EnrichAgain, RetrieveGraph, SelectContext, EvidenceSteps
<1>2. UNCHANGED <<scenario, operation, accepted, modelVars, rows>>
  BY DEF RetrieveStructured, EnrichAgain, RetrieveGraph, SelectContext
<1> QED
  BY <1>1, <1>2, Quiet DEF modelVars

LEMMA Ends ==
    ASSUME NEW status, NEW valid \in BOOLEAN, End(status, valid)
    PROVE  step' = "ended" /\ outcome'.status = status /\ (outcome'.exit = 0 <=> valid)
  BY DEF End

\* The row that the search writes.
LEMMA RankKeeps == ASSUME AskInv, Rank PROVE AskInv'
<1>1. step = "rank" /\ step' = "structured" /\ UNCHANGED <<scenario, operation, accepted, modelVars>>
  BY DEF Rank
<1>2. PICK s \in {"insufficient_evidence", "completed"} : rows' = Append(rows, Searched(s))
  BY DEF Rank
<1>3. rows \in Seq(QueryRow) /\ Len(rows) = operation - 1 /\ \A k \in 1..Len(rows) : Untold(rows[k])
  BY <1>1 DEF AskInv, RowsInv, SearchSteps
<1>4. /\ rows' \in Seq(QueryRow) /\ Len(rows') = operation
      /\ \A k \in 1..Len(rows') : Untold(rows'[k])
  <2>1. Searched(s) \in QueryRow /\ Untold(Searched(s)) /\ operation \in Nat
    BY DEF Statuses, Searched, QueryRow, Untold, AskInv
  <2> QED
    BY <1>2, <1>3, <2>1
<1>5. RowsInv'
  BY <1>1, <1>4 DEF RowsInv, SearchSteps, EvidenceSteps, ModelSteps
<1>6. CallsInv' /\ AnswerInv'
  BY <1>1 DEF AskInv, CallsInv, AnswerInv, One, Two, Call, LetThrough, SearchSteps, EvidenceSteps, ModelSteps,
      modelVars
<1> QED
  BY <1>1, <1>5, <1>6 DEF AskInv, SearchSteps, EvidenceSteps, ModelSteps

LEMMA FailureKeeps == ASSUME AskInv, SearchFails \/ EvidenceFails PROVE AskInv'
<1>1. /\ step \in SearchSteps \cup EvidenceSteps /\ step' = "ended"
      /\ UNCHANGED <<scenario, operation, accepted, preflight, calls>>
      /\ outcome' = [status |-> "raised", exit |-> 1]
  BY DEF SearchFails, EvidenceFails, Searching, SearchSteps, EvidenceSteps, modelVars
<1>2. /\ rows \in Seq(QueryRow) /\ \A k \in 1..Len(rows) : Untold(rows[k])
      /\ calls = <<>> /\ operation \in 1..2 /\ Len(rows) \in Nat
  BY <1>1 DEF AskInv, RowsInv, CallsInv, SearchSteps, EvidenceSteps, ModelSteps
<1>3. CASE rows' = Append(rows, Searched("error")) /\ Len(rows) = operation - 1
  <2>1. Searched("error") \in QueryRow /\ ~Searched("error").told
    BY DEF Searched, QueryRow, Statuses
  <2>2. /\ rows' \in Seq(QueryRow) /\ Len(rows') = operation
        /\ \A k \in 1..Len(rows') : ~rows'[k].told /\ (rows'[k].status = "error" => k = operation)
    BY <1>2, <1>3, <2>1 DEF Untold
  <2>3. RowsTellFailures'
    BY <1>1, <2>2 DEF RowsTellFailures
  <2> QED
    BY <1>1, <2>2, <2>3, EndsUnsent
<1>4. CASE rows' = rows
  <2>1. RowsTellFailures'
    BY <1>1, <1>2, <1>4 DEF RowsTellFailures, Untold
  <2> QED
    BY <1>1, <1>2, <1>4, <2>1, EndsUnsent
<1>5. CASE SearchFails
  <2>1. Len(rows) = operation - 1
    BY <1>5 DEF SearchFails, Searching, AskInv, RowsInv, SearchSteps
  <2> QED
    BY <1>3, <1>4, <1>5, <2>1 DEF SearchFails
<1>6. CASE EvidenceFails
  BY <1>4, <1>6 DEF EvidenceFails
<1> QED
  BY <1>5, <1>6

\* A run that ends in its operation, with its metrics or without.
LEMMA EndsTold ==
    ASSUME rows \in Seq(QueryRow), Len(rows) = operation, operation \in 1..2, operation' = operation,
           \A k \in 1..Len(rows) : Untold(rows[k]), NEW status \in {"insufficient_evidence", "completed", "error"},
           NEW valid \in BOOLEAN, EndTold(status, valid)
    PROVE  step' = "ended" /\ rows' \in Seq(QueryRow) /\ Len(rows') = Len(rows) /\ RowsTellFailures'
           /\ (outcome'.status \in {status, "raised"})
<1>1. CASE UNCHANGED rows /\ End("raised", FALSE)
  BY <1>1 DEF End, RowsTellFailures, Untold
<1>2. CASE rows' = SetLast(rows[Len(rows)].status) /\ End(status, valid)
  <2> DEFINE row == [status |-> rows[Len(rows)].status, told |-> TRUE]
  <2>1. row \in QueryRow /\ row.told /\ row.status # "error"
    <3>1. rows[Len(rows)] \in QueryRow /\ Untold(rows[Len(rows)])
      OBVIOUS
    <3> QED
      BY <3>1 DEF QueryRow, Untold
  <2>2. rows' = [rows EXCEPT ![Len(rows)] = row]
    BY <1>2 DEF SetLast
  <2> HIDE DEF row
  <2>3. /\ rows' \in Seq(QueryRow) /\ Len(rows') = operation /\ rows'[operation] = row
        /\ \A k \in 1..Len(rows') : k # operation => Untold(rows'[k])
    BY <2>1, <2>2
  <2>4. step' = "ended" /\ outcome'.status = status /\ status # "raised"
    BY <1>2 DEF End
  <2>5. RowsTellFailures'
    BY <2>1, <2>3, <2>4 DEF RowsTellFailures, Untold
  <2> QED
    BY <2>3, <2>4, <2>5
<1> QED
  BY <1>1, <1>2 DEF EndTold

LEMMA NoModelKeeps == ASSUME AskInv, AnswerWithoutModel \/ Stop PROVE AskInv'
<1>1. /\ step \in EvidenceSteps /\ UNCHANGED <<scenario, operation, accepted, preflight, calls>>
  BY DEF AnswerWithoutModel, Stop, EvidenceSteps, modelVars
<1>2. PICK status \in {"insufficient_evidence", "completed"}, valid \in BOOLEAN : EndTold(status, valid)
  BY DEF AnswerWithoutModel, Stop, EndTold
<1>3. /\ rows \in Seq(QueryRow) /\ Len(rows) = operation /\ operation \in 1..2
      /\ \A k \in 1..Len(rows) : Untold(rows[k])
  BY <1>1 DEF AskInv, RowsInv, SearchSteps, EvidenceSteps, ModelSteps
<1>4. step' = "ended" /\ rows' \in Seq(QueryRow) /\ RowsTellFailures'
  BY <1>1, <1>2, <1>3, EndsTold
<1> QED
  BY <1>1, <1>4, EndsUnsent

LEMMA PreflightKeeps == ASSUME AskInv, Preflight PROVE AskInv'
<1>1. /\ step = "decide" /\ ~scenario.noLlm /\ preflight' \in {"pass", "warning", "block"}
      /\ step' = AfterPreflight(preflight')
      /\ UNCHANGED <<scenario, operation, accepted, calls, rows>>
  BY DEF Preflight
<1>2. step' \in {"generate", "confirm", "blocked"}
      /\ (step' = "generate" => preflight' \in {"pass", "warning"} /\ (preflight' = "warning" => accepted))
      /\ (step' = "confirm" => ~accepted)
  BY <1>1 DEF AfterPreflight
<1>3. CallsInv'
  BY <1>1, <1>2 DEF AskInv, CallsInv, LetThrough, SearchSteps, EvidenceSteps, ModelSteps
<1>4. RowsInv'
  BY <1>1, <1>2 DEF AskInv, RowsInv, SearchSteps, EvidenceSteps, ModelSteps
<1> QED
  BY <1>1, <1>2, <1>3, <1>4 DEF AskInv, AnswerInv, SearchSteps, EvidenceSteps, ModelSteps

\* The user accepts: what was found is dropped, the row of the first search remains.
LEMMA AcceptKeeps == ASSUME AskInv, AcceptRisk PROVE AskInv'
<1>1. /\ step = "confirm" /\ step' = "manifest" /\ operation' = 2 /\ accepted' = TRUE
      /\ UNCHANGED <<scenario, calls, rows>>
  BY DEF AcceptRisk, AskAgain
<1>2. operation = 1
  BY <1>1 DEF AskInv
<1>3. calls' = <<>>
  BY <1>1 DEF AskInv, CallsInv, EvidenceSteps
<1>4. CallsInv'
  BY <1>1, <1>3 DEF CallsInv, ModelSteps
<1>5. RowsInv'
  BY <1>1, <1>2 DEF AskInv, RowsInv, SearchSteps, EvidenceSteps, ModelSteps
<1> QED
  BY <1>1, <1>4, <1>5 DEF AskInv, AnswerInv, SearchSteps

LEMMA GenerateKeeps == ASSUME AskInv, Generate PROVE AskInv'
<1>1. /\ step = "generate" /\ calls' = Append(calls, Call("generation", Prompt(context)))
      /\ UNCHANGED <<scenario, operation, accepted, preflight, context, rows>>
  BY DEF Generate, contextVars
<1>2. PICK a \in Answers : answer' = a /\ validation' = IF Valid(a, context) THEN "valid" ELSE "invalid"
  BY DEF Generate
<1>3. step' = IF validation' = "valid" THEN "deliver" ELSE "repair"
  BY DEF Generate
<1>4. calls = <<>> /\ LetThrough
  BY <1>1 DEF AskInv, CallsInv, ModelSteps
<1>5. One'
  <2>1. calls' = <<Call("generation", Prompt(context))>>
    BY <1>1, <1>4
  <2>2. Call("generation", Prompt(context))' = Call("generation", Prompt(context))
    BY <1>1 DEF Call
  <2>3. \A t : Call("generation", t)' = Call("generation", t)
    BY <1>1 DEF Call
  <2> QED
    BY <2>1, <2>3 DEF One
<1>6. CallsInv'
  BY <1>1, <1>3, <1>4, <1>5 DEF CallsInv, LetThrough, SearchSteps, EvidenceSteps, ModelSteps
<1>7. RowsInv'
  BY <1>1, <1>3 DEF AskInv, RowsInv, SearchSteps, EvidenceSteps, ModelSteps
<1>8. AnswerInv'
  BY <1>1, <1>2, <1>3 DEF AnswerInv
<1> QED
  BY <1>1, <1>3, <1>6, <1>7, <1>8 DEF AskInv, SearchSteps, EvidenceSteps, ModelSteps

LEMMA AppendToOne == ASSUME NEW x, NEW y PROVE Append(<<x>>, y) = <<x, y>>
<1>1. <<x>> \in Seq({x, y}) /\ Len(<<x>>) = 1 /\ <<x, y>> \in Seq({x, y}) /\ Len(<<x, y>>) = 2
  OBVIOUS
<1>2. Append(<<x>>, y) \in Seq({x, y}) /\ Len(Append(<<x>>, y)) = 2
  BY <1>1
<1>3. \A k \in 1..2 : Append(<<x>>, y)[k] = <<x, y>>[k]
  BY <1>1
<1> QED
  BY <1>1, <1>2, <1>3, SeqEqual

\* A second call, made or tried, follows a first.
LEMMA SecondCall ==
    ASSUME AskInv, step = "repair", NEW tokens, calls' = Append(calls, Call("repair", tokens)),
           UNCHANGED <<operation, accepted, preflight>>
    PROVE  Two'
<1>1. PICK t : calls = <<Call("generation", t)>>
  BY DEF AskInv, CallsInv, One
<1>2. calls' = <<Call("generation", t), Call("repair", tokens)>>
  BY <1>1, AppendToOne
<1>3. Call("generation", t)' = Call("generation", t) /\ Call("repair", tokens)' = Call("repair", tokens)
  BY DEF Call
<1> QED
  BY <1>2, <1>3 DEF Two, Call

LEMMA RepairKeeps == ASSUME AskInv, SkipRepair \/ Repair PROVE AskInv'
<1>1. /\ step = "repair" /\ step' = "deliver"
      /\ UNCHANGED <<scenario, operation, accepted, preflight, rows>>
  BY DEF SkipRepair, Repair
<1>2. LetThrough /\ One /\ validation = "invalid"
  BY <1>1 DEF AskInv, CallsInv, AnswerInv, ModelSteps
<1>3. One' \/ Two'
  <2>1. CASE SkipRepair
    BY <1>1, <1>2, <2>1 DEF SkipRepair, One, Call
  <2>2. CASE Repair
    BY <1>1, <2>2, SecondCall DEF Repair
  <2> QED
    BY <2>1, <2>2
<1>4. validation' = "valid" => answer' \in Answers /\ Valid(answer', context')
  BY <1>2 DEF SkipRepair, Repair, Judged
<1>5. CallsInv'
  BY <1>1, <1>2, <1>3 DEF CallsInv, LetThrough, SearchSteps, EvidenceSteps, ModelSteps
<1>6. RowsInv'
  BY <1>1 DEF AskInv, RowsInv, SearchSteps, EvidenceSteps, ModelSteps
<1>7. AnswerInv'
  BY <1>1, <1>4 DEF AnswerInv
<1> QED
  BY <1>1, <1>5, <1>6, <1>7 DEF AskInv, SearchSteps, EvidenceSteps, ModelSteps

LEMMA CallFailsKeeps == ASSUME AskInv, CallFails PROVE AskInv'
<1>1. /\ step \in {"generate", "repair"} /\ End("raised", FALSE) /\ rows' \in {rows, SetLast("error")}
      /\ UNCHANGED <<scenario, operation, accepted, preflight>>
  BY DEF CallFails
<1>2. step' = "ended" /\ outcome'.status = "raised" /\ outcome'.exit # 0
  BY <1>1, Ends
<1>3. LetThrough
  BY <1>1 DEF AskInv, CallsInv, ModelSteps
<1>4. One' \/ Two'
  <2>1. CASE step = "generate"
    <3>1. calls = <<>> /\ calls' = Append(calls, Call("generation", Prompt(context)))
      BY <2>1 DEF AskInv, CallsInv, CallFails
    <3>2. \A t : Call("generation", t)' = Call("generation", t)
      BY <1>1 DEF Call
    <3>3. calls' = <<Call("generation", Prompt(context))>>
      BY <3>1
    <3> QED
      BY <3>2, <3>3 DEF One
  <2>2. CASE step = "repair"
    BY <1>1, <2>2, SecondCall DEF CallFails
  <2> QED
    BY <1>1, <2>1, <2>2
<1>5. CallsInv'
  BY <1>1, <1>2, <1>3, <1>4 DEF CallsInv, LetThrough, SearchSteps, EvidenceSteps, ModelSteps
<1>6. /\ rows \in Seq(QueryRow) /\ Len(rows) = operation /\ operation \in 1..2
      /\ \A k \in 1..Len(rows) : Untold(rows[k])
  BY <1>1 DEF AskInv, RowsInv, ModelSteps
<1>7. rows' \in Seq(QueryRow) /\ RowsTellFailures'
  <2>1. CASE rows' = rows
    BY <1>1, <1>2, <1>6, <2>1 DEF RowsTellFailures, Untold
  <2>2. CASE rows' = SetLast("error")
    <3> DEFINE row == [status |-> "error", told |-> TRUE]
    <3>1. row \in QueryRow /\ row.told /\ row.status = "error"
      BY DEF QueryRow, Statuses
    <3>2. rows' = [rows EXCEPT ![Len(rows)] = row]
      BY <2>2 DEF SetLast
    <3> HIDE DEF row
    <3>3. /\ rows' \in Seq(QueryRow) /\ Len(rows') = operation /\ rows'[operation] = row
          /\ \A k \in 1..Len(rows') : k # operation => Untold(rows'[k])
      BY <1>6, <3>1, <3>2
    <3>4. RowsTellFailures'
      BY <1>1, <1>2, <3>1, <3>3 DEF RowsTellFailures, Untold
    <3> QED
      BY <3>3, <3>4
  <2> QED
    BY <1>1, <2>1, <2>2
<1>8. RowsInv'
  BY <1>2, <1>7 DEF RowsInv, SearchSteps, EvidenceSteps, ModelSteps
<1> QED
  BY <1>1, <1>2, <1>5, <1>8 DEF AskInv, AnswerInv

LEMMA DeliverKeeps == ASSUME AskInv, Deliver PROVE AskInv'
<1>1. /\ step = "deliver"
      /\ UNCHANGED <<scenario, operation, accepted, preflight, calls, answer, validation, context>>
      /\ EndTold(IF validation = "valid" THEN "completed" ELSE "error", validation = "valid")
  BY DEF Deliver, contextVars, modelVars
<1>2. step' = "ended" /\ (outcome'.status = "completed" => validation = "valid")
  BY <1>1 DEF EndTold, End
<1>3. CallsInv'
  BY <1>1, <1>2 DEF AskInv, CallsInv, One, Two, Call, LetThrough, SearchSteps, EvidenceSteps, ModelSteps
<1>4. /\ rows \in Seq(QueryRow) /\ Len(rows) = operation /\ operation \in 1..2
      /\ \A k \in 1..Len(rows) : Untold(rows[k])
  BY <1>1 DEF AskInv, RowsInv, ModelSteps
<1>5. PICK status \in {"insufficient_evidence", "completed", "error"}, valid \in BOOLEAN : EndTold(status, valid)
  BY <1>1
<1>6. RowsInv'
  <2>1. rows' \in Seq(QueryRow) /\ RowsTellFailures'
    BY <1>1, <1>4, <1>5, EndsTold
  <2> QED
    BY <1>2, <2>1 DEF RowsInv, SearchSteps, EvidenceSteps, ModelSteps
<1>7. AnswerInv'
  BY <1>1, <1>2 DEF AskInv, AnswerInv
<1> QED
  BY <1>1, <1>2, <1>3, <1>6, <1>7 DEF AskInv

\* Other processes commit while the command reads.
LEMMA ChangeKeeps == ASSUME AskInv, Change PROVE AskInv'
<1>1. /\ step \in SearchSteps \cup (EvidenceSteps \ {"confirm"}) /\ step' = step
      /\ UNCHANGED <<scenario, operation, accepted, preflight, calls, rows>>
  BY DEF Change, Reading, SearchSteps, EvidenceSteps, modelVars
<1> QED
  BY <1>1, Quiet

LEMMA AskStarts == AskInit => AskInv
  BY DEF AskInit, Fresh, AskInv, CallsInv, RowsInv, AnswerInv, SearchSteps, EvidenceSteps, ModelSteps

LEMMA AskStays == AskInv /\ UNCHANGED askVars => AskInv'
  BY DEF AskInv, askVars, modelVars, contextVars, CallsInv, RowsInv, AnswerInv, One, Two, Call, LetThrough,
      RowsTellFailures, Valid

LEMMA AskStep == AskInv /\ [AskNext]_askVars => AskInv'
  BY SearchKeeps, EvidenceKeeps, RankKeeps, FailureKeeps, NoModelKeeps, PreflightKeeps, AcceptKeeps,
      GenerateKeeps, RepairKeeps, CallFailsKeeps, DeliverKeeps, ChangeKeeps, AskStays DEF AskNext, Act

LEMMA AlwaysAskInv == AskSpec => []AskInv
  BY AskStarts, AskStep, PTL DEF AskSpec

---------------------------------------------------------------------------
\* At most two prompts leave the machine, a generation and a repair, in the operation that the
\* preflight let through and, after a warning, with the consent of the user; none with --no-llm.
THEOREM Authorized == AskSpec => []CallsAreAuthorized
<1>1. AskInv => CallsAreAuthorized
  <2> SUFFICES ASSUME AskInv PROVE CallsAreAuthorized
    OBVIOUS
  <2>1. CASE calls = <<>>
    BY <2>1 DEF CallsAreAuthorized
  <2>2. CASE One
    BY <2>2 DEF AskInv, CallsInv, One, Call, LetThrough, CallsAreAuthorized
  <2>3. CASE Two
    BY <2>3 DEF AskInv, CallsInv, Two, Call, LetThrough, CallsAreAuthorized
  <2> QED
    BY <2>1, <2>2, <2>3 DEF AskInv, CallsInv
<1> QED
  BY <1>1, AlwaysAskInv, PTL

\* Whatever fails, the writes of the row included: a row of rag_queries with metrics is that of
\* the operation that ended the run and is an error exactly if the run raised; a run that
\* answers has one; and no operation follows a failed search.
THEOREM FailuresAreRecorded == AskSpec => []RowsTellFailures
<1>1. AskInv => RowsTellFailures
  <2> SUFFICES ASSUME AskInv, step # "ended" PROVE RowsTellFailures
    BY DEF AskInv, RowsInv
  <2>1. rows \in Seq(QueryRow) /\ \A k \in 1..Len(rows) : Untold(rows[k])
    BY DEF AskInv, RowsInv
  <2> QED
    BY <2>1 DEF RowsTellFailures, Untold
<1> QED
  BY <1>1, AlwaysAskInv, PTL

\* A judgement in favour: what each claim of the answer needs.
LEMMA ValidIsGrounded ==
    ASSUME NEW a \in Answers, NEW ctx, Valid(a, ctx)
    PROVE  /\ a # NoAnswer
           /\ Cites(a) \subseteq DOMAIN ctx.sources
           /\ AnswersQuestion(ctx) =>
                \A block \in a :
                    /\ UNION {s.terms : s \in block} # {} => UNION {s.cites : s \in block} # {}
                    /\ \A s \in block :
                        s.cites # {} /\ s.terms # {} /\ ~s.insufficient =>
                            \/ s.terms \cap TextOf(ctx, s.cites) # {}
                            \/ s.absent # {} /\ s.absent \cap TextOf(ctx, s.cites) = {}
<1>1. a # NoAnswer
  BY DEF Valid, Cites, NoAnswer
<1>2. Cites(a) \subseteq DOMAIN ctx.sources
  BY DEF Valid, Allowed
<1>3. ASSUME AnswersQuestion(ctx), NEW block \in a, UNION {s.terms : s \in block} # {}
      PROVE  UNION {s.cites : s \in block} # {}
  BY <1>3 DEF Valid, Unsupported, Uncited
<1>4. ASSUME AnswersQuestion(ctx), NEW block \in a, NEW s \in block,
             s.cites # {}, s.terms # {}, ~s.insufficient
      PROVE  \/ s.terms \cap TextOf(ctx, s.cites) # {}
             \/ s.absent # {} /\ s.absent \cap TextOf(ctx, s.cites) = {}
  <2>1. Supported(s, ctx)
    BY <1>4 DEF Valid, Unsupported
  <2>2. SUFFICES ASSUME s.terms \cap TextOf(ctx, s.cites) = {},
                        ~(s.absent # {} /\ s.absent \cap TextOf(ctx, s.cites) = {})
                 PROVE  FALSE
    OBVIOUS
  <2>3. Cardinality({}) >= (IF Cardinality(s.terms) < 2 THEN Cardinality(s.terms) ELSE 2)
    <3>1. s.terms \cap Long \cap TextOf(ctx, s.cites) = {}
      BY <2>2
    <3> QED
      BY <2>1, <2>2, <3>1 DEF Supported
  <2>4. IsFiniteSet(s.terms)
    BY <1>4, AnswersAreFinite
  <2>5. Cardinality({}) = 0 /\ Cardinality(s.terms) \in Nat /\ Cardinality(s.terms) # 0
    BY <1>4, <2>4, FS_EmptySet, FS_CardinalityType
  <2> QED
    BY <2>3, <2>5
<1> QED
  BY <1>1, <1>2, <1>3, <1>4

\* Whatever the model writes, an answer delivered as good cites only sources shown with it, and
\* each of its claims has text there, of the prompt by which it was judged.
THEOREM Grounded == AskSpec => []AnswersAreGrounded
<1>1. AskInv => AnswersAreGrounded
  <2> SUFFICES ASSUME AskInv, step = "ended" /\ calls # <<>> /\ outcome.status = "completed"
               PROVE  AnswersAreGrounded
    BY DEF AnswersAreGrounded
  <2>1. answer \in Answers /\ Valid(answer, context)
    BY DEF AskInv, AnswerInv
  <2> QED
    BY <2>1, ValidIsGrounded DEF AnswersAreGrounded
<1> QED
  BY <1>1, AlwaysAskInv, PTL

---------------------------------------------------------------------------
(* Loops and orders.                                                        *)

LEMMA Least ==
    ASSUME NEW T, T \subseteq Nat, T # {}
    PROVE  \E x \in T : \A y \in T : x <= y
<1> DEFINE R == OpToRel(<, Nat)
<1>1. IsWellFoundedOn(R, Nat)
  BY NatLessThanWellFounded
<1>2. PICK x \in T : \A y \in T : <<y, x>> \notin R
  <2> HIDE DEF R
  <2> QED
    BY <1>1, WFMin
<1>3. \A y \in T : ~(y < x)
  BY <1>2 DEF OpToRel
<1>4. \A y \in T : x \in Nat /\ y \in Nat
  OBVIOUS
<1>5. \A y \in T : x <= y
  <2> HIDE DEF R
  <2> TAKE y \in T
  <2> QED
    BY <1>3, <1>4
<1> QED
  BY <1>5

\* What holds at first and is kept by each round holds after all of them.
LEMMA Rounds ==
    ASSUME NEW n \in Nat, NEW G, 0 \in G, \A k \in 1..n : k - 1 \in G => k \in G
    PROVE  0..n \subseteq G
<1> DEFINE T == {k \in 0..n : k \notin G}
<1>1. CASE T = {}
  BY <1>1
<1>2. CASE T # {}
  <2>1. T \subseteq Nat
    OBVIOUS
  <2>2. PICK x \in T : \A y \in T : x <= y
    <3> HIDE DEF T
    <3> QED
      BY <1>2, <2>1, Least
  <2>3. x \in 1..n /\ x - 1 \in 0..n /\ ~(x <= x - 1)
    OBVIOUS
  <2> QED
    BY <2>2, <2>3
<1> QED
  BY <1>1, <1>2

Loops(f, F, base, seq) ==
    f[0] = base /\ \A k \in 1..Len(seq) : f[k] = F[<<f[k - 1], seq[k]>>]

\* A loop whose rounds stay among some results has a history.
LEMMA LoopExists ==
    ASSUME NEW S, NEW T, NEW F \in [S \X T -> S], NEW base \in S, NEW seq \in Seq(T)
    PROVE  \E f \in [0..Len(seq) -> S] : Loops(f, F, base, seq)
<1> DEFINE Upto(n) == \E f \in [0..n -> S] :
                        f[0] = base /\ \A k \in 1..n : f[k] = F[<<f[k - 1], seq[k]>>]
           G == {n \in 0..Len(seq) : Upto(n)}
<1>1. Len(seq) \in Nat /\ \A k \in 1..Len(seq) : seq[k] \in T
  OBVIOUS
<1>2. 0 \in G
  <2> DEFINE f == [n \in 0..0 |-> base]
  <2>1. f \in [0..0 -> S] /\ f[0] = base /\ \A k \in 1..0 : f[k] = F[<<f[k - 1], seq[k]>>]
    OBVIOUS
  <2>2. Upto(0)
    BY <2>1
  <2> QED
    BY <1>1, <2>2
<1>3. ASSUME NEW m \in 1..Len(seq), m - 1 \in G PROVE m \in G
  <2>1. PICK g \in [0..(m - 1) -> S] :
            g[0] = base /\ \A k \in 1..(m - 1) : g[k] = F[<<g[k - 1], seq[k]>>]
    BY <1>3
  <2> DEFINE f == [k \in 0..m |-> IF k = m THEN F[<<g[m - 1], seq[m]>>] ELSE g[k]]
  <2>2. m \in Nat /\ m - 1 \in Nat /\ m # 0 /\ m - 1 \in 0..(m - 1) /\ m \in 0..Len(seq)
    BY <1>1
  <2>3. \A k \in 0..m : k = m \/ (k \in 0..(m - 1) /\ k # m)
    BY <2>2
  <2>4. f \in [0..m -> S]
    BY <1>1, <2>1, <2>2, <2>3
  <2>5. f[0] = base
    BY <2>1, <2>2
  <2>6. ASSUME NEW k \in 1..m PROVE f[k] = F[<<f[k - 1], seq[k]>>]
    <3>1. k - 1 \in 0..m /\ k - 1 # m /\ k \in 0..m /\ f[k - 1] = g[k - 1]
      BY <2>2, <2>6
    <3>2. CASE k = m
      BY <3>1, <3>2
    <3>3. CASE k # m
      <4>1. k \in 1..(m - 1) /\ f[k] = g[k]
        BY <2>2, <3>1, <3>3
      <4> QED
        BY <2>1, <3>1, <4>1
    <3> QED
      BY <3>2, <3>3
  <2> HIDE DEF f
  <2>7. Upto(m)
    BY <2>4, <2>5, <2>6
  <2> QED
    BY <2>2, <2>7
<1>4. 0..Len(seq) \subseteq G
  <2> HIDE DEF G
  <2> QED
    BY <1>1, <1>2, <1>3, Rounds
<1>5. Upto(Len(seq))
  BY <1>1, <1>4
<1> QED
  BY <1>5 DEF Loops

LEMMA SumIsNumber ==
    ASSUME NEW S \in {Int, Nat}, NEW seq \in Seq(S)
    PROVE  Sum(seq) \in S
<1> DEFINE F == [p \in S \X S |-> p[1] + p[2]]
           Recurs(g) == g = [k \in 0..Len(seq) |-> IF k = 0 THEN 0 ELSE g[k - 1] + seq[k]]
           acc == CHOOSE g : Recurs(g)
           G == {k \in 0..Len(seq) : acc[k] \in S}
<1>1. Len(seq) \in Nat /\ \A k \in 1..Len(seq) : seq[k] \in S
  OBVIOUS
<1>2. PICK f \in [0..Len(seq) -> S] : Loops(f, F, 0, seq)
  <2>1. F \in [S \X S -> S] /\ 0 \in S
    OBVIOUS
  <2> QED
    BY <2>1, LoopExists
<1>3. Recurs(f)
  <2>1. ASSUME NEW k \in 0..Len(seq) PROVE f[k] = IF k = 0 THEN 0 ELSE f[k - 1] + seq[k]
    <3>1. CASE k # 0
      <4>1. k \in 1..Len(seq) /\ k - 1 \in 0..Len(seq)
        BY <1>1, <3>1
      <4> QED
        BY <1>1, <1>2, <3>1, <4>1 DEF Loops
    <3> QED
      BY <1>2, <3>1 DEF Loops
  <2> QED
    BY <2>1
<1>4. Recurs(acc)
  BY <1>3
<1>5. Sum(seq) = acc[Len(seq)]
  BY DEF Sum, Folded
<1> HIDE DEF acc
<1>6. 0 \in G
  BY <1>1, <1>4
<1>7. ASSUME NEW k \in 1..Len(seq), k - 1 \in G PROVE k \in G
  <2>1. k \in 0..Len(seq) /\ k # 0
    BY <1>1
  <2>2. acc[k] = acc[k - 1] + seq[k]
    BY <1>4, <2>1
  <2>3. acc[k - 1] \in S /\ seq[k] \in S
    BY <1>1, <1>7
  <2> QED
    BY <2>1, <2>2, <2>3
<1>8. 0..Len(seq) \subseteq G
  <2> HIDE DEF G
  <2> QED
    BY <1>1, <1>6, <1>7, Rounds
<1> QED
  BY <1>1, <1>5, <1>8
\* The elements of sub are elements of seq, in the order of seq.
Picks(sub, seq, pos) ==
    /\ pos \in [1..Len(sub) -> 1..Len(seq)]
    /\ \A i \in 1..Len(sub) : sub[i] = seq[pos[i]]
    /\ \A i, j \in 1..Len(sub) : i < j => pos[i] < pos[j]

\* The rounds of a filter, each with what was kept so far.
Filters(acc, seq, set) ==
    /\ Filtered(seq, set) = acc[Len(seq)] /\ acc[0] = <<>>
    /\ \A k \in 1..Len(seq) : acc[k] = IF seq[k] \in set THEN Append(acc[k - 1], seq[k]) ELSE acc[k - 1]

LEMMA FilteringRuns ==
    ASSUME NEW C, NEW seq \in Seq(C), NEW set
    PROVE  \E acc : Filters(acc, seq, set)
<1> DEFINE F == [p \in Seq(C) \X C |-> IF p[2] \in set THEN Append(p[1], p[2]) ELSE p[1]]
           Recurs(g) == g = [k \in 0..Len(seq) |->
                IF k = 0 THEN <<>>
                ELSE IF seq[k] \in set THEN Append(g[k - 1], seq[k]) ELSE g[k - 1]]
           acc == CHOOSE g : Recurs(g)
<1>1. Len(seq) \in Nat /\ \A k \in 1..Len(seq) : seq[k] \in C
  OBVIOUS
<1>2. PICK f \in [0..Len(seq) -> Seq(C)] : Loops(f, F, <<>>, seq)
  <2>1. F \in [Seq(C) \X C -> Seq(C)] /\ <<>> \in Seq(C)
    OBVIOUS
  <2> QED
    BY <2>1, LoopExists
<1>3. Recurs(f)
  <2>1. ASSUME NEW k \in 0..Len(seq)
        PROVE  f[k] = IF k = 0 THEN <<>>
                      ELSE IF seq[k] \in set THEN Append(f[k - 1], seq[k]) ELSE f[k - 1]
    <3>1. CASE k # 0
      <4>1. k \in 1..Len(seq) /\ k - 1 \in 0..Len(seq)
        BY <1>1, <3>1
      <4> QED
        BY <1>1, <1>2, <3>1, <4>1 DEF Loops
    <3> QED
      BY <1>2, <3>1 DEF Loops
  <2> QED
    BY <2>1
<1>4. Recurs(acc)
  BY <1>3
<1>5. Filtered(seq, set) = acc[Len(seq)]
  BY DEF Filtered, Folded
<1> HIDE DEF acc
<1>6. acc[0] = <<>>
  BY <1>1, <1>4
<1>7. ASSUME NEW k \in 1..Len(seq)
      PROVE  acc[k] = IF seq[k] \in set THEN Append(acc[k - 1], seq[k]) ELSE acc[k - 1]
  <2>1. k \in 0..Len(seq) /\ k # 0
    BY <1>1
  <2> QED
    BY <1>4, <2>1
<1> QED
  BY <1>5, <1>6, <1>7 DEF Filters

\* What a filter keeps: the elements of the set, all of them, in their order.
LEMMA FilteredPicks ==
    ASSUME NEW C, NEW seq \in Seq(C), NEW set
    PROVE  /\ Filtered(seq, set) \in Seq(C)
           /\ \E pos : Picks(Filtered(seq, set), seq, pos)
           /\ Range(Filtered(seq, set)) = Range(seq) \cap set
<1>1. Len(seq) \in Nat /\ DOMAIN seq = 1..Len(seq) /\ \A k \in 1..Len(seq) : seq[k] \in C
  OBVIOUS
<1>2a. PICK acc : Filters(acc, seq, set)
  BY FilteringRuns
<1>2. /\ Filtered(seq, set) = acc[Len(seq)] /\ acc[0] = <<>>
      /\ \A k \in 1..Len(seq) : acc[k] = IF seq[k] \in set THEN Append(acc[k - 1], seq[k]) ELSE acc[k - 1]
  BY <1>2a DEF Filters
<1> DEFINE Kept(k) == /\ acc[k] \in Seq(C)
                      /\ \E pos \in [1..Len(acc[k]) -> 1..k] :
                            /\ \A i \in 1..Len(acc[k]) : acc[k][i] = seq[pos[i]] /\ acc[k][i] \in set
                            /\ \A i, j \in 1..Len(acc[k]) : i < j => pos[i] < pos[j]
                            /\ \A j \in 1..k : seq[j] \in set => \E i \in 1..Len(acc[k]) : pos[i] = j
           G == {k \in 0..Len(seq) : Kept(k)}
<1>3. 0 \in G
  <2>1. Len(acc[0]) = 0 /\ acc[0] \in Seq(C)
    BY <1>2
  <2>2. [i \in 1..0 |-> 0] \in [1..0 -> 1..0]
    OBVIOUS
  <2>3. Kept(0)
    BY <2>1, <2>2
  <2> QED
    BY <1>1, <2>3
<1>4. ASSUME NEW m \in 1..Len(seq), m - 1 \in G PROVE m \in G
  <2>1. m \in 0..Len(seq) /\ m \in Nat /\ m - 1 \in Nat /\ seq[m] \in C
    BY <1>1
  <2>2. acc[m - 1] \in Seq(C) /\ Len(acc[m - 1]) \in Nat
    BY <1>4
  <2>3. PICK pos \in [1..Len(acc[m - 1]) -> 1..(m - 1)] :
            /\ \A i \in 1..Len(acc[m - 1]) : acc[m - 1][i] = seq[pos[i]] /\ acc[m - 1][i] \in set
            /\ \A i, j \in 1..Len(acc[m - 1]) : i < j => pos[i] < pos[j]
            /\ \A j \in 1..(m - 1) : seq[j] \in set => \E i \in 1..Len(acc[m - 1]) : pos[i] = j
    BY <1>4
  <2>4. CASE seq[m] \notin set
    <3>1. acc[m] = acc[m - 1]
      BY <1>2, <2>4
    <3>2. pos \in [1..Len(acc[m]) -> 1..m]
      BY <2>1, <2>3, <3>1
    <3>3. \A j \in 1..m : seq[j] \in set => \E i \in 1..Len(acc[m]) : pos[i] = j
      <4> TAKE j \in 1..m
      <4> HAVE seq[j] \in set
      <4>1. j \in 1..(m - 1)
        BY <2>1, <2>4
      <4> QED
        BY <2>3, <3>1, <4>1
    <3>4. Kept(m)
      BY <2>2, <2>3, <3>1, <3>2, <3>3
    <3> QED
      BY <2>1, <3>4
  <2>5. CASE seq[m] \in set
    <3> DEFINE n == Len(acc[m - 1])
               new == [i \in 1..(n + 1) |-> IF i = n + 1 THEN m ELSE pos[i]]
    <3>1. acc[m] = Append(acc[m - 1], seq[m])
      BY <1>2, <2>5
    <3>2. /\ acc[m] \in Seq(C) /\ Len(acc[m]) = n + 1 /\ acc[m][n + 1] = seq[m]
          /\ \A i \in 1..n : acc[m][i] = acc[m - 1][i]
      BY <2>1, <2>2, <3>1
    <3>3. n \in Nat /\ n + 1 \in 1..(n + 1) /\ \A i \in 1..(n + 1) : i = n + 1 \/ (i \in 1..n /\ i # n + 1)
      BY <2>2
    <3> HIDE DEF n
    <3>4. new[n + 1] = m /\ \A i \in 1..n : new[i] = pos[i] /\ pos[i] \in 1..(m - 1)
      BY <2>3, <3>3 DEF n
    <3>5. new \in [1..(n + 1) -> 1..m]
      <4>1. \A i \in 1..(n + 1) : new[i] \in 1..m
        <5> HIDE DEF new
        <5> QED
          BY <2>1, <3>3, <3>4
      <4> QED
        BY <4>1
    <3> HIDE DEF new
    <3>6. \A i \in 1..(n + 1) : acc[m][i] = seq[new[i]] /\ acc[m][i] \in set
      <4>1. \A i \in 1..n : acc[m][i] = seq[new[i]] /\ acc[m][i] \in set
        BY <2>3, <3>2, <3>4 DEF n
      <4> QED
        BY <2>5, <3>2, <3>3, <3>4, <4>1
    <3>7. \A i, j \in 1..(n + 1) : i < j => new[i] < new[j]
      <4> TAKE i, j \in 1..(n + 1)
      <4> HAVE i < j
      <4>1. i \in 1..n
        BY <3>3
      <4>2. CASE j = n + 1
        BY <2>1, <3>4, <4>1, <4>2
      <4>3. CASE j \in 1..n
        BY <2>3, <3>4, <4>1, <4>3 DEF n
      <4> QED
        BY <3>3, <4>2, <4>3
    <3>8. \A j \in 1..m : seq[j] \in set => \E i \in 1..(n + 1) : new[i] = j
      <4> TAKE j \in 1..m
      <4> HAVE seq[j] \in set
      <4>1. CASE j = m
        BY <3>3, <3>4, <4>1
      <4>2. CASE j # m
        <5>1. j \in 1..(m - 1)
          BY <2>1, <4>2
        <5>2. PICK i \in 1..n : pos[i] = j
          BY <2>3, <5>1 DEF n
        <5>3. i \in 1..(n + 1) /\ new[i] = pos[i]
          BY <3>3, <3>4, <5>2
        <5> QED
          BY <5>2, <5>3
      <4> QED
        BY <4>1, <4>2
    <3>9. Kept(m)
      <4>1. /\ new \in [1..Len(acc[m]) -> 1..m]
            /\ \A i \in 1..Len(acc[m]) : acc[m][i] = seq[new[i]] /\ acc[m][i] \in set
            /\ \A i, j \in 1..Len(acc[m]) : i < j => new[i] < new[j]
            /\ \A j \in 1..m : seq[j] \in set => \E i \in 1..Len(acc[m]) : new[i] = j
        BY <3>2, <3>5, <3>6, <3>7, <3>8
      <4> QED
        BY <3>2, <4>1
    <3> QED
      BY <2>1, <3>9
  <2> QED
    BY <2>4, <2>5
<1>5. Kept(Len(seq))
  <2>1. 0..Len(seq) \subseteq G
    <3> HIDE DEF G
    <3> QED
      BY <1>1, <1>3, <1>4, Rounds
  <2> HIDE DEF Kept
  <2>2. Len(seq) \in 0..Len(seq)
    BY <1>1
  <2> QED
    BY <2>1, <2>2
<1> DEFINE sub == Filtered(seq, set)
<1>5a. sub = acc[Len(seq)] /\ Len(seq) \in Nat
  BY <1>1, <1>2
<1> HIDE DEF sub
<1>6. PICK pos \in [1..Len(sub) -> 1..Len(seq)] :
        /\ \A i \in 1..Len(sub) : sub[i] = seq[pos[i]] /\ sub[i] \in set
        /\ \A i, j \in 1..Len(sub) : i < j => pos[i] < pos[j]
        /\ \A j \in 1..Len(seq) : seq[j] \in set => \E i \in 1..Len(sub) : pos[i] = j
  <2>1. sub = acc[Len(seq)]
    BY <1>5a
  <2> QED
    BY <1>5, <2>1, Zenon
<1>7. sub \in Seq(C) /\ DOMAIN sub = 1..Len(sub)
  BY <1>5, <1>5a
<1>8. Picks(sub, seq, pos)
  BY <1>6 DEF Picks
<1>9. Range(sub) = Range(seq) \cap set
  <2>1. ASSUME NEW x \in Range(sub) PROVE x \in Range(seq) \cap set
    <3>1. PICK i \in 1..Len(sub) : x = sub[i]
      BY <1>7 DEF Range
    <3> QED
      BY <1>1, <1>6, <3>1 DEF Range
  <2>2. ASSUME NEW x \in Range(seq) \cap set PROVE x \in Range(sub)
    <3>1. PICK j \in 1..Len(seq) : x = seq[j]
      BY <1>1 DEF Range
    <3>2. PICK i \in 1..Len(sub) : pos[i] = j
      BY <1>6, <3>1
    <3> QED
      BY <1>6, <1>7, <3>1, <3>2 DEF Range
  <2> QED
    BY <2>1, <2>2
<1> QED
  BY <1>7, <1>8, <1>9 DEF sub
StrictOrder(R, S) ==
    /\ \A x \in S : <<x, x>> \notin R
    /\ \A x, y, z \in S : <<x, y>> \in R /\ <<y, z>> \in R => <<x, z>> \in R
    /\ \A x, y \in S : x # y => <<x, y>> \in R \/ <<y, x>> \in R

\* Each member of a finite set in a strict order has a place of its own.
LEMMA SortedIs ==
    ASSUME NEW S, IsFiniteSet(S), NEW R, StrictOrder(R, S)
    PROVE  /\ Sorted(S, R) \in Seq(S) /\ Len(Sorted(S, R)) = Cardinality(S)
           /\ Range(Sorted(S, R)) = S
           /\ \A i, j \in 1..Len(Sorted(S, R)) : Sorted(S, R)[i] = Sorted(S, R)[j] => i = j
           /\ \A i, j \in 1..Len(Sorted(S, R)) : i < j => <<Sorted(S, R)[i], Sorted(S, R)[j]>> \in R
<1> DEFINE n == Cardinality(S)
           below(x) == {y \in S : <<y, x>> \in R}
           place == [x \in S |-> Cardinality(below(x)) + 1]
<1>1. n \in Nat
  BY FS_CardinalityType
<1>2. ASSUME NEW x \in S
      PROVE  IsFiniteSet(below(x)) /\ Cardinality(below(x)) \in Nat /\ Cardinality(below(x)) < n
  <2>1. below(x) \in SUBSET S /\ below(x) # S
    BY DEF StrictOrder
  <2> HIDE DEF below
  <2>2. IsFiniteSet(below(x)) /\ Cardinality(below(x)) <= n /\ Cardinality(below(x)) # n
    BY <2>1, FS_Subset
  <2> QED
    BY <1>1, <2>2, FS_CardinalityType
<1>3. place \in [S -> 1..n]
  <2>1. \A x \in S : Cardinality(below(x)) + 1 \in 1..n
    <3> HIDE DEF n, below
    <3> QED
      BY <1>1, <1>2
  <2> HIDE DEF n, below
  <2> QED
    BY <2>1
<1>4. ASSUME NEW x \in S, NEW y \in S, <<x, y>> \in R PROVE place[x] < place[y]
  <2>1. below(x) \subseteq below(y) /\ x \in below(y) /\ x \notin below(x)
    BY <1>4 DEF StrictOrder
  <2> HIDE DEF below
  <2>2. Cardinality(below(x)) <= Cardinality(below(y)) /\ Cardinality(below(x)) # Cardinality(below(y))
    BY <1>2, <2>1, FS_Subset
  <2>3. Cardinality(below(x)) \in Nat /\ Cardinality(below(y)) \in Nat
    BY <1>2
  <2>4. Cardinality(below(x)) + 1 < Cardinality(below(y)) + 1
    BY <2>2, <2>3
  <2> QED
    BY <2>4
<1> HIDE DEF place
<1>5. ASSUME NEW x \in S, NEW y \in S, place[x] = place[y] PROVE x = y
  <2>1. place[x] \in Int /\ place[y] \in Int
    BY <1>1, <1>3
  <2>2. ~(place[x] < place[y]) /\ ~(place[y] < place[x])
    BY <1>5, <2>1
  <2>3. <<x, y>> \notin R /\ <<y, x>> \notin R
    BY <1>4, <2>2
  <2> QED
    BY <2>3 DEF StrictOrder
<1>6. ASSUME NEW k \in 1..n PROVE \E x \in S : place[x] = k
  <2>1. place \in Injection(S, 1..n)
    BY <1>3, <1>5 DEF Injection, IsInjective
  <2>2. IsFiniteSet(1..n) /\ Cardinality(1..n) = n
    <3> HIDE DEF n
    <3>2. Cardinality(1..n) = IF 1 > n THEN 0 ELSE n - 1 + 1
      BY <1>1, FS_Interval
    <3>3. IsFiniteSet(1..n)
      BY <1>1, FS_Interval
    <3> QED
      BY <1>1, <3>2, <3>3
  <2>3. place \in Surjection(S, 1..n)
    BY <2>1, <2>2, FS_Injection
  <2> QED
    BY <2>3 DEF Surjection
<1> DEFINE seq == Sorted(S, R)
<1>7. DOMAIN seq = 1..n
  BY DEF Sorted
<1>8. ASSUME NEW k \in 1..n PROVE seq[k] \in S /\ place[seq[k]] = k
  <2> DEFINE At(x) == Cardinality(below(x)) = k - 1
  <2>1. PICK x \in S : place[x] = k
    BY <1>6
  <2>2. Cardinality(below(x)) \in Nat /\ k \in Nat /\ Cardinality(below(x)) + 1 = k
    <3>1. place[x] = Cardinality(below(x)) + 1
      BY DEF place
    <3> HIDE DEF below
    <3> QED
      BY <1>1, <1>2, <2>1, <3>1
  <2>3. At(x)
    <3> HIDE DEF below
    <3> QED
      BY <2>2
  <2>4. (CHOOSE y \in S : At(y)) \in S /\ At(CHOOSE y \in S : At(y))
    <3> HIDE DEF At
    <3> QED
      BY <2>3
  <2>5. seq[k] = CHOOSE y \in S : At(y)
    BY DEF Sorted
  <2> HIDE DEF seq
  <2>6. seq[k] \in S /\ Cardinality(below(seq[k])) = k - 1
    BY <2>4, <2>5
  <2>7. place[seq[k]] = (k - 1) + 1
    BY <2>6 DEF place
  <2> QED
    BY <2>2, <2>6, <2>7
<1> HIDE DEF seq, below
<1>9. seq \in Seq(S) /\ Len(seq) = n
  <2>1. seq \in [1..n -> S]
    <3> DEFINE pick(k) == CHOOSE x \in S : Cardinality({y \in S : <<y, x>> \in R}) = k - 1
    <3>1. seq = [k \in 1..n |-> seq[k]]
      <4>1. seq = [k \in 1..n |-> pick(k)]
        BY DEF seq, Sorted
      <4> HIDE DEF pick
      <4> QED
        BY <4>1
    <3> QED
      BY <1>8, <3>1
  <2> QED
    BY <1>1, <2>1
<1>10. Range(seq) = S
  <2>1. \A x \in Range(seq) : x \in S
    BY <1>7, <1>8 DEF Range
  <2>2. ASSUME NEW x \in S PROVE x \in Range(seq)
    <3>1. place[x] \in 1..n
      BY <1>3
    <3>2. seq[place[x]] = x
      BY <1>5, <1>8, <3>1
    <3> QED
      BY <1>7, <3>1, <3>2 DEF Range
  <2> QED
    BY <2>1, <2>2
<1>11. ASSUME NEW i \in 1..n, NEW j \in 1..n, i < j PROVE <<seq[i], seq[j]>> \in R
  <2>1. seq[i] \in S /\ seq[j] \in S /\ place[seq[i]] = i /\ place[seq[j]] = j
    BY <1>8
  <2>2. ~(place[seq[j]] < place[seq[i]]) /\ seq[i] # seq[j]
    BY <1>1, <1>11, <2>1
  <2> QED
    BY <1>4, <2>1, <2>2 DEF StrictOrder
<1>12. \A i, j \in 1..n : seq[i] = seq[j] => i = j
  BY <1>8
<1> QED
  BY <1>9, <1>10, <1>11, <1>12 DEF seq

\* Keys of integers, one for each member, order a set.
LEMMA LowerOrders ==
    ASSUME NEW S, NEW n \in Nat, NEW key \in [S -> [1..n -> Int]],
           \A x, y \in S : key[x] = key[y] => x = y
    PROVE  /\ StrictOrder(KeyOrder(key), S)
           /\ \A x, y \in S : <<x, y>> \in KeyOrder(key) <=> Lower(key[x], key[y])
<1>1. \A x, y \in S : <<x, y>> \in KeyOrder(key) <=> Lower(key[x], key[y])
  BY DEF KeyOrder
<1>2. \A x \in S : ~Lower(key[x], key[x])
  <2>1. ASSUME NEW x \in S, NEW k \in 1..n PROVE ~(key[x][k] < key[x][k])
    OBVIOUS
  <2> QED
    BY <2>1 DEF Lower
<1>3. ASSUME NEW x \in S, NEW y \in S, NEW z \in S, Lower(key[x], key[y]), Lower(key[y], key[z])
      PROVE  Lower(key[x], key[z])
  <2>1. PICK k \in 1..n : key[x][k] < key[y][k] /\ \A j \in 1..(k - 1) : key[x][j] = key[y][j]
    BY <1>3 DEF Lower
  <2>2. PICK l \in 1..n : key[y][l] < key[z][l] /\ \A j \in 1..(l - 1) : key[y][j] = key[z][j]
    BY <1>3 DEF Lower
  <2>3. DOMAIN key[x] = 1..n /\ \A v \in S : \A j \in 1..n : key[v][j] \in Int
    OBVIOUS
  <2>4. CASE k < l
    <3>1. k \in 1..(l - 1) /\ \A j \in 1..(k - 1) : j \in 1..(l - 1)
      BY <2>4
    <3> QED
      BY <2>1, <2>2, <2>3, <3>1 DEF Lower
  <2>5. CASE k = l
    <3>1. key[x][k] < key[z][k] /\ \A j \in 1..(k - 1) : key[x][j] = key[z][j]
      BY <2>1, <2>2, <2>3, <2>5
    <3> QED
      BY <2>3, <3>1 DEF Lower
  <2>6. CASE l < k
    <3>1. l \in 1..(k - 1) /\ \A j \in 1..(l - 1) : j \in 1..(k - 1)
      BY <2>6
    <3> QED
      BY <2>1, <2>2, <2>3, <3>1 DEF Lower
  <2> QED
    BY <2>4, <2>5, <2>6
<1>4. ASSUME NEW x \in S, NEW y \in S, x # y PROVE Lower(key[x], key[y]) \/ Lower(key[y], key[x])
  <2> DEFINE T == {j \in 1..n : key[x][j] # key[y][j]}
  <2>1. T # {}
    <3>1. key[x] \in [1..n -> Int] /\ key[y] \in [1..n -> Int] /\ key[x] # key[y]
      BY <1>4
    <3> QED
      BY <3>1
  <2>2. T \subseteq Nat
    OBVIOUS
  <2>3. PICK k \in T : \A j \in T : k <= j
    <3> HIDE DEF T
    <3> QED
      BY <2>1, <2>2, Least
  <2>4. k \in 1..n /\ key[x][k] # key[y][k] /\ key[x][k] \in Int /\ key[y][k] \in Int
    OBVIOUS
  <2>5. \A j \in 1..(k - 1) : key[x][j] = key[y][j]
    <3> TAKE j \in 1..(k - 1)
    <3>1. j \in 1..n /\ ~(k <= j)
      BY <2>4
    <3> QED
      BY <2>3, <3>1
  <2> HIDE DEF T
  <2>6. DOMAIN key[x] = 1..n /\ DOMAIN key[y] = 1..n
    OBVIOUS
  <2>7. CASE key[x][k] < key[y][k]
    BY <2>4, <2>5, <2>6, <2>7 DEF Lower
  <2>8. CASE key[y][k] < key[x][k]
    BY <2>4, <2>5, <2>6, <2>8 DEF Lower
  <2> QED
    BY <2>4, <2>7, <2>8
<1> QED
  BY <1>1, <1>2, <1>3, <1>4 DEF StrictOrder

LEMMA SortedByIs ==
    ASSUME NEW S, IsFiniteSet(S), NEW n \in Nat, NEW key \in [S -> [1..n -> Int]],
           \A x, y \in S : key[x] = key[y] => x = y
    PROVE  /\ SortedBy(key) \in Seq(S) /\ Len(SortedBy(key)) = Cardinality(S)
           /\ Range(SortedBy(key)) = S
           /\ \A i, j \in 1..Len(SortedBy(key)) : SortedBy(key)[i] = SortedBy(key)[j] => i = j
           /\ \A i, j \in 1..Len(SortedBy(key)) : i < j => Lower(key[SortedBy(key)[i]], key[SortedBy(key)[j]])
<1>1. /\ StrictOrder(KeyOrder(key), S)
      /\ \A x, y \in S : <<x, y>> \in KeyOrder(key) <=> Lower(key[x], key[y])
  BY LowerOrders
<1>2. SortedBy(key) = Sorted(S, KeyOrder(key))
  BY DEF SortedBy
<1>3. /\ SortedBy(key) \in Seq(S) /\ Len(SortedBy(key)) = Cardinality(S)
      /\ Range(SortedBy(key)) = S
      /\ \A i, j \in 1..Len(SortedBy(key)) : SortedBy(key)[i] = SortedBy(key)[j] => i = j
      /\ \A i, j \in 1..Len(SortedBy(key)) : i < j => <<SortedBy(key)[i], SortedBy(key)[j]>> \in KeyOrder(key)
  BY <1>1, <1>2, SortedIs
<1>4. \A i \in 1..Len(SortedBy(key)) : SortedBy(key)[i] \in S
  BY <1>3
<1> QED
  BY <1>1, <1>3, <1>4
---------------------------------------------------------------------------
(* Candidates.                                                              *)

Kinds == {"h3_chunk", "structured_symbol", "related_code", "graph_expansion"}
Cand == [item : Items, kind : Kinds, origins : SUBSET Kinds, score : Int,
         content : BOOLEAN, rank : Int]
Alike(c, d) == c.item = d.item \/ Text[c.item].digest = Text[d.item].digest
Apart(seq) == \A j, k \in 1..Len(seq) : seq[j].item = seq[k].item => j = k
Unlike(seq) == \A j, k \in 1..Len(seq) : Alike(seq[j], seq[k]) => j = k

LEMMA ChoosingRuns ==
    ASSUME NEW C, NEW seq \in Seq(C), NEW limit
    PROVE  \E acc : /\ Unrepeated(seq, limit) = acc[Len(seq)] /\ acc[0] = <<>>
                    /\ \A k \in 1..Len(seq) :
                        acc[k] = IF Repeats(acc[k - 1], seq[k]) \/ Len(acc[k - 1]) >= limit
                                 THEN acc[k - 1] ELSE Append(acc[k - 1], seq[k])
<1> DEFINE F == [p \in Seq(C) \X C |->
                    IF Repeats(p[1], p[2]) \/ Len(p[1]) >= limit THEN p[1] ELSE Append(p[1], p[2])]
           Recurs(g) == g = [k \in 0..Len(seq) |->
                IF k = 0 THEN <<>>
                ELSE IF Repeats(g[k - 1], seq[k]) \/ Len(g[k - 1]) >= limit
                     THEN g[k - 1] ELSE Append(g[k - 1], seq[k])]
           acc == CHOOSE g : Recurs(g)
<1>1. Len(seq) \in Nat /\ \A k \in 1..Len(seq) : seq[k] \in C
  OBVIOUS
<1>2. PICK f \in [0..Len(seq) -> Seq(C)] : Loops(f, F, <<>>, seq)
  <2>1. F \in [Seq(C) \X C -> Seq(C)] /\ <<>> \in Seq(C)
    OBVIOUS
  <2> QED
    BY <2>1, LoopExists
<1>3. Recurs(f)
  <2>1. ASSUME NEW k \in 0..Len(seq)
        PROVE  f[k] = IF k = 0 THEN <<>>
                      ELSE IF Repeats(f[k - 1], seq[k]) \/ Len(f[k - 1]) >= limit
                           THEN f[k - 1] ELSE Append(f[k - 1], seq[k])
    <3>1. CASE k # 0
      <4>1. k \in 1..Len(seq) /\ k - 1 \in 0..Len(seq)
        BY <1>1, <3>1
      <4> QED
        BY <1>1, <1>2, <3>1, <4>1 DEF Loops
    <3> QED
      BY <1>2, <3>1 DEF Loops
  <2> QED
    BY <2>1
<1>4. Recurs(acc)
  BY <1>3
<1>5. Unrepeated(seq, limit) = acc[Len(seq)]
  BY DEF Unrepeated, Folded
<1> HIDE DEF acc
<1>6. acc[0] = <<>>
  BY <1>1, <1>4
<1>7. ASSUME NEW k \in 1..Len(seq)
      PROVE  acc[k] = IF Repeats(acc[k - 1], seq[k]) \/ Len(acc[k - 1]) >= limit
                      THEN acc[k - 1] ELSE Append(acc[k - 1], seq[k])
  <2>1. k \in 0..Len(seq) /\ k # 0
    BY <1>1
  <2> QED
    BY <1>4, <2>1
<1> QED
  BY <1>5, <1>6, <1>7

\* What is chosen has no repeats and leaves out nothing else while there is a place; a
\* candidate with a place by its rank and nothing like it before is chosen.
LEMMA UnrepeatedIs ==
    ASSUME NEW C \in SUBSET Cand, NEW seq \in Seq(C), NEW limit \in Nat
    PROVE  LET chosen == Unrepeated(seq, limit) IN
           /\ chosen \in Seq(C) /\ Range(chosen) \subseteq Range(seq)
           /\ Unlike(chosen) /\ Len(chosen) <= limit
           /\ \A j \in 1..Len(seq) :
                Repeats(chosen, seq[j]) \/ (Len(chosen) >= limit /\ limit < j)
           /\ \A j \in 1..Len(seq) :
                j <= limit /\ (\A i \in 1..(j - 1) : ~Alike(seq[i], seq[j])) => seq[j] \in Range(chosen)
<1>1. Len(seq) \in Nat /\ DOMAIN seq = 1..Len(seq) /\ \A k \in 1..Len(seq) : seq[k] \in C
  OBVIOUS
<1>2. PICK acc : /\ Unrepeated(seq, limit) = acc[Len(seq)] /\ acc[0] = <<>>
                 /\ \A k \in 1..Len(seq) :
                        acc[k] = IF Repeats(acc[k - 1], seq[k]) \/ Len(acc[k - 1]) >= limit
                                 THEN acc[k - 1] ELSE Append(acc[k - 1], seq[k])
  BY ChoosingRuns
<1> DEFINE Chosen(k) ==
              /\ acc[k] \in Seq(C) /\ Len(acc[k]) <= k /\ Len(acc[k]) <= limit
              /\ \A i \in 1..Len(acc[k]) : \E j \in 1..k : acc[k][i] = seq[j]
              /\ Unlike(acc[k])
              /\ \A j \in 1..k : Repeats(acc[k], seq[j]) \/ (Len(acc[k]) >= limit /\ limit < j)
              /\ \A j \in 1..k :
                    j <= limit /\ (\A i \in 1..(j - 1) : ~Alike(seq[i], seq[j])) =>
                        \E i \in 1..Len(acc[k]) : acc[k][i] = seq[j]
           G == {k \in 0..Len(seq) : Chosen(k)}
<1>3. 0 \in G
  <2>1. Len(acc[0]) = 0 /\ acc[0] \in Seq(C)
    BY <1>2
  <2>2. Chosen(0)
    BY <2>1 DEF Unlike
  <2> QED
    BY <1>1, <2>2
<1>4. ASSUME NEW m \in 1..Len(seq), m - 1 \in G PROVE m \in G
  <2> DEFINE old == acc[m - 1]
             n == Len(old)
  <2>1. m \in 0..Len(seq) /\ m \in Nat /\ m - 1 \in Nat /\ seq[m] \in C
        /\ \A j \in 1..m : j = m \/ j \in 1..(m - 1)
    BY <1>1
  <2>2. Chosen(m - 1)
    BY <1>4
  <2>3. /\ old \in Seq(C) /\ n \in Nat /\ DOMAIN old = 1..n /\ n <= m - 1 /\ n <= limit
        /\ \A i \in 1..n : \E j \in 1..(m - 1) : old[i] = seq[j]
        /\ Unlike(old)
        /\ \A j \in 1..(m - 1) : Repeats(old, seq[j]) \/ (n >= limit /\ limit < j)
        /\ \A j \in 1..(m - 1) :
                j <= limit /\ (\A i \in 1..(j - 1) : ~Alike(seq[i], seq[j])) =>
                    \E i \in 1..n : old[i] = seq[j]
    BY <2>2
  <2>4. CASE Repeats(old, seq[m]) \/ n >= limit
    <3>1. acc[m] = old
      BY <1>2, <2>4
    <3> HIDE DEF old, n
    <3>2. Repeats(old, seq[m]) \/ (n >= limit /\ limit < m)
      BY <2>1, <2>3, <2>4
    <3>3. m <= limit /\ (\A i \in 1..(m - 1) : ~Alike(seq[i], seq[m])) => FALSE
      <4> SUFFICES ASSUME m <= limit, \A i \in 1..(m - 1) : ~Alike(seq[i], seq[m]) PROVE FALSE
        OBVIOUS
      <4>1. Repeats(old, seq[m])
        BY <2>1, <2>3, <3>2
      <4>2. PICK i \in 1..n : Alike(old[i], seq[m])
        BY <2>3, <4>1 DEF Repeats, Alike
      <4> QED
        BY <2>3, <4>2
    <3>4. Chosen(m)
      <4>1. Len(acc[m]) = n
        BY <3>1 DEF n
      <4> QED
        BY <2>1, <2>3, <3>1, <3>2, <3>3, <4>1
    <3> QED
      BY <2>1, <3>4
  <2>5. CASE ~(Repeats(old, seq[m]) \/ n >= limit)
    <3>1. acc[m] = Append(old, seq[m])
      BY <1>2, <2>5
    <3> HIDE DEF old
    <3>2. /\ acc[m] \in Seq(C) /\ Len(acc[m]) = n + 1 /\ acc[m][n + 1] = seq[m]
          /\ DOMAIN acc[m] = 1..(n + 1)
          /\ \A i \in 1..n : acc[m][i] = old[i]
      BY <2>1, <2>3, <3>1
    <3> HIDE DEF n
    <3>3. n + 1 \in 1..(n + 1) /\ n + 1 <= m /\ n + 1 <= limit
          /\ \A i \in 1..(n + 1) : i = n + 1 \/ (i \in 1..n /\ i # n + 1)
      BY <2>1, <2>3, <2>5
    <3>4. \A i \in 1..n : ~Alike(old[i], seq[m])
      BY <2>3, <2>5 DEF Repeats, Alike
    <3>5. Unlike(acc[m])
      <4> SUFFICES ASSUME NEW j \in 1..(n + 1), NEW k \in 1..(n + 1), Alike(acc[m][j], acc[m][k])
                   PROVE  j = k
        BY <3>2 DEF Unlike
      <4>1. CASE j \in 1..n /\ k \in 1..n
        BY <2>3, <3>2, <4>1 DEF Unlike, n
      <4>2. CASE j \in 1..n /\ k = n + 1
        BY <3>2, <3>4, <4>2
      <4>3. CASE j = n + 1 /\ k \in 1..n
        BY <3>2, <3>4, <4>3 DEF Alike
      <4> QED
        BY <3>3, <4>1, <4>2, <4>3
    <3>6. ASSUME NEW x, Repeats(old, x) PROVE Repeats(acc[m], x)
      <4>1. PICK i \in 1..n : old[i].item = x.item \/ Text[old[i].item].digest = Text[x.item].digest
        BY <2>3, <3>6 DEF Repeats
      <4>2. i \in 1..(n + 1) /\ acc[m][i] = old[i]
        BY <2>3, <3>2
      <4> QED
        BY <3>2, <4>1, <4>2 DEF Repeats
    <3>7. Repeats(acc[m], seq[m])
      BY <3>2, <3>3 DEF Repeats
    <3>8. \A i \in 1..(n + 1) : \E j \in 1..m : acc[m][i] = seq[j]
      <4> TAKE i \in 1..(n + 1)
      <4>1. CASE i = n + 1
        BY <2>1, <3>2, <4>1
      <4>2. CASE i \in 1..n
        <5>1. PICK j \in 1..(m - 1) : old[i] = seq[j]
          BY <2>3, <4>2
        <5>2. j \in 1..m
          BY <2>1
        <5> QED
          BY <3>2, <4>2, <5>1, <5>2
      <4> QED
        BY <3>3, <4>1, <4>2
    <3>9. \A j \in 1..m : Repeats(acc[m], seq[j]) \/ (n + 1 >= limit /\ limit < j)
      BY <2>1, <2>3, <3>6, <3>7
    <3>10. ASSUME NEW j \in 1..m, j <= limit, \A i \in 1..(j - 1) : ~Alike(seq[i], seq[j])
           PROVE  \E i \in 1..(n + 1) : acc[m][i] = seq[j]
      <4>1. CASE j = m
        BY <3>2, <3>3, <4>1
      <4>2. CASE j \in 1..(m - 1)
        <5>1. PICK i \in 1..n : old[i] = seq[j]
          BY <2>3, <3>10, <4>2
        <5>2. i \in 1..(n + 1) /\ acc[m][i] = old[i]
          BY <2>3, <3>2
        <5> QED
          BY <5>1, <5>2
      <4> QED
        BY <2>1, <4>1, <4>2
    <3>11. Chosen(m)
      BY <3>2, <3>3, <3>5, <3>8, <3>9, <3>10
    <3> QED
      BY <2>1, <3>11
  <2> QED
    BY <2>4, <2>5
<1>5. Chosen(Len(seq))
  <2>1. 0..Len(seq) \subseteq G
    <3> HIDE DEF G
    <3> QED
      BY <1>1, <1>3, <1>4, Rounds
  <2> HIDE DEF Chosen
  <2>2. Len(seq) \in 0..Len(seq)
    BY <1>1
  <2> QED
    BY <2>1, <2>2
<1> DEFINE chosen == Unrepeated(seq, limit)
<1>6. /\ chosen \in Seq(C) /\ Len(chosen) <= limit
      /\ \A i \in 1..Len(chosen) : \E j \in 1..Len(seq) : chosen[i] = seq[j]
      /\ Unlike(chosen)
      /\ \A j \in 1..Len(seq) : Repeats(chosen, seq[j]) \/ (Len(chosen) >= limit /\ limit < j)
      /\ \A j \in 1..Len(seq) :
            j <= limit /\ (\A i \in 1..(j - 1) : ~Alike(seq[i], seq[j])) =>
                \E i \in 1..Len(chosen) : chosen[i] = seq[j]
  BY <1>2, <1>5
<1> HIDE DEF chosen
<1>7. DOMAIN chosen = 1..Len(chosen)
  BY <1>6
<1>8. Range(chosen) \subseteq Range(seq)
  <2> SUFFICES ASSUME NEW x \in Range(chosen) PROVE x \in Range(seq)
    OBVIOUS
  <2>1. PICK i \in 1..Len(chosen) : x = chosen[i]
    BY <1>7 DEF Range
  <2>2. PICK j \in 1..Len(seq) : chosen[i] = seq[j]
    BY <1>6
  <2>3. j \in DOMAIN seq
    BY <1>1, <2>2
  <2> QED
    BY <2>1, <2>2, <2>3 DEF Range
<1>9. \A j \in 1..Len(seq) :
        j <= limit /\ (\A i \in 1..(j - 1) : ~Alike(seq[i], seq[j])) => seq[j] \in Range(chosen)
  BY <1>6, <1>7 DEF Range
<1> QED
  BY <1>6, <1>8, <1>9 DEF chosen
---------------------------------------------------------------------------
(* Sources.                                                                 *)

AnySource == [c : Cand, first : Int, last : Int, cut : BOOLEAN]
Source == {s \in AnySource : Size(s) >= 1}
Single(sources) == \A j, k \in 1..Len(sources) : sources[j].c.item = sources[k].c.item => j = k

LEMMA SizesAre ==
    ASSUME NEW s \in AnySource
    PROVE  Size(s) \in Int /\ Header(s) \in Nat /\ Rendered(s) \in Int /\ Rendered(s) = Header(s) + Size(s)
           /\ s.c.item \in Items /\ Text[s.c.item].first \in Nat /\ Text[s.c.item].last \in Nat
<1>1. s.first \in Int /\ s.last \in Int /\ s.cut \in BOOLEAN /\ s.c.item \in Items
  BY DEF AnySource, Cand
<1>2. Text[s.c.item].header \in Nat /\ Text[s.c.item].first \in Nat /\ Text[s.c.item].last \in Nat
  BY <1>1, TextData
<1> QED
  BY <1>1, <1>2 DEF Size, Header, Rendered

\* A text is cut at its end, to as many tokens as it may have.
LEMMA TruncateIs ==
    ASSUME NEW s \in AnySource, NEW n \in Int
    PROVE  LET t == Truncate(s, n) IN
           /\ t \in AnySource /\ t.c = s.c /\ t.first = s.first /\ t.last <= s.last
           /\ Size(t) = IF Size(s) <= n THEN Size(s) ELSE n
<1>1. s.first \in Int /\ s.last \in Int /\ s.cut \in BOOLEAN /\ Size(s) \in Int
  BY SizesAre DEF AnySource
<1>2. CASE Size(s) <= n
  BY <1>1, <1>2 DEF Truncate
<1>3. CASE ~(Size(s) <= n)
  <2> DEFINE x == s.first + n - 2
             t == [s EXCEPT !.last = x, !.cut = TRUE]
  <2>1. Truncate(s, n) = t /\ x \in Int
    BY <1>1, <1>3 DEF Truncate
  <2>2. t \in AnySource /\ t.c = s.c /\ t.first = s.first /\ t.last = s.first + n - 2 /\ t.cut = TRUE
    <3>1. x = s.first + n - 2
      OBVIOUS
    <3> HIDE DEF x
    <3>2. t \in AnySource
      BY <2>1 DEF AnySource
    <3>3. t.c = s.c /\ t.first = s.first
      BY DEF AnySource
    <3>4. t.last = x
      BY DEF AnySource
    <3>5. t.cut = TRUE
      BY DEF AnySource
    <3> QED
      BY <3>1, <3>2, <3>3, <3>4, <3>5
  <2> HIDE DEF t
  <2>3. Size(t) = n
    BY <1>1, <2>2 DEF Size
  <2>4. t.last <= s.last
    BY <1>1, <1>3, <2>2 DEF Size
  <2> QED
    BY <1>3, <2>1, <2>2, <2>3, <2>4
<1> QED
  BY <1>2, <1>3

\* A candidate that finds room becomes a source that begins where its text begins.
LEMMA MaterializeIs ==
    ASSUME NEW c \in Cand, NEW remaining \in Int
    PROVE  LET s == Materialize(c, remaining) IN
           s # None => s \in Source /\ s.c = c /\ s.first = Text[c.item].first
<1>1. c.item \in Items
  BY DEF Cand
<1>2. /\ Text[c.item].first \in Nat /\ Text[c.item].last \in Nat /\ Text[c.item].first <= Text[c.item].last
      /\ MaxChunkTokens \in Nat /\ MaxChunkTokens > 0
  BY <1>1, TextData
<1> DEFINE whole == Whole(c)
           capped == Truncate(whole, MaxChunkTokens)
           fit == Fit(capped, remaining)
<1>3. whole \in AnySource /\ whole.c = c /\ whole.first = Text[c.item].first
      /\ whole.last = Text[c.item].last /\ whole.cut = FALSE
  BY <1>2 DEF Whole, AnySource
<1> HIDE DEF whole
<1>4. Size(whole) >= 1 /\ Size(whole) \in Int
  BY <1>2, <1>3 DEF Size
<1>5. capped \in AnySource /\ capped.c = c /\ capped.first = whole.first
      /\ Size(capped) = IF Size(whole) <= MaxChunkTokens THEN Size(whole) ELSE MaxChunkTokens
  <2>1. whole \in AnySource /\ whole.c = c
    BY <1>3
  <2>2. MaxChunkTokens \in Int /\ MaxChunkTokens > 0
    BY <1>2
  <2> QED
    BY <2>1, <2>2, TruncateIs
<1> HIDE DEF capped
<1>6. Size(capped) >= 1 /\ Size(capped) \in Int /\ Header(capped) \in Nat /\ Rendered(capped) = Header(capped) + Size(capped)
  BY <1>2, <1>4, <1>5, SizesAre
<1>7. Materialize(c, remaining) = fit
  BY DEF Materialize, fit, capped, whole
<1>8. CASE Rendered(capped) <= remaining
  BY <1>3, <1>5, <1>6, <1>7, <1>8 DEF Fit, Source
<1>9. CASE ~(Rendered(capped) <= remaining) /\ remaining <= Header(capped)
  BY <1>7, <1>9 DEF Fit
<1>10. CASE ~(Rendered(capped) <= remaining) /\ ~(remaining <= Header(capped))
  <2> DEFINE left == remaining - Header(capped)
             t == Truncate(capped, left)
  <2>1. left \in Int /\ left >= 1
    BY <1>6, <1>10
  <2>2. fit = t
    BY <1>10 DEF Fit
  <2> HIDE DEF left
  <2>3. t \in AnySource /\ t.c = c /\ t.first = capped.first
        /\ Size(t) = IF Size(capped) <= left THEN Size(capped) ELSE left
    BY <1>5, <2>1, TruncateIs
  <2> QED
    BY <1>3, <1>5, <1>6, <1>7, <2>1, <2>2, <2>3 DEF Source
<1> QED
  BY <1>8, <1>9, <1>10

LEMMA TokensAreNumbers ==
    ASSUME NEW sources \in Seq(Source)
    PROVE  Tokens(sources) \in Nat /\ ContentTokens(sources) \in Nat
<1>1. Len(sources) \in Nat /\ DOMAIN sources = 1..Len(sources) /\ \A k \in 1..Len(sources) : sources[k] \in Source
  OBVIOUS
<1>2. ASSUME NEW k \in 1..Len(sources) PROVE Rendered(sources[k]) \in Nat /\ Size(sources[k]) \in Nat
  <2>1. sources[k] \in AnySource /\ Size(sources[k]) >= 1
    BY <1>1 DEF Source
  <2> QED
    BY <2>1, SizesAre
<1>3. [k \in DOMAIN sources |-> Rendered(sources[k])] \in Seq(Nat)
      /\ [k \in DOMAIN sources |-> Size(sources[k])] \in Seq(Nat)
  BY <1>1, <1>2
<1> QED
  BY <1>3, SumIsNumber DEF Tokens, ContentTokens
---------------------------------------------------------------------------
(* Filling the budget.                                                      *)

SourceOf(D) == {s \in Source : s.c \in D}
Filled(D) == [sources : Seq(SourceOf(D)), pending : Seq(D)]
\* One candidate more has a source, which begins where its text begins, or waits.
Placed(f, g, c) ==
    \/ g.sources = f.sources /\ g.pending = Append(f.pending, c)
    \/ /\ \E s \in Source : s.c = c /\ s.first = Text[c.item].first /\ g.sources = Append(f.sources, s)
       /\ g.pending = f.pending
Holds(f, i) ==
    \/ \E k \in 1..Len(f.sources) : f.sources[k].c.item = i
    \/ \E k \in 1..Len(f.pending) : f.pending[k].item = i
Disjoint(f) ==
    /\ Single(f.sources) /\ Apart(f.pending)
    /\ \A j \in 1..Len(f.sources), k \in 1..Len(f.pending) : f.sources[j].c.item # f.pending[k].item

\* What is filled once candidate c had its turn.
Turn(f, c, room) == LET s == Materialize(c, room) IN
                    IF s = None THEN [f EXCEPT !.pending = Append(@, c)] ELSE [f EXCEPT !.sources = Append(@, s)]

LEMMA PlaceIs ==
    ASSUME NEW D \in SUBSET Cand, NEW f \in Filled(D), NEW c \in D, NEW room \in Int,
           NEW g, g = Turn(f, c, room)
    PROVE  g \in Filled(D) /\ Placed(f, g, c)
<1> DEFINE s == Materialize(c, room)
<1>1. c \in Cand /\ (s # None => s \in Source /\ s.c = c /\ s.first = Text[c.item].first)
  BY MaterializeIs
<1> HIDE DEF s
<1>2. g = IF s = None THEN [f EXCEPT !.pending = Append(@, c)] ELSE [f EXCEPT !.sources = Append(@, s)]
  BY DEF s, Turn
<1>3. f.sources \in Seq(SourceOf(D)) /\ f.pending \in Seq(D)
  BY DEF Filled
<1>4. CASE s = None
  <2>1. g.sources = f.sources /\ g.pending = Append(f.pending, c)
    BY <1>2, <1>4 DEF Filled
  <2>2. g \in Filled(D)
    <3>1. g = [f EXCEPT !.pending = Append(@, c)] /\ Append(f.pending, c) \in Seq(D)
      BY <1>2, <1>3, <1>4
    <3> QED
      BY <3>1 DEF Filled
  <2> QED
    BY <2>1, <2>2 DEF Placed
<1>5. CASE s # None
  <2>1. g.sources = Append(f.sources, s) /\ g.pending = f.pending
    BY <1>2, <1>5 DEF Filled
  <2>2. s \in SourceOf(D)
    BY <1>1, <1>5 DEF SourceOf
  <2>3. g \in Filled(D)
    <3>1. g = [f EXCEPT !.sources = Append(f.sources, s)]
      BY <1>2, <1>5
    <3>2. Append(f.sources, s) \in Seq(SourceOf(D))
      BY <1>3, <2>2
    <3> QED
      BY <3>1, <3>2 DEF Filled
  <2> QED
    BY <1>1, <1>5, <2>1, <2>3 DEF Placed
<1> QED
  BY <1>4, <1>5

LEMMA FillRuns ==
    ASSUME NEW D \in SUBSET Cand, NEW sources \in Seq(SourceOf(D)), NEW cands \in Seq(D), NEW budget \in Int
    PROVE  \E acc \in [0..Len(cands) -> Filled(D)] :
              /\ Fill(sources, cands, budget) = acc[Len(cands)]
              /\ acc[0] = [sources |-> sources, pending |-> <<>>]
              /\ \A k \in 1..Len(cands) : Placed(acc[k - 1], acc[k], cands[k])
<1> DEFINE Next1(f, c) == Turn(f, c, budget - Tokens(f.sources))
           base == [sources |-> sources, pending |-> <<>>]
           F == [p \in Filled(D) \X D |-> Next1(p[1], p[2])]
           Recurs(g) == g = [k \in 0..Len(cands) |-> IF k = 0 THEN base ELSE Next1(g[k - 1], cands[k])]
           acc == CHOOSE g : Recurs(g)
<1>1. Len(cands) \in Nat /\ \A k \in 1..Len(cands) : cands[k] \in D
  OBVIOUS
<1>2. ASSUME NEW f \in Filled(D), NEW c \in D
      PROVE  Next1(f, c) \in Filled(D) /\ Placed(f, Next1(f, c), c)
  <2>1. f.sources \in Seq(Source)
    BY DEF Filled, SourceOf
  <2>2. budget - Tokens(f.sources) \in Int
    BY <2>1, TokensAreNumbers
  <2> DEFINE room == budget - Tokens(f.sources)
             g == Next1(f, c)
  <2>3. g = Turn(f, c, room)
    OBVIOUS
  <2>4. room \in Int
    BY <2>2
  <2> HIDE DEF room, g
  <2>5. g \in Filled(D) /\ Placed(f, g, c)
    BY <2>3, <2>4, PlaceIs
  <2> QED
    BY <2>5 DEF g
<1>3. base \in Filled(D)
  BY DEF Filled
<1>5. Fill(sources, cands, budget) = acc[Len(cands)]
  BY DEF Fill, Folded, Turn
<1> HIDE DEF Next1, base
<1>2a. PICK f \in [0..Len(cands) -> Filled(D)] : Loops(f, F, base, cands)
  <2>1. F \in [Filled(D) \X D -> Filled(D)]
    BY <1>2
  <2> QED
    BY <1>3, <2>1, LoopExists
<1>3a. Recurs(f)
  <2>1. ASSUME NEW k \in 0..Len(cands) PROVE f[k] = IF k = 0 THEN base ELSE Next1(f[k - 1], cands[k])
    <3>1. CASE k # 0
      <4>1. k \in 1..Len(cands) /\ k - 1 \in 0..Len(cands)
        BY <1>1, <3>1
      <4> QED
        BY <1>1, <1>2a, <3>1, <4>1 DEF Loops
    <3> QED
      BY <1>2a, <3>1 DEF Loops
  <2> QED
    BY <2>1
<1>4. Recurs(acc)
  BY <1>3a
<1> HIDE DEF acc
<1>6. acc[0] = base
  BY <1>1, <1>4
<1>7. ASSUME NEW k \in 1..Len(cands) PROVE acc[k] = Next1(acc[k - 1], cands[k])
  <2>1. k \in 0..Len(cands) /\ k # 0
    BY <1>1
  <2> QED
    BY <1>4, <2>1
<1> DEFINE G == {k \in 0..Len(cands) : acc[k] \in Filled(D)}
<1>8. 0..Len(cands) \subseteq G
  <2>1. 0 \in G
    BY <1>1, <1>3, <1>6
  <2>2. ASSUME NEW k \in 1..Len(cands), k - 1 \in G PROVE k \in G
    <3>1. k \in 0..Len(cands) /\ cands[k] \in D /\ acc[k - 1] \in Filled(D)
      BY <1>1, <2>2
    <3> QED
      BY <1>2, <1>7, <3>1
  <2> HIDE DEF G
  <2> QED
    BY <1>1, <2>1, <2>2, Rounds
<1>9. acc \in [0..Len(cands) -> Filled(D)]
  <2>1. acc = [k \in 0..Len(cands) |-> acc[k]]
    BY <1>4
  <2> QED
    BY <1>8, <2>1
<1>10. ASSUME NEW k \in 1..Len(cands) PROVE Placed(acc[k - 1], acc[k], cands[k])
  <2>1. k - 1 \in 0..Len(cands) /\ acc[k - 1] \in Filled(D) /\ cands[k] \in D
    BY <1>1, <1>8
  <2> QED
    BY <1>2, <1>7, <2>1
<1> QED
  BY <1>5, <1>6, <1>9, <1>10 DEF base

\* What was there stays where it was; what joins begins where its text begins; what has no
\* room waits; and no item is there twice if none was.
LEMMA FillIs ==
    ASSUME NEW D \in SUBSET Cand, NEW sources \in Seq(SourceOf(D)), NEW cands \in Seq(D), NEW budget \in Int
    PROVE  LET f == Fill(sources, cands, budget) IN
           /\ f \in Filled(D) /\ Len(f.sources) >= Len(sources)
           /\ \A i \in 1..Len(sources) : f.sources[i] = sources[i]
           /\ \A i \in (Len(sources) + 1)..Len(f.sources) :
                f.sources[i].first = Text[f.sources[i].c.item].first
           /\ Disjoint([sources |-> sources, pending |-> cands]) => Disjoint(f)
<1>1. /\ Len(cands) \in Nat /\ \A k \in 1..Len(cands) : cands[k] \in D
      /\ Len(sources) \in Nat /\ \A k \in 1..Len(sources) : sources[k] \in SourceOf(D)
  OBVIOUS
<1>2. PICK acc \in [0..Len(cands) -> Filled(D)] :
        /\ Fill(sources, cands, budget) = acc[Len(cands)]
        /\ acc[0] = [sources |-> sources, pending |-> <<>>]
        /\ \A k \in 1..Len(cands) : Placed(acc[k - 1], acc[k], cands[k])
  BY FillRuns
<1> DEFINE n == Len(sources)
           Here(f) == /\ Len(f.sources) >= n
                      /\ \A i \in 1..n : f.sources[i] = sources[i]
                      /\ \A i \in (n + 1)..Len(f.sources) : f.sources[i].first = Text[f.sources[i].c.item].first
           From(f, k) == \A i : Holds(f, i) => \/ \E j \in 1..n : sources[j].c.item = i
                                              \/ \E j \in 1..k : cands[j].item = i
           Stays(k) == Disjoint([sources |-> sources, pending |-> cands]) => Disjoint(acc[k])
           G == {k \in 0..Len(cands) : Here(acc[k]) /\ From(acc[k], k) /\ Stays(k)}
<1>3. 0 \in G
  <2>1. acc[0].sources = sources /\ acc[0].pending = <<>> /\ Len(<<>>) = 0
    BY <1>2
  <2>2. Here(acc[0])
    BY <1>1, <2>1
  <2>3. From(acc[0], 0)
    BY <2>1 DEF Holds
  <2>4. Stays(0)
    BY <2>1 DEF Disjoint, Apart
  <2> QED
    BY <1>1, <2>2, <2>3, <2>4
<1>4. ASSUME NEW m \in 1..Len(cands), m - 1 \in G PROVE m \in G
  <2> DEFINE f == acc[m - 1]
             g == acc[m]
             c == cands[m]
             a == Len(f.sources)
             b == Len(f.pending)
  <2>1. /\ m \in 0..Len(cands) /\ m - 1 \in 0..Len(cands) /\ m \in 1..m /\ c \in D
        /\ \A j \in 1..(m - 1) : j \in 1..m /\ j \in 1..Len(cands) /\ j # m
    BY <1>1
  <2>2. f \in Filled(D) /\ g \in Filled(D) /\ Placed(f, g, c) /\ Here(f) /\ From(f, m - 1) /\ Stays(m - 1)
    BY <1>2, <1>4, <2>1
  <2>3. Stays(m - 1) => (Disjoint([sources |-> sources, pending |-> cands]) => Disjoint(f))
    OBVIOUS
  <2>4. ~(Disjoint([sources |-> sources, pending |-> cands]) => Disjoint(g)) => ~Stays(m)
    OBVIOUS
  <2>5. Here(g) /\ From(g, m) /\ (Disjoint([sources |-> sources, pending |-> cands]) => Disjoint(g)) => m \in G
    BY <2>1
  <2>6. ASSUME Disjoint([sources |-> sources, pending |-> cands]) PROVE ~Holds(f, c.item) /\ Disjoint(f)
    <3>1. \A j \in 1..n : sources[j].c.item # c.item
      BY <2>1, <2>6 DEF Disjoint
    <3>2. \A j \in 1..(m - 1) : cands[j].item # c.item
      BY <2>1, <2>6 DEF Disjoint, Apart
    <3> QED
      BY <2>2, <2>3, <2>6, <3>1, <3>2
  <2> HIDE DEF f, g, c, G, Stays
  <2>7. /\ f.sources \in Seq(SourceOf(D)) /\ f.pending \in Seq(D) /\ a \in Nat /\ b \in Nat
        /\ n \in Nat /\ a >= n
    BY <1>1, <2>2 DEF Filled
  <2>8. CASE g.sources = f.sources /\ g.pending = Append(f.pending, c)
    <3>1. /\ Len(g.pending) = b + 1 /\ g.pending[b + 1] = c
          /\ \A i \in 1..b : g.pending[i] = f.pending[i]
          /\ \A i \in 1..(b + 1) : i \in 1..b \/ i = b + 1
      BY <2>1, <2>7, <2>8
    <3>2. Here(g)
      BY <2>2, <2>8
    <3>3. \A i : Holds(g, i) => Holds(f, i) \/ i = c.item
      BY <2>8, <3>1 DEF Holds
    <3>4. From(g, m)
      <4> SUFFICES ASSUME NEW i, Holds(g, i)
                   PROVE  \/ \E j \in 1..n : sources[j].c.item = i
                          \/ \E j \in 1..m : cands[j].item = i
        OBVIOUS
      <4> QED
        BY <2>1, <2>2, <3>3 DEF c
    <3>5. ASSUME ~Holds(f, c.item), Disjoint(f) PROVE Disjoint(g)
      <4>1. \A j \in 1..b : f.pending[j].item # c.item
        BY <3>5 DEF Holds
      <4>2. \A j \in 1..a : f.sources[j].c.item # c.item
        BY <3>5 DEF Holds
      <4>3. Apart(g.pending)
        <5> SUFFICES ASSUME NEW j \in 1..(b + 1), NEW k \in 1..(b + 1), g.pending[j].item = g.pending[k].item
                     PROVE  j = k
          BY <3>1 DEF Apart
        <5>1. CASE j \in 1..b /\ k \in 1..b
          BY <3>1, <3>5, <5>1 DEF Disjoint, Apart
        <5> QED
          BY <3>1, <4>1, <5>1
      <4>4. \A j \in 1..a, k \in 1..(b + 1) : g.sources[j].c.item # g.pending[k].item
        BY <2>8, <3>1, <3>5, <4>2 DEF Disjoint
      <4> QED
        BY <2>8, <3>1, <3>5, <4>3, <4>4 DEF Disjoint
    <3> QED
      BY <2>5, <2>6, <3>2, <3>4, <3>5
  <2>9. ASSUME NEW s \in Source, s.c = c, s.first = Text[c.item].first, g.sources = Append(f.sources, s),
               g.pending = f.pending
        PROVE  m \in G
    <3>1. /\ Len(g.sources) = a + 1 /\ g.sources[a + 1] = s
          /\ \A i \in 1..a : g.sources[i] = f.sources[i]
          /\ \A i \in 1..(a + 1) : i \in 1..a \/ i = a + 1
      <4>1. s \in SourceOf(D)
        BY <2>1, <2>9 DEF SourceOf
      <4>2. f.sources \in Seq(SourceOf(D)) /\ Len(f.sources) = a
        BY <2>7
      <4>3. /\ Len(g.sources) = a + 1 /\ g.sources[a + 1] = s
            /\ \A i \in 1..a : g.sources[i] = f.sources[i]
        BY <2>9, <4>1, <4>2
      <4>4. \A t \in Nat : \A i \in 1..(t + 1) : i \in 1..t \/ i = t + 1
        OBVIOUS
      <4> QED
        BY <2>7, <4>3, <4>4
    <3>2. Here(g)
      <4>1. \A i \in 1..n : g.sources[i] = sources[i]
        BY <2>2, <2>7, <3>1
      <4>2. ASSUME NEW i \in (n + 1)..(a + 1) PROVE g.sources[i].first = Text[g.sources[i].c.item].first
        <5>1. CASE i = a + 1
          BY <2>9, <3>1, <5>1
        <5>2. CASE i \in (n + 1)..a
          <6>1. g.sources[i] = f.sources[i]
            BY <2>7, <3>1, <5>2
          <6> QED
            BY <2>2, <5>2, <6>1
        <5>3. i = a + 1 \/ i \in (n + 1)..a
          <6> HIDE DEF n, a
          <6> QED
            BY <2>7
        <5> QED
          BY <5>1, <5>2, <5>3
      <4> HIDE DEF n, a
      <4> QED
        BY <2>7, <3>1, <4>1, <4>2
    <3>3. \A i : Holds(g, i) => Holds(f, i) \/ i = c.item
      BY <2>9, <3>1 DEF Holds
    <3>4. From(g, m)
      <4> SUFFICES ASSUME NEW i, Holds(g, i)
                   PROVE  \/ \E j \in 1..n : sources[j].c.item = i
                          \/ \E j \in 1..m : cands[j].item = i
        OBVIOUS
      <4> QED
        BY <2>1, <2>2, <3>3 DEF c
    <3>5. ASSUME ~Holds(f, c.item), Disjoint(f) PROVE Disjoint(g)
      <4>1. \A j \in 1..b : f.pending[j].item # c.item
        BY <3>5 DEF Holds
      <4>2. \A j \in 1..a : f.sources[j].c.item # c.item
        BY <3>5 DEF Holds
      <4>3. Single(g.sources)
        <5> SUFFICES ASSUME NEW j \in 1..(a + 1), NEW k \in 1..(a + 1),
                            g.sources[j].c.item = g.sources[k].c.item
                     PROVE  j = k
          BY <3>1 DEF Single
        <5>1. CASE j \in 1..a /\ k \in 1..a
          BY <3>1, <3>5, <5>1 DEF Disjoint, Single
        <5> QED
          BY <2>9, <3>1, <4>2, <5>1
      <4>4. \A j \in 1..(a + 1), k \in 1..b : g.sources[j].c.item # g.pending[k].item
        BY <2>9, <3>1, <3>5, <4>1 DEF Disjoint
      <4> QED
        BY <2>9, <3>1, <3>5, <4>3, <4>4 DEF Disjoint
    <3> QED
      BY <2>5, <2>6, <3>2, <3>4, <3>5
  <2> QED
    BY <2>2, <2>8, <2>9 DEF Placed
<1>5. Len(cands) \in G
  <2> HIDE DEF G
  <2>1. 0..Len(cands) \subseteq G
    BY <1>1, <1>3, <1>4, Rounds
  <2> QED
    BY <1>1, <2>1
<1>6. Fill(sources, cands, budget) \in Filled(D)
  <2>1. Len(cands) \in 0..Len(cands)
    OBVIOUS
  <2> QED
    BY <1>1, <1>2, <2>1
<1> QED
  BY <1>2, <1>5, <1>6
---------------------------------------------------------------------------
(* Removing what two sources repeat.                                        *)

Tells(s, stream, l) == Text[s.c.item].stream = stream /\ l \in s.first..s.last
TellsAll(seq, stream, l) == \E k \in 1..Len(seq) : Tells(seq[k], stream, l)
\* What a source begins after is shown by another.
Lossless(seq) ==
    \A k \in 1..Len(seq) : \A l \in Text[seq[k].c.item].first..(seq[k].first - 1) :
        TellsAll(seq, Text[seq[k].c.item].stream, l)

\* The right text loses lines that the left one shows, never all it has.
LEMMA TrimPairIs ==
    ASSUME NEW D, NEW x \in SourceOf(D), NEW y \in SourceOf(D)
    PROVE  LET t == TrimPair(x, y) IN
           /\ t \in SourceOf(D) /\ t.c = y.c
           /\ \A stream, l : Tells(y, stream, l) => Tells(t, stream, l) \/ Tells(x, stream, l)
           /\ \A l \in y.first..(t.first - 1) : Tells(x, Text[y.c.item].stream, l)
<1>1. /\ x \in AnySource /\ y \in AnySource /\ Size(y) >= 1 /\ Size(y) \in Int
      /\ {x.first, x.last, y.first, y.last} \subseteq Int /\ {x.cut, y.cut} \subseteq BOOLEAN
  <2>1. x \in AnySource /\ y \in AnySource /\ Size(y) >= 1
    BY DEF SourceOf, Source
  <2>2. Size(y) \in Int
    BY <2>1, SizesAre
  <2> QED
    BY <2>1, <2>2 DEF AnySource
<1> DEFINE over == Overlap(x, y)
<1>2. CASE Contiguous(x, y) /\ over \in 1..(Size(y) - 1)
  <2> DEFINE from == y.first + over
             t == [y EXCEPT !.first = from]
  <2>1. over \in Int /\ over >= 1 /\ over <= Size(y) - 1
    <3> HIDE DEF over
    <3> QED
      BY <1>1, <1>2
  <2>2. /\ Text[x.c.item].stream = Text[y.c.item].stream
        /\ x.first <= y.first /\ y.first <= x.last /\ x.last <= y.last /\ over = x.last - y.first + 1
    BY <1>1, <2>1 DEF Overlap
  <2>3. TrimPair(x, y) = t
    BY <1>2 DEF TrimPair
  <2> HIDE DEF over
  <2>4. from \in Int /\ from = x.last + 1
    BY <1>1, <2>1, <2>2
  <2>5. from = y.first + over
    OBVIOUS
  <2> HIDE DEF from
  <2>6. t \in AnySource
    BY <1>1, <2>4 DEF AnySource
  <2>7. t.c = y.c /\ t.last = y.last /\ t.cut = y.cut
    BY <1>1 DEF AnySource
  <2>8. t.first = from
    BY <1>1 DEF AnySource
  <2> HIDE DEF t
  <2>9. Size(t) >= 1
    BY <1>1, <2>1, <2>4, <2>5, <2>7, <2>8 DEF Size
  <2>10. t \in SourceOf(D)
    BY <2>6, <2>7, <2>9 DEF SourceOf, Source
  <2>11. \A l \in y.first..(t.first - 1) : Tells(x, Text[y.c.item].stream, l)
    BY <1>1, <2>2, <2>4, <2>8 DEF Tells
  <2>12. \A stream, l : Tells(y, stream, l) => Tells(t, stream, l) \/ Tells(x, stream, l)
    BY <1>1, <2>2, <2>4, <2>7, <2>8 DEF Tells
  <2> QED
    BY <2>3, <2>7, <2>10, <2>11, <2>12
<1>3. CASE ~(Contiguous(x, y) /\ over \in 1..(Size(y) - 1))
  <2>1. TrimPair(x, y) = y
    BY <1>3 DEF TrimPair
  <2>2. y.first..(y.first - 1) = {}
    BY <1>1
  <2> QED
    BY <2>1, <2>2
<1> QED
  BY <1>2, <1>3

LEMMA AgainstIs ==
    ASSUME NEW D, NEW seq \in Seq(SourceOf(D)), NEW m \in 1..Len(seq)
    PROVE  LET new == Against(seq, m) IN
           /\ new \in Seq(SourceOf(D)) /\ Len(new) = Len(seq)
           /\ \A k \in 1..Len(seq) : new[k].c = seq[k].c
           /\ \A stream, l : TellsAll(seq, stream, l) => TellsAll(new, stream, l)
           /\ Lossless(seq) => Lossless(new)
<1> DEFINE n == Len(seq)
           new == Against(seq, m)
<1>1. n \in Nat /\ DOMAIN seq = 1..n /\ (\A k \in 1..n : seq[k] \in SourceOf(D)) /\ m \in 1..n /\ m \in Nat
  OBVIOUS
<1>2. /\ DOMAIN new = 1..n /\ new = [k \in 1..n |-> new[k]]
      /\ \A k \in 1..n : new[k] = IF k > m THEN TrimPair(seq[m], seq[k]) ELSE seq[k]
  BY <1>1 DEF Against
<1> HIDE DEF new, n
<1>3. ASSUME NEW k \in 1..n
      PROVE  /\ new[k] \in SourceOf(D) /\ new[k].c = seq[k].c
             /\ \A stream, l : Tells(seq[k], stream, l) => Tells(new[k], stream, l) \/ Tells(new[m], stream, l)
             /\ \A l \in seq[k].first..(new[k].first - 1) : Tells(new[m], Text[seq[k].c.item].stream, l)
  <2>1. new[m] = seq[m] /\ seq[m] \in SourceOf(D) /\ seq[k] \in SourceOf(D)
    BY <1>1, <1>2
  <2>2. CASE k > m
    <3>1. new[k] = TrimPair(seq[m], seq[k])
      BY <1>2, <2>2
    <3>2. /\ new[k] \in SourceOf(D) /\ new[k].c = seq[k].c
          /\ \A stream, l : Tells(seq[k], stream, l) => Tells(new[k], stream, l) \/ Tells(seq[m], stream, l)
          /\ \A l \in seq[k].first..(new[k].first - 1) : Tells(seq[m], Text[seq[k].c.item].stream, l)
      BY <2>1, <3>1, TrimPairIs
    <3> QED
      BY <2>1, <3>2
  <2>3. CASE ~(k > m)
    <3>1. seq[k].first \in Int
      BY <2>1 DEF SourceOf, Source, AnySource
    <3>2. new[k] = seq[k] /\ seq[k].first..(seq[k].first - 1) = {}
      BY <1>2, <2>3, <3>1
    <3> QED
      BY <2>1, <3>2
  <2> QED
    BY <2>2, <2>3
<1>4. new \in Seq(SourceOf(D)) /\ Len(new) = n
  <2>1. new \in [1..n -> SourceOf(D)]
    BY <1>2, <1>3
  <2> QED
    BY <1>1, <2>1
<1>5. ASSUME NEW stream, NEW l, TellsAll(seq, stream, l) PROVE TellsAll(new, stream, l)
  <2>1. PICK k \in 1..n : Tells(seq[k], stream, l)
    BY <1>5 DEF TellsAll, n
  <2>2. Tells(new[k], stream, l) \/ Tells(new[m], stream, l)
    BY <1>3, <2>1
  <2> QED
    BY <1>1, <1>4, <2>2 DEF TellsAll
<1>6. ASSUME Lossless(seq), NEW k \in 1..n, NEW l \in Text[new[k].c.item].first..(new[k].first - 1)
      PROVE  TellsAll(new, Text[new[k].c.item].stream, l)
  <2>1. new[k].c = seq[k].c /\ new[k] \in SourceOf(D) /\ seq[k] \in SourceOf(D)
    BY <1>1, <1>3
  <2>2. seq[k].first \in Int /\ new[k].first \in Int /\ Text[seq[k].c.item].first \in Nat
    BY <2>1, SizesAre DEF SourceOf, Source, AnySource
  <2>3. CASE l \in Text[seq[k].c.item].first..(seq[k].first - 1)
    <3>1. TellsAll(seq, Text[seq[k].c.item].stream, l)
      BY <1>6, <2>3 DEF Lossless, n
    <3> QED
      BY <1>5, <2>1, <3>1
  <2>4. CASE l \in seq[k].first..(new[k].first - 1)
    <3>1. Tells(new[m], Text[seq[k].c.item].stream, l)
      BY <1>3, <2>4
    <3> QED
      BY <1>1, <1>4, <2>1, <3>1 DEF TellsAll
  <2> QED
    BY <1>6, <2>1, <2>2, <2>3, <2>4
<1>7. Lossless(seq) => Lossless(new)
  BY <1>4, <1>6 DEF Lossless
<1> QED
  BY <1>3, <1>4, <1>5, <1>7 DEF new, n

\* All pairs, one left side after the other.
LEMMA TrimmingRuns ==
    ASSUME NEW D, NEW base \in Seq(SourceOf(D))
    PROVE  LET new == Folded(Against, base, [m \in 1..Len(base) |-> m]) IN
           /\ new \in Seq(SourceOf(D)) /\ Len(new) = Len(base)
           /\ \A k \in 1..Len(base) : new[k].c = base[k].c
           /\ Lossless(base) => Lossless(new)
<1> DEFINE n == Len(base)
           seq == [m \in 1..n |-> m]
           S == {q \in Seq(SourceOf(D)) :
                    /\ Len(q) = n /\ \A k \in 1..n : q[k].c = base[k].c
                    /\ Lossless(base) => Lossless(q)}
           F == [p \in S \X (1..n) |-> Against(p[1], p[2])]
           Recurs(g) == g = [k \in 0..Len(seq) |-> IF k = 0 THEN base ELSE Against(g[k - 1], seq[k])]
           acc == CHOOSE g : Recurs(g)
<1>1. n \in Nat /\ seq \in Seq(1..n) /\ Len(seq) = n /\ \A m \in 1..n : seq[m] = m
  OBVIOUS
<1>2. ASSUME NEW q \in S, NEW m \in 1..n PROVE Against(q, m) \in S
  <2>1. q \in Seq(SourceOf(D)) /\ Len(q) = n /\ m \in 1..Len(q) /\ \A k \in 1..n : q[k].c = base[k].c
    OBVIOUS
  <2>2. /\ Against(q, m) \in Seq(SourceOf(D)) /\ Len(Against(q, m)) = Len(q)
        /\ \A k \in 1..Len(q) : Against(q, m)[k].c = q[k].c
        /\ Lossless(q) => Lossless(Against(q, m))
    BY <2>1, AgainstIs
  <2> QED
    BY <2>1, <2>2
<1>3. base \in S
  OBVIOUS
<1>5. Folded(Against, base, seq) = acc[Len(seq)]
  BY DEF Folded
<1> HIDE DEF S, seq, n
<1>2a. PICK f \in [0..n -> S] : Loops(f, F, base, seq)
  <2>1. F \in [S \X (1..n) -> S]
    BY <1>2
  <2>2. \E f \in [0..Len(seq) -> S] : Loops(f, F, base, seq)
    BY <1>1, <1>3, <2>1, LoopExists
  <2> QED
    BY <1>1, <2>2
<1>3a. Recurs(f)
  <2>1. ASSUME NEW k \in 0..n PROVE f[k] = IF k = 0 THEN base ELSE Against(f[k - 1], seq[k])
    <3>1. CASE k # 0
      <4>1. k \in 1..n /\ k - 1 \in 0..n
        BY <1>1, <3>1
      <4> QED
        BY <1>1, <1>2a, <3>1, <4>1 DEF Loops
    <3> QED
      BY <1>2a, <3>1 DEF Loops
  <2> QED
    BY <1>1, <2>1
<1>4. Recurs(acc)
  BY <1>3a
<1> HIDE DEF acc
<1> DEFINE G == {k \in 0..n : acc[k] \in S}
<1>6. 0..n \subseteq G
  <2>1. 0 \in G
    BY <1>1, <1>3, <1>4
  <2>2. ASSUME NEW k \in 1..n, k - 1 \in G PROVE k \in G
    <3>1. k \in 0..n /\ k # 0 /\ seq[k] = k /\ acc[k - 1] \in S
      BY <1>1, <2>2
    <3>2. acc[k] = Against(acc[k - 1], k)
      BY <1>1, <1>4, <3>1
    <3> QED
      BY <1>2, <3>1, <3>2
  <2> HIDE DEF G
  <2> QED
    BY <1>1, <2>1, <2>2, Rounds
<1>7. Folded(Against, base, seq) \in S
  BY <1>1, <1>5, <1>6
<1> QED
  BY <1>7 DEF S, seq, n

LEMMA ItemsAreNumbers == \A i \in Items : i \in Nat
  BY TextData

LEMMA UptoIs == ASSUME NEW n \in Nat PROVE IsFiniteSet(1..n) /\ Cardinality(1..n) = n
<1>1. Cardinality(1..n) = IF 1 > n THEN 0 ELSE n - 1 + 1
  BY FS_Interval
<1>2. IsFiniteSet(1..n)
  BY FS_Interval
<1> QED
  BY <1>1, <1>2

\* The same candidates in their places, and no line less among them.
LEMMA TrimOverlapsIs ==
    ASSUME NEW D \in SUBSET Cand, NEW sources \in Seq(SourceOf(D)), Single(sources)
    PROVE  LET t == TrimOverlaps(sources) IN
           /\ t \in Seq(SourceOf(D)) /\ Len(t) = Len(sources)
           /\ \A k \in 1..Len(sources) : t[k].c = sources[k].c
           /\ Lossless(sources) => Lossless(t)
<1> DEFINE n == Len(sources)
           key == [k \in 1..n |-> RangeOrder(sources[k])]
           order == SortedBy(key)
           base == [k \in 1..n |-> sources[order[k]]]
           trimmed == Folded(Against, base, [m \in 1..n |-> m])
           At(j) == CHOOSE k \in 1..n : order[k] = j
           t == [j \in 1..n |-> trimmed[At(j)]]
<1>1. n \in Nat /\ DOMAIN sources = 1..n /\ \A k \in 1..n : sources[k] \in SourceOf(D)
  OBVIOUS
<1>2. TrimOverlaps(sources) = t
  BY DEF TrimOverlaps
<1>3. ASSUME NEW k \in 1..n
      PROVE  /\ sources[k] \in AnySource /\ sources[k].c.item \in Int
             /\ key[k] = RangeOrder(sources[k]) /\ key[k] \in [1..3 -> Int] /\ key[k][3] = sources[k].c.item
  <2>1. sources[k] \in AnySource
    BY <1>1 DEF SourceOf, Source
  <2>2. sources[k].c.item \in Items
    BY <2>1 DEF AnySource, Cand
  <2>3. Text[sources[k].c.item].doc \in Int /\ Text[sources[k].c.item].first \in Int
    BY <2>2, TextData
  <2>4. sources[k].c.item \in Int
    BY <2>2, ItemsAreNumbers
  <2> QED
    BY <2>1, <2>3, <2>4 DEF RangeOrder
<1>4. /\ order \in Seq(1..n) /\ Len(order) = n /\ Range(order) = 1..n
      /\ \A i, j \in 1..n : order[i] = order[j] => i = j
  <2>1. IsFiniteSet(1..n) /\ Cardinality(1..n) = n
    BY <1>1, UptoIs
  <2>2. key \in [1..n -> [1..3 -> Int]]
    <3>1. \A k \in 1..n : key[k] \in [1..3 -> Int]
      BY <1>3
    <3>2. key = [k \in 1..n |-> key[k]]
      OBVIOUS
    <3> HIDE DEF key
    <3> QED
      BY <3>1, <3>2
  <2>3. \A i, j \in 1..n : key[i] = key[j] => i = j
    <3> TAKE i, j \in 1..n
    <3> HAVE key[i] = key[j]
    <3>1. sources[i].c.item = sources[j].c.item
      BY <1>3
    <3> QED
      BY <3>1 DEF Single
  <2> DEFINE S == 1..n
             w == 3
  <2>4. IsFiniteSet(S) /\ Cardinality(S) = n /\ key \in [S -> [1..w -> Int]] /\ w \in Nat
        /\ \A i, j \in S : key[i] = key[j] => i = j
    BY <2>1, <2>2, <2>3
  <2> HIDE DEF key, S, w
  <2>5. /\ SortedBy(key) \in Seq(S) /\ Len(SortedBy(key)) = Cardinality(S) /\ Range(SortedBy(key)) = S
        /\ \A i, j \in 1..Len(SortedBy(key)) : SortedBy(key)[i] = SortedBy(key)[j] => i = j
    BY <2>4, SortedByIs
  <2> QED
    BY <2>4, <2>5 DEF S
<1> HIDE DEF key, order
<1>5. \A k \in 1..n : order[k] \in 1..n
  BY <1>4
<1>6. base \in Seq(SourceOf(D)) /\ Len(base) = n /\ \A k \in 1..n : base[k] = sources[order[k]]
  BY <1>1, <1>5
<1>7. ASSUME NEW j \in 1..n PROVE At(j) \in 1..n /\ order[At(j)] = j
  <2>1. DOMAIN order = 1..n /\ j \in Range(order)
    BY <1>4
  <2>2. \E k \in 1..n : order[k] = j
    BY <2>1 DEF Range
  <2> QED
    BY <2>2
<1>8. \A k \in 1..n : At(order[k]) = k
  BY <1>4, <1>5, <1>7
<1> HIDE DEF At, base, n
<1>9. /\ trimmed \in Seq(SourceOf(D)) /\ Len(trimmed) = n
      /\ \A k \in 1..n : trimmed[k].c = base[k].c
      /\ Lossless(base) => Lossless(trimmed)
  BY <1>6, TrimmingRuns
<1> HIDE DEF trimmed
<1>10. t \in Seq(SourceOf(D)) /\ Len(t) = n /\ \A j \in 1..n : t[j] = trimmed[At(j)]
  BY <1>1, <1>7, <1>9
<1> HIDE DEF t
<1>11. ASSUME NEW j \in 1..n PROVE t[j].c = sources[j].c
  <2>1. At(j) \in 1..n /\ order[At(j)] = j
    BY <1>7
  <2>2. t[j] = trimmed[At(j)] /\ trimmed[At(j)].c = base[At(j)].c /\ base[At(j)] = sources[j]
    BY <1>6, <1>9, <1>10, <2>1
  <2> QED
    BY <2>2
<1>12. Lossless(sources) => Lossless(base)
  <2> SUFFICES ASSUME Lossless(sources), NEW k \in 1..n,
                      NEW l \in Text[base[k].c.item].first..(base[k].first - 1)
               PROVE  TellsAll(base, Text[base[k].c.item].stream, l)
    BY <1>6 DEF Lossless
  <2>1. order[k] \in 1..n /\ base[k] = sources[order[k]]
    BY <1>5, <1>6
  <2>2. TellsAll(sources, Text[base[k].c.item].stream, l)
    BY <2>1 DEF Lossless, n
  <2>3. PICK j \in 1..n : Tells(sources[j], Text[base[k].c.item].stream, l)
    BY <2>2 DEF TellsAll, n
  <2>4. At(j) \in 1..n /\ base[At(j)] = sources[j]
    BY <1>6, <1>7
  <2> QED
    BY <1>6, <2>3, <2>4 DEF TellsAll
<1>13. Lossless(trimmed) => Lossless(t)
  <2> SUFFICES ASSUME Lossless(trimmed), NEW k \in 1..n,
                      NEW l \in Text[t[k].c.item].first..(t[k].first - 1)
               PROVE  TellsAll(t, Text[t[k].c.item].stream, l)
    BY <1>10 DEF Lossless
  <2>1. At(k) \in 1..n /\ t[k] = trimmed[At(k)]
    BY <1>7, <1>10
  <2>2. TellsAll(trimmed, Text[t[k].c.item].stream, l)
    BY <1>9, <2>1 DEF Lossless
  <2>3. PICK j \in 1..n : Tells(trimmed[j], Text[t[k].c.item].stream, l)
    BY <1>9, <2>2 DEF TellsAll
  <2>4. order[j] \in 1..n /\ t[order[j]] = trimmed[j]
    BY <1>5, <1>8, <1>10
  <2> QED
    BY <1>10, <2>3, <2>4 DEF TellsAll
<1> QED
  BY <1>2, <1>9, <1>10, <1>11, <1>12, <1>13 DEF n
---------------------------------------------------------------------------
(* The context.                                                             *)

LEMMA RangeIsFinite ==
    ASSUME NEW S, NEW seq \in Seq(S)
    PROVE  /\ IsFiniteSet(Range(seq)) /\ Cardinality(Range(seq)) <= Len(seq)
           /\ (\A i, j \in 1..Len(seq) : seq[i] = seq[j] => i = j) => Cardinality(Range(seq)) = Len(seq)
<1> DEFINE n == Len(seq)
           T == Range(seq)
           I == 1..n
<1>1. n \in Nat /\ DOMAIN seq = I
  OBVIOUS
<1>2. IsFiniteSet(I) /\ Cardinality(I) = n
  BY <1>1, UptoIs
<1>3. seq \in [I -> T] /\ \A x \in T : \E i \in I : seq[i] = x
  <2>1. \A i \in I : seq[i] \in T
    BY <1>1 DEF Range
  <2>2. seq = [i \in I |-> seq[i]]
    BY <1>1
  <2>3. \A x \in T : \E i \in I : seq[i] = x
    BY <1>1 DEF Range
  <2> QED
    BY <2>1, <2>2, <2>3
<1> HIDE DEF n, T, I
<1>4. seq \in Surjection(I, T)
  BY <1>3 DEF Surjection
<1>5. /\ IsFiniteSet(T) /\ Cardinality(T) <= Cardinality(I)
      /\ (Cardinality(T) = Cardinality(I) <=> seq \in Injection(I, T))
  BY <1>2, <1>4, FS_Surjection
<1>6. (\A i, j \in I : seq[i] = seq[j] => i = j) => seq \in Injection(I, T)
  BY <1>3 DEF Injection, IsInjective
<1> QED
  BY <1>2, <1>5, <1>6 DEF n, T, I

\* Who is there, with a source or waiting for one.
Shows(sources) == {sources[k].c : k \in 1..Len(sources)}
Members(f) == Shows(f.sources) \cup Range(f.pending)

LEMMA RangeIs == ASSUME NEW S, NEW seq \in Seq(S) PROVE Range(seq) = {seq[k] : k \in 1..Len(seq)}
<1>1. DOMAIN seq = 1..Len(seq)
  OBVIOUS
<1>2. Range(seq) = {seq[k] : k \in DOMAIN seq}
  BY Zenon DEF Range
<1> QED
  BY <1>1, <1>2

\* Filling forgets no candidate and adds none.
LEMMA FillCovers ==
    ASSUME NEW D \in SUBSET Cand, NEW sources \in Seq(SourceOf(D)), NEW cands \in Seq(D), NEW budget \in Int
    PROVE  Members(Fill(sources, cands, budget)) = Shows(sources) \cup Range(cands)
<1> DEFINE n == Len(cands)
           Upto(k) == {cands[i] : i \in 1..k}
<1>1. PICK acc \in [0..n -> Filled(D)] :
              /\ Fill(sources, cands, budget) = acc[n]
              /\ acc[0] = [sources |-> sources, pending |-> <<>>]
              /\ \A k \in 1..n : Placed(acc[k - 1], acc[k], cands[k])
  BY FillRuns
<1>2. n \in Nat /\ Range(cands) = Upto(n)
  <2>1. n \in Nat /\ cands \in Seq(D)
    OBVIOUS
  <2> QED
    BY <2>1, RangeIs
<1> DEFINE G == {k \in 0..n : Members(acc[k]) = Shows(sources) \cup Upto(k)}
<1>3. 0 \in G
  <2>1. Members(acc[0]) = Shows(sources) \cup Range(<<>>)
    BY <1>1 DEF Members
  <2>2. Range(<<>>) = {} /\ Upto(0) = {}
    BY DEF Range
  <2> QED
    BY <1>2, <2>1, <2>2
<1>4. ASSUME NEW k \in 1..n, k - 1 \in G PROVE k \in G
  <2>1. k \in 0..n /\ k - 1 \in 0..n /\ Placed(acc[k - 1], acc[k], cands[k])
    BY <1>1, <1>2
  <2> DEFINE f == acc[k - 1]
             g == acc[k]
             c == cands[k]
  <2>2. Members(f) = Shows(sources) \cup Upto(k - 1)
    BY <1>4
  <2>3. Upto(k) = Upto(k - 1) \cup {c}
    BY <1>2
  <2>4. /\ f.sources \in Seq(SourceOf(D)) /\ f.pending \in Seq(D)
        /\ g.sources \in Seq(SourceOf(D)) /\ g.pending \in Seq(D)
    BY <1>1, <2>1 DEF Filled
  <2>5. Placed(f, g, c)
    BY <2>1
  <2> HIDE DEF f, g, c, Upto
  <2>6. Members(g) = Members(f) \cup {c}
    <3>1. CASE g.sources = f.sources /\ g.pending = Append(f.pending, c)
      <4>1. Range(g.pending) = Range(f.pending) \cup {c}
        <5>1. /\ Len(g.pending) = Len(f.pending) + 1 /\ g.pending[Len(f.pending) + 1] = c
              /\ Len(f.pending) \in Nat /\ \A i \in 1..Len(f.pending) : g.pending[i] = f.pending[i]
              /\ \A i \in 1..(Len(f.pending) + 1) : i \in 1..Len(f.pending) \/ i = Len(f.pending) + 1
          BY <2>4, <3>1
        <5>2. /\ Range(g.pending) = {g.pending[i] : i \in 1..Len(g.pending)}
              /\ Range(f.pending) = {f.pending[i] : i \in 1..Len(f.pending)}
          BY <2>4, RangeIs
        <5>3. Range(g.pending) \subseteq Range(f.pending) \cup {c}
          BY <5>1, <5>2
        <5>4. Range(f.pending) \cup {c} \subseteq Range(g.pending)
          <6>1. 1..Len(f.pending) \subseteq 1..Len(g.pending) /\ Len(f.pending) + 1 \in 1..Len(g.pending)
            BY <5>1
          <6> QED
            BY <5>1, <5>2, <6>1
        <5> QED
          BY <5>3, <5>4
      <4> QED
        BY <3>1, <4>1 DEF Members
    <3>2. ASSUME NEW s \in Source, s.c = c, g.sources = Append(f.sources, s), g.pending = f.pending
          PROVE  Members(g) = Members(f) \cup {c}
      <4>1. /\ Len(g.sources) = Len(f.sources) + 1 /\ g.sources[Len(f.sources) + 1] = s
            /\ Len(f.sources) \in Nat /\ \A i \in 1..Len(f.sources) : g.sources[i] = f.sources[i]
            /\ \A i \in 1..(Len(f.sources) + 1) : i \in 1..Len(f.sources) \/ i = Len(f.sources) + 1
        BY <2>4, <3>2
      <4>2. Shows(g.sources) = Shows(f.sources) \cup {c}
        BY <3>2, <4>1 DEF Shows
      <4> QED
        BY <3>2, <4>2 DEF Members
    <3> QED
      BY <2>5, <3>1, <3>2 DEF Placed
  <2> QED
    BY <2>1, <2>2, <2>3, <2>6 DEF f, g, c
<1> HIDE DEF G
<1>5. 0..n \subseteq G
  BY <1>2, <1>3, <1>4, Rounds
<1>6. Members(acc[n]) = Shows(sources) \cup Upto(n)
  BY <1>2, <1>5 DEF G
<1> QED
  BY <1>1, <1>2, <1>6

RangeOf(sources, D) == /\ sources \in Seq(SourceOf(D)) /\ Single(sources) /\ Lossless(sources)

LEMMA FillKeeps ==
    ASSUME NEW D \in SUBSET Cand, NEW sources, RangeOf(sources, D), NEW cands \in Seq(D), NEW budget \in Int,
           Disjoint([sources |-> sources, pending |-> cands])
    PROVE  LET f == Fill(sources, cands, budget) IN
           f \in Filled(D) /\ Disjoint(f) /\ RangeOf(f.sources, D) /\ Len(f.sources) >= Len(sources)
<1> DEFINE f == Fill(sources, cands, budget)
<1>1. /\ f \in Filled(D) /\ Len(f.sources) >= Len(sources)
      /\ \A i \in 1..Len(sources) : f.sources[i] = sources[i]
      /\ \A i \in (Len(sources) + 1)..Len(f.sources) : f.sources[i].first = Text[f.sources[i].c.item].first
      /\ Disjoint(f)
  BY FillIs DEF RangeOf
<1> HIDE DEF f
<1>2. f.sources \in Seq(SourceOf(D)) /\ Len(f.sources) \in Nat /\ Len(sources) \in Nat
  BY <1>1 DEF Filled, RangeOf
<1>3. Lossless(f.sources)
  <2> SUFFICES ASSUME NEW k \in 1..Len(f.sources),
                      NEW l \in Text[f.sources[k].c.item].first..(f.sources[k].first - 1)
               PROVE  TellsAll(f.sources, Text[f.sources[k].c.item].stream, l)
    BY DEF Lossless
  <2>1. CASE k \in 1..Len(sources)
    <3>1. TellsAll(sources, Text[f.sources[k].c.item].stream, l)
      BY <1>1, <2>1 DEF RangeOf, Lossless
    <3>2. PICK j \in 1..Len(sources) : Tells(sources[j], Text[f.sources[k].c.item].stream, l)
      BY <3>1 DEF TellsAll
    <3>3. j \in 1..Len(f.sources)
      BY <1>1, <1>2, <3>2
    <3>4. f.sources[j] = sources[j]
      BY <1>1, <3>2
    <3> QED
      BY <3>2, <3>3, <3>4 DEF TellsAll
  <2>2. CASE k \in (Len(sources) + 1)..Len(f.sources)
    <3>1. f.sources[k] \in AnySource
      BY <1>2 DEF SourceOf, Source
    <3>2. Text[f.sources[k].c.item].first \in Nat
      BY <3>1, SizesAre
    <3> QED
      BY <1>1, <2>2, <3>2
  <2> QED
    BY <1>2, <2>1, <2>2
<1> QED
  BY <1>1, <1>2, <1>3 DEF f, RangeOf, Disjoint

\* Rounds of trimming and filling keep every line and every place.
LEMMA TrimAndRefillIs ==
    ASSUME NEW D \in SUBSET Cand, NEW filled \in Filled(D), Disjoint(filled), RangeOf(filled.sources, D),
           NEW budget \in Int
    PROVE  LET f == TrimAndRefill(filled, budget) IN
           f \in Filled(D) /\ Disjoint(f) /\ RangeOf(f.sources, D) /\ Members(f) = Members(filled)
<1> DEFINE M == Members(filled)
           Ready == {f \in Filled(D) : Disjoint(f) /\ RangeOf(f.sources, D) /\ Members(f) = M}
           S == [filled : Ready, full : BOOLEAN]
           Again(f) == Fill(TrimOverlaps(f.sources), f.pending, budget)
           Round1(r, k) == IF r.full THEN r ELSE Tried(r.filled, Again(r.filled))
           base == [filled |-> filled, full |-> FALSE]
           seq == [k \in 1..Len(filled.pending) + 1 |-> k]
           F == [p \in S \X Nat |-> Round1(p[1], p[2])]
           Recurs(g) == g = [k \in 0..Len(seq) |-> IF k = 0 THEN base ELSE Round1(g[k - 1], seq[k])]
           acc == CHOOSE g : Recurs(g)
<1>1. seq \in Seq(Nat) /\ Len(seq) \in Nat
  <2>1. Len(filled.pending) \in Nat
    BY DEF Filled
  <2> QED
    BY <2>1
<1>2. ASSUME NEW f \in Ready PROVE Again(f) \in Ready
  <2> DEFINE t == TrimOverlaps(f.sources)
  <2>1. f.sources \in Seq(SourceOf(D)) /\ f.pending \in Seq(D) /\ Disjoint(f) /\ RangeOf(f.sources, D)
        /\ Members(f) = M
    BY DEF Filled
  <2>2. /\ t \in Seq(SourceOf(D)) /\ Len(t) = Len(f.sources)
        /\ \A k \in 1..Len(f.sources) : t[k].c = f.sources[k].c
        /\ Lossless(t)
    BY <2>1, TrimOverlapsIs DEF RangeOf
  <2> HIDE DEF t
  <2>3. Single(t)
    BY <2>1, <2>2 DEF Disjoint, Single
  <2>4. RangeOf(t, D)
    BY <2>2, <2>3 DEF RangeOf
  <2>5. Disjoint([sources |-> t, pending |-> f.pending])
    BY <2>1, <2>2, <2>3 DEF Disjoint
  <2>6. /\ Fill(t, f.pending, budget) \in Filled(D) /\ Disjoint(Fill(t, f.pending, budget))
        /\ RangeOf(Fill(t, f.pending, budget).sources, D)
    BY <2>1, <2>4, <2>5, FillKeeps
  <2>7. Shows(t) = Shows(f.sources)
    BY <2>2 DEF Shows
  <2>8. Members(Fill(t, f.pending, budget)) = M
    <3>1. Members(f) = Shows(f.sources) \cup Range(f.pending)
      BY DEF Members
    <3>2. Members(Fill(t, f.pending, budget)) = Shows(t) \cup Range(f.pending)
      BY <2>1, <2>2, FillCovers
    <3> QED
      BY <2>1, <2>7, <3>1, <3>2
  <2> QED
    BY <2>6, <2>8 DEF t
<1>3. TrimAndRefill(filled, budget) = acc[Len(seq)].filled
  BY DEF TrimAndRefill, Folded
<1>4. base \in S /\ filled \in Ready
  OBVIOUS
<1> HIDE DEF Again, Ready, M
<1>5. ASSUME NEW r \in S, NEW k PROVE Round1(r, k) \in S
  <2>1. r.filled \in Ready /\ Again(r.filled) \in Ready
    BY <1>2
  <2>2. Tried(r.filled, Again(r.filled)) \in S
    BY <2>1 DEF Tried
  <2> QED
    BY <2>2
<1> HIDE DEF Round1, base, seq, S
<1>6. PICK f \in [0..Len(seq) -> S] : Loops(f, F, base, seq)
  <2>1. F \in [S \X Nat -> S]
    BY <1>5
  <2> QED
    BY <1>1, <1>4, <2>1, LoopExists
<1>7. Recurs(f)
  <2>1. ASSUME NEW k \in 0..Len(seq) PROVE f[k] = IF k = 0 THEN base ELSE Round1(f[k - 1], seq[k])
    <3>1. CASE k # 0
      <4>1. k \in 1..Len(seq) /\ k - 1 \in 0..Len(seq) /\ seq[k] \in Nat
        BY <1>1, <3>1
      <4> QED
        BY <1>1, <1>6, <3>1, <4>1 DEF Loops
    <3> QED
      BY <1>6, <3>1 DEF Loops
  <2> QED
    BY <2>1
<1>8. Recurs(acc)
  BY <1>7
<1> HIDE DEF acc
<1> DEFINE G == {k \in 0..Len(seq) : acc[k] \in S}
<1>9. 0..Len(seq) \subseteq G
  <2>1. 0 \in G
    BY <1>1, <1>4, <1>8
  <2>2. ASSUME NEW k \in 1..Len(seq), k - 1 \in G PROVE k \in G
    <3>1. k \in 0..Len(seq) /\ k # 0 /\ acc[k - 1] \in S
      BY <1>1, <2>2
    <3>2. acc[k] = Round1(acc[k - 1], seq[k])
      BY <1>8, <3>1
    <3> QED
      BY <1>5, <3>1, <3>2
  <2> HIDE DEF G
  <2> QED
    BY <1>1, <2>1, <2>2, Rounds
<1>10. acc[Len(seq)] \in S
  BY <1>1, <1>9
<1>11. acc[Len(seq)].filled \in Ready
  BY <1>10 DEF S
<1> QED
  BY <1>3, <1>11 DEF Ready, M

LEMMA KeysOfCandidates ==
    ASSUME NEW c \in Cand
    PROVE  /\ RelevanceOrder(c) \in [1..3 -> Int] /\ RelevanceOrder(c)[3] = c.item
           /\ DocumentOrder(c) \in [1..5 -> Int] /\ DocumentOrder(c)[5] = c.item
<1>1. c.item \in Items /\ c.score \in Int /\ c.rank \in Int
  BY DEF Cand
<1>2. Text[c.item].doc \in Nat /\ Text[c.item].first \in Nat
  BY <1>1, TextData
<1>3. c.item \in Nat
  BY <1>1, ItemsAreNumbers
<1> QED
  BY <1>1, <1>2, <1>3 DEF RelevanceOrder, DocumentOrder

\* Candidates of different items have an order, and each its place in it.
LEMMA CandidatesInOrder ==
    ASSUME NEW S \in SUBSET Cand, IsFiniteSet(S), \A c, d \in S : c.item = d.item => c = d, NEW relevant
    PROVE  LET order == SortedBy([c \in S |-> IF relevant THEN RelevanceOrder(c) ELSE DocumentOrder(c)])
           IN  order \in Seq(S) /\ Range(order) = S /\ Apart(order)
<1> DEFINE key == [c \in S |-> IF relevant THEN RelevanceOrder(c) ELSE DocumentOrder(c)]
           w == IF relevant THEN 3 ELSE 5
           order == SortedBy(key)
<1>1. w \in Nat
  OBVIOUS
<1>2. ASSUME NEW c \in S PROVE key[c] \in [1..w -> Int] /\ key[c][w] = c.item
  <2>1. CASE relevant
    <3>1. w = 3 /\ key[c] = RelevanceOrder(c)
      BY <2>1
    <3> QED
      BY <3>1, KeysOfCandidates
  <2>2. CASE ~relevant
    <3>1. w = 5 /\ key[c] = DocumentOrder(c)
      BY <2>2
    <3> QED
      BY <3>1, KeysOfCandidates
  <2> QED
    BY <2>1, <2>2
<1>3. key = [c \in S |-> key[c]]
  OBVIOUS
<1> HIDE DEF key, w
<1>4. key \in [S -> [1..w -> Int]] /\ \A c, d \in S : key[c] = key[d] => c = d
  BY <1>2, <1>3
<1>5. /\ order \in Seq(S) /\ Range(order) = S
      /\ \A i, j \in 1..Len(order) : order[i] = order[j] => i = j
  BY <1>1, <1>4, SortedByIs
<1> HIDE DEF order
<1>6. Apart(order)
  <2>1. \A i \in 1..Len(order) : order[i] \in S
    BY <1>5
  <2> QED
    BY <1>5, <2>1 DEF Apart
<1> QED
  BY <1>5, <1>6 DEF order, key

LEMMA SourcesInOrder ==
    ASSUME NEW D \in SUBSET Cand, NEW sources, RangeOf(sources, D)
    PROVE  LET order == SortedBy([s \in Range(sources) |-> DocumentOrder(s.c)]) IN
           RangeOf(order, D) /\ Range(order) = Range(sources)
<1> DEFINE S == Range(sources)
           key == [s \in S |-> DocumentOrder(s.c)]
           w == 5
           order == SortedBy(key)
<1>1. w \in Nat /\ sources \in Seq(SourceOf(D)) /\ DOMAIN sources = 1..Len(sources) /\ Len(sources) \in Nat
  BY DEF RangeOf
<1>2. S \subseteq SourceOf(D) /\ IsFiniteSet(S)
  <2>1. IsFiniteSet(S)
    BY <1>1, RangeIsFinite
  <2> QED
    BY <1>1, <2>1 DEF Range
<1>3. \A s, t \in S : s.c.item = t.c.item => s = t
  <2> TAKE s, t \in S
  <2>1. PICK i \in 1..Len(sources), j \in 1..Len(sources) : s = sources[i] /\ t = sources[j]
    BY <1>1 DEF Range
  <2> QED
    BY <2>1 DEF RangeOf, Single
<1> HIDE DEF S
<1>4. ASSUME NEW s \in S PROVE key[s] \in [1..w -> Int] /\ key[s][w] = s.c.item
  <2>1. s.c \in Cand /\ key[s] = DocumentOrder(s.c)
    BY <1>2 DEF SourceOf
  <2> QED
    BY <2>1, KeysOfCandidates
<1>5. key = [s \in S |-> key[s]]
  OBVIOUS
<1> HIDE DEF key, w
<1>6. key \in [S -> [1..w -> Int]] /\ \A s, t \in S : key[s] = key[t] => s = t
  BY <1>3, <1>4, <1>5
<1>7. /\ order \in Seq(S) /\ Range(order) = S
      /\ \A i, j \in 1..Len(order) : order[i] = order[j] => i = j
  BY <1>1, <1>2, <1>6, SortedByIs
<1> HIDE DEF order
<1>8. order \in Seq(SourceOf(D)) /\ DOMAIN order = 1..Len(order) /\ \A i \in 1..Len(order) : order[i] \in S
  BY <1>2, <1>7
<1>9. Single(order)
  BY <1>3, <1>7, <1>8 DEF Single
<1>10. Lossless(order)
  <2> SUFFICES ASSUME NEW k \in 1..Len(order), NEW l \in Text[order[k].c.item].first..(order[k].first - 1)
               PROVE  TellsAll(order, Text[order[k].c.item].stream, l)
    BY DEF Lossless
  <2>1. PICK i \in 1..Len(sources) : order[k] = sources[i]
    BY <1>1, <1>8 DEF Range, S
  <2>2. TellsAll(sources, Text[order[k].c.item].stream, l)
    BY <2>1 DEF RangeOf, Lossless
  <2>3. PICK j \in 1..Len(sources) : Tells(sources[j], Text[order[k].c.item].stream, l)
    BY <2>2 DEF TellsAll
  <2>4. sources[j] \in Range(order)
    BY <1>1, <1>7 DEF Range, S
  <2>5. PICK m \in 1..Len(order) : order[m] = sources[j]
    BY <1>8, <2>4 DEF Range
  <2> QED
    BY <2>3, <2>5 DEF TellsAll
<1> QED
  BY <1>7, <1>8, <1>9, <1>10 DEF RangeOf, order, key, S

LEMMA FilledFromIs ==
    ASSUME NEW D \in SUBSET Cand, NEW order \in Seq(D), Apart(order), NEW budget \in Int, NEW relevant
    PROVE  LET f == FilledFrom(order, budget, relevant) IN
           /\ f \in Filled(D) /\ Disjoint(f) /\ RangeOf(f.sources, D)
           /\ Members(f) = {c \in Range(order) : c.content}
<1> DEFINE full == {c \in Range(order) : c.content}
           shown == Filtered(order, full)
           first == Fill(<<>>, shown, budget)
           filled == IF relevant THEN TrimAndRefill(first, budget) ELSE first
<1>1. FilledFrom(order, budget, relevant) = filled
  BY DEF FilledFrom
<1>2. shown \in Seq(D) /\ Range(shown) = full /\ \E pos : Picks(shown, order, pos)
  <2>1. shown \in Seq(D) /\ Range(shown) = Range(order) \cap full /\ \E pos : Picks(shown, order, pos)
    <3> HIDE DEF full
    <3> QED
      BY FilteredPicks
  <2>2. full \subseteq Range(order)
    OBVIOUS
  <2> HIDE DEF full, shown
  <2> QED
    BY <2>1, <2>2
<1> HIDE DEF shown, full
<1>3. Apart(shown)
  <2>1. PICK pos : Picks(shown, order, pos)
    BY <1>2
  <2> SUFFICES ASSUME NEW j \in 1..Len(shown), NEW k \in 1..Len(shown), shown[j].item = shown[k].item
               PROVE  j = k
    BY DEF Apart
  <2>2. /\ pos[j] \in 1..Len(order) /\ pos[k] \in 1..Len(order)
        /\ shown[j] = order[pos[j]] /\ shown[k] = order[pos[k]]
        /\ (j < k => pos[j] < pos[k]) /\ (k < j => pos[k] < pos[j])
    BY <2>1 DEF Picks
  <2>3. pos[j] = pos[k]
    BY <2>2 DEF Apart
  <2>4. Len(order) \in Nat /\ j \in Int /\ k \in Int
    BY <1>2
  <2> QED
    BY <2>2, <2>3, <2>4
<1>4. RangeOf(<<>>, D) /\ Disjoint([sources |-> <<>>, pending |-> shown])
  <2>1. <<>> \in Seq(SourceOf(D)) /\ Len(<<>>) = 0 /\ 1..0 = {}
    OBVIOUS
  <2>2. RangeOf(<<>>, D)
    BY <2>1 DEF RangeOf, Single, Lossless
  <2> QED
    BY <1>3, <2>1, <2>2 DEF Disjoint, RangeOf
<1>5. first \in Filled(D) /\ Disjoint(first) /\ RangeOf(first.sources, D)
  BY <1>2, <1>4, FillKeeps
<1>6. Members(first) = full
  <2>1. Shows(<<>>) = {}
    BY DEF Shows
  <2>2. <<>> \in Seq(SourceOf(D))
    OBVIOUS
  <2> QED
    BY <1>2, <2>1, <2>2, FillCovers
<1> HIDE DEF first
<1>7. filled \in Filled(D) /\ Disjoint(filled) /\ RangeOf(filled.sources, D) /\ Members(filled) = full
  <2>1. CASE relevant
    BY <1>5, <1>6, <2>1, TrimAndRefillIs
  <2>2. CASE ~relevant
    BY <1>5, <1>6, <2>2
  <2> QED
    BY <2>1, <2>2
<1> QED
  BY <1>1, <1>7 DEF full

\* The stages of the builder: what is left of the candidates, and where each of these went.
Stages(cands, deduped, filled, D, built, policy) ==
    LET reaching == {c \in Range(cands) : Reaches(c)} IN
    /\ built = Result(cands, reaching, deduped, filled, policy = "optimized_v1")
    /\ Range(deduped) \subseteq reaching
    /\ Disjoint(filled) /\ RangeOf(filled.sources, D)
    /\ Members(filled) = {c \in Range(deduped) : c.content}

LEMMA BuildStages ==
    ASSUME NEW D \in SUBSET Cand, NEW cands \in Seq(D), NEW budget \in Int, NEW policy
    PROVE  \E deduped \in Seq(D), filled \in Filled(D) :
                Stages(cands, deduped, filled, D, Build(cands, budget, policy), policy)
<1> DEFINE reaching == {c \in Range(cands) : Reaches(c)}
           kept == Filtered(cands, reaching)
           deduped == Dedupe(kept)
           S == Range(deduped)
           relevant == policy = "optimized_v1"
           order == InOrder(deduped, relevant)
           filled == FilledFrom(order, budget, relevant)
<1>1. Build(cands, budget, policy) = Result(cands, reaching, deduped, filled, relevant)
  BY DEF Build
<1>2. kept \in Seq(D) /\ Len(kept) \in Nat /\ Range(kept) \subseteq reaching
  BY FilteredPicks
<1> HIDE DEF kept
<1>3. deduped \in Seq(D) /\ Unlike(deduped) /\ Range(deduped) \subseteq Range(kept)
  BY <1>2, UnrepeatedIs DEF Dedupe
<1> HIDE DEF deduped
<1>4. DOMAIN deduped = 1..Len(deduped) /\ Len(deduped) \in Nat
  BY <1>3
<1>5. S \in SUBSET Cand /\ S \subseteq D /\ IsFiniteSet(S) /\ \A c, d \in S : c.item = d.item => c = d
  <2>1. IsFiniteSet(S)
    BY <1>3, RangeIsFinite
  <2>2. \A x \in S : \E i \in 1..Len(deduped) : x = deduped[i]
    BY <1>4 DEF Range
  <2>3. S \subseteq D
    BY <1>3, <2>2
  <2>4. \A c, d \in S : c.item = d.item => c = d
    BY <1>3, <2>2 DEF Unlike, Alike
  <2> QED
    BY <2>1, <2>3, <2>4
<1>5a. order = SortedBy([c \in S |-> IF relevant THEN RelevanceOrder(c) ELSE DocumentOrder(c)])
  BY DEF InOrder
<1> HIDE DEF relevant, order
<1>6. order \in Seq(S) /\ Apart(order) /\ Range(order) = S
  <2> HIDE DEF S
  <2> QED
    BY <1>5, <1>5a, CandidatesInOrder
<1>7. order \in Seq(D)
  <2> HIDE DEF S
  <2> QED
    BY <1>5, <1>6
<1>8. filled \in Filled(D) /\ Disjoint(filled) /\ RangeOf(filled.sources, D) /\ Members(filled) = {c \in S : c.content}
  BY <1>6, <1>7, FilledFromIs
<1> HIDE DEF filled, reaching
<1>9. Range(deduped) \subseteq reaching
  BY <1>2, <1>3
<1> QED
  BY <1>1, <1>3, <1>8, <1>9 DEF relevant, reaching, Stages

\* What the builder shows: candidates it was given, each once, and no line lost between them.
LEMMA BuildIs ==
    ASSUME NEW D \in SUBSET Cand, NEW cands \in Seq(D), NEW budget \in Int, NEW policy
    PROVE  RangeOf(Build(cands, budget, policy).sources, D)
<1>1. PICK deduped \in Seq(D), filled \in Filled(D) :
                Stages(cands, deduped, filled, D, Build(cands, budget, policy), policy)
  BY BuildStages
<1>2. RangeOf(SortedBy([s \in Range(filled.sources) |-> DocumentOrder(s.c)]), D)
  BY <1>1, SourcesInOrder DEF Stages
<1> QED
  BY <1>1, <1>2 DEF Result, Stages
---------------------------------------------------------------------------
(* Searches that go down: from each number to a lower one until one stops.  *)

Descends(f, n, stop, result, down) ==
    \A b \in 0..n : f[b] = IF b \in stop THEN result[b] ELSE f[down[b]]

Downward(n, S, stop, result, down) ==
    \A b \in 0..n : (b \in stop => result[b] \in S) /\ (b \notin stop => down[b] \in 0..(b - 1))

LEMMA DescentExists ==
    ASSUME NEW n \in Nat, NEW S, NEW stop, NEW result, NEW down,
           Downward(n, S, stop, result, down)
    PROVE  \E f \in [0..n -> S] : Descends(f, n, stop, result, down)
<1> DEFINE Upto(m) == \E f \in [0..m -> S] : Descends(f, m, stop, result, down)
           G == {m \in 0..n : Upto(m)}
           F(g, m) == [b \in 0..m |-> IF b = m THEN IF m \in stop THEN result[m] ELSE g[down[m]] ELSE g[b]]
<1>0. \A b \in 0..n : (b \in stop => result[b] \in S) /\ (b \notin stop => down[b] \in 0..(b - 1))
  BY DEF Downward
<1>1. 0 \in G
  <2> DEFINE f == [b \in 0..0 |-> result[0]]
  <2>1. 0 \in 0..n /\ ~(0 \notin stop)
    BY <1>0
  <2>2. f \in [0..0 -> S] /\ f[0] = result[0]
    BY <1>0, <2>1
  <2>3. Descends(f, 0, stop, result, down)
    BY <2>1, <2>2 DEF Descends
  <2> QED
    BY <2>1, <2>2, <2>3
<1>2. ASSUME NEW m \in 1..n, m - 1 \in G PROVE m \in G
  <2>1. /\ m \in 0..n /\ m \in Nat /\ m - 1 \in Nat
        /\ \A b \in 0..m : b = m \/ (b \in 0..(m - 1) /\ b # m)
        /\ \A b \in 0..(m - 1) : b \in 0..m /\ b # m /\ b \in 0..n
    OBVIOUS
  <2>2. PICK g \in [0..(m - 1) -> S] : Descends(g, m - 1, stop, result, down)
    BY <1>2
  <2> DEFINE f == F(g, m)
  <2>3. /\ f = [b \in 0..m |-> f[b]] /\ f[m] = IF m \in stop THEN result[m] ELSE g[down[m]]
        /\ \A b \in 0..(m - 1) : f[b] = g[b]
    BY <2>1
  <2> HIDE DEF F, f
  <2>4. m \notin stop => down[m] \in 0..(m - 1)
    BY <1>0, <2>1
  <2>5. f \in [0..m -> S]
    <3>1. \A b \in 0..m : f[b] \in S
      BY <1>0, <2>1, <2>2, <2>3, <2>4
    <3> QED
      BY <2>3, <3>1
  <2>6. ASSUME NEW b \in 0..m PROVE f[b] = IF b \in stop THEN result[b] ELSE f[down[b]]
    <3>1. CASE b = m
      BY <2>3, <2>4, <3>1
    <3>2. CASE b \in 0..(m - 1)
      <4>1. b \in 0..n /\ f[b] = g[b] /\ g[b] = IF b \in stop THEN result[b] ELSE g[down[b]]
        BY <2>1, <2>2, <2>3, <3>2 DEF Descends
      <4>2. b \notin stop => down[b] \in 0..(m - 1)
        BY <1>0, <4>1, <3>2, <2>1
      <4> QED
        BY <2>3, <4>1, <4>2
    <3> QED
      BY <2>1, <3>1, <3>2
  <2>7. Upto(m)
    BY <2>5, <2>6 DEF Descends
  <2> QED
    BY <2>1, <2>7
<1>3. 0..n \subseteq G
  <2> HIDE DEF G
  <2> QED
    BY <1>1, <1>2, Rounds
<1> QED
  BY <1>3

\* Wherever it begins, it ends with the result of a stop.
LEMMA DescentStays ==
    ASSUME NEW n \in Nat, NEW S, NEW stop, NEW result, NEW down, NEW f, Descends(f, n, stop, result, down),
           Downward(n, S, stop, result, down)
    PROVE  \A b \in 0..n : f[b] \in S
<1> DEFINE T == {b \in 0..n : f[b] \notin S}
<1>1. CASE T = {}
  BY <1>1
<1>2. CASE T # {}
  <2>1. T \subseteq Nat
    OBVIOUS
  <2>2. PICK b \in T : \A x \in T : b <= x
    <3> HIDE DEF T
    <3> QED
      BY <1>2, <2>1, Least
  <2>3. b \in 0..n /\ f[b] \notin S
    OBVIOUS
  <2>4. b \notin stop /\ f[b] = f[down[b]]
    BY <2>3 DEF Descends, Downward
  <2>5. down[b] \in 0..(b - 1)
    BY <2>3, <2>4 DEF Downward
  <2>6. down[b] \in T /\ ~(b <= down[b])
    BY <2>3, <2>4, <2>5
  <2> QED
    BY <2>2, <2>6
<1> QED
  BY <1>1, <1>2

---------------------------------------------------------------------------
(* The input budget.                                                        *)

LEMMA PromptsAreNumbers ==
    ASSUME NEW D, NEW sources \in Seq(SourceOf(D)), NEW omitted
    PROVE  /\ Prompt([sources |-> sources, omitted |-> omitted]) \in Nat
           /\ RepairPrompt(sources) \in Nat
<1>1. sources \in Seq(Source) /\ Len(sources) \in Nat
  BY DEF SourceOf
<1>2. Tokens(sources) \in Nat
  BY <1>1, TokensAreNumbers
<1>3. PromptTokens \in Nat /\ IdTokens \in Nat /\ RepairTokens \in Nat
  BY TextData
<1>4. IdTokens * Len(sources) \in Nat
  BY <1>1, <1>3
<1> QED
  BY <1>2, <1>3, <1>4 DEF Prompt, RepairPrompt

Built(x, cands, policy) == x = Empty \/ \E b \in Nat : x = Build(cands, b, policy)

LEMMA BuiltIs ==
    ASSUME NEW D \in SUBSET Cand, NEW cands \in Seq(D), NEW policy, NEW x, Built(x, cands, policy)
    PROVE  RangeOf(x.sources, D) /\ Prompt(x) \in Nat /\ DOMAIN x.sources = 1..Len(x.sources)
           /\ Len(x.sources) \in Nat
<1>1. RangeOf(x.sources, D)
  <2>1. CASE x = Empty
    <3>1. x.sources = <<>> /\ <<>> \in Seq(SourceOf(D)) /\ Len(<<>>) = 0
      BY <2>1 DEF Empty
    <3> QED
      BY <3>1 DEF RangeOf, Single, Lossless
  <2>2. CASE x # Empty
    <3>1. PICK b \in Nat : x = Build(cands, b, policy)
      BY <2>2 DEF Built
    <3> QED
      BY <3>1, BuildIs
  <2> QED
    BY <2>1, <2>2
<1>2. x.sources \in Seq(SourceOf(D))
  BY <1>1 DEF RangeOf
<1>3. Prompt(x) = Prompt([sources |-> x.sources, omitted |-> {}])
  BY DEF Prompt
<1>4. Prompt([sources |-> x.sources, omitted |-> {}]) \in Nat
  BY <1>2, PromptsAreNumbers
<1> QED
  BY <1>1, <1>2, <1>3, <1>4

\* The context given to a prompt fits its budget, or is empty.
LEMMA BuildForInputIs ==
    ASSUME NEW D \in SUBSET Cand, NEW cands \in Seq(D), NEW policy, NEW budget \in Nat
    PROVE  LET x == BuildForInput(cands, budget, policy) IN
           Built(x, cands, policy) /\ (x = Empty \/ Prompt(x) <= budget)
<1> DEFINE n == Larger(0, budget - PromptTokens)
           At(b) == Build(cands, b, policy)
           S == {x \in {At(b) : b \in 0..n} : Prompt(x) <= budget} \cup {Empty}
           stop == {b \in 0..n : b = 0 \/ Prompt(At(b)) <= budget \/ At(b).sources = <<>>}
           result == [b \in 0..n |-> IF b # 0 /\ Prompt(At(b)) <= budget THEN At(b) ELSE Empty]
           down == [b \in 0..n |-> Larger(0, b - (Prompt(At(b)) - budget))]
           Recurs(g) == g = [b \in 0..n |->
                IF b = 0 THEN Empty
                ELSE FitOr(Build(cands, b, policy), b, budget, g)]
           try == CHOOSE g : Recurs(g)
<1>1. n \in Nat
  BY TextData DEF Larger
<1>2. ASSUME NEW b \in 0..n PROVE Prompt(At(b)) \in Nat /\ b \in Nat
  <2>1. b \in Nat
    BY <1>1
  <2>2. Built(At(b), cands, policy)
    BY <2>1 DEF Built
  <2> HIDE DEF At
  <2> QED
    BY <2>1, <2>2, BuiltIs
<1>3. BuildForInput(cands, budget, policy) = try[n]
  BY DEF BuildForInput
<1>4. \A b \in 0..n : b \in stop => result[b] \in S
  OBVIOUS
<1>5. ASSUME NEW b \in 0..n, b \notin stop PROVE down[b] \in 0..(b - 1)
  <2>1. Prompt(At(b)) > budget /\ b > 0 /\ Prompt(At(b)) \in Nat
    BY <1>2, <1>5
  <2> HIDE DEF At
  <2> QED
    BY <1>2, <2>1 DEF Larger
<1>5a. Downward(n, S, stop, result, down)
  <2> HIDE DEF n, S, stop, result, down
  <2> QED
    BY <1>4, <1>5 DEF Downward
<1>6. \A g : Recurs(g) <=> g = [b \in 0..n |-> IF b \in stop THEN result[b] ELSE g[down[b]]]
  BY DEF FitOr
<1> HIDE DEF n, S, stop, result, down, Recurs
<1>7. PICK f \in [0..n -> S] : Descends(f, n, stop, result, down)
  BY <1>1, <1>5a, DescentExists
<1>8. Recurs(f)
  <2>1. f = [b \in 0..n |-> f[b]]
    BY <1>7
  <2>2. f = [b \in 0..n |-> IF b \in stop THEN result[b] ELSE f[down[b]]]
    BY <1>7, <2>1 DEF Descends
  <2> QED
    BY <1>6, <2>2
<1>9. Recurs(try)
  BY <1>8
<1> HIDE DEF try
<1>10. Descends(try, n, stop, result, down)
  <2>1. try = [b \in 0..n |-> IF b \in stop THEN result[b] ELSE try[down[b]]]
    BY <1>6, <1>9
  <2> QED
    BY <2>1 DEF Descends
<1>11. try[n] \in S
  <2>1. \A b \in 0..n : try[b] \in S
    BY <1>1, <1>5a, <1>10, DescentStays
  <2> QED
    BY <1>1, <2>1
<1>12. PICK x \in S : x = BuildForInput(cands, budget, policy)
  BY <1>3, <1>11
<1>13. Built(x, cands, policy)
  BY <1>1 DEF S, Built
<1> QED
  BY <1>12, <1>13 DEF S
---------------------------------------------------------------------------
(* The repair.                                                              *)

\* The same candidates from where they began, with no more of their text.
Shortened(q, sources) ==
    /\ q \in Seq(AnySource) /\ Len(q) = Len(sources)
    /\ \A k \in 1..Len(sources) :
        q[k].c = sources[k].c /\ q[k].first = sources[k].first /\ q[k].last <= sources[k].last

LEMMA RepairsAreNumbers == ASSUME NEW q \in Seq(AnySource) PROVE RepairPrompt(q) \in Int
<1> DEFINE sizes == [k \in DOMAIN q |-> Rendered(q[k])]
<1>1. Len(q) \in Nat /\ DOMAIN q = 1..Len(q) /\ \A k \in 1..Len(q) : q[k] \in AnySource
  OBVIOUS
<1>2. \A k \in 1..Len(q) : Rendered(q[k]) \in Int
  BY <1>1, SizesAre
<1>3. sizes \in Seq(Int)
  BY <1>1, <1>2
<1> HIDE DEF sizes
<1>4. Sum(sizes) \in Int
  BY <1>3, SumIsNumber
<1>5. Tokens(q) \in Int
  BY <1>4 DEF Tokens, sizes
<1>6. IdTokens \in Nat /\ RepairTokens \in Nat
  BY TextData
<1>7. IdTokens * Len(q) \in Int
  BY <1>1, <1>6
<1> QED
  BY <1>5, <1>6, <1>7 DEF RepairPrompt

LEMMA SharesAreNumbers ==
    ASSUME NEW sources \in Seq(Source), NEW t \in Int
    PROVE  \A k \in 1..Len(sources) : Shares(sources, t)[k] \in Int
<1> DEFINE n == Len(sources)
           capacity == [k \in DOMAIN sources |-> Size(sources[k]) - 1]
           total == Sum(capacity)
           remaining == t - Len(capacity)
           Extra(k) == IF total = 0 THEN 0 ELSE Smaller(capacity[k], (remaining * capacity[k]) \div total)
<1>1. n \in Nat /\ DOMAIN sources = 1..n /\ \A k \in 1..n : sources[k] \in Source
  OBVIOUS
<1>2. ASSUME NEW k \in 1..n PROVE Size(sources[k]) - 1 \in Nat
  <2>1. sources[k] \in AnySource /\ Size(sources[k]) >= 1
    BY <1>1 DEF Source
  <2> QED
    BY <2>1, SizesAre
<1>3. capacity \in Seq(Nat) /\ Len(capacity) = n
  BY <1>1, <1>2
<1> HIDE DEF n
<1>4. Shares(sources, t) = SharesOf(capacity, total, remaining)
  BY DEF Shares
<1> HIDE DEF capacity
<1>5. total \in Nat /\ remaining \in Int
  BY <1>1, <1>3, SumIsNumber
<1> HIDE DEF total, remaining
<1>6. ASSUME NEW k \in 1..n PROVE Extra(k) \in Int
  <2>1. capacity[k] \in Nat
    BY <1>3
  <2>2. remaining * capacity[k] \in Int
    BY <1>5, <2>1
  <2>3. total # 0 => (remaining * capacity[k]) \div total \in Int
    BY <1>5, <2>2
  <2> QED
    BY <2>1, <2>3 DEF Smaller
<1> HIDE DEF Extra
<1>7. ASSUME NEW k \in 1..n PROVE SharesOf(capacity, total, remaining)[k] \in {1 + Extra(k), 1 + Extra(k) + 1}
  <2>1. Extra(k) \in Int
    BY <1>6
  <2>2. SharesOf(capacity, total, remaining)[k] \in {1 + Extra(k) + 0, 1 + Extra(k) + 1}
    BY <1>3 DEF SharesOf, Extra
  <2> QED
    BY <2>1, <2>2
<1> QED
  BY <1>4, <1>6, <1>7 DEF n

LEMMA ShrunkIs ==
    ASSUME NEW sources \in Seq(Source), NEW t \in Int
    PROVE  Shortened(Shrunk(sources, t), sources)
<1> DEFINE n == Len(sources)
           shares == Shares(sources, t)
<1>1. n \in Nat /\ DOMAIN sources = 1..n /\ \A k \in 1..n : sources[k] \in AnySource
  BY DEF Source
<1>2. CASE t = ContentTokens(sources)
  <2>1. Shrunk(sources, t) = sources /\ sources \in Seq(AnySource)
    BY <1>1, <1>2 DEF Shrunk
  <2>2. \A k \in 1..n : sources[k].last \in Int
    BY <1>1 DEF AnySource
  <2> QED
    BY <2>1, <2>2 DEF Shortened
<1>3. CASE t # ContentTokens(sources)
  <2> DEFINE q == [k \in 1..n |-> Truncate(sources[k], shares[k])]
  <2>1. Shrunk(sources, t) = q
    BY <1>1, <1>3 DEF Shrunk
  <2>2. \A k \in 1..n : shares[k] \in Int
    BY SharesAreNumbers
  <2> HIDE DEF shares
  <2>3. \A k \in 1..n : /\ q[k] \in AnySource /\ q[k].c = sources[k].c
                        /\ q[k].first = sources[k].first /\ q[k].last <= sources[k].last
    BY <1>1, <2>2, TruncateIs
  <2>4. q \in Seq(AnySource) /\ Len(q) = n
    BY <1>1, <2>3
  <2> QED
    BY <2>1, <2>3, <2>4 DEF Shortened
<1> QED
  BY <1>2, <1>3

\* A repair fits its budget with the sources of the generation, or shows none.
LEMMA FitRepairIs ==
    ASSUME NEW sources \in Seq(Source), NEW budget \in Nat
    PROVE  LET q == FitRepair(sources, budget) IN
           q = <<>> \/ (Shortened(q, sources) /\ RepairPrompt(q) <= budget)
<1> DEFINE n == ContentTokens(sources)
           At(t) == Shrunk(sources, t)
           Over(t) == RepairPrompt(At(t)) - budget
           few == {t \in 0..n : t # n /\ t < Len(sources)}
           S == {q \in {At(t) : t \in 0..n} : RepairPrompt(q) <= budget} \cup {<<>>}
           stop == {t \in 0..n : t \in few \/ Over(t) <= 0 \/ Over(t) > t}
           result == [t \in 0..n |-> IF t \notin few /\ Over(t) <= 0 THEN At(t) ELSE <<>>]
           down == [t \in 0..n |-> t - Over(t)]
           Recurs(g) == g = [t \in 0..n |->
                LET shrunk == Shrunk(sources, t)
                    over == RepairPrompt(shrunk) - budget
                IN IF t # n /\ t < Len(sources) THEN <<>>
                   ELSE IF over <= 0 THEN shrunk ELSE IF over > t THEN <<>> ELSE g[t - over]]
           try == CHOOSE g : Recurs(g)
<1>1. n \in Nat /\ Len(sources) \in Nat
  <2>1. sources \in Seq(SourceOf(Cand))
    BY DEF SourceOf, Source, AnySource
  <2> QED
    BY TokensAreNumbers
<1>2. FitRepair(sources, budget) = try[n]
  BY DEF FitRepair
<1> HIDE DEF n
<1>3. ASSUME NEW t \in 0..n PROVE t \in Int /\ Shortened(At(t), sources) /\ Over(t) \in Int
                                  /\ RepairPrompt(At(t)) \in Int
  <2>1. t \in Int
    BY <1>1
  <2>2. Shortened(At(t), sources)
    BY <2>1, ShrunkIs
  <2> HIDE DEF At
  <2>3. RepairPrompt(At(t)) \in Int
    BY <2>2, RepairsAreNumbers DEF Shortened
  <2> QED
    BY <2>1, <2>2, <2>3
<1>4. \A g : Recurs(g) <=> g = [t \in 0..n |-> IF t \in stop THEN result[t] ELSE g[down[t]]]
  <2> SUFFICES ASSUME NEW g
               PROVE  \A t \in 0..n :
                        (LET shrunk == Shrunk(sources, t)
                             over == RepairPrompt(shrunk) - budget
                         IN IF t # n /\ t < Len(sources) THEN <<>>
                            ELSE IF over <= 0 THEN shrunk ELSE IF over > t THEN <<>> ELSE g[t - over])
                        = IF t \in stop THEN result[t] ELSE g[down[t]]
    OBVIOUS
  <2> TAKE t \in 0..n
  <2>1. CASE t \in few
    BY <2>1
  <2>2. CASE t \notin few /\ Over(t) <= 0
    BY <2>2
  <2>3. CASE t \notin few /\ ~(Over(t) <= 0)
    BY <2>3
  <2> QED
    BY <2>1, <2>2, <2>3
<1>5. Downward(n, S, stop, result, down)
  <2> SUFFICES ASSUME NEW t \in 0..n
               PROVE  (t \in stop => result[t] \in S) /\ (t \notin stop => down[t] \in 0..(t - 1))
    BY DEF Downward
  <2>1. t \in stop => result[t] \in S
    <3>1. CASE t \notin few /\ Over(t) <= 0
      <4>1. result[t] = At(t)
        BY <3>1
      <4>2. RepairPrompt(At(t)) <= budget
        <5>1. RepairPrompt(At(t)) - budget <= 0 /\ RepairPrompt(At(t)) \in Int
          BY <1>3, <3>1
        <5> HIDE DEF At
        <5> QED
          BY <5>1
      <4> QED
        BY <4>1, <4>2
    <3>2. CASE ~(t \notin few /\ Over(t) <= 0)
      <4>1. result[t] = <<>>
        BY <3>2
      <4> QED
        BY <4>1
    <3> QED
      BY <3>1, <3>2
  <2>2. t \notin stop => down[t] \in 0..(t - 1)
    <3>1. t \in Int /\ Over(t) \in Int /\ t >= 0
      BY <1>1, <1>3
    <3> HIDE DEF Over, few
    <3> QED
      BY <3>1
  <2> QED
    BY <2>1, <2>2
<1> HIDE DEF S, stop, result, down, Recurs
<1>6. PICK f \in [0..n -> S] : Descends(f, n, stop, result, down)
  BY <1>1, <1>5, DescentExists
<1>7. Recurs(f)
  <2>1. f = [b \in 0..n |-> f[b]]
    BY <1>6
  <2>2. f = [b \in 0..n |-> IF b \in stop THEN result[b] ELSE f[down[b]]]
    BY <1>6, <2>1 DEF Descends
  <2> QED
    BY <1>4, <2>2
<1>8. Recurs(try)
  BY <1>7
<1> HIDE DEF try
<1>9. Descends(try, n, stop, result, down)
  <2>1. try = [b \in 0..n |-> IF b \in stop THEN result[b] ELSE try[down[b]]]
    BY <1>4, <1>8
  <2> QED
    BY <2>1 DEF Descends
<1>10. try[n] \in S
  <2>1. \A b \in 0..n : try[b] \in S
    BY <1>1, <1>5, <1>9, DescentStays
  <2> QED
    BY <1>1, <2>1
<1>11. PICK q \in S : q = FitRepair(sources, budget)
  BY <1>2, <1>10
<1>12. CASE q # <<>>
  <2>1. PICK t \in 0..n : q = At(t) /\ RepairPrompt(q) <= budget
    BY <1>12 DEF S
  <2> QED
    BY <1>3, <1>11, <2>1
<1> QED
  BY <1>11, <1>12
---------------------------------------------------------------------------
(* The graph fallback.                                                      *)

\* A finite set has a member that none is before, and one that is before none.
LEMMA Extremes ==
    ASSUME NEW S, IsFiniteSet(S), S # {}, NEW n \in Nat, NEW key \in [S -> [1..n -> Int]]
    PROVE  /\ \E c \in S : \A d \in S : ~Lower(key[d], key[c])
           /\ \E c \in S : \A d \in S : ~Lower(key[c], key[d])
<1> DEFINE K == Range(key)
           same == [k \in K |-> k]
           order == SortedBy(same)
<1>1. K \subseteq [1..n -> Int] /\ (\A c \in S : key[c] \in K) /\ (\A k \in K : \E c \in S : key[c] = k)
  BY DEF Range
<1> HIDE DEF K
<1>2. key \in Surjection(S, K)
  <2>1. key \in [S -> K]
    BY <1>1
  <2> QED
    BY <1>1, <2>1 DEF Surjection
<1>3. IsFiniteSet(K)
  BY <1>2, FS_Surjection
<1>4. same \in [K -> [1..n -> Int]] /\ \A x, y \in K : same[x] = same[y] => x = y
  BY <1>1
<1>4a. \A x \in K : same[x] = x
  OBVIOUS
<1> HIDE DEF same
<1>5. /\ order \in Seq(K) /\ Range(order) = K
      /\ \A i, j \in 1..Len(order) : i < j => Lower(same[order[i]], same[order[j]])
  BY <1>3, <1>4, SortedByIs
<1>6. StrictOrder(KeyOrder(same), K) /\ \A x, y \in K : <<x, y>> \in KeyOrder(same) <=> Lower(same[x], same[y])
  BY <1>4, LowerOrders
<1>7. ASSUME NEW x \in K, NEW y \in K, Lower(x, y), Lower(y, x) PROVE FALSE
  <2>1. <<x, y>> \in KeyOrder(same) /\ <<y, x>> \in KeyOrder(same)
    BY <1>4a, <1>6, <1>7
  <2> QED
    BY <1>6, <2>1 DEF StrictOrder
<1>8. \A x \in K : ~Lower(x, x)
  <2> SUFFICES ASSUME NEW x \in K, Lower(x, x) PROVE FALSE
    OBVIOUS
  <2> QED
    BY <1>7
<1> HIDE DEF order
<1>9. /\ Len(order) \in Nat /\ DOMAIN order = 1..Len(order) /\ \A i \in 1..Len(order) : order[i] \in K
      /\ \A k \in K : \E i \in 1..Len(order) : order[i] = k
  <2>1. Len(order) \in Nat /\ DOMAIN order = 1..Len(order) /\ \A i \in 1..Len(order) : order[i] \in K
    BY <1>5
  <2>2. \A k \in Range(order) : \E i \in 1..Len(order) : order[i] = k
    BY <2>1 DEF Range
  <2> QED
    BY <1>5, <2>1, <2>2
<1>10. \A i, j \in 1..Len(order) : i < j => Lower(order[i], order[j])
  BY <1>4a, <1>5, <1>9
<1>11. \A i, j \in 1..Len(order) : i <= j => ~Lower(order[j], order[i])
  <2> TAKE i, j \in 1..Len(order)
  <2> HAVE i <= j
  <2>1. CASE i < j
    BY <1>7, <1>9, <1>10, <2>1
  <2>2. CASE i = j
    BY <1>8, <1>9, <2>2
  <2> QED
    BY <1>9, <2>1, <2>2
<1>12. Len(order) >= 1
  <2>1. PICK c \in S : TRUE
    OBVIOUS
  <2> QED
    BY <1>1, <1>9, <2>1
<1>13. PICK a \in S, b \in S : key[a] = order[1] /\ key[b] = order[Len(order)]
  <2>1. order[1] \in K /\ order[Len(order)] \in K
    BY <1>9, <1>12
  <2> QED
    BY <1>1, <2>1
<1>14. ASSUME NEW d \in S PROVE ~Lower(key[d], key[a]) /\ ~Lower(key[b], key[d])
  <2>1. PICK i \in 1..Len(order) : order[i] = key[d]
    BY <1>1, <1>9
  <2>2. 1 \in 1..Len(order) /\ Len(order) \in 1..Len(order) /\ 1 <= i /\ i <= Len(order)
    BY <1>9, <1>12
  <2> QED
    BY <1>11, <1>13, <2>1, <2>2
<1> QED
  BY <1>14

LEMMA BestIsOne ==
    ASSUME NEW waiting \in SUBSET Cand, IsFiniteSet(waiting), waiting # {}
    PROVE  BestOf(waiting) \in waiting
<1> DEFINE key == [c \in waiting |-> <<c.rank, c.item>>]
           w == 2
<1>1. key \in [waiting -> [1..w -> Int]] /\ w \in Nat
  <2>1. \A c \in waiting : c.rank \in Int /\ c.item \in Int
    BY ItemsAreNumbers DEF Cand
  <2>2. \A c \in waiting : <<c.rank, c.item>> \in [1..2 -> Int]
    BY <2>1
  <2> QED
    BY <2>2
<1>2. \A c \in waiting : key[c] = <<c.rank, c.item>>
  OBVIOUS
<1> HIDE DEF key, w
<1>3. PICK c \in waiting : \A d \in waiting : ~Lower(key[d], key[c])
  BY <1>1, Extremes
<1>4. \A d \in waiting : ~Lower(<<d.rank, d.item>>, <<c.rank, c.item>>)
  BY <1>2, <1>3
<1> QED
  BY <1>4 DEF BestOf

ContextRecord(x) == x = [sources |-> x.sources, omitted |-> x.omitted]

LEMMA BuiltAreRecords == ASSUME NEW x, NEW cands, NEW policy, Built(x, cands, policy) PROVE ContextRecord(x)
<1>1. CASE x = Empty
  BY <1>1 DEF Empty, ContextRecord
<1>2. ASSUME NEW b \in Nat, x = Build(cands, b, policy) PROVE ContextRecord(x)
  <2>1. PICK s, o : x = [sources |-> s, omitted |-> o]
    BY <1>2 DEF Build, Result
  <2> QED
    BY <2>1 DEF ContextRecord
<1> QED
  BY <1>1, <1>2 DEF Built

HasGraph(x) == \E k \in 1..Len(x.sources) : OfGraph(x.sources[k].c)

---------------------------------------------------------------------------
(* Why candidates are left out.                                             *)

\* Each candidate is a source or has one reason not to be.
Accounted(x, D) ==
    \A c \in D :
        Cardinality({o \in x.omitted : o[1] = c.item}) = IF c.item \in ItemsOf(x) THEN 0 ELSE 1

Reasons(T, U, M, P) ==
    {<<c.item, "threshold">> : c \in T} \cup {<<c.item, "duplicate">> : c \in U}
    \cup {<<c.item, "missing_content">> : c \in M} \cup {<<c.item, "budget">> : c \in P}

\* Every member of D is in exactly one of five sets.
Split(D, T, U, M, P, S) ==
    /\ T \cup U \cup M \cup P \cup S = D
    /\ T \cap (U \cup M \cup P \cup S) = {} /\ U \cap (M \cup P \cup S) = {}
    /\ M \cap (P \cup S) = {} /\ P \cap S = {}

\* A candidate in one of five sets has one reason, or none if it is a source.
LEMMA OneReason ==
    ASSUME NEW D, \A c, d \in D : c.item = d.item => c = d,
           NEW T, NEW U, NEW M, NEW P, NEW S, Split(D, T, U, M, P, S), NEW c \in D
    PROVE  Cardinality({o \in Reasons(T, U, M, P) : o[1] = c.item}) = IF c \in S THEN 0 ELSE 1
<1> DEFINE R == {o \in Reasons(T, U, M, P) : o[1] = c.item}
<1> USE DEF Split
<1>1. ASSUME NEW o \in R
      PROVE  \/ c \in T /\ o = <<c.item, "threshold">>
             \/ c \in U /\ o = <<c.item, "duplicate">>
             \/ c \in M /\ o = <<c.item, "missing_content">>
             \/ c \in P /\ o = <<c.item, "budget">>
  <2>1. /\ o[1] = c.item
        /\ \/ \E d \in T : o = <<d.item, "threshold">>
           \/ \E d \in U : o = <<d.item, "duplicate">>
           \/ \E d \in M : o = <<d.item, "missing_content">>
           \/ \E d \in P : o = <<d.item, "budget">>
    BY DEF Reasons
  <2>2. \A d \in D : d.item = c.item => d = c
    OBVIOUS
  <2>3. CASE \E d \in T : o = <<d.item, "threshold">>
    BY <2>1, <2>2, <2>3
  <2>4. CASE \E d \in U : o = <<d.item, "duplicate">>
    BY <2>1, <2>2, <2>4
  <2>5. CASE \E d \in M : o = <<d.item, "missing_content">>
    BY <2>1, <2>2, <2>5
  <2>6. CASE \E d \in P : o = <<d.item, "budget">>
    BY <2>1, <2>2, <2>6
  <2> QED
    BY <2>1, <2>3, <2>4, <2>5, <2>6
<1>2. /\ c \in T => <<c.item, "threshold">> \in R
      /\ c \in U => <<c.item, "duplicate">> \in R
      /\ c \in M => <<c.item, "missing_content">> \in R
      /\ c \in P => <<c.item, "budget">> \in R
  BY DEF Reasons
<1> HIDE DEF R
<1>3. CASE c \in S
  <2>1. R = {}
    BY <1>1, <1>3
  <2> QED
    BY <1>3, <2>1, FS_EmptySet DEF R
<1>4. CASE c \notin S
  <2>1. \E o : R = {o}
    <3>1. CASE c \in T
      <4>1. R = {<<c.item, "threshold">>}
        BY <1>1, <1>2, <3>1
      <4> QED
        BY <4>1
    <3>2. CASE c \in U
      <4>1. R = {<<c.item, "duplicate">>}
        BY <1>1, <1>2, <3>2
      <4> QED
        BY <4>1
    <3>3. CASE c \in M
      <4>1. R = {<<c.item, "missing_content">>}
        BY <1>1, <1>2, <3>3
      <4> QED
        BY <4>1
    <3>4. CASE c \in P
      <4>1. R = {<<c.item, "budget">>}
        BY <1>1, <1>2, <3>4
      <4> QED
        BY <4>1
    <3> QED
      BY <1>4, <3>1, <3>2, <3>3, <3>4
  <2>2. PICK o : R = {o}
    BY <2>1
  <2>3. Cardinality(R) = 1
    BY <2>2, FS_Singleton
  <2> QED
    BY <1>4, <2>3 DEF R
<1> QED
  BY <1>3, <1>4

LEMMA OwnRange ==
    ASSUME NEW cands \in Seq(Cand)
    PROVE  Range(cands) \in SUBSET Cand /\ cands \in Seq(Range(cands))
           /\ (Apart(cands) => \A c, d \in Range(cands) : c.item = d.item => c = d)
<1>1. Range(cands) = {cands[k] : k \in 1..Len(cands)} /\ \A k \in 1..Len(cands) : cands[k] \in Cand
  BY RangeIs
<1>2. \A k \in 1..Len(cands) : cands[k] \in Range(cands)
  BY <1>1
<1>3. cands \in Seq(Range(cands))
  BY <1>2
<1> QED
  BY <1>1, <1>3 DEF Apart

\* The builder gives every candidate a source or a reason.
LEMMA BuildAccounts ==
    ASSUME NEW cands \in Seq(Cand), Apart(cands), NEW budget \in Int, NEW policy
    PROVE  Accounted(Build(cands, budget, policy), Range(cands))
<1> DEFINE D == Range(cands)
           x == Build(cands, budget, policy)
           reaching == {c \in D : Reaches(c)}
<1>1. /\ D \in SUBSET Cand /\ cands \in Seq(D)
      /\ \A c, d \in D : c.item = d.item => c = d
  BY OwnRange
<1> HIDE DEF D
<1>2. PICK deduped \in Seq(D), filled \in Filled(D) : Stages(cands, deduped, filled, D, x, policy)
  BY <1>1, BuildStages
<1> DEFINE T == D \ reaching
           K == Range(deduped)
           U == reaching \ K
           M == {c \in K : ~c.content}
           P == Range(filled.pending)
           S == Shows(filled.sources)
           relevant == policy = "optimized_v1"
<1>3. /\ x = Result(cands, reaching, deduped, filled, relevant) /\ K \subseteq reaching
      /\ Disjoint(filled) /\ RangeOf(filled.sources, D) /\ P \cup S = {c \in K : c.content}
  BY <1>2 DEF Stages, Members, D
<1>4. x.omitted = Reasons(T, U, M, P)
  BY <1>3 DEF Result, Reasons, D
<1>5. P \cap S = {}
  <2>1. filled.sources \in Seq(SourceOf(D)) /\ filled.pending \in Seq(D)
    BY DEF Filled
  <2>2. P = {filled.pending[k] : k \in 1..Len(filled.pending)}
    BY <2>1, RangeIs
  <2> QED
    BY <1>3, <2>2 DEF Disjoint, Shows
<1>6. ItemsOf(x) = {c.item : c \in S}
  <2>1. filled.sources \in Seq(SourceOf(D)) /\ Range(x.sources) = Range(filled.sources)
    <3>1. x.sources = IF relevant THEN SortedBy([s \in Range(filled.sources) |-> DocumentOrder(s.c)])
                      ELSE filled.sources
      BY <1>3 DEF Result
    <3>2. Range(SortedBy([s \in Range(filled.sources) |-> DocumentOrder(s.c)])) = Range(filled.sources)
      BY <1>1, <1>3, SourcesInOrder
    <3> QED
      BY <3>1, <3>2 DEF Filled
  <2>2. Range(filled.sources) = {filled.sources[k] : k \in 1..Len(filled.sources)}
    BY <2>1, RangeIs
  <2>3. {s.c.item : s \in Range(filled.sources)} = {c.item : c \in S}
    BY <2>2 DEF Shows
  <2> QED
    BY <2>1, <2>3 DEF ItemsOf
<1> HIDE DEF x, reaching, K, P, S
<1>7. reaching \subseteq D
  BY DEF reaching
<1>8. ASSUME NEW c \in D
      PROVE  Cardinality({o \in x.omitted : o[1] = c.item}) = IF c.item \in ItemsOf(x) THEN 0 ELSE 1
  <2>1. S \subseteq D /\ P \subseteq D /\ K \subseteq D
    BY <1>3, <1>7
  <2>2. Split(D, T, U, M, P, S)
    BY <1>3, <1>5, <1>7, <2>1 DEF Split
  <2>3. c.item \in ItemsOf(x) <=> c \in S
    BY <1>1, <1>6, <2>1
  <2> HIDE DEF T, U, M
  <2>4. Cardinality({o \in Reasons(T, U, M, P) : o[1] = c.item}) = IF c \in S THEN 0 ELSE 1
    BY <1>1, <2>2, OneReason
  <2> QED
    BY <1>4, <2>3, <2>4
<1> QED
  BY <1>8 DEF Accounted, x, D

\* A context with sources was built for some budget, and accounts for its candidates.
LEMMA BuiltAccounts ==
    ASSUME NEW cands \in Seq(Cand), Apart(cands), NEW policy, NEW x, Built(x, cands, policy), x.sources # <<>>
    PROVE  Accounted(x, Range(cands))
<1>1. x # Empty
  BY DEF Empty
<1>2. PICK b \in Nat : x = Build(cands, b, policy)
  BY <1>1 DEF Built
<1>3. b \in Int
  OBVIOUS
<1> QED
  BY <1>2, <1>3, BuildAccounts

\* What the fallback says of the candidates it leaves out.
LEMMA LeftAccounts ==
    ASSUME NEW cands \in Seq(Cand), Apart(cands), NEW x, NEW alternative, ContextRecord(alternative), NEW worst
    PROVE  Accounted([alternative EXCEPT !.omitted = Left(cands, x, alternative, worst)], Range(cands))
<1> DEFINE D == Range(cands)
           y == [alternative EXCEPT !.omitted = Left(cands, x, alternative, worst)]
           Reason(c) ==
                IF c.item = worst.c.item THEN "budget_fallback"
                ELSE IF \E o \in x.omitted : o[1] = c.item
                     THEN (CHOOSE o \in x.omitted : o[1] = c.item)[2]
                     ELSE "budget"
<1>1. \A c, d \in D : c.item = d.item => c = d
  BY OwnRange
<1>2. Left(cands, x, alternative, worst)
        = {<<c.item, Reason(c)>> : c \in {c \in D : c.item \notin ItemsOf(alternative)}}
  BY DEF Left
<1> HIDE DEF D, Reason
<1>3. y.omitted = Left(cands, x, alternative, worst) /\ ItemsOf(y) = ItemsOf(alternative)
  <2>1. \A z : LET t == [[sources |-> alternative.sources, omitted |-> alternative.omitted] EXCEPT !.omitted = z]
               IN  t.sources = alternative.sources /\ t.omitted = z
    OBVIOUS
  <2> QED
    BY <2>1 DEF ContextRecord, ItemsOf
<1> HIDE DEF y
<1>4. ASSUME NEW c \in D
      PROVE  Cardinality({o \in y.omitted : o[1] = c.item}) = IF c.item \in ItemsOf(y) THEN 0 ELSE 1
  <2> DEFINE R == {o \in y.omitted : o[1] = c.item}
  <2>1. ASSUME NEW o \in R PROVE c.item \notin ItemsOf(y) /\ o = <<c.item, Reason(c)>>
    <3>1. PICK d \in D : d.item \notin ItemsOf(alternative) /\ o = <<d.item, Reason(d)>>
      BY <1>2, <1>3
    <3>2. d = c
      BY <1>1, <3>1
    <3> QED
      BY <1>3, <3>1, <3>2
  <2>2. c.item \notin ItemsOf(y) => <<c.item, Reason(c)>> \in R
    BY <1>2, <1>3
  <2> HIDE DEF R
  <2>3. CASE c.item \in ItemsOf(y)
    <3>1. R = {}
      BY <2>1, <2>3
    <3> QED
      BY <2>3, <3>1, FS_EmptySet DEF R
  <2>4. CASE c.item \notin ItemsOf(y)
    <3>1. R = {<<c.item, Reason(c)>>}
      BY <2>1, <2>2, <2>4
    <3>2. Cardinality(R) = 1
      BY <3>1, FS_Singleton
    <3> QED
      BY <2>4, <3>2 DEF R
  <2> QED
    BY <2>3, <2>4
<1> QED
  BY <1>4 DEF Accounted, y, D

\* The swap, if it is kept: it fits, costs no source and shows graph evidence.
LEMMA ExchangedIs ==
    ASSUME NEW D \in SUBSET Cand, NEW cands \in Seq(D), NEW policy, NEW budget \in Nat,
           NEW x, Built(x, cands, policy), NEW best \in D, OfGraph(best), best.item \notin ItemsOf(x), NEW worst
    PROVE  LET y == Exchanged(cands, x, best, worst, budget, policy) IN
           \/ y = x
           \/ /\ RangeOf(y.sources, D) /\ Len(y.sources) >= Len(x.sources)
              /\ HasGraph(y) /\ Prompt(y) <= budget /\ ContextRecord(y)
              /\ Apart(cands) => Accounted(y, Range(cands))
<1> DEFINE n == Len(x.sources)
           swapped == [k \in DOMAIN x.sources |-> IF x.sources[k] = worst THEN best ELSE x.sources[k].c]
           alternative == BuildForInput(swapped, budget, policy)
           y == [alternative EXCEPT !.omitted = Left(cands, x, alternative, worst)]
<1>1. Exchanged(cands, x, best, worst, budget, policy) = IF Covers(alternative, x, best.item) THEN y ELSE x
  BY DEF Exchanged, Better
<1>2. RangeOf(x.sources, D) /\ DOMAIN x.sources = 1..n /\ n \in Nat
  BY BuiltIs
<1> HIDE DEF n
<1>3. \A k \in 1..n : x.sources[k].c \in D
  BY <1>2 DEF RangeOf, SourceOf, n
<1> DEFINE E == {best} \cup {x.sources[k].c : k \in 1..n}
<1>4. E \in SUBSET Cand /\ E \subseteq D
  BY <1>3
<1>5. swapped \in Seq(E)
  <2>1. swapped \in [1..n -> E]
    BY <1>2
  <2> QED
    BY <1>2, <2>1
<1> HIDE DEF swapped, E
<1>6. Built(alternative, swapped, policy) /\ (alternative = Empty \/ Prompt(alternative) <= budget)
  BY <1>4, <1>5, BuildForInputIs
<1> HIDE DEF alternative
<1>7. ContextRecord(alternative) /\ RangeOf(alternative.sources, E) /\ DOMAIN alternative.sources = 1..Len(alternative.sources)
  BY <1>4, <1>5, <1>6, BuiltIs, BuiltAreRecords
<1>8. y.sources = alternative.sources
  <2>1. \A z : [[sources |-> alternative.sources, omitted |-> alternative.omitted] EXCEPT !.omitted = z].sources
               = alternative.sources
    OBVIOUS
  <2> QED
    BY <1>7, <2>1 DEF ContextRecord
<1>8a. ContextRecord(y)
  <2>1. \A z : [[sources |-> alternative.sources, omitted |-> alternative.omitted] EXCEPT !.omitted = z]
               = [sources |-> alternative.sources, omitted |-> z]
    OBVIOUS
  <2>2. PICK z : y = [sources |-> alternative.sources, omitted |-> z]
    BY <1>7, <2>1 DEF ContextRecord
  <2> QED
    BY <2>2 DEF ContextRecord
<1>8b. Apart(cands) => Accounted(y, Range(cands))
  <2>1. cands \in Seq(Cand)
    OBVIOUS
  <2> HIDE DEF ContextRecord
  <2> QED
    BY <1>7, <2>1, LeftAccounts
<1> HIDE DEF y
<1>9. CASE Covers(alternative, x, best.item)
  <2>1. PICK k \in 1..Len(alternative.sources) : alternative.sources[k].c.item = best.item
    BY <1>7, <1>9 DEF Covers, ItemsOf, Range
  <2>2. alternative.sources[k].c \in E
    BY <1>7 DEF RangeOf, SourceOf
  <2>3. alternative.sources[k].c = best
    <3>1. \A j \in 1..n : x.sources[j].c.item # best.item
      BY <1>2 DEF ItemsOf, Range
    <3> QED
      BY <2>1, <2>2, <3>1 DEF E
  <2>4. HasGraph(y)
    BY <1>8, <2>3 DEF HasGraph
  <2>5. alternative # Empty
    <3>1. Empty.sources = <<>> /\ Len(<<>>) = 0
      BY DEF Empty
    <3> QED
      BY <2>1, <3>1
  <2>6. Prompt(y) <= budget
    BY <1>6, <1>8, <2>5 DEF Prompt
  <2>7. Len(y.sources) >= Len(x.sources)
    BY <1>8, <1>9 DEF Covers
  <2>8. RangeOf(y.sources, D)
    <3>1. SourceOf(E) \subseteq SourceOf(D)
      BY <1>4 DEF SourceOf
    <3>2. y.sources \in Seq(SourceOf(D))
      BY <1>7, <1>8, <3>1 DEF RangeOf
    <3> QED
      BY <1>7, <1>8, <3>2 DEF RangeOf
  <2> QED
    BY <1>1, <1>8a, <1>8b, <1>9, <2>4, <2>6, <2>7, <2>8 DEF y
<1>10. CASE ~Covers(alternative, x, best.item)
  BY <1>1, <1>10
<1> QED
  BY <1>9, <1>10

\* The fallback keeps the context or makes the swap.
LEMMA FallbackIs ==
    ASSUME NEW cands \in Seq(Cand), NEW policy, NEW budget \in Nat, NEW x, Built(x, cands, policy)
    PROVE  LET y == Fallback(cands, x, budget, policy) IN
           \/ y = x
           \/ /\ RangeOf(y.sources, Range(cands)) /\ Len(y.sources) >= Len(x.sources)
              /\ ~HasGraph(x) /\ HasGraph(y) /\ Prompt(y) <= budget /\ ContextRecord(y)
              /\ Apart(cands) => Accounted(y, Range(cands))
<1> DEFINE D == Range(cands)
           W == Waiting(cands, x)
<1>1. D \in SUBSET Cand /\ cands \in Seq(D)
  <2>1. DOMAIN cands = 1..Len(cands) /\ Len(cands) \in Nat /\ \A k \in 1..Len(cands) : cands[k] \in Cand
    OBVIOUS
  <2>2. \A k \in 1..Len(cands) : cands[k] \in D
    BY <2>1 DEF Range
  <2>3. D \subseteq Cand
    BY <2>1 DEF Range
  <2> HIDE DEF D
  <2>4. cands = [k \in 1..Len(cands) |-> cands[k]]
    BY <2>1
  <2> QED
    BY <2>1, <2>2, <2>3, <2>4
<1>2. IsFiniteSet(D)
  BY <1>1, RangeIsFinite
<1>3. W \subseteq D /\ \A c \in W : OfGraph(c) /\ c.item \notin ItemsOf(x)
  BY DEF Waiting
<1>4. RangeOf(x.sources, D) /\ DOMAIN x.sources = 1..Len(x.sources)
  <2> HIDE DEF D
  <2> QED
    BY <1>1, BuiltIs
<1>5. HasGraph(x) => W = {}
  <2> SUFFICES ASSUME NEW k \in 1..Len(x.sources), OfGraph(x.sources[k].c) PROVE W = {}
    BY DEF HasGraph
  <2>1. x.sources[k].c \in D /\ x.sources[k].c.item \in ItemsOf(x)
    BY <1>4 DEF RangeOf, SourceOf, ItemsOf, Range
  <2> QED
    BY <2>1 DEF Waiting
<1> HIDE DEF D, W
<1>6. CASE W = {} \/ Replaceable(x) = {}
  BY <1>6 DEF Fallback, W
<1>7. CASE ~(W = {} \/ Replaceable(x) = {})
  <2>1. IsFiniteSet(W) /\ W \in SUBSET Cand
    BY <1>1, <1>2, <1>3, FS_Subset
  <2>2. BestOf(W) \in W
    BY <1>7, <2>1, BestIsOne
  <2>3. Fallback(cands, x, budget, policy) = Exchanged(cands, x, BestOf(W), WorstOf(Replaceable(x)), budget, policy)
    BY <1>7 DEF Fallback, W
  <2>4. BestOf(W) \in D /\ OfGraph(BestOf(W)) /\ BestOf(W).item \notin ItemsOf(x)
    BY <1>3, <2>2
  <2> DEFINE y == Exchanged(cands, x, BestOf(W), WorstOf(Replaceable(x)), budget, policy)
  <2>5. \/ y = x
        \/ /\ RangeOf(y.sources, D) /\ Len(y.sources) >= Len(x.sources)
           /\ HasGraph(y) /\ Prompt(y) <= budget /\ ContextRecord(y)
           /\ Apart(cands) => Accounted(y, Range(cands))
    BY <1>1, <2>4, ExchangedIs
  <2> QED
    BY <1>5, <1>7, <2>3, <2>5 DEF D
<1> QED
  BY <1>6, <1>7

---------------------------------------------------------------------------
(* What the reads bring.                                                    *)

\* Candidates, each item once.
Rows(seq) == seq \in Seq(Cand) /\ Apart(seq)

LEMMA FilteredRows == ASSUME NEW seq, Rows(seq), NEW set PROVE Rows(Filtered(seq, set))
<1> DEFINE shown == Filtered(seq, set)
<1>1. seq \in Seq(Cand)
  BY DEF Rows
<1>2. shown \in Seq(Cand) /\ \E pos : Picks(shown, seq, pos)
  BY <1>1, FilteredPicks
<1> HIDE DEF shown
<1>3. PICK pos : Picks(shown, seq, pos)
  BY <1>2
<1>4. ASSUME NEW j \in 1..Len(shown), NEW k \in 1..Len(shown), shown[j].item = shown[k].item PROVE j = k
  <2>1. /\ pos[j] \in 1..Len(seq) /\ pos[k] \in 1..Len(seq)
        /\ shown[j] = seq[pos[j]] /\ shown[k] = seq[pos[k]]
        /\ (j < k => pos[j] < pos[k]) /\ (k < j => pos[k] < pos[j])
    BY <1>3 DEF Picks
  <2>2. pos[j] = pos[k]
    BY <1>4, <2>1 DEF Rows, Apart
  <2>3. Len(seq) \in Nat /\ j \in Int /\ k \in Int
    BY <1>1, <1>2
  <2> QED
    BY <2>1, <2>2, <2>3
<1> QED
  BY <1>2, <1>4 DEF Rows, Apart, shown

LEMMA PrefixIs ==
    ASSUME NEW S, NEW seq \in Seq(S), NEW n \in Nat
    PROVE  /\ Prefix(seq, n) \in Seq(S) /\ Len(Prefix(seq, n)) <= n /\ Len(Prefix(seq, n)) <= Len(seq)
           /\ \A k \in 1..Len(Prefix(seq, n)) : Prefix(seq, n)[k] = seq[k]
<1> DEFINE m == IF Len(seq) < n THEN Len(seq) ELSE n
<1>1. m \in 0..Len(seq) /\ m \in Nat /\ m <= n /\ Len(seq) \in Nat
  OBVIOUS
<1> HIDE DEF m
<1>2. SubSeq(seq, 1, m) \in Seq(S) /\ Len(SubSeq(seq, 1, m)) = m
      /\ \A k \in 1..m : SubSeq(seq, 1, m)[k] = seq[k]
  <2>1. \A k \in 1..m : seq[k] \in S
    BY <1>1
  <2> QED
    BY <1>1, <2>1, SubSeqProperties
<1>3. Prefix(seq, n) = SubSeq(seq, 1, m)
  BY DEF Prefix, m
<1> QED
  BY <1>1, <1>2, <1>3

LEMMA PrefixRows == ASSUME NEW seq, Rows(seq), NEW n \in Nat PROVE Rows(Prefix(seq, n))
<1> DEFINE p == Prefix(seq, n)
<1>1. seq \in Seq(Cand) /\ Len(seq) \in Nat
  BY DEF Rows
<1>2. /\ p \in Seq(Cand) /\ Len(p) <= Len(seq) /\ \A k \in 1..Len(p) : p[k] = seq[k]
  BY <1>1, PrefixIs
<1> HIDE DEF p
<1>3. Len(p) \in Nat
  BY <1>2
<1>4. \A k \in 1..Len(p) : k \in 1..Len(seq)
  BY <1>1, <1>2, <1>3
<1>5. Apart(p)
  BY <1>2, <1>4 DEF Rows, Apart
<1> QED
  BY <1>2, <1>5 DEF Rows, p

LEMMA CandidateIs ==
    ASSUME NEW i \in Items, NEW kind \in Kinds, NEW score \in Int, NEW content \in BOOLEAN
    PROVE  LET c == Candidate(i, kind, score, content) IN
           c \in Cand /\ c.item = i /\ c.kind = kind /\ c.content = content /\ c.rank = Unranked
<1>1. -1 \in Int
  OBVIOUS
<1>2. {kind} \in SUBSET Kinds
  OBVIOUS
<1> QED
  BY <1>1, <1>2 DEF Candidate, Cand, Unranked

\* A candidate for each of some items.
LEMMA Candidates ==
    ASSUME NEW I \in SUBSET Items, NEW score, \A i \in I : score[i] \in Int
    PROVE  LET S == {Candidate(i, "h3_chunk", score[i], FALSE) : i \in I} IN
           /\ S \in SUBSET Cand /\ IsFiniteSet(S) /\ \A c, d \in S : c.item = d.item => c = d
<1> DEFINE new == [i \in I |-> Candidate(i, "h3_chunk", score[i], FALSE)]
           S == {Candidate(i, "h3_chunk", score[i], FALSE) : i \in I}
<1>1. IsFiniteSet(I)
  BY TextData, FS_Subset
<1>2. ASSUME NEW i \in I
      PROVE  /\ Candidate(i, "h3_chunk", score[i], FALSE) \in Cand
             /\ Candidate(i, "h3_chunk", score[i], FALSE).item = i
  <2> DEFINE sc == score[i]
             kind == "h3_chunk"
             no == FALSE
             c == Candidate(i, kind, sc, no)
  <2>1. i \in Items /\ sc \in Int
    OBVIOUS
  <2>2. kind \in Kinds
    BY DEF Kinds
  <2>3. no \in BOOLEAN
    OBVIOUS
  <2> HIDE DEF sc, kind, no
  <2>4. c \in Cand /\ c.item = i
    BY <2>1, <2>2, <2>3, CandidateIs
  <2> QED
    BY <2>4 DEF sc, kind, no
<1>3. new \in [I -> S] /\ \A c \in S : \E i \in I : new[i] = c
  OBVIOUS
<1>4. S \in SUBSET Cand /\ \A c, d \in S : c.item = d.item => c = d
  BY <1>2
<1> HIDE DEF S
<1>5. new \in Surjection(I, S)
  BY <1>3 DEF Surjection
<1>6. IsFiniteSet(S)
  BY <1>1, <1>5, FS_Surjection
<1> QED
  BY <1>4, <1>6 DEF S

LEMMA ByScoreIs ==
    ASSUME NEW S \in SUBSET Cand, IsFiniteSet(S), \A c, d \in S : c.item = d.item => c = d
    PROVE  Rows(ByScore(S)) /\ Range(ByScore(S)) = S
<1> DEFINE key == [c \in S |-> <<-c.score, c.item>>]
           w == 2
           order == SortedBy(key)
<1>1. w \in Nat
  OBVIOUS
<1>2. ASSUME NEW c \in S PROVE key[c] \in [1..w -> Int] /\ key[c][w] = c.item
  <2>1. c.item \in Int /\ c.score \in Int
    BY ItemsAreNumbers DEF Cand
  <2>2. <<-c.score, c.item>> \in [1..2 -> Int]
    BY <2>1
  <2> QED
    BY <2>2
<1>3. key = [c \in S |-> key[c]]
  OBVIOUS
<1>4. ByScore(S) = order
  BY DEF ByScore
<1> HIDE DEF key, w
<1>5. key \in [S -> [1..w -> Int]] /\ \A c, d \in S : key[c] = key[d] => c = d
  BY <1>2, <1>3
<1>6. /\ order \in Seq(S) /\ Range(order) = S
      /\ \A i, j \in 1..Len(order) : order[i] = order[j] => i = j
  BY <1>1, <1>5, SortedByIs
<1> HIDE DEF order
<1>7. Apart(order)
  <2>1. \A i \in 1..Len(order) : order[i] \in S
    BY <1>6
  <2> QED
    BY <1>6, <2>1 DEF Apart
<1>8. order \in Seq(Cand)
  BY <1>6
<1> QED
  BY <1>4, <1>6, <1>7, <1>8 DEF Rows

\* Another content changes neither the candidates nor their order.
LEMMA EnrichedRows == ASSUME NEW seq, Rows(seq), NEW always \in BOOLEAN PROVE Rows(Enriched(seq, always))
<1> DEFINE new == Enriched(seq, always)
<1>1. seq \in Seq(Cand) /\ Len(seq) \in Nat /\ DOMAIN seq = 1..Len(seq)
  BY DEF Rows
<1>2. ASSUME NEW k \in 1..Len(seq) PROVE new[k] \in Cand /\ new[k].item = seq[k].item
  <2> DEFINE b == seq[k].content \/ (always /\ seq[k].item \in db.stored)
  <2>1. seq[k] \in Cand
    BY <1>1
  <2>2. new[k] = [seq[k] EXCEPT !.content = b]
    BY <1>1 DEF Enriched
  <2>3. b \in BOOLEAN
    OBVIOUS
  <2> HIDE DEF b, new
  <2>4. [seq[k] EXCEPT !.content = b] \in Cand
    BY <2>1, <2>3 DEF Cand
  <2>5. [seq[k] EXCEPT !.content = b].item = seq[k].item
    BY <2>1 DEF Cand
  <2> QED
    BY <2>2, <2>4, <2>5
<1>3. new = [k \in 1..Len(seq) |-> new[k]]
  BY <1>1 DEF Enriched
<1> HIDE DEF new
<1>4. new \in Seq(Cand) /\ Len(new) = Len(seq)
  BY <1>1, <1>2, <1>3
<1>5. Apart(new)
  BY <1>2, <1>4 DEF Rows, Apart
<1> QED
  BY <1>4, <1>5 DEF Rows, new

LEMMA FoundIs ==
    ASSUME NEW I \in SUBSET Items, NEW score, \A i \in I : score[i] \in Int
    PROVE  LET S == {Candidate(i, "h3_chunk", score[i], FALSE) : i \in I} IN
           Rows(Best(S)) /\ Rows(ByScore(S)) /\ Range(ByScore(S)) = S
<1> DEFINE S == {Candidate(i, "h3_chunk", score[i], FALSE) : i \in I}
<1>1. S \in SUBSET Cand /\ IsFiniteSet(S) /\ \A c, d \in S : c.item = d.item => c = d
  BY Candidates
<1> HIDE DEF S
<1>2. Rows(ByScore(S)) /\ Range(ByScore(S)) = S
  BY <1>1, ByScoreIs
<1>3. CandidateK \in Nat
  BY Corpus
<1>4. Rows(Best(S))
  BY <1>2, <1>3, PrefixRows DEF Best
<1> QED
  BY <1>2, <1>4 DEF S

\* One candidate for each item of two searches.
LEMMA HybridRows ==
    ASSUME Rows(found), Rows(matched) PROVE Rows(ByScore(Hybrid)) /\ Range(ByScore(Hybrid)) = Hybrid
<1> DEFINE items == {c.item : c \in Range(found) \cup Range(matched)}
           ScoreIn(seq, i) == IF \E c \in Range(seq) : c.item = i
                              THEN (CHOOSE c \in Range(seq) : c.item = i).score ELSE 0
           score == [i \in items |-> ScoreIn(found, i) + ScoreIn(matched, i)]
<1>1. \A c \in Range(found) \cup Range(matched) : c \in Cand
  BY DEF Rows, Range
<1>2. items \in SUBSET Items
  BY <1>1 DEF Cand
<1>3. ASSUME NEW seq \in {found, matched}, NEW i PROVE ScoreIn(seq, i) \in Int
  <2>1. CASE \E c \in Range(seq) : c.item = i
    <3>1. (CHOOSE c \in Range(seq) : c.item = i) \in Range(seq)
      BY <2>1
    <3> QED
      BY <1>1, <2>1, <3>1 DEF Cand
  <2>2. CASE ~\E c \in Range(seq) : c.item = i
    BY <2>2
  <2> QED
    BY <2>1, <2>2
<1>4. Hybrid = {Candidate(i, "h3_chunk", score[i], FALSE) : i \in items}
  BY DEF Hybrid
<1>5. \A i \in items : score[i] \in Int
  <2> TAKE i \in items
  <2>1. score[i] = ScoreIn(found, i) + ScoreIn(matched, i)
    OBVIOUS
  <2>2. ScoreIn(found, i) \in Int /\ ScoreIn(matched, i) \in Int
    BY <1>3
  <2> QED
    BY <2>1, <2>2
<1> HIDE DEF items, score
<1> QED
  BY <1>2, <1>4, <1>5, FoundIs

---------------------------------------------------------------------------
(* The families.                                                            *)

LEMMA MergedIs ==
    ASSUME NEW c \in Cand, NEW d \in Cand
    PROVE  MergeSame(c, d) \in Cand /\ MergeSame(c, d).item = c.item
<1> DEFINE o == c.origins \cup d.origins
           s == Larger(c.score, d.score)
           b == c.content \/ d.content
           m == [c EXCEPT !.origins = o, !.score = s, !.content = b]
<1>1. MergeSame(c, d) = m
  BY DEF MergeSame
<1>2. o \in SUBSET Kinds /\ s \in Int /\ b \in BOOLEAN
  BY DEF Cand, Larger
<1> HIDE DEF o, s, b
<1>3. m \in Cand
  BY <1>2 DEF Cand
<1>4. m.item = c.item
  BY DEF Cand
<1> QED
  BY <1>1, <1>3, <1>4

LEMMA JoinOneIs == ASSUME NEW seq, Rows(seq), NEW c \in Cand PROVE Rows(JoinOne(seq, c))
<1> DEFINE n == Len(seq)
           new == JoinOne(seq, c)
<1>1. seq \in Seq(Cand) /\ n \in Nat /\ DOMAIN seq = 1..n
  BY DEF Rows
<1>2. CASE \E k \in DOMAIN seq : seq[k].item = c.item
  <2> DEFINE At(k) == IF seq[k].item = c.item THEN MergeSame(seq[k], c) ELSE seq[k]
  <2>1. new = [k \in 1..n |-> At(k)]
    BY <1>1, <1>2 DEF JoinOne
  <2>2. \A k \in 1..n : At(k) \in Cand /\ At(k).item = seq[k].item
    BY <1>1, MergedIs
  <2> HIDE DEF At, new, n
  <2>3. new \in Seq(Cand) /\ Len(new) = n /\ \A k \in 1..n : new[k].item = seq[k].item
    BY <1>1, <2>1, <2>2
  <2>4. Apart(new)
    BY <2>3 DEF Rows, Apart, n
  <2> QED
    BY <2>3, <2>4 DEF Rows, new
<1>3. CASE ~\E k \in DOMAIN seq : seq[k].item = c.item
  <2>1. new = Append(seq, c)
    BY <1>3 DEF JoinOne
  <2> HIDE DEF new, n
  <2>2. /\ new \in Seq(Cand) /\ Len(new) = n + 1 /\ new[n + 1] = c
        /\ \A k \in 1..n : new[k] = seq[k]
        /\ \A k \in 1..(n + 1) : k \in 1..n \/ k = n + 1
    BY <1>1, <2>1 DEF n
  <2>3. \A k \in 1..n : seq[k].item # c.item
    BY <1>1, <1>3
  <2>4. Apart(new)
    <3> SUFFICES ASSUME NEW j \in 1..(n + 1), NEW k \in 1..(n + 1), new[j].item = new[k].item
                 PROVE  j = k
      BY <2>2 DEF Apart
    <3>1. CASE j \in 1..n /\ k \in 1..n
      BY <2>2, <3>1 DEF Rows, Apart, n
    <3> QED
      BY <2>2, <2>3, <3>1
  <2> QED
    BY <2>2, <2>4 DEF Rows, new
<1> QED
  BY <1>2, <1>3

---------------------------------------------------------------------------
(* Where candidates come from.                                              *)

\* Merging and enriching change neither.
Stems(x, y) == x.item = y.item /\ x.kind = y.kind /\ x.rank = y.rank

LEMMA PrefixRange ==
    ASSUME NEW S, NEW seq \in Seq(S), NEW n \in Nat PROVE Range(Prefix(seq, n)) \subseteq Range(seq)
<1> DEFINE p == Prefix(seq, n)
<1>1. p \in Seq(S) /\ Len(p) <= Len(seq) /\ \A k \in 1..Len(p) : p[k] = seq[k]
  BY PrefixIs
<1> HIDE DEF p
<1>2. Len(p) \in Nat /\ Len(seq) \in Nat
  BY <1>1
<1>3. Range(p) = {p[k] : k \in 1..Len(p)} /\ Range(seq) = {seq[k] : k \in 1..Len(seq)}
  BY <1>1, RangeIs
<1>4. \A k \in 1..Len(p) : k \in 1..Len(seq)
  BY <1>1, <1>2
<1> QED
  BY <1>1, <1>3, <1>4 DEF p

LEMMA MergedStems == ASSUME NEW c \in Cand, NEW d PROVE Stems(MergeSame(c, d), c)
<1> DEFINE o == c.origins \cup d.origins
           s == Larger(c.score, d.score)
           b == c.content \/ d.content
           m == [c EXCEPT !.origins = o, !.score = s, !.content = b]
<1>1. MergeSame(c, d) = m
  BY DEF MergeSame
<1> HIDE DEF o, s, b
<1>2. m.item = c.item /\ m.kind = c.kind /\ m.rank = c.rank
  BY DEF Cand
<1> QED
  BY <1>1, <1>2 DEF Stems

LEMMA EnrichedStems ==
    ASSUME NEW seq \in Seq(Cand), NEW always
    PROVE  \A x \in Range(Enriched(seq, always)) : \E y \in Range(seq) : Stems(x, y)
<1> DEFINE new == Enriched(seq, always)
           b(k) == seq[k].content \/ (always /\ seq[k].item \in db.stored)
<1>1. DOMAIN seq = 1..Len(seq)
  OBVIOUS
<1>2. new = [k \in 1..Len(seq) |-> [seq[k] EXCEPT !.content = b(k)]]
  BY <1>1 DEF Enriched
<1> HIDE DEF b
<1>3. ASSUME NEW k \in 1..Len(seq) PROVE Stems(new[k], seq[k])
  <2>1. seq[k] \in Cand
    OBVIOUS
  <2>2. new[k] = [seq[k] EXCEPT !.content = b(k)]
    BY <1>2
  <2> HIDE DEF new
  <2> QED
    BY <2>1, <2>2 DEF Cand, Stems
<1>4. Range(new) = {new[k] : k \in 1..Len(seq)}
  BY <1>2 DEF Range
<1>5. \A k \in 1..Len(seq) : seq[k] \in Range(seq)
  BY <1>1 DEF Range
<1> HIDE DEF new
<1>6. \A x \in Range(new) : \E y \in Range(seq) : Stems(x, y)
  BY <1>3, <1>4, <1>5
<1> QED
  BY <1>6 DEF new

LEMMA JoinStems ==
    ASSUME NEW seq \in Seq(Cand), NEW c \in Cand
    PROVE  \A x \in Range(JoinOne(seq, c)) : Stems(x, c) \/ \E y \in Range(seq) : Stems(x, y)
<1> DEFINE n == Len(seq)
           new == JoinOne(seq, c)
<1>1. n \in Nat /\ DOMAIN seq = 1..n /\ \A k \in 1..n : seq[k] \in Cand /\ seq[k] \in Range(seq)
  BY DEF Range
<1>2. CASE \E k \in DOMAIN seq : seq[k].item = c.item
  <2> DEFINE At(k) == IF seq[k].item = c.item THEN MergeSame(seq[k], c) ELSE seq[k]
  <2>1. new = [k \in 1..n |-> At(k)]
    BY <1>1, <1>2 DEF JoinOne
  <2>2. \A k \in 1..n : Stems(At(k), seq[k])
    <3> TAKE k \in 1..n
    <3>1. CASE seq[k].item = c.item
      BY <1>1, <3>1, MergedStems
    <3>2. CASE seq[k].item # c.item
      BY <3>2 DEF Stems
    <3> QED
      BY <3>1, <3>2
  <2>3. Range(new) = {At(k) : k \in 1..n}
    BY <2>1 DEF Range
  <2> HIDE DEF At, new, n
  <2>4. \A x \in Range(new) : \E y \in Range(seq) : Stems(x, y)
    BY <1>1, <2>2, <2>3
  <2> QED
    BY <2>4 DEF new
<1>3. CASE ~\E k \in DOMAIN seq : seq[k].item = c.item
  <2>1. new = Append(seq, c)
    BY <1>3 DEF JoinOne
  <2> HIDE DEF new, n
  <2>2. /\ new \in Seq(Cand) /\ Len(new) = n + 1 /\ new[n + 1] = c
        /\ \A k \in 1..n : new[k] = seq[k]
        /\ \A k \in 1..(n + 1) : k \in 1..n \/ k = n + 1
    BY <1>1, <2>1 DEF n
  <2>3. Range(new) = {new[k] : k \in 1..(n + 1)}
    BY <2>2, RangeIs
  <2>4. \A x \in Range(new) : x = c \/ x \in Range(seq)
    BY <1>1, <2>2, <2>3
  <2> QED
    BY <2>4 DEF new, Stems
<1> QED
  BY <1>2, <1>3

LEMMA ConcatRange ==
    ASSUME NEW S, NEW a \in Seq(S), NEW b \in Seq(S) PROVE Range(a \o b) \subseteq Range(a) \cup Range(b)
<1>1. /\ a \o b \in Seq(S) /\ Len(a \o b) = Len(a) + Len(b) /\ Len(a) \in Nat /\ Len(b) \in Nat
      /\ \A k \in 1..(Len(a) + Len(b)) :
            (a \o b)[k] = IF k <= Len(a) THEN a[k] ELSE b[k - Len(a)]
  OBVIOUS
<1>2. /\ Range(a \o b) = {(a \o b)[k] : k \in 1..Len(a \o b)}
      /\ Range(a) = {a[k] : k \in 1..Len(a)} /\ Range(b) = {b[k] : k \in 1..Len(b)}
  BY <1>1, RangeIs
<1>3. ASSUME NEW k \in 1..(Len(a) + Len(b)) PROVE (a \o b)[k] \in Range(a) \cup Range(b)
  <2>1. CASE k <= Len(a)
    <3>1. k \in 1..Len(a)
      BY <1>1, <2>1
    <3> QED
      BY <1>1, <1>2, <2>1, <3>1
  <2>2. CASE ~(k <= Len(a))
    <3>1. k - Len(a) \in 1..Len(b)
      BY <1>1, <2>2
    <3> QED
      BY <1>1, <1>2, <2>2, <3>1
  <2> QED
    BY <2>1, <2>2
<1> QED
  BY <1>1, <1>2, <1>3

\* Joining lists an item once and changes neither its kind nor its place.
LEMMA JoinedAre ==
    ASSUME NEW seq \in Seq(Cand)
    PROVE  LET joined == Folded(JoinOne, <<>>, seq) IN
           Rows(joined) /\ \A x \in Range(joined) : \E y \in Range(seq) : Stems(x, y)
<1> DEFINE R == Range(seq)
           From(r) == \A x \in Range(r) : \E y \in R : Stems(x, y)
           S == {r \in Seq(Cand) : Rows(r) /\ From(r)}
           F == [p \in S \X R |-> JoinOne(p[1], p[2])]
           Recurs(g) == g = [k \in 0..Len(seq) |-> IF k = 0 THEN <<>> ELSE JoinOne(g[k - 1], seq[k])]
           acc == CHOOSE g : Recurs(g)
<1>1. Len(seq) \in Nat /\ \A k \in 1..Len(seq) : seq[k] \in Cand /\ seq[k] \in R
  BY DEF Range
<1>2. ASSUME NEW r \in S, NEW c \in R PROVE JoinOne(r, c) \in S
  <2>1. c \in Cand /\ r \in Seq(Cand) /\ Rows(r) /\ From(r)
    BY <1>1 DEF Range
  <2>2. Rows(JoinOne(r, c))
    BY <2>1, JoinOneIs
  <2>3. From(JoinOne(r, c))
    <3> SUFFICES ASSUME NEW x \in Range(JoinOne(r, c)) PROVE \E y \in R : Stems(x, y)
      OBVIOUS
    <3>1. CASE Stems(x, c)
      BY <3>1
    <3>2. CASE \E z \in Range(r) : Stems(x, z)
      <4>1. PICK z \in Range(r) : Stems(x, z)
        BY <3>2
      <4>2. PICK y \in R : Stems(z, y)
        BY <2>1
      <4> QED
        BY <4>1, <4>2 DEF Stems
    <3> QED
      BY <2>1, <3>1, <3>2, JoinStems
  <2> QED
    BY <2>2, <2>3 DEF Rows
<1>3. <<>> \in S
  <2>1. Range(<<>>) = {}
    BY DEF Range
  <2> QED
    BY <2>1 DEF Rows, Apart
<1>4. Folded(JoinOne, <<>>, seq) = acc[Len(seq)]
  BY DEF Folded
<1>4a. seq \in Seq(R)
  BY <1>1
<1> HIDE DEF S, R
<1>5. PICK f \in [0..Len(seq) -> S] : Loops(f, F, <<>>, seq)
  <2>1. F \in [S \X R -> S]
    BY <1>2
  <2> QED
    BY <1>3, <1>4a, <2>1, LoopExists
<1>6. Recurs(f)
  <2>1. ASSUME NEW k \in 0..Len(seq) PROVE f[k] = IF k = 0 THEN <<>> ELSE JoinOne(f[k - 1], seq[k])
    <3>1. CASE k # 0
      <4>1. k \in 1..Len(seq) /\ k - 1 \in 0..Len(seq)
        BY <1>1, <3>1
      <4> QED
        BY <1>1, <1>5, <3>1, <4>1 DEF Loops
    <3> QED
      BY <1>5, <3>1 DEF Loops
  <2> QED
    BY <2>1
<1>7. Recurs(acc)
  BY <1>6
<1> HIDE DEF acc
<1> DEFINE G == {k \in 0..Len(seq) : acc[k] \in S}
<1>8. 0..Len(seq) \subseteq G
  <2>1. 0 \in G
    BY <1>1, <1>3, <1>7
  <2>2. ASSUME NEW k \in 1..Len(seq), k - 1 \in G PROVE k \in G
    <3>1. k \in 0..Len(seq) /\ k # 0 /\ acc[k - 1] \in S /\ seq[k] \in R
      BY <1>1, <2>2
    <3>2. acc[k] = JoinOne(acc[k - 1], seq[k])
      BY <1>7, <3>1
    <3> QED
      BY <1>2, <3>1, <3>2
  <2> HIDE DEF G
  <2> QED
    BY <1>1, <2>1, <2>2, Rounds
<1>9. acc[Len(seq)] \in S
  BY <1>1, <1>8
<1> QED
  BY <1>4, <1>9 DEF S, R

\* The items of two families are apart.
Across(families) == \A x \in Range(families[1]), y \in Range(families[2]) : x.item # y.item

LEMMA FamiliesStem ==
    ASSUME NEW s \in Seq(Cand), NEW g \in Seq(Cand), NEW chunks, Rows(chunks)
    PROVE  LET families == Families(s, g, chunks) IN
           /\ Rows(families[1]) /\ Rows(families[2]) /\ Across(families)
           /\ \A x \in Range(families[1]) :
                \E y \in Range(s) \cup Range(g) \cup Range(chunks) : Stems(x, y)
           /\ Range(families[2]) \subseteq Range(chunks)
<1> DEFINE own == s \o g
           known == {c.item : c \in Range(own)}
           same == {c \in Range(chunks) : c.item \in known}
           kept == Filtered(chunks, same)
           both == own \o kept
           rest == Filtered(chunks, Range(chunks) \ same)
           joined == Folded(JoinOne, <<>>, both)
<1>1. chunks \in Seq(Cand) /\ own \in Seq(Cand)
  BY DEF Rows
<1>2. Families(s, g, chunks) = <<joined, rest>>
  BY DEF Families
<1>3. /\ kept \in Seq(Cand) /\ Range(kept) = Range(chunks) \cap same
      /\ rest \in Seq(Cand) /\ Range(rest) = Range(chunks) \cap (Range(chunks) \ same)
  <2> HIDE DEF same
  <2> QED
    BY <1>1, FilteredPicks
<1>4. Range(own) \subseteq Range(s) \cup Range(g)
  BY ConcatRange
<1>5. Range(kept) \subseteq same /\ same \subseteq Range(chunks) /\ Range(rest) \subseteq Range(chunks) \ same
  BY <1>3
<1> HIDE DEF own, kept
<1>6. both \in Seq(Cand) /\ Range(both) \subseteq Range(own) \cup Range(kept)
  BY <1>1, <1>3, ConcatRange
<1> HIDE DEF both
<1>7. Rows(joined) /\ \A x \in Range(joined) : \E y \in Range(both) : Stems(x, y)
  BY <1>6, JoinedAre
<1>8. Rows(rest)
  BY FilteredRows
<1> HIDE DEF joined, rest
<1>9. \A x \in Range(joined) : x.item \in known
  <2> TAKE x \in Range(joined)
  <2>1. PICK y \in Range(both) : Stems(x, y)
    BY <1>7
  <2>2. y \in Range(own) \/ y \in same
    BY <1>5, <1>6
  <2> QED
    BY <2>1, <2>2 DEF Stems
<1>10. \A y \in Range(rest) : y.item \notin known
  BY <1>5
<1>11. Across(<<joined, rest>>)
  BY <1>9, <1>10 DEF Across
<1>12. Range(both) \subseteq Range(s) \cup Range(g) \cup Range(chunks)
  BY <1>4, <1>5, <1>6
<1>13. \A x \in Range(joined) : \E y \in Range(s) \cup Range(g) \cup Range(chunks) : Stems(x, y)
  BY <1>7, <1>12
<1>14. Range(rest) \subseteq Range(chunks)
  BY <1>5
<1> HIDE DEF known, same
<1> QED
  BY <1>2, <1>7, <1>8, <1>11, <1>13, <1>14

---------------------------------------------------------------------------
(* What is selected.                                                        *)

\* Fractions with positive denominators are compared across.
LEMMA Cross ==
    ASSUME NEW a \in Nat, NEW b \in Nat, NEW c \in Nat, NEW p \in Nat, NEW q \in Nat, NEW r \in Nat,
           q > 0, a * q <= b * p, b * r <= c * q
    PROVE  a * r <= c * p
<1>1. (a * q) * r <= (b * p) * r
  BY Z3
<1>2. (b * r) * p <= (c * q) * p
  BY Z3
<1>3. (a * r) * q <= (c * p) * q
  <2>1. (a * q) * r = (a * r) * q /\ (b * p) * r = (b * r) * p /\ (c * q) * p = (c * p) * q
    BY Z3
  <2>2. /\ (a * q) * r \in Int /\ (b * p) * r \in Int /\ (b * r) * p \in Int /\ (c * q) * p \in Int
        /\ (a * r) * q \in Int /\ (c * p) * q \in Int
    OBVIOUS
  <2> DEFINE x == (a * q) * r
             y == (b * p) * r
             z == (b * r) * p
             v == (c * q) * p
  <2>3. x \in Int /\ y \in Int /\ z \in Int /\ v \in Int /\ x <= y /\ z <= v /\ y = z
    BY <1>1, <1>2, <2>1, <2>2
  <2>4. x = (a * r) * q /\ v = (c * p) * q
    BY <2>1
  <2> HIDE DEF x, y, z, v
  <2>5. x <= v
    BY <2>3
  <2> QED
    BY <2>4, <2>5
<1> DEFINE m == a * r
           n == c * p
<1>4. m \in Nat /\ n \in Nat /\ m * q <= n * q
  BY <1>3
<1> HIDE DEF m, n
<1>5. m <= n
  <2> SUFFICES ASSUME n + 1 <= m PROVE FALSE
    BY <1>4
  <2>1. (n + 1) * q <= m * q
    BY <1>4, Z3
  <2>2. (n + 1) * q = n * q + q
    BY <1>4, Z3
  <2>3. n * q \in Int /\ m * q \in Int
    BY <1>4
  <2> QED
    BY <1>4, <2>1, <2>2, <2>3
<1> QED
  BY <1>5 DEF m, n

\* An entry is made from its candidate: a place among the levels of its family.
EntryOf(S, family) ==
    {e \in [c : S, family : {family}, place : Nat, of : Nat] : e.of >= 1}

LEMMA EntriesAre ==
    ASSUME NEW structural, NEW seq, Rows(seq), NEW family
    PROVE  LET S == Eligible(structural, seq) E == Entries(structural, seq, family) IN
           /\ S \in SUBSET Cand /\ E \subseteq EntryOf(S, family) /\ IsFiniteSet(E)
           /\ \A x, y \in E : x.c.item = y.c.item => x = y
<1> DEFINE S == Eligible(structural, seq)
           E == Entries(structural, seq, family)
           levels == Levels(S, family)
           Entry(c) == [c |-> c, family |-> family, place |-> DenseRank(c, S, family),
                        of |-> Denominator(S, family)]
<1>1. seq \in Seq(Cand) /\ DOMAIN seq = 1..Len(seq) /\ S \subseteq Range(seq)
  BY DEF Rows, Eligible
<1>2. Range(seq) \subseteq Cand /\ IsFiniteSet(Range(seq))
  <2>1. \A k \in 1..Len(seq) : seq[k] \in Cand
    BY <1>1
  <2>2. Range(seq) \subseteq Cand
    BY <1>1, <2>1 DEF Range
  <2> QED
    BY <1>1, <2>2, RangeIsFinite
<1>3. IsFiniteSet(S) /\ S \in SUBSET Cand
  BY <1>1, <1>2, FS_Subset
<1>4. \A c, d \in S : c.item = d.item => c = d
  BY <1>1 DEF Rows, Apart, Range
<1>5. E = {Entry(c) : c \in S}
  BY DEF Entries
<1> HIDE DEF S, E
<1>6. IsFiniteSet(levels)
  <2> DEFINE f == [c \in S |-> Relevance(c, family)]
  <2>1. f \in Surjection(S, levels)
    BY DEF Surjection, Levels
  <2> QED
    BY <1>3, <2>1, FS_Surjection
<1>7. Cardinality(levels) \in Nat
  BY <1>6, FS_CardinalityType
<1>8. \A c : DenseRank(c, S, family) \in Nat
  <2> TAKE c
  <2>1. {l \in levels : l > Relevance(c, family)} \subseteq levels
    OBVIOUS
  <2>2. IsFiniteSet({l \in levels : l > Relevance(c, family)})
    BY <1>6, <2>1, FS_Subset
  <2> QED
    BY <2>2, FS_CardinalityType DEF DenseRank
<1>9. Denominator(S, family) \in Nat /\ Denominator(S, family) >= 1
  <2> DEFINE m == Cardinality(levels)
             d == IF 1 > m - 1 THEN 1 ELSE m - 1
  <2>1. m \in Nat
    BY <1>7
  <2>2. Denominator(S, family) = d
    BY DEF Denominator, Larger
  <2> HIDE DEF m
  <2>3. d \in Nat /\ d >= 1
    BY <2>1
  <2> QED
    BY <2>2, <2>3
<1> DEFINE new == [c \in S |-> Entry(c)]
<1>10. new \in Surjection(S, E)
  BY <1>5 DEF Surjection
<1>11. IsFiniteSet(E)
  BY <1>3, <1>10, FS_Surjection
<1>12. E \subseteq EntryOf(S, family)
  <2> SUFFICES ASSUME NEW c \in S PROVE Entry(c) \in EntryOf(S, family)
    BY <1>5
  <2> DEFINE r == DenseRank(c, S, family)
             d == Denominator(S, family)
  <2>1. r \in Nat /\ d \in Nat /\ d >= 1
    BY <1>8, <1>9
  <2> HIDE DEF r, d
  <2>2. [c |-> c, family |-> family, place |-> r, of |-> d] \in EntryOf(S, family)
    BY <2>1 DEF EntryOf
  <2> QED
    BY <2>2 DEF r, d
<1>13. ASSUME NEW x \in E, NEW y \in E, x.c.item = y.c.item PROVE x = y
  <2>1. PICK c \in S, d \in S : x = Entry(c) /\ y = Entry(d)
    BY <1>5
  <2>2. x.c = c /\ y.c = d
    BY <2>1
  <2> HIDE DEF Entry
  <2>3. c = d
    BY <1>4, <1>13, <2>2
  <2> QED
    BY <2>1, <2>3
<1> QED
  BY <1>3, <1>11, <1>12, <1>13 DEF S, E
Named(e) == e.family = "structured" /\ e.c.item \in Exact
\* Between equal places: the named identifier, then chunks, then the lower id.
Before(x, y) ==
    \/ Named(x) /\ ~Named(y)
    \/ Named(x) = Named(y) /\ x.family = "chunks" /\ y.family = "structured"
    \/ Named(x) = Named(y) /\ x.family = y.family /\ x.c.item < y.c.item
Further(x, y) == x.place * y.of
AnEntry == EntryOf(Cand, "structured") \cup EntryOf(Cand, "chunks")

LEMMA EntryIs ==
    ASSUME NEW x \in AnEntry
    PROVE  /\ x.c \in Cand /\ x.family \in {"structured", "chunks"} /\ x.place \in Nat
           /\ x.of \in Nat /\ x.of >= 1 /\ x.c.item \in Nat /\ Named(x) \in BOOLEAN
<1>1. /\ x.c \in Cand /\ x.family \in {"structured", "chunks"} /\ x.place \in Nat
      /\ x.of \in Nat /\ x.of >= 1
  BY DEF AnEntry, EntryOf
<1>2. x.c.item \in Nat
  BY <1>1, ItemsAreNumbers DEF Cand
<1> QED
  BY <1>1, <1>2 DEF Named

LEMMA AheadIs ==
    ASSUME NEW x \in AnEntry, NEW y \in AnEntry
    PROVE  /\ Further(x, y) \in Nat
           /\ AheadOf(x, y) <=> \/ Further(x, y) < Further(y, x)
                                \/ Further(x, y) = Further(y, x) /\ Before(x, y)
<1>1. x.place \in Nat /\ y.of \in Nat
  BY EntryIs
<1>2. Further(x, y) \in Nat
  BY <1>1 DEF Further
<1>3. AheadOf(x, y) <=> \/ Further(x, y) < Further(y, x)
                        \/ Further(x, y) = Further(y, x) /\ Before(x, y)
  <2> DEFINE rx == x.place * y.of
             ry == y.place * x.of
             low == rx < ry
             same == rx = ry
             less == x.c.item < y.c.item
  <2>1. AheadOf(x, y) <=>
            \/ low
            \/ same /\ Named(x) /\ ~Named(y)
            \/ same /\ Named(x) = Named(y) /\ x.family = "chunks" /\ y.family = "structured"
            \/ same /\ Named(x) = Named(y) /\ x.family = y.family /\ less
    BY Zenon DEF AheadOf, Named
  <2>2. Before(x, y) <=>
            \/ Named(x) /\ ~Named(y)
            \/ Named(x) = Named(y) /\ x.family = "chunks" /\ y.family = "structured"
            \/ Named(x) = Named(y) /\ x.family = y.family /\ less
    BY Zenon DEF Before
  <2>3. (Further(x, y) < Further(y, x) <=> low) /\ (Further(x, y) = Further(y, x) <=> same)
    BY Zenon DEF Further
  <2> HIDE DEF low, same, less
  <2> QED
    BY <2>1, <2>2, <2>3, Zenon
<1> QED
  BY <1>2, <1>3

LEMMA BeforeOrders ==
    /\ \A x \in AnEntry : ~Before(x, x)
    /\ \A x, y, z \in AnEntry : Before(x, y) /\ Before(y, z) => Before(x, z)
    /\ \A x, y \in AnEntry :
        Before(x, y) \/ Before(y, x) \/ (x.family = y.family /\ x.c.item = y.c.item)
<1>1. ASSUME NEW x \in AnEntry PROVE ~Before(x, x)
  <2>1. x.c.item \in Nat
    BY EntryIs
  <2> QED
    BY <2>1 DEF Before
<1>2. ASSUME NEW x \in AnEntry, NEW y \in AnEntry, NEW z \in AnEntry, Before(x, y), Before(y, z)
      PROVE  Before(x, z)
  <2> DEFINE i == x.c.item
             j == y.c.item
             k == z.c.item
             f == x.family
             g == y.family
             h == z.family
  <2>1. i \in Nat /\ j \in Nat /\ k \in Nat
    BY EntryIs
  <2>2. {f, g, h} \subseteq {"structured", "chunks"}
    BY EntryIs
  <2>3. \/ Named(x) /\ ~Named(y)
        \/ (Named(x) <=> Named(y)) /\ f = "chunks" /\ g = "structured"
        \/ (Named(x) <=> Named(y)) /\ f = g /\ i < j
    BY <1>2 DEF Before, Named
  <2>4. \/ Named(y) /\ ~Named(z)
        \/ (Named(y) <=> Named(z)) /\ g = "chunks" /\ h = "structured"
        \/ (Named(y) <=> Named(z)) /\ g = h /\ j < k
    BY <1>2 DEF Before, Named
  <2>5. i < j /\ j < k => i < k
    BY <2>1
  <2> DEFINE ij == i < j
             jk == j < k
             ik == i < k
             yes(e) == Named(e)
  <2>6. Before(x, z) <=> \/ Named(x) /\ ~Named(z)
                         \/ (Named(x) <=> Named(z)) /\ f = "chunks" /\ h = "structured"
                         \/ (Named(x) <=> Named(z)) /\ f = h /\ ik
    BY DEF Before, Named
  <2>7. (ij /\ jk => ik)
    BY <2>5
  <2> HIDE DEF f, g, h, ij, jk, ik
  <2>8. \/ Named(x) /\ ~Named(z)
        \/ (Named(x) <=> Named(z)) /\ f = "chunks" /\ h = "structured"
        \/ (Named(x) <=> Named(z)) /\ f = h /\ ik
    BY <2>2, <2>3, <2>4, <2>7 DEF ij, jk
  <2> QED
    BY <2>6, <2>8
<1>3. ASSUME NEW x \in AnEntry, NEW y \in AnEntry, ~Before(x, y), ~Before(y, x)
      PROVE  x.family = y.family /\ x.c.item = y.c.item
  <2>1. x.c.item \in Nat /\ y.c.item \in Nat
    BY EntryIs
  <2>2. x.family \in {"structured", "chunks"} /\ y.family \in {"structured", "chunks"}
    BY EntryIs
  <2>3. Named(x) <=> Named(y)
    BY <1>3 DEF Before
  <2> QED
    BY <1>3, <2>1, <2>2, <2>3 DEF Before, Named
<1> QED
  BY <1>1, <1>2, <1>3

\* Relative places order the entries of both families, if each shows an item once.
LEMMA AheadOrders ==
    ASSUME NEW E \in SUBSET AnEntry,
           \A x, y \in E : x.family = y.family /\ x.c.item = y.c.item => x = y
    PROVE  StrictOrder({p \in E \X E : AheadOf(p[1], p[2])}, E)
<1> DEFINE R == {p \in E \X E : AheadOf(p[1], p[2])}
<1>1. \A x, y \in E : <<x, y>> \in R <=> AheadOf(x, y)
  OBVIOUS
<1> HIDE DEF R
<1>2. \A x, y \in E : /\ Further(x, y) \in Nat
                      /\ AheadOf(x, y) <=> \/ Further(x, y) < Further(y, x)
                                           \/ Further(x, y) = Further(y, x) /\ Before(x, y)
  BY AheadIs
<1>3. ASSUME NEW x \in E, NEW y \in E, NEW z \in E, Further(x, y) <= Further(y, x), Further(y, z) <= Further(z, y)
      PROVE  Further(x, z) <= Further(z, x)
  <2>1. /\ x.place \in Nat /\ y.place \in Nat /\ z.place \in Nat
        /\ x.of \in Nat /\ y.of \in Nat /\ z.of \in Nat /\ y.of > 0
    BY EntryIs
  <2> DEFINE a == x.place
             b == y.place
             c == z.place
             p == x.of
             q == y.of
             r == z.of
  <2>2. a * q <= b * p /\ b * r <= c * q
    BY <1>3 DEF Further
  <2>3. a \in Nat /\ b \in Nat /\ c \in Nat /\ p \in Nat /\ q \in Nat /\ r \in Nat /\ q > 0
    BY <2>1
  <2> HIDE DEF a, b, c, p, q, r
  <2>4. a * r <= c * p
    BY <2>2, <2>3, Cross
  <2> QED
    BY <2>4 DEF Further, a, c, p, r
<1>4. ASSUME NEW x \in E PROVE <<x, x>> \notin R
  BY <1>1, <1>2, BeforeOrders
<1>5. ASSUME NEW x \in E, NEW y \in E, NEW z \in E, AheadOf(x, y), AheadOf(y, z) PROVE AheadOf(x, z)
  <2>1. /\ Further(x, y) \in Nat /\ Further(y, x) \in Nat /\ Further(y, z) \in Nat
        /\ Further(z, y) \in Nat /\ Further(x, z) \in Nat /\ Further(z, x) \in Nat
    BY <1>2
  <2>2. Further(x, y) <= Further(y, x) /\ Further(y, z) <= Further(z, y)
    BY <1>2, <1>5, <2>1
  <2>3. Further(x, z) <= Further(z, x)
    BY <1>3, <2>2
  <2>4. CASE Further(x, z) < Further(z, x)
    BY <1>2, <2>4
  <2>5. CASE Further(x, z) = Further(z, x)
    <3>1. Further(z, x) <= Further(x, z)
      BY <2>1, <2>5
    <3>2. Further(z, y) <= Further(y, z)
      BY <1>3, <2>2, <3>1
    <3>3. Further(y, x) <= Further(x, y)
      BY <1>3, <2>2, <3>1
    <3>4. Further(x, y) = Further(y, x) /\ Further(y, z) = Further(z, y)
      BY <2>1, <2>2, <3>2, <3>3
    <3>5. Before(x, y) /\ Before(y, z)
      BY <1>2, <1>5, <2>1, <3>4
    <3>6. Before(x, z)
      BY <3>5, BeforeOrders
    <3> QED
      BY <1>2, <2>5, <3>6
  <2> QED
    BY <2>1, <2>3, <2>4, <2>5
<1>6. ASSUME NEW x \in E, NEW y \in E, x # y PROVE AheadOf(x, y) \/ AheadOf(y, x)
  <2>1. Further(x, y) \in Nat /\ Further(y, x) \in Nat
    BY <1>2
  <2>2. Before(x, y) \/ Before(y, x)
    BY <1>6, BeforeOrders
  <2> QED
    BY <1>2, <2>1, <2>2
<1>7. \A x, y, z \in E : <<x, y>> \in R /\ <<y, z>> \in R => <<x, z>> \in R
  BY <1>1, <1>5
<1>8. \A x, y \in E : x # y => <<x, y>> \in R \/ <<y, x>> \in R
  BY <1>1, <1>6
<1>9. StrictOrder(R, E)
  BY <1>4, <1>7, <1>8 DEF StrictOrder
<1> QED
  BY <1>9 DEF R

---------------------------------------------------------------------------
(* The order of what is ranked.                                             *)

Both(families) == Entries(families[1], families[1], "structured") \cup Entries(families[1], families[2], "chunks")
\* The entries of both families in the order of their relative places.
Orders(order, families) ==
    /\ order \in Seq(Both(families)) /\ Range(order) = Both(families)
    /\ \A i, j \in 1..Len(order) : i < j => AheadOf(order[i], order[j])
    /\ \A i, j \in 1..Len(order) : order[i] = order[j] => i = j
    /\ Ranked(families) = [k \in 1..Len(order) |-> [order[k].c EXCEPT !.rank = k - 1]]

\* Entries of both families have such an order.
LEMMA RankedBy ==
    ASSUME NEW families, Rows(families[1]), Rows(families[2])
    PROVE  Both(families) \in SUBSET AnEntry /\ \E order : Orders(order, families)
<1> DEFINE A == Entries(families[1], families[1], "structured")
           B == Entries(families[1], families[2], "chunks")
           E == A \cup B
           R == {p \in E \X E : AheadOf(p[1], p[2])}
           order == Sorted(E, R)
<1>1. /\ A \subseteq EntryOf(Cand, "structured") /\ IsFiniteSet(A)
      /\ \A x, y \in A : x.c.item = y.c.item => x = y
  <2>1. EntryOf(Eligible(families[1], families[1]), "structured") \subseteq EntryOf(Cand, "structured")
    BY EntriesAre DEF EntryOf
  <2> QED
    BY <2>1, EntriesAre
<1>2. /\ B \subseteq EntryOf(Cand, "chunks") /\ IsFiniteSet(B)
      /\ \A x, y \in B : x.c.item = y.c.item => x = y
  <2>1. EntryOf(Eligible(families[1], families[2]), "chunks") \subseteq EntryOf(Cand, "chunks")
    BY EntriesAre DEF EntryOf
  <2> QED
    BY <2>1, EntriesAre
<1> HIDE DEF A, B
<1>3. IsFiniteSet(E)
  BY <1>1, <1>2, FS_Union
<1>4. E \in SUBSET AnEntry
  BY <1>1, <1>2 DEF AnEntry
<1>5. \A x, y \in E : x.family = y.family /\ x.c.item = y.c.item => x = y
  <2>1. (\A x \in A : x.family = "structured") /\ \A x \in B : x.family = "chunks"
    BY <1>1, <1>2 DEF EntryOf
  <2> QED
    BY <1>1, <1>2, <2>1
<1>6. Ranked(families) = [k \in DOMAIN order |-> [order[k].c EXCEPT !.rank = k - 1]]
  BY DEF Ranked, A, B
<1>6a. E = Both(families)
  BY DEF A, B, Both
<1> HIDE DEF E
<1>7. StrictOrder(R, E)
  BY <1>4, <1>5, AheadOrders
<1>7a. \A x, y : <<x, y>> \in R => AheadOf(x, y)
  OBVIOUS
<1> HIDE DEF R
<1>8. /\ order \in Seq(E) /\ Range(order) = E
      /\ \A i, j \in 1..Len(order) : order[i] = order[j] => i = j
      /\ \A i, j \in 1..Len(order) : i < j => <<order[i], order[j]>> \in R
  BY <1>3, <1>7, SortedIs
<1> HIDE DEF order
<1>9. DOMAIN order = 1..Len(order)
  BY <1>8
<1>10. Orders(order, families)
  BY <1>6, <1>6a, <1>7a, <1>8, <1>9 DEF Orders
<1> QED
  BY <1>4, <1>6a, <1>10

\* A list without repeats is no longer than there are items.
LEMMA FewItems ==
    ASSUME NEW seq, Rows(seq)
    PROVE  Len(seq) <= Cardinality(Items) /\ Len(seq) \in Nat /\ Cardinality(Items) \in Nat
<1>1. Len(seq) \in Nat /\ \A k \in 1..Len(seq) : seq[k].item \in Items
  <2>1. Len(seq) \in Nat /\ \A k \in 1..Len(seq) : seq[k] \in Cand
    BY DEF Rows
  <2>2. \A c \in Cand : c.item \in Items
    BY DEF Cand
  <2> QED
    BY <2>1, <2>2
<1>2. IsFiniteSet(Items) /\ Cardinality(Items) \in Nat
  BY TextData, FS_CardinalityType
<1> DEFINE f == [k \in 1..Len(seq) |-> seq[k].item]
<1>3. f \in [1..Len(seq) -> Items]
  BY <1>1
<1>4. \A j, k \in 1..Len(seq) : f[j] = f[k] => j = k
  BY DEF Rows, Apart
<1> HIDE DEF f
<1>5. f \in Injection(1..Len(seq), Items)
  BY <1>3, <1>4 DEF Injection, IsInjective
<1>6. Cardinality(1..Len(seq)) <= Cardinality(Items)
  BY <1>2, <1>5, FS_Injection
<1> QED
  BY <1>1, <1>2, <1>6, UptoIs

\* An entry's candidate is one of its family with a text and no symbol that speaks for it.
LEMMA EntryFrom ==
    ASSUME NEW structural, NEW seq, NEW family, NEW e \in Entries(structural, seq, family)
    PROVE  /\ e.c \in Range(seq) /\ ~Shadowed(structural, e.c) /\ e.c.content /\ e.family = family
           /\ e.place = DenseRank(e.c, Eligible(structural, seq), family)
           /\ e.of = Denominator(Eligible(structural, seq), family)
<1> DEFINE S == Eligible(structural, seq)
<1>1. PICK c \in S : e = [c |-> c, family |-> family, place |-> DenseRank(c, S, family),
                          of |-> Denominator(S, family)]
  BY DEF Entries
<1>2. e.c = c /\ e.family = family /\ e.place = DenseRank(c, S, family) /\ e.of = Denominator(S, family)
  BY <1>1
<1> QED
  BY <1>2 DEF Eligible

\* No item has two entries.
LEMMA EntriesApart ==
    ASSUME NEW families, Rows(families[1]), Rows(families[2]), Across(families),
           NEW x \in Both(families), NEW y \in Both(families), x.c.item = y.c.item
    PROVE  x = y
<1> DEFINE A == Entries(families[1], families[1], "structured")
           B == Entries(families[1], families[2], "chunks")
<1>1. (\A e, f \in A : e.c.item = f.c.item => e = f) /\ \A e, f \in B : e.c.item = f.c.item => e = f
  BY EntriesAre
<1>2. (\A e \in A : e.c \in Range(families[1])) /\ \A e \in B : e.c \in Range(families[2])
  BY EntryFrom
<1>3. x \in A \cup B /\ y \in A \cup B
  BY DEF Both
<1> HIDE DEF A, B
<1>4. CASE x \in A /\ y \in B
  BY <1>2, <1>4 DEF Across
<1>5. CASE x \in B /\ y \in A
  BY <1>2, <1>5 DEF Across
<1> QED
  BY <1>1, <1>3, <1>4, <1>5

\* What is ranked are the eligible candidates of both families, each at its place.
LEMMA RankedAre ==
    ASSUME NEW families, Rows(families[1]), Rows(families[2]), Across(families),
           NEW order, Orders(order, families)
    PROVE  LET seq == Ranked(families) IN
           /\ Rows(seq) /\ Len(seq) = Len(order) /\ Len(order) \in Nat
           /\ \A k \in 1..Len(order) :
                /\ order[k] \in Both(families) /\ order[k].c \in Cand
                /\ seq[k].item = order[k].c.item /\ seq[k].kind = order[k].c.kind
                /\ seq[k].content = order[k].c.content /\ seq[k].rank = k - 1
<1> DEFINE n == Len(order)
           seq == Ranked(families)
<1>1. /\ n \in Nat /\ \A k \in 1..n : order[k] \in Both(families)
      /\ \A i, j \in 1..n : order[i] = order[j] => i = j
      /\ seq = [k \in 1..n |-> [order[k].c EXCEPT !.rank = k - 1]]
  BY DEF Orders
<1>2. Both(families) \in SUBSET AnEntry
  BY RankedBy
<1> HIDE DEF seq
<1>3. ASSUME NEW k \in 1..n
      PROVE  /\ order[k].c \in Cand /\ seq[k] \in Cand
             /\ seq[k].item = order[k].c.item /\ seq[k].kind = order[k].c.kind
             /\ seq[k].content = order[k].c.content /\ seq[k].rank = k - 1
  <2> DEFINE c == order[k].c
             r == k - 1
             d == seq[k]
  <2>1. order[k] \in AnEntry
    BY <1>1, <1>2
  <2>2. c \in Cand
    BY <2>1, EntryIs
  <2>3. r \in Int /\ d = [c EXCEPT !.rank = r]
    BY <1>1
  <2> HIDE DEF c, r, d
  <2>4. d \in Cand /\ d.item = c.item /\ d.kind = c.kind /\ d.content = c.content /\ d.rank = r
    BY <2>2, <2>3 DEF Cand
  <2> QED
    BY <2>2, <2>4 DEF c, r, d
<1>4. seq \in Seq(Cand) /\ Len(seq) = n
  BY <1>1, <1>3
<1>5. Apart(seq)
  <2> SUFFICES ASSUME NEW i \in 1..n, NEW j \in 1..n, seq[i].item = seq[j].item PROVE i = j
    BY <1>4 DEF Apart
  <2>1. order[i] \in Both(families) /\ order[j] \in Both(families) /\ order[i].c.item = order[j].c.item
    BY <1>1, <1>3
  <2>2. order[i] = order[j]
    BY <2>1, EntriesApart
  <2> QED
    BY <1>1, <2>2
<1> QED
  BY <1>1, <1>3, <1>4, <1>5 DEF seq, Rows

\* What the places hold: evidence with text and without repeats, and a place is left
\* empty only when no such candidate is left.
PlacesFilled(families, chosen, limit) ==
    LET pool == Range(families[1]) \cup Range(families[2])
        items == {c.item : c \in Range(chosen)}
    IN /\ \A c \in Range(chosen) : c.content
       /\ \A j, k \in DOMAIN chosen :
            j # k => Text[chosen[j].item].digest # Text[chosen[k].item].digest
       /\ Len(chosen) < limit =>
            \A c \in pool : c.content /\ ~Shadowed(families[1], c) =>
                \E i \in items : i = c.item \/ Text[i].digest = Text[c.item].digest

\* Entries have text, and every eligible candidate has one.
LEMMA BothHold ==
    ASSUME NEW families
    PROVE  /\ \A e \in Both(families) : e.c.content
           /\ \A c \in Eligible(families[1], families[1]) \cup Eligible(families[1], families[2]) :
                \E e \in Both(families) : e.c = c
<1>1. \A e \in Both(families) : e.c.content
  BY EntryFrom DEF Both
<1>2. ASSUME NEW seq, NEW family, NEW c \in Eligible(families[1], seq)
      PROVE  \E e \in Entries(families[1], seq, family) : e.c = c
  <2> DEFINE e == [c |-> c, family |-> family, place |-> DenseRank(c, Eligible(families[1], seq), family),
                   of |-> Denominator(Eligible(families[1], seq), family)]
  <2>1. e \in Entries(families[1], seq, family)
    BY DEF Entries
  <2>2. e.c = c
    OBVIOUS
  <2> QED
    BY <2>1, <2>2
<1> QED
  BY <1>1, <1>2 DEF Both

\* The selection of optimized_v1 fills its places.
LEMMA PlacesAre ==
    ASSUME NEW families, Rows(families[1]), Rows(families[2]), Across(families), NEW limit \in Nat
    PROVE  LET chosen == SelectRelevant(families, limit) IN
           Rows(chosen) /\ Range(chosen) \subseteq Range(Ranked(families)) /\ PlacesFilled(families, chosen, limit)
<1> DEFINE seq == Ranked(families)
           chosen == SelectRelevant(families, limit)
<1>1. PICK order : Orders(order, families)
  BY RankedBy
<1>2. /\ Rows(seq) /\ Len(seq) = Len(order) /\ Len(order) \in Nat
      /\ \A k \in 1..Len(order) :
            /\ order[k] \in Both(families)
            /\ seq[k].item = order[k].c.item /\ seq[k].content = order[k].c.content
  BY <1>1, RankedAre
<1>3. \A e \in Both(families) : \E k \in 1..Len(order) : order[k] = e
  <2>1. order \in Seq(Both(families)) /\ Range(order) = Both(families)
    BY <1>1 DEF Orders
  <2> QED
    BY <2>1, RangeIs
<1> HIDE DEF seq
<1>4. /\ chosen \in Seq(Cand) /\ Range(chosen) \subseteq Range(seq) /\ Unlike(chosen)
      /\ \A j \in 1..Len(seq) : Repeats(chosen, seq[j]) \/ Len(chosen) >= limit
  <2>1. Cand \in SUBSET Cand /\ seq \in Seq(Cand)
    BY <1>2 DEF Rows
  <2>2. chosen = Unrepeated(seq, limit)
    BY DEF SelectRelevant, seq
  <2> QED
    BY <2>1, <2>2, UnrepeatedIs
<1> HIDE DEF chosen
<1>5. DOMAIN chosen = 1..Len(chosen) /\ Len(chosen) \in Nat
  BY <1>4
<1>6. Range(seq) = {seq[k] : k \in 1..Len(seq)} /\ Range(chosen) = {chosen[k] : k \in 1..Len(chosen)}
  BY <1>2, <1>4, RangeIs DEF Rows
<1>7. Rows(chosen)
  BY <1>4 DEF Rows, Unlike, Apart, Alike
<1>8. ASSUME NEW c \in Range(chosen) PROVE c.content
  <2>1. PICK k \in 1..Len(order) : c = seq[k]
    BY <1>2, <1>4, <1>6
  <2> QED
    BY <1>2, <2>1, BothHold
<1>9. \A j, k \in 1..Len(chosen) : j # k => Text[chosen[j].item].digest # Text[chosen[k].item].digest
  BY <1>4 DEF Unlike, Alike
<1>10. ASSUME Len(chosen) < limit, NEW c \in Range(families[1]) \cup Range(families[2]),
              c.content, ~Shadowed(families[1], c)
       PROVE  \E i \in {d.item : d \in Range(chosen)} : i = c.item \/ Text[i].digest = Text[c.item].digest
  <2>1. c \in Eligible(families[1], families[1]) \cup Eligible(families[1], families[2])
    BY <1>10 DEF Eligible
  <2>2. PICK e \in Both(families) : e.c = c
    BY <2>1, BothHold
  <2>3. PICK k \in 1..Len(order) : order[k] = e
    BY <1>3
  <2>4. seq[k].item = c.item /\ k \in 1..Len(seq)
    BY <1>2, <2>2, <2>3
  <2>5. Repeats(chosen, seq[k])
    BY <1>4, <1>5, <1>10, <2>4
  <2>6. PICK m \in 1..Len(chosen) :
            chosen[m].item = c.item \/ Text[chosen[m].item].digest = Text[c.item].digest
    BY <1>5, <2>4, <2>5 DEF Repeats
  <2>7. chosen[m] \in Range(chosen)
    BY <1>6
  <2> QED
    BY <2>6, <2>7
<1>11. PlacesFilled(families, chosen, limit)
  BY <1>5, <1>8, <1>9, <1>10 DEF PlacesFilled
<1> QED
  BY <1>4, <1>7, <1>11 DEF chosen, seq

HeadsOf(families, seq, family) ==
    LET S == Eligible(families[1], seq) IN {c \in S : DenseRank(c, S, family) = 0}

\* The entry of a head is one of at most two that no place comes before.
LEMMA HeadsLead ==
    ASSUME NEW x \in AnEntry, NEW y \in AnEntry, AheadOf(x, y), y.place = 0 PROVE x.place = 0
<1>1. x.place \in Nat /\ x.of \in Nat /\ y.of \in Nat /\ y.of >= 1
  BY EntryIs
<1>2. Further(x, y) <= Further(y, x)
  <2>1. Further(x, y) \in Nat /\ Further(y, x) \in Nat
    BY AheadIs
  <2> QED
    BY <2>1, AheadIs
<1>3. Further(y, x) = 0 /\ Further(x, y) = x.place * y.of
  BY <1>1 DEF Further
<1> QED
  BY <1>1, <1>2, <1>3

\* The head of each family, if neither has an equal, is among the first two.
LEMMA HeadsAreChosen ==
    ASSUME NEW families, Rows(families[1]), Rows(families[2]), Across(families),
           NEW limit \in Nat, limit >= 2,
           NEW h1, HeadsOf(families, families[1], "structured") = {h1},
           NEW h2, HeadsOf(families, families[2], "chunks") = {h2},
           h1 # h2 => Text[h1.item].digest # Text[h2.item].digest
    PROVE  {h1.item, h2.item} \subseteq {c.item : c \in Range(SelectRelevant(families, limit))}
<1> DEFINE seq == Ranked(families)
           chosen == SelectRelevant(families, limit)
           A == Entries(families[1], families[1], "structured")
           B == Entries(families[1], families[2], "chunks")
           S1 == Eligible(families[1], families[1])
           S2 == Eligible(families[1], families[2])
<1>1. PICK order : Orders(order, families)
  BY RankedBy
<1>2. /\ seq \in Seq(Cand) /\ Len(seq) = Len(order) /\ Len(order) \in Nat
      /\ \A k \in 1..Len(order) : order[k] \in Both(families) /\ seq[k].item = order[k].c.item
  BY <1>1, RankedAre DEF Rows
<1>3. /\ \A i, j \in 1..Len(order) : i < j => AheadOf(order[i], order[j])
      /\ \A i, j \in 1..Len(order) : order[i] = order[j] => i = j
  BY <1>1 DEF Orders
<1>4. \A e \in Both(families) : \E k \in 1..Len(order) : order[k] = e
  <2>1. order \in Seq(Both(families)) /\ Range(order) = Both(families)
    BY <1>1 DEF Orders
  <2> QED
    BY <2>1, RangeIs
<1>5. Both(families) \in SUBSET AnEntry /\ Both(families) = A \cup B
  BY RankedBy DEF Both
<1> DEFINE e1 == [c |-> h1, family |-> "structured", place |-> DenseRank(h1, S1, "structured"),
                  of |-> Denominator(S1, "structured")]
           e2 == [c |-> h2, family |-> "chunks", place |-> DenseRank(h2, S2, "chunks"),
                  of |-> Denominator(S2, "chunks")]
<1>6. /\ h1 \in S1 /\ DenseRank(h1, S1, "structured") = 0
      /\ h2 \in S2 /\ DenseRank(h2, S2, "chunks") = 0
      /\ \A c \in S1 : DenseRank(c, S1, "structured") = 0 => c = h1
      /\ \A c \in S2 : DenseRank(c, S2, "chunks") = 0 => c = h2
  BY DEF HeadsOf
<1>7. e1 \in A /\ e1.c = h1 /\ e1.family = "structured" /\ e1.place = 0
  BY <1>6 DEF Entries
<1>8. e2 \in B /\ e2.c = h2 /\ e2.family = "chunks" /\ e2.place = 0
  BY <1>6 DEF Entries
<1>9. ASSUME NEW e \in A, e.place = 0 PROVE e = e1
  <2>1. PICK c \in S1 : e = [c |-> c, family |-> "structured", place |-> DenseRank(c, S1, "structured"),
                             of |-> Denominator(S1, "structured")]
    BY DEF Entries
  <2>2. DenseRank(c, S1, "structured") = 0
    BY <1>9, <2>1
  <2>3. c = h1
    BY <1>6, <2>2
  <2> QED
    BY <2>1, <2>3
<1>10. ASSUME NEW e \in B, e.place = 0 PROVE e = e2
  <2>1. PICK c \in S2 : e = [c |-> c, family |-> "chunks", place |-> DenseRank(c, S2, "chunks"),
                             of |-> Denominator(S2, "chunks")]
    BY DEF Entries
  <2>2. DenseRank(c, S2, "chunks") = 0
    BY <1>10, <2>1
  <2>3. c = h2
    BY <1>6, <2>2
  <2> QED
    BY <2>1, <2>3
<1> HIDE DEF e1, e2, A, B, S1, S2, seq
<1>11. e1 # e2 /\ {e1, e2} \subseteq Both(families)
  BY <1>5, <1>7, <1>8
<1>12. ~Alike(h1, h2) /\ ~Alike(h2, h1)
  <2>1. h1.item # h2.item
    BY <1>7, <1>8, <1>11, EntriesApart
  <2> QED
    BY <2>1 DEF Alike
<1>13. ASSUME NEW e \in {e1, e2} PROVE e.c.item \in {c.item : c \in Range(chosen)}
  <2>1. PICK j \in 1..Len(order) : order[j] = e
    BY <1>4, <1>11
  <2>2. e.place = 0 /\ e.c \in {h1, h2}
    BY <1>7, <1>8
  <2>3. ASSUME NEW i \in 1..(j - 1)
        PROVE  i \in 1..Len(order) /\ order[i] \in {e1, e2} /\ order[i] # e
    <3>1. i \in 1..Len(order) /\ i < j
      BY <1>2, <2>1
    <3>2. order[i] \in Both(families) /\ order[i] \in AnEntry /\ e \in AnEntry
      BY <1>2, <1>5, <1>11, <3>1
    <3>3. order[i].place = 0
      BY <1>3, <2>1, <2>2, <3>1, <3>2, HeadsLead
    <3>4. order[i] \in {e1, e2}
      BY <1>5, <1>9, <1>10, <3>2, <3>3
    <3> QED
      BY <1>3, <2>1, <3>1, <3>4
  <2>4. j <= 2
    <3> SUFFICES ASSUME j > 2 PROVE FALSE
      BY <1>2
    <3>1. 1 \in 1..(j - 1) /\ 2 \in 1..(j - 1)
      BY <1>2
    <3>2. order[1] = order[2]
      BY <2>3, <3>1
    <3>3. 1 \in 1..Len(order) /\ 2 \in 1..Len(order)
      BY <2>3, <3>1
    <3> QED
      BY <1>3, <3>2, <3>3
  <2>5. \A i \in 1..(j - 1) : ~Alike(seq[i], seq[j])
    <3> SUFFICES ASSUME NEW i \in 1..(j - 1), Alike(seq[i], seq[j]) PROVE FALSE
      OBVIOUS
    <3>1. i \in 1..Len(order) /\ order[i] \in {e1, e2} /\ order[i] # e
      BY <2>3
    <3>2. seq[i].item = order[i].c.item /\ seq[j].item = e.c.item
      BY <1>2, <2>1, <3>1
    <3>3. Alike(order[i].c, e.c)
      BY <3>2 DEF Alike
    <3> QED
      BY <1>7, <1>8, <1>12, <3>1, <3>3
  <2>6. chosen = Unrepeated(seq, limit)
    BY DEF SelectRelevant, seq
  <2> HIDE DEF chosen
  <2>7. j \in 1..Len(seq) /\ j <= limit /\ Cand \in SUBSET Cand
    BY <1>2, <2>4
  <2>8. seq[j] \in Range(chosen)
    BY <1>2, <2>5, <2>6, <2>7, UnrepeatedIs
  <2>9. seq[j].item = e.c.item
    BY <1>2, <2>1
  <2> QED
    BY <2>8, <2>9
<1> QED
  BY <1>7, <1>8, <1>13

LEMMA RowsJoin ==
    ASSUME NEW a, Rows(a), NEW b, Rows(b), \A x \in Range(a), y \in Range(b) : x.item # y.item
    PROVE  Rows(a \o b) /\ Range(a \o b) \subseteq Range(a) \cup Range(b)
<1> DEFINE m == Len(a)
           n == Len(b)
           r == a \o b
<1>1. a \in Seq(Cand) /\ b \in Seq(Cand) /\ m \in Nat /\ n \in Nat
  BY DEF Rows
<1>2. r \in Seq(Cand) /\ Len(r) = m + n
  BY <1>1
<1>3. (\A k \in 1..m : r[k] = a[k]) /\ \A k \in (m + 1)..(m + n) : r[k] = b[k - m]
  BY <1>1
<1>4. (\A k \in 1..m : a[k] \in Range(a)) /\ \A k \in 1..n : b[k] \in Range(b)
  BY <1>1, RangeIs
<1>5. Range(r) \subseteq Range(a) \cup Range(b)
  BY <1>1, ConcatRange
<1> HIDE DEF m, n, r
<1>6. ASSUME NEW j \in 1..Len(r), NEW k \in 1..Len(r), r[j].item = r[k].item PROVE j = k
  <2>1. (j \in 1..m \/ j \in (m + 1)..(m + n)) /\ (k \in 1..m \/ k \in (m + 1)..(m + n))
    BY <1>1, <1>2
  <2>2. CASE j \in 1..m /\ k \in 1..m
    BY <1>3, <1>6, <2>2 DEF Rows, Apart, m
  <2>3. CASE j \in 1..m /\ k \in (m + 1)..(m + n)
    <3>1. k - m \in 1..n
      BY <1>1, <2>3
    <3> QED
      BY <1>3, <1>4, <1>6, <2>3, <3>1
  <2>4. CASE j \in (m + 1)..(m + n) /\ k \in 1..m
    <3>1. j - m \in 1..n
      BY <1>1, <2>4
    <3> QED
      BY <1>3, <1>4, <1>6, <2>4, <3>1
  <2>5. CASE j \in (m + 1)..(m + n) /\ k \in (m + 1)..(m + n)
    <3>1. j - m \in 1..n /\ k - m \in 1..n
      BY <1>1, <2>5
    <3>2. b[j - m].item = b[k - m].item
      BY <1>3, <1>6, <2>5
    <3>3. j - m = k - m
      BY <3>1, <3>2 DEF Rows, Apart, n
    <3> QED
      BY <1>1, <2>5, <3>3
  <2> QED
    BY <2>1, <2>2, <2>3, <2>4, <2>5
<1>7. Rows(r)
  BY <1>2, <1>6 DEF Rows, Apart
<1> QED
  BY <1>5, <1>7 DEF r

\* A selected candidate is one of a family, with the place it was ranked at.
Selects(families, chosen) ==
    /\ Rows(chosen)
    /\ \A c \in Range(chosen) : \E x \in Range(families[1]) \cup Range(families[2]) :
        /\ c.item = x.item /\ c.kind = x.kind
        /\ c.rank = x.rank \/ c.rank \in 0..Cardinality(Items)

\* Both policies select from the families.
LEMMA SelectedFrom ==
    ASSUME NEW families, Rows(families[1]), Rows(families[2]), Across(families), NEW limit \in Nat
    PROVE  Selects(families, SelectRelevant(families, limit)) /\ Selects(families, MergeLegacy(families, limit))
<1>1. Selects(families, SelectRelevant(families, limit))
  <2> DEFINE chosen == SelectRelevant(families, limit)
             seq == Ranked(families)
  <2>1. PICK order : Orders(order, families)
    BY RankedBy
  <2>2. /\ Rows(seq) /\ Len(seq) = Len(order) /\ Len(order) \in Nat
        /\ \A k \in 1..Len(order) :
              /\ order[k] \in Both(families)
              /\ seq[k].item = order[k].c.item /\ seq[k].kind = order[k].c.kind
              /\ seq[k].rank = k - 1
    BY <2>1, RankedAre
  <2> HIDE DEF seq
  <2>3. Rows(chosen) /\ Range(chosen) \subseteq Range(seq)
    BY PlacesAre DEF seq
  <2> HIDE DEF chosen
  <2>4. Range(seq) = {seq[k] : k \in 1..Len(seq)}
    BY <2>2, RangeIs DEF Rows
  <2>5. Len(seq) <= Cardinality(Items) /\ Cardinality(Items) \in Nat
    BY <2>2, FewItems
  <2>6. \A e \in Both(families) : e.c \in Range(families[1]) \cup Range(families[2])
    BY EntryFrom DEF Both
  <2>7. ASSUME NEW c \in Range(chosen)
        PROVE  \E x \in Range(families[1]) \cup Range(families[2]) :
                  c.item = x.item /\ c.kind = x.kind /\ c.rank \in 0..Cardinality(Items)
    <3>1. PICK k \in 1..Len(order) : c = seq[k]
      BY <2>2, <2>3, <2>4
    <3>2. k - 1 \in 0..Cardinality(Items)
      BY <2>2, <2>5
    <3> QED
      BY <2>2, <2>6, <3>1, <3>2
  <2>8. Selects(families, chosen)
    BY <2>3, <2>7 DEF Selects
  <2> QED
    BY <2>8 DEF chosen
<1>2. Selects(families, MergeLegacy(families, limit))
  <2> DEFINE shown == {c \in Range(families[2]) : ~Shadowed(families[1], c)}
             rest == Filtered(families[2], shown)
             all == families[1] \o rest
             n == Smaller(limit, Len(all))
             chosen == MergeLegacy(families, limit)
  <2>1. Rows(rest)
    BY FilteredRows
  <2>2. Range(rest) \subseteq Range(families[2])
    BY FilteredPicks DEF Rows
  <2>3. chosen = SubSeq(all, 1, n)
    BY DEF MergeLegacy
  <2> HIDE DEF rest, chosen
  <2>4. Rows(all) /\ Range(all) \subseteq Range(families[1]) \cup Range(rest)
    BY <2>1, <2>2, RowsJoin DEF Across
  <2> HIDE DEF all
  <2>5. all \in Seq(Cand) /\ Len(all) \in Nat
    BY <2>4 DEF Rows
  <2>6. chosen = Prefix(all, limit)
    BY <2>3, <2>5 DEF Prefix, Smaller
  <2>7. Rows(chosen) /\ Range(chosen) \subseteq Range(all)
    BY <2>4, <2>5, <2>6, PrefixRows, PrefixRange
  <2>8. Selects(families, chosen)
    BY <2>2, <2>4, <2>7 DEF Selects
  <2> QED
    BY <2>8 DEF chosen
<1> QED
  BY <1>1, <1>2

\* The symbols and their code, each chunk once.
\* What structured records tell: blocks and their code, before any is ranked.
Told == {c \in Cand : c.kind \in {"structured_symbol", "related_code"} /\ c.rank = Unranked}

LEMMA ListedRuns ==
    ASSUME NEW base \in Seq(Told), NEW seq \in Seq(Told)
    PROVE  Folded(Listed, base, seq) \in Seq(Told)
<1> DEFINE S == Seq(Told)
           F == [p \in S \X Told |-> Listed(p[1], p[2])]
           Recurs(g) == g = [k \in 0..Len(seq) |-> IF k = 0 THEN base ELSE Listed(g[k - 1], seq[k])]
           acc == CHOOSE g : Recurs(g)
<1>1. Len(seq) \in Nat /\ \A k \in 1..Len(seq) : seq[k] \in Told
  OBVIOUS
<1>2. ASSUME NEW r \in S, NEW c \in Told PROVE Listed(r, c) \in S
  BY DEF Listed
<1>4. Folded(Listed, base, seq) = acc[Len(seq)]
  BY DEF Folded
<1>3. base \in S
  OBVIOUS
<1> HIDE DEF S
<1>5. PICK f \in [0..Len(seq) -> S] : Loops(f, F, base, seq)
  <2>1. F \in [S \X Told -> S]
    BY <1>2
  <2> QED
    BY <1>3, <2>1, LoopExists
<1>6. Recurs(f)
  <2>1. ASSUME NEW k \in 0..Len(seq) PROVE f[k] = IF k = 0 THEN base ELSE Listed(f[k - 1], seq[k])
    <3>1. CASE k # 0
      <4>1. k \in 1..Len(seq) /\ k - 1 \in 0..Len(seq)
        BY <1>1, <3>1
      <4> QED
        BY <1>1, <1>5, <3>1, <4>1 DEF Loops
    <3> QED
      BY <1>5, <3>1 DEF Loops
  <2> QED
    BY <2>1
<1>7. Recurs(acc)
  BY <1>6
<1> HIDE DEF acc
<1> DEFINE G == {k \in 0..Len(seq) : acc[k] \in S}
<1>8. 0..Len(seq) \subseteq G
  <2>1. 0 \in G
    BY <1>1, <1>3, <1>7
  <2>2. ASSUME NEW k \in 1..Len(seq), k - 1 \in G PROVE k \in G
    <3>1. k \in 0..Len(seq) /\ k # 0 /\ acc[k - 1] \in S /\ seq[k] \in Told
      BY <1>1, <2>2
    <3>2. acc[k] = Listed(acc[k - 1], seq[k])
      BY <1>7, <3>1
    <3> QED
      BY <1>2, <3>1, <3>2
  <2> HIDE DEF G
  <2> QED
    BY <1>1, <2>1, <2>2, Rounds
<1>9. acc[Len(seq)] \in S
  BY <1>1, <1>8
<1> QED
  BY <1>4, <1>9 DEF S

Record == [block : Items, related : Seq(Items), score : Nat]

LEMMA BlockIs == ASSUME NEW s \in Record PROVE BlockAndCode(s) \in Seq(Told)
<1> DEFINE code == Filtered(s.related, db.stored)
           block == Candidate(s.block, "structured_symbol", s.score, TRUE)
           Code(k) == Candidate(code[k], "related_code", s.score - 1, TRUE)
<1>1. s.block \in Items /\ s.related \in Seq(Items) /\ s.score \in Int /\ s.score - 1 \in Int
  BY DEF Record
<1>2. code \in Seq(Items)
  BY <1>1, FilteredPicks
<1>3. block \in Told
  <2> DEFINE kind == "structured_symbol"
             yes == TRUE
  <2>1. kind \in Kinds
    BY DEF Kinds
  <2>2. yes \in BOOLEAN
    OBVIOUS
  <2> HIDE DEF kind, yes
  <2>3. Candidate(s.block, kind, s.score, yes) \in Told
    <3> DEFINE c == Candidate(s.block, kind, s.score, yes)
    <3>1. c \in Cand /\ c.kind = kind /\ c.rank = Unranked
      BY <1>1, <2>1, <2>2, CandidateIs
    <3> QED
      BY <3>1 DEF Told, kind
  <2> QED
    BY <2>3 DEF kind, yes
<1>4. BlockAndCode(s) = <<block>> \o [k \in DOMAIN code |-> Code(k)]
  BY DEF BlockAndCode
<1> HIDE DEF code
<1>5. ASSUME NEW k \in DOMAIN code PROVE Code(k) \in Told
  <2> DEFINE kind == "related_code"
             yes == TRUE
             i == code[k]
             sc == s.score - 1
  <2>1. kind \in Kinds
    BY DEF Kinds
  <2>2. yes \in BOOLEAN
    OBVIOUS
  <2>3. i \in Items /\ sc \in Int
    BY <1>1, <1>2
  <2> HIDE DEF kind, yes, i, sc
  <2>4. Candidate(i, kind, sc, yes) \in Told
    <3> DEFINE c == Candidate(i, kind, sc, yes)
    <3>1. c \in Cand /\ c.kind = kind /\ c.rank = Unranked
      BY <2>1, <2>2, <2>3, CandidateIs
    <3> QED
      BY <3>1 DEF Told, kind
  <2> QED
    BY <2>4 DEF kind, yes, i, sc
<1> HIDE DEF block, Code
<1>6. <<block>> \in Seq(Told)
  BY <1>3
<1>7. [k \in DOMAIN code |-> Code(k)] \in Seq(Told)
  BY <1>2, <1>5
<1> QED
  BY <1>4, <1>6, <1>7

LEMMA StructuredIs == Folded(ListedAll, <<>>, StructuredOf) \in Seq(Told)
<1> DEFINE S == Seq(Told)
           seq == StructuredOf
           F == [p \in S \X Record |-> ListedAll(p[1], p[2])]
           Recurs(g) == g = [k \in 0..Len(seq) |-> IF k = 0 THEN <<>> ELSE ListedAll(g[k - 1], seq[k])]
           acc == CHOOSE g : Recurs(g)
<1>1. seq \in Seq(Record) /\ Len(seq) \in Nat /\ \A k \in 1..Len(seq) : seq[k] \in Record
  <2>1. seq \in Seq(Record)
    BY Corpus DEF Record
  <2> QED
    BY <2>1
<1>2. ASSUME NEW r \in S, NEW s \in Record PROVE ListedAll(r, s) \in S
  BY BlockIs, ListedRuns DEF ListedAll
<1>4. Folded(ListedAll, <<>>, seq) = acc[Len(seq)]
  BY DEF Folded
<1>3. <<>> \in S
  OBVIOUS
<1> HIDE DEF S, seq
<1>5. PICK f \in [0..Len(seq) -> S] : Loops(f, F, <<>>, seq)
  <2>1. F \in [S \X Record -> S]
    BY <1>2
  <2> QED
    BY <1>1, <1>3, <2>1, LoopExists
<1>6. Recurs(f)
  <2>1. ASSUME NEW k \in 0..Len(seq) PROVE f[k] = IF k = 0 THEN <<>> ELSE ListedAll(f[k - 1], seq[k])
    <3>1. CASE k # 0
      <4>1. k \in 1..Len(seq) /\ k - 1 \in 0..Len(seq)
        BY <1>1, <3>1
      <4> QED
        BY <1>1, <1>5, <3>1, <4>1 DEF Loops
    <3> QED
      BY <1>5, <3>1 DEF Loops
  <2> QED
    BY <2>1
<1>7. Recurs(acc)
  BY <1>6
<1> HIDE DEF acc
<1> DEFINE G == {k \in 0..Len(seq) : acc[k] \in S}
<1>8. 0..Len(seq) \subseteq G
  <2>1. 0 \in G
    BY <1>1, <1>3, <1>7
  <2>2. ASSUME NEW k \in 1..Len(seq), k - 1 \in G PROVE k \in G
    <3>1. k \in 0..Len(seq) /\ k # 0 /\ acc[k - 1] \in S /\ seq[k] \in Record
      BY <1>1, <2>2
    <3>2. acc[k] = ListedAll(acc[k - 1], seq[k])
      BY <1>7, <3>1
    <3> QED
      BY <1>2, <3>1, <3>2
  <2> HIDE DEF G
  <2> QED
    BY <1>1, <2>1, <2>2, Rounds
<1>9. acc[Len(seq)] \in S
  BY <1>1, <1>8
<1> QED
  BY <1>4, <1>9 DEF S, seq
---------------------------------------------------------------------------
(* What a run shows of what it found.                                       *)

Database == [vectors : SUBSET Items, current : SUBSET Items, stored : SUBSET Items, indexed : BOOLEAN]

\* Each search lists an item once; the other families may repeat one.
ReadInv ==
    /\ db \in Database /\ scenario \in Scenarios
    /\ Rows(found) /\ Rows(matched) /\ Rows(ranked)
    /\ structured \in Seq(Cand) /\ graph \in Seq(Cand)

\* What the generation shows is without loss, and only a repair shows less of it.
ShownInv ==
    /\ ContextRecord(generated) /\ RangeOf(generated.sources, Cand)
    /\ step \notin {"deliver", "ended"} => context = generated
    /\ RepairKeepsSources

\* What is about to be sent fits, as does all that was sent.
FitInv ==
    /\ step \in {"decide", "generate"} /\ Budgeted =>
            context.sources = <<>> \/ Prompt(context) <= scenario.budget
    /\ step = "generate" => context.sources # <<>>
    /\ FallbackNeverCosts /\ PromptsFit

ContextInv == ReadInv /\ ShownInv /\ FitInv

LEMMA SettingsAre ==
    ASSUME scenario \in Scenarios
    PROVE  /\ scenario.mode \in {"semantic", "keyword", "hybrid"}
           /\ scenario.budget \in Nat /\ scenario.topK \in Nat /\ CandidateK \in Nat
           /\ ResultLimit \in Nat /\ Budgeted \in BOOLEAN
<1>1. CandidateK \in Nat
  BY Corpus
<1>2. scenario.mode \in {"semantic", "keyword", "hybrid"} /\ scenario.budget \in Nat /\ scenario.topK \in Nat
  BY Settings
<1> QED
  BY <1>1, <1>2 DEF ResultLimit, Budgeted

LEMMA EmptyIs == ContextRecord(Empty) /\ Empty.sources = <<>> /\ RangeOf(Empty.sources, Cand)
<1>1. Empty.sources = <<>> /\ ContextRecord(Empty)
  BY DEF Empty, ContextRecord
<1>2. <<>> \in Seq(SourceOf(Cand)) /\ Single(<<>>) /\ Lossless(<<>>)
  BY DEF Single, Lossless
<1> QED
  BY <1>1, <1>2 DEF RangeOf

\* A context keeps its own sources.
LEMMA SameKeeps ==
    ASSUME NEW sources, RangeOf(sources, Cand)
    PROVE  \A k \in DOMAIN sources :
                LET s == sources[k] IN s.c = s.c /\ s.first = s.first /\ s.last <= s.last
<1>1. \A k \in DOMAIN sources : sources[k].last \in Int
  BY DEF RangeOf, SourceOf, Source, AnySource
<1> QED
  BY <1>1

---------------------------------------------------------------------------
(* Reads.                                                                   *)

LEMMA ReachingRows == ASSUME NEW seq, Rows(seq) PROVE Rows(Reaching(seq))
  BY FilteredRows DEF Reaching

LEMMA SemanticReads == ASSUME ReadInv, SemanticSearch PROVE ReadInv'
<1> DEFINE I == {i \in db.vectors : VectorScore[i] > 0}
           S == {Candidate(i, "h3_chunk", VectorScore[i], FALSE) : i \in I}
<1>1. I \in SUBSET Items /\ \A i \in I : VectorScore[i] \in Int
  <2>1. VectorScore \in [Items -> Nat]
    BY Corpus
  <2> QED
    BY <2>1 DEF ReadInv, Database
<1>2. found' = Reaching(Best(S))
  BY DEF SemanticSearch
<1> HIDE DEF I
<1>3. Rows(Best(S))
  BY <1>1, FoundIs
<1> HIDE DEF S
<1>4. Rows(found')
  BY <1>2, <1>3, ReachingRows
<1>5. UNCHANGED <<db, scenario, matched, structured, ranked, graph>>
  BY DEF SemanticSearch, queryVars
<1> QED
  BY <1>4, <1>5 DEF ReadInv

LEMMA KeywordReads == ASSUME ReadInv, KeywordSearch PROVE ReadInv'
<1> DEFINE I == {i \in Searchable : KeywordScore[i] > 0}
           S == {Candidate(i, "h3_chunk", KeywordScore[i], FALSE) : i \in I}
<1>1. I \in SUBSET Items /\ \A i \in I : KeywordScore[i] \in Int
  <2>1. KeywordScore \in [Items -> Nat]
    BY Corpus
  <2> QED
    BY <2>1 DEF ReadInv, Database, Searchable
<1>2. matched' = Best(S)
  BY DEF KeywordSearch
<1> HIDE DEF I
<1>3. Rows(Best(S))
  BY <1>1, FoundIs
<1> HIDE DEF S
<1>4. Rows(matched')
  BY <1>2, <1>3
<1>5. UNCHANGED <<db, scenario, found, structured, ranked, graph>>
  BY DEF KeywordSearch, queryVars
<1> QED
  BY <1>4, <1>5 DEF ReadInv

LEMMA RankReads == ASSUME ReadInv, Rank PROVE ReadInv'
<1> DEFINE Of == CASE scenario.mode = "semantic" -> found
                   [] scenario.mode = "keyword" -> Reaching(matched)
                   [] OTHER -> Reaching(ByScore(Hybrid))
<1>1. ranked' = Enriched(Prefix(Of, ResultLimit), IncludeSnippets)
  BY DEF Rank
<1>2. Rows(Of)
  <2>1. Rows(found) /\ Rows(Reaching(matched)) /\ Rows(Reaching(ByScore(Hybrid)))
    BY HybridRows, ReachingRows DEF ReadInv
  <2>2. CASE scenario.mode = "semantic"
    BY <2>1, <2>2
  <2>3. CASE scenario.mode # "semantic" /\ scenario.mode = "keyword"
    BY <2>1, <2>3
  <2>4. CASE scenario.mode # "semantic" /\ scenario.mode # "keyword"
    BY <2>1, <2>4
  <2> QED
    BY <2>2, <2>3, <2>4
<1> HIDE DEF Of
<1>3. ResultLimit \in Nat /\ IncludeSnippets \in BOOLEAN
  BY SettingsAre, Corpus DEF ReadInv
<1>4. Rows(Prefix(Of, ResultLimit))
  BY <1>2, <1>3, PrefixRows
<1>5. Rows(ranked')
  BY <1>1, <1>3, <1>4, EnrichedRows
<1>6. UNCHANGED <<db, scenario, found, matched, structured, graph>>
  BY DEF Rank, queryVars
<1> QED
  BY <1>5, <1>6 DEF ReadInv

LEMMA StructuredReads == ASSUME ReadInv, RetrieveStructured PROVE ReadInv'
<1>1. structured' \in Seq(Cand)
  <2>1. CandidateK \in Nat
    BY Corpus
  <2> QED
    BY <2>1, StructuredIs, PrefixIs DEF RetrieveStructured, Told
<1>2. UNCHANGED <<db, scenario, found, matched, ranked, graph>>
  BY DEF RetrieveStructured, queryVars
<1> QED
  BY <1>1, <1>2 DEF ReadInv

LEMMA EnrichReads == ASSUME ReadInv, EnrichAgain PROVE ReadInv'
<1>1. Rows(ranked')
  <2>1. TRUE \in BOOLEAN
    OBVIOUS
  <2> QED
    BY <2>1, EnrichedRows DEF EnrichAgain, ReadInv
<1>2. UNCHANGED <<db, scenario, found, matched, structured, graph>>
  BY DEF EnrichAgain, queryVars
<1> QED
  BY <1>1, <1>2 DEF ReadInv

LEMMA GraphReads == ASSUME ReadInv, RetrieveGraph PROVE ReadInv'
<1> DEFINE chunks == Filtered(GraphOf, Searchable)
           New(k) == Candidate(chunks[k], "graph_expansion", VectorScore[chunks[k]] + 1, TRUE)
<1>1. graph' = [k \in DOMAIN chunks |-> New(k)]
  BY DEF RetrieveGraph
<1>2. chunks \in Seq(Items)
  BY Corpus, FilteredPicks
<1> HIDE DEF chunks
<1>3. ASSUME NEW k \in DOMAIN chunks PROVE New(k) \in Cand
  <2> DEFINE kind == "graph_expansion"
             yes == TRUE
             i == chunks[k]
             sc == VectorScore[chunks[k]] + 1
  <2>1. kind \in Kinds
    BY DEF Kinds
  <2>2. yes \in BOOLEAN
    OBVIOUS
  <2>3. i \in Items
    BY <1>2
  <2>4. sc \in Int
    <3>1. VectorScore \in [Items -> Nat]
      BY Corpus
    <3> QED
      BY <2>3, <3>1
  <2> HIDE DEF kind, yes, i, sc
  <2>5. Candidate(i, kind, sc, yes) \in Cand
    BY <2>1, <2>2, <2>3, <2>4, CandidateIs
  <2> QED
    BY <2>5 DEF kind, yes, i, sc
<1> HIDE DEF New
<1>4. graph' \in Seq(Cand)
  BY <1>1, <1>2, <1>3
<1>5. UNCHANGED <<db, scenario, found, matched, structured, ranked>>
  BY DEF RetrieveGraph, queryVars
<1> QED
  BY <1>4, <1>5 DEF ReadInv

LEMMA ChangeReads == ASSUME ReadInv, Change PROVE ReadInv'
<1>1. db \in Database
  BY DEF ReadInv
<1>2. db' \in Database
  <2>1. CASE \E i \in db.current \cap Touched :
                db' \in {[db EXCEPT !.current = @ \ {i}],
                         [db EXCEPT !.current = @ \ {i}, !.stored = @ \ {i}]}
    BY <1>1, <2>1 DEF Database
  <2>2. CASE \E i \in db.vectors \cap Touched : db' = [db EXCEPT !.vectors = @ \ {i}]
    BY <1>1, <2>2 DEF Database
  <2> QED
    BY <2>1, <2>2 DEF Change
<1>3. UNCHANGED <<scenario, searchVars>>
  BY DEF Change
<1> QED
  BY <1>2, <1>3 DEF ReadInv, searchVars

LEMMA AcceptReads == ASSUME ReadInv, AcceptRisk PROVE ReadInv'
<1>1. /\ found' = <<>> /\ matched' = <<>> /\ structured' = <<>> /\ ranked' = <<>> /\ graph' = <<>>
      /\ UNCHANGED <<db, scenario>>
  BY DEF AcceptRisk, AskAgain, queryVars
<1>2. Rows(<<>>) /\ <<>> \in Seq(Cand)
  BY DEF Rows, Apart
<1> QED
  BY <1>1, <1>2 DEF ReadInv

\* Every other step leaves what was read alone.
LEMMA OthersRead ==
    ASSUME ReadInv,
           \/ ReadManifest \/ SearchFails \/ EvidenceFails \/ SelectContext \/ AnswerWithoutModel \/ Preflight
           \/ Stop \/ Generate \/ SkipRepair \/ Repair \/ CallFails \/ Deliver \/ UNCHANGED askVars
    PROVE  ReadInv'
<1>1. UNCHANGED <<db, scenario, found, matched, structured, ranked, graph>>
  BY DEF ReadManifest, SearchFails, EvidenceFails, SelectContext, AnswerWithoutModel, Preflight, Stop, Generate,
      SkipRepair, Repair, CallFails, Deliver, askVars, queryVars, searchVars
<1> QED
  BY <1>1 DEF ReadInv
---------------------------------------------------------------------------
(* Choosing, sending and repairing.                                         *)

\* Steps that neither choose a context nor send it.
LEMMA Untouched ==
    ASSUME ShownInv, FitInv, UNCHANGED <<scenario, unswapped, generated, context, calls>>,
           step' \notin {"decide", "generate"},
           step' \notin {"deliver", "ended"} => step \notin {"deliver", "ended"}
    PROVE  ShownInv' /\ FitInv'
<1>1. ShownInv'
  BY DEF ShownInv, RepairKeepsSources
<1>2. FitInv'
  BY DEF FitInv, FallbackNeverCosts, PromptsFit
<1> QED
  BY <1>1, <1>2

LEMMA OthersShow ==
    ASSUME ShownInv, FitInv,
           \/ ReadManifest \/ SemanticSearch \/ KeywordSearch \/ Rank \/ SearchFails
           \/ RetrieveStructured \/ EnrichAgain \/ RetrieveGraph \/ EvidenceFails
           \/ AnswerWithoutModel \/ Stop \/ SkipRepair \/ Deliver \/ Change
    PROVE  ShownInv' /\ FitInv'
<1>1. UNCHANGED <<scenario, unswapped, generated, context, calls>>
  BY DEF ReadManifest, SemanticSearch, KeywordSearch, Rank, SearchFails, RetrieveStructured, EnrichAgain,
      RetrieveGraph, EvidenceFails, AnswerWithoutModel, Stop, SkipRepair, Deliver, Change, contextVars, modelVars
<1>2. /\ step' \notin {"decide", "generate"}
      /\ step' \notin {"deliver", "ended"} => step \notin {"deliver", "ended"}
  BY DEF ReadManifest, SemanticSearch, KeywordSearch, Rank, SearchFails, RetrieveStructured, EnrichAgain,
      RetrieveGraph, EvidenceFails, AnswerWithoutModel, Stop, SkipRepair, Deliver, Change, Reading, EndTold, End
<1> QED
  BY <1>1, <1>2, Untouched

\* What is selected, as the candidates of one of three sources, by the rule of the policy.
LEMMA PickedAre ==
    ASSUME ReadInv, SelectContext
    PROVE  LET families == Families(structured, graph, ranked) IN
           /\ Rows(families[1]) /\ Rows(families[2]) /\ Across(families)
           /\ selected' = IF scenario.policy = "optimized_v1" THEN SelectRelevant(families, scenario.topK)
                          ELSE MergeLegacy(families, scenario.topK)
           /\ scenario.topK \in Nat
           /\ Rows(selected')
           /\ \A c \in Range(selected') : \E y \in Range(structured) \cup Range(graph) \cup Range(ranked) :
                /\ c.item = y.item /\ c.kind = y.kind
                /\ c.rank = y.rank \/ c.rank \in 0..Cardinality(Items)
<1> DEFINE families == Families(structured, graph, ranked)
           pool == Range(structured) \cup Range(graph) \cup Range(ranked)
<1>1. /\ Rows(families[1]) /\ Rows(families[2]) /\ Across(families)
      /\ \A x \in Range(families[1]) : \E y \in pool : Stems(x, y)
      /\ Range(families[2]) \subseteq Range(ranked)
  BY FamiliesStem DEF ReadInv
<1>2. selected' = IF scenario.policy = "optimized_v1" THEN SelectRelevant(families, scenario.topK)
                  ELSE MergeLegacy(families, scenario.topK)
  BY DEF SelectContext
<1> HIDE DEF families
<1>3. scenario.topK \in Nat
  BY SettingsAre DEF ReadInv
<1>4. Selects(families, selected')
  BY <1>1, <1>2, <1>3, SelectedFrom
<1>5. ASSUME NEW c \in Range(selected')
      PROVE  \E y \in pool : /\ c.item = y.item /\ c.kind = y.kind
                             /\ c.rank = y.rank \/ c.rank \in 0..Cardinality(Items)
  <2>1. PICK x \in Range(families[1]) \cup Range(families[2]) :
            /\ c.item = x.item /\ c.kind = x.kind
            /\ c.rank = x.rank \/ c.rank \in 0..Cardinality(Items)
    BY <1>4 DEF Selects
  <2>2. PICK y \in pool : Stems(x, y)
    <3>1. CASE x \in Range(families[1])
      BY <1>1, <3>1
    <3>2. CASE x \in Range(families[2])
      <4>1. x \in pool /\ Stems(x, x)
        BY <1>1, <3>2 DEF Stems
      <4> QED
        BY <4>1
    <3> QED
      BY <2>1, <3>1, <3>2
  <2> QED
    BY <2>1, <2>2 DEF Stems
<1> QED
  BY <1>1, <1>2, <1>3, <1>4, <1>5 DEF Selects, families

\* The context that is built, and the one that is kept after the fallback.
Kept(y, x, budget) ==
    \/ y = x
    \/ /\ RangeOf(y.sources, Cand) /\ Len(y.sources) >= Len(x.sources)
       /\ ~HasGraph(x) /\ HasGraph(y) /\ Prompt(y) <= budget /\ ContextRecord(y)

LEMMA ChosenIs ==
    ASSUME ReadInv, SelectContext
    PROVE  /\ Built(unswapped', selected', scenario.policy)
           /\ Budgeted => unswapped'.sources = <<>> \/ Prompt(unswapped') <= scenario.budget
           /\ Kept(context', unswapped', scenario.budget)
           /\ ~Budgeted => context' = unswapped'
<1> DEFINE cands == selected'
           budget == scenario.budget
           policy == scenario.policy
           fitted == BuildForInput(cands, budget, policy)
           built == Build(cands, ContextBudget, policy)
<1>1. cands \in Seq(Cand)
  BY PickedAre DEF Rows
<1>2. budget \in Nat /\ ContextBudget \in Nat
  BY SettingsAre, TextData DEF ReadInv
<1>3. unswapped' = IF Budgeted THEN fitted ELSE built
  BY DEF SelectContext
<1>4. context' = IF Budgeted /\ scenario.graph THEN Fallback(cands, unswapped', budget, policy) ELSE unswapped'
  BY DEF SelectContext
<1> DEFINE x == unswapped'
           y == context'
<1>5. Cand \in SUBSET Cand
  OBVIOUS
<1>6. x = IF Budgeted THEN fitted ELSE built
  BY <1>3
<1>7. y = IF Budgeted /\ scenario.graph THEN Fallback(cands, x, budget, policy) ELSE x
  BY <1>4
<1> HIDE DEF cands, x, y, budget, policy
<1>8. Built(fitted, cands, policy) /\ (fitted = Empty \/ Prompt(fitted) <= budget)
  BY <1>1, <1>2, <1>5, BuildForInputIs
<1>9. Built(built, cands, policy)
  BY <1>2 DEF Built
<1> HIDE DEF fitted, built
<1>10. Built(x, cands, policy)
  BY <1>6, <1>8, <1>9
<1>11. Budgeted => x.sources = <<>> \/ Prompt(x) <= budget
  BY <1>6, <1>8, EmptyIs
<1>12. Kept(y, x, budget)
  <2>1. CASE Budgeted /\ scenario.graph
    <3>1. y = Fallback(cands, x, budget, policy)
      BY <1>7, <2>1
    <3>2. \/ y = x
          \/ /\ RangeOf(y.sources, Range(cands)) /\ Len(y.sources) >= Len(x.sources)
             /\ ~HasGraph(x) /\ HasGraph(y) /\ Prompt(y) <= budget /\ ContextRecord(y)
      BY <1>1, <1>2, <1>10, <3>1, FallbackIs
    <3>3. RangeOf(y.sources, Range(cands)) => RangeOf(y.sources, Cand)
      <4>1. Range(cands) \subseteq Cand
        <5>1. DOMAIN cands = 1..Len(cands) /\ \A k \in 1..Len(cands) : cands[k] \in Cand
          BY <1>1
        <5> QED
          BY <5>1 DEF Range
      <4>2. SourceOf(Range(cands)) \subseteq SourceOf(Cand)
        BY <4>1 DEF SourceOf
      <4>3. y.sources \in Seq(SourceOf(Range(cands))) => y.sources \in Seq(SourceOf(Cand))
        BY <4>2
      <4> QED
        BY <4>3 DEF RangeOf
    <3> QED
      BY <3>2, <3>3 DEF Kept
  <2>2. CASE ~(Budgeted /\ scenario.graph)
    BY <1>7, <2>2 DEF Kept
  <2> QED
    BY <2>1, <2>2
<1>13. ~Budgeted => y = x
  BY <1>7
<1> QED
  BY <1>10, <1>11, <1>12, <1>13 DEF cands, budget, policy, x, y

LEMMA SelectShows == ASSUME AskInv, ContextInv, SelectContext PROVE ShownInv' /\ FitInv'
<1> DEFINE x == unswapped'
           y == context'
           budget == scenario.budget
<1>1. /\ Built(x, selected', scenario.policy) /\ Kept(y, x, budget)
      /\ Budgeted => x.sources = <<>> \/ Prompt(x) <= budget
      /\ ~Budgeted => y = x
  BY ChosenIs DEF ContextInv
<1>2. step = "select" /\ step' = "decide" /\ generated' = y /\ UNCHANGED <<scenario, calls>>
  BY DEF SelectContext, modelVars
<1>3. selected' \in Seq(Cand) /\ Cand \in SUBSET Cand
  BY PickedAre DEF ContextInv, Rows
<1>4. (context # unswapped)' <=> y # x
  OBVIOUS
<1>5. calls' = <<>>
  BY <1>2 DEF AskInv, CallsInv, EvidenceSteps
<1> HIDE DEF x, y, budget
<1>6. RangeOf(x.sources, Cand) /\ ContextRecord(x) /\ Len(x.sources) \in Nat
  BY <1>1, <1>3, BuiltIs, BuiltAreRecords
<1>7. RangeOf(y.sources, Cand) /\ ContextRecord(y) /\ Len(y.sources) >= Len(x.sources)
  BY <1>1, <1>6 DEF Kept
<1>8. Budgeted => y.sources = <<>> \/ Prompt(y) <= budget
  BY <1>1 DEF Kept
<1>9. HasGraph(x) => HasGraph(y)
  BY <1>1 DEF Kept
<1>10. y # x => HasGraph(y) /\ Prompt(y) <= budget
  BY <1>1 DEF Kept
<1>11. ASSUME NEW z, RangeOf(z.sources, Cand)
       PROVE  HasGraph(z) <=> \E s \in Range(z.sources) : OfGraph(s.c)
  <2>1. DOMAIN z.sources = 1..Len(z.sources)
    BY <1>11 DEF RangeOf
  <2> QED
    BY <2>1 DEF HasGraph, Range
<1>12. RepairKeepsSources'
  <2>1. \A k \in DOMAIN y.sources :
            LET s == y.sources[k] IN s.c = s.c /\ s.first = s.first /\ s.last <= s.last
    BY <1>7, SameKeeps
  <2>2. generated' = y /\ context' = y
    BY <1>2 DEF y
  <2> QED
    BY <2>1, <2>2 DEF RepairKeepsSources
<1>13. ShownInv'
  BY <1>2, <1>7, <1>12 DEF ShownInv, y
<1>14. FallbackNeverCosts'
  <2>1. /\ Len(y.sources) >= Len(x.sources)
        /\ (\E s \in Range(x.sources) : OfGraph(s.c)) => \E s \in Range(y.sources) : OfGraph(s.c)
        /\ y # x => (\E s \in Range(y.sources) : OfGraph(s.c)) /\ Prompt(y) <= budget
    BY <1>6, <1>7, <1>9, <1>10, <1>11
  <2>2. unswapped' = x /\ context' = y /\ scenario' = scenario
    BY <1>2 DEF x, y
  <2> QED
    BY <2>1, <2>2 DEF FallbackNeverCosts, budget
<1>15. PromptsFit'
  BY <1>5 DEF PromptsFit
<1>16. Budgeted' = Budgeted
  BY <1>2 DEF Budgeted
<1>17. FitInv'
  BY <1>2, <1>8, <1>14, <1>15, <1>16 DEF FitInv, y, budget
<1> QED
  BY <1>13, <1>17

LEMMA PreflightShows == ASSUME ContextInv, Preflight PROVE ShownInv' /\ FitInv'
<1>1. /\ step = "decide" /\ context.sources # <<>> /\ step' \in {"generate", "confirm", "blocked"}
      /\ UNCHANGED <<scenario, unswapped, generated, context, calls>>
  BY DEF Preflight, AfterPreflight, Insufficient, contextVars
<1>2. ShownInv'
  BY <1>1 DEF ContextInv, ShownInv, RepairKeepsSources
<1>3. FitInv'
  BY <1>1 DEF ContextInv, FitInv, FallbackNeverCosts, PromptsFit, Budgeted
<1> QED
  BY <1>2, <1>3

LEMMA AcceptShows == ASSUME AskInv, ContextInv, AcceptRisk PROVE ShownInv' /\ FitInv'
<1>1. /\ step = "confirm" /\ step' = "manifest" /\ generated' = Empty /\ context' = Empty
      /\ UNCHANGED <<scenario, calls>>
  BY DEF AcceptRisk, AskAgain
<1>2. calls' = <<>>
  BY <1>1 DEF AskInv, CallsInv, EvidenceSteps
<1>3. ShownInv'
  <2>1. Empty.sources = <<>> /\ Len(<<>>) = 0 /\ DOMAIN <<>> = {}
    BY EmptyIs
  <2>2. RepairKeepsSources'
    BY <1>1, <2>1 DEF RepairKeepsSources
  <2> QED
    BY <1>1, <2>2, EmptyIs DEF ShownInv
<1>4. FitInv'
  BY <1>1, <1>2 DEF FitInv, FallbackNeverCosts, PromptsFit
<1> QED
  BY <1>3, <1>4

\* One call more, that fits.
LEMMA FittingCall ==
    ASSUME AskInv, step \in {"generate", "repair"}, PromptsFit, UNCHANGED scenario, NEW stage, NEW tokens,
           calls' = Append(calls, Call(stage, tokens)),
           scenario.budget # 0 => tokens <= scenario.budget
    PROVE  PromptsFit'
<1>1. calls = <<>> \/ One
  BY DEF AskInv, CallsInv
<1>2. Call(stage, tokens).tokens = tokens
  BY DEF Call
<1> DEFINE new == Call(stage, tokens)
<1> HIDE DEF new
<1>3. CASE calls = <<>>
  <2>1. calls' = <<new>>
    BY <1>3 DEF new
  <2>2. \A k \in DOMAIN calls' : calls'[k].tokens = tokens
    BY <1>2, <2>1 DEF new
  <2> QED
    BY <2>2 DEF PromptsFit
<1>4. CASE One
  <2>1. PICK t : calls = <<Call("generation", t)>>
    BY <1>4 DEF One
  <2> DEFINE old == Call("generation", t)
  <2> HIDE DEF old
  <2>2. calls' = <<old, new>> /\ calls = <<old>>
    BY <2>1, AppendToOne DEF new, old
  <2>3. scenario.budget # 0 => old.tokens <= scenario.budget
    BY <2>2 DEF PromptsFit
  <2>4. scenario.budget # 0 => \A k \in DOMAIN calls' : calls'[k].tokens <= scenario.budget
    BY <1>2, <2>2, <2>3 DEF new
  <2> QED
    BY <2>4 DEF PromptsFit
<1> QED
  BY <1>1, <1>3, <1>4

\* The generation prompt was built to fit.
LEMMA GenerationFits ==
    ASSUME AskInv, ContextInv, step = "generate", scenario.budget # 0
    PROVE  Prompt(context) <= scenario.budget
<1>1. ~scenario.noLlm
  BY DEF AskInv, CallsInv, LetThrough, ModelSteps
<1> QED
  BY <1>1 DEF ContextInv, FitInv, Budgeted

LEMMA GenerateShows == ASSUME AskInv, ContextInv, Generate PROVE ShownInv' /\ FitInv'
<1>1. /\ step = "generate" /\ step' \in {"deliver", "repair"}
      /\ calls' = Append(calls, Call("generation", Prompt(context)))
      /\ UNCHANGED <<scenario, unswapped, generated, context>>
  BY DEF Generate, contextVars
<1>2. PromptsFit'
  BY <1>1, GenerationFits, FittingCall DEF ContextInv, FitInv
<1>3. ShownInv'
  BY <1>1 DEF ContextInv, ShownInv, RepairKeepsSources
<1>4. FitInv'
  BY <1>1, <1>2 DEF FitInv, FallbackNeverCosts
<1> QED
  BY <1>3, <1>4

\* A repair that is sent, or tried: the sources of the generation, shortened to fit.
LEMMA RepairFits ==
    ASSUME ContextInv, step = "repair", Repairable(RepairSources)
    PROVE  /\ scenario.budget # 0 => RepairPrompt(RepairSources) <= scenario.budget
           /\ Reduced(RepairSources).sources = RepairSources /\ RepairSources \in Seq(AnySource)
           /\ Len(RepairSources) = Len(generated.sources)
           /\ \A k \in DOMAIN RepairSources :
                LET s == RepairSources[k] g == generated.sources[k] IN
                s.c = g.c /\ s.first = g.first /\ s.last <= g.last
<1> DEFINE sources == generated.sources
           budget == scenario.budget
           q == RepairSources
<1>1. context = generated /\ ContextRecord(context) /\ RangeOf(sources, Cand) /\ budget \in Nat
  BY SettingsAre DEF ContextInv, ShownInv, ReadInv
<1>2. q # <<>>
  BY DEF Repairable
<1>3. q = IF budget = 0 THEN sources ELSE FitRepair(sources, budget)
  BY <1>1 DEF RepairSources
<1>4. Reduced(q).sources = q
  <2>1. \A z : [[sources |-> context.sources, omitted |-> context.omitted] EXCEPT !.sources = z].sources = z
    OBVIOUS
  <2>2. [context EXCEPT !.sources = q].sources = q
    BY <1>1, <2>1 DEF ContextRecord
  <2> QED
    BY <2>2 DEF Reduced
<1> HIDE DEF sources, budget, q
<1>5. sources \in Seq(Source) /\ DOMAIN sources = 1..Len(sources) /\ Len(sources) \in Nat
  BY <1>1 DEF RangeOf, SourceOf
<1>6. CASE budget = 0
  <2>1. q = sources /\ q \in Seq(AnySource)
    BY <1>3, <1>5, <1>6 DEF Source
  <2>2. \A k \in DOMAIN sources :
            LET s == sources[k] IN s.c = s.c /\ s.first = s.first /\ s.last <= s.last
    BY <1>1, SameKeeps
  <2> QED
    BY <1>4, <1>6, <2>1, <2>2 DEF q, sources, budget
<1>7. CASE budget # 0
  <2>1. q = FitRepair(sources, budget)
    BY <1>3, <1>7
  <2>2. Shortened(q, sources) /\ RepairPrompt(q) <= budget
    BY <1>1, <1>2, <1>5, <2>1, FitRepairIs
  <2>3. q \in Seq(AnySource) /\ DOMAIN q = 1..Len(q) /\ Len(q) = Len(sources)
    BY <2>2 DEF Shortened
  <2>4. \A k \in DOMAIN q :
            q[k].c = sources[k].c /\ q[k].first = sources[k].first /\ q[k].last <= sources[k].last
    BY <2>2, <2>3 DEF Shortened
  <2> QED
    BY <1>4, <1>7, <2>2, <2>3, <2>4 DEF q, sources, budget
<1> QED
  BY <1>6, <1>7

LEMMA RepairShows ==
    ASSUME AskInv, ContextInv, step = "repair", Repairable(RepairSources), context' = Reduced(RepairSources),
           calls' = Append(calls, Call("repair", RepairPrompt(RepairSources))),
           step' \in {"deliver", "ended"}, UNCHANGED <<scenario, unswapped, generated>>
    PROVE  ShownInv' /\ FitInv'
<1>1. PromptsFit'
  BY RepairFits, FittingCall DEF ContextInv, FitInv
<1>2. RepairKeepsSources'
  <2>1. context'.sources = RepairSources /\ generated' = generated
    BY RepairFits
  <2> QED
    BY <2>1, RepairFits DEF RepairKeepsSources
<1>3. ShownInv'
  BY <1>2 DEF ContextInv, ShownInv
<1>4. FitInv'
  BY <1>1 DEF FitInv, FallbackNeverCosts
<1> QED
  BY <1>3, <1>4

LEMMA CallFailsShows == ASSUME AskInv, ContextInv, CallFails PROVE ShownInv' /\ FitInv'
<1>1. step' = "ended" /\ UNCHANGED <<scenario, unswapped, generated>>
  BY DEF CallFails, End
<1>2. CASE step = "generate"
  <2>1. calls' = Append(calls, Call("generation", Prompt(context))) /\ UNCHANGED context
    BY <1>2 DEF CallFails
  <2>2. PromptsFit'
    BY <1>1, <1>2, <2>1, GenerationFits, FittingCall DEF ContextInv, FitInv
  <2>3. ShownInv'
    BY <1>1, <2>1 DEF ContextInv, ShownInv, RepairKeepsSources
  <2>4. FitInv'
    BY <1>1, <2>2 DEF FitInv, FallbackNeverCosts
  <2> QED
    BY <2>3, <2>4
<1>3. CASE step = "repair"
  BY <1>1, <1>3, RepairShows DEF CallFails
<1> QED
  BY <1>2, <1>3 DEF CallFails

LEMMA ContextStarts == AskInit => ContextInv
<1> SUFFICES ASSUME AskInit PROVE ContextInv
  OBVIOUS
<1>1. ReadInv
  <2>1. Rows(<<>>) /\ <<>> \in Seq(Cand)
    BY DEF Rows, Apart
  <2>2. db \in Database /\ scenario \in Scenarios
    BY Corpus DEF AskInit, Database
  <2> QED
    BY <2>1, <2>2 DEF AskInit, Fresh, ReadInv
<1>2. generated = Empty /\ context = Empty /\ step = "manifest" /\ calls = <<>>
  BY DEF AskInit, Fresh
<1>3. RepairKeepsSources
  <2>1. Empty.sources = <<>> /\ Len(<<>>) = 0 /\ DOMAIN <<>> = {}
    BY EmptyIs
  <2> QED
    BY <1>2, <2>1 DEF RepairKeepsSources
<1>4. ShownInv /\ FitInv
  BY <1>2, <1>3, EmptyIs DEF ShownInv, FitInv, FallbackNeverCosts, PromptsFit
<1> QED
  BY <1>1, <1>4 DEF ContextInv

LEMMA ContextSteps == AskInv /\ ContextInv /\ [AskNext]_askVars => ContextInv'
<1> SUFFICES ASSUME AskInv, ContextInv, [AskNext]_askVars PROVE ContextInv'
  OBVIOUS
<1>1. ReadInv'
  BY SemanticReads, KeywordReads, RankReads, StructuredReads, EnrichReads, GraphReads, ChangeReads, AcceptReads,
     OthersRead DEF AskNext, Act, ContextInv
<1>2. ShownInv' /\ FitInv'
  <2>1. CASE Repair
    <3>1. /\ step = "repair" /\ Repairable(RepairSources) /\ context' = Reduced(RepairSources)
          /\ calls' = Append(calls, Call("repair", RepairPrompt(RepairSources)))
          /\ step' = "deliver" /\ UNCHANGED <<scenario, unswapped, generated>>
      BY <2>1 DEF Repair
    <3> QED
      BY <3>1, RepairShows
  <2>2. CASE UNCHANGED askVars
    BY <2>2 DEF ContextInv, ShownInv, FitInv, RepairKeepsSources, FallbackNeverCosts, PromptsFit, Budgeted,
        askVars, contextVars, modelVars
  <2>3. CASE AskNext /\ ~Repair
    BY <2>3, OthersShow, SelectShows, PreflightShows, AcceptShows, GenerateShows, CallFailsShows
       DEF AskNext, Act, ContextInv
  <2> QED
    BY <2>1, <2>2, <2>3
<1> QED
  BY <1>1, <1>2 DEF ContextInv

LEMMA AlwaysContextInv == AskSpec => []ContextInv
  BY AlwaysAskInv, ContextStarts, ContextSteps, PTL DEF AskSpec

\* With an input budget no prompt is sent that exceeds it, the generation or the repair, and the
\* graph fallback never pays for its place with a source or with graph evidence.
THEOREM BudgetKept == AskSpec => []BudgetIsKept
<1>1. ContextInv => BudgetIsKept
  BY DEF ContextInv, FitInv, BudgetIsKept
<1> QED
  BY <1>1, AlwaysContextInv, PTL

\* Trimming overlaps loses no line that was shown before it, and a repair repeats the sources of
\* the generation, in their order, from where each began.
THEOREM TextKept == AskSpec => []TextSurvives
<1>1. ContextInv => TextSurvives
  <2> SUFFICES ASSUME ContextInv PROVE NoTextIsLost
    BY DEF ContextInv, ShownInv, TextSurvives
  <2> DEFINE sources == generated.sources
  <2>1. RangeOf(sources, Cand)
    BY DEF ContextInv, ShownInv
  <2>2. SUFFICES ASSUME NEW s \in Range(sources), NEW l \in Text[s.c.item].first..(s.first - 1)
                 PROVE  \E t \in Range(sources) : <<Text[s.c.item].stream, l>> \in TermsOf(t)
    BY DEF NoTextIsLost
  <2> HIDE DEF sources
  <2>3. DOMAIN sources = 1..Len(sources)
    BY <2>1 DEF RangeOf
  <2>4. PICK k \in 1..Len(sources) : s = sources[k]
    BY <2>3 DEF Range
  <2>5. TellsAll(sources, Text[s.c.item].stream, l)
    BY <2>1, <2>4 DEF RangeOf, Lossless
  <2>6. PICK j \in 1..Len(sources) : Tells(sources[j], Text[s.c.item].stream, l)
    BY <2>5 DEF TellsAll
  <2>7. sources[j] \in Range(sources)
    BY <2>3 DEF Range
  <2>8. <<Text[s.c.item].stream, l>> \in TermsOf(sources[j])
    BY <2>6 DEF Tells, TermsOf
  <2> QED
    BY <2>7, <2>8
<1> QED
  BY <1>1, AlwaysContextInv, PTL

---------------------------------------------------------------------------
(* Where what a run shows was found.                                        *)

Unplaced(seq) == \A c \in Range(seq) : c.rank = Unranked

\* Nothing has a place before the selection; what the first search found, the ranking
\* keeps; and while nothing was committed what the other reads found is current.
OriginInv ==
    /\ edits \in Nat
    /\ Unplaced(found) /\ Unplaced(matched) /\ Unplaced(structured) /\ Unplaced(ranked) /\ Unplaced(graph)
    /\ \A c \in Range(structured) : c.kind \in {"structured_symbol", "related_code"}
    /\ \A c \in Range(ranked) : \E d \in Range(found) \cup Range(matched) : c.item = d.item
    /\ edits = 0 => \A c \in Range(matched) \cup Range(graph) : c.item \in db.current
    /\ step \in SearchSteps => ranked = <<>>

LEMMA NothingFound == Range(<<>>) = {} /\ Unplaced(<<>>)
  BY DEF Range, Unplaced

\* The best of what a search scores are among it.
LEMMA BestFrom ==
    ASSUME NEW I \in SUBSET Items, NEW score, \A i \in I : score[i] \in Int
    PROVE  LET S == {Candidate(i, "h3_chunk", score[i], FALSE) : i \in I} IN
           /\ \A c \in Range(Best(S)) : c.item \in I /\ c.rank = Unranked
           /\ \A c \in Range(Reaching(Best(S))) : c.item \in I /\ c.rank = Unranked
           /\ \A c \in Range(ByScore(S)) : c.item \in I /\ c.rank = Unranked
<1> DEFINE S == {Candidate(i, "h3_chunk", score[i], FALSE) : i \in I}
<1>1. \A c \in S : c.item \in I /\ c.rank = Unranked
  BY DEF Candidate
<1> HIDE DEF S
<1>2. Rows(Best(S)) /\ Rows(ByScore(S)) /\ Range(ByScore(S)) = S
  BY FoundIs DEF S
<1>3. CandidateK \in Nat
  BY Corpus
<1>4. Range(Best(S)) \subseteq S
  BY <1>2, <1>3, PrefixRange DEF Best, Rows
<1>5. Range(Reaching(Best(S))) \subseteq Range(Best(S))
  BY <1>2, FilteredPicks DEF Reaching, Rows
<1> QED
  BY <1>1, <1>2, <1>4, <1>5 DEF S

\* Each read keeps what is known of where candidates come from.
LEMMA SemanticOrigins == ASSUME ReadInv, OriginInv, SemanticSearch PROVE OriginInv'
<1> DEFINE I == {i \in db.vectors : VectorScore[i] > 0}
           S == {Candidate(i, "h3_chunk", VectorScore[i], FALSE) : i \in I}
<1>1. I \in SUBSET Items /\ \A i \in I : VectorScore[i] \in Int
  <2>1. VectorScore \in [Items -> Nat]
    BY Corpus
  <2> QED
    BY <2>1 DEF ReadInv, Database
<1>2. found' = Reaching(Best(S)) /\ step = "semantic" /\ step' \in SearchSteps
  BY DEF SemanticSearch, SearchSteps
<1> HIDE DEF I
<1>3. \A c \in Range(Reaching(Best(S))) : c.rank = Unranked
  BY <1>1, BestFrom
<1> HIDE DEF S
<1>4. Unplaced(found')
  BY <1>2, <1>3 DEF Unplaced
<1>5. ranked = <<>>
  BY <1>2 DEF OriginInv, SearchSteps
<1>6. UNCHANGED <<db, edits, matched, structured, ranked, graph>>
  BY DEF SemanticSearch, queryVars
<1>7. \A c \in Range(ranked') : \E d \in Range(found') \cup Range(matched') : c.item = d.item
  BY <1>5, <1>6, NothingFound
<1> QED
  BY <1>4, <1>5, <1>6, <1>7 DEF OriginInv, Unplaced

LEMMA KeywordOrigins == ASSUME ReadInv, OriginInv, KeywordSearch PROVE OriginInv'
<1> DEFINE I == {i \in Searchable : KeywordScore[i] > 0}
           S == {Candidate(i, "h3_chunk", KeywordScore[i], FALSE) : i \in I}
<1>1. I \in SUBSET Items /\ I \subseteq db.current /\ \A i \in I : KeywordScore[i] \in Int
  <2>1. KeywordScore \in [Items -> Nat]
    BY Corpus
  <2> QED
    BY <2>1 DEF ReadInv, Database, Searchable
<1>2. matched' = Best(S) /\ step = "keyword" /\ step' \in SearchSteps
  BY DEF KeywordSearch, SearchSteps
<1> HIDE DEF I
<1>3. \A c \in Range(Best(S)) : c.item \in I /\ c.rank = Unranked
  BY <1>1, BestFrom
<1> HIDE DEF S
<1>4. Unplaced(matched') /\ \A c \in Range(matched') : c.item \in db.current
  BY <1>1, <1>2, <1>3 DEF Unplaced
<1>5. ranked = <<>>
  BY <1>2 DEF OriginInv, SearchSteps
<1>6. UNCHANGED <<db, edits, found, structured, ranked, graph>>
  BY DEF KeywordSearch, queryVars
<1>7. \A c \in Range(ranked') : \E d \in Range(found') \cup Range(matched') : c.item = d.item
  BY <1>5, <1>6, NothingFound
<1> QED
  BY <1>4, <1>5, <1>6, <1>7 DEF OriginInv, Unplaced

\* A candidate of both searches is one of either.
LEMMA HybridFrom ==
    ASSUME Rows(found), Rows(matched)
    PROVE  \A c \in Range(ByScore(Hybrid)) :
                c.rank = Unranked /\ \E d \in Range(found) \cup Range(matched) : c.item = d.item
<1> DEFINE items == {c.item : c \in Range(found) \cup Range(matched)}
           ScoreIn(seq, i) == IF \E c \in Range(seq) : c.item = i
                              THEN (CHOOSE c \in Range(seq) : c.item = i).score ELSE 0
           New(i) == Candidate(i, "h3_chunk", ScoreIn(found, i) + ScoreIn(matched, i), FALSE)
<1>1. Hybrid = {New(i) : i \in items}
  BY DEF Hybrid
<1>2. \A i \in items : New(i).item = i /\ New(i).rank = Unranked
  BY DEF Candidate
<1> HIDE DEF New
<1>3. \A c \in Hybrid : c.rank = Unranked /\ \E d \in Range(found) \cup Range(matched) : c.item = d.item
  BY <1>1, <1>2
<1>4. Range(ByScore(Hybrid)) = Hybrid
  BY HybridRows
<1> QED
  BY <1>3, <1>4

LEMMA RankOrigins == ASSUME ReadInv, OriginInv, Rank PROVE OriginInv'
<1> DEFINE Of == CASE scenario.mode = "semantic" -> found
                   [] scenario.mode = "keyword" -> Reaching(matched)
                   [] OTHER -> Reaching(ByScore(Hybrid))
           F == Range(found) \cup Range(matched)
           Good(seq) == \A c \in Range(seq) : c.rank = Unranked /\ \E d \in F : c.item = d.item
<1>1. ranked' = Enriched(Prefix(Of, ResultLimit), IncludeSnippets) /\ step' \notin SearchSteps
  BY DEF Rank, SearchSteps
<1>2. Rows(Of) /\ Good(Of)
  <2>1. Rows(found) /\ Rows(Reaching(matched)) /\ Rows(Reaching(ByScore(Hybrid)))
    BY HybridRows, ReachingRows DEF ReadInv
  <2>2. Good(found)
    BY DEF OriginInv, Unplaced
  <2>3. Good(Reaching(matched))
    <3>1. Range(Reaching(matched)) \subseteq Range(matched)
      BY FilteredPicks DEF Reaching, ReadInv, Rows
    <3> QED
      BY <3>1 DEF OriginInv, Unplaced
  <2>4. Good(Reaching(ByScore(Hybrid)))
    <3>1. Range(Reaching(ByScore(Hybrid))) \subseteq Range(ByScore(Hybrid))
      BY HybridRows, FilteredPicks DEF Reaching, ReadInv, Rows
    <3> QED
      BY <3>1, HybridFrom DEF ReadInv
  <2> HIDE DEF Good
  <2>5. CASE scenario.mode = "semantic"
    BY <2>1, <2>2, <2>5
  <2>6. CASE scenario.mode # "semantic" /\ scenario.mode = "keyword"
    BY <2>1, <2>3, <2>6
  <2>7. CASE scenario.mode # "semantic" /\ scenario.mode # "keyword"
    BY <2>1, <2>4, <2>7
  <2> QED
    BY <2>5, <2>6, <2>7
<1> HIDE DEF Of
<1>3. ResultLimit \in Nat
  BY SettingsAre DEF ReadInv
<1>4. Range(Prefix(Of, ResultLimit)) \subseteq Range(Of) /\ Rows(Prefix(Of, ResultLimit))
  BY <1>2, <1>3, PrefixRange, PrefixRows DEF Rows
<1>5. \A x \in Range(ranked') : \E y \in Range(Of) : Stems(x, y)
  <2>1. Prefix(Of, ResultLimit) \in Seq(Cand)
    BY <1>4 DEF Rows
  <2> QED
    BY <1>1, <1>4, <2>1, EnrichedStems
<1>6. \A c \in Range(ranked') : c.rank = Unranked /\ \E d \in F : c.item = d.item
  BY <1>2, <1>5 DEF Stems
<1>7. UNCHANGED <<db, edits, found, matched, structured, graph>>
  BY DEF Rank, queryVars
<1> QED
  BY <1>1, <1>6, <1>7 DEF OriginInv, Unplaced

LEMMA EnrichOrigins == ASSUME ReadInv, OriginInv, EnrichAgain PROVE OriginInv'
<1>1. ranked' = Enriched(ranked, TRUE) /\ step' \notin SearchSteps
  BY DEF EnrichAgain, SearchSteps
<1>2. \A x \in Range(ranked') : \E y \in Range(ranked) : Stems(x, y)
  BY <1>1, EnrichedStems DEF ReadInv, Rows
<1>3. UNCHANGED <<db, edits, found, matched, structured, graph>>
  BY DEF EnrichAgain, queryVars
<1> DEFINE F == Range(found) \cup Range(matched)
<1>4. \A c \in Range(ranked') : c.rank = Unranked /\ \E d \in F : c.item = d.item
  BY <1>2 DEF OriginInv, Unplaced, Stems
<1> QED
  BY <1>1, <1>3, <1>4 DEF OriginInv, Unplaced

LEMMA GraphOrigins == ASSUME ReadInv, OriginInv, RetrieveGraph PROVE OriginInv'
<1> DEFINE chunks == Filtered(GraphOf, Searchable)
           New(k) == Candidate(chunks[k], "graph_expansion", VectorScore[chunks[k]] + 1, TRUE)
<1>1. graph' = [k \in DOMAIN chunks |-> New(k)] /\ step' \notin SearchSteps
  BY DEF RetrieveGraph, SearchSteps
<1>2. chunks \in Seq(Items) /\ Range(chunks) \subseteq db.current
  BY Corpus, FilteredPicks DEF Searchable
<1> HIDE DEF chunks
<1>3. \A k \in DOMAIN chunks : New(k).item = chunks[k] /\ New(k).rank = Unranked
  BY DEF Candidate
<1>4. \A k \in DOMAIN chunks : chunks[k] \in db.current
  BY <1>2 DEF Range
<1> HIDE DEF New
<1>5. \A c \in Range(graph') : c.item \in db.current /\ c.rank = Unranked
  BY <1>1, <1>3, <1>4 DEF Range
<1>6. UNCHANGED <<db, edits, found, matched, structured, ranked>>
  BY DEF RetrieveGraph, queryVars
<1> QED
  BY <1>1, <1>5, <1>6 DEF OriginInv, Unplaced

LEMMA ChangeOrigins == ASSUME OriginInv, Change PROVE OriginInv'
<1>1. edits' = edits + 1 /\ UNCHANGED <<step, found, matched, structured, ranked, graph>>
  BY DEF Change, searchVars
<1>2. edits' \in Nat /\ edits' # 0
  BY <1>1 DEF OriginInv
<1> QED
  BY <1>1, <1>2 DEF OriginInv, Unplaced

LEMMA AcceptOrigins == ASSUME OriginInv, AcceptRisk PROVE OriginInv'
<1>1. /\ found' = <<>> /\ matched' = <<>> /\ structured' = <<>> /\ ranked' = <<>> /\ graph' = <<>>
      /\ UNCHANGED edits
  BY DEF AcceptRisk, AskAgain, queryVars
<1> QED
  BY <1>1, NothingFound DEF OriginInv

\* Every other step leaves it alone; none goes back to the search.
LEMMA OtherOrigins ==
    ASSUME AskInv, OriginInv,
           \/ ReadManifest \/ SearchFails \/ EvidenceFails \/ SelectContext \/ AnswerWithoutModel \/ Preflight
           \/ Stop \/ Generate \/ SkipRepair \/ Repair \/ CallFails \/ Deliver \/ UNCHANGED askVars
    PROVE  OriginInv'
<1>1. UNCHANGED <<db, edits, found, matched, structured, ranked, graph>>
  BY DEF ReadManifest, SearchFails, EvidenceFails, SelectContext, AnswerWithoutModel, Preflight, Stop, Generate,
      SkipRepair, Repair, CallFails, Deliver, askVars, queryVars, searchVars
<1>2. step' \in SearchSteps => step \in SearchSteps
  BY DEF ReadManifest, SearchFails, EvidenceFails, SelectContext, AnswerWithoutModel, Preflight, AfterPreflight,
      Stop, Generate, SkipRepair, Repair, CallFails, Deliver, EndTold, End, SearchSteps, askVars
<1> QED
  BY <1>1, <1>2 DEF OriginInv, Unplaced

\* Structured records tell of themselves and their code.
LEMMA StructuredOrigins == ASSUME OriginInv, RetrieveStructured PROVE OriginInv'
<1>1. /\ structured' = Prefix(Folded(ListedAll, <<>>, StructuredOf), CandidateK)
      /\ step' \notin SearchSteps
      /\ UNCHANGED <<db, edits, found, matched, ranked, graph>>
  BY DEF RetrieveStructured, queryVars, SearchSteps
<1>2. CandidateK \in Nat
  BY Corpus
<1>3. structured' \in Seq(Told)
  BY <1>1, <1>2, StructuredIs, PrefixIs
<1>4. \A c \in Range(structured') : c \in Told
  BY <1>3, RangeIs
<1> QED
  BY <1>1, <1>4 DEF OriginInv, Unplaced, Told

---------------------------------------------------------------------------
(* What is chosen.                                                          *)

\* The second operation is the accepted one; a run that returns has ended.
EndInv ==
    /\ accepted = (operation = 2) /\ Len(rows) <= operation
    /\ (outcome # <<>>) = (step = "ended")
\* What is selected and shown are items, at places that exist.
ChosenInv ==
    /\ \A c \in Range(selected) : c.item \in Items /\ c.rank \in -1..Cardinality(Items)
    /\ {s.c.item : s \in Range(context.sources)} \subseteq Items
\* At the moment of the choice.
ChoiceInv == SlotsHoldEvidence /\ BothFamiliesSpeak /\ CandidatesAreAccounted /\ OnlyVectorsAreStale
SelectionInv == OriginInv /\ EndInv /\ ChosenInv /\ ChoiceInv

LEMMA EndsHave == ASSUME NEW status, NEW exit PROVE [status |-> status, exit |-> exit] # <<>>
<1> DEFINE r == [status |-> status, exit |-> exit]
<1>1. DOMAIN r = {"status", "exit"}
  OBVIOUS
<1>2. DOMAIN <<>> = {}
  OBVIOUS
<1>3. "exit" \in DOMAIN r
  BY <1>1
<1> HIDE DEF r
<1>4. r # <<>>
  BY <1>2, <1>3
<1> QED
  BY <1>4 DEF r

\* A step that neither ends the run nor begins another operation, and one that ends it.
LEMMA GoesOn ==
    ASSUME EndInv, step # "ended", step' # "ended", UNCHANGED <<operation, accepted, outcome>>,
           Len(rows') <= operation
    PROVE  EndInv'
  BY DEF EndInv

LEMMA GoesDown ==
    ASSUME EndInv, step' = "ended", UNCHANGED <<operation, accepted>>, Len(rows') <= operation,
           NEW status, NEW exit, outcome' = [status |-> status, exit |-> exit]
    PROVE  EndInv'
  BY EndsHave DEF EndInv

\* One row for each operation at most, and a result only at the end.
LEMMA EndSteps == ASSUME AskInv, EndInv, [AskNext]_askVars PROVE EndInv'
<1>1. /\ rows \in Seq(QueryRow) /\ operation \in 1..2 /\ Len(rows) <= operation
      /\ step \in SearchSteps => Len(rows) = operation - 1
  BY DEF AskInv, RowsInv, EndInv
<1>2. ASSUME NEW s, rows' = Append(rows, s), step \in SearchSteps PROVE Len(rows') <= operation
  <2>1. Len(Append(rows, s)) = Len(rows) + 1
    BY <1>1
  <2> QED
    BY <1>1, <1>2, <2>1
<1>3. CASE \/ ReadManifest \/ SemanticSearch \/ KeywordSearch \/ RetrieveStructured \/ EnrichAgain \/ RetrieveGraph
           \/ SelectContext \/ Preflight \/ Generate \/ SkipRepair \/ Repair \/ Change
  <2>1. step # "ended" /\ step' # "ended" /\ UNCHANGED <<operation, accepted, outcome, rows>>
    BY <1>3 DEF ReadManifest, SemanticSearch, KeywordSearch, RetrieveStructured, EnrichAgain, RetrieveGraph,
        SelectContext, Preflight, AfterPreflight, Generate, SkipRepair, Repair, Change, Reading
  <2> QED
    BY <1>1, <2>1, GoesOn
<1>4. CASE Rank
  <2>1. step = "rank" /\ step' = "structured" /\ UNCHANGED <<operation, accepted, outcome>>
    BY <1>4 DEF Rank
  <2>2. Len(rows') <= operation
    BY <1>2, <1>4, <2>1 DEF Rank, SearchSteps
  <2> QED
    BY <2>1, <2>2, GoesOn
<1>5. CASE SearchFails
  <2>1. step \in SearchSteps
    BY <1>5 DEF SearchFails, Searching, SearchSteps
  <2>2. Len(rows') <= operation
    BY <1>1, <1>2, <1>5, <2>1 DEF SearchFails
  <2> QED
    BY <1>5, <2>2, GoesDown DEF SearchFails
<1>6. CASE EvidenceFails \/ AnswerWithoutModel \/ Stop \/ Deliver \/ CallFails
  <2>1. PICK status, exit : /\ step' = "ended" /\ UNCHANGED <<operation, accepted>>
                            /\ outcome' = [status |-> status, exit |-> exit]
    BY <1>6 DEF EvidenceFails, AnswerWithoutModel, Stop, Deliver, CallFails, EndTold, End
  <2>2. rows' = rows \/ \E row : rows' = [rows EXCEPT ![Len(rows)] = row]
    BY <1>6 DEF EvidenceFails, AnswerWithoutModel, Stop, Deliver, CallFails, EndTold, SetLast
  <2>3. Len(rows') <= operation
    BY <1>1, <2>2
  <2> QED
    BY <2>1, <2>3, GoesDown
<1>8. CASE AcceptRisk
  <2>1. /\ step = "confirm" /\ step' = "manifest" /\ operation' = 2 /\ accepted' = TRUE
        /\ UNCHANGED <<outcome, rows>>
    BY <1>8 DEF AcceptRisk, AskAgain
  <2>2. Len(rows') <= operation'
    BY <1>1, <2>1
  <2>3. accepted' = (operation' = 2)
    BY <2>1
  <2>4. (outcome' # <<>>) = (step' = "ended")
    <3>1. outcome = <<>>
      BY <2>1 DEF EndInv
    <3> QED
      BY <2>1, <3>1
  <2> QED
    BY <2>2, <2>3, <2>4 DEF EndInv
<1>9. CASE UNCHANGED askVars
  BY <1>9 DEF EndInv, askVars
<1> QED
  BY <1>3, <1>4, <1>5, <1>6, <1>8, <1>9 DEF AskNext, Act

\* The context shows selected candidates and accounts for the others.
LEMMA ContextAccounts ==
    ASSUME ReadInv, SelectContext
    PROVE  /\ RangeOf(context'.sources, Range(selected'))
           /\ context'.sources # <<>> => Accounted(context', Range(selected'))
<1> DEFINE cands == selected'
           x == unswapped'
           y == context'
           D == Range(cands)
           budget == scenario.budget
           policy == scenario.policy
<1>1. cands \in Seq(Cand) /\ Apart(cands)
  BY PickedAre DEF Rows
<1>2. Built(x, cands, policy) /\ budget \in Nat
  BY ChosenIs, SettingsAre DEF ReadInv
<1>3. y = x \/ y = Fallback(cands, x, budget, policy)
  BY DEF SelectContext
<1> HIDE DEF cands, x, y, budget, policy
<1>4. D \in SUBSET Cand /\ cands \in Seq(D)
  BY <1>1, OwnRange
<1> HIDE DEF D
<1>5. RangeOf(x.sources, D)
  BY <1>2, <1>4, BuiltIs
<1>6. x.sources # <<>> => Accounted(x, Range(cands))
  BY <1>1, <1>2, BuiltAccounts
<1>7. \/ y = x
      \/ RangeOf(y.sources, Range(cands)) /\ Accounted(y, Range(cands))
  <2>1. CASE y = Fallback(cands, x, budget, policy)
    BY <1>1, <1>2, <2>1, FallbackIs
  <2> QED
    BY <1>3, <2>1
<1> QED
  BY <1>5, <1>6, <1>7 DEF cands, x, y, D

\* The selection puts items at places that exist.
LEMMA SelectPlaces == ASSUME ReadInv, OriginInv, SelectContext PROVE ChosenInv'
<1>1. /\ selected' \in Seq(Cand)
      /\ \A c \in Range(selected') : \E y \in Range(structured) \cup Range(graph) \cup Range(ranked) :
            c.rank = y.rank \/ c.rank \in 0..Cardinality(Items)
  BY PickedAre DEF Rows
<1>2. \A c \in Range(selected') : c \in Cand
  BY <1>1, RangeIs
<1>3. Cardinality(Items) \in Nat
  BY TextData, FS_CardinalityType
<1>4. ASSUME NEW c \in Range(selected') PROVE c.item \in Items /\ c.rank \in -1..Cardinality(Items)
  <2>1. PICK y \in Range(structured) \cup Range(graph) \cup Range(ranked) :
            c.rank = y.rank \/ c.rank \in 0..Cardinality(Items)
    BY <1>1
  <2>2. y.rank = -1
    BY DEF OriginInv, Unplaced, Unranked
  <2>3. c.item \in Items
    BY <1>2 DEF Cand
  <2> QED
    BY <1>3, <2>1, <2>2, <2>3
<1>5. ASSUME NEW s \in Range(context'.sources) PROVE s.c.item \in Items
  <2>1. context'.sources \in Seq(SourceOf(Range(selected')))
    BY ContextAccounts DEF RangeOf
  <2>2. s \in SourceOf(Range(selected'))
    BY <2>1, RangeIs
  <2>3. s.c \in Cand
    BY <1>2, <2>2 DEF SourceOf
  <2> QED
    BY <2>3 DEF Cand
<1> QED
  BY <1>4, <1>5 DEF ChosenInv

LEMMA OneMember == ASSUME NEW S, IsFiniteSet(S), Cardinality(S) = 1 PROVE \E x : S = {x}
  BY FS_Singleton

LEMMA HeadsAreFinite ==
    ASSUME NEW families, NEW seq, Rows(seq), NEW family
    PROVE  IsFiniteSet(HeadsOf(families, seq, family))
<1>1. IsFiniteSet(Range(seq))
  BY RangeIsFinite DEF Rows
<1>2. HeadsOf(families, seq, family) \subseteq Range(seq)
  BY DEF HeadsOf, Eligible
<1> QED
  BY <1>1, <1>2, FS_Subset

\* Both families speak, for any families.
Speaks(families, chosen) ==
    LET heads == HeadsOf(families, families[1], "structured") \cup HeadsOf(families, families[2], "chunks") IN
    /\ Cardinality(HeadsOf(families, families[1], "structured")) = 1
    /\ Cardinality(HeadsOf(families, families[2], "chunks")) = 1
    /\ \A c, d \in heads : c # d => Text[c.item].digest # Text[d.item].digest
    => {c.item : c \in heads} \subseteq {c.item : c \in Range(chosen)}

LEMMA SpeaksIs ==
    ASSUME NEW families, Rows(families[1]), Rows(families[2]), Across(families), NEW limit \in Nat, limit >= 2
    PROVE  Speaks(families, SelectRelevant(families, limit))
<1> DEFINE H1 == HeadsOf(families, families[1], "structured")
           H2 == HeadsOf(families, families[2], "chunks")
           shown == {c.item : c \in Range(SelectRelevant(families, limit))}
<1>1. ASSUME Cardinality(H1) = 1, Cardinality(H2) = 1,
             \A c, d \in H1 \cup H2 : c # d => Text[c.item].digest # Text[d.item].digest
      PROVE  {c.item : c \in H1 \cup H2} \subseteq shown
  <2>1. IsFiniteSet(H1) /\ IsFiniteSet(H2)
    BY HeadsAreFinite
  <2>2. PICK h1 : H1 = {h1}
    BY <1>1, <2>1, OneMember
  <2>3. PICK h2 : H2 = {h2}
    BY <1>1, <2>1, OneMember
  <2>4. h1 # h2 => Text[h1.item].digest # Text[h2.item].digest
    BY <1>1, <2>2, <2>3
  <2>5. {h1.item, h2.item} \subseteq shown
    BY <2>2, <2>3, <2>4, HeadsAreChosen
  <2> HIDE DEF H1, H2, shown
  <2> QED
    BY <2>2, <2>3, <2>5
<1> QED
  BY <1>1 DEF Speaks

\* What holds of the choice when it is made.
LEMMA SelectChooses == ASSUME ReadInv, OriginInv, SelectContext PROVE ChoiceInv'
<1> DEFINE families == Families(structured, graph, ranked)
           limit == scenario.topK
           pool == Range(structured) \cup Range(graph) \cup Range(ranked)
<1>1. /\ Rows(families[1]) /\ Rows(families[2]) /\ Across(families) /\ limit \in Nat
      /\ scenario.policy = "optimized_v1" => selected' = SelectRelevant(families, limit)
  BY PickedAre
<1>2. /\ step' = "decide" /\ UNCHANGED <<scenario, structured, graph, ranked, db, edits, found, matched>>
  BY DEF SelectContext, queryVars, searchVars
<1>3. families' = families /\ limit' = limit
  BY <1>2
<1> HIDE DEF families
<1>4. scenario.policy = "optimized_v1" => PlacesFilled(families, selected', limit)
  BY <1>1, PlacesAre
<1>5. scenario.policy = "optimized_v1" /\ limit >= 2 => Speaks(families, selected')
  BY <1>1, SpeaksIs
<1>6. SlotsHoldEvidence'
  <2>1. families' = Families(structured', graph', ranked')
    BY DEF families
  <2> QED
    BY <1>2, <1>3, <1>4, <2>1 DEF SlotsHoldEvidence, PlacesFilled
<1>7. BothFamiliesSpeak'
  <2>1. families' = Families(structured', graph', ranked')
    BY DEF families
  <2> QED
    BY <1>2, <1>3, <1>5, <2>1 DEF BothFamiliesSpeak, Speaks, HeadsOf
<1>8. CandidatesAreAccounted'
  BY ContextAccounts DEF CandidatesAreAccounted, Accounted
<1>9. OnlyVectorsAreStale'
  <2> SUFFICES ASSUME edits = 0, NEW s \in Range(context'.sources)
               PROVE  \/ s.c.item \in db.current
                      \/ s.c.item \in {c.item : c \in Range(found)}
                      \/ s.c.kind \in {"structured_symbol", "related_code"}
    BY <1>2 DEF OnlyVectorsAreStale
  <2>1. context'.sources \in Seq(SourceOf(Range(selected')))
    BY ContextAccounts DEF RangeOf
  <2>2. s.c \in Range(selected')
    <3>1. s \in SourceOf(Range(selected'))
      BY <2>1, RangeIs
    <3> QED
      BY <3>1 DEF SourceOf
  <2>3. PICK y \in pool : s.c.item = y.item /\ s.c.kind = y.kind
    BY <2>2, PickedAre
  <2>4. CASE y \in Range(structured)
    BY <2>3, <2>4 DEF OriginInv
  <2>5. CASE y \in Range(graph)
    BY <2>3, <2>5 DEF OriginInv
  <2>6. CASE y \in Range(ranked)
    BY <2>3, <2>6 DEF OriginInv
  <2> QED
    BY <2>3, <2>4, <2>5, <2>6
<1> QED
  BY <1>6, <1>7, <1>8, <1>9 DEF ChoiceInv

LEMMA RepairChosen ==
    ASSUME ContextInv, ChosenInv, step = "repair", Repairable(RepairSources), context' = Reduced(RepairSources),
           UNCHANGED selected
    PROVE  ChosenInv'
<1>1. RepairSources \in Seq(AnySource) /\ context'.sources = RepairSources
  BY RepairFits
<1>2. ASSUME NEW s \in Range(RepairSources) PROVE s.c.item \in Items
  <2>1. s \in AnySource
    BY <1>1, <1>2, RangeIs
  <2> QED
    BY <2>1 DEF AnySource, Cand
<1> QED
  BY <1>1, <1>2 DEF ChosenInv

\* Selected and shown items stay items until they are forgotten.
LEMMA ChosenSteps ==
    ASSUME ContextInv, OriginInv, ChosenInv, [AskNext]_askVars PROVE ChosenInv'
<1>1. CASE SelectContext
  BY <1>1, SelectPlaces DEF ContextInv
<1>2. CASE AcceptRisk
  <2>1. selected' = <<>> /\ context'.sources = <<>>
    BY <1>2, EmptyIs DEF AcceptRisk, AskAgain
  <2> QED
    BY <2>1, NothingFound DEF ChosenInv
<1>3. CASE Repair
  BY <1>3, RepairChosen DEF Repair
<1>4. CASE CallFails
  <2>1. CASE UNCHANGED context
    BY <1>4, <2>1 DEF CallFails, ChosenInv
  <2>2. CASE step = "repair"
    BY <1>4, <2>2, RepairChosen DEF CallFails
  <2> QED
    BY <1>4, <2>1, <2>2 DEF CallFails
<1>5. CASE \/ ReadManifest \/ SemanticSearch \/ KeywordSearch \/ Rank \/ SearchFails \/ RetrieveStructured
           \/ EnrichAgain \/ RetrieveGraph \/ EvidenceFails \/ AnswerWithoutModel \/ Preflight \/ Stop
           \/ Generate \/ SkipRepair \/ Deliver \/ Change \/ UNCHANGED askVars
  <2>1. UNCHANGED <<selected, context>>
    BY <1>5 DEF ReadManifest, SemanticSearch, KeywordSearch, Rank, SearchFails, RetrieveStructured, EnrichAgain,
        RetrieveGraph, EvidenceFails, AnswerWithoutModel, Preflight, Stop, Generate, SkipRepair, Deliver, Change,
        contextVars, askVars
  <2> QED
    BY <2>1 DEF ChosenInv
<1> QED
  BY <1>1, <1>2, <1>3, <1>4, <1>5 DEF AskNext, Act

\* Nothing changes between the choice and what is decided about it.
LEMMA ChoiceSteps ==
    ASSUME ContextInv, OriginInv, ChoiceInv, [AskNext]_askVars PROVE ChoiceInv'
<1>1. CASE SelectContext
  BY <1>1, SelectChooses DEF ContextInv
<1>2. CASE AskNext /\ ~SelectContext
  <2>1. step' # "decide"
    BY <1>2 DEF AskNext, Act, ReadManifest, SemanticSearch, KeywordSearch, Rank, SearchFails, RetrieveStructured,
        EnrichAgain, RetrieveGraph, EvidenceFails, AnswerWithoutModel, Preflight, AfterPreflight, Stop,
        AcceptRisk, AskAgain, Generate, SkipRepair, Repair, CallFails, Deliver, Change, Reading, EndTold, End
  <2> QED
    BY <2>1 DEF ChoiceInv, SlotsHoldEvidence, BothFamiliesSpeak, CandidatesAreAccounted, OnlyVectorsAreStale
<1>3. CASE UNCHANGED askVars
  <2>1. UNCHANGED <<scenario, step, structured, graph, ranked, selected, context, db, edits, found>>
    BY <1>3 DEF askVars, queryVars, searchVars, contextVars
  <2> DEFINE families == Families(structured, graph, ranked)
  <2>1a. families' = families
    BY <2>1
  <2>2a. SlotsHoldEvidence'
    <3>1. SlotsHoldEvidence <=> (scenario.policy = "optimized_v1" /\ step = "decide" =>
                                    PlacesFilled(families, selected, scenario.topK))
      BY DEF SlotsHoldEvidence, PlacesFilled
    <3>2. SlotsHoldEvidence' <=> (scenario'.policy = "optimized_v1" /\ step' = "decide" =>
                                    PlacesFilled(families', selected', scenario'.topK))
      BY DEF SlotsHoldEvidence, PlacesFilled
    <3> HIDE DEF families
    <3> QED
      BY <2>1, <2>1a, <3>1, <3>2 DEF ChoiceInv
  <2>2. SlotsHoldEvidence' /\ BothFamiliesSpeak'
    <3>1. BothFamiliesSpeak <=> (scenario.policy = "optimized_v1" /\ step = "decide" /\ scenario.topK >= 2 =>
                                    Speaks(families, selected))
      BY DEF BothFamiliesSpeak, Speaks, HeadsOf
    <3>2. BothFamiliesSpeak' <=> (scenario'.policy = "optimized_v1" /\ step' = "decide" /\ scenario'.topK >= 2 =>
                                    Speaks(families', selected'))
      BY DEF BothFamiliesSpeak, Speaks, HeadsOf
    <3> HIDE DEF families
    <3> QED
      BY <2>1, <2>1a, <2>2a, <3>1, <3>2 DEF ChoiceInv
  <2>3. CandidatesAreAccounted' /\ OnlyVectorsAreStale'
    BY <2>1 DEF ChoiceInv, CandidatesAreAccounted, OnlyVectorsAreStale
  <2> QED
    BY <2>2, <2>3 DEF ChoiceInv
<1> QED
  BY <1>1, <1>2, <1>3

LEMMA OriginSteps == ASSUME AskInv, ReadInv, OriginInv, [AskNext]_askVars PROVE OriginInv'
  BY SemanticOrigins, KeywordOrigins, RankOrigins, StructuredOrigins, EnrichOrigins, GraphOrigins, ChangeOrigins,
     AcceptOrigins, OtherOrigins DEF AskNext, Act

LEMMA SelectionStarts == AskInit => SelectionInv
<1> SUFFICES ASSUME AskInit PROVE SelectionInv
  OBVIOUS
<1>1. /\ step = "manifest" /\ operation = 1 /\ accepted = FALSE /\ rows = <<>> /\ outcome = <<>> /\ edits = 0
      /\ found = <<>> /\ matched = <<>> /\ structured = <<>> /\ ranked = <<>> /\ graph = <<>>
      /\ selected = <<>> /\ context = Empty
  BY DEF AskInit, Fresh
<1>2. OriginInv
  BY <1>1, NothingFound DEF OriginInv
<1>3. EndInv
  <2>1. Len(<<>>) = 0
    OBVIOUS
  <2>2. Len(rows) <= operation
    BY <1>1, <2>1
  <2>3. accepted = (operation = 2)
    <3>1. accepted = FALSE /\ operation # 2
      BY <1>1
    <3> QED
      BY <3>1, Zenon
  <2>4. (outcome # <<>>) = (step = "ended")
    BY <1>1
  <2> QED
    BY <2>2, <2>3, <2>4 DEF EndInv
<1>4. ChosenInv
  BY <1>1, NothingFound, EmptyIs DEF ChosenInv
<1>5. ChoiceInv
  BY <1>1 DEF ChoiceInv, SlotsHoldEvidence, BothFamiliesSpeak, CandidatesAreAccounted, OnlyVectorsAreStale
<1> QED
  BY <1>2, <1>3, <1>4, <1>5 DEF SelectionInv

LEMMA SelectionSteps ==
    AskInv /\ ContextInv /\ SelectionInv /\ [AskNext]_askVars => SelectionInv'
<1> SUFFICES ASSUME AskInv, ContextInv, SelectionInv, [AskNext]_askVars PROVE SelectionInv'
  OBVIOUS
<1>1. OriginInv'
  BY OriginSteps DEF ContextInv, SelectionInv
<1>2. EndInv'
  BY EndSteps DEF SelectionInv
<1>3. ChosenInv' /\ ChoiceInv'
  BY ChosenSteps, ChoiceSteps DEF SelectionInv
<1> QED
  BY <1>1, <1>2, <1>3 DEF SelectionInv

\* For any search, corpus and interleaving of commits: with optimized_v1 places go to evidence
\* with text and without repeats, the best of each family has one of the first two, every
\* candidate is a source or has one reason not to be, and only vectors and the code of
\* structured symbols bring what is not current.
THEOREM SelectionAccounted == AskSpec => []SelectionIsAccounted
<1>1. AskInv /\ SelectionInv => SelectionIsAccounted
  <2> SUFFICES ASSUME AskInv, SelectionInv PROVE AskTypeOK
    BY DEF SelectionIsAccounted, SelectionInv, ChoiceInv
  <2>1. step \in SearchSteps \cup EvidenceSteps \cup ModelSteps \cup {"ended"} /\ operation \in 1..2
    BY DEF AskInv
  <2>2. Range(rows) \subseteq QueryRow
    BY RangeIs DEF AskInv, RowsInv
  <2> QED
    BY <2>1, <2>2 DEF AskTypeOK, SelectionInv, EndInv, ChosenInv, SearchSteps, EvidenceSteps, ModelSteps, Statuses, QueryRow
<1> QED
  BY <1>1, AlwaysAskInv, AlwaysContextInv, SelectionStarts, SelectionSteps, PTL DEF AskSpec
=============================================================================
