---------------------------- MODULE SpecModeProofs ----------------------------
(***************************************************************************)
(* What `spec create` writes, rejects and replaces, for any requirements,   *)
(* catalogues, creators of one folder and edits of it.                      *)
(***************************************************************************)
EXTENDS SpecMode, FunctionTheorems, FiniteSetTheorems, SequenceTheorems, WellFoundedInduction, TLAPS

---------------------------------------------------------------------------
(* Lemmas about the operators of the model.                                 *)

\* A set of numbers has a least member.
LEMMA Least ==
    ASSUME NEW T, T \subseteq Nat, T # {}
    PROVE  \E x \in T : \A y \in T : x <= y
<1> DEFINE R == OpToRel(<, Nat)
<1>1. IsWellFoundedOn(R, Nat)
  BY NatLessThanWellFounded
<1>2. PICK x \in T : \A y \in T : <<y, x>> \notin R
  <2> HIDE DEF R
  <2> QED
    BY <1>1, WFMin
<1>3. \A y \in T : ~(y < x)
  BY <1>2 DEF OpToRel
<1>4. \A y \in T : x \in Nat /\ y \in Nat
  OBVIOUS
<1>5. \A y \in T : x <= y
  <2> HIDE DEF R
  <2> TAKE y \in T
  <2> QED
    BY <1>3, <1>4
<1> QED
  BY <1>5

---------------------------------------------------------------------------
(* What the impact of one symbol reports.                                   *)

\* The symbol itself, what the relations read account for, and their open ends.
Accounted(seed, edges, x) ==
    \/ x = Direct(seed)
    \/ \E e \in Range(edges) : \E role \in {"dependency", "consumer", "indirect"} : x = OfEdge(e, role)
    \/ \E e \in Range(edges) : Open(e) /\ x = LeftOpen(e)

LEMMA OffersAreAccounted ==
    ASSUME NEW seed, NEW edges, Len(edges) \in Nat, DOMAIN edges = 1..Len(edges)
    PROVE /\ \A o \in Offered(seed, edges) : o.place \in Nat /\ Accounted(seed, edges, o.component)
          /\ \A e \in Range(edges) : Open(e) =>
                \E o \in Offered(seed, edges) : o.component = LeftOpen(e)
<1> DEFINE n == Len(edges)
<1>1. \A k \in DOMAIN edges : /\ k \in Nat /\ n + k \in Nat /\ 2 * n + k \in Nat /\ 3 * n + k \in Nat
                              /\ edges[k] \in Range(edges)
  BY DEF Range
<1>2. \A e \in Range(edges) : \E k \in DOMAIN edges : edges[k] = e
  BY DEF Range
<1>3. \A p, x : Offer(p, x).place = p /\ Offer(p, x).component = x
  BY DEF Offer
<1>4. \A o \in Offered(seed, edges) :
        \/ o = Offer(0, Direct(seed))
        \/ \E k \in DOMAIN edges :
              \/ o = Offer(k, OfEdge(edges[k], "dependency"))
              \/ o = Offer(n + k, OfEdge(edges[k], "consumer"))
              \/ o = Offer(2 * n + k, OfEdge(edges[k], "indirect"))
              \/ Open(edges[k]) /\ o = Offer(3 * n + k, LeftOpen(edges[k]))
  BY DEF Offered
<1>5. \A k \in DOMAIN edges : Open(edges[k]) => Offer(3 * n + k, LeftOpen(edges[k])) \in Offered(seed, edges)
  BY DEF Offered
<1>6. ASSUME NEW o \in Offered(seed, edges) PROVE o.place \in Nat /\ Accounted(seed, edges, o.component)
  <2>1. CASE o = Offer(0, Direct(seed))
    BY <1>3, <2>1 DEF Accounted
  <2>2. ASSUME NEW k \in DOMAIN edges,
               \/ o = Offer(k, OfEdge(edges[k], "dependency"))
               \/ o = Offer(n + k, OfEdge(edges[k], "consumer"))
               \/ o = Offer(2 * n + k, OfEdge(edges[k], "indirect"))
        PROVE o.place \in Nat /\ Accounted(seed, edges, o.component)
    BY <1>1, <1>3, <2>2 DEF Accounted
  <2>3. ASSUME NEW k \in DOMAIN edges, Open(edges[k]), o = Offer(3 * n + k, LeftOpen(edges[k]))
        PROVE o.place \in Nat /\ Accounted(seed, edges, o.component)
    BY <1>1, <1>3, <2>3 DEF Accounted
  <2> QED
    BY <1>4, <2>1, <2>2, <2>3
<1> QED
  BY <1>2, <1>3, <1>5, <1>6

\* The first component of an id and role stays: each that was offered is there, or
\* another that is called the same, and no other component comes.
LEMMA AppendedKeepsOne ==
    ASSUME NEW components, NEW offers, \A o \in offers : o.place \in Nat
    PROVE /\ components \subseteq Appended(components, offers)
          /\ \A x \in Appended(components, offers) :
                x \in components \/ \E o \in offers : x = o.component
          /\ \A o \in offers : \E x \in Appended(components, offers) : Same(x, o.component)
<1>1. components \subseteq Appended(components, offers)
  BY DEF Appended
<1>2. \A x \in Appended(components, offers) : x \in components \/ \E o \in offers : x = o.component
  BY DEF Appended
<1>3. ASSUME NEW o \in offers PROVE \E x \in Appended(components, offers) : Same(x, o.component)
  <2>1. CASE \E c \in components : Same(c, o.component)
    BY <1>1, <2>1
  <2>2. CASE \A c \in components : ~Same(c, o.component)
    <3> DEFINE alike == {p \in offers : Same(p.component, o.component)}
               T == {p.place : p \in alike}
    <3>1. T \subseteq Nat /\ T # {}
      BY DEF Same
    <3>2. PICK t \in T : \A u \in T : t <= u
      <4> HIDE DEF T
      <4> QED
        BY <3>1, Least
    <3>3. PICK p \in alike : p.place = t
      BY <3>2
    <3>4. \A c \in components : ~Same(c, p.component)
      BY <2>2, <3>3 DEF Same
    <3>5. ASSUME NEW q \in offers, q.place < p.place PROVE ~Same(q.component, p.component)
      <4>1. q \notin alike
        <5> SUFFICES ASSUME q \in alike PROVE FALSE
          OBVIOUS
        <5>1. q.place \in T
          OBVIOUS
        <5>2. t <= q.place /\ q.place < t /\ t \in Nat /\ q.place \in Nat
          <6> HIDE DEF T
          <6> QED
            BY <3>1, <3>2, <3>3, <3>5, <5>1
        <5> QED
          BY <5>2
      <4> QED
        BY <3>3, <4>1 DEF Same
    <3>6. p.component \in Appended(components, offers)
      BY <3>3, <3>4, <3>5 DEF Appended
    <3> QED
      BY <3>3, <3>6
  <2> QED
    BY <2>1, <2>2
<1> QED
  BY <1>1, <1>2, <1>3

---------------------------------------------------------------------------
(* Components and evidence, as the collection of the impact grows them.     *)

\* What a component cites is among the evidence, one called detected cites something,
\* and one of no known role is to be confirmed.
ComponentsInv(components, evidence) ==
    \A x \in components :
        /\ x.evidence \subseteq evidence
        /\ x.class \in {"detected", "to_confirm"}
        /\ x.class = "detected" => x.evidence # {}
        /\ x.role = "unknown" => x.class = "to_confirm"

\* What is called detected is the symbol asked for or rests on a row that was read
\* resolved, and a row that was not is listed as to be confirmed.
EndsInv(components, met) ==
    /\ \A m \in met : m.status # "resolved" =>
            \E x \in components : x.id = <<"unresolved", m.key>> /\ x.class = "to_confirm"
    /\ \A x \in components : x.class = "detected" =>
            x.evidence \subseteq {OfSymbol(x.name)} \cup {OfRelation(m.id) : m \in {m \in met : m.status = "resolved"}}

\* What one query adds keeps both.
LEMMA ReportIsTrue ==
    ASSUME NEW seed, NEW edges, Len(edges) \in Nat, DOMAIN edges = 1..Len(edges),
           NEW components, NEW evidence, NEW met, ComponentsInv(components, evidence), EndsInv(components, met)
    PROVE LET cs == Appended(components, Offered(seed, edges)) IN
          /\ ComponentsInv(cs, evidence \cup {OfSymbol(seed)} \cup {OfRelation(e.id) : e \in Range(edges)})
          /\ EndsInv(cs, met \cup {RowOf(e) : e \in Range(edges)})
<1> DEFINE cs == Appended(components, Offered(seed, edges))
           ev == evidence \cup {OfSymbol(seed)} \cup {OfRelation(e.id) : e \in Range(edges)}
           rows == met \cup {RowOf(e) : e \in Range(edges)}
           certain == {OfRelation(m.id) : m \in {m \in rows : m.status = "resolved"}}
<1>1. /\ \A o \in Offered(seed, edges) : o.place \in Nat /\ Accounted(seed, edges, o.component)
      /\ \A e \in Range(edges) : Open(e) => \E o \in Offered(seed, edges) : o.component = LeftOpen(e)
  BY OffersAreAccounted
<1>2. /\ components \subseteq cs
      /\ \A x \in cs : x \in components \/ Accounted(seed, edges, x)
      /\ \A o \in Offered(seed, edges) : \E x \in cs : Same(x, o.component)
  BY <1>1, AppendedKeepsOne
<1>3. \A e \in Range(edges) : /\ RowOf(e) \in rows /\ RowOf(e).id = e.id
                              /\ RowOf(e).status = e.status /\ RowOf(e).key = e.key
  BY DEF RowOf
<1>4. ASSUME NEW x, Accounted(seed, edges, x)
      PROVE /\ x.evidence \subseteq ev
            /\ x.class \in {"detected", "to_confirm"}
            /\ x.class = "detected" => x.evidence # {}
            /\ x.role = "unknown" => x.class = "to_confirm"
            /\ x.class = "detected" => x.evidence \subseteq {OfSymbol(x.name)} \cup certain
  <2>1. CASE x = Direct(seed)
    <3>1. x.evidence = {OfSymbol(seed)} /\ x.class = "detected" /\ x.role = "direct" /\ x.name = seed
      BY <2>1 DEF Direct, Component
    <3> QED
      BY <3>1
  <2>2. ASSUME NEW e \in Range(edges), NEW role \in {"dependency", "consumer", "indirect"}, x = OfEdge(e, role)
        PROVE /\ x.evidence \subseteq ev
              /\ x.class \in {"detected", "to_confirm"}
              /\ x.class = "detected" => x.evidence # {}
              /\ x.role = "unknown" => x.class = "to_confirm"
              /\ x.class = "detected" => x.evidence \subseteq {OfSymbol(x.name)} \cup certain
    <3>1. /\ x.evidence = {OfRelation(e.id)}
          /\ x.class \in {"detected", "to_confirm"}
          /\ x.class = "detected" => e.status = "resolved"
          /\ x.role = "unknown" => x.class = "to_confirm"
      BY <2>2 DEF OfEdge, Component, Classified
    <3>2. e.status = "resolved" => OfRelation(e.id) \in certain
      BY <1>3
    <3>3. OfRelation(e.id) \in ev
      OBVIOUS
    <3> HIDE DEF certain, ev
    <3> QED
      BY <3>1, <3>2, <3>3
  <2>3. ASSUME NEW e \in Range(edges), x = LeftOpen(e)
        PROVE x.evidence = {} /\ x.class = "to_confirm"
    BY <2>3 DEF LeftOpen, Component
  <2> QED
    BY <1>4, <2>1, <2>2, <2>3 DEF Accounted
<1>5. ComponentsInv(cs, ev)
  BY <1>2, <1>4 DEF ComponentsInv
<1>6. ASSUME NEW m \in rows, m.status # "resolved"
      PROVE \E x \in cs : x.id = <<"unresolved", m.key>> /\ x.class = "to_confirm"
  <2>1. CASE m \in met
    BY <1>2, <1>6, <2>1 DEF EndsInv
  <2>2. ASSUME NEW e \in Range(edges), m = RowOf(e)
        PROVE \E x \in cs : x.id = <<"unresolved", m.key>> /\ x.class = "to_confirm"
    <3>1. Open(e) /\ m.key = e.key
      BY <1>3, <1>6, <2>2 DEF Open
    <3>2. PICK x \in cs : Same(x, LeftOpen(e))
      BY <1>1, <1>2, <3>1
    <3>3. x.id = <<"unresolved", e.key>> /\ x.role = "unknown"
      BY <3>2 DEF Same, LeftOpen, Component
    <3> HIDE DEF cs, ev
    <3> QED
      BY <1>5, <3>1, <3>3 DEF ComponentsInv
  <2> QED
    BY <2>1, <2>2
<1>7. ASSUME NEW x \in cs, x.class = "detected"
      PROVE x.evidence \subseteq {OfSymbol(x.name)} \cup certain
  <2>1. CASE x \in components
    BY <1>7, <2>1 DEF EndsInv
  <2>2. CASE Accounted(seed, edges, x)
    BY <1>4, <1>7, <2>2
  <2> QED
    BY <1>2, <2>1, <2>2
<1>8. EndsInv(cs, rows)
  <2> HIDE DEF cs
  <2> QED
    BY <1>6, <1>7 DEF EndsInv
<1> QED
  BY <1>5, <1>8

---------------------------------------------------------------------------
(* Documents.                                                               *)

StandsAlone(n, doc) ==
    \A l \in doc.lines : (n # "tasks.md" => l.cites \subseteq doc.evidence) /\ (l.marked => l.cites # {})

\* The words of a draft that are not the command's own are harmless.
OwnWords(d) ==
    /\ ~d.requirement.marked /\ d.requirement.cites \subseteq d.evidence
    /\ d.requirement.title.marked => d.requirement.title.cites # {}
    /\ d.requirement.title.cites \subseteq d.evidence
    /\ \A rule \in d.rules : rule.cites \subseteq d.evidence
    /\ \A x \in Uncertain(d) : x.name \notin MarkedNames

\* What synthesis puts in a draft.
DraftInv(d) ==
    /\ d.requirement \in Requirements
    /\ \A rule \in d.rules : rule.evidence \in d.evidence
    /\ ComponentsInv(d.components, d.evidence)
    /\ EndsInv(d.components, d.met)

LEMMA FourNames ==
    Range(Names) = {"requirements.md", "design.md", "tasks.md", "test-plan.md"}
BY DEF Range, Names

LEMMA RenderedDocuments ==
    ASSUME NEW d
    PROVE /\ DOMAIN Rendered(d) = {"requirements.md", "design.md", "tasks.md", "test-plan.md"}
          /\ Rendered(d)["requirements.md"] = RequirementsMd(d)
          /\ Rendered(d)["design.md"] = DesignMd(d)
          /\ Rendered(d)["tasks.md"] = TasksMd(d)
          /\ Rendered(d)["test-plan.md"] = TestPlanMd(d)
BY FourNames DEF Rendered

LEMMA RenderedAreDocuments ==
    ASSUME NEW d, NEW n \in Range(Names)
    PROVE /\ Rendered(d)[n].kind = "document" /\ Rendered(d)[n].edited = FALSE
          /\ DOMAIN Rendered(d)[n] = {"kind", "lines", "evidence", "defines", "links", "accepts", "edited"}
BY FourNames DEF Rendered, RequirementsMd, DesignMd, TasksMd, TestPlanMd, Document

RequirementsLines(d) ==
    {Title(d), Words(d.requirement),
     Line(d.requirement.cites \cup RuleEvidence(d), d.requirement.marked)} \cup UncertainLines(d)
DesignLines(d) ==
    {Title(d), Words(d.requirement)} \cup ComponentLines(d) \cup UncertainLines(d)
    \cup {Line({rule.evidence} \cup rule.cites, rule.marked) : rule \in d.rules}

\* The parts of the documents that the validator reads.
LEMMA RenderedParts ==
    ASSUME NEW d
    PROVE LET docs == Rendered(d) IN
          /\ docs["requirements.md"].defines = <<"REQ-001">>
          /\ docs["design.md"].defines = <<>>
          /\ docs["tasks.md"].defines = <<"TASK-001", "TASK-002", "TASK-003">>
          /\ docs["test-plan.md"].defines = <<"TEST-001", "TEST-002", "TEST-003">>
          /\ docs["requirements.md"].evidence = d.evidence /\ docs["design.md"].evidence = d.evidence
          /\ docs["tasks.md"].evidence = {} /\ docs["test-plan.md"].evidence = d.evidence
          /\ docs["tasks.md"].lines = {Title(d)} /\ docs["test-plan.md"].lines = {Title(d)}
          /\ docs["requirements.md"].lines =
                RequirementsLines(d)
          /\ docs["design.md"].lines =
                DesignLines(d)
          /\ docs["tasks.md"].links = Linked({"TASK-001", "TASK-002", "TASK-003"})
          /\ docs["test-plan.md"].links = Linked({"TEST-001", "TEST-002", "TEST-003"})
          /\ docs["tasks.md"].accepts = {"TASK-003"}
<1> DEFINE docs == Rendered(d)
<1>1. /\ docs["requirements.md"].defines = <<"REQ-001">> /\ docs["requirements.md"].evidence = d.evidence
      /\ docs["requirements.md"].lines =
            RequirementsLines(d)
  <2>1. docs["requirements.md"] = RequirementsMd(d)
    BY RenderedDocuments
  <2> HIDE DEF docs
  <2> QED
    BY <2>1 DEF RequirementsMd, RequirementsLines, Document
<1>2. /\ docs["design.md"].defines = <<>> /\ docs["design.md"].evidence = d.evidence
      /\ docs["design.md"].lines =
            DesignLines(d)
  <2>1. docs["design.md"] = DesignMd(d)
    BY RenderedDocuments
  <2> HIDE DEF docs
  <2> QED
    BY <2>1 DEF DesignMd, DesignLines, Document
<1>3. /\ docs["tasks.md"].defines = <<"TASK-001", "TASK-002", "TASK-003">>
      /\ docs["tasks.md"].evidence = {} /\ docs["tasks.md"].lines = {Title(d)} /\ docs["tasks.md"].accepts = {"TASK-003"}
      /\ docs["tasks.md"].links = Linked({"TASK-001", "TASK-002", "TASK-003"})
  <2>1. docs["tasks.md"] = TasksMd(d)
    BY RenderedDocuments
  <2> HIDE DEF docs
  <2> QED
    BY <2>1 DEF TasksMd, Document
<1>4. /\ docs["test-plan.md"].defines = <<"TEST-001", "TEST-002", "TEST-003">>
      /\ docs["test-plan.md"].evidence = d.evidence /\ docs["test-plan.md"].lines = {Title(d)}
      /\ docs["test-plan.md"].links = Linked({"TEST-001", "TEST-002", "TEST-003"})
  <2>1. docs["test-plan.md"] = TestPlanMd(d)
    BY RenderedDocuments
  <2> HIDE DEF docs
  <2> QED
    BY <2>1 DEF TestPlanMd, Document
<1> HIDE DEF docs
<1> QED
  BY <1>1, <1>2, <1>3, <1>4 DEF docs

\* What the validator accepts of the documents of a draft stands alone in each: all but
\* tasks.md list all the evidence that any document lists.
LEMMA AcceptedStandsAlone ==
    ASSUME NEW d, ValidDocuments(Rendered(d)), NEW n \in Range(Names)
    PROVE StandsAlone(n, Rendered(d)[n])
<1>1. Listed(Rendered(d)) = d.evidence
  <2>1. DOMAIN Rendered(d) = Range(Names)
    BY FourNames, RenderedDocuments
  <2>2. Rendered(d)["design.md"].evidence = d.evidence
    BY RenderedParts
  <2>3. \A m \in Range(Names) : Rendered(d)[m].evidence \subseteq d.evidence
    <3>1. /\ Rendered(d)["requirements.md"].evidence \subseteq d.evidence
          /\ Rendered(d)["design.md"].evidence \subseteq d.evidence
          /\ Rendered(d)["tasks.md"].evidence \subseteq d.evidence
          /\ Rendered(d)["test-plan.md"].evidence \subseteq d.evidence
      BY RenderedParts
    <3> QED
      BY <3>1, FourNames
  <2> QED
    BY <2>1, <2>2, <2>3, FourNames DEF Listed
<1>2. \A l \in Rendered(d)[n].lines : l.cites \subseteq d.evidence /\ (l.marked => l.cites # {})
  BY <1>1, FourNames, RenderedDocuments DEF ValidDocuments, Cited, DetectedIsCited
<1>3. n # "tasks.md" => Rendered(d)[n].evidence = d.evidence
  <2>1. /\ Rendered(d)["requirements.md"].evidence = d.evidence
        /\ Rendered(d)["design.md"].evidence = d.evidence
        /\ Rendered(d)["test-plan.md"].evidence = d.evidence
    BY RenderedParts
  <2> QED
    BY <2>1, FourNames
<1> QED
  BY <1>2, <1>3 DEF StandsAlone

\* What synthesis and the renderer make of words that are harmless is valid.
LEMMA OwnWordsAreValid ==
    ASSUME NEW d, DraftInv(d), OwnWords(d)
    PROVE ReviewPasses(d) /\ ValidDocuments(Rendered(d))
<1> DEFINE docs == Rendered(d)
<1>1. ReviewPasses(d)
  BY DEF ReviewPasses, DraftInv, ComponentsInv, OwnWords
<1>2. Whole(docs)
  <2>1. \A n \in Range(Names) : Rendered(d)[n].kind = "document"
    BY RenderedAreDocuments
  <2>2. DOMAIN docs = Range(Names)
    BY FourNames, RenderedDocuments
  <2> QED
    BY <2>1, <2>2 DEF Whole
<1>3. /\ docs["requirements.md"].defines = <<"REQ-001">> /\ docs["design.md"].defines = <<>>
      /\ docs["tasks.md"].defines = <<"TASK-001", "TASK-002", "TASK-003">>
      /\ docs["test-plan.md"].defines = <<"TEST-001", "TEST-002", "TEST-003">>
  BY RenderedParts
<1>4. IdsAreUnique(docs)
  BY <1>3, RenderedDocuments DEF IdsAreUnique, IsInjective
<1>5. \A n \in DOMAIN docs : \A l \in docs[n].lines : l.cites \subseteq d.evidence /\ (l.marked => l.cites # {})
  <2> SUFFICES ASSUME NEW n \in DOMAIN docs, NEW l \in docs[n].lines
               PROVE l.cites \subseteq d.evidence /\ (l.marked => l.cites # {})
    OBVIOUS
  <2>1. CASE l = Words(d.requirement)
    BY <2>1 DEF Words, Line, OwnWords
  <2>2. CASE l = Line(d.requirement.cites \cup RuleEvidence(d), d.requirement.marked)
    BY <2>2 DEF Line, OwnWords, RuleEvidence, DraftInv
  <2>3. CASE l \in ComponentLines(d)
    <3>1. PICK x \in d.components : l = Line(x.evidence, x.class = "detected" \/ x.name \in MarkedNames)
      BY <2>3 DEF ComponentLines
    <3>2. l.cites = x.evidence /\ l.marked = (x.class = "detected" \/ x.name \in MarkedNames)
      BY <3>1 DEF Line
    <3>3. x.name \in MarkedNames => x.class = "detected"
      BY DEF DraftInv, ComponentsInv, OwnWords, Uncertain
    <3> QED
      BY <3>2, <3>3 DEF DraftInv, ComponentsInv
  <2>4. CASE \E rule \in d.rules : l = Line({rule.evidence} \cup rule.cites, rule.marked)
    BY <2>4 DEF Line, OwnWords, DraftInv
  <2>5. CASE l = Title(d)
    BY <2>5 DEF Title, Line, OwnWords
  <2>6. CASE l \in UncertainLines(d)
    <3>1. l = Line({}, \E x \in Uncertain(d) : x.name \in MarkedNames)
      BY <2>6 DEF UncertainLines
    <3>2. ~(\E x \in Uncertain(d) : x.name \in MarkedNames)
      BY DEF OwnWords
    <3>3. l.cites = {} /\ l.marked = FALSE
      BY <3>1, <3>2 DEF Line
    <3> QED
      BY <3>3
  <2> QED
    <3>1. /\ docs["requirements.md"].lines =
                RequirementsLines(d)
          /\ docs["design.md"].lines =
                DesignLines(d)
          /\ docs["tasks.md"].lines = {Title(d)} /\ docs["test-plan.md"].lines = {Title(d)}
      BY RenderedParts
    <3>2. n \in {"requirements.md", "design.md", "tasks.md", "test-plan.md"}
      BY RenderedDocuments
    <3> HIDE DEF docs
    <3> QED
      <4>1. CASE n = "requirements.md"
        BY <2>1, <2>2, <2>5, <2>6, <3>1, <4>1 DEF RequirementsLines
      <4>2. CASE n = "design.md"
        BY <2>1, <2>3, <2>4, <2>5, <2>6, <3>1, <4>2 DEF DesignLines
      <4>3. CASE n \in {"tasks.md", "test-plan.md"}
        BY <2>5, <3>1, <4>3
      <4> QED
        BY <3>2, <4>1, <4>2, <4>3
<1>6. Cited(docs) \subseteq Listed(docs)
  <2>1. docs["design.md"].evidence = d.evidence
    BY RenderedParts
  <2>2. d.evidence \subseteq Listed(docs)
    BY <2>1, RenderedDocuments DEF Listed
  <2>3. Cited(docs) \subseteq d.evidence
    BY <1>5 DEF Cited
  <2> QED
    BY <2>2, <2>3
<1>7. TraceabilityHolds(docs)
  <2>1. Defined(docs["requirements.md"]) = {"REQ-001"}
    BY <1>3 DEF Defined, Range
  <2>2. /\ docs["tasks.md"].links = Linked({"TASK-001", "TASK-002", "TASK-003"})
        /\ docs["test-plan.md"].links = Linked({"TEST-001", "TEST-002", "TEST-003"})
    BY RenderedParts
  <2>3. /\ Defined(docs["tasks.md"]) = {"TASK-001", "TASK-002", "TASK-003"}
        /\ Defined(docs["test-plan.md"]) = {"TEST-001", "TEST-002", "TEST-003"}
    BY <1>3 DEF Defined, Range
  <2>4. \A ids : DOMAIN Linked(ids) = ids /\ Range(Linked(ids)) \subseteq {"REQ-001"}
    BY DEF Linked, Range
  <2> QED
    BY <2>1, <2>2, <2>3, <2>4 DEF TraceabilityHolds
<1>8. AcceptanceIsLast(docs["tasks.md"])
  <2>1. docs["tasks.md"].accepts = {"TASK-003"}
    BY RenderedParts
  <2>2. Cardinality({"TASK-003"}) = 1
    BY FS_Singleton
  <2> QED
    BY <1>3, <2>1, <2>2 DEF AcceptanceIsLast, Last
<1> QED
  BY <1>1, <1>2, <1>4, <1>5, <1>6, <1>7, <1>8 DEF ValidDocuments, DetectedIsCited

---------------------------------------------------------------------------
(* The inductive invariant.                                                 *)

Collecting == {"documents", "impact", "resolved", "walking"}
Drafted == {"check", "rejected", "refused", "mkdir", "open", "fill"}
Writing == {"open", "fill"}

\* What a command has collected, and the edges of its walk in the order they were read.
CollectInv(j) ==
    /\ DOMAIN j = {"step", "requirement", "depth", "overwrite", "found", "chunks", "queries", "walk",
                   "components", "evidence", "warned", "met"}
    /\ j.requirement \in Requirements
    /\ j.overwrite \in BOOLEAN /\ j.found \in BOOLEAN
    /\ Len(j.walk.edges) \in Nat /\ DOMAIN j.walk.edges = 1..Len(j.walk.edges)
    /\ ComponentsInv(j.components, j.evidence)
    /\ EndsInv(j.components, j.met)

\* A draft that was not rejected renders valid documents; one that was has foreign
\* words. Who writes looked at the folder first.
DraftedInv(j, there) ==
    /\ {"step", "overwrite", "found", "draft"} \subseteq DOMAIN j
    /\ j.overwrite \in BOOLEAN /\ j.found \in BOOLEAN
    /\ DraftInv(j.draft)
    /\ IF j.step = "rejected" THEN ~OwnWords(j.draft) ELSE ValidDocuments(Rendered(j.draft))
    /\ j.step \in Writing \cup {"mkdir"} => j.overwrite \/ ~j.found
    /\ j.step \in Writing =>
          there /\ "left" \in DOMAIN j /\ j.left \in Seq(Range(Names)) /\ j.left # <<>>

JobInv(j, there) ==
    /\ "step" \in DOMAIN j /\ j.step \in Steps
    /\ j.step \in {"idle", "written"} => DOMAIN j = {"step"}
    /\ j.step \in Collecting => CollectInv(j)
    /\ j.step \in Drafted => DraftedInv(j, there)

JobsInv ==
    /\ job = [c \in Creators |-> job[c]]
    /\ \A c \in Creators : JobInv(job[c], exists)

FileInv(n, f) ==
    \/ f \in {Absent, Empty}
    \/ /\ DOMAIN f = {"kind", "lines", "evidence", "defines", "links", "accepts", "edited"}
       /\ f.kind = "document" /\ f.edited \in BOOLEAN
       /\ ~f.edited => StandsAlone(n, f)

FilesInv ==
    /\ files = [n \in Range(Names) |-> files[n]]
    /\ \A n \in Range(Names) : FileInv(n, files[n])
    /\ ~exists => files = NoFiles

DatabaseInv ==
    /\ starts \in 0..MaxStarts /\ changes \in 0..MaxChanges /\ edits \in 0..MaxEdits
    /\ corpus \in Corpora /\ catalog \in Catalogs /\ exists \in BOOLEAN

SpecInv == DatabaseInv /\ JobsInv /\ FilesInv

LEMMA InitSpec == SpecInit => SpecInv
<1> SUFFICES ASSUME SpecInit PROVE SpecInv
  OBVIOUS
<1> USE DEF SpecInit
<1>1. DatabaseInv
  <2>1. MaxStarts \in Nat /\ MaxChanges \in Nat /\ MaxEdits \in Nat
    BY SpecModeAssumption
  <2>2. starts \in 0..MaxStarts /\ changes \in 0..MaxChanges /\ edits \in 0..MaxEdits
    BY <2>1
  <2>3. corpus \in Corpora /\ catalog \in Catalogs /\ exists \in BOOLEAN
    BY Zenon
  <2> QED
    BY <2>2, <2>3 DEF DatabaseInv
<1>2. JobsInv
  BY DEF JobsInv, JobInv, Idle, Steps, Ended, Collecting, Drafted
<1>3. FilesInv
  BY DEF FilesInv, FileInv, NoFiles
<1> QED
  BY <1>1, <1>2, <1>3 DEF SpecInv

\* Only one job changes: the rest of the invariant of jobs follows.
LEMMA JobsKeep ==
    ASSUME SpecInv, NEW c \in Creators,
           job' = [d \in Creators |-> job'[d]], \A d \in Creators \ {c} : job'[d] = job[d],
           UNCHANGED database, exists => exists', exists' \in BOOLEAN,
           JobInv(job'[c], exists')
    PROVE JobsInv'
<1>1. ASSUME NEW d \in Creators PROVE JobInv(job'[d], exists')
  <2>1. CASE d = c
    BY <2>1
  <2>2. CASE d # c
    BY <2>2 DEF SpecInv, JobsInv, JobInv, DraftedInv
  <2> QED
    BY <2>1, <2>2
<1> QED
  BY <1>1 DEF JobsInv, database

---------------------------------------------------------------------------
(* The steps of a command.                                                  *)

\* A step that leaves the folder and the database alone.
LEMMA FolderKeeps ==
    ASSUME SpecInv, NEW c \in Creators, UNCHANGED <<database, folder>>, starts' \in 0..MaxStarts,
           job' = [d \in Creators |-> job'[d]], \A d \in Creators \ {c} : job'[d] = job[d],
           JobInv(job'[c], exists)
    PROVE SpecInv'
<1>1. JobsInv'
  BY JobsKeep DEF folder, SpecInv, DatabaseInv
<1>2. DatabaseInv' /\ FilesInv'
  BY DEF SpecInv, DatabaseInv, FilesInv, database, folder
<1> QED
  BY <1>1, <1>2 DEF SpecInv

LEMMA StartSteps ==
    ASSUME SpecInv, NEW c \in Creators, Start(c)
    PROVE SpecInv'
<1>1. PICK r \in Requirements, d \in Depths, o \in BOOLEAN :
        job' = [job EXCEPT ![c] =
            [step |-> "documents", requirement |-> r, depth |-> d, overwrite |-> o,
             found |-> FALSE, chunks |-> <<>>, queries |-> Queries(r), walk |-> NoWalk,
             components |-> {}, evidence |-> {}, warned |-> Queries(r) = <<>>, met |-> {}]]
  BY DEF Start
<1>2. job = [k \in Creators |-> job[k]]
  BY DEF SpecInv, JobsInv
<1>3. job' = [k \in Creators |-> job'[k]] /\ \A k \in Creators \ {c} : job'[k] = job[k]
  BY <1>1, <1>2
<1> DEFINE j == job'[c]
<1>4. j = [step |-> "documents", requirement |-> r, depth |-> d, overwrite |-> o,
           found |-> FALSE, chunks |-> <<>>, queries |-> Queries(r), walk |-> NoWalk,
           components |-> {}, evidence |-> {}, warned |-> Queries(r) = <<>>, met |-> {}]
  BY <1>1, <1>2
<1> HIDE DEF j
<1>6. CollectInv(j)
  <2>1. ComponentsInv(j.components, j.evidence) /\ EndsInv(j.components, j.met)
    BY <1>4 DEF ComponentsInv, EndsInv
  <2>2. j.overwrite \in BOOLEAN /\ j.found \in BOOLEAN /\ j.requirement \in Requirements
    BY <1>4, Zenon
  <2>3. j.walk.edges = <<>>
    BY <1>4 DEF NoWalk
  <2> QED
    BY <1>4, <2>1, <2>2, <2>3 DEF CollectInv
<1>7. JobInv(j, exists)
  BY <1>4, <1>6 DEF JobInv, Steps, Ended, Collecting, Drafted
<1>8. starts' \in 0..MaxStarts
  BY SpecModeAssumption DEF Start, SpecInv, DatabaseInv
<1> QED
  BY <1>3, <1>7, <1>8, FolderKeeps DEF j, Start

LEMMA CollectDocumentsSteps ==
    ASSUME SpecInv, NEW c \in Creators, CollectDocuments(c)
    PROVE SpecInv'
<1> DEFINE j == job'[c]
<1>1. job = [k \in Creators |-> job[k]] /\ JobInv(job[c], exists)
  BY DEF SpecInv, JobsInv
<1>2. CollectInv(job[c])
  BY <1>1 DEF JobInv, CollectDocuments, Collecting
<1>3. job' = [k \in Creators |-> job'[k]] /\ \A k \in Creators \ {c} : job'[k] = job[k]
  BY <1>1 DEF CollectDocuments
<1>4. j = [job[c] EXCEPT !.chunks = corpus, !.step = "impact"]
  BY <1>1 DEF CollectDocuments
<1> HIDE DEF j
<1>5. j.step = "impact" /\ CollectInv(j) /\ "step" \in DOMAIN j
  BY <1>2, <1>4 DEF CollectInv
<1>6. JobInv(j, exists)
  BY <1>5 DEF JobInv, Steps, Ended, Collecting, Drafted
<1> QED
  BY <1>3, <1>6, FolderKeeps DEF j, CollectDocuments, SpecInv, DatabaseInv

\* A command that ends before it has written.
LEMMA EndedSteps ==
    ASSUME SpecInv, NEW c \in Creators, UNCHANGED <<database, folder, starts>>,
           job' = [job EXCEPT ![c] = Idle]
    PROVE SpecInv'
<1>1. job = [k \in Creators |-> job[k]]
  BY DEF SpecInv, JobsInv
<1>2. job' = [k \in Creators |-> job'[k]] /\ (\A k \in Creators \ {c} : job'[k] = job[k]) /\ job'[c] = Idle
  BY <1>1
<1>3. JobInv(job'[c], exists)
  BY <1>2 DEF Idle, JobInv, Steps, Ended, Collecting, Drafted
<1> QED
  BY <1>2, <1>3, FolderKeeps DEF SpecInv, DatabaseInv

\* A step of a command that is still collecting.
LEMMA CollectKeeps ==
    ASSUME SpecInv, NEW c \in Creators, UNCHANGED <<database, folder, starts>>,
           job' = [d \in Creators |-> job'[d]], \A d \in Creators \ {c} : job'[d] = job[d],
           CollectInv(job'[c]), job'[c].step \in Collecting
    PROVE SpecInv'
<1>1. JobInv(job'[c], exists)
  BY DEF JobInv, CollectInv, Steps, Ended, Collecting, Drafted
<1> QED
  BY <1>1, FolderKeeps DEF SpecInv, DatabaseInv

LEMMA ResolveSteps ==
    ASSUME SpecInv, NEW c \in Creators, Resolve(c)
    PROVE SpecInv'
<1> DEFINE i == job[c]
           j == job'[c]
           found == catalog.named[Head(i.queries)]
           one == Cardinality(found) = 1
           offers == {Offer(0, Candidate(s)) : s \in found}
           seed == CHOOSE s \in found : TRUE
<1>1. job = [k \in Creators |-> job[k]] /\ JobInv(i, exists)
  BY DEF SpecInv, JobsInv
<1>2. CollectInv(i)
  BY <1>1 DEF JobInv, Resolve, Collecting
<1>3. job' = [job EXCEPT
            ![c].step = IF one THEN "resolved" ELSE "impact",
            ![c].walk = IF one THEN [NoWalk EXCEPT !.seed = seed] ELSE @,
            ![c].queries = Tail(@),
            ![c].warned = @ \/ ~one,
            ![c].components = IF one THEN @ ELSE Appended(@, offers)]
  BY DEF Resolve
<1>4. job' = [k \in Creators |-> job'[k]] /\ \A k \in Creators \ {c} : job'[k] = job[k]
  <2> HIDE DEF found, one, offers, seed
  <2> QED
    BY <1>1, <1>3
<1>5. j = [i EXCEPT !.step = IF one THEN "resolved" ELSE "impact",
                    !.walk = IF one THEN [NoWalk EXCEPT !.seed = seed] ELSE i.walk,
                    !.queries = Tail(i.queries), !.warned = i.warned \/ ~one,
                    !.components = IF one THEN i.components ELSE Appended(i.components, offers)]
  <2> HIDE DEF found, one, offers, seed
  <2> QED
    BY <1>1, <1>2, <1>3 DEF CollectInv
<1> HIDE DEF i, j, found, one, offers, seed
<1>6. /\ DOMAIN j = DOMAIN i /\ j.requirement = i.requirement /\ j.overwrite = i.overwrite
      /\ j.found = i.found /\ j.evidence = i.evidence /\ j.met = i.met
      /\ j.step \in {"resolved", "impact"}
      /\ j.walk = IF one THEN [NoWalk EXCEPT !.seed = seed] ELSE i.walk
      /\ j.components = IF one THEN i.components ELSE Appended(i.components, offers)
  BY <1>2, <1>5 DEF CollectInv
<1>7. Len(j.walk.edges) \in Nat /\ DOMAIN j.walk.edges = 1..Len(j.walk.edges)
  <2>1. [NoWalk EXCEPT !.seed = seed].edges = <<>>
    BY DEF NoWalk
  <2> QED
    BY <1>2, <1>6, <2>1 DEF CollectInv
<1>8. ComponentsInv(j.components, j.evidence) /\ EndsInv(j.components, j.met)
  <2>1. \A o \in offers : o.place \in Nat
    BY DEF offers, Offer
  <2>2. \A o \in offers : LET x == o.component IN x.evidence = {} /\ x.class = "to_confirm"
    BY DEF offers, Offer, Candidate, Component
  <2>3. /\ i.components \subseteq Appended(i.components, offers)
        /\ \A x \in Appended(i.components, offers) :
              x \in i.components \/ (x.evidence = {} /\ x.class = "to_confirm")
    BY <2>1, <2>2, AppendedKeepsOne
  <2> DEFINE cs == Appended(i.components, offers)
  <2>4. ComponentsInv(i.components, i.evidence) /\ EndsInv(i.components, i.met)
    BY <1>2 DEF CollectInv
  <2>5. ComponentsInv(cs, i.evidence) /\ EndsInv(cs, i.met)
    <3> HIDE DEF cs
    <3>1. i.components \subseteq cs /\ \A x \in cs : x \in i.components \/ (x.evidence = {} /\ x.class = "to_confirm")
      BY <2>3 DEF cs
    <3>2. ComponentsInv(cs, i.evidence)
      BY <2>4, <3>1 DEF ComponentsInv
    <3>3. EndsInv(cs, i.met)
      BY <2>4, <3>1 DEF EndsInv
    <3> QED
      BY <3>2, <3>3
  <2> HIDE DEF cs
  <2> QED
    BY <1>6, <2>4, <2>5 DEF cs
<1>9. CollectInv(j) /\ j.step \in Collecting
  BY <1>2, <1>6, <1>7, <1>8 DEF CollectInv, Collecting
<1>10. UNCHANGED <<database, folder, starts>>
  BY DEF Resolve
<1> QED
  BY <1>4, <1>9, <1>10, CollectKeeps DEF j

\* To say the step again of a job that has it changes nothing.
LEMMA SameStep ==
    ASSUME NEW c \in Creators, NEW w, job = [k \in Creators |-> job[k]], CollectInv(job[c]),
           job[c].step = "walking"
    PROVE [job EXCEPT ![c].walk = w] = [job EXCEPT ![c].step = "walking", ![c].walk = w]
<1> DEFINE i == job[c]
<1>1. [i EXCEPT !.walk = w] = [i EXCEPT !.step = "walking", !.walk = w]
  <2> HIDE DEF i
  <2> QED
    BY DEF CollectInv, i
<1> QED
  BY <1>1

\* A step of the walk keeps what was collected before it.
LEMMA WalkKeeps ==
    ASSUME SpecInv, NEW c \in Creators, UNCHANGED <<database, folder, starts>>, job[c].step \in Collecting,
           NEW w, Len(w.edges) \in Nat, DOMAIN w.edges = 1..Len(w.edges),
           job' = [job EXCEPT ![c].step = "walking", ![c].walk = w]
    PROVE SpecInv'
<1> DEFINE i == job[c]
           j == job'[c]
<1>1. job = [k \in Creators |-> job[k]] /\ CollectInv(i)
  BY DEF SpecInv, JobsInv, JobInv
<1>2. job' = [k \in Creators |-> job'[k]] /\ \A k \in Creators \ {c} : job'[k] = job[k]
  BY <1>1
<1>3. j = [i EXCEPT !.step = "walking", !.walk = w]
  BY <1>1
<1> HIDE DEF i, j
<1>4. CollectInv(j) /\ j.step = "walking"
  BY <1>1, <1>3 DEF CollectInv
<1> QED
  BY <1>2, <1>4, CollectKeeps DEF j, Collecting

LEMMA BeginWalkSteps ==
    ASSUME SpecInv, NEW c \in Creators, BeginWalk(c)
    PROVE SpecInv'
<1> DEFINE seed == job[c].walk.seed
           start == [symbol |-> seed, depth |-> 0]
           w == [NoWalk EXCEPT !.seed = seed, !.reached = {seed},
                               !.queue = IF job[c].depth > 0 THEN <<start>> ELSE <<>>]
<1>1. job' = [job EXCEPT ![c] = Idle] \/ job' = [job EXCEPT ![c].step = "walking", ![c].walk = w]
  BY DEF BeginWalk
<1>2. UNCHANGED <<database, folder, starts>> /\ job[c].step \in Collecting
  BY DEF BeginWalk, Collecting
<1>3. CASE job' = [job EXCEPT ![c] = Idle]
  BY <1>2, <1>3, EndedSteps
<1>4. w.edges = <<>>
  BY DEF NoWalk
<1> HIDE DEF w
<1> QED
  BY <1>1, <1>2, <1>3, <1>4, WalkKeeps

LEMMA ReadAdjacentSteps ==
    ASSUME SpecInv, NEW c \in Creators, ReadAdjacent(c)
    PROVE SpecInv'
<1> DEFINE v == job[c].walk
           from == Head(v.queue)
           w == [seed |-> v.seed, current |-> from, queue |-> Tail(v.queue), reached |-> v.reached,
                 adjacent |-> [i \in Adjacent(catalog, from.symbol) |-> catalog.relations[i]],
                 edges |-> v.edges]
<1>1. job = [k \in Creators |-> job[k]] /\ job[c].step = "walking" /\ CollectInv(job[c])
  BY DEF ReadAdjacent, SpecInv, JobsInv, JobInv, Collecting
<1>2. job' = [job EXCEPT ![c].walk = w] /\ UNCHANGED <<database, folder, starts>>
  BY DEF ReadAdjacent
<1>3. w.edges = v.edges
  OBVIOUS
<1> HIDE DEF w
<1>4. job' = [job EXCEPT ![c].step = "walking", ![c].walk = w]
  BY <1>1, <1>2, SameStep
<1> QED
  BY <1>1, <1>2, <1>3, <1>4, WalkKeeps DEF CollectInv, Collecting

LEMMA HandleRelationSteps ==
    ASSUME SpecInv, NEW c \in Creators, HandleRelation(c)
    PROVE SpecInv'
<1> DEFINE v == job[c].walk
           w == Walked(v, catalog, job[c].depth)
<1>1. job = [k \in Creators |-> job[k]] /\ job[c].step = "walking" /\ CollectInv(job[c])
  BY DEF HandleRelation, SpecInv, JobsInv, JobInv, Collecting
<1>2. job' = [job EXCEPT ![c].walk = w] /\ UNCHANGED <<database, folder, starts>>
  BY DEF HandleRelation
<1>3. Len(w.edges) \in Nat /\ DOMAIN w.edges = 1..Len(w.edges)
  <2>1. \E e : w.edges = Append(v.edges, e)
    BY DEF Walked
  <2>2. Len(v.edges) \in Nat /\ DOMAIN v.edges = 1..Len(v.edges)
    BY <1>1 DEF CollectInv
  <2> HIDE DEF v, w
  <2> QED
    BY <2>1, <2>2
<1> HIDE DEF w
<1>4. job' = [job EXCEPT ![c].step = "walking", ![c].walk = w]
  BY <1>1, <1>2, SameStep
<1> QED
  BY <1>1, <1>2, <1>3, <1>4, WalkKeeps DEF Collecting

LEMMA ReportSteps ==
    ASSUME SpecInv, NEW c \in Creators, Report(c)
    PROVE SpecInv'
<1> DEFINE i == job[c]
           j == job'[c]
           w == i.walk
           cs == Appended(i.components, Offered(w.seed, w.edges))
           ev == i.evidence \cup {OfSymbol(w.seed)} \cup {OfRelation(e.id) : e \in Range(w.edges)}
           rows == i.met \cup {RowOf(e) : e \in Range(w.edges)}
<1>1. job = [k \in Creators |-> job[k]] /\ CollectInv(i)
  BY DEF Report, SpecInv, JobsInv, JobInv, Collecting
<1>2. job' = [job EXCEPT ![c].step = "impact", ![c].walk = NoWalk, ![c].evidence = ev,
                         ![c].components = cs, ![c].met = rows]
  BY DEF Report
<1>3. ComponentsInv(cs, ev) /\ EndsInv(cs, rows)
  <2> HIDE DEF i
  <2> QED
    BY <1>1, ReportIsTrue DEF CollectInv
<1> HIDE DEF cs, ev, rows, w
<1>4. job' = [k \in Creators |-> job'[k]] /\ \A k \in Creators \ {c} : job'[k] = job[k]
  BY <1>1, <1>2
<1>5. j = [i EXCEPT !.step = "impact", !.walk = NoWalk, !.evidence = ev, !.components = cs, !.met = rows]
  BY <1>1, <1>2
<1> HIDE DEF i, j
<1>6. NoWalk.edges = <<>>
  BY DEF NoWalk
<1>7. CollectInv(j) /\ j.step = "impact"
  BY <1>1, <1>3, <1>5, <1>6 DEF CollectInv
<1>8. UNCHANGED <<database, folder, starts>>
  BY DEF Report
<1> QED
  BY <1>4, <1>7, <1>8, CollectKeeps DEF j, Collecting

LEMMA JudgeSteps ==
    ASSUME SpecInv, NEW c \in Creators, Judge(c)
    PROVE SpecInv'
<1> DEFINE i == job[c]
           j == job'[c]
           d == Draft(i)
<1>1. job = [k \in Creators |-> job[k]] /\ JobInv(i, exists)
  BY DEF SpecInv, JobsInv
<1>2. CollectInv(i)
  BY <1>1 DEF JobInv, Judge, Collecting
<1>3. job' = [job EXCEPT ![c] =
            [step |-> IF ReviewPasses(d) /\ ValidDocuments(Rendered(d)) THEN "check" ELSE "rejected",
             overwrite |-> @.overwrite, found |-> FALSE, draft |-> d]]
  BY DEF Judge
<1>4. job' = [k \in Creators |-> job'[k]] /\ \A k \in Creators \ {c} : job'[k] = job[k]
  BY <1>1, <1>3
<1>5. j = [step |-> IF ReviewPasses(d) /\ ValidDocuments(Rendered(d)) THEN "check" ELSE "rejected",
           overwrite |-> i.overwrite, found |-> FALSE, draft |-> d]
  BY <1>1, <1>3
<1> HIDE DEF j
<1>6. DraftInv(d)
  <2>1. /\ d.requirement = i.requirement /\ d.components = i.components /\ d.met = i.met
        /\ d.evidence = {OfChunk(i.chunks[k], k) : k \in DOMAIN i.chunks} \cup i.evidence
        /\ d.rules = Rules(i.chunks, i.requirement)
    BY DEF Draft
  <2> HIDE DEF i, d
  <2>2. d.requirement \in Requirements /\ i.evidence \subseteq d.evidence
    BY <1>2, <2>1 DEF CollectInv
  <2>3. \A rule \in d.rules : rule.evidence \in d.evidence
    BY <2>1 DEF Rules
  <2>4. ComponentsInv(d.components, d.evidence)
    BY <1>2, <2>1, <2>2 DEF CollectInv, ComponentsInv
  <2>5. EndsInv(d.components, d.met)
    BY <1>2, <2>1 DEF CollectInv
  <2> QED
    BY <2>2, <2>3, <2>4, <2>5 DEF DraftInv
<1> HIDE DEF d
<1>7. j.draft = d /\ j.step \in {"check", "rejected"} /\ DOMAIN j = {"step", "overwrite", "found", "draft"}
  BY <1>5
<1>8. IF j.step = "rejected" THEN ~OwnWords(j.draft) ELSE ValidDocuments(Rendered(j.draft))
  <2>1. CASE ReviewPasses(d) /\ ValidDocuments(Rendered(d))
    BY <1>5, <2>1
  <2>2. CASE ~(ReviewPasses(d) /\ ValidDocuments(Rendered(d)))
    BY <1>5, <1>6, <2>2, OwnWordsAreValid
  <2> QED
    BY <2>1, <2>2
<1>9. j.overwrite \in BOOLEAN /\ j.found \in BOOLEAN
  <2>1. j.overwrite = i.overwrite /\ j.found = FALSE
    BY <1>5, Zenon
  <2>2. i.overwrite \in BOOLEAN
    BY <1>2 DEF CollectInv
  <2> QED
    BY <2>1, <2>2
<1>10. JobInv(j, exists)
  BY <1>6, <1>7, <1>8, <1>9 DEF JobInv, DraftedInv, Steps, Ended, Collecting, Drafted, Writing
<1> QED
  BY <1>4, <1>10, FolderKeeps DEF j, Judge, SpecInv, DatabaseInv

LEMMA CheckFolderSteps ==
    ASSUME SpecInv, NEW c \in Creators, CheckFolder(c)
    PROVE SpecInv'
<1> DEFINE i == job[c]
           j == job'[c]
<1>1. job = [k \in Creators |-> job[k]] /\ JobInv(i, exists) /\ exists \in BOOLEAN
  BY DEF SpecInv, JobsInv, DatabaseInv
<1>2. i.step = "check" /\ DraftedInv(i, exists)
  BY <1>1 DEF JobInv, CheckFolder, Drafted
<1>3. job' = [k \in Creators |-> job'[k]] /\ \A k \in Creators \ {c} : job'[k] = job[k]
  BY <1>1 DEF CheckFolder
<1>4. j = [i EXCEPT !.found = exists, !.step = IF exists /\ ~i.overwrite THEN "refused" ELSE "mkdir"]
  BY <1>1 DEF CheckFolder
<1> HIDE DEF i, j
<1>5. /\ DOMAIN j = DOMAIN i /\ j.draft = i.draft /\ j.overwrite = i.overwrite /\ j.found = exists
      /\ j.step = IF exists /\ ~i.overwrite THEN "refused" ELSE "mkdir"
  BY <1>2, <1>4 DEF DraftedInv
<1>6. j.step = "mkdir" => j.overwrite \/ ~j.found
  BY <1>1, <1>5
<1>7. DraftedInv(j, exists) /\ j.step \in {"refused", "mkdir"} /\ "step" \in DOMAIN j
  BY <1>1, <1>2, <1>5, <1>6 DEF DraftedInv, Writing
<1>8. JobInv(j, exists)
  BY <1>7 DEF JobInv, Steps, Ended, Collecting, Drafted
<1> QED
  BY <1>3, <1>8, FolderKeeps DEF j, CheckFolder, SpecInv, DatabaseInv

LEMMA InterruptSteps ==
    ASSUME SpecInv, NEW c \in Creators, Interrupt(c)
    PROVE SpecInv'
BY EndedSteps DEF Interrupt

LEMMA MakeFolderSteps ==
    ASSUME SpecInv, NEW c \in Creators, MakeFolder(c)
    PROVE SpecInv'
<1> DEFINE i == job[c]
           j == job'[c]
<1>1. job = [k \in Creators |-> job[k]] /\ JobInv(i, exists)
  BY DEF SpecInv, JobsInv
<1>2. i.step = "mkdir" /\ DraftedInv(i, exists)
  BY <1>1 DEF JobInv, MakeFolder, Drafted
<1>3. job' = [k \in Creators |-> job'[k]] /\ \A k \in Creators \ {c} : job'[k] = job[k]
  BY <1>1 DEF MakeFolder
<1>4. j = [step |-> "open", left |-> Names, overwrite |-> i.overwrite, found |-> i.found, draft |-> i.draft]
  BY <1>1 DEF MakeFolder
<1>5. exists' = TRUE /\ UNCHANGED <<database, files, edits, starts>>
  BY DEF MakeFolder
<1> HIDE DEF i, j
<1>6. Names \in Seq(Range(Names)) /\ Names # <<>>
  BY DEF Names, Range
<1>7. DraftedInv(j, TRUE) /\ j.step = "open" /\ "step" \in DOMAIN j
  <2>1. /\ j.overwrite = i.overwrite /\ j.found = i.found /\ j.draft = i.draft /\ j.left = Names /\ j.step = "open"
        /\ DOMAIN j = {"step", "left", "overwrite", "found", "draft"}
    BY <1>4
  <2> QED
    BY <1>2, <1>6, <2>1 DEF DraftedInv, Writing
<1>8. JobInv(j, TRUE)
  BY <1>7 DEF JobInv, Steps, Ended, Collecting, Drafted
<1>9. JobInv(j, exists') /\ exists' \in BOOLEAN
  BY <1>5, <1>8
<1>10. JobsInv'
  BY <1>3, <1>5, <1>9, JobsKeep DEF j
<1>11. FilesInv' /\ DatabaseInv'
  BY <1>5, <1>9 DEF SpecInv, DatabaseInv, FilesInv, database
<1> QED
  BY <1>10, <1>11 DEF SpecInv

\* A step that writes one file of an existing folder.
LEMMA FilesKeep ==
    ASSUME FilesInv, exists, exists' = exists, NEW n \in Range(Names), NEW f, FileInv(n, f),
           files' = [files EXCEPT ![n] = f]
    PROVE FilesInv'
BY DEF FilesInv

LEMMA OpenFileSteps ==
    ASSUME SpecInv, NEW c \in Creators, OpenFile(c)
    PROVE SpecInv'
<1> DEFINE i == job[c]
           j == job'[c]
<1>1. job = [k \in Creators |-> job[k]] /\ JobInv(i, exists) /\ exists \in BOOLEAN
  BY DEF SpecInv, JobsInv, DatabaseInv
<1>2. i.step = "open" /\ DraftedInv(i, exists)
  BY <1>1 DEF JobInv, OpenFile, Drafted
<1>3. job' = [k \in Creators |-> job'[k]] /\ \A k \in Creators \ {c} : job'[k] = job[k]
  BY <1>1 DEF OpenFile
<1>4. j = [i EXCEPT !.step = "fill"] /\ files' = [files EXCEPT ![Head(i.left)] = Empty]
  BY <1>1 DEF OpenFile
<1>5. UNCHANGED <<database, exists, edits, starts>>
  BY DEF OpenFile
<1> HIDE DEF i, j
<1>6. exists /\ i.left \in Seq(Range(Names)) /\ i.left # <<>> /\ "left" \in DOMAIN i
  BY <1>2 DEF DraftedInv, Writing
<1>7. DraftedInv(j, exists) /\ j.step = "fill" /\ "step" \in DOMAIN j
  <2>1. /\ j.overwrite = i.overwrite /\ j.found = i.found /\ j.draft = i.draft /\ j.left = i.left /\ j.step = "fill"
        /\ DOMAIN j = DOMAIN i
    BY <1>2, <1>4 DEF DraftedInv
  <2> QED
    BY <1>2, <2>1 DEF DraftedInv, Writing
<1>8. JobInv(j, exists)
  BY <1>7 DEF JobInv, Steps, Ended, Collecting, Drafted
<1>9. JobsInv'
  BY <1>1, <1>3, <1>5, <1>8, JobsKeep DEF j
<1>10. Head(i.left) \in Range(Names)
  BY <1>6
<1>11. FilesInv'
  BY <1>4, <1>5, <1>6, <1>10, FilesKeep DEF FileInv, SpecInv
<1>12. DatabaseInv'
  BY <1>5 DEF SpecInv, DatabaseInv, database
<1> QED
  BY <1>9, <1>11, <1>12 DEF SpecInv

LEMMA FillFileSteps ==
    ASSUME SpecInv, NEW c \in Creators, FillFile(c)
    PROVE SpecInv'
<1> DEFINE i == job[c]
           j == job'[c]
           doc == Rendered(i.draft)[Head(i.left)]
<1>1. job = [k \in Creators |-> job[k]] /\ JobInv(i, exists) /\ exists \in BOOLEAN
  BY DEF SpecInv, JobsInv, DatabaseInv
<1>2. i.step = "fill" /\ DraftedInv(i, exists)
  BY <1>1 DEF JobInv, FillFile, Drafted
<1>3. job' = [k \in Creators |-> job'[k]] /\ \A k \in Creators \ {c} : job'[k] = job[k]
  BY <1>1 DEF FillFile
<1>4. /\ j = IF Len(i.left) = 1 THEN [step |-> "written"] ELSE [i EXCEPT !.left = Tail(i.left), !.step = "open"]
      /\ files' = [files EXCEPT ![Head(i.left)] = doc]
  BY <1>1 DEF FillFile
<1>5. UNCHANGED <<database, exists, edits, starts>>
  BY DEF FillFile
<1> HIDE DEF i, j
<1>6. exists /\ i.left \in Seq(Range(Names)) /\ i.left # <<>> /\ "left" \in DOMAIN i
  BY <1>2 DEF DraftedInv, Writing
<1>7. JobInv(j, exists)
  <2>1. CASE Len(i.left) = 1
    BY <1>4, <2>1 DEF JobInv, Steps, Ended, Collecting, Drafted
  <2>2. CASE Len(i.left) # 1
    <3>1. /\ j.overwrite = i.overwrite /\ j.found = i.found /\ j.draft = i.draft /\ j.left = Tail(i.left)
          /\ j.step = "open" /\ DOMAIN j = DOMAIN i
      BY <1>2, <1>4, <1>6, <2>2 DEF DraftedInv
    <3>2. Tail(i.left) \in Seq(Range(Names)) /\ Tail(i.left) # <<>>
      <4> DEFINE q == i.left
      <4>1. q \in Seq(Range(Names)) /\ q # <<>> /\ Len(q) # 1
        BY <1>6, <2>2
      <4> HIDE DEF q
      <4>2. Tail(q) \in Seq(Range(Names)) /\ Len(Tail(q)) = Len(q) - 1 /\ Len(q) \in Nat /\ Len(q) # 0
        BY <4>1
      <4>3. Tail(q) # <<>>
        <5> SUFFICES ASSUME Tail(q) = <<>> PROVE FALSE
          OBVIOUS
        <5>1. Len(<<>>) = 0
          OBVIOUS
        <5>2. Len(Tail(q)) = 0
          BY <5>1, Zenon
        <5>3. Len(q) - 1 = 0 /\ Len(q) \in Nat
          BY <4>2, <5>2, Zenon
        <5> HIDE DEF q
        <5> QED
          BY <4>1, <5>3
      <4> QED
        BY <4>2, <4>3 DEF q
    <3>3. DraftedInv(j, exists)
      BY <1>2, <3>1, <3>2 DEF DraftedInv, Writing
    <3> QED
      BY <1>2, <3>1, <3>3 DEF JobInv, DraftedInv, Steps, Ended, Collecting, Drafted
  <2> QED
    BY <2>1, <2>2
<1>8. JobsInv'
  BY <1>1, <1>3, <1>5, <1>7, JobsKeep DEF j
<1>9. Head(i.left) \in Range(Names)
  BY <1>6
<1>10. FileInv(Head(i.left), doc)
  <2>1. ValidDocuments(Rendered(i.draft))
    BY <1>2 DEF DraftedInv
  <2> QED
    BY <1>9, <2>1, AcceptedStandsAlone, RenderedAreDocuments DEF FileInv
<1>11. FilesInv'
  BY <1>4, <1>5, <1>6, <1>9, <1>10, FilesKeep DEF SpecInv
<1>12. DatabaseInv'
  BY <1>5 DEF SpecInv, DatabaseInv, database
<1> QED
  BY <1>8, <1>11, <1>12 DEF SpecInv

---------------------------------------------------------------------------
(* The steps of others.                                                     *)

LEMMA ChangeDatabaseSteps ==
    ASSUME SpecInv, ChangeDatabase
    PROVE SpecInv'
<1>1. changes' # 0 /\ changes' \in 0..MaxChanges
  BY SpecModeAssumption DEF ChangeDatabase, SpecInv, DatabaseInv
<1>2. DatabaseInv' /\ FilesInv'
  BY <1>1 DEF ChangeDatabase, SpecInv, DatabaseInv, FilesInv, folder
<1>3. JobsInv'
  BY <1>1 DEF ChangeDatabase, SpecInv, JobsInv, JobInv, CollectInv, DraftedInv, folder
<1> QED
  BY <1>2, <1>3 DEF SpecInv

LEMMA EditFileSteps ==
    ASSUME SpecInv, EditFile
    PROVE SpecInv'
<1>1. PICK n \in Range(Names) : /\ files[n].kind = "document"
                                /\ \E doc \in Edited(files[n]) : files' = [files EXCEPT ![n] = doc]
  BY DEF EditFile
<1>2. PICK doc \in Edited(files[n]) : files' = [files EXCEPT ![n] = doc]
  BY <1>1
<1>3. DOMAIN files = Range(Names) /\ files[n].kind = "document"
  BY <1>1 DEF SpecInv, FilesInv
<1>4. /\ DOMAIN files[n] = {"kind", "lines", "evidence", "defines", "links", "accepts", "edited"}
      /\ files[n].kind = "document"
  <2>1. files[n] \notin {Absent, Empty}
    BY <1>3 DEF Absent, Empty
  <2> QED
    BY <1>3, <2>1 DEF SpecInv, FilesInv, FileInv
<1>5. DOMAIN doc = DOMAIN files[n] /\ doc.kind = "document" /\ doc.edited = TRUE
  BY <1>2, <1>4 DEF Edited
<1>6. FileInv(n, doc)
  BY <1>4, <1>5 DEF FileInv
<1>7. exists /\ exists \in BOOLEAN
  <2>1. \A m \in Range(Names) : NoFiles[m].kind = "absent"
    BY DEF NoFiles, Absent
  <2> QED
    BY <1>3, <2>1 DEF SpecInv, FilesInv, DatabaseInv
<1>8. FilesInv'
  BY <1>2, <1>6, <1>7, FilesKeep DEF EditFile, SpecInv
<1>9. DatabaseInv' /\ JobsInv'
  BY SpecModeAssumption DEF EditFile, SpecInv, DatabaseInv, JobsInv, database
<1> QED
  BY <1>8, <1>9 DEF SpecInv

LEMMA SpecStep == SpecInv /\ [SpecModeNext]_specVars => SpecInv'
<1> SUFFICES ASSUME SpecInv, [SpecModeNext]_specVars PROVE SpecInv'
  OBVIOUS
<1>1. ASSUME NEW c \in Creators,
             \/ Start(c) \/ CollectDocuments(c) \/ Resolve(c) \/ BeginWalk(c) \/ ReadAdjacent(c)
             \/ HandleRelation(c) \/ Report(c) \/ Judge(c) \/ CheckFolder(c) \/ MakeFolder(c)
             \/ OpenFile(c) \/ FillFile(c) \/ Interrupt(c)
      PROVE SpecInv'
  BY <1>1, StartSteps, CollectDocumentsSteps, ResolveSteps, BeginWalkSteps, ReadAdjacentSteps,
     HandleRelationSteps, ReportSteps, JudgeSteps, CheckFolderSteps, MakeFolderSteps, OpenFileSteps, FillFileSteps, InterruptSteps
<1>2. CASE ChangeDatabase
  BY <1>2, ChangeDatabaseSteps
<1>3. CASE EditFile
  BY <1>3, EditFileSteps
<1>4. CASE UNCHANGED specVars
  BY <1>4 DEF specVars, database, folder, SpecInv, DatabaseInv, JobsInv, FilesInv
<1> QED
  BY <1>1, <1>2, <1>3, <1>4 DEF SpecModeNext

LEMMA SpecInvariant == SpecModeSpec => []SpecInv
<1> QED
  BY InitSpec, SpecStep, PTL DEF SpecModeSpec

---------------------------------------------------------------------------
(* The theorems.                                                            *)

\* A job holds a draft only after it was drafted.
LEMMA DraftsAreDrafted ==
    ASSUME SpecInv, NEW c \in Creators, "draft" \in DOMAIN job[c]
    PROVE DraftedInv(job[c], exists)
<1>1. JobInv(job[c], exists)
  BY DEF SpecInv, JobsInv
<1>2. job[c].step \in Drafted
  BY <1>1 DEF JobInv, CollectInv, Steps, Ended, Collecting, Drafted
<1> QED
  BY <1>1, <1>2 DEF JobInv

\* Whatever mixture of creators, users and interruptions wrote the folder, its generated
\* documents cite what they list, and what the search left open is to be confirmed.
THEOREM DocumentsTold == SpecModeSpec => []DocumentsAreTrue
<1>1. ASSUME SpecInv PROVE DocumentsAreTrue
  <2>1. SpecModeTypeOK
    BY <1>1 DEF SpecInv, DatabaseInv, JobsInv, JobInv, FilesInv, SpecModeTypeOK
  <2>2. DocumentsStandAlone
    <3>1. \A f \in {Absent, Empty} : f.kind # "document"
      BY DEF Absent, Empty
    <3> QED
      BY <1>1, <3>1 DEF SpecInv, FilesInv, FileInv, DocumentsStandAlone, StandsAlone
  <2>3. OpenEndsAreToConfirm
    BY <1>1, DraftsAreDrafted DEF OpenEndsAreToConfirm, DraftedInv, DraftInv, EndsInv
  <2> QED
    BY <2>1, <2>2, <2>3 DEF DocumentsAreTrue
<1> QED
  BY <1>1, SpecInvariant, PTL

\* For any requirement, catalogue and commits during the collection, what synthesis and
\* the renderer make the reviewer and the validator accept, but for foreign words.
THEOREM OwnWordsAccepted == SpecModeSpec => []OnlyForeignWordsReject
<1>1. ASSUME SpecInv PROVE OnlyForeignWordsReject
  <2> SUFFICES ASSUME NEW c \in Creators, job[c].step = "rejected" PROVE ~OwnWords(job[c].draft)
    BY DEF OnlyForeignWordsReject, OwnWords
  <2> QED
    BY <1>1 DEF SpecInv, JobsInv, JobInv, Drafted, DraftedInv
<1> QED
  BY <1>1, SpecInvariant, PTL

\* For any number of creators in one folder, a document changes by its user's hand, by
\* --overwrite, or by a command that looked before there was a folder.
THEOREM DocumentsReplacedOnRequest == SpecModeSpec => ReplacedOnRequest
<1> DEFINE A == \A n \in Range(Names) :
        files[n].kind = "document" /\ files'[n] # files[n] =>
            \/ edits' # edits
            \/ \E c \in Creators : job[c] # job'[c] /\ (job[c].overwrite \/ ~job[c].found)
<1>1. ASSUME SpecInv, [SpecModeNext]_specVars PROVE [A]_specVars
  <2>1. ASSUME NEW c \in Creators, OpenFile(c) \/ FillFile(c) PROVE A
    <3>1. JobInv(job[c], exists) /\ job[c].step \in Writing
      BY <1>1, <2>1 DEF SpecInv, JobsInv, OpenFile, FillFile, Writing
    <3>2. job[c].overwrite \/ ~job[c].found
      BY <3>1 DEF JobInv, DraftedInv, Drafted, Writing
    <3>3. job'[c].step # job[c].step
      <4>1. job = [k \in Creators |-> job[k]]
        BY <1>1 DEF SpecInv, JobsInv
      <4>2. "step" \in DOMAIN job[c] /\ "left" \in DOMAIN job[c]
        BY <3>1 DEF JobInv, DraftedInv, Drafted, Writing
      <4>3. CASE OpenFile(c)
        <5>1. job'[c] = [job[c] EXCEPT !.step = "fill"] /\ job[c].step = "open"
          BY <4>1, <4>3 DEF OpenFile
        <5> QED
          BY <4>2, <5>1
      <4>4. CASE FillFile(c)
        <5>1. /\ job[c].step = "fill"
              /\ \/ job'[c] = [step |-> "written"]
                 \/ job'[c] = [job[c] EXCEPT !.left = Tail(job[c].left), !.step = "open"]
          BY <4>1, <4>4 DEF FillFile
        <5>2. CASE job'[c] = [step |-> "written"]
          BY <5>1, <5>2
        <5>3. CASE job'[c] = [job[c] EXCEPT !.left = Tail(job[c].left), !.step = "open"]
          <6> DEFINE k == job[c]
          <6>1. job'[c].step = "open"
            <7> HIDE DEF k
            <7>1. [k EXCEPT !.left = Tail(k.left), !.step = "open"].step = "open"
              BY <4>2 DEF k
            <7> QED
              BY <5>3, <7>1 DEF k
          <6> QED
            BY <5>1, <6>1
        <5> QED
          BY <5>1, <5>2, <5>3
      <4> QED
        BY <2>1, <4>3, <4>4
    <3> QED
      BY <3>2, <3>3
  <2>2. CASE EditFile
    BY <1>1, <2>2, SpecModeAssumption DEF EditFile, SpecInv, DatabaseInv
  <2>3. ASSUME files' = files PROVE A
    BY <2>3
  <2> QED
    BY <1>1, <2>1, <2>2, <2>3 DEF SpecModeNext, specVars, folder, Start, CollectDocuments, Resolve, BeginWalk,
        ReadAdjacent, HandleRelation, Report, Judge, CheckFolder, MakeFolder, Interrupt, ChangeDatabase
<1> QED
  BY <1>1, SpecInvariant, PTL DEF SpecModeSpec, ReplacedOnRequest
=============================================================================
