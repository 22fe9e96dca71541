---------------------------- MODULE PrivacyProofs ----------------------------
(***************************************************************************)
(* What the privacy preflight guarantees for any registry, configurations,   *)
(* number of refreshers and movement of the clock: what is on disk is one    *)
(* download, and a prompt leaves only on evidence that held at its preflight *)
(* or with the user's consent.                                               *)
(***************************************************************************)
EXTENDS Privacy, FiniteSetTheorems, TLAPS

\* What a read of the snapshot gave: nothing, or a download within its life.
Sound(source) ==
    source = NoSource \/
    \E f \in fetched :
        /\ f.payload.valid
        /\ source = [payload |-> f.payload, expires |-> Expiry(f.at, f.payload)]

\* The evidence of a preflight.
Gathered(source, t) ==
    IF t.execution = "remote" THEN OfRegistry(source, t) \cup OfProvider(t) ELSE {}

Envelope(f) ==
    /\ f = [kind |-> "envelope", fetched |-> f.fetched, payload |-> f.payload,
            expires |-> Expiry(f.fetched, f.payload)]
    /\ [at |-> f.fetched, payload |-> f.payload] \in fetched
    /\ f.payload.valid /\ f.fetched < f.expires /\ VerifiedBy(f.payload, f.fetched)

FileInv == file \in {Missing, Garbled} \/ Envelope(file)

RefreshInv ==
    /\ refresh = [r \in Refreshers |-> refresh[r]]
    /\ fetched \subseteq [at : Nat, payload : Publications]
    /\ \A r \in Refreshers :
        \/ refresh[r] = IdleRefresh
        \/ refresh[r].at \in Nat /\ refresh[r] = [step |-> "started", at |-> refresh[r].at]
        \/ /\ refresh[r] = [step |-> "fetched", at |-> refresh[r].at,
                            payload |-> refresh[r].payload]
           /\ [at |-> refresh[r].at, payload |-> refresh[r].payload] \in fetched

AskRecord ==
    [step : {"built", "confirm", "generate", "repair", "ended"},
     config : Configurations, target : {Resolved(c) : c \in Configurations},
     source : {s \in {ask.source} : Sound(s)},
     decision : {"none", "not_applicable", "pass", "warning", "block"},
     evaluated : Nat, accepted : BOOLEAN]

\* A command that may send holds the evidence by which it was let through.
Cleared ==
    /\ ask.decision = Decision(ask.target, Gathered(ask.source, ask.target), ask.evaluated)
    /\ ask.decision \in {"not_applicable", "pass"} \/ (ask.decision = "warning" /\ ask.accepted)

AskInv ==
    \/ ask = IdleAsk
    \/ ask \in AskRecord /\ (ask.step \in {"generate", "repair"} => Cleared)

SentInv == PromisesAreRecent /\ ConsentWhereKept

PrivacyInv == now \in 0..MaxTime /\ FileInv /\ RefreshInv /\ AskInv /\ SentInv

---------------------------------------------------------------------------
(* What the evaluators make of a payload. *)

\* Every cell that applies to a model is a cell of one of the offerings.
LEMMA CellsAreOfferings ==
    ASSUME NEW payload, NEW t, NEW d \in DOMAIN CellsFor(payload, t)
    PROVE  \E o \in payload.offerings : CellsFor(payload, t)[d] \in CellsOf(o)
<1> DEFINE found == OfferingsFor(payload, t)
           offering == CHOOSE o \in found : TRUE
           exceptions == {x \in offering.exceptions : x.model = t.model}
           exception == CHOOSE x \in exceptions : TRUE
           both == [e \in DOMAIN offering.cells \cup DOMAIN exception.cells |->
                        IF e \in DOMAIN exception.cells THEN exception.cells[e]
                        ELSE offering.cells[e]]
<1>1. CellsFor(payload, t) = IF Cardinality(found) # 1 \/ Cardinality(exceptions) > 1 THEN <<>>
                            ELSE IF exceptions = {} THEN offering.cells ELSE both
  BY DEF CellsFor
<1>2. DOMAIN <<>> = {}
  OBVIOUS
<1>3. Cardinality(found) = 1
  BY <1>1, <1>2
<1>4. offering \in payload.offerings
  <2>1. found # {}
    BY <1>3, FS_EmptySet
  <2>2. found \subseteq payload.offerings
    BY DEF OfferingsFor
  <2> QED
    BY <2>1, <2>2
<1>5. CASE exceptions = {}
  <2>1. CellsFor(payload, t) = offering.cells
    BY <1>1, <1>2, <1>5
  <2>2. offering.cells[d] \in CellsOf(offering)
    BY <2>1 DEF CellsOf
  <2> QED
    BY <1>4, <2>1, <2>2
<1>6. CASE exceptions # {}
  <2>1. CellsFor(payload, t) = both
    BY <1>1, <1>2, <1>6
  <2>2. exception \in offering.exceptions
    BY <1>6
  <2>3. both[d] \in CellsOf(offering)
    <3>1. CASE d \in DOMAIN exception.cells
      <4>1. both[d] = exception.cells[d]
        BY <2>1, <3>1
      <4>2. exception.cells[d] \in {exception.cells[e] : e \in DOMAIN exception.cells}
        BY <3>1
      <4> DEFINE of(x) == {x.cells[e] : e \in DOMAIN x.cells}
      <4>3. of(exception) \in {of(x) : x \in offering.exceptions}
        BY <2>2, ZenonT(30)
      <4>4. exception.cells[d] \in of(exception)
        BY <4>2
      <4>5. exception.cells[d] \in UNION {of(x) : x \in offering.exceptions}
        <5> HIDE DEF of, exception, offering
        <5> QED
          BY <4>3, <4>4
      <4> QED
        BY <4>1, <4>5 DEF CellsOf
    <3>2. CASE d \notin DOMAIN exception.cells
      BY <2>1, <2>2, <3>2 DEF CellsOf
    <3> QED
      BY <3>1, <3>2
  <2> QED
    BY <1>4, <2>1, <2>3
<1> QED
  BY <1>5, <1>6

\* When training is what the cells promise, it is what the payload promises.
LEMMA CellsPromise ==
    ASSUME NEW p \in Publications, NEW t, t.offering # "none",
           "training" \in DOMAIN CellsFor(p, t),
           CellsFor(p, t)["training"].value = "yes_public"
    PROVE  Promises(p, t)
<1> DEFINE found == OfferingsFor(p, t)
           offering == CHOOSE o \in found : TRUE
           exceptions == {x \in offering.exceptions : x.model = t.model}
           exception == CHOOSE x \in exceptions : TRUE
           both == [e \in DOMAIN offering.cells \cup DOMAIN exception.cells |->
                        IF e \in DOMAIN exception.cells THEN exception.cells[e]
                        ELSE offering.cells[e]]
<1>1. CellsFor(p, t) = IF Cardinality(found) # 1 \/ Cardinality(exceptions) > 1 THEN <<>>
                      ELSE IF exceptions = {} THEN offering.cells ELSE both
  BY DEF CellsFor
<1>2. DOMAIN <<>> = {}
  OBVIOUS
<1>3. Cardinality(found) = 1 /\ ~(Cardinality(exceptions) > 1)
  BY <1>1, <1>2
<1>4. offering \in found
  BY <1>3, FS_EmptySet
<1>5. offering \in p.offerings /\ offering.developer = t.provider /\ offering.id = t.offering
  BY <1>4 DEF OfferingsFor
<1>6. \A x, y \in exceptions : x = y
  <2>1. IsFiniteSet(exceptions)
    BY <1>5, PublicationsAssumption, FS_Subset
  <2>2. Cardinality(exceptions) \in {0, 1}
    BY <1>3, <2>1, FS_CardinalityType
  <2> QED
    BY <2>1, <2>2, FS_EmptySet, FS_Singleton
<1>7. CASE exceptions = {}
  <2>1. CellsFor(p, t) = offering.cells
    BY <1>1, <1>3, <1>7
  <2> QED
    BY <1>5, <1>7, <2>1 DEF Promises
<1>8. CASE exceptions # {}
  <2>1. CellsFor(p, t) = both
    BY <1>1, <1>3, <1>8
  <2>2. exception \in exceptions
    BY <1>8
  <2>3. \A x \in offering.exceptions :
            x.model = t.model /\ "training" \in DOMAIN x.cells => x.cells["training"].value = "yes_public"
    BY <1>6, <2>1, <2>2
  <2>4. \/ "training" \in DOMAIN offering.cells /\ offering.cells["training"].value = "yes_public"
        \/ \E x \in offering.exceptions : x.model = t.model /\ "training" \in DOMAIN x.cells
    BY <2>1, <2>2
  <2> QED
    BY <1>5, <2>3, <2>4 DEF Promises
<1> QED
  BY <1>7, <1>8

\* The registry never gives zero retention to everybody, and its evidence ends with the
\* snapshot.
LEMMA RegistryEvidence ==
    ASSUME NEW source, NEW t, NEW e \in OfRegistry(source, t), ~e.conditional
    PROVE  /\ e.value = "guaranteed" /\ e.constraint = "no_training" /\ e.until = source.expires
           /\ "training" \in DOMAIN CellsFor(source.payload, t)
           /\ CellsFor(source.payload, t)["training"].value = "yes_public"
<1> DEFINE cells == CellsFor(source.payload, t)
<1>1. PICK d \in DOMAIN cells : e \in Normalized(d, cells[d], source.expires)
  BY DEF OfRegistry
<1>2. d = "training" /\ cells[d].value = "yes_public"
      /\ e = Evidence("no_training", "guaranteed", cells[d].verified, source.expires, FALSE)
  BY <1>1 DEF Normalized, Evidence
<1> QED
  BY <1>1, <1>2 DEF Evidence

\* A source that promises is a download.
LEMMA SourceWasFetched ==
    ASSUME NEW source, Sound(source), NEW t, NEW e \in OfRegistry(source, t), ~e.conditional,
           t.offering # "none", RefreshInv, NEW at \in Nat, at < e.until
    PROVE  \E f \in fetched :
               /\ at < f.at + TTL
               /\ f.payload.expires # 0 => at < f.payload.expires
               /\ f.payload.valid /\ Promises(f.payload, t)
<1>1. /\ e.until = source.expires /\ "training" \in DOMAIN CellsFor(source.payload, t)
      /\ CellsFor(source.payload, t)["training"].value = "yes_public"
  BY RegistryEvidence
<1>2. source # NoSource
  <2> SUFFICES ASSUME source = NoSource PROVE FALSE
    OBVIOUS
  <2>1. PICK o \in source.payload.offerings :
            CellsFor(source.payload, t)["training"] \in CellsOf(o)
    BY <1>1, CellsAreOfferings
  <2> QED
    BY <2>1 DEF NoSource
<1>3. PICK f \in fetched :
          /\ f.payload.valid
          /\ source = [payload |-> f.payload, expires |-> Expiry(f.at, f.payload)]
  BY <1>2 DEF Sound
<1>4. f.at \in Nat /\ f.payload \in Publications /\ f.payload.expires \in Nat /\ TTL \in Nat
  BY PrivacyAssumption DEF RefreshInv
<1>5. Promises(f.payload, t)
  BY <1>1, <1>3, <1>4, CellsPromise
<1>6. at < Expiry(f.at, f.payload)
  BY <1>1, <1>3
<1>7. at < f.at + TTL /\ (f.payload.expires # 0 => at < f.payload.expires)
  BY <1>4, <1>6 DEF Expiry
<1> QED
  BY <1>3, <1>5, <1>7

\* Where a model runs.
LEMMA TargetOf ==
    ASSUME NEW c \in Configurations
    PROVE  Resolved(c).execution = "remote" =>
               \/ Resolved(c).platform = "ollama_cloud"
               \/ Resolved(c).provider = "anthropic" /\ Resolved(c).offering = "anthropic-api"
  BY PrivacyAssumption DEF Resolved, Target

\* What a command that was cleared may say of the prompt it sends.
LEMMA ClearedIsPromised ==
    ASSUME AskInv, RefreshInv, ask.step \in {"generate", "repair"}, ask.target.execution = "remote"
    PROVE  /\ ask.target.platform # "ollama_cloud" =>
                \E f \in fetched :
                    /\ ask.evaluated < f.at + TTL
                    /\ f.payload.expires # 0 => ask.evaluated < f.payload.expires
                    /\ f.payload.valid /\ Promises(f.payload, ask.target)
           /\ ~ask.accepted =>
                /\ ask.target.platform = "ollama_cloud"
                /\ OfficialFrom <= ask.evaluated /\ ask.evaluated < OfficialUntil
<1> DEFINE t == ask.target
           evidence == Gathered(ask.source, t)
<1>1. ask \in AskRecord /\ Cleared
  BY DEF AskInv, IdleAsk
<1>2. PICK c \in Configurations : t = Resolved(c)
  BY <1>1 DEF AskRecord
<1>3. evidence = OfRegistry(ask.source, t) \cup OfProvider(t) /\ ask.evaluated \in Nat
      /\ Sound(ask.source)
  BY <1>1 DEF Gathered, AskRecord
<1>4. NoTrainingPasses(evidence, ask.evaluated)
  BY <1>1 DEF Cleared, Decision
<1>5. t.platform # "ollama_cloud" => OfProvider(t) = {} /\ t.offering # "none"
  BY <1>2, TargetOf DEF OfProvider
<1>6. ASSUME t.platform # "ollama_cloud"
      PROVE  \E f \in fetched :
                 /\ ask.evaluated < f.at + TTL
                 /\ f.payload.expires # 0 => ask.evaluated < f.payload.expires
                 /\ f.payload.valid /\ Promises(f.payload, t)
  <2>1. "guaranteed" \in Values(evidence, "no_training", ask.evaluated)
    BY <1>4 DEF NoTrainingPasses
  <2>2. PICK e \in evidence : ask.evaluated < e.until /\ ~e.conditional
    BY <2>1 DEF Values
  <2>3. e \in OfRegistry(ask.source, t)
    BY <1>3, <1>5, <1>6, <2>2
  <2> QED
    BY <1>3, <1>5, <1>6, <2>2, <2>3, SourceWasFetched
<1>7. ASSUME ~ask.accepted
      PROVE  /\ t.platform = "ollama_cloud"
             /\ OfficialFrom <= ask.evaluated /\ ask.evaluated < OfficialUntil
  <2>1. RetentionPasses(evidence, ask.evaluated)
    BY <1>1, <1>7 DEF Cleared, Decision
  <2>2. PICK e \in evidence : /\ e.constraint = "retention" /\ e.value = "zdr"
                              /\ e.from <= ask.evaluated /\ ask.evaluated < e.until
                              /\ ~e.conditional
    BY <2>1 DEF RetentionPasses, Values
  <2>3. e \in OfProvider(t)
    BY <1>3, <2>2, RegistryEvidence
  <2> QED
    BY <2>2, <2>3 DEF OfProvider, Evidence
<1> QED
  BY <1>6, <1>7

\* A destination that is not known is never cleared.
LEMMA UnknownIsBlocked ==
    ASSUME AskInv, ask.step \in {"generate", "repair"}
    PROVE  ask.target.execution # "unknown"
  BY DEF AskInv, IdleAsk, Cleared, Decision

---------------------------------------------------------------------------
(* Induction. *)

\* Whoever downloads, nothing that was fetched is forgotten.
LEMMA FetchedGrows ==
    ASSUME fetched \subseteq fetched', UNCHANGED <<ask, sent, file>>, AskInv, SentInv, FileInv
    PROVE  AskInv' /\ SentInv' /\ FileInv'
<1>1. FileInv'
  BY DEF FileInv, Envelope
<1>2. AskInv'
  BY DEF AskInv, AskRecord, Sound, Cleared
<1>3. SentInv'
  BY DEF SentInv, PromisesAreRecent, ConsentWhereKept
<1> QED
  BY <1>1, <1>2, <1>3

LEMMA StartRefreshStep ==
    ASSUME PrivacyInv, NEW r \in Refreshers, StartRefresh(r) \/ FailRefresh(r)
    PROVE  PrivacyInv'
<1>1. UNCHANGED <<now, file, fetched, ask, sent>>
  BY DEF StartRefresh, FailRefresh
<1>2. now \in Nat
  BY PrivacyAssumption DEF PrivacyInv
<1>3. RefreshInv'
  <2>1. refresh = [q \in Refreshers |-> refresh[q]]
    BY DEF PrivacyInv, RefreshInv
  <2>2. CASE StartRefresh(r)
    BY <1>1, <1>2, <2>1, <2>2 DEF StartRefresh, PrivacyInv, RefreshInv
  <2>3. CASE FailRefresh(r)
    BY <1>1, <2>1, <2>3 DEF FailRefresh, PrivacyInv, RefreshInv
  <2> QED
    BY <2>2, <2>3
<1> QED
  BY <1>1, <1>3, FetchedGrows DEF PrivacyInv

LEMMA FetchStep ==
    ASSUME PrivacyInv, NEW r \in Refreshers, Fetch(r)
    PROVE  PrivacyInv'
<1>1. PICK p \in Publications :
        /\ fetched' = fetched \cup {[at |-> refresh[r].at, payload |-> p]}
        /\ refresh' = [refresh EXCEPT ![r] = [step |-> "fetched", at |-> @.at, payload |-> p]]
  BY DEF Fetch
<1>2. UNCHANGED <<now, file, ask, sent>> /\ refresh[r].step = "started"
  BY DEF Fetch
<1>3. refresh[r].at \in Nat
  <2>1. CASE refresh[r] = IdleRefresh
    BY <1>2, <2>1 DEF IdleRefresh
  <2>2. CASE refresh[r] = [step |-> "fetched", at |-> refresh[r].at, payload |-> refresh[r].payload]
    <3> DEFINE copy == [step |-> "fetched", at |-> refresh[r].at, payload |-> refresh[r].payload]
    <3>1. copy.step = "fetched"
      OBVIOUS
    <3>2. refresh[r] = copy
      BY <2>2
    <3> HIDE DEF copy
    <3> QED
      BY <1>2, <3>1, <3>2
  <2> QED
    BY <2>1, <2>2 DEF PrivacyInv, RefreshInv
<1>4. RefreshInv'
  <2>1. refresh = [q \in Refreshers |-> refresh[q]]
    BY DEF PrivacyInv, RefreshInv
  <2>2. fetched' \subseteq [at : Nat, payload : Publications]
    BY <1>1, <1>3 DEF PrivacyInv, RefreshInv
  <2>3. refresh' = [q \in Refreshers |-> refresh'[q]]
    BY <1>1, <2>1
  <2>4. refresh'[r] = [step |-> "fetched", at |-> refresh[r].at, payload |-> p]
    BY <1>1, <2>1
  <2>5. \A q \in Refreshers \ {r} : refresh'[q] = refresh[q]
    BY <1>1, <2>1
  <2>6. fetched \subseteq fetched' /\ [at |-> refresh[r].at, payload |-> p] \in fetched'
    BY <1>1
  <2> QED
    BY <2>2, <2>3, <2>4, <2>5, <2>6 DEF PrivacyInv, RefreshInv
<1> QED
  BY <1>1, <1>2, <1>4, FetchedGrows DEF PrivacyInv

LEMMA ReplaceStep ==
    ASSUME PrivacyInv, NEW r \in Refreshers, Replace(r)
    PROVE  PrivacyInv'
<1>1. /\ UNCHANGED <<now, fetched, ask, sent>> /\ refresh[r].step = "fetched"
      /\ file' = [kind |-> "envelope", fetched |-> refresh[r].at, payload |-> refresh[r].payload,
                  expires |-> Expiry(refresh[r].at, refresh[r].payload)]
  BY DEF Replace
<1>2. [at |-> refresh[r].at, payload |-> refresh[r].payload] \in fetched
  BY <1>1 DEF PrivacyInv, RefreshInv, IdleRefresh
<1>3. FileInv'
  BY <1>1, <1>2 DEF FileInv, Envelope, Replace, Acceptable
<1>4. RefreshInv'
  BY <1>1 DEF Replace, PrivacyInv, RefreshInv
<1>5. AskInv' /\ SentInv'
  BY <1>1 DEF PrivacyInv, AskInv, AskRecord, Sound, Cleared, SentInv, PromisesAreRecent,
              ConsentWhereKept
<1> QED
  BY <1>1, <1>3, <1>4, <1>5 DEF PrivacyInv

LEMMA BuildStep ==
    ASSUME PrivacyInv, Build
    PROVE  PrivacyInv'
<1>1. PICK c \in Configurations :
        ask' = [step |-> "built", config |-> c, target |-> Resolved(c),
                source |-> SourceOf(file, now),
                decision |-> "none", evaluated |-> now, accepted |-> FALSE]
  BY DEF Build
<1>2. UNCHANGED <<now, file, refresh, fetched>> /\ sent' = {}
  BY DEF Build, cacheVars
<1>3. Sound(SourceOf(file, now))
  <2>1. CASE ReadStatus(file, now) = "valid"
    <3>1. Envelope(file)
      BY <2>1 DEF PrivacyInv, FileInv, ReadStatus, Missing, Garbled
    <3>2. SourceOf(file, now)
            = [payload |-> file.payload, expires |-> Expiry(file.fetched, file.payload)]
      BY <2>1, <3>1 DEF SourceOf, Envelope
    <3> DEFINE f == [at |-> file.fetched, payload |-> file.payload]
    <3>3. f \in fetched /\ f.payload.valid
      BY <3>1 DEF Envelope
    <3> QED
      BY <3>2, <3>3 DEF Sound
  <2>2. CASE ReadStatus(file, now) # "valid"
    BY <2>2 DEF SourceOf, Sound
  <2> QED
    BY <2>1, <2>2
<1>4. now \in Nat
  BY PrivacyAssumption DEF PrivacyInv
<1>5. AskInv'
  BY <1>1, <1>2, <1>3, <1>4 DEF AskInv, AskRecord, Sound
<1>6. FileInv' /\ RefreshInv' /\ SentInv'
  BY <1>2 DEF PrivacyInv, FileInv, Envelope, RefreshInv, SentInv, PromisesAreRecent,
              ConsentWhereKept
<1> QED
  BY <1>2, <1>5, <1>6 DEF PrivacyInv

LEMMA AuthorizeStep ==
    ASSUME PrivacyInv, Authorize
    PROVE  PrivacyInv'
<1> DEFINE decision == Decision(ask.target, Gathered(ask.source, ask.target), now)
           next == CASE decision = "block" -> "ended"
                     [] decision = "warning" /\ ~ask.accepted -> "confirm"
                     [] OTHER -> "generate"
<1>1. UNCHANGED <<now, file, refresh, fetched, sent>> /\ ask.step = "built"
  BY DEF Authorize, cacheVars
<1>2. ask' = [ask EXCEPT !.decision = decision, !.evaluated = now, !.step = next]
  BY DEF Authorize, Gathered
<1>3. ask \in AskRecord /\ now \in Nat
  BY <1>1, PrivacyAssumption DEF PrivacyInv, AskInv, IdleAsk
<1>4. decision \in {"not_applicable", "pass", "warning", "block"}
  BY DEF Decision
<1>5. /\ ask'.step = next /\ ask'.decision = decision /\ ask'.evaluated = now
      /\ ask'.target = ask.target /\ ask'.source = ask.source /\ ask'.accepted = ask.accepted
      /\ ask'.config = ask.config
  BY <1>2, <1>3 DEF AskRecord
<1>6. ask' \in AskRecord'
  <2> HIDE DEF decision
  <2> QED
    BY <1>1, <1>2, <1>3, <1>4, <1>5 DEF AskRecord, Sound
<1>7. ask'.step = "generate" =>
        decision \in {"not_applicable", "pass"} \/ (decision = "warning" /\ ask.accepted)
  BY <1>4, <1>5
<1>8. Cleared' <=>
        /\ ask'.decision = Decision(ask'.target, Gathered(ask'.source, ask'.target), ask'.evaluated)
        /\ ask'.decision \in {"not_applicable", "pass"}
              \/ (ask'.decision = "warning" /\ ask'.accepted)
  BY DEF Cleared
<1>9. ask'.step \in {"generate", "repair"} => Cleared'
  BY <1>5, <1>7, <1>8
<1>10. AskInv'
  BY <1>6, <1>9 DEF AskInv
<1>11. FileInv' /\ RefreshInv' /\ SentInv'
  BY <1>1 DEF PrivacyInv, FileInv, Envelope, RefreshInv, SentInv, PromisesAreRecent,
              ConsentWhereKept
<1> QED
  BY <1>1, <1>10, <1>11 DEF PrivacyInv

LEMMA ConfirmStep ==
    ASSUME PrivacyInv, Confirm
    PROVE  PrivacyInv'
<1>1. UNCHANGED <<now, file, refresh, fetched, sent>> /\ ask.step = "confirm"
  BY DEF Confirm, cacheVars
<1>2. ask \in AskRecord
  BY <1>1 DEF PrivacyInv, AskInv, IdleAsk
<1>3. PICK yes \in BOOLEAN :
        ask' = [ask EXCEPT !.accepted = yes, !.step = IF yes THEN "built" ELSE "ended"]
  BY DEF Confirm
<1>4. ask'.step \in {"built", "ended"} /\ ask'.source = ask.source
  BY <1>2, <1>3 DEF AskRecord
<1>5. ask' \in AskRecord'
  BY <1>1, <1>2, <1>3, <1>4 DEF AskRecord, Sound
<1>6. FileInv' /\ RefreshInv' /\ SentInv'
  BY <1>1 DEF PrivacyInv, FileInv, Envelope, RefreshInv, SentInv, PromisesAreRecent,
              ConsentWhereKept
<1> QED
  BY <1>1, <1>4, <1>5, <1>6 DEF PrivacyInv, AskInv

LEMMA SendStep ==
    ASSUME PrivacyInv, Send
    PROVE  PrivacyInv'
<1> DEFINE m == [stage |-> ask.step, target |-> ask.target, evaluated |-> ask.evaluated,
                 accepted |-> ask.accepted]
<1>1. /\ UNCHANGED <<now, file, refresh, fetched>> /\ ask.step \in {"generate", "repair"}
      /\ sent' = sent \cup {m}
  BY DEF Send, cacheVars
<1>2. ask \in AskRecord /\ Cleared
  BY <1>1 DEF PrivacyInv, AskInv, IdleAsk
<1>3. PICK next \in {"repair", "ended"} : ask' = [ask EXCEPT !.step = next]
  BY DEF Send
<1>4. AskInv'
  <2>1. /\ ask'.source = ask.source /\ ask'.target = ask.target /\ ask'.decision = ask.decision
        /\ ask'.evaluated = ask.evaluated /\ ask'.accepted = ask.accepted
    BY <1>2, <1>3 DEF AskRecord
  <2>2. ask' \in AskRecord'
    BY <1>1, <1>2, <1>3, <2>1 DEF AskRecord, Sound
  <2>3. Cleared'
    BY <1>2, <2>1 DEF Cleared
  <2> QED
    BY <2>2, <2>3 DEF AskInv
<1>5. SentInv'
  <2>1. AskInv /\ RefreshInv
    BY DEF PrivacyInv
  <2>2. PromisesAreRecent'
    <3>1. m.target.execution = "remote" /\ m.target.platform # "ollama_cloud" =>
            \E f \in fetched :
                /\ m.evaluated < f.at + TTL
                /\ f.payload.expires # 0 => m.evaluated < f.payload.expires
                /\ f.payload.valid /\ Promises(f.payload, m.target)
      BY <1>1, <2>1, ClearedIsPromised
    <3> QED
      BY <1>1, <3>1 DEF PrivacyInv, SentInv, PromisesAreRecent
  <2>3. ConsentWhereKept'
    <3>1. /\ m.target.execution # "unknown"
          /\ m.target.execution = "remote" /\ ~m.accepted =>
                /\ m.target.platform = "ollama_cloud"
                /\ OfficialFrom <= m.evaluated /\ m.evaluated < OfficialUntil
      BY <1>1, <2>1, ClearedIsPromised, UnknownIsBlocked
    <3> QED
      BY <1>1, <3>1 DEF PrivacyInv, SentInv, ConsentWhereKept
  <2> QED
    BY <2>2, <2>3 DEF SentInv
<1>6. FileInv' /\ RefreshInv'
  BY <1>1 DEF PrivacyInv, FileInv, Envelope, RefreshInv
<1> QED
  BY <1>1, <1>4, <1>5, <1>6 DEF PrivacyInv

LEMMA OtherSteps ==
    ASSUME PrivacyInv, EndAsk \/ World \/ UNCHANGED privacyVars
    PROVE  PrivacyInv'
<1>1. CASE EndAsk
  BY <1>1 DEF EndAsk, cacheVars, PrivacyInv, FileInv, Envelope, RefreshInv, AskInv, SentInv,
              PromisesAreRecent, ConsentWhereKept
<1>2. CASE MoveClock
  BY <1>2 DEF MoveClock, cacheVars, PrivacyInv, FileInv, Envelope, RefreshInv, AskInv,
              AskRecord, Sound, Cleared, SentInv, PromisesAreRecent, ConsentWhereKept
<1>3. CASE Damage
  BY <1>3 DEF Damage, PrivacyInv, FileInv, Envelope, RefreshInv, AskInv,
              AskRecord, Sound, Cleared, SentInv, PromisesAreRecent, ConsentWhereKept
<1>4. CASE UNCHANGED privacyVars
  BY <1>4 DEF privacyVars, cacheVars, PrivacyInv, FileInv, Envelope, RefreshInv, AskInv,
              AskRecord, Sound, Cleared, SentInv, PromisesAreRecent, ConsentWhereKept
<1> QED
  BY <1>1, <1>2, <1>3, <1>4 DEF World

LEMMA PrivacyInduction == PrivacySpec => []PrivacyInv
<1>1. PrivacyInit => PrivacyInv
  <2> SUFFICES ASSUME PrivacyInit PROVE PrivacyInv
    OBVIOUS
  <2>1. now \in 0..MaxTime
    BY PrivacyAssumption DEF PrivacyInit
  <2> QED
    BY <2>1 DEF PrivacyInit, PrivacyInv, FileInv, RefreshInv, AskInv, SentInv,
                PromisesAreRecent, ConsentWhereKept
<1>2. PrivacyInv /\ [PrivacyNext]_privacyVars => PrivacyInv'
  <2> SUFFICES ASSUME PrivacyInv, [PrivacyNext]_privacyVars PROVE PrivacyInv'
    OBVIOUS
  <2>1. CASE \E r \in Refreshers : Refresh(r)
    BY <2>1, StartRefreshStep, FetchStep, ReplaceStep DEF Refresh
  <2>2. CASE AskPrivately
    BY <2>2, BuildStep, AuthorizeStep, ConfirmStep, SendStep, OtherSteps DEF AskPrivately
  <2>3. CASE World \/ UNCHANGED privacyVars
    BY <2>3, OtherSteps
  <2> QED
    BY <2>1, <2>2, <2>3 DEF PrivacyNext
<1> QED
  BY <1>1, <1>2, PTL DEF PrivacySpec

---------------------------------------------------------------------------
(* The theorems. *)

\* PromisesAreRecent: for any registry and clock, a prompt goes to a provider only on a
\* promise that some download found, within its TTL and its own expiry at the preflight.
THEOREM Promised == PrivacySpec => []PromisesAreRecent
<1>1. PrivacyInv => PromisesAreRecent
  BY DEF PrivacyInv, SentInv
<1> QED
  BY <1>1, PrivacyInduction, PTL

\* ConsentWhereKept: without the user's consent a prompt goes only to the local runtime
\* or where the policy that the code carries says that nothing is kept, while it holds.
THEOREM Consented == PrivacySpec => []ConsentWhereKept
<1>1. PrivacyInv => ConsentWhereKept
  BY DEF PrivacyInv, SentInv
<1> QED
  BY <1>1, PrivacyInduction, PTL

\* SnapshotsAreSound: what is on disk is one download, whole, that can be read and looked
\* up for as long as it says, however refreshers overlap and whatever damages the file.
THEOREM WholeSnapshots == PrivacySpec => []SnapshotsAreSound
<1>1. PrivacyInv => SnapshotsAreSound
  <2> SUFFICES ASSUME PrivacyInv PROVE SnapshotsAreSound
    OBVIOUS
  <2>1. PrivacyTypeOK
    <3>1. file.kind \in {"missing", "garbled", "envelope"}
      BY DEF PrivacyInv, FileInv, Envelope, Missing, Garbled
    <3>2. file.kind = "envelope" => file.payload \in Publications /\ file.fetched < file.expires
      BY DEF PrivacyInv, FileInv, RefreshInv, Envelope, Missing, Garbled
    <3>3. ask.step \in {"idle", "built", "confirm", "generate", "repair", "ended"}
      BY DEF PrivacyInv, AskInv, AskRecord, IdleAsk
    <3>4. ask.step \in {"generate", "repair"} =>
            ask.decision \in {"not_applicable", "pass"} \/ (ask.decision = "warning" /\ ask.accepted)
      BY DEF PrivacyInv, AskInv, Cleared, IdleAsk
    <3> QED
      BY <3>1, <3>2, <3>3, <3>4 DEF PrivacyInv, PrivacyTypeOK
  <2>2. file.kind = "envelope" =>
          /\ Envelope(file) /\ file.fetched \in Nat /\ file.payload \in Publications
          /\ file.payload.expires \in Nat /\ TTL \in Nat /\ file.expires \in Nat
          /\ file.expires = Expiry(file.fetched, file.payload)
    <3> SUFFICES ASSUME file.kind = "envelope"
                 PROVE  /\ Envelope(file) /\ file.fetched \in Nat /\ file.payload \in Publications
                        /\ file.payload.expires \in Nat /\ TTL \in Nat /\ file.expires \in Nat
                        /\ file.expires = Expiry(file.fetched, file.payload)
      OBVIOUS
    <3>1. Envelope(file)
      BY DEF PrivacyInv, FileInv, Missing, Garbled
    <3>2. file.fetched \in Nat /\ file.payload \in Publications
      BY <3>1 DEF PrivacyInv, RefreshInv, Envelope
    <3>3. file.payload.expires \in Nat /\ TTL \in Nat
      BY <3>2, PrivacyAssumption
    <3>4. file.expires = Expiry(file.fetched, file.payload)
      BY <3>1 DEF Envelope
    <3>5. file.expires \in Nat
      BY <3>2, <3>3, <3>4 DEF Expiry
    <3> QED
      BY <3>1, <3>2, <3>3, <3>4, <3>5
  <2>3. SnapshotsAnswer
    <3> SUFFICES ASSUME file.kind = "envelope", NEW t \in file.fetched..(file.expires - 1)
                 PROVE  /\ ReadStatus(file, t) = "valid"
                        /\ \A c \in Configurations : ~LookupRaises(SourceOf(file, t), Resolved(c))
      BY DEF SnapshotsAnswer
    <3>1. t \in Int /\ file.fetched <= t /\ t < file.expires /\ VerifiedBy(file.payload, file.fetched)
      BY <2>2 DEF Envelope
    <3>2. ReadStatus(file, t) = "valid"
      BY <2>2, <3>1 DEF ReadStatus
    <3>3. SourceOf(file, t) = [payload |-> file.payload, expires |-> file.expires]
      BY <3>2 DEF SourceOf
    <3>4. ASSUME NEW c \in Configurations, LookupRaises(SourceOf(file, t), Resolved(c))
          PROVE  FALSE
      <4>1. PICK d \in DOMAIN CellsFor(file.payload, Resolved(c)) :
                file.expires <= CellsFor(file.payload, Resolved(c))[d].verified
        BY <3>3, <3>4 DEF LookupRaises
      <4>2. PICK o \in file.payload.offerings :
                CellsFor(file.payload, Resolved(c))[d] \in CellsOf(o)
        BY CellsAreOfferings
      <4>3. /\ CellsFor(file.payload, Resolved(c))[d].verified <= file.fetched
            /\ CellsFor(file.payload, Resolved(c))[d].verified \in Nat
        BY <2>2, <3>1, <4>2, PublicationsAssumption DEF VerifiedBy
      <4> QED
        BY <2>2, <3>1, <4>1, <4>3 DEF Envelope
    <3> QED
      BY <3>2, <3>4
  <2>4. SnapshotsAreWhole
    <3> SUFFICES ASSUME file.kind = "envelope"
                 PROVE  /\ [at |-> file.fetched, payload |-> file.payload] \in fetched
                        /\ file.payload.valid
                        /\ file.expires <= file.fetched + TTL
                        /\ file.payload.expires # 0 => file.expires <= file.payload.expires
      BY DEF SnapshotsAreWhole
    <3> QED
      BY <2>2 DEF Envelope, Expiry
  <2> QED
    BY <2>1, <2>3, <2>4 DEF SnapshotsAreSound
<1> QED
  BY <1>1, PrivacyInduction, PTL
=============================================================================
