------------------------------ MODULE Privacy ------------------------------
(***************************************************************************)
(* Whether a prompt may leave the machine: the snapshot of the public        *)
(* registry that `privacy refresh` keeps, and the preflight of `ask`, which  *)
(* reads it once, judges its evidence later and may send twice               *)
(* (application/privacy.py, domain/privacy.py, infrastructure/privacy_*.py,  *)
(* cli.py).  Dates are numbers; clocks may be set back.                      *)
(***************************************************************************)
EXTENDS Integers, FiniteSets

CONSTANTS
    Configurations,     \* [provider, direct, declared, model] of settings.llm
    Publications,       \* payloads that the registry may serve at some time
    Refreshers,         \* processes of `privacy refresh`
    TTL,
    OfficialFrom, OfficialUntil,    \* the policy of Ollama Cloud that the code carries
    MaxTime,            \* bound: the clock
    MaxDownloads,       \* bound: downloads of the registry
    MaxMoves            \* bound: how often it moves

ASSUME PrivacyAssumption ==
    /\ {TTL, OfficialFrom, OfficialUntil, MaxTime, MaxMoves} \subseteq Nat
    /\ TTL > 0 /\ OfficialFrom < OfficialUntil /\ MaxTime > 0
    /\ \A c \in Configurations :
        /\ c.provider \in {"anthropic", "ollama", "other"}
        /\ c.direct \in BOOLEAN /\ c.declared \in {"auto", "local", "remote"}
    /\ \A p \in Publications : p.valid \in BOOLEAN /\ p.expires \in Nat

VARIABLES
    now, moves,
    file,           \* the snapshot on disk
    refresh,        \* [Refreshers -> record]
    ask,            \* the one ask command
    sent,           \* prompts of this ask
    fetched         \* every download so far: [at, payload]

cacheVars == <<file, refresh, fetched>>
privacyVars == <<now, moves, cacheVars, ask, sent>>

Missing == [kind |-> "missing"]
Garbled == [kind |-> "garbled"]
NoSource == [payload |-> [offerings |-> {}], expires |-> 0]
IdleAsk == [step |-> "idle"]
IdleRefresh == [step |-> "idle"]

PrivacyInit ==
    /\ now = 1 /\ moves = 0
    /\ file = Missing
    /\ refresh = [r \in Refreshers |-> IdleRefresh]
    /\ ask = IdleAsk /\ sent = {} /\ fetched = {}

---------------------------------------------------------------------------
(* Where the model runs.                                                    *)

Target(execution, provider, platform, offering, model) ==
    [execution |-> execution, provider |-> provider, platform |-> platform,
     offering |-> offering, model |-> model]

Contradictory(c) == c.provider = "ollama" /\ c.direct /\ c.declared = "local"

\* resolve_inference_target: a local daemon proves nothing, it may offload to the cloud.
Resolved(c) ==
    CASE c.provider = "anthropic" ->
            Target("remote", "anthropic", "direct_api", "anthropic-api", c.model)
      [] c.provider = "ollama" /\ (c.direct \/ c.declared = "remote") ->
            Target("remote", "ollama", "ollama_cloud", "none", c.model)
      [] c.provider = "ollama" /\ ~c.direct /\ c.declared = "local" ->
            Target("local", "ollama", "local_runtime", "none", c.model)
      [] OTHER -> Target("unknown", c.provider, "none", "none", c.model)

---------------------------------------------------------------------------
(* The registry snapshot: offerings with cells, a cell being                *)
(* [value, high, verified], and exceptions that replace cells of a model.    *)

CellsOf(o) ==
    {o.cells[d] : d \in DOMAIN o.cells}
    \cup UNION {{x.cells[d] : d \in DOMAIN x.cells} : x \in o.exceptions}

ASSUME PublicationsAssumption ==
    \A p \in Publications : \A o \in p.offerings :
        IsFiniteSet(o.exceptions) /\ \A c \in CellsOf(o) : c.verified \in Nat

\* _validate_verified_clock: nothing was verified in the future.
VerifiedBy(payload, at) ==
    \A o \in payload.offerings : \A c \in CellsOf(o) : c.verified <= at

\* _select_offering: the one of this provider, by offering, else by platform, else alone.
OfferingsFor(payload, t) ==
    LET own == {o \in payload.offerings : o.developer = t.provider}
        there == {o \in own : o.platform = t.platform}
    IN IF t.offering # "none" THEN {o \in own : o.id = t.offering}
       ELSE IF t.platform # "none" /\ there # {} THEN there
       ELSE own

\* lookup: the cells that apply to the model; two exceptions for it are a conflict.
CellsFor(payload, t) ==
    LET found == OfferingsFor(payload, t)
        offering == CHOOSE o \in found : TRUE
        exceptions == {x \in offering.exceptions : x.model = t.model}
        exception == CHOOSE x \in exceptions : TRUE
    IN IF Cardinality(found) # 1 \/ Cardinality(exceptions) > 1 THEN <<>>
       ELSE IF exceptions = {} THEN offering.cells
       ELSE [d \in DOMAIN offering.cells \cup DOMAIN exception.cells |->
                IF d \in DOMAIN exception.cells THEN exception.cells[d] ELSE offering.cells[d]]

\* lookup raises: a cell of high confidence verified after its evidence expires.
LookupRaises(source, t) ==
    LET cells == CellsFor(source.payload, t) IN
    \E d \in DOMAIN cells : cells[d].high /\ source.expires <= cells[d].verified

Evidence(constraint, value, from, until, conditional) ==
    [constraint |-> constraint, value |-> value, from |-> from, until |-> until,
     conditional |-> conditional]

\* _normalize_dimension: the registry promises no training; zero retention only to an
\* account, which nobody verifies.
Normalized(d, cell, until) ==
    CASE ~cell.high -> {}
      [] cell.high /\ d = "training" /\ cell.value = "yes_public" ->
            {Evidence("no_training", "guaranteed", cell.verified, until, FALSE)}
      [] cell.high /\ d = "training" /\ cell.value = "yes_sales_gated" ->
            {Evidence("no_training", "opt_out", cell.verified, until, TRUE)}
      [] cell.high /\ d = "zdr" /\ cell.value \in {"yes_public", "yes_sales_gated"} ->
            {Evidence("retention", "zdr_available", cell.verified, until, TRUE)}
      [] OTHER -> {}

OfRegistry(source, t) ==
    LET cells == CellsFor(source.payload, t) IN
    IF LookupRaises(source, t) THEN {}
    ELSE UNION {Normalized(d, cells[d], source.expires) : d \in DOMAIN cells}

\* OllamaOfficialPolicySource
OfProvider(t) ==
    IF t.provider = "ollama" /\ t.platform = "ollama_cloud"
    THEN {Evidence("no_training", "guaranteed", OfficialFrom, OfficialUntil, FALSE),
          Evidence("retention", "zdr", OfficialFrom, OfficialUntil, FALSE)}
    ELSE {}

---------------------------------------------------------------------------
(* The decision.                                                            *)

\* (mutant: evidence is current when its source was)
ValuesOnceRead(evidence, constraint, at) ==
    {e.value : e \in {e \in evidence : e.constraint = constraint /\ ~e.conditional}}

\* _evidence_for: current, and not conditional on an account.
Values(evidence, constraint, at) ==
    {e.value : e \in {e \in evidence : /\ e.constraint = constraint
                                       /\ e.from <= at /\ at < e.until /\ ~e.conditional}}

NoTrainingPasses(evidence, at) == Values(evidence, "no_training", at) = {"guaranteed"}

\* (mutant: no evidence against zero retention is enough)
RetentionUnlessDenied(evidence, at) ==
    Values(evidence, "retention", at) \subseteq {"zdr", "zdr_available"}
RetentionPasses(evidence, at) ==
    /\ "zdr" \in Values(evidence, "retention", at)
    /\ Values(evidence, "retention", at) \subseteq {"zdr", "zdr_available"}

\* PrivacyPreflightResult: the location of the data is evaluated but decides nothing.
Decision(t, evidence, at) ==
    IF t.execution = "local" THEN "not_applicable"
    ELSE IF t.execution = "unknown" \/ ~NoTrainingPasses(evidence, at) THEN "block"
    ELSE IF RetentionPasses(evidence, at) THEN "pass" ELSE "warning"

---------------------------------------------------------------------------
(* privacy refresh                                                          *)

\* (mutant: the date the source gives is ignored)
ExpiryOfCache(at, payload) == at + TTL

\* _optional_source_expiry: the source may shorten the life of the snapshot.
Expiry(at, payload) ==
    IF payload.expires # 0 /\ payload.expires < at + TTL THEN payload.expires ELSE at + TTL

\* The clock is read once, before the download.
StartRefresh(r) ==
    /\ refresh[r].step = "idle"
    /\ refresh' = [refresh EXCEPT ![r] = [step |-> "started", at |-> now]]
    /\ UNCHANGED <<now, moves, file, fetched, ask, sent>>

Fetch(r) ==
    /\ refresh[r].step = "started" /\ Cardinality(fetched) < MaxDownloads
    /\ \E p \in Publications :
        /\ fetched' = fetched \cup {[at |-> refresh[r].at, payload |-> p]}
        /\ refresh' = [refresh EXCEPT ![r] = [step |-> "fetched", at |-> @.at, payload |-> p]]
    /\ UNCHANGED <<now, moves, file, ask, sent>>

\* refresh, _validate_payload
Acceptable(r) ==
    LET p == refresh[r].payload IN
    p.valid /\ Expiry(refresh[r].at, p) > refresh[r].at /\ VerifiedBy(p, refresh[r].at)

\* The temporary file is whole before it takes the name of the snapshot.
Replace(r) ==
    /\ refresh[r].step = "fetched" /\ Acceptable(r)
    /\ file' = [kind |-> "envelope", fetched |-> refresh[r].at, payload |-> refresh[r].payload,
                expires |-> Expiry(refresh[r].at, refresh[r].payload)]
    /\ refresh' = [refresh EXCEPT ![r] = IdleRefresh]
    /\ UNCHANGED <<now, moves, fetched, ask, sent>>

\* No answer, a payload that is refused, a failed write or a kill: the snapshot stays.
FailRefresh(r) ==
    /\ refresh[r].step \in {"started", "fetched"}
    /\ refresh' = [refresh EXCEPT ![r] = IdleRefresh]
    /\ UNCHANGED <<now, moves, file, fetched, ask, sent>>

---------------------------------------------------------------------------
(* ask                                                                      *)

\* PrivacySnapshotCache.read
ReadStatus(f, at) ==
    CASE f.kind = "missing" -> "missing"
      [] f.kind = "garbled" -> "invalid"
      [] f.kind = "envelope" /\ (f.fetched > at \/ ~VerifiedBy(f.payload, f.fetched)) -> "invalid"
      [] OTHER -> IF at >= f.expires THEN "expired" ELSE "valid"
SourceOf(f, at) ==
    IF ReadStatus(f, at) = "valid" THEN [payload |-> f.payload, expires |-> f.expires]
    ELSE NoSource

\* _build_privacy_preflight: once for the process, before the search.
Build ==
    /\ ask.step = "idle"
    /\ \E c \in Configurations :
        ask' = [step |-> "built", config |-> c, target |-> Resolved(c),
                source |-> SourceOf(file, now),
                decision |-> "none", evaluated |-> now, accepted |-> FALSE]
    /\ sent' = {}
    /\ UNCHANGED <<now, moves, cacheVars>>

\* authorize_with_diagnostics: a source that raises is passed over.
Authorize ==
    /\ ask.step = "built" /\ ~Contradictory(ask.config)
    /\ LET t == ask.target
           evidence == IF t.execution = "remote"
                       THEN OfRegistry(ask.source, t) \cup OfProvider(t) ELSE {}
           decision == Decision(t, evidence, now)
       IN ask' = [ask EXCEPT
                    !.decision = decision, !.evaluated = now,
                    !.step = CASE decision = "block" -> "ended"
                               [] decision = "warning" /\ ~ask.accepted -> "confirm"
                               [] OTHER -> "generate"]
    /\ UNCHANGED <<now, moves, cacheVars, sent>>

\* _confirm_privacy_warning, and the second operation with the same preflight service.
Confirm ==
    /\ ask.step = "confirm"
    /\ \E yes \in BOOLEAN :
        ask' = [ask EXCEPT !.accepted = yes, !.step = IF yes THEN "built" ELSE "ended"]
    /\ UNCHANGED <<now, moves, cacheVars, sent>>

\* _generate_with_observability: the generation, and later perhaps the repair.
Send ==
    /\ ask.step \in {"generate", "repair"}
    /\ sent' = sent \cup {[stage |-> ask.step, target |-> ask.target, evaluated |-> ask.evaluated,
                           accepted |-> ask.accepted]}
    /\ \E next \in IF ask.step = "generate" THEN {"repair", "ended"} ELSE {"ended"} :
        ask' = [ask EXCEPT !.step = next]
    /\ UNCHANGED <<now, moves, cacheVars>>

\* The end: an answer, an error, a refusal or an interruption at any point.
EndAsk ==
    /\ ask.step # "idle"
    /\ ask' = IdleAsk /\ sent' = {}
    /\ UNCHANGED <<now, moves, cacheVars>>

---------------------------------------------------------------------------
(* The world: time, and somebody who edits the file.                        *)

MoveClock ==
    /\ moves < MaxMoves /\ moves' = moves + 1
    /\ now' \in {now - 1, now + 1, now + TTL} \cap (0..MaxTime)
    /\ UNCHANGED <<cacheVars, ask, sent>>

\* The digest of the envelope tells.
Damage ==
    /\ file.kind = "envelope"
    /\ file' = Garbled
    /\ UNCHANGED <<now, moves, refresh, fetched, ask, sent>>

Refresh(r) == StartRefresh(r) \/ Fetch(r) \/ Replace(r) \/ FailRefresh(r)
AskPrivately == Build \/ Authorize \/ Confirm \/ Send \/ EndAsk
World == MoveClock \/ Damage

PrivacyNext == (\E r \in Refreshers : Refresh(r)) \/ AskPrivately \/ World
PrivacySpec == PrivacyInit /\ [][PrivacyNext]_privacyVars

---------------------------------------------------------------------------
PrivacyTypeOK ==
    /\ now \in 0..MaxTime
    /\ file.kind \in {"missing", "garbled", "envelope"}
    /\ file.kind = "envelope" => file.payload \in Publications /\ file.fetched < file.expires
    /\ ask.step \in {"idle", "built", "confirm", "generate", "repair", "ended"}
    /\ ask.step \in {"generate", "repair"} =>
            ask.decision \in {"not_applicable", "pass"} \/ (ask.decision = "warning" /\ ask.accepted)

\* What the registry said of a model, told without the evaluators: one offering, which
\* promises no training to everybody, and no exception for the model that says less.
Promises(payload, t) ==
    \E o \in payload.offerings :
        /\ o.developer = t.provider
        /\ o.id = t.offering
        /\ \A x \in o.exceptions :
            x.model = t.model /\ "training" \in DOMAIN x.cells => x.cells["training"].value = "yes_public"
        /\ \/ "training" \in DOMAIN o.cells /\ o.cells["training"].value = "yes_public"
           \/ \E x \in o.exceptions : x.model = t.model /\ "training" \in DOMAIN x.cells

\* A prompt goes to a provider only on a promise that some download found, and that at
\* the preflight was neither older than TTL nor withdrawn by its own expiry, however
\* long the cache, the source and the warning waited in between.
PromisesAreRecent ==
    \A m \in sent : m.target.execution = "remote" /\ m.target.platform # "ollama_cloud" =>
        \E f \in fetched :
            /\ m.evaluated < f.at + TTL
            /\ f.payload.expires # 0 => m.evaluated < f.payload.expires
            /\ f.payload.valid /\ Promises(f.payload, m.target)

\* Without the user's consent a prompt goes only where nothing is kept, and never to a
\* destination that is not known.
ConsentWhereKept ==
    \A m \in sent :
        /\ m.target.execution # "unknown"
        /\ m.target.execution = "remote" /\ ~m.accepted =>
            /\ m.target.platform = "ollama_cloud"
            /\ OfficialFrom <= m.evaluated /\ m.evaluated < OfficialUntil

\* A snapshot that refresh stored can be read until it expires, at any reading of the
\* clock since its download, and answers for every target.
SnapshotsAnswer ==
    file.kind = "envelope" =>
        \A t \in file.fetched..(file.expires - 1) :
            /\ ReadStatus(file, t) = "valid"
            /\ \A c \in Configurations : ~LookupRaises(SourceOf(file, t), Resolved(c))

\* What is on disk is one download whole, in its own time, never parts of two.
SnapshotsAreWhole ==
    file.kind = "envelope" =>
        /\ [at |-> file.fetched, payload |-> file.payload] \in fetched
        /\ file.payload.valid
        /\ file.expires <= file.fetched + TTL
        /\ file.payload.expires # 0 => file.expires <= file.payload.expires

\* A snapshot on disk is one download, whole, and can be read for as long as it says.
SnapshotsAreSound == PrivacyTypeOK /\ SnapshotsAnswer /\ SnapshotsAreWhole
=============================================================================
