---------------------------- MODULE ReportFormula ----------------------------
(***************************************************************************)
(* The daily report as a function of durable facts: the rows of one        *)
(* repeatable-read snapshot, the records and source coverage assembled     *)
(* from them, the canonical manifest, the report projected from it, the    *)
(* validators between these stages, and the reproduction of a retained     *)
(* report from its own bytes.  Collection, analysis and authorization move *)
(* the facts; reports are built and retained in between.                   *)
(*                                                                         *)
(* Times are UTC hours, dates Seoul days.  Names that the code orders as   *)
(* text (versions, sources, phrases, categories) are numbers.  An optional *)
(* value is a set with at most one element.  A digest is the injective     *)
(* pair of a label and what was hashed.                                    *)
(***************************************************************************)
EXTENDS Integers, Sequences, FiniteSets, FiniteSetsExt, SequencesExt

CONSTANTS Posts,            \* posts that may be published, numbers
          Sources,          \* sources with a row of the scope, numbers
          Expected,         \* sources the reviewed configuration enables, with a row or not
          SourceOf,         \* source a post belongs to
          PublishedAt,      \* hour a post was published
          Slots,            \* materialised due slots, hours
          Decisions,        \* authorization decisions a source can get
          Phrases,          \* normalized phrases of the rule set
          Topics,           \* topics an analysis can name
          RuleCategory,     \* category of each phrase
          TopicCategory,    \* category of the topics that have a mapping
          DefaultCategory,  \* category of the other topics
          Uncategorized,    \* category of a relevant record without any
          HighlightLimit, RisingLimit, RisingMin, CoverNumerator, CoverDenominator,
          ReportDate,       \* the Seoul day reported
          MaxVersion,       \* bound: versions of a post
          Setbacks,         \* queue failures that happen
          Observations,     \* engagement observations that are made
          MaxRules          \* bound: matches of a post

VARIABLES posts,     \* post -> {} or {its current version with its evidence}
          runs,      \* <<slot, source>> -> status of the latest attempt
          auth,      \* source -> {} or {its active decision}
          retained   \* {} or {the retained bytes and digests of a report}

factVars == <<posts, runs, auth, retained>>

QueueStatuses == {"none", "pending", "leased", "succeeded", "blocked_capability",
                  "failed_retryable", "failed_terminal"}
RunStatuses == {"none", "running", "succeeded", "failed_retryable", "failed_terminal",
                "stale_abandoned", "skipped_policy", "skipped_quota"}
Failures == {"failed_retryable", "failed_terminal", "stale_abandoned"}
Skips == {"skipped_policy", "skipped_quota"}
Roles == {"primary", "comparison"}

-----------------------------------------------------------------------------
(* Windows and rows. *)

\* A current version with the evidence the record query selects for it.
RecordRow ==
    [version : 1..MaxVersion, queue : QueueStatuses,
     analysis : SUBSET [relevance : BOOLEAN, sentiment : SUBSET {-1, 0, 1}, topics : SUBSET Topics],
     rules : Seq(Phrases), engagement : SUBSET Observations]

\* Mutant: windows include their end.
WithinClosed(w, t) == w.start <= t /\ t <= w.end
Within(w, t) == w.start <= t /\ t < w.end

SeoulReportWindows(date) ==
    LET start == date * 24 - 9
    IN  [primary |-> [date |-> date, start |-> start, end |-> start + 24],
         comparison |-> [date |-> date - 1, start |-> start - 24, end |-> start]]

Windows == SeoulReportWindows(ReportDate)

\* Identity of a post's current version; new identities order arbitrarily.
VersionId(p) == LET v == CHOOSE v \in posts[p] : TRUE
                IN  IF v.version % 2 = 0 THEN 100 * v.version + p ELSE 200 - p

\* Visible current versions published inside either window, in query order.
RecordRows ==
    SetToSortSeq({p \in Posts : posts[p] # {} /\ \E r \in Roles : Within(Windows[r], PublishedAt[p])},
                 LAMBDA p, q : \/ PublishedAt[p] < PublishedAt[q]
                               \/ PublishedAt[p] = PublishedAt[q] /\ VersionId(p) < VersionId(q))

SlotRows == {t \in Slots : \E r \in Roles : Within(Windows[r], t)}

-----------------------------------------------------------------------------
(* Records. *)

RoleOf(p) == IF Within(Windows.primary, PublishedAt[p]) THEN "primary" ELSE "comparison"

Empty(state) == [state |-> state, relevance |-> {}, sentiment |-> {}]

AnalysisOf(v) ==
    IF v.analysis # {} THEN LET a == CHOOSE a \in v.analysis : TRUE
                            IN  [state |-> "valid", relevance |-> {a.relevance}, sentiment |-> a.sentiment]
    ELSE Empty(CASE v.queue \in {"none", "pending", "leased"} -> "pending"
                 [] v.queue = "succeeded" -> "invalid_output"
                 [] OTHER -> v.queue)

TopicMapping(topic) == IF topic \in DOMAIN TopicCategory THEN TopicCategory[topic] ELSE DefaultCategory

TopicMatches(v) == UNION {a.topics : a \in v.analysis}

EngagementOf(v) == [selected |-> v.engagement # {},
                    comments |-> UNION {e.comments : e \in v.engagement},
                    score |-> UNION {e.score : e \in v.engagement}]

ReportRecord(p) ==
    LET v == CHOOSE v \in posts[p] : TRUE
    IN  [role |-> RoleOf(p), source |-> SourceOf[p], id |-> VersionId(p), at |-> PublishedAt[p],
         analysis |-> AnalysisOf(v), rules |-> v.rules, topics |-> TopicMatches(v),
         engagement |-> EngagementOf(v), categories |-> {}, ordinal |-> 0]

ReportRecords(rows) == [i \in 1..Len(rows) |-> ReportRecord(rows[i])]

-----------------------------------------------------------------------------
(* Coverage. *)

RunsIn(w, s) == {t \in SlotRows : Within(w, t) /\ runs[<<t, s>>] # "none"}
CountRuns(w, s, statuses) == Cardinality({t \in RunsIn(w, s) : runs[<<t, s>>] \in statuses})

AuthorizationActive(s, at) ==
    \E d \in auth[s] : d.enabled /\ d.status = "approved" /\ d.from <= at /\ at < d.until /\ ~d.revoked

RunFacts(w, s) ==
    [expected |-> s \in Expected, active |-> AuthorizationActive(s, w.end),
     expectedRuns |-> Cardinality({t \in SlotRows : Within(w, t)}),
     successful |-> CountRuns(w, s, {"succeeded"}),
     policy |-> CountRuns(w, s, {"skipped_policy"}), quota |-> CountRuns(w, s, {"skipped_quota"}),
     terminal |-> CountRuns(w, s, {"failed_terminal"}),
     retryable |-> CountRuns(w, s, {"failed_retryable", "stale_abandoned"})]

Ended(f) == f.successful + f.policy + f.quota + f.terminal + f.retryable

\* The first status whose condition holds, in order of precedence.
FirstStatus(precedence, default) ==
    LET matching == SelectSeq(precedence, LAMBDA x : x[1])
    IN  IF matching = <<>> THEN default ELSE matching[1][2]

\* Mutant: any skip wins over failures.
StatusSkipsFirst(f) ==
    FirstStatus(<<<<f.expected /\ ~f.active, "unauthorized">>,
                  <<f.expectedRuns > 0 /\ f.successful = f.expectedRuns, "complete">>,
                  <<Ended(f) = 0, "missing">>,
                  <<f.successful > 0, "partial">>,
                  <<f.policy > 0, "skipped_policy">>,
                  <<f.quota > 0, "skipped_quota">>,
                  <<f.terminal > 0, "failed_terminal">>,
                  <<f.retryable > 0, "failed_retryable">>>>, "partial")
DeriveCollectionStatus(f) ==
    FirstStatus(<<<<f.expected /\ ~f.active, "unauthorized">>,
                  <<f.expectedRuns > 0 /\ f.successful = f.expectedRuns, "complete">>,
                  <<Ended(f) = 0, "missing">>,
                  <<f.successful > 0, "partial">>,
                  <<f.policy = Ended(f), "skipped_policy">>,
                  <<f.quota = Ended(f), "skipped_quota">>,
                  <<f.terminal > 0, "failed_terminal">>,
                  <<f.retryable > 0, "failed_retryable">>>>, "partial")

CoverageItem(role, s, records) ==
    LET w == Windows[role]
        f == RunFacts(w, s)
        mine == SelectSeq(records, LAMBDA r : r.role = role /\ r.source = s)
        valid == Len(SelectSeq(mine, LAMBDA r : r.analysis.state = "valid"))
    IN  [role |-> role, source |-> s, expected |-> f.expected, enabled |-> f.active,
         status |-> DeriveCollectionStatus(f), expectedRuns |-> f.expectedRuns,
         successful |-> f.successful, failed |-> CountRuns(w, s, Failures),
         skipped |-> CountRuns(w, s, Skips), candidate |-> Len(mine), valid |-> valid,
         pending |-> Len(mine) - valid,
         relevant |-> Len(SelectSeq(mine, LAMBDA r : r.analysis.relevance = {TRUE}))]

SourceCoverage(records) ==
    {CoverageItem(role, s, records) : role \in Roles, s \in Sources}

\* What the retained coverage model accepts for given run counts.
AllowedStatuses(c) ==
    LET ended == c.successful + c.failed + c.skipped
    IN  IF c.expected /\ ~c.enabled THEN {"unauthorized"}
        ELSE IF c.expectedRuns > 0 /\ c.successful = c.expectedRuns THEN {"complete"}
        ELSE IF ended = 0 THEN {"missing"}
        ELSE IF c.successful > 0 THEN {"partial"}
        ELSE IF c.failed > 0 THEN {"failed_terminal", "failed_retryable"}
        ELSE {"skipped_policy", "skipped_quota", "partial"}

ValidCoverage(c) ==
    /\ c.valid <= c.candidate /\ c.relevant <= c.valid /\ c.pending = c.candidate - c.valid
    /\ c.successful + c.failed + c.skipped <= c.expectedRuns
    /\ c.status \in AllowedStatuses(c)

-----------------------------------------------------------------------------
(* Manifest. *)

ValidAnalysis(a) ==
    IF a.state = "valid" THEN a.relevance # {} /\ (a.relevance = {FALSE} => a.sentiment = {})
    ELSE a.relevance = {} /\ a.sentiment = {}

ValidEngagement(e) == ~e.selected => e.comments = {} /\ e.score = {}

\* Mappings kept with the records: the configured ones and topic fallbacks.
\* report_assembly_policy: every reviewed rule and topic with its category
PolicyMappings ==
    {<<"rule", x, RuleCategory[x]>> : x \in Phrases}
        \cup {<<"topic", x, TopicCategory[x]>> : x \in DOMAIN TopicCategory}

EffectiveMappings(records) ==
    PolicyMappings
        \cup {<<"topic", x, TopicMapping(x)>> : x \in UNION {r.topics : r \in Range(records)}}

CategoryBy(mappings, kind, x) == (CHOOSE m \in mappings : m[1] = kind /\ m[2] = x)[3]

NormalizeRecord(r, ordinal, mappings) ==
    LET mapped == {CategoryBy(mappings, "rule", x) : x \in Range(r.rules)}
                      \cup {CategoryBy(mappings, "topic", x) : x \in r.topics}
    IN  [r EXCEPT !.ordinal = ordinal,
                  !.rules = SortSeq(r.rules, LAMBDA x, y : x < y),
                  !.categories = IF r.analysis.relevance # {TRUE} THEN {}
                                 ELSE IF mapped = {} THEN {Uncategorized} ELSE mapped]

NormalizeManifest(records, mappings) ==
    [role \in Roles |->
        LET of == SortSeq(SelectSeq(records, LAMBDA r : r.role = role),
                          LAMBDA r, q : r.id < q.id \/ (r.id = q.id /\ r.source < q.source))
        IN  [i \in 1..Len(of) |-> NormalizeRecord(of[i], i - 1, mappings)]]

Manifest(records, coverage) ==
    LET mappings == EffectiveMappings(records)
    IN  [date |-> ReportDate, records |-> NormalizeManifest(records, mappings),
         mappings |-> mappings, coverage |-> coverage]

\* The schema: exact windows, unique records inside their role, agreeing mappings.
ValidManifest(records, coverage) ==
    LET mappings == EffectiveMappings(records)
    IN  /\ \A i, j \in 1..Len(records) : records[i].role = records[j].role /\ records[i].id = records[j].id => i = j
        /\ \A r \in Range(records) :
              /\ Within(Windows[r.role], r.at)
              /\ ValidAnalysis(r.analysis) /\ ValidEngagement(r.engagement)
              /\ \A x \in Range(r.rules) : x \in Phrases
              /\ \E c \in coverage : c.role = r.role /\ c.source = r.source
        /\ \A m, n \in mappings : m[1] = n[1] /\ m[2] = n[2] => m = n
        /\ \A c \in coverage : ValidCoverage(c)

-----------------------------------------------------------------------------
(* The formula. *)

Relevant(records) == SelectSeq(records, LAMBDA r : r.analysis.relevance = {TRUE})
CountWith(records, P(_)) == Len(SelectSeq(records, P))
SumOver(S, f(_)) == MapThenSumSet(f, S)

\* Sum of the known values, or nothing when none is known.
KnownSum(records, field) ==
    LET value(r) == r.engagement[field]
        known == {i \in 1..Len(records) : value(records[i]) # {}}
    IN  [sum |-> IF known = {} THEN {}
                 ELSE {SumOver(known, LAMBDA i : CHOOSE x \in value(records[i]) : TRUE)},
         known |-> Cardinality(known), unknown |-> Len(records) - Cardinality(known)]

CategoryCount(records, c) == CountWith(records, LAMBDA r : c \in r.categories)
PhraseCount(records, x) == CountWith(records, LAMBDA r : x \in Range(r.rules))
SentimentWeight(r) == IF r.analysis.sentiment = {} THEN 0 ELSE CHOOSE x \in r.analysis.sentiment : TRUE
NetSentiment(records, c) ==
    SumOver({i \in 1..Len(records) : c \in records[i].categories}, LAMBDA i : SentimentWeight(records[i]))

Prefix(s, n) == SubSeq(s, 1, IF Len(s) < n THEN Len(s) ELSE n)

RankHighlights(primary, comparison) ==
    LET before(c, d) == \/ CategoryCount(primary, c) > CategoryCount(primary, d)
                        \/ /\ CategoryCount(primary, c) = CategoryCount(primary, d)
                           /\ \/ NetSentiment(primary, c) > NetSentiment(primary, d)
                              \/ NetSentiment(primary, c) = NetSentiment(primary, d) /\ c < d
    IN  Prefix(SetToSortSeq(UNION {r.categories : r \in Range(primary)}, before), HighlightLimit)

\* (p - q) / q, compared as exact fractions.
Rate(primary, comparison, x) ==
    <<PhraseCount(primary, x) - PhraseCount(comparison, x), PhraseCount(comparison, x)>>

RankRisingKeywords(primary, comparison) ==
    LET eligible == {x \in Phrases : PhraseCount(primary, x) >= RisingMin}
        byCount(x, y) == \/ PhraseCount(primary, x) > PhraseCount(primary, y)
                         \/ PhraseCount(primary, x) = PhraseCount(primary, y) /\ x < y
        byRate(x, y) == LET a == Rate(primary, comparison, x)
                            b == Rate(primary, comparison, y)
                        IN  \/ a[1] * b[2] > b[1] * a[2]
                            \/ a[1] * b[2] = b[1] * a[2] /\ byCount(x, y)
        rated == {x \in eligible : PhraseCount(comparison, x) > 0}
    IN  Prefix(SetToSortSeq(rated, byRate) \o SetToSortSeq(eligible \ rated, byCount), RisingLimit)

ReportStatus(m) ==
    LET records == m.records["primary"]
        valid == CountWith(records, LAMBDA r : r.analysis.state = "valid")
    IN  IF /\ \A c \in m.coverage : c.role = "primary" /\ c.expected => c.status = "complete"
           /\ Len(records) = 0 \/ valid * CoverDenominator >= Len(records) * CoverNumerator
        THEN "complete" ELSE "partial"

VerifyCoverage(m) ==
    \A c \in m.coverage :
        LET mine == SelectSeq(m.records[c.role], LAMBDA r : r.source = c.source)
        IN  /\ c.candidate = Len(mine)
            /\ c.valid = CountWith(mine, LAMBDA r : r.analysis.state = "valid")
            /\ c.relevant = CountWith(mine, LAMBDA r : r.analysis.relevance = {TRUE})

Digest(label, bytes) == <<label, bytes>>

\* Category and phrase rows carry both counts; rates follow from them.
ProjectReport(m) ==
    LET all == m.records["primary"]
        primary == Relevant(all)
        comparison == Relevant(m.records["comparison"])
        sentiments(x) == CountWith(primary, LAMBDA r : r.analysis.sentiment = x)
    IN  [date |-> m.date, inputSet |-> Digest("report-input-manifest/v1", m),
         manifestHash |-> Digest("sha256", m),
         candidate |-> Len(all), relevant |-> Len(primary),
         valid |-> CountWith(all, LAMBDA r : r.analysis.state = "valid"),
         positive |-> sentiments({1}), neutral |-> sentiments({0}), negative |-> sentiments({-1}),
         unknown |-> sentiments({}),
         comments |-> KnownSum(primary, "comments"),
         score |-> KnownSum(primary, "score"),
         highlights |-> LET h == RankHighlights(primary, comparison) IN [i \in 1..Len(h) |->
             [category |-> h[i], p |-> CategoryCount(primary, h[i]), q |-> CategoryCount(comparison, h[i]),
              net |-> NetSentiment(primary, h[i])]],
         rising |-> LET k == RankRisingKeywords(primary, comparison) IN [i \in 1..Len(k) |->
             [phrase |-> k[i], p |-> PhraseCount(primary, k[i]), q |-> PhraseCount(comparison, k[i])]],
         coverage |-> m.coverage, status |-> ReportStatus(m)]

\* The manifest assembled from the facts as they are, and its report.
Assembled == LET records == ReportRecords(RecordRows)
             IN  Manifest(records, SourceCoverage(records))
Current == ProjectReport(Assembled)

-----------------------------------------------------------------------------
(* Retention of the bytes and their reproduction. *)

Retain(m) == LET report == ProjectReport(m)
             IN  [manifest |-> m, manifestHash |-> Digest("sha256", m),
                  inputSet |-> Digest("report-input-manifest/v1", m),
                  report |-> report, reportHash |-> Digest("sha256", report)]

\* Mutant: the input-set digest is not compared with the bytes.
ReadManifestUnbound(r) == r.manifestHash = Digest("sha256", r.manifest)
ReadManifest(r) ==
    /\ r.manifestHash = Digest("sha256", r.manifest)
    /\ r.inputSet = Digest("report-input-manifest/v1", r.manifest)

ReproduceReport(r) ==
    /\ ReadManifest(r)
    /\ VerifyCoverage(r.manifest)
    /\ r.report = ProjectReport(r.manifest)
    /\ r.reportHash = Digest("sha256", ProjectReport(r.manifest))
    /\ r.reportHash = Digest("sha256", r.report)

-----------------------------------------------------------------------------
(* Facts that move. *)

Fresh(n) == [version |-> n, queue |-> "none", analysis |-> {}, rules |-> <<>>, engagement |-> {}]

\* A page with the post, or with an edit of it, is published.
Publish(p) ==
    /\ \/ posts[p] = {} /\ posts' = [posts EXCEPT ![p] = {Fresh(1)}]
       \/ \E v \in posts[p] :
              v.version < MaxVersion /\ posts' = [posts EXCEPT ![p] = {Fresh(v.version + 1)}]
    /\ UNCHANGED <<runs, auth, retained>>

QueueStep(p) ==
    /\ \E v \in posts[p], q \in QueueStatuses :
          /\ <<v.queue, q>> \in ({"none"} \X {"pending"}) \cup ({"pending", "failed_retryable"} \X {"leased"})
                 \cup ({"leased"} \X Setbacks)
          /\ posts' = [posts EXCEPT ![p] = {[v EXCEPT !.queue = q]}]
    /\ UNCHANGED <<runs, auth, retained>>

\* An accepted output: relevant ones have a sentiment, irrelevant ones none.
Analyse(p) ==
    /\ \E v \in posts[p], relevance \in BOOLEAN, topics \in SUBSET Topics :
       \E sentiment \in (IF relevance THEN {{-1}, {0}, {1}} ELSE {{}}) :
          /\ v.queue = "leased"
          /\ posts' = [posts EXCEPT ![p] = {[v EXCEPT !.queue = "succeeded",
                 !.analysis = {[relevance |-> relevance, sentiment |-> sentiment, topics |-> topics]}]}]
    /\ UNCHANGED <<runs, auth, retained>>

\* A stored match or a later engagement observation of the version.
Match(p) ==
    /\ \E v \in posts[p], x \in Phrases :
          /\ x \notin Range(v.rules) /\ Len(v.rules) < MaxRules
          /\ posts' = [posts EXCEPT ![p] = {[v EXCEPT !.rules = Append(@, x)]}]
    /\ UNCHANGED <<runs, auth, retained>>

Engage(p) ==
    /\ \E v \in posts[p], e \in Observations :
          posts' = [posts EXCEPT ![p] = {[v EXCEPT !.engagement = {e}]}]
    /\ UNCHANGED <<runs, auth, retained>>

\* The latest attempt of a slot's command for a source.
RunStep(t, s) ==
    /\ \E status \in RunStatuses \ {"none"} :
          /\ \/ runs[<<t, s>>] \in {"none", "failed_retryable", "stale_abandoned"} /\ status = "running"
             \/ runs[<<t, s>>] = "running" /\ status # "running"
          /\ runs' = [runs EXCEPT ![<<t, s>>] = status]
    /\ UNCHANGED <<posts, auth, retained>>

Decide(s) ==
    /\ \E d \in Decisions : {d} # auth[s] /\ auth' = [auth EXCEPT ![s] = {d}]
    /\ UNCHANGED <<posts, runs, retained>>

Report ==
    /\ VerifyCoverage(Assembled)
    /\ retained' = {Retain(Assembled)}
    /\ UNCHANGED <<posts, runs, auth>>

\* Another report of the day: the one without its posts.
OtherManifest(m) ==
    [m EXCEPT !.records["primary"] = <<>>,
              !.coverage = {IF c.role # "primary" THEN c
                            ELSE [c EXCEPT !.candidate = 0, !.valid = 0, !.pending = 0,
                                           !.relevant = 0] : c \in @}]

\* Some retained fields are replaced by those of another report, whose manifest
\* passes the recount as every retained one does.
Replace(fields) ==
    /\ \E r \in retained :
          LET other == Retain(OtherManifest(r.manifest))
          IN  /\ VerifyCoverage(other.manifest)
              /\ retained' = {[f \in DOMAIN r |-> IF f \in fields THEN other[f] ELSE r[f]]}
    /\ UNCHANGED <<posts, runs, auth>>

RetainedFields == {"manifest", "manifestHash", "inputSet", "report", "reportHash"}

FactsInit == /\ posts = [p \in Posts |-> {}]
        /\ runs = [x \in Slots \X Sources |-> "none"]
        /\ auth = [s \in Sources |-> {}]
        /\ retained = {}

Facts == \/ \E p \in Posts : Publish(p) \/ QueueStep(p) \/ Analyse(p) \/ Match(p) \/ Engage(p)
         \/ \E t \in Slots, s \in Sources : RunStep(t, s)
         \/ \E s \in Sources : Decide(s)

FactsNext == Facts \/ Report \/ \E fields \in SUBSET RetainedFields : Replace(fields)

FactsSpec == FactsInit /\ [][FactsNext]_factVars

-----------------------------------------------------------------------------
(* Properties. *)

FactTypes ==
    /\ \A p \in Posts : /\ Cardinality(posts[p]) <= 1
                        /\ \A v \in posts[p] : v \in RecordRow
                              /\ (v.analysis # {} <=> v.queue = "succeeded")
    /\ runs \in [Slots \X Sources -> RunStatuses]
    /\ \A s \in Sources : auth[s] \subseteq Decisions /\ Cardinality(auth[s]) <= 1
    /\ \A r \in retained : DOMAIN r = RetainedFields

\* The assembler and the schema derive coverage twice, from different counts:
\* whatever happened to runs, analyses and authorizations, the manifest it
\* builds passes the validators and the formula's own recount, so no
\* combination of facts leaves a day without a report.
AssemblyValid ==
    LET records == ReportRecords(RecordRows)
        coverage == SourceCoverage(records)
    IN  ValidManifest(records, coverage) /\ VerifyCoverage(Manifest(records, coverage))

\* A report is complete only if every expected source that has a row was
\* authorized at the end of the day, every due slot of the day has a successful run, there was
\* such a slot, and enough of the day's posts are analysed, counted from the
\* facts themselves.
CompleteMeansCollected ==
    Current.status = "complete" =>
        LET day == {t \in Slots : ReportDate * 24 - 9 <= t /\ t < ReportDate * 24 + 15}
            seen == {p \in Posts : posts[p] # {} /\ ReportDate * 24 - 9 <= PublishedAt[p]
                                                /\ PublishedAt[p] < ReportDate * 24 + 15}
            valid == {p \in seen : \A v \in posts[p] : v.analysis # {}}
            watched == Expected \cap Sources
        IN  /\ watched # {} => day # {}
            /\ \A s \in watched : /\ AuthorizationActive(s, ReportDate * 24 + 15)
                                  /\ \A t \in day : runs[<<t, s>>] = "succeeded"
            /\ Cardinality(valid) * CoverDenominator >= Cardinality(seen) * CoverNumerator

\* The manifest, and with it the input-set digest that decides whether a new
\* revision is appended, does not depend on the order in which the database
\* returns the rows.
CanonicalOrder ==
    LET records == ReportRecords(RecordRows)
        n == Len(records)
        canonical == Assembled
    IN  \A f \in {g \in [1..n -> 1..n] : Range(g) = 1..n} :
            LET permuted == [i \in 1..n |-> records[f[i]]]
            IN  Manifest(permuted, SourceCoverage(permuted)) = canonical

\* Facts about posts outside the two Seoul days never change the manifest: a
\* post at the boundary belongs to one day only.
OutsideStep ==
    (/\ runs' = runs /\ auth' = auth
     /\ \A p \in Posts : posts'[p] # posts[p] =>
            PublishedAt[p] < ReportDate * 24 - 33 \/ PublishedAt[p] >= ReportDate * 24 + 15)
    => Assembled' = Assembled

Ahead(p, q, x, y) == \* x before y in a ranking by rate, null last, count, name
    LET px == PhraseCount(p, x) qx == PhraseCount(q, x)
        py == PhraseCount(p, y) qy == PhraseCount(q, y)
    IN  \/ qx > 0 /\ qy = 0
        \/ qx > 0 /\ qy > 0 /\ px * qy > py * qx
        \/ /\ (qx = 0 /\ qy = 0) \/ (qx > 0 /\ qy > 0 /\ px * qy = py * qx)
           /\ px > py \/ (px = py /\ x < y)

\* The ranked phrases are exactly the leading ones of the documented order,
\* taken over every eligible phrase: nothing cut off is ahead of anything kept.
RisingAsStated ==
    LET p == Relevant(Assembled.records["primary"])
        q == Relevant(Assembled.records["comparison"])
        kept == RankRisingKeywords(p, q)
        eligible == {x \in Phrases : PhraseCount(p, x) >= RisingMin}
    IN  /\ Len(kept) = IF Cardinality(eligible) < RisingLimit THEN Cardinality(eligible) ELSE RisingLimit
        /\ \A i, j \in 1..Len(kept) : i < j => Ahead(p, q, kept[i], kept[j])
        /\ \A i \in 1..Len(kept), y \in eligible \ Range(kept) : Ahead(p, q, kept[i], y)

\* No category that is not highlighted has more of the day's relevant posts
\* than a highlighted one, nor as many with a better net sentiment, and every
\* relevant post counts in some category.
HighlightsLead ==
    LET p == Relevant(Assembled.records["primary"])
        kept == Range(RankHighlights(p, <<>>))
        standing(c) == <<CategoryCount(p, c), NetSentiment(p, c)>>
    IN  /\ \A r \in Range(p) : r.categories # {}
        /\ \A c \in kept, d \in UNION {r.categories : r \in Range(p)} \ kept :
               \/ standing(c)[1] > standing(d)[1]
               \/ standing(c)[1] = standing(d)[1] /\ standing(c)[2] >= standing(d)[2]

\* A retained report reproduces only if all its parts belong together: after
\* any partial replacement of bytes and digests the outcome is corrupt.
OnlyWholeReproduces ==
    \A r \in retained : ReproduceReport(r) <=> r = Retain(r.manifest)

-----------------------------------------------------------------------------
(* What the documents say and the code does not do *)

\* Contract 2.4: "Overall report status is complete only when every expected
\* primary source has collection status complete" - source_coverage has an item
\* per row of the scope, so an expected source without one is not asked for.
EveryExpectedComplete ==
    Current.status = "complete" =>
        \A s \in Expected : \E c \in Assembled.coverage :
            c.role = "primary" /\ c.source = s /\ c.status = "complete"
==============================================================================
