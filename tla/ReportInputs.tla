---------------------------- MODULE ReportInputs ----------------------------
(***************************************************************************)
(* From stored facts and task results to the inputs of one report: the     *)
(* evidence store, the report-day policy, the materializer, the quality    *)
(* gate and the status of the bundle.                                      *)
(*                                                                         *)
(* A task is <<kind, region>>, kind one of "bars", "equity", "news",       *)
(* "calendar".  A stored version of a fact is [task, name, day, text, at,  *)
(* by, rank]: what it is about (the instrument and trading day, the        *)
(* headline or release and its day), its content, when it was fetched, the *)
(* report date whose task wrote it, and 1 for a revision (FactVersions).   *)
(* Times are ticks, Ticks to a day; days and reports are numbered from 1.  *)
(***************************************************************************)
EXTENDS Naturals, Sequences, FiniteSets

CONSTANTS
    Bars,           \* the regions with a market input
    News,           \* the regions with a headlines input
    Calendars,      \* the regions of the calendar input, in their order
    Equities,       \* the regions with a supplemental task, of no input
    Names,          \* Names[r]: the instruments expected of region r
    Sessions,       \* Sessions[r]: the session days of r's exchange
    Covered,        \* the days that the exchange calendars resolve
    Weekend,        \* the days of a weekend
    Ticks,          \* the ticks of a day
    CutoffTick,     \* worker_report_cutoff, as a tick of the day
    MarketAge,      \* worker_market_freshness_hours, in ticks
    NewsAge         \* worker_news_freshness_hours

Range(s) == {s[i] : i \in DOMAIN s}

\* The registered tasks and the input specs are tables of the code, neither
\* of them empty.
ASSUME InputAssumption ==
    /\ Bars # {} /\ Calendars # <<>> /\ Calendars \in Seq(Range(Calendars))
    /\ Ticks \in Nat \ {0} /\ CutoffTick \in Nat
    /\ MarketAge \in Nat /\ NewsAge \in Nat

Tasks == ({"bars"} \X Bars) \cup ({"equity"} \X Equities) \cup ({"news"} \X News)
         \cup ({"calendar"} \X Range(Calendars))

\* build_registered_tasks: only the supplemental bars are optional.
Required(t) == t[1] # "equity"

Calendar == <<"calendar", "all">>
MarketInputs == {"bars"} \X Bars
AlwaysRequired == ({"news"} \X News) \cup {Calendar}
Inputs == MarketInputs \cup AlwaysRequired

CutoffOf(d) == (d - 1) * Ticks + CutoffTick

\* previous_session: the last session before the day, session or not.
PreviousSession(r, d) ==
    CHOOSE s \in {0} \cup Sessions[r] :
        s < d /\ \A x \in Sessions[r] : x < d => x <= s

----------------------------------------------------------------------------
(* The readers *)

SameFact(v, w) == v.task = w.task /\ v.name = w.name /\ v.day = w.day

\* v is preferred for a report of d: its own run's, later, a revision.
Preferred(v, w, d) ==
    \/ v.by = d /\ w.by # d
    \/ (v.by = d <=> w.by = d)
       /\ \/ v.at > w.at
          \/ v.at = w.at /\ v.rank > w.rank
          \/ v.at = w.at /\ v.rank = w.rank /\ v.text > w.text

\* The version of each fact that a report of d reads as of a time.
AsOf(stored, d, time) ==
    LET visible == {v \in stored : v.at <= time}
    IN  {v \in visible : ~\E w \in visible : SameFact(v, w) /\ Preferred(w, v, d)}

\* Facts that the task's own pages committed: read, its <<name, day>> pairs.
Own(versions, t, read) == {v \in versions : v.task = t /\ <<v.name, v.day>> \in read}

\* market_bars_as_of: the bars of expected instruments before the report's day
BarsAsOf(stored, t, d, read, time) ==
    {v \in Own(AsOf(stored, d, time), t, read) : v.name \in Names[t[2]] /\ v.day < d}

\* late_market_instruments: those whose expected bar came after the cutoff
LateInstruments(stored, t, d, read, asOf) ==
    {v.name : v \in {x \in Own(AsOf(stored, d, asOf), t, read) :
                        x.day = PreviousSession(t[2], d) /\ x.at > CutoffOf(d)}}

\* macro_releases_as_of: the releases of the next seven days
ReleasesAsOf(stored, t, d, read, time) ==
    {v \in Own(AsOf(stored, d, time), t, read) : v.day \in d .. d + 6}

\* has_late_macro_release
LateRelease(stored, t, d, read, asOf) ==
    \E v \in ReleasesAsOf(stored, t, d, read, asOf) : v.at > CutoffOf(d)

\* A revision with the content of a version that is used.
Revised(stored, used, cutoff) ==
    \E v \in used, r \in stored : SameFact(v, r) /\ r.rank = 1 /\ r.text = v.text /\ r.at <= cutoff

----------------------------------------------------------------------------
(* Evidence *)

Evidence(status, facts) == [status |-> status, required |-> TRUE, facts |-> facts]
Failing(status) == Evidence(status, {})

\* A task's result is [status, rejected, left, read]: what its pages rejected,
\* and what attempts at them that failed later left in ingest_rejections.
\* task_rejection_count takes the larger of the two counts.
Rejections(res) == res.rejected \/ res.left

\* task_problem: what a task's result says before any fact is read.
ResultStatusFirst(res) ==
    IF res.status = "succeeded" THEN "none"
    ELSE IF Rejections(res) THEN "quarantined"
    ELSE IF res.status = "retryable" THEN "retryable"
    ELSE "unavailable"
TaskProblem(res) ==
    IF Rejections(res) THEN "quarantined"
    ELSE IF res.status = "succeeded" THEN "none"
    ELSE IF res.status = "retryable" THEN "retryable"
    ELSE "unavailable"

SourceStatus(used, cutoff, maxAge, revised) ==
    IF \E v \in used : v.at > cutoff THEN "late"
    ELSE IF \E v \in used : v.at + maxAge < cutoff THEN "stale"
    ELSE IF revised THEN "revised"
    ELSE "available"

Used(status, used) == Evidence(status, IF status \in {"available", "revised"} THEN used ELSE {})

MarketEvidence(stored, t, d, read, asOf) ==
    LET cutoff   == CutoffOf(d)
        expected == PreviousSession(t[2], d)
        bars     == BarsAsOf(stored, t, d, read, cutoff)
        used     == {v \in bars : \A w \in bars : w.name = v.name => w.day <= v.day}
        missing  == Names[t[2]] \ {v.name : v \in used}
        late     == LateInstruments(stored, t, d, read, asOf)
    IN  IF read = {} THEN Failing("missing")
        ELSE IF d \notin Covered THEN Failing("unavailable")
        ELSE IF missing # {} THEN Failing(IF missing \subseteq late THEN "late" ELSE "missing")
        ELSE IF \E v \in used : v.day # expected THEN Failing("stale")
        ELSE Used(SourceStatus(used, cutoff, MarketAge, Revised(stored, used, cutoff)), used)

\* Headlines of the last 24 hours: of the day before the report's, and later.
NewsEvidence(stored, t, d, read, asOf) ==
    LET cutoff == CutoffOf(d)
        recent == {v \in Own(stored, t, read) : v.day + 1 >= d}
        used   == {v \in recent : v.at <= cutoff}
    IN  IF used = {}
        THEN Failing(IF \E v \in recent : v.at <= asOf THEN "late" ELSE "missing")
        ELSE Used(SourceStatus(used, cutoff, NewsAge, FALSE), used)

\* An empty calendar is a fact, too.
NoReleases(t, d) ==
    {[task |-> t, name |-> "none", day |-> 0, text |-> 0, at |-> CutoffOf(d), by |-> d, rank |-> 0]}
CalendarEvidence(stored, t, d, read, asOf) ==
    LET cutoff == CutoffOf(d)
        used   == ReleasesAsOf(stored, t, d, read, cutoff)
    IN  IF used # {}
        THEN Evidence(IF Revised(stored, used, cutoff) THEN "revised" ELSE "available", used)
        ELSE IF LateRelease(stored, t, d, read, asOf) THEN Failing("late")
        ELSE Evidence("available", NoReleases(t, d))

TaskEvidence(stored, t, d, res, asOf) ==
    IF TaskProblem(res) # "none" THEN Failing(TaskProblem(res))
    ELSE CASE t[1] = "bars"     -> MarketEvidence(stored, t, d, res.read, asOf)
           [] t[1] = "news"     -> NewsEvidence(stored, t, d, res.read, asOf)
           [] t[1] = "calendar" -> CalendarEvidence(stored, t, d, res.read, asOf)

\* _global_calendar_evidence: the first region that fails speaks for all.
GlobalCalendar(parts) ==
    LET bad == {i \in DOMAIN parts : parts[i].status \notin {"available", "revised"}}
    IN  IF bad # {}
        THEN Failing(parts[CHOOSE i \in bad : \A j \in bad : i <= j].status)
        ELSE Evidence(IF \E i \in DOMAIN parts : parts[i].status = "revised"
                      THEN "revised" ELSE "available",
                      UNION {parts[i].facts : i \in DOMAIN parts})

\* collect, from the results of the bundle's tasks.
Collect(stored, d, results, asOf) ==
    [i \in Inputs |->
        IF i = Calendar
        THEN GlobalCalendar([n \in DOMAIN Calendars |->
                LET t == <<"calendar", Calendars[n]>>
                IN  TaskEvidence(stored, t, d, results[t], asOf)])
        ELSE TaskEvidence(stored, i, d, results[i], asOf)]

----------------------------------------------------------------------------
(* The report-day policy *)

MarketDay(r, d) ==
    IF d \in Weekend THEN "weekend_closed"
    ELSE IF d \in Sessions[r] THEN "scheduled_session"
    ELSE "exchange_holiday"

Policy(d) ==
    LET closed == {r \in Bars : MarketDay(r, d) # "scheduled_session"}
    IN  [type |-> IF d \in Weekend THEN "weekend"
                  ELSE IF closed # {} THEN "regional_holiday" ELSE "regular",
         regions  |-> [r \in Bars |-> MarketDay(r, d)],
         required |-> AlwaysRequired \cup ({"bars"} \X (Bars \ closed)),
         optional |-> {"bars"} \X closed]

\* _apply_report_day_policy: inputs of closed markets are optional; what
\* they have is kept if it is usable.
StillRequired(e) == e
ClosedMarket(e) ==
    IF e.status \in {"available", "revised"} THEN [e EXCEPT !.required = FALSE]
    ELSE [status |-> "unavailable", required |-> FALSE, facts |-> {}]
ApplyPolicy(evidence, policy) ==
    [i \in DOMAIN evidence |->
        IF i \in policy.optional THEN ClosedMarket(evidence[i]) ELSE evidence[i]]

\* _exclude_after_cutoff_evidence
CutoffSafe(e, d) ==
    IF e.status \in {"available", "revised"} /\ \E v \in e.facts : v.at > CutoffOf(d)
    THEN [e EXCEPT !.status = "late", !.facts = {}]
    ELSE e

\* _snapshot_from_evidence
Snapshot(d, evidence) ==
    LET safe == [i \in DOMAIN evidence |-> CutoffSafe(evidence[i], d)]
    IN  [quality |-> [i \in DOMAIN safe |->
                        [status |-> safe[i].status, required |-> safe[i].required]],
         facts   |-> UNION {safe[i].facts : i \in DOMAIN safe}]

----------------------------------------------------------------------------
(* The quality gate *)

\* _policy_regions_match, and the input sets that go with it.
PolicyAgrees(p, d) ==
    LET statuses == Range(p.regions)
    IN  /\ p.required \cap p.optional = {}
        /\ p.required \cup p.optional = Inputs
        /\ AlwaysRequired \subseteq p.required
        /\ p.optional = {i \in MarketInputs : p.regions[i[2]] # "scheduled_session"}
        /\ CASE p.type = "regular" -> d \notin Weekend /\ statuses = {"scheduled_session"}
             [] p.type = "weekend" -> d \in Weekend /\ statuses = {"weekend_closed"}
             [] p.type = "regional_holiday" ->
                   /\ d \notin Weekend
                   /\ "exchange_holiday" \in statuses
                   /\ statuses \subseteq {"scheduled_session", "exchange_holiday"}

\* An issue is [code, required]: code "blocking", "retryable" or "revised",
\* as _decision tells them apart.
Issue(code, required) == [code |-> code, required |-> required]

IssueOf(status) ==
    CASE status = "retryable" -> "retryable"
      [] status = "revised"   -> "revised"
      [] OTHER                -> "blocking"

\* evaluate.  A policy that does not agree makes every input required.
Issues(s, d) ==
    LET policy   == Policy(d)
        agreed   == PolicyAgrees(policy, d)
        required == IF agreed THEN policy.required ELSE Inputs
        optional == IF agreed THEN policy.optional ELSE {}
        Needed(i) == i \in required \/ s.quality[i].required
        Closed   == {i \in optional : i \notin DOMAIN s.quality
                                         \/ s.quality[i].status = "available"}
        Declared == {i \in required \cap DOMAIN s.quality : ~s.quality[i].required}
        Unwell   == {i \in DOMAIN s.quality : s.quality[i].status # "available"}
        Blocked  == ~agreed \/ Declared # {} \/ ~(required \subseteq DOMAIN s.quality)
                       \/ s.facts = {}
    IN  (IF Blocked THEN {Issue("blocking", TRUE)} ELSE {})
        \cup {Issue("blocking", FALSE) : i \in Closed}
        \cup {Issue(IssueOf(s.quality[i].status), Needed(i)) : i \in Unwell}

Decision(issues) ==
    IF Issue("blocking", TRUE) \in issues THEN "blocked"
    ELSE IF Issue("retryable", TRUE) \in issues THEN "retryable"
    ELSE IF issues # {} THEN "degraded"
    ELSE "passed"

Quality(s, d) == Decision(Issues(s, d))

----------------------------------------------------------------------------
(* The bundle *)

\* _worker_status
BundleStatus(results) ==
    LET Ended(status) == \E t \in Tasks : Required(t) /\ results[t].status = status
    IN  IF Ended("failed") THEN "blocked"
        ELSE IF Ended("retryable") THEN "retryable"
        ELSE IF \E t \in Tasks : results[t].status # "succeeded" THEN "degraded"
        ELSE "succeeded"

\* _combine_worker_and_quality_status
Combined(bundle, quality) ==
    IF "blocked" \in {bundle, quality} THEN "blocked"
    ELSE IF "retryable" \in {bundle, quality} THEN "retryable"
    ELSE IF "degraded" \in {bundle, quality} THEN "degraded"
    ELSE "succeeded"

=============================================================================
