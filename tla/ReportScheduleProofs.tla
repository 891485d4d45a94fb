------------------------ MODULE ReportScheduleProofs ------------------------
(* Theorems about ReportSchedule, for every calendar, listing, schedule and  *)
(* set of processes, and the lemmas about ReportInputs that they rest on.    *)
EXTENDS ReportSchedule, WellFoundedInduction, TLAPS

Good == {"available", "revised"}

----------------------------------------------------------------------------
(* Evidence: what the readers and the materializer return. *)

LEMMA LeastElement ==
    ASSUME NEW T, T \subseteq Nat, T # {}
    PROVE  \E x \in T : \A y \in T : x <= y
  <1> DEFINE R == {ss \in Nat \X Nat : ss[1] < ss[2]}
  <1>1. IsWellFoundedOn(R, Nat)
    BY NatLessThanWellFounded DEF OpToRel
  <1> HIDE DEF R
  <1>2. PICK x \in T : \A y \in T : <<y, x>> \notin R
    BY <1>1, WFMin
  <1>3. \A y \in T : ~(y < x)
    BY <1>2 DEF R
  <1>4. QED
    BY <1>3

\* The input of a task, and the tasks by their kind.
LEMMA TaskKinds ==
    /\ \A r \in Bars : <<"bars", r>> \in Tasks /\ <<"bars", r>> \in Inputs /\ <<"bars", r>> # Calendar
    /\ \A r \in News : <<"news", r>> \in Tasks /\ <<"news", r>> \in AlwaysRequired
                       /\ <<"news", r>> \in Inputs /\ <<"news", r>> # Calendar
    /\ \A n \in DOMAIN Calendars : <<"calendar", Calendars[n]>> \in Tasks
    /\ \A t \in Tasks : \/ \E r \in Bars : t = <<"bars", r>>
                        \/ \E r \in News : t = <<"news", r>>
                        \/ \E r \in Equities : t = <<"equity", r>>
                        \/ \E n \in DOMAIN Calendars : t = <<"calendar", Calendars[n]>>
    /\ \A i \in Inputs : \/ i = Calendar
                         \/ \E r \in Bars : i = <<"bars", r>>
                         \/ \E r \in News : i = <<"news", r>>
    /\ Calendar \in AlwaysRequired /\ Calendar \in Inputs
  BY DEF Tasks, Inputs, AlwaysRequired, MarketInputs, Calendar, Range

\* Evidence of a task is well formed: only usable evidence carries facts, and
\* they are facts of the task, fetched at a time of the model.
WellFormed(e, t) ==
    /\ e = Evidence(e.status, e.facts)
    /\ e.status \notin Good => e.facts = {}
    /\ \A v \in e.facts : v.task = t /\ v.at \in Nat

Timed(s) == \A v \in s : v.at \in Nat

LEMMA CutoffType == \A d \in Nat \ {0} : CutoffOf(d) \in Nat
  BY InputAssumption DEF CutoffOf

LEMMA FailingForm ==
    ASSUME NEW status, status \notin Good, NEW t
    PROVE  WellFormed(Failing(status), t) /\ Failing(status).status \notin Good
           /\ Failing(status).facts = {}
  BY DEF WellFormed, Failing, Evidence

LEMMA UsedForm ==
    ASSUME NEW status, NEW t, NEW used, \A v \in used : v.task = t /\ v.at \in Nat
    PROVE  /\ WellFormed(Used(status, used), t)
           /\ Used(status, used).status = status
           /\ status \in Good => Used(status, used).facts = used
  BY DEF WellFormed, Used, Evidence, Good

\* What an open market's usable evidence promises.
MarketPromise(facts, r, d) ==
    \A n \in Names[r] : \E v \in facts :
        /\ v.task = <<"bars", r>> /\ v.name = n /\ v.day = PreviousSession(r, d)
        /\ v.at + MarketAge >= CutoffOf(d)

LEMMA MarketEvidenceForm ==
    ASSUME NEW s, Timed(s), NEW r \in Bars, NEW d \in Nat \ {0}, NEW read, NEW asOf
    PROVE  LET e == MarketEvidence(s, <<"bars", r>>, d, read, asOf)
           IN  /\ WellFormed(e, <<"bars", r>>)
               /\ e.status \in Good => MarketPromise(e.facts, r, d)
  <1> DEFINE t == <<"bars", r>>
             cutoff == CutoffOf(d)
             bars == BarsAsOf(s, t, d, read, cutoff)
             used == {v \in bars : \A w \in bars : w.name = v.name => w.day <= v.day}
             missing == Names[r] \ {v.name : v \in used}
             late == LateInstruments(s, t, d, read, asOf)
             status == SourceStatus(used, cutoff, MarketAge, Revised(s, used, cutoff))
             e == MarketEvidence(s, t, d, read, asOf)
  <1>0. t[1] = "bars" /\ t[2] = r /\ cutoff \in Nat
    BY CutoffType
  <1>1. \A v \in used : v.task = t /\ v.at \in Nat
    BY DEF BarsAsOf, Own, AsOf, Timed
  <1>2. e = IF read = {} THEN Failing("missing")
            ELSE IF d \notin Covered THEN Failing("unavailable")
            ELSE IF missing # {} THEN Failing(IF missing \subseteq late THEN "late" ELSE "missing")
            ELSE IF \E v \in used : v.day # PreviousSession(r, d) THEN Failing("stale")
            ELSE Used(status, used)
    BY <1>0 DEF MarketEvidence
  <1> HIDE DEF e, used, missing, late, status, bars
  <1>3. /\ WellFormed(Failing("missing"), t) /\ Failing("missing").status \notin Good
        /\ WellFormed(Failing("unavailable"), t) /\ Failing("unavailable").status \notin Good
        /\ WellFormed(Failing("late"), t) /\ Failing("late").status \notin Good
        /\ WellFormed(Failing("stale"), t) /\ Failing("stale").status \notin Good
    BY FailingForm DEF Good
  <1>4. WellFormed(Used(status, used), t) /\ Used(status, used).status = status
        /\ (status \in Good => Used(status, used).facts = used)
    BY <1>1, UsedForm
  <1>5. WellFormed(e, t)
    BY <1>2, <1>3, <1>4
  <1>6. ASSUME e.status \in Good PROVE MarketPromise(e.facts, r, d)
    <2>1. /\ missing = {} /\ ~ \E v \in used : v.day # PreviousSession(r, d)
          /\ status \in Good /\ e.facts = used
      BY <1>2, <1>3, <1>4, <1>6
    <2>2. \A v \in used : ~(v.at + MarketAge < cutoff)
      BY <2>1 DEF status, SourceStatus, Good
    <2>3. \A v \in used : v.at + MarketAge >= cutoff
      BY <1>0, <1>1, <2>2, InputAssumption
    <2>4. \A n \in Names[r] : \E v \in used : v.name = n
      BY <2>1 DEF missing
    <2>5. QED
      BY <1>1, <2>1, <2>3, <2>4 DEF MarketPromise
  <1>7. QED
    BY <1>5, <1>6 DEF e

\* What a headlines input's usable evidence promises.
NewsPromise(facts, r, d) ==
    \E v \in facts : v.task = <<"news", r>> /\ v.day + 1 >= d /\ v.at + NewsAge >= CutoffOf(d)

LEMMA NewsEvidenceForm ==
    ASSUME NEW s, Timed(s), NEW r \in News, NEW d \in Nat \ {0}, NEW read, NEW asOf
    PROVE  LET e == NewsEvidence(s, <<"news", r>>, d, read, asOf)
           IN  /\ WellFormed(e, <<"news", r>>)
               /\ e.status \in Good => NewsPromise(e.facts, r, d)
  <1> DEFINE t == <<"news", r>>
             cutoff == CutoffOf(d)
             recent == {v \in Own(s, t, read) : v.day + 1 >= d}
             used == {v \in recent : v.at <= cutoff}
             late == IF \E v \in recent : v.at <= asOf THEN "late" ELSE "missing"
             status == SourceStatus(used, cutoff, NewsAge, FALSE)
             e == NewsEvidence(s, t, d, read, asOf)
  <1>0. cutoff \in Nat
    BY CutoffType
  <1>1. \A v \in used : v.task = t /\ v.at \in Nat /\ v.day + 1 >= d
    BY DEF Own, Timed
  <1>2. e = IF used = {} THEN Failing(late) ELSE Used(status, used)
    BY DEF NewsEvidence
  <1>3. late \notin Good
    BY DEF Good
  <1> HIDE DEF e, used, late, status, recent
  <1>4. WellFormed(Failing(late), t) /\ Failing(late).status \notin Good
    BY <1>3, FailingForm
  <1>5. WellFormed(Used(status, used), t) /\ Used(status, used).status = status
        /\ (status \in Good => Used(status, used).facts = used)
    BY <1>1, UsedForm
  <1>6. WellFormed(e, t)
    BY <1>2, <1>4, <1>5
  <1>7. ASSUME e.status \in Good PROVE NewsPromise(e.facts, r, d)
    <2>1. used # {} /\ status \in Good /\ e.facts = used
      BY <1>2, <1>4, <1>5, <1>7
    <2>2. \A v \in used : ~(v.at + NewsAge < cutoff)
      BY <2>1 DEF status, SourceStatus, Good
    <2>3. \A v \in used : v.at + NewsAge >= cutoff
      BY <1>0, <1>1, <2>2, InputAssumption
    <2>4. QED
      BY <1>1, <2>1, <2>3 DEF NewsPromise
  <1>8. QED
    BY <1>6, <1>7 DEF e

LEMMA CalendarEvidenceForm ==
    ASSUME NEW s, Timed(s), NEW t, NEW d \in Nat \ {0}, NEW read, NEW asOf
    PROVE  LET e == CalendarEvidence(s, t, d, read, asOf)
           IN  /\ WellFormed(e, t)
               /\ e.status \in Good => e.facts # {}
  <1> DEFINE cutoff == CutoffOf(d)
             used == ReleasesAsOf(s, t, d, read, cutoff)
             status == IF Revised(s, used, cutoff) THEN "revised" ELSE "available"
             e == CalendarEvidence(s, t, d, read, asOf)
  <1>1. \A v \in used : v.task = t /\ v.at \in Nat
    BY DEF ReleasesAsOf, Own, AsOf, Timed
  <1>2. NoReleases(t, d) # {} /\ \A v \in NoReleases(t, d) : v.task = t /\ v.at \in Nat
    BY CutoffType DEF NoReleases
  <1>3. e = IF used # {} THEN Evidence(status, used)
            ELSE IF LateRelease(s, t, d, read, asOf) THEN Failing("late")
            ELSE Evidence("available", NoReleases(t, d))
    BY DEF CalendarEvidence
  <1>4. status \in Good
    BY DEF Good
  <1> HIDE DEF e, used, status
  <1>5. /\ WellFormed(Evidence(status, used), t) /\ Evidence(status, used).facts = used
        /\ WellFormed(Evidence("available", NoReleases(t, d)), t)
        /\ Evidence("available", NoReleases(t, d)).facts = NoReleases(t, d)
    BY <1>1, <1>2, <1>4 DEF WellFormed, Evidence, Good
  <1>6. WellFormed(Failing("late"), t) /\ Failing("late").status \notin Good
    BY FailingForm DEF Good
  <1>7. QED
    BY <1>2, <1>3, <1>5, <1>6 DEF e

\* What any input's usable evidence promises about the task it comes from.
TaskPromise(res, facts, t, d) ==
    /\ res.status = "succeeded" /\ ~Rejections(res)
    /\ \A r \in Bars : t = <<"bars", r>> => MarketPromise(facts, r, d)
    /\ \A r \in News : t = <<"news", r>> => NewsPromise(facts, r, d)
    /\ t[1] = "calendar" => facts # {}

LEMMA TaskEvidenceForm ==
    ASSUME NEW s, Timed(s), NEW t \in Tasks, t[1] # "equity", NEW d \in Nat \ {0},
           NEW res, NEW asOf
    PROVE  LET e == TaskEvidence(s, t, d, res, asOf)
           IN  /\ WellFormed(e, t)
               /\ e.status \in Good => TaskPromise(res, e.facts, t, d)
  <1> DEFINE e == TaskEvidence(s, t, d, res, asOf)
             p == TaskProblem(res)
  <1>1. /\ p \in {"none", "quarantined", "retryable", "unavailable"}
        /\ p = "none" => res.status = "succeeded" /\ ~Rejections(res)
    BY DEF TaskProblem
  <1>2. p # "none" => e = Failing(p)
    BY DEF TaskEvidence
  <1>3. /\ \A r \in Bars : p = "none" /\ t = <<"bars", r>> => e = MarketEvidence(s, t, d, res.read, asOf)
        /\ \A r \in News : p = "none" /\ t = <<"news", r>> => e = NewsEvidence(s, t, d, res.read, asOf)
        /\ p = "none" /\ t[1] = "calendar" => e = CalendarEvidence(s, t, d, res.read, asOf)
    BY DEF TaskEvidence
  <1> HIDE DEF e, p
  <1>4. CASE p # "none"
    BY <1>1, <1>2, <1>4, FailingForm DEF Good, e
  <1>5. CASE p = "none" /\ \E r \in Bars : t = <<"bars", r>>
    <2>1. PICK r \in Bars : t = <<"bars", r>>
      BY <1>5
    <2>2. WellFormed(e, t) /\ (e.status \in Good => MarketPromise(e.facts, r, d))
      BY <1>3, <1>5, <2>1, MarketEvidenceForm
    <2>3. \A x \in Bars : t = <<"bars", x>> => x = r
      BY <2>1
    <2>4. t[1] = "bars" /\ \A x \in News : t # <<"news", x>>
      BY <2>1
    <2>5. QED
      BY <1>1, <1>5, <2>2, <2>3, <2>4 DEF TaskPromise, e
  <1>6. CASE p = "none" /\ \E r \in News : t = <<"news", r>>
    <2>1. PICK r \in News : t = <<"news", r>>
      BY <1>6
    <2>2. WellFormed(e, t) /\ (e.status \in Good => NewsPromise(e.facts, r, d))
      BY <1>3, <1>6, <2>1, NewsEvidenceForm
    <2>3. \A x \in News : t = <<"news", x>> => x = r
      BY <2>1
    <2>4. t[1] = "news" /\ \A x \in Bars : t # <<"bars", x>>
      BY <2>1
    <2>5. QED
      BY <1>1, <1>6, <2>2, <2>3, <2>4 DEF TaskPromise, e
  <1>7. CASE p = "none" /\ \E n \in DOMAIN Calendars : t = <<"calendar", Calendars[n]>>
    <2>1. t[1] = "calendar" /\ (\A x \in Bars : t # <<"bars", x>>) /\ (\A x \in News : t # <<"news", x>>)
      BY <1>7
    <2>2. WellFormed(e, t) /\ (e.status \in Good => e.facts # {})
      BY <1>3, <1>7, <2>1, CalendarEvidenceForm
    <2>3. QED
      BY <1>1, <1>7, <2>1, <2>2 DEF TaskPromise, e
  <1>8. QED
    <2>1. ~ \E r \in Equities : t = <<"equity", r>>
      OBVIOUS
    <2>2. QED
      BY <1>4, <1>5, <1>6, <1>7, <2>1, TaskKinds DEF e

\* The calendar input is usable only if each region's part is, and has all
\* their facts (_global_calendar_evidence).
LEMMA GlobalCalendarForm ==
    ASSUME NEW parts, DOMAIN parts \subseteq Nat
    PROVE  LET e == GlobalCalendar(parts)
           IN  /\ e.required = TRUE
               /\ e = Evidence(e.status, e.facts)
               /\ e.status \notin Good => e.facts = {}
               /\ e.status \in Good =>
                    /\ \A n \in DOMAIN parts : parts[n].status \in Good
                    /\ e.facts = UNION {parts[n].facts : n \in DOMAIN parts}
  <1> DEFINE bad == {n \in DOMAIN parts : parts[n].status \notin {"available", "revised"}}
             first == CHOOSE i \in bad : \A j \in bad : i <= j
             all == UNION {parts[n].facts : n \in DOMAIN parts}
             status == IF \E i \in DOMAIN parts : parts[i].status = "revised"
                       THEN "revised" ELSE "available"
             e == GlobalCalendar(parts)
  <1>1. e = IF bad # {} THEN Failing(parts[first].status) ELSE Evidence(status, all)
    BY DEF GlobalCalendar
  <1>2. status \in Good
    BY DEF Good
  <1>3. bad # {} => first \in bad
    <2>1. bad # {} => \E i \in bad : \A j \in bad : i <= j
      BY LeastElement
    <2>2. QED
      BY <2>1
  <1>4. bad # {} => parts[first].status \notin Good
    BY <1>3 DEF Good
  <1>5. bad = {} => \A n \in DOMAIN parts : parts[n].status \in Good
    BY DEF Good
  <1> HIDE DEF e, bad, first, all, status
  <1>6. /\ Evidence(status, all).status = status /\ Evidence(status, all).facts = all
        /\ Evidence(status, all).required = TRUE
    BY DEF Evidence
  <1>7. /\ Failing(parts[first].status).status = parts[first].status
        /\ Failing(parts[first].status).facts = {}
        /\ Failing(parts[first].status).required = TRUE
        /\ Failing(parts[first].status) = Evidence(parts[first].status, {})
    BY DEF Failing, Evidence
  <1>8. QED
    BY <1>1, <1>2, <1>4, <1>5, <1>6, <1>7 DEF e, all

\* What collect returns: well-formed evidence for every input, and what the
\* usable ones promise about their tasks.
Sound(ev, results, d) ==
    /\ ev = [i \in Inputs |-> ev[i]]
    /\ \A i \in Inputs :
        /\ ev[i] = Evidence(ev[i].status, ev[i].facts)
        /\ ev[i].status \notin Good => ev[i].facts = {}
        /\ \A v \in ev[i].facts : v.at \in Nat /\ v.task[1] # "equity"
    /\ \A i \in Inputs : i # Calendar /\ ev[i].status \in Good => TaskPromise(results[i], ev[i].facts, i, d)
    /\ ev[Calendar].status \in Good =>
        /\ ev[Calendar].facts # {}
        /\ \A n \in DOMAIN Calendars :
              LET res == results[<<"calendar", Calendars[n]>>]
              IN  res.status = "succeeded" /\ ~Rejections(res)

LEMMA CalendarsDomain == DOMAIN Calendars \subseteq Nat /\ DOMAIN Calendars # {}
  <1>1. Len(Calendars) \in Nat /\ DOMAIN Calendars = 1 .. Len(Calendars)
    BY InputAssumption
  <1>2. Len(Calendars) # 0
    BY InputAssumption
  <1>3. QED
    BY <1>1, <1>2

LEMMA CollectForm ==
    ASSUME NEW s, Timed(s), NEW d \in Nat \ {0}, NEW results, NEW asOf
    PROVE  Sound(Collect(s, d, results, asOf), results, d)
  <1> DEFINE C(n) == <<"calendar", Calendars[n]>>
             parts == [n \in DOMAIN Calendars |-> TaskEvidence(s, C(n), d, results[C(n)], asOf)]
             ev == Collect(s, d, results, asOf)
  <1>1. /\ ev = [i \in Inputs |-> ev[i]]
        /\ ev[Calendar] = GlobalCalendar(parts)
        /\ \A i \in Inputs : i # Calendar => ev[i] = TaskEvidence(s, i, d, results[i], asOf)
    BY TaskKinds DEF Collect
  <1>2. \A t \in Tasks : t[1] # "equity" =>
            LET e == TaskEvidence(s, t, d, results[t], asOf)
            IN  /\ WellFormed(e, t)
                /\ e.status \in Good => TaskPromise(results[t], e.facts, t, d)
    BY TaskEvidenceForm
  <1>3. DOMAIN Calendars \subseteq Nat /\ DOMAIN Calendars # {}
    BY CalendarsDomain
  <1>4. \A i \in Inputs : i # Calendar =>
            /\ i \in Tasks /\ i[1] # "equity"
            /\ WellFormed(ev[i], i)
            /\ ev[i].status \in Good => TaskPromise(results[i], ev[i].facts, i, d)
    <2>1. \A i \in Inputs : i # Calendar => i \in Tasks /\ i[1] # "equity"
      BY TaskKinds
    <2>2. QED
      BY <1>1, <1>2, <2>1
  <1>5. \A n \in DOMAIN parts :
            /\ WellFormed(parts[n], C(n))
            /\ parts[n].status \in Good => TaskPromise(results[C(n)], parts[n].facts, C(n), d)
    <2>1. \A n \in DOMAIN Calendars : C(n) \in Tasks /\ C(n)[1] # "equity"
      BY TaskKinds
    <2>2. \A n \in DOMAIN parts : parts[n] = TaskEvidence(s, C(n), d, results[C(n)], asOf)
      OBVIOUS
    <2> HIDE DEF C, parts
    <2>3. DOMAIN parts = DOMAIN Calendars
      BY DEF parts
    <2>4. QED
      BY <1>2, <2>1, <2>2, <2>3
  <1>6. \A n \in DOMAIN parts : C(n)[1] = "calendar"
    OBVIOUS
  <1>7. DOMAIN parts = DOMAIN Calendars
    OBVIOUS
  <1> HIDE DEF ev, parts, C
  <1>8. /\ ev[Calendar] = Evidence(ev[Calendar].status, ev[Calendar].facts)
        /\ ev[Calendar].status \notin Good => ev[Calendar].facts = {}
        /\ ev[Calendar].status \in Good =>
             /\ \A n \in DOMAIN parts : parts[n].status \in Good
             /\ ev[Calendar].facts = UNION {parts[n].facts : n \in DOMAIN parts}
    <2>1. DOMAIN parts \subseteq Nat
      BY <1>3, <1>7
    <2>2. LET e == GlobalCalendar(parts)
          IN  /\ e = Evidence(e.status, e.facts)
              /\ e.status \notin Good => e.facts = {}
              /\ e.status \in Good =>
                   /\ \A n \in DOMAIN parts : parts[n].status \in Good
                   /\ e.facts = UNION {parts[n].facts : n \in DOMAIN parts}
      BY <2>1, GlobalCalendarForm
    <2>3. QED
      BY <1>1, <2>2
  <1>9. \A n \in DOMAIN parts : \A v \in parts[n].facts : v.at \in Nat /\ v.task[1] # "equity"
    BY <1>5, <1>6 DEF WellFormed
  <1>10. \A v \in ev[Calendar].facts : v.at \in Nat /\ v.task[1] # "equity"
    BY <1>8, <1>9
  <1>11. \A i \in Inputs :
            /\ ev[i] = Evidence(ev[i].status, ev[i].facts)
            /\ ev[i].status \notin Good => ev[i].facts = {}
            /\ \A v \in ev[i].facts : v.at \in Nat /\ v.task[1] # "equity"
    BY <1>4, <1>8, <1>10 DEF WellFormed
  <1>12. ASSUME ev[Calendar].status \in Good
         PROVE  /\ ev[Calendar].facts # {}
                /\ \A n \in DOMAIN Calendars :
                      results[C(n)].status = "succeeded" /\ ~Rejections(results[C(n)])
    <2>1. \A n \in DOMAIN parts : TaskPromise(results[C(n)], parts[n].facts, C(n), d)
      BY <1>5, <1>8, <1>12
    <2>2. \A n \in DOMAIN parts : parts[n].facts # {}
      BY <1>6, <2>1 DEF TaskPromise
    <2>3. QED
      BY <1>3, <1>7, <1>8, <1>12, <2>1, <2>2 DEF TaskPromise
  <1>13. QED
    BY <1>1, <1>4, <1>11, <1>12 DEF Sound, ev, C

----------------------------------------------------------------------------
(* The day policy, the snapshot and the gate. *)

\* The policy of a day agrees with its calendars, so the gate trusts it.
LEMMA PolicyForm ==
    ASSUME NEW d
    PROVE  /\ PolicyAgrees(Policy(d), d)
           /\ Policy(d).required \cap Policy(d).optional = {}
           /\ Policy(d).required \cup Policy(d).optional = Inputs
           /\ AlwaysRequired \subseteq Policy(d).required
           /\ \A r \in Bars : Open(r, d) => <<"bars", r>> \in Policy(d).required
  <1> DEFINE closed == {r \in Bars : MarketDay(r, d) # "scheduled_session"}
             p == Policy(d)
  <1>1. /\ p.type = IF d \in Weekend THEN "weekend"
                    ELSE IF closed # {} THEN "regional_holiday" ELSE "regular"
        /\ p.regions = [r \in Bars |-> MarketDay(r, d)]
        /\ p.required = AlwaysRequired \cup ({"bars"} \X (Bars \ closed))
        /\ p.optional = {"bars"} \X closed
    BY DEF Policy
  <1> HIDE DEF p
  <1>2. p.required \cap p.optional = {}
    BY <1>1, TaskKinds DEF AlwaysRequired, Calendar
  <1>3. p.required \cup p.optional = Inputs
    BY <1>1 DEF Inputs, MarketInputs
  <1>4. p.optional = {i \in MarketInputs : p.regions[i[2]] # "scheduled_session"}
    BY <1>1 DEF MarketInputs
  <1>5. Range(p.regions) = {MarketDay(r, d) : r \in Bars}
    BY <1>1 DEF Range
  <1>6. \A r \in Bars :
            /\ d \in Weekend => MarketDay(r, d) = "weekend_closed"
            /\ d \notin Weekend => MarketDay(r, d) \in {"scheduled_session", "exchange_holiday"}
    BY DEF MarketDay
  <1>7. PolicyAgrees(p, d)
    <2> DEFINE statuses == Range(p.regions)
               Fits == CASE p.type = "regular" -> d \notin Weekend /\ statuses = {"scheduled_session"}
                         [] p.type = "weekend" -> d \in Weekend /\ statuses = {"weekend_closed"}
                         [] p.type = "regional_holiday" ->
                               /\ d \notin Weekend
                               /\ "exchange_holiday" \in statuses
                               /\ statuses \subseteq {"scheduled_session", "exchange_holiday"}
    <2>1. CASE d \in Weekend
      <3>1. statuses = {"weekend_closed"}
        BY <1>5, <1>6, <2>1, InputAssumption
      <3>2. p.type = "weekend"
        BY <1>1, <2>1
      <3>3. Fits
        BY <2>1, <3>1, <3>2
      <3>4. QED
        BY <1>1, <1>2, <1>3, <1>4, <3>3 DEF PolicyAgrees
    <2>2. CASE d \notin Weekend /\ closed # {}
      <3>1. "exchange_holiday" \in statuses /\ statuses \subseteq {"scheduled_session", "exchange_holiday"}
        BY <1>5, <1>6, <2>2
      <3>2. p.type = "regional_holiday"
        BY <1>1, <2>2
      <3>3. Fits
        BY <2>2, <3>1, <3>2
      <3>4. QED
        BY <1>1, <1>2, <1>3, <1>4, <3>3 DEF PolicyAgrees
    <2>3. CASE d \notin Weekend /\ closed = {}
      <3>1. statuses = {"scheduled_session"}
        BY <1>5, <2>3, InputAssumption
      <3>2. p.type = "regular"
        BY <1>1, <2>3
      <3>3. Fits
        BY <2>3, <3>1, <3>2
      <3>4. QED
        BY <1>1, <1>2, <1>3, <1>4, <3>3 DEF PolicyAgrees
    <2>4. QED
      BY <2>1, <2>2, <2>3
  <1>8. QED
    BY <1>1, <1>2, <1>3, <1>7 DEF Open, p

Fields == {"status", "required", "facts"}

LEMMA CutoffSafeForm ==
    ASSUME NEW e, DOMAIN e = Fields, NEW d, e.status \notin Good => e.facts = {}
    PROVE  LET c == CutoffSafe(e, d)
           IN  /\ c.required = e.required
               /\ c.status \in Good =>
                    /\ c.status = e.status /\ c.facts = e.facts
                    /\ ~ \E v \in e.facts : v.at > CutoffOf(d)
               /\ c.status \notin Good => c.facts = {}
  <1>1. CASE e.status \in Good /\ \E v \in e.facts : v.at > CutoffOf(d)
    <2>1. CutoffSafe(e, d) = [e EXCEPT !.status = "late", !.facts = {}]
      BY <1>1 DEF CutoffSafe, Good
    <2>2. QED
      BY <2>1 DEF Fields, Good
  <1>2. CASE ~(e.status \in Good /\ \E v \in e.facts : v.at > CutoffOf(d))
    <2>1. CutoffSafe(e, d) = e
      BY <1>2 DEF CutoffSafe, Good
    <2>2. QED
      BY <1>2, <2>1
  <1>3. QED
    BY <1>1, <1>2

LEMMA ClosedMarketForm ==
    ASSUME NEW e, DOMAIN e = Fields, e.status \notin Good => e.facts = {}
    PROVE  LET c == ClosedMarket(e)
           IN  /\ DOMAIN c = Fields /\ c.required = FALSE
               /\ c.status \notin Good => c.facts = {}
               /\ c.facts \subseteq e.facts
  <1>1. CASE e.status \in Good
    <2>1. ClosedMarket(e) = [e EXCEPT !.required = FALSE]
      BY <1>1 DEF ClosedMarket, Good
    <2>2. QED
      BY <1>1, <2>1 DEF Fields
  <1>2. CASE e.status \notin Good
    <2>1. ClosedMarket(e) = [status |-> "unavailable", required |-> FALSE, facts |-> {}]
      BY <1>2 DEF ClosedMarket, Good
    <2>2. QED
      BY <2>1 DEF Fields
  <1>3. QED
    BY <1>1, <1>2

\* What the snapshot of sound evidence says of each input, and carries.
LEMMA SnapshotForm ==
    ASSUME NEW ev, NEW results, NEW d \in Nat \ {0}, Sound(ev, results, d)
    PROVE  LET p == Policy(d)
               s == Snapshot(d, ApplyPolicy(ev, p))
           IN  /\ DOMAIN s.quality = Inputs
               /\ \A v \in s.facts : v.at <= CutoffOf(d) /\ v.task[1] # "equity"
               /\ \A i \in p.required :
                    /\ s.quality[i].required = TRUE
                    /\ s.quality[i].status \in Good =>
                         ev[i].status \in Good /\ ev[i].facts \subseteq s.facts
               /\ \A i \in p.optional : s.quality[i].required = FALSE
  <1> DEFINE p == Policy(d)
             ap == ApplyPolicy(ev, p)
             safe == [i \in Inputs |-> CutoffSafe(ap[i], d)]
             s == Snapshot(d, ap)
             Closed(e) == [status |-> "unavailable", required |-> FALSE, facts |-> {}]
  <1>0. CutoffOf(d) \in Nat /\ p.required \subseteq Inputs /\ p.optional \subseteq Inputs
        /\ p.required \cap p.optional = {}
    BY CutoffType, PolicyForm
  <1>1. DOMAIN ev = Inputs
    BY DEF Sound
  <1>2. \A i \in Inputs : ap[i] = IF i \in p.optional THEN ClosedMarket(ev[i]) ELSE ev[i]
    BY <1>1 DEF ApplyPolicy
  <1>3. DOMAIN ap = Inputs
    BY <1>1 DEF ApplyPolicy
  <1>4. /\ s.quality = [i \in Inputs |-> [status |-> safe[i].status, required |-> safe[i].required]]
        /\ s.facts = UNION {safe[i].facts : i \in Inputs}
    BY <1>3 DEF Snapshot
  <1>5. \A i \in Inputs :
            /\ ev[i].required = TRUE /\ DOMAIN ev[i] = Fields
            /\ ev[i].status \notin Good => ev[i].facts = {}
            /\ \A v \in ev[i].facts : v.at \in Nat /\ v.task[1] # "equity"
    BY DEF Sound, Evidence, Fields
  <1> HIDE DEF ap, s, p
  <1>6. \A i \in Inputs :
            /\ DOMAIN ap[i] = Fields
            /\ i \in p.optional => ap[i].required = FALSE
            /\ i \notin p.optional => ap[i] = ev[i]
            /\ ap[i].status \notin Good => ap[i].facts = {}
            /\ ap[i].facts \subseteq ev[i].facts
    <2>1. ASSUME NEW i \in Inputs, i \in p.optional
          PROVE  /\ DOMAIN ap[i] = Fields /\ ap[i].required = FALSE
                 /\ ap[i].status \notin Good => ap[i].facts = {}
                 /\ ap[i].facts \subseteq ev[i].facts
      <3>1. ap[i] = ClosedMarket(ev[i])
        BY <1>2, <2>1
      <3>2. DOMAIN ev[i] = Fields /\ (ev[i].status \notin Good => ev[i].facts = {})
        BY <1>5, <2>1
      <3>3. QED
        BY <3>1, <3>2, ClosedMarketForm
    <2>2. ASSUME NEW i \in Inputs, i \notin p.optional PROVE ap[i] = ev[i]
      BY <1>2, <2>2
    <2>3. QED
      BY <1>5, <2>1, <2>2
  <1>7. \A i \in Inputs :
            /\ safe[i].required = ap[i].required
            /\ safe[i].status \in Good =>
                 /\ safe[i].status = ap[i].status /\ safe[i].facts = ap[i].facts
                 /\ ~ \E v \in ap[i].facts : v.at > CutoffOf(d)
            /\ safe[i].status \notin Good => safe[i].facts = {}
    BY <1>6, CutoffSafeForm
  <1> HIDE DEF safe
  <1>8. \A i \in Inputs : \A v \in safe[i].facts : v.at <= CutoffOf(d) /\ v.task[1] # "equity"
    BY <1>0, <1>5, <1>6, <1>7
  <1>9. DOMAIN s.quality = Inputs /\ \A i \in Inputs :
            s.quality[i].status = safe[i].status /\ s.quality[i].required = safe[i].required
    BY <1>4
  <1>10. ASSUME NEW i \in p.required
         PROVE  /\ s.quality[i].required = TRUE
                /\ s.quality[i].status \in Good => ev[i].status \in Good /\ ev[i].facts \subseteq s.facts
    <2>1. i \in Inputs /\ i \notin p.optional
      BY <1>0, <1>10
    <2>2. ap[i] = ev[i] /\ ev[i].required = TRUE
      BY <1>5, <1>6, <2>1
    <2>3. s.quality[i].required = TRUE /\ s.quality[i].status = safe[i].status
      BY <1>7, <1>9, <2>1, <2>2
    <2>4. safe[i].facts \subseteq s.facts
      BY <1>4, <2>1
    <2>5. QED
      BY <1>7, <2>1, <2>2, <2>3, <2>4
  <1>11. \A i \in p.optional : s.quality[i].required = FALSE
    BY <1>0, <1>6, <1>7, <1>9
  <1>12. \A v \in s.facts : v.at <= CutoffOf(d) /\ v.task[1] # "equity"
    BY <1>4, <1>8
  <1>13. QED
    BY <1>9, <1>10, <1>11, <1>12 DEF s, ap, p

\* A snapshot that the policy was applied to.
Judged(s, d) ==
    /\ DOMAIN s.quality = Inputs
    /\ \A i \in Policy(d).required : s.quality[i].required = TRUE
    /\ \A i \in Policy(d).optional : s.quality[i].required = FALSE

\* The gate passes or degrades a snapshot only if all required inputs are
\* usable, and then whatever the optional ones lack.
LEMMA GateForm ==
    ASSUME NEW s, NEW d, Judged(s, d)
    PROVE  /\ Quality(s, d) \in {"passed", "degraded"} =>
                \A i \in Policy(d).required : s.quality[i].status \in Good
           /\ s.facts # {} /\ (\A i \in Policy(d).required : s.quality[i].status \in Good) =>
                Quality(s, d) \in {"passed", "degraded"}
  <1> DEFINE p == Policy(d)
             Must(i) == i \in p.required \/ s.quality[i].required
             Closed == {i \in p.optional : i \notin DOMAIN s.quality \/ s.quality[i].status = "available"}
             Declared == {i \in p.required \cap DOMAIN s.quality : ~s.quality[i].required}
             Unwell == {i \in DOMAIN s.quality : s.quality[i].status # "available"}
             Blocked == Declared # {} \/ ~(p.required \subseteq DOMAIN s.quality) \/ s.facts = {}
             issues == Issues(s, d)
  <1>0. /\ PolicyAgrees(p, d) /\ p.required \cup p.optional = Inputs /\ p.required \cap p.optional = {}
    BY PolicyForm
  <1>1. issues = (IF Blocked THEN {Issue("blocking", TRUE)} ELSE {})
                 \cup {Issue("blocking", FALSE) : i \in Closed}
                 \cup {Issue(IssueOf(s.quality[i].status), Must(i)) : i \in Unwell}
    BY <1>0 DEF Issues
  <1>2. \A i \in Inputs : Must(i) <=> i \in p.required
    BY <1>0 DEF Judged
  <1>3. Quality(s, d) = IF Issue("blocking", TRUE) \in issues THEN "blocked"
                        ELSE IF Issue("retryable", TRUE) \in issues THEN "retryable"
                        ELSE IF issues # {} THEN "degraded" ELSE "passed"
    BY DEF Quality, Decision
  <1>4. Declared = {} /\ p.required \subseteq DOMAIN s.quality
    BY <1>0 DEF Judged
  <1>5. ASSUME Quality(s, d) \in {"passed", "degraded"}, NEW i \in p.required
        PROVE  s.quality[i].status \in Good
    <2>1. Issue("blocking", TRUE) \notin issues /\ Issue("retryable", TRUE) \notin issues
      BY <1>3, <1>5
    <2>2. CASE s.quality[i].status = "available"
      BY <2>2 DEF Good
    <2>3. CASE s.quality[i].status # "available"
      <3>1. i \in Unwell /\ Must(i) = TRUE
        BY <1>4, <2>3
      <3>2. Issue(IssueOf(s.quality[i].status), Must(i)) \in issues
        BY <1>1, <3>1
      <3>3. Issue(IssueOf(s.quality[i].status), TRUE) \in issues
        BY <3>1, <3>2
      <3>4. IssueOf(s.quality[i].status) \notin {"blocking", "retryable"}
        BY <2>1, <3>3
      <3>5. QED
        BY <3>4 DEF IssueOf, Good
    <2>4. QED
      BY <2>2, <2>3
  <1>6. ASSUME s.facts # {}, \A i \in p.required : s.quality[i].status \in Good,
               NEW code \in {"blocking", "retryable"}
        PROVE  Issue(code, TRUE) \notin issues
    <2>1. ~Blocked
      BY <1>4, <1>6
    <2>2. Issue(code, TRUE) # Issue("blocking", FALSE)
      BY DEF Issue
    <2>3. ASSUME NEW i \in Unwell PROVE Issue(IssueOf(s.quality[i].status), Must(i)) # Issue(code, TRUE)
      <3>1. CASE i \in p.required
        <4>1. s.quality[i].status = "revised"
          BY <1>6, <2>3, <3>1 DEF Good
        <4>2. IssueOf(s.quality[i].status) = "revised"
          BY <4>1 DEF IssueOf
        <4>3. QED
          BY <4>2 DEF Issue
      <3>2. CASE i \notin p.required
        <4>1. Must(i) # TRUE
          BY <1>2, <2>3, <3>2 DEF Judged
        <4>2. QED
          BY <4>1 DEF Issue
      <3>3. QED
        BY <3>1, <3>2
    <2>4. QED
      BY <1>1, <2>1, <2>2, <2>3
  <1>7. QED
    BY <1>3, <1>5, <1>6

LEMMA CombinedForm ==
    ASSUME NEW bundle, NEW quality
    PROVE  Combined(bundle, quality) \in {"succeeded", "degraded"} =>
               quality \notin {"blocked", "retryable"}
  BY DEF Combined

LEMMA QualityValues ==
    ASSUME NEW s, NEW d
    PROVE  Quality(s, d) \in {"blocked", "retryable", "degraded", "passed"}
  BY DEF Quality, Decision

\* What a snapshot that may be reported stands on.
Grounded(d, facts, results) ==
    /\ \A v \in facts : v.at <= CutoffOf(d) /\ v.task[1] # "equity"
    /\ \A t \in Needed(d) : results[t].status = "succeeded" /\ ~Rejections(results[t])
    /\ \A r \in Bars : Open(r, d) => MarketPromise(facts, r, d)
    /\ \A r \in News : NewsPromise(facts, r, d)

\* The snapshots that materialize makes of the versions stored at some time.
MadeFrom(s, d, results, asOf, snapshot) ==
    snapshot = Snapshot(d, ApplyPolicy(Collect(s, d, results, asOf), Policy(d)))

LEMMA SnapshotGrounded ==
    ASSUME NEW s, Timed(s), NEW d \in Nat \ {0}, NEW results, NEW asOf, NEW snapshot,
           MadeFrom(s, d, results, asOf, snapshot)
    PROVE  /\ Judged(snapshot, d)
           /\ (\A i \in Policy(d).required : snapshot.quality[i].status \in Good) =>
                snapshot.facts # {} /\ Grounded(d, snapshot.facts, results)
  <1> DEFINE ev == Collect(s, d, results, asOf)
             p == Policy(d)
  <1>1. Sound(ev, results, d)
    BY CollectForm
  <1>2. snapshot = Snapshot(d, ApplyPolicy(ev, p))
    BY DEF MadeFrom
  <1> HIDE DEF ev
  <1>3. /\ DOMAIN snapshot.quality = Inputs
        /\ \A v \in snapshot.facts : v.at <= CutoffOf(d) /\ v.task[1] # "equity"
        /\ \A i \in p.required :
             /\ snapshot.quality[i].required = TRUE
             /\ snapshot.quality[i].status \in Good =>
                  ev[i].status \in Good /\ ev[i].facts \subseteq snapshot.facts
        /\ \A i \in p.optional : snapshot.quality[i].required = FALSE
    BY <1>1, <1>2, SnapshotForm
  <1>4. Judged(snapshot, d)
    BY <1>3 DEF Judged
  <1>5. ASSUME \A i \in p.required : snapshot.quality[i].status \in Good
        PROVE  snapshot.facts # {} /\ Grounded(d, snapshot.facts, results)
    <2>1. \A i \in p.required : ev[i].status \in Good /\ ev[i].facts \subseteq snapshot.facts
      BY <1>3, <1>5
    <2>2. p.required \subseteq Inputs /\ Calendar \in p.required
      BY PolicyForm, TaskKinds
    <2>3. ev[Calendar].facts # {} /\ \A n \in DOMAIN Calendars :
              LET res == results[<<"calendar", Calendars[n]>>]
              IN  res.status = "succeeded" /\ ~Rejections(res)
      BY <1>1, <2>1, <2>2 DEF Sound
    <2>4. \A i \in p.required : i # Calendar => TaskPromise(results[i], ev[i].facts, i, d)
      BY <1>1, <2>1, <2>2 DEF Sound
    <2>5. ASSUME NEW r \in Bars, Open(r, d)
          PROVE  /\ results[<<"bars", r>>].status = "succeeded" /\ ~Rejections(results[<<"bars", r>>])
                 /\ MarketPromise(snapshot.facts, r, d)
      <3>1. <<"bars", r>> \in p.required /\ <<"bars", r>> # Calendar
        BY <2>5, PolicyForm, TaskKinds
      <3>2. TaskPromise(results[<<"bars", r>>], ev[<<"bars", r>>].facts, <<"bars", r>>, d)
        BY <2>4, <3>1
      <3>3. ev[<<"bars", r>>].facts \subseteq snapshot.facts
        BY <2>1, <3>1
      <3>4. QED
        BY <3>2, <3>3 DEF TaskPromise, MarketPromise
    <2>6. ASSUME NEW r \in News
          PROVE  /\ results[<<"news", r>>].status = "succeeded" /\ ~Rejections(results[<<"news", r>>])
                 /\ NewsPromise(snapshot.facts, r, d)
      <3>1. <<"news", r>> \in p.required /\ <<"news", r>> # Calendar
        BY PolicyForm, TaskKinds
      <3>2. TaskPromise(results[<<"news", r>>], ev[<<"news", r>>].facts, <<"news", r>>, d)
        BY <2>4, <3>1
      <3>3. ev[<<"news", r>>].facts \subseteq snapshot.facts
        BY <2>1, <3>1
      <3>4. QED
        BY <3>2, <3>3 DEF TaskPromise, NewsPromise
    <2>7. \A t \in Needed(d) : \/ \E r \in Bars : t = <<"bars", r>> /\ Open(r, d)
                               \/ \E r \in News : t = <<"news", r>>
                               \/ \E n \in DOMAIN Calendars : t = <<"calendar", Calendars[n]>>
      <3> SUFFICES ASSUME NEW t \in Needed(d)
                   PROVE  \/ \E r \in Bars : t = <<"bars", r>> /\ Open(r, d)
                          \/ \E r \in News : t = <<"news", r>>
                          \/ \E n \in DOMAIN Calendars : t = <<"calendar", Calendars[n]>>
        OBVIOUS
      <3>1. t \in Tasks /\ t[1] # "equity" /\ (t[1] = "bars" => Open(t[2], d))
        BY DEF Needed, Required
      <3>2. ~ \E r \in Equities : t = <<"equity", r>>
        BY <3>1
      <3>3. \A r \in Bars : t = <<"bars", r>> => Open(r, d)
        BY <3>1
      <3>4. QED
        BY <3>1, <3>2, <3>3, TaskKinds
    <2>8. \A t \in Needed(d) : results[t].status = "succeeded" /\ ~Rejections(results[t])
      BY <2>3, <2>5, <2>6, <2>7
    <2>9. QED
      BY <1>3, <2>1, <2>2, <2>3, <2>5, <2>6, <2>8 DEF Grounded
  <1>6. QED
    BY <1>4, <1>5

----------------------------------------------------------------------------
(* The invariant of the schedule. *)

WorkFields == {"pc", "date", "began", "n", "results", "snapshot"}
TaskFields == {"status", "begun", "rejected", "left", "read"}
LoopFields == {"date", "tries", "done"}

\* What a process holds of its date is what the checkpoints of the date say,
\* and its snapshot is made of versions that were stored at some time.
WorkOK(w) ==
    LET x == work[w]
    IN  /\ DOMAIN x = WorkFields
        /\ DOMAIN x.results = Tasks
        /\ x.pc \in {"idle", "task", "materialize", "complete"}
        /\ x.pc # "idle" =>
             /\ x.date \in Dates
             /\ \A t \in Tasks : x.results[t].status = "succeeded" =>
                  LET c == tasks[x.date][t]
                  IN  /\ c.status = "done"
                      /\ ~Rejections(x.results[t]) => ~c.rejected /\ ~c.left
        /\ x.pc = "complete" =>
             IF x.date \in Covered
             THEN \E s, asOf : Timed(s) /\ MadeFrom(s, x.date, x.results, asOf, x.snapshot)
             ELSE x.snapshot = NoReport

\* What a report stands on; a finished checkpoint does not change any more.
ReportOK(d) ==
    /\ d \in Covered
    /\ \A v \in report[d].facts : v.at <= CutoffOf(d) /\ v.task[1] # "equity"
    /\ \A t \in Needed(d) : tasks[d][t].status = "done" /\ ~tasks[d][t].rejected /\ ~tasks[d][t].left
    /\ \A r \in Bars : Open(r, d) => MarketPromise(report[d].facts, r, d)
    /\ \A r \in News : NewsPromise(report[d].facts, r, d)

\* A date that is reported, or that an alert was set about.
Answered(d) == d \in Dates /\ (Reported(d) \/ \E a \in alerts : a[1] = d)

Shape ==
    /\ clock \in Nat
    /\ Timed(stored)
    /\ DOMAIN tasks = Dates
    /\ \A d \in Dates : DOMAIN tasks[d] = Tasks /\ \A t \in Tasks : DOMAIN tasks[d][t] = TaskFields
    /\ DOMAIN work = Workers
    /\ DOMAIN loop = Residents /\ \A w \in Residents : DOMAIN loop[w] = LoopFields
    /\ DOMAIN report = Dates

IInv ==
    /\ Shape
    /\ \A w \in Workers : WorkOK(w)
    /\ \A d \in Dates : Reported(d) => ReportOK(d)
    /\ \A w \in Residents : loop[w].done => Answered(loop[w].date)

LEMMA IInvImplies == IInv => ReportIsGrounded /\ NoSilentGiveUp
  <1> SUFFICES ASSUME IInv PROVE ReportIsGrounded /\ NoSilentGiveUp
    OBVIOUS
  <1>1. ReportIsGrounded
    BY DEF IInv, ReportOK, ReportIsGrounded, MarketPromise, NewsPromise
  <1>2. NoSilentGiveUp
    BY DEF IInv, Answered, NoSilentGiveUp
  <1>3. QED
    BY <1>1, <1>2

LEMMA DatesType == Dates \subseteq Nat \ {0}
  <1>1. LastTick \div Ticks \in Nat
    BY InputAssumption, ScheduleAssumption
  <1>2. QED
    BY <1>1 DEF Dates

LEMMA InitIInv == Init => IInv
  <1> SUFFICES ASSUME Init PROVE IInv
    OBVIOUS
  <1>1. Shape
    BY ScheduleAssumption DEF Init, Shape, Timed, FreshTask, TaskFields, Forgotten, LoopFields
  <1>2. ASSUME NEW w \in Workers PROVE WorkOK(w)
    <2>1. work[w] = AtRest
      BY DEF Init
    <2>2. DOMAIN AtRest = WorkFields /\ AtRest.pc = "idle" /\ DOMAIN AtRest.results = Tasks
      BY DEF AtRest, NoResults, WorkFields
    <2>3. QED
      BY <2>1, <2>2 DEF WorkOK
  <1>3. \A d \in Dates : ~Reported(d)
    BY DEF Init, Reported
  <1>4. \A w \in Residents : ~loop[w].done
    BY DEF Init, Forgotten
  <1>5. QED
    BY <1>1, <1>2, <1>3, <1>4 DEF IInv

----------------------------------------------------------------------------
(* A step of one process, by what it leaves alone. *)

\* Checkpoints that are done stay as they are, and so do reports and alerts.
Frozen ==
    /\ \A d \in Dates, t \in Tasks : tasks[d][t].status = "done" => tasks'[d][t] = tasks[d][t]
    /\ \A d \in Dates : Reported(d) => report'[d] = report[d]
    /\ alerts \subseteq alerts'

LEMMA StepOfOne ==
    ASSUME IInv, Shape', Frozen, NEW w,
           \A v \in Workers : v # w => work'[v] = work[v],
           w \in Workers => WorkOK(w)',
           \A d \in Dates : Reported(d)' /\ ~Reported(d) => ReportOK(d)',
           \A v \in Residents : loop'[v].done => loop'[v] = loop[v] \/ Answered(loop[v].date)'
    PROVE  IInv'
  <1>1. ASSUME NEW v \in Workers, v # w PROVE WorkOK(v)'
    <2>1. work'[v] = work[v] /\ WorkOK(v)
      BY <1>1 DEF IInv
    <2>2. work[v].pc # "idle" => \A t \in Tasks :
             tasks[work[v].date][t].status = "done" => tasks'[work[v].date][t] = tasks[work[v].date][t]
      BY <2>1 DEF WorkOK, Frozen
    <2>3. QED
      BY <2>1, <2>2 DEF WorkOK
  <1>2. ASSUME NEW d \in Dates, Reported(d)' PROVE ReportOK(d)'
    <2>1. CASE ~Reported(d)
      BY <1>2, <2>1
    <2>2. CASE Reported(d)
      <3>1. report'[d] = report[d] /\ ReportOK(d)
        BY <2>2 DEF Frozen, IInv
      <3>2. \A t \in Needed(d) : t \in Tasks
        BY DEF Needed
      <3>3. \A t \in Needed(d) : tasks'[d][t] = tasks[d][t]
        BY <3>1, <3>2 DEF Frozen, ReportOK
      <3>4. QED
        BY <3>1, <3>3 DEF ReportOK
    <2>3. QED
      BY <2>1, <2>2
  <1>3. ASSUME NEW d \in Dates, Answered(d) PROVE Answered(d)'
    <2>1. Reported(d) => Reported(d)'
      BY DEF Frozen, Reported
    <2>2. QED
      BY <1>3, <2>1 DEF Frozen, Answered
  <1>4. ASSUME NEW v \in Residents, loop'[v].done PROVE Answered(loop[v].date)'
    <2>1. CASE loop'[v] = loop[v]
      <3>1. Answered(loop[v].date)
        BY <1>4, <2>1 DEF IInv
      <3>2. \A d \in Dates : d = loop[v].date => Answered(d)'
        BY <1>3, <3>1
      <3>3. \E d \in Dates : d = loop[v].date
        BY <3>1 DEF Answered
      <3>4. QED
        BY <2>1, <3>2, <3>3 DEF Answered
    <2>2. QED
      BY <1>4, <2>1
  <1>5. QED
    <2>1. (\A v \in Workers : WorkOK(v))'
      BY <1>1
    <2>2. (\A d \in Dates : Reported(d) => ReportOK(d))'
      BY <1>2
    <2>3. (\A v \in Residents : loop[v].done => Answered(loop[v].date))'
      BY <1>4
    <2>4. QED
      BY <2>1, <2>2, <2>3 DEF IInv
\* What is left alone for the invariant by most steps.
LEMMA Unchanged ==
    ASSUME IInv, \A d \in Dates, t \in Tasks : tasks[d][t].status = "done" => tasks'[d][t] = tasks[d][t],
           UNCHANGED report, alerts \subseteq alerts'
    PROVE  Frozen /\ \A d \in Dates : ~(Reported(d)' /\ ~Reported(d))
  BY DEF Frozen, Reported

\* A result of the bundle is what the checkpoint says.
Matches(res, c) ==
    res.status = "succeeded" =>
        c.status = "done" /\ (~Rejections(res) => ~c.rejected /\ ~c.left)

LEMMA OnwardForm ==
    ASSUME IInv, NEW w \in Workers, work[w].pc = "task", NEW res, Onward(w, res)
    PROVE  /\ DOMAIN work' = Workers
           /\ \A v \in Workers : v # w => work'[v] = work[v]
           /\ DOMAIN work'[w] = WorkFields
           /\ work'[w].pc \in {"task", "materialize"}
           /\ work'[w].date = work[w].date
           /\ DOMAIN work'[w].results = Tasks
           /\ \A t \in Tasks : work'[w].results[t] = IF t = TaskOf(w) THEN res ELSE work[w].results[t]
  <1> DEFINE r == [work[w].results EXCEPT ![TaskOf(w)] = res]
             pc == IF work[w].n = Len(Bundle) THEN "materialize" ELSE "task"
             x == [work[w] EXCEPT !.n = @ + 1, !.results = r, !.pc = pc]
  <1>1. DOMAIN work = Workers /\ DOMAIN work[w] = WorkFields /\ DOMAIN work[w].results = Tasks
    BY DEF IInv, Shape, WorkOK
  <1>2. DOMAIN r = Tasks /\ \A t \in Tasks : r[t] = IF t = TaskOf(w) THEN res ELSE work[w].results[t]
    BY <1>1
  <1>3. pc \in {"task", "materialize"}
    OBVIOUS
  <1>4. work' = [work EXCEPT ![w].n = @ + 1, ![w].results = r, ![w].pc = pc]
    BY DEF Onward, TaskOf
  <1> HIDE DEF r, pc
  <1>5. DOMAIN work' = Workers /\ \A v \in Workers : v # w => work'[v] = work[v]
    BY <1>1, <1>4
  <1>6. work'[w] = x
    BY <1>1, <1>4
  <1>7. DOMAIN x = WorkFields /\ x.pc = pc /\ x.date = work[w].date /\ x.results = r
    BY <1>1 DEF WorkFields
  <1>8. QED
    BY <1>2, <1>3, <1>5, <1>6, <1>7

\* A task's result is taken: the step keeps the invariant if finished
\* checkpoints stay and the result is what the task's checkpoint says now.
LEMMA OnwardIInv ==
    ASSUME IInv, NEW w \in Workers, AtTask(w), NEW res, Onward(w, res),
           DOMAIN tasks' = Dates,
           \A d \in Dates : DOMAIN tasks'[d] = Tasks /\ \A t \in Tasks : DOMAIN tasks'[d][t] = TaskFields,
           \A d \in Dates, t \in Tasks : tasks[d][t].status = "done" => tasks'[d][t] = tasks[d][t],
           TaskOf(w) \in Tasks => Matches(res, tasks'[work[w].date][TaskOf(w)]),
           Timed(stored')
    PROVE  IInv'
  <1>1. work[w].pc = "task" /\ UNCHANGED <<clock, source, loop, locked, report, alerts>>
    BY DEF AtTask
  <1>2. /\ DOMAIN work' = Workers
        /\ \A v \in Workers : v # w => work'[v] = work[v]
        /\ DOMAIN work'[w] = WorkFields
        /\ work'[w].pc \in {"task", "materialize"}
        /\ work'[w].date = work[w].date
        /\ DOMAIN work'[w].results = Tasks
        /\ \A t \in Tasks : work'[w].results[t] = IF t = TaskOf(w) THEN res ELSE work[w].results[t]
    BY <1>1, OnwardForm
  <1>3. Shape'
    <2>1. Timed(stored)'
      BY DEF Timed
    <2>2. QED
      BY <1>1, <1>2, <2>1 DEF IInv, Shape
  <1>4. work[w].date \in Dates /\ \A t \in Tasks : Matches(work[w].results[t], tasks[work[w].date][t])
    BY <1>1 DEF IInv, WorkOK, Matches
  <1>5. ASSUME NEW t \in Tasks PROVE Matches(work'[w].results[t], tasks'[work[w].date][t])
    <2>1. CASE t = TaskOf(w)
      BY <1>2, <2>1
    <2>2. CASE t # TaskOf(w)
      <3>1. work'[w].results[t] = work[w].results[t]
        BY <1>2, <2>2
      <3>2. QED
        BY <1>4, <3>1 DEF Matches
    <2>3. QED
      BY <2>1, <2>2
  <1>6. WorkOK(w)'
    BY <1>2, <1>4, <1>5 DEF WorkOK, Matches
  <1>7. Frozen /\ \A d \in Dates : ~(Reported(d)' /\ ~Reported(d))
    BY <1>1, Unchanged
  <1>8. QED
    BY <1>1, <1>2, <1>3, <1>6, <1>7, StepOfOne

LEMMA BeganForm ==
    ASSUME IInv, NEW d \in Dates, NEW t \in Tasks
    PROVE  /\ DOMAIN Began(d, t) = TaskFields
           /\ Began(d, t).status = "done" => tasks[d][t].status = "done"
  <1>1. DOMAIN tasks[d][t] = TaskFields
    BY DEF IInv, Shape
  <1>2. CASE tasks[d][t].status = "new"
    <2>1. Began(d, t) = [FreshTask EXCEPT !.status = "begun", !.begun = clock]
      BY <1>2 DEF Began
    <2>2. DOMAIN Began(d, t) = TaskFields /\ Began(d, t).status = "begun"
      BY <2>1 DEF FreshTask, TaskFields
    <2>3. QED
      BY <2>2
  <1>3. CASE tasks[d][t].status # "new"
    BY <1>1, <1>3 DEF Began
  <1>4. QED
    BY <1>2, <1>3

\* A checkpoint is replaced that was not done.
LEMMA TasksStep ==
    ASSUME IInv, NEW d \in Dates, NEW t, tasks[d][t].status # "done", NEW c,
           t \in Tasks => DOMAIN c = TaskFields,
           tasks' = [tasks EXCEPT ![d][t] = c]
    PROVE  /\ DOMAIN tasks' = Dates
           /\ \A e \in Dates : DOMAIN tasks'[e] = Tasks /\ \A x \in Tasks : DOMAIN tasks'[e][x] = TaskFields
           /\ \A e \in Dates, x \in Tasks : tasks[e][x].status = "done" => tasks'[e][x] = tasks[e][x]
           /\ t \in Tasks => tasks'[d][t] = c
  BY DEF IInv, Shape

LEMMA InterruptStep ==
    ASSUME IInv, NEW w \in Workers, work[w].date \in Dates, Checkpoint(w).status # "done", Interrupt(w)
    PROVE  /\ DOMAIN tasks' = Dates
           /\ \A e \in Dates : DOMAIN tasks'[e] = Tasks /\ \A x \in Tasks : DOMAIN tasks'[e][x] = TaskFields
           /\ \A e \in Dates, x \in Tasks : tasks[e][x].status = "done" => tasks'[e][x] = tasks[e][x]
  <1> DEFINE d == work[w].date
             t == TaskOf(w)
  <1>1. PICK left \in BOOLEAN : tasks' = [tasks EXCEPT ![d][t] = [Began(d, t) EXCEPT !.left = @ \/ left]]
    BY DEF Interrupt, Quarantines
  <1>2. t \in Tasks => DOMAIN [Began(d, t) EXCEPT !.left = @ \/ left] = TaskFields
    BY BeganForm
  <1>3. tasks[d][t].status # "done"
    BY DEF Checkpoint
  <1> HIDE DEF d, t
  <1>4. d \in Dates
    BY DEF d
  <1>5. QED
    BY <1>1, <1>2, <1>3, <1>4, TasksStep

----------------------------------------------------------------------------
(* The actions, one by one. *)

LEMMA ReplayStep == ASSUME IInv, NEW w \in Workers, Replay(w) PROVE IInv'
  <1> DEFINE c == Checkpoint(w)
  <1>1. work[w].pc = "task" /\ AtTask(w) /\ c.status = "done" /\ Onward(w, Succeeded(c)) /\ UNCHANGED <<stored, tasks>>
    BY DEF Replay, AtTask
  <1>2. c = tasks[work[w].date][TaskOf(w)]
    BY DEF Checkpoint
  <1>3. Matches(Succeeded(c), c)
    BY <1>1 DEF Matches, Succeeded, Rejections
  <1>4. Shape
    BY DEF IInv
  <1> HIDE DEF c
  <1>5. Timed(stored')
    BY <1>1, <1>4 DEF Shape, Timed
  <1>6. /\ DOMAIN tasks' = Dates
        /\ \A d \in Dates : DOMAIN tasks'[d] = Tasks /\ \A t \in Tasks : DOMAIN tasks'[d][t] = TaskFields
    BY <1>1, <1>4 DEF Shape
  <1>7. QED
    BY <1>1, <1>2, <1>3, <1>5, <1>6, OnwardIInv

LEMMA FailTaskStep == ASSUME IInv, NEW w \in Workers, FailTask(w) PROVE IInv'
  <1>1. /\ work[w].pc = "task" /\ AtTask(w) /\ Checkpoint(w).status # "done" /\ Interrupt(w) /\ UNCHANGED stored
    BY DEF FailTask, AtTask
  <1>2. PICK status \in {"failed", "retryable"} : Onward(w, Result(status))
    BY DEF FailTask
  <1>3. work[w].date \in Dates
    BY <1>1 DEF IInv, WorkOK
  <1>4. \A c : Matches(Result(status), c)
    BY DEF Matches, Result
  <1>5. Timed(stored')
    BY <1>1 DEF IInv, Shape, Timed
  <1>6. QED
    BY <1>1, <1>2, <1>3, <1>4, <1>5, InterruptStep, OnwardIInv

LEMMA RunTaskStep == ASSUME IInv, NEW w \in Workers, RunTask(w) PROVE IInv'
  <1> DEFINE d == work[w].date
             t == TaskOf(w)
             c == Began(d, t)
             found == Found(t, d)
             sound == {i \in found : i.sound}
             done == [c EXCEPT !.status = "done", !.rejected = sound # found,
                               !.read = {<<i.name, i.day>> : i \in sound}]
  <1>1. AtTask(w) /\ c.status = "begun" /\ work[w].pc = "task"
    BY DEF RunTask, AtTask
  <1>2. d \in Dates
    BY <1>1 DEF IInv, WorkOK
  <1>3. tasks[d][t].status # "done"
    <2>1. tasks[d][t].status # "new" => c = tasks[d][t]
      BY DEF Began
    <2>2. QED
      BY <1>1, <2>1
  <1>4. t \in Tasks => DOMAIN c = TaskFields
    BY <1>2, BeganForm
  <1>5. CASE Expired(c) \/ Drifted(t)
    <2>1. Onward(w, Result("failed")) /\ tasks' = [tasks EXCEPT ![d][t] = c] /\ UNCHANGED stored
      BY <1>5 DEF RunTask
    <2>2. \A x : Matches(Result("failed"), x)
      BY DEF Matches, Result
    <2>3. Timed(stored')
      BY <2>1 DEF IInv, Shape, Timed
    <2> HIDE DEF d, t, c
    <2>4. /\ DOMAIN tasks' = Dates
          /\ \A e \in Dates : DOMAIN tasks'[e] = Tasks /\ \A x \in Tasks : DOMAIN tasks'[e][x] = TaskFields
          /\ \A e \in Dates, x \in Tasks : tasks[e][x].status = "done" => tasks'[e][x] = tasks[e][x]
      BY <1>2, <1>3, <1>4, <2>1, TasksStep
    <2>5. QED
      BY <1>1, <2>1, <2>2, <2>3, <2>4, OnwardIInv
  <1>6. CASE ~(Expired(c) \/ Drifted(t))
    <2>1. /\ Onward(w, Succeeded(done)) /\ tasks' = [tasks EXCEPT ![d][t] = done]
          /\ stored' = stored \cup UNION {Versions(i, d) : i \in sound}
      BY <1>6 DEF RunTask
    <2>2. \A i \in sound : \A v \in Versions(i, d) : v.at = clock
      BY DEF Versions, Version
    <2>3. Timed(stored')
      BY <2>1, <2>2 DEF IInv, Shape, Timed
    <2> HIDE DEF found, sound
    <2>4. t \in Tasks => DOMAIN done = TaskFields /\ Matches(Succeeded(done), done)
      <3>1. t \in Tasks => DOMAIN done = TaskFields /\ done.status = "done"
        BY <1>4 DEF TaskFields
      <3> HIDE DEF done
      <3>2. QED
        BY <3>1 DEF Matches, Succeeded, Rejections
    <2> HIDE DEF d, t, c, done
    <2>5. /\ DOMAIN tasks' = Dates
          /\ \A e \in Dates : DOMAIN tasks'[e] = Tasks /\ \A x \in Tasks : DOMAIN tasks'[e][x] = TaskFields
          /\ \A e \in Dates, x \in Tasks : tasks[e][x].status = "done" => tasks'[e][x] = tasks[e][x]
          /\ t \in Tasks => tasks'[d][t] = done
      BY <1>2, <1>3, <2>1, <2>4, TasksStep
    <2>6. TaskOf(w) \in Tasks => Matches(Succeeded(done), tasks'[work[w].date][TaskOf(w)])
      BY <2>4, <2>5 DEF t, d
    <2>7. QED
      BY <1>1, <2>1, <2>3, <2>5, <2>6, OnwardIInv
  <1>7. QED
    BY <1>5, <1>6
LEMMA RestOK ==
    ASSUME NEW w \in Workers, work'[w] = AtRest PROVE WorkOK(w)'
  <1>1. DOMAIN AtRest = WorkFields /\ AtRest.pc = "idle" /\ DOMAIN AtRest.results = Tasks
    BY DEF AtRest, NoResults, WorkFields
  <1>2. QED
    BY <1>1 DEF WorkOK

LEMMA LeaveForm ==
    ASSUME IInv, NEW w \in Workers, Leave(w)
    PROVE  /\ DOMAIN work' = Workers /\ WorkOK(w)'
           /\ \A v \in Workers : v # w => work'[v] = work[v]
  <1>1. DOMAIN work = Workers /\ work' = [work EXCEPT ![w] = AtRest]
    BY DEF IInv, Shape, Leave
  <1>2. QED
    BY <1>1, RestOK

\* The loops' memory, in a step of w about d.
OnlyMemory(w, d) ==
    /\ DOMAIN loop' = Residents
    /\ \A v \in Residents : DOMAIN loop'[v] = LoopFields
    /\ \A v \in Residents : loop'[v] = loop[v] \/ loop'[v].date = d

LEMMA SettledForm ==
    ASSUME IInv, NEW w \in Workers, Settled(w)
    PROVE  OnlyMemory(w, work[w].date)
  <1> DEFINE d == work[w].date
             m == Memory(w, d)
  <1>1. DOMAIN loop = Residents /\ \A v \in Residents : DOMAIN loop[v] = LoopFields
    BY DEF IInv, Shape
  <1>2. CASE w \in Residents
    <2>1. loop' = [loop EXCEPT ![w] = [m EXCEPT !.done = TRUE]]
      BY <1>2 DEF Settled
    <2>2. DOMAIN m = LoopFields /\ m.date = d
      BY <1>1, <1>2 DEF Memory, Forgotten, LoopFields
    <2> HIDE DEF m, d
    <2>3. DOMAIN [m EXCEPT !.done = TRUE] = LoopFields /\ [m EXCEPT !.done = TRUE].date = d
      BY <2>2 DEF LoopFields
    <2>4. QED
      BY <1>1, <2>1, <2>3 DEF OnlyMemory, d
  <1>3. CASE w \notin Residents
    BY <1>1, <1>3 DEF Settled, OnlyMemory
  <1>4. QED
    BY <1>2, <1>3

\* Past the budget of attempts a date is done with, and there is an alert.
LEMMA AfterRunForm ==
    ASSUME IInv, NEW w \in Residents, NEW d \in Dates, AfterRun(w, d)
    PROVE  /\ OnlyMemory(w, d) /\ alerts \subseteq alerts'
           /\ \A v \in Residents : loop'[v].done => loop'[v] = loop[v] \/ \E a \in alerts' : a[1] = d
  <1> DEFINE tries == Memory(w, d).tries + 1
             over == tries >= MaxReportAttempts
             m == [date |-> d, tries |-> tries, done |-> over]
  <1>1. DOMAIN loop = Residents /\ \A v \in Residents : DOMAIN loop[v] = LoopFields
    BY DEF IInv, Shape
  <1>2. loop' = [loop EXCEPT ![w] = m]
    BY DEF AfterRun
  <1>3. over => alerts' = alerts \cup {<<d, "exhausted">>}
    BY DEF AfterRun, Alert
  <1>4. ~over => alerts' = alerts
    BY DEF AfterRun
  <1>5. DOMAIN m = LoopFields /\ m.date = d /\ (m.done => over)
    BY DEF LoopFields
  <1> HIDE DEF over, m
  <1>6. loop'[w] = m /\ DOMAIN loop' = Residents /\ \A v \in Residents : v # w => loop'[v] = loop[v]
    BY <1>1, <1>2
  <1>7. OnlyMemory(w, d)
    BY <1>1, <1>5, <1>6 DEF OnlyMemory
  <1>8. alerts \subseteq alerts'
    BY <1>3, <1>4
  <1>9. over => \E a \in alerts' : a[1] = d
    <2>1. over => <<d, "exhausted">> \in alerts'
      BY <1>3
    <2>2. QED
      BY <2>1
  <1>10. QED
    BY <1>5, <1>6, <1>7, <1>8, <1>9

LEMMA EnterForm ==
    ASSUME IInv, NEW w \in Workers, NEW d \in Dates, Enter(w, d)
    PROVE  /\ DOMAIN work' = Workers /\ UNCHANGED <<loop, alerts>>
           /\ \A v \in Workers : v # w => work'[v] = work[v]
           /\ UNCHANGED tasks => WorkOK(w)'
  <1> DEFINE x == [AtRest EXCEPT !.pc = "task", !.date = d, !.began = clock]
  <1>1. DOMAIN work = Workers /\ work' = [work EXCEPT ![w] = x] /\ UNCHANGED <<loop, alerts>>
    BY DEF IInv, Shape, Enter
  <1>2. DOMAIN x = WorkFields /\ x.pc = "task" /\ x.date = d /\ x.results = NoResults
    BY DEF AtRest, WorkFields
  <1>3. DOMAIN NoResults = Tasks /\ \A t \in Tasks : NoResults[t].status = "none"
    BY DEF NoResults, Result
  <1> HIDE DEF x
  <1>4. work'[w] = x
    BY <1>1
  <1>5. WorkOK(w)'
    BY <1>2, <1>3, <1>4 DEF WorkOK
  <1>6. QED
    BY <1>1, <1>5

\* The rest of the shape, unless a step touches it.
LEMMA ShapeStep ==
    ASSUME IInv, UNCHANGED <<stored, tasks>>, clock' \in Nat, DOMAIN work' = Workers,
           DOMAIN loop' = Residents, \A v \in Residents : DOMAIN loop'[v] = LoopFields,
           DOMAIN report' = Dates
    PROVE  Shape'
  BY DEF IInv, Shape, Timed

LEMMA PollStep == ASSUME IInv, NEW w \in Residents, NEW d \in Dates, Poll(w, d) PROVE IInv'
  <1>1. UNCHANGED <<clock, source, stored, tasks, report, events>>
    BY DEF Poll
  <1>2. w \in Workers
    BY DEF Workers
  <1>3. Shape
    BY DEF IInv
  <1>4. CASE Enter(w, d)
    <2>1. /\ DOMAIN work' = Workers /\ UNCHANGED <<loop, alerts>> /\ WorkOK(w)'
          /\ \A v \in Workers : v # w => work'[v] = work[v]
      BY <1>1, <1>2, <1>4, EnterForm
    <2>2. Shape'
      BY <1>1, <1>3, <2>1, ShapeStep DEF Shape
    <2>3. Frozen /\ \A e \in Dates : ~(Reported(e)' /\ ~Reported(e))
      BY <1>1, <2>1, Unchanged
    <2>4. QED
      BY <2>1, <2>2, <2>3, StepOfOne
  <1>5. CASE AfterRun(w, d) /\ UNCHANGED <<work, locked>>
    <2>1. /\ OnlyMemory(w, d) /\ alerts \subseteq alerts'
          /\ \A v \in Residents : loop'[v].done => loop'[v] = loop[v] \/ \E a \in alerts' : a[1] = d
      BY <1>5, AfterRunForm
    <2>2. Shape'
      BY <1>1, <1>3, <1>5, <2>1, ShapeStep DEF Shape, OnlyMemory
    <2>3. Frozen /\ \A e \in Dates : ~(Reported(e)' /\ ~Reported(e))
      BY <1>1, <2>1, Unchanged
    <2>4. WorkOK(w)'
      BY <1>1, <1>2, <1>5 DEF IInv, WorkOK
    <2>5. \A v \in Residents : loop'[v].done => loop'[v] = loop[v] \/ Answered(loop[v].date)'
      BY <2>1 DEF OnlyMemory, Answered
    <2>6. \A v \in Workers : v # w => work'[v] = work[v]
      BY <1>5
    <2>7. QED
      BY <2>2, <2>3, <2>4, <2>5, <2>6, StepOfOne
  <1>6. QED
    BY <1>4, <1>5 DEF Poll

LEMMA OperateStep == ASSUME IInv, NEW w \in Operators, NEW d \in Dates, Operate(w, d) PROVE IInv'
  <1>1. Enter(w, d) /\ UNCHANGED <<clock, source, stored, tasks, report>>
    BY DEF Operate
  <1>2. w \in Workers /\ Shape
    BY DEF Workers, IInv
  <1>3. /\ DOMAIN work' = Workers /\ UNCHANGED <<loop, alerts>> /\ WorkOK(w)'
        /\ \A v \in Workers : v # w => work'[v] = work[v]
    BY <1>1, <1>2, EnterForm
  <1>4. Shape'
    BY <1>1, <1>2, <1>3, ShapeStep DEF Shape
  <1>5. Frozen /\ \A e \in Dates : ~(Reported(e)' /\ ~Reported(e))
    BY <1>1, <1>3, Unchanged
  <1>6. QED
    BY <1>3, <1>4, <1>5, StepOfOne

LEMMA MaterializeStep == ASSUME IInv, NEW w \in Workers, Materialize(w) PROVE IInv'
  <1> DEFINE d == work[w].date
             evidence == ApplyPolicy(Collect(stored, d, work[w].results, clock), Policy(d))
             snap == IF d \in Covered THEN Snapshot(d, evidence) ELSE NoReport
  <1>1. /\ work[w].pc = "materialize"
        /\ work' = [work EXCEPT ![w].pc = "complete", ![w].snapshot = snap]
        /\ UNCHANGED <<clock, source, stored, tasks, loop, locked, report, alerts, events>>
    BY DEF Materialize
  <1>2. DOMAIN work = Workers /\ DOMAIN work[w] = WorkFields /\ Shape /\ Timed(stored)
    BY DEF IInv, Shape, WorkOK
  <1>3. d \in Covered => MadeFrom(stored, d, work[w].results, clock, snap)
    BY DEF MadeFrom
  <1>4. d \notin Covered => snap = NoReport
    OBVIOUS
  <1> HIDE DEF snap
  <1>5. /\ DOMAIN work' = Workers
        /\ \A v \in Workers : v # w => work'[v] = work[v]
        /\ work'[w] = [work[w] EXCEPT !.pc = "complete", !.snapshot = snap]
    BY <1>1, <1>2
  <1>6. /\ DOMAIN work'[w] = WorkFields /\ work'[w].pc = "complete" /\ work'[w].snapshot = snap
        /\ work'[w].date = d /\ work'[w].results = work[w].results
    BY <1>2, <1>5 DEF WorkFields
  <1>7. WorkOK(w)'
    BY <1>1, <1>2, <1>3, <1>4, <1>6 DEF IInv, WorkOK
  <1>8. Shape'
    BY <1>1, <1>2, <1>5, ShapeStep DEF Shape
  <1>9. Frozen /\ \A e \in Dates : ~(Reported(e)' /\ ~Reported(e))
    BY <1>1, Unchanged
  <1>10. QED
    BY <1>1, <1>5, <1>7, <1>8, <1>9, StepOfOne
\* A bundle with a report to write has a snapshot that grounds it.
LEMMA StatusForm ==
    ASSUME IInv, NEW w \in Workers, work[w].pc = "complete", Status(w) \in {"succeeded", "degraded"}
    PROVE  /\ work[w].date \in Covered /\ work[w].snapshot # NoReport
           /\ Grounded(work[w].date, work[w].snapshot.facts, work[w].results)
  <1> DEFINE d == work[w].date
             snap == work[w].snapshot
             q == Quality(snap, d)
  <1>1. snap # NoReport /\ q \in {"passed", "degraded"}
    <2>1. snap # NoReport
      BY DEF Status
    <2>2. Combined(BundleStatus(work[w].results), q) \in {"succeeded", "degraded"}
      BY <2>1 DEF Status
    <2>3. q \notin {"blocked", "retryable"}
      BY <2>2, CombinedForm
    <2>4. QED
      BY <2>1, <2>3, QualityValues
  <1>2. d \in Dates /\ d \in Nat \ {0}
    BY DatesType DEF IInv, WorkOK
  <1>3. d \in Covered
    BY <1>1 DEF IInv, WorkOK
  <1>4. \E s, asOf : Timed(s) /\ MadeFrom(s, d, work[w].results, asOf, snap)
    BY <1>3 DEF IInv, WorkOK
  <1>5. PICK s : \E asOf : Timed(s) /\ MadeFrom(s, d, work[w].results, asOf, snap)
    BY <1>4
  <1>6. PICK asOf : Timed(s) /\ MadeFrom(s, d, work[w].results, asOf, snap)
    BY <1>5
  <1>7. /\ Judged(snap, d)
        /\ (\A i \in Policy(d).required : snap.quality[i].status \in Good) =>
             Grounded(d, snap.facts, work[w].results)
    BY <1>2, <1>6, SnapshotGrounded
  <1>8. \A i \in Policy(d).required : snap.quality[i].status \in Good
    BY <1>1, <1>7, GateForm
  <1>9. QED
    BY <1>1, <1>3, <1>7, <1>8

\* A step that leaves a date with an answer to it, or leaves the loops alone.
LEMMA LeaveIInv ==
    ASSUME IInv, NEW w \in Workers, Leave(w), UNCHANGED <<clock, stored, tasks>>,
           DOMAIN report' = Dates, \A d \in Dates : Reported(d) => report'[d] = report[d],
           \A d \in Dates : Reported(d)' /\ ~Reported(d) => ReportOK(d)',
           alerts \subseteq alerts',
           DOMAIN loop' = Residents, \A v \in Residents : DOMAIN loop'[v] = LoopFields,
           \A v \in Residents : loop'[v].done => loop'[v] = loop[v] \/ Answered(loop[v].date)'
    PROVE  IInv'
  <1>1. /\ DOMAIN work' = Workers /\ WorkOK(w)'
        /\ \A v \in Workers : v # w => work'[v] = work[v]
    BY LeaveForm
  <1>2. Shape'
    BY <1>1, ShapeStep DEF IInv, Shape
  <1>3. Frozen
    BY DEF Frozen
  <1>4. QED
    BY <1>1, <1>2, <1>3, StepOfOne

LEMMA DeliverStep == ASSUME IInv, NEW w \in Workers, Deliver(w) PROVE IInv'
  <1> DEFINE d == work[w].date
             snap == work[w].snapshot
  <1>1. /\ work[w].pc = "complete" /\ Leave(w) /\ UNCHANGED <<clock, stored, tasks, alerts>>
        /\ Status(w) \in {"succeeded", "degraded"} /\ Settled(w)
        /\ report' = IF Reported(d) THEN report ELSE [report EXCEPT ![d] = snap]
    BY DEF Deliver, AtComplete
  <1>2. d \in Covered /\ snap # NoReport /\ Grounded(d, snap.facts, work[w].results)
    BY <1>1, StatusForm
  <1>3. d \in Dates /\ \A t \in Tasks : Matches(work[w].results[t], tasks[d][t])
    BY <1>1 DEF IInv, WorkOK, Matches
  <1>4. DOMAIN report = Dates
    BY DEF IInv, Shape
  <1>5. DOMAIN report' = Dates /\ \A e \in Dates : e # d => report'[e] = report[e]
    BY <1>1, <1>4
  <1>6. (~Reported(d) => report'[d] = snap) /\ (Reported(d) => report'[d] = report[d])
    BY <1>1, <1>3, <1>4
  <1>7. ASSUME NEW e \in Dates, e = d, ~Reported(e) PROVE ReportOK(e)'
    <2>1. \A t \in Needed(e) : t \in Tasks
      BY DEF Needed
    <2>2. \A t \in Needed(e) : tasks'[e][t].status = "done" /\ ~tasks'[e][t].rejected /\ ~tasks'[e][t].left
      BY <1>1, <1>2, <1>3, <1>7, <2>1 DEF Grounded, Matches
    <2>3. report'[e] = snap /\ e \in Covered /\ Grounded(e, snap.facts, work[w].results)
      BY <1>2, <1>6, <1>7
    <2> HIDE DEF d, snap
    <2>4. \A v \in report'[e].facts : v.at <= CutoffOf(e) /\ v.task[1] # "equity"
      BY <2>3 DEF Grounded
    <2>5. \A r \in Bars : Open(r, e) => MarketPromise(report'[e].facts, r, e)
      BY <2>3 DEF Grounded
    <2>6. \A r \in News : NewsPromise(report'[e].facts, r, e)
      BY <2>3 DEF Grounded
    <2>7. QED
      BY <2>2, <2>3, <2>4, <2>5, <2>6 DEF ReportOK
  <1>8. \A e \in Dates : Reported(e) => report'[e] = report[e]
    BY <1>5, <1>6
  <1>9. ASSUME NEW e \in Dates, Reported(e)', ~Reported(e) PROVE ReportOK(e)'
    <2>1. e = d
      BY <1>5, <1>9 DEF Reported
    <2>2. QED
      BY <1>7, <1>9, <2>1
  <1>10. \A e \in Dates : e = d => Answered(e)'
    BY <1>2, <1>3, <1>6 DEF Answered, Reported
  <1>11. OnlyMemory(w, d)
    BY <1>1, SettledForm
  <1> HIDE DEF d
  <1>12. \A v \in Residents : loop'[v].done => loop'[v] = loop[v] \/ Answered(loop[v].date)'
    BY <1>3, <1>10, <1>11 DEF OnlyMemory, Answered
  <1>13. QED
    BY <1>1, <1>5, <1>8, <1>9, <1>11, <1>12, LeaveIInv DEF OnlyMemory
\* The ways a date ends without a report all set an alert about it.
LEMMA AlertedIInv ==
    ASSUME IInv, NEW w \in Workers, work[w].pc = "complete", Leave(w), UNCHANGED <<clock, stored, tasks, report>>,
           NEW code, Alert(work[w].date, code), OnlyMemory(w, work[w].date)
    PROVE  IInv'
  <1> DEFINE d == work[w].date
  <1>1. d \in Dates /\ DOMAIN report = Dates
    BY DEF IInv, WorkOK, Shape
  <1>2. alerts' = alerts \cup {<<d, code>>}
    BY DEF Alert
  <1>3. \E a \in alerts' : a[1] = d
    <2>1. <<d, code>> \in alerts'
      BY <1>2
    <2>2. QED
      BY <2>1
  <1>4. \A v \in Residents : loop'[v] = loop[v] \/ loop'[v].date = d
    BY DEF OnlyMemory
  <1> HIDE DEF d
  <1>5. \A v \in Residents : loop'[v].done => loop'[v] = loop[v] \/ Answered(loop[v].date)'
    BY <1>1, <1>3, <1>4 DEF Answered
  <1>6. \A e \in Dates : ~(Reported(e)' /\ ~Reported(e))
    BY DEF Reported
  <1>7. QED
    BY <1>1, <1>2, <1>5, <1>6, LeaveIInv DEF OnlyMemory

LEMMA FailReportStep == ASSUME IInv, NEW w \in Workers, FailReport(w) PROVE IInv'
  <1>1. /\ work[w].pc = "complete" /\ Leave(w) /\ UNCHANGED <<clock, stored, tasks, report>>
        /\ Alert(work[w].date, "report") /\ Settled(w)
    BY DEF FailReport, AtComplete
  <1>2. QED
    BY <1>1, SettledForm, AlertedIInv

LEMMA BlockStep == ASSUME IInv, NEW w \in Workers, Block(w) PROVE IInv'
  <1> DEFINE code == IF work[w].snapshot = NoReport THEN "ingestion" ELSE "quality_gate"
  <1>1. /\ work[w].pc = "complete" /\ Leave(w) /\ UNCHANGED <<clock, stored, tasks, report>>
        /\ Alert(work[w].date, code) /\ Settled(w)
    BY DEF Block, AtComplete
  <1>2. QED
    BY <1>1, SettledForm, AlertedIInv

LEMMA PostponeStep == ASSUME IInv, NEW w \in Workers, Postpone(w) PROVE IInv'
  <1>1. /\ work[w].pc = "complete" /\ Leave(w) /\ UNCHANGED <<clock, stored, tasks, report>>
    BY DEF Postpone, AtComplete
  <1>2. CASE w \in Residents
    <2> DEFINE d == work[w].date
    <2>1. AfterRun(w, d) /\ d \in Dates /\ DOMAIN report = Dates
      BY <1>1, <1>2 DEF Postpone, IInv, WorkOK, Shape
    <2>2. /\ OnlyMemory(w, d) /\ alerts \subseteq alerts'
          /\ \A v \in Residents : loop'[v].done => loop'[v] = loop[v] \/ \E a \in alerts' : a[1] = d
      BY <1>2, <2>1, AfterRunForm
    <2> HIDE DEF d
    <2>3. \A v \in Residents : loop'[v].done => loop'[v] = loop[v] \/ Answered(loop[v].date)'
      BY <2>1, <2>2 DEF OnlyMemory, Answered
    <2>4. \A e \in Dates : ~(Reported(e)' /\ ~Reported(e))
      BY <1>1 DEF Reported
    <2>5. QED
      BY <1>1, <2>1, <2>2, <2>3, <2>4, LeaveIInv DEF OnlyMemory
  <1>3. CASE w \notin Residents
    <2>1. Alert(work[w].date, "exhausted") /\ UNCHANGED loop
      BY <1>3 DEF Postpone
    <2>2. OnlyMemory(w, work[w].date)
      BY <2>1 DEF OnlyMemory, IInv, Shape
    <2>3. QED
      BY <1>1, <2>1, <2>2, AlertedIInv
  <1>4. QED
    BY <1>2, <1>3

LEMMA DieStep == ASSUME IInv, NEW w \in Workers, Die(w) PROVE IInv'
  <1>1. /\ Leave(w) /\ UNCHANGED <<clock, source, stored, report, alerts>>
        /\ loop' = IF w \in Residents THEN [loop EXCEPT ![w] = Forgotten] ELSE loop
        /\ UNCHANGED tasks \/ (work[w].pc = "task" /\ Checkpoint(w).status # "done" /\ Interrupt(w))
    BY DEF Die
  <1>2. Shape
    BY DEF IInv
  <1>3. /\ DOMAIN work' = Workers /\ WorkOK(w)'
        /\ \A v \in Workers : v # w => work'[v] = work[v]
    BY <1>1, LeaveForm
  <1>4. /\ DOMAIN tasks' = Dates
        /\ \A e \in Dates : DOMAIN tasks'[e] = Tasks /\ \A x \in Tasks : DOMAIN tasks'[e][x] = TaskFields
        /\ \A e \in Dates, x \in Tasks : tasks[e][x].status = "done" => tasks'[e][x] = tasks[e][x]
    <2>1. CASE UNCHANGED tasks
      BY <1>2, <2>1 DEF Shape
    <2>2. CASE work[w].pc = "task" /\ Checkpoint(w).status # "done" /\ Interrupt(w)
      <3>1. work[w].date \in Dates
        BY <2>2 DEF IInv, WorkOK
      <3>2. QED
        BY <2>2, <3>1, InterruptStep
    <2>3. QED
      BY <1>1, <2>1, <2>2
  <1>5. /\ DOMAIN loop' = Residents
        /\ \A v \in Residents : DOMAIN loop'[v] = LoopFields /\ (loop'[v].done => loop'[v] = loop[v])
    <2>1. DOMAIN Forgotten = LoopFields /\ Forgotten.done = FALSE
      BY DEF Forgotten, LoopFields
    <2>2. \A v \in Residents : loop'[v] = loop[v] \/ loop'[v] = Forgotten
      BY <1>1, <1>2 DEF Shape
    <2>3. DOMAIN loop' = Residents
      BY <1>1, <1>2 DEF Shape
    <2>4. QED
      BY <1>2, <2>1, <2>2, <2>3 DEF Shape
  <1>6. Shape'
    BY <1>1, <1>2, <1>3, <1>4, <1>5 DEF Shape, Timed
  <1>7. Frozen /\ \A d \in Dates : ~(Reported(d)' /\ ~Reported(d))
    BY <1>1, <1>4, Unchanged
  <1>8. QED
    BY <1>3, <1>5, <1>6, <1>7, StepOfOne

\* What neither a process nor the loop does.
LEMMA WorldStep ==
    ASSUME IInv, clock' \in Nat, UNCHANGED <<stored, tasks, work, loop, report, alerts>>
    PROVE  IInv'
  <1>1. Shape'
    BY DEF IInv, Shape, Timed
  <1>2. (\A w \in Workers : WorkOK(w))'
    BY DEF IInv, WorkOK
  <1>3. (\A d \in Dates : Reported(d) => ReportOK(d))'
    BY DEF IInv, Reported, ReportOK
  <1>4. (\A w \in Residents : loop[w].done => Answered(loop[w].date))'
    BY DEF IInv, Answered, Reported
  <1>5. QED
    BY <1>1, <1>2, <1>3, <1>4 DEF IInv

LEMMA NextIInv == IInv /\ [Next]_vars => IInv'
  <1> SUFFICES ASSUME IInv, [Next]_vars PROVE IInv'
    OBVIOUS
  <1>1. clock \in Nat
    BY DEF IInv, Shape
  <1>2. CASE \E w \in Residents, d \in Dates : Poll(w, d)
    BY <1>2, PollStep
  <1>3. CASE \E w \in Operators, d \in Dates : Operate(w, d)
    BY <1>3, OperateStep
  <1>4. ASSUME NEW w \in Workers,
               \/ Replay(w) \/ RunTask(w) \/ FailTask(w) \/ Materialize(w)
               \/ Deliver(w) \/ FailReport(w) \/ Block(w) \/ Postpone(w) \/ Die(w)
        PROVE  IInv'
    BY <1>4, ReplayStep, RunTaskStep, FailTaskStep, MaterializeStep, DeliverStep,
       FailReportStep, BlockStep, PostponeStep, DieStep
  <1>5. CASE \E i \in source : Amend(i)
    BY <1>1, <1>5, WorldStep DEF Amend
  <1>6. CASE Tick
    BY <1>1, <1>6, WorldStep DEF Tick
  <1>7. CASE UNCHANGED vars
    BY <1>1, <1>7, WorldStep DEF vars
  <1>8. QED
    BY <1>2, <1>3, <1>4, <1>5, <1>6, <1>7 DEF Next

----------------------------------------------------------------------------
(* The theorems. *)

\* The inductive invariant of the schedule: what a process holds of its date
\* is what the date's checkpoints say, its snapshot is made of versions stored
\* at some time, a report stands on finished checkpoints, and a loop is through
\* with a date only when it is answered.
THEOREM ScheduleInvariance == Spec => []IInv
  <1>1. Init => IInv
    BY InitIInv
  <1>2. IInv /\ [Next]_vars => IInv'
    BY NextIInv
  <1>3. QED
    BY <1>1, <1>2, PTL DEF Spec

\* A report that was delivered stands on what its own day's tasks read, none of
\* it quarantined, none of it fetched after the cutoff, with the bar of the
\* session before for each open market and a recent headline for each headlines
\* input (materialize, the quality gate, DailyReportWorkflow.complete).
THEOREM GroundedReports == Spec => []ReportIsGrounded
  <1>1. IInv => ReportIsGrounded
    BY IInvImplies
  <1>2. QED
    BY <1>1, ScheduleInvariance, PTL

\* The loop never drops a date in silence (_run_configured_schedule).
THEOREM NoDateDropped == Spec => []NoSilentGiveUp
  <1>1. IInv => NoSilentGiveUp
    BY IInvImplies
  <1>2. QED
    BY <1>1, ScheduleInvariance, PTL

LEMMA BundleForm ==
    ASSUME NEW results, \A t \in Tasks : results[t].status = "succeeded"
    PROVE  BundleStatus(results) = "succeeded"
  BY DEF BundleStatus

\* Whatever a closed market lacks, the gate blocks no date whose tasks all
\* ended well and whose other inputs are there (_apply_report_day_policy and
\* the gate's evaluate): whichever the calendars, listings and times.
THEOREM ClosedMarketsNeverBlock == Spec => []ClosedMarketsDoNotBlock
  <1>1. IInv => ClosedMarketsDoNotBlock
    <2> SUFFICES ASSUME IInv, NEW w \in Workers,
                        work[w].pc = "complete", work[w].date \in Covered,
                        \A t \in Tasks : work[w].results[t].status = "succeeded",
                        \A i \in Policy(work[w].date).required :
                            work[w].snapshot.quality[i].status \in {"available", "revised"}
                 PROVE  Status(w) \in {"succeeded", "degraded"}
      BY DEF ClosedMarketsDoNotBlock
    <2> DEFINE d == work[w].date
               snap == work[w].snapshot
    <2>1. d \in Nat \ {0}
      BY DatesType DEF IInv, WorkOK
    <2>2. \E s, asOf : Timed(s) /\ MadeFrom(s, d, work[w].results, asOf, snap)
      BY DEF IInv, WorkOK
    <2>3. PICK s : \E asOf : Timed(s) /\ MadeFrom(s, d, work[w].results, asOf, snap)
      BY <2>2
    <2>4. PICK asOf : Timed(s) /\ MadeFrom(s, d, work[w].results, asOf, snap)
      BY <2>3
    <2>5. \A i \in Policy(d).required : snap.quality[i].status \in Good
      BY DEF Good
    <2>6. Judged(snap, d) /\ snap.facts # {}
      BY <2>1, <2>4, <2>5, SnapshotGrounded
    <2>7. Quality(snap, d) \in {"passed", "degraded"}
      BY <2>5, <2>6, GateForm
    <2>8. BundleStatus(work[w].results) = "succeeded"
      BY BundleForm
    <2>9. snap # NoReport
      BY <2>6 DEF NoReport
    <2>10. QED
      BY <2>7, <2>8, <2>9 DEF Status, Combined
  <1>2. QED
    BY <1>1, ScheduleInvariance, PTL
=============================================================================
