--------------------------- MODULE ReportSchedule ---------------------------
(***************************************************************************)
(* Report dates, one after the other, on the clock: the schedule loop, the *)
(* operator's runs and backfills, the bundle of tasks of a date, its input *)
(* snapshot at the cutoff and what comes of it.                            *)
(*                                                                         *)
(* A task is a page here (PagedIngestion), its facts are versioned as in   *)
(* FactVersions, and the report of a snapshot is written and delivered as  *)
(* in ReportDay, which has the steps in between.                           *)
(***************************************************************************)
EXTENDS ReportInputs

CONSTANTS
    Residents,          \* the processes that run the schedule loop
    Operators,          \* the processes started with a date
    Asked,              \* the dates they may be started with
    Bundle,             \* the tasks of the bundle, in their order
    Lookback,           \* worker_bar_lookback_days
    ScheduleTick,       \* worker_schedule, as a tick of the day
    MaxReportAttempts,  \* worker_max_report_attempts
    FirstTick,          \* the clock starts here ...
    LastTick,           \* ... and stops here, a bound of the model
    Listing,            \* what the providers list to begin with
    Fickle,             \* <<task, day>> of the items that may change
    MaxEvents           \* bounds what the day did not plan: deaths and failures,
                        \* operators' runs, and changes of what is listed

Workers == Residents \cup Operators
Dates == 1 .. LastTick \div Ticks + 1

ASSUME BundleAssumption == Range(Bundle) = Tasks

\* _first_safe_run_time: the collection starts before the cutoff of its day.
FirstSafeRunTime == ScheduleTick < CutoffTick /\ CutoffTick < Ticks

ASSUME ScheduleAssumption ==
    FirstSafeRunTime /\ FirstTick \in Nat /\ LastTick \in Nat /\ ScheduleTick \in Nat

VARIABLES
    clock,
    source,     \* what the providers list: [task, name, day, since, text, sound]
    stored,     \* the versions of facts
    tasks,      \* tasks[d][t]: the checkpoint of a task, and what its page had
    work,       \* work[w]: where a process is with its date
    loop,       \* loop[w]: what the loop of w remembers of the last date it ran
    locked,     \* locked[d]: who holds the advisory lock of a date
    report,     \* report[d]: the snapshot of the report that was delivered
    alerts,     \* <<d, stage or code>>: the alerts set about
    events      \* how many of them there were

vars == <<clock, source, stored, tasks, work, loop, locked, report, alerts, events>>

DayOf(n) == n \div Ticks + 1
TickOf(n) == n % Ticks

NoOne == "none"
NoReport == [quality |-> <<>>, facts |-> {}]

\* A checkpoint: new, begun (when) or done; what its page had, and what
\* failed attempts at it left.
FreshTask == [status |-> "new", begun |-> 0, rejected |-> FALSE, left |-> FALSE, read |-> {}]
Result(status) == [status |-> status, rejected |-> FALSE, left |-> FALSE, read |-> {}]
NoResults == [t \in Tasks |-> Result("none")]

\* A process: what it does next, for which date, when it began, which
\* task of the bundle, the results it has, and its input snapshot.
AtRest == [pc |-> "idle", date |-> 0, began |-> 0, n |-> 1, results |-> NoResults, snapshot |-> NoReport]
Forgotten == [date |-> 0, tries |-> 0, done |-> FALSE]

Init ==
    /\ clock = FirstTick
    /\ source = Listing
    /\ stored = {}
    /\ tasks = [d \in Dates |-> [t \in Tasks |-> FreshTask]]
    /\ work = [w \in Workers |-> AtRest]
    /\ loop = [w \in Residents |-> Forgotten]
    /\ locked = [d \in Dates |-> NoOne]
    /\ report = [d \in Dates |-> NoReport]
    /\ alerts = {}
    /\ events = 0

Unplanned == events < MaxEvents /\ events' = events + 1

----------------------------------------------------------------------------
(* The schedule loop *)

Alert(d, code) == alerts' = alerts \cup {<<d, code>>}

\* The loop's memory of a date.
Memory(w, d) == IF loop[w].date = d THEN loop[w] ELSE [Forgotten EXCEPT !.date = d]

GiveUpQuietly(w, d) ==
    LET tries == Memory(w, d).tries + 1
    IN  /\ loop' = [loop EXCEPT ![w] = [date |-> d, tries |-> tries,
                                       done |-> tries >= MaxReportAttempts]]
        /\ UNCHANGED alerts

\* A status that is not terminal counts against the budget; past it the
\* date is given up with an alert.  Until then the loop comes back to it when
\* the delay is over, any time later here.
AfterRun(w, d) ==
    LET tries == Memory(w, d).tries + 1
        over  == tries >= MaxReportAttempts
    IN  /\ loop' = [loop EXCEPT ![w] = [date |-> d, tries |-> tries, done |-> over]]
        /\ IF over THEN Alert(d, "exhausted") ELSE UNCHANGED alerts

\* run_for_date, entered: the date's lock, or the result is locked.
Enter(w, d) ==
    /\ work[w].pc = "idle"
    /\ locked[d] = NoOne
    /\ locked' = [locked EXCEPT ![d] = w]
    /\ work' = [work EXCEPT ![w] = [AtRest EXCEPT !.pc = "task", !.date = d, !.began = clock]]
    /\ UNCHANGED <<loop, alerts>>

Due(w, d) ==
    /\ work[w].pc = "idle"
    /\ TickOf(clock) >= ScheduleTick
    /\ d = DayOf(clock)
    /\ ~Memory(w, d).done

Poll(w, d) ==
    /\ Due(w, d)
    /\ \/ Enter(w, d)
       \/ /\ locked[d] # NoOne
          /\ AfterRun(w, d)
          /\ UNCHANGED <<work, locked>>
    /\ UNCHANGED <<clock, source, stored, tasks, report, events>>

\* A run for a date, or a date of a backfill; locked, it ends without more.
Operate(w, d) ==
    /\ d \in Asked
    /\ d <= DayOf(clock)
    /\ Unplanned
    /\ Enter(w, d)
    /\ UNCHANGED <<clock, source, stored, tasks, report>>

----------------------------------------------------------------------------
(* The bundle *)

\* The windows of the requests.
Requested(t, d) ==
    CASE t[1] = "news"     -> (d - 1)..d
      [] t[1] = "calendar" -> d..(d + 7)
      [] OTHER             -> {x \in 1..d : x < d /\ x + Lookback >= d}

\* What a fetch of task t for d finds, and the versions it stores: a first
\* one, or a revision of what is stored last; headlines are not revised.
Found(t, d) == {i \in source : i.task = t /\ i.day \in Requested(t, d) /\ i.since <= clock}
Version(i, d, rank) ==
    [task |-> i.task, name |-> i.name, day |-> i.day, text |-> i.text,
     at |-> clock, by |-> d, rank |-> rank]
Versions(i, d) ==
    LET known  == {v \in stored : v.task = i.task /\ v.name = i.name /\ v.day = i.day}
        newest == {v \in known : \A x \in known : x.at < v.at \/ (x.at = v.at /\ x.rank <= v.rank)}
    IN  IF known = {} THEN {Version(i, d, 0)}
        ELSE IF i.task[1] = "news" \/ \E v \in newest : v.text = i.text THEN {}
        ELSE {Version(i, d, 1)}

\* The next task of the bundle, or the snapshot.
Onward(w, res) ==
    LET t == Bundle[work[w].n]
        r == [work[w].results EXCEPT ![t] = res]
    IN  work' = [work EXCEPT ![w].n = @ + 1, ![w].results = r,
                             ![w].pc = IF work[w].n = Len(Bundle) THEN "materialize" ELSE "task"]

TaskOf(w) == Bundle[work[w].n]
Checkpoint(w) == tasks[work[w].date][TaskOf(w)]

AtTask(w) == work[w].pc = "task" /\ UNCHANGED <<clock, source, loop, locked, report, alerts>>

\* begin_or_load keeps the clock of the first begin, and the requests of a
\* task that began more than a day ago are refused.
Began(d, t) ==
    IF tasks[d][t].status = "new" THEN [FreshTask EXCEPT !.status = "begun", !.begun = clock]
    ELSE tasks[d][t]
Expired(c) == c.begun + Ticks < clock

Succeeded(c) ==
    [status |-> "succeeded", rejected |-> c.rejected, left |-> c.left, read |-> c.read]

\* A completed task replays its result.
Replay(w) ==
    /\ AtTask(w)
    /\ Checkpoint(w).status = "done"
    /\ Onward(w, Succeeded(Checkpoint(w)))
    /\ UNCHANGED <<stored, tasks, events>>

\* An unsound bar is put into quarantine (BarPages); any other unsound
\* record fails the page that it is on (LivePages).
Quarantines(t) == t[1] \in {"bars", "equity"}
Drifted(t) == ~Quarantines(t) /\ \E i \in source : i.task = t /\ i.since <= clock /\ ~i.sound

RunTask(w) ==
    LET d == work[w].date
        t == TaskOf(w)
        c == Began(d, t)
        found == Found(t, d)
        sound == {i \in found : i.sound}
    IN
    /\ AtTask(w)
    /\ c.status = "begun"
    /\ IF Expired(c) \/ Drifted(t)
       THEN /\ Onward(w, Result("failed"))
            /\ tasks' = [tasks EXCEPT ![d][t] = c]
            /\ UNCHANGED stored
       ELSE LET done == [c EXCEPT !.status = "done", !.rejected = sound # found,
                                  !.read = {<<i.name, i.day>> : i \in sound}]
            IN  /\ stored' = stored \cup UNION {Versions(i, d) : i \in sound}
                /\ tasks' = [tasks EXCEPT ![d][t] = done]
                /\ Onward(w, Succeeded(done))
    /\ UNCHANGED events

\* An attempt ends without its page, before it recorded the rejections of
\* the page or after.  The page's next attempt has the same run, and so theirs.
Interrupt(w) ==
    LET d == work[w].date
        t == TaskOf(w)
        c == Began(d, t)
        quarantined == Quarantines(t) /\ ~Expired(c) /\ \E i \in Found(t, d) : ~i.sound
    IN  \E left \in {FALSE, quarantined} :
            tasks' = [tasks EXCEPT ![d][t] = [c EXCEPT !.left = @ \/ left]]

\* A call fails for good, or all worker_max_task_attempts of them do; no run
\* is named in the result.
FailTask(w) ==
    /\ AtTask(w)
    /\ Checkpoint(w).status # "done"
    /\ Unplanned
    /\ Interrupt(w)
    /\ \E status \in {"failed", "retryable"} : Onward(w, Result(status))
    /\ UNCHANGED stored

----------------------------------------------------------------------------
(* The snapshot and the report *)

\* materialize, not before the cutoff.  Without a policy for the day it
\* raises, and the bundle is blocked without a snapshot.
Materialize(w) ==
    LET d == work[w].date
        evidence == ApplyPolicy(Collect(stored, d, work[w].results, clock), Policy(d))
    IN
    /\ work[w].pc = "materialize"
    /\ clock >= CutoffOf(d)
    /\ work' = [work EXCEPT ![w].pc = "complete",
                            ![w].snapshot = IF d \in Covered THEN Snapshot(d, evidence) ELSE NoReport]
    /\ UNCHANGED <<clock, source, stored, tasks, loop, locked, report, alerts, events>>

\* The status of the bundle and its snapshot.
Status(w) ==
    IF work[w].snapshot = NoReport THEN "blocked"
    ELSE Combined(BundleStatus(work[w].results), Quality(work[w].snapshot, work[w].date))

\* DailyReportWorkflow.complete, and the lock is given back; then the loop,
\* or the operator's process, acts on the status.
Reported(d) == report[d] # NoReport

Leave(w) ==
    /\ locked' = [locked EXCEPT ![work[w].date] = NoOne]
    /\ work' = [work EXCEPT ![w] = AtRest]

\* The loop of w is through with its date, whatever the status.
Settled(w) ==
    loop' = IF w \in Residents
            THEN [loop EXCEPT ![w] = [Memory(w, work[w].date) EXCEPT !.done = TRUE]]
            ELSE loop

AtComplete(w) == work[w].pc = "complete" /\ Leave(w) /\ UNCHANGED <<clock, source, stored, tasks>>

\* The report is written, unless there is one, and delivered.
Deliver(w) ==
    LET d == work[w].date IN
    /\ AtComplete(w)
    /\ Status(w) \in {"succeeded", "degraded"}
    /\ report' = IF Reported(d) THEN report ELSE [report EXCEPT ![d] = work[w].snapshot]
    /\ Settled(w)
    /\ UNCHANGED <<alerts, events>>

\* It fails: in generation, validation or delivery.
FailReport(w) ==
    /\ AtComplete(w)
    /\ Status(w) \in {"succeeded", "degraded"}
    /\ Unplanned
    /\ Alert(work[w].date, "report")
    /\ Settled(w)
    /\ UNCHANGED report

Block(w) ==
    /\ AtComplete(w)
    /\ Status(w) = "blocked"
    /\ Alert(work[w].date, IF work[w].snapshot = NoReport THEN "ingestion" ELSE "quality_gate")
    /\ Settled(w)
    /\ UNCHANGED <<report, events>>

Postpone(w) ==
    /\ AtComplete(w)
    /\ Status(w) = "retryable"
    /\ IF w \in Residents
       THEN AfterRun(w, work[w].date)
       ELSE Alert(work[w].date, "exhausted") /\ UNCHANGED loop
    /\ UNCHANGED <<report, events>>

----------------------------------------------------------------------------
(* The world *)

\* The connection that holds the lock goes with its process, and so does
\* the loop's memory; checkpoints and facts stay.
Die(w) ==
    /\ Unplanned
    /\ work[w].pc # "idle"
    /\ \/ UNCHANGED tasks
       \/ work[w].pc = "task" /\ Checkpoint(w).status # "done" /\ Interrupt(w)
    /\ Leave(w)
    /\ loop' = IF w \in Residents THEN [loop EXCEPT ![w] = Forgotten] ELSE loop
    /\ UNCHANGED <<clock, source, stored, report, alerts>>

\* A provider corrects an item, or spoils or mends it.
Amend(i) ==
    /\ Unplanned
    /\ <<i.task, i.day>> \in Fickle
    /\ \E j \in {[i EXCEPT !.text = @ + 1], [i EXCEPT !.sound = ~@]} :
          source' = (source \ {i}) \cup {j}
    /\ UNCHANGED <<clock, stored, tasks, work, loop, locked, report, alerts>>

\* The tasks of a bundle take minutes: one tick may pass among them.
Tick ==
    /\ clock < LastTick
    /\ \A w \in Workers : work[w].pc = "task" => work[w].began = clock
    /\ clock' = clock + 1
    /\ UNCHANGED <<source, stored, tasks, work, loop, locked, report, alerts, events>>

Next ==
    \/ \E w \in Residents, d \in Dates : Poll(w, d)
    \/ \E w \in Operators, d \in Dates : Operate(w, d)
    \/ \E w \in Workers :
          \/ Replay(w) \/ RunTask(w) \/ FailTask(w) \/ Materialize(w)
          \/ Deliver(w) \/ FailReport(w) \/ Block(w) \/ Postpone(w)
          \/ Die(w)
    \/ \E i \in source : Amend(i)
    \/ Tick

Spec == Init /\ [][Next]_vars

----------------------------------------------------------------------------
(* Properties *)

Open(r, d) == MarketDay(r, d) = "scheduled_session"

\* The tasks that a report of d may not do without.
Needed(d) == {t \in Tasks : Required(t) /\ (t[1] = "bars" => Open(t[2], d))}

\* A delivered report (DailyReportWorkflow.complete) stands on what its own
\* day's tasks read, none of it quarantined, none of it fetched after the
\* cutoff: for each open market the bar of the session before, not older than
\* the freshness limit, and for each headlines input a recent headline.
ReportIsGrounded ==
    \A d \in Dates : Reported(d) =>
        LET Fact(t, name, day, age) ==
                \E v \in report[d].facts :
                    v.task = t /\ v.name = name /\ v.day = day /\ v.at + age >= CutoffOf(d)
        IN  /\ d \in Covered
            /\ \A v \in report[d].facts : v.at <= CutoffOf(d) /\ v.task[1] # "equity"
            /\ \A t \in Needed(d) :
                  tasks[d][t].status = "done" /\ ~tasks[d][t].rejected /\ ~tasks[d][t].left
            /\ \A r \in Bars : Open(r, d) =>
                  \A n \in Names[r] : Fact(<<"bars", r>>, n, PreviousSession(r, d), MarketAge)
            /\ \A r \in News :
                  \E v \in report[d].facts :
                      v.task = <<"news", r>> /\ v.day + 1 >= d /\ v.at + NewsAge >= CutoffOf(d)

\* A date whose tasks all ended well, and whose inputs other than those of
\* closed markets are there, is not blocked, whatever a closed market lacks
\* (ADR 0010, through _apply_report_day_policy and the quality gate).
ClosedMarketsDoNotBlock ==
    \A w \in Workers :
        LET d == work[w].date IN
        /\ work[w].pc = "complete"
        /\ d \in Covered
        /\ \A t \in Tasks : work[w].results[t].status = "succeeded"
        /\ \A i \in Policy(d).required :
              work[w].snapshot.quality[i].status \in {"available", "revised"}
        => Status(w) \in {"succeeded", "degraded"}

\* The schedule loop is through with a date only when its report is delivered
\* or an alert was set about it (_run_configured_schedule: blocked, failed,
\* or the budget of attempts is spent).
NoSilentGiveUp ==
    \A w \in Residents :
        loop[w].done => \/ Reported(loop[w].date)
                        \/ \E a \in alerts : a[1] = loop[w].date

\* docs/runbooks/scheduled-ingestion-worker.md:64-66: a blocked date is
\* repaired at its required inputs ("quarantine"), then backfilled.  A date
\* the gate has blocked, whose providers list nothing unsound any more, is
\* not blocked again when an operator's run of all its tasks succeeds.
RepairedDateIsReported ==
    \A w \in Operators :
        LET d == work[w].date IN
        /\ work[w].pc = "complete"
        /\ <<d, "quality_gate">> \in alerts
        /\ \A i \in source : i.sound
        /\ \A t \in Tasks : work[w].results[t].status = "succeeded"
        => Status(w) # "blocked"

\* docs/adr/0010-deterministic-report-day-policy.md:10: the report is published
\* every day at 08:30.  A date is not blocked when all its tasks succeeded,
\* nothing was quarantined and all they asked for was stored by the cutoff,
\* headlines of the last day among it.
EveryDayIsReported ==
    \A w \in Workers :
        LET d == work[w].date
            Stored(t, day) == \E v \in stored : v.task = t /\ v.day >= day /\ v.at <= CutoffOf(d)
        IN
        /\ work[w].pc = "complete"
        /\ d \in Covered
        /\ \A t \in Tasks : work[w].results[t].status = "succeeded" /\ ~work[w].results[t].rejected
        /\ \A r \in Bars : Stored(<<"bars", r>>, PreviousSession(r, d))
        /\ \A i \in AlwaysRequired : work[w].snapshot.quality[i].status = "available"
        => Status(w) # "blocked"

=============================================================================
