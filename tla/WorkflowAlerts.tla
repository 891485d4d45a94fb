--------------------------- MODULE WorkflowAlerts ---------------------------
(***************************************************************************)
(* The alerts of one report date, who raises them and how they are read:   *)
(* services/workflow_alerts.py over the workflow_alert_attempts table,     *)
(* jobs/archive_monitor.py, and the operations view of                     *)
(* services/workflow_operations.py.                                        *)
(*                                                                         *)
(* Workers are schedulers that end the date blocked (they may overlap,     *)
(* since the date lock can be lost), Monitors are runs of the archive      *)
(* monitor's CronJob.  Both alert through the same service, one row per    *)
(* condition: a stage of the workflow, or a level of the backup disk.      *)
(* Every statement is a transaction and so an action of its own.           *)
(***************************************************************************)
EXTENDS Integers

CONSTANTS
    Workers,            \* schedulers that may alert about the date
    Monitors,           \* runs of the archive monitor
    Days,               \* how far the date's rows may have come (see DayStates)
    Evidence,           \* the provider run IDs a worker's alert may carry
    Readings,           \* of the disk: hundredths of a percent, or Unreadable
    Unreadable,         \* the reading of a missing or a too small disk
    WarningAt,          \* --warning-percent, in hundredths
    CriticalAt,         \* --critical-percent, in hundredths
    MaxAttempts,        \* FEISHU_DELIVERY_MAX_ATTEMPTS
    MaxCalls            \* a bound on the calls of one behaviour

Callers == Workers \cup Monitors

\* The date's rows in the order in which the workflow writes them: tasks,
\* input snapshot, generation attempt, report.
DayStates == {"ingesting", "unready", "ready", "generation_failed", "draft",
              "report_failed", "validated"}

\* The parser of archive_monitor.py and the alert service refuse other values.
ASSUME AlertAssumption ==
    /\ Workers \cap Monitors = {}
    /\ Days \subseteq DayStates
    /\ Readings \subseteq Nat \cup {Unreadable} /\ Unreadable \notin Nat
    /\ WarningAt \in Nat /\ CriticalAt \in Nat /\ WarningAt < CriticalAt
    /\ MaxAttempts \in Nat \ {0}
    /\ MaxCalls \in Nat

VARIABLES
    row,        \* row[k]: the workflow_alert_attempts row of condition k
    newest,     \* the alert or delivery row that was written last
    day,        \* how far the date's rows have come
    delivery,   \* the status of the date's delivery_attempts row
    pc,         \* pc[c]: the statement caller c executes next
    alert,      \* alert[c]: the condition and the payload c alerts about
    attempt,    \* attempt[c]: c's in-memory copy of the row
    reply,      \* reply[c]: the transport's answer c has yet to record
    answer,     \* answer[c]: what the last call of c came to
    chat,       \* chat[k]: cards about k in the alert chat (external)
    mishap,     \* history: a call has died or a statement of one has failed
    calls       \* how many calls have begun, for the bound

vars == <<row, newest, day, delivery, pc, alert, attempt, reply, answer, chat,
          mishap, calls>>

----------------------------------------------------------------------------
(* Conditions: what the idempotency key tells apart on one date and version,
   with one error code to a stage.  Failures nobody handled, stage scheduler,
   may come at any point and alert in the same way; they are left out. *)

Stages == {"ingestion", "quality_gate", "generation", "validation", "delivery"}
Levels == {"warning", "critical", "unavailable"}
Keys   == Stages \cup Levels

\* Where complete ends a date whose rows have come this far: each exit of the
\* workflow that alerts, by its stage.
StagesOf(d) ==
    CASE d = "ingesting"                       -> {"ingestion"}
      [] d = "unready"                         -> {"quality_gate"}
      [] d \in {"ready", "generation_failed"}  -> {"generation"}
      [] d \in {"draft", "report_failed"}      -> {"validation"}
      [] d = "validated" /\ delivery # "succeeded" -> {"delivery"}
      [] OTHER                                 -> {}

\* monitor_archive_capacity: the level of a reading; "ok" sends nothing.
LevelOf(reading) ==
    CASE reading = Unreadable  -> "unavailable"
      [] reading >= CriticalAt -> "critical"
      [] reading >= WarningAt  -> "warning"
      [] OTHER                 -> "ok"

\* What the card says beside the condition.  A worker's names the provider
\* runs, the monitor's the percentage, to two places.
Payloads == Evidence \cup Readings \cup {Unreadable}

----------------------------------------------------------------------------
(* The row, and the statements of the store by their WHERE clauses. *)

RowStatuses == {"absent", "pending", "failed", "retry_wait", "succeeded", "uncertain"}
NoPayload   == Unreadable
NoRow       == [status |-> "absent", attempt_no |-> 0, payload |-> NoPayload]
NoAlert     == [key |-> "warning", payload |-> NoPayload]
Replies     == {"sent", "retryable", "rejected", "unknown"}

KeyOf(c)   == alert[c].key
Current(c) == row[KeyOf(c)]

\* update: fenced on the attempt number and on pending.
UpdateMatches(c) ==
    /\ Current(c).attempt_no = attempt[c].attempt_no
    /\ Current(c).status = "pending"

\* retry: fenced on the status only.
ResumeMatchesUncertain(c) == Current(c).status \in {"retry_wait", "uncertain"}
ResumeMatches(c) == Current(c).status = "retry_wait"

NextPending(r) == [status |-> "pending", attempt_no |-> r.attempt_no + 1,
                   payload |-> r.payload]

\* A write of c's row, which stamps updated_at.
Write(c, r) ==
    /\ row' = [row EXCEPT ![KeyOf(c)] = r]
    /\ newest' = KeyOf(c)

Goto(c, label) == pc' = [pc EXCEPT ![c] = label]
Hold(c, copy)  == attempt' = [attempt EXCEPT ![c] = copy]

----------------------------------------------------------------------------
Init ==
    /\ row      = [k \in Keys |-> NoRow]
    /\ newest   = "none"
    /\ day      \in Days
    /\ delivery = "absent"
    /\ pc       = [c \in Callers |-> "idle"]
    /\ alert    = [c \in Callers |-> NoAlert]
    /\ attempt  = [c \in Callers |-> NoRow]
    /\ reply    = [c \in Callers |-> "none"]
    /\ answer   = [c \in Callers |-> "none"]
    /\ chat     = [k \in Keys |-> 0]
    /\ mishap   = FALSE
    /\ calls    = 0

\* A call of deliver about a condition, with its rendered card.
Call(c, k, payload) ==
    /\ pc[c] = "idle"
    /\ calls < MaxCalls
    /\ calls' = calls + 1
    /\ alert' = [alert EXCEPT ![c] = [key |-> k, payload |-> payload]]
    /\ answer' = [answer EXCEPT ![c] = "none"]
    /\ Goto(c, "reserve")
    /\ UNCHANGED <<row, newest, day, delivery, attempt, reply, chat, mishap>>

\* _alert_terminal: the worker ends the date blocked.  The provider runs are
\* those of the tasks of this run of the date.
AlertTerminal(w) ==
    \E k \in StagesOf(day), runs \in Evidence : Call(w, k, runs)

\* monitor_archive_capacity above a threshold; below it the job is green and
\* touches nothing.
MonitorCapacity(m) ==
    \E reading \in Readings :
        /\ LevelOf(reading) # "ok"
        /\ Call(m, LevelOf(reading), reading)

\* reserve: INSERT ... ON CONFLICT DO NOTHING.
Reserve(c) ==
    /\ pc[c] = "reserve"
    /\ IF Current(c).status = "absent"
       THEN /\ Write(c, [status |-> "pending", attempt_no |-> 1,
                         payload |-> alert[c].payload])
            /\ Hold(c, row'[KeyOf(c)])
            /\ Goto(c, "send")
       ELSE /\ Goto(c, "conflict")
            /\ UNCHANGED <<row, newest, attempt>>
    /\ UNCHANGED <<day, delivery, alert, reply, answer, chat, mishap, calls>>

\* reserve, after the conflict: another payload under the same key is refused
\* with an exception.
CompareRequest(c) ==
    /\ pc[c] = "conflict"
    /\ Goto(c, IF Current(c).payload = alert[c].payload THEN "load" ELSE "refused")
    /\ UNCHANGED <<row, newest, day, delivery, alert, attempt, reply, answer, chat,
                   mishap, calls>>

\* deliver: the stored attempt, and whether a waiting one may be taken up.
LoadExisting(c) ==
    /\ pc[c] = "load"
    /\ Hold(c, Current(c))
    /\ Goto(c, IF Current(c).status = "retry_wait" /\ Current(c).attempt_no < MaxAttempts
               THEN "resume" ELSE "returned")
    /\ UNCHANGED <<row, newest, day, delivery, alert, reply, answer, chat, mishap, calls>>

\* _resume: the row moves on from where it is, the copy from where it was.
Resume(c) ==
    /\ pc[c] = "resume"
    /\ IF ResumeMatches(c)
       THEN /\ Write(c, NextPending(Current(c)))
            /\ Hold(c, NextPending(attempt[c]))
            /\ Goto(c, "send")
       ELSE /\ Goto(c, "reread")
            /\ UNCHANGED <<row, newest, attempt>>
    /\ UNCHANGED <<day, delivery, alert, reply, answer, chat, mishap, calls>>

\* send_card, with the same uuid for every attempt of a key: Feishu drops a
\* repeated one for an hour only.
ChatAfter(shown, sent) ==
    CASE sent = "sent"    -> {shown + 1} \cup (IF shown > 0 THEN {shown} ELSE {})
      [] sent = "unknown" -> {shown, shown + 1}
      [] OTHER            -> {shown}

Send(c) ==
    /\ pc[c] = "send"
    /\ \E sent \in Replies :
          /\ reply' = [reply EXCEPT ![c] = sent]
          /\ \E shown \in ChatAfter(chat[KeyOf(c)], sent) :
                chat' = [chat EXCEPT ![KeyOf(c)] = shown]
    /\ Goto(c, "record")
    /\ UNCHANGED <<row, newest, day, delivery, alert, attempt, answer, mishap, calls>>

NextStatus(c) ==
    CASE reply[c] = "sent"    -> "succeeded"
      [] reply[c] = "unknown" -> "uncertain"
      [] reply[c] = "retryable" /\ attempt[c].attempt_no < MaxAttempts -> "retry_wait"
      [] OTHER -> "failed"

\* update: the outcome, fenced; a retryable one is taken up after a pause.
Record(c) ==
    /\ pc[c] = "record"
    /\ IF UpdateMatches(c)
       THEN /\ Write(c, [Current(c) EXCEPT !.status = NextStatus(c)])
            /\ Hold(c, [attempt[c] EXCEPT !.status = NextStatus(c)])
            /\ Goto(c, IF NextStatus(c) = "retry_wait" THEN "resume" ELSE "returned")
       ELSE /\ Goto(c, "reread")
            /\ UNCHANGED <<row, newest, attempt>>
    /\ reply' = [reply EXCEPT ![c] = "none"]
    /\ UNCHANGED <<day, delivery, alert, answer, chat, mishap, calls>>

\* A lost update or resume returns the row as it now is.
Reread(c) ==
    /\ pc[c] = "reread"
    /\ Hold(c, Current(c))
    /\ Goto(c, "returned")
    /\ UNCHANGED <<row, newest, day, delivery, alert, reply, answer, chat, mishap, calls>>

\* What the call's result comes to.  The worker reports the alert's status
\* with the blocked date; the monitor's job is green for a warning that was
\* sent and red for everything else.
GreenBelowCritical(c) ==
    IF c \in Workers THEN attempt[c].status
    ELSE IF KeyOf(c) = "warning" THEN "green" ELSE "red"

Outcome(c) ==
    IF c \in Workers THEN attempt[c].status
    ELSE IF KeyOf(c) = "warning" /\ attempt[c].status = "succeeded" THEN "green" ELSE "red"

Forget(c, outcome) ==
    /\ Goto(c, "idle")
    /\ Hold(c, NoRow)
    /\ alert' = [alert EXCEPT ![c].payload = NoPayload,
                             ![c].key = IF outcome = "none" THEN NoAlert.key ELSE @]
    /\ reply' = [reply EXCEPT ![c] = "none"]
    /\ answer' = [answer EXCEPT ![c] = outcome]

Return(c) ==
    /\ pc[c] = "returned"
    /\ Forget(c, Outcome(c))
    /\ UNCHANGED <<row, newest, day, delivery, chat, mishap, calls>>

\* An exception of deliver: _alert_terminal swallows it and reports the alert
\* as failed, the monitor lets it end its job.
OnException(c) == Forget(c, IF c \in Workers THEN "failed" ELSE "red")

Refuse(c) ==
    /\ pc[c] = "refused"
    /\ OnException(c)
    /\ UNCHANGED <<row, newest, day, delivery, chat, mishap, calls>>

\* What may go wrong, once in a behaviour.  A statement of the store raises,
\* at any point of a call.
StatementFails(c) ==
    /\ ~mishap
    /\ pc[c] \in {"reserve", "conflict", "load", "resume", "record", "reread"}
    /\ OnException(c)
    /\ mishap' = TRUE
    /\ UNCHANGED <<row, newest, day, delivery, chat, calls>>

\* The process dies, or the CronJob's deadline ends it.
Die(c) ==
    /\ ~mishap
    /\ pc[c] # "idle"
    /\ Forget(c, "none")
    /\ mishap' = TRUE
    /\ UNCHANGED <<row, newest, day, delivery, chat, calls>>

----------------------------------------------------------------------------
(* The rest of the date, as far as the operations view reads it. *)

\* A run of the date goes on, or a later one gets further or ends elsewhere.
\* The generation attempt and the report of a version are never replaced.
GoesOnTo(d) ==
    CASE d \in {"generation_failed", "report_failed", "validated"} -> {}
      [] d = "draft" -> {"report_failed", "validated"}
      [] OTHER       -> DayStates \ {d, "ingesting"}

RunGoesOn ==
    /\ day' \in Days \cap GoesOnTo(day)
    /\ UNCHANGED <<row, newest, delivery, pc, alert, attempt, reply, answer, chat,
                   mishap, calls>>

\* Deliveries and manual retries of the validated report, whose row
\* ReportDelivery follows.  The view reads retry_wait as it reads pending, and
\* uncertain as failed, so one of each is enough here.
DeliveryMoves ==
    /\ day = "validated"
    /\ \/ /\ delivery \in {"absent", "failed"}
          /\ delivery' = "pending"
       \/ /\ delivery = "pending"
          /\ delivery' \in {"failed", "succeeded"}
    /\ newest' = "delivery_attempt"
    /\ UNCHANGED <<row, day, pc, alert, attempt, reply, answer, chat, mishap, calls>>

\* What the rows before the delivery say of the date.
Progress(d) ==
    CASE d = "ingesting"                              -> "ingesting"
      [] d = "unready"                                -> "quality_blocked"
      [] d \in {"ready", "draft"}                     -> "generating"
      [] d \in {"generation_failed", "report_failed"} -> "attention_required"
      [] d = "validated"                              -> "awaiting_delivery"

\* The delivery or alert row that was updated last.
NewestEvent ==
    CASE newest = "none"             -> [kind |-> "none", status |-> "absent"]
      [] newest = "delivery_attempt" -> [kind |-> "delivery", status |-> delivery]
      [] newest \in Keys             -> [kind |-> "alert", status |-> row[newest].status]

\* _operational_status: the newest of these rows decides, unless it is an
\* alert under way.
ViewIgnoresUncertain ==
    LET kind   == NewestEvent.kind
        status == NewestEvent.status
    IN  CASE kind = "delivery" /\ status = "succeeded" -> "delivered"
          [] kind = "alert" /\ status = "succeeded"    -> "blocked_alerted"
          [] kind # "none" /\ status = "failed"        -> "attention_required"
          [] kind = "delivery"                         -> "awaiting_delivery"
          [] OTHER                                     -> Progress(day)

OperationalStatus ==
    LET kind   == NewestEvent.kind
        status == NewestEvent.status
    IN  CASE kind = "delivery" /\ status = "succeeded" -> "delivered"
          [] kind = "alert" /\ status = "succeeded"    -> "blocked_alerted"
          [] kind # "none" /\ status \in {"failed", "uncertain"} -> "attention_required"
          [] kind = "delivery"                         -> "awaiting_delivery"
          [] OTHER                                     -> Progress(day)

OperatorAttentionRequired ==
    OperationalStatus \in {"quality_blocked", "blocked_alerted", "attention_required"}

----------------------------------------------------------------------------
Step(c) ==
    \/ Reserve(c)
    \/ CompareRequest(c)
    \/ LoadExisting(c)
    \/ Resume(c)
    \/ Send(c)
    \/ Record(c)
    \/ Reread(c)
    \/ Return(c)
    \/ Refuse(c)
    \/ StatementFails(c)
    \/ Die(c)

Next ==
    \/ \E w \in Workers : AlertTerminal(w)
    \/ \E m \in Monitors : MonitorCapacity(m)
    \/ \E c \in Callers : Step(c)
    \/ RunGoesOn
    \/ DeliveryMoves

Spec == Init /\ [][Next]_vars

----------------------------------------------------------------------------
(* Properties *)

\* Types of the rows, of the calls and of the bookkeeping.
TypeOK ==
    /\ row \in [Keys -> [status : RowStatuses, attempt_no : Nat, payload : Payloads]]
    /\ newest \in Keys \cup {"none", "delivery_attempt"}
    /\ day \in DayStates
    /\ delivery \in {"absent", "pending", "failed", "succeeded"}
    /\ pc \in [Callers -> {"idle", "reserve", "conflict", "load", "resume", "send",
                           "record", "reread", "returned", "refused"}]
    /\ alert \in [Callers -> [key : Keys, payload : Payloads]]
    /\ attempt \in [Callers -> [status : RowStatuses, attempt_no : Nat, payload : Payloads]]
    /\ reply \in [Callers -> Replies \cup {"none"}]
    /\ answer \in [Callers -> RowStatuses \cup {"none", "green", "red"}]
    /\ chat \in [Keys -> Nat]
    /\ mishap \in BOOLEAN
    /\ calls \in 0 .. MaxCalls

\* docs/feishu-delivery.md:39, an ambiguous outcome is never sent again: the
\* alert chat shows one card of a condition at most, however many workers and
\* probes raise it, resume each other's attempts and die between statements.
OneCardPerCondition == \A k \in Keys : chat[k] <= 1

\* No caller is told more than is so.  A worker reports an alert as sent, and
\* the monitor's job ends green above the threshold, only if the card is in
\* the chat, whoever sent it; a job above the critical threshold is never
\* green; and a row that rules the card out is right.
AnswersAreBacked ==
    /\ \A c \in Callers : answer[c] \in {"succeeded", "green"} => chat[KeyOf(c)] = 1
    /\ \A m \in Monitors : answer[m] = "green" => KeyOf(m) = "warning"
    /\ \A k \in Keys : row[k].status \in {"absent", "failed", "retry_wait"} => chat[k] = 0

\* A row that _resume took further than the copy of the caller that took it:
\* the third attempt is the first that a second caller may have overtaken.  Its
\* outcome matches no row, which stays pending.
Overtaken(r) == r.status = "pending" /\ r.attempt_no > 2

\* A date that a worker ended blocked asks for the operator's attention in
\* the operations view once the calls are over, whatever became of the alert
\* and whoever else wrote one, unless its delivery was taken up since, a call
\* was cut short or the newest alert was overtaken.
BlockedDateShows ==
    /\ ~mishap
    /\ newest # "delivery_attempt"
    /\ \A c \in Callers : pc[c] = "idle"
    /\ \E w \in Workers : answer[w] # "none"
    => OperatorAttentionRequired \/ Overtaken(row[newest])

\* docs/runbooks/k3s-production.md:261-264: at 70% a warning is sent, from 85%
\* on the CronJob fails, and the same level on the same date is idempotent.
\* Where nothing fails, a job at the warning level whose warning was sent is
\* then not red.
WarnedOnceIsGreen ==
    \A m \in Monitors :
        ~mishap /\ answer[m] = "red" /\ KeyOf(m) = "warning"
            => row["warning"].status # "succeeded"

=============================================================================
