------------------------------ MODULE ReportDay ------------------------------
(***************************************************************************)
(* One report date, from the schedule to the chat: jobs/scheduled_runtime  *)
(* (the loop), jobs/scheduled_worker (the date lock and the bundle),       *)
(* services/daily_workflow, report_generator and report_validation.        *)
(*                                                                         *)
(* Workers are processes of macro-data-worker.  They meet in the advisory  *)
(* lock of the date and in the rows of the report.  The lock belongs to a  *)
(* connection: it can go while its worker works on.  What other modules    *)
(* model enters by its result: the bundle's status (TaskCheckpoint), a     *)
(* delivery's status (ReportDelivery).                                     *)
(***************************************************************************)
EXTENDS Naturals

CONSTANTS
    Workers,            \* the worker processes
    MaxReportAttempts,  \* worker_max_report_attempts
    MaxMishaps          \* bound of the model: deaths and lost locks

\* _run_configured_schedule refuses a budget below one.
ASSUME BudgetAssumption == MaxReportAttempts \in Nat \ {0} /\ MaxMishaps \in Nat

VARIABLES
    lock,       \* who holds the advisory lock of the date, {} or {w}
    pc,         \* pc[w]: what worker w does next
    tries,      \* tries[w]: retry_attempts of the date in w's loop
    generation, \* the report_generation_attempts row of the report version
    report,     \* the daily_reports row: absent, generated (no verdict yet),
                \* validated (with the decision to publish) or failed
    delivery,   \* status of the delivery_attempts row, or absent
    cards,      \* how often the chat shows the report
    alerts,     \* the stages the alert delivery was called for
    mishaps     \* how many deaths and lost locks there were

rows == <<generation, report, delivery, cards, alerts>>
vars == <<lock, pc, tries, generation, report, delivery, cards, alerts, mishaps>>

\* A worker about to raise an alert is at the alert's label; the last one is
\* WORKFLOW_RETRY_EXHAUSTED, which the loop raises, without the lock.
Alerts == {"ingestion", "quality_gate", "generation", "validation", "delivery", "exhausted"}

Generating == {"loading", "reserving", "drafting", "falling_back", "validating", "recording"}
Delivering == {"delivering", "sending"}
Labels == {"polling", "ingesting", "releasing", "retrying", "done", "dead"}
          \cup Generating \cup Delivering \cup Alerts

Init ==
    /\ lock = {}
    /\ pc = [w \in Workers |-> "polling"]
    /\ tries = [w \in Workers |-> 0]
    /\ generation = "absent"
    /\ report = "absent"
    /\ delivery = "absent"
    /\ cards = 0
    /\ alerts = {}
    /\ mishaps = 0

Goto(w, label) == pc' = [pc EXCEPT ![w] = label]

----------------------------------------------------------------------------
(* The schedule loop and the date lock. *)

\* _run_configured_schedule, after a locked or a retryable result: another
\* attempt when it is due, until the budget is used up.
TryAgainUncounted(w) == Goto(w, "polling") /\ UNCHANGED tries
TryAgain(w) ==
    /\ tries' = [tries EXCEPT ![w] = @ + 1]
    /\ Goto(w, IF tries'[w] >= MaxReportAttempts THEN "exhausted" ELSE "polling")

\* run_for_date: pg_try_advisory_lock, or the result is locked.
Start(w) ==
    /\ pc[w] = "polling"
    /\ IF lock = {}
       THEN lock' = {w} /\ Goto(w, "ingesting") /\ UNCHANGED tries
       ELSE TryAgain(w) /\ UNCHANGED lock
    /\ UNCHANGED <<rows, mishaps>>

\* The end of hold: pg_advisory_unlock, which raises on a dead connection,
\* and nothing between here and the end of the process catches it.
Release(w) ==
    /\ pc[w] \in {"releasing", "retrying"}
    /\ lock' = lock \ {w}
    /\ IF w \notin lock             THEN Goto(w, "dead") /\ UNCHANGED tries
       ELSE IF pc[w] = "retrying"   THEN TryAgain(w)
       ELSE                              Goto(w, "done") /\ UNCHANGED tries
    /\ UNCHANGED <<rows, mishaps>>

\* The bundle and the materializer: a usable snapshot, a retryable status, or
\* a blocked one, with a snapshot (quality_gate) or without (ingestion).
Ingest(w) ==
    /\ pc[w] = "ingesting"
    /\ \E next \in {"loading", "retrying", "quality_gate", "ingestion"} : Goto(w, next)
    /\ UNCHANGED <<lock, tries, rows, mishaps>>

----------------------------------------------------------------------------
(* DailyReportWorkflow.complete: the report. *)

\* complete: a validated report is published, any other is alerted about.
PublishableIfStored(status) == status # "absent"
Publishable(status) == status = "validated"
Judge(status) == IF Publishable(status) THEN "delivering" ELSE "validation"

LoadReport(w) ==
    /\ pc[w] = "loading"
    /\ Goto(w, IF report = "absent" THEN "reserving" ELSE Judge(report))
    /\ UNCHANGED <<lock, tries, rows, mishaps>>

\* put_generation_attempt: one attempt per report and version, for ever.  On
\* a conflict the new generation_id is not found, which raises.
Unfinished == generation # "generated"
Reservable == generation = "absent"

ReserveGeneration(w) ==
    /\ pc[w] = "reserving"
    /\ IF Reservable
       THEN generation' = "draft" /\ Goto(w, "drafting")
       ELSE Goto(w, "generation") /\ UNCHANGED generation
    /\ UNCHANGED <<lock, tries, report, delivery, cards, alerts, mishaps>>

\* generate: the model's attempts end in a report that can be stored, in one
\* that names facts outside its snapshot, or in none.
Draft(w) ==
    /\ pc[w] = "drafting"
    /\ \/ /\ report = "absent"
          /\ report' = "generated"
          /\ Goto(w, "validating")
          /\ UNCHANGED generation
       \/ /\ generation' = "failed"
          /\ Goto(w, "generation")
          /\ UNCHANGED report
       \/ /\ generation' = "failed"
          /\ Goto(w, "falling_back")
          /\ UNCHANGED report
    /\ UNCHANGED <<lock, tries, delivery, cards, alerts, mishaps>>

\* validate_or_fallback without a candidate: one insert of the finished report.
FallBack(w) ==
    /\ pc[w] = "falling_back"
    /\ IF report = "absent"
       THEN /\ report' \in {"validated", "failed"}
            /\ Goto(w, Judge(report'))
       ELSE Goto(w, "generation") /\ UNCHANGED report
    /\ UNCHANGED <<lock, tries, generation, delivery, cards, alerts, mishaps>>

\* validate_or_fallback with a candidate: update_report_validation, expecting
\* the lifecycle status the report was stored with.
Validate(w) ==
    /\ pc[w] = "validating"
    /\ IF report = "generated"
       THEN /\ report' \in {"validated", "failed"}
            /\ Goto(w, "recording")
            /\ UNCHANGED generation
       ELSE /\ generation' = "failed"
            /\ Goto(w, "generation")
            /\ UNCHANGED report
    /\ UNCHANGED <<lock, tries, delivery, cards, alerts, mishaps>>

\* update_generation_attempt, then complete judges the report it returned.
RecordGeneration(w) ==
    /\ pc[w] = "recording"
    /\ generation' = "generated"
    /\ Goto(w, Judge(report))
    /\ UNCHANGED <<lock, tries, report, delivery, cards, alerts, mishaps>>

\* Any statement of these may fail; complete turns it into an alert.
GenerationRaises(w) ==
    /\ pc[w] \in Generating
    /\ Goto(w, "generation")
    /\ UNCHANGED <<lock, tries, rows, mishaps>>

----------------------------------------------------------------------------
(* complete: the delivery, and the alerts. *)

\* ReportDeliveryService.deliver sends what is not reserved, resumes what a
\* dead caller left waiting, and returns every other status.
SendableUnlessDelivered == delivery # "succeeded"
Sendable == delivery \in {"absent", "retry_wait"}

\* complete: any status but succeeded is alerted about.
SettledUnlessFailed(status) == IF status = "failed" THEN "delivery" ELSE "releasing"
Settled(status) == IF status = "succeeded" THEN "releasing" ELSE "delivery"

Deliver(w) ==
    /\ pc[w] = "delivering"
    /\ IF Sendable
       THEN delivery' = "pending" /\ Goto(w, "sending")
       ELSE Goto(w, Settled(delivery)) /\ UNCHANGED delivery
    /\ UNCHANGED <<lock, tries, generation, report, cards, alerts, mishaps>>

\* The send and its recorded outcome; only succeeded and uncertain ones can
\* have put the report into the chat.
Send(w) ==
    /\ pc[w] = "sending"
    /\ \/ delivery' = "succeeded" /\ cards' = cards + 1
       \/ delivery' = "uncertain" /\ cards' \in {cards, cards + 1}
       \/ delivery' = "failed"    /\ cards' = cards
    /\ Goto(w, Settled(delivery'))
    /\ UNCHANGED <<lock, tries, generation, report, alerts, mishaps>>

\* A statement of the delivery fails, also one after the card was sent.
DeliveryRaises(w) ==
    /\ pc[w] \in Delivering
    /\ cards' \in (IF pc[w] = "sending" THEN {cards, cards + 1} ELSE {cards})
    /\ Goto(w, "delivery")
    /\ UNCHANGED <<lock, tries, generation, report, delivery, alerts, mishaps>>

\* _alert_terminal calls the delivery of alerts.  What becomes of the alert, an
\* exception included, ends up in the result's alert_status and changes nothing.
RaiseAlert(w) ==
    /\ pc[w] \in Alerts
    /\ alerts' = alerts \cup {pc[w]}
    /\ Goto(w, IF pc[w] = "exhausted" THEN "done" ELSE "releasing")
    /\ UNCHANGED <<lock, tries, generation, report, delivery, cards, mishaps>>

----------------------------------------------------------------------------
(* What goes wrong with a worker. *)

Mishap == mishaps < MaxMishaps /\ mishaps' = mishaps + 1

\* The process dies and its connection with it.  A delivery it was about may
\* have reached the chat, or wait for another attempt.
Die(w) ==
    /\ Mishap
    /\ pc[w] # "dead"
    /\ lock' = lock \ {w}
    /\ Goto(w, "dead")
    /\ IF pc[w] = "sending"
       THEN \/ cards' \in {cards, cards + 1} /\ UNCHANGED delivery
            \/ delivery' = "retry_wait" /\ UNCHANGED cards
       ELSE UNCHANGED <<delivery, cards>>
    /\ UNCHANGED <<tries, generation, report, alerts>>

\* The connection of the lock dies; the worker does not notice until Release.
LoseLock ==
    /\ Mishap
    /\ lock # {}
    /\ lock' = {}
    /\ UNCHANGED <<pc, tries, rows>>

\* The process is started again: its loop has forgotten the date.
Restart(w) ==
    /\ pc[w] = "dead"
    /\ Goto(w, "polling")
    /\ tries' = [tries EXCEPT ![w] = 0]
    /\ UNCHANGED <<lock, rows, mishaps>>

----------------------------------------------------------------------------
Generate(w) ==
    \/ LoadReport(w) \/ ReserveGeneration(w) \/ Draft(w) \/ FallBack(w)
    \/ Validate(w) \/ RecordGeneration(w)

Publish(w) == Deliver(w) \/ Send(w) \/ RaiseAlert(w)

Work(w) == Start(w) \/ Ingest(w) \/ Generate(w) \/ Publish(w) \/ Release(w)

Raise(w) == GenerationRaises(w) \/ DeliveryRaises(w)

Next == LoseLock \/ \E w \in Workers : Work(w) \/ Raise(w) \/ Die(w) \/ Restart(w)

\* A living worker goes on, and the node restarts a dead one.
Fairness == \A w \in Workers : WF_vars(Work(w)) /\ WF_vars(Restart(w))

Spec == Init /\ [][Next]_vars /\ Fairness

----------------------------------------------------------------------------
(* Properties *)

\* Types of the rows and of the workers' memory.
TypeOK ==
    /\ lock \in {{}} \cup {{w} : w \in Workers}
    /\ pc \in [Workers -> Labels]
    /\ tries \in [Workers -> 0..MaxReportAttempts]
    /\ generation \in {"absent", "draft", "failed", "generated"}
    /\ report \in {"absent", "generated", "validated", "failed"}
    /\ delivery \in {"absent", "pending", "retry_wait", "succeeded", "failed", "uncertain"}
    /\ cards \in Nat
    /\ alerts \subseteq Alerts
    /\ mishaps \in 0..MaxMishaps

\* ADR 0009: the date lock is no substitute for the constraints on the rows.
\* With the lock gone, two workers may run the same date: still one of them
\* at most writes the report, and one at most sends it.
Writes(w) == pc[w] \in {"drafting", "falling_back", "validating", "recording"}
Sends(w) == pc[w] = "sending"

OneWriterOneSender ==
    \A v, w \in Workers : (Writes(v) /\ Writes(w)) \/ (Sends(v) /\ Sends(w)) => v = w

\* Whatever a death leaves half done, only a report that passed validation is
\* ever in the chat or on its way there, and it is there once.
OnlyVettedReports ==
    /\ cards <= 1
    /\ delivery # "absent" => report = "validated"

\* What the attempt says of the report is so: generated means that the report
\* was judged, and a report without a verdict belongs to an attempt not ended.
AttemptMatchesReport ==
    /\ generation = "generated" => report \in {"validated", "failed"}
    /\ report = "generated" => generation = "draft"
    /\ report # "absent" => generation # "absent"

\* The runbook: a day that does not end in a delivery ends in an alert.  No
\* worker is through with the date before one of them was set about.
NoSilentDay == \A w \in Workers : pc[w] = "done" => delivery = "succeeded" \/ alerts # {}

\* A verdict on a report is final, and so is a settled delivery.
VerdictsAreFinal ==
    [][ /\ report \in {"validated", "failed"} => report' = report
        /\ delivery \in {"succeeded", "failed", "uncertain"} => delivery' = delivery ]_vars

\* Every worker gets through with the date: budgets end, locks come free.
WorkersFinish == \A w \in Workers : <>(pc[w] = "done")

=============================================================================
