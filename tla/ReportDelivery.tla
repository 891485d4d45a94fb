--------------------------- MODULE ReportDelivery ---------------------------
(***************************************************************************)
(* Delivery of one published daily report to one Feishu chat:              *)
(* services/report_delivery.py over the delivery_attempts table.           *)
(*                                                                         *)
(* The idempotency key (date, version, target) makes delivery_attempts     *)
(* hold one row per report and chat, so the module follows that row.       *)
(* Senders are calls of ReportDeliveryService.deliver (the scheduler's,    *)
(* which may overlap when a worker restarts or loses its date lock), and   *)
(* Operators are calls of ReportDeliveryService.retry (the operations      *)
(* API, another process).  Every database statement is a transaction of    *)
(* its own, so every one is an action of its own.                          *)
(***************************************************************************)
EXTENDS Integers

CONSTANTS
    Senders,            \* automatic deliveries that may run at once
    Operators,          \* manual retries that may run at once
    MaxAttempts,        \* FEISHU_DELIVERY_MAX_ATTEMPTS
    MaxTotalAttempts    \* FEISHU_DELIVERY_MAX_TOTAL_ATTEMPTS

Callers == Senders \cup Operators

\* ReportDeliveryService.__init__ refuses anything else.
ASSUME BudgetAssumption ==
    /\ MaxAttempts \in Nat \ {0}
    /\ MaxTotalAttempts \in Nat
    /\ MaxTotalAttempts >= MaxAttempts

\* A caller is a scheduler's deliver or an operator's retry, never both.
ASSUME CallerAssumption == Senders \cap Operators = {}

VARIABLES
    row,        \* the delivery_attempts row: [attempt_no, status]
    pc,         \* pc[c]: the statement caller c executes next
    attempt,    \* attempt[c]: c's in-memory copy of the row
    confirmed,  \* confirmed[c]: confirmed_not_delivered of operator c's call
    reply,      \* reply[c]: the transport's answer c has yet to record
    chat,       \* how many copies of the report the chat shows (external)
    waived      \* history: a resend was authorised by a wrong confirmation

vars == <<row, pc, attempt, confirmed, reply, chat, waived>>

----------------------------------------------------------------------------
(* The table row and the replies of the transport. *)

RowStatuses == {"absent", "pending", "failed", "retry_wait", "succeeded", "uncertain"}
Rows        == [attempt_no : Nat, status : RowStatuses]
NoRow       == [attempt_no |-> 0, status |-> "absent"]

\* FeishuTransport.send_card gets a tenant token first.  Whatever goes wrong
\* there, nothing was posted: rate limits, disconnects and 5xx may be retried,
\* a refused or malformed token may not.
TokenErrors == {"retryable", "rejected"}

\* Then it posts the card: a message ID, or an error like those (a rate limit,
\* any other 4xx or code), or, after a timeout, a disconnect, a 5xx or an
\* answer without a message ID, an outcome it does not know.
Replies == {"sent", "unknown"} \cup TokenErrors

\* How many copies the chat may show once it gave this reply.  Feishu drops a
\* repeated uuid for an hour only: a later repeat shows a second copy.
ChatAfter(answer) ==
    CASE answer = "sent"    -> {chat + 1} \cup (IF chat > 0 THEN {chat} ELSE {})
      [] answer = "unknown" -> {chat, chat + 1}
      [] OTHER              -> {chat}

NextPending(r) == [attempt_no |-> r.attempt_no + 1, status |-> "pending"]

----------------------------------------------------------------------------
(* The statements of ReportRepository, each guarded by its WHERE clause. *)

\* reserve_delivery_attempt: INSERT ... ON CONFLICT DO NOTHING.
ReserveMatches == row.status = "absent"

\* update_delivery_attempt: fenced on the attempt number and on pending.
UpdateMatches(c) ==
    /\ row.attempt_no = attempt[c].attempt_no
    /\ row.status = "pending"

\* retry_delivery_attempt: not fenced on the attempt number.
ResumeMatchesUncertain == row.status \in {"failed", "retry_wait", "uncertain"}
ResumeMatchesPending == row.status \in {"failed", "retry_wait", "pending"}
ResumeMatches == row.status \in {"failed", "retry_wait"}

\* authorize_manual_delivery_retry: fenced on the attempt number.
AuthorizeMatches(o) ==
    /\ row.attempt_no = attempt[o].attempt_no
    /\ row.status \in {"failed", "retry_wait"}
                      \cup (IF confirmed[o] THEN {"uncertain"} ELSE {})

----------------------------------------------------------------------------
Init ==
    /\ row       = NoRow
    /\ pc        = [c \in Callers |-> "idle"]
    /\ attempt   = [c \in Callers |-> NoRow]
    /\ confirmed = [c \in Callers |-> FALSE]
    /\ reply     = [c \in Callers |-> "none"]
    /\ chat      = 0
    /\ waived    = FALSE

Goto(c, label) == pc' = [pc EXCEPT ![c] = label]
Hold(c, copy)  == attempt' = [attempt EXCEPT ![c] = copy]

\* deliver: load the validated published report, then reserve its attempt.
\* The report never changes once it is published, so a reused key always
\* carries the same request payload.
Deliver(s) ==
    /\ pc[s] = "idle"
    /\ IF ReserveMatches
       THEN /\ row' = NextPending(NoRow)
            /\ Hold(s, row')
            /\ Goto(s, "send")
       ELSE /\ Goto(s, "load")
            /\ UNCHANGED <<row, attempt>>
    /\ UNCHANGED <<confirmed, reply, chat, waived>>

\* deliver, after a conflict: read the stored attempt and decide whether a
\* retry_wait left behind by an earlier call may be resumed.
MayResume(r) == r.status = "retry_wait" /\ r.attempt_no < MaxAttempts

LoadExisting(s) ==
    /\ pc[s] = "load"
    /\ Hold(s, row)
    /\ Goto(s, IF MayResume(row) THEN "resume" ELSE "returned")
    /\ UNCHANGED <<row, confirmed, reply, chat, waived>>

\* _resume_retry: the row moves on from whatever attempt it is at, the copy
\* in memory from the attempt this caller knew.
ResumeWithoutCount(s) ==
    /\ pc[s] = "resume"
    /\ IF ResumeMatches
       THEN /\ row' = [row EXCEPT !.status = "pending"]
            /\ Hold(s, [attempt[s] EXCEPT !.status = "pending"])
            /\ Goto(s, "send")
       ELSE /\ Goto(s, "reread")
            /\ UNCHANGED <<row, attempt>>
    /\ UNCHANGED <<confirmed, reply, chat, waived>>

ResumeRetry(s) ==
    /\ pc[s] = "resume"
    /\ IF ResumeMatches
       THEN /\ row' = NextPending(row)
            /\ Hold(s, NextPending(attempt[s]))
            /\ Goto(s, "send")
       ELSE /\ Goto(s, "reread")
            /\ UNCHANGED <<row, attempt>>
    /\ UNCHANGED <<confirmed, reply, chat, waived>>

\* retry: load the row and refuse or accept it, in the order of the code.
RetryVerdict(r, conf) ==
    CASE r.status = "absent"                      -> "refused"
      [] r.status = "succeeded"                   -> "returned"
      [] r.status = "pending"                     -> "refused"
      [] r.status = "uncertain" /\ ~conf          -> "refused"
      [] r.attempt_no >= MaxTotalAttempts         -> "refused"
      [] OTHER                                    -> "authorize"

LoadForRetry(o, conf) ==
    /\ pc[o] = "idle"
    /\ confirmed' = [confirmed EXCEPT ![o] = conf]
    /\ Hold(o, row)
    /\ Goto(o, RetryVerdict(row, conf))
    /\ UNCHANGED <<row, reply, chat, waived>>

\* retry: authorize_manual_retry, and the copy sent is the one authorised.
AuthorizeManualRetry(o) ==
    /\ pc[o] = "authorize"
    /\ IF AuthorizeMatches(o)
       THEN /\ row' = NextPending(row)
            /\ Hold(o, NextPending(attempt[o]))
            /\ Goto(o, "send")
            /\ waived' = (waived \/ (row.status = "uncertain" /\ chat > 0))
       ELSE /\ Goto(o, "refused")
            /\ UNCHANGED <<row, attempt, waived>>
    /\ UNCHANGED <<confirmed, reply, chat>>

\* _send: one call of the transport.
Send(c) ==
    /\ pc[c] = "send"
    /\ \E answer \in Replies :
          /\ reply' = [reply EXCEPT ![c] = answer]
          /\ chat' \in ChatAfter(answer)
    /\ Goto(c, "record")
    /\ UNCHANGED <<row, attempt, confirmed, waived>>

\* _send: the status an answer leads to.  A manual retry passes its own
\* attempt as the limit, so it never waits for another one.
AttemptLimit(c) == IF c \in Senders THEN MaxAttempts ELSE attempt[c].attempt_no

UnknownAsRetryable(c) ==
    CASE reply[c] = "sent" -> "succeeded"
      [] reply[c] \in {"unknown", "retryable"}
            /\ attempt[c].attempt_no < AttemptLimit(c) -> "retry_wait"
      [] OTHER -> "failed"

NextStatus(c) ==
    CASE reply[c] = "sent" -> "succeeded"
      [] reply[c] = "unknown" -> "uncertain"
      [] reply[c] = "retryable" /\ attempt[c].attempt_no < AttemptLimit(c) -> "retry_wait"
      [] OTHER -> "failed"

RecordOutcome(c) ==
    /\ pc[c] = "record"
    /\ IF UpdateMatches(c)
       THEN /\ row' = [row EXCEPT !.status = NextStatus(c)]
            /\ Hold(c, [attempt[c] EXCEPT !.status = NextStatus(c)])
            /\ Goto(c, IF NextStatus(c) = "retry_wait" THEN "resume" ELSE "returned")
       ELSE /\ Goto(c, "reread")
            /\ UNCHANGED <<row, attempt>>
    /\ reply' = [reply EXCEPT ![c] = "none"]
    /\ UNCHANGED <<confirmed, chat, waived>>

\* A lost update or resume returns the row as it now is.
Reread(c) ==
    /\ pc[c] = "reread"
    /\ Hold(c, row)
    /\ Goto(c, "returned")
    /\ UNCHANGED <<row, confirmed, reply, chat, waived>>

\* The service calling deliver or retry takes the result or the refusal.
Forget(c) ==
    /\ Goto(c, "idle")
    /\ Hold(c, NoRow)
    /\ confirmed' = [confirmed EXCEPT ![c] = FALSE]
    /\ reply' = [reply EXCEPT ![c] = "none"]
    /\ UNCHANGED <<row, chat, waived>>

TakeResult(c) == pc[c] \in {"returned", "refused"} /\ Forget(c)

\* The process of c dies, or its request is cancelled, between two statements:
\* what it had in memory is gone, what it committed stays.
Crash(c) == pc[c] # "idle" /\ Forget(c)

----------------------------------------------------------------------------
\* The statements a started call goes on to execute.
Proceed(c) ==
    \/ /\ c \in Senders
       /\ LoadExisting(c) \/ ResumeRetry(c)
    \/ /\ c \in Operators
       /\ AuthorizeManualRetry(c)
    \/ Send(c)
    \/ RecordOutcome(c)
    \/ Reread(c)

Continue(c) == Proceed(c) \/ TakeResult(c)

Work ==
    \/ \E s \in Senders : Deliver(s)
    \/ \E o \in Operators, conf \in BOOLEAN : LoadForRetry(o, conf)
    \/ \E c \in Callers : Continue(c)

Next == Work \/ \E c \in Callers : Crash(c)

\* A started coroutine is scheduled again until it returns or dies; nobody
\* has to call deliver or retry.
Fairness == \A c \in Callers : WF_vars(Continue(c))

Spec == Init /\ [][Next]_vars /\ Fairness

----------------------------------------------------------------------------
(* Properties *)

\* Types of the row, of the callers' copies and of the bookkeeping.
TypeOK ==
    /\ row \in Rows
    /\ pc \in [Callers -> {"idle", "load", "resume", "authorize", "send", "record",
                           "reread", "returned", "refused"}]
    /\ attempt \in [Callers -> Rows]
    /\ confirmed \in [Callers -> BOOLEAN]
    /\ reply \in [Callers -> Replies \cup {"none"}]
    /\ chat \in Nat
    /\ waived \in BOOLEAN

InFlight(c) == pc[c] \in {"send", "record"}

\* However deliveries, manual retries, crashes and stale resumes interleave,
\* no two callers are between their reservation and their outcome at once:
\* the pending row is an exclusive claim on the network.
OneSendInFlight == \A c, d \in Callers : InFlight(c) /\ InFlight(d) => c = d

\* The chat shows a second copy only if an operator declared absent a report
\* that was there: no retry, resume or restart of the code duplicates one.
NoDuplicateCard == chat > 1 => waived

\* The audit never understates: a row that says the report was not delivered
\* (failed, retry_wait) is right, and one that says it was delivered is right.
AuditTellsTheTruth ==
    /\ row.status \in {"absent", "failed", "retry_wait"} => chat = 0 \/ waived
    /\ row.status = "succeeded" => chat > 0

\* A delivered report is never sent again, and an uncertain one only after a
\* caller that carries confirmed_not_delivered took it.
OutcomeIsFinal ==
    [][ /\ row.status = "succeeded" => row' = row
        /\ row.status = "uncertain" /\ row' # row =>
             /\ row' = NextPending(row)
             /\ \E o \in Operators : pc[o] = "authorize" /\ confirmed[o] /\ pc'[o] = "send"
      ]_row

\* A call of deliver or retry that its process does not kill returns: the
\* retry loop of _send ends, whatever the other callers do to the row.
CallReturns ==
    \A c \in Callers : pc[c] # "idle" ~> pc[c] = "idle"

\* The row read as knowledge of the chat: failed and retry_wait (and no row
\* at all) mean that the report is known to be absent.
KnownOfChat ==
    CASE row.status = "pending"   -> "sending"
      [] row.status = "succeeded" -> "delivered"
      [] row.status = "uncertain" -> "unknown"
      [] OTHER                    -> "absent"

Promise == INSTANCE AtMostOnceDelivery WITH known <- KnownOfChat

\* Sending is at most once but for a vouched resend: every step of the
\* delivery code is a step of AtMostOnceDelivery or none.
KeepsPromise == Promise!DSpec

=============================================================================
