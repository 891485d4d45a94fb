---------------------------- MODULE IngestionRun ----------------------------
(***************************************************************************)
(* One durable ingestion run: jobs/runner.py over the provider_runs table. *)
(*                                                                         *)
(* The idempotency key of a request (the checksum of its payload) makes    *)
(* provider_runs hold one row per request, so the module follows one       *)
(* request.  Calls are calls of JobRunner.execute for it: of a worker, of  *)
(* the same worker restarted, of another worker.  Each database statement  *)
(* is an action, also inside a transaction: PostgreSQL's default isolation *)
(* gives every statement its own snapshot.  Time passes in ticks, counted  *)
(* down in the lease and in the patience of the calls that wait.           *)
(***************************************************************************)
EXTENDS Integers, FiniteSets

CONSTANTS
    Calls,          \* the calls of execute; each runs once
    Versions,       \* what the provider may serve for the requested page
    LeaseTicks,     \* run_lease_seconds
    WaitTicks       \* running_run_wait_seconds

\* JobRunner.__init__ refuses durations that are not positive.
ASSUME DurationAssumption == LeaseTicks \in Nat \ {0} /\ WaitTicks \in Nat \ {0}

VARIABLES
    run,        \* the provider_runs row: [status, attempt_no, lease]
    pages,      \* ingest_page_commits: the versions whose records are stored
    pc,         \* pc[c]: the statement call c executes next
    claim,      \* claim[c]: attempt_no of the IngestionRunLease of c, or 0
    patience,   \* patience[c]: what is left until the deadline of c's wait
    beating,    \* beating[c]: the heartbeat task of c is running
    page,       \* page[c]: the version the handler of c fetched
    inserted,   \* inserted[c]: the handler of c stored its page's records
    answer      \* history: the attempt whose result c was given, or 0

vars == <<run, pages, pc, claim, patience, beating, page, inserted, answer>>

\* succeeded stands for succeeded and partial, which are replayed alike, and
\* failed for failed and retry_wait, which are recovered alike.
RunStatuses == {"absent", "running", "failed", "succeeded"}
Runs == [status : RunStatuses, attempt_no : Nat, lease : 0..LeaseTicks]

Waiting == {"load", "claim", "look"}
Working == {"fetch", "commit", "complete", "fail"}
Ended   == {"returned", "raised", "dead"}

Init ==
    /\ run      = [status |-> "absent", attempt_no |-> 0, lease |-> 0]
    /\ pages    = {}
    /\ pc       = [c \in Calls |-> "idle"]
    /\ claim    = [c \in Calls |-> 0]
    /\ patience = [c \in Calls |-> 0]
    /\ beating  = [c \in Calls |-> FALSE]
    /\ page     = [c \in Calls |-> {}]
    /\ inserted = [c \in Calls |-> FALSE]
    /\ answer   = [c \in Calls |-> 0]

Goto(c, label) == pc' = [pc EXCEPT ![c] = label]

----------------------------------------------------------------------------
(* Taking the run: _acquire_checkpointed_run and _wait_or_reclaim_run. *)

\* c holds the lease of attempt n: the row says so, and its heartbeat starts.
Hold(c, n) ==
    /\ run' = [status |-> "running", attempt_no |-> n, lease |-> LeaseTicks]
    /\ claim' = [claim EXCEPT ![c] = n]
    /\ beating' = [beating EXCEPT ![c] = TRUE]
    /\ Goto(c, "fetch")

\* acquire_run: INSERT ... ON CONFLICT (idempotency_key) DO NOTHING.
Acquire(c) ==
    /\ pc[c] = "idle"
    /\ IF run.status = "absent"
       THEN Hold(c, 1)
       ELSE Goto(c, "replay") /\ UNCHANGED <<run, claim, beating>>
    /\ UNCHANGED <<pages, patience, page, inserted, answer>>

\* load_completed_result: only a succeeded or partial run has a result.
Replayable == run.status = "succeeded"

TakeStoredResult(c) ==
    /\ answer' = [answer EXCEPT ![c] = run.attempt_no]
    /\ Goto(c, "returned")

\* The conflicting run is replayed, or the wait for it begins.
Replay(c) ==
    /\ pc[c] = "replay"
    /\ IF Replayable
       THEN TakeStoredResult(c) /\ UNCHANGED patience
       ELSE /\ Goto(c, "load")
            /\ patience' = [patience EXCEPT ![c] = WaitTicks]
            /\ UNCHANGED answer
    /\ UNCHANGED <<run, pages, claim, beating, page, inserted>>

\* One round of the wait: load_completed_result, ...
Load(c) ==
    /\ pc[c] = "load"
    /\ IF Replayable THEN TakeStoredResult(c) ELSE Goto(c, "claim") /\ UNCHANGED answer
    /\ UNCHANGED <<run, pages, claim, patience, beating, page, inserted>>

\* ... claim_recoverable_run (a finished run has no lease either), ...
RecoverableByLease == run.lease = 0
Recoverable ==
    \/ run.status = "failed"
    \/ run.status = "running" /\ run.lease = 0

SameAttempt == run.attempt_no
NextAttempt == run.attempt_no + 1

Claim(c) ==
    /\ pc[c] = "claim"
    /\ IF Recoverable
       THEN Hold(c, NextAttempt)
       ELSE Goto(c, "look") /\ UNCHANGED <<run, claim, beating>>
    /\ UNCHANGED <<pages, patience, page, inserted, answer>>

\* ... and load_run: give up, or sleep until the next round.
LookWithFreshDeadline(c) ==
    /\ pc[c] = "look"
    /\ IF run.status # "running" THEN Goto(c, "raised") ELSE Goto(c, "load")
    /\ patience' = [patience EXCEPT ![c] = WaitTicks]
    /\ UNCHANGED <<run, pages, claim, beating, page, inserted, answer>>

Look(c) ==
    /\ pc[c] = "look"
    /\ Goto(c, IF run.status # "running" \/ patience[c] = 0 THEN "raised" ELSE "load")
    /\ UNCHANGED <<run, pages, claim, patience, beating, page, inserted, answer>>

----------------------------------------------------------------------------
(* Doing the work: execute and the checkpointed handlers. *)

\* run_checkpointed fetches the page; its content may differ between calls.
Fetch(c) ==
    /\ pc[c] = "fetch"
    /\ \E v \in Versions : page' = [page EXCEPT ![c] = {v}]
    /\ Goto(c, "commit")
    /\ UNCHANGED <<run, pages, claim, patience, beating, inserted, answer>>

\* commit_page: the reservation of the fingerprint and the records are one
\* transaction.  It carries no lease: a fenced-off call still commits.
CommitPage(c) ==
    /\ pc[c] = "commit"
    /\ pages' = pages \cup page[c]
    /\ inserted' = [inserted EXCEPT ![c] = ~(page[c] \subseteq pages)]
    /\ Goto(c, "complete")
    /\ UNCHANGED <<run, claim, patience, beating, page, answer>>

\* The handler raises: a provider error, a rejected record, a lost database.
HandlerRaises(c) ==
    /\ pc[c] \in {"fetch", "commit"}
    /\ Goto(c, "fail")
    /\ UNCHANGED <<run, pages, claim, patience, beating, page, inserted, answer>>

\* The WHERE clause of renew_lease, complete_run and fail_run.
OwnsUnfenced(c) == run.status = "running"
Owns(c) == run.status = "running" /\ run.attempt_no = claim[c]

\* A call ends: the finally clause cancels its heartbeat.
EndWithoutCancel(c, how) == Goto(c, how) /\ UNCHANGED beating
End(c, how) == Goto(c, how) /\ beating' = [beating EXCEPT ![c] = FALSE]

Finish(status) == run' = [run EXCEPT !.status = status, !.lease = 0]

\* complete_run.  A lost lease is an error, handled like any other.
Complete(c) ==
    /\ pc[c] = "complete"
    /\ IF Owns(c)
       THEN /\ \/ Finish("succeeded") /\ answer' = [answer EXCEPT ![c] = claim[c]]
               \/ Finish("failed") /\ UNCHANGED answer
            /\ End(c, "returned")
       ELSE Goto(c, "fail") /\ UNCHANGED <<run, beating, answer>>
    /\ UNCHANGED <<pages, claim, patience, page, inserted>>

\* _fail_durable_run, then the error goes on to the caller.
Fail(c) ==
    /\ pc[c] = "fail"
    /\ IF Owns(c) THEN Finish("failed") ELSE UNCHANGED run
    /\ End(c, "raised")
    /\ UNCHANGED <<pages, claim, patience, page, inserted, answer>>

\* The database refuses the statement (to complete or to fail): it raises.
StatementFails(c) ==
    /\ \/ pc[c] = "complete" /\ Goto(c, "fail") /\ UNCHANGED beating
       \/ pc[c] = "fail" /\ End(c, "raised")
    /\ UNCHANGED <<run, pages, claim, patience, page, inserted, answer>>

\* _renew_lease_until_finished: a third of the lease apart when the process
\* is healthy, later or never when it is not; it stops once fenced off.
Renew(c) ==
    /\ beating[c]
    /\ IF Owns(c)
       THEN run' = [run EXCEPT !.lease = LeaseTicks] /\ UNCHANGED beating
       ELSE beating' = [beating EXCEPT ![c] = FALSE] /\ UNCHANGED run
    /\ UNCHANGED <<pages, pc, claim, patience, page, inserted, answer>>

\* The process dies between two statements, its heartbeat with it.
Crash(c) ==
    /\ pc[c] \in {"replay"} \cup Waiting \cup Working
    /\ Goto(c, "dead")
    /\ beating' = [beating EXCEPT ![c] = FALSE]
    /\ UNCHANGED <<run, pages, claim, patience, page, inserted, answer>>

Less(n) == IF n = 0 THEN 0 ELSE n - 1

Tick ==
    /\ run.lease > 0 \/ \E c \in Calls : patience[c] > 0
    /\ run' = [run EXCEPT !.lease = Less(run.lease)]
    /\ patience' = [c \in Calls |-> Less(patience[c])]
    /\ UNCHANGED <<pages, pc, claim, beating, page, inserted, answer>>

----------------------------------------------------------------------------
\* What the runner itself does next in a started call.
Proceed(c) == Replay(c) \/ Load(c) \/ Claim(c) \/ Look(c) \/ Complete(c) \/ Fail(c)

\* What the handler does, which calls out to a provider.
Handle(c) == Fetch(c) \/ CommitPage(c) \/ HandlerRaises(c)

Work ==
    \E c \in Calls :
       Acquire(c) \/ Proceed(c) \/ Handle(c) \/ StatementFails(c) \/ Renew(c) \/ Crash(c)

Next == Work \/ Tick

\* Time passes and the event loop runs what the runner is to do next.  The
\* provider may never answer, a heartbeat may stall, nobody must call.
Fairness == WF_vars(Tick) /\ \A c \in Calls : WF_vars(Proceed(c))

Spec == Init /\ [][Next]_vars /\ Fairness

----------------------------------------------------------------------------
(* Properties *)

\* Types of the row and of what the calls hold.
TypeOK ==
    /\ run \in Runs
    /\ pages \subseteq Versions
    /\ pc \in [Calls -> {"idle", "replay"} \cup Waiting \cup Working \cup Ended]
    /\ claim \in [Calls -> Nat]
    /\ patience \in [Calls -> 0..WaitTicks]
    /\ beating \in [Calls -> BOOLEAN]
    /\ page \in [Calls -> SUBSET Versions]
    /\ inserted \in [Calls -> BOOLEAN]
    /\ answer \in [Calls -> Nat]

\* The attempt number is a fence: no two calls ever hold the same one, and
\* only the newest can still change the run.
OneOwnerPerAttempt ==
    \A c, d \in Calls :
        /\ claim[c] # 0 /\ claim[c] = claim[d] => c = d
        /\ claim[c] <= run.attempt_no

\* A run says succeeded only for an owner whose page is stored, and however
\* many owners stored the same page, one of them counted its records.
ResultIsBacked ==
    /\ run.status = "succeeded" =>
          \E c \in Calls : claim[c] = run.attempt_no /\ page[c] # {} /\ page[c] \subseteq pages
    /\ \A c, d \in Calls : inserted[c] /\ inserted[d] /\ page[c] = page[d] => c = d

\* A waiting call ends its wait, also when the owner hangs with a heartbeat
\* that goes on renewing: the deadline is set once.
WaitEnds == \A c \in Calls : pc[c] \in Waiting ~> pc[c] \notin Waiting

\* A run nobody works on any more does not stay leased: with its owner ended,
\* by whatever error, its lease runs out and the run can be taken over.
Orphaned ==
    /\ run.status = "running"
    /\ \A c \in Calls : claim[c] = run.attempt_no => pc[c] \in Ended

OrphanIsFreed == Orphaned ~> ~Orphaned \/ run.lease = 0

Once == INSTANCE RunOnce
    WITH result <- IF run.status = "succeeded" THEN run.attempt_no ELSE 0

\* However calls wait, take over, lose their lease and finish late, the run
\* is decided once and every call that returns a result returns that one.
RunsOnce == Once!OSpec

=============================================================================
