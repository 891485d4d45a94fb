--------------------------- MODULE TaskCheckpoint ---------------------------
(***************************************************************************)
(* One task of one report date: jobs/scheduled_tasks.py over the           *)
(* scheduled_task_checkpoints table.                                       *)
(*                                                                         *)
(* Calls are calls of CheckpointedScheduledTask.run: the attempts of a     *)
(* worker, of the worker restarted, or of another worker after the date    *)
(* lock was lost with its connection.  A call walks the provider's pages   *)
(* through JobRunner.execute.  The runner is taken at its word, RunOnce    *)
(* (which IngestionRun implements): a request has one result, whoever      *)
(* asks, and asking again returns it.                                      *)
(***************************************************************************)
EXTENDS Naturals, Sequences, SequencesExt

CONSTANTS
    Calls,      \* the calls of run; each runs once
    LastPage    \* the provider's pages are at most 1..LastPage

ASSUME PagesAssumption == LastPage \in Nat \ {0}

VARIABLES
    row,        \* the checkpoint row
    pc,         \* pc[c]: what call c does next
    copy,       \* copy[c]: the checkpoint c holds
    runs,       \* runs: the finished provider_runs rows of the task
    result      \* result[c]: the run whose result c has, or what c returned

vars == <<row, pc, copy, runs, result>>

\* A request is known by its request_as_of and its cursor.  The clock of a
\* call gives it a request_as_of of its own, so the call's name stands for
\* it; the call also stands for its lease_owner_id.  A cursor is the page it
\* leads to, page 1 being asked for without a cursor.
Pages == 1..LastPage
None  == 0      \* next_cursor of the last page

\* A finished run: its request, the records it accepted, its next_cursor.
Runs == [as_of : Calls, page : Pages, accepted : 0..1, next : {None} \cup Pages]

\* run_ids lists the runs counted; records_accepted is their sum.
Rows == [status : {"absent", "active", "completed"}, as_of : Calls \cup {None},
         epoch : Nat, owner : Calls \cup {None}, cursor : Pages,
         run_ids : Seq(Runs), accepted : Nat]

NoRow == [status |-> "absent", as_of |-> None, epoch |-> 0, owner |-> None,
          cursor |-> 1, run_ids |-> <<>>, accepted |-> 0]

Init ==
    /\ row = NoRow
    /\ pc = [c \in Calls |-> "idle"]
    /\ copy = [c \in Calls |-> NoRow]
    /\ runs = {}
    /\ result = [c \in Calls |-> {}]

Goto(c, label) == pc' = [pc EXCEPT ![c] = label]
Keep(c, r) == copy' = [copy EXCEPT ![c] = r]

Ended == {"succeeded", "retryable", "failed", "dead"}

----------------------------------------------------------------------------
\* begin_or_load: INSERT ... ON CONFLICT DO UPDATE ... WHERE status = active.
\* A conflict takes the lease over and leaves the progress as it is.
Inserted(c) == [NoRow EXCEPT !.status = "active", !.as_of = c, !.epoch = 1, !.owner = c]

TakenOverAfresh(c) ==
    IF row.status = "active"
    THEN [row EXCEPT !.epoch = @ + 1, !.owner = c, !.as_of = c] ELSE row
TakenOverFromStart(c) ==
    IF row.status = "active" THEN [row EXCEPT !.epoch = @ + 1, !.owner = c, !.cursor = 1] ELSE row
TakenOverAlways(c) == [row EXCEPT !.epoch = @ + 1, !.owner = c]
TakenOver(c) ==
    IF row.status = "active" THEN [row EXCEPT !.epoch = @ + 1, !.owner = c] ELSE row

BeginOrLoad(c) ==
    /\ pc[c] = "idle"
    /\ row' = IF row.status = "absent" THEN Inserted(c) ELSE TakenOver(c)
    /\ Keep(c, row')
    /\ Goto(c, IF row'.status = "completed" THEN "succeeded" ELSE "execute")
    /\ UNCHANGED <<runs, result>>

\* execute: the request that the checkpoint in hand leads to ...
Answers(r, c) == r.as_of = copy[c].as_of /\ r.page = copy[c].cursor

\* ... returns the result of its run, new or replayed.  Whatever a provider
\* serves, its cursors lead on.
Execute(c) ==
    /\ pc[c] = "execute"
    /\ \E r \in Runs :
          /\ Answers(r, c)
          /\ r.next > r.page \/ r.next = None
          /\ \A known \in runs : Answers(known, c) => r = known
          /\ runs' = runs \cup {r}
          /\ result' = [result EXCEPT ![c] = {r}]
    /\ Goto(c, "advance")
    /\ UNCHANGED <<row, copy>>

\* execute raises, or returns a retry_wait or a failed result; retryable is
\* a provider's answer, and no provider is asked about a finished run.
ExecuteFails(c) ==
    /\ pc[c] = "execute"
    /\ \/ Goto(c, "failed")
       \/ Goto(c, "retryable") /\ ~\E known \in runs : Answers(known, c)
    /\ UNCHANGED <<row, copy, runs, result>>

\* advance: a compare-and-set on the lease, then the next page or the end.
HoldsByStatus(c) == row.status = "active"
Holds(c) == row.status = "active" /\ row.epoch = copy[c].epoch /\ row.owner = copy[c].owner

\* The run IDs counted, each once.
Counted(ids, r) == IF \E i \in DOMAIN ids : ids[i] = r THEN ids ELSE Append(ids, r)

Advanced(c, r) ==
    [row EXCEPT !.status   = IF r.next = None THEN "completed" ELSE "active",
                !.cursor   = IF r.next = None THEN 1 ELSE r.next,
                !.run_ids  = Counted(copy[c].run_ids, r),
                !.accepted = @ + r.accepted]

\* No row matched: advance raises, which fails the call.
TriesAgain(c) == Goto(c, "advance")
Loses(c) == Goto(c, "failed")

Advance(c) ==
    /\ pc[c] = "advance"
    /\ IF Holds(c)
       THEN /\ \E r \in result[c] : row' = Advanced(c, r)
            /\ Keep(c, row')
            /\ Goto(c, IF row'.status = "completed" THEN "succeeded" ELSE "execute")
       ELSE Loses(c) /\ UNCHANGED <<row, copy>>
    /\ UNCHANGED <<runs, result>>

\* The process dies between two transactions.
Crash(c) ==
    /\ pc[c] \in {"execute", "advance"}
    /\ Goto(c, "dead")
    /\ UNCHANGED <<row, copy, runs, result>>

----------------------------------------------------------------------------
Step(c) == Execute(c) \/ ExecuteFails(c) \/ Advance(c)

Next == \E c \in Calls : BeginOrLoad(c) \/ Step(c) \/ Crash(c)

\* A started call is executed until it ends; nobody has to call.
Fairness == \A c \in Calls : WF_vars(Step(c))

Spec == Init /\ [][Next]_vars /\ Fairness

----------------------------------------------------------------------------
(* Properties *)

\* Types of the row and of what the calls hold.
TypeOK ==
    /\ row \in Rows
    /\ pc \in [Calls -> {"idle", "execute", "advance"} \cup Ended]
    /\ copy \in [Calls -> Rows]
    /\ runs \subseteq Runs
    /\ result \in [Calls -> SUBSET Runs]

\* The page that the first n of the counted runs lead to.
LedTo(ids, n) == IF n = 0 THEN 1 ELSE ids[n].next

\* However often the task is reclaimed, restarted and replayed, the runs it
\* counted are a walk of the provider's pages, from the first one, each
\* page's cursor taken from the page before, none skipped and none twice;
\* the checkpoint resumes where the walk ends, and is completed at its end.
PagesInOrder ==
    LET ids == row.run_ids IN
    /\ \A i \in DOMAIN ids :
          /\ ids[i] \in runs
          /\ ids[i].as_of = row.as_of
          /\ ids[i].page = LedTo(ids, i - 1)
    /\ row.status = "active" => LedTo(ids, Len(ids)) = row.cursor
    /\ row.status = "completed" => LedTo(ids, Len(ids)) = None

\* The records the task reports are those of the runs it counted: a replay
\* after a crash between a run's completion and the advance adds nothing.
CountsMatch == row.accepted = FoldLeft(LAMBDA sum, r : sum + r.accepted, 0, row.run_ids)

\* A page is ingested by one run, also when the task is taken over while its
\* page is on its way: the durable request_as_of keeps the request the same.
OneRunPerPage == \A r, s \in runs : r.page = s.page => r = s

\* Progress is never lost: counted runs stay counted, in their order, and a
\* completed checkpoint never changes, whoever begins or advances it.
ProgressIsKept ==
    [][ /\ IsPrefix(row.run_ids, row'.run_ids)
        /\ row.status = "completed" => row' = row ]_row

\* A call that is not killed ends, lease or no lease.
CallEnds == \A c \in Calls : pc[c] \in {"execute", "advance"} ~> pc[c] \in Ended

=============================================================================
