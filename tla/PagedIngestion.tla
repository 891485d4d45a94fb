--------------------------- MODULE PagedIngestion ---------------------------
(***************************************************************************)
(* The ingest handlers at work: a task reads a provider page by page while *)
(* the source changes, and stores what it reads.  Several report dates     *)
(* have tasks of one provider role, which share its job_watermarks row; a  *)
(* worker whose lease lapsed may still be at a page when another begins.   *)
(*                                                                         *)
(* Adapters answer as in BarPages and LivePages.  The run and the          *)
(* checkpoint are taken at their word (RunOnce, TaskCheckpoint): a page is *)
(* counted by the worker that holds the task, and counting it moves the    *)
(* task's cursor.                                                          *)
(***************************************************************************)
EXTENDS BarPages, LivePages

CONSTANTS
    Cases,          \* the cases to begin with: an adapter, the source it
                    \* finds, the report dates, and the bounds on changes of
                    \* the source and on mishaps
    Dates,          \* all report dates; a task is known by its date
    Workers,
    Published,      \* Published[a]: the records its source may come to list
    Faults          \* Faults[a]: what may be wrong with a record of it

BarAdapters == {"twelve_data", "baostock", "xtquant"}
LiveAdapters == {"nbs_release", "nbs_news", "hkma", "censtatd", "us_calendar"}

\* The documents that an adapter looks for at the least: of both years, for
\* the annual calendars.
Least(a) == CASE a = "censtatd" -> 2 [] a = "us_calendar" -> 4 [] OTHER -> 1

ASSUME DatesAssumption ==
    /\ Dates \subseteq Nat \ {0}
    /\ \A q \in Dates : Window[q] # {}
    /\ \A c \in Cases :
          /\ c.adapter \in BarAdapters \cup LiveAdapters
          /\ c.dates \subseteq Dates /\ c.changes \in Nat /\ c.mishaps \in Nat
          /\ c.source \in Seq(ToSet(c.source)) /\ Len(c.source) >= Least(c.adapter)
          /\ \A p \in DOMAIN c.source :
                /\ DOMAIN c.source[p] = {"stated", "drift", "rows"}
                /\ c.source[p].rows \in Seq(ToSet(c.source[p].rows))

VARIABLES
    adapter,    \* the adapter of the role
    source,     \* what the provider has to say
    task,       \* task[d]: the checkpoint of date d, and what its pages counted
    work,       \* work[w]: what worker w has in hand
    facts,      \* the items stored
    rejections, \* the ingest_rejections rows
    reserved,   \* the page commits of pages without items
    mark,       \* the job_watermarks row of the role
    changes,    \* the changes of the source still to come, at most
    mishaps     \* the crashes, lapses, failing calls and delays, likewise

vars == <<adapter, source, task, work, facts, rejections, reserved, mark, changes, mishaps>>

NoOne == "none"
Nothing == Refused("none")

\* A task: its next_cursor, whether it is completed, the worker that holds
\* its lease, the rejections its pages counted, the mark of the page counted
\* last, and whether its request_as_of has passed, past which no handler
\* takes its requests.
FreshTask == [cursor |-> NoCursor, done |-> FALSE, owner |-> NoOne, counted |-> {},
              read |-> <<>>, old |-> FALSE]

\* A worker: its next step, its task's date, the cursor it reads at, whether
\* it recovers, the answers it has heard, what stood in the source ever since
\* it began to listen, its page and the rejections still to be recorded.
AtRest == [pc |-> "idle", date |-> 0, cursor |-> NoCursor, recovering |-> FALSE,
           heard |-> <<>>, standing |-> {}, page |-> Nothing, left |-> {}]

Init ==
    /\ \E c \in Cases :
          /\ adapter = c.adapter /\ source = c.source
          /\ task = [d \in c.dates |-> FreshTask]
          /\ changes = c.changes /\ mishaps = c.mishaps
    /\ work = [w \in Workers |-> AtRest]
    /\ facts = {} /\ rejections = {} /\ reserved = {}
    /\ mark = NoCursor

----------------------------------------------------------------------------
(* The adapters *)

Hears(heard, q) ==
    CASE adapter = "twelve_data" -> TwelveDataHears(source, heard)
      [] adapter = "baostock"    -> BaoStockHears(source, heard)
      [] adapter = "xtquant"     -> XtQuantHears(source, heard)
      [] adapter = "hkma"        -> HkmaHears(source, heard)
      [] adapter = "censtatd"    -> CenstatdHears(source, q, heard)
      [] adapter = "us_calendar" -> UsHears(source, q, heard)
      [] OTHER                   -> <<source[1]>>

HeardAll(heard, q) ==
    CASE adapter \in BarAdapters -> BarsHeard(source, heard)
      [] adapter = "hkma"        -> HkmaHeard(heard)
      [] adapter = "censtatd"    -> Len(heard) = Len(YearSeq(q))
      [] adapter = "us_calendar" -> Len(heard) = Len(UsDocuments(q))
      [] OTHER                   -> heard # <<>>

PageOf(heard, q, cursor) ==
    CASE adapter = "twelve_data" -> TwelveDataPage(heard, q, cursor)
      [] adapter = "baostock"    -> BaoStockPage(heard, q, cursor)
      [] adapter = "xtquant"     -> XtQuantPage(heard, q, cursor)
      [] adapter = "nbs_release" -> NbsReleasePage(heard, q, cursor)
      [] adapter = "nbs_news"    -> NbsNewsPage(heard, q, cursor)
      [] adapter = "hkma"        -> HkmaPage(heard, q, cursor)
      [] adapter = "censtatd"    -> CenstatdPage(heard, q, cursor)
      [] adapter = "us_calendar" -> UsCalendarPage(heard, q, cursor)

\* The items of the snapshot that has mark m.
Snapshot(m, q) ==
    CASE adapter \in BarAdapters -> m
      [] adapter = "nbs_release" -> NbsReleases([rows |-> m], q)
      [] adapter = "nbs_news"    -> NbsNews(m, q)
      [] adapter = "hkma"        -> HkmaNews(m, q)
      [] adapter = "censtatd"    -> CenstatdReleases(m, q)
      [] adapter = "us_calendar" -> UsReleases(m, q)

\* The sound records that the HKMA's list has once, if it is served with its
\* datasize.
Once(r, rows) == \A i, j \in DOMAIN rows : rows[i] = r /\ rows[j] = r => i = j
Listed(s) == {r \in ToSet(s[1].rows) : s[1].stated /\ r.fault = "none" /\ Once(r, s[1].rows)}

----------------------------------------------------------------------------
(* The handlers *)

Rest(w) == work' = [work EXCEPT ![w] = AtRest]
Mishap == mishaps > 0 /\ mishaps' = mishaps - 1

\* The lease of the task is free, or its holder's call has ended ...
FreeIfReleased(d) == task[d].owner = NoOne
Free(d) == \A w \in Workers : task[d].owner = w => work[w].date # d

\* A worker takes the task's next page up.
Take(w, d) ==
    /\ work[w].pc = "idle"
    /\ ~task[d].done
    /\ task' = [task EXCEPT ![d].owner = w]
    /\ work' = [work EXCEPT ![w] = [AtRest EXCEPT !.pc = "fetch", !.date = d,
                                                  !.cursor = task[d].cursor]]
    /\ UNCHANGED <<adapter, source, facts, rejections, reserved, mark, changes>>

Begin(w, d) == d \in DOMAIN task /\ Free(d) /\ Take(w, d) /\ UNCHANGED mishaps

\* ... or has lapsed, while the holder is still at work.
TakeOver(w, d) == d \in DOMAIN task /\ ~Free(d) /\ Mishap /\ Take(w, d)

\* run_checkpointed: a request whose request_as_of has passed is refused ...
TooOld(w) ==
    /\ work[w].pc = "fetch" /\ work[w].heard = <<>>
    /\ task[work[w].date].old
    /\ Rest(w)
    /\ UNCHANGED <<adapter, source, task, facts, rejections, reserved, mark, changes, mishaps>>

\* The page, or the error, that the answers heard come to.
Answered(w, page) ==
    IF page.error = "none"
    THEN [work EXCEPT ![w].pc = "reject", ![w].page = page, ![w].left = page.rejected,
                      ![w].heard = <<>>]
    ELSE IF adapter = "twelve_data" /\ page.error \in CursorErrors /\ ~work[w].recovering
    THEN [work EXCEPT ![w].pc = "recover", ![w].heard = <<>>, ![w].standing = {}]
    ELSE [work EXCEPT ![w] = AtRest]

\* ... and the provider is asked, one upstream request after the other.
\* During a recovery the page must have the mark of the row it came from.
Recovered(w, page) ==
    IF work[w].recovering /\ page.error = "none" /\ page.mark # work[w].cursor.mark
    THEN Refused("CURSOR_RECOVERY_MISMATCH") ELSE page

Stood(w) ==
    IF adapter # "hkma" THEN {}
    ELSE IF work[w].heard = <<>> THEN Listed(source)
    ELSE work[w].standing

Ask(w) ==
    LET q == work[w].date IN
    /\ work[w].pc = "fetch"
    /\ work[w].heard = <<>> => ~task[q].old
    /\ IF ~Decodes(q, work[w].cursor)
       THEN work' = Answered(w, Refused("INVALID_CURSOR"))
       ELSE \E heard \in {Hears(work[w].heard, q)} :
               IF HeardAll(heard, q)
               THEN \E page \in {Recovered(w, PageOf(heard, q, work[w].cursor))} :
                       work' = [Answered(w, page) EXCEPT
                                  ![w].standing = IF page.error = "none" THEN Stood(w) ELSE {}]
               ELSE work' = [work EXCEPT ![w].heard = heard, ![w].standing = Stood(w)]
    /\ UNCHANGED <<adapter, source, task, facts, rejections, reserved, mark, changes, mishaps>>

\* A request fails: a timeout, a limit, an outage.
Fail(w) ==
    /\ work[w].pc = "fetch"
    /\ Mishap
    /\ Rest(w)
    /\ UNCHANGED <<adapter, source, task, facts, rejections, reserved, mark, changes>>

\* recover_committed_watermark (Twelve Data): read on at the cursor that was
\* committed last, whoever committed it.
Recover(w) ==
    /\ work[w].pc = "recover"
    /\ IF mark = NoCursor
       THEN Rest(w)
       ELSE work' = [work EXCEPT ![w].pc = "fetch", ![w].cursor = mark, ![w].recovering = TRUE]
    /\ UNCHANGED <<adapter, source, task, facts, rejections, reserved, mark, changes, mishaps>>

\* record_rejection, a transaction for each warning of the page.
RejectNothing(w) ==
    /\ work[w].pc = "reject"
    /\ work' = [work EXCEPT ![w].pc = "commit", ![w].left = {}]
    /\ UNCHANGED <<adapter, source, task, facts, rejections, reserved, mark, changes, mishaps>>
Reject(w) ==
    /\ work[w].pc = "reject"
    /\ IF work[w].left = {}
       THEN work' = [work EXCEPT ![w].pc = "commit"] /\ UNCHANGED rejections
       ELSE \E r \in work[w].left :
               /\ rejections' = rejections \cup {<<work[w].date, r>>}
               /\ work' = [work EXCEPT ![w].left = @ \ {r}]
    /\ UNCHANGED <<adapter, source, task, facts, reserved, mark, changes, mishaps>>

\* The page_fingerprint covers when each item was retrieved, so that only a
\* page without items can have been committed before.
Fingerprint(w) == [query |-> work[w].date, cursor |-> work[w].cursor, mark |-> work[w].page.mark]
Reserves(w) == work[w].page.items # <<>> \/ Fingerprint(w) \notin reserved

\* save_watermark: the mark of the page and its next cursor.
Saved(w) == work[w].page.next

\* commit_page: reservation, records and watermark in one transaction.
Commit(w) ==
    /\ work[w].pc = "commit"
    /\ IF Reserves(w)
       THEN /\ facts' = facts \cup ToSet(work[w].page.items)
            /\ mark' = Saved(w)
            /\ reserved' = IF work[w].page.items = <<>> THEN reserved \cup {Fingerprint(w)}
                           ELSE reserved
       ELSE UNCHANGED <<facts, mark, reserved>>
    /\ work' = [work EXCEPT ![w].pc = "complete"]
    /\ UNCHANGED <<adapter, source, task, rejections, changes, mishaps>>

\* The run completes and the checkpoint advances, for the holder only.
Complete(w) ==
    LET d == work[w].date
        page == work[w].page
    IN
    /\ work[w].pc = "complete"
    /\ task' = IF task[d].owner # w THEN task
               ELSE [task EXCEPT ![d].owner   = NoOne,
                                 ![d].cursor  = page.next,
                                 ![d].done    = (page.next = NoCursor),
                                 ![d].read    = page.mark,
                                 ![d].counted = @ \cup {<<d, r>> : r \in page.rejected}]
    /\ Rest(w)
    /\ UNCHANGED <<adapter, source, facts, rejections, reserved, mark, changes, mishaps>>

\* The worker dies between two transactions or requests.
Crash(w) ==
    /\ work[w].pc # "idle"
    /\ Mishap
    /\ Rest(w)
    /\ UNCHANGED <<adapter, source, task, facts, rejections, reserved, mark, changes>>

\* A day passes and the task is not done.
GrowOld(d) ==
    /\ d \in DOMAIN task /\ ~task[d].done /\ ~task[d].old
    /\ Mishap
    /\ task' = [task EXCEPT ![d].old = TRUE]
    /\ UNCHANGED <<adapter, source, work, facts, rejections, reserved, mark, changes>>

----------------------------------------------------------------------------
(* The provider *)

\* The source changes, and with it what has stood in it all along.
Becomes(s) ==
    /\ changes > 0
    /\ changes' = changes - 1
    /\ source' = s
    /\ work' = [w \in Workers |-> [work[w] EXCEPT !.standing = @ \cap Listed(s)]]
    /\ UNCHANGED <<adapter, task, facts, rejections, reserved, mark, mishaps>>

Rewrite(p, rows) == Becomes([source EXCEPT ![p].rows = rows])

\* A list begins with the newest record, a series of bars ends with it.
Publish(p, r) ==
    Rewrite(p, IF adapter \in BarAdapters THEN Append(source[p].rows, r)
               ELSE <<r>> \o source[p].rows)

Withdraw(p, i) == adapter \notin BarAdapters /\ Rewrite(p, RemoveAt(source[p].rows, i))

\* A record is corrected, or comes out wrong.
Correct(p, i) == Rewrite(p, [source[p].rows EXCEPT ![i].text = 3 - @, ![i].fault = "none"])
Spoil(p, i, fault) ==
    source[p].rows[i].fault # fault /\ Rewrite(p, [source[p].rows EXCEPT ![i].fault = fault])

\* A date comes twice, then no longer.
Repeat(p) ==
    /\ adapter \in BarAdapters
    /\ Rewrite(p, <<source[p].rows[1]>> \o source[p].rows)
Unrepeat(p) ==
    /\ adapter \in BarAdapters /\ Descends(source[p].rows)
    /\ Rewrite(p, Tail(source[p].rows))

\* The envelope of a document changes, or is itself again.
Reshape(p) == Becomes([source EXCEPT ![p].drift = ~@])
Restate(p) ==
    adapter \in {"hkma", "us_calendar"} /\ Becomes([source EXCEPT ![p].stated = ~@])

SourceChanges ==
    \E p \in DOMAIN source :
       \/ \E r \in Published[adapter] : Publish(p, r)
       \/ \E i \in DOMAIN source[p].rows :
             \/ Withdraw(p, i)
             \/ Correct(p, i)
             \/ \E f \in Faults[adapter] : Spoil(p, i, f)
       \/ Repeat(p)
       \/ Unrepeat(p)
       \/ Reshape(p)
       \/ Restate(p)

----------------------------------------------------------------------------
\* run_checkpointed: a request whose request_as_of has passed is refused,
\* the page is fetched, its rejections are recorded, it is committed.
Handler(w) == TooOld(w) \/ Ask(w) \/ Reject(w) \/ Commit(w) \/ Complete(w)

\* The handlers; only the one of Twelve Data recovers.
TwelveDataHandler(w)   == adapter = "twelve_data" /\ (Handler(w) \/ Recover(w))
BaoStockHandler(w)     == adapter = "baostock" /\ Handler(w)
XtQuantHandler(w)      == adapter = "xtquant" /\ Handler(w)
MacroReleaseHandler(w) == adapter \in {"nbs_release", "censtatd", "us_calendar"} /\ Handler(w)
NewsHandler(w)         == adapter \in {"nbs_news", "hkma"} /\ Handler(w)

Step(w) ==
    \/ TwelveDataHandler(w) \/ BaoStockHandler(w) \/ XtQuantHandler(w)
    \/ MacroReleaseHandler(w) \/ NewsHandler(w)

Next ==
    \/ \E w \in Workers, d \in Dates : Begin(w, d) \/ TakeOver(w, d)
    \/ \E w \in Workers : Step(w) \/ Fail(w) \/ Crash(w)
    \/ \E d \in Dates : GrowOld(d)
    \/ SourceChanges

\* A handler at work goes on, and the schedule comes back to a date whose
\* task is not done, however many other dates it has to see to.
Fairness ==
    /\ \A w \in Workers : WF_vars(Step(w))
    /\ \A d \in Dates : SF_vars(\E w \in Workers : Begin(w, d))

Spec == Init /\ [][Next]_vars /\ Fairness

----------------------------------------------------------------------------
(* Properties *)

\* A page is in hand.
HasPage(w) == work[w].pc \in {"reject", "commit", "complete"}

\* The cursor of a checkpoint never leads past a record: all that the
\* cursor's snapshot has before its place is stored, and a completed task has
\* stored the whole snapshot of its last page, whatever changed in the source
\* between the pages, whoever took the task over, and wherever a recovery
\* resumed.  (commit_page before the checkpoint's advance; the marks in the
\* cursors.)
StoredUpToCursor ==
    \A d \in DOMAIN task :
       LET c == task[d].cursor
           read == IF task[d].done THEN Snapshot(task[d].read, d)
                   ELSE IF c = NoCursor THEN <<>>
                   ELSE SubSeq(Snapshot(c.mark, d), 1, c.offset)
       IN  ToSet(read) \subseteq facts

\* A snapshot put together from several upstream answers is whole: a press
\* release listed from the first answer to the last is in it, though the list
\* moved under the offsets in between, as long as the datasize was reported
\* and the release was not listed twice.  (_fetch_snapshot: the datasize kept.
\* An answer without a datasize is not compared with the others; a release
\* listed anew in front and withdrawn behind may be passed over.)
AssembledWhole ==
    \A w \in Workers :
       adapter = "hkma" /\ HasPage(w) =>
          \A r \in work[w].standing :
             r.day \in Window[work[w].date] => r \in ToSet(work[w].page.mark[2])

\* Pages end: the next cursor of a page is a later place of the snapshot that
\* the page's own cursor was made from.  (The page loop of a task asks for as
\* long as there is a next cursor.)
PagesLeadOn ==
    \A w \in Workers :
       LET c == work[w].cursor
           page == work[w].page
       IN  HasPage(w) =>
             /\ c # NoCursor => page.mark = c.mark
             /\ page.next # NoCursor => page.next.offset > c.offset /\ page.next.mark = page.mark
             /\ Len(page.items) = (IF page.next = NoCursor THEN Len(Snapshot(page.mark, work[w].date))
                                   ELSE page.next.offset) - c.offset

\* Rejections that a task counted can be looked up: each is recorded before
\* the page that it came with is committed and counted.
RejectionsAreKept == \A d \in DOMAIN task : task[d].counted \subseteq rejections

\* What a read of the whole source would be now.
AllAnswers(q) ==
    CASE adapter \in BarAdapters -> source
      [] adapter = "hkma"        -> <<[size  |-> IF source[1].stated THEN <<Len(source[1].rows)>> ELSE <<>>,
                                       drift |-> source[1].drift, rows |-> source[1].rows]>>
      [] adapter = "censtatd"    -> [i \in DOMAIN YearSeq(q) |-> source[YearSeq(q)[i]]]
      [] adapter = "us_calendar" -> [i \in DOMAIN UsDocuments(q) |-> source[UsDocuments(q)[i]]]
      [] OTHER                   -> <<source[1]>>

Done(d) == d \in DOMAIN task => task[d].done

Serves(d) == d \in DOMAIN task /\ PageOf(AllAnswers(d), d, task[d].cursor).error = "none"
Readable(d) == Serves(d) /\ ~task[d].old

\* A task completes if its source, from some time on, can be read at the
\* task's cursor: crashes, lapses, failing calls and the pages of other dates
\* do not leave it at a cursor of no use.
QuietSourceCompletes ==
    \A d \in Dates : <>[](Done(d) \/ Readable(d)) => <>Done(d)

=============================================================================
