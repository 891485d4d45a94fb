---------------------------- MODULE FactVersions ----------------------------
(***************************************************************************)
(* The versions the platform keeps of one normalized fact, a daily bar or  *)
(* an entry of a release calendar, and the point-in-time reads of them:    *)
(* NormalizedFactRepository.upsert_bar and upsert_macro_release inside the *)
(* page transaction of a run, PostgresDataRepository's reads as of a time, *)
(* and the readers of report_input_evidence_queries.                       *)
(*                                                                         *)
(* A fact never shares a row, a constraint or a comparison with another,   *)
(* so one is enough.  Several runs ingest it: a run fetches what the       *)
(* source says now, writes in a transaction that others do not see, and    *)
(* commits or rolls back; it may be overtaken by a run that fetched later  *)
(* (a lease that expired, a worker that lost its lock).  Transactions run  *)
(* at READ COMMITTED; an insert waits for an uncommitted row of the same   *)
(* unique key.  Two versions of equal content have equal checksums, so a   *)
(* version's value stands for both.  For a release the value is the day it *)
(* is scheduled for, for a bar a number without meaning.                   *)
(***************************************************************************)
EXTENDS Naturals

CONSTANTS
    Runs,        \* ingestion runs, or attempts of them, that fetch the fact
    Values,      \* what the source may say of it
    LastTime,    \* bound: the clock stops here
    WindowDays   \* length of the report's window, a day less than the fetched one

ASSUME ValuesAssumption == Values \subseteq Nat
ASSUME TimeAssumption == LastTime \in Nat /\ WindowDays \in Nat

Times == 0 .. LastTime
Kinds == {"bar", "release"}

\* A row: when the fact was available (it was fetched then), 0 for the row
\* of the fact itself and 1 for a revision, the content, the writing run.
Versions == [at : Times, rank : {0, 1}, value : Values, run : Runs]

VARIABLES
    kind,       \* which table the fact lives in
    source,     \* source[t]: what the source says at time t
    clock,
    tx,         \* tx[r]: where run r is, what it fetched, rows not yet committed
    rows,       \* the committed versions
    overtaken   \* history: some run committed after one that fetched later had
                \* already compared its fetch with the stored versions

vars == <<kind, source, clock, tx, rows, overtaken>>

Idle == [step |-> "idle", at |-> 0, value |-> source[0], pending |-> {}]
Open == {r \in Runs : tx[r].step \in {"fetched", "written"}}
Done == {r \in Runs : tx[r].step = "done"}

-----------------------------------------------------------------------------
(* Reads *)

\* ORDER BY available_at DESC, revision_rank DESC, source_checksum DESC
NotAfter(v, w) ==
    \/ v.at < w.at
    \/ v.at = w.at /\ v.rank < w.rank
    \/ v.at = w.at /\ v.rank = w.rank /\ v.value <= w.value

Newest(S) == {v \in S : \A w \in S : NotAfter(w, v)}

\* Variant: the filter on available_at is missing.
VisibleAll(S, t) == S

Visible(S, t) == {v \in S : v.at <= t}

\* list_bars, list_macro_releases: the version a query as of t is given
ReadAsOf(t) == Newest(Visible(rows, t))

\* The readers for a report put the versions its own runs wrote first.
EvidenceAsOf(t, R) ==
    LET own == {v \in Visible(rows, t) : v.run \in R}
    IN  Newest(IF own # {} THEN own ELSE Visible(rows, t))

-----------------------------------------------------------------------------
(* Writes *)

Row(r, rank) == [at |-> tx[r].at, rank |-> rank, value |-> tx[r].value, run |-> r]

\* Variant: a bar, too, is compared with its own row only.
ComparedWithBase == {v \in rows : v.rank = 0}

\* The versions an upsert compares its content with: the newest one for a
\* bar, the release's own row for a release.
Compared == IF kind = "bar" THEN Newest(rows) ELSE {v \in rows : v.rank = 0}

\* Variant: on conflict nothing is written, as for macro observations and news.
WantedOnce(r) == IF rows = {} THEN {Row(r, 0)} ELSE {}

\* The row the upsert of run r tries to insert, if any.
Wanted(r) ==
    IF \A v \in rows : v.rank # 0 THEN {Row(r, 0)}
    ELSE IF \E v \in Compared : v.value = tx[r].value THEN {}
    ELSE {Row(r, 1)}

\* The unique keys: one row of its own for the fact, one revision for each
\* time and content of a bar, one revision for each content of a release.
SameKey(v, w) ==
    /\ v.rank = w.rank
    /\ v.rank = 1 => v.value = w.value
    /\ v.rank = 1 /\ kind = "bar" => v.at = w.at

Waits(r) ==
    \E q \in Runs \ {r} : \E v \in Wanted(r), w \in tx[q].pending : SameKey(v, w)

Inserted(r) == {v \in Wanted(r) : \A w \in rows : ~SameKey(v, w)}

-----------------------------------------------------------------------------
Init ==
    /\ kind \in Kinds
    /\ source \in [Times -> Values]
    /\ clock = 0
    /\ tx = [r \in Runs |-> Idle]
    /\ rows = {}
    /\ overtaken = FALSE

\* The provider returns what its source says now, a release only when it is
\* scheduled in the requested window, a day longer than the report's; the
\* fact is available from the time of the fetch.
Fetch(r) ==
    /\ tx[r].step = "idle"
    /\ kind = "release" => source[clock] \in clock .. clock + WindowDays
    /\ tx' = [tx EXCEPT ![r] =
                 [step |-> "fetched", at |-> clock, value |-> source[clock], pending |-> {}]]
    /\ UNCHANGED <<kind, source, clock, rows, overtaken>>

\* The upsert inside the page's transaction.
Write(r) ==
    /\ tx[r].step = "fetched"
    /\ ~Waits(r)
    /\ tx' = [tx EXCEPT ![r].step = "written", ![r].pending = Inserted(r)]
    /\ UNCHANGED <<kind, source, clock, rows, overtaken>>

\* Variant: the new row replaces the old one, as upsert_market_observation's does.
StoredInPlace(r) == IF tx[r].pending = {} THEN rows ELSE tx[r].pending

Stored(r) == rows \union tx[r].pending

Commit(r) ==
    /\ tx[r].step = "written"
    /\ rows' = Stored(r)
    /\ tx' = [tx EXCEPT ![r].step = "done", ![r].pending = {}]
    /\ overtaken' = (overtaken \/ \E q \in Runs : /\ tx[q].step \in {"written", "done"}
                                                  /\ tx[q].at > tx[r].at)
    /\ UNCHANGED <<kind, source, clock>>

\* The transaction fails or its worker dies; a later attempt fetches again.
Rollback(r) ==
    /\ r \in Open
    /\ tx' = [tx EXCEPT ![r] = Idle]
    /\ UNCHANGED <<kind, source, clock, rows, overtaken>>

Tick ==
    /\ clock < LastTime
    /\ clock' = clock + 1
    /\ UNCHANGED <<kind, source, tx, rows, overtaken>>

Next ==
    \/ \E r \in Runs : Fetch(r) \/ Write(r) \/ Commit(r) \/ Rollback(r)
    \/ Tick

Spec == Init /\ [][Next]_vars

-----------------------------------------------------------------------------
(* Properties *)

\* Type invariant: every row, committed or not, is one a run fetched.
TypeOK ==
    /\ kind \in Kinds
    /\ source \in [Times -> Values]
    /\ clock \in Times
    /\ tx \in [Runs -> [step : {"idle", "fetched", "written", "done"},
                        at : Times, value : Values, pending : SUBSET Versions]]
    /\ rows \subseteq Versions
    /\ overtaken \in BOOLEAN

\* No look-ahead: a query as of t, and the evidence of a report as of t, is
\* given what the source said at the moment the version is stamped with, and
\* that moment is not after t (list_bars, list_macro_releases, *_as_of).
NoLookAhead ==
    \A t \in 0 .. clock, r \in Runs :
        \A v \in ReadAsOf(t) \union EvidenceAsOf(t, {r}) :
            v.at <= t /\ v.value = source[v.at]

\* Once every run that fetched up to t has finished, the answer as of t never
\* changes, whatever is ingested later: PIT-006 of docs/ENGINEERING_SPEC_ZH.md
\* line 1456 for the upserts that add versions.
PastIsKept ==
    [][\A t \in 0 .. clock - 1 :
          (\A r \in Open : tx[r].at > t) => ReadAsOf(t)' = ReadAsOf(t)]_vars

\* The content of run r's fetch was stored before it was fetched.
Returned(r) == \E v \in rows : v.at < tx[r].at /\ v.value = tx[r].value

\* A query for now is given what the last fetch saw, also when the source went
\* back to an earlier content (STO-027), as long as no run was overtaken.  The
\* one exception is a release whose content returned: upsert_macro_release
\* compares with the first version only and its revisions are unique by
\* content, so an earlier content is never stored again.
NewestIsLastSeen ==
    ~overtaken =>
        \A r \in Done :
            (\A q \in Done : tx[q].at <= tx[r].at) =>
                \A v \in ReadAsOf(clock) :
                    v.value = tx[r].value \/ (kind = "release" /\ Returned(r))

\* The evidence of a report is never older than what the run it rests on saw:
\* it has that content, or is a version fetched after it (the readers fall
\* back on other runs' rows when the run found nothing to write).
EvidenceNotOlder ==
    ~overtaken =>
        \A r \in Done : \A t \in tx[r].at .. clock : \A v \in EvidenceAsOf(t, {r}) :
            \/ v.value = tx[r].value
            \/ v.at > tx[r].at
            \/ kind = "release" /\ Returned(r)

=============================================================================
