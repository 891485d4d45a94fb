------------------------------ MODULE LivePages ------------------------------
(***************************************************************************)
(* The adapters over LiveHttpProvider (providers/live.py): the NBS release *)
(* calendar and the NBS data releases (cn/live.py), the HKMA press         *)
(* releases (hk/live.py), the C&SD calendar (hk/release_calendar.py) and   *)
(* the OMB and BEA calendars (us/release_calendar.py).                     *)
(*                                                                         *)
(* A source is a sequence of documents [stated, drift, rows].  drift: the  *)
(* document is not what the parser expects (no header, year or rows, a     *)
(* file over its limits).  stated: the landing page links to it (OMB and   *)
(* BEA), or it comes with its datasize (HKMA).  These adapters have no     *)
(* quarantine: a "bad" row, with a date, a name or a link that does not    *)
(* parse, fails the page.                                                  *)
(***************************************************************************)
EXTENDS ProviderPages

CONSTANTS
    YearEnd,        \* the last day of year 1; later days are of year 2
    UpstreamLimit   \* the records the HKMA serves at a time

ASSUME UpstreamAssumption == UpstreamLimit \in Nat \ {0}

\* _decode_cursor, and the checks of a page over a snapshot that is listed.
LiveDecodes(q, cursor) == Decodes(q, cursor)

LivePage(listed, q, cursor, mark) ==
    With(listed, LAMBDA items :
        IF ~SameSnapshot(mark, cursor) \/ ~Follows(items, cursor)
        THEN Refused("SNAPSHOT_CHANGED")
        ELSE Cut(items, q, cursor, mark, {}))

Bad(doc) == doc.drift \/ \E i \in DOMAIN doc.rows : doc.rows[i].fault # "none"

\* Items of rows, named Id(r).
Itemized(rows, Id(_)) ==
    [i \in DOMAIN rows |-> [id |-> Id(rows[i]), at |-> rows[i].day, text |-> rows[i].text]]

IdOf(e) == e.id

----------------------------------------------------------------------------
\* NBS release calendar: one page of HTML, which is its mark.  A release is
\* its name and date; the first of a name and date counts.
NbsRelease(r) == <<r.name, r.day>>
NbsReleases(doc, q) ==
    Sorted(InWindow(FirstOf(Itemized(doc.rows, NbsRelease), IdOf), q), Before)

NbsReleasePage(heard, q, cursor) ==
    LET doc == heard[1]
    IN  IF ~SameSnapshot(doc.rows, cursor) THEN Refused("SNAPSHOT_CHANGED")
        ELSE IF Bad(doc) \/ doc.rows = <<>> THEN Refused("SCHEMA_DRIFT")
        ELSE LivePage(NbsReleases(doc, q), q, cursor, doc.rows)

\* NBS data releases: one list.  An article is its URL, and the first of a
\* URL counts; the mark is the list so read, in and out of the window.
NbsArticle(r) == <<r.name, r.day>>
UrlOf(r) == r.name
NbsListing(doc) == Itemized(FirstOf(doc.rows, UrlOf), NbsArticle)
NbsNews(mark, q) == Sorted(InWindow(mark, q), After)

NbsNewsPage(heard, q, cursor) ==
    LET doc == heard[1]
    IN  IF Bad(doc) \/ doc.rows = <<>> THEN Refused("SCHEMA_DRIFT")
        ELSE With(NbsListing(doc), LAMBDA mark : LivePage(NbsNews(mark, q), q, cursor, mark))

----------------------------------------------------------------------------
\* HKMA press releases: one list, served some records at a time.  What is
\* heard is a sequence of [size, drift, rows], size <<datasize>> or <<>>.
HkmaRecords(heard) == FlattenSeq([i \in DOMAIN heard |-> heard[i].rows])

HkmaHears(source, heard) ==
    LET n    == Len(HkmaRecords(heard))
        rows == source[1].rows
    IN  Append(heard, [size  |-> IF source[1].stated THEN <<Len(rows)>> ELSE <<>>,
                       drift |-> source[1].drift,
                       rows  |-> SubSeq(rows, n + 1, Min({n + UpstreamLimit, Len(rows)}))])

\* total: the datasize that was reported first.
HkmaTotalLatest(heard) ==
    LET sizes == FlattenSeq([i \in DOMAIN heard |-> heard[i].size])
    IN  IF sizes = <<>> THEN <<>> ELSE <<sizes[Len(sizes)]>>
HkmaTotal(heard) ==
    LET sizes == FlattenSeq([i \in DOMAIN heard |-> heard[i].size])
    IN  IF sizes = <<>> THEN <<>> ELSE <<sizes[1]>>

\* _fetch_snapshot, at the last answer heard.
HkmaFault(heard) ==
    LET last == heard[Len(heard)]
        total == HkmaTotal(heard)
        records == HkmaRecords(heard)
    IN  IF last.drift THEN "SCHEMA_DRIFT"
        ELSE IF last.size \notin {<<>>, total} THEN "SNAPSHOT_CHANGED"
        ELSE IF \E i, j \in DOMAIN records : i < j /\ records[i] = records[j]
             THEN "DUPLICATE_PAGE"
        ELSE IF last.rows = <<>> /\ total \notin {<<>>, <<0>>} THEN "SCHEMA_DRIFT"
        ELSE "none"

\* The records reach the total; without one, until an answer is short.
HkmaHeard(heard) ==
    /\ heard # <<>>
    /\ LET total == HkmaTotal(heard)
           rows  == heard[Len(heard)].rows
       IN  \/ HkmaFault(heard) # "none"
           \/ rows = <<>>
           \/ total # <<>> /\ Len(HkmaRecords(heard)) >= total[1]
           \/ total = <<>> /\ Len(rows) < UpstreamLimit

\* The mark covers the total, too.
HkmaMark(heard) == <<HkmaTotal(heard), HkmaRecords(heard)>>
HkmaRelease(r) == <<r.name, r.day>>
HkmaNews(mark, q) == Sorted(InWindow(Itemized(mark[2], HkmaRelease), q), After)

HkmaPage(heard, q, cursor) ==
    With(HkmaMark(heard), LAMBDA mark :
        IF HkmaFault(heard) # "none" THEN Refused(HkmaFault(heard))
        ELSE IF ~SameSnapshot(mark, cursor) THEN Refused("SNAPSHOT_CHANGED")
        ELSE IF \E i \in DOMAIN mark[2] : mark[2][i].fault # "none" THEN Refused("SCHEMA_DRIFT")
        ELSE LivePage(HkmaNews(mark, q), q, cursor, mark))

----------------------------------------------------------------------------
\* Annual calendars: a document for each year of the window.
YearOf(day) == IF day <= YearEnd THEN 1 ELSE 2
Years(q) == {YearOf(d) : d \in Window[q]}
YearSeq(q) == [n \in 1..Cardinality(Years(q)) |-> IF 1 \in Years(q) THEN n ELSE n + 1]

\* list({release.release_id: release}.values()): the last of an ID counts.
LastOf(items) == FirstOf(Reverse(items), IdOf)

\* C&SD: source[y] is the workbook of year y.  A release is its title.
CenstatdHears(source, q, heard) == Append(heard, source[YearSeq(q)[Len(heard) + 1]])
CenstatdTitle(r) == <<1, r.name>>
RepeatsTitle(doc) == \E i, j \in DOMAIN doc.rows : i < j /\ doc.rows[i].name = doc.rows[j].name
CenstatdFault(doc) == Bad(doc) \/ doc.rows = <<>> \/ RepeatsTitle(doc)
CenstatdReleases(docs, q) ==
    Sorted(LastOf(InWindow(FlattenSeq([i \in DOMAIN docs |->
                Itemized(docs[i].rows, CenstatdTitle)]), q)), Before)

CenstatdPage(heard, q, cursor) ==
    IF ~SameSnapshot(heard, cursor) THEN Refused("SNAPSHOT_CHANGED")
    ELSE IF \E i \in DOMAIN heard : CenstatdFault(heard[i]) THEN Refused("SCHEMA_DRIFT")
    ELSE LivePage(CenstatdReleases(heard, q), q, cursor, heard)

\* OMB and BEA: source[y] is the OMB schedule of year y, source[2 + y] the
\* BEA's; a year that the landing page does not link to fails the page.
UsDocuments(q) == YearSeq(q) \o [i \in DOMAIN YearSeq(q) |-> 2 + YearSeq(q)[i]]
UsHears(source, q, heard) == Append(heard, source[UsDocuments(q)[Len(heard) + 1]])
BlsRelease(r) == <<1, r.name>>
BeaRelease(r) == <<2, r.name>>
OmbReleases(doc) == Itemized(doc.rows, BlsRelease)
BeaReleases(doc) == Itemized(doc.rows, BeaRelease)
UsReleases(docs, q) ==
    LET years == Len(YearSeq(q))
        all   == FlattenSeq([i \in DOMAIN docs |->
                    IF i <= years THEN OmbReleases(docs[i]) ELSE BeaReleases(docs[i])])
    IN  Sorted(LastOf(InWindow(all, q)), Before)

UsCalendarPage(heard, q, cursor) ==
    IF \E i \in DOMAIN heard : ~heard[i].stated THEN Refused("SCHEMA_DRIFT")
    ELSE IF ~SameSnapshot(heard, cursor) THEN Refused("SNAPSHOT_CHANGED")
    ELSE IF \E i \in DOMAIN heard : Bad(heard[i]) \/ heard[i].rows = <<>>
         THEN Refused("SCHEMA_DRIFT")
    ELSE LivePage(UsReleases(heard, q), q, cursor, heard)

=============================================================================
