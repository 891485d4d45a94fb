------------------------------ MODULE BarPages ------------------------------
(***************************************************************************)
(* The daily-bar adapters: providers/us/twelve_data.py, cn/baostock.py and *)
(* hk/xtquant.py.                                                          *)
(*                                                                         *)
(* A source is a sequence of answers [drift, rows], one for each requested *)
(* instrument, in the order of the request: drift when the envelope is not *)
(* the approved one (its meta or fields, its symbol, currency or interval, *)
(* too many rows).  Twelve Data and BaoStock are asked for one instrument  *)
(* at a time, XtQuant for all of them at once.                             *)
(*                                                                         *)
(* Faults of a row: "undated"; "price", a value that is not a decimal or   *)
(* that MarketBar refuses; "symbol", another instrument's row (BaoStock);  *)
(* "session", a date without a trading session (Twelve Data).  A missing   *)
(* volume is no fault but a quality flag.                                  *)
(***************************************************************************)
EXTENDS ProviderPages

\* The faults for which _market_bar of each adapter makes no bar of a row.
TwelveDataBad == {"price", "session"}
BaoStockBad   == {"price", "symbol"}
XtQuantBad    == {"price"}

Dated(r) == r.fault # "undated"

\* The dates of the rows do not ascend, rows without one apart.
Descends(rows) ==
    \E i, j \in DOMAIN rows :
       i < j /\ Dated(rows[i]) /\ Dated(rows[j]) /\ rows[j].day <= rows[i].day

\* What is wrong with the whole of an instrument's answer.
AnswerFault(a) ==
    IF a.drift THEN "PROVIDER_SCHEMA_CHANGED"
    ELSE IF Descends(a.rows) THEN "INVALID_PAGINATION"
    ELSE "none"

\* The bars of an instrument's rows, and the rows put into quarantine:
\* _parse_payload and the two _parse_rows, given the adapter's bad faults.
Sound(r, bad) == Dated(r) /\ r.fault \notin bad
Bars(i, rows, q, bad) ==
    LET good == At(rows, {n \in DOMAIN rows : Sound(rows[n], bad)})
    IN  InWindow([n \in DOMAIN good |->
                     [id |-> <<i, good[n].day>>, at |-> good[n].day, text |-> good[n].text]], q)
Quarantine(i, rows, bad) == {<<i, n>> : n \in {k \in DOMAIN rows : ~Sound(rows[k], bad)}}

----------------------------------------------------------------------------
\* The next answers heard: one instrument more, or all of them.
TwelveDataHears(source, heard) == Append(heard, source[Len(heard) + 1])
BaoStockHears(source, heard)   == Append(heard, source[Len(heard) + 1])
XtQuantHears(source, heard)    == source

\* No further instrument is asked for: each has answered, or one failed.
BarsHeard(source, heard) ==
    \/ Len(heard) = Len(source)
    \/ heard # <<>> /\ AnswerFault(heard[Len(heard)]) # "none"

\* All bars of the requested instruments, in the order of the pages.  The
\* mark of the snapshot is their record IDs and checksums, in that order.
AllBars(heard, q, bad) ==
    Sorted(FlattenSeq([i \in DOMAIN heard |-> Bars(i, heard[i].rows, q, bad)]), Before)

\* The page at the cursor, of what was heard.
BarPage(heard, q, cursor, items, rejected) ==
    LET faults == {i \in DOMAIN heard : AnswerFault(heard[i]) # "none"}
    IN  IF faults # {} THEN Refused(AnswerFault(heard[Min(faults)]))
        ELSE IF ~SameSnapshot(items, cursor) THEN Refused("SNAPSHOT_CHANGED")
        ELSE IF cursor.offset > Len(items) THEN Refused("INVALID_CURSOR")
        ELSE IF ~Follows(items, cursor) THEN Refused("SNAPSHOT_CHANGED")
        ELSE Cut(items, q, cursor, items, rejected)

Quarantined(heard, bad) == UNION {Quarantine(i, heard[i].rows, bad) : i \in DOMAIN heard}

TwelveDataPage(heard, q, cursor) ==
    With(AllBars(heard, q, TwelveDataBad), LAMBDA items :
        BarPage(heard, q, cursor, items, Quarantined(heard, TwelveDataBad)))
BaoStockPage(heard, q, cursor) ==
    With(AllBars(heard, q, BaoStockBad), LAMBDA items :
        BarPage(heard, q, cursor, items, Quarantined(heard, BaoStockBad)))
XtQuantPage(heard, q, cursor) ==
    With(AllBars(heard, q, XtQuantBad), LAMBDA items :
        BarPage(heard, q, cursor, items, Quarantined(heard, XtQuantBad)))

=============================================================================
