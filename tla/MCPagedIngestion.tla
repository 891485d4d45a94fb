-------------------------- MODULE MCPagedIngestion --------------------------
(* Small instances of PagedIngestion for TLC. *)
EXTENDS PagedIngestion

Rec(day, name) == [day |-> day, name |-> name, text |-> 1, fault |-> "none"]
Doc(rows) == [stated |-> TRUE, drift |-> FALSE, rows |-> rows]

MCWindow == [q \in {1, 2} |-> IF q = 1 THEN {1, 2} ELSE {2, 3}]
MCAdapters == {"twelve_data", "baostock", "xtquant", "nbs_release", "nbs_news", "hkma",
               "censtatd", "us_calendar"}

\* Two instruments, one with a bad row; lists of three, newest first; a
\* calendar of each year.
BarSource == <<Doc(<<Rec(1, 1), Rec(2, 2)>>), Doc(<<[Rec(1, 1) EXCEPT !.fault = "price"]>>)>>
ListSource == <<Doc(<<Rec(3, 3), Rec(2, 2), Rec(1, 1)>>)>>
CalendarSource == <<Doc(<<Rec(1, 1), Rec(2, 2)>>), Doc(<<Rec(3, 3)>>)>>

MCSource(a) ==
    CASE a \in {"twelve_data", "baostock", "xtquant"} -> BarSource
      [] a = "censtatd"    -> CalendarSource
      [] a = "us_calendar" -> CalendarSource \o <<Doc(<<Rec(2, 4)>>), Doc(<<Rec(3, 5)>>)>>
      [] OTHER             -> ListSource

\* Every adapter on one date, with a change of its source and a mishap, and
\* Twelve Data, whose recovery reads the row that the dates share, on two,
\* with a change and another that may take it back; the HKMA's list may also
\* change three times while it is read.
Case(a, dates, atMost, failing) ==
    [adapter |-> a, source |-> MCSource(a), dates |-> dates,
     changes |-> atMost, mishaps |-> failing]
MCCases ==
    {Case(a, {1}, 1, 1) : a \in MCAdapters}
        \cup {Case("twelve_data", {1, 2}, 2, 0), Case("hkma", {1}, 3, 0)}

MCPublished == [a \in MCAdapters |-> {Rec(3, 9)}]
MCFaults ==
    [a \in MCAdapters |->
        CASE a = "twelve_data" -> {"undated", "session"}
          [] a = "baostock"    -> {"undated", "symbol"}
          [] a = "xtquant"     -> {"undated"}
          [] OTHER             -> {"bad"}]
=============================================================================
