-------------------------- MODULE MCReportSchedule --------------------------
EXTENDS ReportSchedule

\* One market, one headlines page, one calendar, and supplemental bars.
\* A tick is half a day: what comes before the cutoff at 08:15, the
\* collection at 07:50 among it, and what comes after.
MCBars == {"cn"}
MCNews == {"hk"}
MCCalendars == <<"cn">>
MCEquities == {"hk"}
MCNames == [r \in MCBars |-> {"index"}]
MCBundle == << <<"bars", "cn">>, <<"equity", "hk">>, <<"calendar", "cn">>, <<"news", "hk">> >>

\* Day 3 is regular, with two sessions before it; day 4 is a holiday.
MCSessions == [r \in MCBars |-> 1 .. 3]

\* Days 1 and 2 are Thursday and Friday, day 5 is a Monday.
WeekSessions == [r \in MCBars |-> {1, 2, 5}]

Item(t, name, day, since) ==
    [task |-> t, name |-> name, day |-> day, since |-> since, text |-> 1, sound |-> TRUE]

\* A bar is listed some time after its day is over, a headline on its day
\* after the collection, a release long before.
Listed(sessions, days, delay) ==
    UNION {{Item(<<"bars", r>>, "index", s, s * Ticks + delay) : s \in sessions[r]} : r \in MCBars}
    \cup {Item(<<"news", "hk">>, "headline", d, (d - 1) * Ticks + 1) : d \in days}
    \cup {Item(<<"calendar", "cn">>, "release", 5, 0)}
MCListing == Listed(MCSessions, 2 .. 3, 1)
MCFickle == {<< <<"bars", "cn">>, 1>>, << <<"bars", "cn">>, 2>>, << <<"calendar", "cn">>, 5>>}
WeekListing == Listed(WeekSessions, 1 .. 4, 0)

=============================================================================
