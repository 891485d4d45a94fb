------------------------- MODULE FactVersionsProofs -------------------------
(* Theorems about FactVersions, for all runs, contents, times and windows. *)
EXTENDS FactVersions, TLAPS

\* Every row, committed or not, is what its run fetched, and what a run
\* fetched is what the source said then.
Stamped ==
    /\ \A r \in Runs : tx[r].step # "idle" =>
          tx[r].at <= clock /\ tx[r].value = source[tx[r].at]
    /\ \A r \in Runs : \A v \in tx[r].pending :
          tx[r].step = "written" /\ v.at = tx[r].at /\ v.value = tx[r].value /\ v.run = r
    /\ \A v \in rows :
          v.run \in Done /\ v.at = tx[v.run].at /\ v.value = tx[v.run].value

\* A query as of the time of run r's fetch is given what r saw.
Seen(r) ==
    \A v \in Newest(Visible(rows, tx[r].at)) :
        v.value = tx[r].value \/ (kind = "release" /\ Returned(r))

\* A run that has found nothing to write has seen what it would be given,
\* unless a run that fetched later has committed before.
Compares ==
    \A r \in Runs :
        (tx[r].step = "written" /\ tx[r].pending = {} /\ \A q \in Done : tx[q].at <= tx[r].at)
            => Seen(r)

Answers == ~overtaken => (Compares /\ \A r \in Done : Seen(r))

IInv == TypeOK /\ Stamped /\ Answers

-----------------------------------------------------------------------------
(* The order of the versions. *)

\* The newest version is as late as any.
LEMMA NewestIsLatest ==
    ASSUME NEW S \in SUBSET Versions, NEW v \in Newest(S), NEW w \in S
    PROVE  v \in S /\ w.at <= v.at
  BY DEF Newest, NotAfter, Versions, Times

\* All newest versions have one content.
LEMMA NewestAgree ==
    ASSUME NEW S \in SUBSET Versions, NEW v \in Newest(S), NEW w \in Newest(S)
    PROVE  v.value = w.value
  <1>1. v \in S /\ w \in S /\ v.at \in Nat /\ w.at \in Nat /\ v.rank \in Nat /\ w.rank \in Nat
    BY DEF Newest, Versions, Times
  <1>2. v.value \in Nat /\ w.value \in Nat
    BY ValuesAssumption, <1>1 DEF Versions
  <1>3. NotAfter(v, w) /\ NotAfter(w, v)
    BY <1>1 DEF Newest
  <1>4. QED
    BY <1>1, <1>2, <1>3 DEF NotAfter

\* What is newest as of u and not after t is newest as of t.
LEMMA NewestBelow ==
    ASSUME NEW S \in SUBSET Versions, NEW t \in Nat, NEW u \in Nat, t <= u,
           NEW v \in Newest(Visible(S, u)), v.at <= t
    PROVE  v \in Newest(Visible(S, t))
  <1>1. \A w \in Visible(S, t) : w \in Visible(S, u)
    BY DEF Visible, Versions, Times
  <1>2. QED
    BY <1>1 DEF Newest, Visible

\* A row of the time t decides what is read as of t, for it is as late as any.
LEMMA RowAtTime ==
    ASSUME NEW S \in SUBSET Versions, NEW says, \A x \in S : x.value = says[x.at],
           NEW t \in Times, NEW w \in S, w.at = t, NEW v \in Newest(Visible(S, t))
    PROVE  v.value = says[t]
  <1>1. Visible(S, t) \in SUBSET Versions /\ w \in Visible(S, t)
    BY DEF Visible, Versions, Times
  <1>2. v \in S /\ v.at <= t /\ t <= v.at
    BY <1>1, NewestIsLatest DEF Visible
  <1>3. v.at = t
    BY <1>2 DEF Versions, Times
  <1>4. QED
    BY <1>2, <1>3

\* The committed rows hold what the source said when they were fetched.
LEMMA RowsAreTrue ==
    ASSUME TypeOK, Stamped
    PROVE  \A v \in rows : v.value = source[v.at] /\ v.at <= clock
  BY DEF TypeOK, Stamped, Done

-----------------------------------------------------------------------------
LEMMA InitIInv == Init => IInv
  <1> SUFFICES ASSUME Init PROVE IInv
    OBVIOUS
  <1>1. 0 \in Times
    BY TimeAssumption DEF Times
  <1>2. \A r \in Runs : tx[r].step = "idle" /\ tx[r].pending = {}
    BY DEF Init, Idle
  <1>3. TypeOK
    BY <1>1, <1>2 DEF Init, Idle, TypeOK
  <1>4. Stamped /\ Answers
    BY <1>2 DEF Init, Stamped, Answers, Compares, Done
  <1>5. QED
    BY <1>3, <1>4 DEF IInv

\* A step that changes no row and no finished or written run keeps Answers.
LEMMA AnswersKept ==
    ASSUME IInv, UNCHANGED <<kind, rows, overtaken>>,
           \A r \in Runs : tx'[r].step \in {"written", "done"} => tx'[r] = tx[r],
           \A r \in Done : tx'[r] = tx[r]
    PROVE  Answers'
  <1> SUFFICES ASSUME ~overtaken PROVE (Compares /\ \A r \in Done : Seen(r))'
    BY DEF Answers
  <1>1. Compares /\ \A r \in Done : Seen(r)
    BY DEF IInv, Answers
  <1>2. Done' = Done
    BY DEF Done
  <1>3. ASSUME NEW r \in Runs, tx'[r] = tx[r], Seen(r)
        PROVE  Seen(r)'
    BY <1>3 DEF Seen, Returned, Newest, Visible, NotAfter
  <1>4. QED
    BY <1>1, <1>2, <1>3 DEF Compares, Done

LEMMA FetchIInv == ASSUME IInv, NEW r \in Runs, Fetch(r) PROVE IInv'
  <1> USE DEF IInv, Fetch
  <1>1. clock \in Times /\ source[clock] \in Values
    BY DEF TypeOK
  <1>2. TypeOK'
    BY <1>1 DEF TypeOK
  <1>3. Stamped'
    BY <1>1 DEF TypeOK, Stamped, Done, Times
  <1>4. Answers'
    BY AnswersKept DEF TypeOK, Done
  <1>5. QED
    BY <1>2, <1>3, <1>4

LEMMA RollbackIInv == ASSUME IInv, NEW r \in Runs, Rollback(r) PROVE IInv'
  <1> USE DEF IInv, Rollback
  <1>1. 0 \in Times /\ Idle \in [step : {"idle"}, at : Times, value : Values, pending : {{}}]
    BY TimeAssumption DEF TypeOK, Idle, Times
  <1>2. TypeOK'
    BY <1>1 DEF TypeOK
  <1>3. Stamped'
    BY <1>1 DEF TypeOK, Stamped, Done, Open
  <1>4. Answers'
    BY <1>1, AnswersKept DEF TypeOK, Done, Open
  <1>5. QED
    BY <1>2, <1>3, <1>4

LEMMA TickIInv == ASSUME IInv, Tick PROVE IInv'
  <1> USE DEF IInv, Tick
  <1>1. TypeOK'
    BY TimeAssumption DEF TypeOK, Times
  <1>2. Stamped'
    BY DEF TypeOK, Stamped, Done, Times
  <1>3. Answers'
    BY AnswersKept
  <1>4. QED
    BY <1>1, <1>2, <1>3

\* A row of run r's content that is not newer than its fetch settles what r
\* saw, at once if it is of the same time, as a returned content otherwise.
LEMMA SeenFromRow ==
    ASSUME IInv, NEW r \in Runs, tx[r].step # "idle",
           NEW w \in rows, w.value = tx[r].value, w.at <= tx[r].at,
           kind = "release" \/ w.at = tx[r].at
    PROVE  Seen(r)
  <1> USE DEF IInv
  <1>1. tx[r].at \in Times /\ w.at \in Times /\ rows \in SUBSET Versions
    BY DEF TypeOK, Versions
  <1>2. CASE w.at = tx[r].at
    <2>1. ASSUME NEW v \in Newest(Visible(rows, tx[r].at))
          PROVE  v.value = source[tx[r].at]
      BY <1>1, <1>2, RowsAreTrue, RowAtTime
    <2>2. QED
      BY <2>1 DEF Stamped, Seen
  <1>3. CASE w.at # tx[r].at
    BY <1>1, <1>3 DEF Seen, Returned, Times
  <1>4. QED
    BY <1>2, <1>3

\* A run that finds nothing to write has seen what it would be given.
LEMMA NothingToWrite ==
    ASSUME IInv, NEW r \in Runs, tx[r].step = "fetched", Inserted(r) = {},
           \A q \in Done : tx[q].at <= tx[r].at
    PROVE  Seen(r)
  <1> USE DEF IInv
  <1>1. \A w \in rows : w \in Versions /\ w.at <= tx[r].at
    BY DEF TypeOK, Stamped
  <1>2. CASE Wanted(r) = {}
    <2>1. PICK c \in Compared : c.value = tx[r].value
      BY <1>2 DEF Wanted
    <2>2. CASE kind = "bar"
      <3>1. Visible(rows, tx[r].at) = rows /\ rows \in SUBSET Versions
        BY <1>1 DEF Visible
      <3>2. QED
        BY <2>1, <2>2, <3>1, NewestAgree DEF Compared, Seen
    <2>3. CASE kind = "release"
      BY <1>1, <2>1, <2>3, SeenFromRow DEF Compared
    <2>4. QED
      BY <2>2, <2>3 DEF TypeOK, Kinds
  <1>3. CASE Wanted(r) # {}
    <2>1. PICK u \in Wanted(r), w \in rows : SameKey(u, w)
      BY <1>3 DEF Inserted
    <2>2. u = Row(r, 1)
      BY <2>1 DEF Wanted, SameKey, Row
    <2>3. w.value = tx[r].value /\ (kind = "bar" => w.at = tx[r].at)
      BY <2>1, <2>2 DEF SameKey, Row
    <2>4. QED
      BY <1>1, <2>3, SeenFromRow DEF TypeOK, Kinds
  <1>4. QED
    BY <1>2, <1>3

LEMMA WriteIInv == ASSUME IInv, NEW r \in Runs, Write(r) PROVE IInv'
  <1> USE DEF IInv, Write
  <1>1. \A v \in Inserted(r) :
            v \in Versions /\ v.at = tx[r].at /\ v.value = tx[r].value /\ v.run = r
    BY DEF TypeOK, Inserted, Wanted, Row, Versions
  <1>2. TypeOK'
    BY <1>1 DEF TypeOK
  <1>3. Stamped'
    BY <1>1 DEF TypeOK, Stamped, Done
  <1>4. Done' = Done /\ r \notin Done /\ \A q \in Runs : tx'[q].at = tx[q].at
    BY DEF TypeOK, Done
  <1>5. ASSUME NEW q \in Runs, Seen(q)
        PROVE  Seen(q)'
    BY <1>4, <1>5 DEF TypeOK, Seen, Returned, Newest, Visible, NotAfter
  <1>6. ASSUME ~overtaken
        PROVE  Compares' /\ \A q \in Done : Seen(q)'
    <2>1. \A q \in Done : Seen(q)'
      BY <1>5, <1>6 DEF Answers, Done
    <2>2. ASSUME NEW q \in Runs, tx'[q].step = "written", tx'[q].pending = {},
                 \A p \in Done : tx[p].at <= tx[q].at
          PROVE  Seen(q)'
      <3>1. CASE q = r
        BY <1>5, <2>2, <3>1, NothingToWrite DEF TypeOK
      <3>2. CASE q # r
        BY <1>5, <1>6, <2>2, <3>2 DEF TypeOK, Answers, Compares
      <3>3. QED
        BY <3>1, <3>2
    <2>3. QED
      BY <1>4, <2>1, <2>2 DEF Compares, Done
  <1>7. QED
    BY <1>2, <1>3, <1>4, <1>6 DEF Answers

\* A commit that overtakes no later fetch spoils no answer that was right.
LEMMA CommitKeepsSeen ==
    ASSUME IInv, NEW r \in Runs, Commit(r), TypeOK', Stamped',
           NEW q \in Runs, tx[q].step \in {"written", "done"}, tx[q].at <= tx[r].at, Seen(q)
    PROVE  Seen(q)'
  <1> USE DEF IInv, Commit
  <1>1. tx'[q].at = tx[q].at /\ tx'[q].value = tx[q].value /\ tx[q].at \in Times
    BY DEF TypeOK
  <1>2. \A v \in tx[r].pending : v \in Versions /\ v.at = tx[r].at
    BY DEF TypeOK, Stamped
  <1>3. CASE tx[q].at = tx[r].at /\ tx[r].pending # {}
    <2>1. PICK w \in rows' : w.at = tx[q].at
      BY <1>2, <1>3 DEF Stored
    <2>2. rows' \in SUBSET Versions /\ \A v \in rows' : v.value = source'[v.at]
      BY DEF TypeOK, Stamped, Done
    <2>3. ASSUME NEW v \in Newest(Visible(rows', tx[q].at))
          PROVE  v.value = source'[tx[q].at]
      BY <1>1, <2>1, <2>2, RowAtTime
    <2>4. tx'[q].value = source'[tx[q].at]
      BY <1>1 DEF Stamped
    <2>5. QED
      BY <1>1, <2>3, <2>4 DEF Seen
  <1>4. CASE tx[q].at # tx[r].at \/ tx[r].pending = {}
    <2>1. Visible(rows', tx[q].at) = Visible(rows, tx[q].at)
      BY <1>1, <1>2, <1>4 DEF Visible, Stored, TypeOK, Versions, Times
    <2>2. Returned(q) => Returned(q)'
      BY <1>1 DEF Returned, Stored
    <2>3. QED
      BY <1>1, <2>1, <2>2 DEF Seen
  <1>5. QED
    BY <1>3, <1>4

LEMMA CommitIInv == ASSUME IInv, NEW r \in Runs, Commit(r) PROVE IInv'
  <1> USE DEF IInv, Commit
  <1>1. TypeOK'
    BY DEF TypeOK, Stored
  <1>2. Stamped'
    <2>1. Done' = Done \union {r}
      BY DEF TypeOK, Done
    <2>2. \A q \in Runs : tx'[q].at = tx[q].at /\ tx'[q].value = tx[q].value
      BY DEF TypeOK
    <2>3. QED
      BY <2>1, <2>2 DEF TypeOK, Stamped, Stored, Done
  <1>3. ASSUME ~overtaken'
        PROVE  (Compares /\ \A q \in Done : Seen(q))'
    <2>1. \A q \in Runs : tx[q].step \in {"written", "done"} => tx[q].at <= tx[r].at
      <3>1. \A q \in Runs : tx[q].at \in Nat
        BY DEF TypeOK, Times
      <3>2. \A q \in Runs : tx[q].step \in {"written", "done"} => ~(tx[q].at > tx[r].at)
        BY <1>3
      <3>3. QED
        BY <3>1, <3>2
    <2>2. Done' = Done \union {r} /\ \A q \in Runs : tx'[q].at = tx[q].at
      BY DEF TypeOK, Done
    <2>3. Compares /\ \A q \in Done : Seen(q)
      BY <1>3 DEF Answers
    <2>4. \A q \in Done : Seen(q)'
      BY <1>1, <1>2, <2>1, <2>3, CommitKeepsSeen DEF Done
    <2>5. Seen(r)'
      <3>1. CASE tx[r].pending = {}
        BY <1>1, <1>2, <2>1, <2>3, <3>1, CommitKeepsSeen DEF Compares, Done, TypeOK, Times
      <3>2. CASE tx[r].pending # {}
        <4>1. PICK w \in rows' : w.at = tx[r].at
          BY <3>2 DEF Stamped, Stored
        <4>2. rows' \in SUBSET Versions /\ \A v \in rows' : v.value = source'[v.at]
          BY <1>1, <1>2 DEF TypeOK, Stamped, Done
        <4>3. tx[r].at \in Times /\ tx'[r].step # "idle"
          BY DEF TypeOK
        <4>4. ASSUME NEW v \in Newest(Visible(rows', tx[r].at))
              PROVE  v.value = source'[tx[r].at]
          BY <4>1, <4>2, <4>3, RowAtTime
        <4>5. tx'[r].value = source'[tx'[r].at]
          BY <1>2, <4>3 DEF Stamped
        <4>6. QED
          BY <2>2, <4>4, <4>5 DEF Seen
      <3>3. QED
        BY <3>1, <3>2
    <2>6. ASSUME NEW q \in Runs, tx'[q].step = "written", tx'[q].pending = {},
                 \A p \in Done' : tx[p].at <= tx[q].at
          PROVE  Seen(q)'
      <3>1. tx[q].step = "written" /\ tx[q].pending = {}
        BY <2>6 DEF TypeOK
      <3>2. Seen(q)
        BY <2>2, <2>3, <2>6, <3>1 DEF Compares
      <3>3. QED
        BY <1>1, <1>2, <2>1, <3>1, <3>2, CommitKeepsSeen
    <2>7. QED
      BY <2>2, <2>4, <2>5, <2>6 DEF Compares, Done
  <1>4. QED
    BY <1>1, <1>2, <1>3 DEF Answers

-----------------------------------------------------------------------------
\* The invariant: rows are what their runs fetched, and while no run has been
\* overtaken every finished run's fetch agrees with the answer of its time.
THEOREM Invariant == Spec => []IInv
  <1>1. ASSUME IInv, [Next]_vars PROVE IInv'
    <2>1. CASE UNCHANGED vars
      BY <1>1, <2>1 DEF vars, IInv, TypeOK, Stamped, Answers, Compares, Seen, Returned, Done
    <2>2. CASE Next
      BY <1>1, <2>2, FetchIInv, WriteIInv, CommitIInv, RollbackIInv, TickIInv DEF Next
    <2>3. QED
      BY <1>1, <2>1, <2>2
  <1>2. QED
    BY <1>1, InitIInv, PTL DEF Spec

\* No query sees what was not yet said at the time it asks about.
THEOREM NoFutureInAnswers == Spec => []NoLookAhead
  <1>1. IInv => NoLookAhead
    BY RowsAreTrue DEF IInv, NoLookAhead, ReadAsOf, EvidenceAsOf, Newest, Visible
  <1>2. QED
    BY <1>1, Invariant, PTL

\* The newest answer is what the last fetch saw.
THEOREM LastFetchIsRead == Spec => []NewestIsLastSeen
  <1>1. ASSUME IInv, ~overtaken, NEW r \in Done, \A q \in Done : tx[q].at <= tx[r].at,
               NEW v \in ReadAsOf(clock)
        PROVE  v.value = tx[r].value \/ (kind = "release" /\ Returned(r))
    <2>1. rows \in SUBSET Versions /\ v \in rows /\ v.at <= tx[r].at
      BY <1>1 DEF IInv, TypeOK, Stamped, ReadAsOf, Newest, Visible
    <2>2. tx[r].at \in Nat /\ clock \in Nat /\ tx[r].at <= clock
      BY <1>1 DEF IInv, TypeOK, Stamped, Done, Times
    <2>3. v \in Newest(Visible(rows, tx[r].at))
      BY <1>1, <2>1, <2>2, NewestBelow DEF ReadAsOf
    <2>4. QED
      BY <1>1, <2>3 DEF IInv, Answers, Seen
  <1>2. IInv => NewestIsLastSeen
    BY <1>1 DEF NewestIsLastSeen
  <1>3. QED
    BY <1>2, Invariant, PTL

\* A report's evidence is not older than what its run saw.
THEOREM EvidenceIsCurrent == Spec => []EvidenceNotOlder
  <1>1. ASSUME IInv, ~overtaken, NEW r \in Done, NEW t \in tx[r].at .. clock,
               NEW v \in EvidenceAsOf(t, {r})
        PROVE  \/ v.value = tx[r].value
               \/ v.at > tx[r].at
               \/ kind = "release" /\ Returned(r)
    <2>1. rows \in SUBSET Versions /\ v \in rows /\ v.at \in Nat
      BY <1>1 DEF IInv, TypeOK, EvidenceAsOf, Newest, Visible, Versions, Times
    <2>2. tx[r].at \in Nat /\ t \in Nat /\ tx[r].at <= t
      BY <1>1 DEF IInv, TypeOK, Done, Times
    <2>3. CASE v.run = r
      BY <1>1, <2>1, <2>3 DEF IInv, Stamped
    <2>4. CASE v.run # r /\ v.at <= tx[r].at
      <3>1. v \in Newest(Visible(rows, t))
        BY <1>1, <2>4 DEF EvidenceAsOf, Newest
      <3>2. v \in Newest(Visible(rows, tx[r].at))
        BY <2>1, <2>2, <2>4, <3>1, NewestBelow
      <3>3. QED
        BY <1>1, <3>2 DEF IInv, Answers, Seen
    <2>5. QED
      BY <2>1, <2>2, <2>3, <2>4
  <1>2. IInv => EvidenceNotOlder
    BY <1>1 DEF EvidenceNotOlder
  <1>3. QED
    BY <1>2, Invariant, PTL

\* What was answered as of a time stays so once that time's runs are finished.
THEOREM PastStays == Spec => PastIsKept
  <1>1. ASSUME IInv, Next, NEW t \in 0 .. clock - 1, \A r \in Open : tx[r].at > t
        PROVE  ReadAsOf(t)' = ReadAsOf(t)
    <2>1. CASE UNCHANGED rows
      BY <2>1 DEF ReadAsOf, Newest, Visible, NotAfter
    <2>2. ASSUME NEW r \in Runs, Commit(r)
          PROVE  ReadAsOf(t)' = ReadAsOf(t)
      <3>1. tx[r].at \in Nat /\ tx[r].at > t /\ t \in Nat
        BY <1>1, <2>2 DEF Commit, Open, IInv, TypeOK, Times
      <3>2. \A v \in tx[r].pending : v.at = tx[r].at
        BY <1>1 DEF IInv, Stamped
      <3>3. Visible(rows', t) = Visible(rows, t)
        BY <2>2, <3>1, <3>2 DEF Commit, Stored, Visible
      <3>4. QED
        BY <3>3 DEF ReadAsOf
    <2>3. QED
      BY <1>1, <2>1, <2>2 DEF Next, Fetch, Write, Rollback, Tick
  <1>2. ASSUME IInv, [Next]_vars
        PROVE  [\A t \in 0 .. clock - 1 :
                   (\A r \in Open : tx[r].at > t) => ReadAsOf(t)' = ReadAsOf(t)]_vars
    BY <1>1, <1>2
  <1>3. QED
    BY <1>2, Invariant, PTL DEF Spec, PastIsKept
=============================================================================
