-------------------------- MODULE ReportDayProofs --------------------------
(* Theorems about ReportDay, for all workers, budgets and mishaps. *)
EXTENDS ReportDay, TLAPS

\* The writer knows the rows: nobody else changes them while it writes.
WriterKnows ==
    \A w \in Workers :
        /\ pc[w] = "drafting"     => generation = "draft"  /\ report = "absent"
        /\ pc[w] = "falling_back" => generation = "failed" /\ report = "absent"
        /\ pc[w] = "validating"   => generation = "draft"  /\ report = "generated"
        /\ pc[w] = "recording"    => generation = "draft"  /\ report \in {"validated", "failed"}

\* Who delivers has a validated report, and who sends has claimed the row
\* while the chat shows nothing.
SenderKnows ==
    \A w \in Workers :
        /\ pc[w] = "delivering" => report = "validated"
        /\ pc[w] = "sending" => delivery = "pending" /\ cards = 0

\* Where the row says that nothing was delivered, the chat shows nothing.
ChatMatches == delivery \in {"absent", "retry_wait", "failed"} => cards = 0

\* A worker that gives the lock back has a delivery or an alert to show.
Accounted == delivery = "succeeded" \/ alerts # {}
EndsAccounted == \A w \in Workers : pc[w] \in {"releasing", "done"} => Accounted

\* A worker that may come back for the date has an attempt left.
WithinBudget ==
    \A w \in Workers :
        pc[w] \in {"polling", "ingesting", "retrying"} => tries[w] < MaxReportAttempts

IInv ==
    /\ TypeOK
    /\ WithinBudget
    /\ WriterKnows
    /\ SenderKnows
    /\ ChatMatches
    /\ EndsAccounted
    /\ OneWriterOneSender
    /\ OnlyVettedReports
    /\ AttemptMatchesReport

\* A step of w that moves w alone, to a label where it neither writes, sends,
\* delivers nor ends.
Idle == {"polling", "ingesting", "loading", "reserving", "retrying", "dead"} \cup Alerts

----------------------------------------------------------------------------
\* The initial state satisfies the invariant.
LEMMA InitIInv == Init => IInv
  BY BudgetAssumption DEF Init, IInv, TypeOK, Labels, WriterKnows, SenderKnows, ChatMatches,
     EndsAccounted, OneWriterOneSender, OnlyVettedReports, AttemptMatchesReport, Writes, Sends,
     WithinBudget

\* A worker moves where it claims nothing of the rows, which stay.
LEMMA MoveIInv ==
    ASSUME IInv, NEW w \in Workers, NEW label \in Idle,
           pc' = [pc EXCEPT ![w] = label], UNCHANGED rows,
           lock' \subseteq lock \cup {w}, lock = {} \/ lock' \subseteq lock,
           tries' \in [Workers -> 0..MaxReportAttempts], mishaps' \in 0..MaxMishaps,
           label \in {"polling", "ingesting", "retrying"} => tries'[w] < MaxReportAttempts,
           \A v \in Workers \ {w} : tries'[v] = tries[v]
    PROVE  IInv'
  <1> USE DEF IInv, rows, Idle, Alerts
  <1>1. lock' \in {{}} \cup {{v} : v \in Workers}
    BY DEF TypeOK
  <1>2. TypeOK'
    BY <1>1 DEF TypeOK, Labels, Generating
  <1>3. WriterKnows' /\ SenderKnows' /\ EndsAccounted' /\ WithinBudget'
    BY DEF WriterKnows, SenderKnows, EndsAccounted, Accounted, TypeOK, WithinBudget
  <1>4. ChatMatches' /\ OnlyVettedReports' /\ AttemptMatchesReport'
    BY DEF ChatMatches, OnlyVettedReports, AttemptMatchesReport
  <1>5. OneWriterOneSender'
    BY DEF OneWriterOneSender, Writes, Sends, TypeOK
  <1>6. QED
    BY <1>2, <1>3, <1>4, <1>5

----------------------------------------------------------------------------
\* The steps that write the attempt or the report: by the one writer.
LEMMA WriteIInv ==
    ASSUME IInv, NEW w \in Workers,
           ReserveGeneration(w) \/ Draft(w) \/ FallBack(w) \/ Validate(w) \/ RecordGeneration(w)
    PROVE  IInv'
  <1> USE DEF IInv, ReserveGeneration, Draft, FallBack, Validate, RecordGeneration, Reservable,
              Judge, Publishable, Goto
  <1>1. /\ \E label \in Labels : pc' = [pc EXCEPT ![w] = label]
        /\ generation' \in {"absent", "draft", "failed", "generated"}
        /\ report' \in {"absent", "generated", "validated", "failed"}
        /\ UNCHANGED <<lock, tries, delivery, cards, alerts, mishaps>>
    BY DEF Labels, Generating, Delivering, Alerts, TypeOK
  <1>2. TypeOK'
    BY <1>1 DEF TypeOK
  <1>3. \A v \in Workers \ {w} :
           /\ pc'[v] = pc[v]
           /\ generation' # generation \/ report' # report => ~Writes(v)
    BY DEF TypeOK, OneWriterOneSender, Writes, WriterKnows
  <1>4. WriterKnows'
    <2>1. \A v \in Workers \ {w} :
            /\ pc'[v] = "drafting"     => generation' = "draft"  /\ report' = "absent"
            /\ pc'[v] = "falling_back" => generation' = "failed" /\ report' = "absent"
            /\ pc'[v] = "validating"   => generation' = "draft"  /\ report' = "generated"
            /\ pc'[v] = "recording"    => generation' = "draft" /\ report' \in {"validated", "failed"}
      BY <1>3 DEF WriterKnows, Writes
    <2>2. /\ pc'[w] = "drafting"     => generation' = "draft"  /\ report' = "absent"
          /\ pc'[w] = "falling_back" => generation' = "failed" /\ report' = "absent"
          /\ pc'[w] = "validating"   => generation' = "draft"  /\ report' = "generated"
          /\ pc'[w] = "recording"    => generation' = "draft" /\ report' \in {"validated", "failed"}
      BY DEF WriterKnows, TypeOK, AttemptMatchesReport
    <2>3. QED
      BY <2>1, <2>2 DEF WriterKnows
  <1>5. report \in {"validated", "failed"} => report' = report
    BY DEF WriterKnows
  <1>6. SenderKnows' /\ EndsAccounted' /\ WithinBudget'
    BY <1>1, <1>3, <1>5 DEF SenderKnows, EndsAccounted, Accounted, TypeOK, WriterKnows,
       WithinBudget, Alerts
  <1>7. ChatMatches' /\ OnlyVettedReports' /\ AttemptMatchesReport'
    BY <1>1, <1>5 DEF ChatMatches, OnlyVettedReports, AttemptMatchesReport, WriterKnows
  <1>8. OneWriterOneSender'
    <2>1. \A v \in Workers \ {w} : ~(Writes(v)' /\ Writes(w)') /\ ~Sends(w)'
      BY <1>3 DEF OneWriterOneSender, Writes, Sends, TypeOK, WriterKnows
    <2>2. QED
      BY <1>3, <2>1 DEF OneWriterOneSender, Writes, Sends
  <1>9. QED
    BY <1>2, <1>4, <1>6, <1>7, <1>8

----------------------------------------------------------------------------
\* The steps of the delivery: by the one sender.
LEMMA DeliverIInv ==
    ASSUME IInv, NEW w \in Workers, Deliver(w) \/ Send(w) \/ DeliveryRaises(w)
    PROVE  IInv'
  <1> USE DEF IInv, Deliver, Send, DeliveryRaises, Delivering, Sendable, Settled, Goto
  <1>1. /\ \E label \in {"sending", "releasing", "delivery"} : pc' = [pc EXCEPT ![w] = label]
        /\ UNCHANGED <<lock, tries, generation, report, alerts, mishaps>>
        /\ delivery' \in {"absent", "pending", "retry_wait", "succeeded", "failed", "uncertain"}
        /\ report = "validated"
    BY DEF TypeOK, SenderKnows, OnlyVettedReports
  <1>2. cards' \in {0, 1} /\ cards' \in Nat
    BY DEF SenderKnows, TypeOK, OnlyVettedReports
  <1>3. TypeOK'
    BY <1>1, <1>2 DEF TypeOK, Labels, Alerts, Delivering
  <1>4. \A v \in Workers \ {w} :
           /\ pc'[v] = pc[v]
           /\ delivery' # delivery \/ cards' # cards => ~Sends(v)
    BY DEF TypeOK, OneWriterOneSender, Sends, SenderKnows
  <1>5. WriterKnows'
    BY <1>1 DEF WriterKnows, TypeOK
  <1>6. SenderKnows'
    <2>1. pc'[w] = "sending" => delivery' = "pending" /\ cards' = 0
      BY DEF SenderKnows, TypeOK, ChatMatches
    <2>2. QED
      BY <1>1, <1>4, <2>1 DEF SenderKnows, Sends, TypeOK
  <1>7. ChatMatches' /\ OnlyVettedReports' /\ AttemptMatchesReport'
    BY <1>1, <1>2 DEF ChatMatches, OnlyVettedReports, AttemptMatchesReport, SenderKnows
  <1>8. delivery = "succeeded" => delivery' = "succeeded"
    BY DEF SenderKnows
  <1>9. EndsAccounted' /\ WithinBudget'
    BY <1>1, <1>8 DEF EndsAccounted, Accounted, TypeOK, WithinBudget
  <1>10. OneWriterOneSender'
    BY <1>1, <1>4 DEF OneWriterOneSender, Writes, Sends, TypeOK, SenderKnows
  <1>11. QED
    BY <1>3, <1>5, <1>6, <1>7, <1>9, <1>10

\* A worker that dies while it sends leaves the row to be read with care.
LEMMA DieIInv ==
    ASSUME IInv, NEW w \in Workers, Die(w), pc[w] = "sending"
    PROVE  IInv'
  <1> USE DEF IInv, Die, Goto
  <1>1. /\ pc' = [pc EXCEPT ![w] = "dead"] /\ UNCHANGED <<tries, generation, report, alerts>>
        /\ delivery = "pending" /\ cards = 0 /\ delivery' \in {"pending", "retry_wait"}
        /\ cards' \in {0, 1} /\ (delivery' = "retry_wait" => cards' = 0)
        /\ \A v \in Workers \ {w} : ~Sends(v)
    BY DEF SenderKnows, OneWriterOneSender, Sends
  <1>2. TypeOK'
    <2>1. lock' \in {{}} \cup {{v} : v \in Workers}
      BY DEF TypeOK
    <2>2. mishaps' \in 0..MaxMishaps
      BY BudgetAssumption DEF Mishap, TypeOK
    <2>3. QED
      BY <1>1, <2>1, <2>2 DEF TypeOK, Labels
  <1>3. WriterKnows' /\ SenderKnows' /\ EndsAccounted' /\ WithinBudget'
    BY <1>1 DEF WriterKnows, SenderKnows, EndsAccounted, Accounted, TypeOK, Sends, WithinBudget
  <1>4. ChatMatches' /\ OnlyVettedReports' /\ AttemptMatchesReport'
    BY <1>1 DEF ChatMatches, OnlyVettedReports, AttemptMatchesReport
  <1>5. OneWriterOneSender'
    BY <1>1 DEF OneWriterOneSender, Writes, Sends, TypeOK
  <1>6. QED
    BY <1>2, <1>3, <1>4, <1>5

----------------------------------------------------------------------------
\* An alert accounts for the day; a worker that ends its day leaves it so.
LEMMA EndIInv ==
    ASSUME IInv, NEW w \in Workers, NEW label \in {"releasing", "done"},
           pc' = [pc EXCEPT ![w] = label],
           UNCHANGED <<tries, generation, report, delivery, cards, mishaps>>,
           lock' \subseteq lock, alerts' \subseteq Alerts, alerts \subseteq alerts', Accounted'
    PROVE  IInv'
  <1> USE DEF IInv
  <1>1. TypeOK'
    <2>1. lock' \in {{}} \cup {{v} : v \in Workers}
      BY DEF TypeOK
    <2>2. QED
      BY <2>1 DEF TypeOK, Labels
  <1>2. WriterKnows' /\ SenderKnows' /\ EndsAccounted' /\ WithinBudget'
    BY DEF WriterKnows, SenderKnows, EndsAccounted, Accounted, TypeOK, WithinBudget
  <1>3. ChatMatches' /\ OnlyVettedReports' /\ AttemptMatchesReport'
    BY DEF ChatMatches, OnlyVettedReports, AttemptMatchesReport
  <1>4. OneWriterOneSender'
    BY DEF OneWriterOneSender, Writes, Sends, TypeOK
  <1>5. QED
    BY <1>1, <1>2, <1>3, <1>4

\* Another attempt, or the budget used up: the count stays within the budget.
LEMMA TryAgainIInv ==
    ASSUME IInv, NEW w \in Workers, pc[w] \in {"polling", "retrying"}, TryAgain(w),
           lock' \subseteq lock, UNCHANGED rows, mishaps' = mishaps
    PROVE  IInv'
  <1>1. tries[w] \in 0..MaxReportAttempts /\ tries[w] < MaxReportAttempts
    BY DEF IInv, TypeOK, WithinBudget
  <1>2. /\ tries' \in [Workers -> 0..MaxReportAttempts]
        /\ tries'[w] = tries[w] + 1
        /\ \A v \in Workers \ {w} : tries'[v] = tries[v]
    BY <1>1, BudgetAssumption DEF IInv, TypeOK, TryAgain
  <1>3. mishaps' \in 0..MaxMishaps
    BY DEF IInv, TypeOK
  <1>4. CASE tries'[w] >= MaxReportAttempts
    <2>1. pc' = [pc EXCEPT ![w] = "exhausted"] /\ "exhausted" \in Idle
      BY <1>4 DEF TryAgain, Goto, Idle, Alerts
    <2>2. QED
      BY <1>2, <1>3, <2>1, MoveIInv
  <1>5. CASE ~(tries'[w] >= MaxReportAttempts)
    <2>1. pc' = [pc EXCEPT ![w] = "polling"] /\ "polling" \in Idle
      BY <1>5 DEF TryAgain, Goto, Idle
    <2>2. tries'[w] < MaxReportAttempts
      BY <1>1, <1>2, <1>5, BudgetAssumption
    <2>3. QED
      BY <1>2, <1>3, <2>1, <2>2, MoveIInv
  <1>6. QED
    BY <1>4, <1>5

----------------------------------------------------------------------------
\* Every step keeps the invariant.
LEMMA StepIInv == IInv /\ [Next]_vars => IInv'
  <1> SUFFICES ASSUME IInv, [Next]_vars PROVE IInv'
    OBVIOUS
  <1>t. /\ tries \in [Workers -> 0..MaxReportAttempts] /\ mishaps \in 0..MaxMishaps
        /\ \A v \in Workers :
              pc[v] \in {"polling", "ingesting", "retrying"} => tries[v] < MaxReportAttempts
    BY DEF IInv, TypeOK, WithinBudget
  <1>1. CASE UNCHANGED vars
    BY <1>1 DEF vars, rows, IInv, TypeOK, WithinBudget, WriterKnows, SenderKnows, ChatMatches,
       EndsAccounted, Accounted, OneWriterOneSender, Writes, Sends, OnlyVettedReports,
       AttemptMatchesReport
  <1>2. CASE LoseLock
    <2>1. mishaps' \in 0..MaxMishaps
      BY <1>2, <1>t, BudgetAssumption DEF LoseLock, Mishap
    <2>2. TypeOK'
      BY <1>2, <2>1 DEF LoseLock, IInv, TypeOK, rows
    <2>3. QED
      BY <1>2, <2>2 DEF LoseLock, rows, IInv, WithinBudget, WriterKnows, SenderKnows, ChatMatches,
         EndsAccounted, Accounted, OneWriterOneSender, Writes, Sends, OnlyVettedReports,
         AttemptMatchesReport
  <1>3. ASSUME NEW w \in Workers, Start(w) PROVE IInv'
    <2>1. CASE lock = {}
      <3>1. pc' = [pc EXCEPT ![w] = "ingesting"] /\ "ingesting" \in Idle /\ pc[w] = "polling"
            /\ lock' = {w} /\ UNCHANGED <<tries, rows, mishaps>>
        BY <1>3, <2>1 DEF Start, Goto, Idle
      <3>2. QED
        BY <1>t, <2>1, <3>1, MoveIInv
    <2>2. CASE lock # {}
      BY <1>3, <2>2, TryAgainIInv DEF Start
    <2>3. QED
      BY <2>1, <2>2
  <1>4. ASSUME NEW w \in Workers, Release(w) PROVE IInv'
    <2>1. CASE w \notin lock
      <3>1. pc' = [pc EXCEPT ![w] = "dead"] /\ "dead" \in Idle /\ lock' \subseteq lock
            /\ UNCHANGED <<tries, rows, mishaps>>
        BY <1>4, <2>1 DEF Release, Goto, Idle
      <3>2. QED
        BY <1>t, <3>1, MoveIInv
    <2>2. CASE w \in lock /\ pc[w] = "retrying"
      BY <1>4, <2>2, TryAgainIInv DEF Release
    <2>3. CASE w \in lock /\ pc[w] = "releasing"
      <3>1. /\ pc' = [pc EXCEPT ![w] = "done"] /\ lock' \subseteq lock
            /\ UNCHANGED <<tries, generation, report, delivery, cards, alerts, mishaps>>
        BY <1>4, <2>3 DEF Release, Goto, rows
      <3>2. Accounted' /\ alerts' \subseteq Alerts
        BY <2>3, <3>1 DEF IInv, EndsAccounted, Accounted, TypeOK
      <3>3. QED
        BY <3>1, <3>2, EndIInv
    <2>4. QED
      BY <1>4, <2>1, <2>2, <2>3 DEF Release
  <1>5. ASSUME NEW w \in Workers, Ingest(w) PROVE IInv'
    <2>1. PICK next \in {"loading", "retrying", "quality_gate", "ingestion"} :
            pc' = [pc EXCEPT ![w] = next]
      BY <1>5 DEF Ingest, Goto
    <2>2. next \in Idle /\ pc[w] = "ingesting" /\ UNCHANGED <<lock, tries, rows, mishaps>>
      BY <1>5, <2>1 DEF Ingest, Idle, Alerts
    <2>3. QED
      BY <1>t, <2>1, <2>2, MoveIInv
  <1>6. ASSUME NEW w \in Workers, LoadReport(w) PROVE IInv'
    <2>1. /\ UNCHANGED <<lock, tries, rows, mishaps>>
          /\ \/ pc' = [pc EXCEPT ![w] = "reserving"]
             \/ pc' = [pc EXCEPT ![w] = "validation"]
             \/ report = "validated" /\ pc' = [pc EXCEPT ![w] = "delivering"]
      BY <1>6 DEF LoadReport, Judge, Publishable, Goto
    <2>2. "reserving" \in Idle /\ "validation" \in Idle
      BY DEF Idle, Alerts
    <2>3. CASE pc' = [pc EXCEPT ![w] = "reserving"] \/ pc' = [pc EXCEPT ![w] = "validation"]
      BY <1>t, <2>1, <2>2, <2>3, MoveIInv
    <2>4. CASE report = "validated" /\ pc' = [pc EXCEPT ![w] = "delivering"]
      BY <2>1, <2>4 DEF rows, IInv, TypeOK, Labels, Delivering, WithinBudget, WriterKnows,
         SenderKnows, ChatMatches, EndsAccounted, Accounted, OneWriterOneSender, Writes, Sends,
         OnlyVettedReports, AttemptMatchesReport
    <2>5. QED
      BY <2>1, <2>3, <2>4
  <1>7. ASSUME NEW w \in Workers, GenerationRaises(w) PROVE IInv'
    BY <1>7, <1>t, MoveIInv DEF GenerationRaises, Goto, Idle, Alerts
  <1>8. ASSUME NEW w \in Workers, RaiseAlert(w) PROVE IInv'
    <2>1. /\ UNCHANGED <<lock, tries, generation, report, delivery, cards, mishaps>>
          /\ \/ pc' = [pc EXCEPT ![w] = "done"]
             \/ pc' = [pc EXCEPT ![w] = "releasing"]
          /\ alerts' = alerts \cup {pc[w]} /\ pc[w] \in Alerts
      BY <1>8 DEF RaiseAlert, Goto
    <2>2. Accounted' /\ alerts' \subseteq Alerts /\ alerts \subseteq alerts'
      BY <2>1 DEF Accounted, IInv, TypeOK
    <2>3. QED
      BY <2>1, <2>2, EndIInv
  <1>9. ASSUME NEW w \in Workers, Die(w) PROVE IInv'
    <2>1. CASE pc[w] = "sending"
      BY <1>9, <2>1, DieIInv
    <2>2. CASE pc[w] # "sending"
      <3>1. /\ pc' = [pc EXCEPT ![w] = "dead"] /\ "dead" \in Idle
            /\ lock' \subseteq lock /\ UNCHANGED <<tries, rows>>
        BY <1>9, <2>2 DEF Die, Goto, Idle, rows
      <3>2. mishaps' \in 0..MaxMishaps
        BY <1>9, <1>t, BudgetAssumption DEF Die, Mishap
      <3>3. QED
        BY <1>t, <3>1, <3>2, MoveIInv
    <2>3. QED
      BY <2>1, <2>2
  <1>10. ASSUME NEW w \in Workers, Restart(w) PROVE IInv'
    <2>1. /\ pc' = [pc EXCEPT ![w] = "polling"] /\ "polling" \in Idle
          /\ UNCHANGED <<lock, rows, mishaps>>
      BY <1>10 DEF Restart, Goto, Idle
    <2>2. /\ tries' \in [Workers -> 0..MaxReportAttempts] /\ tries'[w] = 0
          /\ \A v \in Workers \ {w} : tries'[v] = tries[v]
      BY <1>10, <1>t, BudgetAssumption DEF Restart
    <2>3. tries'[w] < MaxReportAttempts
      BY <2>2, BudgetAssumption
    <2>4. QED
      BY <1>t, <2>1, <2>2, <2>3, MoveIInv
  <1>11. QED
    BY <1>1, <1>2, <1>3, <1>4, <1>5, <1>6, <1>7, <1>8, <1>9, <1>10, WriteIInv, DeliverIInv
       DEF Next, Work, Generate, Publish, Raise

----------------------------------------------------------------------------
\* The inductive invariant of the day: what every worker may rely on.
THEOREM Invariant == Spec => []IInv
  BY InitIInv, StepIInv, PTL DEF Spec

\* Types of the rows and of the workers' memory; tries within their budget.
THEOREM TypeCorrect == Spec => []TypeOK
  BY Invariant, PTL DEF IInv

\* The constraints on the rows exclude a second writer of the report and a
\* second sender, also when the advisory lock is gone.
THEOREM Exclusion == Spec => []OneWriterOneSender
  BY Invariant, PTL DEF IInv

\* Only a validated report is ever claimed for sending, and the chat shows
\* it at most once.
THEOREM Vetted == Spec => []OnlyVettedReports
  BY Invariant, PTL DEF IInv

\* The generation attempt never claims more than the report row shows.
THEOREM AttemptTruthful == Spec => []AttemptMatchesReport
  BY Invariant, PTL DEF IInv

\* A worker that is through with the date has delivered or alerted.
THEOREM Accountable == Spec => []NoSilentDay
  <1>1. IInv => NoSilentDay
    BY DEF IInv, EndsAccounted, Accounted, NoSilentDay
  <1>2. QED
    BY <1>1, Invariant, PTL

\* No step takes back a verdict on the report or a settled delivery.
THEOREM Final == Spec => VerdictsAreFinal
  <1> DEFINE Kept ==
        /\ report \in {"validated", "failed"} => report' = report
        /\ delivery \in {"succeeded", "failed", "uncertain"} => delivery' = delivery
  <1>1. IInv /\ [Next]_vars => [Kept]_vars
    <2> SUFFICES ASSUME IInv, Next PROVE Kept
      OBVIOUS
    <2>1. ASSUME NEW w \in Workers, Generate(w) PROVE Kept
      BY <2>1 DEF Generate, LoadReport, ReserveGeneration, Draft, FallBack, Validate,
                  RecordGeneration, IInv, WriterKnows, rows
    <2>2. ASSUME NEW w \in Workers, Publish(w) \/ Raise(w) PROVE Kept
      BY <2>2 DEF Publish, Raise, Deliver, Send, RaiseAlert, GenerationRaises, DeliveryRaises,
                  Sendable, IInv, SenderKnows, rows
    <2>3. ASSUME NEW w \in Workers, Die(w) PROVE Kept
      BY <2>3 DEF Die, IInv, SenderKnows
    <2>4. QED
      BY <2>1, <2>2, <2>3 DEF Next, Work, LoseLock, Start, Ingest, Release, Restart, rows
  <1>2. QED
    BY <1>1, Invariant, PTL DEF Spec, VerdictsAreFinal
=============================================================================
