------------------------- MODULE IngestionRunProofs -------------------------
(* Theorems about IngestionRun, for all calls, page versions and durations. *)
EXTENDS IngestionRun, TLAPS

\* What a call holds in each phase: a claim while it works, a stored page
\* when it completes, an answer only when the run has been decided.
Phases ==
    \A c \in Calls :
        /\ pc[c] # "idle" => run.status # "absent"
        /\ pc[c] \in {"idle", "replay"} \cup Waiting =>
              claim[c] = 0 /\ answer[c] = 0 /\ ~inserted[c]
        /\ pc[c] \in Working =>
              /\ claim[c] # 0 /\ answer[c] = 0
              /\ claim[c] = run.attempt_no => run.status = "running"
        /\ pc[c] \in {"fetch", "commit"} => ~inserted[c]
        /\ pc[c] \in {"commit", "complete"} => page[c] # {}
        /\ pc[c] = "complete" => page[c] \subseteq pages
        /\ inserted[c] => page[c] \subseteq pages

\* An absent run has had no attempt, a decided one gives its own result.
RowAndAnswers ==
    /\ run.status = "absent" <=> run.attempt_no = 0
    /\ \A c \in Calls :
          answer[c] # 0 => run.status = "succeeded" /\ answer[c] = run.attempt_no

IInv ==
    /\ TypeOK
    /\ Phases
    /\ RowAndAnswers
    /\ OneOwnerPerAttempt
    /\ ResultIsBacked

----------------------------------------------------------------------------
\* The initial state satisfies the invariant.
LEMMA InitIInv == Init => IInv
  <1> SUFFICES ASSUME Init PROVE IInv
    OBVIOUS
  <1>1. TypeOK
    BY DurationAssumption DEF Init, TypeOK, Runs, RunStatuses
  <1>2. Phases /\ RowAndAnswers
    BY DEF Init, Phases, RowAndAnswers, Waiting, Working
  <1>3. OneOwnerPerAttempt /\ ResultIsBacked
    BY DEF Init, OneOwnerPerAttempt, ResultIsBacked
  <1>4. QED
    BY <1>1, <1>2, <1>3 DEF IInv

\* A call that takes the run, absent or recoverable, takes a new attempt: it
\* is the only owner of it, and all earlier ones are fenced off.
LEMMA HoldIInv ==
    ASSUME IInv, NEW c \in Calls, pc[c] \in {"idle", "claim"},
           run.status # "succeeded", Hold(c, NextAttempt),
           UNCHANGED <<pages, patience, page, inserted, answer>>
    PROVE  IInv'
  <1> USE DEF IInv, Hold, NextAttempt, Goto
  <1>1. run.attempt_no \in Nat /\ \A d \in Calls : claim[d] \in Nat
    BY DEF TypeOK, Runs
  <1>2. TypeOK'
    BY <1>1, DurationAssumption DEF TypeOK, Runs, RunStatuses, Working
  <1>3. Phases'
    BY <1>1 DEF Phases, TypeOK, Waiting, Working
  <1>4. RowAndAnswers'
    BY <1>1 DEF RowAndAnswers
  <1>5. OneOwnerPerAttempt'
    BY <1>1 DEF OneOwnerPerAttempt, TypeOK
  <1>6. ResultIsBacked'
    BY DEF ResultIsBacked
  <1>7. QED
    BY <1>2, <1>3, <1>4, <1>5, <1>6

\* A step that leaves the run to its owner and moves one call on.
LEMMA MoveIInv ==
    ASSUME IInv, NEW c \in Calls, NEW label,
           run' = run, UNCHANGED <<pages, claim, page, inserted, answer>>,
           pc' = [pc EXCEPT ![c] = label],
           \/ pc[c] \in {"replay"} \cup Waiting /\ label \in Waiting \cup {"raised", "dead"}
           \/ pc[c] = "idle" /\ label = "replay" /\ run.status # "absent"
           \/ pc[c] \in Working /\ label \in {"fail", "raised", "dead"},
           patience' \in [Calls -> 0..WaitTicks], beating' \in [Calls -> BOOLEAN]
    PROVE  IInv'
  <1> USE DEF IInv
  <1>1. TypeOK'
    BY DEF TypeOK, Waiting, Working, Ended
  <1>2. Phases'
    BY DEF Phases, TypeOK, Waiting, Working
  <1>3. RowAndAnswers' /\ OneOwnerPerAttempt' /\ ResultIsBacked'
    BY DEF RowAndAnswers, OneOwnerPerAttempt, ResultIsBacked
  <1>4. QED
    BY <1>1, <1>2, <1>3

\* A call returns the result of a decided run.
LEMMA ReplayIInv ==
    ASSUME IInv, NEW c \in Calls, pc[c] \in {"replay", "load"}, Replayable, TakeStoredResult(c),
           UNCHANGED <<run, pages, claim, patience, beating, page, inserted>>
    PROVE  IInv'
  <1> USE DEF IInv, TakeStoredResult, Goto
  <1>1. TypeOK'
    BY DEF TypeOK, Ended, Runs
  <1>2. Phases'
    BY DEF Phases, TypeOK, Waiting, Working
  <1>3. RowAndAnswers'
    BY DEF RowAndAnswers, TypeOK, Replayable
  <1>4. OneOwnerPerAttempt' /\ ResultIsBacked'
    BY DEF OneOwnerPerAttempt, ResultIsBacked
  <1>5. QED
    BY <1>1, <1>2, <1>3, <1>4

----------------------------------------------------------------------------
\* The handler fetches a page and commits it; nobody else's page is undone.
LEMMA HandleIInv ==
    ASSUME IInv, NEW c \in Calls, Fetch(c) \/ CommitPage(c)
    PROVE  IInv'
  <1> USE DEF IInv, Goto
  <1>1. CASE Fetch(c)
    <2> USE <1>1 DEF Fetch
    <2>1. TypeOK'
      BY DEF TypeOK, Working
    <2>2. Phases'
      BY DEF Phases, TypeOK, Waiting, Working
    <2>3. RowAndAnswers' /\ OneOwnerPerAttempt'
      BY DEF RowAndAnswers, OneOwnerPerAttempt
    <2>4. ResultIsBacked'
      <3>1. ~inserted[c] /\ \A d \in Calls \ {c} : page'[d] = page[d]
        BY DEF Phases, TypeOK
      <3>2. run.status = "succeeded" => \E d \in Calls \ {c} :
               claim[d] = run.attempt_no /\ page[d] # {} /\ page[d] \subseteq pages
        BY DEF ResultIsBacked, Phases, Working
      <3>3. QED
        BY <3>1, <3>2 DEF ResultIsBacked
    <2>5. QED
      BY <2>1, <2>2, <2>3, <2>4
  <1>2. CASE CommitPage(c)
    <2> USE <1>2 DEF CommitPage
    <2>1. TypeOK'
      BY DEF TypeOK, Working
    <2>2. Phases'
      BY DEF Phases, TypeOK, Waiting, Working
    <2>3. RowAndAnswers' /\ OneOwnerPerAttempt'
      BY DEF RowAndAnswers, OneOwnerPerAttempt
    <2>4. ResultIsBacked'
      BY DEF ResultIsBacked, Phases, TypeOK
    <2>5. QED
      BY <2>1, <2>2, <2>3, <2>4
  <1>3. QED
    BY <1>1, <1>2

----------------------------------------------------------------------------
\* The owner writes its outcome: no other call is at work with its claim.
LEMMA FinishIInv ==
    ASSUME IInv, NEW c \in Calls, pc[c] \in {"complete", "fail"}, Owns(c),
           NEW status \in {"failed", "succeeded"}, Finish(status),
           status = "succeeded" => pc[c] = "complete",
           NEW how \in {"returned", "raised"}, End(c, how),
           \/ answer' = answer
           \/ status = "succeeded" /\ answer' = [answer EXCEPT ![c] = claim[c]],
           UNCHANGED <<pages, claim, patience, page, inserted>>
    PROVE  IInv'
  <1> USE DEF IInv, Finish, End, Goto, Owns
  <1>1. /\ run'.status = status /\ run'.attempt_no = run.attempt_no
        /\ run.attempt_no \in Nat /\ claim[c] = run.attempt_no /\ run.status = "running"
    BY DEF TypeOK, Runs
  <1>2. \A d \in Calls : answer[d] = 0
    BY <1>1 DEF RowAndAnswers
  <1>3. TypeOK'
    <2>1. status \in RunStatuses /\ 0 \in 0..LeaseTicks
      BY DurationAssumption DEF RunStatuses
    <2>2. [run EXCEPT !.status = status, !.lease = 0] \in Runs
      BY <2>1 DEF TypeOK, Runs
    <2>3. QED
      BY <1>1, <2>2 DEF TypeOK, Ended
  <1>4. Phases'
    <2>1. \A d \in Calls \ {c} : pc[d] \in Working => claim[d] # run.attempt_no
      BY <1>1 DEF Phases, OneOwnerPerAttempt, Working
    <2>2. QED
      BY <1>1, <2>1 DEF Phases, TypeOK, Waiting, Working
  <1>5. RowAndAnswers'
    BY <1>1, <1>2 DEF RowAndAnswers, TypeOK
  <1>6. OneOwnerPerAttempt'
    BY <1>1 DEF OneOwnerPerAttempt
  <1>7. ResultIsBacked'
    BY <1>1 DEF ResultIsBacked, Phases
  <1>8. QED
    BY <1>3, <1>4, <1>5, <1>6, <1>7

\* Time and heartbeats change the lease alone.
LEMMA LeaseIInv ==
    ASSUME IInv, NEW l \in 0..LeaseTicks, run' = [run EXCEPT !.lease = l],
           UNCHANGED <<pages, pc, claim, page, inserted, answer>>,
           patience' \in [Calls -> 0..WaitTicks], beating' \in [Calls -> BOOLEAN]
    PROVE  IInv'
  <1> USE DEF IInv
  <1>1. run'.status = run.status /\ run'.attempt_no = run.attempt_no /\ run' \in Runs
    BY DEF TypeOK, Runs
  <1>2. TypeOK'
    BY <1>1 DEF TypeOK
  <1>3. Phases' /\ RowAndAnswers' /\ OneOwnerPerAttempt' /\ ResultIsBacked'
    BY <1>1 DEF Phases, RowAndAnswers, OneOwnerPerAttempt, ResultIsBacked
  <1>4. QED
    BY <1>2, <1>3

----------------------------------------------------------------------------
\* Every step keeps the invariant.
LEMMA StepIInv == IInv /\ [Next]_vars => IInv'
  <1> SUFFICES ASSUME IInv, [Next]_vars PROVE IInv'
    OBVIOUS
  <1> USE DEF IInv
  <1>t. /\ patience \in [Calls -> 0..WaitTicks] /\ beating \in [Calls -> BOOLEAN]
        /\ run \in Runs /\ 0 \in 0..WaitTicks /\ WaitTicks \in 0..WaitTicks
    BY DurationAssumption DEF TypeOK
  <1>1. CASE UNCHANGED vars
    BY <1>1 DEF vars, TypeOK, Phases, RowAndAnswers, OneOwnerPerAttempt, ResultIsBacked
  <1>2. ASSUME NEW c \in Calls, Acquire(c) PROVE IInv'
    <2>1. CASE run.status = "absent"
      <3>1. run.attempt_no = 0 /\ NextAttempt = 1
        BY <2>1 DEF RowAndAnswers, NextAttempt
      <3>2. QED
        BY <1>2, <2>1, <3>1, HoldIInv DEF Acquire
    <2>2. CASE run.status # "absent"
      BY <1>2, <1>t, <2>2, MoveIInv DEF Acquire, Goto
    <2>3. QED
      BY <2>1, <2>2
  <1>3. ASSUME NEW c \in Calls, Replay(c) PROVE IInv'
    <2>1. CASE Replayable
      BY <1>3, <2>1, ReplayIInv DEF Replay
    <2>2. CASE ~Replayable
      BY <1>3, <1>t, <2>2, MoveIInv DEF Replay, Goto, Waiting
    <2>3. QED
      BY <2>1, <2>2
  <1>4. ASSUME NEW c \in Calls, Load(c) PROVE IInv'
    <2>1. CASE Replayable
      BY <1>4, <2>1, ReplayIInv DEF Load
    <2>2. CASE ~Replayable
      BY <1>4, <1>t, <2>2, MoveIInv DEF Load, Goto, Waiting
    <2>3. QED
      BY <2>1, <2>2
  <1>5. ASSUME NEW c \in Calls, Claim(c) PROVE IInv'
    <2>1. CASE Recoverable
      BY <1>5, <2>1, HoldIInv DEF Claim, Recoverable
    <2>2. CASE ~Recoverable
      BY <1>5, <1>t, <2>2, MoveIInv DEF Claim, Goto, Waiting
    <2>3. QED
      BY <2>1, <2>2
  <1>6. ASSUME NEW c \in Calls, Look(c) PROVE IInv'
    BY <1>6, <1>t, MoveIInv DEF Look, Goto, Waiting
  <1>7. ASSUME NEW c \in Calls, Complete(c) PROVE IInv'
    <2>1. CASE Owns(c)
      BY <1>7, <2>1, FinishIInv DEF Complete
    <2>2. CASE ~Owns(c)
      BY <1>7, <1>t, <2>2, MoveIInv DEF Complete, Goto, Working
    <2>3. QED
      BY <2>1, <2>2
  <1>8. ASSUME NEW c \in Calls, Fail(c) PROVE IInv'
    <2>1. CASE Owns(c)
      BY <1>8, <2>1, FinishIInv DEF Fail
    <2>2. CASE ~Owns(c)
      BY <1>8, <1>t, <2>2, MoveIInv DEF Fail, End, Goto, Working
    <2>3. QED
      BY <2>1, <2>2
  <1>9. ASSUME NEW c \in Calls, Handle(c) PROVE IInv'
    <2>1. CASE HandlerRaises(c)
      BY <1>t, <2>1, MoveIInv DEF HandlerRaises, Goto, Working
    <2>2. QED
      BY <1>9, <2>1, HandleIInv DEF Handle
  <1>10. ASSUME NEW c \in Calls, StatementFails(c) PROVE IInv'
    BY <1>10, <1>t, MoveIInv DEF StatementFails, End, Goto, Working
  <1>11. ASSUME NEW c \in Calls, Crash(c) PROVE IInv'
    BY <1>11, <1>t, MoveIInv DEF Crash, Goto, Working
  <1>12. ASSUME NEW c \in Calls, Renew(c) PROVE IInv'
    <2>1. CASE Owns(c)
      BY <1>12, <1>t, <2>1, LeaseIInv, DurationAssumption DEF Renew
    <2>2. CASE ~Owns(c)
      <3>1. run' = [run EXCEPT !.lease = run.lease] /\ run.lease \in 0..LeaseTicks
        BY <1>12, <1>t, <2>2 DEF Renew, Runs
      <3>2. QED
        BY <1>12, <1>t, <2>2, <3>1, LeaseIInv DEF Renew
    <2>3. QED
      BY <2>1, <2>2
  <1>13. CASE Tick
    <2>1. Less(run.lease) \in 0..LeaseTicks
      BY <1>t, DurationAssumption DEF Less, Runs
    <2>2. patience' \in [Calls -> 0..WaitTicks]
      BY <1>13, <1>t, DurationAssumption DEF Tick, Less
    <2>3. QED
      BY <1>13, <1>t, <2>1, <2>2, LeaseIInv DEF Tick
  <1>14. QED
    BY <1>1, <1>2, <1>3, <1>4, <1>5, <1>6, <1>7, <1>8, <1>9, <1>10, <1>11, <1>12, <1>13
       DEF Next, Work, Proceed

----------------------------------------------------------------------------
\* The inductive invariant of the run: phases, answers and fences agree.
THEOREM Invariant == Spec => []IInv
  BY InitIInv, StepIInv, PTL DEF Spec

\* Types of the row and of what the calls hold.
THEOREM TypeCorrect == Spec => []TypeOK
  BY Invariant, PTL DEF IInv

\* claim_recoverable_run numbers its attempts so that each has one owner.
THEOREM Fenced == Spec => []OneOwnerPerAttempt
  BY Invariant, PTL DEF IInv

\* A succeeded run has its owner's page in the store, and a page that several
\* owners committed was counted by one.
THEOREM Backed == Spec => []ResultIsBacked
  BY Invariant, PTL DEF IInv

\* The run implements its promise: it is decided once, and every call that
\* gets a result gets the one decided.
THEOREM DecidedOnce == Spec => RunsOnce
  <1> DEFINE decided == IF run.status = "succeeded" THEN run.attempt_no ELSE 0
  <1>1. Init => Once!OInit
    BY DEF Init, Once!OInit
  <1>2. IInv /\ [Next]_vars => [Once!ONext]_(Once!ovars)
    <2> SUFFICES ASSUME IInv, Next
                 PROVE  Once!ONext \/ (decided' = decided /\ answer' = answer)
      BY DEF vars, Once!ovars
    <2> USE DEF IInv
    <2>1. ASSUME NEW c \in Calls, Hold(c, NextAttempt), run.status # "succeeded", answer' = answer
          PROVE  decided' = decided
      BY <2>1 DEF Hold
    <2>2. ASSUME NEW c \in Calls, Replayable, TakeStoredResult(c), run' = run,
                 pc[c] \in {"replay", "load"}
          PROVE  Once!ONext
      <3>1. answer[c] = 0 /\ run.attempt_no # 0
        BY <2>2 DEF Phases, Waiting, RowAndAnswers, Replayable
      <3>2. Once!Replay(c)
        BY <2>2, <3>1 DEF Once!Replay, TakeStoredResult, Replayable
      <3>3. QED
        BY <3>2 DEF Once!ONext
    <2>3. ASSUME NEW c \in Calls, Complete(c)
          PROVE  Once!ONext \/ (decided' = decided /\ answer' = answer)
      <3>1. CASE Owns(c) /\ Finish("succeeded") /\ answer' = [answer EXCEPT ![c] = claim[c]]
        <4>1. claim[c] # 0 /\ claim[c] \in Nat /\ claim[c] = run.attempt_no
              /\ run.status = "running"
          BY <2>3, <3>1 DEF Complete, Phases, Working, TypeOK, Owns
        <4>2. run'.status = "succeeded" /\ run'.attempt_no = run.attempt_no
          BY <3>1 DEF Finish, TypeOK, Runs
        <4>3. Once!Decide(c)
          BY <3>1, <4>1, <4>2 DEF Once!Decide
        <4>4. QED
          BY <4>3 DEF Once!ONext
      <3>2. CASE Owns(c) /\ Finish("failed") /\ answer' = answer
        BY <3>2 DEF Owns, Finish, TypeOK, Runs
      <3>3. CASE ~Owns(c)
        BY <2>3, <3>3 DEF Complete
      <3>4. QED
        BY <2>3, <3>1, <3>2, <3>3 DEF Complete
    <2>4. ASSUME NEW c \in Calls, Fail(c) PROVE decided' = decided /\ answer' = answer
      BY <2>4 DEF Fail, Owns, Finish, TypeOK, Runs
    <2>5. CASE Tick
      BY <2>5 DEF Tick, TypeOK, Runs
    <2>6. ASSUME NEW c \in Calls, Renew(c) PROVE decided' = decided /\ answer' = answer
      BY <2>6 DEF Renew, TypeOK, Runs
    <2>7. ASSUME NEW c \in Calls, Acquire(c) PROVE decided' = decided /\ answer' = answer
      BY <2>7 DEF Acquire, Hold
    <2>8. ASSUME NEW c \in Calls, Claim(c) PROVE decided' = decided /\ answer' = answer
      BY <2>8 DEF Claim, Recoverable, Hold
    <2>9. ASSUME NEW c \in Calls, Replay(c) \/ Load(c)
          PROVE  Once!ONext \/ (decided' = decided /\ answer' = answer)
      BY <2>2, <2>9 DEF Replay, Load
    <2>10. ASSUME NEW c \in Calls, Look(c) \/ Handle(c) \/ StatementFails(c) \/ Crash(c)
           PROVE  decided' = decided /\ answer' = answer
      BY <2>10 DEF Look, Handle, Fetch, CommitPage, HandlerRaises, StatementFails, Crash
    <2>11. QED
      BY <2>3, <2>4, <2>5, <2>6, <2>7, <2>8, <2>9, <2>10 DEF Next, Work, Proceed
  <1>3. QED
    BY <1>1, <1>2, Invariant, PTL DEF Spec, RunsOnce, Once!OSpec
=============================================================================
