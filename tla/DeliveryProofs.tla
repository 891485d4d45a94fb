--------------------------- MODULE DeliveryProofs ---------------------------
(* Theorems about ReportDelivery and DeliveryRecovery, for every set of      *)
(* callers and requests and every budget.                                    *)
EXTENDS DeliveryRecovery, TLAPS

----------------------------------------------------------------------------
(* ReportDelivery. *)

\* A pending row is what a caller holds while it is sending.
ClaimIsPending == \A c \in Callers : InFlight(c) => row.status = "pending"

\* What a caller about to send, or about to record, knows of the chat.
SenderKnows ==
    \A c \in Callers :
        /\ pc[c] = "send" => chat = 0 \/ waived
        /\ pc[c] = "record" =>
             /\ reply[c] \in Replies
             /\ reply[c] \in {"retryable", "rejected"} => chat = 0 \/ waived
             /\ reply[c] = "sent" => chat > 0

IInv ==
    /\ TypeOK
    /\ ClaimIsPending
    /\ OneSendInFlight
    /\ SenderKnows
    /\ AuditTellsTheTruth
    /\ NoDuplicateCard

----------------------------------------------------------------------------
\* The attempt that follows an attempt is one of the table's rows.
LEMMA NextPendingType ==
    ASSUME NEW r \in Rows
    PROVE  /\ NextPending(r) \in Rows
           /\ NextPending(r).status = "pending"
           /\ NextPending(r).attempt_no = r.attempt_no + 1
  BY DEF NextPending, Rows, RowStatuses

LEMMA NoRowType == NoRow \in Rows
  BY DEF NoRow, Rows, RowStatuses

LEMMA NextStatusType ==
    ASSUME NEW c
    PROVE  NextStatus(c) \in {"succeeded", "uncertain", "retry_wait", "failed"}
  BY DEF NextStatus

\* The initial state satisfies the invariant.
LEMMA InitIInv == Init => IInv
  <1> SUFFICES ASSUME Init PROVE IInv
    OBVIOUS
  <1>1. TypeOK
    BY NoRowType DEF Init, TypeOK
  <1>2. QED
    BY <1>1 DEF Init, IInv, ClaimIsPending, OneSendInFlight, SenderKnows,
                AuditTellsTheTruth, NoDuplicateCard, InFlight, NoRow

----------------------------------------------------------------------------
\* A caller that claims the row (reserves, resumes or authorises) finds it
\* unclaimed and the report absent, or vouched for, and keeps the invariant.
Claims(c) ==
    /\ row.status # "pending"
    /\ row' \in Rows /\ row'.status = "pending"
    /\ attempt' = [attempt EXCEPT ![c] = attempt'[c]]
    /\ attempt'[c] \in Rows
    /\ pc' = [pc EXCEPT ![c] = "send"]
    /\ waived' \in BOOLEAN /\ (waived => waived')
    /\ chat = 0 \/ waived'
    /\ UNCHANGED <<confirmed, reply, chat>>

LEMMA ClaimKeepsIInv ==
    ASSUME IInv, NEW c \in Callers, Claims(c)
    PROVE  IInv'
  <1> USE DEF IInv, Claims
  <1>1. TypeOK'
    BY DEF TypeOK
  <1>2. \A d \in Callers : ~InFlight(d)
    BY DEF ClaimIsPending
  <1>3. \A d \in Callers : InFlight(d)' => d = c
    BY <1>2 DEF InFlight, TypeOK
  <1>4. ClaimIsPending'
    BY <1>3 DEF ClaimIsPending
  <1>5. OneSendInFlight'
    BY <1>3 DEF OneSendInFlight
  <1>6. SenderKnows'
    <2>1. \A d \in Callers : pc'[d] # "record"
      BY <1>2 DEF InFlight, TypeOK
    <2>2. QED
      BY <2>1 DEF SenderKnows
  <1>7. AuditTellsTheTruth' /\ NoDuplicateCard'
    BY DEF AuditTellsTheTruth, NoDuplicateCard, TypeOK
  <1>8. QED
    BY <1>1, <1>4, <1>5, <1>6, <1>7

\* A caller that only moves to a label outside the send, without touching the
\* row or the chat, keeps the invariant.
StandsBack(c) ==
    /\ pc' = [pc EXCEPT ![c] = pc'[c]]
    /\ pc'[c] \in {"idle", "load", "resume", "authorize", "reread", "returned", "refused"}
    /\ attempt' = [attempt EXCEPT ![c] = attempt'[c]] /\ attempt'[c] \in Rows
    /\ confirmed' \in [Callers -> BOOLEAN]
    /\ reply' = [reply EXCEPT ![c] = reply'[c]] /\ reply'[c] \in Replies \cup {"none"}
    /\ UNCHANGED <<row, chat, waived>>

LEMMA StandingBackKeepsIInv ==
    ASSUME IInv, NEW c \in Callers, StandsBack(c)
    PROVE  IInv'
  <1> USE DEF IInv, StandsBack
  <1>1. TypeOK'
    BY DEF TypeOK
  <1>2. \A d \in Callers : InFlight(d)' =>
            d # c /\ InFlight(d) /\ attempt'[d] = attempt[d] /\ reply'[d] = reply[d]
                  /\ pc'[d] = pc[d]
    BY DEF InFlight, TypeOK
  <1>3. ClaimIsPending'
    BY <1>2 DEF ClaimIsPending
  <1>4. OneSendInFlight'
    BY <1>2 DEF OneSendInFlight
  <1>5. SenderKnows'
    BY <1>2 DEF SenderKnows, InFlight
  <1>6. AuditTellsTheTruth' /\ NoDuplicateCard'
    BY DEF AuditTellsTheTruth, NoDuplicateCard
  <1>7. QED
    BY <1>1, <1>3, <1>4, <1>5, <1>6

----------------------------------------------------------------------------
\* One lemma per action that is more than one of the two above.
LEMMA DeliverKeepsIInv ==
    ASSUME IInv, NEW s \in Senders, Deliver(s)
    PROVE  IInv'
  <1> USE DEF IInv
  <1>0. s \in Callers
    BY DEF Callers
  <1>1. CASE row.status = "absent"
    <2>1. NextPending(NoRow) \in Rows /\ NextPending(NoRow).status = "pending"
      BY NextPendingType, NoRowType
    <2>2. NextPending(NoRow).attempt_no \in Nat
      BY <2>1 DEF Rows
    <2>3. Claims(s)
      BY <1>0, <1>1, <2>1, <2>2
         DEF Deliver, ReserveMatches, Claims, Goto, Hold, TypeOK, AuditTellsTheTruth
    <2>4. QED
      BY <1>0, <2>3, ClaimKeepsIInv
  <1>2. CASE row.status # "absent"
    <2>1. StandsBack(s)
      BY <1>0, <1>2 DEF Deliver, ReserveMatches, StandsBack, Goto, TypeOK
    <2>2. QED
      BY <1>0, <2>1, StandingBackKeepsIInv
  <1>3. QED
    BY <1>1, <1>2

LEMMA ResumeKeepsIInv ==
    ASSUME IInv, NEW s \in Senders, ResumeRetry(s)
    PROVE  IInv'
  <1> USE DEF IInv
  <1>0. s \in Callers /\ row \in Rows /\ attempt[s] \in Rows
    BY DEF Callers, TypeOK
  <1>1. CASE ResumeMatches
    <2>1. /\ NextPending(row) \in Rows /\ NextPending(row).status = "pending"
          /\ NextPending(attempt[s]) \in Rows
      BY <1>0, NextPendingType
    <2>2. Claims(s)
      BY <1>0, <1>1, <2>1
         DEF ResumeRetry, ResumeMatches, Claims, Goto, Hold, TypeOK, AuditTellsTheTruth
    <2>3. QED
      BY <1>0, <2>2, ClaimKeepsIInv
  <1>2. CASE ~ResumeMatches
    <2>1. StandsBack(s)
      BY <1>0, <1>2 DEF ResumeRetry, StandsBack, Goto, TypeOK
    <2>2. QED
      BY <1>0, <2>1, StandingBackKeepsIInv
  <1>3. QED
    BY <1>1, <1>2

LEMMA AuthorizeKeepsIInv ==
    ASSUME IInv, NEW o \in Operators, AuthorizeManualRetry(o)
    PROVE  IInv'
  <1> USE DEF IInv
  <1>0. o \in Callers /\ row \in Rows /\ attempt[o] \in Rows
    BY DEF Callers, TypeOK
  <1>1. CASE AuthorizeMatches(o)
    <2>1. /\ NextPending(row) \in Rows /\ NextPending(row).status = "pending"
          /\ NextPending(attempt[o]) \in Rows
      BY <1>0, NextPendingType
    <2>2. row.status \in {"failed", "retry_wait", "uncertain"}
      BY <1>1 DEF AuthorizeMatches
    <2>3. chat = 0 \/ waived'
      <3>1. waived' = (waived \/ (row.status = "uncertain" /\ chat > 0))
        BY <1>1 DEF AuthorizeManualRetry
      <3>2. CASE row.status = "uncertain"
        <4>1. chat = 0 \/ chat > 0
          BY DEF TypeOK
        <4>2. QED
          BY <3>1, <3>2, <4>1, Zenon
      <3>3. CASE row.status \in {"failed", "retry_wait"}
        BY <3>1, <3>3 DEF AuditTellsTheTruth
      <3>4. QED
        BY <2>2, <3>2, <3>3
    <2>4. Claims(o)
      BY <1>0, <1>1, <2>1, <2>2, <2>3
         DEF AuthorizeManualRetry, Claims, Goto, Hold, TypeOK
    <2>5. QED
      BY <1>0, <2>4, ClaimKeepsIInv
  <1>2. CASE ~AuthorizeMatches(o)
    <2>1. StandsBack(o)
      BY <1>0, <1>2 DEF AuthorizeManualRetry, StandsBack, Goto, TypeOK
    <2>2. QED
      BY <1>0, <2>1, StandingBackKeepsIInv
  <1>3. QED
    BY <1>1, <1>2

\* The transport may add a copy to the chat only for the caller in flight,
\* which found the report absent.
LEMMA SendKeepsIInv ==
    ASSUME IInv, NEW c \in Callers, Send(c)
    PROVE  IInv'
  <1> USE DEF IInv
  <1>1. PICK answer \in Replies :
            reply' = [reply EXCEPT ![c] = answer] /\ chat' \in ChatAfter(answer)
    BY DEF Send
  <1>2. /\ chat' \in Nat /\ chat' \in {chat, chat + 1}
        /\ answer \in {"retryable", "rejected"} => chat' = chat
        /\ answer = "sent" => chat' > 0
    BY <1>1 DEF ChatAfter, Replies, TokenErrors, TypeOK
  <1>3. \A d \in Callers : InFlight(d)' <=> InFlight(d)
    BY DEF Send, Goto, InFlight, TypeOK
  <1>4. \A d \in Callers : InFlight(d) <=> d = c
    BY DEF Send, InFlight, OneSendInFlight
  <1>5. TypeOK'
    BY <1>1, <1>2 DEF Send, Goto, TypeOK
  <1>6. ClaimIsPending' /\ OneSendInFlight'
    BY <1>3 DEF ClaimIsPending, OneSendInFlight, Send
  <1>7. SenderKnows'
    <2>1. pc'[c] = "record" /\ reply'[c] = answer
      BY <1>1 DEF Send, Goto, TypeOK
    <2>2. chat = 0 \/ waived
      BY DEF Send, SenderKnows
    <2>3. \A d \in Callers : d # c => pc'[d] \notin {"send", "record"}
      BY <1>3, <1>4 DEF InFlight
    <2>4. QED
      BY <1>2, <2>1, <2>2, <2>3 DEF SenderKnows, Send
  <1>8. AuditTellsTheTruth'
    BY <1>4 DEF AuditTellsTheTruth, ClaimIsPending, Send
  <1>9. NoDuplicateCard'
    BY <1>2 DEF NoDuplicateCard, SenderKnows, Send, TypeOK
  <1>10. QED
    BY <1>5, <1>6, <1>7, <1>8, <1>9

LEMMA RecordKeepsIInv ==
    ASSUME IInv, NEW c \in Callers, RecordOutcome(c)
    PROVE  IInv'
  <1> USE DEF IInv
  <1>1. CASE UpdateMatches(c)
    <2>1. NextStatus(c) \in {"succeeded", "uncertain", "retry_wait", "failed"}
      BY NextStatusType
    <2>2. TypeOK'
      BY <1>1, <2>1 DEF RecordOutcome, Goto, Hold, TypeOK, Rows, RowStatuses
    <2>3. \A d \in Callers : ~InFlight(d)'
      BY <1>1, <2>1 DEF RecordOutcome, Goto, InFlight, OneSendInFlight, TypeOK
    <2>4. ClaimIsPending' /\ OneSendInFlight' /\ SenderKnows'
      BY <2>3 DEF ClaimIsPending, OneSendInFlight, SenderKnows, InFlight
    <2>5. row'.status = NextStatus(c)
      BY <1>1 DEF RecordOutcome, TypeOK, Rows
    <2>6. /\ reply[c] = "sent" => chat > 0
          /\ reply[c] \in {"retryable", "rejected"} => chat = 0 \/ waived
          /\ reply[c] \in Replies
      BY DEF RecordOutcome, SenderKnows
    <2>7. AuditTellsTheTruth'
      BY <2>5, <2>6 DEF AuditTellsTheTruth, NextStatus, Replies, TokenErrors, RecordOutcome
    <2>8. NoDuplicateCard'
      BY DEF NoDuplicateCard, RecordOutcome
    <2>9. QED
      BY <2>2, <2>4, <2>7, <2>8
  <1>2. CASE ~UpdateMatches(c)
    <2>1. StandsBack(c)
      BY <1>2 DEF RecordOutcome, StandsBack, Goto, TypeOK
    <2>2. QED
      BY <2>1, StandingBackKeepsIInv
  <1>3. QED
    BY <1>1, <1>2

LEMMA QuietActionKeepsIInv ==
    ASSUME IInv, NEW c \in Callers,
           \/ LoadExisting(c)
           \/ \E conf \in BOOLEAN : LoadForRetry(c, conf)
           \/ Reread(c) \/ TakeResult(c) \/ Crash(c)
    PROVE  IInv'
  <1> USE DEF IInv
  <1>1. CASE LoadExisting(c)
    BY <1>1, StandingBackKeepsIInv DEF LoadExisting, StandsBack, Goto, Hold, TypeOK
  <1>2. CASE \E conf \in BOOLEAN : LoadForRetry(c, conf)
    <2>1. PICK conf \in BOOLEAN : LoadForRetry(c, conf)
      BY <1>2
    <2>2. RetryVerdict(row, conf) \in {"refused", "returned", "authorize"}
      BY DEF RetryVerdict
    <2>3. QED
      BY <2>1, <2>2, StandingBackKeepsIInv DEF LoadForRetry, StandsBack, Goto, Hold, TypeOK
  <1>3. CASE Reread(c)
    BY <1>3, StandingBackKeepsIInv DEF Reread, StandsBack, Goto, Hold, TypeOK
  <1>4. CASE TakeResult(c) \/ Crash(c)
    <2>1. Forget(c)
      BY <1>4 DEF TakeResult, Crash
    <2>2. /\ pc' = [pc EXCEPT ![c] = "idle"] /\ attempt' = [attempt EXCEPT ![c] = NoRow]
          /\ confirmed' = [confirmed EXCEPT ![c] = FALSE]
          /\ reply' = [reply EXCEPT ![c] = "none"]
          /\ UNCHANGED <<row, chat, waived>>
      BY <2>1 DEF Forget, Goto, Hold
    <2>3. confirmed' \in [Callers -> BOOLEAN]
      BY <2>2, Zenon DEF TypeOK
    <2>4. StandsBack(c)
      BY <2>2, <2>3, NoRowType DEF StandsBack, TypeOK
    <2>5. QED
      BY <2>4, StandingBackKeepsIInv
  <1>5. QED
    BY <1>1, <1>2, <1>3, <1>4

----------------------------------------------------------------------------
\* Every step keeps the invariant.
LEMMA NextIInv == IInv /\ [Next]_vars => IInv'
  <1> SUFFICES ASSUME IInv, [Next]_vars PROVE IInv'
    OBVIOUS
  <1>1. ASSUME NEW s \in Senders, Deliver(s) PROVE IInv'
    BY <1>1, DeliverKeepsIInv
  <1>2. ASSUME NEW o \in Operators, NEW conf \in BOOLEAN, LoadForRetry(o, conf) PROVE IInv'
    BY <1>2, QuietActionKeepsIInv DEF Callers
  <1>3. ASSUME NEW c \in Callers, Continue(c) PROVE IInv'
    <2>1. CASE c \in Senders /\ LoadExisting(c)
      BY <2>1, <1>3, QuietActionKeepsIInv
    <2>2. CASE c \in Senders /\ ResumeRetry(c)
      BY <2>2, ResumeKeepsIInv
    <2>3. CASE c \in Operators /\ AuthorizeManualRetry(c)
      BY <2>3, AuthorizeKeepsIInv
    <2>4. CASE Send(c)
      BY <2>4, <1>3, SendKeepsIInv
    <2>5. CASE RecordOutcome(c)
      BY <2>5, <1>3, RecordKeepsIInv
    <2>6. CASE Reread(c) \/ TakeResult(c)
      BY <2>6, <1>3, QuietActionKeepsIInv
    <2>7. QED
      BY <1>3, <2>1, <2>2, <2>3, <2>4, <2>5, <2>6 DEF Continue, Proceed
  <1>4. ASSUME NEW c \in Callers, Crash(c) PROVE IInv'
    BY <1>4, QuietActionKeepsIInv
  <1>5. CASE UNCHANGED vars
    BY <1>5 DEF vars, IInv, TypeOK, ClaimIsPending, OneSendInFlight, SenderKnows,
                AuditTellsTheTruth, NoDuplicateCard, InFlight
  <1>6. QED
    BY <1>1, <1>2, <1>3, <1>4, <1>5 DEF Next, Work

\* The invariant holds in every reachable state.
THEOREM Invariance == Spec => []IInv
  BY InitIInv, NextIInv, PTL DEF Spec

\* However many senders and operators there are, at most one of them is
\* between its reservation and its outcome.
THEOREM SingleFlight == Spec => []OneSendInFlight
  <1>1. IInv => OneSendInFlight
    BY DEF IInv
  <1>2. QED
    BY <1>1, Invariance, PTL

\* No second copy of the report appears unless an operator confirmed the
\* absence of a report that was there.
THEOREM AtMostOneCard == Spec => []NoDuplicateCard
  <1>1. IInv => NoDuplicateCard
    BY DEF IInv
  <1>2. QED
    BY <1>1, Invariance, PTL

\* The audit row never says undelivered of a delivered report, nor the reverse.
THEOREM TruthfulAudit == Spec => []AuditTellsTheTruth
  <1>1. IInv => AuditTellsTheTruth
    BY DEF IInv
  <1>2. QED
    BY <1>1, Invariance, PTL

----------------------------------------------------------------------------
\* A delivered report is not sent again, and an uncertain one only by a
\* manual retry that carries its confirmation.
LEMMA StepKeepsOutcome ==
    ASSUME IInv, Next
    PROVE  /\ row.status = "succeeded" => row' = row
           /\ row.status = "uncertain" /\ row' # row =>
                /\ row' = NextPending(row)
                /\ \E o \in Operators : pc[o] = "authorize" /\ confirmed[o] /\ pc'[o] = "send"
  <1> USE DEF IInv
  <1> DEFINE P == /\ row.status = "succeeded" => row' = row
                  /\ row.status = "uncertain" /\ row' # row =>
                       /\ row' = NextPending(row)
                       /\ \E o \in Operators :
                            pc[o] = "authorize" /\ confirmed[o] /\ pc'[o] = "send"
  <1>1. CASE row' = row
    BY <1>1
  <1>2. ASSUME NEW s \in Senders, Deliver(s), row' # row PROVE P
    BY <1>2 DEF Deliver, ReserveMatches
  <1>3. ASSUME NEW s \in Senders, ResumeRetry(s), row' # row PROVE P
    BY <1>3 DEF ResumeRetry, ResumeMatches
  <1>4. ASSUME NEW o \in Operators, AuthorizeManualRetry(o), row' # row PROVE P
    <2>1. AuthorizeMatches(o) /\ row' = NextPending(row)
      BY <1>4 DEF AuthorizeManualRetry
    <2>2. pc[o] = "authorize" /\ pc'[o] = "send"
      BY <1>4, <2>1 DEF AuthorizeManualRetry, Goto, TypeOK, Callers
    <2>3. row.status # "succeeded" /\ (row.status = "uncertain" => confirmed[o])
      BY <2>1 DEF AuthorizeMatches
    <2>4. QED
      BY <1>4, <2>1, <2>2, <2>3
  <1>5. ASSUME NEW c \in Callers, RecordOutcome(c), row' # row PROVE P
    BY <1>5 DEF RecordOutcome, UpdateMatches
  <1>6. QED
    <2>1. P
      BY <1>1, <1>2, <1>3, <1>4, <1>5
         DEF Next, Work, Continue, Proceed, LoadExisting, LoadForRetry, Send, Reread,
             TakeResult, Crash, Forget
    <2>2. QED
      BY <2>1

\* For any number of callers and any budget: a delivered report is not sent
\* again, an uncertain one only by a call that carries the confirmation
\* (_resume_retry and authorize_manual_retry are the only ways out).
THEOREM FinalOutcome == Spec => OutcomeIsFinal
  <1>1. IInv /\ [Next]_vars =>
          [ /\ row.status = "succeeded" => row' = row
            /\ row.status = "uncertain" /\ row' # row =>
                 /\ row' = NextPending(row)
                 /\ \E o \in Operators : pc[o] = "authorize" /\ confirmed[o] /\ pc'[o] = "send"
          ]_row
    BY StepKeepsOutcome DEF vars
  <1>2. QED
    BY <1>1, Invariance, PTL DEF Spec, OutcomeIsFinal

----------------------------------------------------------------------------
\* Every step of the delivery code is a step of the promise or none.
LEMMA InitPromise == Init => Promise!DInit
  BY DEF Init, NoRow, KnownOfChat, Promise!DInit

LEMMA ClaimIsBegin ==
    ASSUME IInv, row.status \in {"absent", "failed", "retry_wait"},
           row'.status = "pending", UNCHANGED <<chat, waived>>
    PROVE  Promise!DNext
  BY DEF KnownOfChat, Promise!DNext, Promise!Begin

LEMMA StepPromise == IInv /\ IInv' /\ [Next]_vars => [Promise!DNext]_(Promise!dvars)
  <1> SUFFICES ASSUME IInv, IInv', [Next]_vars PROVE [Promise!DNext]_(Promise!dvars)
    OBVIOUS
  <1> USE DEF IInv
  <1>0. row \in Rows /\ row' \in Rows
    BY DEF TypeOK
  <1>1. CASE UNCHANGED <<row, chat, waived>>
    BY <1>1 DEF Promise!dvars, KnownOfChat
  <1>2. ASSUME NEW s \in Senders, Deliver(s), row.status = "absent" PROVE Promise!DNext
    <2>1. row'.status = "pending" /\ UNCHANGED <<chat, waived>>
      BY <1>2, NextPendingType, NoRowType DEF Deliver, ReserveMatches
    <2>2. QED
      BY <1>2, <2>1, ClaimIsBegin
  <1>3. ASSUME NEW s \in Senders, ResumeRetry(s), ResumeMatches PROVE Promise!DNext
    <2>1. row'.status = "pending" /\ UNCHANGED <<chat, waived>>
      BY <1>0, <1>3, NextPendingType DEF ResumeRetry
    <2>2. QED
      BY <1>3, <2>1, ClaimIsBegin DEF ResumeMatches
  <1>4. ASSUME NEW o \in Operators, AuthorizeManualRetry(o), AuthorizeMatches(o)
        PROVE  Promise!DNext
    <2>1. /\ row'.status = "pending" /\ chat' = chat
          /\ waived' = (waived \/ (row.status = "uncertain" /\ chat > 0))
      BY <1>0, <1>4, NextPendingType DEF AuthorizeManualRetry
    <2>2. CASE row.status = "uncertain"
      <3>1. KnownOfChat = "unknown" /\ KnownOfChat' = "sending"
        BY <2>1, <2>2 DEF KnownOfChat
      <3>2. waived' = (waived \/ chat > 0)
        BY <2>1, <2>2, Zenon
      <3>3. QED
        BY <2>1, <3>1, <3>2, Zenon DEF Promise!DNext, Promise!BeginVouched
    <2>3. CASE row.status # "uncertain"
      <3>1. waived' = waived
        BY <2>1, <2>3, Zenon DEF TypeOK
      <3>2. row.status \in {"failed", "retry_wait"}
        BY <1>4, <2>3 DEF AuthorizeMatches
      <3>3. QED
        BY <2>1, <3>1, <3>2, ClaimIsBegin
    <2>4. QED
      BY <2>2, <2>3
  <1>5. ASSUME NEW c \in Callers, Send(c) PROVE [Promise!DNext]_(Promise!dvars)
    <2>1. PICK answer \in Replies : chat' \in ChatAfter(answer)
      BY <1>5 DEF Send
    <2>2. chat' \in {chat, chat + 1}
      BY <2>1 DEF ChatAfter
    <2>3. KnownOfChat = "sending" /\ UNCHANGED <<KnownOfChat, waived>>
      BY <1>5 DEF Send, ClaimIsPending, InFlight, KnownOfChat
    <2>4. QED
      BY <2>2, <2>3 DEF Promise!dvars, Promise!DNext, Promise!Post
  <1>6. ASSUME NEW c \in Callers, RecordOutcome(c), UpdateMatches(c) PROVE Promise!DNext
    <2>1. row.status = "pending" /\ row'.status = NextStatus(c) /\ UNCHANGED <<chat, waived>>
      BY <1>0, <1>6 DEF RecordOutcome, UpdateMatches, Rows
    <2>2. KnownOfChat = "sending"
      BY <2>1 DEF KnownOfChat
    <2>3. CASE NextStatus(c) = "succeeded"
      <3>1. KnownOfChat' = "delivered" /\ chat > 0
        BY <2>1, <2>3 DEF KnownOfChat, AuditTellsTheTruth
      <3>2. QED
        BY <2>1, <2>2, <3>1 DEF Promise!DNext, Promise!Settle
    <2>4. CASE NextStatus(c) = "uncertain"
      <3>1. KnownOfChat' = "unknown"
        BY <2>1, <2>4 DEF KnownOfChat
      <3>2. QED
        BY <2>1, <2>2, <3>1 DEF Promise!DNext, Promise!Settle
    <2>5. CASE NextStatus(c) \in {"retry_wait", "failed"}
      <3>1. KnownOfChat' = "absent" /\ (chat = 0 \/ waived)
        BY <2>1, <2>5 DEF KnownOfChat, AuditTellsTheTruth
      <3>2. QED
        BY <2>1, <2>2, <3>1 DEF Promise!DNext, Promise!Settle
    <2>6. QED
      BY <2>3, <2>4, <2>5, NextStatusType
  <1>7. QED
    BY <1>1, <1>2, <1>3, <1>4, <1>5, <1>6
       DEF vars, Next, Work, Continue, Proceed, Deliver, ReserveMatches, LoadExisting,
           ResumeRetry, LoadForRetry, AuthorizeManualRetry, RecordOutcome, Reread, TakeResult, Crash, Forget

\* ReportDelivery implements AtMostOnceDelivery: deliver, retry and crashes
\* refine the promise of at most one send at a time, none after success.
THEOREM PromiseKept == Spec => KeepsPromise
  BY InitPromise, Invariance, StepPromise, PTL DEF Spec, KeepsPromise, Promise!DSpec

----------------------------------------------------------------------------
(* DeliveryRecovery: the delivery under it keeps the invariant IInv. *)

\* The call of o has reserved its action and not yet completed it ...
Reserved(o) == opc[o] \in {"missing", "retry", "retrying", "raised"}

\* ... and has authorised no send so far.
Unsent(o) ==
    \/ opc[o] \in {"missing", "retry"}
    \/ opc[o] = "retrying" /\ pc[o] \in {"authorize", "refused"}

\* delivery.retry runs inside the call of the operator that started it.
CallsNest ==
    \A o \in Operators :
        /\ opc[o] # "idle" => req[o].id \in Requests
        /\ opc[o] = "retrying" <=> pc[o] # "idle"

\* An action is reserved by one call, and stays reserved.
OneReserved ==
    \A o, p \in Operators : Reserved(o) /\ Reserved(p) /\ req[o].id = req[p].id => o = p

ReservationStands ==
    \A o \in Operators : Reserved(o) => action[req[o].id].status \notin {"none", "rejected"}

\* Nothing is authorised before the reservation, and a call that may still
\* authorise has not done so.
AuthorisedLate ==
    /\ \A r \in Requests : action[r].status \in {"none", "rejected"} => authorised[r] = 0
    /\ \A o \in Operators : Unsent(o) => authorised[req[o].id] = 0

\* Who holds or records a success has it from a row that is still succeeded.
CopiesSeen == \A c \in Callers : attempt[c].status = "succeeded" => row.status = "succeeded"
AuditSeen ==
    /\ \A o \in Operators : inspected[o].status = "succeeded" => row.status = "succeeded"
    /\ \A r \in Requests : action[r].status = "succeeded" => row.status = "succeeded"

\* The part of the invariant that is about the actions and their calls.
Audit ==
    /\ RTypeOK
    /\ CallsNest
    /\ OneReserved
    /\ ReservationStands
    /\ AuthorisedLate
    /\ OneSendPerRequest
    /\ AuditSeen

RIInv == IInv /\ CopiesSeen /\ Audit

----------------------------------------------------------------------------
\* Every step of the composition is a step of the delivery, or none.
LEMMA RecoveryIsDelivery ==
    ASSUME RTypeOK, RNext
    PROVE  [Next]_vars
  <1>1. ASSUME NEW o \in Operators, NEW q, LookUp(o, q) PROVE UNCHANGED vars
    BY <1>1 DEF LookUp
  <1>2. ASSUME NEW o \in Operators, Retrying(o) PROVE Next
    BY <1>2 DEF Retrying, Next, Work, Continue, Callers
  <1>3. ASSUME NEW o \in Operators, StartRetry(o) PROVE Next
    <2>1. req[o].confirmed \in BOOLEAN /\ LoadForRetry(o, req[o].confirmed)
      BY <1>3 DEF StartRetry, RTypeOK
    <2>2. QED
      BY <2>1 DEF Next, Work
  <1>4. ASSUME NEW o \in Operators, Handle(o) PROVE [Next]_vars
    <2>1. ASSUME Complete(o) PROVE [Next]_vars
      BY <2>1 DEF Complete, Next, Work, Continue, Callers
    <2>2. QED
      BY <1>1, <1>2, <1>3, <1>4, <2>1
         DEF Handle, LookUpWinner, Inspect, Reserve, Reconcile, SettleReconciled
  <1>5. ASSUME NEW o \in Operators, RetryRaises(o) \/ OperatorCrash(o) PROVE [Next]_vars
    BY <1>5 DEF RetryRaises, OperatorCrash, Next, Callers
  <1>6. ASSUME NEW s \in Senders, Automatic(s) PROVE Next
    BY <1>6 DEF Automatic, Next, Work, Callers
  <1>7. QED
    BY <1>1, <1>4, <1>5, <1>6 DEF RNext, Request

LEMMA InitRIInv == RInit => RIInv
  <1> SUFFICES ASSUME RInit PROVE RIInv
    OBVIOUS
  <1>1. IInv
    BY InitIInv DEF RInit
  <1>2. RTypeOK
    BY <1>1, NoRowType
       DEF RInit, RTypeOK, IInv, Actions, ActionStatuses, NoAction, NoRequest
  <1>3. CallsNest /\ OneReserved /\ ReservationStands
    BY DEF RInit, Init, CallsNest, OneReserved, ReservationStands, Reserved, Callers
  <1>4. AuthorisedLate /\ OneSendPerRequest
    BY DEF RInit, AuthorisedLate, OneSendPerRequest, Unsent
  <1>5. CopiesSeen /\ AuditSeen
    BY DEF RInit, Init, CopiesSeen, AuditSeen, NoRow, NoAction
  <1>6. QED
    BY <1>1, <1>2, <1>3, <1>4, <1>5 DEF RIInv, Audit

----------------------------------------------------------------------------
\* A copy in memory that says succeeded was made of a succeeded row, and that
\* row is final.
LEMMA StepKeepsCopies ==
    ASSUME IInv, CopiesSeen, [Next]_vars
    PROVE  CopiesSeen' /\ (row.status = "succeeded" => row' = row)
  <1> USE DEF IInv
  <1>0. row \in Rows /\ attempt \in [Callers -> Rows] /\ Senders \subseteq Callers /\ Operators \subseteq Callers
    BY DEF TypeOK, Callers
  <1>1. row.status = "succeeded" => row' = row
    BY StepKeepsOutcome DEF vars
  <1>2. ASSUME NEW c \in Callers, NEW r, Hold(c, r), r.status = "succeeded" => row'.status = "succeeded",
               row.status = "succeeded" => row' = row
        PROVE  CopiesSeen'
    BY <1>0, <1>2 DEF Hold, CopiesSeen
  <1>3. CASE UNCHANGED attempt
    BY <1>1, <1>3 DEF CopiesSeen
  <1>4. ASSUME NEW c \in Callers, UNCHANGED row, Hold(c, row) \/ Hold(c, NoRow) PROVE CopiesSeen'
    BY <1>1, <1>2, <1>4 DEF NoRow
  <1>5. ASSUME NEW c \in Callers, NEW r \in Rows, Hold(c, NextPending(r)) PROVE CopiesSeen'
    BY <1>1, <1>2, <1>5, NextPendingType
  <1>6. ASSUME NEW s \in Senders, Deliver(s) PROVE CopiesSeen'
    BY <1>0, <1>3, <1>5, <1>6, NoRowType DEF Deliver
  <1>7. ASSUME NEW s \in Senders, ResumeRetry(s) PROVE CopiesSeen'
    BY <1>0, <1>3, <1>5, <1>7 DEF ResumeRetry
  <1>8. ASSUME NEW o \in Operators, AuthorizeManualRetry(o) PROVE CopiesSeen'
    BY <1>0, <1>3, <1>5, <1>8 DEF AuthorizeManualRetry
  <1>9. ASSUME NEW c \in Callers, RecordOutcome(c) PROVE CopiesSeen'
    <2>1. CASE UpdateMatches(c)
      <3>1. row'.status = NextStatus(c) /\ Hold(c, [attempt[c] EXCEPT !.status = NextStatus(c)])
        BY <1>0, <1>9, <2>1 DEF RecordOutcome, Rows
      <3>2. QED
        BY <1>0, <1>1, <1>2, <3>1 DEF Rows
    <2>2. QED
      BY <1>3, <1>9, <2>1 DEF RecordOutcome
  <1>10. QED
    BY <1>0, <1>1, <1>3, <1>4, <1>6, <1>7, <1>8, <1>9
       DEF Next, Work, Continue, Proceed, LoadExisting, LoadForRetry, Send, Reread,
           TakeResult, Crash, Forget, vars

----------------------------------------------------------------------------
\* The call of o has no reservation after a step that authorises nothing; on
\* the way it may have settled a pending action, as rejected only its own.
Settled(r, o) ==
    \E status \in {"succeeded", "rejected", "failed"} :
        /\ action[r].status = "pending"
        /\ action' = [action EXCEPT ![r].status = status]
        /\ status = "succeeded" => row.status = "succeeded"
        /\ status = "rejected" => Unsent(o) /\ r = req[o].id

Leaves(o) ==
    /\ opc' = [opc EXCEPT ![o] = opc'[o]]
    /\ opc'[o] \in {"idle", "inspect", "reserve", "lookup", "reconcile", "settle"}
    /\ req' = [req EXCEPT ![o] = req'[o]]
    /\ req'[o] \in [id : Requests \cup {Nobody}, confirmed : BOOLEAN]
    /\ opc'[o] # "idle" => req'[o].id \in Requests
    /\ inspected' = [inspected EXCEPT ![o] = inspected'[o]]
    /\ inspected'[o] \in Rows
    /\ inspected'[o].status = "succeeded" => row.status = "succeeded"
    /\ pc' = [pc EXCEPT ![o] = "idle"]
    /\ action' = action \/ \E r \in Requests : Settled(r, o)
    /\ UNCHANGED <<row, authorised>>

LEMMA LeavingKeepsAudit ==
    ASSUME IInv, IInv', Audit, NEW o \in Operators, Leaves(o)
    PROVE  Audit'
  <1> USE DEF Audit
  <1>0. /\ o \in Callers /\ Operators \subseteq Callers /\ ~Reserved(o)'
        /\ pc \in [Callers -> {"idle", "load", "resume", "authorize", "send", "record",
                           "reread", "returned", "refused"}]
    BY DEF Callers, Leaves, Reserved, RTypeOK, TypeOK
  <1>1. \A p \in Operators : p # o =>
            opc'[p] = opc[p] /\ req'[p] = req[p] /\ inspected'[p] = inspected[p] /\ pc'[p] = pc[p]
    BY <1>0 DEF Leaves, RTypeOK
  <1>2. \A r \in Requests :
            \/ action'[r] = action[r]
            \/ /\ action[r].status = "pending"
               /\ action'[r] \in Actions
               /\ action'[r].status \in {"succeeded", "rejected", "failed"}
               /\ action'[r].status = "succeeded" => row.status = "succeeded"
               /\ action'[r].status = "rejected" => Unsent(o) /\ r = req[o].id
    BY DEF Leaves, Settled, RTypeOK, Actions, ActionStatuses
  <1>3. RTypeOK'
    <2>1. action' \in [Requests -> Actions]
      <3>1. ASSUME NEW r \in Requests, NEW status \in ActionStatuses,
                   action' = [action EXCEPT ![r].status = status]
            PROVE  action' \in [Requests -> Actions]
        BY <3>1 DEF RTypeOK, Actions
      <3>2. QED
        BY <3>1 DEF Leaves, Settled, RTypeOK, ActionStatuses
    <2>2. QED
      BY <2>1 DEF IInv, Leaves, RTypeOK
  <1>4. CallsNest'
    BY <1>0, <1>1 DEF CallsNest, Leaves, RTypeOK
  <1>5. OneReserved'
    BY <1>0, <1>1 DEF OneReserved, Reserved
  <1>6. ReservationStands'
    BY <1>0, <1>1, <1>2 DEF ReservationStands, OneReserved, Reserved, CallsNest, Unsent
  <1>7. AuthorisedLate' /\ OneSendPerRequest'
    BY <1>0, <1>1, <1>2 DEF AuthorisedLate, OneSendPerRequest, Reserved, Unsent, CallsNest, Leaves
  <1>8. AuditSeen'
    BY <1>1, <1>2 DEF AuditSeen, Leaves
  <1>9. QED
    BY <1>3, <1>4, <1>5, <1>6, <1>7, <1>8

\* Looking up, inspecting, losing the reservation, reconciling, completing and
\* dying all leave without a reservation.
LEMMA AnswerLeaves ==
    ASSUME Audit, NEW o \in Operators, Answer(o),
           pc' = [pc EXCEPT ![o] = "idle"], UNCHANGED <<row, authorised>>,
           action' = action \/ \E r \in Requests : Settled(r, o)
    PROVE  Leaves(o)
  BY NoRowType DEF Answer, RGoto, Leaves, Audit, RTypeOK, NoRequest, NoRow

LEMMA LookUpLeaves ==
    ASSUME RIInv, NEW o \in Operators, NEW q \in [id : Requests, confirmed : BOOLEAN],
           opc[o] \in {"idle", "lookup"}, LookUp(o, q)
    PROVE  Leaves(o)
  <1>1. pc[o] = "idle" /\ o \in Callers
    BY DEF RIInv, Audit, CallsNest, Callers
  <1>2. UNCHANGED <<row, pc, action, authorised>>
    BY DEF LookUp, vars
  <1>3. pc' = [pc EXCEPT ![o] = "idle"]
    BY <1>1, <1>2 DEF RIInv, IInv, TypeOK
  <1>4. \/ Answer(o)
        \/ \E label \in {"inspect", "reconcile"} :
              opc' = [opc EXCEPT ![o] = label] /\ req' = [req EXCEPT ![o] = q]
              /\ UNCHANGED inspected
    BY DEF LookUp, RGoto
  <1>5. CASE Answer(o)
    BY <1>2, <1>3, <1>5, AnswerLeaves DEF RIInv
  <1>6. ASSUME NEW label \in {"inspect", "reconcile"}, opc' = [opc EXCEPT ![o] = label],
               req' = [req EXCEPT ![o] = q], UNCHANGED inspected
        PROVE  Leaves(o)
    <2>1. inspected' = [inspected EXCEPT ![o] = inspected'[o]]
      BY <1>6 DEF RIInv, Audit, RTypeOK
    <2>2. QED
      BY <1>2, <1>3, <1>6, <2>1
         DEF Leaves, RIInv, Audit, RTypeOK, AuditSeen
  <1>7. QED
    BY <1>4, <1>5, <1>6

LEMMA SettlingSettles ==
    ASSUME NEW o \in Operators, NEW r \in Requests, NEW status \in {"succeeded", "rejected", "failed"},
           SettleAction(r, status),
           status = "succeeded" => row.status = "succeeded",
           status = "rejected" => Unsent(o) /\ r = req[o].id
    PROVE  action' = action \/ \E q \in Requests : Settled(q, o)
  BY DEF SettleAction, Settled

\* The verdict of a call on itself is right.
LEMMA VerdictIsSeen ==
    ASSUME RIInv, NEW o \in Operators
    PROVE  /\ Verdict(o) \in {"succeeded", "rejected", "failed"}
           /\ Verdict(o) = "succeeded" => row.status = "succeeded"
           /\ Verdict(o) = "rejected" => Unsent(o)
  BY DEF Verdict, RIInv, CopiesSeen, Unsent, Callers

LEMMA CompleteLeaves ==
    ASSUME RIInv, NEW o \in Operators, Complete(o)
    PROVE  Leaves(o)
  <1> USE DEF RIInv, Audit
  <1>1. /\ opc[o] # "idle" /\ req[o].id \in Requests /\ o \in Callers
        /\ opc[o] # "retrying" => pc[o] = "idle"
    BY DEF Complete, CallsNest, Callers
  <1>2. pc' = [pc EXCEPT ![o] = "idle"] /\ UNCHANGED <<row, authorised>>
    BY <1>1 DEF Complete, TakeResult, Forget, Goto, vars, IInv, TypeOK
  <1>3. action' = action \/ \E q \in Requests : Settled(q, o)
    BY <1>1, VerdictIsSeen, SettlingSettles DEF Complete
  <1>4. QED
    BY <1>2, <1>3, AnswerLeaves DEF Complete

LEMMA ReconcileLeaves ==
    ASSUME RIInv, NEW o \in Operators, Reconcile(o) \/ SettleReconciled(o)
    PROVE  Leaves(o)
  <1> USE DEF RIInv, Audit
  <1>1. /\ req[o].id \in Requests /\ o \in Callers /\ pc[o] = "idle" /\ row \in Rows
        /\ UNCHANGED <<row, authorised>> /\ pc' = [pc EXCEPT ![o] = "idle"]
    BY DEF Reconcile, SettleReconciled, CallsNest, Callers, vars, IInv, TypeOK
  <1>2. CASE Reconcile(o) /\ ~Answer(o)
    <2>1. /\ inspected' = [inspected EXCEPT ![o] = row]
          /\ opc' = [opc EXCEPT ![o] = "settle"] /\ UNCHANGED <<action, req>>
      BY <1>2 DEF Reconcile, Inspection, RGoto
    <2>2. QED
      BY <1>1, <2>1 DEF Leaves, RTypeOK
  <1>3. CASE Reconcile(o) /\ Answer(o)
    BY <1>1, <1>3, AnswerLeaves DEF Reconcile
  <1>4. CASE SettleReconciled(o)
    <2>1. action' = action \/ \E q \in Requests : Settled(q, o)
      BY <1>1, <1>4, SettlingSettles DEF SettleReconciled, AuditSeen
    <2>2. QED
      BY <1>1, <1>4, <2>1, AnswerLeaves DEF SettleReconciled
  <1>5. QED
    BY <1>2, <1>3, <1>4

LEMMA InspectLeaves ==
    ASSUME RIInv, NEW o \in Operators, Inspect(o)
    PROVE  Leaves(o)
  <1> USE DEF RIInv, Audit
  <1>1. /\ req[o].id \in Requests /\ o \in Callers /\ pc[o] = "idle" /\ row \in Rows
        /\ UNCHANGED <<row, authorised>> /\ pc' = [pc EXCEPT ![o] = "idle"]
    BY DEF Inspect, CallsNest, Callers, vars, IInv, TypeOK
  <1>2. QED
    BY <1>1 DEF Inspect, Inspection, RGoto, Leaves, RTypeOK

LEMMA CrashLeaves ==
    ASSUME RIInv, NEW o \in Operators, OperatorCrash(o)
    PROVE  Leaves(o)
  <1> USE DEF RIInv, Audit
  <1>1. o \in Callers /\ UNCHANGED <<row, action, authorised>> /\ pc' = [pc EXCEPT ![o] = "idle"]
    BY DEF OperatorCrash, Crash, Forget, Goto, Callers, vars, IInv, TypeOK
  <1>2. QED
    BY <1>1, AnswerLeaves DEF OperatorCrash

----------------------------------------------------------------------------
\* The other steps of an operator's call.
LEMMA ReserveKeepsAudit ==
    ASSUME RIInv, IInv', NEW o \in Operators, Reserve(o)
    PROVE  Audit'
  <1> USE DEF RIInv, Audit
  <1>1. /\ req[o].id \in Requests /\ o \in Callers /\ pc[o] = "idle"
        /\ UNCHANGED <<row, pc, req, inspected, authorised>>
    BY DEF Reserve, CallsNest, Callers, vars
  <1>2. CASE action[req[o].id].status # "none"
    <2>1. opc' = [opc EXCEPT ![o] = "lookup"] /\ UNCHANGED action
      BY <1>2 DEF Reserve, RGoto
    <2>2. /\ req' = [req EXCEPT ![o] = req'[o]] /\ inspected' = [inspected EXCEPT ![o] = inspected'[o]]
          /\ pc' = [pc EXCEPT ![o] = "idle"]
      BY <1>1 DEF RTypeOK, TypeOK
    <2>3. Leaves(o)
      BY <1>1, <2>1, <2>2 DEF Leaves, RTypeOK, AuditSeen
    <2>4. QED
      BY <2>3, LeavingKeepsAudit
  <1>3. CASE action[req[o].id].status = "none"
    <2> DEFINE new == [status |-> "pending", prior_attempt_no |-> inspected[o].attempt_no,
                       confirmed |-> req[o].confirmed]
    <2>1. /\ action' = [action EXCEPT ![req[o].id] = new]
          /\ opc' = [opc EXCEPT ![o] = opc'[o]] /\ opc'[o] \in {"missing", "retry"}
      BY <1>3 DEF Reserve, RGoto, RTypeOK
    <2>2. new \in Actions /\ new.status = "pending"
      BY DEF RTypeOK, Rows, Actions, ActionStatuses
    <2> HIDE DEF new
    <2>3. \A p \in Operators : Reserved(p) => req[p].id # req[o].id
      BY <1>3 DEF ReservationStands
    <2>4. \A p \in Operators : p # o => opc'[p] = opc[p]
      BY <2>1 DEF RTypeOK
    <2>5. \A r \in Requests :
              IF r = req[o].id THEN action'[r].status = "pending" ELSE action'[r] = action[r]
      BY <2>1, <2>2 DEF RTypeOK
    <2>6. RTypeOK'
      BY <1>1, <2>1, <2>2 DEF IInv, RTypeOK
    <2>7. CallsNest' /\ OneReserved'
      BY <1>1, <2>1, <2>3, <2>4 DEF CallsNest, OneReserved, Reserved
    <2>8. ReservationStands'
      BY <1>1, <2>1, <2>4, <2>5 DEF ReservationStands, Reserved, CallsNest
    <2>9. AuthorisedLate' /\ OneSendPerRequest'
      BY <1>1, <1>3, <2>1, <2>4, <2>5 DEF AuthorisedLate, OneSendPerRequest, Unsent
    <2>10. AuditSeen'
      BY <1>1, <2>5 DEF AuditSeen
    <2>11. QED
      BY <2>6, <2>7, <2>8, <2>9, <2>10
  <1>4. QED
    BY <1>2, <1>3

\* A step of o between its reservation and its completion, which authorises a
\* send at most while nothing is authorised.
GoesOn(o) ==
    /\ Reserved(o)
    /\ opc' = [opc EXCEPT ![o] = opc'[o]]
    /\ opc'[o] \in {"retrying", "raised"}
    /\ pc' = [pc EXCEPT ![o] = pc'[o]]
    /\ opc'[o] = "retrying" <=> pc'[o] # "idle"
    /\ \/ authorised' = authorised /\ (Unsent(o)' => Unsent(o))
       \/ /\ Unsent(o) /\ ~Unsent(o)'
          /\ authorised' = [authorised EXCEPT ![req[o].id] = @ + 1]
    /\ row.status = "succeeded" => row' = row
    /\ UNCHANGED <<action, req, inspected>>

LEMMA GoingOnKeepsAudit ==
    ASSUME IInv, IInv', Audit, NEW o \in Operators, GoesOn(o)
    PROVE  Audit'
  <1> USE DEF Audit
  <1>1. o \in Callers /\ req[o].id \in Requests /\ Reserved(o)'
    BY DEF Callers, GoesOn, Reserved, CallsNest
  <1>2. \A p \in Operators : p # o => opc'[p] = opc[p] /\ pc'[p] = pc[p]
    BY DEF GoesOn, RTypeOK, TypeOK, Callers
  <1>3. RTypeOK'
    <2>1. authorised' \in [Requests -> Nat]
      BY <1>1 DEF GoesOn, RTypeOK
    <2>2. QED
      BY <2>1 DEF IInv, GoesOn, RTypeOK
  <1>4. CallsNest' /\ OneReserved' /\ ReservationStands'
    BY <1>1, <1>2 DEF GoesOn, CallsNest, OneReserved, ReservationStands, Reserved
  <1>5. AuthorisedLate' /\ OneSendPerRequest'
    <2>1. CASE authorised' = authorised /\ (Unsent(o)' => Unsent(o))
      BY <1>2, <2>1 DEF GoesOn, AuthorisedLate, OneSendPerRequest, Unsent
    <2>2. CASE /\ Unsent(o) /\ ~Unsent(o)'
               /\ authorised' = [authorised EXCEPT ![req[o].id] = @ + 1]
      <3>1. \A r \in Requests : IF r = req[o].id THEN authorised[r] = 0 /\ authorised'[r] = 1
                                ELSE authorised'[r] = authorised[r]
        BY <1>1, <2>2 DEF AuthorisedLate, RTypeOK
      <3>2. \A p \in Operators : p # o /\ Unsent(p)' => Unsent(p) /\ req[p].id # req[o].id
        BY <1>2 DEF OneReserved, Reserved, Unsent, GoesOn
      <3>3. action[req[o].id].status \notin {"none", "rejected"}
        BY DEF GoesOn, ReservationStands
      <3>4. \A p \in Operators : Unsent(p) => req[p].id \in Requests
        BY DEF Unsent, CallsNest
      <3>5. AuthorisedLate'
        BY <2>2, <3>1, <3>2, <3>3, <3>4 DEF GoesOn, AuthorisedLate
      <3>6. QED
        BY <3>1, <3>5 DEF OneSendPerRequest
    <2>3. QED
      BY <2>1, <2>2 DEF GoesOn
  <1>6. AuditSeen'
    BY DEF GoesOn, AuditSeen
  <1>7. QED
    BY <1>3, <1>4, <1>5, <1>6

LEMMA RetryKeepsAudit ==
    ASSUME RIInv, IInv', [Next]_vars, NEW o \in Operators,
           StartRetry(o) \/ Retrying(o) \/ RetryRaises(o)
    PROVE  Audit'
  <1> USE DEF RIInv, Audit
  <1>1. /\ o \in Callers /\ o \notin Senders /\ req[o].id \in Requests /\ Reserved(o)
        /\ row.status = "succeeded" => row' = row
    BY StepKeepsCopies, CallerAssumption
       DEF Callers, StartRetry, Retrying, RetryRaises, Reserved, CallsNest
  <1>2. CASE StartRetry(o)
    <2>1. /\ pc' = [pc EXCEPT ![o] = RetryVerdict(row, req[o].confirmed)]
          /\ opc' = [opc EXCEPT ![o] = "retrying"]
          /\ UNCHANGED <<row, action, req, inspected, authorised>>
      BY <1>2 DEF StartRetry, LoadForRetry, Goto, RGoto
    <2>2. RetryVerdict(row, req[o].confirmed) \in {"refused", "returned", "authorize"}
      BY DEF RetryVerdict
    <2>3. Unsent(o) /\ pc'[o] # "idle"
      BY <1>1, <1>2, <2>1, <2>2 DEF StartRetry, Unsent, IInv, TypeOK
    <2>4. GoesOn(o)
      BY <1>1, <2>1, <2>2, <2>3 DEF GoesOn, RTypeOK, IInv, TypeOK
    <2>5. QED
      BY <2>4, GoingOnKeepsAudit
  <1>3. CASE Retrying(o)
    <2>1. opc[o] = "retrying" /\ UNCHANGED <<action, opc, req, inspected>>
      BY <1>3 DEF Retrying
    <2>2. opc' = [opc EXCEPT ![o] = opc'[o]]
      BY <2>1 DEF RTypeOK
    <2>3. /\ pc' = [pc EXCEPT ![o] = pc'[o]] /\ pc'[o] # "idle"
          /\ \/ pc[o] = "authorize" /\ pc'[o] \in {"send", "refused"}
             \/ pc[o] # "authorize" /\ pc'[o] \in {"record", "resume", "returned", "reread"}
      BY <1>1, <1>3 DEF Retrying, Proceed, AuthorizeManualRetry, Send, RecordOutcome, Reread,
                        Goto, IInv, TypeOK
    <2>4. CASE Authorises(o)
      BY <1>1, <1>3, <2>1, <2>2, <2>3, <2>4, GoingOnKeepsAudit
         DEF GoesOn, Retrying, Authorises, Unsent
    <2>5. CASE ~Authorises(o)
      BY <1>1, <1>3, <2>1, <2>2, <2>3, <2>5, GoingOnKeepsAudit
         DEF GoesOn, Retrying, Authorises, Unsent
    <2>6. QED
      BY <2>4, <2>5
  <1>4. CASE RetryRaises(o)
    <2>1. /\ pc' = [pc EXCEPT ![o] = "idle"] /\ opc' = [opc EXCEPT ![o] = "raised"]
          /\ UNCHANGED <<row, action, req, inspected, authorised>>
      BY <1>4 DEF RetryRaises, Crash, Forget, Goto, RGoto
    <2>2. GoesOn(o)
      BY <1>1, <2>1 DEF GoesOn, Unsent, RTypeOK, IInv, TypeOK
    <2>3. QED
      BY <2>2, GoingOnKeepsAudit
  <1>5. QED
    BY <1>2, <1>3, <1>4

\* A step of a sender leaves the operators where they are.
LEMMA AutomaticKeepsAudit ==
    ASSUME RIInv, IInv', [Next]_vars, NEW s \in Senders, Automatic(s)
    PROVE  Audit'
  <1> USE DEF RIInv, Audit
  <1>1. row.status = "succeeded" => row' = row
    BY StepKeepsCopies
  <1>2. s \in Callers /\ s \notin Operators /\ Operators \subseteq Callers
    BY CallerAssumption DEF Callers
  <1>3. \A o \in Operators : pc'[o] = pc[o]
    BY <1>2 DEF Automatic, Deliver, Continue, Proceed, LoadExisting, ResumeRetry,
                AuthorizeManualRetry, Send, RecordOutcome, Reread, TakeResult, Crash, Forget,
                Goto, IInv, TypeOK
  <1>4. UNCHANGED rvars
    BY DEF Automatic
  <1>5. QED
    BY <1>1, <1>3, <1>4
       DEF rvars, IInv, RTypeOK, CallsNest, OneReserved, ReservationStands, AuthorisedLate,
           OneSendPerRequest, AuditSeen, Reserved, Unsent

----------------------------------------------------------------------------
\* Every step keeps the invariant.
LEMMA NextRIInv == RIInv /\ [RNext]_<<vars, rvars>> => RIInv'
  <1> SUFFICES ASSUME RIInv, [RNext]_<<vars, rvars>> PROVE RIInv'
    OBVIOUS
  <1>1. CASE RNext
    <2>1. [Next]_vars /\ IInv' /\ CopiesSeen'
      BY <1>1, RecoveryIsDelivery, NextIInv, StepKeepsCopies DEF RIInv, Audit
    <2>2. ASSUME NEW o \in Operators, Leaves(o) PROVE Audit'
      BY <2>1, <2>2, LeavingKeepsAudit DEF RIInv
    <2>3. ASSUME NEW o \in Operators, NEW r \in Requests, NEW conf \in BOOLEAN,
                 Request(o, r, conf)
          PROVE  Audit'
      <3>1. [id |-> r, confirmed |-> conf] \in [id : Requests, confirmed : BOOLEAN]
        OBVIOUS
      <3>2. QED
        BY <2>2, <2>3, <3>1, LookUpLeaves DEF Request
    <2>4. ASSUME NEW o \in Operators, LookUpWinner(o) PROVE Audit'
      <3>1. req[o] \in [id : Requests, confirmed : BOOLEAN]
        BY <2>4 DEF LookUpWinner, RIInv, Audit, RTypeOK, CallsNest
      <3>2. QED
        BY <2>2, <2>4, <3>1, LookUpLeaves DEF LookUpWinner
    <2>5. ASSUME NEW o \in Operators, Handle(o) PROVE Audit'
      BY <2>1, <2>2, <2>4, <2>5, InspectLeaves, ReserveKeepsAudit, RetryKeepsAudit,
         CompleteLeaves, ReconcileLeaves DEF Handle
    <2>6. ASSUME NEW o \in Operators, RetryRaises(o) \/ OperatorCrash(o) PROVE Audit'
      BY <2>1, <2>2, <2>6, RetryKeepsAudit, CrashLeaves
    <2>7. ASSUME NEW s \in Senders, Automatic(s) PROVE Audit'
      BY <2>1, <2>7, AutomaticKeepsAudit
    <2>8. Audit'
      BY <1>1, <2>3, <2>5, <2>6, <2>7 DEF RNext
    <2>9. QED
      BY <2>1, <2>8 DEF RIInv
  <1>2. CASE UNCHANGED <<vars, rvars>>
    <2>1. IInv' /\ CopiesSeen'
      BY <1>2, NextIInv, StepKeepsCopies DEF RIInv
    <2>2. Audit'
      BY <1>2, <2>1
         DEF vars, rvars, RIInv, Audit, IInv, RTypeOK, CallsNest, OneReserved,
             ReservationStands, AuthorisedLate, OneSendPerRequest, AuditSeen, Reserved, Unsent
    <2>3. QED
      BY <2>1, <2>2 DEF RIInv
  <1>3. QED
    BY <1>1, <1>2

\* The invariant holds in every reachable state.
THEOREM RecoveryInvariance == RSpec => []RIInv
  BY InitRIInv, NextRIInv, PTL DEF RSpec

\* A request ID buys one send at most, for any number of operators that use
\* it at once, before, during and after a crash (reserve's ON CONFLICT).
THEOREM OneSendEach == RSpec => []OneSendPerRequest
  <1>1. RIInv => OneSendPerRequest
    BY DEF RIInv, Audit
  <1>2. QED
    BY <1>1, RecoveryInvariance, PTL

\* The operator's audit never records a success of an undelivered report, nor
\* a rejection of a request that was sent (complete, _reconcile_pending).
THEOREM TruthfulAction == RSpec => []ActionTellsTheTruth
  <1>1. RIInv => ActionTellsTheTruth
    BY DEF RIInv, IInv, Audit, AuditSeen, AuditTellsTheTruth, AuthorisedLate, ActionTellsTheTruth
  <1>2. QED
    BY <1>1, RecoveryInvariance, PTL

\* The delivery keeps its promises under the operators' hands: whatever the
\* audit does around a retry, no card is sent twice unless one was vouched for.
THEOREM RecoveryKeepsPromise == RSpec => KeepsPromise
  <1>1. RInit => Init
    BY DEF RInit
  <1>2. RIInv => IInv
    BY DEF RIInv
  <1>3. RIInv /\ [RNext]_<<vars, rvars>> => [Next]_vars
    BY RecoveryIsDelivery DEF RIInv, Audit, vars
  <1>4. QED
    BY <1>1, <1>2, <1>3, RecoveryInvariance, InitPromise, StepPromise, PTL
       DEF RSpec, KeepsPromise, Promise!DSpec

----------------------------------------------------------------------------
\* What a request was answered with is never rewritten: reserve writes where
\* there is no action, complete only over a pending one.
LEMMA StepKeepsActions ==
    ASSUME RIInv, [RNext]_<<vars, rvars>>, NEW r \in Requests,
           action[r].status \in {"succeeded", "rejected", "failed"}
    PROVE  action'[r] = action[r]
  <1> USE DEF RIInv, Audit
  <1>1. ASSUME NEW q \in Requests, NEW status, SettleAction(q, status) PROVE action'[r] = action[r]
    BY <1>1 DEF SettleAction, RTypeOK
  <1>2. ASSUME NEW o \in Operators, Reserve(o) PROVE action'[r] = action[r]
    BY <1>2 DEF Reserve, RTypeOK, CallsNest
  <1>3. ASSUME NEW o \in Operators, Complete(o) \/ SettleReconciled(o)
        PROVE  action'[r] = action[r]
    <2>1. req[o].id \in Requests
      BY <1>3 DEF Complete, SettleReconciled, CallsNest
    <2>2. QED
      BY <1>1, <1>3, <2>1 DEF Complete, SettleReconciled
  <1>4. QED
    BY <1>2, <1>3
       DEF RNext, Request, LookUp, Handle, LookUpWinner, Inspect, StartRetry, Retrying,
           RetryRaises, Reconcile, OperatorCrash, Automatic, rvars

\* No replay, reconciliation or slow first call rewrites what a request was
\* answered with.
THEOREM ActionsFinal == RSpec => ActionOutcomeIsFinal
  <1>1. RIInv /\ [RNext]_<<vars, rvars>> =>
          [ \A r \in Requests :
              action[r].status \in {"succeeded", "rejected", "failed"} => action'[r] = action[r]
          ]_action
    BY StepKeepsActions
  <1>2. QED
    BY <1>1, RecoveryInvariance, PTL DEF RSpec, ActionOutcomeIsFinal

=============================================================================
