------------------------ MODULE WorkflowAlertsProofs ------------------------
(* Theorems about WorkflowAlerts, for every set of workers, monitors and     *)
(* readings, every budget of attempts and every number of calls.             *)
EXTENDS WorkflowAlerts, TLAPS

Labels == {"idle", "reserve", "conflict", "load", "resume", "send", "record",
           "reread", "returned", "refused"}
Rows   == [status : RowStatuses, attempt_no : Nat, payload : Payloads]

\* Between its claim of a row and the record of its outcome.
InFlight(c) == pc[c] \in {"send", "record"}

----------------------------------------------------------------------------
(* What makes the chat safe. *)

\* A pending row is what a caller holds while it is sending, and only one
\* caller of a condition holds it.
ClaimIsPending == \A c \in Callers : InFlight(c) => Current(c).status = "pending"
OneInFlight ==
    \A c, d \in Callers : InFlight(c) /\ InFlight(d) /\ KeyOf(c) = KeyOf(d) => c = d

\* What a caller about to send, or about to record, knows of the chat.
SenderKnows ==
    \A c \in Callers :
        /\ pc[c] = "send" => chat[KeyOf(c)] = 0
        /\ pc[c] = "record" =>
             /\ reply[c] \in Replies
             /\ reply[c] \in {"retryable", "rejected"} => chat[KeyOf(c)] = 0
             /\ reply[c] = "sent" => chat[KeyOf(c)] = 1

\* What a row says of the chat.
RowTells ==
    \A k \in Keys :
        /\ row[k].status \in {"absent", "failed", "retry_wait"} => chat[k] = 0
        /\ row[k].status = "succeeded" => chat[k] = 1

\* A copy, or an answer, that says sent repeats the row, which is final then.
CopyTells ==
    \A c \in Callers :
        /\ pc[c] = "idle" => attempt[c].status = "absent"
        /\ attempt[c].status = "succeeded" => Current(c).status = "succeeded"
        /\ answer[c] \in {"succeeded", "green"} => Current(c).status = "succeeded"
        /\ answer[c] = "green" => KeyOf(c) = "warning"

CInv ==
    /\ TypeOK
    /\ ClaimIsPending
    /\ OneInFlight
    /\ SenderKnows
    /\ RowTells
    /\ CopyTells
    /\ OneCardPerCondition

----------------------------------------------------------------------------
(* What makes a blocked date show. *)

\* The view's newest row exists, and a caller past its reservation has one.
RowsExist ==
    /\ \A c \in Callers : pc[c] \notin {"idle", "reserve"} => Current(c).status # "absent"
    /\ newest = "none" => \A k \in Keys : row[k].status = "absent"
    /\ newest \in Keys => row[newest].status # "absent"
    /\ \A c \in Callers : ~mishap /\ answer[c] # "none" => newest # "none"

\* A copy is never ahead of its row, and up to the second attempt the copy of
\* the caller in flight has not fallen behind.
CopiesInStep ==
    /\ \A k \in Keys : row[k].status # "absent" => row[k].attempt_no >= 1
    /\ \A c \in Callers :
        /\ pc[c] = "resume" =>
             attempt[c].attempt_no >= 1 /\ attempt[c].attempt_no <= Current(c).attempt_no
        /\ InFlight(c) /\ Current(c).attempt_no <= 2 =>
             attempt[c].attempt_no = Current(c).attempt_no

\* Where nothing failed, a row that is not settled has a caller that will
\* move it on, unless it was overtaken.
SomeoneOwns ==
    ~mishap => \A k \in Keys :
        /\ row[k].status = "pending" =>
             Overtaken(row[k]) \/ \E c \in Callers : InFlight(c) /\ KeyOf(c) = k
        /\ row[k].status = "retry_wait" =>
             \E c \in Callers : pc[c] = "resume" /\ KeyOf(c) = k

BInv == RowsExist /\ CopiesInStep /\ SomeoneOwns

IInv == CInv /\ BInv

----------------------------------------------------------------------------
LEMMA NoRowType == NoRow \in Rows /\ NoRow.status = "absent" /\ NoPayload \in Payloads
  BY DEF NoRow, Rows, RowStatuses, NoPayload, Payloads

\* The attempt that follows an attempt is one of the table's rows.
LEMMA NextPendingType ==
    ASSUME NEW r \in Rows
    PROVE  /\ NextPending(r) \in Rows
           /\ NextPending(r).status = "pending"
           /\ NextPending(r).attempt_no = r.attempt_no + 1
  BY DEF NextPending, Rows, RowStatuses

LEMMA NextStatusType ==
    ASSUME NEW c
    PROVE  NextStatus(c) \in {"succeeded", "uncertain", "retry_wait", "failed"}
  BY DEF NextStatus

\* The type invariant with the sets above.
LEMMA Typed ==
    TypeOK <=> /\ row \in [Keys -> Rows]
               /\ newest \in Keys \cup {"none", "delivery_attempt"}
               /\ day \in DayStates
               /\ delivery \in {"absent", "pending", "failed", "succeeded"}
               /\ pc \in [Callers -> Labels]
               /\ alert \in [Callers -> [key : Keys, payload : Payloads]]
               /\ attempt \in [Callers -> Rows]
               /\ reply \in [Callers -> Replies \cup {"none"}]
               /\ answer \in [Callers -> RowStatuses \cup {"none", "green", "red"}]
               /\ chat \in [Keys -> Nat]
               /\ mishap \in BOOLEAN
               /\ calls \in 0 .. MaxCalls
  BY DEF TypeOK, Rows, Labels

LEMMA InitIInv == Init => IInv
  <1> SUFFICES ASSUME Init PROVE IInv
    OBVIOUS
  <1>1. NoAlert \in [key : Keys, payload : Payloads]
    BY NoRowType DEF NoAlert, Keys, Levels
  <1>2. TypeOK
    <2>1. /\ row \in [Keys -> Rows] /\ attempt \in [Callers -> Rows]
          /\ pc \in [Callers -> Labels] /\ chat \in [Keys -> Nat]
          /\ alert \in [Callers -> [key : Keys, payload : Payloads]]
      BY <1>1, NoRowType DEF Init, Labels
    <2>2. day \in DayStates /\ calls \in 0 .. MaxCalls
      BY AlertAssumption DEF Init
    <2>3. QED
      BY <2>1, <2>2, Typed DEF Init
  <1>3. CInv
    BY <1>2, NoRowType DEF Init, CInv, ClaimIsPending, OneInFlight, SenderKnows, RowTells,
         CopyTells, OneCardPerCondition, InFlight
  <1>4. BInv
    BY <1>2, NoRowType DEF Init, BInv, RowsExist, CopiesInStep, SomeoneOwns, InFlight, KeyOf, Keys,
         Stages, Levels
  <1>5. QED
    BY <1>3, <1>4 DEF IInv

----------------------------------------------------------------------------
(* A step of one caller touches nobody else's part of the state. *)
Own(c) ==
    /\ pc'      = [pc EXCEPT ![c] = pc'[c]]           /\ pc'[c] \in Labels
    /\ alert'   = [alert EXCEPT ![c] = alert'[c]]     /\ alert'[c] \in [key : Keys, payload : Payloads]
    /\ attempt' = [attempt EXCEPT ![c] = attempt'[c]] /\ attempt'[c] \in Rows
    /\ reply'   = [reply EXCEPT ![c] = reply'[c]]     /\ reply'[c] \in Replies \cup {"none"}
    /\ answer'  = [answer EXCEPT ![c] = answer'[c]]
    /\ answer'[c] \in RowStatuses \cup {"none", "green", "red"}
    /\ mishap' \in BOOLEAN /\ calls' \in 0 .. MaxCalls /\ (mishap => mishap')
    /\ UNCHANGED <<day, delivery>>

\* It stands back when it goes to a label outside the send, with the rows and
\* the chat as they are.
StandsBack(c) ==
    /\ Own(c)
    /\ pc'[c] \notin {"send", "record"}
    /\ pc'[c] = "idle" => attempt'[c].status = "absent"
    /\ attempt'[c].status = "succeeded" => row[KeyOf(c)'].status = "succeeded"
    /\ answer'[c] \in {"succeeded", "green"} => row[KeyOf(c)'].status = "succeeded"
    /\ answer'[c] = "green" => KeyOf(c)' = "warning"
    /\ UNCHANGED <<row, newest, chat>>

LEMMA Others ==
    ASSUME TypeOK, NEW c \in Callers, Own(c), NEW d \in Callers, d # c
    PROVE  /\ pc'[d] = pc[d] /\ alert'[d] = alert[d] /\ attempt'[d] = attempt[d]
           /\ reply'[d] = reply[d] /\ answer'[d] = answer[d]
           /\ KeyOf(d)' = KeyOf(d) /\ (InFlight(d)' <=> InFlight(d))
  BY DEF TypeOK, Own, KeyOf, InFlight

LEMMA OwnType ==
    ASSUME TypeOK, NEW c \in Callers, Own(c),
           row' \in [Keys -> Rows], newest' \in Keys \cup {"none", "delivery_attempt"},
           chat' \in [Keys -> Nat]
    PROVE  TypeOK'
  <1>1. /\ pc' \in [Callers -> Labels]
        /\ alert' \in [Callers -> [key : Keys, payload : Payloads]]
        /\ attempt' \in [Callers -> Rows]
        /\ reply' \in [Callers -> Replies \cup {"none"}]
        /\ answer' \in [Callers -> RowStatuses \cup {"none", "green", "red"}]
    BY Typed DEF Own
  <1>2. QED
    BY <1>1, Typed DEF Own, TypeOK, Rows, Labels

LEMMA StandingBackKeepsCInv ==
    ASSUME CInv, NEW c \in Callers, StandsBack(c)
    PROVE  CInv'
  <1> USE DEF CInv, StandsBack
  <1>1. TypeOK'
    BY OwnType, Typed
  <1>2. \A d \in Callers : d # c =>
            /\ pc'[d] = pc[d] /\ attempt'[d] = attempt[d] /\ reply'[d] = reply[d]
            /\ answer'[d] = answer[d] /\ KeyOf(d)' = KeyOf(d)
    BY Others
  <1>3. \A d \in Callers : InFlight(d)' => d # c /\ InFlight(d) /\ KeyOf(d)' = KeyOf(d)
    BY <1>2 DEF InFlight
  <1>4. ClaimIsPending'
    BY <1>3 DEF ClaimIsPending, Current
  <1>5. OneInFlight'
    BY <1>3 DEF OneInFlight
  <1>6. SenderKnows'
    BY <1>2, <1>3 DEF SenderKnows, InFlight
  <1>7. RowTells' /\ OneCardPerCondition'
    BY DEF RowTells, OneCardPerCondition
  <1>8. CopyTells'
    BY <1>2 DEF CopyTells, Current
  <1>9. QED
    BY <1>1, <1>4, <1>5, <1>6, <1>7, <1>8

\* It claims its condition when it moves the row to pending from a status that
\* says nothing is in the chat.
Claims(c) ==
    /\ Own(c)
    /\ pc'[c] = "send"
    /\ Current(c).status \in {"absent", "retry_wait"}
    /\ row' = [row EXCEPT ![KeyOf(c)] = row'[KeyOf(c)]]
    /\ row'[KeyOf(c)] \in Rows /\ row'[KeyOf(c)].status = "pending"
    /\ attempt'[c].status = "pending"
    /\ newest' = KeyOf(c)
    /\ UNCHANGED <<alert, reply, answer, chat>>

LEMMA KeyType == TypeOK => \A c \in Callers : KeyOf(c) \in Keys /\ Current(c) \in Rows
  BY Typed DEF KeyOf, Current

LEMMA ClaimKeepsCInv ==
    ASSUME CInv, NEW c \in Callers, Claims(c)
    PROVE  CInv'
  <1> USE DEF CInv, Claims
  <1> DEFINE k == KeyOf(c)
  <1>0. k \in Keys /\ k' = k
    BY KeyType DEF KeyOf
  <1>1. TypeOK'
    <2>1. row' \in [Keys -> Rows]
      BY <1>0, Typed
    <2>2. QED
      BY <1>0, <2>1, OwnType, Typed
  <1>2. /\ \A j \in Keys : j # k => row'[j] = row[j]
        /\ chat[k] = 0
    BY <1>0, Typed DEF RowTells, Current
  <1>3. \A d \in Callers : KeyOf(d)' = KeyOf(d) /\ (d # c => pc'[d] = pc[d] /\ attempt'[d] = attempt[d])
    BY Others DEF KeyOf
  <1>4. \A d \in Callers : InFlight(d) => KeyOf(d) # k
    BY DEF ClaimIsPending, Current
  <1>5. \A d \in Callers : InFlight(d)' => d = c \/ (InFlight(d) /\ KeyOf(d) # k)
    BY <1>3, <1>4 DEF InFlight
  <1>6. ClaimIsPending'
    BY <1>0, <1>2, <1>3, <1>5, KeyType DEF ClaimIsPending, Current
  <1>7. OneInFlight'
    BY <1>3, <1>5 DEF OneInFlight
  <1>8. SenderKnows'
    BY <1>2, <1>3 DEF SenderKnows
  <1>9. RowTells'
    BY <1>0, <1>2 DEF RowTells
  <1>10. CopyTells'
    <2>1. \A d \in Callers : Current(d).status = "succeeded" => Current(d)' = Current(d)
      BY <1>0, <1>2, <1>3, KeyType DEF Current
    <2>2. QED
      BY <1>3, <2>1 DEF CopyTells
  <1>11. OneCardPerCondition'
    BY DEF OneCardPerCondition
  <1>12. QED
    BY <1>1, <1>6, <1>7, <1>8, <1>9, <1>10, <1>11

----------------------------------------------------------------------------
(* The actions, by their shapes. *)

LEMMA ReserveShape ==
    ASSUME CInv, NEW c \in Callers, Reserve(c)
    PROVE  IF Current(c).status = "absent" THEN Claims(c) ELSE StandsBack(c)
  <1> USE DEF CInv
  <1>0. KeyOf(c) \in Keys /\ alert[c] \in [key : Keys, payload : Payloads]
    BY KeyType, Typed
  <1>1. CASE Current(c).status = "absent"
    <2> DEFINE r == [status |-> "pending", attempt_no |-> 1, payload |-> alert[c].payload]
    <2>1. r \in Rows /\ r.status = "pending"
      BY <1>0 DEF Rows, RowStatuses
    <2>2. row' = [row EXCEPT ![KeyOf(c)] = r] /\ newest' = KeyOf(c)
      BY <1>1 DEF Reserve, Write
    <2>3. row'[KeyOf(c)] = r
      BY <1>0, <2>2, Typed
    <2>4. attempt' = [attempt EXCEPT ![c] = r] /\ pc' = [pc EXCEPT ![c] = "send"]
      BY <1>1, <2>3 DEF Reserve, Hold, Goto
    <2>5. UNCHANGED <<day, delivery, alert, reply, answer, chat, mishap, calls>>
      BY DEF Reserve
    <2> HIDE DEF r
    <2>6. Claims(c)
      BY <1>1, <2>1, <2>2, <2>3, <2>4, <2>5, Typed DEF Claims, Own, Labels
    <2>7. QED
      BY <1>1, <2>6
  <1>2. CASE Current(c).status # "absent"
    <2>1. /\ pc' = [pc EXCEPT ![c] = "conflict"]
          /\ UNCHANGED <<row, newest, attempt, day, delivery, alert, reply, answer, chat, mishap, calls>>
      BY <1>2 DEF Reserve, Goto
    <2>2. StandsBack(c)
      BY <2>1, Typed DEF StandsBack, Own, Labels, CopyTells, Current, KeyOf
    <2>3. QED
      BY <1>2, <2>2
  <1>3. QED
    BY <1>1, <1>2

LEMMA ResumeShape ==
    ASSUME CInv, NEW c \in Callers, Resume(c)
    PROVE  IF ResumeMatches(c) THEN Claims(c) ELSE StandsBack(c)
  <1> USE DEF CInv
  <1>0. KeyOf(c) \in Keys /\ Current(c) \in Rows /\ attempt[c] \in Rows
    BY KeyType, Typed
  <1>1. CASE ResumeMatches(c)
    <2>1. /\ row' = [row EXCEPT ![KeyOf(c)] = NextPending(Current(c))] /\ newest' = KeyOf(c)
          /\ attempt' = [attempt EXCEPT ![c] = NextPending(attempt[c])]
          /\ pc' = [pc EXCEPT ![c] = "send"]
          /\ UNCHANGED <<day, delivery, alert, reply, answer, chat, mishap, calls>>
      BY <1>1 DEF Resume, Write, Hold, Goto
    <2>2. /\ NextPending(Current(c)) \in Rows /\ NextPending(Current(c)).status = "pending"
          /\ NextPending(attempt[c]) \in Rows /\ NextPending(attempt[c]).status = "pending"
      BY <1>0, NextPendingType
    <2>3. row'[KeyOf(c)] = NextPending(Current(c))
      BY <1>0, <2>1, Typed
    <2>4. Claims(c)
      BY <1>1, <2>1, <2>2, <2>3, Typed DEF Claims, Own, Labels, ResumeMatches
    <2>5. QED
      BY <1>1, <2>4
  <1>2. CASE ~ResumeMatches(c)
    <2>1. /\ pc' = [pc EXCEPT ![c] = "reread"]
          /\ UNCHANGED <<row, newest, attempt, day, delivery, alert, reply, answer, chat, mishap, calls>>
      BY <1>2 DEF Resume, Goto
    <2>2. StandsBack(c)
      BY <2>1, Typed DEF StandsBack, Own, Labels, CopyTells, Current, KeyOf
    <2>3. QED
      BY <1>2, <2>2
  <1>3. QED
    BY <1>1, <1>2

LEMMA CallShape ==
    ASSUME CInv, NEW c \in Callers, NEW k \in Keys, NEW payload \in Payloads,
           Call(c, k, payload)
    PROVE  StandsBack(c)
  <1> USE DEF CInv
  <1>1. /\ pc' = [pc EXCEPT ![c] = "reserve"] /\ pc[c] = "idle"
        /\ alert' = [alert EXCEPT ![c] = [key |-> k, payload |-> payload]]
        /\ answer' = [answer EXCEPT ![c] = "none"]
        /\ UNCHANGED <<row, newest, day, delivery, attempt, reply, chat, mishap>>
    BY DEF Call, Goto
  <1>2. calls' \in 0 .. MaxCalls
    BY AlertAssumption, Typed DEF Call
  <1>3. attempt[c].status # "succeeded"
    BY <1>1 DEF CopyTells
  <1>4. QED
    BY <1>1, <1>2, <1>3, Typed DEF StandsBack, Own, Labels

\* Forgetting keeps the condition of every outcome it remembers.
LEMMA ForgetShape ==
    ASSUME CInv, NEW c \in Callers, NEW outcome \in RowStatuses \cup {"none", "green", "red"},
           Forget(c, outcome), UNCHANGED <<row, newest, day, delivery, chat, calls>>,
           mishap' \in BOOLEAN, mishap => mishap',
           outcome \in {"succeeded", "green"} => Current(c).status = "succeeded",
           outcome = "green" => KeyOf(c) = "warning"
    PROVE  /\ StandsBack(c)
           /\ pc' = [pc EXCEPT ![c] = "idle"]
           /\ answer' = [answer EXCEPT ![c] = outcome]
           /\ outcome # "none" => KeyOf(c)' = KeyOf(c)
  <1> USE DEF CInv
  <1> DEFINE k == IF outcome = "none" THEN "warning" ELSE KeyOf(c)
             a == [alert[c] EXCEPT !.payload = NoPayload, !.key = k]
  <1>0. KeyOf(c) \in Keys /\ alert[c] \in [key : Keys, payload : Payloads]
    BY KeyType, Typed
  <1>1. /\ pc' = [pc EXCEPT ![c] = "idle"] /\ attempt' = [attempt EXCEPT ![c] = NoRow]
        /\ reply' = [reply EXCEPT ![c] = "none"] /\ answer' = [answer EXCEPT ![c] = outcome]
    BY DEF Forget, Goto, Hold
  <1>2. alert' = [alert EXCEPT ![c] = a]
    BY <1>0, Typed DEF Forget, NoAlert, KeyOf
  <1>3. a \in [key : Keys, payload : Payloads] /\ a.key = k
    BY <1>0, NoRowType DEF Keys, Levels
  <1>4. KeyOf(c)' = k /\ alert'[c] = a
    BY <1>2, <1>3, Typed DEF KeyOf
  <1> HIDE DEF a
  <1>5. StandsBack(c)
    BY <1>1, <1>2, <1>3, <1>4, NoRowType, Typed DEF StandsBack, Own, Labels, Current
  <1>6. QED
    BY <1>1, <1>4, <1>5

LEMMA QuietShape ==
    ASSUME CInv, NEW c \in Callers,
           \/ CompareRequest(c) \/ LoadExisting(c) \/ Reread(c) \/ Return(c) \/ Refuse(c)
           \/ StatementFails(c) \/ Die(c)
    PROVE  StandsBack(c)
  <1> USE DEF CInv
  <1>0. Current(c) \in Rows /\ attempt[c] \in Rows
    BY KeyType, Typed
  <1>1. CASE CompareRequest(c)
    BY <1>1, Typed DEF CompareRequest, Goto, StandsBack, Own, Labels, CopyTells, Current, KeyOf
  <1>2. CASE LoadExisting(c) \/ Reread(c)
    <2>1. /\ attempt' = [attempt EXCEPT ![c] = Current(c)]
          /\ UNCHANGED <<row, newest, day, delivery, alert, reply, answer, chat, mishap, calls>>
          /\ \E l \in {"resume", "returned"} : pc' = [pc EXCEPT ![c] = l]
      BY <1>2 DEF LoadExisting, Reread, Hold, Goto
    <2>2. QED
      BY <1>0, <2>1, Typed DEF StandsBack, Own, Labels, CopyTells, Current, KeyOf
  <1>3. CASE Return(c)
    <2>1. /\ Outcome(c) \in RowStatuses \cup {"green", "red"}
          /\ Outcome(c) \in {"succeeded", "green"} => attempt[c].status = "succeeded"
          /\ Outcome(c) = "green" => KeyOf(c) = "warning"
      BY <1>0 DEF Outcome, Rows, RowStatuses
    <2>2. QED
      BY <1>3, <2>1, ForgetShape, Typed DEF Return, CopyTells
  <1>4. CASE Refuse(c) \/ StatementFails(c)
    <2>1. PICK outcome \in {"failed", "red"} :
              Forget(c, outcome) /\ UNCHANGED <<row, newest, day, delivery, chat, calls>>
      BY <1>4 DEF Refuse, StatementFails, OnException
    <2>2. mishap' \in BOOLEAN /\ (mishap => mishap')
      BY <1>4, Typed DEF Refuse, StatementFails
    <2>3. QED
      BY <2>1, <2>2, ForgetShape DEF RowStatuses
  <1>5. CASE Die(c)
    BY <1>5, ForgetShape DEF Die
  <1>6. QED
    BY <1>1, <1>2, <1>3, <1>4, <1>5

----------------------------------------------------------------------------
(* The two actions that have no shape in common with another. *)

LEMMA SendKeepsCInv ==
    ASSUME CInv, NEW c \in Callers, Send(c)
    PROVE  CInv'
  <1> USE DEF CInv
  <1> DEFINE k == KeyOf(c)
  <1>0. k \in Keys
    BY KeyType
  <1>20. PICK sent \in Replies :
            /\ reply' = [reply EXCEPT ![c] = sent]
            /\ \E shown \in ChatAfter(chat[k], sent) : chat' = [chat EXCEPT ![k] = shown]
    BY DEF Send
  <1>21. PICK shown \in ChatAfter(chat[k], sent) : chat' = [chat EXCEPT ![k] = shown]
    BY <1>20
  <1>1. reply' = [reply EXCEPT ![c] = sent] /\ chat' = [chat EXCEPT ![k] = shown]
    BY <1>20, <1>21
  <1>2. /\ pc[c] = "send" /\ pc' = [pc EXCEPT ![c] = "record"]
        /\ UNCHANGED <<row, newest, day, delivery, alert, attempt, answer, mishap, calls>>
    BY DEF Send, Goto
  <1>3. chat[k] = 0
    BY <1>2 DEF SenderKnows
  <1>4. /\ shown \in {0, 1}
        /\ sent \in {"retryable", "rejected"} => shown = 0
        /\ sent = "sent" => shown = 1
    BY <1>3 DEF ChatAfter, Replies
  <1>5. TypeOK'
    <2>1. Own(c)
      BY <1>1, <1>2, Typed DEF Own, Labels
    <2>2. chat' \in [Keys -> Nat]
      BY <1>0, <1>1, <1>4, Typed
    <2>3. QED
      BY <1>2, <2>1, <2>2, OwnType, Typed
  <1>6. /\ pc'[c] = "record" /\ reply'[c] = sent /\ chat'[k] = shown
        /\ \A j \in Keys : j # k => chat'[j] = chat[j]
        /\ \A d \in Callers : /\ KeyOf(d)' = KeyOf(d)
                              /\ d # c => pc'[d] = pc[d] /\ reply'[d] = reply[d]
    BY <1>0, <1>1, <1>2, Typed DEF KeyOf
  <1>7. \A d \in Callers : InFlight(d)' <=> InFlight(d)
    BY <1>2, <1>6 DEF InFlight
  <1>8. \A d \in Callers : InFlight(d) /\ d # c => KeyOf(d) # k
    BY <1>2 DEF OneInFlight, InFlight
  <1>9. ClaimIsPending' /\ OneInFlight' /\ CopyTells'
    BY <1>2, <1>6, <1>7 DEF ClaimIsPending, OneInFlight, CopyTells, Current
  <1>10. SenderKnows'
    BY <1>4, <1>6, <1>8, KeyType DEF SenderKnows, InFlight
  <1>11. RowTells'
    <2>1. row[k].status = "pending"
      BY <1>2 DEF ClaimIsPending, InFlight, Current
    <2>2. QED
      BY <1>2, <1>6, <2>1 DEF RowTells
  <1>12. OneCardPerCondition'
    BY <1>4, <1>6 DEF OneCardPerCondition
  <1>13. QED
    BY <1>5, <1>9, <1>10, <1>11, <1>12

LEMMA RecordUpdates ==
    ASSUME CInv, NEW c \in Callers, Record(c), UpdateMatches(c)
    PROVE  /\ pc[c] = "record" /\ reply[c] \in Replies /\ KeyOf(c) \in Keys
           /\ pc' = [pc EXCEPT ![c] = IF NextStatus(c) = "retry_wait" THEN "resume" ELSE "returned"]
           /\ row'[KeyOf(c)] \in Rows /\ row'[KeyOf(c)].status = NextStatus(c)
           /\ row'[KeyOf(c)].attempt_no = Current(c).attempt_no
           /\ \A j \in Keys : j # KeyOf(c) => row'[j] = row[j]
           /\ attempt'[c] \in Rows /\ attempt'[c].status = NextStatus(c)
           /\ attempt'[c].attempt_no = Current(c).attempt_no
           /\ row' \in [Keys -> Rows] /\ newest' = KeyOf(c)
           /\ Own(c)
           /\ UNCHANGED <<alert, answer, chat, mishap>>
  <1> USE DEF CInv
  <1> DEFINE k == KeyOf(c)
             r == [Current(c) EXCEPT !.status = NextStatus(c)]
             a == [attempt[c] EXCEPT !.status = NextStatus(c)]
  <1>0. k \in Keys /\ Current(c) \in Rows /\ attempt[c] \in Rows
    BY KeyType, Typed
  <1>1. /\ pc[c] = "record" /\ reply' = [reply EXCEPT ![c] = "none"]
        /\ row' = [row EXCEPT ![k] = r] /\ newest' = k
        /\ attempt' = [attempt EXCEPT ![c] = a]
        /\ pc' = [pc EXCEPT ![c] = IF NextStatus(c) = "retry_wait" THEN "resume" ELSE "returned"]
        /\ UNCHANGED <<day, delivery, alert, answer, chat, mishap, calls>>
    BY DEF Record, Write, Hold, Goto
  <1>2. NextStatus(c) \in RowStatuses
    BY NextStatusType DEF RowStatuses
  <1>3. /\ r \in Rows /\ r.status = NextStatus(c) /\ r.attempt_no = Current(c).attempt_no
        /\ a \in Rows /\ a.status = NextStatus(c) /\ a.attempt_no = attempt[c].attempt_no
    BY <1>0, <1>2 DEF Rows
  <1>4. attempt[c].attempt_no = Current(c).attempt_no
    BY DEF UpdateMatches
  <1> HIDE DEF r, a
  <1>5. Own(c)
    BY <1>1, <1>3, Typed DEF Own, Labels
  <1>6. row'[k] = r /\ attempt'[c] = a /\ row' \in [Keys -> Rows]
        /\ \A j \in Keys : j # k => row'[j] = row[j]
    BY <1>0, <1>1, <1>3, Typed
  <1>7. reply[c] \in Replies
    BY <1>1 DEF SenderKnows
  <1>8. QED
    BY <1>0, <1>1, <1>3, <1>4, <1>5, <1>6, <1>7

LEMMA RecordKeepsCInv ==
    ASSUME CInv, NEW c \in Callers, Record(c)
    PROVE  CInv'
  <1> USE DEF CInv
  <1> DEFINE k == KeyOf(c)
  <1>1. CASE UpdateMatches(c)
    <2>0. /\ pc[c] = "record" /\ reply[c] \in Replies /\ k \in Keys
          /\ pc' = [pc EXCEPT ![c] = IF NextStatus(c) = "retry_wait" THEN "resume" ELSE "returned"]
          /\ row'[k].status = NextStatus(c) /\ attempt'[c].status = NextStatus(c)
          /\ \A j \in Keys : j # k => row'[j] = row[j]
          /\ row' \in [Keys -> Rows] /\ newest' = k
          /\ Own(c)
          /\ UNCHANGED <<alert, answer, chat, mishap>>
      BY <1>1, RecordUpdates
    <2>1. TypeOK'
      BY <2>0, OwnType, Typed
    <2>2. /\ pc'[c] \notin {"send", "record"}
          /\ \A d \in Callers : KeyOf(d)' = KeyOf(d)
          /\ \A d \in Callers : d # c => pc'[d] = pc[d] /\ attempt'[d] = attempt[d] /\ reply'[d] = reply[d]
      BY <2>0, Others, Typed DEF KeyOf
    <2>3. \A d \in Callers : InFlight(d)' => d # c /\ InFlight(d) /\ KeyOf(d) # k
      BY <2>0, <2>2 DEF InFlight, OneInFlight
    <2>4. ClaimIsPending' /\ OneInFlight'
      BY <2>0, <2>2, <2>3, KeyType DEF ClaimIsPending, OneInFlight, Current
    <2>5. SenderKnows'
      BY <2>0, <2>2 DEF SenderKnows
    <2>6. RowTells'
      <3>1. /\ reply[c] = "sent" => chat[k] = 1
            /\ reply[c] \in {"retryable", "rejected"} => chat[k] = 0
        BY <2>0 DEF SenderKnows
      <3>2. /\ NextStatus(c) = "succeeded" => chat[k] = 1
            /\ NextStatus(c) \in {"absent", "failed", "retry_wait"} => chat[k] = 0
        BY <2>0, <3>1 DEF NextStatus, Replies
      <3>3. QED
        BY <2>0, <3>2 DEF RowTells
    <2>7. CopyTells'
      <3>1. Current(c).status = "pending"
        BY <1>1 DEF UpdateMatches
      <3>2. \A d \in Callers : Current(d).status = "succeeded" => Current(d)' = Current(d)
        BY <2>0, <2>2, <3>1, KeyType DEF Current
      <3>3. attempt'[c].status = Current(c)'.status
        BY <2>0, <2>2 DEF Current
      <3>4. QED
        BY <2>0, <2>2, <3>2, <3>3 DEF CopyTells
    <2>8. OneCardPerCondition'
      BY <2>0 DEF OneCardPerCondition
    <2>9. QED
      BY <2>1, <2>4, <2>5, <2>6, <2>7, <2>8
  <1>2. CASE ~UpdateMatches(c)
    <2>1. StandsBack(c)
      BY <1>2, Typed DEF Record, Goto, StandsBack, Own, Labels, CopyTells, Current, KeyOf
    <2>2. QED
      BY <2>1, StandingBackKeepsCInv
  <1>3. QED
    BY <1>1, <1>2

----------------------------------------------------------------------------
LEMMA StepKeepsCInv ==
    ASSUME CInv, NEW c \in Callers, Step(c)
    PROVE  CInv'
  <1>1. CASE Reserve(c)
    BY <1>1, ReserveShape, ClaimKeepsCInv, StandingBackKeepsCInv
  <1>2. CASE Resume(c)
    BY <1>2, ResumeShape, ClaimKeepsCInv, StandingBackKeepsCInv
  <1>3. CASE Send(c)
    BY <1>3, SendKeepsCInv
  <1>4. CASE Record(c)
    BY <1>4, RecordKeepsCInv
  <1>5. CASE \/ CompareRequest(c) \/ LoadExisting(c) \/ Reread(c) \/ Return(c) \/ Refuse(c)
             \/ StatementFails(c) \/ Die(c)
    BY <1>5, QuietShape, StandingBackKeepsCInv
  <1>6. QED
    BY <1>1, <1>2, <1>3, <1>4, <1>5 DEF Step

\* A call names a condition of the model, whatever its caller.
LEMMA CallsAreAlerts ==
    ASSUME TypeOK
    PROVE  /\ \A w \in Workers : AlertTerminal(w) =>
                 \E k \in Keys, payload \in Payloads : w \in Callers /\ Call(w, k, payload)
           /\ \A m \in Monitors : MonitorCapacity(m) =>
                 \E k \in Keys, payload \in Payloads : m \in Callers /\ Call(m, k, payload)
  <1>1. StagesOf(day) \subseteq Keys
    BY DEF StagesOf, Keys, Stages
  <1>2. \A reading \in Readings : LevelOf(reading) # "ok" => LevelOf(reading) \in Keys
    BY DEF LevelOf, Keys, Levels
  <1>3. QED
    BY <1>1, <1>2 DEF AlertTerminal, MonitorCapacity, Callers, Payloads

\* The date and its delivery go on without touching a call.
LEMMA DateMoves ==
    ASSUME CInv, RunGoesOn \/ DeliveryMoves
    PROVE  /\ TypeOK'
           /\ newest' = newest \/ newest' = "delivery_attempt"
           /\ UNCHANGED <<row, pc, alert, attempt, reply, answer, chat, mishap, calls>>
  BY AlertAssumption, Typed DEF CInv, RunGoesOn, DeliveryMoves, TypeOK

LEMMA NextCInv == CInv /\ [Next]_vars => CInv'
  <1> SUFFICES ASSUME CInv, [Next]_vars PROVE CInv'
    OBVIOUS
  <1>1. CASE \/ \E w \in Workers : AlertTerminal(w)
             \/ \E m \in Monitors : MonitorCapacity(m)
    <2>1. PICK c \in Callers, k \in Keys, payload \in Payloads : Call(c, k, payload)
      BY <1>1, CallsAreAlerts DEF CInv
    <2>2. QED
      BY <2>1, CallShape, StandingBackKeepsCInv
  <1>2. CASE \E c \in Callers : Step(c)
    BY <1>2, StepKeepsCInv
  <1>3. CASE RunGoesOn \/ DeliveryMoves
    <2>1. TypeOK' /\ UNCHANGED <<row, pc, alert, attempt, reply, answer, chat>>
      BY <1>3, DateMoves
    <2>2. QED
      BY <2>1 DEF CInv, ClaimIsPending, OneInFlight, SenderKnows, RowTells, CopyTells,
           OneCardPerCondition, InFlight, Current, KeyOf
  <1>4. CASE UNCHANGED vars
    BY <1>4 DEF vars, CInv, TypeOK, ClaimIsPending, OneInFlight, SenderKnows, RowTells,
         CopyTells, OneCardPerCondition, InFlight, Current, KeyOf
  <1>5. QED
    BY <1>1, <1>2, <1>3, <1>4 DEF Next

\* For any number of workers, monitors and calls, readings and attempts, the
\* rows, the copies and the chat agree (reserve, retry and update of
\* PostgresWorkflowAlertStore).
THEOREM AlertInvariance == Spec => []CInv
  <1>1. Init => CInv
    BY InitIInv DEF IInv
  <1>2. QED
    BY <1>1, NextCInv, PTL DEF Spec

\* No behaviour puts a second card of a condition into the chat, although a
\* resume is fenced on the status alone and a lost update is not undone.
THEOREM OneCard == Spec => []OneCardPerCondition
  <1>1. CInv => OneCardPerCondition
    BY DEF CInv
  <1>2. QED
    BY <1>1, AlertInvariance, PTL

\* A worker that reports an alert as sent, and a job of the monitor that ends
\* green above the threshold, are right; no job above the critical threshold
\* is green (_alert_terminal and monitor_archive_capacity).
THEOREM BackedAnswers == Spec => []AnswersAreBacked
  <1>1. CInv => AnswersAreBacked
    <2> SUFFICES ASSUME CInv PROVE AnswersAreBacked
      OBVIOUS
    <2>1. \A c \in Callers : answer[c] \in {"succeeded", "green"} => chat[KeyOf(c)] = 1
      BY KeyType DEF CInv, CopyTells, RowTells, Current
    <2>2. QED
      BY <2>1 DEF CInv, CopyTells, RowTells, AnswersAreBacked, Callers
  <1>2. QED
    BY <1>1, AlertInvariance, PTL

----------------------------------------------------------------------------
(* Why a blocked date shows: the same shapes, with what each leaves behind. *)

\* Standing back abandons no row that waits for this caller.
LEMMA StandingBackKeepsBInv ==
    ASSUME CInv, BInv, NEW c \in Callers, StandsBack(c),
           pc'[c] \notin {"idle", "reserve"} => row[KeyOf(c)'].status # "absent",
           pc'[c] = "resume" => /\ attempt'[c].attempt_no >= 1
                                /\ attempt'[c].attempt_no <= row[KeyOf(c)'].attempt_no,
           answer'[c] # "none" => newest # "none" \/ mishap',
           \/ mishap'
           \/ pc[c] \notin {"resume", "send", "record"}
           \/ pc[c] = "resume" /\ Current(c).status # "retry_wait"
           \/ pc[c] = "record" /\ Overtaken(Current(c))
    PROVE  BInv'
  <1> USE DEF StandsBack
  <1>1. mishap => mishap'
    BY DEF Own
  <1>2. \A d \in Callers : d # c =>
            /\ pc'[d] = pc[d] /\ attempt'[d] = attempt[d] /\ answer'[d] = answer[d]
            /\ KeyOf(d)' = KeyOf(d) /\ (InFlight(d)' <=> InFlight(d))
    BY Others DEF CInv
  <1>3. ~InFlight(c)'
    BY DEF InFlight
  <1>4. RowsExist'
    BY <1>1, <1>2 DEF BInv, RowsExist, Current
  <1>5. CopiesInStep'
    BY <1>2, <1>3 DEF BInv, CopiesInStep, Current
  <1>6. SomeoneOwns'
    <2> SUFFICES ASSUME ~mishap', NEW k \in Keys
                 PROVE  /\ row[k].status = "pending" =>
                             Overtaken(row[k]) \/ \E d \in Callers : InFlight(d)' /\ KeyOf(d)' = k
                        /\ row[k].status = "retry_wait" =>
                             \E d \in Callers : pc'[d] = "resume" /\ KeyOf(d)' = k
      BY DEF SomeoneOwns, Overtaken
    <2>1. /\ row[k].status = "pending" =>
                Overtaken(row[k]) \/ \E d \in Callers : InFlight(d) /\ KeyOf(d) = k
          /\ row[k].status = "retry_wait" =>
                \E d \in Callers : pc[d] = "resume" /\ KeyOf(d) = k
      BY <1>1 DEF BInv, SomeoneOwns
    <2>2. row[k].status = "pending" =>
                Overtaken(row[k]) \/ \E d \in Callers : InFlight(d)' /\ KeyOf(d)' = k
      BY <1>2, <2>1 DEF InFlight, Current
    <2>3. row[k].status = "retry_wait" => \E d \in Callers : pc'[d] = "resume" /\ KeyOf(d)' = k
      <3> SUFFICES ASSUME row[k].status = "retry_wait"
                   PROVE  \E d \in Callers : pc'[d] = "resume" /\ KeyOf(d)' = k
        OBVIOUS
      <3>1. PICK d \in Callers : pc[d] = "resume" /\ KeyOf(d) = k
        BY <2>1
      <3>2. d # c
        BY <3>1 DEF Current
      <3>3. QED
        BY <1>2, <3>1, <3>2
    <2>4. QED
      BY <2>2, <2>3
  <1>7. QED
    BY <1>4, <1>5, <1>6 DEF BInv

\* A claim takes the row over, at the number of the copy unless it is the
\* third or a later attempt.
LEMMA ClaimKeepsBInv ==
    ASSUME CInv, BInv, NEW c \in Callers, Claims(c),
           row'[KeyOf(c)].attempt_no >= 1,
           Current(c).status # "absent" =>
               row'[KeyOf(c)].attempt_no >= Current(c).attempt_no,
           row'[KeyOf(c)].attempt_no <= 2 =>
               attempt'[c].attempt_no = row'[KeyOf(c)].attempt_no
    PROVE  BInv'
  <1> DEFINE k == KeyOf(c)
  <1>0. /\ k \in Keys /\ row[k] \in Rows /\ row'[k] \in Rows /\ newest' = k
        /\ row[k].status \in {"absent", "retry_wait"} /\ row'[k].status = "pending"
        /\ pc'[c] = "send"
        /\ \A d \in Callers : KeyOf(d) \in Keys
    BY KeyType DEF CInv, Claims, Current
  <1>1. mishap => mishap'
    BY DEF Claims, Own
  <1>2. \A d \in Callers : /\ KeyOf(d)' = KeyOf(d)
                           /\ d # c => /\ pc'[d] = pc[d] /\ attempt'[d] = attempt[d]
                                       /\ (InFlight(d)' <=> InFlight(d))
    BY Others DEF CInv, Claims, KeyOf
  <1>3. \A j \in Keys : j # k => row'[j] = row[j]
    BY Typed DEF CInv, Claims
  <1>4. \A d \in Callers : InFlight(d) => KeyOf(d) # k
    BY <1>0 DEF CInv, ClaimIsPending, Current
  <1>5. RowsExist'
    <2>1. newest' # "none" /\ newest' = k /\ row'[k].status # "absent"
      BY <1>0 DEF Keys, Stages, Levels
    <2>2. \A d \in Callers : pc'[d] \notin {"idle", "reserve"} => Current(d)'.status # "absent"
      BY <1>0, <1>2, <1>3, <2>1 DEF BInv, RowsExist, Current
    <2>3. QED
      BY <2>1, <2>2 DEF RowsExist
  <1>6. CopiesInStep'
    <2>1. \A j \in Keys : row'[j].status # "absent" => row'[j].attempt_no >= 1
      BY <1>3 DEF BInv, CopiesInStep
    <2>2. \A d \in Callers : pc'[d] = "resume" =>
              attempt'[d].attempt_no >= 1 /\ attempt'[d].attempt_no <= Current(d)'.attempt_no
      <3> SUFFICES ASSUME NEW d \in Callers, pc'[d] = "resume"
                   PROVE  attempt'[d].attempt_no >= 1
                          /\ attempt'[d].attempt_no <= row'[KeyOf(d)].attempt_no
        BY <1>2 DEF Current
      <3>1. d # c /\ pc[d] = "resume" /\ attempt'[d] = attempt[d] /\ attempt[d] \in Rows
        BY <1>0, <1>2, Typed DEF CInv
      <3>2. attempt[d].attempt_no >= 1 /\ attempt[d].attempt_no <= row[KeyOf(d)].attempt_no
        BY <3>1 DEF BInv, CopiesInStep, Current
      <3>3. CASE KeyOf(d) = k
        <4>1. row[k].status # "absent"
          BY <3>1, <3>3 DEF BInv, RowsExist, Current
        <4>2. QED
          BY <1>0, <3>1, <3>2, <3>3, <4>1 DEF Current, Rows
      <3>4. CASE KeyOf(d) # k
        BY <1>0, <1>3, <3>1, <3>2, <3>4
      <3>5. QED
        BY <3>3, <3>4
    <2>3. \A d \in Callers : InFlight(d)' /\ Current(d)'.attempt_no <= 2 =>
              attempt'[d].attempt_no = Current(d)'.attempt_no
      BY <1>0, <1>2, <1>3, <1>4 DEF BInv, CopiesInStep, Current
    <2>4. QED
      BY <2>1, <2>2, <2>3 DEF CopiesInStep
  <1>7. SomeoneOwns'
    <2> SUFFICES ASSUME ~mishap', NEW j \in Keys
                 PROVE  /\ row'[j].status = "pending" =>
                             Overtaken(row'[j]) \/ \E d \in Callers : InFlight(d)' /\ KeyOf(d)' = j
                        /\ row'[j].status = "retry_wait" =>
                             \E d \in Callers : pc'[d] = "resume" /\ KeyOf(d)' = j
      BY DEF SomeoneOwns, Overtaken
    <2>1. CASE j = k
      BY <1>0, <1>2, <2>1 DEF InFlight
    <2>2. CASE j # k
      <3>1. /\ row[j].status = "pending" =>
                  Overtaken(row[j]) \/ \E d \in Callers : InFlight(d) /\ KeyOf(d) = j
            /\ row[j].status = "retry_wait" =>
                  \E d \in Callers : pc[d] = "resume" /\ KeyOf(d) = j
        BY <1>1 DEF BInv, SomeoneOwns
      <3>2. row'[j] = row[j]
        BY <1>3, <2>2
      <3>3. \A d \in Callers : KeyOf(d) = j => d # c
        BY <2>2
      <3>4. QED
        BY <1>2, <3>1, <3>2, <3>3
    <2>3. QED
      BY <2>1, <2>2
  <1>8. QED
    BY <1>5, <1>6, <1>7 DEF BInv

\* A call, and the end of one, abandon nothing.
LEMMA ReserveKeepsBInv ==
    ASSUME CInv, BInv, NEW c \in Callers, Reserve(c)
    PROVE  BInv'
  <1>0. KeyOf(c) \in Keys /\ row \in [Keys -> Rows] /\ attempt \in [Callers -> Rows] /\ pc \in [Callers -> Labels]
    BY KeyType, Typed DEF CInv
  <1>1. CASE Current(c).status = "absent"
    <2> DEFINE r == [status |-> "pending", attempt_no |-> 1, payload |-> alert[c].payload]
    <2>1. row' = [row EXCEPT ![KeyOf(c)] = r]
      BY <1>1 DEF Reserve, Write
    <2>2. row'[KeyOf(c)] = r
      BY <1>0, <2>1
    <2>3. attempt' = [attempt EXCEPT ![c] = r]
      BY <1>1, <2>2 DEF Reserve, Hold
    <2>4. attempt'[c] = r
      BY <1>0, <2>3
    <2>5. Claims(c)
      BY <1>1, ReserveShape
    <2>6. QED
      BY <1>1, <2>2, <2>4, <2>5, ClaimKeepsBInv
  <1>2. CASE Current(c).status # "absent"
    <2>1. /\ pc[c] = "reserve" /\ pc'[c] = "conflict" /\ KeyOf(c)' = KeyOf(c)
          /\ answer' = answer /\ mishap' = mishap
      BY <1>0, <1>2 DEF Reserve, Goto, KeyOf
    <2>2. answer'[c] # "none" => newest # "none" \/ mishap'
      BY <2>1 DEF BInv, RowsExist
    <2>3. QED
      BY <1>2, <2>1, <2>2, ReserveShape, StandingBackKeepsBInv DEF Current
  <1>3. QED
    BY <1>1, <1>2

LEMMA ResumeKeepsBInv ==
    ASSUME CInv, BInv, NEW c \in Callers, Resume(c)
    PROVE  BInv'
  <1>0. /\ KeyOf(c) \in Keys /\ Current(c) \in Rows /\ attempt[c] \in Rows
        /\ row \in [Keys -> Rows] /\ attempt \in [Callers -> Rows] /\ pc \in [Callers -> Labels]
    BY KeyType, Typed DEF CInv
  <1>1. pc[c] = "resume" /\ attempt[c].attempt_no >= 1
        /\ attempt[c].attempt_no <= Current(c).attempt_no
    BY DEF Resume, BInv, CopiesInStep
  <1>2. CASE ResumeMatches(c)
    <2>1. row'[KeyOf(c)] = NextPending(Current(c)) /\ attempt'[c] = NextPending(attempt[c])
      BY <1>0, <1>2 DEF Resume, Write, Hold
    <2>2. /\ NextPending(Current(c)).attempt_no = Current(c).attempt_no + 1
          /\ NextPending(attempt[c]).attempt_no = attempt[c].attempt_no + 1
          /\ Current(c).attempt_no \in Nat /\ attempt[c].attempt_no \in Nat
      BY <1>0, NextPendingType DEF Rows
    <2>3. Claims(c)
      BY <1>2, ResumeShape
    <2>4. QED
      BY <1>1, <2>1, <2>2, <2>3, ClaimKeepsBInv
  <1>3. CASE ~ResumeMatches(c)
    <2>1. /\ pc'[c] = "reread" /\ KeyOf(c)' = KeyOf(c) /\ answer'[c] = answer[c] /\ mishap' = mishap
      BY <1>0, <1>3 DEF Resume, Goto, KeyOf
    <2>2. Current(c).status # "absent" /\ Current(c).status # "retry_wait"
      BY <1>1, <1>3 DEF BInv, RowsExist, ResumeMatches
    <2>3. answer'[c] # "none" => newest # "none" \/ mishap'
      BY <2>1 DEF BInv, RowsExist
    <2>4. QED
      BY <1>1, <1>3, <2>1, <2>2, <2>3, ResumeShape, StandingBackKeepsBInv DEF Current
  <1>4. QED
    BY <1>2, <1>3

LEMMA SendKeepsBInv ==
    ASSUME CInv, BInv, NEW c \in Callers, Send(c)
    PROVE  BInv'
  <1>1. /\ pc[c] = "send" /\ pc' = [pc EXCEPT ![c] = "record"] /\ pc \in [Callers -> Labels]
        /\ UNCHANGED <<row, newest, alert, attempt, answer, mishap>>
    BY Typed DEF Send, Goto, CInv
  <1>2. \A d \in Callers : /\ (InFlight(d)' <=> InFlight(d)) /\ KeyOf(d)' = KeyOf(d)
                           /\ (pc'[d] = "resume" <=> pc[d] = "resume")
                           /\ (pc'[d] \in {"idle", "reserve"} <=> pc[d] \in {"idle", "reserve"})
    BY <1>1 DEF InFlight, KeyOf
  <1>3. RowsExist'
    BY <1>1, <1>2 DEF BInv, RowsExist, Current
  <1>4. CopiesInStep'
    BY <1>1, <1>2 DEF BInv, CopiesInStep, Current
  <1>5. SomeoneOwns'
    BY <1>1, <1>2 DEF BInv, SomeoneOwns, Overtaken
  <1>6. QED
    BY <1>3, <1>4, <1>5 DEF BInv

LEMMA RecordKeepsBInv ==
    ASSUME CInv, BInv, NEW c \in Callers, Record(c)
    PROVE  BInv'
  <1> DEFINE k == KeyOf(c)
  <1>0. /\ pc[c] = "record" /\ k \in Keys /\ Current(c) \in Rows /\ row \in [Keys -> Rows]
        /\ \A d \in Callers : KeyOf(d) \in Keys
        /\ Current(c).status = "pending"
    BY KeyType, Typed DEF Record, CInv, ClaimIsPending, InFlight
  <1>1. CASE UpdateMatches(c)
    <2>1. /\ pc' = [pc EXCEPT ![c] = IF NextStatus(c) = "retry_wait" THEN "resume" ELSE "returned"]
          /\ row'[k].status = NextStatus(c) /\ row'[k].attempt_no = Current(c).attempt_no
          /\ \A j \in Keys : j # k => row'[j] = row[j]
          /\ attempt'[c].attempt_no = Current(c).attempt_no
          /\ newest' = k
          /\ UNCHANGED <<alert, answer, mishap>>
          /\ Own(c)
      BY <1>1, RecordUpdates
    <2>2. \A d \in Callers : KeyOf(d)' = KeyOf(d)
      BY <2>1 DEF KeyOf
    <2>3. \A d \in Callers : d # c =>
              /\ pc'[d] = pc[d] /\ attempt'[d] = attempt[d] /\ (InFlight(d)' <=> InFlight(d))
      BY <2>1, Others DEF CInv
    <2>4. pc'[c] = IF NextStatus(c) = "retry_wait" THEN "resume" ELSE "returned"
      BY <2>1, Typed DEF CInv
    <2>5. ~InFlight(c)' /\ \A d \in Callers : d # c /\ InFlight(d) => KeyOf(d) # k
      BY <1>0, <2>4 DEF InFlight, CInv, OneInFlight
    <2>6. NextStatus(c) \in {"succeeded", "uncertain", "retry_wait", "failed"}
      BY NextStatusType
    <2>7. Current(c).attempt_no \in Nat /\ Current(c).attempt_no >= 1
      BY <1>0 DEF Rows, BInv, CopiesInStep, Current
    <2>8. RowsExist'
      <3>1. newest' # "none" /\ newest' = k /\ row'[k].status # "absent"
        BY <1>0, <2>1, <2>6 DEF Keys, Stages, Levels
      <3>2. \A d \in Callers : pc'[d] \notin {"idle", "reserve"} => Current(d)'.status # "absent"
        BY <1>0, <2>1, <2>2, <2>3, <3>1 DEF BInv, RowsExist, Current
      <3>3. QED
        BY <3>1, <3>2 DEF RowsExist
    <2>9. CopiesInStep'
      <3>1. \A j \in Keys : row'[j].status # "absent" => row'[j].attempt_no >= 1
        BY <2>1, <2>7 DEF BInv, CopiesInStep
      <3>2. \A d \in Callers : pc'[d] = "resume" =>
                attempt'[d].attempt_no >= 1 /\ attempt'[d].attempt_no <= Current(d)'.attempt_no
        <4> SUFFICES ASSUME NEW d \in Callers, pc'[d] = "resume"
                     PROVE  attempt'[d].attempt_no >= 1
                            /\ attempt'[d].attempt_no <= row'[KeyOf(d)].attempt_no
          BY <2>2 DEF Current
        <4>1. row'[KeyOf(d)].attempt_no = row[KeyOf(d)].attempt_no
          BY <1>0, <2>1 DEF Current
        <4>2. CASE d = c
          BY <2>1, <2>7, <4>2
        <4>3. CASE d # c
          <5>1. attempt[d].attempt_no >= 1 /\ attempt[d].attempt_no <= row[KeyOf(d)].attempt_no
            BY <2>3, <4>3 DEF BInv, CopiesInStep, Current
          <5>2. QED
            BY <2>3, <4>1, <4>3, <5>1
        <4>4. QED
          BY <4>2, <4>3
      <3>3. \A d \in Callers : InFlight(d)' /\ Current(d)'.attempt_no <= 2 =>
                attempt'[d].attempt_no = Current(d)'.attempt_no
        BY <1>0, <2>1, <2>2, <2>3, <2>5 DEF BInv, CopiesInStep, Current
      <3>4. QED
        BY <3>1, <3>2, <3>3 DEF CopiesInStep
    <2>10. SomeoneOwns'
      <3> SUFFICES ASSUME ~mishap', NEW j \in Keys
                   PROVE  /\ row'[j].status = "pending" =>
                               Overtaken(row'[j]) \/ \E d \in Callers : InFlight(d)' /\ KeyOf(d)' = j
                          /\ row'[j].status = "retry_wait" =>
                               \E d \in Callers : pc'[d] = "resume" /\ KeyOf(d)' = j
        BY DEF SomeoneOwns, Overtaken
      <3>1. CASE j = k
        BY <2>1, <2>2, <2>4, <2>6, <3>1
      <3>2. CASE j # k
        <4>1. /\ row[j].status = "pending" =>
                    Overtaken(row[j]) \/ \E d \in Callers : InFlight(d) /\ KeyOf(d) = j
              /\ row[j].status = "retry_wait" =>
                    \E d \in Callers : pc[d] = "resume" /\ KeyOf(d) = j
          BY <2>1 DEF BInv, SomeoneOwns
        <4>2. row'[j] = row[j]
          BY <2>1, <3>2
        <4>3. \A d \in Callers : KeyOf(d) = j => d # c
          BY <3>2
        <4>4. QED
          BY <2>2, <2>3, <4>1, <4>2, <4>3
      <3>3. QED
        BY <3>1, <3>2
    <2>11. QED
      BY <2>8, <2>9, <2>10 DEF BInv
  <1>2. CASE ~UpdateMatches(c)
    <2>1. StandsBack(c) /\ pc'[c] = "reread" /\ KeyOf(c)' = KeyOf(c) /\ answer'[c] = answer[c]
          /\ mishap' = mishap
      BY <1>2, Typed DEF CInv, Record, Goto, StandsBack, Own, Labels, CopyTells, Current, KeyOf
    <2>2. Overtaken(Current(c))
      <3>1. attempt[c].attempt_no # Current(c).attempt_no
        BY <1>0, <1>2 DEF UpdateMatches
      <3>2. ~(Current(c).attempt_no <= 2)
        BY <1>0, <3>1 DEF BInv, CopiesInStep, InFlight
      <3>3. QED
        BY <1>0, <3>2 DEF Overtaken, Rows
    <2>3. answer'[c] # "none" => newest # "none" \/ mishap'
      BY <2>1 DEF BInv, RowsExist
    <2>4. QED
      BY <1>0, <2>1, <2>2, <2>3, StandingBackKeepsBInv DEF Current
  <1>3. QED
    BY <1>1, <1>2

LEMMA QuietKeepsBInv ==
    ASSUME CInv, BInv, NEW c \in Callers,
           \/ CompareRequest(c) \/ LoadExisting(c) \/ Reread(c) \/ Return(c) \/ Refuse(c)
           \/ StatementFails(c) \/ Die(c)
    PROVE  BInv'
  <1>0. /\ StandsBack(c) /\ pc \in [Callers -> Labels] /\ attempt \in [Callers -> Rows]
        /\ answer \in [Callers -> RowStatuses \cup {"none", "green", "red"}]
        /\ KeyOf(c) \in Keys /\ Current(c) \in Rows
    BY QuietShape, KeyType, Typed DEF CInv
  <1>1. CASE CompareRequest(c) \/ LoadExisting(c) \/ Reread(c)
    <2>1. /\ pc[c] \in {"conflict", "load", "reread"} /\ pc'[c] \in {"load", "refused", "resume", "returned"}
          /\ KeyOf(c)' = KeyOf(c) /\ answer'[c] = answer[c] /\ mishap' = mishap
          /\ pc'[c] = "resume" => attempt'[c] = Current(c)
      BY <1>0, <1>1 DEF CompareRequest, LoadExisting, Reread, Goto, Hold, KeyOf
    <2>2. Current(c).status # "absent"
      BY <2>1 DEF BInv, RowsExist
    <2>3. Current(c).attempt_no \in Nat /\ Current(c).attempt_no >= 1
      BY <1>0, <2>2 DEF BInv, CopiesInStep, Current, Rows
    <2>4. answer'[c] # "none" => newest # "none" \/ mishap'
      BY <2>1 DEF BInv, RowsExist
    <2>5. QED
      BY <1>0, <2>1, <2>2, <2>3, <2>4, StandingBackKeepsBInv DEF Current
  <1>2. CASE Return(c) \/ Refuse(c)
    <2>1. /\ pc[c] \in {"returned", "refused"} /\ pc'[c] = "idle"
      BY <1>0, <1>2 DEF Return, Refuse, OnException, Forget, Goto
    <2>2. Current(c).status # "absent"
      BY <2>1 DEF BInv, RowsExist
    <2>3. newest # "none"
      BY <1>0, <2>2 DEF BInv, RowsExist, Current
    <2>4. QED
      BY <1>0, <2>1, <2>3, StandingBackKeepsBInv
  <1>3. CASE StatementFails(c) \/ Die(c)
    <2>1. pc'[c] = "idle" /\ mishap'
      BY <1>0, <1>3 DEF StatementFails, Die, OnException, Forget, Goto
    <2>2. QED
      BY <1>0, <2>1, StandingBackKeepsBInv
  <1>4. QED
    BY <1>1, <1>2, <1>3

LEMMA NextBInv == CInv /\ BInv /\ [Next]_vars => BInv'
  <1> SUFFICES ASSUME CInv, BInv, [Next]_vars PROVE BInv'
    OBVIOUS
  <1>1. CASE \/ \E w \in Workers : AlertTerminal(w)
             \/ \E m \in Monitors : MonitorCapacity(m)
    <2>1. PICK c \in Callers, k \in Keys, payload \in Payloads : Call(c, k, payload)
      BY <1>1, CallsAreAlerts DEF CInv
    <2>2. pc[c] = "idle" /\ pc'[c] = "reserve" /\ answer'[c] = "none"
      BY <2>1, Typed DEF CInv, Call, Goto
    <2>3. QED
      BY <2>1, <2>2, CallShape, StandingBackKeepsBInv
  <1>2. ASSUME NEW c \in Callers, Step(c) PROVE BInv'
    BY <1>2, ReserveKeepsBInv, ResumeKeepsBInv, SendKeepsBInv, RecordKeepsBInv, QuietKeepsBInv
       DEF Step
  <1>3. CASE RunGoesOn \/ DeliveryMoves
    <2>1. /\ newest' = newest \/ newest' = "delivery_attempt"
          /\ UNCHANGED <<row, pc, alert, attempt, answer, mishap>>
      BY <1>3, DateMoves
    <2>2. "delivery_attempt" \notin Keys
      BY DEF Keys, Stages, Levels
    <2>3. QED
      BY <2>1, <2>2 DEF BInv, RowsExist, CopiesInStep, SomeoneOwns, Overtaken, InFlight, Current, KeyOf
  <1>4. CASE UNCHANGED vars
    BY <1>4 DEF vars, BInv, RowsExist, CopiesInStep, SomeoneOwns, Overtaken, InFlight, Current, KeyOf
  <1>5. QED
    BY <1>1, <1>2, <1>3, <1>4 DEF Next

\* In every reachable state each row has the caller that will move it on.
THEOREM OwnersInvariance == Spec => []IInv
  <1>1. IInv /\ [Next]_vars => IInv'
    BY NextCInv, NextBInv DEF IInv
  <1>2. QED
    BY <1>1, InitIInv, PTL DEF Spec

\* The operations view asks for attention about every date that a worker ended
\* blocked, unless one of the exceptions the property names applies
\* (_operational_status over the newest row).
THEOREM BlockedDatesShow == Spec => []BlockedDateShows
  <1>1. IInv => BlockedDateShows
    <2> SUFFICES ASSUME IInv, ~mishap, newest # "delivery_attempt",
                        \A c \in Callers : pc[c] = "idle",
                        NEW w \in Workers, answer[w] # "none"
                 PROVE  OperatorAttentionRequired \/ Overtaken(row[newest])
      BY DEF BlockedDateShows
    <2>1. newest \in Keys /\ row[newest].status # "absent" /\ row[newest] \in Rows
      BY Typed DEF IInv, CInv, BInv, RowsExist, Callers
    <2>2. row[newest].status # "retry_wait"
      BY <2>1 DEF IInv, BInv, SomeoneOwns
    <2>3. row[newest].status = "pending" => Overtaken(row[newest])
      BY <2>1 DEF IInv, BInv, SomeoneOwns, InFlight
    <2>4. row[newest].status \in {"pending", "failed", "succeeded", "uncertain"}
      BY <2>1, <2>2 DEF Rows, RowStatuses
    <2>5. NewestEvent = [kind |-> "alert", status |-> row[newest].status]
      BY <2>1 DEF NewestEvent, Keys, Stages, Levels
    <2>6. CASE row[newest].status \in {"failed", "succeeded", "uncertain"}
      BY <2>5, <2>6 DEF OperatorAttentionRequired, OperationalStatus
    <2>7. QED
      BY <2>3, <2>4, <2>6
  <1>2. QED
    BY <1>1, OwnersInvariance, PTL
=============================================================================
