------------------------ MODULE TaskCheckpointProofs ------------------------
(* Theorems about TaskCheckpoint, for all calls and any number of pages. *)
EXTENDS TaskCheckpoint, SequenceTheorems, WellFoundedInduction, TLAPS

Active(c) == pc[c] \in {"execute", "advance"}

\* A running call owns the lease of the checkpoint it holds, and if that is
\* still the row's lease, its checkpoint is the row.
LeaseKnows ==
    \A c \in Calls : Active(c) =>
        /\ row.status # "absent"
        /\ copy[c].owner = c
        /\ copy[c].epoch <= row.epoch
        /\ copy[c].as_of = row.as_of
        /\ copy[c].epoch = row.epoch /\ row.owner = c => copy[c] = row

\* The result a call is about to count answers its checkpoint's request.
ResultAnswers ==
    \A c \in Calls : pc[c] = "advance" =>
        \E r \in runs : result[c] = {r} /\ Answers(r, c)

\* Runs ask with the durable request_as_of, once for each page, and lead on.
RunsOfTheTask ==
    /\ runs # {} => row.status # "absent"
    /\ \A r \in runs : r.as_of = row.as_of /\ (r.next > r.page \/ r.next = None)
    /\ OneRunPerPage

\* Every counted page comes before the one the checkpoint waits for.
CursorLeads ==
    row.status = "active" =>
        \A i \in DOMAIN row.run_ids : row.run_ids[i].page < row.cursor

NothingBegun == row.status = "absent" => row = NoRow

IInv ==
    /\ TypeOK
    /\ NothingBegun
    /\ LeaseKnows
    /\ ResultAnswers
    /\ RunsOfTheTask
    /\ CursorLeads
    /\ PagesInOrder

----------------------------------------------------------------------------
LEMMA NoRowType == NoRow \in Rows /\ NoRow.run_ids = <<>> /\ NoRow.status = "absent"
  BY PagesAssumption DEF NoRow, Rows, Pages, None

\* The initial state satisfies the invariant.
LEMMA InitIInv == Init => IInv
  <1> SUFFICES ASSUME Init PROVE IInv
    OBVIOUS
  <1>1. TypeOK
    BY NoRowType DEF Init, TypeOK
  <1>2. PagesInOrder /\ CursorLeads
    BY NoRowType DEF Init, PagesInOrder, CursorLeads
  <1>3. QED
    BY <1>1, <1>2, NoRowType DEF Init, IInv, NothingBegun, LeaseKnows, Active, ResultAnswers,
       RunsOfTheTask, OneRunPerPage

----------------------------------------------------------------------------
\* A call that begins leaves the progress of the row as it is.
LEMMA BeginKeeps ==
    ASSUME TypeOK, NothingBegun, NEW c \in Calls, BeginOrLoad(c)
    PROVE  /\ row' \in Rows
           /\ row'.status # "absent"
           /\ row'.run_ids = row.run_ids /\ row'.cursor = row.cursor
           /\ row'.accepted = row.accepted
           /\ row.status = "absent" => row'.status = "active" /\ row.run_ids = <<>>
           /\ row.status # "absent" => row'.status = row.status /\ row'.as_of = row.as_of
           /\ row.status = "completed" => row' = row
           /\ row'.status = "active" => row'.owner = c /\ row'.epoch = row.epoch + 1
           /\ copy' = [copy EXCEPT ![c] = row']
           /\ pc' = [pc EXCEPT ![c] = IF row'.status = "completed" THEN "succeeded" ELSE "execute"]
           /\ runs' = runs /\ result' = result
  <1>1. CASE row.status = "absent"
    <2>1. row = NoRow
      BY <1>1 DEF NothingBegun
    <2>2. row' = Inserted(c)
      BY <1>1 DEF BeginOrLoad
    <2>3. Inserted(c) \in Rows
      BY NoRowType DEF Inserted, Rows
    <2>4. QED
      BY <1>1, <2>1, <2>2, <2>3 DEF BeginOrLoad, Inserted, NoRow, Keep, Goto
  <1>2. CASE row.status # "absent"
    <2>1. row' = TakenOver(c)
      BY <1>2 DEF BeginOrLoad
    <2>2. row \in Rows
      BY DEF TypeOK
    <2>3. TakenOver(c) \in Rows
      <3>1. row.epoch + 1 \in Nat
        BY <2>2 DEF Rows
      <3>2. [row EXCEPT !.epoch = @ + 1, !.owner = c] \in Rows
        BY <2>2, <3>1 DEF Rows
      <3>3. QED
        BY <2>2, <3>2 DEF TakenOver
    <2>4. QED
      BY <1>2, <2>1, <2>2, <2>3 DEF BeginOrLoad, TakenOver, Keep, Goto, Rows
  <1>3. QED
    BY <1>1, <1>2

LEMMA BeginIInv ==
    ASSUME IInv, NEW c \in Calls, BeginOrLoad(c)
    PROVE  IInv'
  <1> USE BeginKeeps DEF IInv
  <1>1. TypeOK'
    BY DEF TypeOK, Ended
  <1>2. LeaseKnows'
    <2> SUFFICES ASSUME NEW d \in Calls, Active(d)'
                 PROVE  /\ copy'[d].owner = d /\ copy'[d].epoch <= row'.epoch
                        /\ copy'[d].as_of = row'.as_of
                        /\ copy'[d].epoch = row'.epoch /\ row'.owner = d => copy'[d] = row'
      BY DEF LeaseKnows
    <2>1. CASE d = c
      BY <2>1 DEF Active, TypeOK, Rows
    <2>2. CASE d # c
      <3>1. Active(d) /\ copy'[d] = copy[d] /\ copy[d].epoch <= row.epoch
        BY <2>2 DEF Active, TypeOK, LeaseKnows
      <3>2. row.epoch \in Nat /\ row'.epoch \in Nat /\ copy[d].epoch \in Nat
        BY DEF TypeOK, Rows
      <3>3. CASE row.status = "active"
        BY <3>1, <3>2, <3>3 DEF LeaseKnows
      <3>4. CASE row.status = "completed"
        BY <3>1, <3>4 DEF LeaseKnows
      <3>5. QED
        BY <3>1, <3>3, <3>4 DEF LeaseKnows, TypeOK, Rows
    <2>3. QED
      BY <2>1, <2>2
  <1>3. ResultAnswers'
    BY DEF ResultAnswers, Answers, TypeOK, Pages
  <1>4. RunsOfTheTask'
    BY DEF RunsOfTheTask, OneRunPerPage
  <1>5. CursorLeads' /\ PagesInOrder'
    BY DEF CursorLeads, PagesInOrder, LedTo, TypeOK, Rows, RunsOfTheTask, NothingBegun, NoRow
  <1>6. NothingBegun'
    BY DEF NothingBegun
  <1>7. QED
    BY <1>1, <1>2, <1>3, <1>4, <1>5, <1>6

----------------------------------------------------------------------------
\* The page is executed: its run is the one known, or a new one.
LEMMA ExecuteIInv ==
    ASSUME IInv, NEW c \in Calls, Execute(c)
    PROVE  IInv'
  <1> USE DEF IInv
  <1>1. PICK r \in Runs :
          /\ Answers(r, c)
          /\ r.next > r.page \/ r.next = None
          /\ \A known \in runs : Answers(known, c) => r = known
          /\ runs' = runs \cup {r}
          /\ result' = [result EXCEPT ![c] = {r}]
    BY DEF Execute
  <1>2. row' = row /\ copy' = copy /\ pc' = [pc EXCEPT ![c] = "advance"] /\ pc[c] = "execute"
    BY DEF Execute, Goto
  <1>3. TypeOK'
    BY <1>1, <1>2 DEF TypeOK
  <1>4. LeaseKnows'
    BY <1>2 DEF LeaseKnows, Active, TypeOK
  <1>5. r.as_of = row.as_of /\ row.status # "absent"
    BY <1>1, <1>2 DEF LeaseKnows, Active, Answers
  <1>6. RunsOfTheTask'
    <2>1. OneRunPerPage'
      <3>1. \A s \in runs : s.page = r.page => s = r
        BY <1>1, <1>5 DEF RunsOfTheTask, Answers
      <3>2. QED
        BY <1>1, <3>1 DEF RunsOfTheTask, OneRunPerPage
    <2>2. QED
      BY <1>1, <1>2, <1>5, <2>1 DEF RunsOfTheTask
  <1>7. ResultAnswers'
    BY <1>1, <1>2 DEF ResultAnswers, Answers, TypeOK
  <1>8. CursorLeads' /\ NothingBegun'
    BY <1>2 DEF CursorLeads, NothingBegun
  <1>9. PagesInOrder'
    BY <1>1, <1>2 DEF PagesInOrder, LedTo
  <1>10. QED
    BY <1>3, <1>4, <1>6, <1>7, <1>8, <1>9

----------------------------------------------------------------------------
\* The holder counts its page: a new run, for no page before it.
LEMMA AdvanceHolds ==
    ASSUME IInv, NEW c \in Calls, pc[c] = "advance", Holds(c),
           NEW r \in runs, Answers(r, c), row' = Advanced(c, r)
    PROVE  /\ copy[c] = row /\ row.status = "active"
           /\ r.page = row.cursor /\ r.as_of = row.as_of /\ r \in Runs
           /\ row.run_ids \in Seq(Runs)
           /\ row'.run_ids = Append(row.run_ids, r)
           /\ row'.accepted = row.accepted + r.accepted
           /\ row'.as_of = row.as_of /\ row'.epoch = row.epoch /\ row'.owner = row.owner
           /\ row'.status = IF r.next = None THEN "completed" ELSE "active"
           /\ row'.cursor = IF r.next = None THEN 1 ELSE r.next
           /\ row' \in Rows
  <1> USE DEF IInv
  <1>1. copy[c] = row /\ row.status = "active"
    BY DEF LeaseKnows, Active, Holds
  <1>2. r.page = row.cursor /\ r.as_of = row.as_of /\ r \in Runs
    BY <1>1 DEF Answers, TypeOK
  <1>3. row \in Rows /\ row.run_ids \in Seq(Runs)
    BY DEF TypeOK, Rows
  <1>4. row.cursor \in Nat
    BY <1>3, PagesAssumption DEF Rows, Pages
  <1>5. \A i \in DOMAIN row.run_ids : row.run_ids[i] # r
    BY <1>1, <1>2, <1>3, <1>4 DEF CursorLeads
  <1>6. Counted(row.run_ids, r) = Append(row.run_ids, r)
    BY <1>5 DEF Counted
  <1>7. row' = [row EXCEPT !.status   = IF r.next = None THEN "completed" ELSE "active",
                           !.cursor   = IF r.next = None THEN 1 ELSE r.next,
                           !.run_ids  = Append(row.run_ids, r),
                           !.accepted = @ + r.accepted]
    BY <1>1, <1>6 DEF Advanced
  <1>8. row' \in Rows
    <2>1. (IF r.next = None THEN 1 ELSE r.next) \in Pages
      BY <1>2, PagesAssumption DEF Runs, Pages, None
    <2>2. Append(row.run_ids, r) \in Seq(Runs)
      BY <1>2, <1>3
    <2>3. row.accepted + r.accepted \in Nat
      BY <1>2, <1>3 DEF Rows, Runs
    <2>4. QED
      BY <1>3, <1>7, <2>1, <2>2, <2>3 DEF Rows
  <1>9. QED
    BY <1>1, <1>2, <1>3, <1>7, <1>8 DEF Rows

\* The walk goes on with the page that was waited for.
LEMMA AdvanceWalks ==
    ASSUME IInv, NEW c \in Calls, pc[c] = "advance", Holds(c),
           NEW r \in runs, Answers(r, c), row' = Advanced(c, r), runs' = runs
    PROVE  PagesInOrder' /\ CursorLeads'
  <1> DEFINE ids == row.run_ids
  <1>1. /\ row.status = "active" /\ r \in Runs /\ r.page = row.cursor /\ r.as_of = row.as_of
        /\ ids \in Seq(Runs) /\ row'.run_ids = Append(ids, r) /\ row'.as_of = row.as_of
        /\ row'.status = IF r.next = None THEN "completed" ELSE "active"
        /\ row'.cursor = IF r.next = None THEN 1 ELSE r.next
    BY AdvanceHolds
  <1>2. /\ Len(Append(ids, r)) = Len(ids) + 1 /\ Len(ids) \in Nat
        /\ \A i \in 1..Len(ids) : Append(ids, r)[i] = ids[i]
        /\ Append(ids, r)[Len(ids) + 1] = r
        /\ DOMAIN Append(ids, r) = 1..(Len(ids) + 1) /\ DOMAIN ids = 1..Len(ids)
    BY <1>1
  <1>3. \A n \in 0..Len(ids) : LedTo(Append(ids, r), n) = LedTo(ids, n)
    BY <1>2 DEF LedTo
  <1>4. LedTo(ids, Len(ids)) = row.cursor /\ LedTo(Append(ids, r), Len(ids) + 1) = r.next
    BY <1>1, <1>2 DEF LedTo, PagesInOrder, IInv
  <1>5. ASSUME NEW i \in 1..(Len(ids) + 1)
        PROVE  /\ Append(ids, r)[i] \in runs
               /\ Append(ids, r)[i].as_of = row.as_of
               /\ Append(ids, r)[i].page = LedTo(Append(ids, r), i - 1)
    <2>1. CASE i \in 1..Len(ids)
      <3>1. i - 1 \in 0..Len(ids) /\ Append(ids, r)[i] = ids[i]
        BY <1>2, <2>1
      <3>2. QED
        BY <1>2, <1>3, <2>1, <3>1 DEF PagesInOrder, IInv
    <2>2. CASE i = Len(ids) + 1
      <3>1. i - 1 = Len(ids) /\ Len(ids) \in 0..Len(ids) /\ Append(ids, r)[i] = r
        BY <1>2, <2>2
      <3>2. QED
        BY <1>1, <1>3, <1>4, <3>1
    <2>3. QED
      BY <1>2, <2>1, <2>2
  <1>6. PagesInOrder'
    BY <1>1, <1>2, <1>4, <1>5 DEF PagesInOrder
  <1>7. CursorLeads'
    <2> SUFFICES ASSUME row'.status = "active", NEW i \in 1..(Len(ids) + 1)
                 PROVE  Append(ids, r)[i].page < row'.cursor
      BY <1>1, <1>2 DEF CursorLeads
    <2>1. r.page < r.next /\ row'.cursor = r.next /\ r.page \in Nat /\ r.next \in Nat
      BY <1>1, PagesAssumption DEF RunsOfTheTask, IInv, Runs, Pages, None
    <2>2. CASE i = Len(ids) + 1
      BY <1>2, <2>1, <2>2
    <2>3. CASE i \in 1..Len(ids)
      <3>1. ids[i].page < r.page /\ ids[i] \in Runs
        BY <1>1, <1>2, <2>3 DEF CursorLeads, IInv
      <3>2. ids[i].page \in Nat
        BY <3>1, PagesAssumption DEF Runs, Pages
      <3>3. QED
        BY <1>2, <2>1, <2>3, <3>1, <3>2
    <2>4. QED
      BY <1>2, <2>2, <2>3
  <1>8. QED
    BY <1>6, <1>7

LEMMA AdvanceIInv ==
    ASSUME IInv, NEW c \in Calls, Advance(c)
    PROVE  IInv'
  <1>1. CASE Holds(c)
    <2>1. pc[c] = "advance" /\ runs' = runs /\ result' = result
      BY DEF Advance
    <2>2. PICK r \in runs : result[c] = {r} /\ Answers(r, c)
      BY <2>1 DEF ResultAnswers, IInv
    <2>3. /\ row' = Advanced(c, r)
          /\ copy' = [copy EXCEPT ![c] = row']
          /\ pc' = [pc EXCEPT ![c] = IF row'.status = "completed" THEN "succeeded" ELSE "execute"]
      BY <1>1, <2>2 DEF Advance, Keep, Goto
    <2>4. PagesInOrder' /\ CursorLeads'
      BY <1>1, <2>1, <2>2, <2>3, AdvanceWalks
    <2>5. /\ copy[c] = row /\ row.status = "active" /\ row' \in Rows
          /\ row'.as_of = row.as_of /\ row'.epoch = row.epoch /\ row'.owner = row.owner
          /\ row'.status # "absent"
      BY <1>1, <2>1, <2>2, <2>3, AdvanceHolds
    <2>6. TypeOK'
      BY <2>1, <2>3, <2>5 DEF TypeOK, IInv, Ended
    <2>7. LeaseKnows'
      <3> SUFFICES ASSUME NEW d \in Calls, Active(d)'
                   PROVE  /\ copy'[d].owner = d /\ copy'[d].epoch <= row'.epoch
                          /\ copy'[d].as_of = row'.as_of
                          /\ copy'[d].epoch = row'.epoch /\ row'.owner = d => copy'[d] = row'
        BY <2>5 DEF LeaseKnows
      <3>1. row.owner = c
        BY <1>1, <2>1 DEF Holds, LeaseKnows, Active, IInv
      <3>2. CASE d = c
        BY <2>3, <2>5, <3>1, <3>2 DEF IInv, TypeOK, Rows
      <3>3. CASE d # c
        BY <2>3, <2>5, <3>1, <3>3 DEF LeaseKnows, Active, IInv, TypeOK
      <3>4. QED
        BY <3>2, <3>3
    <2>8. ResultAnswers'
      <3> SUFFICES ASSUME NEW d \in Calls, pc'[d] = "advance"
                   PROVE  \E s \in runs' : result'[d] = {s} /\ Answers(s, d)'
        BY DEF ResultAnswers
      <3>1. d # c /\ pc[d] = "advance" /\ copy'[d] = copy[d]
        BY <2>3 DEF IInv, TypeOK
      <3>2. QED
        BY <2>1, <3>1 DEF ResultAnswers, Answers, IInv
    <2>9. RunsOfTheTask' /\ NothingBegun'
      BY <2>1, <2>5 DEF RunsOfTheTask, NothingBegun, OneRunPerPage, IInv
    <2>10. QED
      BY <2>4, <2>6, <2>7, <2>8, <2>9 DEF IInv
  <1>2. CASE ~Holds(c)
    <2>1. /\ pc' = [pc EXCEPT ![c] = "failed"]
          /\ row' = row /\ copy' = copy /\ runs' = runs /\ result' = result
      BY <1>2 DEF Advance, Loses, Goto
    <2>2. QED
      BY <2>1 DEF IInv, TypeOK, Ended, NothingBegun, LeaseKnows, Active, ResultAnswers, Answers,
                  RunsOfTheTask, OneRunPerPage, CursorLeads, PagesInOrder, LedTo
  <1>3. QED
    BY <1>1, <1>2

----------------------------------------------------------------------------
\* A call that ends without a result changes nothing durable.
LEMMA EndIInv ==
    ASSUME IInv, NEW c \in Calls, ExecuteFails(c) \/ Crash(c)
    PROVE  IInv'
  <1>1. /\ \E label \in Ended : pc' = [pc EXCEPT ![c] = label]
        /\ row' = row /\ copy' = copy /\ runs' = runs /\ result' = result
    BY DEF ExecuteFails, Crash, Goto, Ended
  <1>2. QED
    BY <1>1 DEF IInv, TypeOK, Ended, NothingBegun, LeaseKnows, Active, ResultAnswers, Answers,
                RunsOfTheTask, OneRunPerPage, CursorLeads, PagesInOrder, LedTo

\* Every step keeps the invariant.
LEMMA StepIInv == IInv /\ [Next]_vars => IInv'
  <1> SUFFICES ASSUME IInv, [Next]_vars PROVE IInv'
    OBVIOUS
  <1>1. CASE UNCHANGED vars
    BY <1>1 DEF vars, IInv, TypeOK, NothingBegun, LeaseKnows, Active, ResultAnswers, Answers,
                RunsOfTheTask, OneRunPerPage, CursorLeads, PagesInOrder, LedTo
  <1>2. ASSUME NEW c \in Calls, BeginOrLoad(c) PROVE IInv'
    BY <1>2, BeginIInv
  <1>3. ASSUME NEW c \in Calls, Execute(c) PROVE IInv'
    BY <1>3, ExecuteIInv
  <1>4. ASSUME NEW c \in Calls, ExecuteFails(c) \/ Crash(c) PROVE IInv'
    BY <1>4, EndIInv
  <1>5. ASSUME NEW c \in Calls, Advance(c) PROVE IInv'
    BY <1>5, AdvanceIInv
  <1>6. QED
    BY <1>1, <1>2, <1>3, <1>4, <1>5 DEF Next, Step

\* The inductive invariant of the task: leases, walk and runs agree.
THEOREM Invariant == Spec => []IInv
  BY InitIInv, StepIInv, PTL DEF Spec

\* Types of the row, the calls and the runs.
THEOREM TypeCorrect == Spec => []TypeOK
  BY Invariant, PTL DEF IInv

\* Whatever calls overlap or die, the runs counted by advance are a walk of
\* the provider's pages in order, and the checkpoint stands at its end.
THEOREM WalkInOrder == Spec => []PagesInOrder
  BY Invariant, PTL DEF IInv

\* The durable request_as_of gives every page one run, whoever asks for it.
THEOREM OneRunForAPage == Spec => []OneRunPerPage
  <1>1. IInv => OneRunPerPage
    BY DEF IInv, RunsOfTheTask
  <1>2. QED
    BY <1>1, Invariant, PTL

\* begin_or_load and advance never lose a counted run, nor touch a completed
\* checkpoint.
THEOREM ProgressKept == Spec => ProgressIsKept
  <1> DEFINE Kept == /\ IsPrefix(row.run_ids, row'.run_ids)
                     /\ row.status = "completed" => row' = row
  <1>1. IInv /\ [Next]_vars => [Kept]_row
    <2> SUFFICES ASSUME IInv, [Next]_vars, row' # row PROVE Kept
      OBVIOUS
    <2>1. row.run_ids \in Seq(Runs)
      BY DEF IInv, TypeOK, Rows
    <2>2. ASSUME NEW c \in Calls, BeginOrLoad(c) PROVE Kept
      <3>1. row'.run_ids = row.run_ids /\ (row.status = "completed" => row' = row)
        BY <2>2, BeginKeeps DEF IInv
      <3>2. QED
        BY <2>1, <3>1 DEF IsPrefix
    <2>3. ASSUME NEW c \in Calls, Advance(c) PROVE Kept
      <3>1. Holds(c) /\ pc[c] = "advance"
        BY <2>3 DEF Advance
      <3>2. PICK r \in runs : result[c] = {r} /\ Answers(r, c)
        BY <3>1 DEF IInv, ResultAnswers
      <3>3. row' = Advanced(c, r)
        BY <2>3, <3>1, <3>2 DEF Advance
      <3>4. row.status = "active" /\ row'.run_ids = Append(row.run_ids, r) /\ r \in Runs
        BY <3>1, <3>2, <3>3, AdvanceHolds
      <3>5. IsPrefix(row.run_ids, Append(row.run_ids, r))
        BY <2>1, <3>4 DEF IsPrefix
      <3>6. QED
        BY <3>4, <3>5
    <2>4. QED
      BY <2>2, <2>3 DEF Next, Step, Execute, ExecuteFails, Crash, vars
  <1>2. QED
    BY <1>1, Invariant, PTL DEF Spec, ProgressIsKept

----------------------------------------------------------------------------
(* The counters: the sum that FoldLeft computes. *)

\* The records that the runs of ids accepted, in all.
Total(ids) == FoldLeft(LAMBDA sum, r : sum + r.accepted, 0, ids)

LEMMA LeastElement ==
    ASSUME NEW T, T \subseteq Nat, T # {}
    PROVE  \E x \in T : \A y \in T : x <= y
  <1> DEFINE R == {ss \in Nat \X Nat : ss[1] < ss[2]}
  <1>1. IsWellFoundedOn(R, Nat)
    BY NatLessThanWellFounded DEF OpToRel
  <1> HIDE DEF R
  <1>2. PICK x \in T : \A y \in T : <<y, x>> \notin R
    BY <1>1, WFMin
  <1>3. \A y \in T : ~(y < x)
    BY <1>2 DEF R
  <1>4. QED
    BY <1>3

\* The function that FoldLeft chooses, on the first n runs.
Sums(f, ids, n) ==
    f = [T \in SUBSET (1..n) |->
            IF T = {} THEN 0 ELSE f[T \ {Max(T)}] + ids[Max(T)].accepted]

LEMMA LastIsMax ==
    ASSUME NEW n \in Nat, NEW T, T \subseteq 1..n, n \in T PROVE Max(T) = n
  <1>1. \A y \in T : n >= y
    OBVIOUS
  <1>2. \A x \in T : (\A y \in T : x >= y) => x = n
    OBVIOUS
  <1>3. QED
    BY <1>1, <1>2 DEF Max

\* There is one: else there were a least n without.
LEMMA SumsExist ==
    ASSUME NEW ids, NEW n \in Nat PROVE \E f : Sums(f, ids, n)
  <1> DEFINE W == {m \in Nat : ~ \E f : Sums(f, ids, m)}
  <1> SUFFICES ASSUME W # {} PROVE FALSE
    OBVIOUS
  <1>1. PICK m \in W : \A y \in W : m <= y
    BY LeastElement
  <1>2. CASE m = 0
    <2> DEFINE f == [T \in SUBSET (1..0) |-> 0]
    <2>1. \A T \in SUBSET (1..0) : T = {}
      OBVIOUS
    <2>2. Sums(f, ids, 0)
      BY <2>1 DEF Sums
    <2>3. QED
      BY <1>1, <1>2, <2>2
  <1>3. CASE m # 0
    <2>1. m - 1 \in Nat /\ m - 1 \notin W
      BY <1>1, <1>3
    <2>2. PICK g : Sums(g, ids, m - 1)
      BY <2>1
    <2> DEFINE f == [T \in SUBSET (1..m) |->
                        IF m \in T THEN g[T \ {m}] + ids[m].accepted ELSE g[T]]
    <2>3. ASSUME NEW T \in SUBSET (1..m)
          PROVE  f[T] = IF T = {} THEN 0 ELSE f[T \ {Max(T)}] + ids[Max(T)].accepted
      <3>1. CASE m \in T
        <4>1. Max(T) = m
          BY <1>1, <3>1, LastIsMax
        <4>2. f[T \ {m}] = g[T \ {m}]
          OBVIOUS
        <4>3. QED
          BY <3>1, <4>1, <4>2
      <3>2. CASE m \notin T
        <4>1. T \in SUBSET (1..(m - 1)) /\ f[T] = g[T]
          BY <1>1, <2>1, <3>2
        <4>2. g[T] = IF T = {} THEN 0 ELSE g[T \ {Max(T)}] + ids[Max(T)].accepted
          BY <2>2, <4>1 DEF Sums
        <4>3. f[T \ {Max(T)}] = g[T \ {Max(T)}]
          BY <3>2
        <4>4. QED
          BY <4>1, <4>2, <4>3
      <3>3. QED
        BY <3>1, <3>2
    <2>4. DOMAIN f = SUBSET (1..m) /\ f = [T \in SUBSET (1..m) |-> f[T]]
      OBVIOUS
    <2> HIDE DEF f
    <2>5. Sums(f, ids, m)
      BY <2>3, <2>4 DEF Sums
    <2>6. QED
      BY <1>1, <2>5
  <1>4. QED
    BY <1>2, <1>3

LEMMA SumsForm ==
    ASSUME NEW ids, NEW n \in Nat, NEW f, Sums(f, ids, n)
    PROVE  /\ f[1..0] = 0
           /\ \A k \in 1..n : f[1..k] = f[1..(k - 1)] + ids[k].accepted
  <1>1. f[{}] = 0 /\ 1..0 = {}
    BY DEF Sums
  <1>2. ASSUME NEW k \in 1..n PROVE f[1..k] = f[1..(k - 1)] + ids[k].accepted
    <2>1. 1..k \in SUBSET (1..n) /\ k \in 1..k /\ 1..k # {}
      OBVIOUS
    <2>2. Max(1..k) = k
      BY LastIsMax
    <2>3. (1..k) \ {k} = 1..(k - 1)
      OBVIOUS
    <2>4. f[1..k] = f[(1..k) \ {Max(1..k)}] + ids[Max(1..k)].accepted
      BY <2>1 DEF Sums
    <2>5. QED
      BY <2>2, <2>3, <2>4
  <1>3. QED
    BY <1>1, <1>2

LEMMA TotalForm ==
    ASSUME NEW ids \in Seq(Runs)
    PROVE  \E f : Sums(f, ids, Len(ids)) /\ Total(ids) = f[1..Len(ids)]
  <1>1. Len(ids) \in Nat /\ DOMAIN ids = 1..Len(ids)
    OBVIOUS
  <1> DEFINE f == CHOOSE g : Sums(g, ids, Len(ids))
  <1>2. Sums(f, ids, Len(ids))
    BY <1>1, SumsExist
  <1>3. Total(ids) = f[1..Len(ids)]
    BY <1>1 DEF Total, FoldLeft, MapThenFoldSet, Sums
  <1>4. QED
    BY <1>2, <1>3

\* A run more adds what it accepted.
LEMMA TotalGrows ==
    ASSUME NEW ids \in Seq(Runs), NEW r \in Runs
    PROVE  Total(Append(ids, r)) = Total(ids) + r.accepted
  <1> DEFINE n == Len(ids)
             more == Append(ids, r)
  <1>1. /\ n \in Nat /\ more \in Seq(Runs) /\ Len(more) = n + 1
        /\ \A i \in 1..n : more[i] = ids[i]
        /\ more[n + 1] = r
    BY AppendProperties
  <1> HIDE DEF n, more
  <1>2. PICK f : Sums(f, ids, n) /\ Total(ids) = f[1..n]
    BY TotalForm DEF n
  <1>3. PICK g : Sums(g, more, n + 1) /\ Total(more) = g[1..(n + 1)]
    BY <1>1, TotalForm
  <1>4. /\ f[1..0] = 0 /\ \A k \in 1..n : f[1..k] = f[1..(k - 1)] + ids[k].accepted
        /\ g[1..0] = 0 /\ \A k \in 1..(n + 1) : g[1..k] = g[1..(k - 1)] + more[k].accepted
    BY <1>1, <1>2, <1>3, SumsForm
  <1> DEFINE W == {k \in 0..n : f[1..k] # g[1..k]}
  <1>5. W = {}
    <2> SUFFICES ASSUME W # {} PROVE FALSE
      OBVIOUS
    <2>1. W \subseteq Nat
      BY <1>1
    <2>2. PICK k \in W : \A y \in W : k <= y
      BY <2>1, LeastElement
    <2>3. CASE k = 0
      BY <1>4, <2>2, <2>3
    <2>4. CASE k # 0
      <3>1. k \in 1..n /\ k \in 1..(n + 1) /\ k - 1 \in 0..n /\ k - 1 \notin W
        BY <1>1, <2>2, <2>4
      <3>2. QED
        BY <1>1, <1>4, <2>2, <3>1
    <2>5. QED
      BY <2>3, <2>4
  <1>6. f[1..n] = g[1..n]
    BY <1>1, <1>5
  <1>7. g[1..(n + 1)] = g[1..(n + 1 - 1)] + more[n + 1].accepted /\ n + 1 - 1 = n
    BY <1>1, <1>4
  <1>8. QED
    BY <1>1, <1>2, <1>3, <1>6, <1>7 DEF more

LEMMA TotalOfNone == Total(<<>>) = 0
  <1>1. <<>> \in Seq(Runs) /\ Len(<<>>) = 0
    OBVIOUS
  <1>2. PICK f : Sums(f, <<>>, 0) /\ Total(<<>>) = f[1..0]
    BY <1>1, TotalForm
  <1>3. QED
    BY <1>2, SumsForm

\* The invariant of the sum: a call that begins leaves both as they are, and
\* the one that counts a run adds it to both.
LEMMA StepCounts == IInv /\ CountsMatch /\ [Next]_vars => CountsMatch'
  <1> SUFFICES ASSUME IInv, CountsMatch, [Next]_vars PROVE CountsMatch'
    OBVIOUS
  <1>1. row.accepted = Total(row.run_ids)
    BY DEF CountsMatch, Total
  <1>2. row'.accepted = Total(row'.run_ids)
    <2>1. CASE row' = row
      BY <1>1, <2>1
    <2>2. ASSUME NEW c \in Calls, BeginOrLoad(c) PROVE row'.accepted = Total(row'.run_ids)
      BY <1>1, <2>2, BeginKeeps DEF IInv
    <2>3. ASSUME NEW c \in Calls, Advance(c), Holds(c)
          PROVE  row'.accepted = Total(row'.run_ids)
      <3>1. pc[c] = "advance"
        BY <2>3 DEF Advance
      <3>2. PICK r \in runs : result[c] = {r} /\ Answers(r, c)
        BY <3>1 DEF ResultAnswers, IInv
      <3>3. row' = Advanced(c, r)
        BY <2>3, <3>2 DEF Advance
      <3>4. /\ r \in Runs /\ row.run_ids \in Seq(Runs)
            /\ row'.run_ids = Append(row.run_ids, r)
            /\ row'.accepted = row.accepted + r.accepted
        BY <2>3, <3>1, <3>2, <3>3, AdvanceHolds
      <3>5. Total(row'.run_ids) = Total(row.run_ids) + r.accepted
        BY <3>4, TotalGrows
      <3>6. QED
        BY <1>1, <3>4, <3>5
    <2>4. QED
      BY <2>1, <2>2, <2>3 DEF Next, Step, Execute, ExecuteFails, Crash, Advance, vars
  <1>3. QED
    BY <1>2 DEF CountsMatch, Total, FoldLeft, MapThenFoldSet

\* The records a task reports are those of the runs it counted, however often
\* a run is replayed after a crash (Advanced, Counted).
THEOREM CountsAgree == Spec => []CountsMatch
  <1>1. Init => CountsMatch
    <2> SUFFICES ASSUME Init PROVE CountsMatch
      OBVIOUS
    <2>1. row.run_ids = <<>> /\ row.accepted = 0
      BY DEF Init, NoRow
    <2>2. QED
      BY <2>1, TotalOfNone DEF CountsMatch, Total
  <1>2. QED
    BY <1>1, StepCounts, Invariant, PTL DEF Spec
=============================================================================
