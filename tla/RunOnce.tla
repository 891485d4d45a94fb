------------------------------ MODULE RunOnce ------------------------------
(***************************************************************************)
(* What IngestionRun promises to the calls of JobRunner.execute: the run   *)
(* of one request is decided once, and whoever gets a result gets that     *)
(* one.  Leases, attempts and waiting are out of sight.                    *)
(***************************************************************************)
EXTENDS Naturals

CONSTANT Calls

VARIABLES
    result,     \* the attempt whose result is the run's, 0 while undecided
    answer      \* answer[c]: the attempt whose result call c was given

ovars == <<result, answer>>

OInit == result = 0 /\ answer = [c \in Calls |-> 0]

\* The call that did the work decides the run and returns with its result.
Decide(c) ==
    /\ result = 0
    /\ result' \in Nat \ {0}
    /\ answer' = [answer EXCEPT ![c] = result']

\* Any other call is given what was decided.
Replay(c) ==
    /\ result # 0
    /\ answer[c] = 0
    /\ answer' = [answer EXCEPT ![c] = result]
    /\ UNCHANGED result

ONext == \E c \in Calls : Decide(c) \/ Replay(c)

OSpec == OInit /\ [][ONext]_ovars
=============================================================================
