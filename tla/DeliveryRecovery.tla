-------------------------- MODULE DeliveryRecovery --------------------------
(***************************************************************************)
(* Manual delivery recovery: services/delivery_recovery.py, which wraps    *)
(* ReportDeliveryService.retry in an audited operator action.              *)
(*                                                                         *)
(* The caller of the operations API picks a request ID (X-Request-ID) and  *)
(* repeats it when a response is lost; delivery_operator_actions holds one *)
(* row per request ID.  The module composes the action rows with           *)
(* ReportDelivery: an operator's manual retry runs inside its action,      *)
(* beside the automatic senders of the scheduler.                          *)
(***************************************************************************)
EXTENDS ReportDelivery

CONSTANT Requests       \* request IDs the operators use

VARIABLES
    action,     \* action[r]: the delivery_operator_actions row of request r
    opc,        \* opc[o]: the statement of DeliveryRecoveryService.retry o is at
    req,        \* req[o]: the request o is handling and its confirmation
    inspected,  \* inspected[o]: the delivery attempt o last inspected
    authorised  \* history: sends authorised under each request ID

rvars == <<action, opc, req, inspected, authorised>>

ActionStatuses == {"none", "pending", "succeeded", "rejected", "failed"}
Actions == [status : ActionStatuses, prior_attempt_no : Nat, confirmed : BOOLEAN]
NoAction == [status |-> "none", prior_attempt_no |-> 0, confirmed |-> FALSE]

\* The ID of no request: operator thread o serves none.
CONSTANT Nobody
ASSUME NobodyAssumption == Nobody \notin Requests

NoRequest == [id |-> Nobody, confirmed |-> FALSE]

RInit ==
    /\ Init
    /\ action     = [r \in Requests |-> NoAction]
    /\ opc        = [o \in Operators |-> "idle"]
    /\ req        = [o \in Operators |-> NoRequest]
    /\ inspected  = [o \in Operators |-> NoRow]
    /\ authorised = [r \in Requests |-> 0]

RGoto(o, label) == opc' = [opc EXCEPT ![o] = label]

\* The call of o ends: with it go its locals.
Answer(o) ==
    /\ RGoto(o, "idle")
    /\ req' = [req EXCEPT ![o] = NoRequest]
    /\ inspected' = [inspected EXCEPT ![o] = NoRow]

----------------------------------------------------------------------------
\* load_for_request: an action that exists is answered with, after a
\* reconciliation if it is pending; one bound to another confirmation is a
\* conflict.
LookUp(o, q) ==
    LET known == action[q.id] IN
    /\ CASE known.status = "none" ->
              RGoto(o, "inspect") /\ req' = [req EXCEPT ![o] = q] /\ UNCHANGED inspected
         [] /\ known.status = "pending"
            /\ known.confirmed = q.confirmed
            /\ known.prior_attempt_no > 0 ->
              RGoto(o, "reconcile") /\ req' = [req EXCEPT ![o] = q] /\ UNCHANGED inspected
         [] OTHER -> Answer(o)
    /\ UNCHANGED <<vars, action, authorised>>

\* An API call, or a network retry of one, arrives at operator thread o.
Request(o, r, conf) == opc[o] = "idle" /\ LookUp(o, [id |-> r, confirmed |-> conf])

\* The reservation lost a race: the winner's action is read.
LookUpWinner(o) == opc[o] = "lookup" /\ LookUp(o, req[o])

\* ReportDeliveryService.inspect: the published report's attempt as it is now.
Inspection == row

\* inspect: the attempt is to be written into the action.
Inspect(o) ==
    /\ opc[o] = "inspect"
    /\ inspected' = [inspected EXCEPT ![o] = Inspection]
    /\ RGoto(o, "reserve")
    /\ UNCHANGED <<vars, action, req, authorised>>

\* reserve: INSERT ... ON CONFLICT (request_id) DO NOTHING.
ReserveOverwrites(o) ==
    /\ opc[o] = "reserve"
    /\ action' = [action EXCEPT ![req[o].id] =
                    [status |-> "pending",
                     prior_attempt_no |-> inspected[o].attempt_no,
                     confirmed |-> req[o].confirmed]]
    /\ RGoto(o, IF inspected[o].status = "absent" THEN "missing" ELSE "retry")
    /\ UNCHANGED <<vars, req, inspected, authorised>>

Reserve(o) ==
    /\ opc[o] = "reserve"
    /\ IF action[req[o].id].status = "none"
       THEN /\ action' = [action EXCEPT ![req[o].id] =
                            [status |-> "pending",
                             prior_attempt_no |-> inspected[o].attempt_no,
                             confirmed |-> req[o].confirmed]]
            /\ RGoto(o, IF inspected[o].status = "absent" THEN "missing" ELSE "retry")
       ELSE /\ RGoto(o, "lookup")
            /\ UNCHANGED action
    /\ UNCHANGED <<vars, req, inspected, authorised>>

\* delivery.retry begins; it loads the attempt again.
StartRetry(o) ==
    /\ opc[o] = "retry"
    /\ LoadForRetry(o, req[o].confirmed)
    /\ RGoto(o, "retrying")
    /\ UNCHANGED <<action, req, inspected, authorised>>

\* delivery.retry goes on, statement by statement.
Authorises(o) == pc[o] = "authorize" /\ pc'[o] = "send"

Retrying(o) ==
    /\ opc[o] = "retrying"
    /\ Proceed(o)
    /\ authorised' = IF Authorises(o)
                     THEN [authorised EXCEPT ![req[o].id] = @ + 1]
                     ELSE authorised
    /\ UNCHANGED <<action, opc, req, inspected>>

\* A statement of delivery.retry raises; the operator boundary catches it.
RetryRaises(o) ==
    /\ opc[o] = "retrying"
    /\ Crash(o)
    /\ RGoto(o, "raised")
    /\ UNCHANGED <<action, req, inspected, authorised>>

----------------------------------------------------------------------------
\* complete: UPDATE ... WHERE action_id = ... AND status = 'pending'.
SettleAnyStatus(r, status) == action' = [action EXCEPT ![r].status = status]

SettleAction(r, status) ==
    action' = IF action[r].status = "pending"
              THEN [action EXCEPT ![r].status = status]
              ELSE action

\* The verdict the call records about itself.
VerdictIgnoresStatus(o) ==
    CASE opc[o] = "missing"                              -> "rejected"
      [] opc[o] = "retrying" /\ pc[o] = "refused"        -> "rejected"
      [] opc[o] = "retrying" /\ pc[o] = "returned"       -> "succeeded"
      [] OTHER                                           -> "failed"

VerdictRejectsRaised(o) ==
    CASE opc[o] \in {"missing", "raised"}                -> "rejected"
      [] opc[o] = "retrying" /\ pc[o] = "refused"        -> "rejected"
      [] attempt[o].status = "succeeded"                 -> "succeeded"
      [] OTHER                                           -> "failed"

Verdict(o) ==
    CASE opc[o] = "missing"                              -> "rejected"
      [] opc[o] = "retrying" /\ pc[o] = "refused"        -> "rejected"
      [] opc[o] = "retrying" /\ attempt[o].status = "succeeded" -> "succeeded"
      [] OTHER                                           -> "failed"

Complete(o) ==
    /\ \/ opc[o] \in {"missing", "raised"} /\ UNCHANGED vars
       \/ opc[o] = "retrying" /\ TakeResult(o)
    /\ SettleAction(req[o].id, Verdict(o))
    /\ Answer(o)
    /\ UNCHANGED authorised

\* _reconcile_pending: a later attempt than the audited one, whoever made it,
\* settles the action; a pending or unchanged one leaves it pending.
Reconcile(o) ==
    /\ opc[o] = "reconcile"
    /\ IF /\ Inspection.attempt_no > action[req[o].id].prior_attempt_no
          /\ Inspection.status # "pending"
       THEN /\ inspected' = [inspected EXCEPT ![o] = Inspection]
            /\ RGoto(o, "settle")
            /\ UNCHANGED req
       ELSE Answer(o)
    /\ UNCHANGED <<vars, action, authorised>>

SettleReconciled(o) ==
    /\ opc[o] = "settle"
    /\ SettleAction(req[o].id,
                    IF inspected[o].status = "succeeded" THEN "succeeded" ELSE "failed")
    /\ Answer(o)
    /\ UNCHANGED <<vars, authorised>>

\* The API process dies, or the client goes away, between two statements.
OperatorCrash(o) ==
    /\ opc[o] # "idle"
    /\ Answer(o)
    /\ IF pc[o] = "idle" THEN UNCHANGED vars ELSE Crash(o)
    /\ UNCHANGED <<action, authorised>>

----------------------------------------------------------------------------
Handle(o) ==
    \/ LookUpWinner(o) \/ Inspect(o) \/ Reserve(o) \/ StartRetry(o) \/ Retrying(o)
    \/ Complete(o) \/ Reconcile(o) \/ SettleReconciled(o)

Automatic(s) == (Deliver(s) \/ Continue(s) \/ Crash(s)) /\ UNCHANGED rvars

RNext ==
    \/ \E o \in Operators, r \in Requests, conf \in BOOLEAN : Request(o, r, conf)
    \/ \E o \in Operators : Handle(o) \/ RetryRaises(o) \/ OperatorCrash(o)
    \/ \E s \in Senders : Automatic(s)

RSpec == RInit /\ [][RNext]_<<vars, rvars>>

----------------------------------------------------------------------------
(* Properties *)

\* Types of the action rows and of the calls that handle them.
RTypeOK ==
    /\ TypeOK
    /\ action \in [Requests -> Actions]
    /\ opc \in [Operators -> {"idle", "lookup", "inspect", "reserve", "missing", "retry",
                              "retrying", "raised", "reconcile", "settle"}]
    /\ req \in [Operators -> [id : Requests \cup {Nobody}, confirmed : BOOLEAN]]
    /\ inspected \in [Operators -> Rows]
    /\ authorised \in [Requests -> Nat]

\* A request ID buys one send at most, however often it is repeated, by
\* however many callers at once, before, during and after a crash.
OneSendPerRequest == \A r \in Requests : authorised[r] <= 1

\* The operator's audit agrees with what happened: success is recorded only
\* for a delivered report, and a rejected request authorised no send.
ActionTellsTheTruth ==
    \A r \in Requests :
        /\ action[r].status = "succeeded" => row.status = "succeeded" /\ chat > 0
        /\ action[r].status = "rejected"  => authorised[r] = 0

\* What a request was answered with is never rewritten, not by a slow first
\* call that outlives the reconciliation of its own replay.
ActionOutcomeIsFinal ==
    [][ \A r \in Requests :
          action[r].status \in {"succeeded", "rejected", "failed"} => action'[r] = action[r]
      ]_action

=============================================================================
