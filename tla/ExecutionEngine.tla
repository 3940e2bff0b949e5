--------------------------- MODULE ExecutionEngine ---------------------------
(***************************************************************************)
(* The order-execution pipeline of trading_service: the HTTP handler       *)
(* POST /orders (app.py), ExecutionEngine.submit_order and cancel_order,   *)
(* update_order_status, and the repository rows they read and write.      *)
(*                                                                         *)
(* Every await on the repository or the broker is a suspension point of   *)
(* the asyncio event loop, so each one ends an atomic step.  submit_order *)
(* runs under the engine's asyncio.Lock; cancel_order does not take it.   *)
(* update_order_status reads the row (get_order), validates the           *)
(* transition, and writes it (repo.update_order) in two separate awaits. *)
(*                                                                         *)
(* The broker is abstracted to the state of each order at the venue; the  *)
(* risk check to its verdict (the risk engine has a module of its own).   *)
(* Each order is created by one HTTP request with a fresh uuid4 id and     *)
(* client_order_id, so an order and its request are identified.           *)
(***************************************************************************)
EXTENDS Naturals, Sequences

CONSTANTS
  Orders,       \* the orders, one per POST /orders request
  NoHolder,     \* value of the engine lock when it is free
  MaxDbFaults   \* bound on repository calls that exhaust their retries

ASSUME NoHolderAssumption == NoHolder \notin Orders
ASSUME MaxDbFaultsAssumption == MaxDbFaults \in Nat

VARIABLES
  dbStatus,     \* status column of each order row, Absent before insert
  dbVersion,    \* version column of each order row
  broker,       \* state of each order at the broker venue
  deal,         \* the broker response of the submit carried a deal
  lock,         \* holder of ExecutionEngine._lock
  pc,           \* where each request (handler + submit_order) is
  cpc,          \* where each cancel_order call is
  csnap,        \* status of the Order cancel_order hydrated at its start
  events,       \* lifecycle events emitted for each order, in order
  resp,         \* status of the order the HTTP handler returned
  qtyPositive,  \* input: the request's quantity is > 0
  dbFaults      \* repository calls that raised so far

vars == <<dbStatus, dbVersion, broker, deal, lock, pc, cpc, csnap, events,
          resp, qtyPositive, dbFaults>>

-----------------------------------------------------------------------------
(* OrderStatus and ExecutionEngine.VALID_TRANSITIONS (engine.py 14-22,     *)
(* 73-82).                                                                 *)

Status == {"PENDING", "VALIDATED", "SUBMITTED", "PARTIAL", "FILLED",
           "REJECTED", "CANCELED", "EXPIRED"}
Absent == "ABSENT"

VALID_TRANSITIONS(s) ==
  CASE s = "PENDING"   -> {"VALIDATED", "REJECTED", "CANCELED"}
    [] s = "VALIDATED" -> {"SUBMITTED", "REJECTED", "CANCELED"}
    [] s = "SUBMITTED" -> {"PARTIAL", "FILLED", "REJECTED", "CANCELED",
                           "EXPIRED"}
    [] s = "PARTIAL"   -> {"FILLED", "CANCELED", "REJECTED", "EXPIRED"}
    [] OTHER           -> {}

\* The check of update_order_status: a listed transition, or no change.
TransitionAllowed(from, to) == to \in VALID_TRANSITIONS(from) \/ to = from

\* Statuses from which cancel_order proceeds.
Cancelable == {"PENDING", "VALIDATED", "SUBMITTED", "PARTIAL"}

BrokerState == {"none", "open", "filled", "canceled"}
EventName == {"order_created", "order_updated", "order_filled",
              "order_rejected", "order_canceled"}
\* An emitted event: its name and the status in its serialized payload.
Event == [ev : EventName, st : Status]
HttpError == "HTTP_400"

\* The update_order_status calls of submit_order: the read step, the write
\* step that follows it, and the status they set.
ReadTarget == [valRead |-> "VALIDATED", subRead |-> "SUBMITTED",
               fillRead |-> "FILLED", rejRead |-> "REJECTED"]
WriteOf == [valRead |-> "valWrite", subRead |-> "subWrite",
            fillRead |-> "fillWrite", rejRead |-> "rejWrite"]

SubmitPc == {"save", "acquire", "risk", "created", "send", "done"}
              \cup DOMAIN ReadTarget \cup {WriteOf[r] : r \in DOMAIN WriteOf}
CancelPc == {"idle", "broker", "read", "write", "done"}

-----------------------------------------------------------------------------
Init ==
  /\ dbStatus = [o \in Orders |-> Absent]
  /\ dbVersion = [o \in Orders |-> 0]
  /\ broker = [o \in Orders |-> "none"]
  /\ deal = [o \in Orders |-> FALSE]
  /\ lock = NoHolder
  /\ pc = [o \in Orders |-> "save"]
  /\ cpc = [o \in Orders |-> "idle"]
  /\ csnap = [o \in Orders |-> "PENDING"]
  /\ events = [o \in Orders |-> <<>>]
  /\ resp = [o \in Orders |-> Absent]
  /\ qtyPositive \in [Orders -> BOOLEAN]
  /\ dbFaults = 0

-----------------------------------------------------------------------------
(* Helpers shared by the steps.                                            *)

\* repo.update_order: the row takes the new status and its version is
\* bumped; then _emit("order_updated"), and _emit("order_rejected") for
\* REJECTED.
Commit(o, s) ==
  /\ dbStatus' = [dbStatus EXCEPT ![o] = s]
  /\ dbVersion' = [dbVersion EXCEPT ![o] = @ + 1]

UpdatedEvents(s) ==
  <<[ev |-> "order_updated", st |-> s]>>
    \o (IF s = "REJECTED" THEN <<[ev |-> "order_rejected", st |-> s]>>
                          ELSE <<>>)

\* A repository call exhausts _execute_retry and raises.
DbFault == dbFaults < MaxDbFaults /\ dbFaults' = dbFaults + 1

\* A variant of Return that leaves the engine lock held (an explicit
\* acquire whose release is skipped on return), to confirm that
\* EveryRequestReturns detects a lock leak.
ReturnKeepLock(o) ==
  /\ pc' = [pc EXCEPT ![o] = "done"]
  /\ lock' = lock
  /\ resp' = [resp EXCEPT ![o] = "PENDING"]

\* submit_order returns `order`: the caller's object, whose status the
\* engine never assigns (it updates hydrated copies); the async-with
\* releases the lock; the handler serializes the order.
Return(o) ==
  /\ pc' = [pc EXCEPT ![o] = "done"]
  /\ lock' = NoHolder
  /\ resp' = [resp EXCEPT ![o] = "PENDING"]

\* An exception leaves submit_order (releasing the lock) and the handler
\* answers 400.
Raise(o) ==
  /\ pc' = [pc EXCEPT ![o] = "done"]
  /\ lock' = IF lock = o THEN NoHolder ELSE lock
  /\ resp' = [resp EXCEPT ![o] = HttpError]

-----------------------------------------------------------------------------
(* POST /orders and submit_order.                                          *)

\* The handler builds the Order (PENDING) and calls repository.save_order:
\* no row has its fresh client_order_id, so the row is inserted, version 1.
HandlerSave(o) ==
  /\ pc[o] = "save"
  /\ \/ /\ dbStatus' = [dbStatus EXCEPT ![o] = "PENDING"]
        /\ dbVersion' = [dbVersion EXCEPT ![o] = 1]
        /\ pc' = [pc EXCEPT ![o] = "acquire"]
        /\ UNCHANGED <<lock, resp, dbFaults>>
     \/ /\ DbFault
        /\ Raise(o)
        /\ UNCHANGED <<dbStatus, dbVersion>>
  /\ UNCHANGED <<broker, deal, cpc, csnap, events, qtyPositive>>

\* async with self._lock; order.status is PENDING (the caller's object);
\* a quantity <= 0 goes to the REJECTED update.
Acquire(o) ==
  /\ pc[o] = "acquire"
  /\ lock = NoHolder
  /\ lock' = o
  /\ pc' = [pc EXCEPT ![o] = IF qtyPositive[o] THEN "risk" ELSE "rejRead"]
  /\ UNCHANGED <<dbStatus, dbVersion, broker, deal, cpc, csnap, events,
                 resp, qtyPositive, dbFaults>>

\* get_account_info, get_positions and risk_engine.pre_trade_check.
RiskCheck(o) ==
  /\ pc[o] = "risk"
  /\ \E approved \in BOOLEAN :
       pc' = [pc EXCEPT ![o] = IF approved THEN "valRead" ELSE "rejRead"]
  /\ UNCHANGED <<dbStatus, dbVersion, broker, deal, lock, cpc, csnap, events,
                 resp, qtyPositive, dbFaults>>

\* update_order_status, first half: get_order and the transition check,
\* which raises ValueError on a missing row or a disallowed transition.
SubmitRead(o) ==
  /\ pc[o] \in DOMAIN ReadTarget
  /\ \/ /\ dbStatus[o] # Absent
        /\ TransitionAllowed(dbStatus[o], ReadTarget[pc[o]])
        /\ pc' = [pc EXCEPT ![o] = WriteOf[pc[o]]]
        /\ UNCHANGED <<lock, resp>>
     \/ /\ ~(dbStatus[o] # Absent
             /\ TransitionAllowed(dbStatus[o], ReadTarget[pc[o]]))
        /\ Raise(o)
  /\ UNCHANGED <<dbStatus, dbVersion, broker, deal, cpc, csnap, events,
                 qtyPositive, dbFaults>>

\* update_order_status, second half, for VALIDATED: the write; submit
\* then goes on to save_order and order_created.
ValidateWrite(o) ==
  /\ pc[o] = "valWrite"
  /\ Commit(o, "VALIDATED")
  /\ events' = [events EXCEPT ![o] = @ \o UpdatedEvents("VALIDATED")]
  /\ pc' = [pc EXCEPT ![o] = "created"]
  /\ UNCHANGED <<broker, deal, lock, cpc, csnap, resp, qtyPositive, dbFaults>>

\* repo.save_order(order.to_dict()): the client_order_id exists, so no
\* change; then _emit("order_created") with the caller's (PENDING) order.
Created(o) ==
  /\ pc[o] = "created"
  /\ \/ /\ events' = [events EXCEPT ![o] =
                        Append(@, [ev |-> "order_created", st |-> "PENDING"])]
        /\ pc' = [pc EXCEPT ![o] = "send"]
        /\ UNCHANGED <<lock, resp, dbFaults>>
     \/ /\ DbFault
        /\ Raise(o)
        /\ UNCHANGED events
  /\ UNCHANGED <<dbStatus, dbVersion, broker, deal, cpc, csnap, qtyPositive>>

\* connector.execute_order: a failed validation or a retcode outside the
\* success set is ok:false (REJECTED update); a success retcode places the
\* order, and the result carries a deal when it was executed at once.
Send(o) ==
  /\ pc[o] = "send"
  /\ \/ /\ pc' = [pc EXCEPT ![o] = "rejRead"]
        /\ UNCHANGED <<broker, deal>>
     \/ \E d \in BOOLEAN :
          /\ broker' = [broker EXCEPT ![o] = IF d THEN "filled" ELSE "open"]
          /\ deal' = [deal EXCEPT ![o] = d]
          /\ pc' = [pc EXCEPT ![o] = "subRead"]
  /\ UNCHANGED <<dbStatus, dbVersion, lock, cpc, csnap, events, resp,
                 qtyPositive, dbFaults>>

\* The SUBMITTED write; with a deal submit goes on to the FILLED update,
\* otherwise it returns.
SubmittedWrite(o) ==
  /\ pc[o] = "subWrite"
  /\ Commit(o, "SUBMITTED")
  /\ events' = [events EXCEPT ![o] = @ \o UpdatedEvents("SUBMITTED")]
  /\ IF deal[o]
       THEN pc' = [pc EXCEPT ![o] = "fillRead"] /\ UNCHANGED <<lock, resp>>
       ELSE Return(o)
  /\ UNCHANGED <<broker, deal, cpc, csnap, qtyPositive, dbFaults>>

\* The FILLED write, then _emit("order_filled") with the caller's order.
FilledWrite(o) ==
  /\ pc[o] = "fillWrite"
  /\ Commit(o, "FILLED")
  /\ events' = [events EXCEPT ![o] =
                  @ \o UpdatedEvents("FILLED")
                    \o <<[ev |-> "order_filled", st |-> "PENDING"]>>]
  /\ Return(o)
  /\ UNCHANGED <<broker, deal, cpc, csnap, qtyPositive, dbFaults>>

\* The REJECTED write (quantity, risk denial or broker failure); returns.
RejectWrite(o) ==
  /\ pc[o] = "rejWrite"
  /\ Commit(o, "REJECTED")
  /\ events' = [events EXCEPT ![o] = @ \o UpdatedEvents("REJECTED")]
  /\ Return(o)
  /\ UNCHANGED <<broker, deal, cpc, csnap, qtyPositive, dbFaults>>

\* repo.update_order exhausts its retries: the exception leaves submit.
SubmitWriteFault(o) ==
  /\ pc[o] \in {"valWrite", "subWrite", "fillWrite", "rejWrite"}
  /\ DbFault
  /\ Raise(o)
  /\ UNCHANGED <<dbStatus, dbVersion, broker, deal, cpc, csnap, events,
                 qtyPositive>>

-----------------------------------------------------------------------------
(* cancel_order, called without the engine lock.                          *)

\* A variant of CancelCall that hydrates a row that is not there, to
\* confirm that TypeOK detects it.
CancelCallNoCheck(o) ==
  /\ cpc[o] = "idle"
  /\ cpc' = [cpc EXCEPT ![o] =
               IF dbStatus[o] \in Cancelable THEN "broker" ELSE "done"]
  /\ csnap' = [csnap EXCEPT ![o] = dbStatus[o]]
  /\ UNCHANGED <<dbStatus, dbVersion, broker, deal, lock, pc, events, resp,
                 qtyPositive, dbFaults>>

\* get_order: no row, or a status outside Cancelable, returns False.
CancelCall(o) ==
  /\ cpc[o] = "idle"
  /\ cpc' = [cpc EXCEPT ![o] =
               IF dbStatus[o] \in Cancelable THEN "broker" ELSE "done"]
  /\ csnap' = [csnap EXCEPT ![o] =
                 IF dbStatus[o] \in Status THEN dbStatus[o] ELSE @]
  /\ UNCHANGED <<dbStatus, dbVersion, broker, deal, lock, pc, events, resp,
                 qtyPositive, dbFaults>>

\* A variant of CancelBroker that goes on to the CANCELED update whatever
\* the broker answered (a dropped `if ok`), to confirm that
\* BrokerAgreement detects it.
CancelBrokerIgnoreResult(o) ==
  /\ cpc[o] = "broker"
  /\ broker' = [broker EXCEPT ![o] = IF @ = "open" THEN "canceled" ELSE @]
  /\ cpc' = [cpc EXCEPT ![o] = "read"]
  /\ UNCHANGED <<dbStatus, dbVersion, deal, lock, pc, csnap, events, resp,
                 qtyPositive, dbFaults>>

\* connector.cancel_order: only an order resting at the broker can be
\* removed, and the broker may refuse; on failure cancel returns False.
CancelBroker(o) ==
  /\ cpc[o] = "broker"
  /\ \/ /\ broker[o] = "open"
        /\ broker' = [broker EXCEPT ![o] = "canceled"]
        /\ cpc' = [cpc EXCEPT ![o] = "read"]
     \/ /\ cpc' = [cpc EXCEPT ![o] = "done"]
        /\ UNCHANGED broker
  /\ UNCHANGED <<dbStatus, dbVersion, deal, lock, pc, csnap, events, resp,
                 qtyPositive, dbFaults>>

\* update_order_status(CANCELED), first half; a raise ends the call.
CancelRead(o) ==
  /\ cpc[o] = "read"
  /\ cpc' = [cpc EXCEPT ![o] =
               IF dbStatus[o] # Absent
                  /\ TransitionAllowed(dbStatus[o], "CANCELED")
               THEN "write" ELSE "done"]
  /\ UNCHANGED <<dbStatus, dbVersion, broker, deal, lock, pc, csnap, events,
                 resp, qtyPositive, dbFaults>>

\* The CANCELED write, then _emit("order_canceled") with the order read at
\* the start of cancel_order.
CancelWrite(o) ==
  /\ cpc[o] = "write"
  /\ \/ /\ Commit(o, "CANCELED")
        /\ events' = [events EXCEPT ![o] =
                        @ \o UpdatedEvents("CANCELED")
                          \o <<[ev |-> "order_canceled", st |-> csnap[o]]>>]
        /\ UNCHANGED dbFaults
     \/ /\ DbFault
        /\ UNCHANGED <<dbStatus, dbVersion, events>>
  /\ cpc' = [cpc EXCEPT ![o] = "done"]
  /\ UNCHANGED <<broker, deal, lock, pc, csnap, resp, qtyPositive>>

-----------------------------------------------------------------------------
(* The venue executes a resting (LIMIT/STOP) order on its own.             *)
BrokerFill(o) ==
  /\ broker[o] = "open"
  /\ broker' = [broker EXCEPT ![o] = "filled"]
  /\ UNCHANGED <<dbStatus, dbVersion, deal, lock, pc, cpc, csnap, events,
                 resp, qtyPositive, dbFaults>>

-----------------------------------------------------------------------------
SubmitStep(o) ==
  \/ HandlerSave(o) \/ RiskCheck(o) \/ SubmitRead(o) \/ ValidateWrite(o)
  \/ Created(o) \/ Send(o) \/ SubmittedWrite(o) \/ FilledWrite(o)
  \/ RejectWrite(o) \/ SubmitWriteFault(o)

CancelStep(o) == CancelBroker(o) \/ CancelRead(o) \/ CancelWrite(o)

Next ==
  \E o \in Orders :
    \/ SubmitStep(o) \/ Acquire(o)
    \/ CancelCall(o) \/ CancelStep(o)
    \/ BrokerFill(o)

\* The event loop runs every ready task (weak fairness); asyncio.Lock
\* hands the lock to its waiters in FIFO order (strong fairness).  A
\* cancel_order call and the venue's fills are up to the environment.
Fairness ==
  \A o \in Orders :
    /\ WF_vars(SubmitStep(o))
    /\ SF_vars(Acquire(o))
    /\ WF_vars(CancelStep(o))

Spec == Init /\ [][Next]_vars /\ Fairness

-----------------------------------------------------------------------------
(* Properties.                                                             *)

TypeOK ==
  /\ dbStatus \in [Orders -> Status \cup {Absent}]
  /\ dbVersion \in [Orders -> Nat]
  /\ broker \in [Orders -> BrokerState]
  /\ deal \in [Orders -> BOOLEAN]
  /\ lock \in Orders \cup {NoHolder}
  /\ pc \in [Orders -> SubmitPc]
  /\ cpc \in [Orders -> CancelPc]
  /\ csnap \in [Orders -> Status]
  /\ events \in [Orders -> Seq(Event)]
  /\ resp \in [Orders -> {Absent, HttpError, "PENDING"}]
  /\ qtyPositive \in [Orders -> BOOLEAN]
  /\ dbFaults \in 0..MaxDbFaults

\* The order table never contradicts the venue, whatever the interleaving
\* of submit_order, cancel_order and the venue's fills: a row is FILLED
\* only if the broker executed the order, CANCELED only if the broker
\* removed it, and an order that reached the broker is never recorded as
\* PENDING or REJECTED (a ghost order the platform believes was refused).
BrokerAgreementOf(o) ==
  /\ dbStatus[o] = "FILLED" => broker[o] = "filled"
  /\ dbStatus[o] = "CANCELED" => broker[o] = "canceled"
  /\ broker[o] # "none" => dbStatus[o] \notin {"PENDING", "REJECTED"}

\* The order table agrees with the venue on every order.
BrokerAgreement == \A o \in Orders : BrokerAgreementOf(o)

\* BrokerAgreement strengthened to an inductive invariant: what each
\* request and each cancel call knows about the venue at its current step.
\* Before the broker call the venue has not seen the order, and the row is
\* VALIDATED from the VALIDATED write to the broker call; a submit that
\* got a deal saw the order executed; a cancel past its broker call saw it
\* removed.
PreSend == {"save", "acquire", "risk", "valRead", "valWrite", "created",
            "send", "rejRead", "rejWrite"}

StepKnowledge(o) ==
  /\ deal[o] => broker[o] = "filled"
  /\ pc[o] \in {"fillRead", "fillWrite"} => deal[o]
  /\ pc[o] \in PreSend => broker[o] = "none"
  /\ pc[o] \in {"created", "send"} => dbStatus[o] = "VALIDATED"
  /\ cpc[o] \in {"read", "write"} => broker[o] = "canceled"

IInv ==
  /\ TypeOK
  /\ \A o \in Orders : BrokerAgreementOf(o) /\ StepKnowledge(o)

\* Every POST /orders request returns (the engine lock is always released
\* and waiters acquire it), whatever cancel_order calls run beside it.
EveryRequestReturns == \A o \in Orders : <>(pc[o] = "done")

\* Spec 4.3 and 8: an order's stored status changes only along the
\* transition matrix; once terminal it is never changed again.  The
\* unlocked cancel_order and submit_order both read, validate and then
\* write, so one write can land on the other.
StatusFollowsMatrix ==
  [][\A o \in Orders :
       (dbStatus[o] # Absent /\ dbStatus'[o] # dbStatus[o])
          => dbStatus'[o] \in VALID_TRANSITIONS(dbStatus[o])]_dbStatus

\* Spec 8, scenarios 1 and 2: order_created is the first lifecycle event
\* of an order, before any order_updated.
CreatedFirst ==
  \A o \in Orders :
    (\E i \in DOMAIN events[o] : events[o][i].ev = "order_created")
       => events[o][1].ev = "order_created"

\* Spec 8 scenario 1 and tests/trading/test_execution_engine.py: the order
\* the handler returns after submit_order carries the outcome, its status
\* in the order table.
ReturnedOrderCurrent ==
  [][\A o \in Orders :
       (pc[o] # "done" /\ pc'[o] = "done" /\ resp'[o] # HttpError)
          => resp'[o] = dbStatus'[o]]_vars

\* Spec 3 and 7: an execution at the broker is eventually recorded in the
\* order table (by a fill callback or by reconciliation).
BrokerFillRecorded ==
  \A o \in Orders : broker[o] = "filled" ~> dbStatus[o] = "FILLED"


=============================================================================
