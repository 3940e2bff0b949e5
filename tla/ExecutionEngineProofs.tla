------------------------ MODULE ExecutionEngineProofs ------------------------
(***************************************************************************)
(* Proofs about ExecutionEngine for every set of orders and every fault   *)
(* bound: the type invariant, and BrokerAgreement through the inductive   *)
(* invariant IInv.                                                         *)
(***************************************************************************)
EXTENDS ExecutionEngine, SequenceTheorems, TLAPS

-----------------------------------------------------------------------------
(* Lemmas on the event log.                                                *)

\* The events appended by an order_updated emission are events.
LEMMA UpdatedEventsType ==
  ASSUME NEW s \in Status
  PROVE  UpdatedEvents(s) \in Seq(Event)
<1>1. [ev |-> "order_updated", st |-> s] \in Event
  BY DEF Event, EventName
<1>2. [ev |-> "order_rejected", st |-> s] \in Event
  BY DEF Event, EventName
<1>3. QED
  BY <1>1, <1>2 DEF UpdatedEvents

\* Appending a sequence of events to a log keeps it a log of events.
LEMMA LogExtend ==
  ASSUME NEW log \in Seq(Event), NEW more \in Seq(Event)
  PROVE  log \o more \in Seq(Event)
BY ConcatProperties

-----------------------------------------------------------------------------
(* Type correctness.                                                       *)

LEMMA InitTypeOK == Init => TypeOK
BY NoHolderAssumption, MaxDbFaultsAssumption
DEF Init, TypeOK, SubmitPc, CancelPc, ReadTarget, WriteOf, BrokerState,
    Status, Absent, HttpError

\* Each step of Next keeps TypeOK.
LEMMA NextTypeOK == TypeOK /\ [Next]_vars => TypeOK'
<1> USE DEF TypeOK
<1> SUFFICES ASSUME TypeOK, [Next]_vars PROVE TypeOK'
  OBVIOUS
<1>0. /\ {"save", "acquire", "risk", "created", "send", "done", "valRead",
          "subRead", "fillRead", "rejRead", "valWrite", "subWrite",
          "fillWrite", "rejWrite"} \subseteq SubmitPc
      /\ DOMAIN ReadTarget = {"valRead", "subRead", "fillRead", "rejRead"}
  BY DEF SubmitPc, ReadTarget, WriteOf
<1>a. DbFault => dbFaults' \in 0..MaxDbFaults
  BY MaxDbFaultsAssumption DEF DbFault
<1>b. ASSUME NEW o \in Orders, Return(o) \/ Raise(o)
      PROVE  /\ pc' \in [Orders -> SubmitPc]
             /\ lock' \in Orders \cup {NoHolder}
             /\ resp' \in [Orders -> {Absent, HttpError, "PENDING"}]
  <2>1. CASE Return(o)
    BY <1>0, <2>1 DEF Return
  <2>2. CASE Raise(o)
    BY <1>0, <2>2 DEF Raise
  <2>3. QED
    BY <1>b, <2>1, <2>2
<1>1. ASSUME NEW o \in Orders, HandlerSave(o) PROVE TypeOK'
  BY <1>0, <1>1, <1>a, <1>b DEF HandlerSave, Status
<1>2. ASSUME NEW o \in Orders, Acquire(o) PROVE TypeOK'
  BY <1>0, <1>2 DEF Acquire
<1>3. ASSUME NEW o \in Orders, RiskCheck(o) PROVE TypeOK'
  BY <1>0, <1>3 DEF RiskCheck
<1>4. ASSUME NEW o \in Orders, SubmitRead(o) PROVE TypeOK'
  <2>1. WriteOf[pc[o]] \in SubmitPc
    BY <1>0, <1>4 DEF SubmitRead, WriteOf
  <2>2. CASE pc' = [pc EXCEPT ![o] = WriteOf[pc[o]]] /\ UNCHANGED <<lock, resp>>
    BY <2>1, <2>2, <1>4 DEF SubmitRead
  <2>3. CASE Raise(o)
    BY <2>3, <1>4, <1>b DEF SubmitRead
  <2>4. QED
    BY <1>4, <2>2, <2>3 DEF SubmitRead
<1>5. ASSUME NEW o \in Orders, ValidateWrite(o) PROVE TypeOK'
  <2>1. events[o] \o UpdatedEvents("VALIDATED") \in Seq(Event)
    BY UpdatedEventsType, LogExtend DEF Status
  <2>2. QED
    BY <1>0, <1>5, <2>1 DEF ValidateWrite, Commit, Status
<1>6. ASSUME NEW o \in Orders, Created(o) PROVE TypeOK'
  <2>1. Append(events[o], [ev |-> "order_created", st |-> "PENDING"])
          \in Seq(Event)
    BY AppendProperties DEF Event, EventName, Status
  <2>2. CASE /\ events' = [events EXCEPT ![o] =
                     Append(@, [ev |-> "order_created", st |-> "PENDING"])]
             /\ pc' = [pc EXCEPT ![o] = "send"]
             /\ UNCHANGED <<lock, resp, dbFaults>>
    BY <1>0, <1>6, <2>1, <2>2 DEF Created
  <2>3. CASE DbFault /\ Raise(o) /\ UNCHANGED events
    BY <1>6, <1>a, <1>b, <2>3 DEF Created
  <2>4. QED
    BY <1>6, <2>2, <2>3 DEF Created
<1>7. ASSUME NEW o \in Orders, Send(o) PROVE TypeOK'
  <2>1. CASE pc' = [pc EXCEPT ![o] = "rejRead"] /\ UNCHANGED <<broker, deal>>
    BY <1>0, <1>7, <2>1 DEF Send
  <2>2. ASSUME NEW d \in BOOLEAN,
               broker' = [broker EXCEPT ![o] = IF d THEN "filled" ELSE "open"],
               deal' = [deal EXCEPT ![o] = d],
               pc' = [pc EXCEPT ![o] = "subRead"]
        PROVE  TypeOK'
    BY <1>0, <1>7, <2>2 DEF Send, BrokerState
  <2>3. QED
    BY <1>7, <2>1, <2>2 DEF Send
<1>8. ASSUME NEW o \in Orders, SubmittedWrite(o) PROVE TypeOK'
  <2>1. events[o] \o UpdatedEvents("SUBMITTED") \in Seq(Event)
    BY UpdatedEventsType, LogExtend DEF Status
  <2>2. CASE deal[o]
    <3>1. pc' = [pc EXCEPT ![o] = "fillRead"] /\ UNCHANGED <<lock, resp>>
      BY <1>8, <2>2, Zenon DEF SubmittedWrite
    <3>2. QED
      BY <1>0, <1>8, <2>1, <3>1 DEF SubmittedWrite, Commit, Status
  <2>3. CASE ~deal[o]
    <3>1. Return(o)
      BY <1>8, <2>3, Zenon DEF SubmittedWrite
    <3>2. QED
      BY <1>8, <1>b, <2>1, <3>1 DEF SubmittedWrite, Commit, Status
  <2>4. QED
    BY <2>2, <2>3
<1>9. ASSUME NEW o \in Orders, FilledWrite(o) PROVE TypeOK'
  <2>1. events[o] \o UpdatedEvents("FILLED")
          \o <<[ev |-> "order_filled", st |-> "PENDING"]>> \in Seq(Event)
    <3>1. <<[ev |-> "order_filled", st |-> "PENDING"]>> \in Seq(Event)
      BY DEF Event, EventName, Status
    <3>2. events[o] \o UpdatedEvents("FILLED") \in Seq(Event)
      BY UpdatedEventsType, LogExtend DEF Status
    <3>3. QED
      BY <3>1, <3>2, LogExtend
  <2>2. QED
    BY <1>0, <1>9, <1>b, <2>1 DEF FilledWrite, Commit, Status
<1>10. ASSUME NEW o \in Orders, RejectWrite(o) PROVE TypeOK'
  <2>1. events[o] \o UpdatedEvents("REJECTED") \in Seq(Event)
    BY UpdatedEventsType, LogExtend DEF Status
  <2>2. QED
    BY <1>0, <1>10, <1>b, <2>1 DEF RejectWrite, Commit, Status
<1>11. ASSUME NEW o \in Orders, SubmitWriteFault(o) PROVE TypeOK'
  BY <1>11, <1>a, <1>b DEF SubmitWriteFault
<1>12. ASSUME NEW o \in Orders, CancelCall(o) PROVE TypeOK'
  BY <1>12 DEF CancelCall, CancelPc
<1>13. ASSUME NEW o \in Orders, CancelBroker(o) PROVE TypeOK'
  BY <1>13 DEF CancelBroker, CancelPc, BrokerState
<1>14. ASSUME NEW o \in Orders, CancelRead(o) PROVE TypeOK'
  BY <1>14 DEF CancelRead, CancelPc
<1>15. ASSUME NEW o \in Orders, CancelWrite(o) PROVE TypeOK'
  <2>1. csnap[o] \in Status
    OBVIOUS
  <2>2. events[o] \o UpdatedEvents("CANCELED")
          \o <<[ev |-> "order_canceled", st |-> csnap[o]]>> \in Seq(Event)
    <3>1. <<[ev |-> "order_canceled", st |-> csnap[o]]>> \in Seq(Event)
      BY <2>1 DEF Event, EventName
    <3>2. events[o] \o UpdatedEvents("CANCELED") \in Seq(Event)
      BY UpdatedEventsType, LogExtend DEF Status
    <3>3. QED
      BY <3>1, <3>2, LogExtend
  <2>3. cpc' \in [Orders -> CancelPc]
    BY <1>15 DEF CancelWrite, CancelPc
  <2>4. CASE /\ Commit(o, "CANCELED")
             /\ events' = [events EXCEPT ![o] =
                     @ \o UpdatedEvents("CANCELED")
                       \o <<[ev |-> "order_canceled", st |-> csnap[o]]>>]
             /\ UNCHANGED dbFaults
    BY <1>15, <2>2, <2>3, <2>4 DEF CancelWrite, Commit, Status
  <2>5. CASE DbFault /\ UNCHANGED <<dbStatus, dbVersion, events>>
    BY <1>15, <1>a, <2>3, <2>5 DEF CancelWrite
  <2>6. QED
    BY <1>15, <2>4, <2>5 DEF CancelWrite
<1>16. ASSUME NEW o \in Orders, BrokerFill(o) PROVE TypeOK'
  BY <1>16 DEF BrokerFill, BrokerState
<1>17. CASE UNCHANGED vars
  BY <1>17 DEF vars
<1>18. QED
  BY <1>1, <1>2, <1>3, <1>4, <1>5, <1>6, <1>7, <1>8, <1>9, <1>10, <1>11,
     <1>12, <1>13, <1>14, <1>15, <1>16, <1>17
  DEF Next, SubmitStep, CancelStep

\* The type invariant holds in every reachable state.
THEOREM TypeCorrect == Spec => []TypeOK
BY InitTypeOK, NextTypeOK, PTL DEF Spec

-----------------------------------------------------------------------------
(* BrokerAgreement, through the inductive invariant IInv.                  *)

LEMMA InitIInv == Init => IInv
<1> SUFFICES ASSUME Init PROVE IInv
  OBVIOUS
<1>1. TypeOK
  BY InitTypeOK
<1>2. \A o \in Orders : BrokerAgreementOf(o) /\ StepKnowledge(o)
  BY DEF Init, BrokerAgreementOf, StepKnowledge, PreSend, Absent
<1>3. QED
  BY <1>1, <1>2 DEF IInv

\* The per-order part of IInv, for one order p, is kept by every step.
LEMMA NextOrderInv ==
  ASSUME IInv, [Next]_vars, NEW p \in Orders
  PROVE  (BrokerAgreementOf(p) /\ StepKnowledge(p))'
<1> DEFINE Inv(q) == BrokerAgreementOf(q) /\ StepKnowledge(q)
<1>0. TypeOK /\ Inv(p)
  BY DEF IInv
<1> USE <1>0 DEF TypeOK, BrokerAgreementOf, StepKnowledge, PreSend
<1>1. ASSUME NEW o \in Orders, HandlerSave(o) PROVE Inv(p)'
  BY <1>1 DEF HandlerSave, Raise, DbFault
<1>2. ASSUME NEW o \in Orders, Acquire(o) PROVE Inv(p)'
  BY <1>2 DEF Acquire
<1>3. ASSUME NEW o \in Orders, RiskCheck(o) PROVE Inv(p)'
  BY <1>3 DEF RiskCheck
<1>4. ASSUME NEW o \in Orders, SubmitRead(o) PROVE Inv(p)'
  BY <1>4 DEF SubmitRead, Raise, ReadTarget, WriteOf
<1>5. ASSUME NEW o \in Orders, ValidateWrite(o) PROVE Inv(p)'
  BY <1>5 DEF ValidateWrite, Commit
<1>6. ASSUME NEW o \in Orders, Created(o) PROVE Inv(p)'
  BY <1>6 DEF Created, Raise, DbFault
<1>7. ASSUME NEW o \in Orders, Send(o) PROVE Inv(p)'
  BY <1>7 DEF Send
<1>8. ASSUME NEW o \in Orders, SubmittedWrite(o) PROVE Inv(p)'
  BY <1>8 DEF SubmittedWrite, Commit, Return
<1>9. ASSUME NEW o \in Orders, FilledWrite(o) PROVE Inv(p)'
  BY <1>9 DEF FilledWrite, Commit, Return
<1>10. ASSUME NEW o \in Orders, RejectWrite(o) PROVE Inv(p)'
  BY <1>10 DEF RejectWrite, Commit, Return
<1>11. ASSUME NEW o \in Orders, SubmitWriteFault(o) PROVE Inv(p)'
  BY <1>11 DEF SubmitWriteFault, Raise, DbFault
<1>12. ASSUME NEW o \in Orders, CancelCall(o) PROVE Inv(p)'
  BY <1>12 DEF CancelCall
<1>13. ASSUME NEW o \in Orders, CancelBroker(o) PROVE Inv(p)'
  BY <1>13 DEF CancelBroker
<1>14. ASSUME NEW o \in Orders, CancelRead(o) PROVE Inv(p)'
  BY <1>14 DEF CancelRead
<1>15. ASSUME NEW o \in Orders, CancelWrite(o) PROVE Inv(p)'
  BY <1>15 DEF CancelWrite, Commit, DbFault
<1>16. ASSUME NEW o \in Orders, BrokerFill(o) PROVE Inv(p)'
  BY <1>16 DEF BrokerFill
<1>17. CASE UNCHANGED vars
  BY <1>17 DEF vars
<1>18. QED
  BY <1>1, <1>2, <1>3, <1>4, <1>5, <1>6, <1>7, <1>8, <1>9, <1>10, <1>11,
     <1>12, <1>13, <1>14, <1>15, <1>16, <1>17
  DEF Next, SubmitStep, CancelStep

LEMMA NextIInv == IInv /\ [Next]_vars => IInv'
<1> SUFFICES ASSUME IInv, [Next]_vars PROVE IInv'
  OBVIOUS
<1>1. TypeOK'
  BY NextTypeOK DEF IInv
<1>2. \A p \in Orders : (BrokerAgreementOf(p) /\ StepKnowledge(p))'
  BY NextOrderInv
<1>3. QED
  BY <1>1, <1>2 DEF IInv

\* In every reachable state the order table agrees with the venue: FILLED
\* rows were executed, CANCELED rows removed, and no order the broker saw
\* is PENDING or REJECTED.
THEOREM BrokerAgreementHolds == Spec => []BrokerAgreement
<1>1. IInv => BrokerAgreement
  BY DEF IInv, BrokerAgreement
<1>2. QED
  BY InitIInv, NextIInv, <1>1, PTL DEF Spec

=============================================================================
