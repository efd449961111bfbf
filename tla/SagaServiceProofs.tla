------------------------- MODULE SagaServiceProofs -------------------------
(***************************************************************************)
(* Theorems that relate the orchestrator's ledger to the state of the      *)
(* orders, inventory and payments services.                                *)
(***************************************************************************)
EXTENDS SagaProofs, FiniteSetTheorems

\* Only a handler or a restart of the gateway changes the services, and a
\* handler always works for an order.
LEMMA WhoChangesServices ==
  ASSUME LedgerTypes, LedgerInvariant, [Next]_vars
  PROVE  \/ UNCHANGED services
         \/ GatewayRestart
         \/ \E c \in Calls, o \in Orders, reply \in Replies : Handle(c, o, reply)
<1>1. ASSUME NEW w \in Workers, WorkerStep(w)
      PROVE  \/ UNCHANGED services
             \/ \E c \in Calls, o \in Orders, reply \in Replies : Handle(c, o, reply)
  <2>1. CASE Claim(w) \/ BeginEvent(w) \/ Commit(w) \/ Refused(w) \/ Delayed(w)
    BY <2>1 DEF Claim, BeginEvent, Commit, Refused, Delayed
  <2>2. CASE ClaimNothing(w)
    BY <2>2 DEF ClaimNothing, vars, services
  <2>3. CASE HandlerGoesOn(w) \/ Answered(w) \/ AnswerLost(w) \/ Garbled(w)
    <3>1. wk[w].pc \in Calls /\ wk[w].cur \in Orders
      BY <2>3, InCall DEF HandlerGoesOn, Answered, AnswerLost, Garbled, Calling
    <3>2. \E reply \in Replies : Handle(wk[w].pc, wk[w].cur, reply)
      BY <2>3 DEF HandlerGoesOn, Answered, AnswerLost, Garbled, Replies
    <3>. QED BY <3>1, <3>2
  <2>. QED BY <1>1, <2>1, <2>2, <2>3 DEF WorkerStep
<1>2. ASSUME NEW o \in Orders, OrderAuthorized(o) \/ RetryTimeReached(o)
      PROVE  UNCHANGED services
  BY <1>2 DEF OrderAuthorized, RetryTimeReached
<1>3. CASE ServeLate
  BY <1>3 DEF ServeLate
<1>4. ASSUME NEW r \in Replicas, Crash(r) \/ Restart(r) PROVE UNCHANGED services
  BY <1>4 DEF Crash, Restart
<1>5. CASE UNCHANGED vars
  BY <1>5 DEF vars, services
<1>. QED BY <1>1, <1>2, <1>3, <1>4, <1>5 DEF Next

LEMMA HandleTypes ==
  ASSUME ServiceTypes, NEW c, NEW o \in Orders, NEW reply, Handle(c, o, reply)
  PROVE  ServiceTypes'
<1>1. CASE CreateLookup(o, reply) \/ ReserveLookup(o, reply)
           \/ CheckOrder(o, "CONFIRMED", reply) \/ CheckOrder(o, "CANCELLED", reply)
  BY <1>1 DEF CreateLookup, ReserveLookup, CheckOrder, services, ServiceTypes
<1>2. CASE CreateInsert(o, reply) \/ WriteOrder(o, "CONFIRMED", reply)
           \/ WriteOrder(o, "CANCELLED", reply)
  BY <1>2 DEF CreateInsert, WriteOrder, ServiceTypes
<1>3. CASE ReserveLock(o, reply) \/ Release(o, reply)
  BY <1>3 DEF ReserveLock, Release, ServiceTypes
<1>4. CASE Capture(o, reply) \/ VoidAuthorization(o, reply)
  BY <1>4 DEF Capture, VoidAuthorization, ServiceTypes
<1>. QED BY <1>1, <1>2, <1>3, <1>4 DEF Handle, OrdersService, InventoryService, PaymentsService

LEMMA ServiceTypesStep ==
  ASSUME LedgerTypes, LedgerInvariant, ServiceTypes, [Next]_vars
  PROVE  ServiceTypes'
<1>1. CASE UNCHANGED services
  BY <1>1 DEF services, ServiceTypes
<1>2. CASE GatewayRestart
  BY <1>2 DEF GatewayRestart, ServiceTypes
<1>3. CASE \E c \in Calls, o \in Orders, reply \in Replies : Handle(c, o, reply)
  BY <1>3, HandleTypes
<1>. QED BY <1>1, <1>2, <1>3, WhoChangesServices

-----------------------------------------------------------------------------
(* Stock. *)

Reserved == {o \in Orders : rows[o] = "RESERVED"}

\* A handler moves one unit between the shelf and one reservation, or nothing.
LEMMA HandleConservesStock ==
  ASSUME ServiceTypes, StockConserved, NEW c, NEW o \in Orders, NEW reply,
         Handle(c, o, reply)
  PROVE  StockConserved'
<1>1. IsFiniteSet(Reserved) /\ Cardinality(Reserved) \in Nat
  BY ConstantsAssumption, FS_Subset, FS_CardinalityType DEF Reserved
<1>2. stock \in Nat /\ stock + Cardinality(Reserved) = InitialStock
  BY DEF ServiceTypes, StockConserved, Reserved
<1>3. CASE stock' = stock /\ rows' = rows
  BY <1>2, <1>3 DEF StockConserved, Reserved
<1>4. CASE /\ stock > 0 /\ rows[o] = "none" /\ stock' = stock - 1
           /\ rows' = [rows EXCEPT ![o] = "RESERVED"]
  <2>1. Reserved' = Reserved \cup {o} /\ o \notin Reserved
    BY <1>4 DEF Reserved, ServiceTypes
  <2>2. Cardinality(Reserved') = Cardinality(Reserved) + 1
    BY <1>1, <2>1, FS_AddElement
  <2>. QED BY <1>1, <1>2, <1>4, <2>2 DEF StockConserved, Reserved
<1>5. CASE /\ rows[o] = "RESERVED" /\ stock' = stock + 1
           /\ rows' = [rows EXCEPT ![o] = "RELEASED"]
  <2>1. Reserved' = Reserved \ {o} /\ o \in Reserved
    BY <1>5 DEF Reserved, ServiceTypes
  <2>2. Cardinality(Reserved') = Cardinality(Reserved) - 1
    BY <1>1, <2>1, FS_RemoveElement
  <2>. QED BY <1>1, <1>2, <1>5, <2>2 DEF StockConserved, Reserved
<1>. QED
  BY <1>3, <1>4, <1>5
  DEF Handle, OrdersService, InventoryService, PaymentsService,
  CreateLookup, CreateInsert, CheckOrder, WriteOrder, ReserveLookup,
      ReserveLock, Release, Capture, VoidAuthorization, services

\* ReservationRepositoryLive.ts: no unit of stock is lost or sold twice,
\* however requests are repeated, delayed or lost.
THEOREM StockIsConserved == Spec => []StockConserved
<1>1. Init => ServiceTypes /\ StockConserved
  <2>. SUFFICES ASSUME Init PROVE ServiceTypes /\ StockConserved
    OBVIOUS
  <2>1. ServiceTypes
    BY ConstantsAssumption DEF Init, ServiceTypes
  <2>2. {o \in Orders : rows[o] = "RESERVED"} = {}
    BY DEF Init
  <2>3. stock = InitialStock /\ InitialStock \in Nat
    BY ConstantsAssumption DEF Init
  <2>4. Cardinality({o \in Orders : rows[o] = "RESERVED"}) = 0
    BY <2>2, FS_EmptySet
  <2>. QED BY <2>1, <2>3, <2>4 DEF StockConserved
<1>2. LedgerTypes /\ LedgerInvariant /\ ServiceTypes /\ StockConserved /\ [Next]_vars
        => ServiceTypes' /\ StockConserved'
  <2>. SUFFICES ASSUME LedgerTypes, LedgerInvariant, ServiceTypes, StockConserved,
                       [Next]_vars
                PROVE  StockConserved'
    BY ServiceTypesStep
  <2>1. CASE UNCHANGED services
    BY <2>1 DEF services, StockConserved
  <2>2. CASE GatewayRestart
    BY <2>2 DEF GatewayRestart, StockConserved
  <2>3. CASE \E c \in Calls, o \in Orders, reply \in Replies : Handle(c, o, reply)
    BY <2>3, HandleConservesStock
  <2>. QED BY <2>1, <2>2, <2>3, WhoChangesServices
<1>. QED BY <1>1, <1>2, LedgerCorrect, PTL DEF Spec

\* A handler makes a step of Warehouse, for one unit of the one product.
LEMMA HandleUsesWarehouse ==
  ASSUME ServiceTypes, NEW c, NEW o \in Orders, NEW reply, Handle(c, o, reply)
  PROVE  Stocks!Next \/ UNCHANGED <<stock, rows>>
<1>1. ASSUME stock > 0, rows[o] = "none", stock' = stock - 1,
             rows' = [rows EXCEPT ![o] = "RESERVED"]
      PROVE  Stocks!Reserve(o)
  BY <1>1 DEF Stocks!Reserve, ServiceTypes
<1>2. ASSUME rows[o] = "RESERVED", stock' = stock + 1,
             rows' = [rows EXCEPT ![o] = "RELEASED"]
      PROVE  Stocks!Release(o)
  BY <1>2 DEF Stocks!Release, ServiceTypes
<1>. QED
  BY <1>1, <1>2
  DEF Handle, OrdersService, InventoryService, PaymentsService, CreateLookup, CreateInsert,
      CheckOrder, WriteOrder, ReserveLookup, ReserveLock, Release, Capture,
      VoidAuthorization, services, Stocks!Next

\* InventoryClientLive.ts: what the saga makes of the inventory, in two steps,
\* late or repeatedly, is what Warehouse allows.
THEOREM SagaUsesWarehouse == Spec => UsesWarehouse
<1>1. Init => Stocks!Init
  BY DEF Init, Stocks!Init
<1>2. LedgerTypes /\ LedgerInvariant /\ ServiceTypes /\ [Next]_vars
        => ServiceTypes' /\ (Stocks!Next \/ UNCHANGED <<stock, rows>>)
  <2>. SUFFICES ASSUME LedgerTypes, LedgerInvariant, ServiceTypes, [Next]_vars
                PROVE  Stocks!Next \/ UNCHANGED <<stock, rows>>
    BY ServiceTypesStep
  <2>1. CASE UNCHANGED services
    BY <2>1 DEF services
  <2>2. CASE GatewayRestart
    BY <2>2 DEF GatewayRestart
  <2>3. CASE \E c \in Calls, o \in Orders, reply \in Replies : Handle(c, o, reply)
    BY <2>3, HandleUsesWarehouse
  <2>. QED BY <2>1, <2>2, <2>3, WhoChangesServices
<1>3. UNCHANGED <<stock, rows>>
        => UNCHANGED <<{1}, [p \in {1} |-> stock], rows, <<>>>>
  OBVIOUS
<1>4. Init => ServiceTypes
  BY ConstantsAssumption DEF Init, ServiceTypes
<1>. QED BY <1>1, <1>2, <1>3, <1>4, LedgerCorrect, PTL DEF Spec, UsesWarehouse, Stocks!Spec

-----------------------------------------------------------------------------
(* The types of the variables that are neither ledger nor services. *)

OtherTypes ==
  /\ late \subseteq Calls \X Orders
  /\ report \in [Orders -> SUBSET (Undo \cup {"refund"})]
  /\ faults \in 0..MaxFaults
  /\ down \subseteq Replicas

LEMMA FaultTypes ==
  ASSUME faults \in 0..MaxFaults, NEW kind, Fault(kind)
  PROVE  faults' \in 0..MaxFaults
BY ConstantsAssumption DEF Fault

LEMMA ReceiveReports ==
  ASSUME OtherTypes, NEW w \in Workers, wk[w].cur \in Orders, NEW v, Receive(w, v)
  PROVE  report' \in [Orders -> SUBSET (Undo \cup {"refund"})]
<1>1. CASE StepSucceeded(w, v) \/ ScheduleRetry(w, v)
  BY <1>1 DEF StepSucceeded, ScheduleRetry, OtherTypes
<1>2. CASE StartCompensation(w, v)
  <2>1. \E log \in SUBSET (Undo \cup {"refund"}) :
          report' = [report EXCEPT ![wk[w].cur] = log]
    BY <1>2 DEF StartCompensation
  <2>. QED BY <2>1 DEF OtherTypes
<1>3. CASE Compensated(w, v)
  <2>1. report[wk[w].cur] \in SUBSET (Undo \cup {"refund"})
    BY DEF OtherTypes
  <2>2. CompensationOf(wk[w].pc) \in Undo
    BY <1>3 DEF Compensated, CompensationOf, CompensationCalls, Undo
  <2>3. \E log \in SUBSET (Undo \cup {"refund"}) :
          report' = [report EXCEPT ![wk[w].cur] = log]
    BY <1>3, <2>1, <2>2 DEF Compensated
  <2>. QED BY <2>3 DEF OtherTypes
<1>. QED BY <1>1, <1>2, <1>3 DEF Receive

LEMMA OtherTypesStep ==
  ASSUME LedgerTypes, LedgerInvariant, OtherTypes, [Next]_vars
  PROVE  OtherTypes'
<1>1. ASSUME NEW w \in Workers, WorkerStep(w) PROVE OtherTypes'
  <2>1. CASE Claim(w) \/ ClaimNothing(w) \/ BeginEvent(w) \/ Commit(w) \/ HandlerGoesOn(w)
    BY <2>1 DEF Claim, ClaimNothing, BeginEvent, Commit, HandlerGoesOn, OtherTypes, vars
  <2>2. CASE Answered(w)
    BY <2>2, InCall, ReceiveReports DEF Answered, Calling, OtherTypes
  <2>3. CASE Refused(w)
    BY <2>3, InCall, ReceiveReports, FaultTypes DEF Refused, Calling, OtherTypes
  <2>4. CASE AnswerLost(w)
    BY <2>4, InCall, ReceiveReports, FaultTypes DEF AnswerLost, Calling, OtherTypes
  <2>5. CASE Delayed(w)
    <3>1. wk[w].pc \in Calls /\ wk[w].cur \in Orders
      BY <2>5, InCall DEF Delayed, Calling
    <3>2. late' \subseteq Calls \X Orders
      BY <2>5, <3>1 DEF Delayed, OtherTypes
    <3>. QED BY <2>5, <3>1, <3>2, ReceiveReports, FaultTypes DEF Delayed, OtherTypes
  <2>6. CASE Garbled(w)
    BY <2>6, InCall, ReceiveReports, FaultTypes DEF Garbled, Calling, OtherTypes
  <2>. QED BY <1>1, <2>1, <2>2, <2>3, <2>4, <2>5, <2>6 DEF WorkerStep
<1>2. ASSUME NEW o \in Orders, OrderAuthorized(o) \/ RetryTimeReached(o)
      PROVE  OtherTypes'
  BY <1>2 DEF OrderAuthorized, RetryTimeReached, OtherTypes
<1>3. CASE ServeLate
  <2>1. PICK c \in Calls, o \in Orders, reply \in Replies :
          /\ Handle(c, o, reply)
          /\ late' = (late \ {<<c, o>>}) \cup
                     (IF reply = "more" THEN {<<SecondStep[c], o>>} ELSE {})
    BY <1>3 DEF ServeLate
  <2>2. reply = "more" => SecondStep[c] \in Calls
    BY <2>1, OnlyTwoStepCallsGoOn, StepTables
    DEF Calls, CompensationCalls
  <2>3. late' \subseteq Calls \X Orders
    BY <2>1, <2>2 DEF OtherTypes
  <2>. QED BY <1>3, <2>3 DEF ServeLate, OtherTypes
<1>4. ASSUME NEW r \in Replicas, Crash(r) PROVE OtherTypes'
  <2>. DEFINE sent == {<<wk[w].pc, wk[w].cur>> :
                         w \in {x \in {w \in Workers : w[1] = r} : wk[x].pc \in Calls}}
  <2>1. sent \subseteq Calls \X Orders
    BY InCall
  <2>2. \E kept \in SUBSET sent : late' = late \cup kept
    BY <1>4 DEF Crash
  <2>3. late' \subseteq Calls \X Orders
    BY <2>1, <2>2 DEF OtherTypes
  <2>. QED BY <1>4, <2>3, FaultTypes DEF Crash, OtherTypes
<1>5. ASSUME NEW r \in Replicas, Restart(r) PROVE OtherTypes'
  BY <1>5 DEF Restart, OtherTypes
<1>6. CASE GatewayRestart
  BY <1>6, FaultTypes DEF GatewayRestart, OtherTypes
<1>7. CASE UNCHANGED vars
  BY <1>7 DEF vars, OtherTypes
<1>. QED BY <1>1, <1>2, <1>3, <1>4, <1>5, <1>6, <1>7 DEF Next

\* Every variable keeps its type.
THEOREM TypesAreCorrect == Spec => []TypeOK
<1>1. Init => ServiceTypes /\ OtherTypes
  BY ConstantsAssumption DEF Init, ServiceTypes, OtherTypes
<1>2. LedgerTypes /\ LedgerInvariant /\ ServiceTypes /\ OtherTypes /\ [Next]_vars
        => ServiceTypes' /\ OtherTypes'
  BY ServiceTypesStep, OtherTypesStep
<1>3. LedgerTypes /\ ServiceTypes /\ OtherTypes => TypeOK
  BY DEF LedgerTypes, ServiceTypes, OtherTypes, TypeOK
<1>. QED BY <1>1, <1>2, <1>3, LedgerCorrect, PTL DEF Spec

-----------------------------------------------------------------------------
(* The ledger is never ahead of the services. *)

\* What the orders and inventory services recorded is never forgotten, and a
\* captured payment stays captured as long as the gateway keeps its memory.
Remembers(o) ==
  /\ order[o] # "none" => order'[o] # "none"
  /\ rows[o] # "none" => rows'[o] # "none"
  /\ pay[o] = "CAPTURED" => pay'[o] = "CAPTURED"

LEMMA HandleRemembers ==
  ASSUME ServiceTypes, NEW c, NEW x \in Orders, NEW reply, Handle(c, x, reply),
         NEW o \in Orders
  PROVE  Remembers(o)
BY DEF Handle, OrdersService, InventoryService, PaymentsService,
  CreateLookup, CreateInsert, CheckOrder, WriteOrder, ReserveLookup,
   ReserveLock, Release, Capture, VoidAuthorization, services, ServiceTypes, Remembers

\* What the end of a call may write to the ledger row of its event.
LEMMA ReceiveWrites ==
  ASSUME LedgerTypes, LedgerInvariant, NEW w \in Workers, wk[w].pc \in Calls,
         NEW v, Receive(w, v)
  PROVE  LET o == wk[w].cur
         IN  /\ \A x \in Orders : x # o => view'[x] = view[x]
             /\ \/ view'[o].status = view[o].status /\ view'[o].orderId = view[o].orderId
                \/ /\ view'[o].status \in {"COMPENSATING", "FAILED"}
                   /\ view'[o].orderId = view[o].orderId
                \/ /\ v = "ok" /\ wk[w].pc \in ForwardCalls
                   /\ view'[o].status = StatusAfter[StatusDuring[wk[w].pc]]
                   /\ view'[o].orderId = IF view'[o].status = "COMPLETED"
                                         THEN view[o].orderId ELSE TRUE
<1>. DEFINE o == wk[w].cur
<1>1. /\ o \in Orders /\ view[o] \in Row
      /\ wk[w].pc \in ForwardCalls => view[o].status = StatusDuring[wk[w].pc]
  BY InCall
<1>2. CASE StepSucceeded(w, v)
  <2>. DEFINE s == StatusAfter[view[o].status]
  <2>1. v = "ok" /\ wk[w].pc \in ForwardCalls /\ s = StatusAfter[StatusDuring[wk[w].pc]]
    BY <1>1, <1>2 DEF StepSucceeded
  <2>2. CASE s = "COMPLETED"
    <3>. DEFINE row == Ended(view[o], s)
    <3>1. row.status = s /\ row.orderId = view[o].orderId
      BY <1>1 DEF Ended, Row
    <3>2. view' = [view EXCEPT ![o] = row]
      BY <1>2, <2>2 DEF StepSucceeded
    <3>. HIDE DEF row, s
    <3>. QED BY <1>1, <2>1, <2>2, <3>1, <3>2 DEF LedgerTypes
  <2>3. CASE s # "COMPLETED"
    <3>. DEFINE row == [view[o] EXCEPT !.status = s, !.orderId = TRUE]
    <3>1. row.status = s /\ row.orderId = TRUE
      BY <1>1 DEF Row
    <3>2. view' = [view EXCEPT ![o] = row]
      BY <1>2, <2>3 DEF StepSucceeded
    <3>. HIDE DEF row, s
    <3>. QED BY <1>1, <2>1, <2>3, <3>1, <3>2 DEF LedgerTypes
  <2>. QED BY <2>2, <2>3
<1>3. CASE ScheduleRetry(w, v)
  BY <1>1, <1>3 DEF ScheduleRetry, Retried, Row, LedgerTypes
<1>4. CASE StartCompensation(w, v)
  BY <1>1, <1>4 DEF StartCompensation, Compensating, Row, LedgerTypes
<1>5. CASE Compensated(w, v)
  <2>1. CASE wk[w].undo = {}
    <3>. DEFINE row == Ended(view[o], "FAILED")
    <3>1. row.status = "FAILED" /\ row.orderId = view[o].orderId
      BY <1>1 DEF Ended, Row
    <3>2. view' = [view EXCEPT ![o] = row]
      BY <1>5, <2>1 DEF Compensated
    <3>. HIDE DEF row
    <3>. QED BY <1>1, <3>1, <3>2 DEF LedgerTypes
  <2>2. CASE wk[w].undo # {}
    <3>1. view' = view
      BY <1>5, <2>2 DEF Compensated
    <3>. QED BY <3>1
  <2>. QED BY <2>1, <2>2
<1>. QED BY <1>2, <1>3, <1>4, <1>5 DEF Receive

LEMMA DuringCall ==
  /\ StatusDuring["create"] = "AUTHORIZED" /\ StatusDuring["createInsert"] = "AUTHORIZED"
  /\ StatusDuring["reserve"] = "ORDER_CREATED"
  /\ StatusDuring["reserveLock"] = "ORDER_CREATED"
  /\ StatusDuring["capture"] = "INVENTORY_RESERVED"
  /\ StatusDuring["confirm"] = "PAYMENT_CAPTURED"
  /\ StatusDuring["confirmWrite"] = "PAYMENT_CAPTURED"
BY Zenon DEF StatusDuring, ForwardCalls

LEMMA StatusAfterCall ==
  /\ \A c \in {"create", "createInsert"} : StatusAfter[StatusDuring[c]] = "ORDER_CREATED"
  /\ \A c \in {"reserve", "reserveLock"} : StatusAfter[StatusDuring[c]] = "INVENTORY_RESERVED"
  /\ StatusAfter[StatusDuring["capture"]] = "PAYMENT_CAPTURED"
  /\ \A c \in {"confirm", "confirmWrite"} : StatusAfter[StatusDuring[c]] = "COMPLETED"
<1>1. /\ StatusAfter["AUTHORIZED"] = "ORDER_CREATED"
      /\ StatusAfter["ORDER_CREATED"] = "INVENTORY_RESERVED"
      /\ StatusAfter["INVENTORY_RESERVED"] = "PAYMENT_CAPTURED"
      /\ StatusAfter["PAYMENT_CAPTURED"] = "COMPLETED"
  BY Zenon DEF StatusAfter, Open
<1>. QED BY <1>1, DuringCall

\* A call answered with success has had its effect.
LEMMA SuccessIsReal ==
  ASSUME ServiceTypes, NEW c, NEW o \in Orders, NEW reply \in {"200", "201"},
         Handle(c, o, reply)
  PROVE  /\ c \in {"create", "createInsert"} => order'[o] # "none"
         /\ c \in {"reserve", "reserveLock"} => rows'[o] # "none"
         /\ c = "capture" => pay'[o] = "CAPTURED"
BY DEF Handle, OrdersService, InventoryService, PaymentsService,
  CreateLookup, CreateInsert, CheckOrder, WriteOrder, ReserveLookup,
   ReserveLock, Release, Capture, VoidAuthorization, services, ServiceTypes

\* The end of a call keeps the ledger behind the services, if the services
\* remember and a success was real.
LEMMA ReceiveStaysBehind ==
  ASSUME LedgerTypes, LedgerInvariant, LedgerNeverAhead, db' = db,
         NEW w \in Workers, wk[w].pc \in Calls, NEW v, Receive(w, v),
         \A o \in Orders : Remembers(o),
         v = "ok" =>
           /\ wk[w].pc \in {"create", "createInsert"} => order'[wk[w].cur] # "none"
           /\ wk[w].pc \in {"reserve", "reserveLock"} => rows'[wk[w].cur] # "none"
           /\ wk[w].pc = "capture" => pay'[wk[w].cur] = "CAPTURED"
  PROVE  LedgerNeverAhead'
<1>1. PICK o \in Orders : o = wk[w].cur
  BY InCall
<1>2. PICK c \in Calls : c = wk[w].pc
  OBVIOUS
<1>3. c \in ForwardCalls => view[o].status = StatusDuring[c] /\ view[o].status \in Open
  BY <1>1, <1>2, InCall
<1>4. \A x \in Orders : NotAhead(db[x], x)'
  BY DEF LedgerNeverAhead, NotAhead, Remembers
<1>5. \A x \in Orders : x # o => NotAhead(view[x], x)'
  <2>1. \A x \in Orders : x # o => view'[x] = view[x]
    BY <1>1, ReceiveWrites
  <2>. QED BY <2>1 DEF LedgerNeverAhead, NotAhead, Remembers
<1>6. NotAhead(view[o], o) /\ Remembers(o)
  BY DEF LedgerNeverAhead
<1>7. CASE /\ view'[o].status = view[o].status
           /\ view'[o].orderId = view[o].orderId
  BY <1>4, <1>5, <1>6, <1>7 DEF LedgerNeverAhead, NotAhead, Remembers
<1>8. CASE /\ view'[o].status \in {"COMPENSATING", "FAILED"}
           /\ view'[o].orderId = view[o].orderId
  <2>1. NotAhead(view[o], o)'
    BY <1>6, <1>8 DEF NotAhead, Remembers, Open
  <2>. QED BY <1>4, <1>5, <2>1 DEF LedgerNeverAhead
<1>9. CASE /\ v = "ok" /\ c \in ForwardCalls
           /\ view'[o].status = StatusAfter[StatusDuring[c]]
           /\ view'[o].orderId = IF view'[o].status = "COMPLETED"
                                 THEN view[o].orderId ELSE TRUE
  <2>1. CASE c \in {"create", "createInsert"}
    <3>1. view'[o].status = "ORDER_CREATED" /\ order'[o] # "none"
      BY <1>1, <1>2, <1>9, <2>1, StatusAfterCall
    <3>2. NotAhead(view[o], o)'
      BY <1>9, <3>1 DEF NotAhead
    <3>. QED BY <1>4, <1>5, <3>2 DEF LedgerNeverAhead
  <2>2. CASE c \in {"reserve", "reserveLock"}
    <3>1. view'[o].status = "INVENTORY_RESERVED" /\ rows'[o] # "none"
      BY <1>1, <1>2, <1>9, <2>2, StatusAfterCall
    <3>2. view[o].status = "ORDER_CREATED"
      BY <1>3, <1>9, <2>2, DuringCall
    <3>3. NotAhead(view[o], o)'
      BY <1>6, <1>9, <3>1, <3>2 DEF NotAhead, Remembers, Open
    <3>. QED BY <1>4, <1>5, <3>3 DEF LedgerNeverAhead
  <2>3. CASE c = "capture"
    <3>1. view'[o].status = "PAYMENT_CAPTURED" /\ pay'[o] = "CAPTURED"
      BY <1>1, <1>2, <1>9, <2>3, StatusAfterCall
    <3>2. view[o].status = "INVENTORY_RESERVED"
      BY <1>3, <1>9, <2>3, DuringCall
    <3>3. NotAhead(view[o], o)'
      BY <1>6, <1>9, <3>1, <3>2 DEF NotAhead, Remembers, Open
    <3>. QED BY <1>4, <1>5, <3>3 DEF LedgerNeverAhead
  <2>4. CASE c \in {"confirm", "confirmWrite"}
    <3>1. view'[o].status = "COMPLETED" /\ view'[o].orderId = view[o].orderId
      BY <1>9, <2>4, StatusAfterCall
    <3>2. view[o].status = "PAYMENT_CAPTURED"
      BY <1>3, <1>9, <2>4, DuringCall
    <3>3. NotAhead(view[o], o)'
      BY <1>6, <3>1, <3>2 DEF NotAhead, Remembers, Open
    <3>. QED BY <1>4, <1>5, <3>3 DEF LedgerNeverAhead
  <2>. QED BY <1>9, <2>1, <2>2, <2>3, <2>4 DEF ForwardCalls
<1>. QED BY <1>1, <1>2, <1>7, <1>8, <1>9, ReceiveWrites

LEMMA ClassifiedOk ==
  ASSUME NEW successes, NEW reply, Classified(successes, reply) = "ok"
  PROVE  reply \in successes
BY Zenon DEF Classified

LEMMA VerdictOk ==
  ASSUME NEW c, NEW reply, Verdict(c, reply) = "ok"
  PROVE  reply \in {"200", "201"} \/ c \in {"void", "release"}
<1>1. CASE c \in {"reserve", "reserveLock", "release"}
  <2>1. InventoryVerdict(c, reply) = "ok"
    BY <1>1, Zenon DEF Verdict
  <2>. QED BY <2>1, ClassifiedOk DEF InventoryVerdict
<1>2. CASE c \in {"capture", "void"}
  <2>1. PaymentsVerdict(c, reply) = "ok"
    <3>1. c \notin {"reserve", "reserveLock", "release"}
      BY <1>2
    <3>. QED BY <1>2, <3>1, Zenon DEF Verdict
  <2>. QED BY <2>1, ClassifiedOk DEF PaymentsVerdict
<1>3. CASE c \notin {"reserve", "reserveLock", "release", "capture", "void"}
  <2>1. OrdersVerdict(reply) = "ok"
    BY <1>3, Zenon DEF Verdict
  <2>. QED BY <2>1, ClassifiedOk DEF OrdersVerdict
<1>. QED BY <1>1, <1>2, <1>3

LEMMA AnsweredStaysBehind ==
  ASSUME LedgerTypes, LedgerInvariant, ServiceTypes, LedgerNeverAhead,
         NEW w \in Workers, Answered(w)
  PROVE  LedgerNeverAhead'
<1>1. wk[w].pc \in Calls /\ wk[w].cur \in Orders /\ db' = db
  BY InCall DEF Answered, Calling
<1>2. PICK reply \in Replies \ {"more"} :
        Handle(wk[w].pc, wk[w].cur, reply) /\ Receive(w, Verdict(wk[w].pc, reply))
  BY DEF Answered
<1>3. \A o \in Orders : Remembers(o)
  BY <1>1, <1>2, HandleRemembers
<1>4. Verdict(wk[w].pc, reply) = "ok" =>
        /\ wk[w].pc \in {"create", "createInsert"} => order'[wk[w].cur] # "none"
        /\ wk[w].pc \in {"reserve", "reserveLock"} => rows'[wk[w].cur] # "none"
        /\ wk[w].pc = "capture" => pay'[wk[w].cur] = "CAPTURED"
  BY <1>1, <1>2, VerdictOk, SuccessIsReal
<1>. QED BY <1>1, <1>2, <1>3, <1>4, ReceiveStaysBehind

\* A call that ends without an answer, or with a broken one, records nothing.
LEMMA UnansweredStaysBehind ==
  ASSUME LedgerTypes, LedgerInvariant, ServiceTypes, LedgerNeverAhead,
         NEW w \in Workers,
         Refused(w) \/ AnswerLost(w) \/ Delayed(w) \/ Garbled(w)
  PROVE  LedgerNeverAhead'
<1>1. wk[w].pc \in Calls /\ wk[w].cur \in Orders /\ db' = db
  BY InCall DEF Refused, AnswerLost, Delayed, Garbled, Calling
<1>2. PICK v \in {"retry", "permanent"} : Receive(w, v)
  BY DEF Refused, AnswerLost, Delayed, Garbled
<1>3. UNCHANGED services \/ \E reply \in Replies : Handle(wk[w].pc, wk[w].cur, reply)
  BY DEF Refused, AnswerLost, Delayed, Garbled, Replies
<1>4. \A o \in Orders : Remembers(o)
  BY <1>1, <1>3, HandleRemembers DEF Remembers, services
<1>. QED BY <1>1, <1>2, <1>4, ReceiveStaysBehind

\* A rollback, a commit or a retry time moves rows between db and view.
LEMMA RowsStayBehind ==
  ASSUME LedgerTypes, LedgerNeverAhead, \A o \in Orders : Remembers(o),
         \A o \in Orders :
           /\ \/ db'[o].status = db[o].status /\ db'[o].orderId = db[o].orderId
              \/ db'[o].status = view[o].status /\ db'[o].orderId = view[o].orderId
           /\ \/ view'[o].status = db[o].status /\ view'[o].orderId = db[o].orderId
              \/ view'[o].status = view[o].status /\ view'[o].orderId = view[o].orderId
  PROVE  LedgerNeverAhead'
BY DEF LedgerNeverAhead, NotAhead, Remembers

LEMMA NeverAheadStep ==
  ASSUME "wipe" \notin FaultKinds, LedgerTypes, LedgerInvariant, ServiceTypes,
         LedgerNeverAhead, [Next]_vars
  PROVE  LedgerNeverAhead'
<1>1. ASSUME UNCHANGED services PROVE \A o \in Orders : Remembers(o)
  BY <1>1 DEF services, Remembers
<1>2. ASSUME NEW w \in Workers, WorkerStep(w) PROVE LedgerNeverAhead'
  <2>1. CASE Claim(w)
    BY <1>1, <2>1, RowsStayBehind DEF Claim
  <2>2. CASE ClaimNothing(w)
    BY <1>1, <2>2, RowsStayBehind DEF ClaimNothing, vars, services
  <2>3. CASE BeginEvent(w)
    <3>1. db' = db /\ UNCHANGED services
      BY <2>3 DEF BeginEvent
    <3>2. \/ view' = view
          \/ \E o \in wk[w].todo : view' = [view EXCEPT ![o].event = Mark(view[o].status)]
      BY <2>3 DEF BeginEvent
    <3>3. \A o \in Orders :
            view'[o].status = view[o].status /\ view'[o].orderId = view[o].orderId
      BY <3>2 DEF LedgerTypes, Row
    <3>. QED BY <1>1, <3>1, <3>3, RowsStayBehind
  <2>4. CASE Commit(w)
    BY <1>1, <2>4, RowsStayBehind DEF Commit
  <2>5. CASE HandlerGoesOn(w)
    <3>1. UNCHANGED services
      BY <2>5, OnlyTwoStepCallsGoOn DEF HandlerGoesOn
    <3>. QED BY <1>1, <2>5, <3>1, RowsStayBehind DEF HandlerGoesOn
  <2>6. CASE Answered(w)
    BY <2>6, AnsweredStaysBehind
  <2>7. CASE Refused(w) \/ AnswerLost(w) \/ Delayed(w) \/ Garbled(w)
    BY <2>7, UnansweredStaysBehind
  <2>. QED BY <1>2, <2>1, <2>2, <2>3, <2>4, <2>5, <2>6, <2>7 DEF WorkerStep
<1>3. ASSUME NEW o \in Orders, RetryTimeReached(o) PROVE LedgerNeverAhead'
  <2>1. \A x \in Orders :
          /\ db'[x].status = db[x].status /\ db'[x].orderId = db[x].orderId
          /\ view'[x].status = view[x].status /\ view'[x].orderId = view[x].orderId
    BY <1>3 DEF RetryTimeReached, LedgerTypes, Row
  <2>. QED BY <1>1, <1>3, <2>1, RowsStayBehind DEF RetryTimeReached
<1>9. ASSUME NEW o \in Orders, OrderAuthorized(o) PROVE LedgerNeverAhead'
  <2>. DEFINE ready(row) == [row EXCEPT !.status = "AUTHORIZED", !.event = "PENDING"]
  <2>1. /\ db' = [db EXCEPT ![o] = ready(db[o])]
        /\ view' = [view EXCEPT ![o] = ready(view[o])]
    BY <1>9 DEF OrderAuthorized, LedgerTypes
  <2>2. \A row \in Row : ready(row).status = "AUTHORIZED"
                        /\ ready(row).orderId = row.orderId
    BY DEF Row
  <2>. HIDE DEF ready
  <2>3. \A x \in Orders : Remembers(x)
    BY <1>1, <1>9 DEF OrderAuthorized
  <2>4. \A x \in Orders : NotAhead(db[x], x) /\ NotAhead(view[x], x)
    BY DEF LedgerNeverAhead
  <2>5. \A x \in Orders :
          /\ db'[x] = IF x = o THEN ready(db[x]) ELSE db[x]
          /\ view'[x] = IF x = o THEN ready(view[x]) ELSE view[x]
    BY <2>1 DEF LedgerTypes
  <2>. QED BY <2>2, <2>3, <2>4, <2>5
           DEF LedgerTypes, LedgerNeverAhead, NotAhead, Remembers, Open
<1>4. CASE ServeLate
  <2>1. \A o \in Orders : Remembers(o)
    BY <1>4, HandleRemembers DEF ServeLate
  <2>. QED BY <1>4, <2>1, RowsStayBehind DEF ServeLate
<1>5. ASSUME NEW r \in Replicas, Crash(r) PROVE LedgerNeverAhead'
  BY <1>1, <1>5, RowsStayBehind DEF Crash
<1>6. ASSUME NEW r \in Replicas, Restart(r) PROVE LedgerNeverAhead'
  BY <1>1, <1>6, RowsStayBehind DEF Restart
<1>7. CASE GatewayRestart
  BY <1>7 DEF GatewayRestart, Fault
<1>8. CASE UNCHANGED vars
  BY <1>1, <1>8, RowsStayBehind DEF vars, services
<1>. QED BY <1>2, <1>3, <1>4, <1>5, <1>6, <1>7, <1>8, <1>9 DEF Next

\* SagaExecutorLive.ts: what the ledger records has happened, and has not been
\* taken back, unless the payment gateway forgets what it has captured.
THEOREM LedgerIsNeverAhead ==
  ASSUME "wipe" \notin FaultKinds
  PROVE  Spec => []LedgerNeverAhead
<1>1. Init => ServiceTypes /\ LedgerNeverAhead
  <2>. SUFFICES ASSUME Init PROVE ServiceTypes /\ LedgerNeverAhead
    OBVIOUS
  <2>1. ServiceTypes
    BY ConstantsAssumption DEF Init, ServiceTypes
  <2>2. LedgerNeverAhead
    BY DEF Init, LedgerNeverAhead, NotAhead, Open
  <2>. QED BY <2>1, <2>2
<1>2. LedgerTypes /\ LedgerInvariant /\ ServiceTypes /\ LedgerNeverAhead /\ [Next]_vars
        => ServiceTypes' /\ LedgerNeverAhead'
  BY ServiceTypesStep, NeverAheadStep
<1>. QED BY <1>1, <1>2, LedgerCorrect, PTL DEF Spec

=============================================================================
