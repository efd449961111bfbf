----------------------------- MODULE SagaProofs -----------------------------
(***************************************************************************)
(* Theorems about the saga orchestrator, for every set of orders, replicas *)
(* and faults and every batch size, retry limit and stock.                 *)
(***************************************************************************)
EXTENDS SagaProperties, TLAPS

LedgerTypes ==
  /\ db \in [Orders -> Row]
  /\ view \in [Orders -> Row]
  /\ wk \in [Workers -> WorkerRecord]

ServiceTypes ==
  /\ order \in [Orders -> {"none", "CREATED", "CONFIRMED", "CANCELLED"}]
  /\ rows \in [Orders -> {"none", "RESERVED", "RELEASED"}]
  /\ stock \in Nat
  /\ pay \in [Orders -> {"AUTHORIZED", "CAPTURED", "VOIDED", "missing"}]

\* The steps of a saga lead from an open status to the next one or to the end.
LEMMA StepTables ==
  /\ \A s \in Open : StepFor[s] \in ForwardCalls /\ StatusDuring[StepFor[s]] = s
  /\ \A s \in Open : StatusAfter[s] \in Open \cup {"COMPLETED"}
  /\ \A c \in ForwardCalls : StatusDuring[c] \in Open
  /\ \A c \in {"create", "reserve", "confirm"} :
       SecondStep[c] \in ForwardCalls /\ StatusDuring[SecondStep[c]] = StatusDuring[c]
  /\ SecondStep["cancel"] = "cancelWrite"
<1>1. \A s \in Open : StepFor[s] \in ForwardCalls /\ StatusDuring[StepFor[s]] = s
  BY Zenon DEF Open, StepFor, StatusDuring, ForwardCalls
<1>2. \A s \in Open : StatusAfter[s] \in Open \cup {"COMPLETED"}
  BY Zenon DEF Open, StatusAfter
<1>3. \A c \in ForwardCalls : StatusDuring[c] \in Open
  BY Zenon DEF Open, StatusDuring, ForwardCalls
<1>4. \A c \in {"create", "reserve", "confirm"} :
        SecondStep[c] \in ForwardCalls /\ StatusDuring[SecondStep[c]] = StatusDuring[c]
  BY Zenon DEF SecondStep, StatusDuring, ForwardCalls
<1>5. SecondStep["cancel"] = "cancelWrite"
  BY Zenon DEF SecondStep
<1>. QED BY <1>1, <1>2, <1>3, <1>4, <1>5

\* A handler goes on to a second step only from the first step of a call that
\* has two.
LEMMA OnlyTwoStepCallsGoOn ==
  ASSUME NEW c, NEW o, Handle(c, o, "more")
  PROVE  c \in {"create", "reserve", "confirm", "cancel"} /\ UNCHANGED services
BY DEF Handle, OrdersService, InventoryService, PaymentsService,
  CreateLookup, CreateInsert, ReserveLookup, ReserveLock, Release,
       Capture, VoidAuthorization, CheckOrder, WriteOrder, services



-----------------------------------------------------------------------------
(* The ledger invariant: first the steps a worker takes on what it holds. *)

\* A step of worker w that leaves the locks and the rows of the other workers
\* alone, and its own rows in order, preserves the ledger invariant.
LEMMA LocalStep ==
  ASSUME LedgerTypes, LedgerInvariant, NEW w \in Workers,
         db' = db,
         \A v \in Workers : wk'[v].held = wk[v].held,
         \A v \in Workers : v # w => wk'[v] = wk[v],
         \A o \in Orders : o \notin wk[w].held => view'[o] = view[o],
         WorkerConsistent(w)',
         \A o \in wk[w].held : HeldRow(w, o)'
  PROVE  LedgerInvariant'
<1>1. OutboxAgreesWithLedger'
  BY DEF LedgerInvariant, OutboxAgreesWithLedger, Agrees
<1>2. OneTransactionPerEvent'
  BY DEF LedgerInvariant, OneTransactionPerEvent
<1>3. ASSUME NEW v \in Workers PROVE WorkerConsistent(v)'
  <2>1. CASE v = w BY <2>1
  <2>2. CASE v # w BY <2>2 DEF LedgerInvariant, WorkerConsistent
  <2>. QED BY <2>1, <2>2
<1>4. ASSUME NEW v \in Workers, NEW o \in wk'[v].held PROVE HeldRow(v, o)'
  <2>1. CASE v = w BY <2>1
  <2>2. CASE v # w
    <3>1. o \in wk[v].held /\ o \in Orders
      BY DEF LedgerTypes, WorkerRecord
    <3>2. o \notin wk[w].held
      BY <2>2, <3>1 DEF LedgerInvariant, OneTransactionPerEvent
    <3>3. view'[o] = view[o] /\ wk'[v] = wk[v]
      BY <2>2, <3>1, <3>2
    <3>. QED BY <3>1, <3>3 DEF LedgerInvariant, HeldRow, Agrees, AtRest
  <2>. QED BY <2>1, <2>2
<1>5. ASSUME NEW o \in Orders, o \notin Locked' PROVE view'[o] = db'[o]
  <2>1. o \notin Locked
    BY <1>5 DEF Locked
  <2>2. o \notin wk[w].held
    BY <2>1 DEF Locked
  <2>. QED BY <2>1, <2>2 DEF LedgerInvariant
<1>. QED BY <1>1, <1>2, <1>3, <1>4, <1>5 DEF LedgerInvariant

\* In particular a step that writes the row of the worker's current event, and
\* then is either done with the event or in one of its calls.
LEMMA TurnPreserves ==
  ASSUME LedgerTypes, LedgerInvariant, NEW w \in Workers, db' = db,
         NEW o \in wk[w].held, o \notin wk[w].todo,
         \A x \in wk[w].held : x # o => AtRest(view[x]),
         NEW row \in Row, NEW rec \in WorkerRecord,
         view' = [view EXCEPT ![o] = row], wk' = [wk EXCEPT ![w] = rec],
         rec.held = wk[w].held, rec.todo = wk[w].todo,
         \/ rec.pc = "pick" /\ AtRest(row)
         \/ /\ rec.cur = o /\ row.event = "PENDING"
            /\ rec.pc \in ForwardCalls /\ row.status = StatusDuring[rec.pc]
         \/ /\ rec.cur = o /\ row.event = "PENDING"
            /\ rec.pc \in CompensationCalls /\ row.status = "COMPENSATING"
  PROVE  LedgerTypes' /\ LedgerInvariant'
<1>1. /\ o \in Orders /\ wk[w].todo \subseteq wk[w].held
      /\ \A x \in wk[w].held : x \in Orders /\ db[x].event = "PENDING"
  BY DEF LedgerTypes, LedgerInvariant, WorkerConsistent, HeldRow, WorkerRecord
<1>2. LedgerTypes'
  BY <1>1 DEF LedgerTypes
<1>3. wk'[w] = rec /\ \A x \in Workers : x # w => wk'[x] = wk[x]
  BY DEF LedgerTypes
<1>4. view'[o] = row /\ \A x \in Orders : x # o => view'[x] = view[x]
  BY <1>1 DEF LedgerTypes
<1>5. \A x \in Workers : wk'[x].held = wk[x].held
  BY <1>3
<1>6. \A x \in Orders : x \notin wk[w].held => view'[x] = view[x]
  BY <1>1, <1>4
<1>7. rec.pc \in {"pick"} \cup Calls /\ rec.pc # "idle"
  BY DEF Calls, ForwardCalls, CompensationCalls, Undo
<1>8. WorkerConsistent(w)'
  BY <1>1, <1>3, <1>7 DEF WorkerConsistent, Calls, ForwardCalls, CompensationCalls, Undo
<1>9. ASSUME NEW x \in wk[w].held PROVE HeldRow(w, x)'
  <2>1. CASE x = o
    BY <1>1, <1>3, <1>4, <2>1
    DEF HeldRow, Agrees, AtRest, Calls, ForwardCalls, CompensationCalls, Undo
  <2>2. CASE x # o
    <3>1. view'[x] = view[x] /\ AtRest(view[x]) /\ db[x].event = "PENDING"
      BY <1>1, <1>4, <2>2
    <3>2. ~(wk'[w].pc \in Calls /\ x = wk'[w].cur)
      BY <1>3, <2>2 DEF Calls, ForwardCalls, CompensationCalls, Undo
    <3>. QED BY <3>1, <3>2 DEF HeldRow, Agrees, AtRest
  <2>. QED BY <2>1, <2>2
<1>. QED BY <1>2, <1>3, <1>5, <1>6, <1>8, <1>9, LocalStep

\* What is known of a worker that is in a call, and of its event.
LEMMA InCall ==
  ASSUME LedgerTypes, LedgerInvariant, NEW w \in Workers, wk[w].pc \in Calls
  PROVE  /\ wk[w].cur \in wk[w].held /\ wk[w].cur \notin wk[w].todo
         /\ wk[w].cur \in Orders
         /\ \A x \in wk[w].held : x # wk[w].cur => AtRest(view[x])
         /\ wk[w] \in WorkerRecord
         /\ view[wk[w].cur] \in Row
         /\ db[wk[w].cur].event = "PENDING" /\ view[wk[w].cur].event = "PENDING"
         /\ wk[w].pc \in ForwardCalls =>
              /\ view[wk[w].cur].status = StatusDuring[wk[w].pc]
              /\ view[wk[w].cur].status \in Open
         /\ wk[w].pc \in CompensationCalls =>
              view[wk[w].cur].status = "COMPENSATING"
<1>1. wk[w] \in WorkerRecord
  BY DEF LedgerTypes
<1>2. wk[w].cur \in wk[w].held /\ wk[w].cur \notin wk[w].todo
  BY DEF LedgerInvariant, WorkerConsistent
<1>3. wk[w].cur \in Orders /\ view[wk[w].cur] \in Row
  BY <1>1, <1>2 DEF LedgerTypes, WorkerRecord
<1>4. \A x \in wk[w].held : HeldRow(w, x)
  BY DEF LedgerInvariant
<1>. QED
  BY <1>1, <1>2, <1>3, <1>4, StepTables
  DEF HeldRow, Calls, ForwardCalls, CompensationCalls, Undo

\* However a call ends, its worker goes on in good order.
LEMMA ReceivePreserves ==
  ASSUME LedgerTypes, LedgerInvariant, NEW w \in Workers, NEW v,
         wk[w].pc \in Calls, Receive(w, v), db' = db
  PROVE  LedgerTypes' /\ LedgerInvariant'
<1>. DEFINE o == wk[w].cur
            done == [wk[w] EXCEPT !.pc = "pick", !.cur = None]
<1>1. /\ o \in wk[w].held /\ o \notin wk[w].todo /\ o \in Orders
      /\ \A x \in wk[w].held : x # o => AtRest(view[x])
      /\ wk[w] \in WorkerRecord /\ view[o] \in Row
      /\ view[o].event = "PENDING"
      /\ wk[w].pc \in ForwardCalls =>
           view[o].status = StatusDuring[wk[w].pc] /\ view[o].status \in Open
      /\ wk[w].pc \in CompensationCalls => view[o].status = "COMPENSATING"
  BY InCall
<1>2. /\ done \in WorkerRecord /\ done.pc = "pick"
      /\ done.held = wk[w].held /\ done.todo = wk[w].todo
  BY <1>1 DEF WorkerRecord
<1>3. ASSUME NEW c \in Calls, NEW u \in SUBSET Undo
      PROVE  LET rec == [wk[w] EXCEPT !.pc = c, !.undo = u]
             IN  /\ rec \in WorkerRecord /\ rec.pc = c /\ rec.cur = o
                 /\ rec.held = wk[w].held /\ rec.todo = wk[w].todo
  BY <1>1 DEF WorkerRecord
<1>4. CASE StepSucceeded(w, v)
  <2>. DEFINE s == StatusAfter[view[o].status]
  <2>1. wk[w].pc \in ForwardCalls /\ s \in Open \cup {"COMPLETED"}
    BY <1>1, <1>4, StepTables DEF StepSucceeded
  <2>2. CASE s = "COMPLETED"
    <3>. DEFINE row == Ended(view[o], s)
    <3>1. view' = [view EXCEPT ![o] = row] /\ wk' = [wk EXCEPT ![w] = done]
      BY <1>1, <1>4, <2>2 DEF StepSucceeded, EventDone, Ended, LedgerTypes
    <3>2. row \in Row /\ AtRest(row)
      BY <1>1, <2>2 DEF Ended, Mark, Row, LedgerStatus, Terminal, Agrees, AtRest
    <3>. HIDE DEF row, done
    <3>. QED BY <1>1, <1>2, <3>1, <3>2, TurnPreserves
  <2>3. CASE s # "COMPLETED"
    <3>. DEFINE row == [view[o] EXCEPT !.status = s, !.orderId = TRUE]
                rec == [wk[w] EXCEPT !.pc = StepFor[s]]
    <3>1. s \in Open /\ StepFor[s] \in ForwardCalls /\ StatusDuring[StepFor[s]] = s
      BY <2>1, <2>3, StepTables
    <3>2. view' = [view EXCEPT ![o] = row] /\ wk' = [wk EXCEPT ![w] = rec]
      BY <1>1, <1>4, <2>3 DEF StepSucceeded, LedgerTypes
    <3>3. row \in Row /\ row.status = s /\ row.event = "PENDING"
      BY <1>1, <3>1 DEF Row, LedgerStatus
    <3>4. /\ rec \in WorkerRecord /\ rec.pc = StepFor[s] /\ rec.cur = o
          /\ rec.held = wk[w].held /\ rec.todo = wk[w].todo
      BY <1>1, <3>1 DEF WorkerRecord, Calls
    <3>. HIDE DEF row, rec, s
    <3>. QED BY <1>1, <3>1, <3>2, <3>3, <3>4, TurnPreserves
  <2>. QED BY <2>2, <2>3
<1>5. CASE ScheduleRetry(w, v)
  <2>. DEFINE row == Retried(view[o])
  <2>1. view' = [view EXCEPT ![o] = row] /\ wk' = [wk EXCEPT ![w] = done]
    BY <1>1, <1>5 DEF ScheduleRetry, EventDone, LedgerTypes
  <2>2. view[o].retryCount \in 0..MaxAttempts /\ ~(view[o].retryCount >= MaxAttempts)
    BY <1>1, <1>5 DEF ScheduleRetry, isMaxRetriesExceeded, Row
  <2>3. view[o].retryCount + 1 \in 0..MaxAttempts
    BY <2>2, ConstantsAssumption
  <2>4. row \in Row
    BY <1>1, <2>3 DEF Retried, Row
  <2>5. AtRest(row)
    BY <1>1, <1>5 DEF ScheduleRetry, Retried, Row, Agrees, AtRest
  <2>. HIDE DEF row, done
  <2>. QED BY <1>1, <1>2, <2>1, <2>4, <2>5, TurnPreserves
<1>6. CASE StartCompensation(w, v)
  <2>. DEFINE required == Required(view[o].status, view[o].orderId)
              row == Compensating(view[o])
              rec == [wk[w] EXCEPT !.pc = First(required),
                                   !.undo = required \ {First(required)}]
  <2>1. view' = [view EXCEPT ![o] = row] /\ wk' = [wk EXCEPT ![w] = rec]
    BY <1>1, <1>6 DEF StartCompensation, LedgerTypes
  <2>2. row \in Row /\ row.event = "PENDING" /\ row.status = "COMPENSATING"
    BY <1>1 DEF Compensating, Row, LedgerStatus
  <2>3. First(required) \in Undo /\ required \subseteq Undo
    BY DEF First, Required, Undo
  <2>. HIDE DEF required
  <2>4. First(required) \in CompensationCalls \cap Calls
    BY <2>3 DEF CompensationCalls, Calls
  <2>5. /\ rec \in WorkerRecord /\ rec.pc = First(required) /\ rec.cur = o
        /\ rec.held = wk[w].held /\ rec.todo = wk[w].todo
    BY <1>3, <2>3, <2>4
  <2>. HIDE DEF row, rec
  <2>. QED BY <1>1, <2>1, <2>2, <2>4, <2>5, TurnPreserves
<1>7. CASE Compensated(w, v)
  <2>. DEFINE rest == wk[w].undo
  <2>1. CASE rest = {}
    <3>. DEFINE row == Ended(view[o], "FAILED")
    <3>1. view' = [view EXCEPT ![o] = row] /\ wk' = [wk EXCEPT ![w] = done]
      BY <1>1, <1>7, <2>1 DEF Compensated, EventDone, LedgerTypes
    <3>2. row \in Row /\ AtRest(row)
      BY <1>1 DEF Ended, Mark, Row, LedgerStatus, Terminal, Agrees, AtRest
    <3>. HIDE DEF row, done
    <3>. QED BY <1>1, <1>2, <3>1, <3>2, TurnPreserves
  <2>2. CASE rest # {}
    <3>. DEFINE rec == [wk[w] EXCEPT !.pc = First(rest), !.undo = rest \ {First(rest)}]
    <3>1. view' = [view EXCEPT ![o] = view[o]] /\ wk' = [wk EXCEPT ![w] = rec]
      BY <1>1, <1>7, <2>2 DEF Compensated, LedgerTypes
    <3>2. First(rest) \in Undo /\ rest \subseteq Undo
      BY <1>1 DEF First, Undo, WorkerRecord
    <3>3. First(rest) \in CompensationCalls \cap Calls
      BY <3>2 DEF CompensationCalls, Calls
    <3>4. /\ rec \in WorkerRecord /\ rec.pc = First(rest) /\ rec.cur = o
          /\ rec.held = wk[w].held /\ rec.todo = wk[w].todo
      BY <1>3, <3>2, <3>3
    <3>5. view[o].status = "COMPENSATING"
      BY <1>1, <1>7 DEF Compensated
    <3>. HIDE DEF rec
    <3>. QED BY <1>1, <3>1, <3>3, <3>4, <3>5, TurnPreserves
  <2>. QED BY <2>1, <2>2
<1>. QED BY <1>4, <1>5, <1>6, <1>7 DEF Receive

\* A claim locks only rows that no other transaction holds.
LEMMA ClaimPreserves ==
  ASSUME LedgerTypes, LedgerInvariant, NEW w \in Workers, Claim(w)
  PROVE  LedgerTypes' /\ LedgerInvariant'
<1>1. PICK S \in SUBSET Claimable :
        wk' = [wk EXCEPT ![w] = [IdleWorker EXCEPT !.pc = "pick",
                                                   !.held = S, !.todo = S]]
  BY DEF Claim
<1>. DEFINE rec == [IdleWorker EXCEPT !.pc = "pick", !.held = S, !.todo = S]
<1>2. /\ rec \in WorkerRecord /\ rec.pc = "pick" /\ rec.held = S /\ rec.todo = S
  BY DEF IdleWorker, WorkerRecord, Claimable, Due
<1>3. db' = db /\ view' = view /\ wk[w].pc = "idle" /\ wk[w].held = {}
  BY DEF Claim, LedgerInvariant, WorkerConsistent
<1>4. wk'[w] = rec /\ \A v \in Workers : v # w => wk'[v] = wk[v]
  BY <1>1 DEF LedgerTypes
<1>. HIDE DEF rec
<1>5. LedgerTypes'
  BY <1>1, <1>2, <1>3 DEF LedgerTypes, rec
<1>6. \A o \in S : o \in Orders /\ o \notin Locked /\ db[o].event = "PENDING"
  BY DEF Claimable, Due
<1>7. \A v \in Workers : wk[v].held \cap S = {}
  BY <1>6 DEF Locked
<1>8. OneTransactionPerEvent'
  BY <1>2, <1>4, <1>7 DEF OneTransactionPerEvent, LedgerInvariant
<1>9. ASSUME NEW v \in Workers PROVE WorkerConsistent(v)'
  BY <1>2, <1>4 DEF WorkerConsistent, LedgerInvariant, Calls, ForwardCalls,
                    CompensationCalls, Undo
<1>10. ASSUME NEW v \in Workers, NEW o \in wk'[v].held PROVE HeldRow(v, o)'
  <2>1. CASE v = w
    <3>1. o \in S /\ wk'[v].pc = "pick"
      BY <1>2, <1>4, <2>1
    <3>2. AtRest(view[o]) /\ db[o].event = "PENDING"
      BY <1>6, <3>1 DEF LedgerInvariant, OutboxAgreesWithLedger, AtRest
    <3>. QED BY <1>3, <3>1, <3>2 DEF HeldRow, AtRest, Agrees, Calls, ForwardCalls,
                                     CompensationCalls, Undo
  <2>2. CASE v # w
    BY <1>3, <1>4, <2>2 DEF LedgerInvariant, HeldRow, Agrees, AtRest
  <2>. QED BY <2>1, <2>2
<1>11. ASSUME NEW o \in Orders, o \notin Locked' PROVE view'[o] = db'[o]
  <2>1. \A v \in Workers : o \notin wk'[v].held
    BY <1>11 DEF Locked
  <2>2. o \notin Locked
    BY <1>3, <1>4, <2>1 DEF Locked
  <2>. QED BY <1>3, <2>2 DEF LedgerInvariant
<1>. QED
  BY <1>3, <1>5, <1>8, <1>9, <1>10, <1>11
  DEF LedgerInvariant, OutboxAgreesWithLedger, Agrees

\* Taking up the next event of the batch.
LEMMA BeginEventPreserves ==
  ASSUME LedgerTypes, LedgerInvariant, NEW w \in Workers, BeginEvent(w)
  PROVE  LedgerTypes' /\ LedgerInvariant'
<1>1. wk[w].pc = "pick" /\ db' = db /\ wk[w] \in WorkerRecord
  BY DEF BeginEvent, LedgerTypes
<1>2. PICK o \in wk[w].todo :
        IF view[o].status \in Open
        THEN /\ wk' = [wk EXCEPT ![w].todo = @ \ {o}, ![w].cur = o,
                                 ![w].pc = StepFor[view[o].status]]
             /\ view' = view
        ELSE /\ wk' = [wk EXCEPT ![w].todo = @ \ {o}]
             /\ view' = [view EXCEPT ![o].event = Mark(view[o].status)]
  BY DEF BeginEvent
<1>3. /\ o \in wk[w].held /\ o \in Orders /\ view[o] \in Row
      /\ wk[w].todo \subseteq wk[w].held
      /\ \A x \in wk[w].held : AtRest(view[x])
                               /\ db[x].event = "PENDING" /\ x \in Orders
  BY <1>1 DEF LedgerInvariant, WorkerConsistent, HeldRow, LedgerTypes, WorkerRecord,
              Calls, ForwardCalls, CompensationCalls, Undo
<1>4. CASE view[o].status \in Open
  <2>. DEFINE rec == [wk[w] EXCEPT !.todo = @ \ {o}, !.cur = o,
                                   !.pc = StepFor[view[o].status]]
  <2>1. wk' = [wk EXCEPT ![w] = rec] /\ view' = view
    BY <1>2, <1>4 DEF LedgerTypes
  <2>2. /\ StepFor[view[o].status] \in ForwardCalls
        /\ StatusDuring[StepFor[view[o].status]] = view[o].status
    BY <1>4, StepTables
  <2>3. /\ rec \in WorkerRecord /\ rec.pc = StepFor[view[o].status] /\ rec.cur = o
        /\ rec.held = wk[w].held /\ rec.todo = wk[w].todo \ {o}
    BY <1>1, <1>3, <2>2 DEF WorkerRecord, Calls
  <2>4. view[o].event = "PENDING"
    BY <1>3, <1>4 DEF Agrees, AtRest, Open
  <2>. HIDE DEF rec
  <2>5. wk'[w] = rec /\ \A v \in Workers : v # w => wk'[v] = wk[v]
    BY <2>1 DEF LedgerTypes
  <2>6. LedgerTypes'
    BY <1>1, <2>1, <2>3 DEF LedgerTypes
  <2>7. WorkerConsistent(w)'
    BY <1>3, <2>2, <2>3, <2>5 DEF WorkerConsistent, ForwardCalls
  <2>8. ASSUME NEW x \in wk[w].held PROVE HeldRow(w, x)'
    BY <1>1, <1>3, <2>1, <2>2, <2>3, <2>4, <2>5 DEF HeldRow, Agrees, AtRest, Calls
  <2>9. \A v \in Workers : wk'[v].held = wk[v].held
    BY <2>3, <2>5
  <2>. QED BY <1>1, <2>1, <2>5, <2>6, <2>7, <2>8, <2>9, LocalStep
<1>5. CASE view[o].status \notin Open
  <2>. DEFINE rec == [wk[w] EXCEPT !.todo = @ \ {o}]
              row == [view[o] EXCEPT !.event = Mark(view[o].status)]
  <2>1. wk' = [wk EXCEPT ![w] = rec] /\ view' = [view EXCEPT ![o] = row]
    BY <1>2, <1>3, <1>5 DEF LedgerTypes
  <2>2. row \in Row /\ AtRest(row)
    BY <1>3, <1>5 DEF Row, Mark, Agrees, AtRest
  <2>3. /\ rec \in WorkerRecord /\ rec.pc = "pick"
        /\ rec.held = wk[w].held /\ rec.todo = wk[w].todo \ {o}
    BY <1>1 DEF WorkerRecord
  <2>. HIDE DEF rec, row
  <2>4. wk'[w] = rec /\ \A v \in Workers : v # w => wk'[v] = wk[v]
    BY <2>1 DEF LedgerTypes
  <2>5. view'[o] = row /\ \A x \in Orders : x # o => view'[x] = view[x]
    BY <1>3, <2>1 DEF LedgerTypes
  <2>6. LedgerTypes'
    BY <1>1, <1>3, <2>1, <2>2, <2>3 DEF LedgerTypes
  <2>7. WorkerConsistent(w)'
    BY <1>3, <2>3, <2>4 DEF WorkerConsistent, Calls, ForwardCalls,
                            CompensationCalls, Undo
  <2>8. ASSUME NEW x \in wk[w].held PROVE HeldRow(w, x)'
    BY <1>1, <1>3, <2>2, <2>3, <2>4, <2>5
    DEF HeldRow, Agrees, AtRest, Calls, ForwardCalls, CompensationCalls, Undo
  <2>9. \A v \in Workers : wk'[v].held = wk[v].held
    BY <2>3, <2>4
  <2>10. \A x \in Orders : x \notin wk[w].held => view'[x] = view[x]
    BY <1>3, <2>5
  <2>. QED BY <1>1, <2>4, <2>6, <2>7, <2>8, <2>9, <2>10, LocalStep
<1>. QED BY <1>4, <1>5

\* The second step of a handler leaves the worker in the same saga step.
LEMMA HandlerGoesOnPreserves ==
  ASSUME LedgerTypes, LedgerInvariant, NEW w \in Workers, HandlerGoesOn(w)
  PROVE  LedgerTypes' /\ LedgerInvariant'
<1>. DEFINE o == wk[w].cur
            c == wk[w].pc
            rec == [wk[w] EXCEPT !.pc = SecondStep[c]]
<1>1. /\ c \in Calls /\ db' = db /\ view' = view /\ wk' = [wk EXCEPT ![w] = rec]
      /\ Handle(c, o, "more")
  BY DEF HandlerGoesOn, Calling, LedgerTypes
<1>2. c \in {"create", "reserve", "confirm", "cancel"}
  BY <1>1, OnlyTwoStepCallsGoOn
<1>3. /\ o \in wk[w].held /\ o \notin wk[w].todo /\ o \in Orders
      /\ \A x \in wk[w].held : x # o => AtRest(view[x])
      /\ wk[w] \in WorkerRecord /\ view[o] \in Row
      /\ view[o].event = "PENDING"
      /\ c \in ForwardCalls => view[o].status = StatusDuring[c]
      /\ c \in CompensationCalls => view[o].status = "COMPENSATING"
  BY <1>1, InCall
<1>4. \/ SecondStep[c] \in ForwardCalls /\ StatusDuring[SecondStep[c]] = view[o].status
      \/ SecondStep[c] \in CompensationCalls /\ view[o].status = "COMPENSATING"
  BY <1>2, <1>3, StepTables DEF ForwardCalls, CompensationCalls, Undo
<1>5. /\ rec \in WorkerRecord /\ rec.pc = SecondStep[c] /\ rec.cur = o
      /\ rec.held = wk[w].held /\ rec.todo = wk[w].todo
  BY <1>3, <1>4 DEF WorkerRecord, Calls
<1>6. view' = [view EXCEPT ![o] = view[o]]
  BY <1>1, <1>3 DEF LedgerTypes
<1>7. \/ /\ rec.cur = o /\ view[o].event = "PENDING"
         /\ rec.pc \in ForwardCalls /\ view[o].status = StatusDuring[rec.pc]
      \/ /\ rec.cur = o /\ view[o].event = "PENDING"
         /\ rec.pc \in CompensationCalls /\ view[o].status = "COMPENSATING"
  BY <1>3, <1>4, <1>5
<1>8. /\ o \in wk[w].held /\ o \notin wk[w].todo /\ view[o] \in Row
      /\ \A x \in wk[w].held : x # o => AtRest(view[x])
  BY <1>3
<1>9. /\ db' = db /\ wk' = [wk EXCEPT ![w] = rec] /\ rec \in WorkerRecord
      /\ rec.held = wk[w].held /\ rec.todo = wk[w].todo
  BY <1>1, <1>5
<1>. HIDE DEF rec, c, o
<1>. QED BY <1>6, <1>7, <1>8, <1>9, TurnPreserves

\* A commit publishes rows whose events are all dealt with.
LEMMA CommitPreserves ==
  ASSUME LedgerTypes, LedgerInvariant, NEW w \in Workers, Commit(w)
  PROVE  LedgerTypes' /\ LedgerInvariant'
<1>1. /\ db' = [o \in Orders |-> IF o \in wk[w].held THEN view[o] ELSE db[o]]
      /\ view' = view
      /\ wk'[w] = IdleWorker /\ \A v \in Workers : v # w => wk'[v] = wk[v]
  BY DEF Commit, LedgerTypes
<1>2. LedgerTypes'
  BY DEF Commit, LedgerTypes, IdleWorker, WorkerRecord
<1>3. \A o \in wk[w].held : o \in Orders /\ Agrees(view[o])
  BY DEF Commit, LedgerTypes, WorkerRecord, LedgerInvariant, HeldRow, AtRest, Calls,
         ForwardCalls, CompensationCalls, Undo
<1>4. OutboxAgreesWithLedger'
  BY <1>1, <1>3 DEF LedgerInvariant, OutboxAgreesWithLedger, Agrees
<1>5. OneTransactionPerEvent'
  BY <1>1 DEF LedgerInvariant, OneTransactionPerEvent, IdleWorker
<1>6. ASSUME NEW v \in Workers PROVE WorkerConsistent(v)'
  BY <1>1 DEF LedgerInvariant, WorkerConsistent, IdleWorker, Calls, ForwardCalls,
              CompensationCalls, Undo
<1>7. ASSUME NEW v \in Workers, NEW o \in wk'[v].held PROVE HeldRow(v, o)'
  <2>1. v # w /\ wk'[v] = wk[v] /\ o \in wk[v].held
    BY <1>1 DEF IdleWorker
  <2>2. o \notin wk[w].held /\ o \in Orders
    BY <2>1 DEF LedgerInvariant, OneTransactionPerEvent, LedgerTypes, WorkerRecord
  <2>3. db'[o] = db[o]
    BY <1>1, <2>2
  <2>. QED BY <1>1, <2>1, <2>3 DEF LedgerInvariant, HeldRow, Agrees, AtRest
<1>8. ASSUME NEW o \in Orders, o \notin Locked' PROVE view'[o] = db'[o]
  <2>1. CASE o \in wk[w].held
    BY <1>1, <2>1
  <2>2. CASE o \notin wk[w].held
    <3>1. o \notin Locked
      BY <1>1, <1>8, <2>2 DEF Locked
    <3>. QED BY <1>1, <2>2, <3>1 DEF LedgerInvariant
  <2>. QED BY <2>1, <2>2
<1>. QED BY <1>2, <1>4, <1>5, <1>6, <1>7, <1>8 DEF LedgerInvariant

\* Time passes for events that no transaction holds.
LEMMA RetryTimePreserves ==
  ASSUME LedgerTypes, LedgerInvariant, NEW o \in Orders, RetryTimeReached(o)
  PROVE  LedgerTypes' /\ LedgerInvariant'
<1>. DEFINE later(row) == [row EXCEPT !.due = TRUE]
<1>1. /\ o \notin Locked /\ wk' = wk
      /\ db' = [db EXCEPT ![o] = later(db[o])]
      /\ view' = [view EXCEPT ![o] = later(view[o])]
  BY DEF RetryTimeReached, LedgerTypes
<1>2. \A row \in Row : later(row) \in Row /\ (Agrees(row) => Agrees(later(row)))
  BY DEF Row, Agrees
<1>3. /\ db'[o] = later(db[o]) /\ view'[o] = later(view[o])
      /\ \A x \in Orders : x # o => db'[x] = db[x] /\ view'[x] = view[x]
  BY <1>1 DEF LedgerTypes
<1>. HIDE DEF later
<1>4. LedgerTypes'
  BY <1>1, <1>2 DEF LedgerTypes
<1>5. OutboxAgreesWithLedger'
  BY <1>2, <1>3 DEF LedgerInvariant, OutboxAgreesWithLedger, LedgerTypes, Agrees
<1>6. ASSUME NEW w \in Workers, NEW x \in wk'[w].held PROVE HeldRow(w, x)'
  <2>1. x \in wk[w].held /\ x \in Orders /\ x # o
    BY <1>1 DEF Locked, LedgerTypes, WorkerRecord
  <2>. QED BY <1>1, <1>3, <2>1 DEF LedgerInvariant, HeldRow, Agrees, AtRest
<1>7. ASSUME NEW x \in Orders, x \notin Locked' PROVE view'[x] = db'[x]
  BY <1>1, <1>3, <1>7 DEF LedgerInvariant, Locked
<1>. QED BY <1>1, <1>4, <1>5, <1>6, <1>7
         DEF LedgerInvariant, OneTransactionPerEvent, WorkerConsistent

\* A new event comes to a ledger that no transaction holds.
LEMMA OrderAuthorizedPreserves ==
  ASSUME LedgerTypes, LedgerInvariant, NEW o \in Orders, OrderAuthorized(o)
  PROVE  LedgerTypes' /\ LedgerInvariant'
<1>. DEFINE ready(row) == [row EXCEPT !.status = "AUTHORIZED", !.event = "PENDING"]
<1>1. /\ db[o].event = "none" /\ wk' = wk
      /\ db' = [db EXCEPT ![o] = ready(db[o])]
      /\ view' = [view EXCEPT ![o] = ready(view[o])]
  BY DEF OrderAuthorized, LedgerTypes
<1>2. \A row \in Row : ready(row) \in Row /\ Agrees(ready(row))
  BY DEF Row, Agrees, LedgerStatus, Open
<1>3. /\ db'[o] = ready(db[o]) /\ view'[o] = ready(view[o])
      /\ \A x \in Orders : x # o => db'[x] = db[x] /\ view'[x] = view[x]
  BY <1>1 DEF LedgerTypes
<1>. HIDE DEF ready
<1>4. LedgerTypes'
  BY <1>1, <1>2 DEF LedgerTypes
<1>5. OutboxAgreesWithLedger'
  BY <1>2, <1>3 DEF LedgerInvariant, OutboxAgreesWithLedger, LedgerTypes, Agrees
<1>6. o \notin Locked
  BY <1>1 DEF Locked, LedgerInvariant, HeldRow
<1>7. ASSUME NEW w \in Workers, NEW x \in wk'[w].held PROVE HeldRow(w, x)'
  <2>1. x \in wk[w].held /\ x \in Orders /\ x # o
    BY <1>1, <1>6 DEF Locked, LedgerTypes, WorkerRecord
  <2>. QED BY <1>1, <1>3, <2>1 DEF LedgerInvariant, HeldRow, Agrees, AtRest
<1>8. ASSUME NEW x \in Orders, x \notin Locked' PROVE view'[x] = db'[x]
  BY <1>1, <1>3, <1>6, <1>8 DEF LedgerInvariant, Locked
<1>. QED BY <1>1, <1>4, <1>5, <1>7, <1>8
         DEF LedgerInvariant, OneTransactionPerEvent, WorkerConsistent

\* A crash rolls back exactly the rows its replica had locked.
LEMMA CrashPreserves ==
  ASSUME LedgerTypes, LedgerInvariant, NEW r \in Replicas, Crash(r)
  PROVE  LedgerTypes' /\ LedgerInvariant'
<1>. DEFINE mine == {w \in Workers : w[1] = r}
            lost == UNION {wk[w].held : w \in mine}
<1>1. /\ db' = db
      /\ wk' = [w \in Workers |-> IF w \in mine THEN IdleWorker ELSE wk[w]]
      /\ view' = [o \in Orders |-> IF o \in lost THEN db[o] ELSE view[o]]
  BY DEF Crash
<1>2. LedgerTypes'
  BY <1>1 DEF LedgerTypes, IdleWorker, WorkerRecord
<1>3. OutboxAgreesWithLedger'
  BY <1>1 DEF LedgerInvariant, OutboxAgreesWithLedger, Agrees
<1>4. OneTransactionPerEvent'
  BY <1>1 DEF LedgerInvariant, OneTransactionPerEvent, IdleWorker
<1>5. ASSUME NEW w \in Workers PROVE WorkerConsistent(w)'
  BY <1>1 DEF LedgerInvariant, WorkerConsistent, IdleWorker, Calls, ForwardCalls,
              CompensationCalls, Undo
<1>6. ASSUME NEW w \in Workers, NEW o \in wk'[w].held PROVE HeldRow(w, o)'
  <2>1. w \notin mine /\ wk'[w] = wk[w] /\ o \in wk[w].held
    BY <1>1 DEF IdleWorker
  <2>2. o \in Orders /\ o \notin lost
    BY <2>1 DEF LedgerInvariant, OneTransactionPerEvent, LedgerTypes, WorkerRecord
  <2>3. view'[o] = view[o]
    BY <1>1, <2>2
  <2>. HIDE DEF mine, lost
  <2>. QED BY <1>1, <2>1, <2>3 DEF LedgerInvariant, HeldRow, Agrees, AtRest
<1>7. ASSUME NEW o \in Orders, o \notin Locked' PROVE view'[o] = db'[o]
  <2>1. CASE o \in lost
    BY <1>1, <2>1
  <2>2. CASE o \notin lost
    <3>1. ASSUME NEW w \in Workers PROVE o \notin wk[w].held
      <4>1. CASE w \in mine BY <2>2, <4>1
      <4>2. CASE w \notin mine BY <1>1, <1>7, <4>2 DEF Locked
      <4>. QED BY <4>1, <4>2
    <3>2. o \notin Locked
      BY <3>1 DEF Locked
    <3>. QED BY <1>1, <2>2, <3>2 DEF LedgerInvariant
  <2>. QED BY <2>1, <2>2
<1>. QED BY <1>2, <1>3, <1>4, <1>5, <1>6, <1>7 DEF LedgerInvariant

-----------------------------------------------------------------------------
(* The ledger theorem. *)

LEMMA LedgerInitially == Init => LedgerTypes /\ LedgerInvariant
<1>. SUFFICES ASSUME Init PROVE LedgerTypes /\ LedgerInvariant
  OBVIOUS
<1>1. LedgerTypes
  BY ConstantsAssumption
  DEF Init, LedgerTypes, Row, LedgerStatus, Open, IdleWorker, WorkerRecord
<1>2. \A w \in Workers : wk[w].held = {} /\ wk[w].todo = {} /\ wk[w].pc = "idle"
  BY DEF Init, IdleWorker
<1>3. OutboxAgreesWithLedger
  BY DEF Init, OutboxAgreesWithLedger, Agrees, Open
<1>. QED BY <1>1, <1>2, <1>3 DEF Init, LedgerInvariant, OneTransactionPerEvent,
         WorkerConsistent, Calls, ForwardCalls, CompensationCalls, Undo

LEMMA LedgerUnchanged ==
  ASSUME LedgerTypes, LedgerInvariant, UNCHANGED <<db, view, wk>>
  PROVE  LedgerTypes' /\ LedgerInvariant'
BY DEF LedgerTypes, LedgerInvariant, OutboxAgreesWithLedger, OneTransactionPerEvent,
       WorkerConsistent, HeldRow, Agrees, AtRest, Locked

LEMMA LedgerStep ==
  LedgerTypes /\ LedgerInvariant /\ [Next]_vars => LedgerTypes' /\ LedgerInvariant'
<1>. SUFFICES ASSUME LedgerTypes, LedgerInvariant, [Next]_vars
              PROVE  LedgerTypes' /\ LedgerInvariant'
  OBVIOUS
<1>1. ASSUME NEW w \in Workers, WorkerStep(w)
      PROVE  LedgerTypes' /\ LedgerInvariant'
  <2>1. CASE Claim(w) BY <2>1, ClaimPreserves
  <2>2. CASE ClaimNothing(w)
    BY <2>2, LedgerUnchanged DEF ClaimNothing, vars
  <2>3. CASE BeginEvent(w) BY <2>3, BeginEventPreserves
  <2>4. CASE Commit(w) BY <2>4, CommitPreserves
  <2>5. CASE HandlerGoesOn(w) BY <2>5, HandlerGoesOnPreserves
  <2>6. CASE Answered(w)
    BY <2>6, ReceivePreserves DEF Answered, Calling
  <2>7. CASE Refused(w)
    BY <2>7, ReceivePreserves DEF Refused, Calling
  <2>8. CASE AnswerLost(w)
    BY <2>8, ReceivePreserves DEF AnswerLost, Calling
  <2>9. CASE Delayed(w)
    BY <2>9, ReceivePreserves DEF Delayed, Calling
  <2>10. CASE Garbled(w)
    BY <2>10, ReceivePreserves DEF Garbled, Calling
  <2>. QED BY <1>1, <2>1, <2>2, <2>3, <2>4, <2>5, <2>6, <2>7, <2>8, <2>9, <2>10
           DEF WorkerStep
<1>2. ASSUME NEW o \in Orders, OrderAuthorized(o) \/ RetryTimeReached(o)
      PROVE  LedgerTypes' /\ LedgerInvariant'
  BY <1>2, OrderAuthorizedPreserves, RetryTimePreserves
<1>3. CASE ServeLate
  BY <1>3, LedgerUnchanged DEF ServeLate
<1>4. ASSUME NEW r \in Replicas, Crash(r)
      PROVE  LedgerTypes' /\ LedgerInvariant'
  BY <1>4, CrashPreserves
<1>5. ASSUME NEW r \in Replicas, Restart(r)
      PROVE  LedgerTypes' /\ LedgerInvariant'
  BY <1>5, LedgerUnchanged DEF Restart
<1>6. CASE GatewayRestart
  BY <1>6, LedgerUnchanged DEF GatewayRestart
<1>7. CASE UNCHANGED vars
  BY <1>7, LedgerUnchanged DEF vars
<1>. QED BY <1>1, <1>2, <1>3, <1>4, <1>5, <1>6, <1>7 DEF Next

\* The inductive invariant holds in every reachable state, under every fault.
THEOREM LedgerCorrect == Spec => [](LedgerTypes /\ LedgerInvariant)
BY LedgerInitially, LedgerStep, PTL DEF Spec

\* main.ts, processEvents: whatever crashes, is lost or comes late, a reader of
\* the database finds ledger and outbox in agreement.
THEOREM OutboxAgreement == Spec => []OutboxAgreesWithLedger
<1>1. LedgerInvariant => OutboxAgreesWithLedger
  BY DEF LedgerInvariant
<1>. QED BY LedgerCorrect, <1>1, PTL

\* OutboxRepositoryLive.ts, claimPendingEvents: no event is ever in two
\* transactions.
THEOREM ClaimsAreExclusive == Spec => []OneTransactionPerEvent
<1>1. LedgerInvariant => OneTransactionPerEvent
  BY DEF LedgerInvariant
<1>. QED BY LedgerCorrect, <1>1, PTL

=============================================================================
