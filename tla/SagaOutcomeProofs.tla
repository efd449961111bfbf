------------------------- MODULE SagaOutcomeProofs -------------------------
(***************************************************************************)
(* Theorems about what a settled saga leaves behind in the services.  Each *)
(* holds under some faults only; its inductive invariant is stated with it.*)
(***************************************************************************)
EXTENDS SagaPromiseProofs

-----------------------------------------------------------------------------
(* What the steps of the orchestrator leave alone. *)

FirstCalls == {"create", "reserve", "capture", "confirm"}

\* No call is served or ends, no transaction is rolled back.
QuietStep ==
  /\ UNCHANGED <<order, rows, stock, pay, late, report>>
  /\ \A o \in Orders :
       /\ view'[o].orderId = view[o].orderId
       /\ \/ view'[o].status = view[o].status
          \/ view[o].status = "AWAITING_AUTHORIZATION" /\ view'[o].status = "AUTHORIZED"
  /\ \A w \in Workers : wk'[w] = wk[w] \/ wk'[w].pc \in {"idle", "pick"} \cup FirstCalls

\* The end of a call of w, in time or not.
CallEnds(w) == Answered(w) \/ Refused(w) \/ AnswerLost(w) \/ Delayed(w) \/ Garbled(w)

LEMMA StepKinds ==
  ASSUME LedgerTypes, LedgerInvariant, [Next]_vars
  PROVE  \/ QuietStep
         \/ \E w \in Workers : HandlerGoesOn(w) \/ CallEnds(w)
         \/ ServeLate
         \/ \E r \in Replicas : Crash(r)
         \/ GatewayRestart
<1>1. ASSUME NEW w \in Workers, WorkerStep(w)
      PROVE  QuietStep \/ HandlerGoesOn(w) \/ CallEnds(w)
  <2>1. CASE Claim(w)
    <3>1. PICK S \in SUBSET Claimable :
            wk' = [wk EXCEPT ![w] = [IdleWorker EXCEPT !.pc = "pick",
                                                       !.held = S, !.todo = S]]
      BY <2>1 DEF Claim
    <3>2. \A v \in Workers : wk'[v] = wk[v] \/ wk'[v].pc = "pick"
      BY <3>1 DEF LedgerTypes, IdleWorker
    <3>. QED BY <2>1, <3>2 DEF Claim, services, QuietStep
  <2>2. CASE ClaimNothing(w)
    BY <2>2 DEF ClaimNothing, vars, QuietStep
  <2>3. CASE BeginEvent(w)
    <3>1. PICK o \in wk[w].todo :
            IF view[o].status \in Open
            THEN /\ wk' = [wk EXCEPT ![w].todo = @ \ {o}, ![w].cur = o,
                                     ![w].pc = StepFor[view[o].status]]
                 /\ view' = view
            ELSE /\ wk' = [wk EXCEPT ![w].todo = @ \ {o}]
                 /\ view' = [view EXCEPT ![o].event = Mark(view[o].status)]
      BY <2>3 DEF BeginEvent
    <3>2. wk[w].pc = "pick" /\ wk[w] \in WorkerRecord
      BY <2>3 DEF BeginEvent, LedgerTypes
    <3>3. \A s \in Open : StepFor[s] \in FirstCalls
      BY Zenon DEF StepFor, Open, FirstCalls
    <3>4. \A v \in Workers : wk'[v] = wk[v] \/ wk'[v].pc \in {"pick"} \cup FirstCalls
      BY <3>1, <3>2, <3>3 DEF LedgerTypes, WorkerRecord
    <3>5. \A x \in Orders : view'[x].status = view[x].status
                           /\ view'[x].orderId = view[x].orderId
      BY <3>1 DEF LedgerTypes, Row
    <3>. QED BY <2>3, <3>4, <3>5 DEF BeginEvent, services, QuietStep
  <2>4. CASE Commit(w)
    BY <2>4 DEF Commit, services, QuietStep, LedgerTypes, IdleWorker
  <2>. QED BY <1>1, <2>1, <2>2, <2>3, <2>4 DEF WorkerStep, CallEnds
<1>2. ASSUME NEW x \in Orders, OrderAuthorized(x) PROVE QuietStep
  <2>1. db[x].status = "AWAITING_AUTHORIZATION" /\ db[x].event = "none"
    BY <1>2 DEF OrderAuthorized, LedgerInvariant, OutboxAgreesWithLedger, Agrees
  <2>2. view[x] = db[x]
    BY <2>1 DEF LedgerInvariant, HeldRow, Locked
  <2>3. \A o \in Orders :
          /\ view'[o].orderId = view[o].orderId
          /\ \/ view'[o].status = view[o].status
             \/ o = x /\ view'[o].status = "AUTHORIZED"
    BY <1>2 DEF OrderAuthorized, LedgerTypes, Row
  <2>. QED BY <1>2, <2>1, <2>2, <2>3 DEF OrderAuthorized, services, QuietStep
<1>3. ASSUME NEW x \in Orders, RetryTimeReached(x) PROVE QuietStep
  <2>1. \A o \in Orders : view'[o].status = view[o].status
                         /\ view'[o].orderId = view[o].orderId
    BY <1>3 DEF RetryTimeReached, LedgerTypes, Row
  <2>. QED BY <1>3, <2>1 DEF RetryTimeReached, services, QuietStep
<1>4. ASSUME NEW r \in Replicas, Restart(r) PROVE QuietStep
  BY <1>4 DEF Restart, services, QuietStep
<1>5. CASE UNCHANGED vars
  BY <1>5 DEF vars, QuietStep
<1>. QED BY <1>1, <1>2, <1>3, <1>4, <1>5 DEF Next

\* A handler changes nothing of other orders but the stock.
LEMMA HandleIsLocal ==
  ASSUME NEW c, NEW o, NEW reply, Handle(c, o, reply), NEW x, x # o, ServiceTypes
  PROVE  x \in Orders => order'[x] = order[x] /\ rows'[x] = rows[x] /\ pay'[x] = pay[x]
BY DEF Handle, OrdersService, InventoryService, PaymentsService, CreateLookup,
       CreateInsert, CheckOrder, WriteOrder, ReserveLookup, ReserveLock, Release,
       Capture, VoidAuthorization, services, ServiceTypes

\* The end of a call changes nothing of other orders and other workers.
LEMMA ReceiveIsLocal ==
  ASSUME LedgerTypes, NEW w \in Workers, NEW v, Receive(w, v)
  PROVE  /\ \A x \in Orders : x # wk[w].cur => view'[x] = view[x]
         /\ report \in [Orders -> SUBSET (Undo \cup {"refund"})] =>
              \A x \in Orders : x # wk[w].cur => report'[x] = report[x]
         /\ \A u \in Workers : u # w => wk'[u] = wk[u]
<1>1. CASE StepSucceeded(w, v)
  BY <1>1 DEF StepSucceeded, EventDone, LedgerTypes
<1>2. CASE ScheduleRetry(w, v)
  BY <1>2 DEF ScheduleRetry, EventDone, LedgerTypes
<1>3. CASE StartCompensation(w, v)
  BY <1>3 DEF StartCompensation, LedgerTypes
<1>4. CASE Compensated(w, v)
  BY <1>4 DEF Compensated, EventDone, LedgerTypes
<1>. QED BY <1>1, <1>2, <1>3, <1>4 DEF Receive

\* Two workers are never in calls for the same order.
LEMMA CallsAreApart ==
  ASSUME LedgerTypes, LedgerInvariant, NEW u \in Workers, NEW w \in Workers, u # w,
         wk[u].pc \in Calls, wk[w].pc \in Calls
  PROVE  wk[u].cur # wk[w].cur
BY InCall DEF LedgerInvariant, OneTransactionPerEvent

\* What is settled in the database is seen so by everybody, and no call is under
\* way for it.
LEMMA SettledIsSeen ==
  ASSUME LedgerTypes, LedgerInvariant, NEW o \in Orders, db[o].status \in Terminal
  PROVE  view[o] = db[o]
<1>1. db[o].event # "PENDING"
  BY Transitions DEF LedgerInvariant, OutboxAgreesWithLedger, Agrees, Terminal, Open
<1>2. o \notin Locked
  BY <1>1 DEF LedgerInvariant, HeldRow, Locked
<1>. QED BY <1>2 DEF LedgerInvariant

-----------------------------------------------------------------------------
(* Without crashes: an order that is not compensated has never been undone,*)
(* in whatever order its calls are refused, lost, late or garbled.         *)

GivenUp == {"COMPENSATING", "FAILED"}

\* Nothing of the order has been undone and no request to undo it is on its way.
Spared(o) ==
  view[o].status \notin GivenUp =>
    /\ order[o] # "CANCELLED" /\ rows[o] # "RELEASED" /\ pay[o] # "VOIDED"
    /\ \A c \in CompensationCalls : <<c, o>> \notin late

\* The inductive invariant.
SparedInvariant ==
  \A o \in Orders :
    Spared(o) /\ (view[o].status = "COMPLETED" => order[o] = "CONFIRMED")

\* Serving a call does not undo an order, unless the order is given up.
LEMMA HandleSpares ==
  ASSUME ServiceTypes, SparedInvariant, NEW c, NEW x \in Orders, NEW reply,
         Handle(c, x, reply), c \in CompensationCalls => view[x].status \in GivenUp,
         NEW o \in Orders, view[o].status \notin GivenUp
  PROVE  /\ order'[o] # "CANCELLED" /\ rows'[o] # "RELEASED" /\ pay'[o] # "VOIDED"
         /\ order[o] = "CONFIRMED" => order'[o] = "CONFIRMED"
<1>1. order[o] # "CANCELLED" /\ rows[o] # "RELEASED" /\ pay[o] # "VOIDED"
  BY DEF SparedInvariant, Spared
<1>2. CASE x # o
  BY <1>1, <1>2, HandleIsLocal
<1>3. CASE x = o
  <2>1. c \notin CompensationCalls
    BY <1>3
  <2>. QED BY <1>1, <1>3, <2>1
           DEF Handle, OrdersService, InventoryService, PaymentsService, CreateLookup,
               CreateInsert, CheckOrder, WriteOrder, ReserveLookup, ReserveLock, Release,
               Capture, VoidAuthorization, services, ServiceTypes, CompensationCalls, Undo
<1>. QED BY <1>2, <1>3

\* A confirmation that is answered with success has been done.
LEMMA ConfirmationIsReal ==
  ASSUME ServiceTypes, NEW c \in {"confirm", "confirmWrite"}, NEW o \in Orders,
         NEW reply \in {"200", "201"}, Handle(c, o, reply)
  PROVE  order'[o] = "CONFIRMED"
BY DEF Handle, OrdersService, InventoryService, PaymentsService, CheckOrder, WriteOrder,
       services, ServiceTypes

\* A ledger is completed only by a confirmation.
LEMMA CompletedByConfirm ==
  ASSUME NEW c \in ForwardCalls, StatusAfter[StatusDuring[c]] = "COMPLETED"
  PROVE  c \in {"confirm", "confirmWrite"}
BY StatusAfterCall DEF ForwardCalls

LEMMA CallEndSpares ==
  ASSUME LedgerTypes, LedgerInvariant, ServiceTypes, SparedInvariant,
         NEW w \in Workers, wk[w].pc \in Calls, NEW v, Receive(w, v),
         \/ UNCHANGED services
         \/ \E reply \in Replies : Handle(wk[w].pc, wk[w].cur, reply),
         late' \subseteq late \cup {<<wk[w].pc, wk[w].cur>>},
         v = "ok" /\ wk[w].pc \in {"confirm", "confirmWrite"}
           => order'[wk[w].cur] = "CONFIRMED"
  PROVE  SparedInvariant'
<1>1. PICK c \in Calls, o \in Orders :
        /\ c = wk[w].pc /\ o = wk[w].cur
        /\ c \in ForwardCalls => view[o].status = StatusDuring[c] /\ view[o].status \in Open
        /\ c \in CompensationCalls => view[o].status = "COMPENSATING"
  BY InCall
<1>2. ASSUME NEW x \in Orders, view[x].status \notin GivenUp
      PROVE  /\ order'[x] # "CANCELLED" /\ rows'[x] # "RELEASED" /\ pay'[x] # "VOIDED"
             /\ order[x] = "CONFIRMED" => order'[x] = "CONFIRMED"
  <2>1. CASE UNCHANGED services
    BY <1>2, <2>1 DEF services, SparedInvariant, Spared
  <2>2. CASE \E reply \in Replies : Handle(c, o, reply)
    BY <1>1, <1>2, <2>2, HandleSpares DEF GivenUp
  <2>. QED BY <1>1, <2>1, <2>2
<1>3. /\ \A x \in Orders : x # o => view'[x] = view[x]
      /\ \/ view'[o].status = view[o].status
         \/ view'[o].status \in GivenUp
         \/ v = "ok" /\ c \in ForwardCalls /\ view'[o].status = StatusAfter[StatusDuring[c]]
  BY <1>1, ReceiveWrites DEF GivenUp
<1>4. ASSUME NEW x \in Orders, view'[x].status \notin GivenUp
      PROVE  view[x].status \notin GivenUp /\ (x = o => c \notin CompensationCalls)
  BY <1>1, <1>3, <1>4 DEF GivenUp, Open, ForwardCalls, CompensationCalls, Undo
<1>5. ASSUME NEW x \in Orders PROVE Spared(x)'
  <2>. SUFFICES ASSUME view'[x].status \notin GivenUp
                PROVE  /\ order'[x] # "CANCELLED" /\ rows'[x] # "RELEASED"
                       /\ pay'[x] # "VOIDED"
                       /\ \A d \in CompensationCalls : <<d, x>> \notin late'
    BY DEF Spared
  <2>1. view[x].status \notin GivenUp /\ (x = o => c \notin CompensationCalls)
    BY <1>4
  <2>2. \A d \in CompensationCalls : <<d, x>> \notin late'
    BY <1>1, <2>1 DEF SparedInvariant, Spared
  <2>. QED BY <1>2, <2>1, <2>2
<1>6. ASSUME NEW x \in Orders, view'[x].status = "COMPLETED"
      PROVE  order'[x] = "CONFIRMED"
  <2>1. CASE view[x].status = "COMPLETED"
    BY <1>2, <2>1 DEF SparedInvariant, GivenUp
  <2>2. CASE view[x].status # "COMPLETED"
    <3>1. x = o /\ v = "ok" /\ c \in ForwardCalls /\ StatusAfter[StatusDuring[c]] = "COMPLETED"
      BY <1>3, <1>6, <2>2 DEF GivenUp
    <3>. QED BY <1>1, <3>1, CompletedByConfirm
  <2>. QED BY <2>1, <2>2
<1>. QED BY <1>5, <1>6 DEF SparedInvariant

LEMMA SparedStep ==
  ASSUME "crash" \notin FaultKinds, "wipe" \notin FaultKinds,
         LedgerTypes, LedgerInvariant, ServiceTypes, SparedInvariant, [Next]_vars
  PROVE  SparedInvariant'
<1>1. CASE QuietStep
  BY <1>1 DEF QuietStep, SparedInvariant, Spared, GivenUp
<1>2. ASSUME NEW w \in Workers, HandlerGoesOn(w) PROVE SparedInvariant'
  BY <1>2, OnlyTwoStepCallsGoOn DEF HandlerGoesOn, services, SparedInvariant, Spared
<1>3. ASSUME NEW w \in Workers, CallEnds(w) PROVE SparedInvariant'
  <2>1. wk[w].pc \in Calls /\ wk[w].cur \in Orders
    BY <1>3, InCall DEF CallEnds, Answered, Refused, AnswerLost, Delayed, Garbled, Calling
  <2>2. late' \subseteq late \cup {<<wk[w].pc, wk[w].cur>>}
    BY <1>3 DEF CallEnds, Answered, Refused, AnswerLost, Delayed, Garbled
  <2>3. \/ UNCHANGED services
        \/ \E reply \in Replies : Handle(wk[w].pc, wk[w].cur, reply)
    BY <1>3 DEF CallEnds, Answered, Refused, AnswerLost, Delayed, Garbled, Replies
  <2>4. \E v : /\ Receive(w, v)
               /\ v = "ok" /\ wk[w].pc \in {"confirm", "confirmWrite"}
                    => order'[wk[w].cur] = "CONFIRMED"
    <3>1. CASE Answered(w)
      <4>1. PICK reply \in Replies \ {"more"} :
              /\ Handle(wk[w].pc, wk[w].cur, reply)
              /\ Receive(w, Verdict(wk[w].pc, reply))
        BY <3>1 DEF Answered
      <4>2. Verdict(wk[w].pc, reply) = "ok" /\ wk[w].pc \in {"confirm", "confirmWrite"}
              => order'[wk[w].cur] = "CONFIRMED"
        BY <2>1, <4>1, VerdictOk, ConfirmationIsReal
      <4>. QED BY <4>1, <4>2
    <3>2. CASE ~Answered(w)
      <4>1. Receive(w, "retry") \/ Receive(w, "permanent")
        BY <1>3, <3>2 DEF CallEnds, Refused, AnswerLost, Delayed, Garbled
      <4>. QED BY <4>1
    <3>. QED BY <3>1, <3>2
  <2>5. PICK v : /\ Receive(w, v)
                 /\ v = "ok" /\ wk[w].pc \in {"confirm", "confirmWrite"}
                      => order'[wk[w].cur] = "CONFIRMED"
    BY <2>4
  <2>. QED BY <2>1, <2>2, <2>3, <2>5, CallEndSpares, Zenon
<1>4. CASE ServeLate
  <2>1. PICK c \in Calls, o \in Orders, reply \in Replies :
          /\ <<c, o>> \in late
          /\ Handle(c, o, reply)
          /\ late' = (late \ {<<c, o>>}) \cup
                     (IF reply = "more" THEN {<<SecondStep[c], o>>} ELSE {})
    BY <1>4 DEF ServeLate
  <2>2. view' = view
    BY <1>4 DEF ServeLate
  <2>3. c \in CompensationCalls => view[o].status \in GivenUp
    BY <2>1 DEF SparedInvariant, Spared
  <2>4. reply = "more" /\ SecondStep[c] \in CompensationCalls => c \in CompensationCalls
    <3>1. /\ SecondStep["create"] = "createInsert" /\ SecondStep["reserve"] = "reserveLock"
          /\ SecondStep["confirm"] = "confirmWrite"
      BY Zenon DEF SecondStep
    <3>. QED BY <2>1, <3>1, OnlyTwoStepCallsGoOn DEF CompensationCalls, Undo
  <2>5. ASSUME NEW x \in Orders, view[x].status \notin GivenUp, NEW d \in CompensationCalls
        PROVE  <<d, x>> \notin late'
    BY <2>1, <2>3, <2>4, <2>5 DEF SparedInvariant, Spared
  <2>6. ASSUME NEW x \in Orders, view[x].status \notin GivenUp
        PROVE  /\ order'[x] # "CANCELLED" /\ rows'[x] # "RELEASED" /\ pay'[x] # "VOIDED"
               /\ order[x] = "CONFIRMED" => order'[x] = "CONFIRMED"
    BY <2>1, <2>3, <2>6, HandleSpares
  <2>. QED BY <2>2, <2>5, <2>6 DEF SparedInvariant, Spared, GivenUp
<1>5. (\A r \in Replicas : ~Crash(r)) /\ ~GatewayRestart
  BY DEF Crash, GatewayRestart, Fault
<1>. QED BY <1>1, <1>2, <1>3, <1>4, <1>5, StepKinds

\* A completed order is fulfilled if the ledger is not ahead of the services
\* and nothing of the order has been undone.
LEMMA SparedIsFulfilled ==
  ASSUME LedgerTypes, LedgerInvariant, ServiceTypes, LedgerNeverAhead, SparedInvariant
  PROVE  CompletedIsFulfilled
<1>. SUFFICES ASSUME NEW o \in Orders, db[o].status = "COMPLETED" PROVE Fulfilled(o)
  BY DEF CompletedIsFulfilled
<1>1. view[o].status = "COMPLETED"
  BY SettledIsSeen DEF Terminal
<1>2. rows[o] # "none" /\ pay[o] = "CAPTURED"
  BY <1>1 DEF LedgerNeverAhead, NotAhead
<1>3. order[o] = "CONFIRMED" /\ rows[o] # "RELEASED"
  BY <1>1 DEF SparedInvariant, Spared, GivenUp
<1>. QED BY <1>2, <1>3 DEF Fulfilled, ServiceTypes

\* SagaExecutorLive.ts: as long as no process crashes, no mix of refused, lost, late
\* and garbled calls completes an order that is not confirmed, reserved and paid.
THEOREM CompletedStaysFulfilled ==
  ASSUME "crash" \notin FaultKinds, "wipe" \notin FaultKinds
  PROVE  Spec => []CompletedIsFulfilled
<1>1. Init => ServiceTypes /\ SparedInvariant
  <2>. SUFFICES ASSUME Init PROVE ServiceTypes /\ SparedInvariant
    OBVIOUS
  <2>1. ServiceTypes
    BY ConstantsAssumption DEF Init, ServiceTypes
  <2>2. SparedInvariant
    BY DEF Init, SparedInvariant, Spared
  <2>. QED BY <2>1, <2>2
<1>2. LedgerTypes /\ LedgerInvariant /\ ServiceTypes /\ SparedInvariant /\ [Next]_vars
        => ServiceTypes' /\ SparedInvariant'
  BY ServiceTypesStep, SparedStep
<1>3. LedgerTypes /\ LedgerInvariant /\ ServiceTypes /\ LedgerNeverAhead /\ SparedInvariant
        => CompletedIsFulfilled
  BY SparedIsFulfilled
<1>4. Spec => []LedgerNeverAhead
  BY LedgerIsNeverAhead
<1>. QED BY <1>1, <1>2, <1>3, <1>4, LedgerCorrect, PTL DEF Spec

-----------------------------------------------------------------------------
(* With crashes alone, and the requests that dead replicas have sent: a    *)
(* payment is captured only for an order that has its stock, whose replay  *)
(* is then never refused anything, and the void comes first in a           *)
(* compensation, so that no order is undone that may still be charged.     *)

\* No money has been taken for the order, and none will be.
Uncharged(o) ==
  \/ pay[o] = "VOIDED"
  \/ pay[o] = "AUTHORIZED" /\ <<"capture", o>> \notin late

\* What is true when a call is made stays so until it is served, however late.
Permitted(c, o) ==
  /\ c \in {"release", "cancel", "cancelWrite"} => pay[o] = "VOIDED"
  /\ c \in {"confirm", "confirmWrite"} => pay[o] = "CAPTURED"
  /\ c = "capture" /\ pay[o] = "AUTHORIZED" => rows[o] = "RESERVED" /\ order[o] # "none"

\* What the services know of an order.
ServicesKnow(o) ==
  /\ pay[o] # "missing"
  /\ pay[o] = "CAPTURED" => rows[o] = "RESERVED" /\ order[o] # "none"
  /\ rows[o] = "RELEASED" \/ order[o] = "CANCELLED" => pay[o] = "VOIDED"
  /\ order[o] = "CONFIRMED" => pay[o] = "CAPTURED"

\* What its ledger says of them.
LedgerKnows(o) ==
  /\ view[o].status = "COMPENSATING" => Uncharged(o)
  /\ view[o].status = "COMPLETED" => order[o] = "CONFIRMED"
  /\ view[o].status = "FAILED" => pay[o] = "VOIDED"

\* What a worker knows while it is in a call that may fail, or undoes something.
CallKnows(w) ==
  /\ wk[w].pc \in {"createInsert", "reserveLock"} => Uncharged(wk[w].cur)
  /\ wk[w].pc \in {"release", "cancel", "cancelWrite"} => pay[wk[w].cur] = "VOIDED"

\* The inductive invariant.
CrashInvariant ==
  /\ \A o \in Orders : ServicesKnow(o) /\ LedgerKnows(o)
  /\ \A o \in Orders : \A c \in Calls : <<c, o>> \in late => Permitted(c, o)
  /\ \A w \in Workers : CallKnows(w)

\* What is known of a worker in a call, and of its order.
LEMMA CallFacts ==
  ASSUME LedgerTypes, LedgerInvariant, ServiceTypes, LedgerNeverAhead, CrashInvariant,
         NEW w \in Workers, wk[w].pc \in Calls
  PROVE  LET o == wk[w].cur
             c == wk[w].pc
         IN  /\ o \in Orders /\ ServicesKnow(o) /\ LedgerKnows(o) /\ CallKnows(w)
             /\ Permitted(c, o)
             /\ c \in ForwardCalls => view[o].status = StatusDuring[c]
             /\ c \in CompensationCalls => view[o].status = "COMPENSATING"
<1>. DEFINE o == wk[w].cur
            c == wk[w].pc
<1>1. /\ o \in Orders
      /\ c \in ForwardCalls => view[o].status = StatusDuring[c]
      /\ c \in CompensationCalls => view[o].status = "COMPENSATING"
  BY InCall
<1>2. ServicesKnow(o) /\ LedgerKnows(o) /\ CallKnows(w) /\ NotAhead(view[o], o)
  BY <1>1 DEF CrashInvariant, LedgerNeverAhead
<1>3. c = "capture" => rows[o] # "none" /\ order[o] # "none"
  BY <1>1, <1>2, DuringCall DEF NotAhead, Open, ForwardCalls
<1>4. c \in {"confirm", "confirmWrite"} => pay[o] = "CAPTURED"
  BY <1>1, <1>2, DuringCall DEF NotAhead, ForwardCalls
<1>5. Permitted(c, o)
  BY <1>1, <1>2, <1>3, <1>4 DEF Permitted, ServicesKnow, CallKnows, ServiceTypes
<1>. QED BY <1>1, <1>2, <1>5

\* A call that is permitted keeps what the services know, and what else is
\* permitted; it charges nothing unless it is a capture.
LEMMA ServedKeeps ==
  ASSUME ServiceTypes, \A x \in Orders : ServicesKnow(x),
         NEW o \in Orders, NEW c, Permitted(c, o), NEW reply, Handle(c, o, reply),
         NEW x \in Orders
  PROVE  /\ ServicesKnow(x)'
         /\ \A d : Permitted(d, x) => Permitted(d, x)'
         /\ pay[x] = "VOIDED" => pay'[x] = "VOIDED"
         /\ order[x] = "CONFIRMED" => order'[x] = "CONFIRMED"
         /\ pay[x] = "AUTHORIZED" /\ ~(x = o /\ c = "capture")
              => pay'[x] \in {"AUTHORIZED", "VOIDED"}
<1>1. CASE x # o
  <2>1. order'[x] = order[x] /\ rows'[x] = rows[x] /\ pay'[x] = pay[x]
    BY <1>1, HandleIsLocal
  <2>. QED BY <1>1, <2>1 DEF ServicesKnow, Permitted
<1>2. CASE x = o
  <2>1. /\ ServicesKnow(o)
        /\ order[o] \in {"none", "CREATED", "CONFIRMED", "CANCELLED"}
        /\ rows[o] \in {"none", "RESERVED", "RELEASED"}
        /\ pay[o] \in {"AUTHORIZED", "CAPTURED", "VOIDED", "missing"}
    BY DEF ServiceTypes
  <2>2. CASE UNCHANGED services
    BY <1>2, <2>1, <2>2 DEF services, ServicesKnow, Permitted
  <2>3. CASE c = "createInsert" /\ ~UNCHANGED services
    <3>1. order[o] = "none" /\ order'[o] = "CREATED" /\ UNCHANGED <<rows, pay>>
      BY <2>3 DEF Handle, OrdersService, InventoryService, PaymentsService,
                  CreateInsert, ServiceTypes, services
    <3>. QED BY <1>2, <2>1, <3>1 DEF ServicesKnow, Permitted
  <2>4. CASE c = "reserveLock" /\ ~UNCHANGED services
    <3>1. rows[o] = "none" /\ rows'[o] = "RESERVED" /\ UNCHANGED <<order, pay>>
      BY <2>4 DEF Handle, OrdersService, InventoryService, PaymentsService,
                  ReserveLock, ServiceTypes, services
    <3>. QED BY <1>2, <2>1, <3>1 DEF ServicesKnow, Permitted
  <2>5. CASE c = "release" /\ ~UNCHANGED services
    <3>1. rows'[o] = "RELEASED" /\ UNCHANGED <<order, pay>> /\ pay[o] = "VOIDED"
      BY <2>5 DEF Handle, OrdersService, InventoryService, PaymentsService,
                  Release, ServiceTypes, services, Permitted
    <3>. QED BY <1>2, <2>1, <3>1 DEF ServicesKnow, Permitted
  <2>6. CASE c \in {"confirmWrite", "cancelWrite"}
    <3>1. /\ UNCHANGED <<rows, pay>>
          /\ \/ order'[o] = "CONFIRMED" /\ pay[o] = "CAPTURED"
             \/ order'[o] = "CANCELLED" /\ pay[o] = "VOIDED"
      BY <2>6 DEF Handle, OrdersService, InventoryService, PaymentsService,
                  WriteOrder, ServiceTypes, Permitted
    <3>. QED BY <1>2, <2>1, <3>1 DEF ServicesKnow, Permitted
  <2>7. CASE c = "capture" /\ ~UNCHANGED services
    <3>1. /\ UNCHANGED <<order, rows>> /\ pay'[o] = "CAPTURED"
          /\ pay[o] \in {"AUTHORIZED", "CAPTURED"}
      BY <2>7 DEF Handle, OrdersService, InventoryService, PaymentsService,
                  Capture, ServiceTypes, services
    <3>. QED BY <1>2, <2>1, <2>7, <3>1 DEF ServicesKnow, Permitted
  <2>8. CASE c = "void" /\ ~UNCHANGED services
    <3>1. /\ UNCHANGED <<order, rows>> /\ pay'[o] = "VOIDED"
          /\ pay[o] \in {"AUTHORIZED", "VOIDED"}
      BY <2>8 DEF Handle, OrdersService, InventoryService, PaymentsService,
                  VoidAuthorization, ServiceTypes, services
    <3>. QED BY <1>2, <2>1, <3>1 DEF ServicesKnow, Permitted
  <2>. QED
    BY <2>2, <2>3, <2>4, <2>5, <2>6, <2>7, <2>8
    DEF Handle, OrdersService, InventoryService, PaymentsService, CreateLookup,
        CheckOrder, ReserveLookup
<1>. QED BY <1>1, <1>2

\* Rows and workers whose order a served call is not about, or that know of no
\* charge to come.
LEMMA OthersKnow ==
  ASSUME LedgerTypes, LedgerInvariant, ServiceTypes, CrashInvariant,
         NEW o \in Orders, NEW c, Permitted(c, o), NEW reply, Handle(c, o, reply),
         \A x \in Orders : <<"capture", x>> \in late' => <<"capture", x>> \in late
  PROVE  /\ \A x \in Orders : ServicesKnow(x)'
         /\ \A x \in Orders : \A d \in Calls : <<d, x>> \in late => Permitted(d, x)'
         /\ \A x \in Orders : (x = o /\ c = "capture" => pay[o] = "VOIDED")
              => /\ Uncharged(x) => Uncharged(x)'
                 /\ view'[x] = view[x] => LedgerKnows(x)'
         /\ \A u \in Workers :
              /\ wk'[u] = wk[u]
              /\ wk[u].pc \in Calls /\ wk[u].cur = o /\ c = "capture" => pay[o] = "VOIDED"
              => CallKnows(u)'
<1>1. ASSUME NEW x \in Orders
      PROVE  /\ ServicesKnow(x)'
             /\ \A d : Permitted(d, x) => Permitted(d, x)'
             /\ pay[x] = "VOIDED" => pay'[x] = "VOIDED"
             /\ order[x] = "CONFIRMED" => order'[x] = "CONFIRMED"
             /\ pay[x] = "AUTHORIZED" /\ ~(x = o /\ c = "capture")
                  => pay'[x] \in {"AUTHORIZED", "VOIDED"}
  BY ServedKeeps DEF CrashInvariant
<1>2. ASSUME NEW x \in Orders, x = o /\ c = "capture" => pay[o] = "VOIDED", Uncharged(x)
      PROVE  Uncharged(x)'
  BY <1>1, <1>2 DEF Uncharged
<1>3. ASSUME NEW x \in Orders, x = o /\ c = "capture" => pay[o] = "VOIDED",
             view'[x] = view[x]
      PROVE  LedgerKnows(x)'
  BY <1>1, <1>2, <1>3 DEF CrashInvariant, LedgerKnows
<1>4. ASSUME NEW u \in Workers, wk'[u] = wk[u],
             wk[u].pc \in Calls /\ wk[u].cur = o /\ c = "capture" => pay[o] = "VOIDED"
      PROVE  CallKnows(u)'
  <2>1. CASE wk[u].pc \in Calls
    <3>1. wk[u].cur \in Orders /\ CallKnows(u)
      BY <2>1, InCall DEF CrashInvariant
    <3>. QED BY <1>1, <1>2, <1>4, <2>1, <3>1 DEF CallKnows
  <2>2. CASE wk[u].pc \notin Calls
    BY <1>4, <2>2 DEF CallKnows, Calls, ForwardCalls, CompensationCalls, Undo
  <2>. QED BY <2>1, <2>2
<1>. QED BY <1>1, <1>2, <1>3, <1>4 DEF CrashInvariant

\* The verdicts on the replies that occur.
LEMMA Verdicts ==
  /\ \A c \in {"capture", "confirm", "confirmWrite"} : Verdict(c, "200") = "ok"
  /\ \A c \in {"create", "createInsert", "reserve", "reserveLock"} :
       Verdict(c, "201") = "ok"
  /\ Verdict("reserveLock", "409") = "permanent"
<1>1. \A c \in {"capture"} : Verdict(c, "200") = "ok"
  BY DEF Verdict, PaymentsVerdict, Classified
<1>2. \A c \in {"confirm", "confirmWrite"} : Verdict(c, "200") = "ok"
  BY DEF Verdict, OrdersVerdict, Classified
<1>3. \A c \in {"create", "createInsert"} : Verdict(c, "201") = "ok"
  BY DEF Verdict, OrdersVerdict, Classified
<1>4. \A c \in {"reserve", "reserveLock"} : Verdict(c, "201") = "ok"
  BY DEF Verdict, InventoryVerdict, Classified
<1>5. Verdict("reserveLock", "409") = "permanent"
  BY DEF Verdict, InventoryVerdict, Classified
<1>. QED BY <1>1, <1>2, <1>3, <1>4, <1>5

\* A step that fails can no longer be followed by a charge; a confirmation does
\* not fail.
LEMMA ForwardFails ==
  ASSUME LedgerTypes, LedgerInvariant, ServiceTypes, LedgerNeverAhead, CrashInvariant,
         NEW w \in Workers, wk[w].pc \in ForwardCalls,
         NEW reply \in Replies \ {"more"}, Handle(wk[w].pc, wk[w].cur, reply),
         Verdict(wk[w].pc, reply) # "ok"
  PROVE  /\ Uncharged(wk[w].cur)
         /\ wk[w].pc \in {"createInsert", "reserveLock", "capture"}
         /\ wk[w].pc = "capture" => pay[wk[w].cur] = "VOIDED"
<1>. DEFINE o == wk[w].cur
            c == wk[w].pc
<1>1. wk[w].pc \in Calls
  BY DEF Calls
<1>2. /\ o \in Orders /\ ServicesKnow(o) /\ CallKnows(w) /\ Permitted(c, o)
      /\ order[o] \in {"none", "CREATED", "CONFIRMED", "CANCELLED"}
      /\ pay[o] \in {"AUTHORIZED", "CAPTURED", "VOIDED", "missing"}
  BY <1>1, CallFacts DEF ServiceTypes
<1>3. CASE c = "create"
  <2>1. reply = "201"
    BY <1>3 DEF Handle, OrdersService, InventoryService, PaymentsService, CreateLookup
  <2>. QED BY <1>3, <2>1, Verdicts
<1>4. CASE c = "reserve"
  <2>1. reply = "201"
    BY <1>4 DEF Handle, OrdersService, InventoryService, PaymentsService, ReserveLookup
  <2>. QED BY <1>4, <2>1, Verdicts
<1>5. CASE c \in {"confirm", "confirmWrite"}
  <2>1. order[o] \in {"CREATED", "CONFIRMED"}
    BY <1>2, <1>5 DEF ServicesKnow, Permitted
  <2>2. reply = "200"
    BY <1>5, <2>1 DEF Handle, OrdersService, InventoryService, PaymentsService,
                      CheckOrder, WriteOrder
  <2>. QED BY <1>5, <2>2, Verdicts
<1>6. CASE c = "capture"
  <2>1. reply = "200" \/ pay[o] = "VOIDED"
    BY <1>2, <1>6 DEF Handle, OrdersService, InventoryService, PaymentsService, Capture,
                      ServicesKnow
  <2>. QED BY <1>6, <2>1, Verdicts DEF Uncharged
<1>7. CASE c \in {"createInsert", "reserveLock"}
  BY <1>2, <1>7 DEF CallKnows
<1>. QED BY <1>3, <1>4, <1>5, <1>6, <1>7 DEF ForwardCalls

\* A void that is answered has been done, if there was no charge before it.
LEMMA VoidIsReal ==
  ASSUME ServiceTypes, NEW o \in Orders, Uncharged(o), NEW reply, Handle("void", o, reply)
  PROVE  pay'[o] = "VOIDED"
BY DEF Handle, OrdersService, InventoryService, PaymentsService, VoidAuthorization,
       ServiceTypes, Uncharged

\* A call that is answered.
LEMMA AnsweredKnows ==
  ASSUME LedgerTypes, LedgerInvariant, ServiceTypes, LedgerNeverAhead, CrashInvariant,
         NEW w \in Workers, Answered(w)
  PROVE  CrashInvariant'
<1>1. wk[w].pc \in Calls
  BY DEF Answered, Calling
<1>2. PICK o \in Orders, c \in Calls, reply \in Replies \ {"more"} :
        /\ o = wk[w].cur /\ c = wk[w].pc /\ Handle(c, o, reply)
        /\ Receive(w, Verdict(c, reply))
  BY <1>1, InCall DEF Answered
<1>3. /\ ServicesKnow(o) /\ LedgerKnows(o) /\ CallKnows(w) /\ Permitted(c, o)
      /\ c \in ForwardCalls => view[o].status = StatusDuring[c] /\ view[o].status \in Open
      /\ c \in CompensationCalls => view[o].status = "COMPENSATING"
      /\ view[o] \in Row /\ wk[w] \in WorkerRecord
  BY <1>1, <1>2, CallFacts, InCall DEF LedgerTypes
<1>4. /\ late' = late
      /\ \A x \in Orders : x # o => view'[x] = view[x]
      /\ \A u \in Workers : u # w => wk'[u] = wk[u]
      /\ \A u \in Workers : u # w /\ wk[u].pc \in Calls => wk[u].cur # o
  BY <1>1, <1>2, ReceiveIsLocal, CallsAreApart DEF Answered
<1>5. /\ \A x \in Orders : ServicesKnow(x)'
      /\ \A x \in Orders : \A d \in Calls : <<d, x>> \in late' => Permitted(d, x)'
      /\ \A x \in Orders : x # o => LedgerKnows(x)'
      /\ \A u \in Workers : u # w => CallKnows(u)'
      /\ (c = "capture" => pay[o] = "VOIDED") /\ Uncharged(o) => Uncharged(o)'
  BY <1>2, <1>3, <1>4, OthersKnow
<1>6. /\ pay[o] = "VOIDED" => pay'[o] = "VOIDED"
  BY <1>2, <1>3, ServedKeeps DEF CrashInvariant
<1>7. LedgerKnows(o)' /\ CallKnows(w)'
  <2>1. CASE StepSucceeded(w, Verdict(c, reply))
    <3>1. c \in ForwardCalls /\ Verdict(c, reply) = "ok"
      BY <1>2, <2>1 DEF StepSucceeded
    <3>. DEFINE s == StatusAfter[view[o].status]
    <3>2. s \in Open \cup {"COMPLETED"}
      BY <1>3, <3>1, StepTables
    <3>3. view'[o].status = s
      <4>1. /\ Ended(view[o], s).status = s
            /\ [view[o] EXCEPT !.status = s, !.orderId = TRUE].status = s
        BY <1>3 DEF Ended, Row
      <4>2. \/ view' = [view EXCEPT ![o] = Ended(view[o], s)]
            \/ view' = [view EXCEPT ![o] = [view[o] EXCEPT !.status = s, !.orderId = TRUE]]
        BY <1>2, <2>1 DEF StepSucceeded
      <4>. QED BY <4>1, <4>2 DEF LedgerTypes
    <3>4. s = "COMPLETED" => order'[o] = "CONFIRMED"
      <4>. SUFFICES ASSUME s = "COMPLETED" PROVE order'[o] = "CONFIRMED"
        OBVIOUS
      <4>1. c \in {"confirm", "confirmWrite"}
        BY <1>3, <3>1, CompletedByConfirm
      <4>2. reply \in {"200", "201"}
        BY <3>1, <4>1, VerdictOk
      <4>. QED BY <1>2, <4>1, <4>2, ConfirmationIsReal
    <3>5. \A t \in Open : StepFor[t] \in FirstCalls
      BY Zenon DEF StepFor, Open, FirstCalls
    <3>6. wk'[w].pc = "pick" \/ (s # "COMPLETED" /\ wk'[w].pc = StepFor[s])
      BY <1>2, <1>3, <2>1 DEF StepSucceeded, EventDone, LedgerTypes, WorkerRecord
    <3>. HIDE DEF s
    <3>7. wk'[w].pc \in {"pick"} \cup FirstCalls
      BY <3>2, <3>5, <3>6
    <3>. QED BY <3>2, <3>3, <3>4, <3>7 DEF LedgerKnows, CallKnows, Open, FirstCalls
  <2>2. CASE ScheduleRetry(w, Verdict(c, reply))
    <3>1. view'[o].status = view[o].status /\ view[o].status \in Open /\ wk'[w].pc = "pick"
      BY <1>2, <1>3, <2>2 DEF ScheduleRetry, Retried, EventDone, LedgerTypes, Row,
                              WorkerRecord
    <3>. QED BY <3>1 DEF LedgerKnows, CallKnows, Open
  <2>3. CASE StartCompensation(w, Verdict(c, reply))
    <3>1. c \in ForwardCalls /\ Verdict(c, reply) # "ok"
      BY <1>2, <2>3 DEF StartCompensation
    <3>2. /\ Uncharged(o) /\ c \in {"createInsert", "reserveLock", "capture"}
          /\ c = "capture" => pay[o] = "VOIDED"
      BY <1>2, <3>1, ForwardFails
    <3>3. Uncharged(o)'
      BY <1>5, <3>2
    <3>4. view[o].status # "PAYMENT_CAPTURED"
      BY <1>3, <3>1, <3>2, DuringCall
    <3>5. First(Required(view[o].status, view[o].orderId)) = "void"
      BY <3>4 DEF First, Required, Undo
    <3>6. wk'[w].pc = "void" /\ view'[o].status = "COMPENSATING"
      BY <1>2, <1>3, <2>3, <3>5
      DEF StartCompensation, Compensating, LedgerTypes, WorkerRecord, Row
    <3>. QED BY <3>3, <3>6 DEF LedgerKnows, CallKnows
  <2>4. CASE Compensated(w, Verdict(c, reply))
    <3>1. c \in CompensationCalls /\ view[o].status = "COMPENSATING"
      BY <1>2, <1>3, <2>4 DEF Compensated
    <3>2. pay'[o] = "VOIDED"
      <4>1. CASE c = "void"
        BY <1>2, <1>3, <3>1, <4>1, VoidIsReal DEF LedgerKnows
      <4>2. CASE c # "void"
        BY <1>2, <1>3, <1>6, <3>1, <4>2 DEF CallKnows, CompensationCalls, Undo
      <4>. QED BY <4>1, <4>2
    <3>3. view'[o].status \in {"COMPENSATING", "FAILED"}
      <4>1. view' = view \/ view' = [view EXCEPT ![o] = Ended(view[o], "FAILED")]
        BY <1>2, <2>4 DEF Compensated
      <4>2. Ended(view[o], "FAILED").status = "FAILED"
        BY <1>3 DEF Ended, Row
      <4>. QED BY <3>1, <4>1, <4>2 DEF LedgerTypes
    <3>4. wk'[w].pc = "pick" \/ wk'[w].cur = o
      BY <1>2, <1>3, <2>4 DEF Compensated, EventDone, LedgerTypes, WorkerRecord
    <3>5. wk'[w].pc \notin {"createInsert", "reserveLock"}
      BY <1>2, <1>3, <2>4 DEF Compensated, EventDone, First, LedgerTypes, WorkerRecord
    <3>. QED BY <3>2, <3>3, <3>4, <3>5 DEF LedgerKnows, CallKnows, Uncharged
  <2>. QED BY <1>2, <2>1, <2>2, <2>3, <2>4 DEF Receive
<1>. QED BY <1>4, <1>5, <1>7 DEF CrashInvariant

\* A handler that goes on has found that there is no order, or no reservation,
\* and then no charge is on its way.
LEMMA GoingOnKnows ==
  ASSUME LedgerTypes, LedgerInvariant, ServiceTypes, LedgerNeverAhead, CrashInvariant,
         NEW w \in Workers, HandlerGoesOn(w)
  PROVE  CrashInvariant'
<1>1. PICK o \in Orders, c \in Calls :
        o = wk[w].cur /\ c = wk[w].pc /\ Handle(c, o, "more")
  BY InCall DEF HandlerGoesOn, Calling
<1>2. /\ UNCHANGED <<view, late, services>>
      /\ c \in {"create", "reserve", "confirm", "cancel"}
  BY <1>1, OnlyTwoStepCallsGoOn DEF HandlerGoesOn
<1>3. \A x \in Orders : /\ ServicesKnow(x)' /\ LedgerKnows(x)'
                        /\ \A d \in Calls : <<d, x>> \in late' => Permitted(d, x)'
  BY <1>2 DEF CrashInvariant, ServicesKnow, LedgerKnows, Permitted, Uncharged, services
<1>4. ASSUME NEW u \in Workers, u # w PROVE CallKnows(u)'
  <2>1. wk'[u] = wk[u]
    BY <1>4 DEF HandlerGoesOn, LedgerTypes
  <2>. QED BY <1>2, <2>1 DEF CrashInvariant, CallKnows, Uncharged, services
<1>5. CallKnows(w)'
  <2>1. wk'[w].pc = SecondStep[c] /\ wk'[w].cur = o
    BY <1>1 DEF HandlerGoesOn, LedgerTypes, WorkerRecord
  <2>2. /\ SecondStep["create"] = "createInsert" /\ SecondStep["reserve"] = "reserveLock"
        /\ SecondStep["confirm"] = "confirmWrite" /\ SecondStep["cancel"] = "cancelWrite"
    BY Zenon DEF SecondStep
  <2>3. c \in {"create", "reserve"} => order[o] = "none" \/ rows[o] # "RESERVED"
    BY <1>1 DEF Handle, OrdersService, InventoryService, PaymentsService, CreateLookup,
                ReserveLookup
  <2>4. order[o] = "none" \/ rows[o] # "RESERVED" => Uncharged(o)
    <3>1. /\ ServicesKnow(o) /\ pay[o] \in {"AUTHORIZED", "CAPTURED", "VOIDED", "missing"}
          /\ <<"capture", o>> \in late => Permitted("capture", o)
      BY DEF CrashInvariant, ServiceTypes, Calls, ForwardCalls
    <3>. QED BY <3>1 DEF Uncharged, ServicesKnow, Permitted
  <2>5. c = "cancel" => pay[o] = "VOIDED"
    BY <1>1 DEF CrashInvariant, CallKnows
  <2>. QED BY <1>2, <2>1, <2>2, <2>3, <2>4, <2>5 DEF CallKnows, Uncharged, services
<1>. QED BY <1>3, <1>4, <1>5 DEF CrashInvariant

\* A request of a dead replica is served.
LEMMA LateKnows ==
  ASSUME LedgerTypes, LedgerInvariant, ServiceTypes, CrashInvariant, ServeLate
  PROVE  CrashInvariant'
<1>1. PICK c \in Calls, o \in Orders, reply \in Replies :
        /\ <<c, o>> \in late
        /\ Handle(c, o, reply)
        /\ late' = (late \ {<<c, o>>}) \cup
                   (IF reply = "more" THEN {<<SecondStep[c], o>>} ELSE {})
  BY DEF ServeLate
<1>2. UNCHANGED <<view, wk>>
  BY DEF ServeLate
<1>3. Permitted(c, o)
  BY <1>1 DEF CrashInvariant
<1>4. /\ reply = "more" => c \in {"create", "reserve", "confirm", "cancel"}
      /\ SecondStep["create"] = "createInsert" /\ SecondStep["reserve"] = "reserveLock"
      /\ SecondStep["confirm"] = "confirmWrite" /\ SecondStep["cancel"] = "cancelWrite"
  <2>1. reply = "more" => c \in {"create", "reserve", "confirm", "cancel"}
    BY <1>1, OnlyTwoStepCallsGoOn
  <2>2. /\ SecondStep["create"] = "createInsert" /\ SecondStep["reserve"] = "reserveLock"
        /\ SecondStep["confirm"] = "confirmWrite" /\ SecondStep["cancel"] = "cancelWrite"
    BY Zenon DEF SecondStep
  <2>. QED BY <2>1, <2>2
<1>5. \A x \in Orders : <<"capture", x>> \in late' => <<"capture", x>> \in late
  BY <1>1, <1>4
<1>6. /\ \A x \in Orders : ServicesKnow(x)'
      /\ \A x \in Orders : \A d \in Calls : <<d, x>> \in late => Permitted(d, x)'
      /\ \A x \in Orders : (x = o /\ c = "capture" => pay[o] = "VOIDED")
           => LedgerKnows(x)'
      /\ \A u \in Workers :
           (wk[u].pc \in Calls /\ wk[u].cur = o /\ c = "capture" => pay[o] = "VOIDED")
           => CallKnows(u)'
  BY <1>1, <1>2, <1>3, <1>5, OthersKnow
<1>7. ASSUME NEW x \in Orders, NEW d \in Calls, <<d, x>> \in late' PROVE Permitted(d, x)'
  <2>1. CASE <<d, x>> \in late
    BY <1>6, <2>1
  <2>2. CASE <<d, x>> \notin late
    <3>1. x = o /\ d = SecondStep[c] /\ reply = "more"
      BY <1>1, <1>7, <2>2
    <3>2. Permitted(c, o)'
      BY <1>1, <1>6
    <3>. QED BY <1>4, <3>1, <3>2 DEF Permitted
  <2>. QED BY <2>1, <2>2
<1>8. /\ pay[o] = "VOIDED" => pay'[o] = "VOIDED"
      /\ order[o] = "CONFIRMED" => order'[o] = "CONFIRMED"
  BY <1>1, <1>3, ServedKeeps DEF CrashInvariant
<1>9. c = "capture" /\ Uncharged(o) => pay[o] = "VOIDED"
  BY <1>1 DEF Uncharged
<1>10. ASSUME NEW x \in Orders PROVE LedgerKnows(x)'
  <2>1. CASE x = o /\ c = "capture" /\ pay[o] # "VOIDED"
    BY <1>2, <1>8, <1>9, <2>1 DEF CrashInvariant, LedgerKnows
  <2>. QED BY <1>6, <2>1
<1>11. ASSUME NEW u \in Workers PROVE CallKnows(u)'
  <2>1. CASE wk[u].pc \in Calls /\ wk[u].cur = o /\ c = "capture" /\ pay[o] # "VOIDED"
    BY <1>2, <1>9, <2>1 DEF CrashInvariant, CallKnows
  <2>. QED BY <1>6, <2>1
<1>. QED BY <1>6, <1>7, <1>10, <1>11 DEF CrashInvariant

\* A crash takes the ledgers it rolls back to a status that claims nothing, and
\* leaves only permitted requests behind.
LEMMA CrashKnows ==
  ASSUME LedgerTypes, LedgerInvariant, ServiceTypes, LedgerNeverAhead, CrashInvariant,
         NEW r \in Replicas, Crash(r)
  PROVE  CrashInvariant'
<1>. DEFINE mine == {w \in Workers : w[1] = r}
            sent == {<<wk[w].pc, wk[w].cur>> : w \in {x \in mine : wk[x].pc \in Calls}}
<1>1. /\ UNCHANGED services
      /\ wk' = [w \in Workers |-> IF w \in mine THEN IdleWorker ELSE wk[w]]
      /\ view' = [o \in Orders |->
                    IF o \in UNION {wk[w].held : w \in mine} THEN db[o] ELSE view[o]]
      /\ \E kept \in SUBSET sent : late' = late \cup kept
  BY DEF Crash
<1>2. ASSUME NEW o \in Orders, NEW c, <<c, o>> \in late', <<c, o>> \notin late
      PROVE  /\ Permitted(c, o)
             /\ \E w \in mine : wk[w].pc \in Calls /\ wk[w].cur = o /\ o \in wk[w].held
  <2>1. PICK w \in mine : wk[w].pc = c /\ wk[w].cur = o /\ wk[w].pc \in Calls
    BY <1>1, <1>2
  <2>. QED BY <2>1, CallFacts, InCall
<1>3. ASSUME NEW o \in Orders, NEW c \in Calls, <<c, o>> \in late' PROVE Permitted(c, o)'
  BY <1>1, <1>2, <1>3 DEF services, CrashInvariant, Permitted
<1>4. ASSUME NEW o \in Orders PROVE ServicesKnow(o)'
  BY <1>1 DEF services, CrashInvariant, ServicesKnow
<1>5. ASSUME NEW o \in Orders PROVE LedgerKnows(o)'
  <2>1. CASE o \in UNION {wk[w].held : w \in mine}
    <3>1. PICK w \in mine : o \in wk[w].held /\ view'[o] = db[o]
      BY <1>1, <2>1
    <3>2. db[o].event = "PENDING"
      BY <3>1 DEF LedgerInvariant, HeldRow
    <3>3. view'[o].status \in Open
      BY <3>1, <3>2 DEF LedgerInvariant, OutboxAgreesWithLedger, Agrees
    <3>. QED BY <3>3 DEF LedgerKnows, Open
  <2>2. CASE o \notin UNION {wk[w].held : w \in mine}
    <3>1. view'[o] = view[o] /\ LedgerKnows(o)
      BY <1>1, <2>2 DEF CrashInvariant
    <3>2. <<"capture", o>> \in late' => <<"capture", o>> \in late
      BY <1>2, <2>2
    <3>. QED BY <1>1, <3>1, <3>2 DEF services, LedgerKnows, Uncharged
  <2>. QED BY <2>1, <2>2
<1>6. ASSUME NEW u \in Workers PROVE CallKnows(u)'
  <2>1. CASE u \in mine
    BY <1>1, <2>1 DEF CallKnows, IdleWorker
  <2>2. CASE u \notin mine
    <3>1. wk'[u] = wk[u] /\ CallKnows(u)
      BY <1>1, <2>2 DEF CrashInvariant
    <3>2. CASE wk[u].pc \in Calls
      <4>1. wk[u].cur \in Orders /\ \A w \in mine : wk[w].pc \in Calls => wk[w].cur # wk[u].cur
        BY <2>2, <3>2, InCall, CallsAreApart
      <4>2. <<"capture", wk[u].cur>> \in late' => <<"capture", wk[u].cur>> \in late
        BY <1>2, <4>1
      <4>. QED BY <1>1, <3>1, <4>2 DEF services, CallKnows, Uncharged
    <3>3. CASE wk[u].pc \notin Calls
      BY <3>1, <3>3 DEF CallKnows, Calls, ForwardCalls, CompensationCalls, Undo
    <3>. QED BY <3>2, <3>3
  <2>. QED BY <2>1, <2>2
<1>. QED BY <1>3, <1>4, <1>5, <1>6 DEF CrashInvariant

LEMMA CrashStep ==
  ASSUME FaultKinds \subseteq {"crash"},
         LedgerTypes, LedgerInvariant, ServiceTypes, LedgerNeverAhead, CrashInvariant,
         [Next]_vars
  PROVE  CrashInvariant'
<1>1. CASE QuietStep
  <2>1. \A o \in Orders : /\ ServicesKnow(o)' /\ LedgerKnows(o)'
                          /\ \A c \in Calls : <<c, o>> \in late' => Permitted(c, o)'
    BY <1>1 DEF QuietStep, CrashInvariant, ServicesKnow, LedgerKnows, Permitted, Uncharged
  <2>2. \A w \in Workers : CallKnows(w)'
    BY <1>1 DEF QuietStep, CrashInvariant, CallKnows, FirstCalls, Uncharged
  <2>. QED BY <2>1, <2>2 DEF CrashInvariant
<1>2. ASSUME NEW w \in Workers, HandlerGoesOn(w) PROVE CrashInvariant'
  BY <1>2, GoingOnKnows
<1>3. ASSUME NEW w \in Workers, CallEnds(w) PROVE CrashInvariant'
  <2>1. Answered(w)
    BY <1>3 DEF CallEnds, Refused, AnswerLost, Delayed, Garbled, Fault
  <2>. QED BY <2>1, AnsweredKnows
<1>4. CASE ServeLate
  BY <1>4, LateKnows
<1>5. ASSUME NEW r \in Replicas, Crash(r) PROVE CrashInvariant'
  BY <1>5, CrashKnows
<1>6. ~GatewayRestart
  BY DEF GatewayRestart, Fault
<1>. QED BY <1>1, <1>2, <1>3, <1>4, <1>5, <1>6, StepKinds

LEMMA SettledIsPaid ==
  ASSUME LedgerTypes, LedgerInvariant, CrashInvariant
  PROVE  PaidAsSettled
<1>1. ASSUME NEW o \in Orders, db[o].status \in Terminal
      PROVE  view[o] = db[o] /\ LedgerKnows(o) /\ ServicesKnow(o)
  BY <1>1, SettledIsSeen DEF CrashInvariant
<1>2. ASSUME NEW o \in Orders, db[o].status = "COMPLETED" PROVE Fulfilled(o)
  BY <1>1, <1>2 DEF Terminal, LedgerKnows, ServicesKnow, Fulfilled
<1>3. ASSUME NEW o \in Orders, db[o].status = "FAILED" PROVE pay[o] = "VOIDED"
  BY <1>1, <1>3 DEF Terminal, LedgerKnows
<1>. QED BY <1>2, <1>3 DEF PaidAsSettled, CompletedIsFulfilled

\* CompensationExecutorLive.ts: as long as nothing fails but the orchestrator's own
\* processes, however often they die in the middle of a batch and whatever the
\* requests they leave behind still do, a completed order lacks nothing and the
\* payment of a failed one is voided.
THEOREM CrashesKeepPaidAsSettled ==
  ASSUME FaultKinds \subseteq {"crash"}
  PROVE  Spec => []PaidAsSettled
<1>1. Init => ServiceTypes /\ CrashInvariant
  <2>. SUFFICES ASSUME Init PROVE ServiceTypes /\ CrashInvariant
    OBVIOUS
  <2>1. ServiceTypes
    BY ConstantsAssumption DEF Init, ServiceTypes
  <2>2. CrashInvariant
    BY DEF Init, CrashInvariant, ServicesKnow, LedgerKnows, CallKnows, IdleWorker
  <2>. QED BY <2>1, <2>2
<1>2. LedgerTypes /\ LedgerInvariant /\ ServiceTypes /\ [Next]_vars => ServiceTypes'
  BY ServiceTypesStep
<1>3. LedgerTypes /\ LedgerInvariant /\ ServiceTypes /\ LedgerNeverAhead
        /\ CrashInvariant /\ [Next]_vars => CrashInvariant'
  BY CrashStep
<1>4. LedgerTypes /\ LedgerInvariant /\ CrashInvariant => PaidAsSettled
  BY SettledIsPaid
<1>5. Spec => []LedgerNeverAhead
  BY LedgerIsNeverAhead
<1>. QED BY <1>1, <1>2, <1>3, <1>4, <1>5, LedgerCorrect, PTL DEF Spec

-----------------------------------------------------------------------------
(* With refused calls and a forgetful gateway: the ledger knows exactly    *)
(* what the services hold, and a compensation accounts for all of it.      *)

NothingLate == late = {}

\* Only a timeout or a crash leaves a request that nobody waits for.
LEMMA NothingIsLate ==
  ASSUME FaultKinds \subseteq {"refuse", "wipe"}, NothingLate, [Next]_vars
  PROVE  NothingLate'
<1>. USE DEF NothingLate
<1>1. ASSUME NEW w \in Workers, WorkerStep(w) PROVE late' = {}
  BY <1>1 DEF WorkerStep, Claim, ClaimNothing, BeginEvent, Commit, HandlerGoesOn,
              Answered, Refused, AnswerLost, Delayed, Garbled, Fault, vars
<1>2. ASSUME NEW o \in Orders, OrderAuthorized(o) \/ RetryTimeReached(o)
      PROVE  late' = {}
  BY <1>2 DEF OrderAuthorized, RetryTimeReached
<1>3. CASE ServeLate
  BY <1>3 DEF ServeLate
<1>4. ASSUME NEW r \in Replicas, Crash(r) \/ Restart(r) PROVE late' = {}
  BY <1>4 DEF Crash, Restart, Fault
<1>5. CASE GatewayRestart \/ UNCHANGED vars
  BY <1>5 DEF GatewayRestart, vars
<1>. QED BY <1>1, <1>2, <1>3, <1>4, <1>5 DEF Next

\* Every remainder of the order but its payment is in the set.
Accounted(o, log) ==
  /\ "release" \in log \/ rows[o] # "RESERVED"
  /\ "cancel" \in log \/ order[o] \in {"none", "CANCELLED"}

PaymentLogged(o) ==
  /\ pay[o] = "CAPTURED" => "refund" \in report[o]
  /\ "refund" \in report[o] => pay[o] \in {"CAPTURED", "missing"}

Uncaptured(o) == pay[o] \in {"AUTHORIZED", "missing"}

\* What the services hold of an order with a status.
Holds(o, status, orderId) ==
  /\ status \in {"AWAITING_AUTHORIZATION", "AUTHORIZED"} =>
       ~orderId /\ order[o] = "none" /\ rows[o] = "none" /\ Uncaptured(o)
  /\ status \in Open \ {"AUTHORIZED"} => orderId /\ order[o] = "CREATED"
  /\ status = "ORDER_CREATED" => rows[o] = "none" /\ Uncaptured(o)
  /\ status = "INVENTORY_RESERVED" => rows[o] = "RESERVED" /\ Uncaptured(o)
  /\ status = "PAYMENT_CAPTURED" => rows[o] = "RESERVED" /\ pay[o] \in {"CAPTURED", "missing"}
  /\ status = "COMPENSATING" => PaymentLogged(o)
  /\ status = "FAILED" => PaymentLogged(o) /\ Accounted(o, report[o])

\* The compensations a worker has still to do.
Pending(w) == wk[w].undo \cup {CompensationOf(wk[w].pc)}

\* The inductive invariant: during a compensation, what is left of the order is
\* still to be undone or logged already.
LogInvariant ==
  /\ \A o \in Orders : Holds(o, view[o].status, view[o].orderId)
  /\ \A w \in Workers :
       wk[w].pc \in CompensationCalls =>
         Accounted(wk[w].cur, Pending(w) \cup report[wk[w].cur])

\* A step that does not succeed has changed nothing, and one that does leaves in
\* the services what its next status says.
LEMMA ForwardHolds ==
  ASSUME ServiceTypes, NEW o \in Orders, NEW c \in ForwardCalls,
         NEW orderId, Holds(o, StatusDuring[c], orderId),
         NEW reply \in Replies \ {"more"}, Handle(c, o, reply)
  PROVE  \/ Verdict(c, reply) # "ok" /\ UNCHANGED services
         \/ Verdict(c, reply) = "ok" /\ Holds(o, StatusAfter[StatusDuring[c]], TRUE)'
<1>1. /\ StatusAfter["AUTHORIZED"] = "ORDER_CREATED"
      /\ StatusAfter["ORDER_CREATED"] = "INVENTORY_RESERVED"
      /\ StatusAfter["INVENTORY_RESERVED"] = "PAYMENT_CAPTURED"
      /\ StatusAfter["PAYMENT_CAPTURED"] = "COMPLETED"
  BY Zenon DEF StatusAfter, Open
<1>2. CASE c \in {"create", "createInsert"}
  <2>1. StatusDuring[c] = "AUTHORIZED"
    BY <1>2, DuringCall
  <2>2. order[o] = "none" /\ rows[o] = "none" /\ Uncaptured(o)
    BY <2>1 DEF Holds
  <2>3. reply = "201" /\ order'[o] = "CREATED" /\ UNCHANGED <<rows, stock, pay>>
    BY <1>2, <2>2 DEF Handle, OrdersService, InventoryService, PaymentsService,
                      CreateLookup, CreateInsert, ServiceTypes
  <2>. QED BY <1>1, <1>2, <2>1, <2>2, <2>3, Verdicts DEF Holds, Uncaptured, Open
<1>3. CASE c \in {"reserve", "reserveLock"}
  <2>1. StatusDuring[c] = "ORDER_CREATED"
    BY <1>3, DuringCall
  <2>2. order[o] = "CREATED" /\ rows[o] = "none" /\ Uncaptured(o)
    BY <2>1 DEF Holds, Open
  <2>3. \/ reply = "201" /\ rows'[o] = "RESERVED" /\ UNCHANGED <<order, pay>>
        \/ c = "reserveLock" /\ reply = "409" /\ UNCHANGED services
    BY <1>3, <2>2 DEF Handle, OrdersService, InventoryService, PaymentsService,
                      ReserveLookup, ReserveLock, ServiceTypes, services
  <2>. QED BY <1>1, <1>3, <2>1, <2>2, <2>3, Verdicts DEF Holds, Uncaptured, Open
<1>4. CASE c = "capture"
  <2>1. StatusDuring[c] = "INVENTORY_RESERVED"
    BY <1>4, DuringCall
  <2>2. order[o] = "CREATED" /\ rows[o] = "RESERVED" /\ Uncaptured(o)
    BY <2>1 DEF Holds, Open
  <2>3. \/ reply = "200" /\ pay'[o] = "CAPTURED" /\ UNCHANGED <<order, rows>>
        \/ reply = "404" /\ UNCHANGED services
    BY <1>4, <2>2 DEF Handle, OrdersService, InventoryService, PaymentsService, Capture,
                      ServiceTypes, services, Uncaptured
  <2>4. Verdict(c, "404") # "ok"
    BY <1>4 DEF Verdict, PaymentsVerdict, Classified
  <2>. QED BY <1>1, <1>4, <2>1, <2>2, <2>3, <2>4, Verdicts DEF Holds, Open
<1>5. CASE c \in {"confirm", "confirmWrite"}
  <2>1. StatusDuring[c] = "PAYMENT_CAPTURED"
    BY <1>5, DuringCall
  <2>2. order[o] = "CREATED"
    BY <2>1 DEF Holds, Open
  <2>3. reply = "200"
    BY <1>5, <2>2 DEF Handle, OrdersService, InventoryService, PaymentsService,
                      CheckOrder, WriteOrder
  <2>. QED BY <1>1, <1>5, <2>1, <2>3, Verdicts DEF Holds, Open
<1>. QED BY <1>2, <1>3, <1>4, <1>5 DEF ForwardCalls

\* What has been undone stays so, a compensation that succeeds has undone its
\* part, and the payment is not captured by it.
LEMMA CompensationHolds ==
  ASSUME ServiceTypes, NEW o \in Orders, NEW c \in CompensationCalls,
         NEW reply \in Replies \ {"more"}, Handle(c, o, reply)
  PROVE  /\ rows[o] # "RESERVED" => rows'[o] # "RESERVED"
         /\ order[o] \in {"none", "CANCELLED"} => order'[o] \in {"none", "CANCELLED"}
         /\ Verdict(c, reply) = "ok" /\ CompensationOf(c) = "release"
              => rows'[o] # "RESERVED"
         /\ Verdict(c, reply) = "ok" /\ CompensationOf(c) = "cancel"
              => order'[o] \in {"none", "CANCELLED"}
         /\ pay[o] \in {"CAPTURED", "missing"} => pay'[o] = pay[o]
         /\ pay[o] # "CAPTURED" => pay'[o] # "CAPTURED"
<1>1. CASE c = "void"
  BY <1>1 DEF Handle, OrdersService, InventoryService, PaymentsService, VoidAuthorization,
              CompensationOf, ServiceTypes
<1>2. CASE c = "release"
  BY <1>2 DEF Handle, OrdersService, InventoryService, PaymentsService, Release,
              CompensationOf, ServiceTypes
<1>3. CASE c = "cancel"
  <2>1. UNCHANGED services /\ (reply = "200" => order[o] = "CANCELLED")
        /\ reply \in {"200", "404", "409"}
    BY <1>3 DEF Handle, OrdersService, InventoryService, PaymentsService, CheckOrder
  <2>2. Verdict(c, "404") # "ok" /\ Verdict(c, "409") # "ok"
    BY <1>3 DEF Verdict, OrdersVerdict, Classified
  <2>. QED BY <1>3, <2>1, <2>2 DEF services, CompensationOf
<1>4. CASE c = "cancelWrite"
  BY <1>4 DEF Handle, OrdersService, InventoryService, PaymentsService, WriteOrder,
              CompensationOf, ServiceTypes
<1>. QED BY <1>1, <1>2, <1>3, <1>4 DEF CompensationCalls, Undo

\* What a call does to the services and what its client makes of it agree.
CallHolds(c, o, v) ==
  /\ c \in ForwardCalls =>
       IF v = "ok" THEN Holds(o, StatusAfter[StatusDuring[c]], TRUE)'
                   ELSE UNCHANGED services
  /\ c \in CompensationCalls =>
       /\ rows[o] # "RESERVED" => rows'[o] # "RESERVED"
       /\ order[o] \in {"none", "CANCELLED"} => order'[o] \in {"none", "CANCELLED"}
       /\ v = "ok" /\ CompensationOf(c) = "release" => rows'[o] # "RESERVED"
       /\ v = "ok" /\ CompensationOf(c) = "cancel" => order'[o] \in {"none", "CANCELLED"}
       /\ pay[o] \in {"CAPTURED", "missing"} => pay'[o] = pay[o]
       /\ pay[o] # "CAPTURED" => pay'[o] # "CAPTURED"

\* The end of a call, for its own order and worker.
LEMMA ReceiveHolds ==
  ASSUME LedgerTypes, LedgerInvariant, ServiceTypes, OtherTypes, LogInvariant,
         NEW w \in Workers, NEW c \in Calls, c = wk[w].pc,
         NEW o \in Orders, o = wk[w].cur, NEW v, Receive(w, v), CallHolds(c, o, v)
  PROVE  /\ Holds(o, view[o].status, view[o].orderId)'
         /\ (wk[w].pc \in CompensationCalls => Accounted(o, Pending(w) \cup report[o]))'
<1>1. /\ c \in ForwardCalls => view[o].status = StatusDuring[c] /\ view[o].status \in Open
      /\ c \in CompensationCalls => view[o].status = "COMPENSATING"
      /\ view[o] \in Row /\ wk[w] \in WorkerRecord
  BY InCall DEF LedgerTypes
<1>2. Holds(o, view[o].status, view[o].orderId)
  BY DEF LogInvariant
<1>3. report[o] \subseteq Undo \cup {"refund"}
  BY DEF OtherTypes
<1>4. CASE StepSucceeded(w, v)
  <2>1. v = "ok" /\ c \in ForwardCalls
    BY <1>4 DEF StepSucceeded
  <2>. DEFINE s == StatusAfter[StatusDuring[c]]
  <2>2. /\ view'[o].status = s
        /\ s # "COMPLETED" => view'[o].orderId = TRUE
    <3>1. /\ Ended(view[o], s).status = s
          /\ [view[o] EXCEPT !.status = s, !.orderId = TRUE].status = s
          /\ [view[o] EXCEPT !.status = s, !.orderId = TRUE].orderId = TRUE
      BY <1>1 DEF Ended, Row
    <3>2. \/ s = "COMPLETED" /\ view' = [view EXCEPT ![o] = Ended(view[o], s)]
          \/ /\ s # "COMPLETED"
             /\ view' = [view EXCEPT ![o] = [view[o] EXCEPT !.status = s, !.orderId = TRUE]]
      BY <1>1, <1>4, <2>1 DEF StepSucceeded, LedgerTypes
    <3>. HIDE DEF s
    <3>. QED BY <3>1, <3>2 DEF LedgerTypes
  <2>3. Holds(o, s, TRUE)'
    BY <2>1 DEF CallHolds
  <2>4. s \in Open \cup {"COMPLETED"}
    BY <1>1, <2>1, StepTables
  <2>5. \A t \in Open : StepFor[t] \in FirstCalls
    BY Zenon DEF StepFor, Open, FirstCalls
  <2>6. wk'[w].pc \in {"pick"} \cup FirstCalls
    <3>1. \/ wk'[w].pc = "pick"
          \/ s # "COMPLETED" /\ wk'[w].pc = StepFor[s]
      BY <1>1, <1>4, <2>1 DEF StepSucceeded, EventDone, LedgerTypes, WorkerRecord
    <3>. HIDE DEF s
    <3>. QED BY <2>4, <2>5, <3>1
  <2>7. Holds(o, view[o].status, view[o].orderId)'
    <3>. HIDE DEF s
    <3>. QED BY <2>2, <2>3, <2>4 DEF Holds, Open
  <2>. QED BY <2>6, <2>7 DEF FirstCalls, CompensationCalls, Undo
<1>5. CASE ScheduleRetry(w, v)
  <2>1. /\ UNCHANGED <<order, rows, pay, report>>
        /\ view'[o].status = view[o].status /\ view'[o].orderId = view[o].orderId
        /\ wk'[w].pc = "pick"
    BY <1>1, <1>5 DEF ScheduleRetry, CallHolds, services, Retried, EventDone, LedgerTypes,
                      Row, WorkerRecord
  <2>. QED BY <1>2, <2>1 DEF Holds, Uncaptured, PaymentLogged, Accounted,
                             CompensationCalls, Undo
<1>6. CASE StartCompensation(w, v)
  <2>. DEFINE required == Required(view[o].status, view[o].orderId)
  <2>1. /\ c \in ForwardCalls /\ v # "ok"
        /\ view' = [view EXCEPT ![o] = Compensating(view[o])]
        /\ wk' = [wk EXCEPT ![w].pc = First(required),
                            ![w].undo = required \ {First(required)}]
        /\ report' = [report EXCEPT ![o] = IF "void" \in required THEN {} ELSE {"refund"}]
    BY <1>6 DEF StartCompensation
  <2>2. UNCHANGED <<order, rows, pay>> /\ view[o].status \in Open
    BY <1>1, <2>1 DEF CallHolds, services
  <2>3. view'[o].status = "COMPENSATING"
    BY <1>1, <2>1 DEF Compensating, LedgerTypes, Row
  <2>4. PaymentLogged(o)'
    <3>1. "void" \in required <=> view[o].status # "PAYMENT_CAPTURED"
      BY DEF Required, Undo
    <3>2. report'[o] = IF view[o].status = "PAYMENT_CAPTURED" THEN {"refund"} ELSE {}
      BY <2>1, <3>1 DEF OtherTypes
    <3>. QED BY <1>2, <2>2, <3>2 DEF Holds, PaymentLogged, Uncaptured, Open
  <2>5. required # {} => First(required) \in required
    BY DEF First, Required, Undo
  <2>6. required # {} /\ required \subseteq Undo
    BY <1>2, <2>2 DEF Required, Undo, Holds, Open
  <2>7. Pending(w)' = required
    <3>1. wk'[w].pc = First(required) /\ wk'[w].undo = required \ {First(required)}
      BY <1>1, <2>1 DEF LedgerTypes, WorkerRecord
    <3>2. CompensationOf(First(required)) = First(required)
      BY <2>5, <2>6 DEF CompensationOf, Undo
    <3>. HIDE DEF required
    <3>. QED BY <2>5, <2>6, <3>1, <3>2 DEF Pending
  <2>8. /\ "release" \in required \/ rows'[o] # "RESERVED"
        /\ "cancel" \in required \/ order'[o] \in {"none", "CANCELLED"}
    BY <1>2, <2>2 DEF Holds, Required, Undo, Open
  <2>9. Accounted(o, Pending(w) \cup report[o])'
    <3>. HIDE DEF required
    <3>. QED BY <2>7, <2>8 DEF Accounted
  <2>. QED BY <2>3, <2>4, <2>9 DEF Holds, Open
<1>7. CASE Compensated(w, v)
  <2>. DEFINE k == CompensationOf(c)
              rest == wk[w].undo
  <2>1. /\ c \in CompensationCalls /\ view[o].status = "COMPENSATING" /\ k \in Undo
        /\ report' = [report EXCEPT ![o] = IF v = "ok" THEN report[o] ELSE report[o] \cup {k}]
        /\ IF rest = {}
           THEN /\ view' = [view EXCEPT ![o] = Ended(view[o], "FAILED")]
                /\ wk' = [wk EXCEPT ![w].pc = "pick", ![w].cur = None]
           ELSE /\ view' = view
                /\ wk' = [wk EXCEPT ![w].pc = First(rest), ![w].undo = rest \ {First(rest)}]
    BY <1>1, <1>7 DEF Compensated, EventDone, CompensationOf, CompensationCalls, Undo
  <2>2. report'[o] = IF v = "ok" THEN report[o] ELSE report[o] \cup {k}
    BY <2>1 DEF OtherTypes
  <2>3. PaymentLogged(o)'
    <3>1. PaymentLogged(o)
      BY <1>2, <2>1 DEF Holds
    <3>2. "refund" \in report'[o] <=> "refund" \in report[o]
      BY <2>1, <2>2 DEF Undo
    <3>. QED BY <2>1, <3>1, <3>2 DEF PaymentLogged, CallHolds
  <2>4. Accounted(o, rest \cup {k} \cup report[o])
    BY <2>1 DEF LogInvariant, Pending
  <2>5. /\ "release" \in rest \cup report'[o] \/ rows'[o] # "RESERVED"
        /\ "cancel" \in rest \cup report'[o] \/ order'[o] \in {"none", "CANCELLED"}
    BY <2>1, <2>2, <2>4 DEF Accounted, CallHolds
  <2>6. CASE rest = {}
    <3>1. Ended(view[o], "FAILED").status = "FAILED"
      BY <1>1 DEF Ended, Row
    <3>2. view'[o].status = "FAILED" /\ wk'[w].pc = "pick"
      BY <1>1, <2>1, <2>6, <3>1 DEF LedgerTypes, WorkerRecord
    <3>3. Accounted(o, report[o])'
      BY <2>5, <2>6 DEF Accounted
    <3>. QED BY <2>3, <3>2, <3>3 DEF Holds, Open, CompensationCalls, Undo
  <2>7. CASE rest # {}
    <3>1. rest \subseteq Undo
      BY <1>1 DEF WorkerRecord
    <3>2. First(rest) \in rest /\ CompensationOf(First(rest)) = First(rest)
      BY <2>7, <3>1 DEF First, CompensationOf, Undo
    <3>3. /\ wk'[w].pc = First(rest) /\ wk'[w].undo = rest \ {First(rest)}
          /\ view'[o].status = "COMPENSATING"
      BY <1>1, <2>1, <2>7 DEF LedgerTypes, WorkerRecord
    <3>4. Pending(w)' = rest
      BY <3>2, <3>3 DEF Pending
    <3>5. Accounted(o, Pending(w) \cup report[o])'
      BY <2>5, <3>4 DEF Accounted
    <3>. QED BY <2>3, <3>3, <3>5 DEF Holds, Open
  <2>. QED BY <2>6, <2>7
<1>. QED BY <1>4, <1>5, <1>6, <1>7 DEF Receive

\* The end of a call, for everybody.
LEMMA CallEndHolds ==
  ASSUME LedgerTypes, LedgerInvariant, ServiceTypes, OtherTypes, LogInvariant,
         NEW w \in Workers, NEW c \in Calls, c = wk[w].pc,
         NEW o \in Orders, o = wk[w].cur, NEW v, Receive(w, v), CallHolds(c, o, v),
         \A x \in Orders : x # o =>
           order'[x] = order[x] /\ rows'[x] = rows[x] /\ pay'[x] = pay[x]
  PROVE  LogInvariant'
<1>1. /\ \A x \in Orders : x # o => view'[x] = view[x] /\ report'[x] = report[x]
      /\ \A u \in Workers : u # w => wk'[u] = wk[u]
  BY ReceiveIsLocal DEF OtherTypes
<1>2. ASSUME NEW x \in Orders PROVE Holds(x, view[x].status, view[x].orderId)'
  <2>1. CASE x = o
    BY <2>1, ReceiveHolds
  <2>2. CASE x # o
    BY <1>1, <2>2 DEF LogInvariant, Holds, Uncaptured, PaymentLogged, Accounted
  <2>. QED BY <2>1, <2>2
<1>3. ASSUME NEW u \in Workers, wk'[u].pc \in CompensationCalls
      PROVE  Accounted(wk[u].cur, Pending(u) \cup report[wk[u].cur])'
  <2>1. CASE u = w
    <3>1. (wk[w].pc \in CompensationCalls => Accounted(o, Pending(w) \cup report[o]))'
      BY ReceiveHolds
    <3>2. wk'[w].cur = o
      BY <1>3, <2>1
      DEF Receive, StepSucceeded, ScheduleRetry, StartCompensation, Compensated, EventDone,
          LedgerTypes, WorkerRecord, CompensationCalls, Undo
    <3>. QED BY <1>3, <2>1, <3>1, <3>2
  <2>2. CASE u # w
    <3>1. wk'[u] = wk[u] /\ wk[u].pc \in Calls
      BY <1>1, <1>3, <2>2 DEF Calls
    <3>2. wk[u].cur \in Orders /\ wk[u].cur # o
      BY <2>2, <3>1, InCall, CallsAreApart
    <3>3. Accounted(wk[u].cur, Pending(u) \cup report[wk[u].cur])
      BY <1>3, <3>1 DEF LogInvariant
    <3>. QED BY <1>1, <3>1, <3>2, <3>3 DEF Accounted, Pending
  <2>. QED BY <2>1, <2>2
<1>. QED BY <1>2, <1>3 DEF LogInvariant

LEMMA LogStep ==
  ASSUME FaultKinds \subseteq {"refuse", "wipe"}, NothingLate,
         LedgerTypes, LedgerInvariant, ServiceTypes, OtherTypes, LogInvariant, [Next]_vars
  PROVE  LogInvariant'
<1>1. CASE QuietStep
  <2>1. ASSUME NEW o \in Orders PROVE Holds(o, view[o].status, view[o].orderId)'
    <3>1. Holds(o, view[o].status, view[o].orderId)
      BY DEF LogInvariant
    <3>2. UNCHANGED <<order, rows, pay, report>> /\ view'[o].orderId = view[o].orderId
      BY <1>1 DEF QuietStep
    <3>3. \/ view'[o].status = view[o].status
          \/ view[o].status = "AWAITING_AUTHORIZATION" /\ view'[o].status = "AUTHORIZED"
      BY <1>1 DEF QuietStep
    <3>. QED BY <3>1, <3>2, <3>3 DEF Holds, Uncaptured, PaymentLogged, Accounted, Open
  <2>2. ASSUME NEW w \in Workers, wk'[w].pc \in CompensationCalls
        PROVE  Accounted(wk[w].cur, Pending(w) \cup report[wk[w].cur])'
    <3>1. wk'[w] = wk[w]
      BY <1>1, <2>2 DEF QuietStep, FirstCalls, CompensationCalls, Undo
    <3>. QED BY <1>1, <2>2, <3>1 DEF LogInvariant, QuietStep, Accounted, Pending
  <2>. QED BY <2>1, <2>2 DEF LogInvariant
<1>2. ASSUME NEW w \in Workers, HandlerGoesOn(w) PROVE LogInvariant'
  <2>1. PICK o \in Orders, c \in Calls :
          o = wk[w].cur /\ c = wk[w].pc /\ Handle(c, o, "more")
    BY <1>2, InCall DEF HandlerGoesOn, Calling
  <2>2. /\ UNCHANGED <<view, report, order, rows, pay>>
        /\ c \in {"create", "reserve", "confirm", "cancel"}
    BY <1>2, <2>1, OnlyTwoStepCallsGoOn DEF HandlerGoesOn, services
  <2>3. \A x \in Orders : Holds(x, view[x].status, view[x].orderId)'
    BY <2>2 DEF LogInvariant, Holds, Uncaptured, PaymentLogged, Accounted
  <2>4. ASSUME NEW u \in Workers, wk'[u].pc \in CompensationCalls
        PROVE  wk[u].pc \in CompensationCalls /\ wk'[u].cur = wk[u].cur /\ Pending(u)' = Pending(u)
    <3>1. CASE u = w
      <4>1. /\ SecondStep["create"] = "createInsert" /\ SecondStep["reserve"] = "reserveLock"
            /\ SecondStep["confirm"] = "confirmWrite" /\ SecondStep["cancel"] = "cancelWrite"
        BY Zenon DEF SecondStep
      <4>2. /\ wk'[w].pc = SecondStep[c] /\ wk'[w].undo = wk[w].undo
            /\ wk'[w].cur = wk[w].cur
        BY <1>2, <2>1 DEF HandlerGoesOn, LedgerTypes, WorkerRecord
      <4>. QED BY <2>1, <2>2, <2>4, <3>1, <4>1, <4>2
               DEF Pending, CompensationOf, CompensationCalls, Undo
    <3>2. CASE u # w
      <4>1. wk'[u] = wk[u]
        BY <1>2, <3>2 DEF HandlerGoesOn, LedgerTypes
      <4>. QED BY <2>4, <4>1 DEF Pending
    <3>. QED BY <3>1, <3>2
  <2>. QED BY <2>2, <2>3, <2>4 DEF LogInvariant, Accounted
<1>3. ASSUME NEW w \in Workers, CallEnds(w) PROVE LogInvariant'
  <2>1. PICK o \in Orders, c \in Calls : o = wk[w].cur /\ c = wk[w].pc
    BY <1>3, InCall DEF CallEnds, Answered, Refused, AnswerLost, Delayed, Garbled, Calling
  <2>2. CASE Answered(w)
    <3>1. PICK reply \in Replies \ {"more"} :
            Handle(c, o, reply) /\ Receive(w, Verdict(c, reply))
      BY <2>1, <2>2 DEF Answered
    <3>2. CallHolds(c, o, Verdict(c, reply))
      <4>1. CASE c \in ForwardCalls
        <5>1. Holds(o, StatusDuring[c], view[o].orderId)
          BY <2>1, <4>1, InCall DEF LogInvariant
        <5>2. c \notin CompensationCalls
          BY <4>1 DEF ForwardCalls, CompensationCalls, Undo
        <5>. QED BY <3>1, <4>1, <5>1, <5>2, ForwardHolds DEF CallHolds
      <4>2. CASE c \in CompensationCalls
        <5>1. c \notin ForwardCalls
          BY <4>2 DEF ForwardCalls, CompensationCalls, Undo
        <5>. QED BY <3>1, <4>2, <5>1, CompensationHolds DEF CallHolds
      <4>. QED BY <4>1, <4>2 DEF Calls
    <3>3. \A x \in Orders : x # o =>
            order'[x] = order[x] /\ rows'[x] = rows[x] /\ pay'[x] = pay[x]
      BY <3>1, HandleIsLocal
    <3>. QED BY <2>1, <3>1, <3>2, <3>3, CallEndHolds
  <2>3. CASE Refused(w)
    <3>1. Receive(w, "retry") /\ UNCHANGED services
      BY <2>3 DEF Refused
    <3>2. CallHolds(c, o, "retry")
      BY <3>1 DEF CallHolds, services
    <3>3. UNCHANGED <<order, rows, pay>>
      BY <3>1 DEF services
    <3>. QED BY <2>1, <3>1, <3>2, <3>3, CallEndHolds
  <2>4. ~AnswerLost(w) /\ ~Delayed(w) /\ ~Garbled(w)
    BY DEF AnswerLost, Delayed, Garbled, Fault
  <2>. QED BY <1>3, <2>2, <2>3, <2>4 DEF CallEnds
<1>4. CASE GatewayRestart
  <2>1. /\ UNCHANGED <<view, wk, order, rows, report>>
        /\ \A o \in Orders : pay'[o] = "missing"
    BY <1>4 DEF GatewayRestart
  <2>2. \A o \in Orders : Holds(o, view[o].status, view[o].orderId)'
    BY <2>1 DEF LogInvariant, Holds, Uncaptured, PaymentLogged, Accounted
  <2>. QED BY <2>1, <2>2 DEF LogInvariant, Accounted, Pending
<1>5. ~ServeLate /\ \A r \in Replicas : ~Crash(r)
  BY DEF ServeLate, NothingLate, Crash, Fault
<1>. QED BY <1>1, <1>2, <1>3, <1>4, <1>5, StepKinds

\* CompensationExecutorLive.ts: although a compensation goes on after each error and
\* its ledger always ends FAILED, whatever it could not undo is in its log, for
\* calls that are refused and a gateway that forgets its payments.
THEOREM RemaindersLogged ==
  ASSUME FaultKinds \subseteq {"refuse", "wipe"}
  PROVE  Spec => []RemaindersAreLogged
<1>1. Init => NothingLate /\ ServiceTypes /\ OtherTypes /\ LogInvariant
  <2>. SUFFICES ASSUME Init PROVE NothingLate /\ ServiceTypes /\ OtherTypes /\ LogInvariant
    OBVIOUS
  <2>1. NothingLate /\ ServiceTypes /\ OtherTypes
    BY ConstantsAssumption DEF Init, ServiceTypes, OtherTypes, NothingLate
  <2>2. LogInvariant
    BY DEF Init, LogInvariant, Holds, Uncaptured, Open, IdleWorker, CompensationCalls, Undo
  <2>. QED BY <2>1, <2>2
<1>2. NothingLate /\ [Next]_vars => NothingLate'
  BY NothingIsLate
<1>3. LedgerTypes /\ LedgerInvariant /\ ServiceTypes /\ OtherTypes /\ [Next]_vars
        => ServiceTypes' /\ OtherTypes'
  BY ServiceTypesStep, OtherTypesStep
<1>4. NothingLate /\ LedgerTypes /\ LedgerInvariant /\ ServiceTypes /\ OtherTypes
        /\ LogInvariant /\ [Next]_vars => LogInvariant'
  BY LogStep
<1>5. LedgerTypes /\ LedgerInvariant /\ LogInvariant => RemaindersAreLogged
  <2>. SUFFICES ASSUME LedgerTypes, LedgerInvariant, LogInvariant,
                       NEW o \in Orders, db[o].status = "FAILED"
                PROVE  Accounted(o, report[o]) /\ PaymentLogged(o)
    BY DEF RemaindersAreLogged, Accounted, PaymentLogged
  <2>1. view[o].status = "FAILED"
    BY SettledIsSeen DEF Terminal
  <2>. QED BY <2>1 DEF LogInvariant, Holds
<1>. QED BY <1>1, <1>2, <1>3, <1>4, <1>5, LedgerCorrect, PTL DEF Spec

=============================================================================
