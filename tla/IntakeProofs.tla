---------------------------- MODULE IntakeProofs ----------------------------
(***************************************************************************)
(* The intake's inductive invariant and its refinement of OrderArrivals,   *)
(* for any number of keys, requests and faults.                            *)
(***************************************************************************)
EXTENDS IntakeProperties, FiniteSetTheorems, TLAPS

\* The statements that write, one by one, each with the two ways it can end for
\* its handler.  The first inserts the ledger of a key that has none.
LEMMA InsertPreserves ==
  ASSUME TypeOK, IntakeInvariant, NEW r \in Requests, At(r, "create"),
         InsertLedger(r), UNCHANGED <<hold, late>>,
         NEW n \in {[pc |-> "createItems", answer |-> "none"],
                    [pc |-> "respond", answer |-> "500"]},
         req' = [req EXCEPT ![r] = n]
  PROVE  IntakeInvariant'
<1>. DEFINE k == Key[r]
            row == [status |-> "AWAITING_AUTHORIZATION", by |-> r]
<1>1. k \in Keys
  BY IntakeAssumption
<1>2. /\ ledger'[k] = row /\ \A x \in Keys : x # k => ledger'[x] = ledger[x]
      /\ items' = items /\ event' = event
  BY <1>1 DEF InsertLedger, TypeOK
<1>3. req'[r] = n /\ \A q \in Requests : q # r => req'[q] = req[q]
  BY DEF TypeOK
<1>4. ledger[k].status = "none" /\ ledger[k].by = Nobody
  BY DEF InsertLedger, NoRow
<1>5. items[k] = {} /\ hold[k] = Nobody /\ event[k] = 0
  BY <1>1, <1>4, IntakeAssumption
  DEF IntakeInvariant, HoldIsRecorded, EventIsBacked
<1>6. r \notin late
  BY DEF IntakeInvariant, LateKnows, At
<1>. HIDE DEF k
<1>7. EventIsBacked'
  BY <1>1, <1>2, <1>4, <1>5 DEF IntakeInvariant, EventIsBacked
<1>8. HoldIsRecorded'
  BY <1>1, <1>2, <1>5 DEF IntakeInvariant, HoldIsRecorded
<1>9. ASSUME NEW q \in Requests
      PROVE  HandlerKnows(q)' /\ LateKnows(q)'
  BY <1>1, <1>2, <1>3, <1>4, <1>5, <1>6, IntakeAssumption
  DEF IntakeInvariant, HandlerKnows, LateKnows, Owned, At, k
<1>10. AnswersAreTrue'
  <2>. SUFFICES ASSUME NEW q \in Requests, Key[q] = k
                PROVE  req'[q].answer \notin {"202", "402", "409", "503"}
    BY <1>2, <1>3, IntakeAssumption DEF IntakeInvariant, AnswersAreTrue, TrueAnswer, Owned, k
  <2>1. req[q].answer \notin {"202", "402", "409", "503"}
    BY <1>4, IntakeAssumption DEF IntakeInvariant, AnswersAreTrue, TrueAnswer, Owned
  <2>. QED BY <1>3, <2>1
<1>. QED BY <1>1, <1>2, <1>7, <1>8, <1>9, <1>10, IntakeAssumption DEF IntakeInvariant

\* The statements of a request that owns the ledger of its key.
LEMMA ItemsPreserves ==
  ASSUME TypeOK, IntakeInvariant, NEW r \in Requests, At(r, "createItems"),
         InsertItems(r), UNCHANGED <<hold, late>>,
         NEW n \in {[pc |-> "authorize", answer |-> "none"],
                    [pc |-> "respond", answer |-> "500"]},
         req' = [req EXCEPT ![r] = n]
  PROVE  IntakeInvariant'
<1>. DEFINE k == Key[r]
<1>1. k \in Keys /\ r # Nobody
  BY IntakeAssumption
<1>2. /\ Owned(r, "AWAITING_AUTHORIZATION") /\ items[k] = {} /\ hold[k] = Nobody
      /\ r \notin late /\ event[k] = 0
  BY <1>1 DEF IntakeInvariant, HandlerKnows, LateKnows, At, EventIsBacked, Owned
<1>3. items'[k] = {r} /\ \A x \in Keys : x # k => items'[x] = items[x]
  BY <1>1, <1>2 DEF InsertItems, TypeOK
<1>4. req'[r] = n /\ \A q \in Requests : q # r => req'[q] = req[q]
  BY DEF TypeOK
<1>5. ledger' = ledger /\ event' = event
  BY DEF InsertItems
<1>6. EventIsBacked' /\ HoldIsRecorded'
  BY <1>1, <1>2, <1>3, <1>5 DEF IntakeInvariant, EventIsBacked, HoldIsRecorded
<1>7. ASSUME NEW q \in Requests
      PROVE  HandlerKnows(q)' /\ LateKnows(q)' /\ TrueAnswer(q)'
  BY <1>1, <1>2, <1>3, <1>4, <1>5, IntakeAssumption
  DEF IntakeInvariant, HandlerKnows, LateKnows, AnswersAreTrue, TrueAnswer, Owned
<1>. QED BY <1>1, <1>2, <1>3, <1>5, <1>6, <1>7
         DEF IntakeInvariant, AnswersAreTrue, Owned

LEMMA FailPreserves ==
  ASSUME TypeOK, IntakeInvariant, NEW r \in Requests, At(r, "markFailed"),
         MarkAuthorizationFailed(r), UNCHANGED <<hold, late>>,
         NEW a \in {"402", "500"},
         req' = [req EXCEPT ![r] = [pc |-> "respond", answer |-> a]]
  PROVE  IntakeInvariant'
<1>. DEFINE k == Key[r]
<1>1. k \in Keys /\ r # Nobody
  BY IntakeAssumption
<1>2. /\ Owned(r, "AWAITING_AUTHORIZATION") /\ items[k] = {r} /\ hold[k] = Nobody
      /\ r \notin late /\ event[k] = 0
  BY <1>1 DEF IntakeInvariant, HandlerKnows, LateKnows, At, EventIsBacked, Owned
<1>3. /\ ledger'[k].status = "AUTHORIZATION_FAILED" /\ ledger'[k].by = r
      /\ \A x \in Keys : x # k => ledger'[x] = ledger[x]
  BY <1>1, <1>2 DEF MarkAuthorizationFailed, TypeOK, Owned
<1>4. /\ req'[r].pc = "respond" /\ req'[r].answer = a
      /\ \A q \in Requests : q # r => req'[q] = req[q]
  BY DEF TypeOK
<1>5. items' = items /\ event' = event
  BY DEF MarkAuthorizationFailed
<1>6. EventIsBacked' /\ HoldIsRecorded'
  BY <1>1, <1>2, <1>3, <1>5 DEF IntakeInvariant, EventIsBacked, HoldIsRecorded
<1>7. ASSUME NEW q \in Requests
      PROVE  HandlerKnows(q)' /\ LateKnows(q)' /\ TrueAnswer(q)'
  BY <1>1, <1>2, <1>3, <1>4, <1>5, IntakeAssumption
  DEF IntakeInvariant, HandlerKnows, LateKnows, AnswersAreTrue, TrueAnswer, Owned
<1>. QED BY <1>1, <1>3, <1>5, <1>6, <1>7 DEF IntakeInvariant, AnswersAreTrue

LEMMA UpdatePreserves ==
  ASSUME TypeOK, IntakeInvariant, NEW r \in Requests, At(r, "update"),
         UpdateWithAuthorizationAndOutbox(r), UNCHANGED <<hold, late>>,
         NEW a \in {"202", "500"},
         req' = [req EXCEPT ![r] = [pc |-> "respond", answer |-> a]]
  PROVE  IntakeInvariant'
<1>. DEFINE k == Key[r]
<1>1. k \in Keys /\ r # Nobody
  BY IntakeAssumption
<1>2. /\ Owned(r, "AWAITING_AUTHORIZATION") /\ items[k] = {r} /\ hold[k] = r
      /\ event[k] = 0
  BY <1>1 DEF IntakeInvariant, HandlerKnows, At, EventIsBacked, Owned
<1>3. /\ ledger'[k].status = "AUTHORIZED" /\ ledger'[k].by = r
      /\ event'[k] = 1
      /\ \A x \in Keys : x # k => ledger'[x] = ledger[x] /\ event'[x] = event[x]
  BY <1>1, <1>2 DEF UpdateWithAuthorizationAndOutbox, TypeOK, Owned
<1>4. /\ req'[r].pc = "respond" /\ req'[r].answer = a
      /\ \A q \in Requests : q # r => req'[q] = req[q]
  BY DEF TypeOK
<1>5. items' = items
  BY DEF UpdateWithAuthorizationAndOutbox
<1>6. EventIsBacked' /\ HoldIsRecorded'
  BY <1>1, <1>2, <1>3, <1>5 DEF IntakeInvariant, EventIsBacked, HoldIsRecorded
<1>7. r \notin late
  BY <1>1, <1>2 DEF IntakeInvariant, LateKnows
<1>8. ASSUME NEW q \in Requests
      PROVE  HandlerKnows(q)' /\ LateKnows(q)' /\ TrueAnswer(q)'
  BY <1>1, <1>2, <1>3, <1>4, <1>5, <1>7, IntakeAssumption
  DEF IntakeInvariant, HandlerKnows, LateKnows, AnswersAreTrue, TrueAnswer, Owned
<1>. QED BY <1>1, <1>3, <1>5, <1>6, <1>8 DEF IntakeInvariant, AnswersAreTrue

\* A step that stores nothing: it is enough that its own handler knows enough.
LEMMA MovePreserves ==
  ASSUME TypeOK, IntakeInvariant, NEW r \in Requests, UNCHANGED <<store, hold>>,
         \A q \in Requests : q # r => req'[q] = req[q],
         \A q \in Requests : q # r => (q \in late' => q \in late),
         HandlerKnows(r)', LateKnows(r)', TrueAnswer(r)'
  PROVE  IntakeInvariant'
<1>1. ASSUME NEW q \in Requests
      PROVE  HandlerKnows(q)' /\ LateKnows(q)' /\ TrueAnswer(q)'
  BY <1>1 DEF IntakeInvariant, HandlerKnows, LateKnows, AnswersAreTrue, TrueAnswer,
              Owned, store
<1>. QED BY <1>1 DEF IntakeInvariant, AnswersAreTrue, EventIsBacked, HoldIsRecorded, store

\* Money is taken by the request whose ledger waits for it, in time or late.
LEMMA AuthorizePreserves ==
  ASSUME TypeOK, IntakeInvariant, NEW r \in Requests, NEW reply,
         Authorize(r, reply), UNCHANGED store,
         \/ /\ At(r, "authorize") /\ late' = late
            /\ req' = [req EXCEPT ![r].pc = IF reply = "200" THEN "update" ELSE "markFailed"]
         \/ r \in late /\ late' = late \ {r} /\ req' = req
  PROVE  IntakeInvariant'
<1>. DEFINE k == Key[r]
<1>1. k \in Keys /\ r # Nobody
  BY IntakeAssumption
<1>2. /\ Owned(r, "AWAITING_AUTHORIZATION") /\ items[k] = {r} /\ hold[k] = Nobody
      /\ event[k] = 0
  BY <1>1 DEF IntakeInvariant, HandlerKnows, LateKnows, At, EventIsBacked, Owned
<1>3. /\ hold'[k] = r \/ hold'[k] = Nobody
      /\ reply = "200" => hold'[k] = r
      /\ reply # "200" => hold'[k] = Nobody
      /\ \A x \in Keys : x # k => hold'[x] = hold[x]
  BY <1>1, <1>2 DEF Authorize, TypeOK
<1>4. ledger' = ledger /\ items' = items /\ event' = event
  BY DEF store
<1>5. EventIsBacked' /\ HoldIsRecorded'
  BY <1>1, <1>2, <1>3, <1>4 DEF IntakeInvariant, EventIsBacked, HoldIsRecorded, Owned
<1>6. /\ \A q \in Requests : q # r => req'[q] = req[q] /\ (q \in late' => q \in late)
      /\ req'[r].answer = req[r].answer /\ r \notin late'
  <2>1. At(r, "authorize") => r \notin late
    BY DEF IntakeInvariant, LateKnows, At
  <2>. QED BY <2>1 DEF TypeOK
<1>7. \/ At(r, "authorize") /\ req'[r].pc = IF reply = "200" THEN "update" ELSE "markFailed"
      \/ req[r].pc \in {"respond", "over"} /\ req'[r] = req[r]
  BY DEF IntakeInvariant, LateKnows, TypeOK
<1>8. HandlerKnows(r)'
  BY <1>1, <1>2, <1>3, <1>4, <1>6, <1>7
  DEF IntakeInvariant, HandlerKnows, Owned, At
<1>9. ASSUME NEW q \in Requests
      PROVE  HandlerKnows(q)' /\ LateKnows(q)' /\ TrueAnswer(q)'
  <2>1. CASE q = r
    BY <1>4, <1>6, <1>8, <2>1
    DEF IntakeInvariant, LateKnows, AnswersAreTrue, TrueAnswer, Owned
  <2>2. CASE q # r
    BY <1>1, <1>2, <1>3, <1>4, <1>6, <2>2, IntakeAssumption
    DEF IntakeInvariant, HandlerKnows, LateKnows, AnswersAreTrue, TrueAnswer, Owned
  <2>. QED BY <2>1, <2>2
<1>. QED BY <1>4, <1>5, <1>9 DEF IntakeInvariant, AnswersAreTrue

-----------------------------------------------------------------------------
(* The steps of a handler. *)

LEMMA ProceedPreserves ==
  ASSUME TypeOK, IntakeInvariant, NEW r \in Requests, Proceed(r)
  PROVE  IntakeInvariant'
<1>1. req[r].answer \in {"none"} \/ req[r].pc \in {"respond", "over"}
  BY DEF IntakeInvariant, HandlerKnows
<1>2. CASE At(r, "create")
  <2>1. req' = [req EXCEPT ![r] = [pc |-> "createItems", answer |-> "none"]]
    BY <1>1, <1>2 DEF Proceed, At, Goto, TypeOK
  <2>. QED BY <1>2, <2>1, InsertPreserves DEF Proceed, Write, At
<1>3. CASE At(r, "createItems")
  <2>1. req' = [req EXCEPT ![r] = [pc |-> "authorize", answer |-> "none"]]
    BY <1>1, <1>3 DEF Proceed, At, Goto, TypeOK
  <2>. QED BY <1>3, <2>1, ItemsPreserves DEF Proceed, Write, At
<1>4. CASE At(r, "markFailed")
  BY <1>4, FailPreserves DEF Proceed, Write, At, Respond
<1>5. CASE At(r, "update")
  BY <1>5, UpdatePreserves DEF Proceed, Write, At, Respond
<1>. QED BY <1>2, <1>3, <1>4, <1>5 DEF Proceed

LEMMA DatabaseFailsPreserves ==
  ASSUME TypeOK, IntakeInvariant, NEW r \in Requests, DatabaseFails(r)
  PROVE  IntakeInvariant'
<1>1. /\ req' = [req EXCEPT ![r] = [pc |-> "respond", answer |-> "500"]]
      /\ UNCHANGED <<hold, late>>
  BY DEF DatabaseFails, Respond
<1>2. CASE Write(r)
  <2>1. CASE At(r, "create")
    BY <1>1, <1>2, <2>1, InsertPreserves DEF Write, At
  <2>2. CASE At(r, "createItems")
    BY <1>1, <1>2, <2>2, ItemsPreserves DEF Write, At
  <2>3. CASE At(r, "markFailed")
    BY <1>1, <1>2, <2>3, FailPreserves DEF Write, At
  <2>4. CASE At(r, "update")
    BY <1>1, <1>2, <2>4, UpdatePreserves DEF Write, At
  <2>. QED BY <1>2, <2>1, <2>2, <2>3, <2>4 DEF Write
<1>3. CASE UNCHANGED store
  <2>1. /\ req'[r] = [pc |-> "respond", answer |-> "500"]
        /\ \A q \in Requests : q # r => req'[q] = req[q]
    BY <1>1 DEF TypeOK
  <2>2. r \notin late
    BY DEF DatabaseFails, Statements, IntakeInvariant, LateKnows
  <2>3. HandlerKnows(r)' /\ LateKnows(r)' /\ TrueAnswer(r)'
    BY <1>1, <2>1, <2>2 DEF HandlerKnows, LateKnows, TrueAnswer
  <2>. QED BY <1>1, <1>3, <2>1, <2>3, MovePreserves
<1>. QED BY <1>2, <1>3 DEF DatabaseFails

\* The steps that only move a handler.
LEMMA OtherStepsPreserve ==
  ASSUME TypeOK, IntakeInvariant, NEW r \in Requests,
         \/ Send(r) \/ FindByClientRequestId(r) \/ InsertConflicts(r)
         \/ AuthorizeFails(r) \/ HandlerStops(r) \/ Answer(r)
  PROVE  IntakeInvariant'
<1>1. UNCHANGED <<store, hold>>
  BY DEF Send, FindByClientRequestId, InsertConflicts, AuthorizeFails, HandlerStops, Answer
<1>2. \A q \in Requests : q # r => req'[q] = req[q] /\ (q \in late' => q \in late)
  BY DEF Send, FindByClientRequestId, InsertConflicts, AuthorizeFails, HandlerStops, Answer,
         Goto, Respond, TypeOK
<1>3. Key[r] \in Keys /\ r # Nobody /\ HandlerKnows(r) /\ LateKnows(r) /\ TrueAnswer(r)
      /\ \A k \in Keys : ledger[k].by = Nobody => ledger[k].status = "none"
  BY IntakeAssumption DEF IntakeInvariant, AnswersAreTrue
<1>4. HandlerKnows(r)' /\ LateKnows(r)' /\ TrueAnswer(r)'
  <2>1. CASE Send(r)
    <3>1. req'[r].pc = "find" /\ req'[r].answer = req[r].answer /\ late' = late
      BY <2>1 DEF Send, Goto, TypeOK
    <3>. QED BY <1>1, <1>3, <2>1, <3>1
             DEF Send, At, HandlerKnows, LateKnows, TrueAnswer, Owned, store
  <2>2. CASE FindByClientRequestId(r)
    <3>1. \/ /\ req'[r].pc = "create" /\ req'[r].answer = req[r].answer
          \/ /\ req'[r].pc = "respond" /\ req'[r].answer = "409"
             /\ ledger[Key[r]] # NoRow
      BY <2>2 DEF FindByClientRequestId, Goto, Respond, TypeOK
    <3>2. ledger[Key[r]] # NoRow => ledger[Key[r]].by # Nobody
      BY <1>3 DEF NoRow, TypeOK
    <3>3. late' = late /\ At(r, "find")
      BY <2>2 DEF FindByClientRequestId
    <3>. QED BY <1>1, <1>3, <3>1, <3>2, <3>3
             DEF At, HandlerKnows, LateKnows, TrueAnswer, Owned, store
  <2>3. CASE InsertConflicts(r)
    <3>1. /\ req'[r].pc = "respond" /\ req'[r].answer = "500" /\ late' = late
          /\ At(r, "create")
      BY <2>3 DEF InsertConflicts, Respond, TypeOK
    <3>. QED BY <1>3, <3>1 DEF At, HandlerKnows, LateKnows, TrueAnswer
  <2>4. CASE AuthorizeFails(r)
    <3>1. req'[r].pc = "respond" /\ req'[r].answer = "503" /\ At(r, "authorize")
      BY <2>4 DEF AuthorizeFails, Respond, TypeOK
    <3>. QED BY <1>1, <1>3, <3>1
             DEF At, HandlerKnows, LateKnows, TrueAnswer, Owned, store
  <2>5. CASE HandlerStops(r)
    <3>1. /\ req'[r].pc = "over" /\ req'[r].answer = "lost"
          /\ r \in late' => r \in late \/ At(r, "authorize")
      BY <2>5 DEF HandlerStops, TypeOK
    <3>. QED BY <1>1, <1>3, <3>1
             DEF At, HandlerKnows, LateKnows, TrueAnswer, Owned, store
  <2>6. CASE Answer(r)
    <3>1. /\ req'[r].pc = "over" /\ req'[r].answer = req[r].answer /\ late' = late
          /\ At(r, "respond")
      BY <2>6 DEF Answer, Goto, TypeOK
    <3>. QED BY <1>1, <1>3, <3>1
             DEF At, HandlerKnows, LateKnows, TrueAnswer, Owned, store
  <2>. QED BY <2>1, <2>2, <2>3, <2>4, <2>5, <2>6
<1>. QED BY <1>1, <1>2, <1>4, MovePreserves

LEMMA IntakeStep ==
  TypeOK /\ IntakeInvariant /\ [Next]_vars => IntakeInvariant'
<1>. SUFFICES ASSUME TypeOK, IntakeInvariant, [Next]_vars PROVE IntakeInvariant'
  OBVIOUS
<1>1. ASSUME NEW r \in Requests, HandlerStep(r) PROVE IntakeInvariant'
  <2>1. CASE AuthorizeAnswered(r)
    BY <2>1, AuthorizePreserves DEF AuthorizeAnswered, Goto, OnDecline
  <2>. QED BY <1>1, <2>1, ProceedPreserves, DatabaseFailsPreserves, OtherStepsPreserve
           DEF HandlerStep
<1>2. ASSUME NEW r \in Requests, Send(r) PROVE IntakeInvariant'
  BY <1>2, OtherStepsPreserve
<1>3. ASSUME NEW r \in Requests, ServeLate(r) PROVE IntakeInvariant'
  BY <1>3, AuthorizePreserves DEF ServeLate
<1>4. CASE UNCHANGED vars
  BY <1>4 DEF vars, store, IntakeInvariant, EventIsBacked, HoldIsRecorded, AnswersAreTrue,
              TrueAnswer, HandlerKnows, LateKnows, Owned
<1>. QED BY <1>1, <1>2, <1>3, <1>4 DEF Next, AllOver

-----------------------------------------------------------------------------
(* Types. *)

\* The types but for the bound on the events, which is the invariant's.
LooseTypes ==
  /\ req \in [Requests -> [pc: Working \cup {"unsent", "over"},
                           answer: Answers \cup {"none", "lost"}]]
  /\ ledger \in [Keys -> [status: LedgerStatus, by: Requests \cup {Nobody}]]
  /\ items \in [Keys -> SUBSET Requests]
  /\ event \in [Keys -> Nat]
  /\ hold \in [Keys -> Requests \cup {Nobody}]
  /\ late \subseteq Requests
  /\ faults \in 0..MaxFaults

LEMMA WriteTypes ==
  ASSUME TypeOK, NEW r \in Requests, Write(r)
  PROVE  /\ ledger' \in [Keys -> [status: LedgerStatus, by: Requests \cup {Nobody}]]
         /\ items' \in [Keys -> SUBSET Requests]
         /\ event' \in [Keys -> Nat]
<1>. DEFINE Ledger == [status: LedgerStatus, by: Requests \cup {Nobody}]
<1>1. Key[r] \in Keys /\ ledger[Key[r]] \in Ledger
  BY IntakeAssumption DEF TypeOK
<1>2. \/ ledger' = ledger
      \/ \E row \in Ledger : ledger' = [ledger EXCEPT ![Key[r]] = row]
  <2>1. CASE InsertLedger(r)
    <3>1. [status |-> "AWAITING_AUTHORIZATION", by |-> r] \in Ledger
      BY DEF LedgerStatus
    <3>. QED BY <2>1, <3>1 DEF InsertLedger
  <2>2. ASSUME NEW status \in LedgerStatus, ledger' = [ledger EXCEPT ![Key[r]].status = status]
        PROVE  \E row \in Ledger : ledger' = [ledger EXCEPT ![Key[r]] = row]
    <3>1. [ledger[Key[r]] EXCEPT !.status = status] \in Ledger
      BY <1>1
    <3>. QED BY <2>2, <3>1
  <2>3. CASE MarkAuthorizationFailed(r) \/ UpdateWithAuthorizationAndOutbox(r)
    BY <2>2, <2>3 DEF MarkAuthorizationFailed, UpdateWithAuthorizationAndOutbox, LedgerStatus
  <2>. QED BY <2>1, <2>3 DEF Write, InsertItems
<1>3. ledger \in [Keys -> Ledger]
  BY DEF TypeOK
<1>. HIDE DEF Ledger
<1>4. ledger' \in [Keys -> Ledger]
  BY <1>2, <1>3
<1>5. items' \in [Keys -> SUBSET Requests]
  BY <1>1 DEF Write, InsertLedger, InsertItems, MarkAuthorizationFailed,
              UpdateWithAuthorizationAndOutbox, TypeOK
<1>6. event' \in [Keys -> Nat]
  <2>1. event \in [Keys -> Nat] /\ event[Key[r]] + 1 \in Nat
    BY <1>1 DEF TypeOK
  <2>2. event' = event \/ event' = [event EXCEPT ![Key[r]] = event[Key[r]] + 1]
    BY DEF Write, InsertLedger, InsertItems, MarkAuthorizationFailed,
           UpdateWithAuthorizationAndOutbox
  <2>. QED BY <2>1, <2>2
<1>. QED BY <1>4, <1>5, <1>6 DEF Ledger

\* A handler is moved by Goto or Respond, or it is over.
LEMMA HandlerTypes ==
  ASSUME TypeOK, NEW r \in Requests, NEW pc \in Working \cup {"unsent", "over"},
         NEW a \in Answers \cup {"none", "lost"},
         \/ req' = [req EXCEPT ![r].pc = pc]
         \/ req' = [req EXCEPT ![r] = [pc |-> pc, answer |-> a]]
  PROVE  req' \in [Requests -> [pc: Working \cup {"unsent", "over"},
                               answer: Answers \cup {"none", "lost"}]]
<1>. DEFINE Pcs == Working \cup {"unsent", "over"}
            Told == Answers \cup {"none", "lost"}
<1>1. req \in [Requests -> [pc: Pcs, answer: Told]] /\ pc \in Pcs /\ a \in Told
  BY DEF TypeOK
<1>. HIDE DEF Pcs, Told
<1>2. [pc |-> pc, answer |-> a] \in [pc: Pcs, answer: Told]
  BY <1>1
<1>3. [req[r] EXCEPT !.pc = pc] \in [pc: Pcs, answer: Told]
  <2>1. req[r] \in [pc: Pcs, answer: Told]
    BY <1>1
  <2>. QED BY <2>1, <1>1
<1>4. req' \in [Requests -> [pc: Pcs, answer: Told]]
  <2>1. CASE req' = [req EXCEPT ![r] = [pc |-> pc, answer |-> a]]
    BY <1>1, <1>2, <2>1
  <2>2. CASE req' = [req EXCEPT ![r].pc = pc]
    BY <1>1, <1>3, <2>2
  <2>. QED BY <2>1, <2>2
<1>. QED BY <1>4 DEF Pcs, Told

LEMMA TypesStep ==
  TypeOK /\ IntakeInvariant /\ [Next]_vars => TypeOK'
<1>. SUFFICES ASSUME TypeOK, IntakeInvariant, [Next]_vars PROVE TypeOK'
  OBVIOUS
<1>1. ASSUME NEW kind, Fault(kind) PROVE faults' \in 0..MaxFaults
  BY <1>1, IntakeAssumption DEF Fault, TypeOK
<1>2. LooseTypes
  BY DEF LooseTypes, TypeOK
<1>3. ASSUME NEW r \in Requests, HandlerStep(r) \/ Send(r) PROVE LooseTypes'
  <2>1. CASE \/ Send(r) \/ FindByClientRequestId(r) \/ InsertConflicts(r) \/ Answer(r)
    <3>1. \E pc \in Working \cup {"unsent", "over"}, a \in Answers :
            \/ req' = [req EXCEPT ![r].pc = pc]
            \/ req' = [req EXCEPT ![r] = [pc |-> pc, answer |-> a]]
      BY <2>1 DEF Send, FindByClientRequestId, InsertConflicts, Answer, Goto, Respond,
                  Working, Statements, Answers
    <3>. QED BY <1>2, <2>1, <3>1, HandlerTypes
             DEF Send, FindByClientRequestId, InsertConflicts, Answer, LooseTypes, store
  <2>2. CASE Proceed(r)
    <3>1. \E pc \in Working, a \in Answers :
            \/ req' = [req EXCEPT ![r].pc = pc]
            \/ req' = [req EXCEPT ![r] = [pc |-> pc, answer |-> a]]
      BY <2>2 DEF Proceed, Goto, Respond, Working, Statements, Answers
    <3>. QED BY <1>2, <2>2, <3>1, HandlerTypes, WriteTypes DEF Proceed, LooseTypes
  <2>3. CASE AuthorizeAnswered(r)
    <3>1. \E pc \in Working : req' = [req EXCEPT ![r].pc = pc]
      BY <2>3 DEF AuthorizeAnswered, Goto, OnDecline, Working, Statements
    <3>2. hold' \in [Keys -> Requests \cup {Nobody}]
      BY <2>3, IntakeAssumption DEF AuthorizeAnswered, Authorize, TypeOK
    <3>. QED BY <1>2, <2>3, <3>1, <3>2, HandlerTypes DEF AuthorizeAnswered, LooseTypes, store, Answers
  <2>4. CASE AuthorizeFails(r) \/ HandlerStops(r)
    <3>1. \E pc \in Working \cup {"over"}, a \in Answers \cup {"lost"} :
            req' = [req EXCEPT ![r] = [pc |-> pc, answer |-> a]]
      BY <2>4 DEF AuthorizeFails, HandlerStops, Respond, Working, Answers
    <3>2. late' \subseteq Requests /\ UNCHANGED <<store, hold>> /\ faults' \in 0..MaxFaults
      BY <1>1, <2>4 DEF AuthorizeFails, HandlerStops, TypeOK
    <3>. QED BY <1>2, <3>1, <3>2, HandlerTypes DEF LooseTypes, store
  <2>5. CASE DatabaseFails(r)
    <3>1. req' = [req EXCEPT ![r] = [pc |-> "respond", answer |-> "500"]]
      BY <2>5 DEF DatabaseFails, Respond
    <3>2. UNCHANGED <<hold, late>> /\ faults' \in 0..MaxFaults
      BY <1>1, <2>5 DEF DatabaseFails
    <3>3. req' \in [Requests -> [pc: Working \cup {"unsent", "over"},
                                answer: Answers \cup {"none", "lost"}]]
      BY <3>1, HandlerTypes DEF Working, Answers
    <3>. QED BY <1>2, <2>5, <3>2, <3>3, WriteTypes DEF DatabaseFails, LooseTypes, store
  <2>. QED BY <1>3, <2>1, <2>2, <2>3, <2>4, <2>5 DEF HandlerStep
<1>4. ASSUME NEW r \in Requests, ServeLate(r) PROVE LooseTypes'
  <2>1. hold' \in [Keys -> Requests \cup {Nobody}]
    BY <1>4, IntakeAssumption DEF ServeLate, Authorize, TypeOK
  <2>. QED BY <1>2, <1>4, <2>1 DEF ServeLate, LooseTypes, store
<1>5. ASSUME UNCHANGED vars PROVE LooseTypes'
  BY <1>2, <1>5 DEF vars, LooseTypes
<1>6. LooseTypes'
  BY <1>3, <1>4, <1>5 DEF Next, AllOver
<1>7. \A k \in Keys : event'[k] \in 0..1
  BY IntakeStep DEF IntakeInvariant, EventIsBacked
<1>. QED BY <1>6, <1>7 DEF LooseTypes, TypeOK

LEMMA IntakeInitially == Init => TypeOK /\ IntakeInvariant
<1>. SUFFICES ASSUME Init PROVE TypeOK /\ IntakeInvariant
  OBVIOUS
<1>1. TypeOK
  BY IntakeAssumption DEF Init, TypeOK, NoRow, LedgerStatus
<1>2. /\ \A k \in Keys : ledger[k].status = "none" /\ ledger[k].by = Nobody
      /\ \A r \in Requests : req[r].pc = "unsent" /\ req[r].answer = "none"
      /\ \A r \in Requests : Key[r] \in Keys /\ r # Nobody
  BY IntakeAssumption DEF Init, NoRow
<1>. QED BY <1>1, <1>2
         DEF Init, IntakeInvariant, EventIsBacked, HoldIsRecorded, AnswersAreTrue,
             TrueAnswer, HandlerKnows, LateKnows

\* OrderServiceLive.ts, createOrder: the types, and what every handler may rely
\* on at each of its steps.
THEOREM IntakeCorrect == Spec => [](TypeOK /\ IntakeInvariant)
BY IntakeInitially, IntakeStep, TypesStep, PTL DEF Spec

\* OrderLedgerRepositoryLive.ts, updateWithAuthorizationAndOutbox: whatever
\* fails, an event comes with an authorized ledger of one request.
THEOREM EventsAreBacked == Spec => []EventIsBacked
<1>1. IntakeInvariant => EventIsBacked
  BY DEF IntakeInvariant
<1>. QED BY <1>1, IntakeCorrect, PTL

\* api/orders.ts: what a client was told stays true.
THEOREM AnswersStayTrue == Spec => []AnswersAreTrue
<1>1. IntakeInvariant => AnswersAreTrue
  BY DEF IntakeInvariant
<1>. QED BY <1>1, IntakeCorrect, PTL

\* The variables have their types.
THEOREM IntakeTypes == Spec => []TypeOK
BY IntakeCorrect, PTL

\* PaymentClientLive.ts, authorize: money is held only under a key whose order is
\* recorded, for the request that recorded it, and not refused.
THEOREM HoldsAreRecorded == Spec => []HoldIsRecorded
<1>1. IntakeInvariant => HoldIsRecorded
  BY DEF IntakeInvariant
<1>. QED BY <1>1, IntakeCorrect, PTL

-----------------------------------------------------------------------------
(* Ledgers that are left behind. *)

\* A ledger has the key of the request that inserted it.
KeysAreOwn == \A k \in Keys : ledger[k].by # Nobody => Key[ledger[k].by] = k

LEMMA KeysStayOwn ==
  ASSUME TypeOK, KeysAreOwn, [Next]_vars
  PROVE  KeysAreOwn'
<1>1. ASSUME NEW r \in Requests, Write(r) PROVE KeysAreOwn'
  <2>. USE IntakeAssumption
  <2>1. CASE InsertLedger(r)
    BY <2>1 DEF InsertLedger, KeysAreOwn, TypeOK
  <2>2. CASE InsertItems(r)
    BY <2>2 DEF InsertItems, KeysAreOwn
  <2>3. CASE MarkAuthorizationFailed(r)
    BY <2>3 DEF MarkAuthorizationFailed, KeysAreOwn, TypeOK
  <2>4. CASE UpdateWithAuthorizationAndOutbox(r)
    BY <2>4 DEF UpdateWithAuthorizationAndOutbox, KeysAreOwn, TypeOK
  <2>. QED BY <1>1, <2>1, <2>2, <2>3, <2>4 DEF Write
<1>2. (\E r \in Requests : Write(r)) \/ UNCHANGED ledger
  BY DEF Next, HandlerStep, Send, FindByClientRequestId, Proceed, InsertConflicts,
     AuthorizeAnswered, AuthorizeFails, DatabaseFails, HandlerStops, Answer, ServeLate,
     AllOver, store, vars
<1>. QED BY <1>1, <1>2 DEF KeysAreOwn

\* A step that changes the handler of r, and the ledger of its key alone,
\* abandons at most that ledger.
LEMMA OneIsAbandoned ==
  ASSUME KeysAreOwn, TypeOK, IntakeInvariant, NEW r \in Requests,
         \A q \in Requests \ {r} : req'[q] = req[q],
         \A k \in Keys \ {Key[r]} : ledger'[k] = ledger[k]
  PROVE  Abandoned' \subseteq Abandoned \cup {Key[r]}
<1>. SUFFICES ASSUME NEW k \in Abandoned', k # Key[r] PROVE k \in Abandoned
  OBVIOUS
<1>1. k \in Keys /\ ledger'[k] = ledger[k] /\ ledger[k].status = "AWAITING_AUTHORIZATION"
  BY DEF Abandoned
<1>2. CASE ledger[k].by \in Requests
  <2>1. ledger[k].by # r
    BY <1>1, <1>2, IntakeAssumption DEF KeysAreOwn
  <2>. QED BY <1>1, <1>2, <2>1 DEF Abandoned
<1>3. CASE ledger[k].by = Nobody
  BY <1>1, <1>3 DEF IntakeInvariant
<1>. QED BY <1>1, <1>2, <1>3 DEF TypeOK

\* A handler that does not own the ledger of its key abandons nothing, and one
\* that goes on with it does not either.
LEMMA NotAbandoned ==
  ASSUME KeysAreOwn, TypeOK, IntakeInvariant, NEW r \in Requests,
         \A q \in Requests \ {r} : req'[q] = req[q],
         \A k \in Keys \ {Key[r]} : ledger'[k] = ledger[k],
         \/ ledger' = ledger /\ ledger[Key[r]].by # r
         \/ ledger' = ledger /\ ledger[Key[r]].by = r /\ At(r, "respond")
         \/ ledger'[Key[r]].by = r /\ req'[r].pc \in Working \ {"respond"}
         \/ ledger'[Key[r]].status # "AWAITING_AUTHORIZATION"
  PROVE  Abandoned' \subseteq Abandoned
<1>. DEFINE k == Key[r]
<1>1. k \in Keys
  BY IntakeAssumption
<1>2. SUFFICES ASSUME k \in Abandoned' PROVE k \in Abandoned
  BY OneIsAbandoned
<1>3. CASE ledger' = ledger /\ ledger[k].by # r
  <2>1. ledger[k].by \in Requests
    BY <1>1, <1>2, <1>3 DEF Abandoned, IntakeInvariant, TypeOK
  <2>. QED BY <1>1, <1>2, <1>3, <2>1 DEF Abandoned
<1>4. CASE ledger' = ledger /\ ledger[k].by = r /\ At(r, "respond")
  BY <1>1, <1>2, <1>4 DEF Abandoned, At
<1>5. CASE \/ ledger'[k].by = r /\ req'[r].pc \in Working \ {"respond"}
           \/ ledger'[k].status # "AWAITING_AUTHORIZATION"
  BY <1>2, <1>5 DEF Abandoned
<1>. QED BY <1>3, <1>4, <1>5

\* Where no fault is counted, a handler ends only where it does not own the
\* ledger of its key, or has settled it.
LEMMA FaultlessAbandonsNone ==
  ASSUME KeysAreOwn, TypeOK, IntakeInvariant, NEW r \in Requests, faults' = faults,
         Send(r) \/ HandlerStep(r)
  PROVE  Abandoned' \subseteq Abandoned
<1>. DEFINE k == Key[r]
<1>1. k \in Keys /\ HandlerKnows(r)
  BY IntakeAssumption DEF IntakeInvariant
<1>2. ASSUME NEW pc, Goto(r, pc) PROVE req'[r].pc = pc /\ \A q \in Requests \ {r} : req'[q] = req[q]
  BY <1>2 DEF Goto, TypeOK
<1>3. ASSUME NEW answer, Respond(r, answer) PROVE \A q \in Requests \ {r} : req'[q] = req[q]
  BY <1>3 DEF Respond, TypeOK
<1>4. CASE Send(r) \/ FindByClientRequestId(r) \/ InsertConflicts(r)
  <2>1. ledger' = ledger /\ ledger[k].by # r
    BY <1>1, <1>4 DEF Send, FindByClientRequestId, InsertConflicts, HandlerKnows, At, store
  <2>2. \A q \in Requests \ {r} : req'[q] = req[q]
    BY <1>2, <1>3, <1>4 DEF Send, FindByClientRequestId, InsertConflicts
  <2>. QED BY <2>1, <2>2, NotAbandoned
<1>5. CASE Proceed(r)
  <2>1. CASE At(r, "create") /\ InsertLedger(r) /\ Goto(r, "createItems")
    <3>1. ledger'[k].by = r /\ \A x \in Keys \ {k} : ledger'[x] = ledger[x]
      BY <1>1, <2>1 DEF InsertLedger, TypeOK
    <3>. QED BY <1>2, <2>1, <3>1, NotAbandoned DEF Working, Statements
  <2>2. CASE At(r, "createItems") /\ InsertItems(r) /\ Goto(r, "authorize")
    <3>1. ledger'[k].by = r /\ ledger' = ledger
      BY <1>1, <2>2 DEF InsertItems, HandlerKnows, At, Owned
    <3>. QED BY <1>2, <2>2, <3>1, NotAbandoned DEF Working, Statements
  <2>3. CASE At(r, "markFailed") /\ MarkAuthorizationFailed(r) /\ Respond(r, "402")
    <3>1. /\ ledger'[k].status = "AUTHORIZATION_FAILED"
          /\ \A x \in Keys \ {k} : ledger'[x] = ledger[x]
      BY <1>1, <2>3 DEF MarkAuthorizationFailed, TypeOK
    <3>. QED BY <1>3, <2>3, <3>1, NotAbandoned
  <2>4. CASE At(r, "update") /\ UpdateWithAuthorizationAndOutbox(r) /\ Respond(r, "202")
    <3>1. /\ ledger'[k].status = "AUTHORIZED"
          /\ \A x \in Keys \ {k} : ledger'[x] = ledger[x]
      BY <1>1, <2>4 DEF UpdateWithAuthorizationAndOutbox, TypeOK
    <3>. QED BY <1>3, <2>4, <3>1, NotAbandoned
  <2>. QED BY <1>5, <2>1, <2>2, <2>3, <2>4 DEF Proceed, Write, At
<1>6. CASE AuthorizeAnswered(r)
  <2>1. ledger'[k].by = r /\ ledger' = ledger
    BY <1>1, <1>6 DEF AuthorizeAnswered, HandlerKnows, At, Owned, store
  <2>2. /\ req'[r].pc \in Working \ {"respond"}
        /\ \A q \in Requests \ {r} : req'[q] = req[q]
    BY <1>2, <1>6 DEF AuthorizeAnswered, OnDecline, Working, Statements
  <2>. QED BY <2>1, <2>2, NotAbandoned
<1>7. CASE Answer(r)
  <2>1. ledger' = ledger /\ At(r, "respond") /\ \A q \in Requests \ {r} : req'[q] = req[q]
    BY <1>2, <1>7 DEF Answer, store
  <2>. QED BY <2>1, NotAbandoned
<1>8. ~(AuthorizeFails(r) \/ DatabaseFails(r) \/ HandlerStops(r))
  BY DEF AuthorizeFails, DatabaseFails, HandlerStops, Fault, TypeOK
<1>. QED BY <1>4, <1>5, <1>6, <1>7, <1>8 DEF HandlerStep

\* A fault costs at most the ledger of the handler that it hits.
LEMMA FaultAbandonsOne ==
  ASSUME KeysAreOwn, TypeOK, IntakeInvariant, NEW r \in Requests,
         AuthorizeFails(r) \/ DatabaseFails(r) \/ HandlerStops(r)
  PROVE  Abandoned' \subseteq Abandoned \cup {Key[r]} /\ faults' = faults + 1
<1>1. faults' = faults + 1 /\ \A q \in Requests \ {r} : req'[q] = req[q]
  BY DEF AuthorizeFails, DatabaseFails, HandlerStops, Fault, Respond, TypeOK
<1>2. \A k \in Keys \ {Key[r]} : ledger'[k] = ledger[k]
  <2>1. Write(r) \/ ledger' = ledger
    BY DEF AuthorizeFails, DatabaseFails, HandlerStops, store
  <2>. QED BY <2>1 DEF Write, InsertLedger, InsertItems, MarkAuthorizationFailed,
              UpdateWithAuthorizationAndOutbox, TypeOK
<1>. QED BY <1>1, <1>2, OneIsAbandoned

LEMMA AbandonedStep ==
  ASSUME AbandonedByFaults, KeysAreOwn, TypeOK, IntakeInvariant, [Next]_vars
  PROVE  AbandonedByFaults'
<1>1. /\ IsFiniteSet(Abandoned) /\ Cardinality(Abandoned) \in Nat
      /\ faults \in Nat /\ Cardinality(Abandoned) <= faults
  <2>1. IsFiniteSet(Abandoned)
    BY IntakeAssumption, FS_Subset DEF Abandoned
  <2>. QED BY <2>1, FS_CardinalityType, IntakeAssumption DEF AbandonedByFaults, TypeOK
<1>2. CASE Abandoned' \subseteq Abandoned /\ faults' = faults
  <2>1. Cardinality(Abandoned') \in Nat /\ Cardinality(Abandoned') <= Cardinality(Abandoned)
    BY <1>1, <1>2, FS_Subset, FS_CardinalityType
  <2>. QED BY <1>1, <1>2, <2>1 DEF AbandonedByFaults
<1>3. ASSUME NEW k, Abandoned' \subseteq Abandoned \cup {k}, faults' = faults + 1
      PROVE  AbandonedByFaults'
  <2>1. /\ IsFiniteSet(Abandoned \cup {k})
        /\ Cardinality(Abandoned \cup {k}) \in Nat
        /\ Cardinality(Abandoned \cup {k}) <= Cardinality(Abandoned) + 1
    BY <1>1, FS_AddElement
  <2>2. /\ Cardinality(Abandoned') \in Nat
        /\ Cardinality(Abandoned') <= Cardinality(Abandoned \cup {k})
    BY <1>3, <2>1, FS_Subset, FS_CardinalityType
  <2>. QED BY <1>1, <1>3, <2>1, <2>2 DEF AbandonedByFaults
<1>4. ASSUME NEW r \in Requests, Send(r) \/ HandlerStep(r) PROVE AbandonedByFaults'
  <2>1. CASE AuthorizeFails(r) \/ DatabaseFails(r) \/ HandlerStops(r)
    BY <1>3, <2>1, FaultAbandonsOne
  <2>2. CASE ~(AuthorizeFails(r) \/ DatabaseFails(r) \/ HandlerStops(r))
    <3>1. faults' = faults
      BY <1>4, <2>2 DEF HandlerStep, Send, FindByClientRequestId, Proceed, InsertConflicts,
         AuthorizeAnswered, Answer
    <3>. QED BY <1>2, <1>4, <3>1, FaultlessAbandonsNone
  <2>. QED BY <2>1, <2>2
<1>5. CASE UNCHANGED <<ledger, req, faults>>
  BY <1>5 DEF AbandonedByFaults, Abandoned
<1>6. ASSUME NEW r \in Requests, ServeLate(r) PROVE UNCHANGED <<ledger, req, faults>>
  BY <1>6 DEF ServeLate, store
<1>. QED BY <1>4, <1>5, <1>6 DEF Next, AllOver, vars

\* Each ledger that is left behind for ever is the work of a fault of its own:
\* with any number of concurrent requests, interleaving alone leaves none.
THEOREM FaultsAbandon == Spec => []AbandonedByFaults
<1>1. Init => AbandonedByFaults /\ KeysAreOwn
  <2>1. ASSUME Init PROVE Abandoned = {} /\ faults = 0 /\ KeysAreOwn
    BY <2>1 DEF Init, Abandoned, NoRow, KeysAreOwn
  <2>. QED BY <2>1, FS_EmptySet DEF AbandonedByFaults
<1>2. TypeOK /\ IntakeInvariant /\ AbandonedByFaults /\ KeysAreOwn /\ [Next]_vars
        => AbandonedByFaults' /\ KeysAreOwn'
  BY AbandonedStep, KeysStayOwn
<1>. QED BY <1>1, <1>2, IntakeCorrect, PTL DEF Spec

-----------------------------------------------------------------------------
(* The refinement of OrderArrivals. *)

status == [k \in Keys |-> ledger[k].status]
listed == [k \in Keys |-> items[k] # {}]
held == [k \in Keys |-> hold[k] # Nobody]

\* Each statement that writes is a step of the promise.
LEMMA WriteArrives ==
  ASSUME TypeOK, IntakeInvariant, NEW r \in Requests, Write(r), hold' = hold
  PROVE  Arrivals!Next
<1>. DEFINE k == Key[r]
<1>1. k \in Keys /\ r # Nobody
  BY IntakeAssumption
<1>2. held' = held
  BY DEF held
<1>3. ASSUME At(r, "create"), InsertLedger(r) PROVE Arrivals!Record(k)
  <2>1. ledger[k].status = "none" /\ listed' = listed /\ event' = event
    BY <1>3 DEF InsertLedger, NoRow, listed
  <2>2. status' = [status EXCEPT ![k] = "AWAITING_AUTHORIZATION"]
    BY <1>1, <1>3 DEF InsertLedger, TypeOK, status
  <2>. QED BY <1>1, <1>2, <2>1, <2>2 DEF Arrivals!Record, status, listed, held
<1>4. ASSUME At(r, "createItems"), InsertItems(r) PROVE Arrivals!StoreLines(k)
  <2>1. Owned(r, "AWAITING_AUTHORIZATION") /\ status' = status /\ event' = event
    BY <1>4 DEF InsertItems, IntakeInvariant, HandlerKnows, At, status
  <2>2. listed' = [listed EXCEPT ![k] = TRUE]
    BY <1>1, <1>4 DEF InsertItems, TypeOK, listed
  <2>. QED BY <1>1, <1>2, <2>1, <2>2 DEF Arrivals!StoreLines, status, listed, held, Owned
<1>5. ASSUME At(r, "markFailed"), MarkAuthorizationFailed(r) PROVE Arrivals!Refuse(k)
  <2>1. /\ Owned(r, "AWAITING_AUTHORIZATION") /\ hold[k] = Nobody
        /\ listed' = listed /\ event' = event
    BY <1>5 DEF MarkAuthorizationFailed, IntakeInvariant, HandlerKnows, At, listed
  <2>2. status' = [status EXCEPT ![k] = "AUTHORIZATION_FAILED"]
    BY <1>1, <1>5 DEF MarkAuthorizationFailed, TypeOK, status
  <2>. QED BY <1>1, <1>2, <2>1, <2>2 DEF Arrivals!Refuse, status, listed, held, Owned
<1>6. ASSUME At(r, "update"), UpdateWithAuthorizationAndOutbox(r) PROVE Arrivals!Queue(k)
  <2>1. /\ Owned(r, "AWAITING_AUTHORIZATION") /\ hold[k] = r /\ items[k] = {r}
        /\ listed' = listed
    BY <1>6 DEF UpdateWithAuthorizationAndOutbox, IntakeInvariant, HandlerKnows, At, listed
  <2>2. status' = [status EXCEPT ![k] = "AUTHORIZED"]
    BY <1>1, <1>6 DEF UpdateWithAuthorizationAndOutbox, TypeOK, status
  <2>3. event[k] = 0
    BY <1>1, <2>1 DEF IntakeInvariant, EventIsBacked, Owned
  <2>4. event' = [event EXCEPT ![k] = 1]
    BY <1>6, <2>3 DEF UpdateWithAuthorizationAndOutbox
  <2>. QED BY <1>1, <1>2, <2>1, <2>2, <2>4 DEF Arrivals!Queue, status, listed, held, Owned
<1>. QED BY <1>1, <1>3, <1>4, <1>5, <1>6 DEF Write, Arrivals!Next

\* An authorization takes money for an order whose lines are stored.
LEMMA AuthorizeArrives ==
  ASSUME TypeOK, IntakeInvariant, NEW r \in Requests, NEW reply, Authorize(r, reply),
         At(r, "authorize") \/ r \in late, UNCHANGED store
  PROVE  Arrivals!Next \/ UNCHANGED hold
<1>. DEFINE k == Key[r]
<1>1. k \in Keys /\ r # Nobody
  BY IntakeAssumption
<1>2. Owned(r, "AWAITING_AUTHORIZATION") /\ items[k] = {r}
  BY DEF IntakeInvariant, HandlerKnows, LateKnows, At
<1>3. ASSUME hold' = [hold EXCEPT ![k] = r] PROVE Arrivals!HoldMoney(k)
  <2>1. status' = status /\ listed' = listed /\ event' = event
    BY DEF store, status, listed
  <2>2. held' = [held EXCEPT ![k] = TRUE]
    BY <1>1, <1>3 DEF TypeOK, held
  <2>. QED BY <1>1, <1>2, <2>1, <2>2 DEF Arrivals!HoldMoney, status, listed, held, Owned
<1>. QED BY <1>1, <1>3 DEF Authorize, Arrivals!Next

\* OrderServiceLive.ts, createOrder: the intake implements its promise: lines
\* before money, money before the event, and one event for one order.
THEOREM IntakeKeepsOrder == Spec => KeepsOrder
<1>1. Init => Arrivals!Init
  <2>. SUFFICES ASSUME Init PROVE Arrivals!Init
    OBVIOUS
  <2>1. \A k \in Keys : /\ ledger[k].status = "none" /\ (items[k] # {}) = FALSE
                       /\ (hold[k] # Nobody) = FALSE
    BY DEF Init, NoRow
  <2>. QED BY <2>1 DEF Init, Arrivals!Init
<1>2. TypeOK /\ IntakeInvariant /\ [Next]_vars
        => [Arrivals!Next]_<<status, listed, held, event>>
  <2>. SUFFICES ASSUME TypeOK, IntakeInvariant, [Next]_vars
                PROVE  Arrivals!Next \/ UNCHANGED <<store, hold>>
    BY DEF store, status, listed, held
  <2>1. ASSUME NEW r \in Requests, HandlerStep(r)
        PROVE  Arrivals!Next \/ UNCHANGED <<store, hold>>
    <3>1. CASE Proceed(r) \/ DatabaseFails(r)
      BY <3>1, WriteArrives DEF Proceed, DatabaseFails
    <3>2. CASE AuthorizeAnswered(r)
      BY <3>2, AuthorizeArrives DEF AuthorizeAnswered
    <3>. QED BY <2>1, <3>1, <3>2
             DEF HandlerStep, FindByClientRequestId, InsertConflicts, AuthorizeFails,
                 HandlerStops, Answer
  <2>2. ASSUME NEW r \in Requests, Send(r) \/ ServeLate(r)
        PROVE  Arrivals!Next \/ UNCHANGED <<store, hold>>
    BY <2>2, AuthorizeArrives DEF Send, ServeLate
  <2>3. CASE UNCHANGED vars
    BY <2>3 DEF vars, store
  <2>. QED BY <2>1, <2>2, <2>3 DEF Next, AllOver
<1>. QED BY <1>1, <1>2, IntakeCorrect, PTL
         DEF Spec, KeepsOrder, Arrivals!Spec, status, listed, held

=============================================================================
