--------------------------- MODULE CheckoutProofs ---------------------------
(***************************************************************************)
(* What holds of Checkout for any number of orders, attempts and threads,  *)
(* and what more holds when the handlers run one at a time.                *)
(*                                                                         *)
(* Books is the invariant behind the properties of every interleaving: a   *)
(* request in flight may hold a stale reading, but what it is about to     *)
(* write is backed by something no other handler takes back - a capture, a *)
(* payment id, an order that has been placed.  Turns is the one behind the *)
(* serial properties: with no other handler between its read and its       *)
(* commit, a request's reading is still true when it commits.              *)
(***************************************************************************)
EXTENDS Checkout, TLAPS

(* What the fields of a request are when its next step uses them. *)
WellFormed(q) ==
  /\ q.op \notin {"idle", "fail"} => q.order \in Orders
  /\ q.op \in {"verify", "hook"} => q.attempt \in Payments
  /\ q.op = "hotel" => q.want \in {"accepted", "cancelled"}
  /\ q.op = "cancel" => q.want = "cancelled"

Shape == \A t \in Threads : WellFormed(req[t])

(* Inductive: a commit writes to the order its request names.                 *)
TInv == TypeOK /\ Shape

(* An idle thread names nothing.                                              *)
LEMMA IdleRequest == Idle \in Request /\ WellFormed(Idle)
  BY DEF Idle, Request, WellFormed, Ops, Status, PayStatus

(* Replacing a thread's request by a well-formed one keeps every request so. *)
LEMMA GotoKeepsShape ==
  ASSUME req \in [Threads -> Request], Shape, NEW t \in Threads,
         NEW q \in Request, WellFormed(q), Goto(t, q)
  PROVE  req' \in [Threads -> Request] /\ Shape'
  BY DEF Goto, Shape

(* A request that is done leaves the others as they are.                      *)
LEMMA FinishKeepsShape ==
  ASSUME req \in [Threads -> Request], Shape, NEW t \in Threads, Finish(t)
  PROVE  req' \in [Threads -> Request] /\ Shape'
  BY IdleRequest, GotoKeepsShape DEF Finish

(* Placed orders are orders. *)
LEMMA PlacedOrders == TypeOK => Placed \subseteq Orders
  BY CheckoutAssumption DEF TypeOK, Placed, Orders

-----------------------------------------------------------------------------
(* No order, payment or request at first.                                     *)
LEMMA TypeInit == Init => TInv
  <1> SUFFICES ASSUME Init PROVE TInv
    OBVIOUS
  <1>1. TypeOK
    BY IdleRequest, CheckoutAssumption DEF Init, TypeOK, Status, PayStatus
  <1>2. Shape
    BY IdleRequest DEF Init, Shape
  <1> QED
    BY <1>1, <1>2 DEF TInv

(* A new request is well formed and keeps the types. *)
LEMMA TypeArrive ==
  ASSUME TInv, NEW t \in Threads, Arrive(t)
  PROVE  TInv'
  <1> USE PlacedOrders DEF TInv, history
  <1>1. CASE Place(t)
    <2> DEFINE q == [Idle EXCEPT !.op = "sweep", !.order = placed + 1]
    <2>1. placed + 1 \in Orders /\ placed' \in 0..MaxOrders
      BY <1>1, CheckoutAssumption DEF Place, TypeOK, Orders
    <2>2. q \in Request /\ WellFormed(q)
      BY <2>1 DEF Idle, Request, WellFormed, Ops, Status, PayStatus
    <2>3. req' \in [Threads -> Request] /\ Shape'
      BY <1>1, <2>2, GotoKeepsShape DEF Place, TypeOK
    <2> QED
      BY <1>1, <2>1, <2>3 DEF Place, TypeOK, Status, gateway
  <1>2. ASSUME NEW o \in Placed, CreateRead(t, o)
        PROVE  TInv'
    <2> DEFINE q == [Idle EXCEPT !.op = "create", !.order = o]
    <2>1. q \in Request /\ WellFormed(q)
      BY DEF Idle, Request, WellFormed, Ops, Status, PayStatus
    <2>2. req' \in [Threads -> Request] /\ Shape'
      BY <1>2, <2>1, GotoKeepsShape DEF CreateRead, TypeOK
    <2> QED
      BY <1>2, <2>2 DEF CreateRead, TypeOK, orderRow, gateway
  <1>3. ASSUME NEW o \in Placed, NEW a \in Payments, VerifyRead(t, o, a)
        PROVE  TInv'
    <2> DEFINE q == [Idle EXCEPT !.op = "verify", !.order = o, !.attempt = a,
                                 !.seen = pay[o], !.mark = payment[o], !.named = rz[o]]
    <2>1. q \in Request /\ WellFormed(q)
      BY DEF TypeOK, Idle, Request, WellFormed, Ops, Status, PayStatus
    <2>2. req' \in [Threads -> Request] /\ Shape'
      BY <1>3, <2>1, GotoKeepsShape DEF VerifyRead, TypeOK
    <2> QED
      BY <1>3, <2>2 DEF VerifyRead, TypeOK, orderRow, gateway
  <1>4. ASSUME NEW o \in Placed, NEW a \in Attempts, HookRead(t, o, a)
        PROVE  TInv'
    <2>1. CASE IsPaid(o)
      BY <1>4, <2>1 DEF HookRead, TypeOK, Shape, orderRow
    <2>2. CASE ~ IsPaid(o)
      <3> DEFINE q == [Idle EXCEPT !.op = "hook", !.order = o, !.attempt = a,
                                   !.mark = payment[o]]
      <3>1. q \in Request /\ WellFormed(q)
        BY DEF TypeOK, Idle, Request, WellFormed, Ops, Status, PayStatus, Payments
      <3>2. req' \in [Threads -> Request] /\ Shape'
        BY <1>4, <2>2, <3>1, GotoKeepsShape DEF HookRead, TypeOK
      <3> QED
        BY <1>4, <2>2, <3>2 DEF HookRead, TypeOK, orderRow
    <2> QED
      BY <2>1, <2>2
  <1>5. ASSUME NEW o \in Placed, NEW want \in {"accepted", "cancelled"},
               HotelRead(t, o, want)
        PROVE  TInv'
    <2> DEFINE q == [Idle EXCEPT !.op = "hotel", !.order = o, !.was = status[o],
                                 !.want = want]
    <2>1. q \in Request /\ WellFormed(q)
      BY DEF TypeOK, Idle, Request, WellFormed, Ops, Status, PayStatus
    <2>2. req' \in [Threads -> Request] /\ Shape'
      BY <1>5, <2>1, GotoKeepsShape DEF HotelRead, TypeOK
    <2> QED
      BY <1>5, <2>2 DEF HotelRead, TypeOK, orderRow, gateway
  <1>6. ASSUME NEW o \in Placed, CancelRead(t, o)
        PROVE  TInv'
    <2> DEFINE q == [Idle EXCEPT !.op = "cancel", !.order = o, !.was = status[o],
                                 !.want = "cancelled"]
    <2>1. q \in Request /\ WellFormed(q)
      BY DEF TypeOK, Idle, Request, WellFormed, Ops, Status, PayStatus
    <2>2. req' \in [Threads -> Request] /\ Shape'
      BY <1>6, <2>1, GotoKeepsShape DEF CancelRead, TypeOK
    <2> QED
      BY <1>6, <2>2 DEF CancelRead, TypeOK, orderRow, gateway
  <1> QED
    BY <1>1, <1>2, <1>3, <1>4, <1>5, <1>6 DEF Arrive

(* A request carried on keeps the types. *)
LEMMA TypeProceed ==
  ASSUME TInv, NEW t \in Threads, Proceed(t)
  PROVE  TInv'
  <1> USE PlacedOrders DEF TInv, history
  <1>r. req[t] \in Request /\ WellFormed(req[t])
    BY DEF TypeOK, Shape
  <1>1. CASE SweepRead(t)
    <2> DEFINE q == [Idle EXCEPT !.op = "fail", !.stale = Drafts(req[t].order)]
    <2>1. q \in Request /\ WellFormed(q)
      BY DEF Drafts, Idle, Request, WellFormed, Ops, Status, PayStatus
    <2>2. req' \in [Threads -> Request] /\ Shape'
      <3>1. CASE Drafts(req[t].order) = {}
        BY <1>1, <3>1, FinishKeepsShape DEF SweepRead, TypeOK
      <3>2. CASE Drafts(req[t].order) # {}
        BY <1>1, <3>2, <2>1, GotoKeepsShape DEF SweepRead, TypeOK
      <3> QED
        BY <3>1, <3>2
    <2> QED
      BY <1>1, <2>2 DEF SweepRead, TypeOK, orderRow, gateway
  <1>2. CASE SweepCommit(t)
    <2>1. req' \in [Threads -> Request] /\ Shape'
      BY <1>2, FinishKeepsShape DEF SweepCommit, TypeOK
    <2> QED
      BY <1>2, <2>1 DEF SweepCommit, TypeOK, gateway, Status, PayStatus
  <1>3. ASSUME NEW a \in Attempts, CreateCommit(t, a)
        PROVE  TInv'
    <2>1. req' \in [Threads -> Request] /\ Shape'
      BY <1>3, FinishKeepsShape DEF CreateCommit, TypeOK
    <2> QED
      BY <1>3, <2>1 DEF CreateCommit, TypeOK, Payments
  <1>4. CASE VerifyCommit(t)
    <2> DEFINE q == [Idle EXCEPT !.op = "notify", !.order = req[t].order]
    <2>1. req[t].order \in Orders /\ req[t].attempt \in Payments
      BY <1>4, <1>r DEF VerifyCommit, At, WellFormed
    <2>2. q \in Request /\ WellFormed(q)
      BY <2>1 DEF Idle, Request, WellFormed, Ops, Status, PayStatus
    <2>3. req' \in [Threads -> Request] /\ Shape'
      <3>1. CASE req[t].seen = "paid"
        BY <1>4, <3>1, FinishKeepsShape DEF VerifyCommit, TypeOK
      <3>2. CASE req[t].seen # "paid"
        BY <1>4, <3>2, <2>2, GotoKeepsShape DEF VerifyCommit, TypeOK
      <3> QED
        BY <3>1, <3>2
    <2> QED
      BY <1>4, <2>1, <2>3 DEF VerifyCommit, TypeOK, gateway, FlushOf, PayStatus
  <1>5. CASE HookCommit(t)
    <2> DEFINE q == [Idle EXCEPT !.op = "notify", !.order = req[t].order,
                                 !.attempt = req[t].attempt]
    <2>1. req[t].order \in Orders /\ req[t].attempt \in Payments
      BY <1>5, <1>r DEF HookCommit, At, WellFormed
    <2>2. q \in Request /\ WellFormed(q)
      BY <2>1 DEF Idle, Request, WellFormed, Ops, Status, PayStatus
    <2>3. req' \in [Threads -> Request] /\ Shape'
      BY <1>5, <2>2, GotoKeepsShape DEF HookCommit, TypeOK
    <2> QED
      BY <1>5, <2>1, <2>3 DEF HookCommit, TypeOK, gateway, FlushOf, PayStatus
  <1>6. CASE Notify(t)
    <2>1. req' \in [Threads -> Request] /\ Shape'
      BY <1>6, FinishKeepsShape DEF Notify, TypeOK
    <2>2. alerts' \in [Orders -> Nat]
      <3>1. req[t].order \in Orders
        BY <1>6, <1>r DEF Notify, At, WellFormed
      <3>2. alerts[req[t].order] + 1 \in Nat
        BY <3>1 DEF TypeOK
      <3> QED
        BY <1>6, <3>2 DEF Notify, TypeOK
    <2> QED
      BY <1>6, <2>1, <2>2 DEF Notify, TypeOK, orderRow
  <1>7. CASE StaffCommit(t)
    <2>1. req' \in [Threads -> Request] /\ Shape'
      BY <1>7, FinishKeepsShape DEF StaffCommit, TypeOK
    <2>2. req[t].want \in Status
      BY <1>r DEF Request
    <2> QED
      BY <1>7, <2>1, <2>2 DEF StaffCommit, TypeOK, gateway, FlushOf
  <1> QED
    BY <1>1, <1>2, <1>3, <1>4, <1>5, <1>6, <1>7 DEF Proceed

(* Every step keeps the type and the shape of the requests.                   *)
LEMMA TypeStep == TInv /\ [Next]_vars => TInv'
  <1> SUFFICES ASSUME TInv, [Next]_vars PROVE TInv'
    OBVIOUS
  <1> USE DEF history
  <1>1. ASSUME NEW t \in Threads, Arrive(t) PROVE TInv'
    BY <1>1, TypeArrive
  <1>2. ASSUME NEW t \in Threads, Proceed(t) PROVE TInv'
    BY <1>2, TypeProceed
  <1>3. ASSUME NEW t \in Threads, Fail(t) PROVE TInv'
    BY <1>3, FinishKeepsShape DEF Fail, TInv, TypeOK, orderRow, gateway
  <1>4. ASSUME NEW o \in Placed, NEW a \in Attempts, Capture(o, a) PROVE TInv'
    BY <1>4, PlacedOrders DEF Capture, TInv, TypeOK, Shape, orderRow
  <1>5. CASE UNCHANGED vars
    BY <1>5 DEF vars, orderRow, gateway, TInv, TypeOK, Shape
  <1> QED
    BY <1>1, <1>2, <1>3, <1>4, <1>5 DEF Next

(* So they hold for ever.                                                     *)
LEMMA TypeAlways == Spec => []TInv
  BY TypeInit, TypeStep, PTL DEF Spec

(* Every column and every request of every thread keeps its type. *)
THEOREM TypeCorrect == Spec => []TypeOK
  BY TypeAlways, PTL DEF TInv

-----------------------------------------------------------------------------
(* What the write of a thread's request has behind it.  /verify has a signed  *)
(* payment, and a capture for its order if it read a row that named one.      *)
Backed(t) ==
  LET q == req[t] IN
  /\ q.op = "fail" => q.stale \subseteq Placed
  /\ q.op \in {"verify", "hook"} =>
       /\ q.order \in Placed
       /\ q.mark # NoAttempt => payment[q.order] # NoAttempt
  /\ q.op = "verify" =>
       /\ q.named \in {NoAttempt, q.attempt}
       /\ q.attempt \in Signed
       /\ q.named # NoAttempt => q.attempt \in Backing(q.order)
  /\ q.op = "hook" => q.attempt \in captured[q.order]
  /\ q.op = "hotel" /\ q.want = "accepted" => payment[q.order] # NoAttempt

(* What the row of an order has behind it.                                    *)
RowBacked(o) ==
  /\ pay[o] = "paid" => payment[o] # NoAttempt
  /\ payment[o] # NoAttempt => payment[o] \in Backing(o)
  /\ rz[o] # NoAttempt /\ o \notin unnamed => rz[o] \in opened[o]
  /\ status[o] = "accepted" => payment[o] # NoAttempt
  /\ pay[o] = "failed" => status[o] # "pending"
  /\ o \notin Placed => pay[o] = "pending"

(* An attempt belongs to one order: Razorpay opens a new one each time, and   *)
(* captures what it opened.                                                   *)
Owned ==
  /\ \A o \in Orders : captured[o] \subseteq opened[o]
  /\ \A o, p \in Orders : o # p => opened[o] \cap opened[p] = {}

(* What the rows say is backed by captures, and so is what requests read.     *)
Books ==
  /\ Owned
  /\ \A o \in Orders : RowBacked(o)
  /\ \A t \in Threads : Backed(t)

(* What no step takes back. *)
Grows ==
  /\ Placed \subseteq Placed'
  /\ unnamed \subseteq unnamed'
  /\ \A o \in Orders : captured[o] \subseteq captured'[o]
  /\ \A o \in Orders : payment[o] # NoAttempt => payment'[o] # NoAttempt

(* A capture for the order always backs it; all that backs it is signed.      *)
LEMMA BackingIs ==
  ASSUME TypeOK, NEW o \in Orders
  PROVE  /\ captured[o] \subseteq Backing(o)
         /\ Backing(o) \subseteq Signed
         /\ Signed \subseteq Payments /\ NoAttempt \notin Signed
  <1>1. captured[o] \subseteq Signed
    BY DEF Signed, Payments, TypeOK
  <1>2. Signed \subseteq Payments
    BY DEF Signed
  <1>3. NoAttempt \notin Payments
    BY CheckoutAssumption DEF Payments
  <1> QED
    BY <1>1, <1>2, <1>3 DEF Backing

(* What backs an order goes on backing it.                                    *)
LEMMA BackingGrows ==
  ASSUME TypeOK, Grows
  PROVE  /\ Signed \subseteq Signed'
         /\ \A o \in Orders : Backing(o) \subseteq Backing(o)'
  <1>1. Signed \subseteq Signed'
    BY DEF Grows, Signed
  <1>2. ASSUME NEW o \in Orders
        PROVE  Backing(o) \subseteq Backing(o)'
    <2>1. CASE o \in unnamed
      BY <2>1, <1>1 DEF Grows, Backing
    <2>2. CASE o \notin unnamed
      <3>1. captured[o] \subseteq captured'[o] /\ captured[o] \subseteq Signed'
        BY DEF Grows, Signed, Payments, TypeOK
      <3> QED
        BY <2>2, <3>1 DEF Backing
    <2> QED
      BY <2>1, <2>2
  <1> QED
    BY <1>1, <1>2

(* So a request stays backed until its thread takes its next step, ... *)
LEMMA BackedStays ==
  ASSUME TInv, Grows, NEW u \in Threads, req'[u] = req[u], Backed(u)
  PROVE  Backed(u)'
  <1>1. req[u] \in Request /\ WellFormed(req[u])
    BY DEF TInv, TypeOK, Shape
  <1>2. req[u].op = "verify" => req[u].order \in Orders
    BY <1>1 DEF WellFormed
  <1> HIDE DEF Orders
  <1> QED
    BY <1>1, <1>2, BackingGrows DEF Backed, Grows, WellFormed, TInv

(* ... and a step owes a proof for its own thread's new request only. *)
LEMMA BackedAll ==
  ASSUME TInv, Books, Grows, NEW t \in Threads, NEW q, Goto(t, q), Backed(t)'
  PROVE  \A u \in Threads : Backed(u)'
  <1> SUFFICES ASSUME NEW u \in Threads, u # t PROVE Backed(u)'
    OBVIOUS
  <1>1. req'[u] = req[u]
    BY DEF Goto, TInv, TypeOK
  <1> QED
    BY <1>1, BackedStays DEF Books

(* A request done leaves nothing to back. *)
LEMMA BackedDone ==
  ASSUME TInv, Books, Grows, NEW t \in Threads, Finish(t)
  PROVE  \A u \in Threads : Backed(u)'
  <1>1. req'[t].op = "idle"
    BY DEF Finish, Goto, Idle, TInv, TypeOK
  <1>2. Backed(t)'
    BY <1>1 DEF Backed
  <1> QED
    BY <1>2, BackedAll DEF Finish

(* A step that writes no column and captures nothing leaves the rows backed,  *)
(* by what backed them before.                                                *)
LEMMA RowsKept ==
  ASSUME TInv, Books, UNCHANGED <<orderRow, opened, captured, history>>
  PROVE  /\ Grows
         /\ Owned' /\ \A o \in Orders : RowBacked(o)'
         /\ Signed' = Signed /\ \A o \in Orders : Backing(o)' = Backing(o)
  <1> USE DEF orderRow, history
  <1>1. Grows
    BY DEF Grows, Placed
  <1>2. Signed' = Signed
    BY DEF Signed
  <1>3. \A o \in Orders : Backing(o)' = Backing(o)
    BY <1>2 DEF Backing
  <1>4. Owned'
    BY DEF Books, Owned
  <1>5. \A o \in Orders : RowBacked(o)'
    BY <1>3 DEF Books, RowBacked, Placed
  <1> QED
    BY <1>1, <1>2, <1>3, <1>4, <1>5

(* Nothing needs backing at first.                                            *)
LEMMA BooksInit == Init => Books
  <1> SUFFICES ASSUME Init PROVE Books
    OBVIOUS
  <1>1. \A o \in Orders : RowBacked(o)
    BY DEF Init, RowBacked
  <1>2. \A t \in Threads : Backed(t)
    BY DEF Init, Backed, Idle
  <1>3. Owned
    BY DEF Init, Owned
  <1> QED
    BY <1>1, <1>2, <1>3 DEF Books

(* A request that only reads changes no row; it is backed by what it read.    *)
LEMMA BooksArrive ==
  ASSUME TInv, Books, NEW t \in Threads, Arrive(t)
  PROVE  Books'
  <1> USE PlacedOrders DEF TInv
  <1>1. CASE Place(t)
    <2> DEFINE o == placed + 1
    <2>1. o \in Orders /\ o \notin Placed /\ Placed \subseteq Placed'
      BY <1>1, CheckoutAssumption DEF Place, TypeOK, Placed, Orders
    <2>2. Grows
      BY <1>1, <2>1 DEF Place, Grows, gateway, history
    <2>3. \A p \in Orders : Backing(p) \subseteq Backing(p)'
      BY <2>2, BackingGrows
    <2>4. pay[o] = "pending"
      BY <2>1 DEF Books, RowBacked
    <2>5. \A p \in Orders : RowBacked(p)'
      BY <1>1, <2>1, <2>3, <2>4 DEF Place, Books, RowBacked, TypeOK, gateway, history
    <2>6. Owned'
      BY <1>1 DEF Place, Books, Owned, gateway
    <2>7. req'[t].op = "sweep"
      BY <1>1 DEF Place, Goto, Idle, TypeOK
    <2>8. Backed(t)'
      BY <2>7 DEF Backed
    <2>9. \A u \in Threads : Backed(u)'
      BY <1>1, <2>2, <2>8, BackedAll DEF Place
    <2> QED
      BY <2>5, <2>6, <2>9 DEF Books
  <1>2. ASSUME NEW o \in Placed, CreateRead(t, o)
        PROVE  Books'
    <2>1. Grows /\ Owned' /\ \A p \in Orders : RowBacked(p)'
      BY <1>2, RowsKept DEF CreateRead, gateway
    <2>2. req'[t].op = "create"
      BY <1>2 DEF CreateRead, Goto, Idle, TypeOK
    <2>3. Backed(t)'
      BY <2>2 DEF Backed
    <2> QED
      BY <1>2, <2>1, <2>3, BackedAll DEF CreateRead, Books
  <1>3. ASSUME NEW o \in Placed, NEW a \in Payments, VerifyRead(t, o, a)
        PROVE  Books'
    <2>1. /\ Grows /\ Owned' /\ \A p \in Orders : RowBacked(p)'
          /\ Signed' = Signed /\ \A p \in Orders : Backing(p)' = Backing(p)
      BY <1>3, RowsKept DEF VerifyRead, gateway
    <2>2. /\ req'[t].op = "verify" /\ req'[t].order = o /\ req'[t].attempt = a
          /\ req'[t].mark = payment[o] /\ req'[t].named = rz[o]
      BY <1>3 DEF VerifyRead, Goto, Idle, TypeOK
    <2>3. payment' = payment /\ Placed' = Placed
      BY <1>3 DEF VerifyRead, Placed, orderRow
    <2>4. rz[o] # NoAttempt => a \in Backing(o)
      <3>1. CASE o \in unnamed
        BY <1>3, <3>1 DEF VerifyRead, Backing
      <3>2. ASSUME o \notin unnamed, rz[o] # NoAttempt
            PROVE  a \in captured[o]
        <4>1. a \in opened[o] /\ a \in Attempts /\ o \in Orders
          BY <1>3, <3>2 DEF VerifyRead, Books, RowBacked, TypeOK
        <4>2. PICK p \in Orders : a \in captured[p]
          BY <1>3, <4>1, CheckoutAssumption DEF VerifyRead, Signed
        <4>3. p = o
          BY <4>1, <4>2 DEF Books, Owned
        <4> QED
          BY <4>2, <4>3
      <3> QED
        BY <3>1, <3>2, BackingIs
    <2>5. a \in Signed /\ rz[o] \in {NoAttempt, a}
      BY <1>3 DEF VerifyRead
    <2>6. Backed(t)'
      BY <2>1, <2>2, <2>3, <2>4, <2>5 DEF Backed
    <2> QED
      BY <1>3, <2>1, <2>6, BackedAll DEF VerifyRead, Books
  <1>4. ASSUME NEW o \in Placed, NEW a \in Attempts, HookRead(t, o, a)
        PROVE  Books'
    <2>1. Grows /\ Owned' /\ \A p \in Orders : RowBacked(p)'
      BY <1>4, RowsKept DEF HookRead
    <2>2. CASE IsPaid(o)
      <3>1. \A u \in Threads : req'[u] = req[u]
        BY <1>4, <2>2 DEF HookRead
      <3> QED
        BY <2>1, <3>1, BackedStays DEF Books
    <2>3. CASE ~ IsPaid(o)
      <3>1. /\ req'[t].op = "hook" /\ req'[t].order = o /\ req'[t].attempt = a
            /\ req'[t].mark = payment[o]
        BY <1>4, <2>3 DEF HookRead, Goto, Idle, TypeOK
      <3>2. Backed(t)'
        BY <1>4, <3>1 DEF HookRead, Backed, Placed, orderRow
      <3> QED
        BY <1>4, <2>1, <2>3, <3>2, BackedAll DEF HookRead, Books
    <2> QED
      BY <2>2, <2>3
  <1>5. ASSUME NEW o \in Placed, NEW want \in {"accepted", "cancelled"},
               HotelRead(t, o, want)
        PROVE  Books'
    <2>1. Grows /\ Owned' /\ \A p \in Orders : RowBacked(p)'
      BY <1>5, RowsKept DEF HotelRead, gateway
    <2>2. req'[t].op = "hotel" /\ req'[t].order = o /\ req'[t].want = want
      BY <1>5 DEF HotelRead, Goto, Idle, TypeOK
    <2>3. want = "accepted" => payment[o] # NoAttempt
      BY <1>5 DEF HotelRead, IsUnpaid, Books, RowBacked
    <2>4. Backed(t)'
      BY <1>5, <2>2, <2>3 DEF HotelRead, Backed, orderRow
    <2> QED
      BY <1>5, <2>1, <2>4, BackedAll DEF HotelRead, Books
  <1>6. ASSUME NEW o \in Placed, CancelRead(t, o)
        PROVE  Books'
    <2>1. Grows /\ Owned' /\ \A p \in Orders : RowBacked(p)'
      BY <1>6, RowsKept DEF CancelRead, gateway
    <2>2. req'[t].op = "cancel"
      BY <1>6 DEF CancelRead, Goto, Idle, TypeOK
    <2>3. Backed(t)'
      BY <2>2 DEF Backed
    <2> QED
      BY <1>6, <2>1, <2>3, BackedAll DEF CancelRead, Books
  <1> QED
    BY <1>1, <1>2, <1>3, <1>4, <1>5, <1>6 DEF Arrive

(* A commit writes what its request has behind it. *)
LEMMA BooksProceed ==
  ASSUME TInv, Books, NEW t \in Threads, Proceed(t)
  PROVE  Books'
  <1> USE PlacedOrders DEF TInv
  <1>r. req[t] \in Request /\ WellFormed(req[t]) /\ Backed(t)
    BY DEF TypeOK, Shape, Books
  <1>1. CASE SweepRead(t)
    <2>1. Grows /\ Owned' /\ \A p \in Orders : RowBacked(p)'
      BY <1>1, RowsKept DEF SweepRead, gateway
    <2>2. CASE Drafts(req[t].order) = {}
      BY <1>1, <2>1, <2>2, BackedDone DEF SweepRead, Books
    <2>3. CASE Drafts(req[t].order) # {}
      <3>1. req'[t].op = "fail" /\ req'[t].stale = Drafts(req[t].order)
        BY <1>1, <2>3 DEF SweepRead, Goto, Idle, TypeOK
      <3>2. Backed(t)'
        BY <1>1, <3>1 DEF SweepRead, Backed, Drafts, Placed, orderRow
      <3> QED
        BY <1>1, <2>1, <2>3, <3>2, BackedAll DEF SweepRead, Books
    <2> QED
      BY <2>2, <2>3
  <1>2. CASE SweepCommit(t)
    <2>1. req[t].stale \subseteq Placed
      BY <1>2, <1>r DEF SweepCommit, At, Backed
    <2>2. Grows
      BY <1>2 DEF SweepCommit, Grows, Placed, gateway, history
    <2>3. \A p \in Orders : Backing(p) \subseteq Backing(p)'
      BY <2>2, BackingGrows
    <2>4. \A p \in Orders : RowBacked(p)'
      BY <1>2, <2>1, <2>3 DEF SweepCommit, Books, RowBacked, Placed, gateway, history
    <2>5. Owned'
      BY <1>2 DEF SweepCommit, Books, Owned, gateway
    <2> QED
      BY <1>2, <2>2, <2>4, <2>5, BackedDone DEF SweepCommit, Books
  <1>3. ASSUME NEW a \in Attempts, CreateCommit(t, a)
        PROVE  Books'
    <2> DEFINE o == req[t].order
    <2>1. o \in Orders
      BY <1>3, <1>r DEF CreateCommit, At, WellFormed
    <2>2. Grows
      BY <1>3 DEF CreateCommit, Grows, Placed, history
    <2>3. \A p \in Orders : Backing(p) \subseteq Backing(p)'
      BY <2>2, BackingGrows
    <2>4. \A p \in Orders : RowBacked(p)'
      BY <1>3, <2>1, <2>3 DEF CreateCommit, Books, RowBacked, Placed, TypeOK, history
    <2>5. Owned'
      <3>1. \A p \in Orders : a \notin opened[p]
        BY <1>3 DEF CreateCommit, Fresh
      <3>2. opened' = [opened EXCEPT ![o] = @ \cup {a}] /\ captured' = captured
        BY <1>3 DEF CreateCommit
      <3> QED
        BY <2>1, <3>1, <3>2 DEF Books, Owned, TypeOK
    <2> QED
      BY <1>3, <2>2, <2>4, <2>5, BackedDone DEF CreateCommit, Books
  <1>4. CASE VerifyCommit(t)
    <2>o. PICK o \in Orders, a \in Payments : o = req[t].order /\ a = req[t].attempt
      BY <1>4, <1>r DEF VerifyCommit, At, WellFormed
    <2> USE <2>o
    <2>1. /\ o \in Placed /\ a \in Signed /\ a # NoAttempt
          /\ req[t].mark # NoAttempt => payment[o] # NoAttempt
          /\ req[t].named \in {NoAttempt, a}
          /\ req[t].named # NoAttempt => a \in Backing(o)
      BY <1>4, <1>r, CheckoutAssumption
      DEF VerifyCommit, At, Backed, WellFormed, Payments
    <2>2. /\ payment'[o] \in {a, payment[o]} /\ payment'[o] # NoAttempt
          /\ \A p \in Orders \ {o} : payment'[p] = payment[p]
      BY <1>4, <2>1 DEF VerifyCommit, FlushOf, TypeOK
    <2>3. /\ Grows
          /\ req[t].named = NoAttempt => o \in unnamed'
      BY <1>4, <2>2 DEF VerifyCommit, Grows, Placed, gateway
    <2>4. Signed \subseteq Signed' /\ \A p \in Orders : Backing(p) \subseteq Backing(p)'
      BY <2>3, BackingGrows
    <2>5. a \in Backing(o)'
      BY <2>1, <2>3, <2>4 DEF Backing
    <2>6. pay'[o] \in {"paid", pay[o]} /\ \A p \in Orders \ {o} : pay'[p] = pay[p]
      BY <1>4, <2>1 DEF VerifyCommit, FlushOf, TypeOK
    <2>7. \A p \in Orders : rz'[p] = rz[p] \/ p \in unnamed'
      BY <1>4, <2>1 DEF VerifyCommit, FlushOf, TypeOK
    <2>8. \A p \in Orders : RowBacked(p)'
      <3> SUFFICES ASSUME NEW p \in Orders PROVE RowBacked(p)'
        OBVIOUS
      <3>1. payment'[p] # NoAttempt => payment'[p] \in Backing(p)'
        BY <2>2, <2>4, <2>5 DEF Books, RowBacked
      <3>2. rz'[p] # NoAttempt /\ p \notin unnamed' => rz'[p] \in opened'[p]
        BY <1>4, <2>3, <2>7 DEF VerifyCommit, Books, RowBacked, gateway, Grows
      <3>3. status' = status /\ Placed' = Placed
        BY <1>4 DEF VerifyCommit, Placed
      <3> QED
        BY <2>1, <2>2, <2>6, <3>1, <3>2, <3>3 DEF Books, RowBacked
    <2>9. Owned'
      BY <1>4 DEF VerifyCommit, Books, Owned, gateway
    <2>10. CASE req[t].seen = "paid"
      BY <1>4, <2>3, <2>8, <2>9, <2>10, BackedDone DEF VerifyCommit, Books
    <2>11. CASE req[t].seen # "paid"
      <3>1. req'[t].op = "notify"
        BY <1>4, <2>11 DEF VerifyCommit, Goto, Idle, TypeOK
      <3>2. Backed(t)'
        BY <3>1 DEF Backed
      <3> QED
        BY <1>4, <2>3, <2>8, <2>9, <2>11, <3>2, BackedAll DEF VerifyCommit, Books
    <2> QED
      BY <2>10, <2>11
  <1>5. CASE HookCommit(t)
    <2> DEFINE o == req[t].order
               a == req[t].attempt
    <2>1. /\ o \in Placed /\ o \in Orders
          /\ a \in captured[o] /\ a # NoAttempt
          /\ req[t].mark # NoAttempt => payment[o] # NoAttempt
      BY <1>5, <1>r, CheckoutAssumption DEF HookCommit, At, Backed, WellFormed, Payments
    <2>2. /\ payment'[o] \in {a, payment[o]} /\ payment'[o] # NoAttempt
          /\ \A p \in Orders \ {o} : payment'[p] = payment[p]
      BY <1>5, <2>1 DEF HookCommit, FlushOf, TypeOK
    <2>3. Grows
      BY <1>5, <2>2 DEF HookCommit, Grows, Placed, gateway
    <2>4. \A p \in Orders : Backing(p) \subseteq Backing(p)'
      BY <2>3, BackingGrows
    <2>5. \A p \in Orders : RowBacked(p)'
      <3> SUFFICES ASSUME NEW p \in Orders PROVE RowBacked(p)'
        OBVIOUS
      <3>1. payment'[p] # NoAttempt => payment'[p] \in Backing(p)'
        BY <2>1, <2>2, <2>4, BackingIs DEF Books, RowBacked
      <3>2. status' = status /\ Placed' = Placed /\ rz' = rz /\ opened' = opened
            /\ unnamed' = unnamed /\ pay' = [pay EXCEPT ![o] = "paid"]
        BY <1>5 DEF HookCommit, Placed, gateway
      <3> QED
        BY <2>1, <2>2, <3>1, <3>2 DEF Books, RowBacked, TypeOK
    <2>6. Owned'
      BY <1>5 DEF HookCommit, Books, Owned, gateway
    <2>7. req'[t].op = "notify"
      BY <1>5 DEF HookCommit, Goto, Idle, TypeOK
    <2>8. Backed(t)'
      BY <2>7 DEF Backed
    <2> QED
      BY <1>5, <2>3, <2>5, <2>6, <2>8, BackedAll DEF HookCommit, Books
  <1>6. CASE Notify(t)
    <2>1. Grows /\ Owned' /\ \A p \in Orders : RowBacked(p)'
      BY <1>6, RowsKept DEF Notify
    <2> QED
      BY <1>6, <2>1, BackedDone DEF Notify, Books
  <1>7. CASE StaffCommit(t)
    <2> DEFINE o == req[t].order
    <2>1. req[t].want \in {"accepted", "cancelled"}
      BY <1>7, <1>r DEF StaffCommit, At, WellFormed
    <2>2. req[t].want = "accepted" => payment[o] # NoAttempt
      BY <1>7, <1>r DEF StaffCommit, At, WellFormed, Backed
    <2>3. Grows
      BY <1>7 DEF StaffCommit, Grows, Placed, gateway, history
    <2>4. \A p \in Orders : Backing(p) \subseteq Backing(p)'
      BY <2>3, BackingGrows
    <2>5. \A p \in Orders : RowBacked(p)'
      BY <1>7, <2>1, <2>2, <2>4
      DEF StaffCommit, FlushOf, Books, RowBacked, Placed, TypeOK, gateway, history
    <2>6. Owned'
      BY <1>7 DEF StaffCommit, Books, Owned, gateway
    <2> QED
      BY <1>7, <2>3, <2>5, <2>6, BackedDone DEF StaffCommit, Books
  <1> QED
    BY <1>1, <1>2, <1>3, <1>4, <1>5, <1>6, <1>7 DEF Proceed

(* Every step keeps rows and requests backed.                                 *)
LEMMA BooksStep == TInv /\ Books /\ [Next]_vars => Books'
  <1> SUFFICES ASSUME TInv, Books, [Next]_vars PROVE Books'
    OBVIOUS
  <1>1. ASSUME NEW t \in Threads, Arrive(t) PROVE Books'
    BY <1>1, BooksArrive
  <1>2. ASSUME NEW t \in Threads, Proceed(t) PROVE Books'
    BY <1>2, BooksProceed
  <1>3. ASSUME NEW t \in Threads, Fail(t) PROVE Books'
    <2>1. Grows /\ Owned' /\ \A p \in Orders : RowBacked(p)'
      BY <1>3, RowsKept DEF Fail, gateway
    <2> QED
      BY <1>3, <2>1, BackedDone DEF Fail, Books
  <1>4. ASSUME NEW o \in Placed, NEW a \in Attempts, Capture(o, a) PROVE Books'
    <2>1. o \in Orders
      BY PlacedOrders DEF TInv
    <2>2. Grows
      BY <1>4 DEF Capture, Grows, Placed, TInv, TypeOK, orderRow, history
    <2>3. \A p \in Orders : Backing(p) \subseteq Backing(p)'
      BY <2>2, BackingGrows DEF TInv
    <2>4. \A p \in Orders : RowBacked(p)'
      BY <1>4, <2>3 DEF Capture, Books, RowBacked, Placed, orderRow, history
    <2>5. Owned'
      BY <1>4, <2>1 DEF Capture, Books, Owned, TInv, TypeOK
    <2> QED
      BY <1>4, <2>2, <2>4, <2>5, BackedStays DEF Capture, Books
  <1>5. CASE UNCHANGED vars
    <2>1. Grows /\ Owned' /\ \A p \in Orders : RowBacked(p)'
      BY <1>5, RowsKept DEF vars, gateway
    <2> QED
      BY <1>5, <2>1, BackedStays DEF vars, Books
  <1> QED
    BY <1>1, <1>2, <1>3, <1>4, <1>5 DEF Next

(* So they are backed for ever.                                               *)
LEMMA BooksAlways == Spec => [](TInv /\ Books)
  BY TypeInit, TypeStep, BooksInit, BooksStep, PTL DEF Spec

(* With any number of workers, sweeps, retries and repeated webhooks, an      *)
(* order is paid only by a captured payment: one captured for it, unless      *)
(* /verify met its row before create-order had named an attempt.              *)
THEOREM PaymentCorrect == Spec => []PaidOnlyIfCaptured
  <1>1. Books => PaidOnlyIfCaptured
    BY DEF Books, RowBacked, PaidOnlyIfCaptured
  <1> QED
    BY <1>1, BooksAlways, PTL

(* The restaurant accepts no order whose row bears no payment of that kind,   *)
(* even when a sweep fails the order between its reading and its commit.      *)
THEOREM KitchenCorrect == Spec => []KitchenCooksPaidOnly
  <1>1. Books => KitchenCooksPaidOnly
    BY DEF Books, RowBacked, KitchenCooksPaidOnly
  <1> QED
    BY <1>1, BooksAlways, PTL

(* A failed order is never pending, whatever raced with its sweep.            *)
THEOREM FailureCorrect == Spec => []FailedIsNotPending
  <1>1. Books => FailedIsNotPending
    BY DEF Books, RowBacked, FailedIsNotPending
  <1> QED
    BY <1>1, BooksAlways, PTL

-----------------------------------------------------------------------------
(* What a request may still count on when no other runs beside it. *)
Turn(t) ==
  LET q == req[t] IN
  /\ q.op = "sweep" => q.order = placed
  /\ q.op = "fail" => placed \notin q.stale /\ q.stale \cap everPaid = {}
  /\ q.op = "verify" => (q.seen = "paid" <=> q.order \in everPaid)
  /\ q.op = "hook" => q.order \notin everPaid
  /\ q.op = "notify" => q.order \in everPaid /\ alerts[q.order] = 0

(* The inductive invariant of handlers that run one at a time.                *)
Turns ==
  /\ PaidStays
  /\ LatestSurvives
  /\ \A o \in Orders : pay[o] = "paid" => o \in everPaid
  /\ \A o \in Orders : alerts[o] <= 1
  /\ \A o \in Orders : alerts[o] > 0 => o \in everPaid
  /\ \A t \in Threads : Turn(t)

(* No turn is taken at first.                                                 *)
LEMMA TurnsInit == Init => Turns
  <1> SUFFICES ASSUME Init PROVE Turns
    OBVIOUS
  <1>1. \A t \in Threads : Turn(t)
    BY DEF Init, Turn, Idle
  <1>2. PaidStays /\ LatestSurvives
    BY DEF Init, PaidStays, LatestSurvives
  <1>3. \A o \in Orders : /\ pay[o] = "paid" => o \in everPaid
                          /\ alerts[o] <= 1
                          /\ alerts[o] > 0 => o \in everPaid
    BY DEF Init
  <1> QED
    BY <1>1, <1>2, <1>3 DEF Turns

(* Every step of a lone thread keeps Turns. *)
LEMMA TurnsArrive ==
  ASSUME TInv, Books, Turns, NEW t \in Threads, \A u \in Threads : u = t, Arrive(t)
  PROVE  Turns'
  <1> USE PlacedOrders DEF TInv, history
  <1>1. CASE Place(t)
    <2> DEFINE o == placed + 1
    <2>1. o \in Orders /\ o \notin Placed
      BY <1>1, CheckoutAssumption DEF Place, TypeOK, Placed, Orders
    <2>2. pay[o] = "pending"
      BY <2>1 DEF Books, RowBacked
    <2>3. req'[t].op = "sweep" /\ req'[t].order = placed'
      BY <1>1 DEF Place, Goto, Idle, TypeOK
    <2>4. Turn(t)'
      BY <2>3 DEF Turn
    <2> QED
      BY <1>1, <2>2, <2>4 DEF Place, Turns, PaidStays, LatestSurvives
  <1>2. ASSUME NEW o \in Placed, CreateRead(t, o)
        PROVE  Turns'
    <2>1. req'[t].op = "create"
      BY <1>2 DEF CreateRead, Goto, Idle, TypeOK
    <2>2. Turn(t)'
      BY <2>1 DEF Turn
    <2> QED
      BY <1>2, <2>2 DEF CreateRead, Turns, PaidStays, LatestSurvives, orderRow
  <1>3. ASSUME NEW o \in Placed, NEW a \in Payments, VerifyRead(t, o, a)
        PROVE  Turns'
    <2>1. req'[t].op = "verify" /\ req'[t].order = o /\ req'[t].seen = pay[o]
      BY <1>3 DEF VerifyRead, Goto, Idle, TypeOK
    <2>2. pay[o] = "paid" <=> o \in everPaid
      BY DEF Turns, PaidStays
    <2>3. Turn(t)'
      BY <1>3, <2>1, <2>2 DEF VerifyRead, Turn, orderRow
    <2> QED
      BY <1>3, <2>3 DEF VerifyRead, Turns, PaidStays, LatestSurvives, orderRow
  <1>4. ASSUME NEW o \in Placed, NEW a \in Attempts, HookRead(t, o, a)
        PROVE  Turns'
    <2>1. CASE IsPaid(o)
      BY <1>4, <2>1 DEF HookRead, Turns, Turn, PaidStays, LatestSurvives, orderRow
    <2>2. CASE ~ IsPaid(o)
      <3>1. req'[t] = [Idle EXCEPT !.op = "hook", !.order = o, !.attempt = a,
                                   !.mark = payment[o]]
        BY <1>4, <2>2 DEF HookRead, Goto, TypeOK
      <3>q. req'[t].op = "hook" /\ req'[t].order = o
        BY <3>1 DEF Idle
      <3>2. o \notin everPaid
        BY <2>2 DEF IsPaid, Turns, PaidStays
      <3>3. Turn(t)'
        BY <1>4, <3>q, <3>2 DEF HookRead, Turn
      <3> QED
        BY <1>4, <3>3 DEF HookRead, Turns, PaidStays, LatestSurvives, orderRow
    <2> QED
      BY <2>1, <2>2
  <1>5. ASSUME NEW o \in Placed, NEW want \in {"accepted", "cancelled"},
               HotelRead(t, o, want)
        PROVE  Turns'
    <2>1. req'[t].op = "hotel"
      BY <1>5 DEF HotelRead, Goto, Idle, TypeOK
    <2>2. Turn(t)'
      BY <2>1 DEF Turn
    <2> QED
      BY <1>5, <2>2 DEF HotelRead, Turns, PaidStays, LatestSurvives, orderRow
  <1>6. ASSUME NEW o \in Placed, CancelRead(t, o)
        PROVE  Turns'
    <2>1. req'[t].op = "cancel"
      BY <1>6 DEF CancelRead, Goto, Idle, TypeOK
    <2>2. Turn(t)'
      BY <2>1 DEF Turn
    <2> QED
      BY <1>6, <2>2 DEF CancelRead, Turns, PaidStays, LatestSurvives, orderRow
  <1> QED
    BY <1>1, <1>2, <1>3, <1>4, <1>5, <1>6 DEF Arrive

(* An idle thread relies on no reading.                                       *)
LEMMA TurnDone ==
  ASSUME TInv, NEW t \in Threads, Finish(t)
  PROVE  Turn(t)'
  <1>1. req'[t].op = "idle"
    BY DEF Finish, Goto, Idle, TInv, TypeOK
  <1> QED
    BY <1>1 DEF Turn

(* The next step of the only request in flight.                               *)
LEMMA TurnsProceed ==
  ASSUME TInv, Books, Turns, NEW t \in Threads, \A u \in Threads : u = t, Proceed(t)
  PROVE  Turns'
  <1> USE PlacedOrders DEF TInv, history
  <1>r. req[t] \in Request /\ WellFormed(req[t]) /\ Turn(t)
    BY DEF TypeOK, Shape, Turns
  <1>1. CASE SweepRead(t)
    <2>1. CASE Drafts(req[t].order) = {}
      BY <1>1, <2>1, TurnDone
      DEF SweepRead, Turns, PaidStays, LatestSurvives, orderRow
    <2>2. CASE Drafts(req[t].order) # {}
      <3>1. req'[t].op = "fail" /\ req'[t].stale = Drafts(req[t].order)
        BY <1>1, <2>2 DEF SweepRead, Goto, Idle, TypeOK
      <3>2. req[t].order = placed
        BY <1>1, <1>r DEF SweepRead, At, Turn
      <3>3. placed \notin Drafts(req[t].order) /\ Drafts(req[t].order) \cap everPaid = {}
        BY <3>2 DEF Drafts, IsUnpaid, Turns, PaidStays
      <3>4. Turn(t)'
        BY <1>1, <3>1, <3>3 DEF SweepRead, Turn, orderRow
      <3> QED
        BY <1>1, <3>4 DEF SweepRead, Turns, PaidStays, LatestSurvives, orderRow
    <2> QED
      BY <2>1, <2>2
  <1>2. CASE SweepCommit(t)
    <2>1. placed \notin req[t].stale /\ req[t].stale \cap everPaid = {}
      BY <1>2, <1>r DEF SweepCommit, At, Turn
    <2>2. placed > 0 => placed \in Orders
      BY CheckoutAssumption DEF TypeOK, Orders
    <2>3. PaidStays' /\ LatestSurvives'
      BY <1>2, <2>1, <2>2 DEF SweepCommit, Turns, PaidStays, LatestSurvives, TypeOK
    <2>4. \A o \in Orders : pay'[o] = "paid" => o \in everPaid'
      BY <1>2 DEF SweepCommit, Turns
    <2> QED
      BY <1>2, <2>3, <2>4, TurnDone DEF SweepCommit, Turns
  <1>3. ASSUME NEW a \in Attempts, CreateCommit(t, a)
        PROVE  Turns'
    BY <1>3, TurnDone DEF CreateCommit, Turns, PaidStays, LatestSurvives
  <1>4. CASE VerifyCommit(t)
    <2> DEFINE o == req[t].order
    <2>1. o \in Orders /\ (req[t].seen = "paid" <=> o \in everPaid)
      BY <1>4, <1>r DEF VerifyCommit, At, WellFormed, Turn
    <2>2. pay' = [pay EXCEPT ![o] = "paid"]
      BY <1>4, <2>1 DEF VerifyCommit, FlushOf, Turns, PaidStays, TypeOK
    <2>3. /\ PaidStays' /\ LatestSurvives'
          /\ \A p \in Orders : pay'[p] = "paid" => p \in everPaid'
          /\ \A p \in Orders : alerts'[p] <= 1
          /\ \A p \in Orders : alerts'[p] > 0 => p \in everPaid'
      BY <1>4, <2>1, <2>2 DEF VerifyCommit, Turns, PaidStays, LatestSurvives, TypeOK
    <2>4. Turn(t)'
      <3>1. CASE req[t].seen = "paid"
        BY <1>4, <3>1, TurnDone DEF VerifyCommit
      <3>2. CASE req[t].seen # "paid"
        <4>1. req'[t].op = "notify" /\ req'[t].order = o
          BY <1>4, <3>2 DEF VerifyCommit, Goto, Idle, TypeOK
        <4>2. alerts[o] = 0
          BY <2>1, <3>2 DEF Turns, TypeOK
        <4> QED
          BY <1>4, <4>1, <4>2 DEF VerifyCommit, Turn
      <3> QED
        BY <3>1, <3>2
    <2> QED
      BY <2>3, <2>4 DEF Turns
  <1>5. CASE HookCommit(t)
    <2> DEFINE o == req[t].order
    <2>1. o \in Orders /\ o \notin everPaid
      BY <1>5, <1>r DEF HookCommit, At, WellFormed, Turn
    <2>2. /\ PaidStays' /\ LatestSurvives'
          /\ \A p \in Orders : pay'[p] = "paid" => p \in everPaid'
          /\ \A p \in Orders : alerts'[p] <= 1
          /\ \A p \in Orders : alerts'[p] > 0 => p \in everPaid'
      BY <1>5, <2>1 DEF HookCommit, Turns, PaidStays, LatestSurvives, TypeOK
    <2>3. req'[t].op = "notify" /\ req'[t].order = o
      BY <1>5 DEF HookCommit, Goto, Idle, TypeOK
    <2>4. alerts[o] = 0
      BY <2>1 DEF Turns, TypeOK
    <2>5. Turn(t)'
      BY <1>5, <2>3, <2>4 DEF HookCommit, Turn
    <2> QED
      BY <2>2, <2>5 DEF Turns
  <1>6. CASE Notify(t)
    <2> DEFINE o == req[t].order
    <2>1. o \in Orders /\ o \in everPaid /\ alerts[o] = 0
      BY <1>6, <1>r DEF Notify, At, WellFormed, Turn
    <2>2. /\ \A p \in Orders : alerts'[p] <= 1
          /\ \A p \in Orders : alerts'[p] > 0 => p \in everPaid'
      BY <1>6, <2>1 DEF Notify, Turns, TypeOK
    <2> QED
      BY <1>6, <2>2, TurnDone DEF Notify, Turns, PaidStays, LatestSurvives, orderRow
  <1>7. CASE StaffCommit(t)
    BY <1>7, TurnDone DEF StaffCommit, Turns, PaidStays, LatestSurvives
  <1> QED
    BY <1>1, <1>2, <1>3, <1>4, <1>5, <1>6, <1>7 DEF Proceed

(* Every step of a serial execution.                                          *)
LEMMA TurnsStep ==
  ASSUME \A t, u \in Threads : t = u
  PROVE  TInv /\ Books /\ Turns /\ [Next]_vars => Turns'
  <1> SUFFICES ASSUME TInv, Books, Turns, [Next]_vars PROVE Turns'
    OBVIOUS
  <1> USE DEF history
  <1>1. ASSUME NEW t \in Threads, Arrive(t) PROVE Turns'
    BY <1>1, TurnsArrive
  <1>2. ASSUME NEW t \in Threads, Proceed(t) PROVE Turns'
    BY <1>2, TurnsProceed
  <1>3. ASSUME NEW t \in Threads, Fail(t) PROVE Turns'
    BY <1>3, TurnDone DEF Fail, Turns, PaidStays, LatestSurvives, orderRow
  <1>4. ASSUME NEW o \in Placed, NEW a \in Attempts, Capture(o, a) PROVE Turns'
    BY <1>4 DEF Capture, Turns, Turn, PaidStays, LatestSurvives, orderRow
  <1>5. CASE UNCHANGED vars
    BY <1>5 DEF vars, orderRow, Turns, Turn, PaidStays, LatestSurvives
  <1> QED
    BY <1>1, <1>2, <1>3, <1>4, <1>5 DEF Next

(* With one handler at a time, what a request read still holds when it        *)
(* commits.                                                                   *)
LEMMA TurnsAlways ==
  ASSUME \A t, u \in Threads : t = u
  PROVE  Spec => []Turns
  <1>1. TInv /\ Books /\ Turns /\ [Next]_vars => Turns'
    BY TurnsStep
  <1> QED
    BY <1>1, BooksAlways, TurnsInit, PTL DEF Spec

(* When the handlers run one at a time, a paid capture is never rewritten.    *)
THEOREM SerialPayment ==
  ASSUME \A t, u \in Threads : t = u
  PROVE  Spec => []PaidStays
  <1>1. Spec => []Turns
    BY TurnsAlways
  <1>2. Turns => PaidStays
    BY DEF Turns
  <1> QED
    BY <1>1, <1>2, PTL

(* Handlers that run one at a time never let the placing of an order fail     *)
(* that order, however many drafts it sweeps.                                 *)
THEOREM SerialPlacing ==
  ASSUME \A t, u \in Threads : t = u
  PROVE  Spec => []LatestSurvives
  <1>1. Spec => []Turns
    BY TurnsAlways
  <1>2. Turns => LatestSurvives
    BY DEF Turns
  <1> QED
    BY <1>1, <1>2, PTL

(* Handlers that run one at a time alert the restaurant of an order once,     *)
(* however the app, the webhook and the sweeps alternate.                     *)
THEOREM SerialAlert ==
  ASSUME \A t, u \in Threads : t = u
  PROVE  Spec => []AlertedOnce
  <1>1. Spec => []Turns
    BY TurnsAlways
  <1>2. Turns => AlertedOnce
    BY DEF Turns, AlertedOnce
  <1> QED
    BY <1>1, <1>2, PTL
=============================================================================
