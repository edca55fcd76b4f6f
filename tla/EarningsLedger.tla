--------------------------- MODULE EarningsLedger ---------------------------
(***************************************************************************)
(* What a ledger of earnings promises, whoever writes it and in whatever   *)
(* order: an order has at most one row, for one payee, and only once it is *)
(* paid; a row that waits may be paid out or taken back; one that was paid *)
(* out, or whose transfer failed, stays as it is.                          *)
(***************************************************************************)
CONSTANTS
  Orders,    \* the orders
  Payees,    \* who may earn
  NoPayee    \* nobody: the order has no row

VARIABLES
  row,       \* transfer_status by order, "none": no row
  payee,     \* whose row it is
  paid       \* the customer has paid

ledger == <<row, payee, paid>>

Init ==
  /\ row   = [o \in Orders |-> "none"]
  /\ payee = [o \in Orders |-> NoPayee]
  /\ paid \in [Orders -> BOOLEAN]

Pay(o) ==
  /\ paid' = [paid EXCEPT ![o] = TRUE]
  /\ UNCHANGED <<row, payee>>

Credit(o, p, s) ==
  /\ paid[o]
  /\ row[o] = "none"
  /\ row'   = [row EXCEPT ![o] = s]
  /\ payee' = [payee EXCEPT ![o] = p]
  /\ UNCHANGED paid

PayOut(S) ==
  /\ \A o \in S : row[o] = "unsettled"
  /\ row' = [o \in Orders |-> IF o \in S THEN "settled" ELSE row[o]]
  /\ UNCHANGED <<payee, paid>>

TakeBack(o) ==
  /\ row[o] = "unsettled"
  /\ row'   = [row EXCEPT ![o] = "none"]
  /\ payee' = [payee EXCEPT ![o] = NoPayee]
  /\ UNCHANGED paid

Next ==
  \/ \E o \in Orders : Pay(o) \/ TakeBack(o)
  \/ \E o \in Orders, p \in Payees, s \in {"unsettled", "settled", "failed"} : Credit(o, p, s)
  \/ \E S \in SUBSET Orders : PayOut(S)

Spec == Init /\ [][Next]_ledger
=============================================================================
