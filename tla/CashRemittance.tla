---------------------------- MODULE CashRemittance --------------------------
(***************************************************************************)
(* The cash one rider holds and how it is remitted                         *)
(* (payments/cash_remittance.py, admin/services/settlements.py): the       *)
(* rider's remittances, paid through the gateway, and the admin's manual   *)
(* clearing.  Two workers; every transaction of a handler is a step, and   *)
(* a worker may be lost between two of them.                               *)
(***************************************************************************)
EXTENDS Integers, Sequences, FiniteSets

CONSTANTS
  CashOrders,   \* orders of the rider that are paid in cash
  Desks,        \* workers
  MaxRemits     \* bound on the rows of cash_remittances

VARIABLES
  collected,    \* the delivered ones
  linked,       \* orders.cash_remittance_id, 0 for NULL
  remits,       \* the rows: [status, orders, gate]; gate is what the gateway knows of it
  desk          \* what each worker is doing

cashVars == <<collected, linked, remits, desk>>

Cleared(o) == linked[o] # 0 /\ remits[linked[o]].status = "paid"

(* unremitted_cash_orders: what the rider holds; the admin's list of riders   *)
(* adds up the same orders (list_delivery_settlements).                       *)
OnHand == {o \in collected : ~ Cleared(o)}

Pending == {r \in DOMAIN remits : remits[r].status = "pending"}

CashInit ==
  /\ collected = {} /\ linked = [o \in CashOrders |-> 0]
  /\ remits = <<>> /\ desk = [d \in Desks |-> [op |-> "idle"]]

HandIn(o) ==
  /\ o \notin collected
  /\ collected' = collected \cup {o}
  /\ UNCHANGED <<linked, remits, desk>>

(* initiate_cash_remittance and clear_delivery_partner_cash begin alike: the  *)
(* pending rows are released, one transaction each, the first with the query. *)
StartCash(d, op) ==
  /\ desk[d].op = "idle" /\ Pending = {}
  /\ desk' = [desk EXCEPT ![d] = [op |-> op, stale |-> {}]]
  /\ UNCHANGED <<collected, linked, remits>>

(* release_pending_remittance_orders; a row that is paid is left alone.       *)
Released(r) ==
  IF remits[r].status = "paid" THEN UNCHANGED <<linked, remits>>
  ELSE /\ linked' = [o \in CashOrders |-> IF linked[o] = r THEN 0 ELSE linked[o]]
       /\ remits' = [remits EXCEPT ![r].status = "failed"]

StartRelease(d, op, r) ==
  /\ desk[d].op = "idle" /\ r \in Pending
  /\ Released(r)
  /\ desk' = [desk EXCEPT ![d] = [op |-> op, stale |-> Pending \ {r}]]
  /\ UNCHANGED collected

Release(d, r) ==
  /\ desk[d].op \in {"remit", "clear"} /\ r \in desk[d].stale
  /\ Released(r)
  /\ desk' = [desk EXCEPT ![d].stale = @ \ {r}]
  /\ UNCHANGED collected

(* The new remittance lists the orders; they are linked when it is paid.      *)
AddRemittance(d) ==
  /\ desk[d].op = "remit" /\ desk[d].stale = {} /\ OnHand # {}
  /\ Len(remits) < MaxRemits
  /\ remits' = Append(remits, [status |-> "pending", orders |-> OnHand, gate |-> "none"])
  /\ desk' = [desk EXCEPT ![d] = [op |-> "open", remit |-> Len(remits')]]
  /\ UNCHANGED <<collected, linked>>

OpenRemittance(d) ==
  /\ desk[d].op = "open"
  /\ remits' = [remits EXCEPT ![desk[d].remit].gate = "open"]
  /\ desk' = [desk EXCEPT ![d] = [op |-> "idle"]]
  /\ UNCHANGED <<collected, linked>>

(* clear_delivery_partner_cash *)
ClearByHand(d) ==
  /\ desk[d].op = "clear" /\ desk[d].stale = {} /\ OnHand # {}
  /\ Len(remits) < MaxRemits
  /\ remits' = Append(remits, [status |-> "paid", orders |-> OnHand, gate |-> "none"])
  /\ linked' = [o \in CashOrders |-> IF o \in OnHand THEN Len(remits') ELSE linked[o]]
  /\ desk' = [desk EXCEPT ![d] = [op |-> "idle"]]
  /\ UNCHANGED collected

(* The rider pays at the gateway, also a remittance that has been released.   *)
PayRemittance(r) ==
  /\ r \in DOMAIN remits /\ remits[r].gate = "open"
  /\ remits' = [remits EXCEPT ![r].gate = "captured"]
  /\ UNCHANGED <<collected, linked, desk>>

(* Mutants of Attach: only orders linked before, or all that are listed.      *)
AttachLinked(r) == linked
AttachAll(r) == [o \in CashOrders |-> IF o \in remits[r].orders THEN r ELSE linked[o]]

(* _attach_orders_to_paid_remittance: the orders listed, but those on another *)
(* paid remittance.                                                           *)
Attach(r) ==
  [o \in CashOrders |-> IF o \in remits[r].orders /\ ~ Cleared(o) THEN r ELSE linked[o]]

(* mark_remittance_paid_razorpay (the rider's app) or _from_webhook; what is  *)
(* paid already stays as it is.  A row whose gateway order is not known yet   *)
(* is paid by any payment with a valid signature.                             *)
RecordRemittance(r) ==
  /\ r \in DOMAIN remits /\ remits[r].gate \in {"none", "captured"} /\ remits[r].status # "paid"
  /\ linked' = Attach(r)
  /\ remits' = [remits EXCEPT ![r].status = "paid"]
  /\ UNCHANGED <<collected, desk>>

(* Nothing to clear, the gateway refuses, or the worker is lost.              *)
LeaveDesk(d) ==
  /\ desk[d].op # "idle"
  /\ desk' = [desk EXCEPT ![d] = [op |-> "idle"]]
  /\ UNCHANGED <<collected, linked, remits>>

CashNext ==
  \/ \E o \in CashOrders : HandIn(o)
  \/ \E d \in Desks :
       \/ \E op \in {"remit", "clear"} :
            StartCash(d, op) \/ \E r \in 1..MaxRemits : StartRelease(d, op, r)
       \/ (\E r \in 1..MaxRemits : Release(d, r))
       \/ AddRemittance(d) \/ OpenRemittance(d) \/ ClearByHand(d) \/ LeaveDesk(d)
  \/ \E r \in 1..MaxRemits : PayRemittance(r) \/ RecordRemittance(r)

CashSpec == CashInit /\ [][CashNext]_cashVars

-----------------------------------------------------------------------------
(* When a payment is recorded, of a new remittance or of one that had been    *)
(* released and replaced, all the cash it lists is off the rider's hands, and *)
(* cash that is off them stays with the remittance it was credited to.        *)
CashClearedOnce ==
  [][/\ \A r \in DOMAIN remits' : remits'[r].status = "paid" => remits'[r].orders \cap OnHand' = {}
     /\ \A o \in CashOrders : Cleared(o) => linked'[o] = linked[o] /\ Cleared(o)']_cashVars
=============================================================================
