------------------------------ MODULE Dispatch ------------------------------
(***************************************************************************)
(* delivery/dispatch.py: offering an accepted order to every rider of the  *)
(* tenant, and the riders' answers.                                        *)
(*                                                                         *)
(* start_dispatch (one order, every rider) and                             *)
(* ensure_open_offers_for_partner (one rider, every open order; the rider  *)
(* app's dashboard polls it) both select open orders, look up the offer    *)
(* row of each (order, rider) pair, and commit the missing rows.  The      *)
(* (order, rider) pair is unique in the database: an insert of a row that  *)
(* another session has inserted meanwhile fails the whole transaction.     *)
(***************************************************************************)
EXTENDS OrderStore

rowsOnly == <<orderRow, wallet, earnings, jobs, prepaid, history>>

(* start_dispatch: read the order; go on only while it is open. *)
BroadcastRead(t) ==
  LET o == req[t].order IN
  /\ At(t, "dispatch")
  /\ IF IsOpen(o) THEN Goto(t, [Idle EXCEPT !.op = "offers", !.pairs = {o} \X Riders])
                  ELSE Finish(t)
  /\ UNCHANGED <<rowsOnly, offer>>

(* Mutant of PollRead: only orders that are ready are offered late. *)
PollReadyOnly(t, r) ==
  LET open == {o \in Orders : IsOpen(o) /\ status[o] = "ready"} IN
  /\ IsIdle(t)
  /\ open # {}
  /\ Goto(t, [Idle EXCEPT !.op = "offers", !.rider = r, !.pairs = open \X {r}])
  /\ UNCHANGED <<rowsOnly, offer>>

(* ensure_open_offers_for_partner: read every open order. *)
PollRead(t, r) ==
  LET open == {o \in Orders : IsOpen(o)} IN
  /\ IsIdle(t)
  /\ open # {}
  /\ Goto(t, [Idle EXCEPT !.op = "offers", !.rider = r, !.pairs = open \X {r}])
  /\ UNCHANGED <<rowsOnly, offer>>

(* _upsert_offer on each pair: a missing row is added, a superseded one is    *)
(* offered again, any other is left as it is.                                 *)
OffersRead(t) ==
  LET q == req[t]
      now(p) == offer[p[1]][p[2]]
  IN
  /\ At(t, "offers")
  /\ Goto(t, [q EXCEPT !.op = "upsert",
                       !.fresh = {p \in q.pairs : now(p) = "none"},
                       !.pairs = {p \in q.pairs : now(p) = "superseded"}])
  /\ UNCHANGED <<rowsOnly, offer>>

(* The commit of both: all the rows, or none when one insert is a duplicate.  *)
OffersCommit(t) ==
  LET q == req[t]
      duplicate == \E p \in q.fresh : offer[p[1]][p[2]] # "none"
  IN
  /\ At(t, "upsert")
  /\ offer' = IF duplicate THEN offer
              ELSE [o \in Orders |-> [r \in Riders |->
                      IF <<o, r>> \in q.fresh \cup q.pairs THEN "offered" ELSE offer[o][r]]]
  /\ Finish(t)
  /\ UNCHANGED rowsOnly

-----------------------------------------------------------------------------

(* Mutant of IsBusy: an order the rider has yet to collect does not count. *)
IsOnTheRoad(r) == \E o \in Orders : rider[o] = r /\ status[o] = "picked_up"

IsBusy(r) == \E o \in Orders : rider[o] = r /\ status[o] \in ActiveStatus

(* accept_offer up to its first write: the order is open, the rider is free (or *)
(* may carry several) and holds an offer.                                     *)
AcceptRead(t, r, o) ==
  /\ IsIdle(t)
  /\ IsOpen(o)
  /\ IsBusy(r) => r \in MultiRiders
  /\ offer[o][r] = "offered"
  /\ Goto(t, [Idle EXCEPT !.op = "accept", !.order = o, !.rider = r])
  /\ UNCHANGED <<rowsOnly, offer>>

(* What becomes of another rider's offer. *)
LeftOpen(s) == s    \* mutant: the others are not superseded
Superseded(s) == IF s = "offered" THEN "superseded" ELSE s

(* The rest of accept_offer: the rider's row is accepted whatever it holds now, *)
(* the other open offers are superseded, the order is given to the rider.     *)
AcceptCommit(t) ==
  LET q == req[t] IN
  /\ At(t, "accept")
  /\ offer' = [offer EXCEPT ![q.order] =
                 [r \in Riders |-> IF r = q.rider THEN "accepted" ELSE Superseded(@[r])]]
  /\ rider' = [rider EXCEPT ![q.order] = q.rider]
  /\ Finish(t)
  /\ UNCHANGED <<status, paid, cash, otp, wallet, earnings, jobs, prepaid, history>>

RejectRead(t, r, o) ==
  /\ IsIdle(t)
  /\ offer[o][r] = "offered"
  /\ Goto(t, [Idle EXCEPT !.op = "reject", !.order = o, !.rider = r])
  /\ UNCHANGED <<rowsOnly, offer>>

RejectCommit(t) ==
  LET q == req[t] IN
  /\ At(t, "reject")
  /\ offer' = [offer EXCEPT ![q.order][q.rider] = "rejected"]
  /\ Finish(t)
  /\ UNCHANGED rowsOnly
=============================================================================
