----------------------------- MODULE HotelPortal ----------------------------
(***************************************************************************)
(* The restaurant's handler for its own single-store orders:               *)
(* PATCH /orders/{id}/status.  Accepting a pending order goes on, after    *)
(* the commit, to broadcast it to the riders (Dispatch).                   *)
(***************************************************************************)
EXTENDS OrderStore

(* Which requested statuses the handler lets through, from the status it read. *)
HotelMaySet(was, want) ==
  /\ want \in HotelSettable
  /\ want = "accepted" => was = "pending"
  /\ want = "ready"    => was \in {"accepted", "ready"}

HotelRead(t, o, want) ==
  /\ IsIdle(t)
  /\ HotelMaySet(status[o], want)
  /\ Goto(t, [Idle EXCEPT !.op = "hotel", !.order = o, !.want = want, !.was = status[o]])
  /\ UNCHANGED <<orderRow, offer, wallet, earnings, jobs, prepaid, history>>

HotelCommit(t) ==
  LET q == req[t] IN
  /\ At(t, "hotel")
  /\ WriteStatus(q.order, q.was, q.want)
  /\ IF q.want = "accepted" THEN Goto(t, [Idle EXCEPT !.op = "dispatch", !.order = q.order])
                            ELSE Finish(t)
  /\ UNCHANGED <<rider, paid, cash, otp, offer, wallet, earnings, jobs, prepaid,
                 credited, voided>>
=============================================================================
