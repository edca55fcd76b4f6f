----------------------------- MODULE Broadcast ------------------------------
(***************************************************************************)
(* The broadcast alone: the restaurant's handler and the riders' answers,  *)
(* with the scheduling they can count on.  Whether every rider hears of an *)
(* open order depends on these handlers only.                              *)
(***************************************************************************)
EXTENDS HotelPortal, Dispatch

Carry(t) ==
  \/ HotelCommit(t)
  \/ BroadcastRead(t)
  \/ OffersRead(t)
  \/ OffersCommit(t)
  \/ AcceptCommit(t)
  \/ RejectCommit(t)

Next ==
  \E t \in Threads :
    \/ \E o \in Orders, want \in HotelSettable : HotelRead(t, o, want)
    \/ \E r \in Riders : PollRead(t, r)
    \/ \E r \in Riders, o \in Orders : AcceptRead(t, r, o)
    \/ \E r \in Riders, o \in Orders : RejectRead(t, r, o)
    \/ Carry(t)
    \/ Fail(t)

(* A worker carries its request on or loses it.  The app of a rider who is    *)
(* online polls every five seconds, is served again and again, and does not   *)
(* lose its request every time.                                               *)
Fairness ==
  /\ \A t \in Threads : WF_vars(Carry(t))
  /\ \A r \in Riders :
       /\ SF_vars(\E t \in Threads : PollRead(t, r))
       /\ SF_vars(\E t \in Threads : req[t].rider = r /\ OffersRead(t))
       /\ SF_vars(\E t \in Threads : req[t].rider = r /\ OffersCommit(t))

FairSpec == Init /\ [][Next]_vars /\ Fairness

(* Every rider hears of an open order.  The broadcast on acceptance can fail  *)
(* as a whole (a worker lost, a poll inserting one of its rows first); the    *)
(* polls repair it: while the order stays open, each rider gets an offer row. *)
EveryRiderHears ==
  \A o \in Orders, r \in Riders :
    IsOpen(o) ~> (offer[o][r] # "none" \/ ~ IsOpen(o))
=============================================================================
