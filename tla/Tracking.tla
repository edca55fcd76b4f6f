------------------------------ MODULE Tracking ------------------------------
(***************************************************************************)
(* What the customer's map shows of one order: the snapshot a poll or a new *)
(* socket reads, and the updates that handlers push to the sockets of the   *)
(* order's room. A snapshot is read at one time and shown at a later one.   *)
(* Handlers are synchronous and run on worker threads; the rooms live in    *)
(* the memory of the server process and belong to its event loop.           *)
(***************************************************************************)
EXTENDS Integers, Sequences

CONSTANTS
  Spots,          \* where a rider can be
  NoSpot,         \* no position is known, or none is shown
  Nothing,        \* nothing was read or shown, no event loop
  Sockets,        \* the connections the customer's app can have in turn
  MaxPings        \* bound on the positions the rider sends

Stages == <<"accepted", "ready", "picked_up", "out_for_delivery", "delivered">>
Cancelled == 0
LIVE_STATUSES == {"picked_up", "out_for_delivery"}

VARIABLES
  page,           \* is the order's page open in the customer's app?
  stage,          \* where in Stages the order's status is, or Cancelled
  spot,           \* the rider's delivery profile: the last position sent
  due,            \* how many committed changes are still to be broadcast
  flight,         \* updates on their way: [view, to]
  socket,         \* each socket: "none", "read", "joined", "open", "dropped", "closed"
  first,          \* the snapshot each socket was opened with
  poll,           \* the answer to the app's poll that is on its way
  shown,          \* what the map shows
  pings           \* how many positions the rider has sent

trackVars == <<page, stage, spot, due, flight, socket, first, poll, shown, pings>>

StatusNow == IF stage = Cancelled THEN "cancelled" ELSE Stages[stage]
Room == {s \in Sockets : socket[s] \in {"joined", "open"}}

(* Mutant of ViewOf: only picked_up counts as live.                           *)
ViewPickedUp(status, pin) ==
  [status |-> status, pin |-> IF status = "picked_up" THEN pin ELSE NoSpot]

(* get_track_snapshot: the rider's position only between pick-up and delivery. *)
ViewOf(status, pin) ==
  [status |-> status, pin |-> IF status \in LIVE_STATUSES THEN pin ELSE NoSpot]
ViewNow == ViewOf(StatusNow, spot)

TrackInit ==
  /\ page = FALSE /\ stage = 1 /\ spot \in Spots \cup {NoSpot}
  /\ due = 0 /\ flight = {}
  /\ socket = [s \in Sockets |-> "none"] /\ first = [s \in Sockets |-> Nothing]
  /\ poll = Nothing /\ shown = Nothing /\ pings = 0

-----------------------------------------------------------------------------
(* The handlers of the store and the rider.                                   *)

(* update_order_status: the store has it ready, and then owes a broadcast.    *)
StoreReady ==
  /\ stage = 1
  /\ stage' = 2 /\ due' = due + 1
  /\ UNCHANGED <<page, spot, flight, socket, first, poll, shown, pings>>

(* The rider's pick-up and delivery: no broadcast.                            *)
RiderMoves ==
  /\ stage \in 1..4
  /\ stage' = IF stage < 3 THEN 3 ELSE stage + 1
  /\ UNCHANGED <<page, spot, due, flight, socket, first, poll, shown, pings>>

(* cancel_admin_order, also after the delivery.                               *)
AdminCancels ==
  /\ stage # Cancelled
  /\ stage' = Cancelled /\ due' = due + 1
  /\ UNCHANGED <<page, spot, flight, socket, first, poll, shown, pings>>

(* broadcast_order_tracking, from after the commit: asyncio.run makes a loop  *)
(* of its own for the sends. An update for an empty room is built in vain.    *)
BroadcastChange ==
  /\ due > 0 /\ due' = due - 1
  /\ flight' = flight \cup {[view |-> ViewNow, to |-> s] : s \in Room}
  /\ UNCHANGED <<page, stage, spot, socket, first, poll, shown, pings>>

(* _get_loop: neither get_running_loop nor get_event_loop has one to give in  *)
(* a worker thread.                                                           *)
LoopOf(thread) == IF thread = "event loop" THEN "uvicorn" ELSE Nothing

(* update_my_location, and publish_tracking_update for an order that is live. *)
Ping(to) ==
  LET push == StatusNow \in LIVE_STATUSES /\ LoopOf("worker") # Nothing
  IN  /\ pings < MaxPings /\ stage \in 1..4
      /\ pings' = pings + 1
      /\ spot' = to
      /\ flight' = flight \cup
           {[view |-> ViewOf(StatusNow, to), to |-> s] : s \in IF push THEN Room ELSE {}}
      /\ UNCHANGED <<page, stage, due, socket, first, poll, shown>>

-----------------------------------------------------------------------------
(* The customer's sockets and polls.                                          *)

(* broadcast reaches a socket, in any order, ...                              *)
Arrive(u) ==
  /\ u \in flight /\ flight' = flight \ {u}
  /\ shown' = IF socket[u.to] \in {"joined", "open", "dropped"} THEN u.view ELSE shown
  /\ UNCHANGED <<page, stage, spot, due, socket, first, poll, pings>>

(* ... or fails on it (it belongs to another loop): the socket leaves the     *)
(* room, but stays open and answers pings, so the app does not open another.  *)
Fail(u) ==
  /\ u \in flight /\ flight' = flight \ {u}
  /\ socket' = [socket EXCEPT ![u.to] = IF @ \in {"joined", "open"} THEN "dropped" ELSE @]
  /\ UNCHANGED <<page, stage, spot, due, first, poll, shown, pings>>

(* The app opens the page, and leaves it with its socket; a restart of the    *)
(* server closes the socket, too, and forgets the rooms.                      *)
OpenPage ==
  /\ ~page /\ page' = TRUE
  /\ UNCHANGED <<stage, spot, due, flight, socket, first, poll, shown, pings>>

LeavePage ==
  /\ page /\ page' = FALSE
  /\ socket' = [s \in Sockets |-> IF socket[s] = "none" THEN "none" ELSE "closed"]
  /\ poll' = Nothing /\ shown' = Nothing
  /\ UNCHANGED <<stage, spot, due, flight, first, pings>>

(* tracking_ws: the first snapshot is read on a worker thread, ...            *)
OpenSocket(s) ==
  /\ page /\ socket[s] = "none" /\ \A t \in Sockets : socket[t] \in {"none", "closed"}
  /\ socket' = [socket EXCEPT ![s] = "read"]
  /\ first' = [first EXCEPT ![s] = ViewNow]
  /\ UNCHANGED <<page, stage, spot, due, flight, poll, shown, pings>>

(* ... then the socket joins the room, ...                                    *)
JoinRoom(s) ==
  /\ socket[s] = "read"
  /\ socket' = [socket EXCEPT ![s] = "joined"]
  /\ UNCHANGED <<page, stage, spot, due, flight, first, poll, shown, pings>>

(* ... and then the snapshot is sent. An update that a broadcast sent in      *)
(* between is shown before, and replaced by the older snapshot.               *)
SendFirst(s) ==
  /\ socket[s] \in {"joined", "dropped"} /\ first[s] # Nothing
  /\ socket' = [socket EXCEPT ![s] = IF @ = "joined" THEN "open" ELSE @]
  /\ shown' = first[s]
  /\ first' = [first EXCEPT ![s] = Nothing]
  /\ UNCHANGED <<page, stage, spot, due, flight, poll, pings>>

CloseSocket(s) ==
  /\ socket[s] \notin {"none", "closed"}
  /\ socket' = [socket EXCEPT ![s] = "closed"]
  /\ UNCHANGED <<page, stage, spot, due, flight, first, poll, shown, pings>>

(* track_order, polled by the app.                                            *)
Poll ==
  /\ page /\ poll = Nothing /\ poll' = ViewNow
  /\ UNCHANGED <<page, stage, spot, due, flight, socket, first, shown, pings>>

PollShown ==
  /\ poll # Nothing
  /\ shown' = poll /\ poll' = Nothing
  /\ UNCHANGED <<page, stage, spot, due, flight, socket, first, pings>>

TrackNext ==
  \/ StoreReady \/ RiderMoves \/ AdminCancels \/ BroadcastChange
  \/ \E to \in Spots : Ping(to)
  \/ \E u \in flight : Arrive(u) \/ Fail(u)
  \/ \E s \in Sockets : OpenSocket(s) \/ JoinRoom(s) \/ SendFirst(s) \/ CloseSocket(s)
  \/ OpenPage \/ LeavePage \/ Poll \/ PollShown

(* The app goes on polling while its page is open, and polls are answered.    *)
TrackFair == WF_trackVars(Poll) /\ WF_trackVars(PollShown)

-----------------------------------------------------------------------------
(* Whatever is lost, late or shown in the wrong order, an open page shows     *)
(* again and again the order's status and, from pick-up until delivery or     *)
(* cancellation and at no other time, the last position the rider sent.       *)
MapCatchesUp ==
  []<>(page => /\ shown # Nothing
               /\ shown.status = StatusNow
               /\ shown.pin = IF stage \in {3, 4} THEN spot ELSE NoSpot)

(* A position sent by the rider of an order that is out is pushed to the      *)
(* sockets in its room, as publish_tracking_update promises its caller.       *)
PingsArePushed ==
  [][pings' > pings /\ StatusNow \in LIVE_STATUSES =>
       \A s \in Room : [view |-> ViewNow', to |-> s] \in flight']_trackVars
=============================================================================
