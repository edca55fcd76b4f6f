---------------------------- MODULE OpeningHours ----------------------------
(***************************************************************************)
(* What keeping a shop's hours means, without dates or stamps: an opening  *)
(* and a closing are each acted on once, by the first tick that comes      *)
(* after them; everything else is up to people.  An opening nobody acted   *)
(* on (the server was down all day) needs no closing, unless the closing   *)
(* before it is still due.                                                 *)
(***************************************************************************)
VARIABLES
  within,    \* the clock is inside the shop's hours
  period,    \* the period of the hours it is in, or was in last
  on,        \* the shop is open
  served     \* the last opening or closing has been acted on

shop == <<within, period, on, served>>

(* Time crosses an opening or a closing, or neither.  A shop that is closed   *)
(* already needs no closing.                                                  *)
TimePasses ==
  /\ within' \in BOOLEAN
  /\ IF within' /\ (~ within \/ period' # period) THEN ~ served'
     ELSE IF within /\ ~ within' THEN served' \in (IF on THEN {~ served, FALSE} ELSE {TRUE})
     ELSE served' = served
  /\ UNCHANGED on

(* The tick acts on what is outstanding, and otherwise changes nothing.       *)
Tick ==
  /\ served' = TRUE
  /\ on' = IF served THEN on ELSE within
  /\ UNCHANGED <<within, period>>

(* By hand: outside hours, whatever people set settles the closing.           *)
ByHand ==
  /\ on' \in BOOLEAN
  /\ served' = (served \/ ~ within)
  /\ UNCHANGED <<within, period>>
=============================================================================
