------------------------- MODULE MessageAlternation -------------------------
(***************************************************************************)
(* What a half-duplex message exchange promises its two ends in a field    *)
(* that loses frames, where not every loss is recovered from.  Messages    *)
(* are asked and answered strictly in turn.  A message is handed up at     *)
(* least once before it is answered, and again only after a loss: at most  *)
(* once more for every loss since it was asked.  The asking end may give   *)
(* up at any time; after that only a new session starts again.             *)
(***************************************************************************)
EXTENDS Integers

VARIABLES
  asked,     \* messages the asking end has begun
  taken,     \* times that the other end was handed the last one
  answered,  \* messages whose answer the asking end has accepted
  lost,      \* losses since the last one was asked
  over       \* the asking end has given up

alt == <<asked, taken, answered, lost, over>>

Init == asked = 0 /\ taken = 0 /\ answered = 0 /\ lost = 0 /\ over = FALSE

Ask ==
  /\ ~over /\ asked = answered
  /\ asked' = asked + 1 /\ taken' = 0 /\ lost' = 0
  /\ UNCHANGED <<answered, over>>

Take ==
  /\ ~over /\ answered < asked /\ taken <= lost
  /\ taken' = taken + 1
  /\ UNCHANGED <<asked, answered, lost, over>>

Answer ==
  /\ ~over /\ answered < asked /\ taken > 0
  /\ answered' = asked
  /\ UNCHANGED <<asked, taken, lost, over>>

Lose == lost' = lost + 1 /\ UNCHANGED <<asked, taken, answered, over>>

(* Often it is for a loss.                                                 *)
GiveUp ==
  /\ ~over
  /\ over' = TRUE
  /\ lost' \in {lost, lost + 1}
  /\ UNCHANGED <<asked, taken, answered>>

Restart ==
  /\ over
  /\ asked' = 0 /\ taken' = 0 /\ answered' = 0 /\ lost' = 0 /\ over' = FALSE

Next == Ask \/ Take \/ Answer \/ Lose \/ GiveUp \/ Restart

Spec == Init /\ [][Next]_alt
=============================================================================
