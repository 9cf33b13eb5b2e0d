-------------------------- MODULE BlockAlternation --------------------------
(***************************************************************************)
(* What a half-duplex block protocol promises to its two ends, whatever it *)
(* sends again: blocks are asked, taken and answered strictly in turn.  A  *)
(* block is taken once, and only after it was asked; it is answered once,  *)
(* and only after it was taken; the next one is asked only after that.     *)
(* The asking end may give up at any time; after that only a new session   *)
(* starts again.                                                           *)
(***************************************************************************)
EXTENDS Integers

VARIABLES
  asked,     \* requests the asking end has begun
  taken,     \* requests the other end has taken
  answered,  \* requests whose answer the asking end has accepted
  over       \* the asking end has given up

alt == <<asked, taken, answered, over>>

Init == asked = 0 /\ taken = 0 /\ answered = 0 /\ over = FALSE

Ask ==
  /\ ~over /\ asked = answered
  /\ asked' = asked + 1
  /\ UNCHANGED <<taken, answered, over>>

Take ==
  /\ ~over /\ taken < asked
  /\ taken' = asked
  /\ UNCHANGED <<asked, answered, over>>

(* The answer of a request may come with the next request. *)
Answer ==
  /\ ~over /\ answered < taken
  /\ answered' = taken
  /\ asked' \in {asked, asked + 1}
  /\ UNCHANGED <<taken, over>>

GiveUp ==
  /\ ~over
  /\ over' = TRUE
  /\ asked' = answered
  /\ UNCHANGED <<taken, answered>>

Restart ==
  /\ over
  /\ asked' = 0 /\ taken' = 0 /\ answered' = 0 /\ over' = FALSE

Next == Ask \/ Take \/ Answer \/ GiveUp \/ Restart

Spec == Init /\ [][Next]_alt
=============================================================================
