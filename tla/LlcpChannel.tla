----------------------------- MODULE LlcpChannel -----------------------------
(***************************************************************************)
(* What a connection-oriented LLCP transport promises to the applications  *)
(* at the two ends of a connection, whatever frames it exchanges.  Each    *)
(* end of each connection submits SDUs 1, 2, 3, ... one at a time; a Send  *)
(* is confirmed only once its SDU has been put on the way; the other end   *)
(* is handed the SDUs in the order of their submission, each once and none *)
(* that was not put on the way; an end that is closed takes no part any    *)
(* more.  One step of the implementation may do several of these things at *)
(* several ends (a callback in which the application calls again), so a    *)
(* step of the channel is a move of every end.                             *)
(***************************************************************************)
EXTENDS Integers, Sequences

CONSTANTS End,     \* the ends of all connections
          Far(_)   \* the end an end is connected to

VARIABLES
  open,       \* open[e]: e is connected
  submitted,  \* submitted[e]: SDUs taken from the application of e
  carried,    \* carried[e]: SDUs of e that are, or were, on the way
  confirmed,  \* confirmed[e]: Sends of e called back with success
  received    \* received[e]: the SDUs handed to the application of e

chan == <<open, submitted, carried, confirmed, received>>

Init ==
  /\ open \in [End -> BOOLEAN]
  /\ submitted = [e \in End |-> 0]
  /\ carried = [e \in End |-> 0]
  /\ confirmed = [e \in End |-> 0]
  /\ received = [e \in End |-> <<>>]

(* A new SDU is taken only from an open end whose Sends are all confirmed. *)
Submits(e) ==
  \/ submitted'[e] = submitted[e]
  \/ open[e] /\ submitted'[e] = submitted[e] + 1 /\ confirmed'[e] = submitted[e]

Carries(e) == carried[e] <= carried'[e] /\ carried'[e] <= submitted'[e]

Confirms(e) ==
  /\ confirmed[e] <= confirmed'[e] /\ confirmed'[e] <= carried'[e]
  /\ confirmed'[e] # confirmed[e] => open[e]

(* The SDUs handed over are the next ones the far end put on the way. *)
Receives(e) ==
  LET n == Len(received[e]) IN
  /\ Len(received'[e]) >= n /\ Len(received'[e]) <= carried'[Far(e)]
  /\ received'[e] =
       received[e] \o [i \in 1 .. (Len(received'[e]) - n) |-> n + i]
  /\ received'[e] # received[e] => open[e]

Closes(e) == open'[e] => open[e]

Next ==
  \A e \in End : Submits(e) /\ Carries(e) /\ Confirms(e) /\ Receives(e) /\ Closes(e)

Spec == Init /\ [][Next]_chan
=============================================================================
