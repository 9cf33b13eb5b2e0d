-------------------------------- MODULE Cards --------------------------------
(***************************************************************************)
(* The cards and devices in the reader's field, as ISO/IEC 14443-3, -4,    *)
(* JIS X 6319-4 and ISO/IEC 18092 have them answer.  External: nothing of  *)
(* it is code of the library, which only sees status and data of           *)
(* phhalHw_Exchange.                                                       *)
(*                                                                         *)
(* An identifier of type A is a sequence of parts, one a cascade level,    *)
(* of the same number of bits; the first bit of a part stands for the      *)
(* cascade tag, which begins every part but the last.                      *)
(***************************************************************************)
EXTENDS Naturals, Sequences, FiniteSets, SequencesExt

CONSTANTS
  Card,    \* the cards
  Kind,    \* Kind[c].tech, .plat (what the card is), .uid (its parts), .atqa,
           \* .rates: the bit rates above the lowest that it supports
  PartLen  \* bits of a part

ASSUME PartAssumption == PartLen \in Nat \ {0, 1}
Part == [1 .. PartLen -> 0 .. 1]

ASSUME KindAssumption ==
  \A c \in Card :
    /\ Kind[c].tech \in {"A", "B", "F", "N"}
    /\ Kind[c].tech = "A" =>
         /\ Kind[c].uid \in [1 .. 1 -> Part] \cup [1 .. 2 -> Part]
         /\ \A l \in DOMAIN Kind[c].uid : (Kind[c].uid[l][1] = 1) = (l < Len(Kind[c].uid))

ASSUME PlatAssumption == \A c \in Card : Kind[c].tech = "A" => Kind[c].plat \in {"T2T", "T4A", "P2P"}

\* What identifies a card: the bits of its identifier without cascade tags.
Whole(c) == LET u == Kind[c].uid IN IF Len(u) = 1 THEN u[1] ELSE Tail(u[1]) \o u[2]

\* lvl: the cascade level; star: woken out of the halt state; slot: the slot
\* a card of type B has drawn; rate: the bit rates it uses.
Away == [st |-> "out", lvl |-> 0, star |-> FALSE, slot |-> 0, rate |-> <<0, 0>>]
Idle == [Away EXCEPT !.st = "idle"]
Halted == [Away EXCEPT !.st = "halt"]

Unpowered(cs) == [c \in Card |-> IF cs[c].st = "out" THEN Away ELSE Idle]

\* A frame a card of type A does not expect sends it back to where it was woken.
Back(s) == IF s.st \notin {"ready", "active"} THEN s ELSE IF s.star THEN Halted ELSE Idle

-----------------------------------------------------------------------------
(* Commands.  slots: those of a REQB or WUPB. *)

Command(name, tech, lvl, arg) == [name |-> name, tech |-> tech, lvl |-> lvl, arg |-> arg]

Heeds(c, s, cmd) ==
  /\ s.st # "out" /\ Kind[c].tech = cmd.tech
  /\ CASE cmd.name = "REQA" -> s.st = "idle"
       [] cmd.name = "WUPA" -> s.st \in {"idle", "halt"}
       [] cmd.name = "ANTICOLL" -> s.st = "ready" /\ s.lvl = cmd.lvl /\ IsPrefix(cmd.arg, Kind[c].uid[s.lvl])
       [] cmd.name = "SELECT" -> s.st = "ready" /\ s.lvl = cmd.lvl /\ cmd.arg = Kind[c].uid[s.lvl]
       [] cmd.name = "HLTA" -> s.st = "active"
       [] cmd.name = "RATS" -> s.st = "active" /\ Kind[c].plat = "T4A"
       [] cmd.name \in {"PPS", "DESELECT"} -> s.st = "layer4" /\ Kind[c].plat = "T4A"
       [] cmd.name = "REQB" -> s.st \in {"idle", "ready"}
       [] cmd.name = "WUPB" -> s.st \in {"idle", "ready", "halt"}
       [] cmd.name = "SLOT" -> s.st = "ready" /\ s.slot = cmd.arg
       [] cmd.name = "ATTRIB" -> s.st = "ready" /\ cmd.arg.pupi = c
       [] cmd.name = "REQC" -> s.st = "idle"
       [] cmd.name = "ATR" -> Kind[c].plat = "P2P" /\ s.st = (IF cmd.tech = "A" THEN "active" ELSE "idle")

\* A card that heeds a command; slot: the slot it draws.
Heeding(c, s, cmd, slot) ==
  CASE cmd.name \in {"REQA", "WUPA"} -> [s EXCEPT !.st = "ready", !.lvl = 1, !.star = s.st = "halt"]
    [] cmd.name = "SELECT" /\ s.lvl < Len(Kind[c].uid) -> [s EXCEPT !.lvl = @ + 1]
    [] cmd.name = "SELECT" /\ s.lvl = Len(Kind[c].uid) -> [s EXCEPT !.st = "active", !.lvl = 0]
    [] cmd.name \in {"HLTA", "DESELECT"} -> Halted
    [] cmd.name \in {"RATS", "ATR"} -> [Away EXCEPT !.st = "layer4"]
    [] cmd.name = "PPS" -> [s EXCEPT !.rate = cmd.arg]
    [] cmd.name \in {"REQB", "WUPB"} -> [s EXCEPT !.st = "ready", !.slot = slot]
    [] cmd.name = "ATTRIB" -> [Away EXCEPT !.st = "layer4", !.rate = cmd.arg.rate]
    [] OTHER -> s

After(cs, cmd, draw) ==
  [c \in Card |-> CASE Heeds(c, cs[c], cmd) -> Heeding(c, cs[c], cmd, draw[c])
                    [] ~Heeds(c, cs[c], cmd) /\ cmd.tech = "A" /\ Kind[c].tech = "A" -> Back(cs[c])
                    [] OTHER -> cs[c]]

\* HLTA has no answer; after REQB and WUPB the cards of slot 1 answer.
Answers(c, s, cmd, slot) ==
  /\ Heeds(c, s, cmd) /\ cmd.name # "HLTA"
  /\ cmd.name \in {"REQB", "WUPB"} => slot = 1

Answer(c, s, cmd) ==
  CASE cmd.name \in {"REQA", "WUPA"} -> Kind[c].atqa
    [] cmd.name = "ANTICOLL" -> Kind[c].uid[s.lvl]
    [] cmd.name = "SELECT" ->
         IF s.lvl < Len(Kind[c].uid) THEN [cascade |-> TRUE] ELSE [cascade |-> FALSE, plat |-> Kind[c].plat]
    [] OTHER -> c

-----------------------------------------------------------------------------
(* Exchanges.  Answers of type A that differ collide; the reader knows the *)
(* bits up to the first that differs.  Other answers of several cards are  *)
(* garbled.                                                                *)

Received(says, cmd) ==
  CASE says = {} -> [status |-> "IO_TIMEOUT", data |-> <<>>]
    [] Cardinality(says) = 1 -> [status |-> "SUCCESS", data |-> CHOOSE a \in says : TRUE]
    [] Cardinality(says) > 1 /\ cmd.name = "ANTICOLL" -> [status |-> "COLLISION_ERROR", data |-> LongestCommonPrefix(says)]
    [] Cardinality(says) > 1 /\ cmd.name \in {"REQA", "WUPA"} -> [status |-> "COLLISION_ERROR", data |-> <<>>]
    [] OTHER -> [status |-> "INTEGRITY_ERROR", data |-> <<>>]

\* The slots the cards of type B can draw.
Draws(cmd, slots) ==
  LET b == IF cmd.name \in {"REQB", "WUPB"} THEN {c \in Card : Kind[c].tech = "B"} ELSE {} IN
  {[c \in Card |-> IF c \in b THEN f[c] ELSE 0] : f \in [b -> 1 .. slots]}

Heard(cs, cmd, draw) == {Answer(c, cs[c], cmd) : c \in {d \in Card : Answers(d, cs[d], cmd, draw[d])}}

\* What can come of a command: undisturbed (faults = 0), the command or the
\* answer lost, or the answer spoilt.
Outcomes(cs, cmd, slots) ==
  UNION {LET next == After(cs, cmd, d)
             says == Heard(cs, cmd, d)
             fault(n, status) == [cards |-> n, status |-> status, data |-> <<>>, faults |-> 1]
             heard == Received(says, cmd) IN
         {[cards |-> next, status |-> heard.status, data |-> heard.data, faults |-> 0]}
         \cup (IF next = cs /\ says = {} THEN {} ELSE {fault(cs, "IO_TIMEOUT")})
         \cup (IF says = {} THEN {} ELSE {fault(next, "IO_TIMEOUT"), fault(next, "INTEGRITY_ERROR")}) :
         d \in Draws(cmd, slots)}
=============================================================================
