-------------------------------- MODULE NfcDep --------------------------------
(***************************************************************************)
(* An initiator and a target of NFC-DEP, both of this library, and a field *)
(* that loses and damages frames.                                          *)
(***************************************************************************)
EXTENDS NfcDepField

CONSTANTS MaxRetryCount, AtnDisabled, RxRoom,
          MaxMsg,  \* bound: messages of a session
          MaxHits  \* bound: losses of a session from which the target does not recover

ASSUME RetryAssumption == MaxRetryCount \in Nat
ASSUME AtnAssumption == AtnDisabled \in BOOLEAN
ASSUME RoomAssumption == RxRoom \in Nat /\ RxRoom >= MaxBlocks
ASSUME MaxMsgAssumption == MaxMsg \in Nat

VARIABLES
  ini, tgt,
  turns   \* (ghost) the messages of the session and what was lost of them

vars == <<air, ini, tgt, turns>>

I == INSTANCE NfcDepInitiator
T == INSTANCE NfcDepTarget

\* asked, answered: messages; taken: times that the last one was handed up;
\* lost, hits: losses from which the target does not recover, since it was asked
\* and in the session; twice: the ACK of its first block was lost.
Turns == [asked : Nat, taken : Nat, answered : Nat, lost : Nat, hits : Nat, twice : BOOLEAN]
InitTurns == [asked |-> 0, taken |-> 0, answered |-> 0, lost |-> 0, hits |-> 0, twice |-> FALSE]

\* The initiator does not time out while the layer above the target answers.
TargetBusy == tgt.at = "app"
HandedUp == tgt'.at = "app" /\ tgt.at # "app"
Over == ini.at = "idle" /\ ini.status # "SUCCESS"

Count(taken, answered, hit, twice) ==
  LET one(b) == IF b THEN 1 ELSE 0 IN
  turns' = [turns EXCEPT !.taken = @ + one(taken),
                         !.answered = IF answered THEN turns.asked ELSE @,
                         !.lost = @ + one(hit), !.hits = @ + one(hit),
                         !.twice = @ \/ twice]

Call ==
  /\ \/ /\ turns.asked < MaxMsg
        /\ \E n \in 1 .. MaxBlocks : I!Exchange(n)
        /\ turns' = [turns EXCEPT !.asked = @ + 1, !.taken = 0, !.lost = 0, !.twice = FALSE]
     \/ (I!PresCheck \/ I!Deselect) /\ UNCHANGED turns
  /\ UNCHANGED tgt

InitiatorReceive ==
  /\ I!Receive \/ I!Answered
  /\ Count(FALSE, ini.at = "exchange" /\ ini'.status = "SUCCESS", FALSE, FALSE)
  /\ UNCHANGED tgt

TargetReceive ==
  /\ T!TargetReceive
  /\ Count(HandedUp, FALSE, FALSE, FALSE)
  /\ UNCHANGED ini

\* The layer above the target answers, within the response waiting time.
TargetAnswer ==
  /\ \E n \in 1 .. MaxBlocks : T!DepSend(n)
  /\ UNCHANGED <<ini, turns>>

\* A frame to a target that listens may be missed: the target is asked for
\* attention and gets it again.  So may the answer to an attention, and the ACK
\* of a block, which is then copied over the one that came before it: over
\* itself, but the first block goes behind itself.
Unheard == air.to = "T" /\ tgt.at \in {"listen", "off"}
AckLost == air.kind = "ACK" /\ tgt.at = "chain"
Recoverable ==
  \/ Unheard
  \/ air.kind \in {"ATN", "DSL"} /\ tgt.at \in {"listen", "off"}
  \/ air.kind = "ATN" /\ air.to = "T"
  \/ AckLost

Lose ==
  /\ air # NoFrame /\ (Recoverable \/ turns.hits < MaxHits)
  /\ air' = NoFrame
  /\ Count(FALSE, FALSE, ~Recoverable, AckLost /\ tgt.prev = 0)
  /\ UNCHANGED <<ini, tgt>>

DamageToTarget ==
  /\ air # NoFrame /\ air.to = "T" /\ (Unheard \/ turns.hits < MaxHits)
  /\ T!TargetFails
  /\ Count(FALSE, FALSE, ~Unheard, FALSE)
  /\ UNCHANGED ini

DamageToInitiator ==
  /\ air # NoFrame /\ air.to = "I" /\ (ini.at # "exchange" \/ turns.hits < MaxHits)
  /\ I!NoResponse(TRUE) \/ I!NotAnswered
  /\ Count(FALSE, FALSE, ini.at = "exchange", FALSE)
  /\ UNCHANGED tgt

InitiatorTimeout ==
  /\ I!Waits /\ ~TargetBusy
  /\ I!NoResponse(FALSE) \/ I!NotAnswered
  /\ UNCHANGED <<tgt, turns>>

HalError ==
  /\ I!Waits /\ ~TargetBusy
  /\ I!HalError
  /\ UNCHANGED <<tgt, turns>>

\* The target's own timeout is the longest response waiting time.
TargetTimeout ==
  /\ ini.at = "idle" /\ tgt.at \in {"chain", "send"}
  /\ T!TargetFails
  /\ UNCHANGED <<ini, turns>>

\* A new session: ResetProtocol at both ends, and the activation.
Activate ==
  /\ ini.at = "idle" /\ ~I!InSession /\ ~TargetBusy
  /\ ini' = I!InitInitiator /\ tgt' = T!InitTarget /\ air' = NoFrame /\ turns' = InitTurns

Init == air = NoFrame /\ ini = I!InitInitiator /\ tgt = T!InitTarget /\ turns = InitTurns

Next ==
  \/ Call \/ InitiatorReceive \/ InitiatorTimeout \/ HalError
  \/ TargetReceive \/ TargetAnswer \/ TargetTimeout
  \/ Lose \/ DamageToTarget \/ DamageToInitiator \/ Activate

Spec == Init /\ [][Next]_vars

\* The HAL's exchange returns, with a frame or a timeout; the target's exchange
\* times out; and a field that loses frames again and again carries one at last:
\* an attention aside, which MaxRetryCount bounds.
FairSpec ==
  /\ Spec
  /\ WF_vars(InitiatorReceive \/ InitiatorTimeout \/ TargetReceive \/ TargetAnswer)
  /\ WF_vars(TargetTimeout)
  /\ SF_vars(TargetReceive /\ air.kind # "ATN")
  /\ SF_vars(InitiatorReceive /\ air.kind # "ATN")

-----------------------------------------------------------------------------
(* Properties. *)

\* Every variable keeps its type: the packet numbers, the counters and lengths
\* of both ends stay in their ranges, and no block is stored behind the buffer.
TypeOK == air \in Frame /\ ini \in I!Initiator /\ tgt \in T!Target /\ turns \in Turns

Whole(msg, size) == [k \in 1 .. size |-> <<msg, k>>]

\* In a session in which only the losses of Recoverable happened, Listen hands
\* up the message that Exchange transmits, its blocks once and in order: the
\* buffer's end, wPrePayloadLength and the packet numbers agree.  If the ACK of
\* its first block was lost it is announced a block longer than it is, with what
\* the buffer held there.  And what a successful Exchange has received is the
\* message that the target sent last, whole.
MessagesIntact ==
  turns.hits = 0 =>
    /\ tgt.at = "app" =>
         /\ tgt.length = ini.size + (IF turns.twice THEN 1 ELSE 0)
         /\ SubSeq(tgt.data, 1, ini.size) = Whole(ini.msg, ini.size)
    /\ I!InSession /\ turns.asked > 0 => ini.received = Whole(tgt.msg, tgt.size)

\* After any call that succeeds the target listens for the next one, and after a
\* deselect that is answered it is deactivated, however many frames were lost.
TargetFollows ==
  /\ I!InSession => tgt.at = "listen"
  /\ ini.status = "DESELECTED" => tgt.at = "off"

\* Every call of the initiator returns: the attentions and NACKs of all its
\* TransceivePdu are bounded.
CallReturns == ini.at # "idle" ~> ini.at = "idle"

\* Exchange and Listen alternate, whatever is lost: an exchange succeeds only
\* after a message was handed up for it, and it is handed up again at most once
\* for every loss from which the target does not recover.
Alternation ==
  INSTANCE MessageAlternation WITH
    asked <- turns.asked,
    taken <- turns.taken,
    answered <- turns.answered,
    lost <- turns.lost,
    over <- Over
ImplementsAlternation == Alternation!Spec

=============================================================================
