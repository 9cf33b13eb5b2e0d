------------------------------ MODULE LlcpLink ------------------------------
(***************************************************************************)
(* The LLCP link between an NFC-DEP initiator and a target: activation,    *)
(* the symmetry procedure (phlnLlcp_Fri_Llcp.c), its mapping on NFC-DEP    *)
(* (Mac.c, MacNfcip.c) and the task that drives the reader (OvrHal.c).     *)
(*                                                                         *)
(* Each end is a record.  A callback of the source is a call of the        *)
(* operator of that name, so that a step is one event with everything it   *)
(* runs: a target transmits, is called back and calls its application back *)
(* while it still handles the frame it received.  What the application     *)
(* does in the callbacks of a step is the step's parameter.                *)
(*                                                                         *)
(* The initiator's exchange blocks in phpalI18092mPI_Exchange; a target's  *)
(* reader hands what it receives to the completion routine in sOvrHalTask. *)
(***************************************************************************)
EXTENDS Integers, Sequences, FiniteSets, SequencesExt

CONSTANTS
  Stacks,         \* for both ends, the version of the LLCP stack, in one octet,
                  \* and the psLinkParams its application gives
  TxBufferLength, \* nTxBufferLength
  SendsInTurn,    \* ends that may call Send in their turn, in no callback
  SendsAgain,     \* ends that may send from the callback of a frame they sent
                  \* in the callback of a reception
  Foreign,        \* frames of other stacks that may come instead of a SYMM
  MaxSends, MaxSessions, MaxQuits,
  MaxFaults       \* frames lost, transmissions failed, frames of Foreign and
                  \* timeouts before an answer that was on its way

Ends == {"ini", "tgt"}
Other(n) == CHOOSE m \in Ends : m # n

MiuDefault == 128  \* PHLNLLCP_FRI_MIU_DEFAULT
LtoDefault == 10   \* PHLNLLCP_FRI_LTO_DEFAULT
MaxHeaderSize == 3 \* header and sequence

ASSUME ParamsAssumption == \A s \in Stacks, n \in Ends : s[n].params.miu >= MiuDefault
ASSUME BufferAssumption == TxBufferLength >= MiuDefault + MaxHeaderSize
ASSUME TurnAssumption == SendsInTurn \subseteq Ends /\ SendsAgain \subseteq Ends

VARIABLES
  end, \* the two ends
  air, \* the frame on its way to each end
  env  \* sessions established, and what went wrong so far

vars == <<end, air, env>>

-----------------------------------------------------------------------------
(* Frames.  One of several packets is an AGF frame.  A packet to a         *)
(* transport SAP is known by the number of its Send; 0 is of no Send.      *)

Packet(type, id) == [type |-> type, id |-> id]
Symm == <<Packet("SYMM", 0)>>
Frame(id) == <<Packet("DATA", id)>>
NoFrame == <<>>

(* The TLVs of the link parameters, and what the peer makes of them.       *)
EncodeLinkParams(p, version) ==
  {[type |-> "VERSION", value |-> version]}
  \cup {[type |-> "MIUX", value |-> (p.miu - MiuDefault) % 2048] : x \in {0} \ {p.miu - MiuDefault}}
  \cup {[type |-> "LTO", value |-> p.lto] : x \in {LtoDefault} \ {p.lto}}

ValueOf(tlvs, type, default) ==
  IF \E t \in tlvs : t.type = type THEN (CHOOSE t \in tlvs : t.type = type).value ELSE default

(* Without the version, the parameters are refused. *)
ParseLinkParams(tlvs) ==
  [miu |-> MiuDefault + (ValueOf(tlvs, "MIUX", 0) % 2048),
   lto |-> ValueOf(tlvs, "LTO", LtoDefault),
   version |-> ValueOf(tlvs, "VERSION", 0)]

Major(v) == v \div 16
Least(a, b) == IF a < b THEN a ELSE b

(* The version to use, 0 if the agreement fails. *)
VersionAgreement(local, remote) ==
  IF Major(local) = Major(remote) THEN Least(local, remote)
  ELSE IF Major(local) > Major(remote) THEN 0
  ELSE local

-----------------------------------------------------------------------------
(* The state of an end. *)

NoTask == [action |-> "none", ticking |-> FALSE]
NoMac == [sendCb |-> FALSE, recvCb |-> FALSE, sendPending |-> FALSE, recvPending |-> FALSE]

(* phlnLlcp_Fri_Reset and Transport_Reset, after which the monitor is      *)
(* zero but for the Recv of the transport.  A task of the reader survives. *)
Reset(e, p) ==
  [e EXCEPT !.st = "RESET_INIT", !.local = p, !.remote = p, !.version = 0,
            !.timer = "none", !.send = 0, !.queued = FALSE, !.recv = TRUE,
            !.mac = NoMac, !.tx = NoFrame]

Start(n, v, p) ==
  Reset([role |-> n, own |-> v, st |-> "RESET_INIT", local |-> p, remote |-> p,
         version |-> 0, timer |-> "none", send |-> 0, queued |-> FALSE,
         recv |-> TRUE, mac |-> NoMac, tx |-> NoFrame,
         task |-> NoTask, exchanging |-> FALSE, out |-> <<>>,
         session |-> 0, up |-> FALSE, sent |-> 0, calls |-> <<>>, got |-> <<>>,
         quits |-> 0], p)

Operating(e) == e.st \in {"RECV", "SEND"}

(* F of the value of x, which is evaluated once. *)
With(x, F(_)) == CHOOSE z \in {F(y) : y \in {x}} : TRUE

-----------------------------------------------------------------------------
(* phlnLlcp_Fri_OvrHal: the task record is static, and one for all.        *)

Transceive(e) == [e EXCEPT !.task = [action |-> "transceive", ticking |-> TRUE]]
Receive(e) == [e EXCEPT !.task = [action |-> "receive", ticking |-> FALSE]]

RECURSIVE TriggerSendCb(_, _, _), InternalDeactivate(_, _), MacSend(_, _)

(* phlnLlcp_Fri_OvrHal_Send: DepSend, then phlnLlcp_Fri_MacNfcip_Send_Cb.  *)
DepSend(e, a) ==
  With([e EXCEPT !.task = [action |-> "transmit", ticking |-> FALSE],
                 !.out = IF a.fails THEN @ ELSE Append(@, e.tx),
                 !.mac.sendPending = FALSE, !.mac.recvPending = FALSE],
       LAMBDA y : TriggerSendCb(y, IF a.fails THEN "FAILED" ELSE "SUCCESS", a))

-----------------------------------------------------------------------------
(* phlnLlcp_Fri_MacNfcip. *)

MacSend(e, a) ==
  CASE e.role = "ini" /\ e.mac.sendCb -> e
    [] e.role = "tgt" /\ e.mac.recvPending ->
         With([e EXCEPT !.mac.sendCb = TRUE], LAMBDA y : DepSend(y, a))
    [] e.role = "ini" /\ e.mac.recvPending ->
         Transceive([e EXCEPT !.mac.sendCb = TRUE, !.mac.sendPending = TRUE])
    [] OTHER -> [e EXCEPT !.mac.sendCb = TRUE, !.mac.sendPending = TRUE]

MacReceive(e) ==
  LET y == [e EXCEPT !.mac.recvCb = TRUE, !.mac.recvPending = TRUE]
  IN CASE e.role = "tgt" -> Receive(y)
       [] e.role = "ini" /\ e.mac.sendPending -> Transceive(y)
       [] OTHER -> y

(* phlnLlcp_Fri_HandleMACLinkDeactivated deletes the timer. *)
HandleMACLinkDeactivated(e) ==
  [e EXCEPT !.st = "RESET_INIT", !.timer = "none",
            !.up = IF e.st = "DEACTIVATION" THEN @ ELSE FALSE]

(* What is pending fails.  Receive_CB has nothing to do: the state is      *)
(* DEACTIVATION by now.                                                    *)
MacDeactivate(e, a) ==
  With(IF e.mac.sendPending
       THEN TriggerSendCb([e EXCEPT !.mac.sendPending = FALSE], "FAILED", a)
       ELSE e,
       LAMBDA y : HandleMACLinkDeactivated(
         IF y.mac.recvPending
         THEN InternalDeactivate([y EXCEPT !.mac.recvPending = FALSE, !.mac.recvCb = FALSE], a)
         ELSE y))

-----------------------------------------------------------------------------
(* phlnLlcp_Fri_Llcp: sending. *)

(* A turn ends with every frame, in either direction.  Timer_Start fails   *)
(* once the timer is deleted.                                              *)
ResetLTO(e) ==
  LET s == CASE e.st = "RECV" -> "SEND"
             [] e.st = "SEND" -> "RECV"
             [] e.st \in {"DEACTIVATION", "RESET_INIT"} -> e.st
             [] OTHER -> IF e.role = "ini" THEN "SEND" ELSE "RECV"
  IN [e EXCEPT !.st = s,
               !.timer = IF @ = "none" THEN @ ELSE IF s = "RECV" THEN "recv" ELSE "send"]

(* The packet is built in the only Tx buffer. *)
InternalSend(e, f, a) ==
  With([ResetLTO(e) EXCEPT !.tx = f], LAMBDA y : MacSend(y, a))

(* phlnLlcp_Fri_Send: refused while another Send is outstanding.           *)
Send(e, a) ==
  IF e.send # 0 \/ ~Operating(e) \/ e.sent = MaxSends THEN e
  ELSE With([e EXCEPT !.sent = @ + 1, !.send = e.sent + 1],
            LAMBDA y : IF e.st = "SEND" THEN InternalSend(y, Frame(y.send), a)
                       ELSE [y EXCEPT !.queued = TRUE])

(* phlnLlcp_Fri_Deactivate: no DISC is sent. *)
Deactivate(e, a) == IF Operating(e) THEN InternalDeactivate(e, a) ELSE e

(* The application in a callback. *)
React(e, what, a) ==
  CASE what = "send" -> Send(e, a)
    [] what = "quit" -> Deactivate([e EXCEPT !.quits = @ + 1], a)
    [] OTHER -> e

CallBack(e, status) ==
  [e EXCEPT !.send = 0, !.calls = Append(@, [id |-> e.send, status |-> status])]

(* (mutant) The completion of a SYMM completes the Send that is queued. *)
SendCBOfAnyFrame(e, status, a) ==
  With(IF e.send # 0 THEN With(CallBack(e, status), LAMBDA x : React(x, a.onSent, a)) ELSE e,
       LAMBDA y : IF status = "SUCCESS" THEN y ELSE InternalDeactivate(y, a))

(* phlnLlcp_Fri_Send_CB: a Send that is still queued is not the frame that *)
(* was sent.                                                               *)
SendCB(e, status, a) ==
  With(IF ~e.queued /\ e.send # 0
       THEN With(CallBack(e, status), LAMBDA x : React(x, a.onSent, a))
       ELSE e,
       LAMBDA y : IF status = "SUCCESS" THEN y ELSE InternalDeactivate(y, a))

TriggerSendCb(e, status, a) ==
  IF e.mac.sendCb THEN SendCB([e EXCEPT !.mac.sendCb = FALSE], status, a) ELSE e

(* (mutant) The Send that is outstanding is forgotten. *)
InternalDeactivateSilently(e, a) ==
  IF ~Operating(e) /\ e.st # "ACTIVATION" THEN e
  ELSE With([e EXCEPT !.st = "DEACTIVATION", !.queued = FALSE, !.timer = "off", !.up = FALSE],
            LAMBDA y : MacDeactivate(y, a))

(* The application that is called back here, or told of the end of the     *)
(* link, is refused whatever it asks of the link.                          *)
InternalDeactivate(e, a) ==
  IF ~Operating(e) /\ e.st # "ACTIVATION" THEN e
  ELSE With([(IF e.send # 0 THEN CallBack(e, "FAILED") ELSE e)
               EXCEPT !.st = "DEACTIVATION", !.queued = FALSE, !.timer = "off", !.up = FALSE],
            LAMBDA y : MacDeactivate(y, a))

(* (mutant) A Send that was queued is never taken from the queue. *)
NothingIsPending(e) == FALSE

(* phlnLlcp_Fri_HandlePendingSend: a MAC that refuses ends the link. *)
SendIsPending(e) == e.send # 0 /\ e.queued
HandlePendingSend(e, a) ==
  IF ~SendIsPending(e) THEN e
  ELSE With(InternalSend([e EXCEPT !.queued = FALSE], Frame(e.send), a),
            LAMBDA y : IF e.role = "ini" /\ e.mac.sendCb THEN InternalDeactivate(y, a) ELSE y)

(* (mutant) A target does not listen after a SYMM. *)
SendSymmOnly(e, a) == IF SendIsPending(e) THEN HandlePendingSend(e, a) ELSE InternalSend(e, Symm, a)

(* A target listens again after a SYMM. *)
SendSymm(e, a) ==
  IF SendIsPending(e) THEN HandlePendingSend(e, a)
  ELSE With(InternalSend(e, Symm, a),
            LAMBDA y : IF e.role = "tgt" THEN MacReceive(y) ELSE y)

Timer_CBRecv(e, a) ==
  CASE e.st = "RECV" -> InternalDeactivate(e, a)
    [] e.st = "SEND" -> SendSymm(e, a)
    [] OTHER -> e

Timer_CBSend(e, a) == IF e.st = "SEND" THEN SendSymm(e, a) ELSE e

-----------------------------------------------------------------------------
(* phlnLlcp_Fri_Llcp: receiving. *)

(* The transport handles the frame and calls Recv again. *)
HandleTransportPacket(e, p, a) ==
  IF ~e.recv THEN e
  ELSE With([e EXCEPT !.recv = FALSE, !.got = Append(@, p.id)],
            LAMBDA y : [React(y, a.onRecv, a) EXCEPT !.recv = TRUE])

HandleIncomingPacket(e, p, a) ==
  CASE p.type = "DATA" -> HandleTransportPacket(e, p, a)
    [] p.type = "DISC" -> InternalDeactivate(e, a)
    [] OTHER -> e

(* Every packet of an AGF frame is handled, whatever those before it did.  *)
RECURSIVE HandlePackets(_, _, _)
HandlePackets(e, f, a) ==
  IF f = <<>> THEN e
  ELSE With(HandleIncomingPacket(e, Head(f), a), LAMBDA y : HandlePackets(y, Tail(f), a))

(* phlnLlcp_Fri_Receive_CB listens again in every state, down or up.       *)
ReceiveCB(e, status, f, a) ==
  IF status # "SUCCESS" THEN InternalDeactivate(e, a)
  ELSE With(IF e.st = "RECV"
            THEN With(With(ResetLTO(e), LAMBDA x : HandlePackets(x, f, a)), LAMBDA y : HandlePendingSend(y, a))
            ELSE e, MacReceive)

TriggerRecvCb(e, status, f, a) ==
  IF e.mac.recvCb
  THEN With([e EXCEPT !.mac.recvCb = FALSE], LAMBDA y : ReceiveCB(y, status, f, a))
  ELSE e

(* phlnLlcp_Fri_MacNfcip_Receive_Cb, of a target. *)
MacReceiveCb(e, status, f, a) ==
  With(TriggerRecvCb(e, status, f, a),
       LAMBDA y : IF y.mac.sendPending THEN MacSend(y, a) ELSE y)

(* phlnLlcp_Fri_MacNfcip_Send_Cb as the completion of a reception: it is   *)
(* the routine a target that has transmitted leaves in the task.           *)
MacSendCb(e, status, a) ==
  TriggerSendCb([e EXCEPT !.mac.sendPending = FALSE, !.mac.recvPending = FALSE], status, a)

(* phlnLlcp_Fri_MacNfcip_Transceive_Cb, of an initiator. *)
TransceiveCb(e, status, f, a) ==
  With(MacSendCb(e, status, a), LAMBDA y : TriggerRecvCb(y, status, f, a))

-----------------------------------------------------------------------------
(* phlnLlcp_Fri_Llcp: activation. *)

(* phlnLlcp_Fri_InternalActivate.  The peer announced its parameters in    *)
(* the general bytes of NFC-DEP.                                           *)
InternalActivate(e, p, a) ==
  LET v == VersionAgreement(e.own, p.version)
      miu == IF TxBufferLength < p.miu + MaxHeaderSize THEN TxBufferLength - MaxHeaderSize ELSE p.miu
      y == [e EXCEPT !.version = v, !.remote = [miu |-> miu, lto |-> p.lto], !.up = TRUE]
  IN IF p.version = 0 \/ v = 0 THEN InternalDeactivate(e, a)
     ELSE With(With(ResetLTO(y), LAMBDA z : React(z, a.onUp, a)), MacReceive)

(* phlnLlcp_Fri_Activate and HandleMACLinkActivated, which creates the     *)
(* timer.                                                                  *)
HandleMACLinkActivated(e, tlvs, a) ==
  With(ParseLinkParams(tlvs),
       LAMBDA p : InternalActivate([e EXCEPT !.st = "ACTIVATION", !.timer = "off"], p, a))
-----------------------------------------------------------------------------
(* What happens. *)

MayQuit == end["ini"].quits + end["tgt"].quits < MaxQuits
What(n) == {"none", "send"} \cup IF MayQuit THEN {"quit"} ELSE {}

(* What the applications may do in the callbacks of a step of end n, and   *)
(* whether a transmission in it fails.                                     *)
Doing(onSent, onRecv, onUp, fails) ==
  {a \in [onSent : onSent, onRecv : onRecv, onUp : onUp, fails : fails] :
     a.fails => env.faults < MaxFaults}
Transmitting(n) == IF n = "tgt" THEN Doing(What(n), {"none"}, {"none"}, BOOLEAN)
                   ELSE Doing({"none"}, {"none"}, {"none"}, {FALSE})

(* The exchange waits for one frame of the target. *)
Answered(y) == IF y.out # <<>> /\ end["ini"].exchanging THEN Head(y.out) ELSE air["ini"]

Ready(n) == [end[n] EXCEPT !.out = <<>>]
Becomes(n, y) ==
  /\ end' = [end EXCEPT ![n] = y]
  /\ air' = [air EXCEPT !["ini"] = Answered(y)]
Counting(fault) == env' = [env EXCEPT !.faults = IF fault THEN @ + 1 ELSE @]

Init ==
  /\ \E s \in Stacks : end = [n \in Ends |-> Start(n, s[n].version, s[n].params)]
  /\ air = [n \in Ends |-> NoFrame]
  /\ env = [session |-> 0, faults |-> 0]

(* Discovery finds the peer again.  The application may Reset the link.    *)
Connect ==
  /\ env.session < MaxSessions
  /\ \A n \in Ends : end[n].st = "RESET_INIT" /\ end[n].session = env.session
  /\ ~end["ini"].task.ticking /\ ~end["ini"].exchanging
  /\ \E kept \in SUBSET Ends :
       end' = [n \in Ends |-> [IF n \in kept THEN end[n] ELSE Reset(end[n], end[n].local)
                              EXCEPT !.task = NoTask]]
  /\ air' = [n \in Ends |-> NoFrame]
  /\ env' = [env EXCEPT !.session = @ + 1]

(* phlnLlcp_Fri_ChkLlcp of a peer that has LLCP. *)
ChkLlcp(n) ==
  /\ end[n].session < env.session
  /\ end[n].st = "RESET_INIT"
  /\ end' = [end EXCEPT ![n].st = "CHECKED", ![n].session = env.session]
  /\ UNCHANGED <<air, env>>

Activate(n) ==
  /\ end[n].st = "CHECKED"
  /\ \E a \in Doing({"none"}, {"none"}, What(n), {FALSE}) :
       \E tlvs \in {EncodeLinkParams(end[Other(n)].local, end[Other(n)].own)} :
         \E y \in {HandleMACLinkActivated(Ready(n), tlvs, a)} : Becomes(n, y)
  /\ UNCHANGED env

AppSend(n) ==
  /\ end[n].send = 0 /\ end[n].sent < MaxSends
  /\ end[n].st = "RECV" \/ (end[n].st = "SEND" /\ n \in SendsInTurn)
  /\ \E a \in Transmitting(n) :
       \E y \in {Send(Ready(n), a)} : Becomes(n, y) /\ Counting(a.fails)

AppDeactivate(n) ==
  /\ Operating(end[n]) /\ MayQuit
  /\ \E a \in Doing({"none"}, {"none"}, {"none"}, {FALSE}) :
       \E y \in {React(Ready(n), "quit", a)} : Becomes(n, y)
  /\ UNCHANGED env

(* The link can still go on without a timeout. *)
CanProceed ==
  \/ end["ini"].task.ticking
  \/ \E n \in Ends : end[n].timer = "send" \/ end[n].session < env.session \/ end[n].st = "CHECKED"
  \/ air["ini"] # NoFrame
  \/ (air["tgt"] # NoFrame /\ end["tgt"].task.action = "receive")

MayBeLate == CanProceed => env.faults < MaxFaults

(* The timer of the remote LTO: the answer did not come in time. *)
ReceptionTimeout(n) ==
  /\ end[n].timer = "recv" /\ MayBeLate
  /\ \E a \in Doing({"none"}, {"none"}, {"none"}, {FALSE}) :
       \E y \in {Timer_CBRecv([Ready(n) EXCEPT !.timer = "off"], a)} : Becomes(n, y)
  /\ Counting(CanProceed)

(* The timer that keeps the turn from lasting longer than the local LTO.   *)
TurnTimeout(n) ==
  /\ end[n].timer = "send"
  /\ \E a \in Transmitting(n) :
       \E y \in {Timer_CBSend([Ready(n) EXCEPT !.timer = "off"], a)} :
         Becomes(n, y) /\ Counting(a.fails)

(* phlnLlcp_Fri_OvrHal_Task starts the exchange of what the Tx buffer has. *)
Tick ==
  /\ end["ini"].task.ticking /\ ~end["ini"].exchanging
  /\ end' = [end EXCEPT !["ini"].task.ticking = FALSE, !["ini"].exchanging = TRUE]
  /\ air' = [air EXCEPT !["tgt"] = end["ini"].tx]
  /\ UNCHANGED env

(* What reaches an end instead of frame f. *)
Received(f) == {f} \cup IF f = Symm /\ env.faults < MaxFaults THEN Foreign ELSE {}

(* The reader of the target has a frame: the routine that is in the task   *)
(* gets it.                                                                *)
TargetReceives ==
  /\ air["tgt"] # NoFrame
  /\ end["tgt"].task.action # "none"
  /\ \E f \in Received(air["tgt"]), a \in Doing(What("tgt"), What("tgt"), {"none"}, BOOLEAN) :
       /\ f # air["tgt"] => ~a.fails
       /\ a.onRecv = "send" /\ a.onSent = "send" => "tgt" \in SendsAgain
       /\ \E y \in {IF end["tgt"].task.action = "receive"
                     THEN MacReceiveCb(Ready("tgt"), "SUCCESS", f, a)
                     ELSE MacSendCb(Ready("tgt"), "SUCCESS", a)} :
            /\ end' = [end EXCEPT !["tgt"] = y]
            /\ air' = [ini |-> Answered(y), tgt |-> NoFrame]
       /\ Counting(a.fails \/ f # air["tgt"])

(* phpalI18092mPI_Exchange returns with an answer ... *)
ExchangeReturns ==
  /\ end["ini"].exchanging /\ air["ini"] # NoFrame
  /\ \E f \in Received(air["ini"]), a \in Doing(What("ini"), What("ini"), {"none"}, {FALSE}) :
       /\ \E y \in {TransceiveCb([end["ini"] EXCEPT !.exchanging = FALSE], "SUCCESS", f, a)} :
            end' = [end EXCEPT !["ini"] = y]
       /\ Counting(f # air["ini"])
  /\ air' = [air EXCEPT !["ini"] = NoFrame]

(* ... or with an error, after which the frame is no longer on the air.    *)
ExchangeFails ==
  /\ end["ini"].exchanging /\ MayBeLate
  /\ \E a \in Doing(What("ini"), {"none"}, {"none"}, {FALSE}) :
       \E y \in {TransceiveCb([end["ini"] EXCEPT !.exchanging = FALSE], "IO_TIMEOUT", NoFrame, a)} :
         end' = [end EXCEPT !["ini"] = y]
  /\ air' = [n \in Ends |-> NoFrame]
  /\ Counting(CanProceed)

Lose(n) ==
  /\ air[n] # NoFrame /\ env.faults < MaxFaults
  /\ air' = [air EXCEPT ![n] = NoFrame]
  /\ env' = [env EXCEPT !.faults = @ + 1]
  /\ UNCHANGED end

Next ==
  \/ Connect
  \/ \E n \in Ends :
       \/ ChkLlcp(n) \/ Activate(n) \/ AppSend(n) \/ AppDeactivate(n)
       \/ ReceptionTimeout(n) \/ TurnTimeout(n) \/ Lose(n)
  \/ Tick \/ TargetReceives \/ ExchangeReturns \/ ExchangeFails

Spec == Init /\ [][Next]_vars

(* The applications activate the link once the peer is found, timers       *)
(* expire, the reader runs its task and an exchange ends.                  *)
FairSpec ==
  /\ Spec
  /\ \A n \in Ends :
       WF_vars(ChkLlcp(n)) /\ WF_vars(Activate(n)) /\ WF_vars(ReceptionTimeout(n)) /\ WF_vars(TurnTimeout(n))
  /\ WF_vars(Tick) /\ WF_vars(TargetReceives) /\ WF_vars(ExchangeReturns) /\ WF_vars(ExchangeFails)

-----------------------------------------------------------------------------
(* Properties. *)

(* Every Send that was accepted is called back exactly once, in order, and *)
(* none is outstanding at an end that is down: InternalDeactivate, the     *)
(* failing MAC and the late completion of an exchange do not all do it.    *)
CalledBackOnce ==
  \A n \in Ends :
    /\ \A i \in DOMAIN end[n].calls : end[n].calls[i].id = i
    /\ end[n].sent = Len(end[n].calls) + (IF end[n].send = 0 THEN 0 ELSE 1)
    /\ end[n].send # 0 => Operating(end[n])

(* What the initiator is told was sent, the target's transport has got:    *)
(* the answer of the target confirms it.  Nothing comes twice, or out of   *)
(* order, at either end.                                                   *)
SentMeansTaken ==
  /\ \A i \in DOMAIN end["ini"].calls :
       end["ini"].calls[i].status = "SUCCESS" => Contains(end["tgt"].got, i)
  /\ \A n \in Ends :
       LET got == SelectSeq(end[n].got, LAMBDA i : i # 0)
       IN \A i, j \in DOMAIN got : i < j => got[i] < got[j]

(* While nothing is lost or late, an active link only ends because an      *)
(* application ends it, or because the versions do not agree.              *)
LinkSurvives ==
  (\E n \in Ends : end[n].st = "RESET_INIT" /\ end[n].session = env.session /\ env.session > 0)
    => \/ env.faults > 0
       \/ \E n \in Ends : end[n].quits > 0
       \/ Major(end["ini"].own) # Major(end["tgt"].own)

(* A Send that was accepted is called back: by its confirmation, or by the *)
(* end of the link, which the LTO timer brings if nothing else does.       *)
SendReturns == \A n \in Ends : end[n].send # 0 ~> end[n].send = 0

=============================================================================
