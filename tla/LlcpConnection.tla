--------------------------- MODULE LlcpConnection ---------------------------
(***************************************************************************)
(* The data phase of LLCP connections: two devices, each running the       *)
(* transport of phlnLlcp_Fri_Transport.c and the connection-oriented       *)
(* procedures of phlnLlcp_Fri_Transport_Connection.c over the link of      *)
(* phlnLlcp_Fri_Llcp.c.  A device has one transport (one frame at a time   *)
(* below it) shared by a table of sockets; socket s of one device is       *)
(* connected to socket s of the other.                                     *)
(*                                                                         *)
(* A device is a record and each function of the source is an operator     *)
(* from devices to devices, so that a handler is the composition of the    *)
(* calls it makes and is one atomic action, as it is in the source (one    *)
(* callback, run to its end).  An SDU is its number in the order the       *)
(* application submitted it.  Fields marked (ghost) record history only.   *)
(***************************************************************************)
EXTENDS Integers, Sequences, FiniteSets

CONSTANTS
  NB_SOCKET_MAX,  \* entries of the socket table
  Used,           \* the sockets that are connected; the others are free
  RW,             \* RW[d]: receive window (localRW) of the sockets of device d
  MaxSdu,         \* MaxSdu[d][s]: SDUs the application of d submits on s
  Base            \* SDUs exchanged on every socket before the initial state

Peer == {"initiator", "target"}
Other(d) == IF d = "initiator" THEN "target" ELSE "initiator"
Sockets == 0 .. (NB_SOCKET_MAX - 1)

ASSUME SocketAssumption == NB_SOCKET_MAX \in Nat \ {0} /\ Used \subseteq Sockets
ASSUME WindowAssumption == RW \in [Peer -> 1 .. 15]
ASSUME SduAssumption == MaxSdu \in [Peer -> [Sockets -> Nat]] /\ Base \in Nat

Mod == 16

-----------------------------------------------------------------------------
(* Frames.  extra says that an RR or RNR frame carries information octets. *)

Frame == [type : {"I", "RR", "RNR", "FRMR", "SYMM", "none"}, s : Sockets,
          ns : 0 .. 15, nr : 0 .. 15, sdu : Nat, extra : BOOLEAN]

Pdu(type, s, ns, nr, sdu) ==
  [type |-> type, s |-> s, ns |-> ns, nr |-> nr, sdu |-> sdu, extra |-> FALSE]

NoFrame == Pdu("none", 0, 0, 0, 0)
Symm == Pdu("SYMM", 0, 0, 0, 0)
HasInfo(f) == f.type \in {"I", "FRMR"}

-----------------------------------------------------------------------------
(* Socket and device records. *)

Socket(w) ==
  [state : {"Connected", "Default"},
   VS : 0 .. 15, VSA : 0 .. 15, VR : 0 .. 15, VRA : 0 .. 15,
   sendPending : BOOLEAN,      \* bSocketSendPending
   rrPending : BOOLEAN,        \* bSocketRRPending
   rnrPending : BOOLEAN,       \* bSocketRNRPending
   recvPending : BOOLEAN,      \* bSocketRecvPending, pfSocketRecv_Cb # NULL
   sendCb : BOOLEAN,           \* pfSocketSend_Cb # NULL
   busy : BOOLEAN,             \* ReceiverBusyCondition
   remoteBusy : BOOLEAN,       \* RemoteBusyConditionInfo
   rd : Nat, wr : Nat,         \* indexRwRead, indexRwWrite
   ring : [0 .. (w - 1) -> Nat],  \* sSocketRwBufferTable; 0 is a free entry
   accepted : Nat,             \* SDUs Send took; also sSocketSendBuffer
   confirmed : Nat,            \* (ghost) Send callbacks called with success
   transmitted : Nat,          \* (ghost) I frames put on the wire
   received : Seq(Nat)]        \* (ghost) SDUs handed to the application

Device(w) ==
  [state : {"SEND", "RECV"},   \* Llcp->state
   slot : Frame,               \* the frame Llcp holds: pfSendCB # NULL
   sent : BOOLEAN,             \* psSendHeader = NULL: the slot is transmitted
   info : BOOLEAN,             \* psSendInfo->length # 0
   out : Frame,                \* what this device has on the wire
   bSendPending : BOOLEAN,
   linkCb : BOOLEAN,           \* pfLinkSendCb # NULL
   frmr : Frame,               \* bFrmrPending and its header and payload
   socketIndex : Sockets,
   sock : [Sockets -> Socket(w)]]

VARIABLE dev
vars == <<dev>>

InitSocket(w, s) ==
  [state |-> IF s \in Used THEN "Connected" ELSE "Default",
   VS |-> Base % Mod, VSA |-> Base % Mod, VR |-> Base % Mod, VRA |-> Base % Mod,
   sendPending |-> FALSE, rrPending |-> FALSE, rnrPending |-> FALSE,
   recvPending |-> FALSE, sendCb |-> FALSE, busy |-> FALSE, remoteBusy |-> FALSE,
   rd |-> 0, wr |-> 0, ring |-> [i \in 0 .. (w - 1) |-> 0],
   accepted |-> 0, confirmed |-> 0, transmitted |-> 0, received |-> <<>>]

InitDevice(d) ==
  [state |-> IF d = "initiator" THEN "SEND" ELSE "RECV",
   slot |-> NoFrame, sent |-> FALSE, info |-> FALSE, out |-> NoFrame,
   bSendPending |-> FALSE, linkCb |-> FALSE, frmr |-> NoFrame, socketIndex |-> 0,
   sock |-> [s \in Sockets |-> InitSocket(RW[d], s)]]

Init == dev = [d \in Peer |-> InitDevice(d)]

-----------------------------------------------------------------------------
(* Link: phlnLlcp_Fri_Llcp.c. *)

Update(x, s, k) == [x EXCEPT !.sock[s] = k]

(* InternalSend: the frame goes on the wire and the turn to the peer. *)
InternalSend(x, f) ==
  LET y == [x EXCEPT !.state = "RECV", !.out = f]
  IN IF f.type = "I"
     THEN Update(y, f.s, [y.sock[f.s] EXCEPT !.transmitted = @ + 1])
     ELSE y

(* (mutant) A frame is transmitted whoever has the turn. *)
AnyTurn(x) == TRUE

OurTurn(x) == x.state = "SEND"

(* L_Send.  A second frame is refused while the first is not called back;  *)
(* in our turn the frame is transmitted now; otherwise it is queued, and   *)
(* psSendInfo is overwritten only if the frame has information.            *)
LinkAccepts(x) == x.slot = NoFrame

LlcSend(x, f) ==
  IF ~LinkAccepts(x) THEN x
  ELSE IF OurTurn(x)
       THEN InternalSend([x EXCEPT !.slot = f, !.sent = TRUE], f)
       ELSE [x EXCEPT !.slot = f, !.sent = FALSE, !.info = @ \/ HasInfo(f)]

(* HandlePendingSend: a queued frame is transmitted with psSendInfo as its *)
(* information, whatever frame psSendInfo was filled for.                  *)
Queued(x) == x.slot # NoFrame /\ ~x.sent

HandlePendingSend(x) ==
  IF ~Queued(x) THEN x
  ELSE InternalSend([x EXCEPT !.sent = TRUE],
                    [x.slot EXCEPT !.extra = x.info /\ ~HasInfo(x.slot)])

(* phlnLlcp_Fri_Transport_LinkSend: BUSY while a callback is registered.   *)
LinkSend(x, f) ==
  IF x.linkCb \/ ~LinkAccepts(x) THEN x
  ELSE LlcSend([x EXCEPT !.linkCb = TRUE], f)

-----------------------------------------------------------------------------
(* Frames a socket sends: phlnLlcp_Fri_Transport_Connection.c. *)

AbsSub(a, b) == IF a > b THEN a - b ELSE b - a

(* CHECK_SEND_RW, where w is remoteRW, the window of the peer. *)
CheckSendRW(k, w) == AbsSub(k.VS, k.VSA) % Mod < w

NextNumber(n) == (n + 1) % Mod

AckNumber(k) == k.VR

PerformSendInfo(x, s) ==
  LET k == x.sock[s]
      y == Update([x EXCEPT !.bSendPending = TRUE, !.socketIndex = s], s,
                  [k EXCEPT !.sendPending = FALSE, !.VRA = AckNumber(k),
                            !.VS = NextNumber(@)])
  IN LinkSend(y, Pdu("I", s, k.VS, AckNumber(k), k.accepted))

SendSupervisory(x, s, type) ==
  LET k == x.sock[s]
      y == Update([x EXCEPT !.bSendPending = TRUE, !.socketIndex = s], s,
                  [k EXCEPT !.VRA = AckNumber(k)])
  IN LinkSend(y, Pdu(type, s, 0, AckNumber(k), 0))

SendReceiveReady(x, s) ==
  IF x.bSendPending
  THEN Update(x, s, [x.sock[s] EXCEPT !.rrPending = TRUE])
  ELSE SendSupervisory(x, s, "RR")

SendReceiveNotReady(x, s) ==
  IF x.bSendPending
  THEN Update(x, s, [x.sock[s] EXCEPT !.rnrPending = TRUE])
  ELSE SendSupervisory(x, s, "RNR")

(* Transport_Send: refused unless Connected with no Send outstanding. *)
CanSend(d, x, s) ==
  /\ x.sock[s].state = "Connected"
  /\ ~x.sock[s].sendCb
  /\ x.sock[s].accepted < MaxSdu[d][s]

MustWait(d, x, s) == ~CheckSendRW(x.sock[s], RW[Other(d)]) \/ x.bSendPending

Send(d, x, s) ==
  LET y == Update(x, s, [x.sock[s] EXCEPT !.sendCb = TRUE, !.accepted = @ + 1,
                           !.sendPending = @ \/ MustWait(d, x, s)])
  IN IF MustWait(d, x, s) THEN y ELSE PerformSendInfo(y, s)

(* What an application does inside a callback: nothing, Recv, Send, or a   *)
(* reply, a Send that also tells the transport that no RR is needed        *)
(* (bRecvReady_NotRequired, as SNEP does).                                 *)
Reaction == {"none", "recv", "send", "reply"}

CanReact(d, x, s, react) ==
  CASE react = "none" -> TRUE
    [] react = "recv" -> x.sock[s].state = "Connected" /\ ~x.sock[s].recvPending
                         /\ x.sock[s].rd = x.sock[s].wr
    [] OTHER -> CanSend(d, x, s)

AwaitSdu(x, s) == Update(x, s, [x.sock[s] EXCEPT !.recvPending = TRUE])

React(d, x, s, react) ==
  CASE react = "none" -> x
    [] react = "recv" -> AwaitSdu(x, s)
    [] OTHER -> Send(d, x, s)

-----------------------------------------------------------------------------
(* Completion of a frame. *)

(* SendLlcp_CB with success, up to the call of the Send callback: it is    *)
(* the socket socketIndex names that is called back.                       *)
CallsBack(x) ==
  LET k == x.sock[x.socketIndex]
  IN x.linkCb /\ k.state = "Connected" /\ ~k.sendPending /\ k.sendCb

SendLlcp_CB(x) ==
  LET y == [x EXCEPT !.linkCb = FALSE]
  IN IF CallsBack(x)
     THEN Update(y, x.socketIndex,
            [y.sock[x.socketIndex] EXCEPT !.sendCb = FALSE, !.confirmed = @ + 1])
     ELSE y

(* HandlePendingOperations does something, that is, does not return FAILED:*)
(* a pending I frame behind a closed window hides a pending RR or RNR.     *)
HasPendingOperation(d, k) ==
  IF k.sendPending THEN CheckSendRW(k, RW[Other(d)])
  ELSE k.rrPending \/ k.rnrPending

HandlePendingOperations(x, s) ==
  LET k == x.sock[s]
  IN IF k.sendPending THEN PerformSendInfo(x, s)
     ELSE IF k.rrPending
     THEN SendReceiveReady(Update(x, s, [k EXCEPT !.rrPending = FALSE]), s)
     ELSE SendReceiveNotReady(Update(x, s, [k EXCEPT !.rnrPending = FALSE]), s)

(* The loop of Send_CB: from the socket after socketIndex, round the table,*)
(* the first that has something pending.  A free entry leaves the result   *)
(* of the rejection sent before the loop in place, which ends the loop.    *)
After(x, i) == (x.socketIndex + i) % NB_SOCKET_MAX

PollSockets(d, x, rejected) ==
  LET ready == {i \in 1 .. NB_SOCKET_MAX :
                  /\ x.sock[After(x, i)].state = "Connected"
                  /\ HasPendingOperation(d, x.sock[After(x, i)])}
      stop == rejected /\ x.sock[After(x, 1)].state = "Default"
  IN IF ready = {} \/ stop THEN x
     ELSE HandlePendingOperations(x,
            After(x, CHOOSE i \in ready : \A j \in ready : i <= j))

(* (mutant) The pending rejection is sent without setting bSendPending. *)
SendPendingRejectUnmarked(x) ==
  IF x.frmr = NoFrame THEN x
  ELSE LlcSend([x EXCEPT !.frmr = NoFrame], x.frmr)

SendPendingReject(x) ==
  IF x.frmr = NoFrame THEN x
  ELSE LlcSend([x EXCEPT !.bSendPending = TRUE, !.frmr = NoFrame], x.frmr)

(* Send_CB up to the application's callback: a pending rejection first. *)
CompleteFrame(x) ==
  SendLlcp_CB(SendPendingReject(
    [x EXCEPT !.slot = NoFrame, !.sent = FALSE, !.bSendPending = FALSE]))

-----------------------------------------------------------------------------
(* Handlers of incoming frames. *)

(* Close of a socket that is not Connected: everything but the pending RR  *)
(* and RNR flags is reset, and the callbacks are aborted.                  *)
Close(x, s) ==
  Update(x, s,
    [x.sock[s] EXCEPT
       !.state = "Default", !.VS = 0, !.VSA = 0, !.VR = 0, !.VRA = 0,
       !.sendPending = FALSE, !.recvPending = FALSE, !.sendCb = FALSE,
       !.busy = FALSE, !.remoteBusy = FALSE, !.rd = 0, !.wr = 0])

(* The header of a rejection is kept in the transport, and the link queues *)
(* a frame by reference: a second rejection rewrites one that is queued.   *)
RewriteQueuedReject(x, f) ==
  IF Queued(x) /\ x.slot.type = "FRMR" THEN [x EXCEPT !.slot = f] ELSE x

SendFrameReject(x, s) ==
  LET f == Pdu("FRMR", s, 0, 0, 0)
      y == RewriteQueuedReject(Close(x, s), f)
  IN IF y.bSendPending THEN [y EXCEPT !.frmr = f]
     ELSE LlcSend([y EXCEPT !.bSendPending = TRUE], f)

(* The loop over nr_val: from nr, VS is met before VSA comes round again. *)
ValidNr(k, nr) == (k.VS - nr) % Mod <= (k.VS - k.VSA) % Mod

ValidNs(k, ns, w) == (ns - k.VRA) % Mod < w

(* After the Receive callback: an I frame that waits acknowledges, else RR.*)
Acknowledge(d, x, s, replied) ==
  LET k == x.sock[s]
  IN IF k.sendPending /\ CheckSendRW(k, RW[Other(d)])
     THEN IF x.bSendPending THEN x ELSE PerformSendInfo(x, s)
     ELSE IF replied THEN x ELSE SendReceiveReady(x, s)

HasRoom(k, w) == k.wr - k.rd < w /\ k.ring[k.wr % w] = 0

(* An SDU that cannot be handed over is kept in the receive window; the    *)
(* first one starts the busy condition with an RNR.                        *)
Store(d, x, s, sdu) ==
  LET k == x.sock[s]
      stored == Update(x, s, [k EXCEPT !.ring[k.wr % RW[d]] = sdu,
                                       !.busy = TRUE, !.wr = @ + 1])
  IN IF ~HasRoom(k, RW[d]) THEN x
     ELSE IF k.busy THEN stored
     ELSE SendReceiveNotReady(stored, s)

HandsOver(k) == k.recvPending /\ k.wr = k.rd

Deliver(x, f) ==
  Update(x, f.s, [x.sock[f.s] EXCEPT !.VSA = f.nr, !.recvPending = FALSE,
                                     !.VR = NextNumber(@),
                                     !.received = Append(@, f.sdu)])

(* Each handler yields the devices it may leave, one for each reaction of *)
(* the application to the callback it makes.                              *)
HandleIFrame(d, x, f) ==
  LET k == x.sock[f.s]
      y == Deliver(x, f)
  IN IF k.state # "Connected" THEN {x}
     ELSE IF ~ValidNr(k, f.nr) \/ ~ValidNs(k, f.ns, RW[d])
     THEN {SendFrameReject(x, f.s)}
     ELSE IF HandsOver(k)
     THEN {Acknowledge(d, React(d, y, f.s, r), f.s, r = "reply") :
             r \in {q \in Reaction : CanReact(d, y, f.s, q)}}
     ELSE {Store(d, Update(x, f.s, [k EXCEPT !.VSA = f.nr]), f.s, f.sdu)}

SendsNow(x, k) == k.sendPending /\ ~x.bSendPending

(* A pending I frame is sent without looking at the window. *)
HandleReceiveReady(x, f) ==
  LET k == x.sock[f.s]
      y == Update(x, f.s, [k EXCEPT !.VSA = f.nr, !.remoteBusy = FALSE])
  IN IF k.state # "Connected" THEN {x}
     ELSE IF ~ValidNr(k, f.nr) \/ f.extra THEN {SendFrameReject(x, f.s)}
     ELSE IF SendsNow(x, k) THEN {PerformSendInfo(y, f.s)}
     ELSE {y}

HandleReceiveNotReady(d, x, f) ==
  LET k == x.sock[f.s]
      y == Update(x, f.s, [k EXCEPT !.VSA = f.nr, !.remoteBusy = TRUE])
  IN IF k.state # "Connected" THEN {x}
     ELSE IF ~ValidNr(k, f.nr) \/ f.extra THEN {SendFrameReject(x, f.s)}
     ELSE IF SendsNow(x, k) /\ CheckSendRW(y.sock[f.s], RW[Other(d)])
     THEN {PerformSendInfo(y, f.s)}
     ELSE {y}

HandleFrameReject(x, f) ==
  IF x.sock[f.s].state = "Connected" THEN {Close(x, f.s)} ELSE {x}

HandleIncomingPacket(d, x, f) ==
  CASE f.type = "I" -> HandleIFrame(d, x, f)
    [] f.type = "RR" -> HandleReceiveReady(x, f)
    [] f.type = "RNR" -> HandleReceiveNotReady(d, x, f)
    [] f.type = "FRMR" -> HandleFrameReject(x, f)
    [] OTHER -> {x}

-----------------------------------------------------------------------------
(* Actions. *)

(* The application calls Send. *)
AppSend(d, s) ==
  /\ CanSend(d, dev[d], s)
  /\ dev' = [dev EXCEPT ![d] = Send(d, @, s)]

(* A Recv may be called: Connected, and none is pending. *)
CanRecv(k) == k.state = "Connected" /\ ~k.recvPending

(* The application calls Recv with nothing stored: the call is pending. *)
AppRecv(d, s) ==
  /\ CanRecv(dev[d].sock[s])
  /\ dev[d].sock[s].rd = dev[d].sock[s].wr
  /\ dev' = [dev EXCEPT ![d] = AwaitSdu(@, s)]

FreeRing(k, w, n) ==
  [i \in 0 .. (w - 1) |->
     IF \E j \in 0 .. (n - 1) : i = (k.rd + j) % w THEN 0 ELSE k.ring[i]]

(* (mutant) The newest stored SDU is taken first. *)
DrainNewest(x, s, w, n) ==
  LET k == x.sock[s]
  IN Update(x, s,
       [k EXCEPT !.received = @ \o [i \in 1 .. n |-> k.ring[(k.wr - i) % w]],
                 !.ring = FreeRing(k, w, n),
                 !.VR = (@ + n) % Mod,
                 !.rd = @ + n])

(* The application calls Recv and takes n stored SDUs, calling Recv again  *)
(* in each callback but the last.                                          *)
Drain(x, s, w, n) ==
  LET k == x.sock[s]
  IN Update(x, s,
       [k EXCEPT !.received =
                   @ \o [i \in 1 .. n |-> k.ring[(k.rd + i - 1) % w]],
                 !.ring = FreeRing(k, w, n),
                 !.VR = (@ + n) % Mod,
                 !.rd = @ + n])

(* (mutant) The busy condition ends without an RR. *)
EndBusySilently(x, s) == Update(x, s, [x.sock[s] EXCEPT !.busy = FALSE])

(* The innermost Recv ends the busy condition after the last callback. *)
EndBusy(x, s) ==
  IF x.sock[s].busy
  THEN SendReceiveReady(Update(x, s, [x.sock[s] EXCEPT !.busy = FALSE]), s)
  ELSE x

AppRecvStored(d, s) ==
  /\ CanRecv(dev[d].sock[s])
  /\ \E n \in 1 .. (dev[d].sock[s].wr - dev[d].sock[s].rd), r \in Reaction :
     \E y \in {Drain(dev[d], s, RW[d], n)} :
       /\ CanReact(d, y, s, r)
       /\ dev' = [dev EXCEPT ![d] = EndBusy(React(d, y, s, r), s)]

(* The link completes the frame it transmitted: L_Send_CB, then Send_CB.   *)
SendDone(d) ==
  /\ dev[d].sent
  /\ \E y \in {CompleteFrame(dev[d])}, r \in {"none", "send"} :
       /\ r = "send" => CallsBack(dev[d]) /\ CanSend(d, y, dev[d].socketIndex)
       /\ \E z \in {React(d, y, dev[d].socketIndex, r)} :
            dev' = [dev EXCEPT ![d] = PollSockets(d, z, dev[d].frmr # NoFrame)]

(* The link receives what the peer has on the wire: it is our turn, the    *)
(* frame is handled, and a queued frame is transmitted.  The completion of *)
(* the frame transmitted in the last turn comes first (Transceive_Cb).     *)
Receive(d) ==
  /\ dev[Other(d)].out # NoFrame
  /\ ~dev[d].sent
  /\ \E x \in {[dev[d] EXCEPT !.state = "SEND"]} :
     \E y \in HandleIncomingPacket(d, x, dev[Other(d)].out) :
       dev' = [dev EXCEPT ![d] = HandlePendingSend(y),
                          ![Other(d)].out = NoFrame]

(* The symmetry timer in our turn: a queued frame, else a SYMM. *)
SymmetryTurn(x) == IF Queued(x) THEN HandlePendingSend(x) ELSE InternalSend(x, Symm)

SendSymm(d) ==
  /\ OurTurn(dev[d])
  /\ dev' = [dev EXCEPT ![d] = SymmetryTurn(@)]

Next ==
  \E d \in Peer :
    \/ \E s \in Sockets : AppSend(d, s) \/ AppRecv(d, s) \/ AppRecvStored(d, s)
    \/ SendDone(d)
    \/ Receive(d)
    \/ SendSymm(d)

Spec == Init /\ [][Next]_vars

(* The link goes on exchanging frames, SYMM when there is nothing else     *)
(* (the symmetry timer), and completes what it transmitted; an application *)
(* calls Recv again and again.  At most one of the three link actions of a *)
(* device is enabled in a state.                                           *)
Fairness ==
  \A d \in Peer :
    /\ WF_vars(SendDone(d) \/ Receive(d) \/ SendSymm(d))
    /\ \A s \in Used : WF_vars(AppRecv(d, s) \/ AppRecvStored(d, s))

FairSpec == Spec /\ Fairness

-----------------------------------------------------------------------------
(* Properties. *)

(* The fields keep their ranges: the sequence variables are 4-bit numbers, *)
(* the frames are well formed, the receive window keeps its size.          *)
TypeOK == dev = [d \in Peer |-> dev[d]] /\ \A d \in Peer : dev[d] \in Device(RW[d])

Connected(d, s) == dev[d].sock[s].state = "Connected"

(* Exactly one device has the turn, or exactly one frame is on its way: the*)
(* two ends of the link never both transmit.                               *)
OneTurn ==
  \A d \in Peer :
    LET x == dev[d]
        y == dev[Other(d)]
    IN \/ x.state # y.state /\ x.out = NoFrame /\ y.out = NoFrame
       \/ x.state = "RECV" /\ y.state = "RECV"
          /\ (x.out = NoFrame) # (y.out = NoFrame)

(* bSendPending says exactly that the link holds a frame of this transport *)
(* and a registered callback implies one: so a frame that is sent when     *)
(* bSendPending is clear is never refused, and no acknowledgement is lost. *)
LinkHoldsPendingFrame ==
  \A d \in Peer :
    LET x == dev[d]
    IN /\ x.bSendPending <=> x.slot # NoFrame
       /\ x.linkCb => x.bSendPending
       /\ x.sent => x.slot # NoFrame /\ x.state = "RECV"

(* Both ends hold back an I frame that the other's window does not admit,  *)
(* and with it the RR that would open the window: the code stops for good. *)
HeldBack(d, s) ==
  dev[d].sock[s].sendPending /\ ~CheckSendRW(dev[d].sock[s], RW[Other(d)])
Deadlocked(s) == \A d \in Peer : HeldBack(d, s)

(* Nothing is left for the end to wait for.                                *)
Settled(d, s) ==
  /\ ~dev[d].sock[s].sendCb
  /\ dev[d].sock[s].VS = dev[d].sock[s].VSA \/ ~Connected(Other(d), s)

(* Every Send is called back, with success or by an abort, and every I     *)
(* frame acknowledged unless an end of the connection closes; but for the  *)
(* two ends that hold each other back.                                     *)
EventuallySettled == <>[](\A s \in Used : Deadlocked(s) \/ \A d \in Peer : Settled(d, s))

-----------------------------------------------------------------------------
(* The transport implements the channel, end by end. *)

Ends == Peer \X Used
FarEnd(e) == <<Other(e[1]), e[2]>>
At(e) == dev[e[1]].sock[e[2]]

Channel == INSTANCE LlcpChannel WITH
  End <- Ends, Far <- FarEnd,
  open <- [e \in Ends |-> At(e).state = "Connected"],
  submitted <- [e \in Ends |-> At(e).accepted],
  carried <- [e \in Ends |-> At(e).transmitted],
  confirmed <- [e \in Ends |-> At(e).confirmed],
  received <- [e \in Ends |-> At(e).received]

(* SDUs are handed over in the order of their submission, each once, and a *)
(* Send is confirmed only when its SDU is on the way.                      *)
ImplementsChannel == Channel!Spec
=============================================================================
