----------------------------- MODULE LlcpSocket -----------------------------
(***************************************************************************)
(* The life of connection-oriented LLCP sockets: created, bound, listening,*)
(* connected, disconnected, closed and used again, on two devices that run *)
(* phlnLlcp_Fri_Transport.c and phlnLlcp_Fri_Transport_Connection.c over   *)
(* the link of phlnLlcp_Fri_Llcp.c.  LlcpConnection models the data phase; *)
(* here a connection carries at most one SDU and the subject is the table  *)
(* of sockets, the flags of what waits, and the callbacks.                 *)
(*                                                                         *)
(* As there, a device is a record and each function an operator from       *)
(* devices to devices.  The link holds a frame by reference to its header: *)
(* a socket's own, the transport's, or that of the DM frames.              *)
(***************************************************************************)
EXTENDS Integers, FiniteSets, FiniteSetsExt

CONSTANTS
  NB_SOCKET_MAX,  \* entries of the socket table
  Serves,         \* the devices whose application listens
  Connects,       \* the devices whose application connects
  ConnectTo,      \* the SAPs it connects to
  Answers,        \* what Listen's callback may do
  Disconnects,    \* the devices whose application disconnects
  Hasty,          \* those that do with a Send that is not called back
  Sends,          \* the devices whose application sends
  Retries,        \* the devices whose Connect callback calls Connect again
  Closes          \* the devices whose application closes a socket in any state

Peer == {"initiator", "target"}
Other(d) == IF d = "initiator" THEN "target" ELSE "initiator"
Sockets == 0 .. (NB_SOCKET_MAX - 1)

SDP == 1              \* PHLNLLCP_FRI_SAP_SDP
Service == 4          \* the well-known SAP the application listens on
Unadvertised == 32    \* PHLNLLCP_FRI_SAP_SDP_UNADVERTISED_FIRST
NoSap == 255          \* PHLNLLCP_FRI_SAP_DEFAULT

ASSUME TableAssumption == NB_SOCKET_MAX \in Nat \ {0}
ASSUME RoleAssumption ==
  /\ Serves \subseteq Peer /\ Connects \subseteq Peer
  /\ Disconnects \subseteq Peer /\ Hasty \subseteq Disconnects /\ Sends \subseteq Peer /\ Retries \subseteq Peer
  /\ Closes \subseteq Peer
  /\ ConnectTo \subseteq {SDP, Service}
  /\ Answers \subseteq {"none", "accept", "reject"}

-----------------------------------------------------------------------------
(* Headers, frames, sockets and devices. *)

Sap == {NoSap, 0, SDP, Service} \cup (Unadvertised .. (Unadvertised + NB_SOCKET_MAX))
Opcode == {"disconnected", "rejected", "nosocket", "nosap"}
Type == {"CONNECT", "CC", "DISC", "DM", "FRMR", "I", "RR", "RNR",
         "SYMM", "none"}

Header == [type : Type, dsap : Sap, ssap : Sap]
Hdr(t, dsap, ssap) == [type |-> t, dsap |-> dsap, ssap |-> ssap]
NoHeader == Hdr("none", NoSap, NoSap)

(* info stands for the information field: none, a service name, an SDU, the*)
(* payload of an FRMR, or the opcode of a DM.                              *)
Info == {"none", "name", "sdu", "frmr"} \cup Opcode
Frame == [hdr : Header, info : Info]
NoFrame == [hdr |-> NoHeader, info |-> "none"]
Symm == [hdr |-> Hdr("SYMM", 0, 0), info |-> "none"]

(* What the link's psSendHeader points at. *)
Free == -1                  \* nothing: pfSendCB = NULL
DmHeader == NB_SOCKET_MAX   \* sDmHeader
OwnHeader == DmHeader + 1   \* sLlcpHeader of the transport, for FRMR

Socket ==
  [state : {"Default", "Created", "Bound", "Registered", "Connected", "Connecting",
            "Accepted", "Disconnected", "Disconnecting", "Rejected"},
   sSap : Sap, dSap : Sap,
   hdr : Header,            \* sLlcpHeader
   listen : BOOLEAN,        \* bSocketListenPending
   recv : BOOLEAN,          \* bSocketRecvPending, pfSocketRecv_Cb # NULL
   send : BOOLEAN, rr : BOOLEAN, rnr : BOOLEAN,         \* what waits to be sent:
   accept : BOOLEAN, connect : BOOLEAN, disc : BOOLEAN, \* bSocket...Pending
   sendCb : BOOLEAN, acceptCb : BOOLEAN, connectCb : BOOLEAN,  \* # NULL
   errCb : BOOLEAN,
   disconnectCb : {"none", "app", "close"},  \* NULL, the caller's, DisconnectClose_CB
   spent : BOOLEAN]         \* (bound) the connection's SDU was submitted

Device ==
  [state : {"SEND", "RECV"},
   slot : Free .. OwnHeader, sent : BOOLEAN,  \* psSendHeader, and NULL once sent
   info : Info,             \* psSendInfo
   out : Frame,             \* what this device has on the wire
   bSendPending : BOOLEAN,
   linkCb : BOOLEAN,        \* pfLinkSendCb # NULL
   frmr : BOOLEAN,          \* bFrmrPending
   lHdr : Header, dmHdr : Header,
   dm : BOOLEAN, dmInfo : [dsap : Sap, ssap : Sap, op : Opcode],  \* bDmPending
   socketIndex : Sockets,
   sock : [Sockets -> Socket],
   null : BOOLEAN]          \* (ghost) a NULL callback was called

VARIABLE dev
vars == <<dev>>

InitSocket ==
  [state |-> "Default", sSap |-> NoSap, dSap |-> NoSap, hdr |-> NoHeader,
   listen |-> FALSE, recv |-> FALSE, send |-> FALSE, rr |-> FALSE, rnr |-> FALSE,
   accept |-> FALSE, connect |-> FALSE, disc |-> FALSE,
   sendCb |-> FALSE, acceptCb |-> FALSE, connectCb |-> FALSE,
   errCb |-> FALSE, disconnectCb |-> "none", spent |-> FALSE]

Init ==
  dev = [d \in Peer |->
          [state |-> IF d = "initiator" THEN "SEND" ELSE "RECV",
           slot |-> Free, sent |-> FALSE, info |-> "none", out |-> NoFrame,
           bSendPending |-> FALSE, linkCb |-> FALSE, frmr |-> FALSE,
           lHdr |-> NoHeader, dmHdr |-> NoHeader, dm |-> FALSE,
           dmInfo |-> [dsap |-> 0, ssap |-> 0, op |-> "nosap"],
           socketIndex |-> 0, sock |-> [s \in Sockets |-> InitSocket],
           null |-> FALSE]]

-----------------------------------------------------------------------------
(* Link: phlnLlcp_Fri_Llcp.c. *)

Update(x, s, k) == [x EXCEPT !.sock[s] = k]

Transmit(x, f) == [x EXCEPT !.state = "RECV", !.out = f]

HeaderAt(x, ref) ==
  IF ref = DmHeader THEN x.dmHdr
  ELSE IF ref = OwnHeader THEN x.lHdr ELSE x.sock[ref].hdr

(* L_Send: refused while a frame is not called back; in our turn the frame *)
(* goes out; otherwise it is queued, the header by reference and the       *)
(* information copied, unless there is none (null), which leaves the old.  *)
LlcSend(x, ref, info) ==
  IF x.slot # Free THEN x
  ELSE IF x.state = "SEND"
  THEN Transmit([x EXCEPT !.slot = ref, !.sent = TRUE],
                [hdr |-> HeaderAt(x, ref),
                 info |-> IF info = "null" THEN "none" ELSE info])
  ELSE [x EXCEPT !.slot = ref, !.sent = FALSE,
                 !.info = IF info = "null" THEN @ ELSE info]

Queued(x) == x.slot # Free /\ ~x.sent

HandlePendingSend(x) ==
  IF ~Queued(x) THEN x
  ELSE Transmit([x EXCEPT !.sent = TRUE],
                [hdr |-> HeaderAt(x, x.slot), info |-> x.info])

(* phlnLlcp_Fri_Transport_LinkSend refuses while a callback is registered. *)
LinkAccepts(x) == ~x.linkCb /\ x.slot = Free

LinkSend(x, s, info) ==
  IF LinkAccepts(x) THEN LlcSend([x EXCEPT !.linkCb = TRUE], s, info) ELSE x

-----------------------------------------------------------------------------
(* The header and the opcode byte of the DM frames are shared: a DM that   *)
(* waits is one record, which the next one overwrites.                     *)
SendDisconnectMode(x, dsap, ssap, op) ==
  IF x.bSendPending
  THEN [x EXCEPT !.dm = TRUE, !.dmInfo = [dsap |-> dsap, ssap |-> ssap, op |-> op]]
  ELSE LlcSend([x EXCEPT !.dmHdr = Hdr("DM", dsap, ssap), !.dmInfo.op = op,
                         !.bSendPending = TRUE], DmHeader, op)

-----------------------------------------------------------------------------
(* Frames a socket sends, and the calls of the application. *)

SendHeader(x, s, k, info) ==
  LinkSend([Update(x, s, k) EXCEPT !.bSendPending = TRUE], s, info)

PerformSendInfo(x, s) ==
  LET k == x.sock[s]
  IN SendHeader([x EXCEPT !.socketIndex = s], s,
       [k EXCEPT !.send = FALSE, !.hdr = Hdr("I", k.dSap, k.sSap)], "sdu")

SendReceiveReady(x, s) ==
  LET k == x.sock[s]
  IN IF x.bSendPending THEN Update(x, s, [k EXCEPT !.rr = TRUE])
     ELSE SendHeader([x EXCEPT !.socketIndex = s], s,
            [k EXCEPT !.hdr = Hdr("RR", k.dSap, k.sSap)], "null")

SendReceiveNotReady(x, s) ==
  LET k == x.sock[s]
  IN IF x.bSendPending THEN Update(x, s, [k EXCEPT !.rnr = TRUE])
     ELSE SendHeader([x EXCEPT !.socketIndex = s], s,
            [k EXCEPT !.hdr = Hdr("RNR", k.dSap, k.sSap)], "null")

(* Send: with one SDU in a connection the window is open.  A refusal of    *)
(* the link is returned to the caller, and no callback stays registered.   *)
CanSend(d, k) == d \in Sends /\ k.state = "Connected" /\ ~k.sendCb /\ ~k.spent

Send(x, s) ==
  LET k == [x.sock[s] EXCEPT !.spent = TRUE, !.sendCb = x.bSendPending \/ LinkAccepts(x),
                             !.send = @ \/ x.bSendPending]
  IN IF x.bSendPending THEN Update(x, s, k) ELSE PerformSendInfo(Update(x, s, k), s)

(* GetFreeSap: the least SAP no socket uses that is bound or beyond. *)
FreeSap(x) ==
  Min({n \in Sap : n >= Unadvertised /\ n # NoSap
         /\ \A s \in Sockets : x.sock[s].state \in {"Default", "Created"}
                                 \/ x.sock[s].sSap # n})

NameOf(sap) == IF sap = SDP THEN "name" ELSE "none"

(* Connect, or ConnectByUri when the SAP is that of service discovery.     *)
CanConnect(d, k) == d \in Connects /\ k.state = "Created"

Connect(x, s, sap) ==
  LET bound == FreeSap(x)
      k == [x.sock[s] EXCEPT !.sSap = bound, !.dSap = sap, !.spent = FALSE,
              !.hdr = Hdr("CONNECT", sap, bound),
              !.connectCb = x.bSendPending \/ LinkAccepts(x)]
  IN IF x.bSendPending
     THEN Update(x, s, [k EXCEPT !.state = "Bound", !.connect = TRUE])
     ELSE SendHeader([x EXCEPT !.socketIndex = s], s,
                     [k EXCEPT !.state = "Connecting"], NameOf(sap))

(* The socket Listen's callback was given. *)
Incoming(k) == k.state = "Bound" /\ k.dSap # NoSap /\ ~k.connectCb

(* (mutant) The error callback is not registered. *)
AcceptWithoutErrCb(x, s) ==
  LET y == [x EXCEPT !.socketIndex = s]
      k == [x.sock[s] EXCEPT !.acceptCb = x.bSendPending \/ LinkAccepts(x)]
  IN IF x.bSendPending THEN Update(y, s, [k EXCEPT !.accept = TRUE])
     ELSE SendHeader(y, s, [k EXCEPT !.state = "Accepted",
                                     !.hdr = Hdr("CC", k.dSap, k.sSap)], "none")

Accept(x, s) ==
  LET y == [x EXCEPT !.socketIndex = s]
      k == [x.sock[s] EXCEPT !.errCb = TRUE,
                             !.acceptCb = x.bSendPending \/ LinkAccepts(x)]
  IN IF x.bSendPending THEN Update(y, s, [k EXCEPT !.accept = TRUE])
     ELSE SendHeader(y, s, [k EXCEPT !.state = "Accepted",
                                     !.hdr = Hdr("CC", k.dSap, k.sSap)], "none")

(* Reject keeps its callback where Send keeps its own. *)
Reject(x, s) ==
  LET k == x.sock[s]
  IN SendDisconnectMode(
       Update([x EXCEPT !.socketIndex = s], s, [k EXCEPT !.state = "Rejected", !.sendCb = TRUE]),
       k.dSap, k.sSap, "rejected")

(* A Send or Recv that waits is called back with an error.  The header is  *)
(* rewritten at once, even when a frame that uses it is queued.            *)
Disconnect(x, s, cb) ==
  LET k == x.sock[s]
      y == [k EXCEPT !.disconnectCb = cb, !.state = "Disconnecting",
              !.hdr = Hdr("DISC", k.dSap, k.sSap),
              !.send = FALSE, !.recv = FALSE,
              !.sendCb = @ /\ ~(k.send \/ k.recv)]
  IN IF x.bSendPending THEN Update(x, s, [y EXCEPT !.disc = TRUE])
     ELSE SendHeader([x EXCEPT !.socketIndex = s], s,
                     [y EXCEPT !.connectCb = @ /\ LinkAccepts(x)], "null")

(* What a close resets, with the abort of every callback.  The flags of a  *)
(* pending RR, RNR, CC or CONNECT are not reset, nor is the header.        *)
Reset(k) ==
  [InitSocket EXCEPT !.hdr = k.hdr, !.rr = k.rr, !.rnr = k.rnr,
                     !.accept = k.accept, !.connect = k.connect]

ConnectionOrientedClose(x, s) ==
  IF x.sock[s].state = "Connected" THEN Disconnect(x, s, "close")
  ELSE Update(x, s, Reset(x.sock[s]))

(* Transport_Close: the link may still hold a frame. *)
Close(x, s) ==
  [ConnectionOrientedClose(x, s) EXCEPT !.bSendPending = FALSE, !.linkCb = FALSE]

-----------------------------------------------------------------------------
(* Completion of a frame. *)

CallBack(x, registered) == [x EXCEPT !.null = @ \/ ~registered]

(* An application calls Recv as soon as it is connected. *)
SendLlcp_CB(x) ==
  LET s == x.socketIndex
      k == x.sock[s]
      y == [x EXCEPT !.linkCb = FALSE]
  IN IF ~x.linkCb THEN x
     ELSE CASE k.state = "Accepted" ->
                 Update(CallBack(y, k.acceptCb), s,
                   [k EXCEPT !.state = "Connected", !.acceptCb = FALSE,
                             !.recv = @ \/ k.acceptCb])
            [] k.state = "Rejected" -> Close(CallBack(y, k.sendCb), s)
            [] k.state = "Connected" /\ ~k.send ->
                 Update(y, s, [k EXCEPT !.sendCb = FALSE])
            [] OTHER -> y

(* A pending FRMR goes before a pending DM. *)
SendPendingReject(x) ==
  IF x.frmr
  THEN LlcSend([x EXCEPT !.bSendPending = TRUE, !.frmr = FALSE], OwnHeader, "frmr")
  ELSE IF x.dm
  THEN SendDisconnectMode([x EXCEPT !.dm = FALSE],
                          x.dmInfo.dsap, x.dmInfo.ssap, x.dmInfo.op)
  ELSE x

Completed(x) == [x EXCEPT !.slot = Free, !.sent = FALSE, !.bSendPending = FALSE]

(* HandlePendingOperations: what waits is forgotten and its state reached  *)
(* whether or not the link takes the frame.                                *)
HasPending(k) == k.send \/ k.rr \/ k.rnr \/ k.accept \/ k.connect \/ k.disc

HandlePendingOperations(x, s) ==
  LET k == x.sock[s]
  IN CASE k.send -> PerformSendInfo(x, s)
       [] ~k.send /\ k.rr ->
            SendReceiveReady(Update(x, s, [k EXCEPT !.rr = FALSE]), s)
       [] ~k.send /\ ~k.rr /\ k.rnr ->
            SendReceiveNotReady(Update(x, s, [k EXCEPT !.rnr = FALSE]), s)
       [] ~(k.send \/ k.rr \/ k.rnr) /\ k.accept ->
            SendHeader(x, s, [k EXCEPT !.accept = FALSE, !.state = "Accepted",
                                       !.hdr = Hdr("CC", k.dSap, k.sSap)], "none")
       [] ~(k.send \/ k.rr \/ k.rnr \/ k.accept) /\ k.connect ->
            SendHeader(x, s, [k EXCEPT !.connect = FALSE, !.state = "Connecting"],
                       NameOf(k.hdr.dsap))
       [] OTHER ->
            CallBack(SendHeader(x, s, [k EXCEPT !.disc = FALSE,
                                                !.state = "Disconnecting"], "null"),
                     k.errCb)

(* The loop of Send_CB, as in LlcpConnection: from the socket after        *)
(* socketIndex, round the table, the first that has something pending.     *)
After(x, i) == (x.socketIndex + i) % NB_SOCKET_MAX

PollSockets(x, rejected) ==
  LET inUse(s) == x.sock[s].state # "Default"
      ready == {i \in 1 .. NB_SOCKET_MAX :
                  inUse(After(x, i)) /\ HasPending(x.sock[After(x, i)])}
  IN IF ready = {} \/ (rejected /\ ~inUse(After(x, 1))) THEN x
     ELSE HandlePendingOperations(x, After(x, Min(ready)))

-----------------------------------------------------------------------------
(* Handlers of incoming frames: each yields the devices it may leave, one  *)
(* for each reaction of the application to the callback it makes.          *)

(* The socket whose SAPs a frame names is closed and an FRMR is sent.      *)
BetweenSaps(f, k) == k.sSap = f.hdr.dsap /\ k.dSap = f.hdr.ssap

SendFrameReject(x, f) ==
  LET found == {i \in Sockets : BetweenSaps(f, x.sock[i])}
      s == Min(found)
      y == [Update(CallBack(x, x.sock[s].errCb), s, Reset(x.sock[s]))
              EXCEPT !.lHdr = Hdr("FRMR", f.hdr.ssap, f.hdr.dsap)]
  IN IF found = {} THEN x
     ELSE IF x.bSendPending THEN [y EXCEPT !.frmr = TRUE]
     ELSE LlcSend([y EXCEPT !.bSendPending = TRUE], OwnHeader, "frmr")

HandleFrameReject(x, f) ==
  LET found == {i \in Sockets : BetweenSaps(f, x.sock[i])}
      s == Min(found)
  IN IF found = {} THEN x
     ELSE Update(CallBack(x, x.sock[s].errCb), s, Reset(x.sock[s]))

(* What Listen's callback does with the new socket. *)
Answered(x, s, answer) ==
  CASE answer = "accept" -> Accept(x, s)
    [] answer = "reject" -> Reject(x, s)
    [] OTHER -> x

(* The first free entry is taken, and given back when a later one is       *)
(* connected between the same SAPs (compared the wrong way round).         *)
HandleConnectionFrame(d, x, f) ==
  LET listeners == {i \in Sockets : x.sock[i].listen /\ (f.hdr.dsap = SDP \/ x.sock[i].sSap = f.hdr.dsap)}
      sap == x.sock[Min(listeners)].sSap
      free == {i \in Sockets : x.sock[i].state = "Default"}
      s == Min(free)
      clash == \E i \in Sockets :
                 /\ i > s /\ x.sock[i].state \in {"Connected", "Accepted"}
                 /\ x.sock[i].sSap = f.hdr.ssap /\ x.sock[i].dSap = sap
      taken == Update([x EXCEPT !.socketIndex = s], s,
                 [x.sock[s] EXCEPT !.state = "Bound", !.sSap = sap, !.dSap = f.hdr.ssap])
      givenBack == Update([x EXCEPT !.socketIndex = s], s,
                     [x.sock[s] EXCEPT !.sSap = 0, !.dSap = 0])
  IN IF listeners = {}
     THEN {SendDisconnectMode(x, f.hdr.ssap, f.hdr.dsap, "nosap")}
     ELSE IF free = {} THEN {SendDisconnectMode(x, f.hdr.ssap, sap, "nosocket")}
     ELSE IF clash THEN {SendDisconnectMode(givenBack, f.hdr.ssap, sap, "nosocket")}
     ELSE {Answered(taken, s, a) : a \in Answers}

(* Inside the Connect callback the application calls Recv and may Send.    *)
ConnectedReactions(d, x, s) ==
  {x} \cup (IF CanSend(d, x.sock[s]) THEN {Send(x, s)} ELSE {})

(* The callback of a Close is the library's, and closes the socket. *)
DisconnectCallBack(x, s) ==
  Update(x, s, IF x.sock[s].disconnectCb = "close" THEN Reset(x.sock[s])
               ELSE [x.sock[s] EXCEPT !.disconnectCb = "none"])

Forget(x, s) == Update(x, s, [x.sock[s] EXCEPT !.connectCb = FALSE])

(* (mutant) The CC is taken by any socket that waits for one. *)
HandleAnyConnectionCompleteFrame(d, x, f) ==
  LET found == {i \in Sockets : x.sock[i].state = "Connecting"}
      s == Min(found)
      k == x.sock[s]
      y == Update(CallBack(x, k.connectCb), s,
             [k EXCEPT !.dSap = f.hdr.ssap, !.state = "Connected", !.recv = @ \/ k.connectCb])
  IN IF found = {} THEN {x} ELSE {Forget(z, s) : z \in ConnectedReactions(d, y, s)}

HandleConnectionCompleteFrame(d, x, f) ==
  LET found == {i \in Sockets : x.sock[i].state = "Connecting" /\ x.sock[i].sSap = f.hdr.dsap}
      s == Min(found)
      k == x.sock[s]
      y == Update(CallBack(x, k.connectCb), s,
             [k EXCEPT !.dSap = f.hdr.ssap, !.state = "Connected", !.recv = @ \/ k.connectCb])
  IN IF found = {} THEN {x} ELSE {Forget(z, s) : z \in ConnectedReactions(d, y, s)}

(* The DSAP is not compared.  A Send or Recv that waits is called back.    *)
HandleDisconnectFrame(x, f) ==
  LET found == {i \in Sockets : x.sock[i].state = "Connected" /\ x.sock[i].sSap = f.hdr.dsap}
      s == Min(found)
      k == x.sock[s]
      y == Update(x, s, [k EXCEPT !.state = "Disconnecting", !.send = FALSE, !.recv = FALSE,
                                  !.sendCb = @ /\ ~k.send])
  IN IF found = {} THEN x
     ELSE CallBack(SendDisconnectMode(y, f.hdr.ssap, f.hdr.dsap, "disconnected"), k.errCb)

(* Inside the Connect callback the application may call Connect again: the *)
(* handler then forgets the callback that call registered.                 *)
RefusedReactions(d, x, s) ==
  {x} \cup (IF d \in Retries THEN {Connect(x, s, sap) : sap \in ConnectTo} ELSE {})

HandleDisconnectModeFrame(d, x, f) ==
  LET found == {i \in Sockets : /\ x.sock[i].state \in {"Connecting", "Disconnecting"}
                                   /\ x.sock[i].sSap = f.hdr.dsap}
      s == Min(found)
      y == Update(x, s, [x.sock[s] EXCEPT !.state = "Created"])
  IN IF found = {} THEN {x}
     ELSE IF f.info = "disconnected"
     THEN {DisconnectCallBack(y, s)}
     ELSE IF ~x.sock[s].connectCb THEN {y}
     ELSE {Forget(z, s) : z \in RefusedReactions(d, y, s)}

Acknowledge(x, s) ==
  IF x.sock[s].send
  THEN IF x.bSendPending THEN x ELSE PerformSendInfo(x, s)
  ELSE SendReceiveReady(x, s)

(* An SDU nobody waits for is kept and the sender told so. *)
HandleIFrame(x, f) ==
  LET found == {i \in Sockets : /\ x.sock[i].state \in {"Connected", "Accepted"}
                                   /\ BetweenSaps(f, x.sock[i])}
      s == Min(found)
  IN IF found = {} THEN x
     ELSE IF x.sock[s].recv
     THEN Acknowledge(Update(x, s, [x.sock[s] EXCEPT !.recv = FALSE]), s)
     ELSE SendReceiveNotReady(x, s)

(* RR and RNR carry no information. *)
HandleReceiverState(x, f) ==
  LET found == {i \in Sockets : x.sock[i].state = "Connected" /\ BetweenSaps(f, x.sock[i])}
      s == Min(found)
  IN IF found = {} THEN x
     ELSE IF f.info # "none" THEN SendFrameReject(x, f)
     ELSE IF x.sock[s].send /\ ~x.bSendPending THEN PerformSendInfo(x, s)
     ELSE x

(* Parameters that are not what the type of the frame wants may decode, as *)
(* parameters of unknown types do, or not.                                 *)
IllFormed(f) == f.hdr.type \in {"CONNECT", "CC"} /\ f.info \notin {"none", "name"}

HandleIncomingPacket(d, x, f) ==
  (IF IllFormed(f) THEN {SendFrameReject(x, f)} ELSE {}) \cup
  (CASE f.hdr.type = "CONNECT" -> HandleConnectionFrame(d, x, f)
     [] f.hdr.type = "CC" -> HandleConnectionCompleteFrame(d, x, f)
     [] f.hdr.type = "DISC" -> {HandleDisconnectFrame(x, f)}
     [] f.hdr.type = "DM" -> HandleDisconnectModeFrame(d, x, f)
     [] f.hdr.type = "FRMR" -> {HandleFrameReject(x, f)}
     [] f.hdr.type = "I" -> {HandleIFrame(x, f)}
     [] f.hdr.type \in {"RR", "RNR"} -> {HandleReceiverState(x, f)}
     [] OTHER -> {x})

-----------------------------------------------------------------------------
(* Actions: the calls of the application, and the link. *)

(* Socket: the first free entry; the table keeps what it held. *)
Create(d) ==
  LET free == {i \in Sockets : dev[d].sock[i].state = "Default"}
      s == Min(free)
      listening == \E i \in Sockets : dev[d].sock[i].listen
  IN /\ d \in Connects \/ (d \in Serves /\ ~listening)
     /\ free # {}
     /\ dev' = [dev EXCEPT ![d].sock[s].state = "Created", ![d].sock[s].errCb = TRUE]

(* Bind to the well-known SAP, which no entry may have. *)
Bind(d, s) ==
  /\ d \in Serves
  /\ dev[d].sock[s].state = "Created"
  /\ \A i \in Sockets : dev[d].sock[i].sSap # Service
  /\ dev' = [dev EXCEPT ![d].sock[s].state = "Bound", ![d].sock[s].sSap = Service]

Listen(d, s) ==
  /\ dev[d].sock[s].state = "Bound" /\ dev[d].sock[s].sSap = Service
  /\ dev[d].sock[s].dSap = NoSap
  /\ dev' = [dev EXCEPT ![d].sock[s].state = "Registered", ![d].sock[s].listen = TRUE]

AppConnect(d, s) ==
  /\ CanConnect(d, dev[d].sock[s])
  /\ \E sap \in ConnectTo : dev' = [dev EXCEPT ![d] = Connect(@, s, sap)]

(* The answer Listen's callback left for later. *)
AppAccept(d, s) ==
  /\ Incoming(dev[d].sock[s]) /\ ~dev[d].sock[s].accept
  /\ dev' = [dev EXCEPT ![d] = Accept(@, s)]

AppReject(d, s) ==
  /\ "reject" \in Answers
  /\ Incoming(dev[d].sock[s]) /\ ~dev[d].sock[s].accept
  /\ dev' = [dev EXCEPT ![d] = Reject(@, s)]

AppSend(d, s) ==
  /\ CanSend(d, dev[d].sock[s])
  /\ dev' = [dev EXCEPT ![d] = Send(@, s)]

AppDisconnect(d, s) ==
  /\ d \in Disconnects
  /\ dev[d].sock[s].state = "Connected"
  /\ dev[d].sock[s].sendCb => d \in Hasty
  /\ dev' = [dev EXCEPT ![d] = Disconnect(@, s, "app")]

(* The application closes a socket the peer has disconnected, or whose     *)
(* Connect or Accept was refused.                                          *)
ToClose(k) ==
  \/ k.state = "Disconnecting" /\ k.disconnectCb = "none"
  \/ k.state = "Connecting" /\ ~k.connectCb
  \/ k.state = "Accepted" /\ ~k.acceptCb

AppClose(d, s) ==
  /\ ToClose(dev[d].sock[s]) \/ (d \in Closes /\ dev[d].sock[s].state # "Default")
  /\ dev' = [dev EXCEPT ![d] = Close(@, s)]

(* The link completes the frame it transmitted: L_Send_CB, then Send_CB,   *)
(* whose steps each start from what the one before has left.               *)
SendDone(d) ==
  /\ dev[d].sent
  /\ \E y \in {SendPendingReject(Completed(dev[d]))} : \E z \in {SendLlcp_CB(y)} :
       dev' = [dev EXCEPT ![d] = PollSockets(z, @.frmr \/ @.dm)]

(* The link receives what the peer has on the wire: it is our turn, the    *)
(* frame is handled, and a queued frame is transmitted.  The completion of *)
(* the frame transmitted in the last turn comes first.                     *)
Receive(d) ==
  /\ dev[Other(d)].out # NoFrame
  /\ ~dev[d].sent
  /\ \E y \in HandleIncomingPacket(d, [dev[d] EXCEPT !.state = "SEND"], dev[Other(d)].out) :
       dev' = [dev EXCEPT ![d] = HandlePendingSend(y), ![Other(d)].out = NoFrame]

(* The symmetry timer in our turn: a queued frame, else a SYMM. *)
SendSymm(d) ==
  /\ dev[d].state = "SEND"
  /\ dev' = [dev EXCEPT ![d] = IF Queued(@) THEN HandlePendingSend(@) ELSE Transmit(@, Symm)]

Next ==
  \E d \in Peer :
    \/ Create(d)
    \/ \E s \in Sockets :
         \/ Bind(d, s) \/ Listen(d, s)
         \/ AppConnect(d, s) \/ AppAccept(d, s) \/ AppReject(d, s)
         \/ AppSend(d, s) \/ AppDisconnect(d, s) \/ AppClose(d, s)
    \/ SendDone(d) \/ Receive(d) \/ SendSymm(d)

Spec == Init /\ [][Next]_vars

Fairness ==
  \A d \in Peer :
    /\ WF_vars(SendDone(d) \/ Receive(d) \/ SendSymm(d))
    /\ \A s \in Sockets : WF_vars(AppAccept(d, s)) /\ WF_vars(AppClose(d, s))

FairSpec == Spec /\ Fairness

-----------------------------------------------------------------------------
(* Properties. *)

(* A callback that is called is registered: pSocketErrCb, and the ones of  *)
(* Connect, Accept and Reject, are called without a test.                  *)
NoNullCallback == \A d \in Peer : ~dev[d].null

(* The peer's sockets that socket s of d may be connected to: a connecting *)
(* one still has the SAP it asked for, which may be that of discovery.     *)
Mirrors(d, s) ==
  LET k == dev[d].sock[s]
      m(i) == dev[Other(d)].sock[i]
  IN {i \in Sockets : /\ m(i).sSap = k.dSap
                      /\ m(i).dSap = k.sSap \/ m(i).state = "Connecting"}

(* The peer has rejected a frame of the connection and tells so. *)
RejectionComing(d, s) ==
  LET k == dev[d].sock[s]
      y == dev[Other(d)]
      told == Hdr("FRMR", k.sSap, k.dSap)
  IN y.out.hdr = told \/ (y.lHdr = told /\ (y.frmr \/ (Queued(y) /\ y.slot = OwnHeader)))

(* A socket that takes itself for connected has a socket of the peer at    *)
(* its other end, which is connected, about to be or on its way out, or    *)
(* the peer is about to tell that it has closed that socket.               *)
EndsAgree ==
  \A d \in Peer, s \in Sockets :
    dev[d].sock[s].state = "Connected" =>
      \/ \E i \in Mirrors(d, s) :
           dev[Other(d)].sock[i].state \in {"Connecting", "Accepted", "Connected", "Disconnecting"}
      \/ RejectionComing(d, s)

=============================================================================
