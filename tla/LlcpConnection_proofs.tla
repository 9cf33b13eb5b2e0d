------------------------ MODULE LlcpConnection_proofs ------------------------
(***************************************************************************)
(* LlcpConnection for every value of its constants: type correctness, and  *)
(* the inductive invariant of the link, from which OneTurn and             *)
(* LinkHoldsPendingFrame follow.  Each operator takes a device to a        *)
(* device; the sections of either part follow those of LlcpConnection, and *)
(* the last one has a step per action.                                     *)
(***************************************************************************)
EXTENDS LlcpConnection, FiniteSetTheorems, WellFoundedInduction, TLAPS

(* The frames the source builds are frames. *)
LEMMA FramesTyped ==
  /\ NoFrame \in Frame
  /\ Symm \in Frame
  /\ \A s \in Sockets, ns \in 0 .. 15, nr \in 0 .. 15, n \in Nat :
       \A t \in {"I", "RR", "RNR", "FRMR", "SYMM", "none"} :
         Pdu(t, s, ns, nr, n) \in Frame
BY SocketAssumption DEF NoFrame, Symm, Pdu, Frame, Sockets

(* A device with one socket replaced is a device. *)
LEMMA SocketUpdated ==
  ASSUME NEW w, NEW x \in Device(w), NEW s \in Sockets, NEW k \in Socket(w)
  PROVE  Update(x, s, k) \in Device(w)
BY DEF Update, Device

(* Writing one flag or counter of a socket yields a socket. *)
LEMMA FieldsTyped ==
  ASSUME NEW w, NEW k \in Socket(w), NEW b \in BOOLEAN, NEW n \in Nat
  PROVE  /\ [k EXCEPT !.rrPending = b] \in Socket(w)
         /\ [k EXCEPT !.rnrPending = b] \in Socket(w)
         /\ [k EXCEPT !.recvPending = b] \in Socket(w)
         /\ [k EXCEPT !.busy = b] \in Socket(w)
         /\ [k EXCEPT !.transmitted = n] \in Socket(w)
         /\ [k EXCEPT !.sendCb = FALSE, !.confirmed = n] \in Socket(w)
         /\ [k EXCEPT !.sendCb = TRUE, !.accepted = n, !.sendPending = b] \in Socket(w)
BY DEF Socket

(* So does what Close resets, in the groups used below. *)
LEMMA ResetTyped ==
  ASSUME NEW w, NEW k \in Socket(w)
  PROVE  /\ [k EXCEPT !.state = "Default"] \in Socket(w)
         /\ [k EXCEPT !.VS = 0, !.VSA = 0, !.VR = 0, !.VRA = 0] \in Socket(w)
         /\ [k EXCEPT !.sendPending = FALSE, !.recvPending = FALSE, !.sendCb = FALSE,
                      !.busy = FALSE, !.remoteBusy = FALSE] \in Socket(w)
         /\ [k EXCEPT !.rd = 0, !.wr = 0] \in Socket(w)
<1>1. [k EXCEPT !.state = "Default"] \in Socket(w)
  BY DEF Socket
<1>2. ASSUME NEW v \in 0 .. 15
      PROVE  [k EXCEPT !.VS = v, !.VSA = v, !.VR = v, !.VRA = v] \in Socket(w)
  BY DEF Socket
<1>3. ASSUME NEW b \in BOOLEAN
      PROVE  [k EXCEPT !.sendPending = b, !.recvPending = b, !.sendCb = b,
                       !.busy = b, !.remoteBusy = b] \in Socket(w)
  BY DEF Socket
<1>4. ASSUME NEW n \in Nat
      PROVE  [k EXCEPT !.rd = n, !.wr = n] \in Socket(w)
  BY DEF Socket
<1>5. 0 \in 0 .. 15 /\ 0 \in Nat /\ FALSE \in BOOLEAN
  OBVIOUS
<1>6. [k EXCEPT !.VS = 0, !.VSA = 0, !.VR = 0, !.VRA = 0] \in Socket(w)
  BY <1>2, <1>5
<1>7. [k EXCEPT !.sendPending = FALSE, !.recvPending = FALSE, !.sendCb = FALSE,
                !.busy = FALSE, !.remoteBusy = FALSE] \in Socket(w)
  BY <1>3, <1>5, Zenon
<1>8. [k EXCEPT !.rd = 0, !.wr = 0] \in Socket(w)
  BY <1>4, <1>5
<1> QED BY <1>1, <1>6, <1>7, <1>8, Zenon

(* The entries of the socket table are sockets. *)
LEMMA SocketTyped ==
  ASSUME NEW w, NEW x \in Device(w), NEW s \in Sockets
  PROVE  x.sock[s] \in Socket(w)
BY DEF Device

-----------------------------------------------------------------------------
(* The link. *)

(* InternalSend yields a device. *)
LEMMA InternalSendTyped ==
  ASSUME NEW w, NEW x \in Device(w), NEW f \in Frame
  PROVE  InternalSend(x, f) \in Device(w)
<1> DEFINE y == [x EXCEPT !.state = "RECV", !.out = f]
           k == y.sock[f.s]
           l == [k EXCEPT !.transmitted = @ + 1]
<1>1. y \in Device(w)
  BY DEF Device
<1>2. f.s \in Sockets
  BY DEF Frame
<1>3. k \in Socket(w)
  BY <1>1, <1>2, SocketTyped
<1>4. l \in Socket(w)
  <2> HIDE DEF k
  <2>1. k.transmitted + 1 \in Nat
    BY <1>3 DEF Socket
  <2> QED BY <1>3, <2>1, FieldsTyped
<1>5. Update(y, f.s, l) \in Device(w)
  <2> HIDE DEF y, l
  <2> QED BY <1>1, <1>2, <1>4, SocketUpdated
<1> QED BY <1>1, <1>5 DEF InternalSend

(* L_Send yields a device. *)
LEMMA LlcSendTyped ==
  ASSUME NEW w, NEW x \in Device(w), NEW f \in Frame
  PROVE  LlcSend(x, f) \in Device(w)
<1>1. [x EXCEPT !.slot = f, !.sent = TRUE] \in Device(w)
  BY DEF Device
<1>2. InternalSend([x EXCEPT !.slot = f, !.sent = TRUE], f) \in Device(w)
  BY <1>1, InternalSendTyped
<1>3. [x EXCEPT !.slot = f, !.sent = FALSE, !.info = @ \/ HasInfo(f)] \in Device(w)
  BY DEF Device, HasInfo
<1> QED BY <1>2, <1>3 DEF LlcSend

(* HandlePendingSend yields a device. *)
LEMMA HandlePendingSendTyped ==
  ASSUME NEW w, NEW x \in Device(w)
  PROVE  HandlePendingSend(x) \in Device(w)
<1>1. [x EXCEPT !.sent = TRUE] \in Device(w)
  BY DEF Device
<1>2. x.slot \in Frame /\ x.info \in BOOLEAN
  BY DEF Device
<1>3. [x.slot EXCEPT !.extra = x.info /\ ~HasInfo(x.slot)] \in Frame
  BY <1>2 DEF Frame, HasInfo
<1> QED BY <1>1, <1>3, InternalSendTyped DEF HandlePendingSend

(* phlnLlcp_Fri_Transport_LinkSend yields a device. *)
LEMMA LinkSendTyped ==
  ASSUME NEW w, NEW x \in Device(w), NEW f \in Frame
  PROVE  LinkSend(x, f) \in Device(w)
<1>1. [x EXCEPT !.linkCb = TRUE] \in Device(w)
  BY DEF Device
<1> QED BY <1>1, LlcSendTyped DEF LinkSend

-----------------------------------------------------------------------------
(* Frames a socket sends. *)

(* The numbers put in a frame and back in a socket are 4-bit numbers, *)
(* across the wrap at 16.                                             *)
LEMMA NumbersTyped ==
  ASSUME NEW w, NEW k \in Socket(w)
  PROVE  NextNumber(k.VS) \in 0 .. 15 /\ NextNumber(k.VR) \in 0 .. 15
         /\ AckNumber(k) \in 0 .. 15
<1>1. k.VS \in 0 .. 15 /\ k.VR \in 0 .. 15
  BY DEF Socket
<1>2. \A n \in 0 .. 15 : (n + 1) % 16 \in 0 .. 15
  OBVIOUS
<1> QED BY <1>1, <1>2 DEF NextNumber, AckNumber, Mod

(* What performSendInfo passes to the link: a device and a frame. *)
LEMMA PerformSendInfoArguments ==
  ASSUME NEW w, NEW x \in Device(w), NEW s \in Sockets
  PROVE  /\ Update([x EXCEPT !.bSendPending = TRUE, !.socketIndex = s], s,
                   [x.sock[s] EXCEPT !.sendPending = FALSE,
                                     !.VRA = AckNumber(x.sock[s]),
                                     !.VS = NextNumber(@)]) \in Device(w)
         /\ Pdu("I", s, x.sock[s].VS, AckNumber(x.sock[s]), x.sock[s].accepted) \in Frame
<1> DEFINE k == x.sock[s]
           l == [k EXCEPT !.sendPending = FALSE, !.VRA = AckNumber(k),
                          !.VS = NextNumber(k.VS)]
           z == [x EXCEPT !.bSendPending = TRUE, !.socketIndex = s]
<1>1. k \in Socket(w)
  BY SocketTyped
<1>2. NextNumber(k.VS) \in 0 .. 15 /\ AckNumber(k) \in 0 .. 15
  BY <1>1, NumbersTyped
<1>3. l \in Socket(w)
  <2> HIDE DEF k
  <2> QED BY <1>1, <1>2 DEF Socket
<1>4. Update(z, s, l) \in Device(w)
  <2>1. z \in Device(w)
    BY DEF Device
  <2> HIDE DEF z, l
  <2> QED BY <2>1, <1>3, SocketUpdated
<1>5. k.VS \in 0 .. 15 /\ k.accepted \in Nat
  BY <1>1 DEF Socket
<1>6. Pdu("I", s, k.VS, AckNumber(k), k.accepted) \in Frame
  BY <1>2, <1>5, FramesTyped
<1> QED BY <1>4, <1>6

(* performSendInfo yields a device. *)
LEMMA PerformSendInfoTyped ==
  ASSUME NEW w, NEW x \in Device(w), NEW s \in Sockets
  PROVE  PerformSendInfo(x, s) \in Device(w)
BY PerformSendInfoArguments, LinkSendTyped DEF PerformSendInfo

(* What an RR or RNR passes to the link: a device and a frame. *)
LEMMA SendSupervisoryArguments ==
  ASSUME NEW w, NEW x \in Device(w), NEW s \in Sockets, NEW type \in {"RR", "RNR"}
  PROVE  /\ Update([x EXCEPT !.bSendPending = TRUE, !.socketIndex = s], s,
                   [x.sock[s] EXCEPT !.VRA = AckNumber(x.sock[s])]) \in Device(w)
         /\ Pdu(type, s, 0, AckNumber(x.sock[s]), 0) \in Frame
<1> DEFINE k == x.sock[s]
           l == [k EXCEPT !.VRA = AckNumber(k)]
           z == [x EXCEPT !.bSendPending = TRUE, !.socketIndex = s]
<1>1. k \in Socket(w)
  BY SocketTyped
<1>2. AckNumber(k) \in 0 .. 15
  BY <1>1, NumbersTyped
<1>3. l \in Socket(w)
  <2> HIDE DEF k
  <2> QED BY <1>1, <1>2 DEF Socket
<1>4. Update(z, s, l) \in Device(w)
  <2>1. z \in Device(w)
    BY DEF Device
  <2> HIDE DEF z, l
  <2> QED BY <2>1, <1>3, SocketUpdated
<1>5. Pdu(type, s, 0, AckNumber(k), 0) \in Frame
  BY <1>2, FramesTyped
<1> QED BY <1>4, <1>5

(* Sending an RR or RNR yields a device. *)
LEMMA SendSupervisoryTyped ==
  ASSUME NEW w, NEW x \in Device(w), NEW s \in Sockets, NEW type \in {"RR", "RNR"}
  PROVE  SendSupervisory(x, s, type) \in Device(w)
BY SendSupervisoryArguments, LinkSendTyped DEF SendSupervisory

(* performSendReceiveReady yields a device. *)
LEMMA SendReceiveReadyTyped ==
  ASSUME NEW w, NEW x \in Device(w), NEW s \in Sockets
  PROVE  SendReceiveReady(x, s) \in Device(w)
<1> DEFINE l == [x.sock[s] EXCEPT !.rrPending = TRUE]
<1>1. l \in Socket(w)
  BY SocketTyped, FieldsTyped
<1>2. Update(x, s, l) \in Device(w)
  BY <1>1, SocketUpdated
<1> QED BY <1>2, SendSupervisoryTyped DEF SendReceiveReady

(* performSendReceiveNotReady yields a device. *)
LEMMA SendReceiveNotReadyTyped ==
  ASSUME NEW w, NEW x \in Device(w), NEW s \in Sockets
  PROVE  SendReceiveNotReady(x, s) \in Device(w)
<1> DEFINE l == [x.sock[s] EXCEPT !.rnrPending = TRUE]
<1>1. l \in Socket(w)
  BY SocketTyped, FieldsTyped
<1>2. Update(x, s, l) \in Device(w)
  BY <1>1, SocketUpdated
<1> QED BY <1>2, SendSupervisoryTyped DEF SendReceiveNotReady

(* Send, up to the choice of waiting or transmitting, yields a device. *)
LEMMA SendArgument ==
  ASSUME NEW w, NEW d \in Peer, NEW x \in Device(w), NEW s \in Sockets
  PROVE  Update(x, s, [x.sock[s] EXCEPT !.sendCb = TRUE, !.accepted = @ + 1,
                                        !.sendPending = @ \/ MustWait(d, x, s)])
           \in Device(w)
<1> DEFINE k == x.sock[s]
           l == [k EXCEPT !.sendCb = TRUE, !.accepted = @ + 1,
                          !.sendPending = @ \/ MustWait(d, x, s)]
<1>1. k \in Socket(w)
  BY SocketTyped
<1>2. l \in Socket(w)
  <2>1. k.accepted + 1 \in Nat /\ (k.sendPending \/ MustWait(d, x, s)) \in BOOLEAN
    BY <1>1 DEF Socket, MustWait
  <2> QED BY <1>1, <2>1, FieldsTyped
<1>3. Update(x, s, l) \in Device(w)
  <2> HIDE DEF l
  <2> QED BY <1>2, SocketUpdated
<1> QED BY <1>3

(* Send yields a device. *)
LEMMA SendTyped ==
  ASSUME NEW w, NEW d \in Peer, NEW x \in Device(w), NEW s \in Sockets
  PROVE  Send(d, x, s) \in Device(w)
BY SendArgument, PerformSendInfoTyped DEF Send

(* What an application does in a callback yields a device. *)
LEMMA ReactTyped ==
  ASSUME NEW w, NEW d \in Peer, NEW x \in Device(w), NEW s \in Sockets, NEW react
  PROVE  React(d, x, s, react) \in Device(w)
<1> DEFINE l == [x.sock[s] EXCEPT !.recvPending = TRUE]
<1>1. l \in Socket(w)
  BY SocketTyped, FieldsTyped
<1>2. AwaitSdu(x, s) \in Device(w)
  BY <1>1, SocketUpdated DEF AwaitSdu
<1> QED BY <1>2, SendTyped DEF React

-----------------------------------------------------------------------------
(* Completion of a frame. *)

(* SendLlcp_CB yields a device. *)
LEMMA SendLlcp_CBTyped ==
  ASSUME NEW w, NEW x \in Device(w)
  PROVE  SendLlcp_CB(x) \in Device(w)
<1> DEFINE y == [x EXCEPT !.linkCb = FALSE]
           k == y.sock[x.socketIndex]
           l == [k EXCEPT !.sendCb = FALSE, !.confirmed = @ + 1]
<1>1. y \in Device(w) /\ x.socketIndex \in Sockets
  BY DEF Device
<1>2. k \in Socket(w)
  BY <1>1, SocketTyped
<1>3. l \in Socket(w)
  <2>1. k.confirmed + 1 \in Nat
    BY <1>2 DEF Socket
  <2> QED BY <1>2, <2>1, FieldsTyped
<1>4. Update(y, x.socketIndex, l) \in Device(w)
  <2> HIDE DEF y, l
  <2> QED BY <1>1, <1>3, SocketUpdated
<1> QED BY <1>1, <1>4 DEF SendLlcp_CB

(* HandlePendingOperations yields a device. *)
LEMMA HandlePendingOperationsTyped ==
  ASSUME NEW w, NEW x \in Device(w), NEW s \in Sockets
  PROVE  HandlePendingOperations(x, s) \in Device(w)
<1> DEFINE k == x.sock[s]
<1>1. [k EXCEPT !.rrPending = FALSE] \in Socket(w)
      /\ [k EXCEPT !.rnrPending = FALSE] \in Socket(w)
  BY SocketTyped, FieldsTyped
<1>2. Update(x, s, [k EXCEPT !.rrPending = FALSE]) \in Device(w)
      /\ Update(x, s, [k EXCEPT !.rnrPending = FALSE]) \in Device(w)
  BY <1>1, SocketUpdated
<1> QED BY <1>2, PerformSendInfoTyped, SendReceiveReadyTyped, SendReceiveNotReadyTyped
        DEF HandlePendingOperations

(* A set of numbers below a bound has a least element: the loop of *)
(* Send_CB stops at the first socket with something pending.       *)
LEMMA SomethingLeast ==
  ASSUME NEW n \in Nat, NEW T, T \subseteq 1 .. n, T # {}
  PROVE  \E i \in T : \A j \in T : i <= j
<1> DEFINE S == 1 .. n
           U == {1 .. i : i \in T}
<1>1. IsFiniteSet(S)
  BY FS_Interval
<1>2. IsWellFoundedOn(StrictSubsetOrdering(S), SUBSET S)
  BY <1>1, FS_StrictSubsetOrderingWellFounded, FS_FiniteSubsetsOfFinite
<1>3. U \subseteq SUBSET S /\ U # {}
  <2>1. \A i \in T : i \in Int /\ i <= n
    OBVIOUS
  <2>2. \A i \in Int : i <= n => 1 .. i \subseteq S
    OBVIOUS
  <2> HIDE DEF S
  <2> QED BY <2>1, <2>2
<1>4. PICK u \in U : \A v \in U : ~ (<<v, u>> \in StrictSubsetOrdering(S))
  <2> HIDE DEF U, S
  <2> QED BY <1>2, <1>3, WFMin
<1>5. PICK i \in T : u = 1 .. i
  BY <1>4
<1>6. ASSUME NEW j \in T, j < i PROVE FALSE
  <2>1. 1 .. j \subseteq 1 .. i /\ i \in 1 .. i /\ i \notin 1 .. j
    BY <1>6
  <2>2. 1 .. j \in U
    BY <1>6
  <2> QED BY <2>1, <2>2, <1>3, <1>4, <1>5 DEF StrictSubsetOrdering
<1> QED BY <1>6

(* The loop of Send_CB serves at most one socket, a connected one. *)
LEMMA PollSocketsHandlesOne ==
  ASSUME NEW w, NEW d \in Peer, NEW x \in Device(w), NEW rejected
  PROVE  \/ PollSockets(d, x, rejected) = x
         \/ \E s \in Sockets : /\ x.sock[s].state = "Connected"
                              /\ PollSockets(d, x, rejected) = HandlePendingOperations(x, s)
<1> DEFINE ready == {i \in 1 .. NB_SOCKET_MAX :
                       /\ x.sock[After(x, i)].state = "Connected"
                       /\ HasPendingOperation(d, x.sock[After(x, i)])}
           first == CHOOSE i \in ready : \A j \in ready : i <= j
<1>1. CASE ready = {}
  BY <1>1 DEF PollSockets
<1>2. CASE ready # {}
  <2>1. first \in ready
    <3>1. \E i \in ready : \A j \in ready : i <= j
      <4>1. ready \subseteq 1 .. NB_SOCKET_MAX /\ NB_SOCKET_MAX \in Nat
        BY SocketAssumption
      <4> HIDE DEF ready
      <4> QED BY <1>2, <4>1, SomethingLeast
    <3> HIDE DEF ready
    <3> QED BY <3>1
  <2>2. first \in Nat /\ x.sock[After(x, first)].state = "Connected"
    BY <2>1
  <2>3. After(x, first) \in Sockets
    <3>1. x.socketIndex \in Nat
      BY SocketAssumption DEF Device, Sockets
    <3>2. \A n \in Nat : n % NB_SOCKET_MAX \in 0 .. (NB_SOCKET_MAX - 1)
      BY SocketAssumption
    <3> HIDE DEF first
    <3> QED BY <2>2, <3>1, <3>2 DEF After, Sockets
  <2> QED BY <2>2, <2>3 DEF PollSockets
<1> QED BY <1>1, <1>2

(* The loop of Send_CB yields a device. *)
LEMMA PollSocketsTyped ==
  ASSUME NEW w, NEW d \in Peer, NEW x \in Device(w), NEW rejected
  PROVE  PollSockets(d, x, rejected) \in Device(w)
BY PollSocketsHandlesOne, HandlePendingOperationsTyped

(* Send_CB up to the loop yields a device. *)
LEMMA CompleteFrameTyped ==
  ASSUME NEW w, NEW x \in Device(w)
  PROVE  CompleteFrame(x) \in Device(w)
<1> DEFINE y == [x EXCEPT !.slot = NoFrame, !.sent = FALSE, !.bSendPending = FALSE]
<1>1. y \in Device(w)
  BY FramesTyped DEF Device
<1>2. y.frmr \in Frame
  BY <1>1 DEF Device
<1>3. [y EXCEPT !.bSendPending = TRUE, !.frmr = NoFrame] \in Device(w)
  BY <1>1, FramesTyped DEF Device
<1>4. SendPendingReject(y) \in Device(w)
  <2> HIDE DEF y
  <2> QED BY <1>1, <1>2, <1>3, LlcSendTyped DEF SendPendingReject
<1> QED BY <1>4, SendLlcp_CBTyped DEF CompleteFrame

-----------------------------------------------------------------------------
(* Handlers of incoming frames. *)

(* Close yields a device. *)
LEMMA CloseTyped ==
  ASSUME NEW w, NEW x \in Device(w), NEW s \in Sockets
  PROVE  Close(x, s) \in Device(w)
<1> DEFINE k == x.sock[s]
<1>1. k \in Socket(w)
  BY SocketTyped
<1> HIDE DEF k
<1> DEFINE k1 == [k EXCEPT !.state = "Default"]
           k2 == [k1 EXCEPT !.VS = 0, !.VSA = 0, !.VR = 0, !.VRA = 0]
           k3 == [k2 EXCEPT !.sendPending = FALSE, !.recvPending = FALSE, !.sendCb = FALSE,
                            !.busy = FALSE, !.remoteBusy = FALSE]
           k4 == [k3 EXCEPT !.rd = 0, !.wr = 0]
<1>2. k1 \in Socket(w)
  BY <1>1, ResetTyped, Zenon
<1>3. k2 \in Socket(w)
  <2> HIDE DEF k1
  <2> QED BY <1>2, ResetTyped, Zenon
<1>4. k3 \in Socket(w)
  <2> HIDE DEF k2
  <2> QED BY <1>3, ResetTyped, Zenon
<1>5. k4 \in Socket(w)
  <2> HIDE DEF k3
  <2> QED BY <1>4, ResetTyped, Zenon
<1> HIDE DEF k4
<1> QED BY <1>5, SocketUpdated DEF Close, k, k4

(* Rewriting a queued rejection yields a device. *)
LEMMA RewriteQueuedRejectTyped ==
  ASSUME NEW w, NEW x \in Device(w), NEW f \in Frame
  PROVE  RewriteQueuedReject(x, f) \in Device(w)
<1>1. [x EXCEPT !.slot = f] \in Device(w)
  BY DEF Device
<1> QED BY <1>1 DEF RewriteQueuedReject

(* SendFrameReject yields a device. *)
LEMMA SendFrameRejectTyped ==
  ASSUME NEW w, NEW x \in Device(w), NEW s \in Sockets
  PROVE  SendFrameReject(x, s) \in Device(w)
<1> DEFINE f == Pdu("FRMR", s, 0, 0, 0)
           y == RewriteQueuedReject(Close(x, s), f)
<1>1. y \in Device(w) /\ f \in Frame
  BY CloseTyped, FramesTyped, RewriteQueuedRejectTyped
<1> HIDE DEF y, f
<1>2. [y EXCEPT !.frmr = f] \in Device(w) /\ [y EXCEPT !.bSendPending = TRUE] \in Device(w)
  BY <1>1 DEF Device
<1> QED BY <1>1, <1>2, LlcSendTyped DEF SendFrameReject, y, f

(* The end of Handle_ReceivedIFrame yields a device. *)
LEMMA AcknowledgeTyped ==
  ASSUME NEW w, NEW d \in Peer, NEW x \in Device(w), NEW s \in Sockets, NEW replied
  PROVE  Acknowledge(d, x, s, replied) \in Device(w)
BY PerformSendInfoTyped, SendReceiveReadyTyped DEF Acknowledge

(* An SDU written to the receive window leaves a device. *)
LEMMA StoreArgument ==
  ASSUME NEW d \in Peer, NEW x \in Device(RW[d]), NEW s \in Sockets, NEW sdu \in Nat
  PROVE  Update(x, s, [x.sock[s] EXCEPT !.ring[x.sock[s].wr % RW[d]] = sdu,
                                        !.busy = TRUE, !.wr = @ + 1]) \in Device(RW[d])
<1> DEFINE k == x.sock[s]
           l == [k EXCEPT !.ring[k.wr % RW[d]] = sdu, !.busy = TRUE, !.wr = @ + 1]
<1>1. k \in Socket(RW[d]) /\ RW[d] \in 1 .. 15
  BY SocketTyped, WindowAssumption
<1>2. k.wr + 1 \in Nat /\ k.ring \in [0 .. (RW[d] - 1) -> Nat]
  <2> HIDE DEF k
  <2>1. k.wr \in Nat /\ k.ring \in [0 .. (RW[d] - 1) -> Nat]
    BY <1>1 DEF Socket
  <2> QED BY <2>1
<1>3. \A g \in [0 .. (RW[d] - 1) -> Nat], n \in Nat :
        [k EXCEPT !.ring = g, !.busy = TRUE, !.wr = n] \in Socket(RW[d])
  <2> HIDE DEF k
  <2> QED BY <1>1 DEF Socket
<1>4. [k.ring EXCEPT ![k.wr % RW[d]] = sdu] \in [0 .. (RW[d] - 1) -> Nat]
  BY <1>2
<1>5. l = [k EXCEPT !.ring = [k.ring EXCEPT ![k.wr % RW[d]] = sdu], !.busy = TRUE,
                    !.wr = k.wr + 1]
  OBVIOUS
<1>6. l \in Socket(RW[d])
  BY <1>2, <1>3, <1>4, <1>5
<1>7. Update(x, s, l) \in Device(RW[d])
  <2> HIDE DEF l
  <2> QED BY <1>6, SocketUpdated
<1> QED BY <1>7

(* Storing an SDU, with its RNR, yields a device. *)
LEMMA StoreTyped ==
  ASSUME NEW d \in Peer, NEW x \in Device(RW[d]), NEW s \in Sockets, NEW sdu \in Nat
  PROVE  Store(d, x, s, sdu) \in Device(RW[d])
BY StoreArgument, SendReceiveNotReadyTyped DEF Store

(* Handing an SDU to the application yields a device. *)
LEMMA DeliverTyped ==
  ASSUME NEW w, NEW x \in Device(w), NEW f \in Frame
  PROVE  Deliver(x, f) \in Device(w)
<1> DEFINE k == x.sock[f.s]
           l == [k EXCEPT !.VSA = f.nr, !.recvPending = FALSE,
                          !.VR = NextNumber(@), !.received = Append(@, f.sdu)]
<1>1. f.s \in Sockets /\ f.nr \in 0 .. 15 /\ f.sdu \in Nat
  BY DEF Frame
<1>2. k \in Socket(w)
  BY <1>1, SocketTyped
<1>3. NextNumber(k.VR) \in 0 .. 15
  BY <1>2, NumbersTyped
<1>4. Append(k.received, f.sdu) \in Seq(Nat)
  BY <1>1, <1>2 DEF Socket
<1>5. \A n \in 0 .. 15, m \in 0 .. 15, q \in Seq(Nat) :
        [k EXCEPT !.VSA = n, !.recvPending = FALSE, !.VR = m, !.received = q] \in Socket(w)
  <2> HIDE DEF k
  <2> QED BY <1>2 DEF Socket
<1>6. l \in Socket(w)
  BY <1>1, <1>3, <1>4, <1>5
<1> HIDE DEF l
<1> QED BY <1>1, <1>6, SocketUpdated DEF Deliver, l

(* A device with the acknowledgement of an I frame noted is a device. *)
LEMMA HandleIFrameArgument ==
  ASSUME NEW w, NEW x \in Device(w), NEW f \in Frame
  PROVE  Update(x, f.s, [x.sock[f.s] EXCEPT !.VSA = f.nr]) \in Device(w)
<1> DEFINE k == x.sock[f.s]
<1>1. f.s \in Sockets /\ f.nr \in 0 .. 15
  BY DEF Frame
<1>2. k \in Socket(w)
  BY <1>1, SocketTyped
<1>3. [k EXCEPT !.VSA = f.nr] \in Socket(w)
  <2> HIDE DEF k
  <2> QED BY <1>1, <1>2 DEF Socket
<1> QED BY <1>1, <1>3, SocketUpdated

(* Handle_ReceivedIFrame yields devices. *)
LEMMA HandleIFrameTyped ==
  ASSUME NEW d \in Peer, NEW x \in Device(RW[d]), NEW f \in Frame,
         NEW y \in HandleIFrame(d, x, f)
  PROVE  y \in Device(RW[d])
<1>1. f.s \in Sockets /\ f.sdu \in Nat
  BY DEF Frame
<1>2. SendFrameReject(x, f.s) \in Device(RW[d])
  BY <1>1, SendFrameRejectTyped
<1>3. \A r \in Reaction :
        Acknowledge(d, React(d, Deliver(x, f), f.s, r), f.s, r = "reply") \in Device(RW[d])
  BY <1>1, DeliverTyped, ReactTyped, AcknowledgeTyped
<1>4. Store(d, Update(x, f.s, [x.sock[f.s] EXCEPT !.VSA = f.nr]), f.s, f.sdu)
        \in Device(RW[d])
  BY <1>1, HandleIFrameArgument, StoreTyped
<1> QED BY <1>2, <1>3, <1>4 DEF HandleIFrame

(* A device with the acknowledgement of an RR or RNR noted is a device. *)
LEMMA HandleSupervisoryArgument ==
  ASSUME NEW w, NEW x \in Device(w), NEW f \in Frame, NEW b \in BOOLEAN
  PROVE  Update(x, f.s, [x.sock[f.s] EXCEPT !.VSA = f.nr, !.remoteBusy = b]) \in Device(w)
<1> DEFINE k == x.sock[f.s]
<1>1. f.s \in Sockets /\ f.nr \in 0 .. 15
  BY DEF Frame
<1>2. k \in Socket(w)
  BY <1>1, SocketTyped
<1>3. [k EXCEPT !.VSA = f.nr, !.remoteBusy = b] \in Socket(w)
  <2> HIDE DEF k
  <2> QED BY <1>1, <1>2 DEF Socket
<1> QED BY <1>1, <1>3, SocketUpdated

(* The handlers of RR and RNR yield devices. *)
LEMMA HandleSupervisoryTyped ==
  ASSUME NEW d \in Peer, NEW w, NEW x \in Device(w), NEW f \in Frame,
         NEW y \in HandleReceiveReady(x, f) \cup HandleReceiveNotReady(d, x, f)
  PROVE  y \in Device(w)
<1> DEFINE k(b) == Update(x, f.s, [x.sock[f.s] EXCEPT !.VSA = f.nr, !.remoteBusy = b])
<1>1. f.s \in Sockets
  BY DEF Frame
<1>2. SendFrameReject(x, f.s) \in Device(w)
  BY <1>1, SendFrameRejectTyped
<1>3. \A b \in BOOLEAN : k(b) \in Device(w) /\ PerformSendInfo(k(b), f.s) \in Device(w)
  BY <1>1, HandleSupervisoryArgument, PerformSendInfoTyped
<1> QED BY <1>2, <1>3 DEF HandleReceiveReady, HandleReceiveNotReady

(* Every handler of an incoming frame yields devices. *)
LEMMA HandleIncomingPacketTyped ==
  ASSUME NEW d \in Peer, NEW x \in Device(RW[d]), NEW f \in Frame,
         NEW y \in HandleIncomingPacket(d, x, f)
  PROVE  y \in Device(RW[d])
<1>1. \A z \in HandleFrameReject(x, f) : z \in Device(RW[d])
  BY CloseTyped DEF HandleFrameReject, Frame
<1> QED BY <1>1, HandleIFrameTyped, HandleSupervisoryTyped DEF HandleIncomingPacket

-----------------------------------------------------------------------------
(* Actions. *)

(* A Recv that takes n stored SDUs yields a device. *)
LEMMA DrainTyped ==
  ASSUME NEW d \in Peer, NEW x \in Device(RW[d]), NEW s \in Sockets, NEW n \in Nat
  PROVE  Drain(x, s, RW[d], n) \in Device(RW[d])
<1> DEFINE w == RW[d]
           k == x.sock[s]
           taken == [i \in 1 .. n |-> k.ring[(k.rd + i - 1) % w]]
<1>1. k \in Socket(w) /\ w \in 1 .. 15
  BY SocketTyped, WindowAssumption
<1>2. k.rd \in Nat /\ k.ring \in [0 .. (w - 1) -> Nat] /\ k.VR \in 0 .. 15
      /\ k.received \in Seq(Nat)
  BY <1>1 DEF Socket
<1>3. taken \in Seq(Nat)
  <2>1. \A m \in Nat : m % w \in 0 .. (w - 1)
    BY <1>1
  <2>2. \A i \in 1 .. n : k.rd + i - 1 \in Nat
    BY <1>2
  <2>3. \A i \in 1 .. n : k.ring[(k.rd + i - 1) % w] \in Nat
    <3> HIDE DEF w, k
    <3> QED BY <1>2, <2>1, <2>2
  <2> HIDE DEF w, k
  <2> QED BY <2>3
<1>4. k.received \o taken \in Seq(Nat)
  <2> HIDE DEF taken, k
  <2> QED BY <1>2, <1>3
<1>5. FreeRing(k, w, n) \in [0 .. (w - 1) -> Nat]
  <2> HIDE DEF k, w
  <2> QED BY <1>2 DEF FreeRing
<1>6. (k.VR + n) % 16 \in 0 .. 15 /\ k.rd + n \in Nat
  <2>1. \A v \in 0 .. 15, r \in Nat : (v + n) % 16 \in 0 .. 15 /\ r + n \in Nat
    OBVIOUS
  <2> HIDE DEF k
  <2> QED BY <1>2, <2>1
<1>7. \A q \in Seq(Nat), g \in [0 .. (w - 1) -> Nat], v \in 0 .. 15, r \in Nat :
        [k EXCEPT !.received = q, !.ring = g, !.VR = v, !.rd = r] \in Socket(w)
  <2> HIDE DEF k
  <2> QED BY <1>1 DEF Socket
<1>8. [k EXCEPT !.received = k.received \o taken, !.ring = FreeRing(k, w, n),
                !.VR = (k.VR + n) % 16, !.rd = k.rd + n] \in Socket(w)
  <2> HIDE DEF k, w, taken
  <2> QED BY <1>4, <1>5, <1>6, <1>7
<1> QED BY <1>8, SocketUpdated DEF Drain, Mod

(* The end of the busy condition yields a device. *)
LEMMA EndBusyTyped ==
  ASSUME NEW w, NEW x \in Device(w), NEW s \in Sockets
  PROVE  EndBusy(x, s) \in Device(w)
<1> DEFINE l == [x.sock[s] EXCEPT !.busy = FALSE]
<1>1. l \in Socket(w)
  BY SocketTyped, FieldsTyped
<1>2. Update(x, s, l) \in Device(w)
  BY <1>1, SocketUpdated
<1> QED BY <1>2, SendReceiveReadyTyped DEF EndBusy

(* Every step preserves the type invariant, one case per action. *)
LEMMA StepTyped ==
  ASSUME TypeOK, [Next]_vars
  PROVE  TypeOK'
<1>1. \A d \in Peer : dev[d] \in Device(RW[d]) /\ Other(d) \in Peer
  BY DEF TypeOK, Peer, Other
<1>2. ASSUME NEW d \in Peer, NEW y \in Device(RW[d]), dev' = [dev EXCEPT ![d] = y]
      PROVE  TypeOK'
  BY <1>1, <1>2 DEF TypeOK
<1>3. ASSUME NEW d \in Peer, NEW s \in Sockets, AppSend(d, s)
      PROVE  TypeOK'
  BY <1>1, <1>2, <1>3, SendTyped DEF AppSend
<1>4. ASSUME NEW d \in Peer, NEW s \in Sockets, AppRecv(d, s)
      PROVE  TypeOK'
  <2>1. AwaitSdu(dev[d], s) = React(d, dev[d], s, "recv")
    BY DEF React
  <2> QED BY <1>1, <1>2, <1>4, <2>1, ReactTyped DEF AppRecv
<1>5. ASSUME NEW d \in Peer, NEW s \in Sockets, AppRecvStored(d, s)
      PROVE  TypeOK'
  <2>1. PICK n \in 1 .. (dev[d].sock[s].wr - dev[d].sock[s].rd), r \in Reaction :
          dev' = [dev EXCEPT ![d] =
                    EndBusy(React(d, Drain(dev[d], s, RW[d], n), s, r), s)]
    BY <1>5 DEF AppRecvStored
  <2>2. n \in Nat
    <3>1. dev[d].sock[s].wr \in Nat /\ dev[d].sock[s].rd \in Nat
      BY <1>1, SocketTyped DEF Socket
    <3> QED BY <3>1
  <2>3. EndBusy(React(d, Drain(dev[d], s, RW[d], n), s, r), s) \in Device(RW[d])
    BY <1>1, <2>2, DrainTyped, ReactTyped, EndBusyTyped
  <2> QED BY <1>2, <2>1, <2>3
<1>6. ASSUME NEW d \in Peer, SendDone(d)
      PROVE  TypeOK'
  <2> DEFINE y == CompleteFrame(dev[d])
             i == dev[d].socketIndex
  <2>1. PICK r \in {"none", "send"} :
          dev' = [dev EXCEPT ![d] =
                    PollSockets(d, React(d, y, i, r), dev[d].frmr # NoFrame)]
    BY <1>6 DEF SendDone
  <2>2. y \in Device(RW[d]) /\ i \in Sockets
    BY <1>1, CompleteFrameTyped DEF Device
  <2>3. PollSockets(d, React(d, y, i, r), dev[d].frmr # NoFrame) \in Device(RW[d])
    <3> HIDE DEF y, i
    <3> QED BY <2>2, ReactTyped, PollSocketsTyped
  <2> QED BY <1>2, <2>1, <2>3
<1>7. ASSUME NEW d \in Peer, Receive(d)
      PROVE  TypeOK'
  <2> DEFINE o == Other(d)
             x == [dev[d] EXCEPT !.state = "SEND"]
             f == dev[o].out
  <2>1. PICK y \in HandleIncomingPacket(d, x, f) :
          dev' = [dev EXCEPT ![d] = HandlePendingSend(y), ![o].out = NoFrame]
    BY <1>7 DEF Receive
  <2>2. x \in Device(RW[d]) /\ f \in Frame
    BY <1>1 DEF Device
  <2>3. HandlePendingSend(y) \in Device(RW[d])
    <3> HIDE DEF x, f
    <3> QED BY <2>1, <2>2, HandleIncomingPacketTyped, HandlePendingSendTyped
  <2>4. [dev[o] EXCEPT !.out = NoFrame] \in Device(RW[o])
    BY <1>1, FramesTyped DEF Device
  <2>5. d # o /\ Peer = {d, o}
    BY DEF Peer, Other
  <2>6. dev' = [dev EXCEPT ![d] = HandlePendingSend(y),
                           ![o] = [dev[o] EXCEPT !.out = NoFrame]]
    <3>1. dev = [e \in Peer |-> dev[e]] /\ o \in Peer
      BY <2>5 DEF TypeOK
    <3> DEFINE z == HandlePendingSend(y)
    <3>2. dev' = [dev EXCEPT ![d] = z, ![o].out = NoFrame]
      BY <2>1
    <3> HIDE DEF z, o
    <3>3. [dev EXCEPT ![d] = z][o] = dev[o]
      BY <2>5, <3>1
    <3> QED BY <3>2, <3>3 DEF z
  <2> HIDE DEF o
  <2> QED BY <1>1, <2>3, <2>4, <2>5, <2>6 DEF TypeOK
<1>8. ASSUME NEW d \in Peer, SendSymm(d)
      PROVE  TypeOK'
  BY <1>1, <1>2, <1>8, FramesTyped, InternalSendTyped, HandlePendingSendTyped
     DEF SendSymm, SymmetryTurn
<1>9. CASE UNCHANGED vars
  BY <1>9 DEF vars, TypeOK
<1> QED BY <1>3, <1>4, <1>5, <1>6, <1>7, <1>8, <1>9 DEF Next

(* The type invariant holds in every reachable state, whatever the    *)
(* number of sockets, their windows and their traffic: the sequence   *)
(* variables stay 4-bit numbers, the receive window keeps its size,   *)
(* socketIndex stays in the table and every frame on the link is well *)
(* formed.                                                            *)
THEOREM TypeCorrect == Spec => []TypeOK
<1>1. Init => TypeOK
  <2>1. Base % 16 \in 0 .. 15
    BY SduAssumption
  <2>2. \A d \in Peer, s \in Sockets : InitSocket(RW[d], s) \in Socket(RW[d])
    BY <2>1 DEF InitSocket, Socket, Mod
  <2>3. \A d \in Peer : InitDevice(d) \in Device(RW[d])
    BY <2>2, FramesTyped, SocketAssumption DEF InitDevice, Device, Sockets
  <2> QED BY <2>3 DEF Init, TypeOK
<1>2. TypeOK /\ [Next]_vars => TypeOK'
  BY StepTyped
<1> QED BY <1>1, <1>2, PTL DEF Spec

-----------------------------------------------------------------------------
(***************************************************************************)
(* The link under the transport: OneTurn and LinkHoldsPendingFrame are     *)
(* invariants.  Every call a handler makes is a LinkStep; LinkSteps        *)
(* compose, so each handler is one, and an action keeps or passes the      *)
(* turn.                                                                   *)
(***************************************************************************)

(* The strengthening of LinkHoldsPendingFrame for one device: a frame the  *)
(* link holds, and a rejection that waits, is a real frame.                *)
LinkOK(x) ==
  /\ x.bSendPending <=> x.slot # NoFrame
  /\ x.linkCb => x.bSendPending
  /\ x.sent => x.slot # NoFrame /\ x.state = "RECV"
  /\ x.slot # NoFrame => x.slot.type # "none"
  /\ x.frmr # NoFrame => x.frmr.type # "none"

(* Nothing of the link differs. *)
SameLink(x, y) ==
  /\ y.state = x.state /\ y.slot = x.slot /\ y.sent = x.sent /\ y.out = x.out
  /\ y.bSendPending = x.bSendPending /\ y.linkCb = x.linkCb /\ y.frmr = x.frmr

(* A call inside a handler: the link stays consistent, and either the turn *)
(* and the wire are as before or the turn went to the peer with the frame. *)
LinkStep(x, y) ==
  /\ LinkOK(y)
  /\ \/ y.state = x.state /\ y.out = x.out /\ (x.sent => y.sent)
     \/ x.state = "SEND" /\ y.state = "RECV" /\ y.out # NoFrame /\ y.sent

(* The calls of a handler compose. *)
LEMMA LinkStepsCompose ==
  ASSUME NEW x, NEW y, NEW z, LinkStep(x, y), LinkStep(y, z)
  PROVE  LinkStep(x, z)
BY DEF LinkStep

(* A call that leaves the link alone is no step of it. *)
LEMMA SameLinkStep ==
  ASSUME NEW x, NEW y, NEW z, LinkOK(x), SameLink(x, y)
  PROVE  LinkOK(y) /\ LinkStep(x, y) /\ (LinkStep(y, z) => LinkStep(x, z))
BY DEF LinkStep, LinkOK, SameLink

(* Writing a socket leaves the link alone. *)
LEMMA UpdateKeepsLink ==
  ASSUME NEW w, NEW x \in Device(w), NEW s, NEW k
  PROVE  SameLink(x, Update(x, s, k))
BY DEF Update, SameLink, Device

(* A frame that is built is not the absent frame. *)
LEMMA PduIsFrame ==
  ASSUME NEW t, t # "none", NEW s, NEW ns, NEW nr, NEW n
  PROVE  Pdu(t, s, ns, nr, n).type = t /\ Pdu(t, s, ns, nr, n) # NoFrame
BY DEF Pdu, NoFrame

(* InternalSend gives the turn away with a frame on the wire and *)
(* touches nothing else of the link.                             *)
LEMMA InternalSendLink ==
  ASSUME NEW w, NEW x \in Device(w), NEW f \in Frame
  PROVE  LET y == InternalSend(x, f)
         IN /\ y.state = "RECV" /\ y.out = f
            /\ y.slot = x.slot /\ y.sent = x.sent /\ y.bSendPending = x.bSendPending
            /\ y.linkCb = x.linkCb /\ y.frmr = x.frmr
<1> DEFINE z == [x EXCEPT !.state = "RECV", !.out = f]
           k == [z.sock[f.s] EXCEPT !.transmitted = @ + 1]
<1>1. z \in Device(w) /\ z.state = "RECV" /\ z.out = f
      /\ z.slot = x.slot /\ z.sent = x.sent /\ z.bSendPending = x.bSendPending
      /\ z.linkCb = x.linkCb /\ z.frmr = x.frmr
  BY DEF Device
<1>2. SameLink(z, Update(z, f.s, k))
  BY <1>1, UpdateKeepsLink
<1> HIDE DEF z
<1> QED BY <1>1, <1>2 DEF InternalSend, SameLink, z

(* A frame given to a link that holds none is a step of the link. *)
LEMMA LlcSendLink ==
  ASSUME NEW w, NEW x \in Device(w), NEW y \in Device(w), NEW f \in Frame,
         LinkOK(x), x.slot = NoFrame, f # NoFrame, f.type # "none",
         y.state = x.state, y.out = x.out, y.slot = NoFrame,
         y.bSendPending = TRUE, y.frmr # NoFrame => y.frmr.type # "none"
  PROVE  LinkStep(x, LlcSend(y, f))
<1> DEFINE a == [y EXCEPT !.slot = f, !.sent = TRUE]
           b == [y EXCEPT !.slot = f, !.sent = FALSE, !.info = @ \/ HasInfo(f)]
<1>1. a \in Device(w) /\ a.slot = f /\ a.sent = TRUE /\ a.bSendPending = TRUE
      /\ a.frmr = y.frmr
  BY DEF Device
<1>2. b.slot = f /\ b.sent = FALSE /\ b.bSendPending = TRUE /\ b.linkCb = y.linkCb
      /\ b.frmr = y.frmr /\ b.state = y.state /\ b.out = y.out
  BY DEF Device
<1>3. y.state \in {"SEND", "RECV"} /\ ~x.sent
  BY DEF Device, LinkOK
<1>4. CASE OurTurn(y)
  <2> HIDE DEF a
  <2> DEFINE z == InternalSend(a, f)
  <2>1. z.state = "RECV" /\ z.out = f /\ z.slot = f /\ z.sent = TRUE
        /\ z.bSendPending = TRUE /\ z.frmr = y.frmr
    BY <1>1, InternalSendLink
  <2>2. LlcSend(y, f) = z
    BY <1>4 DEF LlcSend, LinkAccepts, a
  <2> HIDE DEF z
  <2> QED BY <1>4, <2>1, <2>2 DEF LinkStep, LinkOK, OurTurn
<1>5. CASE ~OurTurn(y)
  <2>1. LlcSend(y, f) = b
    BY <1>5 DEF LlcSend, LinkAccepts
  <2> HIDE DEF b
  <2> QED BY <1>2, <1>3, <2>1 DEF LinkStep, LinkOK
<1> QED BY <1>4, <1>5

(* HandlePendingSend is a step of a link that has the turn. *)
LEMMA HandlePendingSendLink ==
  ASSUME NEW w, NEW x \in Device(w), LinkOK(x), x.state = "SEND"
  PROVE  LinkStep(x, HandlePendingSend(x))
<1> DEFINE y == [x EXCEPT !.sent = TRUE]
           f == [x.slot EXCEPT !.extra = x.info /\ ~HasInfo(x.slot)]
<1>1. CASE ~Queued(x)
  BY <1>1 DEF HandlePendingSend, LinkStep
<1>2. CASE Queued(x)
  <2>1. y \in Device(w) /\ y.slot = x.slot /\ y.sent = TRUE
        /\ y.bSendPending = x.bSendPending /\ y.linkCb = x.linkCb /\ y.frmr = x.frmr
    BY DEF Device
  <2>2. x.slot \in Frame /\ x.info \in BOOLEAN
    BY DEF Device
  <2>3. f \in Frame /\ f.type = x.slot.type
    BY <2>2 DEF Frame, HasInfo
  <2>4. f # NoFrame
    BY <1>2, <2>3 DEF Queued, LinkOK, NoFrame, Pdu
  <2> HIDE DEF y, f
  <2> DEFINE z == InternalSend(y, f)
  <2>5. z.state = "RECV" /\ z.out = f /\ z.slot = x.slot /\ z.sent = TRUE
        /\ z.bSendPending = x.bSendPending /\ z.linkCb = x.linkCb /\ z.frmr = x.frmr
    BY <2>1, <2>3, InternalSendLink
  <2>6. HandlePendingSend(x) = z
    BY <1>2 DEF HandlePendingSend, y, f
  <2> HIDE DEF z
  <2> QED BY <1>2, <2>4, <2>5, <2>6 DEF Queued, LinkStep, LinkOK
<1> QED BY <1>1, <1>2

(* LinkSend is a step of the link, whatever the link holds. *)
LEMMA LinkSendLink ==
  ASSUME NEW w, NEW x \in Device(w), NEW y \in Device(w), NEW f \in Frame,
         LinkOK(x), f # NoFrame, f.type # "none",
         y.state = x.state, y.out = x.out, y.slot = x.slot, y.sent = x.sent,
         y.linkCb = x.linkCb, y.frmr = x.frmr, y.bSendPending = TRUE
  PROVE  LinkStep(x, LinkSend(y, f))
<1>1. CASE x.slot = NoFrame
  <2> DEFINE z == [y EXCEPT !.linkCb = TRUE]
  <2>1. z \in Device(w) /\ z.state = y.state /\ z.out = y.out /\ z.slot = y.slot
        /\ z.frmr = y.frmr /\ z.bSendPending = y.bSendPending
    BY DEF Device
  <2>2. z.bSendPending = TRUE /\ (z.frmr # NoFrame => z.frmr.type # "none")
    BY <2>1 DEF LinkOK
  <2>3. LinkSend(y, f) = LlcSend(z, f)
    BY <1>1 DEF LinkSend, LinkAccepts, LinkOK
  <2> HIDE DEF z
  <2>4. LinkStep(x, LlcSend(z, f))
    BY <1>1, <2>1, <2>2, LlcSendLink
  <2> QED BY <2>3, <2>4
<1>2. CASE x.slot # NoFrame
  <2>1. LinkSend(y, f) = y
    BY <1>2 DEF LinkSend, LinkAccepts
  <2> QED BY <1>2, <2>1 DEF LinkStep, LinkOK
<1> QED BY <1>1, <1>2

-----------------------------------------------------------------------------
(* Frames a socket sends. *)

(* performSendInfo is a step of the link. *)
LEMMA PerformSendInfoLink ==
  ASSUME NEW w, NEW x \in Device(w), NEW s \in Sockets, LinkOK(x)
  PROVE  LinkStep(x, PerformSendInfo(x, s))
<1> DEFINE k == x.sock[s]
           z == [x EXCEPT !.bSendPending = TRUE, !.socketIndex = s]
           l == [k EXCEPT !.sendPending = FALSE, !.VRA = AckNumber(k),
                          !.VS = NextNumber(@)]
           y == Update(z, s, l)
           f == Pdu("I", s, k.VS, AckNumber(k), k.accepted)
<1>1. y \in Device(w) /\ f \in Frame
  BY PerformSendInfoArguments
<1>2. f.type = "I" /\ f # NoFrame
  BY PduIsFrame
<1>3. z \in Device(w) /\ z.state = x.state /\ z.out = x.out /\ z.slot = x.slot
      /\ z.sent = x.sent /\ z.linkCb = x.linkCb /\ z.frmr = x.frmr
      /\ z.bSendPending = TRUE
  BY DEF Device
<1> HIDE DEF l
<1>4. SameLink(z, y)
  BY <1>3, UpdateKeepsLink
<1>5. LinkStep(x, LinkSend(y, f))
  <2> HIDE DEF y, f, z
  <2> QED BY <1>1, <1>2, <1>3, <1>4, LinkSendLink DEF SameLink
<1> QED BY <1>5 DEF PerformSendInfo, l

(* Sending an RR or RNR is a step of the link. *)
LEMMA SendSupervisoryLink ==
  ASSUME NEW w, NEW x \in Device(w), NEW s \in Sockets, NEW type \in {"RR", "RNR"},
         LinkOK(x)
  PROVE  LinkStep(x, SendSupervisory(x, s, type))
<1> DEFINE k == x.sock[s]
           z == [x EXCEPT !.bSendPending = TRUE, !.socketIndex = s]
           l == [k EXCEPT !.VRA = AckNumber(k)]
           y == Update(z, s, l)
           f == Pdu(type, s, 0, AckNumber(k), 0)
<1>1. y \in Device(w) /\ f \in Frame
  BY SendSupervisoryArguments
<1>2. f.type # "none" /\ f # NoFrame
  BY PduIsFrame
<1>3. z \in Device(w) /\ z.state = x.state /\ z.out = x.out /\ z.slot = x.slot
      /\ z.sent = x.sent /\ z.linkCb = x.linkCb /\ z.frmr = x.frmr
      /\ z.bSendPending = TRUE
  BY DEF Device
<1> HIDE DEF l
<1>4. SameLink(z, y)
  BY <1>3, UpdateKeepsLink
<1>5. LinkStep(x, LinkSend(y, f))
  <2> HIDE DEF y, f, z
  <2> QED BY <1>1, <1>2, <1>3, <1>4, LinkSendLink DEF SameLink
<1> QED BY <1>5 DEF SendSupervisory, l

(* Writing a socket is a step of the link. *)
LEMMA UpdateLink ==
  ASSUME NEW w, NEW x \in Device(w), NEW s, NEW k, LinkOK(x)
  PROVE  LinkOK(Update(x, s, k)) /\ LinkStep(x, Update(x, s, k))
BY UpdateKeepsLink, SameLinkStep

(* performSendReceiveReady is a step of the link. *)
LEMMA SendReceiveReadyLink ==
  ASSUME NEW w, NEW x \in Device(w), NEW s \in Sockets, LinkOK(x)
  PROVE  LinkStep(x, SendReceiveReady(x, s))
BY UpdateLink, SendSupervisoryLink DEF SendReceiveReady

(* performSendReceiveNotReady is a step of the link. *)
LEMMA SendReceiveNotReadyLink ==
  ASSUME NEW w, NEW x \in Device(w), NEW s \in Sockets, LinkOK(x)
  PROVE  LinkStep(x, SendReceiveNotReady(x, s))
BY UpdateLink, SendSupervisoryLink DEF SendReceiveNotReady

(* A step ends with the link consistent. *)
LEMMA LinkStepOK ==
  ASSUME NEW x, NEW y, LinkStep(x, y)
  PROVE  LinkOK(y)
BY DEF LinkStep

(* Send is a step of the link. *)
LEMMA SendLink ==
  ASSUME NEW w, NEW d \in Peer, NEW x \in Device(w), NEW s \in Sockets, LinkOK(x)
  PROVE  LinkStep(x, Send(d, x, s))
<1> DEFINE l == [x.sock[s] EXCEPT !.sendCb = TRUE, !.accepted = @ + 1,
                                  !.sendPending = @ \/ MustWait(d, x, s)]
           y == Update(x, s, l)
<1>1. y \in Device(w)
  BY SendArgument
<1> HIDE DEF l
<1>2. LinkOK(y) /\ LinkStep(x, y)
  BY UpdateLink
<1>3. LinkStep(x, PerformSendInfo(y, s))
  <2> HIDE DEF y
  <2> QED BY <1>1, <1>2, PerformSendInfoLink, LinkStepsCompose
<1> QED BY <1>2, <1>3 DEF Send, l

(* What an application does in a callback is a step of the link. *)
LEMMA ReactLink ==
  ASSUME NEW w, NEW d \in Peer, NEW x \in Device(w), NEW s \in Sockets, NEW react,
         LinkOK(x)
  PROVE  LinkStep(x, React(d, x, s, react))
<1>1. LinkStep(x, x)
  BY DEF LinkStep
<1> QED BY <1>1, UpdateLink, SendLink DEF React, AwaitSdu

-----------------------------------------------------------------------------
(* Completion of a frame. *)

(* HandlePendingOperations is a step of the link. *)
LEMMA HandlePendingOperationsLink ==
  ASSUME NEW w, NEW x \in Device(w), NEW s \in Sockets, LinkOK(x)
  PROVE  LinkStep(x, HandlePendingOperations(x, s))
<1> DEFINE y == Update(x, s, [x.sock[s] EXCEPT !.rrPending = FALSE])
           z == Update(x, s, [x.sock[s] EXCEPT !.rnrPending = FALSE])
<1>1. y \in Device(w) /\ z \in Device(w)
  BY SocketTyped, FieldsTyped, SocketUpdated
<1>2. LinkOK(y) /\ LinkStep(x, y) /\ LinkOK(z) /\ LinkStep(x, z)
  BY UpdateLink
<1>3. LinkStep(x, SendReceiveReady(y, s)) /\ LinkStep(x, SendReceiveNotReady(z, s))
  <2> HIDE DEF y, z
  <2> QED BY <1>1, <1>2, SendReceiveReadyLink, SendReceiveNotReadyLink, LinkStepsCompose
<1> QED BY <1>3, PerformSendInfoLink DEF HandlePendingOperations

(* The loop of Send_CB is a step of the link. *)
LEMMA PollSocketsLink ==
  ASSUME NEW w, NEW d \in Peer, NEW x \in Device(w), NEW rejected, LinkOK(x)
  PROVE  LinkStep(x, PollSockets(d, x, rejected))
<1>1. LinkStep(x, x)
  BY DEF LinkStep
<1>2. PollSockets(d, x, rejected) = x
      \/ \E s \in Sockets : PollSockets(d, x, rejected) = HandlePendingOperations(x, s)
  BY PollSocketsHandlesOne
<1> QED BY <1>1, <1>2, HandlePendingOperationsLink

(* SendLlcp_CB is a step of the link, once pfLinkSendCb is cleared. *)
LEMMA SendLlcp_CBLink ==
  ASSUME NEW w, NEW x \in Device(w), LinkOK([x EXCEPT !.linkCb = FALSE])
  PROVE  LinkStep([x EXCEPT !.linkCb = FALSE], SendLlcp_CB(x))
<1> DEFINE y == [x EXCEPT !.linkCb = FALSE]
           i == x.socketIndex
           k == [y.sock[i] EXCEPT !.sendCb = FALSE, !.confirmed = @ + 1]
<1>1. y \in Device(w)
  BY DEF Device
<1>2. LinkStep(y, y) /\ LinkStep(y, Update(y, i, k))
  <2> HIDE DEF i, k
  <2>1. LinkOK(y)
    OBVIOUS
  <2> HIDE DEF y
  <2> QED BY <1>1, <2>1, UpdateLink DEF LinkStep
<1> QED BY <1>2 DEF SendLlcp_CB

(* Send_CB is a step of the link from q, the device whose frame was *)
(* released and whose callback is no longer registered.             *)
LEMMA CompleteFrameLink ==
  ASSUME NEW w, NEW x \in Device(w), LinkOK(x)
  PROVE  \E q : /\ LinkOK(q) /\ q.state = x.state /\ q.out = x.out
                /\ LinkStep(q, CompleteFrame(x))
<1> DEFINE r == [x EXCEPT !.slot = NoFrame, !.sent = FALSE, !.bSendPending = FALSE]
           q == [r EXCEPT !.linkCb = FALSE]
           t == [r EXCEPT !.bSendPending = TRUE, !.frmr = NoFrame]
           u == SendPendingReject(r)
           v == [u EXCEPT !.linkCb = FALSE]
<1>1. r \in Device(w) /\ r.slot = NoFrame /\ r.sent = FALSE /\ r.bSendPending = FALSE
      /\ r.linkCb = x.linkCb /\ r.frmr = x.frmr /\ r.state = x.state /\ r.out = x.out
  BY FramesTyped DEF Device
<1>2. r.frmr \in Frame /\ (r.frmr # NoFrame => r.frmr.type # "none")
  BY <1>1 DEF LinkOK, Device
<1>3. q \in Device(w) /\ LinkOK(q) /\ q.state = x.state /\ q.out = x.out
      /\ q.slot = NoFrame
  <2> HIDE DEF r
  <2>1. q \in Device(w) /\ q.slot = NoFrame /\ q.sent = FALSE /\ q.bSendPending = FALSE
        /\ q.linkCb = FALSE /\ q.frmr = r.frmr /\ q.state = r.state /\ q.out = r.out
    BY <1>1 DEF Device
  <2> HIDE DEF q
  <2> QED BY <1>1, <1>2, <2>1 DEF LinkOK
<1>4. u \in Device(w) /\ LinkStep(q, v)
  <2>1. CASE r.frmr = NoFrame
    <3>1. u = r
      BY <2>1 DEF SendPendingReject
    <3> HIDE DEF r
    <3> QED BY <1>1, <1>3, <3>1 DEF LinkStep
  <2>2. CASE r.frmr # NoFrame
    <3>1. t \in Device(w) /\ t.state = q.state /\ t.out = q.out /\ t.slot = NoFrame
          /\ t.bSendPending = TRUE /\ t.frmr = NoFrame
      <4> HIDE DEF r
      <4> QED BY <1>1, FramesTyped DEF Device
    <3>2. u = LlcSend(t, r.frmr)
      BY <2>2 DEF SendPendingReject
    <3>3. u \in Device(w) /\ LinkStep(q, u)
      <4> HIDE DEF t, q, r, u
      <4> QED BY <1>2, <1>3, <2>2, <3>1, <3>2, LlcSendTyped, LlcSendLink
    <3> HIDE DEF u
    <3>4. v.state = u.state /\ v.out = u.out /\ v.slot = u.slot /\ v.sent = u.sent
          /\ v.bSendPending = u.bSendPending /\ v.linkCb = FALSE /\ v.frmr = u.frmr
      BY <3>3 DEF Device
    <3> HIDE DEF v, q
    <3> QED BY <3>3, <3>4 DEF LinkStep, LinkOK
  <2> QED BY <2>1, <2>2
<1>5. CompleteFrame(x) = SendLlcp_CB(u)
  BY DEF CompleteFrame
<1>6. LinkStep(v, SendLlcp_CB(u))
  <2> HIDE DEF u, q
  <2> QED BY <1>4, LinkStepOK, SendLlcp_CBLink
<1>7. LinkStep(q, CompleteFrame(x))
  <2> HIDE DEF u, q, v
  <2> QED BY <1>4, <1>5, <1>6, LinkStepsCompose
<1> HIDE DEF q
<1> QED BY <1>3, <1>7

-----------------------------------------------------------------------------
(* Handlers of incoming frames. *)

(* Rewriting a queued rejection is a step of the link. *)
LEMMA RewriteQueuedRejectLink ==
  ASSUME NEW w, NEW x \in Device(w), LinkOK(x),
         NEW f \in Frame, f # NoFrame, f.type # "none"
  PROVE  LinkStep(x, RewriteQueuedReject(x, f))
<1> DEFINE y == [x EXCEPT !.slot = f]
<1>1. y.slot = f /\ y.state = x.state /\ y.out = x.out /\ y.sent = x.sent
      /\ y.bSendPending = x.bSendPending /\ y.linkCb = x.linkCb /\ y.frmr = x.frmr
  BY DEF Device
<1> HIDE DEF y
<1>2. Queued(x) => LinkStep(x, y)
  BY <1>1 DEF Queued, LinkStep, LinkOK
<1> QED BY <1>2 DEF RewriteQueuedReject, LinkStep, y

(* SendFrameReject is a step of the link. *)
LEMMA SendFrameRejectLink ==
  ASSUME NEW w, NEW x \in Device(w), NEW s \in Sockets, LinkOK(x)
  PROVE  LinkStep(x, SendFrameReject(x, s))
<1> DEFINE f == Pdu("FRMR", s, 0, 0, 0)
           c == Close(x, s)
           y == RewriteQueuedReject(c, f)
           a == [y EXCEPT !.frmr = f]
           b == [y EXCEPT !.bSendPending = TRUE]
<1>0. c \in Device(w) /\ LinkOK(c) /\ LinkStep(x, c)
  BY CloseTyped, UpdateLink DEF Close
<1>2. f \in Frame /\ f.type = "FRMR" /\ f # NoFrame
  BY FramesTyped, PduIsFrame
<1> HIDE DEF c, f
<1>1. y \in Device(w) /\ LinkOK(y) /\ LinkStep(x, y)
  <2>1. LinkStep(c, y)
    BY <1>0, <1>2, RewriteQueuedRejectLink
  <2> QED BY <1>0, <1>2, <2>1, RewriteQueuedRejectTyped, LinkStepsCompose, LinkStepOK
<1> HIDE DEF y
<1>3. a.state = y.state /\ a.out = y.out /\ a.slot = y.slot /\ a.sent = y.sent
      /\ a.bSendPending = y.bSendPending /\ a.linkCb = y.linkCb /\ a.frmr = f
  BY <1>1 DEF Device
<1>4. b \in Device(w) /\ b.state = y.state /\ b.out = y.out /\ b.slot = y.slot
      /\ b.bSendPending = TRUE /\ b.frmr = y.frmr
  BY <1>1 DEF Device
<1>5. CASE y.bSendPending
  <2>1. SendFrameReject(x, s) = a
    BY <1>5 DEF SendFrameReject, y, c, f
  <2> HIDE DEF a
  <2>2. LinkStep(y, a)
    BY <1>1, <1>2, <1>3 DEF LinkStep, LinkOK
  <2> QED BY <1>1, <2>1, <2>2, LinkStepsCompose
<1>6. CASE ~y.bSendPending
  <2>1. SendFrameReject(x, s) = LlcSend(b, f)
    BY <1>6 DEF SendFrameReject, y, c, f
  <2> HIDE DEF b
  <2>2. y.slot = NoFrame /\ (y.frmr # NoFrame => y.frmr.type # "none")
    BY <1>1, <1>6 DEF LinkOK
  <2>3. f.type # "none"
    BY <1>2
  <2>4. LinkStep(y, LlcSend(b, f))
    BY <1>1, <1>2, <1>4, <2>2, <2>3, LlcSendLink
  <2> QED BY <1>1, <2>1, <2>4, LinkStepsCompose
<1> QED BY <1>5, <1>6

(* The end of Handle_ReceivedIFrame is a step of the link. *)
LEMMA AcknowledgeLink ==
  ASSUME NEW w, NEW d \in Peer, NEW x \in Device(w), NEW s \in Sockets, NEW replied,
         LinkOK(x)
  PROVE  LinkStep(x, Acknowledge(d, x, s, replied))
<1>1. LinkStep(x, x)
  BY DEF LinkStep
<1> QED BY <1>1, PerformSendInfoLink, SendReceiveReadyLink DEF Acknowledge

(* Storing an SDU, with its RNR, is a step of the link. *)
LEMMA StoreLink ==
  ASSUME NEW d \in Peer, NEW x \in Device(RW[d]), NEW s \in Sockets, NEW sdu \in Nat,
         LinkOK(x)
  PROVE  LinkStep(x, Store(d, x, s, sdu))
<1> DEFINE y == Update(x, s, [x.sock[s] EXCEPT !.ring[x.sock[s].wr % RW[d]] = sdu,
                                               !.busy = TRUE, !.wr = @ + 1])
<1>1. y \in Device(RW[d])
  BY StoreArgument
<1>2. LinkOK(y) /\ LinkStep(x, y)
  BY UpdateLink
<1>3. LinkStep(x, SendReceiveNotReady(y, s))
  <2> HIDE DEF y
  <2> QED BY <1>1, <1>2, SendReceiveNotReadyLink, LinkStepsCompose
<1>4. LinkStep(x, x)
  BY DEF LinkStep
<1> QED BY <1>2, <1>3, <1>4 DEF Store

(* Handle_ReceivedIFrame is a step of the link. *)
LEMMA HandleIFrameLink ==
  ASSUME NEW d \in Peer, NEW x \in Device(RW[d]), NEW f \in Frame, LinkOK(x),
         NEW y \in HandleIFrame(d, x, f)
  PROVE  LinkStep(x, y)
<1> DEFINE z == Deliver(x, f)
           k == Update(x, f.s, [x.sock[f.s] EXCEPT !.VSA = f.nr])
<1>1. f.s \in Sockets /\ f.sdu \in Nat
  BY DEF Frame
<1>2. LinkStep(x, SendFrameReject(x, f.s)) /\ LinkStep(x, x)
  BY <1>1, SendFrameRejectLink DEF LinkStep
<1>3. z \in Device(RW[d]) /\ LinkOK(z) /\ LinkStep(x, z)
  BY DeliverTyped, UpdateLink DEF Deliver
<1>4. ASSUME NEW r \in Reaction
      PROVE  LinkStep(x, Acknowledge(d, React(d, z, f.s, r), f.s, r = "reply"))
  <2> HIDE DEF z
  <2> DEFINE u == React(d, z, f.s, r)
  <2>1. u \in Device(RW[d]) /\ LinkStep(z, u)
    BY <1>1, <1>3, ReactTyped, ReactLink
  <2>2. LinkStep(u, Acknowledge(d, u, f.s, r = "reply"))
    <3> HIDE DEF u
    <3> QED BY <1>1, <2>1, LinkStepOK, AcknowledgeLink
  <2> HIDE DEF u
  <2>3. LinkStep(z, Acknowledge(d, u, f.s, r = "reply"))
    BY <2>1, <2>2, LinkStepsCompose
  <2>4. LinkStep(x, Acknowledge(d, u, f.s, r = "reply"))
    BY <1>3, <2>3, LinkStepsCompose
  <2> QED BY <2>4 DEF u
<1>5. LinkStep(x, Store(d, k, f.s, f.sdu))
  <2>1. k \in Device(RW[d]) /\ LinkOK(k) /\ LinkStep(x, k)
    BY HandleIFrameArgument, UpdateLink
  <2> HIDE DEF k
  <2> QED BY <1>1, <2>1, StoreLink, LinkStepsCompose
<1> QED BY <1>2, <1>4, <1>5 DEF HandleIFrame

(* The handlers of RR and RNR are steps of the link. *)
LEMMA HandleSupervisoryLink ==
  ASSUME NEW d \in Peer, NEW w, NEW x \in Device(w), NEW f \in Frame, LinkOK(x),
         NEW y \in HandleReceiveReady(x, f) \cup HandleReceiveNotReady(d, x, f)
  PROVE  LinkStep(x, y)
<1> DEFINE k(b) == Update(x, f.s, [x.sock[f.s] EXCEPT !.VSA = f.nr, !.remoteBusy = b])
<1>1. f.s \in Sockets
  BY DEF Frame
<1>2. LinkStep(x, SendFrameReject(x, f.s)) /\ LinkStep(x, x)
  BY <1>1, SendFrameRejectLink DEF LinkStep
<1>3. ASSUME NEW b \in BOOLEAN
      PROVE  LinkStep(x, k(b)) /\ LinkStep(x, PerformSendInfo(k(b), f.s))
  <2>1. k(b) \in Device(w) /\ LinkOK(k(b)) /\ LinkStep(x, k(b))
    BY HandleSupervisoryArgument, UpdateLink
  <2> HIDE DEF k
  <2> QED BY <1>1, <2>1, PerformSendInfoLink, LinkStepsCompose
<1> QED BY <1>2, <1>3 DEF HandleReceiveReady, HandleReceiveNotReady

(* Every handler of an incoming frame is a step of the link. *)
LEMMA HandleIncomingPacketLink ==
  ASSUME NEW d \in Peer, NEW x \in Device(RW[d]), NEW f \in Frame, LinkOK(x),
         NEW y \in HandleIncomingPacket(d, x, f)
  PROVE  LinkStep(x, y)
<1>1. LinkStep(x, x) /\ \A z \in HandleFrameReject(x, f) : LinkStep(x, z)
  BY UpdateLink DEF HandleFrameReject, Close, LinkStep
<1> QED BY <1>1, HandleIFrameLink, HandleSupervisoryLink DEF HandleIncomingPacket

-----------------------------------------------------------------------------
(* Actions. *)

(* What a whole action does to the turn. *)
Turns(x, y) ==
  /\ LinkOK(y)
  /\ \/ y.state = x.state /\ y.out = x.out
     \/ x.state = "SEND" /\ y.state = "RECV" /\ y.out # NoFrame

(* A step of the link keeps or passes the turn. *)
LEMMA LinkStepTurns ==
  ASSUME NEW x, NEW y, LinkStep(x, y)
  PROVE  Turns(x, y)
BY DEF LinkStep, Turns

(* The inductive invariant. *)
LinkInv == OneTurn /\ \A d \in Peer : LinkOK(dev[d])

(* A step of one device that keeps or passes the turn preserves *)
(* LinkInv.                                                     *)
LEMMA OwnStepKeepsLink ==
  ASSUME TypeOK, LinkInv, NEW d \in Peer, NEW x, NEW y,
         x.state = dev[d].state, x.out = dev[d].out, Turns(x, y),
         dev' = [dev EXCEPT ![d] = y]
  PROVE  LinkInv'
<1> DEFINE o == Other(d)
<1>1. o \in Peer /\ o # d /\ Peer = {d, o} /\ Other(o) = d
  BY DEF Peer, Other
<1>2. dev'[d] = y /\ dev'[o] = dev[o]
  BY <1>1 DEF TypeOK
<1>3. LinkOK(dev'[d]) /\ LinkOK(dev'[o])
  BY <1>1, <1>2 DEF LinkInv, Turns
<1>4. LET a == dev[d]
          b == dev[o]
      IN \/ a.state # b.state /\ a.out = NoFrame /\ b.out = NoFrame
         \/ a.state = "RECV" /\ b.state = "RECV" /\ (a.out = NoFrame) # (b.out = NoFrame)
  BY DEF LinkInv, OneTurn
<1>5. dev[d].state \in {"SEND", "RECV"} /\ dev[o].state \in {"SEND", "RECV"}
  BY <1>1 DEF TypeOK, Device
<1>6. LET a == dev'[d]
          b == dev'[o]
      IN \/ a.state # b.state /\ a.out = NoFrame /\ b.out = NoFrame
         \/ a.state = "RECV" /\ b.state = "RECV" /\ (a.out = NoFrame) # (b.out = NoFrame)
  <2> HIDE DEF o
  <2> QED BY <1>2, <1>4, <1>5 DEF Turns
<1>7. OneTurn'
  <2> HIDE DEF o
  <2> QED BY <1>1, <1>6 DEF OneTurn, o
<1> QED BY <1>1, <1>3, <1>7 DEF LinkInv

(* Every step preserves LinkInv, one case per action. *)
LEMMA StepKeepsLink ==
  ASSUME TypeOK, LinkInv, [Next]_vars
  PROVE  LinkInv'
<1>1. ASSUME NEW d \in Peer
      PROVE  dev[d] \in Device(RW[d]) /\ LinkOK(dev[d])
  BY DEF TypeOK, LinkInv
<1>2. ASSUME NEW d \in Peer, NEW s \in Sockets, AppSend(d, s)
      PROVE  LinkInv'
  <2>1. LinkStep(dev[d], Send(d, dev[d], s))
    BY <1>1, SendLink
  <2> QED BY <1>2, <2>1, LinkStepTurns, OwnStepKeepsLink DEF AppSend
<1>3. ASSUME NEW d \in Peer, NEW s \in Sockets, AppRecv(d, s)
      PROVE  LinkInv'
  <2>1. LinkStep(dev[d], AwaitSdu(dev[d], s))
    BY <1>1, UpdateLink DEF AwaitSdu
  <2> QED BY <1>3, <2>1, LinkStepTurns, OwnStepKeepsLink DEF AppRecv
<1>4. ASSUME NEW d \in Peer, NEW s \in Sockets, AppRecvStored(d, s)
      PROVE  LinkInv'
  <2>1. PICK n \in 1 .. (dev[d].sock[s].wr - dev[d].sock[s].rd), r \in Reaction :
          dev' = [dev EXCEPT ![d] =
                    EndBusy(React(d, Drain(dev[d], s, RW[d], n), s, r), s)]
    BY <1>4 DEF AppRecvStored
  <2>2. n \in Nat
    <3>1. dev[d].sock[s].wr \in Nat /\ dev[d].sock[s].rd \in Nat
      BY <1>1, SocketTyped DEF Socket
    <3> QED BY <3>1
  <2> DEFINE x == dev[d]
             y == Drain(x, s, RW[d], n)
             z == React(d, y, s, r)
             u == Update(z, s, [z.sock[s] EXCEPT !.busy = FALSE])
  <2>3. y \in Device(RW[d]) /\ LinkOK(y) /\ LinkStep(x, y)
    BY <1>1, <2>2, DrainTyped, UpdateLink DEF Drain
  <2>4. z \in Device(RW[d]) /\ LinkOK(z) /\ LinkStep(x, z)
    <3> HIDE DEF x, y
    <3> QED BY <2>3, ReactTyped, ReactLink, LinkStepsCompose, LinkStepOK
  <2>5. LinkStep(x, EndBusy(z, s))
    <3> HIDE DEF x, z
    <3>1. u \in Device(RW[d])
      BY <2>4, SocketTyped, FieldsTyped, SocketUpdated
    <3>2. LinkOK(u) /\ LinkStep(z, u)
      BY <2>4, UpdateLink
    <3>3. LinkStep(z, EndBusy(z, s))
      <4>1. LinkStep(z, SendReceiveReady(u, s))
        <5> HIDE DEF u
        <5> QED BY <3>1, <3>2, SendReceiveReadyLink, LinkStepsCompose
      <4> QED BY <2>4, <4>1 DEF EndBusy, LinkStep
    <3> QED BY <2>4, <3>3, LinkStepsCompose
  <2> HIDE DEF z
  <2> QED BY <2>1, <2>5, LinkStepTurns, OwnStepKeepsLink DEF z
<1>5. ASSUME NEW d \in Peer, SendDone(d)
      PROVE  LinkInv'
  <2> DEFINE y == CompleteFrame(dev[d])
             i == dev[d].socketIndex
  <2>1. PICK r \in {"none", "send"} :
          dev' = [dev EXCEPT ![d] =
                    PollSockets(d, React(d, y, i, r), dev[d].frmr # NoFrame)]
    BY <1>5 DEF SendDone
  <2>2. y \in Device(RW[d]) /\ i \in Sockets
    BY <1>1, CompleteFrameTyped DEF Device
  <2>3. PICK q : q.state = dev[d].state /\ q.out = dev[d].out /\ LinkStep(q, y)
    BY <1>1, CompleteFrameLink
  <2> HIDE DEF y, i
  <2> DEFINE z == React(d, y, i, r)
  <2>4. z \in Device(RW[d]) /\ LinkStep(q, z) /\ LinkOK(z)
    BY <2>2, <2>3, ReactTyped, ReactLink, LinkStepsCompose, LinkStepOK
  <2> DEFINE u == PollSockets(d, z, dev[d].frmr # NoFrame)
  <2>5. LinkStep(q, u)
    <3> HIDE DEF z
    <3> QED BY <2>4, PollSocketsLink, LinkStepsCompose
  <2>6. dev' = [dev EXCEPT ![d] = u]
    BY <2>1
  <2> HIDE DEF u
  <2> QED BY <2>3, <2>5, <2>6, LinkStepTurns, OwnStepKeepsLink
<1>6. ASSUME NEW d \in Peer, Receive(d)
      PROVE  LinkInv'
  <2> DEFINE o == Other(d)
             x == [dev[d] EXCEPT !.state = "SEND"]
             f == dev[o].out
  <2>1. PICK y \in HandleIncomingPacket(d, x, f) :
          dev' = [dev EXCEPT ![d] = HandlePendingSend(y), ![o].out = NoFrame]
    BY <1>6 DEF Receive
  <2>2. o \in Peer /\ o # d /\ Peer = {d, o} /\ Other(o) = d
    BY DEF Peer, Other
  <2>3. x \in Device(RW[d]) /\ x.state = "SEND" /\ x.out = dev[d].out
        /\ LinkOK(x)
    <3>1. x \in Device(RW[d]) /\ x.state = "SEND" /\ x.out = dev[d].out
          /\ x.slot = dev[d].slot /\ x.sent = dev[d].sent
          /\ x.bSendPending = dev[d].bSendPending /\ x.linkCb = dev[d].linkCb
          /\ x.frmr = dev[d].frmr
      BY <1>1 DEF Device
    <3> HIDE DEF x
    <3> QED BY <1>1, <1>6, <3>1 DEF LinkOK, Receive
  <2>4. f \in Frame
    BY <1>1, <2>2 DEF Device
  <2>5. y \in Device(RW[d]) /\ LinkStep(x, y)
    <3> HIDE DEF x, f
    <3> QED BY <2>1, <2>3, <2>4, HandleIncomingPacketTyped, HandleIncomingPacketLink
  <2> DEFINE z == HandlePendingSend(y)
  <2>6. LinkStep(x, z)
    <3> HIDE DEF x
    <3>1. CASE y.state = "SEND"
      BY <2>5, <3>1, LinkStepOK, HandlePendingSendLink, LinkStepsCompose
    <3>2. CASE y.state # "SEND"
      <4>1. y.sent
        BY <2>3, <2>5, <3>2 DEF LinkStep
      <4>2. z = y
        BY <4>1 DEF HandlePendingSend, Queued
      <4> QED BY <2>5, <4>2
    <3> QED BY <3>1, <3>2
  <2>7. dev'[d] = z /\ dev'[o] = [dev[o] EXCEPT !.out = NoFrame]
    <3>1. dev = [e \in Peer |-> dev[e]]
      BY DEF TypeOK
    <3>2. dev' = [dev EXCEPT ![d] = z, ![o].out = NoFrame]
      BY <2>1
    <3> HIDE DEF z, o
    <3> QED BY <2>2, <3>1, <3>2
  <2>8. dev'[o].state = dev[o].state /\ dev'[o].out = NoFrame /\ LinkOK(dev'[o])
    <3> DEFINE v == [dev[o] EXCEPT !.out = NoFrame]
    <3>1. v.state = dev[o].state /\ v.out = NoFrame
          /\ v.slot = dev[o].slot /\ v.sent = dev[o].sent
          /\ v.bSendPending = dev[o].bSendPending /\ v.linkCb = dev[o].linkCb
          /\ v.frmr = dev[o].frmr
      BY <1>1, <2>2 DEF Device
    <3> HIDE DEF v, o
    <3>2. LinkOK(v)
      BY <1>1, <2>2, <3>1 DEF LinkOK
    <3> QED BY <2>7, <3>1, <3>2 DEF v
  <2>9. dev[d].out = NoFrame /\ dev[o].state = "RECV"
    BY <1>6, <2>2 DEF LinkInv, OneTurn, Receive
  <2>10. LinkOK(dev'[d])
    BY <2>6, <2>7, LinkStepOK
  <2>11. LET a == dev'[d]
             b == dev'[o]
         IN \/ a.state # b.state /\ a.out = NoFrame /\ b.out = NoFrame
            \/ a.state = "RECV" /\ b.state = "RECV" /\ (a.out = NoFrame) # (b.out = NoFrame)
    <3> HIDE DEF z, o, x
    <3> QED BY <2>3, <2>6, <2>7, <2>8, <2>9 DEF LinkStep
  <2> HIDE DEF o
  <2>12. OneTurn'
    BY <2>2, <2>11 DEF OneTurn, o
  <2> QED BY <2>2, <2>8, <2>10, <2>12 DEF LinkInv
<1>7. ASSUME NEW d \in Peer, SendSymm(d)
      PROVE  LinkInv'
  <2> DEFINE x == dev[d]
             y == SymmetryTurn(x)
             z == InternalSend(x, Symm)
  <2>1. Symm # NoFrame
    BY PduIsFrame DEF Symm
  <2>2. x \in Device(RW[d]) /\ LinkOK(x) /\ x.state = "SEND"
    BY <1>1, <1>7 DEF SendSymm, OurTurn
  <2>3. dev' = [dev EXCEPT ![d] = y] /\ x.state = dev[d].state /\ x.out = dev[d].out
    BY <1>7 DEF SendSymm
  <2> HIDE DEF x
  <2>4. z.state = "RECV" /\ z.out = Symm /\ z.slot = x.slot /\ z.sent = x.sent
        /\ z.bSendPending = x.bSendPending /\ z.linkCb = x.linkCb /\ z.frmr = x.frmr
    BY <2>2, FramesTyped, InternalSendLink
  <2> HIDE DEF z
  <2>5. Turns(x, z)
    BY <2>1, <2>2, <2>4 DEF Turns, LinkOK
  <2>6. Turns(x, y)
    BY <2>2, <2>5, HandlePendingSendLink, LinkStepTurns DEF SymmetryTurn, z
  <2> HIDE DEF y
  <2> QED BY <2>3, <2>6, OwnStepKeepsLink
<1>8. CASE UNCHANGED vars
  BY <1>8 DEF vars, LinkInv, OneTurn, LinkOK
<1> QED BY <1>2, <1>3, <1>4, <1>5, <1>6, <1>7, <1>8 DEF Next

(* The inductive invariant holds in every reachable state. *)
THEOREM LinkInvariant == Spec => []LinkInv
<1>1. Init => LinkInv
  <2>1. \A d \in Peer : LinkOK(InitDevice(d))
    BY DEF InitDevice, LinkOK
  <2>2. Init => OneTurn
    BY DEF Init, InitDevice, OneTurn, Peer, Other
  <2> QED BY <2>1, <2>2 DEF Init, LinkInv
<1>2. TypeOK /\ LinkInv /\ [Next]_vars => LinkInv'
  BY StepKeepsLink
<1> QED BY <1>1, <1>2, TypeCorrect, PTL DEF Spec

(* The two stacks never both transmit and never both wait: exactly one has *)
(* the turn or exactly one frame is on its way.                            *)
THEOREM TurnCorrect == Spec => []OneTurn
<1>1. LinkInv => OneTurn
  BY DEF LinkInv
<1> QED BY <1>1, LinkInvariant, PTL

(* bSendPending says exactly that the link holds a frame, whatever the     *)
(* sockets, the applications' callbacks and the peer do.                   *)
THEOREM PendingFlagCorrect == Spec => []LinkHoldsPendingFrame
<1>1. LinkInv => LinkHoldsPendingFrame
  BY DEF LinkInv, LinkOK, LinkHoldsPendingFrame
<1> QED BY <1>1, LinkInvariant, PTL
=============================================================================
