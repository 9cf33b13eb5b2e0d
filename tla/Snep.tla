-------------------------------- MODULE Snep --------------------------------
(***************************************************************************)
(* SNEP: a client (phnpSnep_Fri_ClientReqPut, ClientReqGet) and a server   *)
(* (phnpSnep_Fri_Server_Accept, ServerSendResponse) over one LLCP          *)
(* connection.  Messages that exceed the MIU of the receiver are cut into  *)
(* SDUs, and the sender waits for CONTINUE after the first one.            *)
(*                                                                         *)
(* The two ends are records, and each function of the source an operator   *)
(* on them; the status a call returns is the field ret.  The LLCP socket   *)
(* below is modelled by what LlcpSocket and LlcpConnection show of it: a   *)
(* Send is accepted, transmitted and called back, in this order, and SDUs  *)
(* arrive in order, after the callback of the frame transmitted before.    *)
(* Octets are abstract: an SDU carries the octets from .. to - 1 of a      *)
(* message, which is known by the number of its request.                   *)
(***************************************************************************)
EXTENDS Integers, Sequences, FiniteSets

CONSTANTS
  ClientMiu, ServerMiu, \* iMiu of each end, iRemoteMiu of the other
  Window,        \* receive window of the connection
  Versions,      \* SnepClientVersion, in one octet
  InboxSize,     \* iInboxSize
  PutLengths, GetLengths, ResponseLengths, AcceptableLengths,
  SecondOctet,   \* what octet 1 of an SDU without a header reads as
  ClearsContext, \* the application clears the connection before Accept
  Buffers,       \* whether the application gives a response buffer
  MaxRequests, MaxConnections

Header == 6         \* PHNPSNEP_FRI_HEADER_SIZE
Acceptable == 4     \* PHNPSNEP_FRI_REQUEST_ACCEPTABLE_LENGTH_SIZE
ServerVersion == 16 \* PHNPSNEP_FRI_VERSION

ASSUME MiuAssumption == \A m \in {ClientMiu, ServerMiu} : m \in Nat /\ m > Header + Acceptable
ASSUME WindowAssumption == Window \in 1 .. 15

VARIABLES
  cli,   \* the client's session and its socket
  srv,   \* the server's session, its connection and its socket
  wire   \* SDUs transmitted and not received, by the end they go to

vars == <<cli, srv, wire>>

-----------------------------------------------------------------------------
(* SDUs.  head is FALSE for one that continues a message: its op is what   *)
(* the receiver reads if it takes octet 1 for a request or response code.  *)

Sdu(op, ver, info, acc, id, from, to) ==
  [head |-> TRUE, op |-> op, ver |-> ver, info |-> info, acc |-> acc,
   id |-> id, from |-> from, to |-> to]
Fragment(op, id, from, to) ==
  [Sdu(op, 0, 0, 0, id, from, to) EXCEPT !.head = FALSE]
Bare(op, ver) == Sdu(op, ver, 0, 0, 0, 0, 0)

HeaderSize(op) == Header + (IF op = "GET" THEN Acceptable ELSE 0)
Size(f) == f.to - f.from + (IF f.head THEN HeaderSize(f.op) ELSE 0)
Part(f) == [id |-> f.id, from |-> f.from, to |-> f.to]

(* The parts are one message from its start to octet len.                  *)
Whole(parts, id, len) ==
  /\ parts # <<>> /\ parts[1].from = 0 /\ parts[Len(parts)].to = len
  /\ \A i \in 1 .. Len(parts) : parts[i].id = id
  /\ \A i \in 2 .. Len(parts) : parts[i].from = parts[i - 1].to

VersionsCompatibleChk(v, w) == v \div 16 = w \div 16

Responses == {"CONTINUE_RSP", "SUCCESS", "NOT_FOUND", "EXCESS_DATA", "BAD_REQUEST",
              "NOT_IMPLEMENTED", "UNSUPPORTED_VERSION", "REJECT_RSP"}

(* GetNfcStatusFromSnepResponse: anything else is INVALID_PROTOCOL_DATA.   *)
StatusOf(op) == IF op \in Responses THEN op ELSE "INVALID"

Least(a, b) == IF a < b THEN a ELSE b

-----------------------------------------------------------------------------
(* The LLCP socket of either end. *)

NoSend == [cb |-> "none", sdu |-> Bare("none", 0), sent |-> FALSE]
Closed == [st |-> "closed", send |-> NoSend, recv |-> "none", stored |-> <<>>]

(* phlnLlcp_Transport_Send: one at a time.  The buffer may be reused.      *)
Send(e, sdu, cb) ==
  LET y == [e EXCEPT !.chunk = [op |-> sdu.op, ver |-> sdu.ver]]
  IN IF e.sock.st # "connected" \/ e.sock.send.cb # "none"
     THEN [y EXCEPT !.ret = "FAILED"]
     ELSE [y EXCEPT !.sock.send = [cb |-> cb, sdu |-> sdu, sent |-> FALSE],
                    !.ret = "PENDING"]

MayRecv(e) == e.sock.st = "connected" /\ e.sock.recv = "none"

Load(e, sdu) == [e EXCEPT !.chunk = [op |-> sdu.op, ver |-> sdu.ver]]

-----------------------------------------------------------------------------
(* The client. *)

ClearMemNCallCb(c, status, parts) ==
  [c EXCEPT !.pkt = 0, !.calls = Append(@, [status |-> status, parts |-> parts])]

SendRequestContinue(c) == Send(c, Bare("CONTINUE", ServerVersion), "continue")
SendRequestReject(c) == Send(c, Bare("REJECT", ServerVersion), "reject")

(* LlcpSocketRecvCbForRecvBegin: the answer, or its first SDU. *)
RecvBegin(c, status, f) ==
  IF status # "SUCCESS" THEN ClearMemNCallCb(c, status, <<>>)
  ELSE IF f.info = 0 THEN ClearMemNCallCb(c, StatusOf(f.op), <<>>)
  ELSE IF ~c.buf THEN SendRequestReject(c)
  ELSE LET y == [c EXCEPT !.resp = f.info]
       IN IF f.info + Header <= ClientMiu
          THEN ClearMemNCallCb(y, StatusOf(f.op), <<[Part(f) EXCEPT !.to = Least(@, f.from + f.info)]>>)
          ELSE IF VersionsCompatibleChk(c.ver, f.ver)
          THEN SendRequestContinue([y EXCEPT !.got = <<Part(f)>>, !.rcvd = Size(f) - Header])
          ELSE SendRequestReject([y EXCEPT !.rcvd = 0])

RECURSIVE ClientReceived(_, _, _, _)

(* phlnLlcp_Transport_Recv by the client: an SDU that is stored is handed  *)
(* over before the call returns.                                           *)
ClientRecv(c, cb) ==
  IF ~MayRecv(c) THEN [c EXCEPT !.ret = "FAILED"]
  ELSE IF c.sock.stored = <<>> THEN [c EXCEPT !.sock.recv = cb, !.ret = "PENDING"]
  ELSE [ClientReceived(Load([c EXCEPT !.sock.stored = Tail(@)], Head(c.sock.stored)),
                       cb, "SUCCESS", Head(c.sock.stored)) EXCEPT !.ret = "SUCCESS"]

(* LlcpSocketReceiveCb, also called, with nothing, when CONTINUE is sent.  *)
ReceiveRest(c, status, parts, n) ==
  LET y == [c EXCEPT !.got = @ \o parts, !.rcvd = @ + n]
      z == ClientRecv(y, "receive")
  IN IF status # "SUCCESS" THEN ClearMemNCallCb(c, status, <<>>)
     ELSE IF y.rcvd >= y.resp THEN ClearMemNCallCb(y, status, y.got)
     ELSE IF z.ret = "FAILED" THEN ClearMemNCallCb(z, status, <<>>)
     ELSE z

CollectReply(c) ==
  LET y == ClientRecv(c, "recvBegin")
  IN IF y.ret = "FAILED" THEN ClearMemNCallCb(y, y.ret, <<>>) ELSE y

NeedsContinue(c) == c.wait /\ ~c.cont

(* SocketSendCb: the callback of each SDU of a request. *)
SendNextSdu(c) ==
  LET n == Least(c.pkt - c.sent, ServerMiu)
      at == c.sent - HeaderSize(c.req.op)
      y == Send([c EXCEPT !.sent = @ + n], Fragment(SecondOctet, c.req.id, at, at + n), "data")
  IN IF y.ret # "PENDING" THEN ClearMemNCallCb(y, y.ret, <<>>)
     ELSE [y EXCEPT !.wait = FALSE]

SocketSendCb(c, status) ==
  LET y == ClientRecv(c, "rspContinue")
  IN IF status # "SUCCESS" THEN ClearMemNCallCb(c, status, <<>>)
     ELSE IF c.pkt <= c.sent THEN CollectReply(c)
     ELSE IF ~NeedsContinue(c) THEN SendNextSdu(c)
     ELSE IF y.ret # "PENDING" THEN ClearMemNCallCb(y, y.ret, <<>>)
     ELSE y

(* LlcpSocketRecvCbForRspContinue: an error looks at what the buffer holds.*)
RspContinue(c, status) ==
  LET same == VersionsCompatibleChk(c.ver, c.chunk.ver)
      answer == StatusOf(c.chunk.op)
  IN IF status = "SUCCESS" /\ answer = "CONTINUE_RSP" /\ same
     THEN SocketSendCb([c EXCEPT !.cont = TRUE], "SUCCESS")
     ELSE ClearMemNCallCb([c EXCEPT !.wait = FALSE],
                          IF same THEN answer ELSE "UNSUPPORTED_VERSION", <<>>)

ClientReceived(c, cb, status, f) ==
  CASE cb = "rspContinue" -> RspContinue(c, status)
    [] cb = "recvBegin" -> RecvBegin(c, status, f)
    [] cb = "receive" -> ReceiveRest(c, status, <<Part(f)>>, Size(f))

ClientSent(c, cb, status) ==
  CASE cb = "data" -> SocketSendCb(c, status)
    [] cb = "continue" ->
         IF status = "SUCCESS" THEN ReceiveRest(c, status, <<>>, 0)
         ELSE ClearMemNCallCb(c, "REQUEST_CONTINUE_FAILED", <<>>)
    [] cb = "reject" ->
         ClearMemNCallCb(c, IF status = "SUCCESS" THEN "REQUEST_REJECT"
                            ELSE "REQUEST_REJECT_FAILED", <<>>)

(* phnpSnep_Fri_Utils_Req, with the packet that PrepareSnepPacket builds.  *)
Req(c, op, id, len, acc) ==
  LET pkt == HeaderSize(op) + len
      n == Least(pkt, ServerMiu)
      y == [c EXCEPT !.req = [op |-> op, id |-> id, len |-> len, acc |-> acc],
                     !.calls = <<>>, !.got = <<>>, !.rcvd = 0, !.resp = 0,
                     !.pkt = pkt, !.sent = n, !.wait = pkt > ServerMiu, !.cont = FALSE]
      z == Send(y, Sdu(op, c.ver, len, acc, id, 0, n - HeaderSize(op)), "data")
  IN IF z.ret = "PENDING" THEN z ELSE ClearMemNCallCb(z, z.ret, <<>>)

-----------------------------------------------------------------------------
(* The server. *)

ResetServerConnectionContext(s) ==
  [s EXCEPT !.todo = 0, !.acc = 0, !.excess = FALSE, !.sent = 0, !.pkt = 0,
            !.wait = FALSE, !.cont = FALSE, !.cb = "none"]

RECURSIVE ServerReceived(_, _, _, _)

ServerRecv(s, cb) ==
  IF ~MayRecv(s) THEN [s EXCEPT !.ret = "FAILED"]
  ELSE IF s.sock.stored = <<>> THEN [s EXCEPT !.sock.recv = cb, !.ret = "PENDING"]
  ELSE [ServerReceived(Load([s EXCEPT !.sock.stored = Tail(@)], Head(s.sock.stored)),
                       cb, "SUCCESS", Head(s.sock.stored)) EXCEPT !.ret = "SUCCESS"]

(* fSendCompleteCb: ServerSendcompleteInternal, ServerSendContinuecomplete *)
(* or the application's.                                                   *)
SendComplete(s, status) ==
  CASE s.cb = "internal" -> ServerRecv([s EXCEPT !.todo = 0], "request")
    [] s.cb = "continue" -> ServerRecv(s, "request")
    [] s.cb = "application" -> [s EXCEPT !.answered = status]

ClearMemNCallResponseCb(s, status) == ServerRecv(SendComplete(s, status), "request")

(* A response longer than MIU waits for CONTINUE after its first SDU; so   *)
(* does one that finds bWaitForContinue still set.                         *)
SendResponse(s) ==
  LET n == IF s.wait THEN ClientMiu ELSE s.pkt
      y == Send([s EXCEPT !.sent = n],
                Sdu(s.rsp.op, s.ver, s.rsp.info, 0, s.rsp.id, 0, n - Header), "response")
  IN IF y.ret = "PENDING" THEN y ELSE ClearMemNCallResponseCb(y, y.ret)

Prepare(s, op, info, cb) ==
  LET pkt == Header + info
  IN [s EXCEPT !.rsp = [op |-> op, info |-> info, id |-> s.asked.id], !.pkt = pkt,
               !.wait = @ \/ pkt > ClientMiu, !.cont = @ /\ pkt <= ClientMiu,
               !.cb = cb]

(* (mutant) A response to GET may exceed what the client accepts. *)
ServerSendResponseUnlimited(s, status, info, cb) ==
  LET y == IF s.chunk.op = "GET" \/ status = "CONTINUE_RSP"
           THEN s ELSE ResetServerConnectionContext(s)
  IN IF s.count = 0 THEN [s EXCEPT !.ret = "FAILED"]
     ELSE SendResponse(Prepare([y EXCEPT !.todo = 0], status, info, cb))

(* phnpSnep_Fri_ServerSendResponse takes the message it answers for a GET  *)
(* if octet 1 of the chunking buffer says so.                              *)
ServerSendResponse(s, status, info, cb) ==
  LET excess == status = "SUCCESS" /\ info > s.acc
      y == [s EXCEPT !.todo = 0, !.excess = @ \/ excess]
  IN IF s.count = 0 THEN [s EXCEPT !.ret = "FAILED"]
     ELSE IF s.chunk.op # "GET"
     THEN SendResponse(Prepare(IF status = "CONTINUE_RSP" THEN s
                               ELSE ResetServerConnectionContext(s), status, info, cb))
     ELSE IF status = "SUCCESS" /\ info = 0 THEN [s EXCEPT !.ret = "INVALID_PARAMETER"]
     ELSE IF excess THEN SendResponse(Prepare(y, "EXCESS_DATA", 0, cb))
     ELSE SendResponse(Prepare(y, status, IF status = "SUCCESS" THEN info ELSE 0, cb))

Internally(s, status) == ServerSendResponse(s, status, 0, "internal")

(* LlcpSocketSendResponseCb: the callback of each SDU of a response. *)
SendResponseCb(s, status) ==
  LET left == s.pkt - s.sent
      n == Least(left, ClientMiu)
      y == ServerRecv(s, "reqContinue")
      z == Send([s EXCEPT !.sent = @ + n],
                Fragment(SecondOctet, s.rsp.id, s.sent - Header, s.sent + n - Header), "response")
  IN IF status # "SUCCESS" THEN ClearMemNCallResponseCb(s, status)
     ELSE IF left <= 0
     THEN ClearMemNCallResponseCb(s, IF s.excess THEN "EXCESS_DATA" ELSE "SUCCESS")
     ELSE IF ~s.wait THEN s
     ELSE IF ~s.cont
     THEN IF y.ret = "PENDING" THEN y ELSE ClearMemNCallResponseCb(y, y.ret)
     ELSE IF z.ret = "PENDING" THEN z ELSE ClearMemNCallResponseCb(z, z.ret)

(* LlcpSocketRecvCbForReqContinue does not look at the status.             *)
ReqContinue(s) ==
  LET same == VersionsCompatibleChk(s.ver, s.chunk.ver)
      stop == [s EXCEPT !.wait = FALSE]
  IN CASE s.chunk.op = "CONTINUE" /\ same -> SendResponseCb([s EXCEPT !.cont = TRUE], "SUCCESS")
       [] s.chunk.op = "CONTINUE" /\ ~same -> Internally(stop, "UNSUPPORTED_VERSION")
       [] s.chunk.op = "REJECT" /\ same -> ClearMemNCallResponseCb(stop, "REQUEST_REJECT")
       [] s.chunk.op = "REJECT" /\ ~same ->
            Internally(ClearMemNCallResponseCb(stop, "UNSUPPORTED_VERSION"), "UNSUPPORTED_VERSION")
       [] OTHER -> Internally(ClearMemNCallResponseCb(s, "INVALID"), "BAD_REQUEST")

NotifyUpperLayer(s) ==
  IF s.state = "initialized" THEN Internally(s, "BAD_REQUEST")
  ELSE [s EXCEPT !.asked = [id |-> IF s.inbox = <<>> THEN 0 ELSE s.inbox[1].id, op |-> s.state],
                 !.owes = TRUE, !.told = Append(@, [op |-> s.state, len |-> s.todo, parts |-> s.inbox]),
                 !.work = IF s.state = "GET" THEN 0 ELSE @]

(* The message is compared with what the header announced; for GET the     *)
(* octets counted include those of the acceptable length.                  *)
TakeOrContinue(s) ==
  IF s.todo > s.work THEN ServerSendResponse(s, "CONTINUE_RSP", 0, "continue")
  ELSE NotifyUpperLayer(s)

BeginRequest(s, f) ==
  LET y == [s EXCEPT !.todo = f.info]
      z == [y EXCEPT !.ver = Least(@, f.ver)]
  IN IF f.op \notin {"PUT", "GET"} \/ f.info = 0
     THEN Internally([y EXCEPT !.todo = 0], "BAD_REQUEST")
     ELSE IF ~VersionsCompatibleChk(s.ver, f.ver) THEN Internally(y, "UNSUPPORTED_VERSION")
     ELSE IF f.info > InboxSize THEN Internally(z, "REJECT_RSP")
     ELSE IF f.op = "GET" /\ s.kind = "default" THEN Internally(z, "NOT_IMPLEMENTED")
     ELSE TakeOrContinue([z EXCEPT !.state = f.op, !.work = Size(f) - Header, !.inbox = <<Part(f)>>,
                                   !.acc = IF f.op = "GET" THEN f.acc ELSE @])

ContinueRequest(s, f) ==
  LET y == [s EXCEPT !.work = @ + Size(f), !.inbox = Append(@, Part(f))]
  IN IF y.todo > y.work THEN ServerRecv(y, "request") ELSE NotifyUpperLayer(y)

(* SocketRecvCbForServer *)
SocketRecvCbForServer(s, status, f) ==
  IF status # "SUCCESS" THEN ServerRecv([s EXCEPT !.todo = 0], "request")
  ELSE IF s.todo = 0 THEN BeginRequest(s, f)
  ELSE ContinueRequest(s, f)

ServerReceived(s, cb, status, f) ==
  IF cb = "request" THEN SocketRecvCbForServer(s, status, f) ELSE ReqContinue(s)

-----------------------------------------------------------------------------
(* Sessions.  One client session, one server session with one connection:  *)
(* the tables of phnpSnep_Fri_ContextMgmt have one entry each.             *)

Init ==
  /\ cli = [sock |-> Closed, entry |-> FALSE, count |-> 0, ver |-> 0, buf |-> TRUE,
            req |-> [op |-> "none", id |-> 0, len |-> 0, acc |-> 0], pkt |-> 0, sent |-> 0, rcvd |-> 0,
            resp |-> 0, got |-> <<>>, wait |-> FALSE, cont |-> FALSE,
            chunk |-> [op |-> "none", ver |-> 0], calls |-> <<>>, ret |-> "none"]
  /\ \E k \in {"default", "named"} :
       srv = [sock |-> Closed, up |-> TRUE, kind |-> k, count |-> 0, connections |-> 0,
              state |-> "none", ver |-> ServerVersion, todo |-> 0, work |-> 0,
              inbox |-> <<>>, acc |-> 0, excess |-> FALSE, wait |-> FALSE, cont |-> FALSE,
              sent |-> 0, pkt |-> 0, cb |-> "none", rsp |-> [op |-> "none", info |-> 0, id |-> 0],
              chunk |-> [op |-> "none", ver |-> 0], asked |-> [id |-> 0, op |-> "none"],
              owes |-> FALSE, told |-> <<>>, answered |-> "none", ret |-> "none"]
  /\ wire = [client |-> <<>>, server |-> <<>>]

Idle(e) == e.sock.st = "closed"

(* phnpSnep_Fri_Client_Init.  The table's entry must be free.              *)
ClientInit(v, buf) ==
  /\ ~cli.entry /\ cli.count = 0 /\ Idle(cli) /\ Idle(srv)
  /\ srv.connections < MaxConnections
  /\ cli' = [cli EXCEPT !.entry = TRUE, !.count = 1, !.ver = v, !.buf = buf,
                        !.req = [op |-> "none", id |-> @.id, len |-> 0, acc |-> 0], !.calls = <<>>]
  /\ srv' = [srv EXCEPT !.connections = @ + 1]
  /\ UNCHANGED wire

(* ConnectByUri fails: RemoveIncompleteClientSession.                      *)
ConnectFails ==
  /\ cli.entry /\ cli.count = 1 /\ Idle(cli) /\ cli.req.op = "none"
  /\ cli' = [cli EXCEPT !.count = 0]
  /\ UNCHANGED <<srv, wire>>

(* The listening socket gets a CONNECT, the application calls Server_Accept*)
(* and CC arrives: AcceptSocket_Cb starts to receive.  The count of a      *)
(* connection that the link broke is still in the session.                 *)
Connect ==
  /\ cli.entry /\ cli.count = 1 /\ Idle(cli) /\ cli.req.op = "none"
  /\ srv.up /\ srv.count = 0 /\ Idle(srv)
  /\ cli' = [cli EXCEPT !.sock.st = "connected"]
  /\ srv' = ServerRecv([IF ClearsContext THEN ResetServerConnectionContext(srv) ELSE srv
                        EXCEPT !.sock = [Closed EXCEPT !.st = "connected"], !.count = 1,
                               !.ver = ServerVersion, !.state = "initialized", !.owes = FALSE],
                       "request")
  /\ UNCHANGED wire

(* phnpSnep_Fri_Server_DeInit and Server_Init, with no connection.         *)
ServerDeInit ==
  /\ srv.up /\ Idle(srv)
  /\ srv' = [srv EXCEPT !.up = FALSE, !.count = 0]
  /\ UNCHANGED <<cli, wire>>

ServerInit ==
  /\ ~srv.up
  /\ \E k \in {"default", "named"} : srv' = [srv EXCEPT !.up = TRUE, !.kind = k]
  /\ UNCHANGED <<cli, wire>>

-----------------------------------------------------------------------------
(* The end of a connection: callbacks of a Send and a Recv that wait.      *)

Unsent(e) == e.sock.send.cb # "none" /\ ~e.sock.send.sent
Waits(e) == e.sock.recv # "none" \/ Unsent(e)

(* (mutant) The callback stays registered when it is called. *)
ClientSendEndsAgain(c, status) ==
  IF c.sock.send.cb = "none" THEN c ELSE ClientSent(c, c.sock.send.cb, status)

ClientSendEnds(c, status) ==
  IF c.sock.send.cb = "none" THEN c
  ELSE ClientSent([c EXCEPT !.sock.send = NoSend], c.sock.send.cb, status)

(* (mutant) A Recv that waits is forgotten, not called back. *)
ClientRecvEndsSilently(c, status) == [c EXCEPT !.sock.recv = "none"]

ClientRecvEnds(c, status) ==
  IF c.sock.recv = "none" THEN c
  ELSE ClientReceived([c EXCEPT !.sock.recv = "none"], c.sock.recv, status, Bare("none", 0))

ServerSendEnds(s, status) ==
  IF s.sock.send.cb = "none" THEN s
  ELSE SendResponseCb([s EXCEPT !.sock.send = NoSend], status)
ServerRecvEnds(s, status) ==
  IF s.sock.recv = "none" THEN s
  ELSE ServerReceived([s EXCEPT !.sock.recv = "none"], s.sock.recv, status, Bare("none", 0))

ClientDisconnect(c) ==
  LET y == [c EXCEPT !.sock.st = "closing"]
  IN IF Waits(c) THEN ClientRecvEnds(ClientSendEnds(y, "FAILED"), "FAILED") ELSE y

(* phnpSnep_Fri_Client_DeInit with the handle, or with 0 for all sessions, *)
(* which leaves the entry.  The socket is disconnected, then closed.       *)
ClientDeInit(all) ==
  /\ cli.entry /\ cli.sock.st # "closing" /\ (all => cli.count = 1)
  /\ LET c == [cli EXCEPT !.entry = all, !.count = (@ - 1) % 256]
     IN cli' = IF c.sock.st = "connected" THEN ClientDisconnect(c) ELSE c
  /\ UNCHANGED <<srv, wire>>

(* DISC arrives: the callbacks are called in the connected state, and then *)
(* AcceptSocketErr_Cb removes the connection.                              *)
ServerDisconnected ==
  LET y == IF Unsent(srv) THEN ServerSendEnds(srv, "FAILED") ELSE srv
  IN /\ cli.sock.st = "closing" /\ srv.sock.st = "connected" /\ wire.server = <<>>
     /\ ~srv.sock.send.sent
     /\ srv' = [ServerRecvEnds(y, "FAILED") EXCEPT !.sock = Closed, !.count = 0]
     /\ UNCHANGED <<cli, wire>>

(* DM arrives, or the link is lost: what was transmitted is aborted.       *)
ClientClosed ==
  /\ cli.sock.st = "closing" /\ Idle(srv)
  /\ cli' = [ClientSendEnds(cli, "ABORTED") EXCEPT !.sock = Closed]
  /\ wire' = [client |-> <<>>, server |-> <<>>]
  /\ UNCHANGED srv

(* phlnLlcp_Fri_Transport_CloseAll on a link that was deactivated.  The    *)
(* connection's error callback is not called: it stays counted.            *)
ClientLinkLost ==
  LET y == IF cli.sock.send.sent THEN ClientSendEnds(cli, "FAILED") ELSE cli
  IN /\ cli.sock.st = "connected"
     /\ cli' = [ClientDisconnect(y) EXCEPT !.sock = Closed]
     /\ wire' = [client |-> <<>>, server |-> <<>>]
     /\ UNCHANGED srv

ServerLinkLost ==
  LET y == IF srv.sock.send.sent THEN ServerSendEnds(srv, "FAILED") ELSE srv
      z == [y EXCEPT !.sock.st = "closing"]
  IN /\ srv.sock.st = "connected"
     /\ srv' = [IF Waits(y) THEN ServerRecvEnds(ServerSendEnds(z, "FAILED"), "FAILED") ELSE z
                EXCEPT !.sock = Closed]
     /\ wire' = [client |-> <<>>, server |-> <<>>]
     /\ UNCHANGED cli

-----------------------------------------------------------------------------
(* Requests, answers and the LLCP below. *)

Returned == cli.req.op = "none" \/ cli.calls # <<>>

(* phnpSnep_Fri_ClientReqPut, phnpSnep_Fri_ClientReqGet: the session must  *)
(* be in the table.                                                        *)
Request ==
  /\ cli.entry /\ cli.count # 0 /\ cli.sock.st # "closing"
  /\ cli.sock.st = "connected" \/ cli.req.op # "none"
  /\ Returned /\ cli.req.id < MaxRequests
  /\ \/ \E len \in PutLengths : cli' = Req(cli, "PUT", cli.req.id + 1, len, 0)
     \/ \E len \in GetLengths, acc \in AcceptableLengths :
          cli' = Req(cli, "GET", cli.req.id + 1, len, acc)
  /\ UNCHANGED <<srv, wire>>

(* The server's application answers the message it was given.              *)
AppAnswer ==
  /\ srv.owes
  /\ LET s == [srv EXCEPT !.owes = FALSE]
     IN \/ srv' = ServerSendResponse(s, "NOT_FOUND", 0, "application")
        \/ /\ s.asked.op = "PUT"
           /\ srv' = ServerSendResponse(s, "SUCCESS", 0, "application")
        \/ /\ s.asked.op = "GET"
           /\ \E len \in ResponseLengths :
                srv' = ServerSendResponse(s, "SUCCESS", len, "application")
  /\ UNCHANGED <<cli, wire>>

(* A frame is transmitted when the receive window of the peer has room.    *)
Transmit(e, peer, to) ==
  /\ e.sock.st = "connected" /\ Unsent(e)
  /\ Len(wire[to]) + Len(peer.sock.stored) < Window
  /\ wire' = [wire EXCEPT ![to] = Append(@, e.sock.send.sdu)]

ClientTransmit ==
  /\ Transmit(cli, srv, "server")
  /\ cli' = [cli EXCEPT !.sock.send.sent = TRUE]
  /\ UNCHANGED srv

ServerTransmit ==
  /\ Transmit(srv, cli, "client")
  /\ srv' = [srv EXCEPT !.sock.send.sent = TRUE]
  /\ UNCHANGED cli

(* phlnLlcp_Fri_Transport_ConnectionOriented_SendLlcp_CB                   *)
ClientSendDone ==
  /\ cli.sock.st = "connected" /\ cli.sock.send.sent
  /\ cli' = ClientSendEnds(cli, "SUCCESS")
  /\ UNCHANGED <<srv, wire>>

ServerSendDone ==
  /\ srv.sock.st = "connected" /\ srv.sock.send.sent
  /\ srv' = ServerSendEnds(srv, "SUCCESS")
  /\ UNCHANGED <<cli, wire>>

(* An SDU arrives, after the callback of the frame transmitted before.     *)
ClientArrive ==
  /\ cli.sock.st = "connected" /\ ~cli.sock.send.sent /\ wire.client # <<>>
  /\ LET f == Head(wire.client)
     IN cli' = IF cli.sock.recv = "none" THEN [cli EXCEPT !.sock.stored = Append(@, f)]
               ELSE ClientReceived(Load([cli EXCEPT !.sock.recv = "none"], f),
                                   cli.sock.recv, "SUCCESS", f)
  /\ wire' = [wire EXCEPT !.client = Tail(@)]
  /\ UNCHANGED srv

ServerArrive ==
  /\ srv.sock.st = "connected" /\ ~srv.sock.send.sent /\ wire.server # <<>>
  /\ LET f == Head(wire.server)
     IN srv' = IF srv.sock.recv = "none" THEN [srv EXCEPT !.sock.stored = Append(@, f)]
               ELSE ServerReceived(Load([srv EXCEPT !.sock.recv = "none"], f),
                                   srv.sock.recv, "SUCCESS", f)
  /\ wire' = [wire EXCEPT !.server = Tail(@)]
  /\ UNCHANGED cli

Exchange ==
  \/ AppAnswer \/ ClientTransmit \/ ServerTransmit \/ ClientSendDone \/ ServerSendDone
  \/ ClientArrive \/ ServerArrive

Next ==
  \/ \E v \in Versions, buf \in Buffers : ClientInit(v, buf)
  \/ ConnectFails \/ Connect \/ ServerDeInit \/ ServerInit
  \/ \E all \in BOOLEAN : ClientDeInit(all)
  \/ ServerDisconnected \/ ClientClosed \/ ClientLinkLost \/ ServerLinkLost
  \/ Request \/ Exchange

Spec == Init /\ [][Next]_vars

(* The link goes on, the application of the server answers, and a link     *)
(* that one end has lost is noticed by the other.                          *)
FairSpec ==
  /\ Spec
  /\ WF_vars(AppAnswer) /\ WF_vars(ClientTransmit) /\ WF_vars(ServerTransmit)
  /\ WF_vars(ClientSendDone) /\ WF_vars(ServerSendDone)
  /\ WF_vars(ClientArrive) /\ WF_vars(ServerArrive)
  /\ WF_vars(ServerDisconnected) /\ WF_vars(ClientClosed)
  /\ WF_vars(Idle(srv) /\ ClientLinkLost)

-----------------------------------------------------------------------------
(* Properties. *)

(* The callback of a request is called once: ClearMemNCallCb is called from*)
(* a dozen places, by callbacks of a Send and of a Recv of one request.    *)
CalledBackOnce == Len(cli.calls) <= 1

(* The parts the server's application was given for the client's request.  *)
Given == {i \in 1 .. Len(srv.told) :
            srv.told[i].op = cli.req.op /\ Whole(srv.told[i].parts, cli.req.id, cli.req.len)}

(* A PUT that succeeds gave the server's application the whole message,    *)
(* once; a GET that succeeds gives the client the whole answer to it, which*)
(* it accepted; and no application is given a part of a message.           *)
Delivered ==
  /\ Returned /\ cli.calls # <<>> /\ cli.calls[1].status = "SUCCESS"
       => /\ Cardinality(Given) = 1
          /\ cli.req.op = "GET" => \E len \in ResponseLengths :
               len <= cli.req.acc /\ Whole(cli.calls[1].parts, cli.req.id, len)
  /\ \A i \in 1 .. Len(srv.told) :
       \E id \in 1 .. cli.req.id : Whole(srv.told[i].parts, id, srv.told[i].len)

(* Every request is called back.                                           *)
RequestReturns == []<>Returned
=============================================================================
