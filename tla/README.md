# Formal models of nxprdlib

TLA+ models of the protocol stacks of the NXP Reader Library (`src/`), the TLC
runs that check them on small instances, and theorems about them checked by
TLAPS. The library is single-threaded C: its concurrency is that of two devices
that run the same stack against each other, of callbacks that call back into
the layer that called them, and of timers.

Abbreviations used below, all in `src/comps/phlnLlcp/src/Fri/`:
`TC` = `phlnLlcp_Fri_Transport_Connection.c`, `T` = `phlnLlcp_Fri_Transport.c`,
`L` = `phlnLlcp_Fri_Llcp.c`, `LH` = `phlnLlcp_Fri_Llcp.h`;
`IN` = `src/intfs/phlnLlcp.h`;
`P4` = `src/comps/phpalI14443p4/src/Sw/phpalI14443p4_Sw.c`;
`PI`, `PII` = `phpalI18092mPI_Sw.c`, `phpalI18092mPI_Sw_Int.c` in
`src/comps/phpalI18092mPI/src/Sw/`, `MT`, `MTI` = `phpalI18092mT_Sw.c`, `phpalI18092mT_Sw_Int.c` in
`src/comps/phpalI18092mT/src/Sw/`;
`T1T`..`T4T` = `src/comps/phalTop/src/Sw/phalTop_Sw_Int_T1T.c` .. `_T4T.c`;
`TOP` = `src/intfs/phalTop.h`;
`SF`, `SU` = `phnpSnep_Fri.c`, `phnpSnep_Fri_Utils.c` in `src/comps/phnpSnep/src/Fri/`;
`DL`, `DLI` = `phacDiscLoop_Sw.c`, `phacDiscLoop_Sw_Int.c` in `src/comps/phacDiscLoop/src/Sw/`;
`P3B` = `src/comps/phpalI14443p3b/src/Sw/phpalI14443p3b_Sw.c`;
`HR` = `src/comps/phhalHw/src/Rc523/phhalHw_Rc523.c`, `HRI`, `HRC` = its `_Int.c`, `_Cmd.c`;
`LR` = `src/comps/phhalHw/src/Rc663/phhalHw_Rc663.c`, `LRI` = its `_Int.c`.

## 1. Inventory

| Component | State it keeps | Operations | Talks to | What is hard | What makes it correct |
|---|---|---|---|---|---|
| LLCP connection-oriented transport (`TC`, `T`) | socket table: state, VS/VSA/VR/VRA, pending flags, callbacks, receive window; per device `bSendPending`, `socketIndex`, pending FRMR/DM | Listen, Connect, Accept, Reject, Disconnect, Close, Send, Recv; one handler per PDU; completion of a send | link below (Send/Recv with callbacks), application above (callbacks that call again) | callbacks that re-enter; one send slot shared by all sockets; flow control by window and busy condition; wrap at 16 | SDUs delivered in order, once; window respected; no acknowledgement before delivery; every Send called back |
| LLCP connectionless transport | the same socket table, one pending UI per socket | Bind, SendTo, RecvFrom | the same | sharing the send slot | a UI is sent once |
| LLCP link (`L`) | link state, send slot (`pfSendCB`, `psSendHeader`, `psSendInfo`), DISC/FRMR flags, symmetry timer | Activate, Deactivate, Send, Recv, timer callbacks, MAC callbacks | MAC mapping, OS timers, transport | turn-taking; timer racing a frame; deactivation in the middle of a send | never two senders; a frame sent exactly once; every pending call ended at deactivation |
| LLCP MAC mapping and HAL overlay | `SendPending`, `RecvPending`, stored buffers, one task record | Send, Receive, Transceive completions | NFC-DEP layers | target completes inside the call | send and receive both called back once |
| SNEP (`phnpSnep`) | client/server connection, fragment counters | Put, Get, server request handling | one LLCP socket | fragmentation with CONTINUE/REJECT on both sides | a message is delivered whole or not at all |
| NFC-DEP (`phpalI18092mPI`, `phpalI18092mT`) | both: PNI, chaining state; initiator: retry counter, backed-up header; target: reception buffer, last packet number, retransmission flag | ATR, PSL, DSL, RLS, Exchange; Listen, DepSend, DslRes | hardware layer, each other | lost and corrupted frames, ATN, RTOX, chaining both ways | a message is handed up whole and once; packet numbers stay in step; every call returns |
| ISO 14443-4 (`phpalI14443p4`) | block number, chaining state, retry counter, CID/NAD | Exchange, Deselect, PresCheck | hardware layer | lost frames, R(NAK)/R(ACK), WTX, chaining both ways, receive buffer full | a block is taken once; an answer belongs to its request; bounded recovery; every call returns |
| ISO 14443-3A/-3B/-4A | UID, cascade level, FSCI, CID | Request, Anticollision, Select, RATS, PPS | hardware layer | collision loops | the card selected is one that answered |
| Discovery loop (`phacDiscLoop`) | configuration, detected technologies, device limits | poll, listen, collision resolution, activation | all protocol layers | long schedule, device limits, cards that come and go between two commands | what is recorded is a card's; undisturbed all cards are found; a call exchanges a bounded number of frames |
| CID manager (`phCidManager`) | bitmap of CIDs | GetFreeCid, FreeCid | 14443-4A | boundary at 14 | a CID is held once |
| Key store (`phKeyStore`) | keys, versions, usage counters | Format, Set, Get, Change KUC | crypto | counters at their limit | a key is used at most its limit |
| OSAL (`phOsal`) | timers, events | Create, Start, Stop | platform | timer callback context | - |
| Tag operations (`phalTop`) | what was found of the tag: state, presence, length, access | CheckNdef, FormatNdef, WriteNdef, ReadNdef, EraseNdef, SetConfig | a tag of one of four types | a tag that leaves the field between two writes; notes of the tag that are stale | a tag holds the old message, none or the whole new one; SUCCESS means done; what is read is what is there |
| Card applications (`phalT1T`, `phalMful`, `phalFelica`, `phalMfdf`, `phalMfc`, `phalICode`, ...; `phpalFelica`, `phpalMifare`) | last error, authentication state | command encoders | palI14443, palMifare, ... | few | encodings |
| Reader hardware, bus (`phhalHw`, `phbalReg`) | registers and a shadow of what was set in them, transmit and receive buffers | Exchange, Transmit, Receive, commands; ApplyProtocolSettings, SetConfig, Wait, field | SPI | the chip works on while the host polls; one FIFO and one timer for everything; two copies of every setting | what is sent and received is what was composed and answered; chip and shadow agree |
| Tools, log | none | CRC, parity, trace | - | - | reference definitions |

The heart is LLCP: it is where independent actors meet (two devices, several
sockets, an application in callbacks, a symmetry timer), it has no test in the
repository, and everything above (SNEP) relies on its ordering and completion.
Next to it come the block protocols (ISO 14443-4, NFC-DEP), which make one
reliable exchange out of a field that loses frames; the discovery loop, which runs long
schedules against cards that come and go; and the reader, whose chip is an actor of its own.

## 2. Modules

| Module | Contents |
|---|---|
| `LlcpChannel` | Abstract specification: what a connection promises its two applications. |
| `LlcpConnection` | The data phase of LLCP connections on two devices, with its properties and the refinement of `LlcpChannel`. |
| `MCLlcpConnection` | Instances for TLC. |
| `LlcpSocket` | The life of LLCP sockets on two devices: set-up, tear-down, re-use. |
| `LlcpConnection_proofs` | The types; the inductive invariant of the link and the two invariants it gives. |
| `LlcpConnectionChannel_proofs` | The inductive invariant of both ends' numbers and windows; the refinement of `LlcpChannel`. |
| `LlcpLink`, `MCLlcpLink` | The link between an initiator and a target, its MAC mapping and the task of the reader; instances. |
| `Snep` | SNEP client and server over one LLCP connection. |
| `BlockAlternation` | Abstract specification: what a half-duplex block protocol promises its two ends. |
| `IsoDep` | The ISO 14443-4 reader with a card over a lossy channel, its properties and the refinement of `BlockAlternation`. |
| `MCIsoDep` | Instances for TLC. |
| `IsoDep_proofs` | The inductive invariant of the block protocol, its types and four properties it gives; the refinement of `BlockAlternation`; complete answers and bounded recovery. |
| `NfcDepField` | The frames of NFC-DEP and the field that carries one of them. |
| `NfcDepInitiator`, `NfcDepTarget` | The two ends of NFC-DEP. |
| `MessageAlternation` | Abstract specification: what a half-duplex exchange promises where not every loss is recovered from. |
| `NfcDep` | Both ends in a field that loses and damages frames, their properties and the refinement of `MessageAlternation`. |
| `MCNfcDep` | Instances for TLC. |
| `NfcDep_proofs` | Types of both ends and where the initiator takes the target to be; that messages arrive whole; the refinement of `MessageAlternation`. |
| `NdefTag` | Abstract specification: what a reader finds on a tag while operations are cut off. |
| `TagSession` | Calls, commands and the data area: what the four types have in common. |
| `T1T`, `T2T`, `T3T`, `T4T` | The NDEF operations on a tag of each type, and the tag. |
| `TagOperations` | `phalTop_Sw.c`: the operations on the tag of the type that is set, their properties, the refinement of `NdefTag`. |
| `MCTagOperations` | Instances for TLC. |
| `TagTypes_proofs` | The inductive invariant of each type of tag; that the operations on types 1 to 3 keep it. |
| `TagOperations_proofs` | The same for type 4; the properties and the refinement of `NdefTag` that follow. |
| `Cards` | External: the cards and devices in the field, by technology. |
| `DiscLoop`, `MCDiscLoop` | The discovery loop over the activation layers, against `Cards`; instances. |
| `DiscLoop_proofs` | That a call of the discovery loop exchanges a bounded number of frames; that the identifiers it records are those of cards. |
| `Rc523`, `MCRc523` | The RC523's HAL against its chip and a peer, access by access; instances. |
| `Rc523_proofs` | That a host that waits for the chip is woken; that a frame goes out as it was composed, and an answer is handed over as it was sent. |
| `HalSettings` | What the two readers have in common when they are configured. |
| `Rc523Settings`, `Rc663Settings` | Settings, card types, waits and field of each reader. |
| `ReaderSettings`, `MCReaderSettings` | Any sequence of these calls on a bus that may fail; instances. |

### LlcpConnection

The single variable `dev` maps each of the two devices to a record of what its
`phlnLlcp_Fri_t` and `phlnLlcp_Fri_Transport_t` hold. Each C function is an
operator from such records to such records, so an action is the whole handler,
with every call it makes, up to its return. Where a callback lets the
application call again, the action chooses one of the reactions of `Reaction`:
do nothing, `Recv`, `Send`, or a reply (`Send` together with
`bRecvReady_NotRequired`, as `phnpSnep_Fri_Utils.c:125` does).

| Field or operator | Code |
|---|---|
| `state` | `Llcp->state`, OPERATION_SEND or OPERATION_RECV; flipped by `ResetLTO` at every send and receive |
| `slot`, `sent` | `pfSendCB # NULL` with its frame; `psSendHeader = NULL` (transmitted) or not (queued) |
| `info` | `psSendInfo->length # 0` |
| `out` | the frame this device has on the wire |
| `bSendPending`, `linkCb`, `frmr`, `socketIndex` | fields of the transport, `linkCb` is `pfLinkSendCb # NULL` |
| `sock[s]` | the socket: `VS`..`VRA`, pending flags, callbacks as booleans, `busy`/`remoteBusy`, the receive window `ring`/`rd`/`wr` |
| `accepted`, `confirmed`, `transmitted`, `received` | counters of SDUs; `accepted` is also the content of `sSocketSendBuffer`, the rest is history |
| `AppSend`, `AppRecv`, `AppRecvStored` | `phlnLlcp_Fri_Transport_Send`, `_Recv` called by the application |
| `SendDone` | MAC completion -> `phlnLlcp_Fri_Send_CB` -> `phlnLlcp_Fri_Transport_Send_CB` -> Send callback -> poll of the sockets |
| `Receive` | MAC reception -> `phlnLlcp_Fri_Receive_CB` -> handler of the PDU -> `HandlePendingSend` |
| `SendSymm` | the symmetry timer -> `phlnLlcp_Fri_SendSymm` |

An SDU is represented by its number in the order of submission, so delivery
order can be stated; its bytes and length are not modelled. A PDU keeps its
type, socket, N(S), N(R), SDU, and `extra`, which says that an RR or RNR carries
information octets.

Assumptions of the model, each of them a fact of the code or a stated limit:

* Both ends run this library. The connection is established before the initial
  state, after `Base` SDUs each way (so that runs start next to the wrap at 16).
* `bufferLinearLength = 0`: message mode. The linear buffer (`TC`:1096-1158) is
  not modelled.
* SDUs are not empty. An empty one would look like a free entry of the receive
  window (`TC`:1076, 2307).
* The link below is reliable and keeps turns (NFC-DEP retransmits). The MAC
  reports the completion of a frame after the handler that sent it has returned
  and before the next frame is handed up: the order of the initiator
  (`phlnLlcp_Fri_MacNfcip_Transceive_Cb`). In the target the completion may
  come nested in the handler (`OvrHal_Send`); that order is the subject of `LlcpLink`.
* `psSendInfo` is supplied by the integration (the repository never allocates
  it).
* `indexRwRead/Write` are unbounded numbers here, 32-bit in the code.
* No user Close or Disconnect and no DM: these are the subject of `LlcpSocket`.
  A connection still ends, by FRMR, in every way the data phase can end it.

### LlcpSocket

The same style as `LlcpConnection` (a device is a record, a function an operator on devices)
with the fields that the life of a socket needs: SAPs, the socket's own header, every pending flag and
every callback as a Boolean, the header and opcode byte that all DM frames share, the
header of the FRMR. The link keeps a frame by reference to its header (`slot`) and its
information by copy (`info`), as `phlnLlcp_Fri_Send` does: what is transmitted is what the
header holds by then. Information is abstracted to its kind; sequence numbers are left to
`LlcpConnection`, and a connection carries at most one SDU (`spent`).

| Operator | Code |
|---|---|
| `Create`, `Bind`, `Listen`, `AppConnect`, `AppAccept`, `AppReject`, `AppSend`, `AppDisconnect`, `AppClose` | the calls of `T` of the same names, with the functions of `TC` they call |
| `SendDone` | completion: `SendPendingReject`, `SendLlcp_CB`, `PollSockets`, `HandlePendingOperations` |
| `Receive` | a frame: one `Handle...` operator per PDU, then `HandlePendingSend` |
| `Answered`, `ConnectedReactions`, `RefusedReactions` | what the application does inside Listen's and Connect's callback: each handler yields the set of devices it may leave |
| `null` | history: a callback was called whose pointer is NULL |

The constants say what each application does: `Serves`, `Connects`, `Sends`, `Disconnects` and
`Answers` make up the runs. Three more open what the runs leave closed: `Hasty`
(Disconnect with a Send outstanding), `Retries` (Connect called again inside its own failed
callback) and `Closes` (Close in any state); section 5 says what such an application meets.

Assumptions: a server closes a socket when the peer has disconnected it, and any
application closes one whose call was refused by the link; a client connects again
on the socket it has, which keeps its SAPs (`TC`:816-909 leaves it Created). The table is that of the
connection-oriented sockets alone; SNL, options and CloseAll are not modelled.

### LlcpChannel

Every end submits SDUs 1, 2, 3, ... one at a time; a Send is confirmed only when
its SDU is on the way; the far end is handed what is on the way in order, each
once; a closed end takes no part. `LlcpConnection` is shown to implement it, by
TLC and for one connected socket by proof, with the mapping at the end of the module: the
ghost counters and the sockets' states.

### LlcpLink

The two ends are records, the fields of `phlnLlcp_Fri_t`, of its MAC and of the task of the
reader. A callback of the source is a call of the operator of that name, so a step is one
event - a frame, a timer, a call of the application - with everything it runs: a target
transmits, is called back and calls its application back while it still handles the frame
it received. What the application does in the callbacks of a step is the step's parameter.

| Variable or operator | Code |
|---|---|
| `end[n].st`, `timer`, `send`, `queued` | `Llcp->state`; the LTO timer with its next callback; `pfSendCB # NULL` with the number of the Send; `psSendHeader # NULL` |
| `end[n].mac`, `task` | `SendPending`, `RecvPending` and the two callbacks of the MAC; the one task record of `OvrHal` |
| `ChkLlcp`, `Activate` | `phlnLlcp_Fri_ChkLlcp` with its callback, `phlnLlcp_Fri_InternalActivate`: parameters from the general bytes, agreement on a version |
| `AppSend`, `AppDeactivate` | `phlnLlcp_Fri_Send`, `phlnLlcp_Fri_Deactivate` out of a callback |
| `Tick`, `ReceptionTimeout`, `TurnTimeout` | the LTO timer: `Timer_CBRecv`, `Timer_CBSend` |
| `TargetReceives`, `ExchangeReturns`, `ExchangeFails` | the completion of the reader's task, and what the MAC and the link make of it |
| `calls`, `got`, `sent`, `quits`, `session` | history |

Assumptions: the peer is checked again only while the link is down, and the link is activated again only
when the reader is idle; a target's reader calls the completion routine in `sOvrHalTask`; the application provides
`psSendInfo`; no timer fails to be created. `MaxFaults` bounds what goes wrong: a frame lost, a transmission
failed, an answer that comes after the timeout, a frame of another stack (DISC, AGF)
instead of a SYMM. Parameters over PAX and the DISC of `SendDisconnect` are never used by this
stack and are left out.

### Snep

Both ends are records again, and each function an operator. The LLCP socket below is what
`LlcpSocket` and `LlcpConnection` show of it: a Send is accepted, transmitted, called back, in
this order, and SDUs arrive in order. Octets are abstract: an SDU carries the octets `from` to `to` - 1
of the message of one request, so a message put together wrongly can be told.

| Variable or operator | Code |
|---|---|
| `cli`, `srv` | `phnpSnep_Fri_ClientSession_t`; server session, its connection record and table; with the socket of each |
| `ClientInit`, `ClientDeInit`, `Connect`, `ConnectFails` | `phnpSnep_Fri_ClientInit`, `ClientDeInit` and the callback of Connect |
| `Request` | `ClientReqPut`, `ClientReqGet`: one SDU, or the first with CONTINUE to come |
| `ClientTransmit`, `ClientSendDone`, `ClientArrive` | the client's SDU leaves, its callback, a response: `SU`'s client half |
| `AppAnswer` | `ServerSendResponse` by the application that was given a message |
| `ServerTransmit`, `ServerSendDone`, `ServerArrive` | the server half, and the answers the server gives without its application |
| `ServerDisconnected`, `ClientClosed`, `ClientLinkLost`, `ServerLinkLost` | the error callbacks of the socket |
| `ServerInit`, `ServerDeInit` | the table of servers, one entry each |

Assumptions: the application makes the next request after the previous one was called back,
answers after it was notified, and closes the server only when no client is connected. The constants open what the run
leaves closed: section 5 says what follows.

### IsoDep

The reader is `P4`, translated; the card is external: it follows the rules of
ISO/IEC 14443-4 that the comments of `P4` cite (rules D, E and 9 to 13). The
two meet in a field that holds one frame of each, and loses either.

The reader is sequential and leaves control only in `phhalHw_Exchange`. So an
action of the reader is everything it does between two HAL exchanges: the rest of
`IsoHandling`, the rest of the loop of `Exchange` that called it, up to
the next frame or the return.

| Variable or operator | Code |
|---|---|
| `pal.state`, `pal.chaining`, `pal.bn` | `bStateNow` without and with its chaining bit, `bPcbBlockNum` |
| `call.at` | which call waits for the HAL: IsoHandling in the transmission (`tx`) or reception loop (`rx`), Deselect, PresCheck |
| `call.left`, `retransmits`, `overflow`, `held` | locals of `Exchange`: `wTxLength`, `bRetryCountRetransmit`, `bBufferOverflow`, `*pRxLength`, lengths in blocks |
| `call.retry`, `responded`; `call.tries` | locals of `IsoHandling`; `wRetries` of `Deselect` |
| the retransmission bit of `bStateNow` | set and consumed in one action (`HandleAck`) |
| `StartExchange`, `ContinueReception` | `Exchange` up to its first frame, with data and with an RXCHAINING mode |
| `Receive` | a reply: `HandleIBlock`, `HandleAck`, `HandleWtx`, `HandleOverflow`, then `NextBlock` or `ReceptionLoop` |
| `NoResponse` | timeout, integrity, framing or collision error: `Recover` or `GiveUp` |
| `HalError` | any other error of the HAL |
| `Deselect`, `Deselected`, `NotDeselected`; `PresCheck`, `Presence` | `Deselect` by the application or by `IsoHandling`, and `PresCheck` |
| `Activate` | a new session, by `SetProtocol` or `ResetProtocol` |
| `turn`, `card.turn`, `card.taken`, `turn` of a frame | history: requests answered, requests taken, the number of a frame's request |
| `call.effort` | history: frames sent since something was received |

A request is an I-block of the reader or the R(ACK) that asks for the next
block of an answer. Numbering requests lets the properties say which request a
block belongs to, where the protocol has one bit.

Assumptions:

* The card keeps to the rules. A multiplier out of 1..59 in S(WTX), which is
  outside them, is offered all the same and counts as a disturbance.
* After an error the application activates the card before it goes on
  (`InSession` names the statuses after which it need not): the card has been
  deselected or is lost.
* A block is the unit of length. Frame sizes, CID and NAD values, buffered modes
  (`PH_EXCHANGE_BUFFERED_BIT`, `LEAVE_BUFFER_BIT`) and the arithmetic of the WTX
  timeout are not modelled; whether a block carries the NAD is.
* A block overflows the buffer only in the reception loop, after the buffer was
  filled; an overflow of the first block (`P4`:598) is not modelled. A buffer filled with blocks
  has room for an S(WTX) (section 5).
* A card answers S(DESELECT) only with S(DESELECT).

### T1T, T2T, T3T, T4T, TagOperations

An operation of `phalTop` is a row of commands to the tag, and control leaves it only
there. A step is what the code does from the answer to one command, or its absence, up
to the next command or the return. `call.todo` is the rest of the commands that are sent
if there is no error; `Answer`, `Failed`, `Refused` and `NoAnswer` are what the code
does when there is an answer, none or a refusal.

| Variable or operator | Code |
|---|---|
| `top` | the parameters of the type, `phalTop_T1T_t` .. `phalTop_T4T_t`: `formatted`, `presence`, `state`, access, length, largest size |
| `top.notFound` of `T4T` | `pMfdf->wAdditionalInfo` is 6A82, the last ISO 7816 error of the layer below |
| `tag` | the tag: its capability container or attribute block, length, access, cells |
| `CheckNdef` .. `EraseNdef`, `SetReadOnly` | the operations up to their first command |
| `Learnt`, `Detected` | what CheckNdef notes from the capability container, attribute block or TLVs |
| `Verdict` | what an operation concludes from a read that verifies its writes |
| `call.clean`, `call.checked` | history: no frame of the call was lost; no operation failed since a CheckNdef that met no loss |

A message takes one or more cells: blocks of the tag, or the pieces the code writes it in. A
cell holds the message it is a part of, so that parts of two messages can be told from
a whole one. Addresses, lock and reserved areas, and the bytes of the TLVs are not
modelled. A command without an answer may have been executed or not. A type 1, 2 or 3 tag
may answer the next command; a DESFire card of type 4 answers no more in that call, as
the ISO 14443-4 layer deselects it after the last retry. A locked tag refuses to write.

`NdefTag` says what stays true of the tag at every step: another reader finds the
message that was there, none, or the whole of the one being written. `hidden` is a
message that an erase of a type 2 tag leaves in the memory and that a format may bring
back, as FormatNdef marks the tag before it writes the header.

### NfcDepField, NfcDepInitiator, NfcDepTarget, NfcDep

Both ends are the library's. The initiator is the master: it leaves control in
`phhalHw_Exchange` and has a timeout; the target leaves it there and in the HAL's receive.
NFC-DEP is half-duplex, so `air` holds at most one frame; an action is what an end does
from one frame, or its absence, to the next or to the return of the call.

| Variable or operator | Code |
|---|---|
| `ini.mode`, `chaining`, `retransmit` | `bStateNow` of the initiator and its two bits |
| `ini.pni`, `retry`, `backup`, `sent` | `bPni`, `bRetryCount`, `wBackupTxLength # 0`; `bSendAtn` and `bNackSent` |
| `Exchange`, `NextBlock`, `ReceptionLoop` | `phpalI18092mPI_Sw_Exchange`: its start and its two loops |
| `Receive`, `NoResponse`, `HalError` | `TransceivePdu` (`PII`): a frame, a timeout or a damaged frame, another error |
| `PresCheck`, `Deselect`, `Answered`, `NotAnswered` | the two calls of one frame with retries |
| `tgt.data`, `raw`, `length`, `prev`, `prePni` | the HAL's buffer, its end, `*pRxLength`, `wPrePayloadLength`, `bPrePni` |
| `tgt.repeat` | `bRetransmit`: a NACK sets it, nothing resets it, and the HAL has nothing left to transmit |
| `Listen`, `Acknowledge`, `NextChained`, `Stored` | `phpalI18092mT_Sw_Listen` and `HandleChainedData` |
| `DepSend`, `SendBlock`; `DslRes` | the answer of the layer above; its answer to a deselect |
| `TransceivePdu`, `TargetFails` | the target's wait for an acknowledgement or the next block |
| `Activate` | a new session: `ResetProtocol` at both ends |
| `turns`, `msg`, `size` | history: messages asked and answered, how often the last was taken, what was lost of it; which message a block belongs to |

Assumptions:

* Exchanges in the default mode: no buffering, no chaining by the caller, no NAD or DID, no
  empty messages. The target's time extension is off, as LLCP switches it off
  (`phlnLlcp_Fri_Mac.c:117`).
* The layer above the target answers within the response waiting time, and deactivates after
  an error. After an error of the initiator the next step is an activation: the retransmission
  bit of `bStateNow` may be left set, which the next `Exchange` refuses (`PII`:465).
* Messages carry their number modulo 2 and their blocks their place.
* `Recoverable` says from which losses the target recovers: a frame to a listening target, attentions, a deselect, and the
  acknowledgement of a block. `MaxHits` bounds the others in a session, such as the loss of an answer or of a chained block. After
  one `MessagesIntact` says nothing, as the code does not keep it (section 5). Everything else is required all the same: that an exchange
  that goes on and succeeds was preceded by a hand-up and that every further hand-up has a loss of its own
  (`ImplementsAlternation`), that every call returns, that the target listens after a call that succeeded, and the types.

### DiscLoop, Cards

The code runs in the caller's thread and leaves control in `phhalHw_Exchange` only: a step
is one command on the air with all the code makes of its answer, up to the next command or
the return. `Cards` is the other side: every card of a small set heeds the commands
of its standard, in any state of the field. Between two steps cards enter and leave, commands or answers
are lost or spoilt, and the stop flag is set.

| Variable or operator | Code |
|---|---|
| `rd.pc`, `rd.op` | the exchange that is waited for; the call of the application |
| `rd.tags`, `n`, `act` | `wTagsFound`, `bTotalTagsFound` and `bActivatedTagNumber` of each technology |
| `rd.uids`, `pupi`, `idm` | the identifiers recorded for the tags |
| `rd.round`, `lvl`, `uid`, `whole`, `more` | locals of `phacDiscLoop_Sw_Int_CollisionResolutionA` and of the anticollision of `phpalI14443p3a` |
| `rd.serial`, `complete`, `answered`, `rate` | the parameters of ISO/IEC 14443-3A, -3B and the bit rates of the reader |
| `Start`, `NextLoop`, `Listen`, `ActivePoll` | `phacDiscLoop_Sw_Run` (`DL`) and the loops it makes |
| `PollA`, `CardActivationA`, `ProtocolActivationA` | detection, collision resolution, select; RATS, PPS, ATR |
| `PollB`, `PollF` | detection and activation of type B, detection of type F |
| `ActivateCard`, `ActivateAnyA` | `phacDiscLoop_ActivateCard`; `phpalI14443p3a_ActivateCard` of any card |
| `calm` | history: the call polls, all cards were idle at its start and nothing has disturbed it since |

Assumptions: identifiers have parts of `PartLen` bits, of which the first stands for the cascade tag; the ATQA
of a card of type A tells how many parts, and nothing else; there is one card of type B at a time, one slot of type F, and no card of
type 1; register calls of the HAL succeed. Two cards that differ in the last bit of a part are the
violation run's; two of type B are looked at with `DiscLoop_pupi.cfg` (section 5).

### Rc523

The host sees the chip through register accesses, and its steps interleave with the chip's
at those accesses whose order matters. Chip, timer and peer are external. A byte tells where it comes from, so
that a frame put together from the wrong bytes can be told from the right one.

| Variable or operator | Code |
|---|---|
| `hal`, `mem` | `wTxBufLen`, `wRxBufLen`, `wRxBufStartPos`; the two buffers, which may be one piece of memory |
| `call.pc` | the register access or wait the call is at |
| `chip` | FIFO with its watermark, IRQ flags, modem, timer, command |
| `Host` | `Exchange`, `Transmit`, `Receive` (`HR`), `WriteFifo`, `WaitIrq`, `ReadFifo` (`HRI`), the commands of `HRC` and the settings of the buffers |
| `Chip` | transmission, the peer's answer, reception, the timer |
| `composed`, `kept` | history: what the caller has put together; what lies before the start position |

The setups are separate and shared buffers, SPI and serial bus, reader and target, a FIFO refilled while it is
emptied, a buffer borrowed by a command, and timeouts; one frame is disturbed or one access fails. Assumptions: data is
received by TRANSCEIVE in a reader; nothing answers a reception without timeout after the timer has run out; the buffers are
set up while no request waits; after a failed bus the caller initialises again; with `Preempted` FALSE
the chip does not move a FIFO's worth between two accesses.

### HalSettings, Rc523Settings, Rc663Settings, ReaderSettings

Each setting is kept twice: in `wCfgShadow` and in registers of the chip. `HalSettings` has the
accesses to a register, any of which may fail, and the chain of `PH_CHECK_SUCCESS_FCT`; the two modules on it
have one operator for each option of `SetConfig` and `GetConfig`, for `ApplyProtocolSettings` with its
tables, and for the field and `Wait`. `ReaderSettings` makes any sequence of these calls. A register keeps
the fields that settings write; a timer register keeps the timeout it was computed for. Assumptions: one buffer for both directions;
a command of the chip counts as one access; at most one failure in a behaviour; the registers the application stores for LoadReg are
none a setting touches; the measured frame delay, the peer's field and the baud rate's read-back are not modelled.

### BlockAlternation, MessageAlternation

What a half-duplex protocol promises, with counters: requests are asked, taken and answered strictly in turn, and the asking end may
give up, after which only a new session starts. In `BlockAlternation` each is taken once, whatever is sent again: `IsoDep` implements it
(`ImplementsAlternation`, by TLC and by proof). In `MessageAlternation` one may be taken again, at most once for every loss since it
was asked: `NfcDep` implements it, by TLC and by proof, a loss being one that is not `Recoverable`. So without such a loss a message is handed up once.

The modules whose states are records keep the parties' own fields apart from the
environment's: code that is not the library's (cards, chips, the field, other stacks) is
modelled from how the library uses it.

## 3. Runs

| Run | Instance | States | Shows |
|---|---|---|---|
| `connection` | 1 socket of 2, windows 1 and 2, 3 SDUs from the initiator, 2 from the target, `Base` 14 | 816,901 | the turn, the pending frame, the refinement of `LlcpChannel` |
| `connection_liveness` | 1 socket of 2, windows 1 and 2, 2 SDUs each way, `Base` 15, fair | 170,666 | Sends called back, I frames acknowledged, unless both ends hold back |
| `sockets` | 2 sockets a device, a listener and two clients, any answer, Send, Disconnect | 699,019 | both ends of a connection agree; no NULL callback |
| `link` | two pairs of stacks, 1 Send of each end, 2 sessions, 1 deactivation, 1 fault, fair | 30,090 | Sends called back once; what was confirmed was taken; the link survives |
| `snep` | MIU 128, PUT of 4 SDUs and of one octet too many, GET, answers of 1 and 3 SDUs, 2 requests, 2 connections, fair | 258,651 | requests called back once; messages whole or not at all |
| `isodep` | 2 retries, NAD, all modes, fair | 82,150 | agreement, completeness, recovery, the refinement of `BlockAlternation`, liveness |
| `nfcdep` | 2 retries, 2 messages of up to 3 blocks, room for 4, one unrecoverable loss, fair | 83,044 | messages whole, target where it should be, the refinement of `MessageAlternation`, liveness |
| `tags` | a tag of each type, 4 messages of 1 to 3 cells, room for 2 | 677,832 | success, currency, repair, the refinement of `NdefTag` |
| `discovery` | 4 sets of cards, 5 configurations, 2 calls, 2 events | 345,100 | real identifiers, nothing missed, bounded calls, the right card activated |
| `discovery_uid` | two cards that differ in the last bit | violation | the finding of section 5 |
| `reader` | 8 setups, FIFO of 3, buffers of 7, frames of 1 and 4 bytes | 847,257 | frames sent and received as composed; no wait without an end |
| `settings` | 17 setups, 3 calls, a failure at one of 4 accesses | 19,894 | chip, shadow and timer agree |

The properties of the two runs of `LlcpConnection`:

* `OneTurn` - the two ends never both transmit and never both wait for nothing.
* `LinkHoldsPendingFrame` - `bSendPending`, the link's slot and the registered
  callback agree, so no frame is refused by the link for a reason the transport
  does not know.
* `ImplementsChannel` - the refinement: it says that nothing is lost though the receiver
  drops an I frame silently when its window is full (`TC`:1074), that the ring of the window keeps the order, that
  N(S) and N(R) keep their meaning across the wrap, and that a success callback means a transmitted frame.
* `EventuallySettled` - the liveness of the two promises: every Send is called back and every I frame acknowledged.
  Excepted is the one state in which the code stops for good, with an I frame held back by a closed window at both ends
  (`Deadlocked`, section 5). Sessions are bounded by `MaxSdu`, so what happens eventually may be stated of the end.

The properties of `sockets`:

* `NoNullCallback` - the handlers that call `pSocketErrCb`, and the callbacks of Connect, Accept and Reject, without
  a test find them registered, whatever was refused, refused late or left from the entry's last use.
* `EndsAgree` - a connected socket has its other end: no CC, DISC, DM or FRMR that comes late, and no
  frame of an earlier use of a SAP, ends or establishes one end alone.

The properties of `link`:

* `CalledBackOnce` - every Send that was accepted is called back exactly once, in order, and none is
  outstanding at an end that is down: the deactivation, the failing MAC and the late completion of an
  exchange do not all do it, and one of them does.
* `SentMeansTaken` - what the initiator is told was sent has reached the target's transport; nothing comes twice.
* `LinkSurvives` - while nothing is lost or late, an active link ends only because an application ends it or
  the versions do not agree: symmetry, both timers and the callbacks leave no gap in which an end misses its turn.
* `SendReturns` - every Send is called back in the end.

The properties of `snep`:

* `CalledBackOnce` - `ClearMemNCallCb` is reached from a dozen places, by callbacks of a Send and of a Recv
  of the same request; it is called once.
* `Delivered` - success of a PUT means that the server's application got the whole message once; of a GET, that the client got
  the whole answer it accepted; no application gets part of a message.
* `RequestReturns` - every request is called back in the end.

The properties of `isodep`:

* `BlockNumbersAgree` - the block numbers are what each end has counted, modulo 2,
  and the card is at most one request ahead.
* `RequestTakenOnce` - the card never takes an I-block twice, which it would execute twice.
* `AnswerIsForRequest` - what the reader accepts was sent for its request.
* `AnswerComplete` - a call that returns the end of an answer left nothing with the card.
* `BoundedRecovery` - frames sent for one request, with both retry counters and all
  losses, stay under `RecoveryBound`.
* `CallReturns` - every call returns.
* `ImplementsAlternation` - the refinement.

The properties of `nfcdep`:

* `MessagesIntact` - a message is handed up whole, its blocks once and in order, by
  Listen and by Exchange: repeated blocks, attentions and the buffer's arithmetic agree.
* `TargetFollows` - after each call that succeeded the target listens, after an answered
  deselect it is deactivated.
* `ImplementsAlternation` - the refinement. `CallReturns` - every call of the initiator returns.

The properties of `tags`:

* `SuccessMeansDone` - an operation that returns success has done its work, whatever was lost.
* `ReadIsCurrent` - a read returns the message on the tag: what was noted of it is not stale.
* `WriteSucceeds` - no earlier operation, done or cut off, prevents a later undisturbed write.
* `ImplementsNdefTag` - the refinement.

The properties of `discovery`:

* `FoundAreReal` - the identifiers recorded are those of cards, though cards come and go between two
  cascade levels; undisturbed no card is recorded twice.
* `AllFound` - undisturbed, Start succeeds and finds every card of type A up to the device limit, and the
  only card of the other types; unless two cards of different ATQA are left after one was found (section 5).
* `CallIsBounded` - a call exchanges at most the number of frames that rounds, levels, bits and slots allow,
  the one it waits for included.
  It stands for liveness: no fairness is assumed, and no call can go on beyond it.
* `ActivatedIsSelected` - an activation that succeeds has activated the card that was meant, at the reader's bit rates.

The properties of `reader`:

* `SentAsComposed` - a call that says it has sent has put on the air exactly the bytes the caller composed,
  though the FIFO is refilled while it empties and buffers are shared or borrowed.
* `ReceivedAsSent` - a call that says it has received hands over the peer's whole frame and no other, behind the
  bytes that were to be kept, and never one that came disturbed.
* `WakesUp` - a host that waits for a flag is never left waiting: the chip is at work on something
  that raises one, or the timer runs.

The properties of `settings`:

* `ChipAsConfigured` - once a card type is applied, the chip transmits and receives as GetConfig
  reports. Excepted, because the code does not keep them (section 5): of the RC663 the modulation index and deaf time after
  another rate, and the driver; of the RC523 what active mode overwrites, the CRC of the NFC modes, and TXLASTBITS and RXMULTIPLE, which
  are as reported or, after another apply, off; the FIFO of 18000-3 mode 3
  after its settings were applied again.
* `TimerAsConfigured` - the one timer serves Wait, FieldReset and every timeout; between calls its
  registers hold the timeout configured last.
* `RefusedChangesNothing` - a setting that is refused leaves chip and settings as they were (but for the transmit rate of the
  RC663's NFC initiator).
* `ApplyForgetsHistory` - a card type that is applied finds the chip as after the first start, whatever was
  configured and wherever the bus failed before.

Bounds. Two devices are all the protocol has. `NB_SOCKET_MAX` is 2, the library's
own value (`IN`:103). Windows of 1 (the default) and 2 make the window close, the
ring wrap, and the two ends differ. Three SDUs one way and two the other store
behind a pending Recv, start and end a busy condition, have two I frames
outstanding, and reach the FRMR of section 5. `Base` 14 lets the initiator's
three frames cross the wrap of VS and VR while two of them can be outstanding:
with `Base` 15 the absolute difference in CHECK_SEND_RW (`LH`:189) keeps a window
of 2 closed at the wrap. The liveness run looks at that: each end's second SDU waits behind a window, the one because
it is 1 and the other because of the wrap. With `Base` 14 the window of 2 holds two frames, and the second of them may never be
acknowledged (section 5); run once (246,447 states), every SDU is handed over all the same. With two connected sockets a Send may be confirmed
that was not transmitted (section 5), after which most properties are
lost, so the runs use one connected and one free entry of the table
(the free entry matters: it ends the poll after a rejection).

For `LlcpSocket`: with `NB_SOCKET_MAX` 2 the listener has one entry for connections, so that two clients
compete for it and one is refused; a frame of either may be queued, pending or with the link while the other's is.
Sockets are used again without bound. Larger instances were run once with the same result: both devices
disconnect (1,651,000 states), service discovery as a second destination (2,506,000 states).

For `LlcpLink`: two sessions let what is left of the first meet the second; one Send of each end is enough for
one to be queued, in flight or confirmed when the link goes down; one fault at any point and in any callback. The pairs of
stacks differ in version, MIU and LTO. The target does not call Send in its turn out of a
callback (section 5).

For `Snep`: PUT of 400 octets is a first SDU, two in the middle and a last one; 1025 is one more than the
inbox holds. Answers of 122 octets fill one SDU exactly (128 less the header), 300 need three. Two versions,
one of which is refused, and a second connection on the entry of the first.

For `IsoDep`: two retries are the library's default (`P4`:169) and the least that
lets an I-block be retransmitted after a retry and retried again. Data of 3
blocks, answers of up to 6 and room for 2 make both chains go on in the middle,
leave the rest of an answer to a second and third call, and let an answer
overflow and go on. `MaxTurn` 4 begins a second command with the other block number.
Two time extensions put one after another and losses between them. `RetryModulus`
is the range of the retry counts, 256 in the code: the runs take 4, so that
the largest limit, where the count wraps, is 3 and 2 is the largest
below it.

For `NfcDep`: 3 blocks give a chain a first, a middle and a last block, each of which may
be repeated; 2 retries let an attention be followed by another. `PniModulus` is the range of
`bPni`, 256 in the code: 6 leaves values above 3, which spoil a frame, on the way from 0
backwards. Room for 4 blocks holds the block that is repeated behind the message; the target's
own test of the room is not reached. With `MaxHits` 2, and with attentions off, `ImplementsAlternation` holds too.

For the tags: one cell is the smallest message and the default one; two messages of two
cells can be mixed, and their header is written before and after a cell; one message has
no room. Any operation may follow any other, so that a sequence of calls
may be as long as it likes: the state space is finite as it is.

For `DiscLoop`: parts of 3 bits give a level a collision in the first bit, in the middle and none; the sets of
cards hold three of type A with identifiers of two parts, three with identifiers of one and two, one card of each of types A, B and F
together, two of F with a device in active mode. The five configurations poll with and
without bail-out, with a device limit below the number of cards, without collision resolution and with
listening. Two events are enough for a card to leave and come back between two commands.

For `Rc523`: frames of 1 and 4 bytes are below and above the FIFO's 3, whose alert level is 2, so that it is
filled while it empties and emptied while it fills; buffers of 7 have room for a waiting request and an
answer behind a start position, and end within both.

For the settings: values lie around every bound of a test in the code; three calls set, disturb and
apply. A failure strikes the first access, or one in the middle of a table, of a rate change, or late.

Fairness. `FairSpec` of `LlcpConnection` asks weak fairness of each device's link actions together:
the reader's task and the symmetry timer keep frames going back and forth, and
at most one of the three is enabled at a time. It asks weak fairness of Recv on
each connected socket: liveness under flow control needs a receiver that
receives. `AppSend` is not fair. `FairSpec` of `LlcpLink` asks it of what the environment owes: applications
check and activate a peer that was found, timers expire, the reader runs its task, an exchange
ends; not of Send, nor of any fault. That of `Snep` asks it of the link below, of the answer of the
server's application, and that a link lost at one end is noticed at the other. `FairSpec` of `IsoDep` asks weak fairness of the steps
that end a HAL exchange, which has a timeout of its own, and of the card's
answer. It asks strong fairness of the card's taking a granted time extension: a
valid S(WTX) resets the retry count (`P4`:1142), so a field that loses every
grant but no request for one would keep `IsoHandling` in its loop for ever. The
losses are not fair and not bounded otherwise. `FairSpec` of `NfcDep` asks weak fairness of the
HAL's returns and of the answer of the layer above, and strong fairness of the reception
of frames other than attentions: a retransmission resets the retry count
of the initiator, so a field that answers every attention and loses every block keeps it going.

Deadlock is not checked where the system really stops: the bounded calls of `discovery`, `reader` and
`settings`, the bounded sessions of `link`.

## 4. Proofs

For `LlcpConnection` TLAPS proves, for any number of sockets and any set of them connected, windows
from 1 to 15, any numbers of SDUs and any `Base`:

* `TypeCorrect`: `Spec => []TypeOK`. The invariant is inductive as it stands. Each
  operator on devices has a lemma that it maps devices to devices; a step of
  `Next` is a composition of them. `PollSockets` chooses the least ready socket,
  so `SomethingLeast` shows that there is one.
* `LinkInvariant`: `Spec => []LinkInv`, and from it `TurnCorrect`
  (`Spec => []OneTurn`) and `PendingFlagCorrect` (`Spec => []LinkHoldsPendingFrame`).
  Neither of the two is inductive alone: whether a handler that is called back
  may transmit depends on the slot, and the slot on the turn. `LinkInv` is
  `OneTurn` with `LinkOK` for each device, which adds to the flag's agreement
  that a held or waiting frame is a real frame. The argument: every call a handler
  makes is a `LinkStep` (the link stays consistent; either turn and wire are
  untouched or the turn went to the peer with a frame), `LinkStep`s compose,
  and each action is one, preceded by the turn it receives.

and, if one socket of the table is connected (`OneSocket`):

* `ChannelInvariant`: `Spec => []ChannelInv`, and from it `ChannelImplemented`:
  `Spec => ImplementsChannel`. The mapping alone is not inductive: that the far end is handed the
  next SDU depends on the numbers both ends keep modulo 16, and on the places of its ring.
  `ChannelInv` says of each end how its counters, VS and its queued I frame go together (`Sender`), what the frame
  on its wire carries (`Framed`, `Carries`), that its ring holds exactly the SDUs after those handed over, and that
  what it acknowledged last bounds how full the ring can be (`Receiver` with `Stored` and `Acked`); and of the two
  ends that the SDU one expects next is at most the next one that can arrive, and the same while both are open.
  The lemma `WindowTest` carries the arithmetic: under `Acked` the receiver's test of N(S) modulo 16 passes exactly if
  the ring has room, so the test for room behind it (`TC`:1074), which drops a frame silently, never fails. Every call inside a handler
  keeps what the channel sees (`Keeps`); every action moves it by one step of the channel or none.

  With two connected sockets the theorem is false, not just unproved: a Send is then confirmed whose
  frame was never transmitted (section 5).

These theorems rest on the three named assumptions of `LlcpConnection` on its
constants, which TLC evaluates in every run.

For `IsoDep`, for every retry limit, number of blocks and of time extensions:

* `AgreementInvariant`: `Spec => [](TypeOK /\ Agreement)`, and from it `TypeCorrect`,
  `BlockNumbersCorrect`, `TakenOnce`, `ReceptionCorrect` (a reader in reception never sees an R(ACK), which
  `IsoHandling` accepts in every state, `P4`:1059) and the action property
  `AnswerCorrect`. `BlockNumbersAgree` alone is not inductive: after a loss the
  next step depends on what the card would send again and on what is still in
  the field. `Agreement` adds what each of these may be: a request in the field is
  the next one and an I-block has not been taken (`RequestOK`); a response
  is of the last request taken (`ResponseOK`); so are the card's last block and its
  delayed reply, and an R(ACK) among them belongs to a reader that transmits (`CardOK`); a
  reader between calls has no request open (`ReaderOK`). With `NumbersTell` -
  equal block numbers mean that the card is one ahead - each R-block then has one
  meaning, and each action keeps the agreement.
* `AlternationImplemented`: `Spec => ImplementsAlternation`, by the step: from
  `Agreement` each action is `Ask`, `Take`, `Answer`, `GiveUp`, `Restart` or a stutter.
* `AnswersComplete`: `Spec => []AnswerComplete`. Whether the card has more is known to the reader only by the chaining
  bit of the last block it got; `AnswerInv` follows that bit from the card's last block through the field to
  the reader, across repetitions.
* `RecoveryBounded`: `Spec => []BoundedRecovery`, if the retry limit and one do not reach `RetryModulus`. Each
  frame sent again has used up one of `IsoHandling`'s retries or one of `Exchange`'s; `RecoveryInv` bounds the frames
  sent by what is spent of both. Under the limit 255, which SetConfig accepts, the 8-bit count wraps before it
  exceeds the limit and there is no bound.

They rest on the three assumptions of `IsoDep` on its constants.

For `NfcDep`, for any number of blocks and messages, any retry limit and any range of `bPni` above 4:

* `FollowsInvariant`: `Spec => []FollowInv`, and from it `TypeCorrect` and `TargetFollowsCorrect`
  (`Spec => []TargetFollows`), with attentions on or off. That the target listens when a call has succeeded is
  known only from the frame the initiator got last; the invariant says for each frame in the air where its sender is.
* `MessageInvariant`: `Spec => []MessageInv`, and from it `MessagesIntactCorrect`, while attentions are on (`~AtnDisabled`). `Sync` says where
  the two ends are in one exchange: a message begins or continues (`Begins`, `Continues`), a block was acknowledged (`Acked`), or its
  acknowledgement lost (`Unacked`, and `Spoilt` where the attention took `bPni` below 0), the target has the message (`HasMessage`), it
  answers (`Answers`), the initiator wants another block (`Wants`). In each stage the packet numbers of both ends, the target's buffer, the
  length it announces (`Announces`) and the frame that may be in the air are determined, up to repetitions; a step goes to one of the next stages
  or is a loss from which the target does not recover. The hypothesis is needed: with attentions off a first block that is lost is followed
  by a NACK, and Listen hands up an empty message for it, although nothing else was lost.
* `CreditInvariant`: `Spec => []CreditInv`, and from it `AlternationImplemented` (`Spec => ImplementsAlternation`), whatever is lost and with attentions on
  or off. After a loss little can be said of packet numbers and buffers. What can is whether the next frame may be handed up
  once more, and `Credit` says that a loss since the message was asked has paid for it (`Allowed`) wherever it may: at a target that listens before the answer has
  left, chains, or sends to an initiator that still transmits. A NACK repeated to a listening target needs one more.

They rest on the assumptions of `NfcDep` and `NfcDepField`.

For `TagOperations`, for every set of messages, their sizes and the room on the tag:

* `TagInvariantCorrect`: `Spec => []TagInvariant`. An operation is a plan of commands, and `call.todo` what is left of it.
  The invariant says of a call that has not returned that it is at a place in the plan of its operation (`Follows`)
  and what the commands before that place have made of the tag, of `phalTop`'s parameters and of the cells read: a
  write, for instance, has hidden the message before it writes the first cell, and has all cells and the length in place
  before it shows it again (`T1Written` and its counterparts). Of a call that has returned it says what `SuccessMeansDone`, `ReadIsCurrent` and `WriteSucceeds`
  say (`EndedWell`), and of the parameters that, while the check is trusted (`call.checked`), what they note of
  the tag is true (`T1Known` to `T4Known`). Each type has its own plans and its own invariant, and each command three outcomes: answered,
  refused, not answered. A command also begins a call, so each is looked at from a call in progress and from a new one.
* `SuccessMeansDoneCorrect`, `ReadIsCurrentCorrect`: `Spec => []SuccessMeansDone`, `Spec => []ReadIsCurrent`, from `EndedWell`.
* `WriteSucceedsCorrect`: `Spec => WriteSucceeds`, an action property: the call in the step's successor state was begun
  in the step or before, and the invariant says at each of its places that no test of the code forbids to go on.
* `NdefTagImplemented`: `Spec => ImplementsNdefTag`. Every command, answered or not, leaves `Content` and `Hidden` alone or moves
  them by one step of `NdefTag` (`Effect`); a reset of the reader and a refusal end the operation.

They rest on the assumptions of `TagSession` and `TagOperations`.

For `DiscLoop`, for every set of cards of the standards with identifiers of one or two parts, every set of
configurations within the ranges of `src/intfs/phacDiscLoop.h`, any retries of the requests of types B and F and any number of events:

* `CallIsBoundedCorrect`: `Spec => []CallIsBounded`. The number of frames sent is not inductive, as it does not say
  how many are still to come. `Rest` does: for each place where the call can wait, the most frames it may still
  send from there, as one loop of `Start` nests rounds of the collision resolution, levels of a cascade and bits of a level.
  The invariant `Bounded` is that the frames sent and `Rest` together stay within the limit; a step sends one frame and
  takes at least one from `Rest` (`GoesOnFrom` and a lemma for each operator, after the code's order of phases). For this
  the places must be what the code takes them for (`WellPlaced`: a level is begun with fewer bits than it has, a loop,
  round, slot or retry is left when it waits), and a collision must bring a bit that was not known: `AnticollisionsTell` shows it
  from what the cards answer (`SoundCards`: a card is at a level of its own identifier), whatever comes, goes or is lost
  in between.

* `FoundAreRealCorrect`: `Spec => []FoundAreReal`, if no two cards that may be about differ, at the first level where they
  do, in the last bit only (`NoTwins(Worlds)`). What is recorded is put together from two exchanges a level, and says nothing of
  the cards by itself. The invariant `Real` adds what the reader knows where it waits: at the second level there
  is a first part `p` that is in the locals of the collision resolution and in the serial number without its tag,
  and that every card still at that level has (`Placed` with `Below`): a card that comes in is at no level, and one that does not
  hear its own part falls back. So an answer to the last SELECT is that of a card with all parts (`SelectionNames`). For
  "no card twice" the invariant says, while nothing disturbs, that recorded cards are halted or about to be (`Settled`) and
  that cards with the same identifier have heard the same (`Alike`); halted cards are not woken by REQA. The parts with and without the cascade
  tag are told apart by the tag bit (`WholeIdentifies`), and a collision leaves at least one bit unknown unless two
  cards are twins (`LastBitNeverCollides`).

  The hypothesis is needed: `discovery_uid` (section 5) finds an identifier of no card among twins. `MCDiscLoop` has TLC
  evaluate that the sets of cards of `discovery` satisfy it and that those of `discovery_uid` do not.

* `ActivatedIsSelectedCorrect`: `Spec => ActivatedIsSelected`. What an activation says on its return was decided over up to a
  dozen exchanges and an earlier call, with cards coming and going between any two, so the invariant `Aimed` says
  what the reader knows at each place where it waits. Between calls (`Remembers`): a single tag of type A that was found is the
  one recorded, and the tag type noted is its own. In the poll loops (`Gathers`): no tag is noted before a card answers. In a selection by
  identifier (`AimsA`): the parts sent are, level by level, those of a card about (`Leads`), and whoever is still at the second level has
  its first part, so the answer to the last SELECT is its own and no other card of type A is selected (`SelectionIsOnly`).
  After it (`Follows4`): RATS, PPS and ATR go to a card with that identifier, and a failure that was noted stays noted through
  DESELECT and HLTA. For type B (`AimsB`): ATTRIB goes to the PUPI looked for, or to the one that just answered.
  `Fine` says of a reader that it keeps the aim and, if it returns success, has hit (`Hits`); there is one lemma for each operator
  (`...IsFine`) and one for each action (`...Hits`).

  Four hypotheses on the sets of cards that may be about together, all needed: without each TLC finds a counterexample.
  `NoTwins(Worlds)`: of twins the first is recorded with an empty identifier, and any card is activated for it.
  `OwnIdentifiers(Worlds)`: of two cards with the same identifier the other is activated, with the protocol of the one that
  was found. `OneOfTypeB(Worlds)`: see the cards of type B in section 5. `OneOfLayer4(Worlds)`, or no higher bit rates in any configuration: a card
  that an earlier call left in ISO/IEC 14443-4 answers the PPS meant for another that has just left, as `Start` resets no field
  and both have the same CID. `MCDiscLoop` has TLC evaluate that the sets of cards of `discovery` satisfy them.

They rest on the assumptions of `Cards` and `DiscLoop`. `LimitAssumption` leaves out the retry count 0 of the polls and device
limits outside 1 to 3; `AnyAssumption` and `PlatAssumption` say that no identifier is `AnyCard`, and that a card of type A is
of one of the three kinds of the model.

For `Rc523`, for every size of the FIFO, its alert level and the buffers, every set of configurations, any lengths of
frames and answers, and any number of calls and faults:

* `AwakeInvariant`: `Spec => [](Typed /\ Awake)`, and from it `WakesUpCorrect` (`Spec => []WakesUp`). That the timer runs, or
  that the chip is still busy, when the host begins to wait is decided many accesses earlier. `Places` says at which access each
  call may be, `Modems` which command the chip executes while its modem is at work, and `Wakes` what the host may count on
  from the first byte in the FIFO on: the modem transmits or has flagged the end, and then, as the
  automatic timer is on (`AutoOn`), the timer runs, the answer comes in or something is flagged.
* `FaithfulInvariant`: `Spec => [](Typed /\ Awake /\ Faithful)`, and from it `SentAsComposedCorrect` (`Spec => []SentAsComposed`).
  `Faithful` says of every request where its bytes are. While it is put together, and until the first access of the call
  that sends it, the buffer and the bytes of the call together are what was composed (`Request`), through start positions, borrowed scratch
  areas (`ScratchIs`) and answers to earlier calls. From then on the frame on the air, the FIFO and the bytes left to the
  call are, in this order, what was composed (`OnItsWay`), or a byte did not fit and the flags the call reads at its end say so
  (`Spilt`), or the chip has ended the frame; and after the end the frame does not change before the next call (`Out`).
  For this nothing else may use the FIFO meanwhile: the commands that do cannot run while a frame is sent (`SendCommands`).
* `WholeInvariant`: `Spec => [](Typed /\ Awake /\ Sound /\ Whole)`, and from it `ReceivedAsSentCorrect` (`Spec => []ReceivedAsSent`).
  When `Finish` looks, the answer has gone through the FIFO in as many pieces as there were polling rounds, and three
  registers were read at three moments. `Whole` therefore follows the bytes from the request on (`Goes`): the answer is not begun, coming in, come, or lost in a
  full FIFO (`Comes`), and in each case what was read, the FIFO and what the peer still sends are, in this order, its frame. To
  each goes what the flags can be: `RX` is not raised before the frame is in the FIFO, an error is raised no later than
  `RX` (`Seen`), and a timer that has run out tells that nothing was heard (`Silent`), as the first byte of an answer stops it. So when the loop
  ends, the call has the frame and the flags that belong to it (`Concludes`). What was read lies in the buffer behind the bytes to be kept (`Held`, `Taken`), which no
  scratch area and no answer overwrites. For a target, `Polling` says that the FIFO holds the initiator's first frame, or nothing
  if its field has gone. `Handed` is the property itself, with what keeps the peer from answering again behind the caller's back.

The four hypotheses are needed; without each TLC finds a counterexample. `TransmitsDirectly(Setups)`: a Transmit of a reader that only
buffers its data leaves the automatic timer off (section 5), and the next Exchange waits for a silent card, or a Receive is cut off by a timer
that no answer stops. `~Preempted`: between `CheckUnderflow` and `WriteFifo` the chip may end the frame, and
the bytes written then stay in the FIFO although the call returns success; in a polling round that saw the timer run out
the answer may begin, and its first bytes are taken for all of it. `RequestsApart(Setups)`: in a shared buffer an answer received between
two parts of a request overwrites the first; the code leaves that to the caller. `ReceivesByTransceive(Setups)`: a reader that receives by the command RECEIVE
may miss the error of a frame, and a target's timed Receive may return a part of one (both in section 5). Under it the theorem says nothing of a
target's Receive, as it says nothing of one with RxMultiple; what a target is shown to hand over is the first frame of Autocoll.
`MCRc523` has TLC evaluate that the setups of `reader` satisfy all but the second, which is a constant there.

They rest on the assumptions of `Rc523`, which say that sizes and lengths are natural numbers.

Only model-checked:

* `NoNullCallback` and `EndsAgree` of `LlcpSocket`: they rest on what both devices and every frame between them know of a connection, an
  invariant not written yet, and hold only where no application closes a socket in any state or connects again from a failed callback (section 5).
* `AllFound` of `discovery`: it awaits an invariant that also says which cards have answered.
* The properties of `settings`: the tables of defaults are applied by folds, and what a fold computes is induction over data.
* The properties of `LlcpLink` and `Snep`, whose operators are recursive and which therefore no theorem may refer to.
* All liveness (`EventuallySettled`, `SendReturns`, `RequestReturns`, both `CallReturns`), which is out of
  the prover's reach.

## 5. Findings

* `discovery_uid` - `FoundAreReal` fails. A collision in the last bit of a part ends the loop of
  `phacDiscLoop_Sw_Int_CollisionResolutionA` before the part is copied (`DLI`:172-226): the card is selected and
  counted, but its identifier is recorded without that part. `src/intfs/phacDiscLoop.h:287-288` says what the fields hold.

Met while modelling, without a run of their own; the first sixteen are counterexamples TLC
found, the first to a property of `discovery` with other cards, the others to properties since replaced by those that hold:

* With two cards of type B `ActivatedIsSelected` fails (`tlc -config DiscLoop_pupi.cfg MCDiscLoop` shows it).
  `phpalI14443p3b_Sw_ActivateCard` keeps the status of the first slot in which
  something happened (`P3B`:518-522) and returns it when no slot brought the card with the given PUPI (`P3B`:553-556). If another
  card of type B answers first, that status is success: nothing was activated, no ATTRIB was sent, and `phacDiscLoop_Sw_Int_ActivateB` hands
  the status on. The comment at `P3B`:526 says that with a PUPI only the card it belongs to is found and activated. In the
  counterexample the card that was found leaves and another comes before the activation.
* With three cards of type A whose identifiers are not of one length `AllFound` without `OneATQA` fails. After a card was found and halted the
  others answer REQA together (`DLI`:313); when their ATQAs differ that is a collision, which the first REQA of a poll takes for cards
  (`DLI`:59-105) and this one for an error: Start returns COLLISION_ERROR, and the cards found are not counted.
* Settings of the RC523 that are applied once more (CURRENT) leave TXLASTBITS off in the chip (`HR`:703) while the shadow and
  GetConfig keep it (`HR`:1696), and every apply writes RXMODE anew (`HR`:522) while `bRxMultiple` stays on.
* The RR handler of LLCP sends a pending I frame without the window test (`TC`:1264-1270) that every other
  place makes; the comment at `TC`:2205 says what is expected. The peer answers with FRMR and the connection is lost.
* With two SDUs each way both ends of a connection may stop for good, each with an I frame that the other's window does not admit:
  `HandlePendingOperations` takes the pending I frame for the socket's turn and does not get to its RR (`TC`:157-182), so neither
  window opens and neither Send is called back (`EventuallySettled` without `Deadlocked` fails).
* In a window of 2 the second of two SDUs stored while no Recv was posted may never be acknowledged: reading the first ends the busy condition
  with an RR (`TC`:2307-2335), reading the second sends none.
* With two connected sockets, when the Send callback sends again, `Transport_Send_CB` still polls
  the other sockets (`T`:612-641); `performSendInfo` clears the pending flag and advances VS
  before `LinkSend` answers BUSY, and ignores that (`TC`:266, 285). That SDU is gone, and its Send is called back
  with success when the first socket's frame completes.
* A server that was disconnected closes its socket while the link still holds the DM that answers the client:
  `Transport_Close` clears `bSendPending` for all sockets (`T`:1299). The next refused CONNECT writes its addresses into
  the one DM header (`T`:921-934), and the queued DM leaves with the first client's opcode and the second client's
  address; the callback of the first client's Disconnect (`TC`:2001) never comes.
* CheckNdef of a type 4 tag tests an error code that the layer below never clears (`T4T`:75-76), not the status of its
  select: after a select was refused once, each check tries to format a tag that is formatted, and returns an error,
  until the next Init.
* Listen of NFC-DEP takes a NACK for a message without data (`MT`:1474-1530) and hands it up; the layer above answers
  it, and the initiator, which asked for a block again, joins it with a block of another answer.
* A repeated block is copied over the previous one (`MT`:798-810) by a length that is still 0 after the first block. If the ACK of that one is
  lost, its copy goes behind it and the next block over the copy, but both are counted: the message is
  handed up a block too long, with what the buffer held at its end, or the target deactivates itself if a block more does not fit. `MessagesIntact` without `turns.twice` fails.
* If the answer to a message is lost, the target listens, and the block that is repeated after an attention is a message to Listen
  (`MT`:1474-1545): it is handed up again, and the Exchange succeeds.
  `BlockAlternation`, which takes each message once, is not implemented.
* If a block of a chain that is not the first is lost, the attention makes it look repeated when it comes: it is stored over the block before it.
* If the ACK of a block is lost when `bPni` is about to wrap to 0, the attention takes it to 255 (`MT`:1523), and the ACK sent again carries it unmasked:
  the initiator fails with PROTOCOL_ERROR.
* A target that sends again in the callback of a Send made in the callback of a reception transmits twice in one turn (`L`:973, 1411
  against 1418): `SendsAgain`. One that sends in its turn out of a callback is not listening afterwards, as only `SendSymm`
  (`L`:140-145) and `Receive_CB` call the MAC's Receive: `SendsInTurn`.
* If a reception by the RC523's command RECEIVE ends between the reads of COMMIRQ and STATUS2 (`HRI`:541), the loop ends by the
  state of the modem with the flags read before: a CRC error that came with the end is not looked at and the call returns
  success, against `src/intfs/phhalHw.h`:684. TRANSCEIVE, with which the runs receive, leaves the modem on.
* A Receive with a timeout in a target, whose timer nothing stops, or in a reader after a Transmit has left the automatic timer off: if the timer
  runs out while a frame comes in, the polling loop takes TIMER for the end of reception (`HRI`:559), and the call returns the bytes so far
  with success.

With other constants of `LlcpSocket`:

* `Sends` at both ends: `EndsAgree` fails. `SendFrameReject` looks for a socket between the SAPs of the frame
  and does not test that it is connected, as its comment says it does (`T`:834): a socket whose Connect was refused keeps
  its SAPs, another one is bound to the same SAP, and the FRMR closes the first.
* `Hasty` = `Disconnects`: `EndsAgree` fails. Disconnect rewrites the header of the socket's queued I frame to DISC and
  sets its own flag as well (`TC`:2042-2075); the second DISC leaves after the DM of the first and ends whatever connection the peer
  has on that SAP by then, as DISC is matched by the DSAP alone (`TC`:763).
* `Retries`: `NoNullCallback` fails. The handler forgets the callback after it called it (`TC`:735, 900), and with it the one
  that a Connect inside the callback has registered.
* `Closes`: `NoNullCallback` fails. A closed entry keeps a pending CONNECT (`TC`:2143), which is sent for the next user of the entry;
  its CC finds no callback.
* A Reject is never called back and its socket never closed: the DM goes to the link without the transport's callback
  (`T`:936-943), which alone closes a Rejected socket (`TC`:112-125). The comment at `TC`:1807 promises both.

With other constants of `Snep`:

* `GetLengths` of 119 or 122: `Delivered` fails. Whether a GET is fragmented is decided with the four octets of the acceptable
  length counted twice (`SU`:1210), so a GET longer than the MIU less 10 and not longer than the MIU less 6 goes wrong; one that is really
  fragmented is refused with BAD REQUEST, as CONTINUE resets what is still expected (`SF`:908).
* `SecondOctet` of another value, or octets of a chunk: the receiver reads octet 1 of an SDU without a header.
* `Buffers` without one and three requests: `Delivered` fails; flags of an earlier GET are left set.
* `ClearsContext` FALSE: `RequestReturns` fails.

Seen, each by reading:

* LLCP: RR and RNR are flags, and a pending RR is
  sent before an older pending RNR (`TC`:166-182), so the peer may stay told busy. A queued RR or RNR is transmitted with the information of
  the I frame that was queued before it (`L`:853, 1421), and the peer rejects it (`TC`:1232).
  ChkLlcp's callback sets the state CHECKED even if the check failed (`L`:615). A deactivation cancels neither the tick nor the
  exchange of the reader: a frame whose Send was called back as failed may still be transmitted.
* SNEP: requests to continue or reject ignore the status of Send (`SU`:914, 964); Server_DeInit closes no
  connection, against `phnpSnep_Fri.h`:160; a connection lost with the link stays counted.
* ISO 14443-4: `bUseNad` of `P4` is computed from the chaining bit before that is set for the block (`P4`:439, 461):
  a retransmitted first block of a chain lacks the NAD. `bRetryCount` of `P4` counts the R(NAK) that brings the
  R(ACK) too (`P4`:1203), so retransmissions are fewer than the limit and none for
  the limit 0, against the comment at `P4`:1061; it wraps before it exceeds the limit 255 that
  `SetConfig` accepts (`P4`:1583). With RXCHAINING_BUFSIZE, if the block that overflows is the last one, its chaining bit is not
  read (`P4`:763-775, 944), and the reader asks a card that has no more. An S(WTX) that comes when the buffer is exactly full
  overflows too and is taken for a block (`P4`:764): the block number is toggled, as in the mutant of `Overflows`.
* Tags: EraseNdef of a type 2 tag writes the capability
  container alone (`T2T`:530) though `TOP`:569 says that the length is zero afterwards; a format that loses a frame
  brings the erased message back. SetReadOnly of a type 1 tag sets the state
  READONLY without a message being there, and a read then returns an empty one. A write
  of a message too long for a type 1 tag removes the old message before the length is
  tested (`T1T`:991). EraseNdef of a type 3 tag zeroes one block more than the message has
  (`T3T`:580). UpdateCc of a type 4 tag writes 15 bytes at offset 2 (`T4T`:743).
* Discovery: statuses are compared without their component masked off, so the limit of type A polls has no effect (`DLI`:100) and
  the collision resolution of type B is never entered (`DLI`:466, `DL`:506). `(status & PH_ERR_SUCCESS) != PH_ERR_SUCCESS` is never
  true (`DL`:387, 483, 588). ActivateA with other than one tag found returns success without a select (`DLI`:357). The index tests
  use `>` for `>=` (`DLI`:350, 725). The stop flag is never cleared. A lost HLTA records a card twice.
* RC523: MfcAuthenticateKeyNo ignores key B, against its comment (`HR`:2205, 2214); a transmission that is only buffered or
  overflows without the timer bit leaves the automatic timer off (`HRC`:349-407); the water level flag that a
  transmission of 8 bytes or more leaves makes the next wait return at once.
* Settings: a change of one NFC rate back to 106 leaves the CRC on in the chip while GetConfig says off (`HR`:897-1018); SETMINFDT turns a
  timeout below a millisecond into 0 ms; Apply turns the field on, against the comment at `HR`:682; the RC663's default start symbol is
  overwritten while GetConfig goes on reporting it (`LR`:1002); a rate change to or from its NFC mode uses the old rate for
  TxWait and ASK100 (`LRI`:1120) and its receive parity overwrites the transmit parity (`LRI`:1181-1193).

## 6. Plan

Done: `LlcpConnection`, `LlcpSocket`, `LlcpLink`, `Snep`, `IsoDep`, `NfcDep`, the tag operations, `DiscLoop`, the RC523's HAL,
the settings of both readers; theorems about `LlcpConnection` (types, turn, flag, refinement), `IsoDep` (all its
properties but liveness), `NfcDep` (all its properties but liveness), `TagOperations` (all its properties), `DiscLoop` (all its properties but `AllFound`) and `Rc523`
(all its properties).

Left, in this order:

1. Proofs: `EndsAgree` of `LlcpSocket`; `AllFound` of `DiscLoop`.
2. `LlcpSocket`: service discovery (SNL), options, CloseAll. `NfcDep`: activation, parameter selection and release, NAD
   and DID, the timeout extension. `IsoDep`: the buffered modes, an overflow in the first block.
3. The RC663's Exchange against its chip; `CidManager` and the cyclic FIFO as pure algorithms against reference
   definitions.

## 7. Not modelled

The RC663's Exchange and commands, the callback HAL and the bus drivers; LLCP's connectionless transport, its utilities
and public interface (dispatch without state); the CID manager and the key store (tables without concurrency); the command
encoders of tags and cards, tools and log: sequential I/O
or encodings with no protocol state. OSAL appears as the scheduler of timers and
callbacks. `PROJECT.json` lists every component with its status and every hazard
with the properties that cover it, or why none does.
