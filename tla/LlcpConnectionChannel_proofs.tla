-------------------- MODULE LlcpConnectionChannel_proofs --------------------
(***************************************************************************)
(* The transport implements the channel of LlcpChannel when one socket of  *)
(* the table is connected, whatever the two receive windows, the number    *)
(* of SDUs and the numbers the connection starts from.                     *)
(*                                                                         *)
(* The invariant says of each end how its counters, its numbers and its    *)
(* queued frame go together (Sender), that its receive window holds the    *)
(* SDUs after those handed over (Receiver), and of the two ends that the   *)
(* next SDU one expects is the next one that can arrive from the other.    *)
(* A call inside a handler Keeps what the channel sees; an action Moves it.*)
(***************************************************************************)
EXTENDS LlcpConnection_proofs, SequenceTheorems

(* The connected socket. *)
only == CHOOSE s \in Used : TRUE
OneSocket == only \in Sockets /\ Used = {only}

Own(x) == x.sock[only]
Open(x) == Own(x).state = "Connected"

(* I frames that are queued, on the wire, and not yet with the link. *)
Held(x) == IF Queued(x) /\ x.slot.type = "I" THEN 1 ELSE 0
OnWire(f) == IF f.type = "I" THEN 1 ELSE 0
Pending(k) == IF k.sendPending THEN 1 ELSE 0
Outstanding(k) == IF k.sendCb THEN 1 ELSE 0

(* The counters of a socket, its VS and the I frame f that waits (h = 1). *)
Sender(k, h, f) ==
  /\ k.confirmed <= k.transmitted
  /\ k.transmitted + h <= k.accepted
  /\ h = 1 => /\ f.s = only /\ f.sdu = k.transmitted + 1
              /\ f.ns = (Base + k.transmitted) % 16
  /\ k.state = "Connected" =>
       /\ k.accepted = k.transmitted + h + Pending(k)
       /\ k.confirmed = k.accepted - Outstanding(k)
       /\ k.sendPending => k.sendCb
       /\ k.VS = (Base + k.transmitted + h) % 16

(* An I frame on the wire is the last one transmitted. *)
Carries(k, f) ==
  f.type = "I" => /\ f.s = only /\ k.transmitted > 0 /\ f.sdu = k.transmitted
                  /\ f.ns = (Base + k.transmitted - 1) % 16

(* The entry of the receive window for the position i. *)
Entry(w, i) == i % w

(* The receive window holds the SDUs after the n handed over, in order,    *)
(* and is empty behind them; what was acknowledged last bounds how far it  *)
(* can be filled.                                                          *)
Stored(w, k, n) ==
  \A i \in k.rd .. (k.rd + w - 1) :
    k.ring[Entry(w, i)] = IF i < k.wr THEN n + 1 + (i - k.rd) ELSE 0

Acked(w, k, n) ==
  \E a \in 0 .. n : k.VRA = (Base + a) % 16 /\ n + k.wr - k.rd <= a + w

Receiver(w, k) ==
  /\ \A i \in 1 .. Len(k.received) : k.received[i] = i
  /\ k.rd <= k.wr
  /\ k.state = "Connected" =>
       /\ k.VR = (Base + Len(k.received)) % 16
       /\ Acked(w, k, Len(k.received))
       /\ Stored(w, k, Len(k.received))

(* No other socket is connected, a device in its turn has no I frame on    *)
(* the wire, and one that has a rejection to send is closed.               *)
Framed(x) ==
  /\ \A s \in Sockets \ {only} : x.sock[s].state = "Default"
  /\ x.state = "SEND" => x.out.type # "I"
  /\ x.frmr # NoFrame => ~Open(x) /\ x.frmr.type = "FRMR"

Orderly(w, x) ==
  /\ Framed(x)
  /\ Sender(Own(x), Held(x), x.slot)
  /\ Carries(Own(x), x.out)
  /\ Receiver(w, Own(x))

(* SDUs that reached the peer, and the last one that reached this end. *)
Arrived(x) == Own(x).transmitted - OnWire(x.out)
Expected(x) == Len(Own(x).received) + Own(x).wr - Own(x).rd

ChannelInv ==
  \A d \in Peer :
    /\ Orderly(RW[d], dev[d])
    /\ Expected(dev[d]) <= Arrived(dev[Other(d)])
    /\ Open(dev[d]) => Expected(dev[d]) = Arrived(dev[Other(d)])

(* A call the channel does not see, but for a frame put on the wire. *)
Keeps(x, y) ==
  /\ Own(y).accepted = Own(x).accepted
  /\ Own(y).confirmed = Own(x).confirmed
  /\ Own(y).received = Own(x).received
  /\ Own(x).transmitted <= Own(y).transmitted
  /\ Arrived(y) = Arrived(x)
  /\ Expected(y) <= Expected(x)
  /\ Open(y) => Open(x) /\ Expected(y) = Expected(x)

(* An action of the device at one end, when n SDUs arrived. *)
Moves(n, x, y) ==
  /\ \/ Own(y).accepted = Own(x).accepted
     \/ /\ Open(x) /\ Own(y).accepted = Own(x).accepted + 1
        /\ Own(y).confirmed = Own(x).accepted
  /\ Own(x).transmitted <= Own(y).transmitted
  /\ Own(x).confirmed <= Own(y).confirmed
  /\ Own(y).confirmed # Own(x).confirmed => Open(x)
  /\ Len(Own(x).received) <= Len(Own(y).received)
  /\ Own(y).received # Own(x).received => Open(x)
  /\ Arrived(y) = Arrived(x)
  /\ Expected(y) <= Expected(x) + n
  /\ Open(y) => Open(x) /\ Expected(y) = Expected(x) + n

(* Send, as the channel sees it. *)
Sent(x, y) ==
  /\ Open(x) /\ Open(y)
  /\ Own(y).accepted = Own(x).accepted + 1
  /\ Own(y).confirmed = Own(x).confirmed
  /\ Own(x).confirmed = Own(x).accepted
  /\ Own(y).received = Own(x).received
  /\ Own(x).transmitted <= Own(y).transmitted
  /\ Arrived(y) = Arrived(x)
  /\ Expected(y) = Expected(x)

-----------------------------------------------------------------------------
(* Numbers. *)

(* The counters of a socket are numbers. *)
LEMMA CountsTyped ==
  ASSUME NEW w, NEW k \in Socket(w)
  PROVE  /\ k.accepted \in Nat /\ k.confirmed \in Nat /\ k.transmitted \in Nat
         /\ k.received \in Seq(Nat) /\ Len(k.received) \in Nat
         /\ k.rd \in Nat /\ k.wr \in Nat
         /\ k.VS \in 0 .. 15 /\ k.VR \in 0 .. 15 /\ k.VRA \in 0 .. 15
         /\ k.sendPending \in BOOLEAN /\ k.sendCb \in BOOLEAN
         /\ k.state \in {"Connected", "Default"}
<1>1. k.received \in Seq(Nat)
  BY DEF Socket
<1>2. Len(k.received) \in Nat
  BY <1>1
<1> QED BY <1>1, <1>2 DEF Socket

(* So are those of the connected socket, and what is derived from them. *)
LEMMA DeviceCounts ==
  ASSUME OneSocket, NEW w, NEW x \in Device(w)
  PROVE  /\ Own(x) \in Socket(w)
         /\ Own(x).accepted \in Nat /\ Own(x).confirmed \in Nat
         /\ Own(x).transmitted \in Nat /\ Len(Own(x).received) \in Nat
         /\ Arrived(x) \in Int /\ Expected(x) \in Int
         /\ Held(x) \in {0, 1}
<1>1. Own(x) \in Socket(w)
  BY SocketTyped DEF Own, OneSocket
<1>2. Arrived(x) \in Int /\ Expected(x) \in Int /\ Held(x) \in {0, 1}
  BY <1>1, CountsTyped DEF Arrived, Expected, OnWire, Held
<1> QED BY <1>1, <1>2, CountsTyped

(* The sequence numbers count modulo 16 from any start. *)
LEMMA NumbersFollow ==
  ASSUME NEW n \in Nat, NEW m \in Nat
  PROVE  /\ (((Base + n) % 16) + m) % 16 = (Base + n + m) % 16
         /\ (Base + n) % 16 \in 0 .. 15
<1>1. Base \in Nat
  BY SduAssumption
<1>2. ASSUME NEW b \in Nat PROVE ((b % 16) + m) % 16 = (b + m) % 16 /\ b % 16 \in 0 .. 15
  BY SMT
<1> QED BY <1>1, <1>2

(* The test of N(S) accepts the next number exactly when the window has *)
(* room, although it sees the numbers modulo 16 only.                   *)
LEMMA WindowTest ==
  ASSUME NEW n \in Nat, NEW a \in Nat, NEW w \in 1 .. 15, a <= n, n - a <= w
  PROVE  (((Base + n) % 16) - ((Base + a) % 16)) % 16 < w <=> n - a < w
<1>1. Base \in Nat
  BY SduAssumption
<1>2. ASSUME NEW b \in Nat, NEW c \in Nat, c <= b, b - c <= 15
      PROVE  ((b % 16) - (c % 16)) % 16 = b - c
  BY <1>2, SMT
<1>3. (((Base + n) % 16) - ((Base + a) % 16)) % 16 = n - a
  BY <1>1, <1>2
<1> QED BY <1>3

(* Positions of the receive window less than its size apart are different *)
(* entries, and those its size apart are the same.                        *)
LEMMA RingEntries ==
  ASSUME NEW w \in 1 .. 15, NEW i \in Nat, NEW j \in Nat
  PROVE  /\ Entry(w, i) \in 0 .. (w - 1)
         /\ Entry(w, i + w) = Entry(w, i)
         /\ i <= j /\ j < i + w /\ Entry(w, i) = Entry(w, j) => i = j
<1>1. CASE w = 1 BY <1>1 DEF Entry
<1>2. CASE w = 2 BY <1>2 DEF Entry
<1>3. CASE w = 3 BY <1>3 DEF Entry
<1>4. CASE w = 4 BY <1>4 DEF Entry
<1>5. CASE w = 5 BY <1>5 DEF Entry
<1>6. CASE w = 6 BY <1>6 DEF Entry
<1>7. CASE w = 7 BY <1>7 DEF Entry
<1>8. CASE w = 8 BY <1>8 DEF Entry
<1>9. CASE w = 9 BY <1>9 DEF Entry
<1>10. CASE w = 10 BY <1>10 DEF Entry
<1>11. CASE w = 11 BY <1>11 DEF Entry
<1>12. CASE w = 12 BY <1>12 DEF Entry
<1>13. CASE w = 13 BY <1>13 DEF Entry
<1>14. CASE w = 14 BY <1>14 DEF Entry
<1>15. CASE w = 15 BY <1>15 DEF Entry
<1> QED BY <1>1, <1>2, <1>3, <1>4, <1>5, <1>6, <1>7, <1>8, <1>9, <1>10, <1>11, <1>12,
           <1>13, <1>14, <1>15

-----------------------------------------------------------------------------
(* What the channel sees composes. *)

(* Calls the channel does not see compose. *)
LEMMA KeepsCompose ==
  ASSUME OneSocket, NEW w, NEW x \in Device(w), NEW y \in Device(w), NEW z \in Device(w),
         Keeps(x, y), Keeps(y, z)
  PROVE  Keeps(x, z)
BY DeviceCounts DEF Keeps

(* A call that changes nothing is one of them. *)
LEMMA KeepsItself ==
  ASSUME OneSocket, NEW w, NEW x \in Device(w)
  PROVE  Keeps(x, x)
BY DeviceCounts DEF Keeps

(* An action made of such calls only. *)
LEMMA KeepsMoves ==
  ASSUME OneSocket, NEW w, NEW x \in Device(w), NEW y \in Device(w), Keeps(x, y)
  PROVE  Moves(0, x, y)
BY DeviceCounts, SMTT(20) DEF Keeps, Moves

(* The calls after the callback of an action belong to it. *)
LEMMA MovesCompose ==
  ASSUME OneSocket, NEW w, NEW x \in Device(w), NEW y \in Device(w), NEW z \in Device(w),
         NEW n \in Nat, Moves(n, x, y), Keeps(y, z)
  PROVE  Moves(n, x, z)
BY DeviceCounts, SMTT(20) DEF Keeps, Moves

(* So does the Send an application makes in it. *)
LEMMA MovesThenSent ==
  ASSUME OneSocket, NEW w, NEW x \in Device(w), NEW y \in Device(w), NEW z \in Device(w),
         NEW n \in Nat, Moves(n, x, y), Own(y).accepted = Own(x).accepted, Sent(y, z)
  PROVE  Moves(n, x, z)
BY DeviceCounts DEF Sent, Moves

-----------------------------------------------------------------------------
(* Effects. *)

(* Writing the connected socket changes it only. *)
LEMMA OwnWritten ==
  ASSUME OneSocket, NEW w, NEW x \in Device(w), NEW k
  PROVE  LET y == Update(x, only, k)
         IN /\ Own(y) = k /\ SameLink(x, y)
            /\ \A s \in Sockets \ {only} : y.sock[s] = x.sock[s]
BY UpdateKeepsLink DEF Update, Own, Device, OneSocket

(* The fields of a socket the channel depends on. *)
Agrees(k, l) ==
  /\ l.state = k.state /\ l.VS = k.VS /\ l.VR = k.VR /\ l.VRA = k.VRA
  /\ l.sendPending = k.sendPending /\ l.sendCb = k.sendCb
  /\ l.rd = k.rd /\ l.wr = k.wr /\ l.ring = k.ring
  /\ l.accepted = k.accepted /\ l.confirmed = k.confirmed
  /\ l.transmitted = k.transmitted /\ l.received = k.received

(* The link as far as the channel depends on it. *)
SameFrames(x, y) ==
  /\ y.state = x.state /\ y.slot = x.slot /\ y.sent = x.sent /\ y.out = x.out
  /\ y.frmr = x.frmr
  /\ \A s \in Sockets \ {only} : y.sock[s] = x.sock[s]

(* A call that changes none of these fields is not seen. *)
LEMMA AgreeingKeeps ==
  ASSUME OneSocket, NEW w, NEW x \in Device(w), NEW y, Orderly(w, x),
         SameFrames(x, y), Agrees(Own(x), Own(y))
  PROVE  Orderly(w, y) /\ Keeps(x, y)
<1>1. Held(y) = Held(x) /\ y.slot = x.slot /\ y.out = x.out
  BY DEF SameFrames, Held, Queued
<1>2. Framed(y)
  BY DEF Orderly, Framed, SameFrames, Agrees, Open
<1>3. Sender(Own(y), Held(x), x.slot) /\ Carries(Own(y), x.out)
  BY DEF Orderly, Sender, Carries, Agrees, Pending, Outstanding
<1>4. Receiver(w, Own(y))
  BY DEF Orderly, Receiver, Acked, Stored, Agrees
<1>5. Keeps(x, y)
  BY <1>1, DeviceCounts DEF Keeps, Agrees, Arrived, Expected, Open
<1> QED BY <1>1, <1>2, <1>3, <1>4, <1>5 DEF Orderly

(* So is one that writes the flags of the socket. *)
LEMMA AgreeingUpdate ==
  ASSUME OneSocket, NEW w, NEW x \in Device(w), NEW l, Orderly(w, x), Agrees(Own(x), l)
  PROVE  Orderly(w, Update(x, only, l)) /\ Keeps(x, Update(x, only, l))
BY OwnWritten, AgreeingKeeps DEF SameLink, SameFrames

(* A socket agrees with itself after a flag was written. *)
LEMMA FlagsAgree ==
  ASSUME NEW w, NEW k \in Socket(w), NEW b
  PROVE  /\ Agrees(k, k)
         /\ Agrees(k, [k EXCEPT !.rrPending = b])
         /\ Agrees(k, [k EXCEPT !.rnrPending = b])
         /\ Agrees(k, [k EXCEPT !.recvPending = b])
         /\ Agrees(k, [k EXCEPT !.busy = b])
         /\ Agrees(k, [k EXCEPT !.VSA = b])
         /\ \A c : Agrees(k, [k EXCEPT !.VSA = c, !.remoteBusy = b])
BY DEF Socket, Agrees

(* InternalSend counts a frame of information in its socket. *)
LEMMA InternalSendOwn ==
  ASSUME OneSocket, NEW w, NEW x \in Device(w), NEW f \in Frame, f.type = "I" => f.s = only
  PROVE  LET y == InternalSend(x, f)
         IN /\ f.type = "I" =>
                 Own(y) = [Own(x) EXCEPT !.transmitted = Own(x).transmitted + 1]
            /\ f.type # "I" => Own(y) = Own(x)
            /\ \A s \in Sockets \ {only} : y.sock[s] = x.sock[s]
<1> DEFINE z == [x EXCEPT !.state = "RECV", !.out = f]
           k == [Own(x) EXCEPT !.transmitted = Own(x).transmitted + 1]
<1>1. z \in Device(w) /\ z.sock = x.sock
  BY DEF Device
<1>2. CASE f.type = "I"
  <2>1. InternalSend(x, f) = Update(z, only, k)
    BY <1>1, <1>2 DEF InternalSend, Own
  <2> HIDE DEF z, k
  <2> QED BY <1>1, <1>2, <2>1, OwnWritten DEF k
<1>3. CASE f.type # "I"
  BY <1>1, <1>3 DEF InternalSend, Own
<1> QED BY <1>2, <1>3

(* L_Send in our turn transmits the frame it accepts. *)
LEMMA LlcSendNow ==
  ASSUME OneSocket, NEW w, NEW x \in Device(w), NEW f \in Frame, f.type = "I" => f.s = only,
         x.slot = NoFrame, x.state = "SEND"
  PROVE  LET y == LlcSend(x, f)
         IN /\ y.slot = f /\ y.frmr = x.frmr /\ y.state = "RECV" /\ y.out = f /\ y.sent
            /\ f.type = "I" =>
                 Own(y) = [Own(x) EXCEPT !.transmitted = Own(x).transmitted + 1]
            /\ f.type # "I" => Own(y) = Own(x)
            /\ \A s \in Sockets \ {only} : y.sock[s] = x.sock[s]
<1> DEFINE a == [x EXCEPT !.slot = f, !.sent = TRUE]
           z == InternalSend(a, f)
<1>1. a \in Device(w) /\ a.slot = f /\ a.sent /\ a.frmr = x.frmr /\ a.sock = x.sock
  BY DEF Device
<1>2. LlcSend(x, f) = z
  BY DEF LlcSend, LinkAccepts, OurTurn
<1> HIDE DEF a
<1>3. z.slot = f /\ z.frmr = x.frmr /\ z.state = "RECV" /\ z.out = f /\ z.sent
  BY <1>1, InternalSendLink
<1>4. Own(a) = Own(x)
  BY <1>1 DEF Own
<1>5. /\ f.type = "I" => Own(z) = [Own(x) EXCEPT !.transmitted = Own(x).transmitted + 1]
      /\ f.type # "I" => Own(z) = Own(x)
      /\ \A s \in Sockets \ {only} : z.sock[s] = x.sock[s]
  BY <1>1, <1>4, InternalSendOwn
<1> HIDE DEF z
<1> QED BY <1>2, <1>3, <1>5

(* L_Send in the turn of the peer queues the frame it accepts. *)
LEMMA LlcSendLater ==
  ASSUME NEW w, NEW x \in Device(w), NEW f \in Frame, x.slot = NoFrame, x.state # "SEND"
  PROVE  LET y == LlcSend(x, f)
         IN /\ y.slot = f /\ y.frmr = x.frmr /\ y.state = x.state /\ y.out = x.out /\ ~y.sent
            /\ y.sock = x.sock
<1> DEFINE b == [x EXCEPT !.slot = f, !.sent = FALSE, !.info = @ \/ HasInfo(f)]
<1>1. b.slot = f /\ ~b.sent /\ b.frmr = x.frmr /\ b.sock = x.sock
      /\ b.state = x.state /\ b.out = x.out
  BY DEF Device
<1>2. LlcSend(x, f) = b
  BY DEF LlcSend, LinkAccepts, OurTurn
<1> HIDE DEF b
<1> QED BY <1>1, <1>2

(* A transmitted frame is counted in its socket and nowhere else. *)
LEMMA CountedOnly ==
  ASSUME NEW w, NEW k \in Socket(w), NEW n
  PROVE  LET l == [k EXCEPT !.transmitted = n]
         IN /\ l.transmitted = n
            /\ l.state = k.state /\ l.VS = k.VS /\ l.VR = k.VR /\ l.VRA = k.VRA
            /\ l.sendPending = k.sendPending /\ l.sendCb = k.sendCb
            /\ l.rd = k.rd /\ l.wr = k.wr /\ l.ring = k.ring
            /\ l.accepted = k.accepted /\ l.confirmed = k.confirmed
            /\ l.received = k.received
BY DEF Socket

(* L_Send of a frame without an SDU. *)
LEMMA LlcSendOther ==
  ASSUME OneSocket, NEW w, NEW x \in Device(w), NEW f \in Frame, f.type # "I",
         x.slot = NoFrame, Orderly(w, x)
  PROVE  Orderly(w, LlcSend(x, f)) /\ Keeps(x, LlcSend(x, f))
<1> DEFINE y == LlcSend(x, f)
<1>1. /\ y.slot = f /\ y.frmr = x.frmr /\ Own(y) = Own(x)
      /\ \A s \in Sockets \ {only} : y.sock[s] = x.sock[s]
      /\ \/ x.state = "SEND" /\ y.state = "RECV" /\ y.out = f
         \/ y.state = x.state /\ y.out = x.out
  <2>1. CASE x.state = "SEND"
    BY <2>1, LlcSendNow
  <2>2. CASE x.state # "SEND"
    <3> HIDE DEF y
    <3> QED BY <2>2, LlcSendLater DEF Own, y
  <2> QED BY <2>1, <2>2
<1> HIDE DEF y
<1>2. Held(x) = 0 /\ Held(y) = 0
  BY <1>1 DEF Held, Queued
<1>3. OnWire(y.out) = OnWire(x.out)
  BY <1>1 DEF Orderly, Framed, OnWire
<1>4. Framed(y)
  BY <1>1 DEF Orderly, Framed, Open
<1>5. Sender(Own(y), Held(y), y.slot) /\ Receiver(w, Own(y)) /\ Carries(Own(y), y.out)
  BY <1>1, <1>2 DEF Orderly, Sender, Carries
<1>6. Keeps(x, y)
  BY <1>1, <1>3, DeviceCounts DEF Keeps, Arrived, Expected, Open
<1> QED BY <1>4, <1>5, <1>6 DEF Orderly, y

(* LinkSend of a frame without an SDU, whether it is accepted or not. *)
LEMMA LinkSendOther ==
  ASSUME OneSocket, NEW w, NEW x \in Device(w), NEW f \in Frame, f.type # "I", Orderly(w, x)
  PROVE  Orderly(w, LinkSend(x, f)) /\ Keeps(x, LinkSend(x, f))
<1> DEFINE z == [x EXCEPT !.linkCb = TRUE]
<1>1. CASE x.linkCb \/ ~LinkAccepts(x)
  BY <1>1, KeepsItself DEF LinkSend
<1>2. CASE ~x.linkCb /\ LinkAccepts(x)
  <2>1. z \in Device(w) /\ SameFrames(x, z) /\ Own(z) = Own(x) /\ z.slot = NoFrame
    BY <1>2 DEF Device, SameFrames, Own, LinkAccepts
  <2>2. LinkSend(x, f) = LlcSend(z, f)
    BY <1>2 DEF LinkSend
  <2> HIDE DEF z
  <2>3. Agrees(Own(x), Own(z))
    BY <2>1, DeviceCounts, FlagsAgree
  <2>4. Orderly(w, z) /\ Keeps(x, z)
    BY <2>1, <2>3, AgreeingKeeps
  <2>5. Orderly(w, LlcSend(z, f)) /\ Keeps(z, LlcSend(z, f)) /\ LlcSend(z, f) \in Device(w)
    BY <2>1, <2>4, LlcSendOther, LlcSendTyped
  <2> QED BY <2>1, <2>2, <2>4, <2>5, KeepsCompose
<1> QED BY <1>1, <1>2

(* What was received so far is acknowledged: the window can be filled as *)
(* far as its size from there.                                           *)
LEMMA AcknowledgedNow ==
  ASSUME NEW w \in Nat, NEW k \in Socket(w), Receiver(w, k), NEW l \in Socket(w),
         l.state = k.state, l.VR = k.VR, l.VRA = k.VR,
         l.rd = k.rd, l.wr = k.wr, l.ring = k.ring, l.received = k.received
  PROVE  Receiver(w, l)
<1> DEFINE n == Len(k.received)
<1>1. n \in Nat /\ k.rd \in Nat /\ k.wr \in Nat
  BY CountsTyped
<1>2. CASE k.state = "Connected"
  <2> HIDE DEF n
  <2>1. k.VR = (Base + n) % 16 /\ Acked(w, k, n) /\ Stored(w, k, n)
    BY <1>2 DEF Receiver, n
  <2>2. PICK a \in 0 .. n : n + k.wr - k.rd <= a + w
    BY <2>1 DEF Acked
  <2>3. n \in 0 .. n /\ n + k.wr - k.rd <= n + w
    BY <1>1, <2>2
  <2>4. Acked(w, l, n)
    BY <2>1, <2>3 DEF Acked
  <2>5. Stored(w, l, n)
    BY <2>1 DEF Stored
  <2> QED BY <2>1, <2>4, <2>5 DEF Receiver, n
<1>3. CASE k.state # "Connected"
  BY <1>3 DEF Receiver
<1> QED BY <1>2, <1>3

(* An RR or RNR is sent: it acknowledges what was received. *)
LEMMA SendSupervisoryKeeps ==
  ASSUME OneSocket, NEW w \in Nat, NEW x \in Device(w), NEW type \in {"RR", "RNR"},
         Orderly(w, x)
  PROVE  Orderly(w, SendSupervisory(x, only, type))
         /\ Keeps(x, SendSupervisory(x, only, type))
<1> DEFINE k == Own(x)
           z == [x EXCEPT !.bSendPending = TRUE, !.socketIndex = only]
           l == [k EXCEPT !.VRA = AckNumber(k)]
           y == Update(z, only, l)
           f == Pdu(type, only, 0, AckNumber(k), 0)
<1>1. y \in Device(w) /\ f \in Frame
  BY SendSupervisoryArguments DEF OneSocket, Own
<1>2. f.type # "I"
  BY PduIsFrame
<1>3. z \in Device(w) /\ SameFrames(x, z)
  BY DEF Device, SameFrames, OneSocket
<1>4. k \in Socket(w)
  BY DeviceCounts
<1>5. /\ l.state = k.state /\ l.VS = k.VS /\ l.VR = k.VR /\ l.VRA = k.VR
      /\ l.sendPending = k.sendPending /\ l.sendCb = k.sendCb
      /\ l.rd = k.rd /\ l.wr = k.wr /\ l.ring = k.ring
      /\ l.accepted = k.accepted /\ l.confirmed = k.confirmed
      /\ l.transmitted = k.transmitted /\ l.received = k.received
  <2> HIDE DEF k
  <2> QED BY <1>4 DEF Socket, AckNumber
<1>6. Own(y) = l /\ SameFrames(z, y)
  <2> HIDE DEF z, l
  <2> QED BY <1>3, OwnWritten DEF SameLink, SameFrames
<1>7. SendSupervisory(x, only, type) = LinkSend(y, f)
  BY DEF SendSupervisory, Own
<1> HIDE DEF z, l, y, f
<1>8. SameFrames(x, y)
  BY <1>3, <1>6 DEF SameFrames
<1>9. l \in Socket(w)
  BY <1>1, <1>6, DeviceCounts
<1>10. Orderly(w, y)
  <2>1. Framed(y)
    BY <1>5, <1>6, <1>8 DEF Orderly, Framed, SameFrames, Open
  <2>2. Held(y) = Held(x)
    BY <1>8 DEF SameFrames, Held, Queued
  <2>3. Sender(l, Held(x), x.slot) /\ Carries(l, x.out)
    BY <1>5 DEF Orderly, Sender, Carries, Pending, Outstanding
  <2>4. Receiver(w, l)
    <3>1. Receiver(w, k)
      BY DEF Orderly
    <3> HIDE DEF k
    <3> QED BY <1>4, <1>5, <1>9, <3>1, AcknowledgedNow
  <2> QED BY <1>6, <1>8, <2>1, <2>2, <2>3, <2>4 DEF Orderly, SameFrames
<1>11. Keeps(x, y)
  BY <1>5, <1>6, <1>8, DeviceCounts DEF Keeps, Arrived, Expected, Open, SameFrames
<1>12. Orderly(w, LinkSend(y, f)) /\ Keeps(y, LinkSend(y, f)) /\ LinkSend(y, f) \in Device(w)
  BY <1>1, <1>2, <1>10, LinkSendOther, LinkSendTyped
<1> QED BY <1>1, <1>7, <1>11, <1>12, KeepsCompose

(* performSendReceiveReady and performSendReceiveNotReady: the frame is *)
(* sent, or noted as pending.                                           *)
LEMMA SendReadyKeeps ==
  ASSUME OneSocket, NEW w \in Nat, NEW x \in Device(w), Orderly(w, x)
  PROVE  /\ Orderly(w, SendReceiveReady(x, only)) /\ Keeps(x, SendReceiveReady(x, only))
         /\ Orderly(w, SendReceiveNotReady(x, only))
         /\ Keeps(x, SendReceiveNotReady(x, only))
<1> DEFINE k == Own(x)
<1>1. Agrees(k, [k EXCEPT !.rrPending = TRUE]) /\ Agrees(k, [k EXCEPT !.rnrPending = TRUE])
  BY DeviceCounts, FlagsAgree
<1> QED BY <1>1, AgreeingUpdate, SendSupervisoryKeeps
        DEF SendReceiveReady, SendReceiveNotReady, Own

(* Setting a flag, a callback or an index of a device. *)
LEMMA DeviceFlags ==
  ASSUME OneSocket, NEW w, NEW x \in Device(w), NEW b \in BOOLEAN, Orderly(w, x)
  PROVE  /\ [x EXCEPT !.linkCb = b] \in Device(w)
         /\ Orderly(w, [x EXCEPT !.linkCb = b]) /\ Keeps(x, [x EXCEPT !.linkCb = b])
         /\ [x EXCEPT !.bSendPending = b] \in Device(w)
         /\ Orderly(w, [x EXCEPT !.bSendPending = b])
         /\ Keeps(x, [x EXCEPT !.bSendPending = b])
<1> DEFINE y == [x EXCEPT !.linkCb = b]
           z == [x EXCEPT !.bSendPending = b]
<1>1. /\ y \in Device(w) /\ SameFrames(x, y) /\ Own(y) = Own(x)
      /\ z \in Device(w) /\ SameFrames(x, z) /\ Own(z) = Own(x)
  BY DEF Device, SameFrames, Own
<1>2. Agrees(Own(x), Own(x))
  BY DeviceCounts, FlagsAgree
<1> HIDE DEF y, z
<1> QED BY <1>1, <1>2, AgreeingKeeps DEF y, z

(* A socket whose I frame may be transmitted: its Send is not called back, *)
(* and the I frames before it are transmitted.                             *)
MayTransmit(k) ==
  /\ k.state = "Connected" /\ k.sendCb
  /\ k.accepted = k.transmitted + 1 /\ k.confirmed = k.transmitted
  /\ k.VS = (Base + k.transmitted) % 16

(* The sender's part of a socket after its I frame was sent or queued. *)
LEMMA SenderAfterSend ==
  ASSUME NEW w, NEW k \in Socket(w), NEW l \in Socket(w), NEW f, NEW h \in {0, 1},
         MayTransmit(k), f.s = only, f.sdu = k.accepted, f.ns = k.VS,
         l.state = k.state, ~l.sendPending, l.sendCb = k.sendCb, l.VS = NextNumber(k.VS),
         l.accepted = k.accepted, l.confirmed = k.confirmed,
         l.transmitted = k.transmitted + 1 - h
  PROVE  Sender(l, h, f) /\ (h = 0 => Carries(l, f))
<1>1. /\ k.accepted \in Nat /\ k.confirmed \in Nat /\ k.transmitted \in Nat
      /\ k.sendCb \in BOOLEAN
  BY CountsTyped
<1>2. NextNumber(k.VS) = (Base + k.transmitted + 1) % 16
  BY <1>1, NumbersFollow DEF MayTransmit, NextNumber, Mod
<1>3. Base \in Nat
  BY SduAssumption
<1>4. Pending(l) = 0 /\ Outstanding(l) = 1
  BY DEF Pending, Outstanding, MayTransmit
<1>5. CASE h = 0
  <2>1. l.transmitted = k.transmitted + 1
    BY <1>1, <1>5
  <2>2. Base + l.transmitted + h = Base + k.transmitted + 1
        /\ Base + l.transmitted - 1 = Base + k.transmitted
    BY <1>1, <1>3, <1>5, <2>1
  <2>3. Sender(l, h, f)
    BY <1>1, <1>2, <1>4, <1>5, <2>1, <2>2 DEF Sender, MayTransmit
  <2>4. Carries(l, f)
    BY <1>1, <2>1, <2>2 DEF Carries, MayTransmit
  <2> QED BY <2>3, <2>4
<1>6. CASE h = 1
  <2>1. l.transmitted = k.transmitted
    BY <1>1, <1>6
  <2>2. Sender(l, h, f)
    BY <1>1, <1>2, <1>4, <1>6, <2>1 DEF Sender, MayTransmit
  <2> QED BY <1>6, <2>2
<1> QED BY <1>5, <1>6

(* performSendInfo, called when the transport is free, puts the I frame of *)
(* the socket on the wire or in the link's queue.                          *)
LEMMA PerformSendInfoKeeps ==
  ASSUME OneSocket, NEW w \in Nat, NEW x \in Device(w), LinkOK(x), ~x.bSendPending,
         Framed(x), MayTransmit(Own(x)), Carries(Own(x), x.out), Receiver(w, Own(x))
  PROVE  /\ Orderly(w, PerformSendInfo(x, only)) /\ Keeps(x, PerformSendInfo(x, only))
         /\ ~Own(PerformSendInfo(x, only)).sendPending /\ Open(PerformSendInfo(x, only))
<1> DEFINE k == Own(x)
           z == [x EXCEPT !.bSendPending = TRUE, !.socketIndex = only]
           l == [k EXCEPT !.sendPending = FALSE, !.VRA = AckNumber(k),
                          !.VS = NextNumber(@)]
           y == Update(z, only, l)
           f == Pdu("I", only, k.VS, AckNumber(k), k.accepted)
           v == [y EXCEPT !.linkCb = TRUE]
           r == PerformSendInfo(x, only)
<1>1. y \in Device(w) /\ f \in Frame
  BY PerformSendInfoArguments DEF OneSocket, Own
<1>2. f.type = "I" /\ f.s = only /\ f.ns = k.VS /\ f.sdu = k.accepted
  BY DEF Pdu
<1>3. k \in Socket(w)
  BY DeviceCounts
<1>4. /\ l.state = k.state /\ l.VS = NextNumber(k.VS) /\ l.VR = k.VR /\ l.VRA = k.VR
      /\ ~l.sendPending /\ l.sendCb = k.sendCb
      /\ l.rd = k.rd /\ l.wr = k.wr /\ l.ring = k.ring
      /\ l.accepted = k.accepted /\ l.confirmed = k.confirmed
      /\ l.transmitted = k.transmitted /\ l.received = k.received
  <2> HIDE DEF k
  <2> QED BY <1>3 DEF Socket, AckNumber
<1>5. z \in Device(w) /\ SameFrames(x, z) /\ z.linkCb = x.linkCb
  BY DEF Device, SameFrames, OneSocket
<1>6. Own(y) = l /\ SameFrames(z, y) /\ y.linkCb = z.linkCb
  <2> HIDE DEF z, l
  <2> QED BY <1>5, OwnWritten DEF SameLink, SameFrames
<1>7. r = LinkSend(y, f)
  BY DEF PerformSendInfo, Own
<1> HIDE DEF z, l, y, f, r
<1>8. x.slot = NoFrame /\ ~x.linkCb
  BY DEF LinkOK
<1>9. r = LlcSend(v, f)
  BY <1>5, <1>6, <1>7, <1>8 DEF LinkSend, LinkAccepts, SameFrames
<1>10. /\ v \in Device(w) /\ Own(v) = l /\ v.slot = NoFrame /\ v.state = x.state
       /\ v.out = x.out /\ v.frmr = x.frmr
       /\ \A s \in Sockets \ {only} : v.sock[s] = x.sock[s]
  <2>1. v \in Device(w) /\ SameFrames(y, v) /\ Own(v) = Own(y)
    BY <1>1 DEF Device, SameFrames, Own
  <2> HIDE DEF v
  <2> QED BY <1>5, <1>6, <1>8, <2>1 DEF SameFrames
<1> HIDE DEF v
<1>11. l \in Socket(w) /\ r \in Device(w)
  BY <1>1, <1>6, <1>7, DeviceCounts, LinkSendTyped
<1>12. /\ k.accepted \in Nat /\ k.confirmed \in Nat /\ k.transmitted \in Nat
       /\ Own(r) \in Socket(w)
  BY <1>3, <1>11, CountsTyped, DeviceCounts
<1>13. PICK h \in {0, 1} :
         /\ Held(r) = h /\ r.slot = f /\ r.frmr = x.frmr
         /\ \A s \in Sockets \ {only} : r.sock[s] = x.sock[s]
         /\ Own(r).transmitted = k.transmitted + 1 - h
         /\ \/ h = 0 /\ x.state = "SEND" /\ r.state = "RECV" /\ r.out = f
               /\ Own(r) = [l EXCEPT !.transmitted = k.transmitted + 1]
            \/ h = 1 /\ r.state = x.state /\ r.state # "SEND" /\ r.out = x.out
               /\ Own(r) = l
  <2>1. CASE x.state = "SEND"
    <3>1. /\ r.slot = f /\ r.frmr = x.frmr /\ r.state = "RECV" /\ r.out = f /\ r.sent
          /\ Own(r) = [l EXCEPT !.transmitted = k.transmitted + 1]
          /\ \A s \in Sockets \ {only} : r.sock[s] = x.sock[s]
      BY <1>1, <1>2, <1>4, <1>9, <1>10, <2>1, LlcSendNow
    <3>2. Own(r).transmitted = k.transmitted + 1
      BY <1>11, <3>1, CountedOnly
    <3>3. Held(r) = 0
      BY <3>1 DEF Held, Queued
    <3> HIDE DEF k
    <3> QED BY <1>12, <2>1, <3>1, <3>2, <3>3
  <2>2. CASE x.state # "SEND"
    <3>1. /\ r.slot = f /\ r.frmr = x.frmr /\ r.state = x.state /\ r.out = x.out /\ ~r.sent
          /\ r.sock = v.sock
      BY <1>1, <1>9, <1>10, <2>2, LlcSendLater
    <3>2. Own(r) = l
      BY <1>10, <3>1 DEF Own
    <3>3. Held(r) = 1
      BY <1>2, <3>1 DEF Held, Queued, NoFrame, Pdu
    <3> HIDE DEF k
    <3> QED BY <1>4, <1>10, <1>12, <2>2, <3>1, <3>2, <3>3
  <2> QED BY <2>1, <2>2
<1> HIDE DEF k
<1>14. /\ Own(r).state = k.state /\ Own(r).VS = NextNumber(k.VS) /\ Own(r).VR = k.VR
       /\ Own(r).VRA = k.VR /\ ~Own(r).sendPending /\ Own(r).sendCb = k.sendCb
       /\ Own(r).rd = k.rd /\ Own(r).wr = k.wr /\ Own(r).ring = k.ring
       /\ Own(r).accepted = k.accepted /\ Own(r).confirmed = k.confirmed
       /\ Own(r).received = k.received
  <2>1. CASE h = 0
    <3> DEFINE q == [l EXCEPT !.transmitted = k.transmitted + 1]
    <3>1. /\ q.state = l.state /\ q.VS = l.VS /\ q.VR = l.VR /\ q.VRA = l.VRA
          /\ q.sendPending = l.sendPending /\ q.sendCb = l.sendCb
          /\ q.rd = l.rd /\ q.wr = l.wr /\ q.ring = l.ring
          /\ q.accepted = l.accepted /\ q.confirmed = l.confirmed
          /\ q.received = l.received
      BY <1>11, CountedOnly
    <3>2. Own(r) = q
      BY <1>13, <2>1
    <3> HIDE DEF q
    <3> QED BY <1>4, <3>1, <3>2
  <2>2. CASE h = 1
    BY <1>4, <1>13, <2>2
  <2> QED BY <2>1, <2>2
<1>15. Sender(Own(r), Held(r), r.slot) /\ (h = 0 => Carries(Own(r), f))
  BY <1>2, <1>3, <1>12, <1>13, <1>14, SenderAfterSend DEF k
<1>16. Carries(Own(r), r.out)
  <2>1. CASE h = 0
    BY <1>13, <1>15, <2>1
  <2>2. CASE h = 1
    BY <1>12, <1>13, <2>2 DEF Carries, k
  <2> QED BY <2>1, <2>2
<1>17. Receiver(w, Own(r))
  BY <1>3, <1>12, <1>14, AcknowledgedNow DEF k
<1>18. Framed(r)
  BY <1>13, <1>14 DEF Framed, Open, k
<1>19. Arrived(r) = Arrived(x)
  <2>1. CASE h = 0
    BY <1>2, <1>12, <1>13, <2>1 DEF Arrived, OnWire, Framed, k
  <2>2. CASE h = 1
    BY <1>12, <1>13, <2>2 DEF Arrived, OnWire, k
  <2> QED BY <2>1, <2>2
<1>20. Expected(r) = Expected(x) /\ Expected(x) \in Int /\ Open(r) /\ Open(x)
  BY <1>14, DeviceCounts DEF Expected, Open, MayTransmit, k
<1>21. Keeps(x, r)
  BY <1>12, <1>13, <1>14, <1>19, <1>20 DEF Keeps, k
<1>22. Orderly(w, r)
  BY <1>14, <1>15, <1>16, <1>17, <1>18 DEF Orderly
<1>23. ~Own(r).sendPending
  BY <1>14
<1> QED BY <1>20, <1>21, <1>22, <1>23, Zenon DEF r

(* Send, of an application that may call it: the SDU is taken, and waits in *)
(* the socket or goes to the link.  It waits with the transport free only   *)
(* behind a closed window.                                                  *)
LEMMA SendTakes ==
  ASSUME OneSocket, NEW w \in Nat, NEW d \in Peer, NEW x \in Device(w), LinkOK(x),
         Orderly(w, x), CanSend(d, x, only)
  PROVE  LET y == Send(d, x, only)
         IN /\ Orderly(w, y) /\ Sent(x, y)
            /\ ~x.bSendPending /\ Own(y).sendPending => ~y.bSendPending
<1> DEFINE k == Own(x)
           b == k.sendPending \/ MustWait(d, x, only)
           l == [k EXCEPT !.sendCb = TRUE, !.accepted = @ + 1, !.sendPending = b]
           y == Update(x, only, l)
<1>1. y \in Device(w)
  BY SendArgument DEF OneSocket, Own
<1>2. k \in Socket(w)
  BY DeviceCounts
<1>3. /\ l.state = k.state /\ l.VS = k.VS /\ l.VR = k.VR /\ l.VRA = k.VRA /\ l.sendCb
      /\ l.sendPending = b /\ l.rd = k.rd /\ l.wr = k.wr /\ l.ring = k.ring
      /\ l.accepted = k.accepted + 1 /\ l.confirmed = k.confirmed
      /\ l.transmitted = k.transmitted /\ l.received = k.received
  <2> HIDE DEF k, b
  <2> QED BY <1>2 DEF Socket
<1>4. Own(y) = l /\ SameLink(x, y) /\ \A s \in Sockets \ {only} : y.sock[s] = x.sock[s]
  <2> HIDE DEF l
  <2> QED BY OwnWritten
<1> HIDE DEF l, y
<1>5. k.state = "Connected" /\ ~k.sendCb
  BY DEF CanSend, Own
<1>6. Sender(k, Held(x), x.slot) /\ Carries(k, x.out) /\ Receiver(w, k) /\ Framed(x)
  BY DEF Orderly
<1>7. /\ k.accepted \in Nat /\ k.confirmed \in Nat /\ k.transmitted \in Nat
      /\ Held(x) \in {0, 1} /\ k.sendPending \in BOOLEAN
      /\ Len(k.received) \in Nat /\ k.rd \in Nat /\ k.wr \in Nat
  BY <1>2, CountsTyped, DeviceCounts
<1>8. /\ ~k.sendPending /\ k.accepted = k.transmitted + Held(x)
      /\ k.confirmed = k.accepted /\ k.VS = (Base + k.transmitted + Held(x)) % 16
  <2> HIDE DEF k
  <2> QED BY <1>5, <1>6, <1>7 DEF Sender, Pending, Outstanding
<1>9. Framed(y) /\ Held(y) = Held(x) /\ y.slot = x.slot /\ y.out = x.out
      /\ y.bSendPending = x.bSendPending
  BY <1>3, <1>4, <1>6 DEF Framed, Open, SameLink, Held, Queued
<1> HIDE DEF k, b
<1>10. Receiver(w, l) /\ Carries(l, x.out)
  BY <1>3, <1>6 DEF Receiver, Acked, Stored, Carries
<1>11. /\ Arrived(y) = Arrived(x) /\ Expected(y) = Expected(x) /\ Open(y) /\ Open(x)
  BY <1>3, <1>4, <1>5, <1>9 DEF Arrived, Expected, Open, k
<1>12. CASE MustWait(d, x, only)
  <2>1. Send(d, x, only) = y
    BY <1>12 DEF Send, y, l, k, b, Own
  <2>2. l.sendPending
    BY <1>3, <1>12 DEF b
  <2>3. Sender(l, Held(x), x.slot)
    BY <1>3, <1>6, <1>7, <1>8, <2>2 DEF Sender, Pending, Outstanding
  <2>4. Orderly(w, y)
    BY <1>4, <1>9, <1>10, <2>3 DEF Orderly
  <2>5. Sent(x, y)
    BY <1>3, <1>4, <1>7, <1>8, <1>11 DEF Sent, k
  <2> QED BY <1>9, <2>1, <2>4, <2>5
<1>13. CASE ~MustWait(d, x, only)
  <2> DEFINE r == PerformSendInfo(y, only)
  <2>1. Send(d, x, only) = r
    BY <1>13 DEF Send, y, l, k, b, Own
  <2>2. ~x.bSendPending
    BY <1>13 DEF MustWait
  <2>3. Held(x) = 0
    BY <2>2 DEF LinkOK, Held, Queued
  <2>4. MayTransmit(l)
    <3>1. Base + k.transmitted + Held(x) = Base + k.transmitted
      BY <1>7, <2>3, SduAssumption
    <3> QED BY <1>3, <1>5, <1>7, <1>8, <2>3, <3>1 DEF MayTransmit
  <2>5. LinkOK(y)
    BY <1>4 DEF LinkOK, SameLink
  <2>6. /\ Orderly(w, r) /\ Keeps(y, r) /\ ~Own(r).sendPending /\ Open(r)
    BY <1>1, <1>4, <1>9, <1>10, <2>2, <2>4, <2>5, PerformSendInfoKeeps
  <2> HIDE DEF r
  <2>7. Sent(x, r)
    BY <1>3, <1>4, <1>7, <1>8, <1>11, <2>6 DEF Sent, Keeps, k
  <2> QED BY <2>1, <2>6, <2>7
<1> QED BY <1>12, <1>13

(* What an application does in a callback. *)
LEMMA ReactTakes ==
  ASSUME OneSocket, NEW w \in Nat, NEW d \in Peer, NEW x \in Device(w), LinkOK(x),
         Orderly(w, x), NEW react \in Reaction, CanReact(d, x, only, react)
  PROVE  LET y == React(d, x, only, react)
         IN /\ Orderly(w, y) /\ (Keeps(x, y) \/ Sent(x, y))
            /\ Open(x) => Open(y)
            /\ ~x.bSendPending /\ Own(y).sendPending => ~y.bSendPending
<1> DEFINE l == [x.sock[only] EXCEPT !.recvPending = TRUE]
           z == AwaitSdu(x, only)
<1>1. CASE react = "none"
  BY <1>1, KeepsItself DEF React
<1>2. CASE react = "recv"
  <2>1. Agrees(Own(x), l)
    BY DeviceCounts, FlagsAgree DEF Own
  <2> HIDE DEF l
  <2>2. Orderly(w, z) /\ Keeps(x, z) /\ SameLink(x, z) /\ (Open(x) => Open(z))
    BY <2>1, AgreeingUpdate, OwnWritten DEF AwaitSdu, Open, Agrees, l
  <2>3. React(d, x, only, react) = z
    BY <1>2 DEF React
  <2> HIDE DEF z
  <2> QED BY <2>2, <2>3 DEF SameLink
<1>3. CASE react \in {"send", "reply"}
  <2>1. React(d, x, only, react) = Send(d, x, only) /\ CanSend(d, x, only)
    BY <1>3 DEF React, CanReact
  <2> QED BY <2>1, SendTakes DEF Sent
<1> QED BY <1>1, <1>2, <1>3 DEF Reaction

(* HandlePendingSend puts a queued frame on the wire in our turn. *)
LEMMA HandlePendingSendKeeps ==
  ASSUME OneSocket, NEW w, NEW x \in Device(w), Orderly(w, x), x.state = "SEND"
  PROVE  Orderly(w, HandlePendingSend(x)) /\ Keeps(x, HandlePendingSend(x))
<1> DEFINE k == Own(x)
           y == [x EXCEPT !.sent = TRUE]
           f == [x.slot EXCEPT !.extra = x.info /\ ~HasInfo(x.slot)]
           r == InternalSend(y, f)
           q == [k EXCEPT !.transmitted = k.transmitted + 1]
<1>1. CASE ~Queued(x)
  BY <1>1, KeepsItself DEF HandlePendingSend
<1>2. CASE Queued(x)
  <2>1. /\ y \in Device(w) /\ y.slot = x.slot /\ y.sent /\ y.frmr = x.frmr /\ Own(y) = k
        /\ y.sock = x.sock
    BY DEF Device, Own
  <2>2. x.slot \in Frame /\ x.info \in BOOLEAN
    BY DEF Device
  <2>3. f \in Frame /\ f.type = x.slot.type /\ f.s = x.slot.s /\ f.sdu = x.slot.sdu
        /\ f.ns = x.slot.ns
    BY <2>2 DEF Frame, HasInfo
  <2>4. HandlePendingSend(x) = r
    BY <1>2 DEF HandlePendingSend
  <2>5. Sender(k, Held(x), x.slot) /\ Receiver(w, k) /\ Framed(x)
    BY DEF Orderly
  <2>6. /\ k \in Socket(w) /\ k.accepted \in Nat /\ k.confirmed \in Nat
        /\ k.transmitted \in Nat /\ Len(k.received) \in Nat /\ k.rd \in Nat /\ k.wr \in Nat
    BY DeviceCounts, CountsTyped
  <2>7. f.type = "I" => f.s = only /\ Held(x) = 1
    BY <1>2, <2>3, <2>5 DEF Sender, Held
  <2> HIDE DEF y, f
  <2>8. /\ r.slot = x.slot /\ r.sent /\ r.frmr = x.frmr /\ r.state = "RECV" /\ r.out = f
        /\ r \in Device(w)
    BY <2>1, <2>3, InternalSendLink, InternalSendTyped
  <2>9. /\ f.type = "I" => Own(r) = q
        /\ f.type # "I" => Own(r) = k
        /\ \A s \in Sockets \ {only} : r.sock[s] = x.sock[s]
    BY <2>1, <2>3, <2>7, InternalSendOwn
  <2>10. Held(r) = 0
    BY <2>8 DEF Held, Queued
  <2> HIDE DEF r
  <2>11. CASE f.type = "I"
    <3>1. /\ q.transmitted = k.transmitted + 1
          /\ q.state = k.state /\ q.VS = k.VS /\ q.VR = k.VR /\ q.VRA = k.VRA
          /\ q.sendPending = k.sendPending /\ q.sendCb = k.sendCb
          /\ q.rd = k.rd /\ q.wr = k.wr /\ q.ring = k.ring
          /\ q.accepted = k.accepted /\ q.confirmed = k.confirmed
          /\ q.received = k.received
      <4> HIDE DEF k
      <4> QED BY <2>6, CountedOnly
    <3> HIDE DEF q
    <3>2. Own(r) = q /\ Held(x) = 1 /\ Base \in Nat
      BY <2>7, <2>9, <2>11, SduAssumption
    <3>3. /\ Base + q.transmitted + 0 = Base + k.transmitted + 1
          /\ Base + q.transmitted - 1 = Base + k.transmitted
          /\ k.transmitted + 1 + 0 = q.transmitted
      <4> HIDE DEF k
      <4>1. PICK b \in Nat, m \in Nat : b = Base /\ m = k.transmitted
        BY <2>6, <3>2
      <4>2. b + (m + 1) + 0 = b + m + 1 /\ b + (m + 1) - 1 = b + m /\ m + 1 + 0 = m + 1
        OBVIOUS
      <4> QED BY <3>1, <4>1, <4>2, Zenon
    <3> HIDE DEF k
    <3>4. Sender(q, 0, r.slot)
      <4>1. Sender(k, 1, x.slot)
        BY <2>5, <3>2
      <4>2. Pending(q) = Pending(k) /\ Outstanding(q) = Outstanding(k)
        BY <3>1 DEF Pending, Outstanding
      <4>3. q.confirmed <= q.transmitted /\ q.transmitted + 0 <= q.accepted
        BY <2>6, <3>1, <4>1 DEF Sender
      <4>4. ASSUME q.state = "Connected"
            PROVE  /\ q.accepted = q.transmitted + 0 + Pending(q)
                   /\ q.confirmed = q.accepted - Outstanding(q)
                   /\ q.sendPending => q.sendCb
                   /\ q.VS = (Base + q.transmitted + 0) % 16
        <5>1. /\ k.accepted = k.transmitted + 1 + Pending(k)
              /\ k.confirmed = k.accepted - Outstanding(k)
              /\ k.sendPending => k.sendCb
              /\ k.VS = (Base + k.transmitted + 1) % 16
          BY <3>1, <4>1, <4>4 DEF Sender
        <5>2. Base + q.transmitted + 0 = Base + k.transmitted + 1
          BY <3>3
        <5>3. q.transmitted + 0 = k.transmitted + 1
          BY <2>6, <3>1
        <5> QED BY <3>1, <4>2, <5>1, <5>2, <5>3
      <4> QED BY <4>3, <4>4 DEF Sender
    <3>5. Carries(q, f)
      BY <2>3, <2>5, <2>6, <3>1, <3>2, <3>3 DEF Sender, Carries
    <3>6. Receiver(w, q)
      BY <2>5, <3>1 DEF Receiver, Acked, Stored
    <3>7. Framed(r)
      BY <2>5, <2>8, <2>9, <3>1, <3>2 DEF Framed, Open, k
    <3>8. Keeps(x, r)
      <4>1. OnWire(x.out) = 0 /\ OnWire(r.out) = 1
        BY <2>5, <2>8, <2>11 DEF Framed, OnWire
      <4> QED BY <2>6, <3>1, <3>2, <4>1 DEF Keeps, Arrived, Expected, Open, k
    <3> QED BY <2>4, <2>8, <2>10, <3>2, <3>4, <3>5, <3>6, <3>7, <3>8 DEF Orderly
  <2>12. CASE f.type # "I"
    <3>1. Held(x) = 0 /\ Own(r) = k
      BY <2>3, <2>9, <2>12 DEF Held
    <3>2. OnWire(x.out) = 0 /\ OnWire(r.out) = 0
      BY <2>5, <2>8, <2>12 DEF Framed, OnWire
    <3>3. Sender(Own(r), Held(r), r.slot) /\ Carries(Own(r), r.out) /\ Receiver(w, Own(r))
      BY <2>5, <2>8, <2>10, <2>12, <3>1 DEF Carries
    <3>4. Framed(r)
      BY <2>5, <2>8, <2>9, <3>1 DEF Framed, Open
    <3>5. Keeps(x, r)
      BY <2>6, <3>1, <3>2 DEF Keeps, Arrived, Expected, Open
    <3> QED BY <2>4, <3>3, <3>4, <3>5 DEF Orderly
  <2> QED BY <2>11, <2>12
<1> QED BY <1>1, <1>2

-----------------------------------------------------------------------------
(* Completion of a frame. *)

(* A socket with an I frame pending may transmit it once the link is free. *)
LEMMA PendingMayTransmit ==
  ASSUME OneSocket, NEW w, NEW x \in Device(w), LinkOK(x), Orderly(w, x),
         Open(x), Own(x).sendPending, ~x.bSendPending
  PROVE  MayTransmit(Own(x))
<1> DEFINE k == Own(x)
<1>1. Held(x) = 0
  BY DEF LinkOK, Held, Queued
<1>2. /\ k.accepted \in Nat /\ k.confirmed \in Nat /\ k.transmitted \in Nat /\ Base \in Nat
  BY DeviceCounts, SduAssumption
<1>3. Sender(k, 0, x.slot) /\ k.state = "Connected" /\ k.sendPending
  BY <1>1 DEF Orderly, Open
<1> HIDE DEF k
<1>4. Base + k.transmitted + 0 = Base + k.transmitted
  BY <1>2
<1>5. MayTransmit(k)
  BY <1>2, <1>3, <1>4 DEF Sender, Pending, Outstanding, MayTransmit
<1> QED BY <1>5 DEF k

(* So performSendInfo keeps what the channel sees. *)
LEMMA PendingSent ==
  ASSUME OneSocket, NEW w \in Nat, NEW x \in Device(w), LinkOK(x), Orderly(w, x),
         Open(x), Own(x).sendPending, ~x.bSendPending
  PROVE  Orderly(w, PerformSendInfo(x, only)) /\ Keeps(x, PerformSendInfo(x, only))
BY PendingMayTransmit, PerformSendInfoKeeps DEF Orderly

(* HandlePendingOperations of the socket, with the transport free. *)
LEMMA HandlePendingOperationsKeeps ==
  ASSUME OneSocket, NEW w \in Nat, NEW x \in Device(w), LinkOK(x), Orderly(w, x),
         Open(x), Own(x).sendPending => ~x.bSendPending
  PROVE  /\ Orderly(w, HandlePendingOperations(x, only))
         /\ Keeps(x, HandlePendingOperations(x, only))
<1> DEFINE k == Own(x)
           y == Update(x, only, [k EXCEPT !.rrPending = FALSE])
           z == Update(x, only, [k EXCEPT !.rnrPending = FALSE])
<1>1. y \in Device(w) /\ z \in Device(w)
  BY SocketTyped, FieldsTyped, SocketUpdated DEF Own, OneSocket
<1>2. /\ Agrees(k, [k EXCEPT !.rrPending = FALSE])
      /\ Agrees(k, [k EXCEPT !.rnrPending = FALSE])
  BY DeviceCounts, FlagsAgree
<1>3. Orderly(w, y) /\ Keeps(x, y) /\ Orderly(w, z) /\ Keeps(x, z)
  BY <1>2, AgreeingUpdate
<1>4. CASE k.sendPending
  BY <1>4, PendingSent DEF HandlePendingOperations, Own
<1>5. CASE ~k.sendPending
  <2>1. HandlePendingOperations(x, only) \in {SendReceiveReady(y, only),
                                              SendReceiveNotReady(z, only)}
    BY <1>5 DEF HandlePendingOperations, Own
  <2> HIDE DEF y, z
  <2>2. /\ Orderly(w, SendReceiveReady(y, only)) /\ Keeps(y, SendReceiveReady(y, only))
        /\ SendReceiveReady(y, only) \in Device(w)
        /\ Orderly(w, SendReceiveNotReady(z, only))
        /\ Keeps(z, SendReceiveNotReady(z, only))
        /\ SendReceiveNotReady(z, only) \in Device(w)
    BY <1>1, <1>3, SendReadyKeeps, SendReceiveReadyTyped, SendReceiveNotReadyTyped
       DEF OneSocket
  <2>3. Keeps(x, SendReceiveReady(y, only)) /\ Keeps(x, SendReceiveNotReady(z, only))
    BY <1>1, <1>3, <2>2, KeepsCompose
  <2> QED BY <2>1, <2>2, <2>3
<1> QED BY <1>4, <1>5, ZenonT(40)

(* The loop of Send_CB serves the socket or none. *)
LEMMA PollSocketsKeeps ==
  ASSUME OneSocket, NEW w \in Nat, NEW d \in Peer, NEW x \in Device(w), NEW rejected,
         LinkOK(x), Orderly(w, x), Open(x) /\ Own(x).sendPending => ~x.bSendPending
  PROVE  /\ Orderly(w, PollSockets(d, x, rejected))
         /\ Keeps(x, PollSockets(d, x, rejected))
<1>1. \A s \in Sockets : x.sock[s].state = "Connected" => s = only
  BY DEF Orderly, Framed
<1>2. CASE PollSockets(d, x, rejected) = x
  BY <1>2, KeepsItself
<1>3. CASE \E s \in Sockets : /\ x.sock[s].state = "Connected"
                              /\ PollSockets(d, x, rejected) = HandlePendingOperations(x, s)
  <2>1. PollSockets(d, x, rejected) = HandlePendingOperations(x, only) /\ Open(x)
    BY <1>1, <1>3 DEF Open, Own
  <2> QED BY <2>1, HandlePendingOperationsKeeps
<1> QED BY <1>2, <1>3, PollSocketsHandlesOne

(* The callback of a Send confirms the SDU that was transmitted last. *)
LEMMA CallbackConfirms ==
  ASSUME OneSocket, NEW w, NEW x \in Device(w), Orderly(w, x),
         Open(x) => ~x.bSendPending /\ Held(x) = 0
  PROVE  LET y == SendLlcp_CB(x)
         IN /\ Orderly(w, y) /\ Moves(0, x, y) /\ Own(y).accepted = Own(x).accepted
            /\ Open(y) => ~y.bSendPending
<1> DEFINE v == [x EXCEPT !.linkCb = FALSE]
           k == Own(x)
           l == [k EXCEPT !.sendCb = FALSE, !.confirmed = @ + 1]
           y == Update(v, only, l)
<1>1. /\ v \in Device(w) /\ Orderly(w, v) /\ Keeps(x, v)
  BY DeviceFlags
<1>2. v.sock = x.sock /\ v.bSendPending = x.bSendPending /\ SameFrames(x, v) /\ Own(v) = k
  BY DEF Device, SameFrames, Own
<1>3. CASE ~CallsBack(x)
  <2>1. SendLlcp_CB(x) = v
    BY <1>3 DEF SendLlcp_CB
  <2> HIDE DEF v
  <2>2. Moves(0, x, v)
    BY <1>1, KeepsMoves
  <2> QED BY <1>1, <1>2, <2>1, <2>2 DEF Keeps, Open
<1>4. CASE CallsBack(x)
  <2>1. x.socketIndex = only
    <3>1. x.socketIndex \in Sockets
      BY DEF Device
    <3> QED BY <1>4, <3>1 DEF CallsBack, Orderly, Framed
  <2>2. SendLlcp_CB(x) = y
    BY <1>2, <1>4, <2>1 DEF SendLlcp_CB, Own
  <2>3. /\ k \in Socket(w) /\ k.accepted \in Nat /\ k.confirmed \in Nat
        /\ k.transmitted \in Nat /\ Len(k.received) \in Nat /\ k.rd \in Nat /\ k.wr \in Nat
        /\ Base \in Nat
    BY DeviceCounts, CountsTyped, SduAssumption
  <2>4. k.state = "Connected" /\ ~k.sendPending /\ k.sendCb
    BY <1>4, <2>1 DEF CallsBack, Own
  <2>5. ~x.bSendPending /\ Held(x) = 0
    BY <2>4 DEF Open
  <2>6. Sender(k, 0, x.slot) /\ Carries(k, x.out) /\ Receiver(w, k) /\ Framed(x)
    BY <2>5 DEF Orderly
  <2> HIDE DEF v
  <2>7. Own(y) = l /\ SameLink(v, y) /\ \A s \in Sockets \ {only} : y.sock[s] = v.sock[s]
    <3> HIDE DEF l
    <3> QED BY <1>1, OwnWritten
  <2>8. SameFrames(x, y) /\ y.bSendPending = x.bSendPending
    BY <1>2, <2>7 DEF SameLink, SameFrames
  <2> HIDE DEF y, k
  <2>9. /\ l.state = k.state /\ l.VS = k.VS /\ l.VR = k.VR /\ l.VRA = k.VRA
        /\ l.sendPending = k.sendPending /\ ~l.sendCb
        /\ l.rd = k.rd /\ l.wr = k.wr /\ l.ring = k.ring
        /\ l.accepted = k.accepted /\ l.confirmed = k.confirmed + 1
        /\ l.transmitted = k.transmitted /\ l.received = k.received
    BY <2>3 DEF Socket
  <2> HIDE DEF l
  <2>10. k.transmitted = k.accepted /\ k.confirmed + 1 = k.accepted
    BY <2>3, <2>4, <2>6 DEF Sender, Pending, Outstanding
  <2>11. Sender(l, 0, x.slot)
    BY <2>3, <2>4, <2>6, <2>9, <2>10 DEF Sender, Pending, Outstanding
  <2>12. Carries(l, x.out) /\ Receiver(w, l)
    BY <2>6, <2>9 DEF Carries, Receiver, Acked, Stored
  <2>13. Framed(y)
    BY <2>6, <2>7, <2>8, <2>9 DEF Framed, Open, SameFrames, k
  <2>14. Held(y) = 0
    BY <2>5, <2>8 DEF Held, Queued, SameFrames
  <2>15. Orderly(w, y)
    BY <2>7, <2>8, <2>11, <2>12, <2>13, <2>14 DEF Orderly, SameFrames
  <2>16. Moves(0, x, y)
    BY <2>3, <2>4, <2>7, <2>8, <2>9 DEF Moves, Arrived, Expected, Open, SameFrames, k
  <2> QED BY <2>2, <2>5, <2>7, <2>8, <2>9, <2>15, <2>16 DEF k
<1> QED BY <1>3, <1>4

(* Send_CB, up to the loop.  An open end sends no rejection here, so the *)
(* transport is free when the application's callback is called.          *)
LEMMA CompleteFrameMoves ==
  ASSUME OneSocket, NEW w, NEW x \in Device(w), Orderly(w, x), x.sent
  PROVE  LET y == CompleteFrame(x)
         IN /\ Orderly(w, y) /\ Moves(0, x, y) /\ Own(y).accepted = Own(x).accepted
            /\ Open(y) => ~y.bSendPending
<1> DEFINE r == [x EXCEPT !.slot = NoFrame, !.sent = FALSE, !.bSendPending = FALSE]
           t == [r EXCEPT !.bSendPending = TRUE, !.frmr = NoFrame]
           u == SendPendingReject(r)
<1>1. /\ r \in Device(w) /\ r.slot = NoFrame /\ ~r.sent /\ ~r.bSendPending
      /\ r.frmr = x.frmr /\ r.state = x.state /\ r.out = x.out /\ r.sock = x.sock
  BY FramesTyped DEF Device
<1> HIDE DEF r
<1>2. Own(r) = Own(x) /\ Held(r) = 0 /\ Held(x) = 0
  BY <1>1 DEF Own, Held, Queued
<1>3. Orderly(w, r)
  <2>1. Framed(r)
    BY <1>1, <1>2 DEF Orderly, Framed, Open
  <2>2. Sender(Own(r), 0, r.slot)
    BY <1>2 DEF Orderly, Sender
  <2> QED BY <1>1, <1>2, <2>1, <2>2 DEF Orderly
<1>4. Keeps(x, r)
  BY <1>1, <1>2, DeviceCounts DEF Keeps, Arrived, Expected, Open
<1>5. /\ u \in Device(w) /\ Orderly(w, u) /\ Keeps(x, u)
      /\ Open(u) => ~u.bSendPending /\ Held(u) = 0
  <2>1. CASE r.frmr = NoFrame
    <3>1. u = r
      BY <2>1 DEF SendPendingReject
    <3> HIDE DEF u
    <3> QED BY <1>1, <1>2, <1>3, <1>4, <3>1
  <2>2. CASE r.frmr # NoFrame
    <3>1. /\ t \in Device(w) /\ t.state = r.state /\ t.out = r.out /\ t.slot = NoFrame
          /\ t.sent = r.sent /\ t.frmr = NoFrame /\ t.sock = r.sock
      BY <1>1, FramesTyped DEF Device
    <3>2. u = LlcSend(t, r.frmr)
      BY <2>2 DEF SendPendingReject
    <3>3. r.frmr \in Frame /\ r.frmr.type = "FRMR" /\ ~Open(r)
      BY <1>1, <1>3, <2>2 DEF Device, Orderly, Framed
    <3> HIDE DEF t, u
    <3>4. Own(t) = Own(r) /\ Held(t) = Held(r) /\ t.slot = r.slot
      BY <1>1, <3>1 DEF Own, Held, Queued
    <3>5. Orderly(w, t)
      BY <1>3, <3>1, <3>4 DEF Orderly, Framed, Open
    <3>6. Keeps(r, t)
      BY <1>1, <3>1, <3>4, DeviceCounts DEF Keeps, Arrived, Expected, Open
    <3>7. Orderly(w, u) /\ Keeps(t, u) /\ u \in Device(w)
      BY <3>1, <3>2, <3>3, <3>5, LlcSendOther, LlcSendTyped
    <3>8. Keeps(r, u)
      BY <1>1, <3>1, <3>6, <3>7, KeepsCompose
    <3>9. Keeps(x, u) /\ ~Open(u)
      BY <1>1, <1>4, <3>3, <3>7, <3>8, KeepsCompose DEF Keeps
    <3> QED BY <3>7, <3>9
  <2> QED BY <2>1, <2>2
<1>6. CompleteFrame(x) = SendLlcp_CB(u)
  BY DEF CompleteFrame, r
<1> HIDE DEF u
<1> DEFINE y == SendLlcp_CB(u)
<1>7. /\ Orderly(w, y) /\ Moves(0, u, y) /\ Own(y).accepted = Own(u).accepted
      /\ Open(y) => ~y.bSendPending
  BY <1>5, CallbackConfirms
<1>8. y \in Device(w)
  BY <1>5, SendLlcp_CBTyped
<1> HIDE DEF y
<1>9. Moves(0, x, y) /\ Own(y).accepted = Own(x).accepted
  BY <1>5, <1>7, <1>8, DeviceCounts DEF Keeps, Moves
<1> QED BY <1>6, <1>7, <1>9 DEF y

-----------------------------------------------------------------------------
(* Handlers of incoming frames. *)

(* A closed end keeps what it transmitted, confirmed and received. *)
LEMMA CloseKeeps ==
  ASSUME OneSocket, NEW w, NEW x \in Device(w), Orderly(w, x)
  PROVE  LET y == Close(x, only)
         IN Orderly(w, y) /\ Keeps(x, y) /\ ~Open(y) /\ SameLink(x, y)
<1> DEFINE k == Own(x)
           l == [k EXCEPT
                   !.state = "Default", !.VS = 0, !.VSA = 0, !.VR = 0, !.VRA = 0,
                   !.sendPending = FALSE, !.recvPending = FALSE, !.sendCb = FALSE,
                   !.busy = FALSE, !.remoteBusy = FALSE, !.rd = 0, !.wr = 0]
           y == Update(x, only, l)
<1>1. /\ k \in Socket(w) /\ k.accepted \in Nat /\ k.confirmed \in Nat
      /\ k.transmitted \in Nat /\ Len(k.received) \in Nat /\ k.rd \in Nat /\ k.wr \in Nat
  BY DeviceCounts, CountsTyped
<1>2. Close(x, only) = y
  BY DEF Close, Own
<1>3. Sender(k, Held(x), x.slot) /\ Carries(k, x.out) /\ Receiver(w, k) /\ Framed(x)
  BY DEF Orderly
<1> HIDE DEF k
<1>4. /\ l.state = "Default" /\ l.rd = 0 /\ l.wr = 0
      /\ l.accepted = k.accepted /\ l.confirmed = k.confirmed
      /\ l.transmitted = k.transmitted /\ l.received = k.received
  BY <1>1 DEF Socket
<1> HIDE DEF l
<1>5. Own(y) = l /\ SameLink(x, y) /\ \A s \in Sockets \ {only} : y.sock[s] = x.sock[s]
  BY OwnWritten
<1> HIDE DEF y
<1>6. ~Open(y)
  BY <1>4, <1>5 DEF Open
<1>7. Framed(y) /\ Held(y) = Held(x) /\ y.slot = x.slot /\ y.out = x.out
  BY <1>3, <1>5, <1>6 DEF Framed, SameLink, Held, Queued
<1>8. Sender(l, Held(x), x.slot) /\ Carries(l, x.out) /\ Receiver(w, l)
  BY <1>3, <1>4 DEF Sender, Carries, Receiver
<1>9. k.rd <= k.wr
  BY <1>3 DEF Receiver
<1>10. Keeps(x, y)
  BY <1>1, <1>4, <1>5, <1>6, <1>7, <1>9 DEF Keeps, Arrived, Expected, k
<1> QED BY <1>2, <1>5, <1>6, <1>7, <1>8, <1>10 DEF Orderly

(* A rejection closes the end that sends it. *)
LEMMA SendFrameRejectKeeps ==
  ASSUME OneSocket, NEW w, NEW x \in Device(w), LinkOK(x), Orderly(w, x)
  PROVE  LET y == SendFrameReject(x, only)
         IN Orderly(w, y) /\ Keeps(x, y) /\ ~Open(y)
<1> DEFINE f == Pdu("FRMR", only, 0, 0, 0)
           c == Close(x, only)
           y == RewriteQueuedReject(c, f)
           a == [y EXCEPT !.frmr = f]
           b == [y EXCEPT !.bSendPending = TRUE]
<1>1. /\ c \in Device(w) /\ LinkOK(c) /\ Orderly(w, c) /\ Keeps(x, c) /\ ~Open(c)
  <2>1. c \in Device(w)
    BY CloseTyped DEF OneSocket
  <2>2. Orderly(w, c) /\ Keeps(x, c) /\ ~Open(c) /\ SameLink(x, c)
    BY CloseKeeps
  <2> HIDE DEF c
  <2> QED BY <2>1, <2>2 DEF LinkOK, SameLink
<1>2. f \in Frame /\ f.type = "FRMR" /\ f # NoFrame
  BY FramesTyped, PduIsFrame DEF OneSocket
<1> HIDE DEF c, f
<1>3. /\ y \in Device(w) /\ LinkOK(y) /\ y.state = c.state /\ y.out = c.out /\ y.frmr = c.frmr
      /\ y.sock = c.sock /\ (c.slot = NoFrame => y.slot = NoFrame) /\ Held(y) = Held(c)
      /\ (Held(c) = 1 => y.slot = c.slot)
  <2>1. y \in Device(w)
    BY <1>1, <1>2, RewriteQueuedRejectTyped
  <2>2. LinkOK(y)
    BY <1>1, <1>2, RewriteQueuedRejectLink, LinkStepOK
  <2> DEFINE e == [c EXCEPT !.slot = f]
  <2>3. /\ e.slot = f /\ e.state = c.state /\ e.out = c.out /\ e.frmr = c.frmr
        /\ e.sock = c.sock /\ e.sent = c.sent
    BY <1>1 DEF Device
  <2> HIDE DEF e
  <2>4. CASE Queued(c) /\ c.slot.type = "FRMR"
    <3>1. y = e
      BY <2>4 DEF RewriteQueuedReject, e
    <3>2. Held(c) = 0 /\ Held(e) = 0 /\ c.slot # NoFrame
      BY <1>2, <2>3, <2>4 DEF Held, Queued
    <3> HIDE DEF y
    <3> QED BY <2>1, <2>2, <2>3, <3>1, <3>2
  <2>5. CASE ~(Queued(c) /\ c.slot.type = "FRMR")
    <3>1. y = c
      BY <2>5 DEF RewriteQueuedReject
    <3> HIDE DEF y
    <3> QED BY <2>1, <2>2, <3>1
  <2> QED BY <2>4, <2>5
<1> HIDE DEF y
<1>4. Own(y) = Own(c) /\ ~Open(y) /\ Framed(y)
  BY <1>1, <1>3 DEF Own, Open, Orderly, Framed
<1>5. Sender(Own(y), Held(y), y.slot) /\ Carries(Own(y), y.out) /\ Receiver(w, Own(y))
  BY <1>1, <1>3, <1>4 DEF Orderly, Sender
<1>6. Orderly(w, y)
  BY <1>4, <1>5 DEF Orderly
<1>7. Keeps(x, y)
  <2>1. Keeps(c, y)
    BY <1>1, <1>3, <1>4, DeviceCounts DEF Keeps, Arrived, Expected
  <2> QED BY <1>1, <1>3, <2>1, KeepsCompose
<1>8. CASE y.bSendPending
  <2>1. SendFrameReject(x, only) = a
    BY <1>8 DEF SendFrameReject, y, c, f
  <2>2. /\ a \in Device(w) /\ a.frmr = f /\ a.state = y.state /\ a.out = y.out
        /\ a.slot = y.slot /\ a.sent = y.sent /\ a.sock = y.sock
    BY <1>2, <1>3 DEF Device
  <2> HIDE DEF a
  <2>3. Own(a) = Own(y) /\ Held(a) = Held(y) /\ ~Open(a)
    BY <1>4, <2>2 DEF Own, Held, Queued, Open
  <2>4. Framed(a)
    BY <1>2, <1>4, <2>2, <2>3 DEF Framed
  <2>5. Orderly(w, a)
    BY <1>5, <2>2, <2>3, <2>4 DEF Orderly
  <2>6. Keeps(y, a)
    BY <1>3, <2>2, <2>3, DeviceCounts DEF Keeps, Arrived, Expected
  <2>7. Keeps(x, a)
    BY <1>3, <1>7, <2>2, <2>6, KeepsCompose
  <2> QED BY <2>1, <2>3, <2>5, <2>7
<1>9. CASE ~y.bSendPending
  <2>1. SendFrameReject(x, only) = LlcSend(b, f)
    BY <1>9 DEF SendFrameReject, y, c, f
  <2>2. y.slot = NoFrame
    BY <1>3, <1>9 DEF LinkOK
  <2>3. b \in Device(w) /\ Orderly(w, b) /\ Keeps(y, b)
    BY <1>3, <1>6, DeviceFlags
  <2>4. b.slot = NoFrame
    BY <1>3, <2>2 DEF Device
  <2> HIDE DEF b
  <2> DEFINE u == LlcSend(b, f)
  <2>5. u \in Device(w) /\ Orderly(w, u) /\ Keeps(b, u)
    BY <1>2, <2>3, <2>4, LlcSendTyped, LlcSendOther
  <2> HIDE DEF u
  <2>6. Keeps(y, u)
    BY <1>3, <2>3, <2>5, KeepsCompose
  <2>7. Keeps(x, u) /\ ~Open(u)
    BY <1>3, <1>4, <1>7, <2>5, <2>6, KeepsCompose DEF Keeps
  <2> QED BY <2>1, <2>5, <2>7 DEF u
<1> QED BY <1>8, <1>9

(* The end of Handle_ReceivedIFrame: an I frame or an RR acknowledges. *)
LEMMA AcknowledgeKeeps ==
  ASSUME OneSocket, NEW w \in Nat, NEW d \in Peer, NEW x \in Device(w), NEW replied,
         LinkOK(x), Orderly(w, x), Open(x)
  PROVE  /\ Orderly(w, Acknowledge(d, x, only, replied))
         /\ Keeps(x, Acknowledge(d, x, only, replied))
<1>1. Keeps(x, x)
  BY KeepsItself
<1>2. Own(x).sendPending /\ ~x.bSendPending =>
        Orderly(w, PerformSendInfo(x, only)) /\ Keeps(x, PerformSendInfo(x, only))
  BY PendingSent
<1>3. Orderly(w, SendReceiveReady(x, only)) /\ Keeps(x, SendReceiveReady(x, only))
  BY SendReadyKeeps
<1> QED BY <1>1, <1>2, <1>3 DEF Acknowledge, Own

(* The test of N(S) lets the next SDU in only where the window has room. *)
LEMMA AcceptedHasRoom ==
  ASSUME NEW w \in 1 .. 15, NEW k \in Socket(w), Receiver(w, k),
         k.state = "Connected", NEW n \in Nat, n = Len(k.received) + k.wr - k.rd,
         ValidNs(k, (Base + n) % 16, w)
  PROVE  \E a \in 0 .. Len(k.received) : k.VRA = (Base + a) % 16 /\ n < a + w
<1>1. Len(k.received) \in Nat /\ k.rd \in Nat /\ k.wr \in Nat /\ k.rd <= k.wr
  BY CountsTyped DEF Receiver
<1>2. PICK a \in 0 .. Len(k.received) : k.VRA = (Base + a) % 16 /\ n <= a + w
  BY DEF Receiver, Acked
<1>3. a \in Nat /\ a <= n /\ n - a <= w
  BY <1>1, <1>2
<1>4. (((Base + n) % 16) - ((Base + a) % 16)) % 16 < w
  <2>1. (((Base + n) % 16) - k.VRA) % 16 < w
    BY Zenon DEF ValidNs, Mod
  <2> QED BY <1>2, <2>1
<1>5. n - a < w
  BY <1>3, <1>4, WindowTest
<1> QED BY <1>1, <1>2, <1>3, <1>5

(* One more SDU was handed over: what the window holds follows it. *)
LEMMA DeliverReceives ==
  ASSUME NEW w \in 1 .. 15, NEW k \in Socket(w), Receiver(w, k), k.state = "Connected",
         k.wr = k.rd, NEW l \in Socket(w), l.state = k.state,
         NEW n \in Nat, n = Len(k.received), ValidNs(k, (Base + n) % 16, w),
         l.VR = NextNumber(k.VR), l.VRA = k.VRA, l.rd = k.rd, l.wr = k.wr, l.ring = k.ring,
         l.received = Append(k.received, n + 1)
  PROVE  Receiver(w, l) /\ Len(l.received) = n + 1
<1>1. /\ k.received \in Seq(Nat) /\ k.rd \in Nat /\ k.wr \in Nat /\ Base \in Nat
      /\ k.VR = (Base + n) % 16 /\ Stored(w, k, n)
      /\ \A i \in 1 .. n : k.received[i] = i
  BY CountsTyped, SduAssumption DEF Receiver
<1>2. PICK a \in 0 .. n : k.VRA = (Base + a) % 16 /\ n < a + w
  <2>1. n = Len(k.received) + k.wr - k.rd
    BY <1>1
  <2>2. \E a \in 0 .. Len(k.received) : k.VRA = (Base + a) % 16 /\ n < a + w
    BY <2>1, AcceptedHasRoom, Zenon
  <2> QED BY <2>2, Zenon
<1>3. /\ Len(l.received) = n + 1 /\ l.received[n + 1] = n + 1
      /\ \A i \in 1 .. n : l.received[i] = k.received[i]
  BY <1>1
<1>4. \A i \in 1 .. (n + 1) : l.received[i] = i
  <2>1. \A i \in 1 .. n : l.received[i] = i
    BY <1>1, <1>3
  <2>2. \A i \in 1 .. (n + 1) : i \in 1 .. n \/ i = n + 1
    OBVIOUS
  <2> QED BY <1>3, <2>1, <2>2
<1>5. l.VR = (Base + (n + 1)) % 16
  <2>1. (((Base + n) % 16) + 1) % 16 = (Base + n + 1) % 16
    BY NumbersFollow
  <2>2. Base + n + 1 = Base + (n + 1)
    BY <1>1
  <2> QED BY <1>1, <2>1, <2>2 DEF NextNumber, Mod
<1>6. Acked(w, l, n + 1)
  <2>1. a \in 0 .. (n + 1) /\ n + 1 + l.wr - l.rd <= a + w
    BY <1>1, <1>2
  <2> QED BY <1>2, <2>1 DEF Acked
<1>7. Stored(w, l, n + 1)
  BY <1>1 DEF Stored
<1>8. l.rd <= l.wr
  BY <1>1
<1> QED BY <1>3, <1>4, <1>5, <1>6, <1>7, <1>8 DEF Receiver

(* Handing over the SDU that arrived: it is the next one. *)
LEMMA DeliverMoves ==
  ASSUME OneSocket, NEW w \in 1 .. 15, NEW x \in Device(w), NEW f \in Frame, Orderly(w, x),
         f.s = only, Open(x), Own(x).wr = Own(x).rd, f.sdu = Expected(x) + 1,
         ValidNs(Own(x), (Base + Expected(x)) % 16, w)
  PROVE  LET y == Deliver(x, f)
         IN /\ Orderly(w, y) /\ Moves(1, x, y) /\ Own(y).accepted = Own(x).accepted
            /\ Open(y) /\ SameLink(x, y)
<1> DEFINE k == Own(x)
           l == [k EXCEPT !.VSA = f.nr, !.recvPending = FALSE,
                          !.VR = NextNumber(@), !.received = Append(@, f.sdu)]
           y == Update(x, only, l)
<1>1. PICK n : n = Len(k.received)
  OBVIOUS
<1>2. /\ k \in Socket(w) /\ k.accepted \in Nat /\ k.confirmed \in Nat
      /\ k.transmitted \in Nat /\ n \in Nat /\ k.rd \in Nat /\ k.wr \in Nat
      /\ k.received \in Seq(Nat) /\ Base \in Nat
  BY <1>1, DeviceCounts, CountsTyped, SduAssumption
<1>3. Expected(x) = n /\ f.sdu = n + 1 /\ k.state = "Connected" /\ k.wr = k.rd
  BY <1>1, <1>2 DEF Expected, Open
<1>4. Deliver(x, f) = y /\ ValidNs(k, (Base + n) % 16, w)
  BY <1>3 DEF Deliver, Own
<1>5. Sender(k, Held(x), x.slot) /\ Carries(k, x.out) /\ Receiver(w, k) /\ Framed(x)
  BY DEF Orderly
<1>6. y \in Device(w)
  BY <1>4, DeliverTyped
<1>7. k = Own(x)
  OBVIOUS
<1> HIDE DEF k
<1>8. /\ l.state = k.state /\ l.VS = k.VS /\ l.VR = NextNumber(k.VR) /\ l.VRA = k.VRA
      /\ l.sendPending = k.sendPending /\ l.sendCb = k.sendCb
      /\ l.rd = k.rd /\ l.wr = k.wr /\ l.ring = k.ring
      /\ l.accepted = k.accepted /\ l.confirmed = k.confirmed
      /\ l.transmitted = k.transmitted /\ l.received = Append(k.received, n + 1)
  BY <1>2, <1>3 DEF Socket
<1> HIDE DEF l
<1>9. Own(y) = l /\ SameLink(x, y) /\ \A s \in Sockets \ {only} : y.sock[s] = x.sock[s]
  BY OwnWritten
<1> HIDE DEF y
<1>10. l \in Socket(w)
  BY <1>6, <1>9, DeviceCounts
<1>11. Receiver(w, l) /\ Len(l.received) = n + 1
  BY <1>1, <1>2, <1>3, <1>4, <1>5, <1>8, <1>10, DeliverReceives
<1>12. Sender(l, Held(x), x.slot) /\ Carries(l, x.out)
  BY <1>5, <1>8 DEF Sender, Carries, Pending, Outstanding
<1>13. Framed(y) /\ Held(y) = Held(x) /\ y.slot = x.slot /\ y.out = x.out
  BY <1>3, <1>5, <1>7, <1>8, <1>9 DEF Framed, Open, SameLink, Held, Queued
<1>14. Open(x) /\ Open(y)
  BY <1>3, <1>7, <1>8, <1>9 DEF Open
<1>15. Arrived(y) = Arrived(x) /\ Expected(y) = Expected(x) + 1
  <2>1. Arrived(y) = Arrived(x)
    BY <1>7, <1>8, <1>9, <1>13 DEF Arrived
  <2>2. l.rd = k.rd /\ l.wr = k.wr /\ Len(l.received) = n + 1
    BY <1>8, <1>11
  <2>3. Expected(y) = Expected(x) + 1
    BY <1>1, <1>2, <1>7, <1>9, <2>2 DEF Expected
  <2> QED BY <2>1, <2>3
<1>16. Moves(1, x, y)
  <2>1. /\ Own(y).accepted = Own(x).accepted /\ Own(y).confirmed = Own(x).confirmed
        /\ Own(y).transmitted = Own(x).transmitted
    BY <1>7, <1>8, <1>9
  <2>2. Len(Own(y).received) = n + 1 /\ Len(Own(x).received) = n
    BY <1>1, <1>7, <1>9, <1>11
  <2>3. /\ Own(x).confirmed \in Nat /\ Own(x).transmitted \in Nat /\ Expected(x) \in Int /\ n \in Nat
    BY <1>2, <1>7, DeviceCounts
  <2>4. Own(x).transmitted <= Own(y).transmitted /\ Own(x).confirmed <= Own(y).confirmed
    BY <2>1, <2>3
  <2>5. Len(Own(x).received) <= Len(Own(y).received) /\ Expected(y) <= Expected(x) + 1
    BY <1>15, <2>2, <2>3
  <2> QED BY <1>14, <1>15, <2>1, <2>4, <2>5 DEF Moves
<1> QED BY <1>4, <1>7, <1>8, <1>9, <1>11, <1>12, <1>13, <1>14, <1>16 DEF Orderly

(* The socket after the SDU m was kept in its window. *)
Kept(w, k, l, m) ==
  /\ l.state = k.state /\ l.VR = k.VR /\ l.VRA = k.VRA
  /\ l.rd = k.rd /\ l.wr = k.wr + 1 /\ l.received = k.received
  /\ l.ring[Entry(w, k.wr)] = m
  /\ \A i \in 0 .. (w - 1) : i # Entry(w, k.wr) => l.ring[i] = k.ring[i]

(* Its window holds the SDU behind the others. *)
LEMMA KeptStored ==
  ASSUME NEW w \in 1 .. 15, NEW k \in Socket(w), NEW l \in Socket(w), NEW n \in Nat,
         NEW m, Stored(w, k, n), Kept(w, k, l, m), k.rd <= k.wr, k.wr < k.rd + w,
         m = n + 1 + (k.wr - k.rd)
  PROVE  Stored(w, l, n)
<1>1. PICK rd \in Nat, wr \in Nat : k.rd = rd /\ k.wr = wr
  BY CountsTyped
<1>2. l.rd = rd /\ l.wr = wr + 1
  BY <1>1 DEF Kept
<1>3. ASSUME NEW i \in rd .. (rd + w - 1)
      PROVE  l.ring[Entry(w, i)] = IF i < wr + 1 THEN n + 1 + (i - rd) ELSE 0
  <2>1. k.ring[Entry(w, i)] = IF i < wr THEN n + 1 + (i - rd) ELSE 0
    BY <1>1 DEF Stored
  <2>2. i \in Nat /\ i < wr + w /\ wr < i + w /\ (i <= wr \/ wr <= i)
    BY <1>1
  <2>3. CASE i = wr
    <3>1. l.ring[Entry(w, i)] = m
      BY <1>1, <2>3, Zenon DEF Kept
    <3>2. i < wr + 1 /\ m = n + 1 + (i - rd)
      BY <1>1, <2>3
    <3> QED BY <3>1, <3>2, Zenon
  <2>4. CASE i # wr
    <3>1. Entry(w, i) \in 0 .. (w - 1)
      BY <2>2, RingEntries, Zenon
    <3>2. Entry(w, i) # Entry(w, wr)
      <4>1. i <= wr /\ wr < i + w /\ Entry(w, i) = Entry(w, wr) => i = wr
        BY <2>2, RingEntries, Zenon
      <4>2. wr <= i /\ i < wr + w /\ Entry(w, wr) = Entry(w, i) => wr = i
        BY <2>2, RingEntries, Zenon
      <4> QED BY <2>2, <2>4, <4>1, <4>2, Zenon
    <3>3. l.ring[Entry(w, i)] = k.ring[Entry(w, i)]
      BY <1>1, <3>1, <3>2, Zenon DEF Kept
    <3>4. i < wr + 1 <=> i < wr
      BY <2>2, <2>4
    <3> QED BY <2>1, <3>3, <3>4, Zenon
  <2> QED BY <2>3, <2>4
<1> QED BY <1>1, <1>2, <1>3 DEF Stored

(* The number of the SDU that arrives shows that there is room for it. *)
LEMMA KeptReceives ==
  ASSUME NEW w \in 1 .. 15, NEW k \in Socket(w), Receiver(w, k), k.state = "Connected",
         NEW m \in Nat, m = Len(k.received) + k.wr - k.rd, ValidNs(k, (Base + m) % 16, w),
         NEW l \in Socket(w), Kept(w, k, l, m + 1)
  PROVE  Receiver(w, l) /\ HasRoom(k, w)
<1>1. PICK n \in Nat, rd \in Nat, wr \in Nat :
        n = Len(k.received) /\ k.rd = rd /\ k.wr = wr
  BY CountsTyped
<1>2. /\ rd <= wr /\ Stored(w, k, n) /\ k.VR = (Base + n) % 16
      /\ \A i \in 1 .. n : k.received[i] = i
  BY <1>1 DEF Receiver
<1>3. PICK a \in 0 .. n : k.VRA = (Base + a) % 16 /\ m < a + w
  BY <1>1, AcceptedHasRoom
<1>4. m = n + wr - rd
  BY <1>1
<1>5. wr < rd + w /\ m + 1 = n + 1 + (wr - rd) /\ wr \in rd .. (rd + w - 1)
  BY <1>2, <1>3, <1>4
<1>6. l.rd = rd /\ l.wr = wr + 1 /\ l.received = k.received /\ l.VRA = k.VRA /\ l.VR = k.VR
  BY <1>1 DEF Kept
<1>7. HasRoom(k, w)
  <2>1. k.ring[Entry(w, wr)] = IF wr < wr THEN n + 1 + (wr - rd) ELSE 0
    BY <1>1, <1>2, <1>5, Zenon DEF Stored
  <2>2. ~(wr < wr) /\ wr - rd < w
    BY <1>5
  <2> QED BY <1>1, <2>1, <2>2, Zenon DEF HasRoom, Entry
<1>8. Stored(w, l, n)
  BY <1>1, <1>2, <1>5, KeptStored
<1>9. Acked(w, l, n)
  <2>1. n + (wr + 1) - rd <= a + w
    BY <1>3, <1>4
  <2> QED BY <1>3, <1>6, <2>1 DEF Acked
<1>10. l.rd <= l.wr
  BY <1>2, <1>6
<1> QED BY <1>1, <1>2, <1>6, <1>7, <1>8, <1>9, <1>10 DEF Receiver

(* Keeping the SDU that arrived, with the RNR of the first one. *)
LEMMA StoreMoves ==
  ASSUME OneSocket, NEW d \in Peer, NEW x \in Device(RW[d]), Orderly(RW[d], x),
         Open(x), Expected(x) \in Nat,
         ValidNs(Own(x), (Base + Expected(x)) % 16, RW[d])
  PROVE  LET y == Store(d, x, only, Expected(x) + 1)
         IN Orderly(RW[d], y) /\ Moves(1, x, y)
<1> DEFINE w == RW[d]
           k == Own(x)
           m == Expected(x)
           g == [k.ring EXCEPT ![k.wr % w] = m + 1]
           l == [k EXCEPT !.ring[k.wr % w] = m + 1, !.busy = TRUE, !.wr = @ + 1]
           y == Update(x, only, l)
<1>1. /\ k \in Socket(w) /\ k.accepted \in Nat /\ k.confirmed \in Nat
      /\ k.transmitted \in Nat /\ Len(k.received) \in Nat /\ k.rd \in Nat /\ k.wr \in Nat
      /\ w \in 1 .. 15 /\ w \in Nat
  BY DeviceCounts, CountsTyped, WindowAssumption
<1>2. m = Len(k.received) + k.wr - k.rd /\ k.state = "Connected"
  BY <1>1 DEF Expected, Open
<1>3. Sender(k, Held(x), x.slot) /\ Carries(k, x.out) /\ Receiver(w, k) /\ Framed(x)
  BY DEF Orderly
<1>4. y \in Device(w)
  <2>1. m + 1 \in Nat /\ only \in Sockets
    BY DEF OneSocket
  <2> HIDE DEF m
  <2> QED BY <2>1, StoreArgument DEF Own
<1>5. Store(d, x, only, m + 1) =
        IF ~HasRoom(k, w) THEN x
        ELSE IF k.busy THEN y ELSE SendReceiveNotReady(y, only)
  BY DEF Store, Own
<1>6. k = Own(x) /\ m = Expected(x) /\ w = RW[d]
  OBVIOUS
<1> HIDE DEF k, m, w
<1>7. /\ l.state = k.state /\ l.VS = k.VS /\ l.VR = k.VR /\ l.VRA = k.VRA
      /\ l.sendPending = k.sendPending /\ l.sendCb = k.sendCb
      /\ l.rd = k.rd /\ l.wr = k.wr + 1 /\ l.ring = g
      /\ l.accepted = k.accepted /\ l.confirmed = k.confirmed
      /\ l.transmitted = k.transmitted /\ l.received = k.received
  BY <1>1 DEF Socket
<1> HIDE DEF l
<1>8. Own(y) = l /\ SameLink(x, y) /\ \A s \in Sockets \ {only} : y.sock[s] = x.sock[s]
  BY <1>6, OwnWritten
<1> HIDE DEF y
<1>9. l \in Socket(w)
  BY <1>4, <1>8, DeviceCounts
<1>10. Receiver(w, l) /\ HasRoom(k, w)
  <2>1. Entry(w, k.wr) \in 0 .. (w - 1) /\ k.ring \in [0 .. (w - 1) -> Nat]
    BY <1>1, RingEntries DEF Socket
  <2>2. /\ g[Entry(w, k.wr)] = m + 1
        /\ \A i \in 0 .. (w - 1) : i # Entry(w, k.wr) => g[i] = k.ring[i]
    BY <2>1 DEF Entry
  <2> HIDE DEF g
  <2>3. Kept(w, k, l, m + 1)
    BY <1>7, <2>2 DEF Kept
  <2>4. m \in Nat /\ ValidNs(k, (Base + m) % 16, w)
    BY <1>6
  <2> QED BY <1>1, <1>2, <1>3, <1>9, <2>3, <2>4, KeptReceives
<1>11. Sender(l, Held(x), x.slot) /\ Carries(l, x.out)
  BY <1>3, <1>7 DEF Sender, Carries, Pending, Outstanding
<1>12. Framed(y) /\ Held(y) = Held(x) /\ y.slot = x.slot /\ y.out = x.out
  BY <1>2, <1>3, <1>6, <1>7, <1>8 DEF Framed, Open, SameLink, Held, Queued
<1>13. Open(x) /\ Open(y)
  BY <1>2, <1>6, <1>7, <1>8 DEF Open
<1>14. Arrived(y) = Arrived(x) /\ Expected(y) = Expected(x) + 1
  <2>1. Expected(y) = Len(k.received) + (k.wr + 1) - k.rd
    BY <1>7, <1>8 DEF Expected
  <2>2. Len(k.received) + (k.wr + 1) - k.rd = m + 1
    <3>1. PICK n \in Nat, v \in Nat, r \in Nat :
            Len(k.received) = n /\ k.wr = v /\ k.rd = r
      BY <1>1, Zenon
    <3>2. m = n + v - r
      BY <1>2, <3>1
    <3> QED BY <3>1, <3>2
  <2>3. Arrived(y) = Arrived(x)
    BY <1>6, <1>7, <1>8, <1>12 DEF Arrived
  <2> QED BY <1>6, <2>1, <2>2, <2>3
<1>15. Moves(1, x, y)
  BY <1>1, <1>6, <1>7, <1>8, <1>13, <1>14, DeviceCounts DEF Moves
<1>16. Orderly(w, y)
  BY <1>8, <1>10, <1>11, <1>12 DEF Orderly
<1>17. Orderly(w, SendReceiveNotReady(y, only)) /\ Moves(1, x, SendReceiveNotReady(y, only))
  <2>1. SendReceiveNotReady(y, only) \in Device(w)
    BY <1>4, SendReceiveNotReadyTyped DEF OneSocket
  <2>2. /\ Orderly(w, SendReceiveNotReady(y, only)) /\ Keeps(y, SendReceiveNotReady(y, only))
    BY <1>1, <1>4, <1>16, SendReadyKeeps
  <2> QED BY <1>4, <1>6, <1>15, <2>1, <2>2, MovesCompose
<1> QED BY <1>5, <1>6, <1>10, <1>15, <1>16, <1>17

(* The socket after n stored SDUs were taken from its window. *)
Taken(w, k, n) == [i \in 1 .. n |-> k.ring[Entry(w, k.rd + i - 1)]]

Drained(w, k, l, n) ==
  /\ l.state = k.state /\ l.VR = (k.VR + n) % 16 /\ l.VRA = k.VRA
  /\ l.rd = k.rd + n /\ l.wr = k.wr
  /\ l.received = k.received \o Taken(w, k, n)
  /\ \A i \in 0 .. (w - 1) :
       l.ring[i] = IF \E j \in 0 .. (n - 1) : i = Entry(w, k.rd + j) THEN 0 ELSE k.ring[i]

(* The window holds the SDUs behind those taken. *)
LEMMA DrainedStored ==
  ASSUME NEW w \in 1 .. 15, NEW k \in Socket(w), NEW l, NEW m \in Nat, NEW n \in Nat,
         Stored(w, k, m), Drained(w, k, l, n), k.rd + n <= k.wr, k.wr <= k.rd + w
  PROVE  Stored(w, l, m + n)
<1>1. PICK rd \in Nat, wr \in Nat : k.rd = rd /\ k.wr = wr
  BY CountsTyped
<1>2. l.rd = rd + n /\ l.wr = wr /\ rd + n <= wr /\ wr <= rd + w
  BY <1>1 DEF Drained
<1>3. ASSUME NEW i \in (rd + n) .. (rd + n + w - 1)
      PROVE  l.ring[Entry(w, i)] = IF i < wr THEN m + n + 1 + (i - (rd + n)) ELSE 0
  <2>1. i \in Nat /\ Entry(w, i) \in 0 .. (w - 1)
    <3>1. i \in Nat
      BY <1>1
    <3> QED BY <3>1, RingEntries, Zenon
  <2>2. l.ring[Entry(w, i)] =
          IF \E j \in 0 .. (n - 1) : Entry(w, i) = Entry(w, rd + j) THEN 0
          ELSE k.ring[Entry(w, i)]
    BY <1>1, <2>1, Zenon DEF Drained
  <2>3. CASE i < rd + w
    <3>1. k.ring[Entry(w, i)] = IF i < wr THEN m + 1 + (i - rd) ELSE 0
      <4>1. i \in rd .. (rd + w - 1)
        BY <1>1, <2>1, <2>3
      <4> QED BY <1>1, <4>1 DEF Stored
    <3>2. ASSUME NEW j \in 0 .. (n - 1)
          PROVE  Entry(w, i) # Entry(w, rd + j)
      <4>1. rd + j \in Nat /\ rd + j <= i /\ i < (rd + j) + w /\ rd + j # i
        BY <1>1, <2>1, <2>3
      <4>2. rd + j <= i /\ i < (rd + j) + w /\ Entry(w, rd + j) = Entry(w, i) => rd + j = i
        BY <2>1, <4>1, RingEntries, Zenon
      <4> QED BY <4>1, <4>2, Zenon
    <3>3. l.ring[Entry(w, i)] = k.ring[Entry(w, i)]
      BY <2>2, <3>2, Zenon
    <3>4. m + n + 1 + (i - (rd + n)) = m + 1 + (i - rd)
      BY <1>1, <2>1
    <3> QED BY <3>1, <3>3, <3>4, Zenon
  <2>4. CASE ~(i < rd + w)
    <3>1. PICK j \in 0 .. (n - 1) : i = (rd + j) + w
      <4>1. i - w - rd \in 0 .. (n - 1) /\ i = (rd + (i - w - rd)) + w
        BY <1>1, <2>1, <2>4
      <4> QED BY <4>1
    <3>2. Entry(w, i) = Entry(w, rd + j)
      <4>1. rd + j \in Nat
        BY <1>1, <3>1
      <4> QED BY <3>1, <4>1, RingEntries, Zenon
    <3>3. l.ring[Entry(w, i)] = 0
      BY <2>2, <3>2, Zenon
    <3>4. ~(i < wr)
      BY <1>2, <2>1, <2>4, <1>1
    <3> QED BY <3>3, <3>4, Zenon
  <2> QED BY <2>3, <2>4
<1> QED BY <1>2, <1>3 DEF Stored

(* The entry of the window behind the j-th holds the SDU j later. *)
LEMMA Cancels ==
  ASSUME NEW m \in Nat, NEW r \in Nat, NEW j \in Nat
  PROVE  m + 1 + ((r + j - 1) - r) = m + j
OBVIOUS

(* The SDUs taken are those that follow the ones handed over. *)
LEMMA DrainedReceives ==
  ASSUME NEW w \in 1 .. 15, NEW k \in Socket(w), Receiver(w, k), k.state = "Connected",
         NEW n \in Nat, n <= k.wr - k.rd, NEW l, Drained(w, k, l, n)
  PROVE  Receiver(w, l) /\ Len(l.received) = Len(k.received) + n
<1>1. PICK m \in Nat, rd \in Nat, wr \in Nat :
        m = Len(k.received) /\ k.rd = rd /\ k.wr = wr
  BY CountsTyped
<1>2. /\ rd <= wr /\ Stored(w, k, m) /\ k.VR = (Base + m) % 16
      /\ \A i \in 1 .. m : k.received[i] = i
  BY <1>1 DEF Receiver
<1>3. PICK a \in 0 .. m : k.VRA = (Base + a) % 16 /\ m + wr - rd <= a + w
  BY <1>1 DEF Receiver, Acked
<1>4. wr <= rd + w /\ rd + n <= wr
  BY <1>1, <1>2, <1>3
<1>5. /\ l.rd = rd + n /\ l.wr = wr /\ l.VRA = k.VRA /\ l.VR = (k.VR + n) % 16
      /\ l.received = k.received \o Taken(w, k, n)
  BY <1>1 DEF Drained
<1>6. \A j \in 1 .. n : Taken(w, k, n)[j] = m + j
  <2> SUFFICES ASSUME NEW j \in 1 .. n PROVE k.ring[Entry(w, rd + j - 1)] = m + j
    BY <1>1 DEF Taken
  <2>1. rd + j - 1 \in rd .. (rd + w - 1) /\ rd + j - 1 < wr
        /\ m + 1 + ((rd + j - 1) - rd) = m + j
    <3>1. j \in Nat /\ 1 <= j /\ j <= n
      OBVIOUS
    <3>2. rd + j - 1 \in Nat /\ rd <= rd + j - 1 /\ rd + j - 1 < wr
      BY <1>1, <1>4, <3>1
    <3>3. rd + j - 1 <= rd + w - 1
      BY <1>1, <1>4, <3>1
    <3>4. m + 1 + ((rd + j - 1) - rd) = m + j
      BY <3>1, Cancels, ZenonT(40)
    <3> QED BY <3>2, <3>3, <3>4
  <2>2. k.ring[Entry(w, rd + j - 1)] =
          IF rd + j - 1 < wr THEN m + 1 + ((rd + j - 1) - rd) ELSE 0
    BY <1>1, <1>2, <2>1, Zenon DEF Stored
  <2> QED BY <2>1, <2>2, Zenon
<1>7. Len(l.received) = m + n /\ \A i \in 1 .. (m + n) : l.received[i] = i
  <2>1. Taken(w, k, n) \in Seq(Nat) /\ Len(Taken(w, k, n)) = n
    <3>1. DOMAIN Taken(w, k, n) = 1 .. n /\ Taken(w, k, n) = [j \in 1 .. n |-> Taken(w, k, n)[j]]
      BY DEF Taken
    <3>2. \A j \in 1 .. n : Taken(w, k, n)[j] \in Nat
      BY <1>1, <1>6
    <3> DEFINE t == Taken(w, k, n)
    <3> HIDE DEF t
    <3>3. t = [j \in 1 .. n |-> t[j]] /\ \A j \in 1 .. n : t[j] \in Nat
      BY <3>1, <3>2 DEF t
    <3>4. t \in Seq(Nat) /\ Len(t) = n
      BY <3>3
    <3> QED BY <3>4 DEF t
  <2> DEFINE t == Taken(w, k, n)
             r == k.received
  <2>2. r \in Seq(Nat) /\ Len(r) = m /\ \A i \in 1 .. m : r[i] = i
    BY <1>1, <1>2, CountsTyped
  <2>3. \A j \in 1 .. n : t[j] = m + j
    BY <1>6
  <2>4. l.received = r \o t /\ t \in Seq(Nat) /\ Len(t) = n
    BY <1>5, <2>1
  <2> HIDE DEF t, r
  <2>5. Len(r \o t) = m + n
    BY <2>2, <2>4
  <2>6. \A i \in 1 .. (m + n) : (r \o t)[i] = IF i <= m THEN r[i] ELSE t[i - m]
    <3>1. \A i \in 1 .. (Len(r) + Len(t)) :
            (r \o t)[i] = IF i <= Len(r) THEN r[i] ELSE t[i - Len(r)]
      BY <2>2, <2>4, ConcatProperties, Zenon
    <3> QED BY <2>2, <2>4, <3>1, Zenon
  <2>7. ASSUME NEW i \in 1 .. (m + n) PROVE (r \o t)[i] = i
    <3>1. CASE i <= m
      BY <2>2, <2>6, <3>1
    <3>2. CASE ~(i <= m)
      <4>1. i - m \in 1 .. n /\ m + (i - m) = i
        BY <1>1, <3>2
      <4> QED BY <2>3, <2>6, <3>2, <4>1
    <3> QED BY <3>1, <3>2
  <2> QED BY <2>4, <2>5, <2>7
<1>8. Stored(w, l, m + n)
  BY <1>1, <1>2, <1>4, DrainedStored
<1>9. Acked(w, l, m + n)
  <2>1. a \in 0 .. (m + n) /\ (m + n) + wr - (rd + n) <= a + w
    BY <1>1, <1>3
  <2> QED BY <1>3, <1>5, <2>1 DEF Acked
<1>10. l.VR = (Base + (m + n)) % 16
  <2>1. (((Base + m) % 16) + n) % 16 = (Base + m + n) % 16
    BY <1>1, NumbersFollow
  <2>2. Base + m + n = Base + (m + n)
    BY <1>1, SduAssumption
  <2> QED BY <1>2, <1>5, <2>1, <2>2, Zenon
<1>11. l.rd <= l.wr
  BY <1>4, <1>5
<1> QED BY <1>1, <1>7, <1>8, <1>9, <1>10, <1>11 DEF Receiver

(* Taking stored SDUs hands over the next ones. *)
LEMMA DrainMoves ==
  ASSUME OneSocket, NEW d \in Peer, NEW x \in Device(RW[d]), Orderly(RW[d], x), Open(x),
         NEW n \in Nat, n <= Own(x).wr - Own(x).rd
  PROVE  LET y == Drain(x, only, RW[d], n)
         IN /\ Orderly(RW[d], y) /\ Moves(0, x, y) /\ Own(y).accepted = Own(x).accepted
            /\ Open(y) /\ SameLink(x, y)
<1> DEFINE w == RW[d]
           k == Own(x)
           r == k.received \o [i \in 1 .. n |-> k.ring[(k.rd + i - 1) % w]]
           l == [k EXCEPT !.received = r, !.ring = FreeRing(k, w, n),
                          !.VR = (@ + n) % 16, !.rd = @ + n]
           y == Update(x, only, l)
<1>1. /\ k \in Socket(w) /\ k.accepted \in Nat /\ k.confirmed \in Nat
      /\ k.transmitted \in Nat /\ Len(k.received) \in Nat /\ k.rd \in Nat /\ k.wr \in Nat
      /\ w \in 1 .. 15 /\ w \in Nat
  BY DeviceCounts, CountsTyped, WindowAssumption
<1>2. n <= k.wr - k.rd /\ k.state = "Connected"
  BY DEF Open
<1>3. Sender(k, Held(x), x.slot) /\ Carries(k, x.out) /\ Receiver(w, k) /\ Framed(x)
  BY DEF Orderly
<1>4. Drain(x, only, w, n) = y
  BY DEF Drain, Own, Mod
<1>5. k = Own(x) /\ w = RW[d] /\ r = k.received \o Taken(w, k, n)
  BY DEF Taken, Entry
<1> HIDE DEF k, w, r
<1>6. /\ l.state = k.state /\ l.VS = k.VS /\ l.VR = (k.VR + n) % 16 /\ l.VRA = k.VRA
      /\ l.sendPending = k.sendPending /\ l.sendCb = k.sendCb
      /\ l.rd = k.rd + n /\ l.wr = k.wr /\ l.ring = FreeRing(k, w, n)
      /\ l.accepted = k.accepted /\ l.confirmed = k.confirmed
      /\ l.transmitted = k.transmitted /\ l.received = r
  BY <1>1 DEF Socket
<1> HIDE DEF l
<1>7. Own(y) = l /\ SameLink(x, y) /\ \A s \in Sockets \ {only} : y.sock[s] = x.sock[s]
  BY <1>5, OwnWritten
<1> HIDE DEF y
<1>8. Receiver(w, l) /\ Len(l.received) = Len(k.received) + n
  <2>1. Drained(w, k, l, n)
    BY <1>5, <1>6 DEF Drained, FreeRing, Entry
  <2> QED BY <1>1, <1>2, <1>3, <2>1, DrainedReceives, ZenonT(40)
<1>9. Sender(l, Held(x), x.slot) /\ Carries(l, x.out)
  BY <1>3, <1>6 DEF Sender, Carries, Pending, Outstanding
<1>10. Framed(y) /\ Held(y) = Held(x) /\ y.slot = x.slot /\ y.out = x.out
  BY <1>2, <1>3, <1>5, <1>6, <1>7 DEF Framed, Open, SameLink, Held, Queued
<1>11. Open(x) /\ Open(y)
  BY <1>2, <1>5, <1>6, <1>7 DEF Open
<1>12. Arrived(y) = Arrived(x) /\ Expected(y) = Expected(x)
  <2>1. PICK m \in Nat, v \in Nat, u \in Nat :
          Len(k.received) = m /\ k.wr = v /\ k.rd = u
    BY <1>1, Zenon
  <2>2. Expected(x) = m + v - u /\ Expected(y) = (m + n) + v - (u + n)
    BY <1>5, <1>6, <1>7, <1>8, <2>1 DEF Expected
  <2>3. Expected(y) = Expected(x)
    BY <2>1, <2>2
  <2>4. Arrived(y) = Arrived(x)
    BY <1>5, <1>6, <1>7, <1>10 DEF Arrived
  <2> QED BY <2>3, <2>4
<1>13. Moves(0, x, y)
  <2>1. /\ Own(y).accepted = Own(x).accepted /\ Own(y).confirmed = Own(x).confirmed
        /\ Own(y).transmitted = Own(x).transmitted
        /\ Len(Own(x).received) <= Len(Own(y).received)
    <3>1. Len(k.received) <= Len(k.received) + n
      BY <1>1
    <3> QED BY <1>5, <1>6, <1>7, <1>8, <3>1
  <2>2. Expected(x) + 0 = Expected(x) /\ Expected(x) <= Expected(x)
        /\ Own(x).transmitted <= Own(x).transmitted /\ Own(x).confirmed <= Own(x).confirmed
    BY DeviceCounts
  <2> QED BY <1>11, <1>12, <2>1, <2>2 DEF Moves
<1> QED BY <1>4, <1>5, <1>6, <1>7, <1>8, <1>9, <1>10, <1>11, <1>13 DEF Orderly

(* The end of the busy condition, with its RR. *)
LEMMA EndBusyKeeps ==
  ASSUME OneSocket, NEW w \in Nat, NEW x \in Device(w), Orderly(w, x)
  PROVE  Orderly(w, EndBusy(x, only)) /\ Keeps(x, EndBusy(x, only))
<1> DEFINE l == [Own(x) EXCEPT !.busy = FALSE]
           y == Update(x, only, l)
<1>1. Own(x) \in Socket(w) /\ only \in Sockets
  BY DeviceCounts, SMTT(20) DEF OneSocket
<1>2. y \in Device(w)
  BY <1>1, FieldsTyped, SocketUpdated
<1>3. Orderly(w, y) /\ Keeps(x, y)
  <2>1. Agrees(Own(x), l)
    BY <1>1, FlagsAgree
  <2> HIDE DEF l
  <2> QED BY <2>1, AgreeingUpdate
<1>4. EndBusy(x, only) = IF Own(x).busy THEN SendReceiveReady(y, only) ELSE x
  BY DEF EndBusy, Own
<1> HIDE DEF y
<1>5. SendReceiveReady(y, only) \in Device(w)
  BY <1>1, <1>2, SendReceiveReadyTyped
<1>6. Orderly(w, SendReceiveReady(y, only)) /\ Keeps(y, SendReceiveReady(y, only))
  BY <1>2, <1>3, SendReadyKeeps
<1>7. Keeps(x, SendReceiveReady(y, only))
  BY <1>2, <1>3, <1>5, <1>6, KeepsCompose
<1> QED BY <1>4, <1>6, <1>7, KeepsItself

-----------------------------------------------------------------------------
(* Handlers. *)

(* A call the channel does not see may also come first. *)
LEMMA KeepsThenMoves ==
  ASSUME OneSocket, NEW w, NEW x \in Device(w), NEW y \in Device(w), NEW z \in Device(w),
         NEW n \in Nat, Keeps(x, y), Moves(n, y, z)
  PROVE  Moves(n, x, z)
BY DeviceCounts, SMTT(20) DEF Keeps, Moves

(* A closed end may ignore the SDUs that arrive. *)
LEMMA ClosedMoves ==
  ASSUME OneSocket, NEW w, NEW x \in Device(w), NEW y \in Device(w), NEW n \in Nat,
         Keeps(x, y), ~Open(y)
  PROVE  Moves(n, x, y)
BY DeviceCounts, SMTT(20) DEF Keeps, Moves

(* The SDU that arrives is handed over, the application reacts, and it is *)
(* acknowledged.                                                          *)
LEMMA HandOverMoves ==
  ASSUME OneSocket, NEW d \in Peer, NEW x \in Device(RW[d]), LinkOK(x), Orderly(RW[d], x),
         NEW f \in Frame, f.s = only, Open(x), HandsOver(Own(x)), f.sdu = Expected(x) + 1,
         ValidNs(Own(x), (Base + Expected(x)) % 16, RW[d]),
         NEW r \in Reaction, CanReact(d, Deliver(x, f), only, r)
  PROVE  LET y == Acknowledge(d, React(d, Deliver(x, f), only, r), only, r = "reply")
         IN Orderly(RW[d], y) /\ Moves(1, x, y)
<1> DEFINE w == RW[d]
           y == Deliver(x, f)
           z == React(d, y, only, r)
           u == Acknowledge(d, z, only, r = "reply")
<1>1. w \in 1 .. 15 /\ w \in Nat /\ only \in Sockets
  BY WindowAssumption DEF OneSocket
<1>2. /\ y \in Device(w) /\ Orderly(w, y) /\ Moves(1, x, y) /\ SameLink(x, y)
      /\ Own(y).accepted = Own(x).accepted /\ Open(y)
  BY <1>1, DeliverTyped, DeliverMoves DEF HandsOver
<1> HIDE DEF y
<1>3. LinkOK(y)
  BY <1>2, SameLinkStep
<1>4. z \in Device(w) /\ LinkOK(z)
  BY <1>1, <1>2, <1>3, ReactTyped, ReactLink, LinkStepOK
<1>5. Orderly(w, z) /\ (Keeps(y, z) \/ Sent(y, z)) /\ Open(z)
  <2>1. CanReact(d, y, only, r)
    BY DEF y
  <2> QED BY <1>1, <1>2, <1>3, <2>1, ReactTakes
<1> HIDE DEF z, w
<1>6. Moves(1, x, z)
  BY <1>2, <1>4, <1>5, MovesCompose, MovesThenSent DEF w
<1>7. u \in Device(w) /\ Orderly(w, u) /\ Keeps(z, u)
  BY <1>1, <1>4, <1>5, AcknowledgeTyped, AcknowledgeKeeps
<1> HIDE DEF u
<1>8. Moves(1, x, u)
  BY <1>4, <1>6, <1>7, MovesCompose DEF w
<1> QED BY <1>7, <1>8 DEF u, z, y, w

(* The SDU that arrives is kept. *)
LEMMA KeepingMoves ==
  ASSUME OneSocket, NEW d \in Peer, NEW x \in Device(RW[d]), Orderly(RW[d], x),
         NEW f \in Frame, f.s = only, Open(x), f.sdu = Expected(x) + 1,
         ValidNs(Own(x), (Base + Expected(x)) % 16, RW[d])
  PROVE  LET y == Store(d, Update(x, only, [Own(x) EXCEPT !.VSA = f.nr]), only, f.sdu)
         IN Orderly(RW[d], y) /\ Moves(1, x, y)
<1> DEFINE l == [Own(x) EXCEPT !.VSA = f.nr]
           y == Update(x, only, l)
           z == Store(d, y, only, f.sdu)
<1>1. y \in Device(RW[d]) /\ only \in Sockets /\ f.sdu \in Nat
  <2>1. y \in Device(RW[d])
    BY HandleIFrameArgument DEF Own
  <2> QED BY <2>1 DEF OneSocket, Frame
<1>2. Own(x) \in Socket(RW[d])
  BY DeviceCounts
<1>3. Agrees(Own(x), l)
  BY <1>2, FlagsAgree
<1> HIDE DEF l
<1>4. Orderly(RW[d], y) /\ Keeps(x, y) /\ Own(y) = l
  BY <1>3, AgreeingUpdate, OwnWritten
<1> HIDE DEF y
<1>5. Open(y) /\ Expected(y) = Expected(x) /\ l.VRA = Own(x).VRA
  BY <1>3, <1>4 DEF Open, Agrees, Keeps
<1>6. Expected(y) \in Nat
  <2>1. PICK m \in Nat, v \in Nat, u \in Nat :
          Len(Own(y).received) = m /\ Own(y).wr = v /\ Own(y).rd = u
    BY <1>1, DeviceCounts, CountsTyped
  <2>2. u <= v
    BY <1>4, <2>1 DEF Orderly, Receiver
  <2> QED BY <2>1, <2>2 DEF Expected
<1>7. ValidNs(Own(y), (Base + Expected(y)) % 16, RW[d])
  BY <1>4, <1>5 DEF ValidNs
<1>8. Orderly(RW[d], z) /\ Moves(1, y, z)
  BY <1>1, <1>4, <1>5, <1>6, <1>7, StoreMoves
<1>9. z \in Device(RW[d])
  BY <1>1, StoreTyped
<1> HIDE DEF z
<1>10. Moves(1, x, z)
  BY <1>1, <1>4, <1>8, <1>9, KeepsThenMoves
<1> QED BY <1>8, <1>10 DEF z, y, l

(* Handle_ReceivedIFrame takes the next SDU, rejects the frame, or ignores *)
(* it because the socket is closed.                                        *)
LEMMA HandleIFrameMoves ==
  ASSUME OneSocket, NEW d \in Peer, NEW x \in Device(RW[d]), LinkOK(x), Orderly(RW[d], x),
         NEW f \in Frame, f.s = only,
         Open(x) => f.sdu = Expected(x) + 1 /\ f.ns = (Base + Expected(x)) % 16,
         NEW y \in HandleIFrame(d, x, f)
  PROVE  Orderly(RW[d], y) /\ Moves(1, x, y)
<1>1. RW[d] \in Nat /\ only \in Sockets /\ 1 \in Nat
  BY WindowAssumption DEF OneSocket
<1>2. CASE ~Open(x)
  <2>1. y = x
    BY <1>2 DEF HandleIFrame, Open, Own
  <2> QED BY <1>1, <1>2, <2>1, KeepsItself, ClosedMoves
<1>3. CASE Open(x) /\ (~ValidNr(Own(x), f.nr) \/ ~ValidNs(Own(x), f.ns, RW[d]))
  <2>1. y = SendFrameReject(x, only)
    BY <1>3 DEF HandleIFrame, Open, Own
  <2>2. Orderly(RW[d], y) /\ Keeps(x, y) /\ ~Open(y)
    BY <2>1, SendFrameRejectKeeps
  <2>3. y \in Device(RW[d])
    BY <1>1, <2>1, SendFrameRejectTyped
  <2> QED BY <1>1, <2>2, <2>3, ClosedMoves
<1>4. CASE Open(x) /\ ValidNs(Own(x), f.ns, RW[d]) /\ ValidNr(Own(x), f.nr)
  <2>1. CASE HandsOver(Own(x))
    <3>1. PICK r \in Reaction :
            /\ CanReact(d, Deliver(x, f), only, r)
            /\ y = Acknowledge(d, React(d, Deliver(x, f), only, r), only, r = "reply")
      BY <1>4, <2>1 DEF HandleIFrame, Open, Own
    <3> QED BY <1>4, <2>1, <3>1, HandOverMoves
  <2>2. CASE ~HandsOver(Own(x))
    <3>1. y = Store(d, Update(x, only, [Own(x) EXCEPT !.VSA = f.nr]), only, f.sdu)
      BY <1>4, <2>2 DEF HandleIFrame, Open, Own
    <3> QED BY <1>4, <3>1, KeepingMoves
  <2> QED BY <2>1, <2>2
<1> QED BY <1>2, <1>3, <1>4

(* The handlers of RR and RNR note the acknowledgement, send a pending I *)
(* frame, or reject the frame.                                           *)
LEMMA HandleSupervisoryKeeps ==
  ASSUME OneSocket, NEW d \in Peer, NEW w \in Nat, NEW x \in Device(w), LinkOK(x),
         Orderly(w, x), NEW f \in Frame, f.s = only,
         NEW y \in HandleReceiveReady(x, f) \cup HandleReceiveNotReady(d, x, f)
  PROVE  Orderly(w, y) /\ Keeps(x, y)
<1> DEFINE l(b) == [Own(x) EXCEPT !.VSA = f.nr, !.remoteBusy = b]
           z(b) == Update(x, only, l(b))
<1>1. Own(x) \in Socket(w) /\ only \in Sockets
  BY DeviceCounts, SMTT(20) DEF OneSocket
<1>2. Orderly(w, x) /\ Keeps(x, x)
  BY KeepsItself
<1>3. Orderly(w, SendFrameReject(x, only)) /\ Keeps(x, SendFrameReject(x, only))
  BY SendFrameRejectKeeps
<1>4. ASSUME NEW b \in BOOLEAN
      PROVE  /\ Orderly(w, z(b)) /\ Keeps(x, z(b))
             /\ Open(x) /\ Own(x).sendPending /\ ~x.bSendPending
                 => Orderly(w, PerformSendInfo(z(b), only))
                    /\ Keeps(x, PerformSendInfo(z(b), only))
  <2>1. z(b) \in Device(w)
    BY HandleSupervisoryArgument DEF Own
  <2>2. Agrees(Own(x), l(b))
    BY <1>1, FlagsAgree
  <2> DEFINE k == l(b)
  <2> HIDE DEF l
  <2>3. /\ Orderly(w, z(b)) /\ Keeps(x, z(b)) /\ Own(z(b)) = k /\ SameLink(x, z(b))
        /\ LinkOK(z(b))
    BY <2>2, AgreeingUpdate, OwnWritten, UpdateLink
  <2>4. ASSUME Open(x), Own(x).sendPending, ~x.bSendPending
        PROVE  Orderly(w, PerformSendInfo(z(b), only))
               /\ Keeps(x, PerformSendInfo(z(b), only))
    <3>1. Open(z(b)) /\ Own(z(b)).sendPending /\ ~z(b).bSendPending
      BY <2>2, <2>3, <2>4 DEF Agrees, Open, SameLink
    <3> HIDE DEF z
    <3>2. Orderly(w, PerformSendInfo(z(b), only)) /\ Keeps(z(b), PerformSendInfo(z(b), only))
      BY <2>1, <2>3, <3>1, PendingSent
    <3>3. PerformSendInfo(z(b), only) \in Device(w)
      BY <1>1, <2>1, PerformSendInfoTyped
    <3> QED BY <2>1, <2>3, <3>2, <3>3, KeepsCompose
  <2> QED BY <2>3, <2>4
<1>5. CASE y \in HandleReceiveReady(x, f)
  <2>1. \/ y = x
        \/ y = SendFrameReject(x, only)
        \/ y = z(FALSE)
        \/ y = PerformSendInfo(z(FALSE), only)
           /\ Open(x) /\ Own(x).sendPending /\ ~x.bSendPending
    BY <1>5 DEF HandleReceiveReady, SendsNow, Open, Own
  <2> HIDE DEF z
  <2> QED BY <1>2, <1>3, <1>4, <2>1
<1>6. CASE y \in HandleReceiveNotReady(d, x, f)
  <2>1. \/ y = x
        \/ y = SendFrameReject(x, only)
        \/ y = z(TRUE)
        \/ y = PerformSendInfo(z(TRUE), only)
           /\ Open(x) /\ Own(x).sendPending /\ ~x.bSendPending
    BY <1>6 DEF HandleReceiveNotReady, SendsNow, Open, Own
  <2> HIDE DEF z
  <2> QED BY <1>2, <1>3, <1>4, <2>1
<1> QED BY <1>5, <1>6

(* An incoming frame moves one SDU if it is an I frame. *)
LEMMA HandlerMoves ==
  ASSUME OneSocket, NEW d \in Peer, NEW x \in Device(RW[d]), LinkOK(x), Orderly(RW[d], x),
         NEW f \in Frame, f.type = "I" => f.s = only,
         f.type = "I" /\ Open(x)
           => f.sdu = Expected(x) + 1 /\ f.ns = (Base + Expected(x)) % 16,
         NEW y \in HandleIncomingPacket(d, x, f)
  PROVE  Orderly(RW[d], y) /\ Moves(OnWire(f), x, y)
<1>1. RW[d] \in Nat /\ only \in Sockets /\ y \in Device(RW[d]) /\ f.s \in Sockets
  <2>1. y \in Device(RW[d])
    BY HandleIncomingPacketTyped
  <2> QED BY <2>1, WindowAssumption DEF OneSocket, Frame
<1>2. CASE f.type = "I"
  <2>1. y \in HandleIFrame(d, x, f)
    BY <1>2 DEF HandleIncomingPacket
  <2>2. OnWire(f) = 1
    BY <1>2 DEF OnWire
  <2> QED BY <1>2, <2>1, <2>2, HandleIFrameMoves
<1>3. CASE f.type # "I"
  <2>1. Orderly(RW[d], y) /\ Keeps(x, y)
    <3>1. CASE y = x
      BY <3>1, KeepsItself
    <3>2. CASE f.s = only /\ y \in HandleReceiveReady(x, f) \cup HandleReceiveNotReady(d, x, f)
      BY <1>1, <3>2, HandleSupervisoryKeeps
    <3>3. CASE f.s = only /\ y \in HandleFrameReject(x, f)
      <4>1. y = x \/ y = Close(x, only)
        BY <3>3 DEF HandleFrameReject
      <4> QED BY <3>1, <4>1, CloseKeeps
    <3>4. \/ y = x
          \/ y \in HandleReceiveReady(x, f) \cup HandleReceiveNotReady(d, x, f)
          \/ y \in HandleFrameReject(x, f)
      BY <1>3 DEF HandleIncomingPacket
    <3>5. f.s # only => y = x
      <4>1. f.s # only => x.sock[f.s].state = "Default"
        BY <1>1 DEF Orderly, Framed
      <4> QED BY <3>4, <4>1 DEF HandleReceiveReady, HandleReceiveNotReady, HandleFrameReject
    <3> QED BY <3>1, <3>2, <3>3, <3>4, <3>5
  <2>2. OnWire(f) = 0
    BY <1>3 DEF OnWire
  <2> QED BY <1>1, <2>1, <2>2, KeepsMoves
<1> QED BY <1>2, <1>3

-----------------------------------------------------------------------------
(* Actions. *)

(* What every action does: the invariant is kept, and an end moves or its *)
(* socket is as before.                                                   *)
ChannelStep ==
  /\ ChannelInv'
  /\ \A d \in Peer : \/ Own(dev'[d]) = Own(dev[d])
                     \/ \E n \in {0, 1} : Moves(n, dev[d], dev'[d])

(* An action of one device in which nothing arrives. *)
LEMMA OwnAction ==
  ASSUME OneSocket, TypeOK, ChannelInv, NEW d \in Peer, NEW y \in Device(RW[d]),
         Orderly(RW[d], y), Moves(0, dev[d], y), dev' = [dev EXCEPT ![d] = y]
  PROVE  ChannelStep
<1> DEFINE o == Other(d)
<1>1. o \in Peer /\ o # d /\ Peer = {d, o} /\ Other(o) = d
  BY DEF Peer, Other
<1> HIDE DEF o
<1>2. dev'[d] = y /\ dev'[o] = dev[o]
  BY <1>1 DEF TypeOK
<1>3. /\ Arrived(y) \in Int /\ Expected(y) \in Int
      /\ Arrived(dev[d]) \in Int /\ Expected(dev[d]) \in Int
      /\ Arrived(dev[o]) \in Int /\ Expected(dev[o]) \in Int
  BY <1>1, DeviceCounts DEF TypeOK
<1>4. /\ Orderly(RW[o], dev[o]) /\ Expected(dev[d]) <= Arrived(dev[o])
      /\ Expected(dev[o]) <= Arrived(dev[d])
      /\ Open(dev[d]) => Expected(dev[d]) = Arrived(dev[o])
      /\ Open(dev[o]) => Expected(dev[o]) = Arrived(dev[d])
  BY <1>1 DEF ChannelInv, o
<1>5. /\ Arrived(y) = Arrived(dev[d]) /\ Expected(y) <= Expected(dev[d]) + 0
      /\ Open(y) => Open(dev[d]) /\ Expected(y) = Expected(dev[d]) + 0
  BY DEF Moves
<1>6. Expected(y) <= Arrived(dev[o]) /\ (Open(y) => Expected(y) = Arrived(dev[o]))
  BY <1>3, <1>4, <1>5
<1>7. ChannelInv'
  <2>1. /\ Orderly(RW[d], dev'[d]) /\ Expected(dev'[d]) <= Arrived(dev'[Other(d)])
        /\ Open(dev'[d]) => Expected(dev'[d]) = Arrived(dev'[Other(d)])
    BY <1>2, <1>6 DEF o
  <2>2. /\ Orderly(RW[o], dev'[o]) /\ Expected(dev'[o]) <= Arrived(dev'[Other(o)])
        /\ Open(dev'[o]) => Expected(dev'[o]) = Arrived(dev'[Other(o)])
    BY <1>1, <1>2, <1>4, <1>5
  <2> QED BY <1>1, <2>1, <2>2 DEF ChannelInv
<1> QED BY <1>1, <1>2, <1>7 DEF ChannelStep

(* Send, called by the application. *)
LEMMA AppSendMoves ==
  ASSUME OneSocket, TypeOK, LinkInv, ChannelInv, NEW d \in Peer, NEW s \in Sockets,
         AppSend(d, s)
  PROVE  ChannelStep
<1> DEFINE x == dev[d]
           y == Send(d, x, only)
<1>1. x \in Device(RW[d]) /\ LinkOK(x) /\ Orderly(RW[d], x) /\ RW[d] \in Nat
  BY WindowAssumption DEF TypeOK, LinkInv, ChannelInv
<1>2. s = only /\ only \in Sockets
  BY <1>1 DEF AppSend, CanSend, Orderly, Framed, OneSocket
<1>3. CanSend(d, x, only) /\ dev' = [dev EXCEPT ![d] = y]
  BY <1>2 DEF AppSend
<1>4. y \in Device(RW[d]) /\ Orderly(RW[d], y) /\ Sent(x, y)
  BY <1>1, <1>2, <1>3, SendTyped, SendTakes
<1> HIDE DEF y
<1>5. Moves(0, x, y)
  <2>1. Moves(0, x, x)
    BY <1>1, KeepsItself, KeepsMoves
  <2> HIDE DEF x
  <2> QED BY <1>1, <1>4, <2>1, MovesThenSent
<1> QED BY <1>3, <1>4, <1>5, OwnAction

(* Recv with nothing stored, called by the application. *)
LEMMA AppRecvMoves ==
  ASSUME OneSocket, TypeOK, LinkInv, ChannelInv, NEW d \in Peer, NEW s \in Sockets,
         AppRecv(d, s)
  PROVE  ChannelStep
<1> DEFINE x == dev[d]
           l == [Own(x) EXCEPT !.recvPending = TRUE]
           y == Update(x, only, l)
<1>1. x \in Device(RW[d]) /\ Orderly(RW[d], x)
  BY DEF TypeOK, ChannelInv
<1>2. s = only /\ only \in Sockets
  BY <1>1 DEF AppRecv, CanRecv, Orderly, Framed, OneSocket
<1>3. dev' = [dev EXCEPT ![d] = y]
  BY <1>2 DEF AppRecv, AwaitSdu, Own
<1>4. y \in Device(RW[d])
  <2>1. y = React(d, x, only, "recv")
    BY DEF React, AwaitSdu, Own
  <2> QED BY <1>1, <1>2, <2>1, ReactTyped
<1>5. Agrees(Own(x), l)
  BY <1>1, DeviceCounts, FlagsAgree
<1> HIDE DEF l
<1>6. Orderly(RW[d], y) /\ Keeps(x, y)
  BY <1>1, <1>5, AgreeingUpdate
<1> HIDE DEF y
<1>7. Moves(0, x, y)
  BY <1>1, <1>4, <1>6, KeepsMoves
<1> QED BY <1>3, <1>4, <1>6, <1>7, OwnAction

(* Recv with SDUs stored, called by the application. *)
LEMMA AppRecvStoredMoves ==
  ASSUME OneSocket, TypeOK, LinkInv, ChannelInv, NEW d \in Peer, NEW s \in Sockets,
         AppRecvStored(d, s)
  PROVE  ChannelStep
<1> DEFINE x == dev[d]
<1>1. x \in Device(RW[d]) /\ LinkOK(x) /\ Orderly(RW[d], x) /\ RW[d] \in Nat
  BY WindowAssumption DEF TypeOK, LinkInv, ChannelInv
<1>2. s = only /\ only \in Sockets /\ Open(x)
  BY <1>1 DEF AppRecvStored, CanRecv, Orderly, Framed, OneSocket, Open, Own
<1>3. PICK n \in 1 .. (Own(x).wr - Own(x).rd), r \in Reaction :
        /\ CanReact(d, Drain(x, only, RW[d], n), only, r)
        /\ dev' = [dev EXCEPT ![d] =
                     EndBusy(React(d, Drain(x, only, RW[d], n), only, r), only)]
  <2>1. PICK n \in 1 .. (dev[d].sock[s].wr - dev[d].sock[s].rd), r \in Reaction :
          \E y \in {Drain(dev[d], s, RW[d], n)} :
            /\ CanReact(d, y, s, r)
            /\ dev' = [dev EXCEPT ![d] = EndBusy(React(d, y, s, r), s)]
    BY DEF AppRecvStored
  <2>2. /\ CanReact(d, Drain(x, s, RW[d], n), s, r)
        /\ dev' = [dev EXCEPT ![d] = EndBusy(React(d, Drain(x, s, RW[d], n), s, r), s)]
    BY <2>1
  <2>3. n \in 1 .. (Own(x).wr - Own(x).rd)
    BY <1>2, <2>1 DEF Own
  <2> HIDE DEF x
  <2> QED BY <1>2, <2>2, <2>3
<1>4. n \in Nat /\ n <= Own(x).wr - Own(x).rd
  <2>1. Own(x).wr \in Nat /\ Own(x).rd \in Nat
    BY <1>1, DeviceCounts, CountsTyped
  <2> QED BY <2>1
<1> DEFINE y == Drain(x, only, RW[d], n)
           z == React(d, y, only, r)
           u == EndBusy(z, only)
<1>5. /\ y \in Device(RW[d]) /\ Orderly(RW[d], y) /\ Moves(0, x, y) /\ SameLink(x, y)
      /\ Own(y).accepted = Own(x).accepted /\ CanReact(d, y, only, r)
  BY <1>1, <1>2, <1>3, <1>4, DrainTyped, DrainMoves
<1>6. dev' = [dev EXCEPT ![d] = u]
  BY <1>3
<1> HIDE DEF x, y
<1>7. LinkOK(y)
  BY <1>1, <1>5, SameLinkStep
<1>8. z \in Device(RW[d]) /\ Orderly(RW[d], z) /\ (Keeps(y, z) \/ Sent(y, z))
  BY <1>1, <1>2, <1>5, <1>7, ReactTyped, ReactTakes
<1> HIDE DEF z
<1>9. Moves(0, x, z)
  BY <1>1, <1>5, <1>8, MovesCompose, MovesThenSent
<1>10. u \in Device(RW[d]) /\ Orderly(RW[d], u) /\ Keeps(z, u)
  BY <1>1, <1>2, <1>8, EndBusyTyped, EndBusyKeeps
<1> HIDE DEF u
<1>11. Moves(0, x, u)
  BY <1>1, <1>8, <1>9, <1>10, MovesCompose
<1> QED BY <1>6, <1>10, <1>11, OwnAction DEF x

(* The link completes a frame. *)
LEMMA SendDoneMoves ==
  ASSUME OneSocket, TypeOK, LinkInv, ChannelInv, NEW d \in Peer, SendDone(d)
  PROVE  ChannelStep
<1> DEFINE x == dev[d]
           i == x.socketIndex
           y == CompleteFrame(x)
<1>1. /\ x \in Device(RW[d]) /\ LinkOK(x) /\ Orderly(RW[d], x) /\ RW[d] \in Nat
      /\ x.sent /\ i \in Sockets
  <2>1. x \in Device(RW[d]) /\ LinkOK(x) /\ Orderly(RW[d], x) /\ RW[d] \in Nat /\ x.sent
    BY WindowAssumption DEF TypeOK, LinkInv, ChannelInv, SendDone
  <2> HIDE DEF x
  <2> QED BY <2>1 DEF Device
<1>2. PICK r \in {"none", "send"} :
        /\ r = "send" => CanSend(d, y, i)
        /\ dev' = [dev EXCEPT ![d] = PollSockets(d, React(d, y, i, r), x.frmr # NoFrame)]
  BY DEF SendDone
<1> DEFINE z == React(d, y, i, r)
           u == PollSockets(d, z, x.frmr # NoFrame)
<1>3. y \in Device(RW[d]) /\ LinkOK(y)
  <2>1. \E q : LinkStep(q, y)
    BY <1>1, CompleteFrameLink
  <2>2. y \in Device(RW[d])
    BY <1>1, CompleteFrameTyped
  <2> QED BY <2>1, <2>2, LinkStepOK
<1>4. /\ Orderly(RW[d], y) /\ Moves(0, x, y) /\ Own(y).accepted = Own(x).accepted
      /\ Open(y) => ~y.bSendPending
  BY <1>1, CompleteFrameMoves
<1>5. dev' = [dev EXCEPT ![d] = u]
  BY <1>2
<1>6. r = "send" => CanSend(d, y, i)
  BY <1>2
<1> HIDE DEF x, y, i
<1>7. z \in Device(RW[d]) /\ LinkOK(z)
  BY <1>1, <1>3, ReactTyped, ReactLink, LinkStepOK
<1>8. /\ Orderly(RW[d], z) /\ (Keeps(y, z) \/ Sent(y, z))
      /\ Open(z) /\ Own(z).sendPending => ~z.bSendPending
  <2>1. CASE r = "none"
    <3>1. z = y
      BY <2>1 DEF React
    <3> QED BY <1>3, <1>4, <3>1, KeepsItself
  <2>2. CASE r = "send"
    <3>1. i = only
      BY <1>1, <1>4, <1>6, <2>2 DEF CanSend, Orderly, Framed
    <3>2. r \in Reaction /\ CanReact(d, y, only, r)
      BY <1>6, <2>2, <3>1 DEF Reaction, CanReact
    <3>3. /\ Orderly(RW[d], z) /\ (Keeps(y, z) \/ Sent(y, z))
          /\ ~y.bSendPending /\ Own(z).sendPending => ~z.bSendPending
      BY <1>1, <1>3, <1>4, <3>1, <3>2, ReactTakes
    <3>4. Open(z) => Open(y)
      BY <3>3 DEF Keeps, Sent
    <3> HIDE DEF z
    <3> QED BY <1>4, <3>3, <3>4
  <2> QED BY <2>1, <2>2
<1> HIDE DEF z
<1>9. Moves(0, x, z)
  BY <1>1, <1>3, <1>4, <1>7, <1>8, MovesCompose, MovesThenSent
<1>10. u \in Device(RW[d]) /\ Orderly(RW[d], u) /\ Keeps(z, u)
  BY <1>1, <1>7, <1>8, PollSocketsTyped, PollSocketsKeeps
<1> HIDE DEF u
<1>11. Moves(0, x, u)
  BY <1>1, <1>7, <1>9, <1>10, MovesCompose
<1> QED BY <1>5, <1>10, <1>11, OwnAction DEF x

(* The symmetry timer. *)
LEMMA SendSymmMoves ==
  ASSUME OneSocket, TypeOK, LinkInv, ChannelInv, NEW d \in Peer, SendSymm(d)
  PROVE  ChannelStep
<1> DEFINE x == dev[d]
           y == SymmetryTurn(x)
           z == InternalSend(x, Symm)
<1>1. /\ x \in Device(RW[d]) /\ Orderly(RW[d], x) /\ x.state = "SEND"
      /\ dev' = [dev EXCEPT ![d] = y]
  BY DEF TypeOK, ChannelInv, SendSymm, OurTurn
<1>2. Symm \in Frame /\ Symm.type = "SYMM"
  BY FramesTyped DEF Symm, Pdu
<1>3. y \in Device(RW[d])
  BY <1>1, <1>2, InternalSendTyped, HandlePendingSendTyped DEF SymmetryTurn
<1>4. Orderly(RW[d], y) /\ Keeps(x, y)
  <2>1. CASE Queued(x)
    BY <1>1, <2>1, HandlePendingSendKeeps DEF SymmetryTurn
  <2>2. CASE ~Queued(x)
    <3>1. y = z
      BY <2>2 DEF SymmetryTurn
    <3> HIDE DEF y, x
    <3>2. /\ z.state = "RECV" /\ z.out = Symm /\ z.slot = x.slot /\ z.sent = x.sent
          /\ z.frmr = x.frmr /\ Own(z) = Own(x)
          /\ \A s \in Sockets \ {only} : z.sock[s] = x.sock[s]
      BY <1>1, <1>2, InternalSendLink, InternalSendOwn
    <3> HIDE DEF z
    <3>3. Framed(z) /\ Held(z) = Held(x) /\ Carries(Own(z), z.out)
      BY <1>1, <1>2, <3>2 DEF Orderly, Framed, Held, Queued, Carries, Open
    <3>4. Orderly(RW[d], z)
      BY <1>1, <3>2, <3>3 DEF Orderly
    <3>5. Keeps(x, z)
      <4>1. OnWire(x.out) = 0 /\ OnWire(z.out) = 0
        BY <1>1, <1>2, <3>2 DEF OnWire, Orderly, Framed
      <4> QED BY <1>1, <3>2, <4>1, DeviceCounts DEF Keeps, Arrived, Expected, Open
    <3> QED BY <3>1, <3>4, <3>5
  <2> QED BY <2>1, <2>2
<1> HIDE DEF y
<1>5. Moves(0, x, y)
  BY <1>1, <1>3, <1>4, KeepsMoves
<1> QED BY <1>1, <1>3, <1>4, <1>5, OwnAction

(* A frame arrives. *)
LEMMA ReceiveMoves ==
  ASSUME OneSocket, TypeOK, LinkInv, ChannelInv, NEW d \in Peer, Receive(d)
  PROVE  ChannelStep
<1> DEFINE o == Other(d)
           p == dev[d]
           q == dev[o]
           x == [p EXCEPT !.state = "SEND"]
           v == [q EXCEPT !.out = NoFrame]
           f == q.out
<1>1. o \in Peer /\ o # d /\ Peer = {d, o} /\ Other(o) = d /\ RW[d] \in Nat
  BY WindowAssumption DEF Peer, Other
<1>2. PICK y \in HandleIncomingPacket(d, x, f) :
        dev' = [dev EXCEPT ![d] = HandlePendingSend(y), ![o].out = NoFrame]
  BY DEF Receive
<1> DEFINE z == HandlePendingSend(y)
<1>3. dev'[d] = z /\ dev'[o] = v
  <2>1. dev = [e \in Peer |-> dev[e]]
    BY DEF TypeOK
  <2>2. dev' = [dev EXCEPT ![d] = z, ![o].out = NoFrame]
    BY <1>2
  <2> HIDE DEF z, o
  <2> QED BY <1>1, <2>1, <2>2
<1>4. /\ p \in Device(RW[d]) /\ LinkOK(p) /\ ~p.sent /\ f # NoFrame
      /\ p.out = NoFrame
  <2>1. LinkOK(p) /\ ~p.sent /\ f # NoFrame
    BY DEF LinkInv, Receive
  <2>2. p.out = NoFrame
    BY <1>1, <2>1 DEF LinkInv, OneTurn
  <2> QED BY <2>1, <2>2 DEF TypeOK
<1>5. q \in Device(RW[o]) /\ f \in Frame
  BY <1>1 DEF TypeOK, Device
<1>6. /\ Orderly(RW[d], p) /\ Orderly(RW[o], q)
      /\ Expected(p) <= Arrived(q) /\ (Open(p) => Expected(p) = Arrived(q))
      /\ Expected(q) <= Arrived(p) /\ (Open(q) => Expected(q) = Arrived(p))
  BY <1>1 DEF ChannelInv
<1> HIDE DEF o, p, q
<1>7. /\ x \in Device(RW[d]) /\ x.state = "SEND" /\ x.out = p.out /\ x.slot = p.slot
      /\ x.sent = p.sent /\ x.bSendPending = p.bSendPending /\ x.linkCb = p.linkCb
      /\ x.frmr = p.frmr /\ x.sock = p.sock
  BY <1>4 DEF Device
<1>8. /\ v \in Device(RW[o]) /\ v.out = NoFrame /\ v.state = q.state /\ v.slot = q.slot
      /\ v.sent = q.sent /\ v.frmr = q.frmr /\ v.sock = q.sock
  BY <1>5, FramesTyped DEF Device
<1> HIDE DEF x, v, f
<1>9. LinkOK(x)
  BY <1>4, <1>7 DEF LinkOK
<1>10. NoFrame.type # "I"
  BY DEF NoFrame, Pdu
<1>11. Own(x) = Own(p) /\ Own(v) = Own(q) /\ Held(x) = Held(p) /\ Held(v) = Held(q)
  BY <1>7, <1>8 DEF Own, Held, Queued
<1>12. Orderly(RW[d], x)
  <2>1. Framed(x)
    BY <1>4, <1>6, <1>7, <1>10, <1>11 DEF Orderly, Framed, Open
  <2> QED BY <1>6, <1>7, <1>11, <2>1 DEF Orderly
<1>13. Orderly(RW[o], v)
  <2>1. Framed(v)
    BY <1>6, <1>8, <1>10, <1>11 DEF Orderly, Framed, Open
  <2>2. Carries(Own(v), v.out)
    BY <1>8, <1>10 DEF Carries
  <2> QED BY <1>6, <1>8, <1>11, <2>1, <2>2 DEF Orderly
<1>14. /\ Arrived(p) \in Int /\ Expected(p) \in Int /\ Arrived(q) \in Int
       /\ Expected(q) \in Int /\ Own(q).transmitted \in Nat
       /\ OnWire(f) \in {0, 1} /\ OnWire(f) \in Nat
  BY <1>1, <1>4, <1>5, DeviceCounts DEF OnWire
<1>15. /\ Arrived(x) = Arrived(p) /\ Expected(x) = Expected(p) /\ (Open(x) <=> Open(p))
       /\ Expected(v) = Expected(q) /\ (Open(v) <=> Open(q))
  BY <1>7, <1>11 DEF Arrived, Expected, Open
<1>16. Arrived(v) = Arrived(q) + OnWire(f)
  <2>1. OnWire(v.out) = 0
    BY <1>8, <1>10 DEF OnWire
  <2>2. Arrived(v) = Own(q).transmitted - 0 /\ Arrived(q) = Own(q).transmitted - OnWire(f)
    BY <1>11, <2>1 DEF Arrived, f
  <2> QED BY <1>14, <2>2
<1>17. f.type = "I" => f.s = only
  BY <1>6 DEF Orderly, Carries, f
<1>18. f.type = "I" /\ Open(x)
         => f.sdu = Expected(x) + 1 /\ f.ns = (Base + Expected(x)) % 16
  <2> SUFFICES ASSUME f.type = "I", Open(x)
               PROVE  f.sdu = Expected(x) + 1 /\ f.ns = (Base + Expected(x)) % 16
    OBVIOUS
  <2>1. f.sdu = Own(q).transmitted /\ f.ns = (Base + Own(q).transmitted - 1) % 16
    BY <1>6 DEF Orderly, Carries, f
  <2>2. Expected(x) = Own(q).transmitted - 1
    BY <1>6, <1>15 DEF Arrived, OnWire, f
  <2>3. Base + Own(q).transmitted - 1 = Base + Expected(x)
    BY <1>14, <2>2, SduAssumption
  <2>4. f.sdu = Expected(x) + 1
    BY <1>14, <2>1, <2>2
  <2> QED BY <2>1, <2>3, <2>4
<1>19. /\ y \in Device(RW[d]) /\ Orderly(RW[d], y) /\ Moves(OnWire(f), x, y)
       /\ LinkStep(x, y)
  <2>1. Orderly(RW[d], y) /\ Moves(OnWire(f), x, y)
    BY <1>2, <1>5, <1>7, <1>9, <1>12, <1>17, <1>18, HandlerMoves
  <2> QED BY <1>2, <1>5, <1>7, <1>9, <2>1, HandleIncomingPacketTyped, HandleIncomingPacketLink
<1>20. z \in Device(RW[d]) /\ Orderly(RW[d], z) /\ Keeps(y, z)
  <2>1. CASE y.state = "SEND"
    BY <1>19, <2>1, HandlePendingSendTyped, HandlePendingSendKeeps
  <2>2. CASE y.state # "SEND"
    <3>1. y.sent
      BY <1>7, <1>19, <2>2 DEF LinkStep
    <3>2. z = y
      BY <3>1 DEF HandlePendingSend, Queued
    <3> QED BY <1>19, <3>2, KeepsItself
  <2> QED BY <2>1, <2>2
<1> HIDE DEF z
<1>21. Moves(OnWire(f), p, z)
  <2>1. Moves(OnWire(f), x, z)
    BY <1>7, <1>14, <1>19, <1>20, MovesCompose
  <2> QED BY <1>11, <1>15, <2>1 DEF Moves
<1>22. /\ Arrived(z) = Arrived(p) /\ Expected(z) <= Expected(p) + OnWire(f)
       /\ Open(z) => Open(p) /\ Expected(z) = Expected(p) + OnWire(f)
       /\ Expected(z) \in Int
  BY <1>1, <1>20, <1>21, DeviceCounts DEF Moves
<1>23. Expected(z) <= Arrived(v) /\ (Open(z) => Expected(z) = Arrived(v))
  BY <1>6, <1>14, <1>16, <1>22
<1>24. Expected(v) <= Arrived(z) /\ (Open(v) => Expected(v) = Arrived(z))
  BY <1>6, <1>15, <1>22
<1>25. ChannelInv'
  <2>1. /\ Orderly(RW[d], dev'[d]) /\ Expected(dev'[d]) <= Arrived(dev'[Other(d)])
        /\ Open(dev'[d]) => Expected(dev'[d]) = Arrived(dev'[Other(d)])
    BY <1>3, <1>20, <1>23 DEF o
  <2>2. /\ Orderly(RW[o], dev'[o]) /\ Expected(dev'[o]) <= Arrived(dev'[Other(o)])
        /\ Open(dev'[o]) => Expected(dev'[o]) = Arrived(dev'[Other(o)])
    BY <1>1, <1>3, <1>13, <1>24
  <2> QED BY <1>1, <2>1, <2>2 DEF ChannelInv
<1>26. Own(dev'[o]) = Own(dev[o])
  BY <1>3, <1>11 DEF q
<1>27. \E n \in {0, 1} : Moves(n, dev[d], dev'[d])
  BY <1>3, <1>14, <1>21 DEF p
<1> QED BY <1>1, <1>25, <1>26, <1>27 DEF ChannelStep

(* Every step. *)
LEMMA StepMoves ==
  ASSUME OneSocket, TypeOK, LinkInv, ChannelInv, [Next]_vars
  PROVE  ChannelStep
<1>1. CASE UNCHANGED vars
  BY <1>1 DEF vars, ChannelStep, ChannelInv
<1> QED BY <1>1, AppSendMoves, AppRecvMoves, AppRecvStoredMoves, SendDoneMoves, ReceiveMoves,
           SendSymmMoves DEF Next

(* No SDU is under way in the initial state. *)
LEMMA InitOrderly ==
  ASSUME OneSocket, Init
  PROVE  ChannelInv
<1>1. ASSUME NEW d \in Peer
      PROVE  LET x == dev[d]
             IN /\ Own(x) = InitSocket(RW[d], only) /\ x.slot = NoFrame /\ x.out = NoFrame
                /\ x.frmr = NoFrame /\ RW[d] \in 1 .. 15
                /\ \A s \in Sockets \ {only} : x.sock[s].state = "Default"
  BY WindowAssumption DEF Init, InitDevice, InitSocket, OneSocket, Own
<1>2. Base \in Nat /\ Base + 0 = Base
  BY SduAssumption
<1>3. NoFrame.type = "none"
  BY DEF NoFrame, Pdu
<1>4. ASSUME NEW d \in Peer
      PROVE  /\ Orderly(RW[d], dev[d]) /\ Expected(dev[d]) = 0 /\ Arrived(dev[d]) = 0
  <2> DEFINE x == dev[d]
             k == Own(x)
             w == RW[d]
  <2>1. /\ k.state = "Connected" /\ k.VS = Base % 16 /\ k.VR = Base % 16 /\ k.VRA = Base % 16
        /\ ~k.sendPending /\ ~k.sendCb /\ k.rd = 0 /\ k.wr = 0
        /\ k.ring = [i \in 0 .. (w - 1) |-> 0] /\ k.accepted = 0 /\ k.confirmed = 0
        /\ k.transmitted = 0 /\ k.received = <<>>
    <3>1. k = InitSocket(w, only) /\ only \in Used
      BY <1>1 DEF OneSocket
    <3> HIDE DEF k, w
    <3> QED BY <3>1 DEF InitSocket, Mod
  <2>2. /\ x.slot = NoFrame /\ x.out = NoFrame /\ x.frmr = NoFrame /\ w \in 1 .. 15
        /\ \A s \in Sockets \ {only} : x.sock[s].state = "Default"
    BY <1>1
  <2> HIDE DEF x, k, w
  <2>3. Held(x) = 0 /\ OnWire(x.out) = 0
    BY <1>3, <2>2 DEF Held, Queued, OnWire
  <2>4. Framed(x) /\ Carries(k, x.out)
    BY <1>3, <2>2 DEF Framed, Carries
  <2>5. Sender(k, 0, x.slot)
    <3>1. Base + 0 + 0 = Base
      BY <1>2
    <3>2. Pending(k) = 0 /\ Outstanding(k) = 0
      BY <2>1 DEF Pending, Outstanding
    <3>3. k.VS = (Base + k.transmitted + 0) % 16
      BY <2>1, <3>1
    <3>4. k.accepted = 0 /\ k.confirmed = 0 /\ k.transmitted = 0 /\ ~k.sendPending
      BY <2>1
    <3> HIDE DEF k
    <3> QED BY <3>2, <3>3, <3>4 DEF Sender
  <2>6. Len(k.received) = 0
    BY <2>1
  <2>7. Stored(w, k, 0)
    <3>1. ASSUME NEW i \in 0 .. (0 + w - 1) PROVE k.ring[Entry(w, i)] = 0
      <4>1. i \in Nat
        OBVIOUS
      <4>2. Entry(w, i) \in 0 .. (w - 1)
        BY <2>2, <4>1, RingEntries
      <4> QED BY <2>1, <4>2
    <3> QED BY <2>1, <2>2, <3>1 DEF Stored
  <2>8. Acked(w, k, 0)
    BY <1>2, <2>1, <2>2 DEF Acked
  <2>9. Receiver(w, k)
    BY <1>2, <2>1, <2>6, <2>7, <2>8 DEF Receiver
  <2>10. Expected(x) = 0 /\ Arrived(x) = 0
    BY <2>1, <2>3, <2>6 DEF Expected, Arrived, k
  <2> QED BY <2>3, <2>4, <2>5, <2>9, <2>10 DEF Orderly, k, x, w
<1>5. \A d \in Peer : Other(d) \in Peer
  BY DEF Peer, Other
<1> QED BY <1>4, <1>5 DEF ChannelInv

(* The inductive invariant holds in every reachable state. *)
THEOREM ChannelInvariant ==
  ASSUME OneSocket
  PROVE  Spec => []ChannelInv
<1>1. Init => ChannelInv
  BY InitOrderly
<1>2. TypeOK /\ LinkInv /\ ChannelInv /\ [Next]_vars => ChannelInv'
  BY StepMoves DEF ChannelStep
<1> QED BY <1>1, <1>2, TypeCorrect, LinkInvariant, PTL DEF Spec

-----------------------------------------------------------------------------
(* The channel. *)

(* SDUs that are numbered from 1 grow by the next numbers. *)
LEMMA Extends ==
  ASSUME NEW s \in Seq(Nat), NEW t \in Seq(Nat), Len(s) <= Len(t),
         \A i \in 1 .. Len(s) : s[i] = i, \A i \in 1 .. Len(t) : t[i] = i
  PROVE  t = s \o [i \in 1 .. (Len(t) - Len(s)) |-> Len(s) + i]
<1> DEFINE n == Len(s)
           m == Len(t) - n
           u == [i \in 1 .. m |-> n + i]
<1>1. n \in Nat /\ m \in Nat /\ Len(t) = n + m
  OBVIOUS
<1>2. n = Len(s)
  OBVIOUS
<1> HIDE DEF n, m
<1>3. u \in Seq(Nat) /\ Len(u) = m /\ \A i \in 1 .. m : u[i] = n + i
  BY <1>1
<1> HIDE DEF u
<1>4. Len(s \o u) = n + m /\ s \o u \in Seq(Nat)
  <2>1. s \o u \in Seq(Nat) /\ Len(s \o u) = Len(s) + Len(u)
    BY <1>3, ConcatProperties
  <2> QED BY <1>2, <1>3, <2>1
<1>5. ASSUME NEW i \in 1 .. (n + m) PROVE (s \o u)[i] = t[i]
  <2>1. t[i] = i
    BY <1>1
  <2>2. CASE i <= n
    BY <1>1, <1>2, <1>3, <2>1, <2>2
  <2>3. CASE ~(i <= n)
    <3>1. i - n \in 1 .. m /\ n + (i - n) = i
      BY <1>1, <2>3
    <3>2. (s \o u)[i] = u[i - n]
      BY <1>1, <1>2, <1>3, <2>3
    <3> QED BY <1>3, <2>1, <3>1, <3>2
  <2> QED BY <2>2, <2>3
<1>6. t = s \o u
  <2>1. Len(t) = Len(s \o u) /\ \A i \in 1 .. Len(t) : t[i] = (s \o u)[i]
    BY <1>1, <1>4, <1>5
  <2> QED BY <1>4, <2>1, SeqEqual
<1> QED BY <1>6 DEF u, m, n

(* What a step does at one end. *)
LEMMA EndMoves ==
  ASSUME OneSocket, TypeOK, TypeOK', ChannelInv, ChannelStep, NEW d \in Peer
  PROVE  LET k == Own(dev[d])
             l == Own(dev'[d])
         IN /\ \/ l.accepted = k.accepted
               \/ /\ k.state = "Connected" /\ l.accepted = k.accepted + 1
                  /\ l.confirmed = k.accepted
            /\ k.transmitted <= l.transmitted /\ l.transmitted <= l.accepted
            /\ k.confirmed <= l.confirmed /\ l.confirmed <= l.transmitted
            /\ l.confirmed # k.confirmed => k.state = "Connected"
            /\ Len(k.received) <= Len(l.received)
            /\ Len(l.received) <= Own(dev'[Other(d)]).transmitted
            /\ l.received =
                 k.received
                   \o [i \in 1 .. (Len(l.received) - Len(k.received)) |-> Len(k.received) + i]
            /\ l.received # k.received => k.state = "Connected"
            /\ l.state = "Connected" => k.state = "Connected"
<1> DEFINE x == dev[d]
           y == dev'[d]
           z == dev'[Other(d)]
           k == Own(x)
           l == Own(y)
           m == Own(z)
<1>1. /\ x \in Device(RW[d]) /\ y \in Device(RW[d]) /\ z \in Device(RW[Other(d)])
      /\ Other(d) \in Peer
  BY DEF TypeOK, Peer, Other
<1>2. Orderly(RW[d], x) /\ Orderly(RW[d], y) /\ Expected(y) <= Arrived(z)
  BY <1>1 DEF ChannelStep, ChannelInv
<1>3. l = k \/ \E n \in {0, 1} : Moves(n, x, y)
  BY DEF ChannelStep
<1> HIDE DEF x, y, z
<1>4. /\ k.accepted \in Nat /\ k.confirmed \in Nat /\ k.transmitted \in Nat
      /\ l.accepted \in Nat /\ l.confirmed \in Nat /\ l.transmitted \in Nat
      /\ k.received \in Seq(Nat) /\ l.received \in Seq(Nat)
      /\ Len(k.received) \in Nat /\ Len(l.received) \in Nat
      /\ l.rd \in Nat /\ l.wr \in Nat /\ m.transmitted \in Nat
  BY <1>1, DeviceCounts, CountsTyped
<1>5. /\ \/ l.accepted = k.accepted
         \/ /\ k.state = "Connected" /\ l.accepted = k.accepted + 1
            /\ l.confirmed = k.accepted
      /\ k.transmitted <= l.transmitted /\ k.confirmed <= l.confirmed
      /\ l.confirmed # k.confirmed => k.state = "Connected"
      /\ Len(k.received) <= Len(l.received)
      /\ l.received # k.received => k.state = "Connected"
      /\ l.state = "Connected" => k.state = "Connected"
  <2>1. CASE l = k
    BY <1>4, <2>1
  <2>2. CASE \E n \in {0, 1} : Moves(n, x, y)
    BY <2>2 DEF Moves, Open
  <2> QED BY <1>3, <2>1, <2>2
<1>6. l.transmitted <= l.accepted /\ l.confirmed <= l.transmitted
  <2>1. l.transmitted + Held(y) <= l.accepted /\ l.confirmed <= l.transmitted
    BY <1>2 DEF Orderly, Sender
  <2>2. Held(y) \in {0, 1}
    BY DEF Held
  <2> QED BY <1>4, <2>1, <2>2
<1>7. Len(l.received) <= m.transmitted
  <2>1. l.rd <= l.wr
    BY <1>2 DEF Orderly, Receiver
  <2>2. Expected(y) = Len(l.received) + l.wr - l.rd /\ Arrived(z) = m.transmitted - OnWire(z.out)
        /\ OnWire(z.out) \in {0, 1}
    BY DEF Expected, Arrived, OnWire
  <2> HIDE DEF l, m
  <2> QED BY <1>2, <1>4, <2>1, <2>2
<1>8. /\ \A i \in 1 .. Len(k.received) : k.received[i] = i
      /\ \A i \in 1 .. Len(l.received) : l.received[i] = i
  BY <1>2 DEF Orderly, Receiver
<1>9. l.received = k.received
        \o [i \in 1 .. (Len(l.received) - Len(k.received)) |-> Len(k.received) + i]
  BY <1>4, <1>5, <1>8, Extends
<1> QED BY <1>5, <1>6, <1>7, <1>9 DEF x, y, z

(* A step of the transport is one of the channel. *)
LEMMA StepAbstract ==
  ASSUME OneSocket, TypeOK, TypeOK', ChannelInv, ChannelStep
  PROVE  Channel!Next
<1> SUFFICES ASSUME NEW e \in Ends
             PROVE  /\ Channel!Submits(e) /\ Channel!Carries(e) /\ Channel!Confirms(e)
                    /\ Channel!Receives(e) /\ Channel!Closes(e)
  BY DEF Channel!Next
<1>1. PICK d \in Peer : e = <<d, only>>
  BY DEF Ends, OneSocket
<1>2. /\ At(e) = Own(dev[d]) /\ At(e)' = Own(dev'[d])
      /\ FarEnd(e) \in Ends /\ At(FarEnd(e))' = Own(dev'[Other(d)])
  BY <1>1 DEF At, Own, FarEnd, Ends, OneSocket, Peer, Other
<1> DEFINE k == At(e)
           l == At(e)'
           m == At(FarEnd(e))'
<1>3. /\ \/ l.accepted = k.accepted
         \/ /\ k.state = "Connected" /\ l.accepted = k.accepted + 1
            /\ l.confirmed = k.accepted
      /\ k.transmitted <= l.transmitted /\ l.transmitted <= l.accepted
      /\ k.confirmed <= l.confirmed /\ l.confirmed <= l.transmitted
      /\ l.confirmed # k.confirmed => k.state = "Connected"
      /\ Len(k.received) <= Len(l.received) /\ Len(l.received) <= m.transmitted
      /\ l.received = k.received
           \o [i \in 1 .. (Len(l.received) - Len(k.received)) |-> Len(k.received) + i]
      /\ l.received # k.received => k.state = "Connected"
      /\ l.state = "Connected" => k.state = "Connected"
  BY <1>1, <1>2, EndMoves, Zenon
<1>4. Channel!Submits(e)
  BY <1>2, <1>3 DEF Channel!Submits
<1>5. Channel!Carries(e)
  BY <1>2, <1>3 DEF Channel!Carries
<1>6. Channel!Confirms(e)
  BY <1>2, <1>3 DEF Channel!Confirms
<1>7. Channel!Receives(e)
  BY <1>2, <1>3 DEF Channel!Receives
<1>8. Channel!Closes(e)
  BY <1>2, <1>3 DEF Channel!Closes
<1> QED BY <1>4, <1>5, <1>6, <1>7, <1>8

(* The initial state is one of the channel. *)
LEMMA InitAbstract ==
  ASSUME Init
  PROVE  Channel!Init
<1>1. \A e \in Ends : /\ At(e).accepted = 0 /\ At(e).confirmed = 0
                      /\ At(e).transmitted = 0 /\ At(e).received = <<>>
  <2> SUFFICES ASSUME NEW d \in Peer, NEW s \in Used
               PROVE  /\ At(<<d, s>>).accepted = 0 /\ At(<<d, s>>).confirmed = 0
                      /\ At(<<d, s>>).transmitted = 0 /\ At(<<d, s>>).received = <<>>
    BY DEF Ends
  <2>1. At(<<d, s>>) = InitSocket(RW[d], s)
    BY SocketAssumption DEF At, Init, InitDevice
  <2> QED BY <2>1 DEF InitSocket
<1> QED BY <1>1 DEF Channel!Init

(* Whatever the two receive windows, the traffic and the numbers the       *)
(* connection starts from, the SDUs of a connection are handed over in the *)
(* order of their submission, each once, none before it was put on the     *)
(* way, and a Send is confirmed only once its SDU is on the way.  With     *)
(* more than one connected socket this is not so: the callback of one may  *)
(* be called for the frame of another.                                     *)
THEOREM ChannelImplemented ==
  ASSUME OneSocket
  PROVE  Spec => ImplementsChannel
<1>1. TypeOK /\ TypeOK' /\ LinkInv /\ ChannelInv /\ [Next]_vars => Channel!Next
  BY StepMoves, StepAbstract
<1>2. Init => Channel!Init
  BY InitAbstract
<1> QED BY <1>1, <1>2, TypeCorrect, LinkInvariant, ChannelInvariant, PTL
        DEF Spec, ImplementsChannel, Channel!Spec
=============================================================================
