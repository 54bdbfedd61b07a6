------------------------------- MODULE Comms -------------------------------
(***************************************************************************)
(* From the bytes a client sends to the answer it gets: the serial port, the *)
(* websocket and the telnet server, serial_poll_rx() and the receive rings,  *)
(* the line that protocol_main_loop() assembles, the answers, a soft reset,  *)
(* and the feed and rapid overrides.                                         *)
(*                                                                          *)
(* There is one processor. The poll ticker and the network callbacks run only *)
(* where the main program yields (AtYield), one at a time and to the end; the *)
(* serial port's interrupt may add bytes at any moment.                      *)
(*                                                                          *)
(* A byte is its place in text[c], all that client c has sent so far; only    *)
(* its kind matters. TxSize counts answers, a report as two. What a line does  *)
(* is the other modules'.                                                    *)
(***************************************************************************)
EXTENDS Integers, Sequences, FiniteSets

CONSTANTS
  IndexSize,  \* 256: the indices of a receive ring are uint8_t
  RingSlots,  \* RX_RING_BUFFER
  UartSize,   \* the serial library's buffer
  SocketSize, \* RXBUFFERSIZE
  TelnetSize, \* TELNET_RXBUFFERSIZE
  TxSize,     \* TXBUFFERSIZE
  LineSize,   \* LINE_BUFFER_SIZE
  Scenarios   \* what each client sends, packet by packet, and what may happen to it

Serial == 1
WebSocket == 2
Telnet == 3
Servers == {WebSocket, Telnet}
Clients == {Serial} \cup Servers

Feed == {"feedReset", "coarsePlus", "coarseMinus", "finePlus", "fineMinus"}
Rapid == {"rapidReset", "rapidMedium", "rapidLow"}
Realtime == Feed \cup Rapid \cup {"reset", "status", "unknown"}
Kinds == Realtime \cup {"x", "blank", "open", "close", "semicolon", "eol"}

ASSUME CommsAssumption ==
  /\ IndexSize \in Nat \ {0, 1} /\ RingSlots \in Nat \ {0, 1}
  /\ UartSize \in Nat /\ SocketSize \in Nat \ {0} /\ TelnetSize \in Nat \ {0}
  /\ TxSize \in Nat \ {0} /\ LineSize \in Nat \ {0}
  /\ \A s \in Scenarios : /\ \A c \in Clients : s.packets[c] \in Seq(Seq(Kinds))
                          /\ \A c \in Clients : s.window[c] \in Nat
                          /\ s.sessions \in Nat
                          /\ {s.split, s.closes} \subseteq BOOLEAN

VARIABLES
  scn,        \* a member of Scenarios (never changes)
  packets,    \* packets sent so far by each client
  text,       \* their bytes
  uart,       \* bytes in the serial library's buffer
  net,        \* _RXbuffer, _RXbufferpos, _RXbufferSize of both servers
  lost,       \* history: bytes dropped on the way
  rx,         \* serial_rx_buffer, _head, _tail
  got,        \* history: the last byte read from each ring
  polling,    \* serial_poll_rx() runs
  socketOpen, \* the websocket has a client
  conn,       \* telnet: the connections so far
  slot,       \* _telnetClients[0], 0 if NULL
  tx,         \* _TXbuffer: answers, by the number of their line, and reports
  stale,      \* FLUSHTIMEOUT has passed since _lastflush
  delivered,  \* answers that reached the client, reports left out
  answered,   \* history: lines answered
  resetFlag,  \* EXEC_RESET
  abort,      \* sys.abort
  feed,       \* sys.f_override
  rapid,      \* sys.r_override
  pending,    \* sys_rt_exec_motion_override
  asked,      \* history: a rise of the feed was asked for since the last pass
  pc,         \* where the main program is
  client,     \* the client whose ring is read
  line,       \* line[], its length is char_counter
  flags,      \* line_flags
  last        \* history: the line last ended

wire == <<packets, text, uart, net, lost>>
channel == <<socketOpen, conn, slot>>
out == <<tx, stale, delivered>>
override == <<feed, rapid, pending, asked>>
assembly == <<line, flags>>
vars == <<scn, wire, rx, got, polling, channel, out, answered, resetFlag, abort, override, pc, client,
          assembly, last>>

----------------------------------------------------------------------------
(* Rings *)

\* The index is incremented as uint8_t, so it wraps before it reaches RX_RING_BUFFER.
NextSlot(i) == LET n == (i + 1) % IndexSize IN IF n = RingSlots THEN 0 ELSE n

\* The i-th place from first on, counted round.
Cell(first, i, Size) == IF first + i - 1 < Size THEN first + i - 1 ELSE first + i - 1 - Size

Period == IF RingSlots < IndexSize THEN RingSlots ELSE IndexSize
Ring == [buf : [0 .. RingSlots - 1 -> Nat], head : 0 .. Period - 1, tail : 0 .. Period - 1]

RxEmpty(r) == r.head = r.tail
RxFull(r) == NextSlot(r.head) = r.tail
RxPut(r, b) == [r EXCEPT !.buf[r.head] = b, !.head = NextSlot(r.head)]
RxTake(r) == [r EXCEPT !.tail = NextSlot(r.tail)]
RxReset(r) == [r EXCEPT !.tail = r.head]

\* What is in a ring, the byte to be read first in front.
InRing(r) == [i \in 1 .. (IF r.head >= r.tail THEN r.head - r.tail ELSE Period + r.head - r.tail) |->
                r.buf[Cell(r.tail, i, Period)]]

FitsBelow(len, size, Size) == len + size < Size
Fits(len, size, Size) == len + size <= Size

PushFromStart(r, Size) == IF r.pos + r.size > Size THEN 0 ELSE r.pos + r.size
\* Where push() puts its first byte, and then byte i.
PushFrom(r, Size) == LET current == r.pos + r.size
                     IN  IF current > Size THEN current - Size ELSE current
PushCell(r, Size, i) == Cell(PushFrom(r, Size), i, Size)

Push(r, data, Size) ==
  IF Fits(Len(data), r.size, Size)
    THEN [r EXCEPT !.buf = [k \in 0 .. Size - 1 |->
                              LET at == {i \in 1 .. Len(data) : PushCell(r, Size, i) = k}
                              IN  IF at = {} THEN r.buf[k] ELSE data[CHOOSE i \in at : TRUE]],
                   !.size = @ + Len(data)]
    ELSE r

Pop(r, Size) == [r EXCEPT !.pos = IF @ + 1 > Size - 1 THEN 0 ELSE @ + 1, !.size = @ - 1]

NetSize(c) == IF c = WebSocket THEN SocketSize ELSE TelnetSize
NetBuffer(Size) == [buf : [0 .. Size - 1 -> Nat], pos : 0 .. Size - 1, size : 0 .. Size]
InBuffer(r, Size) == [i \in 1 .. r.size |-> r.buf[Cell(r.pos, i, Size)]]

----------------------------------------------------------------------------
(* Answers *)

Slotted == slot # 0 /\ conn[slot] = "open"

Tx == [answers : Seq(Nat), reports : Nat]
Nothing == [answers |-> <<>>, reports |-> 0]
With(t, a) == IF a = 0 THEN [t EXCEPT !.reports = @ + 1] ELSE [t EXCEPT !.answers = Append(@, a)]
TxLen(t) == Len(t.answers) + 2 * t.reports

\* The answers left in the websocket's buffer, those that leave it, and whether it is stale.
Kept(t, s) == [tx |-> t, flushed |-> <<>>, stale |-> s]
Flushed(t) == [tx |-> Nothing, flushed |-> t.answers, stale |-> FALSE]

HandleFlushFull(t, s) == IF TxLen(t) >= TxSize THEN Flushed(t) ELSE Kept(t, s)
HandleFlush(t, s) == IF t # Nothing /\ (TxLen(t) >= TxSize \/ s) THEN Flushed(t) ELSE Kept(t, s)

SocketWriteOver(a) ==
  HandleFlush(IF TxLen(With(tx, a)) > TxSize THEN With(Nothing, a) ELSE With(tx, a), FALSE)
\* Serial_2_Socket::write(): a full buffer is flushed before the answer is added.
SocketWrite(a) ==
  LET s == tx # Nothing /\ stale
      full == TxLen(With(tx, a)) > TxSize
      h == HandleFlush(IF full THEN With(Nothing, a) ELSE With(tx, a), s /\ ~full)
  IN  [h EXCEPT !.flushed = IF full THEN tx.answers \o @ ELSE @]

Take(h) == /\ tx' = h.tx /\ stale' = h.stale
           /\ delivered' = IF ~socketOpen THEN delivered
                           ELSE [delivered EXCEPT ![WebSocket] = @ \o h.flushed]

\* grbl_send() of the answer to line a, or of a report (0). Reports are not counted as delivered.
Send(c, a) ==
  IF c = WebSocket THEN Take(SocketWrite(a))
  ELSE /\ delivered' = IF a # 0 /\ (c = Serial \/ Slotted)
                         THEN [delivered EXCEPT ![c] = Append(@, a)] ELSE delivered
       /\ UNCHANGED <<tx, stale>>

----------------------------------------------------------------------------
(* Clients. A client that is paced lets no more bytes than its window be     *)
(* unanswered, and sends realtime commands no faster than they are polled.   *)

AtYield == pc \in {"read", "run", "init"} /\ ~polling

Frame(c) == LET p == scn.packets[c][packets[c] + 1]
            IN  IF c = WebSocket THEN Append(p, "eol") ELSE p
Places(c) == [i \in 1 .. Len(Frame(c)) |-> Len(text[c]) + i]

Eols(c) == {n \in DOMAIN text[c] : text[c][n] = "eol"}
EolsTo(c, n) == Cardinality({m \in Eols(c) : m <= n})
InNet(c) == IF c = Serial THEN uart
            ELSE InBuffer(net[c], NetSize(c))
Unanswered(c) == {n \in DOMAIN text[c] :
                    IF text[c][n] \in Realtime THEN \E i \in DOMAIN InNet(c) : InNet(c)[i] = n
                    ELSE EolsTo(c, n - 1) >= Len(delivered[c])}

Sends(c) ==
  /\ packets[c] < Len(scn.packets[c])
  /\ Cardinality(Unanswered(c)) + Len(Frame(c)) <= scn.window[c]
  /\ packets' = [packets EXCEPT ![c] = @ + 1]
  /\ text' = [text EXCEPT ![c] = @ \o Frame(c)]
  /\ UNCHANGED <<scn, rx, got, polling, channel, out, answered, resetFlag, abort, override, pc, client,
                 assembly, last>>

UartReceive ==
  /\ Sends(Serial)
  /\ LET all == uart \o Places(Serial)
         kept == IF Len(all) > UartSize THEN UartSize ELSE Len(all) IN
       /\ uart' = SubSeq(all, 1, kept)
       /\ lost' = [lost EXCEPT ![Serial] = @ + Len(all) - kept]
  /\ UNCHANGED net

Pushes(c) ==
  /\ net' = [net EXCEPT ![c] = Push(@, Places(c), NetSize(c))]
  /\ lost' = [lost EXCEPT ![c] = @ + IF Fits(Len(Frame(c)), net[c].size, NetSize(c)) THEN 0
                                     ELSE Len(Frame(c))]
  /\ UNCHANGED uart

SocketFrame == AtYield /\ socketOpen /\ Sends(WebSocket) /\ Pushes(WebSocket)

\* A message that does not come in one piece is ignored.
SocketFragment ==
  /\ AtYield /\ socketOpen /\ scn.split
  /\ Sends(WebSocket)
  /\ lost' = [lost EXCEPT ![WebSocket] = @ + Len(Frame(WebSocket))]
  /\ UNCHANGED <<uart, net>>

TelnetData == AtYield /\ (\E k \in DOMAIN conn : conn[k] = "open") /\ Sends(Telnet) /\ Pushes(Telnet)

ChannelOnly == UNCHANGED <<scn, wire, rx, got, polling, out, answered, resetFlag, abort, override, pc,
                           client, assembly, last>>

SocketOpens == ~socketOpen /\ AtYield /\ socketOpen' = TRUE /\ ChannelOnly /\ UNCHANGED <<conn, slot>>
SocketCloses == socketOpen /\ AtYield /\ scn.closes /\ socketOpen' = FALSE /\ ChannelOnly
                /\ UNCHANGED <<conn, slot>>

\* handleNewClient(): a slot is free if its connection is no longer established.
TelnetConnect ==
  /\ AtYield /\ Len(conn) < scn.sessions
  /\ conn' = Append(conn, IF Slotted THEN "lost" ELSE "open")
  /\ slot' = IF Slotted THEN slot ELSE Len(conn) + 1
  /\ ChannelOnly /\ UNCHANGED socketOpen

\* The peer closes; handleDisconnect() comes later.
TelnetDrops(k) ==
  /\ AtYield /\ scn.closes /\ conn[k] = "open"
  /\ conn' = [conn EXCEPT ![k] = "lost"]
  /\ ChannelOnly /\ UNCHANGED <<socketOpen, slot>>

SlotFreed(k) == 0
SlotAfter(k) == IF slot = k THEN 0 ELSE slot

TelnetDisconnected(k) ==
  /\ AtYield /\ conn[k] = "lost"
  /\ conn' = [conn EXCEPT ![k] = "closed"]
  /\ slot' = SlotAfter(k)
  /\ ChannelOnly /\ UNCHANGED socketOpen

FlushTimePasses ==
  /\ tx # Nothing /\ ~stale
  /\ stale' = TRUE
  /\ UNCHANGED <<scn, wire, rx, got, polling, channel, tx, delivered, answered, resetFlag, abort,
                 override, pc, client, assembly, last>>

----------------------------------------------------------------------------
(* serial_poll_rx(): drains all three channels, the serial port first. A poll *)
(* that would find and flush nothing is left out.                            *)

Available == (IF uart # <<>> THEN {Serial} ELSE {})
             \cup {c \in Servers : net[c].size > 0}
FlushDue == tx # Nothing /\ stale

PollStarts ==
  /\ AtYield /\ (Available # {} \/ FlushDue)
  /\ polling' = TRUE
  /\ UNCHANGED <<scn, wire, rx, got, channel, out, answered, resetFlag, abort, override, pc, client,
                 assembly, last>>

\* What the byte at place b of client c does, once it is out of its channel.
PickedOff(c, b) ==
  LET kind == text[c][b] IN
    /\ resetFlag' = (resetFlag \/ kind = "reset")
    /\ pending' = IF kind \in Feed \cup Rapid THEN pending \cup {kind} ELSE pending
    /\ asked' = (asked \/ kind \in {"feedReset", "coarsePlus", "finePlus"})
    /\ IF kind = "status" THEN Send(c, 0) ELSE UNCHANGED out
    /\ rx' = IF kind \in Realtime \/ RxFull(rx[c]) THEN rx ELSE [rx EXCEPT ![c] = RxPut(@, b)]
    /\ lost' = IF kind \in Realtime \/ ~RxFull(rx[c]) THEN lost ELSE [lost EXCEPT ![c] = @ + 1]
    /\ UNCHANGED <<scn, packets, text, got, polling, channel, answered, abort, feed, rapid, pc, client,
                   assembly, last>>

PollByte ==
  /\ polling /\ Available # {}
  /\ LET c == CHOOSE d \in Available : \A e \in Available : d <= e IN
       IF c = Serial
         THEN uart' = Tail(uart) /\ UNCHANGED net /\ PickedOff(c, Head(uart))
         ELSE /\ net' = [net EXCEPT ![c] = Pop(@, NetSize(c))]
              /\ UNCHANGED uart
              /\ PickedOff(c, net[c].buf[net[c].pos])

PollEnds ==
  /\ polling /\ Available = {}
  /\ polling' = FALSE
  /\ Take(HandleFlush(tx, stale))
  /\ UNCHANGED <<scn, wire, rx, got, channel, answered, resetFlag, abort, override, pc, client, assembly,
                 last>>

----------------------------------------------------------------------------
(* Overrides *)

Cut(n, lo, hi) == IF n > hi THEN hi ELSE IF n < lo THEN lo ELSE n
Given(fl, o, n) == IF o \in fl THEN n ELSE 0

\* The sums are of uint8_t: below zero they wrap to the maximum.
NewFeed(f, fl) ==
  LET base == IF "feedReset" \in fl THEN 100 ELSE f
      sum == base + Given(fl, "coarsePlus", 10) - Given(fl, "coarseMinus", 10)
                  + Given(fl, "finePlus", 1) - Given(fl, "fineMinus", 1)
  IN  Cut(sum % 256, 10, 200)

NewRapid(r, fl) == IF "rapidLow" \in fl THEN 25 ELSE IF "rapidMedium" \in fl THEN 50
                   ELSE IF "rapidReset" \in fl THEN 100 ELSE r

StillPending(fl) == fl
LeftPending(fl) == {}

\* protocol_execute_realtime(): a reset aborts before anything else is looked at.
Pass ==
  IF resetFlag THEN abort' = TRUE /\ UNCHANGED override
  ELSE /\ feed' = NewFeed(feed, pending)
       /\ rapid' = NewRapid(rapid, pending)
       /\ pending' = LeftPending(pending)
       /\ asked' = FALSE
       /\ UNCHANGED abort

----------------------------------------------------------------------------
(* protocol_main_loop() *)

HasData(c) == ~RxEmpty(rx[c])
Readable == {c \in Clients : c >= client /\ HasData(c)}
Reading == CHOOSE c \in Readable : \A d \in Readable : c <= d

LineFullLate == Len(line) >= LineSize
LineFull == Len(line) >= LineSize - 1

Assemble(c, b) ==
  LET kind == text[c][b] IN
  IF flags # {}
    THEN /\ flags' = IF kind = "close" THEN flags \ {"parentheses"} ELSE flags
         /\ UNCHANGED line
    ELSE CASE kind = "blank"     -> UNCHANGED assembly
           [] kind = "open"      -> flags' = {"parentheses"} /\ UNCHANGED line
           [] kind = "semicolon" -> flags' = {"semicolon"} /\ UNCHANGED line
           [] OTHER -> IF LineFull THEN flags' = {"overflow"} /\ UNCHANGED line
                       ELSE line' = Append(line, <<c, b>>) /\ UNCHANGED flags

AnswerKeepsFlags(c) ==
  /\ Send(c, answered[c] + 1)
  /\ answered' = [answered EXCEPT ![c] = @ + 1]
  /\ line' = <<>> /\ UNCHANGED flags
  /\ pc' = "read"
Answer(c) ==
  /\ Send(c, answered[c] + 1)
  /\ answered' = [answered EXCEPT ![c] = @ + 1]
  /\ line' = <<>> /\ flags' = {}
  /\ pc' = "read"

\* An overflowed or empty line is answered at once; any other is executed first.
EndOfLine(c, b) ==
  /\ Pass
  /\ IF resetFlag THEN pc' = "init" /\ UNCHANGED <<out, answered, assembly, last>>
     ELSE /\ last' = [by |-> c, at |-> b, line |-> line, over |-> "overflow" \in flags]
          /\ IF "overflow" \in flags \/ line = <<>> THEN Answer(c)
             ELSE pc' = "run" /\ UNCHANGED <<out, answered, assembly>>

Read ==
  /\ pc = "read" /\ ~polling /\ Readable # {}
  /\ LET c == Reading
         b == rx[c].buf[rx[c].tail] IN
       /\ rx' = [rx EXCEPT ![c] = RxTake(@)]
       /\ got' = [got EXCEPT ![c] = b]
       /\ client' = c
       /\ IF text[c][b] = "eol" THEN EndOfLine(c, b) /\ UNCHANGED resetFlag
          ELSE Assemble(c, b) /\ UNCHANGED <<out, answered, resetFlag, abort, override, pc, last>>
  /\ UNCHANGED <<scn, wire, polling, channel>>

\* A line that waits (full planner, synchronize, dwell) runs the realtime commands as it waits.
RunPass ==
  /\ pc = "run" /\ ~polling /\ (pending # {} \/ resetFlag) /\ ~abort
  /\ Pass
  /\ UNCHANGED <<scn, wire, rx, got, polling, channel, out, answered, resetFlag, pc, client, assembly,
                 last>>

LineDone ==
  /\ pc = "run" /\ ~polling
  /\ Answer(client)
  /\ UNCHANGED <<scn, wire, rx, got, polling, channel, resetFlag, abort, override, client, last>>

\* No data left for the clients still to be read.
Idle ==
  /\ pc = "read" /\ ~polling /\ Readable = {}
  /\ Pass
  /\ client' = Serial
  /\ pc' = IF resetFlag THEN "init" ELSE pc
  /\ UNCHANGED <<scn, wire, rx, got, polling, channel, out, answered, resetFlag, assembly, last>>

\* loop() after an abort, up to the main loop.
Reinit ==
  /\ pc = "init" /\ ~polling
  /\ rx' = [c \in Clients |-> RxReset(rx[c])]
  /\ resetFlag' = FALSE /\ abort' = FALSE /\ pending' = {} /\ asked' = FALSE
  /\ feed' = 100 /\ rapid' = 100
  /\ line' = <<>> /\ flags' = {} /\ client' = Serial
  /\ pc' = "read"
  /\ Take(SocketWrite(0))
  /\ UNCHANGED <<scn, wire, got, polling, channel, answered, last>>

----------------------------------------------------------------------------
NoLine == [by |-> Serial, at |-> 0, line |-> <<>>, over |-> FALSE]
EmptyNet(Size) == [buf |-> [k \in 0 .. Size - 1 |-> 0], pos |-> 0, size |-> 0]

Init ==
  /\ scn \in Scenarios
  /\ packets = [c \in Clients |-> 0] /\ text = [c \in Clients |-> <<>>]
  /\ uart = <<>> /\ net = [c \in Servers |-> EmptyNet(NetSize(c))]
  /\ lost = [c \in Clients |-> 0]
  /\ rx = [c \in Clients |-> [buf |-> [k \in 0 .. RingSlots - 1 |-> 0], head |-> 0, tail |-> 0]]
  /\ got = [c \in Clients |-> 0]
  /\ polling = FALSE
  /\ socketOpen = FALSE /\ conn = <<>> /\ slot = 0
  /\ tx = Nothing /\ stale = FALSE /\ delivered = [c \in Clients |-> <<>>]
  /\ answered = [c \in Clients |-> 0]
  /\ resetFlag = FALSE /\ abort = FALSE
  /\ feed = 100 /\ rapid = 100 /\ pending = {} /\ asked = FALSE
  /\ pc = "read" /\ client = Serial /\ line = <<>> /\ flags = {}
  /\ last = NoLine

Network ==
  \/ SocketFrame \/ SocketFragment \/ SocketOpens \/ SocketCloses
  \/ TelnetData \/ TelnetConnect
  \/ \E k \in DOMAIN conn : TelnetDrops(k) \/ TelnetDisconnected(k)
Poll == PollByte \/ PollEnds
Main == Read \/ RunPass \/ LineDone \/ Idle \/ Reinit
Next == UartReceive \/ Network \/ FlushTimePasses \/ PollStarts \/ Poll \/ Main

Spec == Init /\ [][Next]_vars

(* The ticker is due every 33 ms and runs at the next yield, so the main       *)
(* program cannot pass it over for ever; nothing is asked of the clients.     *)
LiveSpec == /\ Spec
            /\ SF_vars(PollStarts) /\ WF_vars(Poll) /\ WF_vars(Main)
            /\ WF_vars(FlushTimePasses)

----------------------------------------------------------------------------
(* Properties *)

ChannelSize(c) == IF c = Serial THEN UartSize ELSE NetSize(c)
Lossless(c) == scn.window[c] <= ChannelSize(c) /\ scn.window[c] <= Period - 1
Steady == ~scn.split /\ ~scn.closes /\ scn.sessions <= 1
          /\ \A c \in Clients : /\ Lossless(c)
                               /\ \A i \in DOMAIN scn.packets[c] :
                                    \A j \in DOMAIN scn.packets[c][i] : scn.packets[c][i][j] # "reset"

Line == Seq(Clients \X Nat)

\* The line buffer and the rings are never indexed out of bounds, and the overrides stay in range
\* (protocol.cpp:138-146, 414-422, serial.cpp:77, 159-166, telnet_server.cpp:146-171).
WireOK == /\ scn \in Scenarios /\ packets \in [Clients -> Nat] /\ text \in [Clients -> Seq(Kinds)]
          /\ uart \in Seq(Nat) /\ Len(uart) <= UartSize
          /\ net \in [Servers -> NetBuffer(SocketSize) \cup NetBuffer(TelnetSize)]
          /\ \A c \in Servers : net[c] \in NetBuffer(NetSize(c))
          /\ lost \in [Clients -> Nat]
RingsOK == rx \in [Clients -> Ring] /\ got \in [Clients -> Nat]
ChannelOK == conn \in Seq({"open", "lost", "closed"}) /\ slot \in 0 .. Len(conn) /\ socketOpen \in BOOLEAN
OutOK == /\ tx \in Tx /\ TxLen(tx) < TxSize /\ stale \in BOOLEAN
         /\ delivered \in [Clients -> Seq(Nat)] /\ answered \in [Clients -> Nat]
OverrideOK == /\ feed \in 10 .. 200 /\ rapid \in {25, 50, 100} /\ pending \subseteq Feed \cup Rapid
              /\ asked \in BOOLEAN /\ resetFlag \in BOOLEAN /\ abort \in BOOLEAN
MainOK == /\ pc \in {"read", "run", "init"} /\ client \in Clients /\ polling \in BOOLEAN
          /\ line \in Line /\ Len(line) < LineSize
          /\ flags \in {{}, {"parentheses"}, {"semicolon"}, {"overflow"}}
          /\ last \in [by : Clients, at : Nat, line : Line, over : BOOLEAN]
TypeOK == WireOK /\ RingsOK /\ ChannelOK /\ OutOK /\ OverrideOK /\ MainOK

\* The bytes of a client on their way, the one to be read first in front.
InRx(c) == InRing(rx[c])
OnTheWay(c) == <<got[c]>> \o InRx(c) \o InNet(c)

\* Whatever is dropped or wiped, the bytes of a client are read in the order they were sent and none
\* twice, through two rings of which one has more slots than its indices can reach
\* (serial.cpp:65-86, 159-172, telnet_server.cpp:146-171, serial2socket.cpp:112-136).
InOrder ==
  \A c \in Clients : \A i, j \in DOMAIN OnTheWay(c) : i < j => OnTheWay(c)[i] < OnTheWay(c)[j]

\* A client that counts the bytes of its unanswered lines, and keeps them within the smallest buffer
\* on their way, loses none: each ring can be filled to its last usable slot (serial.cpp:166,
\* telnet_server.cpp:147, serial2socket.cpp:114).
NothingLost == Steady => \A c \in Clients : lost[c] = 0

\* The answers that reached a client or wait for it.
Due(c) == delivered[c] \o (IF c = WebSocket THEN tx.answers ELSE <<>>)

\* Every line that was ended gets one answer, sent to the client whose end of line it was, and the
\* answers arrive in the order of the lines, for all the buffering of the websocket's
\* (report.cpp:130-140, serial2socket.cpp:87-105, 138-160).
AnsweredOnce ==
  Steady => \A c \in Clients \ {Telnet} : Due(c) = [k \in 1 .. answered[c] |-> k]

\* What the other properties rest on. No byte on its way is beyond those sent.
OnlySent == \A c \in Clients : \A i \in DOMAIN OnTheWay(c) : OnTheWay(c)[i] <= Len(text[c])

\* Lines are answered once their end was read, and the answers reach the client after that.
AnsweredAfterRead ==
  \A c \in Clients :
    /\ answered[c] + (IF pc = "run" /\ client = c THEN 1 ELSE 0) <= EolsTo(c, got[c])
    /\ Len(Due(c)) <= answered[c]

\* A client keeps to its window; realtime commands stay out of the rings.
WithinWindow == \A c \in Clients : Cardinality(Unanswered(c)) <= scn.window[c]
CommandsPickedOff == \A c \in Clients : \A i \in DOMAIN InRx(c) : text[c][InRx(c)[i]] \notin Realtime

\* A websocket that sent something is open where none closes; a rise that is pending was asked for.
OpenToSend == ~scn.closes /\ text[WebSocket] # <<>> => socketOpen
RisesAsked == pending \cap {"feedReset", "coarsePlus", "finePlus"} # {} => asked

\* The bytes of the line that ends at place n which are not blanks and not in a comment. A comment
\* goes from a parenthesis to the next closing one, or from a semicolon to the end of the line.
LineStart(t, n) == LET before == {m \in DOMAIN t : t[m] = "eol" /\ m < n}
                   IN  IF before = {} THEN 1 ELSE 1 + CHOOSE m \in before : \A k \in before : k <= m
InParentheses(t, s, n) == \E j \in s .. n - 1 : t[j] = "open" /\ \A k \in j .. n - 1 : t[k] # "close"
AfterSemicolon(t, s, n) == \E j \in s .. n - 1 : t[j] = "semicolon" /\ ~InParentheses(t, s, j)
Visible(t, n) ==
  LET s == LineStart(t, n)
  IN  {i \in s .. n - 1 : /\ t[i] \notin Realtime \cup {"blank", "open", "semicolon"}
                          /\ ~InParentheses(t, s, i) /\ ~AfterSemicolon(t, s, i)}

\* A line of client c that says just what is visible of its text.
Says(l, c, V) ==
  /\ Len(l) = Cardinality(V)
  /\ \A i \in DOMAIN l : l[i][1] = c /\ l[i][2] \in V
  /\ \A i, j \in DOMAIN l : i < j => l[i][2] < l[j][2]

\* Clients that send whole lines, or one client at a time. Realtime commands may come anywhere.
Ended(p) == \A i \in DOMAIN p : p[i] \in Realtime \/ \E k \in i .. Len(p) : p[k] = "eol"
WholeLines == \A c \in Clients \ {WebSocket} : \A i \in DOMAIN scn.packets[c] : Ended(scn.packets[c][i])
OneClient == \E c \in Clients : \A d \in Clients \ {c} : scn.packets[d] = <<>>
Orderly == Steady /\ (WholeLines \/ OneClient)

\* Among clients that send whole lines, or of one client alone, a line is executed as its client wrote it, without comments
\* and blanks, none of it missing, mixed with another client's line or left from the line before, and
\* is refused exactly if it is too long (protocol.cpp:70-149).
LinesIntact ==
  Orderly /\ last.at # 0 =>
    LET v == Visible(text[last.by], last.at) IN
      /\ last.over <=> Cardinality(v) > LineSize - 1
      /\ ~last.over => Says(last.line, last.by, v)

\* What LinesIntact rests on. Bytes that are sent are read, in the ring, before it, or picked off.
NoReset == ~resetFlag /\ pc # "init" /\ \A c \in Clients : \A n \in DOMAIN text[c] : text[c][n] # "reset"
Among(n, seq) == \E i \in DOMAIN seq : seq[i] = n
AllOnTheWay ==
  \A c \in Clients : \A n \in DOMAIN text[c] :
    n <= got[c] \/ text[c][n] \in Realtime \/ Among(n, InRx(c)) \/ Among(n, InNet(c))

\* Where clients send whole lines, so are what they sent and, but for a poll, what is in the rings.
Between(c, n) == n = 0 \/ text[c][n] = "eol"
LastInRing(c) == IF InRx(c) = <<>> THEN got[c] ELSE InRx(c)[Len(InRx(c))]
LinesInRings == WholeLines => \A c \in Clients :
                  Ended(text[c]) /\ (Between(c, LastInRing(c)) \/ (polling /\ InNet(c) # <<>>))

\* The line and its flags are what the text of one client says so far, and the others are between
\* two lines, as are all when a line is executed.
SaysSoFar(c, V, inParentheses, afterSemicolon) ==
  IF "overflow" \in flags THEN Cardinality(V) > LineSize - 1
  ELSE /\ Says(line, c, V)
       /\ "semicolon" \in flags <=> afterSemicolon
       /\ "parentheses" \in flags <=> inParentheses /\ ~afterSemicolon
Assembled(c) ==
  LET t == text[c]
      n == got[c] + 1
      s == LineStart(t, n)
  IN  SaysSoFar(c, Visible(t, n), InParentheses(t, s, n), AfterSemicolon(t, s, n))
OneAssembled ==
  /\ pc = "run"  => \A c \in Clients : Between(c, got[c])
  /\ pc = "read" => \E c \in Clients : /\ Assembled(c)
                                       /\ \A d \in Clients \ {c} : Between(d, got[d])
                                       /\ WholeLines => c = client \/ Between(c, got[c])
LineInv == Orderly => NoReset /\ AllOnTheWay /\ LinesInRings /\ OneAssembled

CommsInv == /\ TypeOK /\ InOrder /\ OnlySent /\ AnsweredAfterRead /\ WithinWindow
            /\ CommandsPickedOff /\ OpenToSend /\ RisesAsked /\ LineInv

\* The feed override never rises unless the client asked for it since the last pass, except from its
\* minimum, where coarse and fine minus taken together wrap to 200% (protocol.cpp:408-434).
NoUnaskedRise == [][feed' > feed /\ feed > 10 /\ pc # "init" => asked]_vars

\* The disconnection of an old telnet connection, which may be handled after a new one took its slot,
\* never takes the slot from the new one, and no connection takes it from a live one
\* (telnet_server.cpp:81-118).
AcceptedKeepsSlot == [][Slotted /\ conn'[slot] = "open" => slot' = slot]_vars

\* A line that was sent is answered in the end, whatever the other clients send and although answers
\* to a websocket wait for a full buffer or its timeout (serial2socket.cpp:138-145).
EveryLineAnswered ==
  \A c \in {Serial, WebSocket} : \A k \in 1 .. 3 :
    (Steady /\ Cardinality(Eols(c)) >= k) ~> (Len(delivered[c]) >= k)
=============================================================================
