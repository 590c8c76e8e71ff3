------------------------------ MODULE UartLink ------------------------------
(***************************************************************************)
(* From the host's encoder to the command that Bootloader serves:          *)
(* UartReceiveMultipleTimeout gathers what the driver receives until       *)
(* nothing has come for 6 ms, and received_buffer decodes what it is given *)
(* with a decoder of its own.                                              *)
(*                                                                         *)
(* External: the host, which sends a command and waits for the answer; the *)
(* driver (a UART, where bytes come one by one, or USB, where they come in *)
(* packets), which keeps what comes until a receive takes it; the alarm.   *)
(* The host does not pause for 6 ms within a command, MaxGaps times        *)
(* excepted.  What serving a command does is left to Bootloader.           *)
(***************************************************************************)
EXTENDS Protocol, FiniteSets

CONSTANTS
  Commands,
  BUF,           \* the length of the bootloader's buffer, 600
  RX_BUF,        \* of the adapter's buffer, 512
  CHUNK,         \* 50
  Packets,       \* how many bytes may come at once
  MaxGaps,
  Faults         \* "error": a receive may end in an error

ASSUME LinkAssumption ==
  /\ BUF \in 1 .. RxLen /\ RX_BUF \in Nat /\ RX_BUF >= 2 /\ CHUNK \in Nat \ {0}
  /\ Packets \subseteq 1 .. RX_BUF /\ 1 \in Packets
  /\ MaxGaps \in Nat /\ Faults \subseteq {"error"}

ASSUME CommandsAssumption == \A c \in Commands : IsCommand(c)

VARIABLES
  host,          \* idle, sending, waiting
  cmd, enc,
  fifo,          \* bytes that no receive has taken
  uart,          \* the receive in the driver
  alarm,         \* is set
  state,         \* of the adapter
  rx_buffer,     \* its buffer is in the cell
  rx_client_buffer,   \* what the client's buffer holds up to rx_client_index
  client,        \* the bootloader: listening, decoding, serving, transmitting, panicked
  decoder, unread,   \* its decoder, and the bytes that its loop has not come to
  outcome,       \* the command that it serves
  sent,          \* history: the bytes of the command that have been sent,
  gaps, gap      \* the pauses so far, and whether the command has had one or
                 \* has come behind what a pause has left of another

hostVars    == <<host, cmd, enc, sent>>
adapterVars == <<state, rx_buffer, rx_client_buffer>>
clientVars  == <<client, decoder, unread, outcome>>
vars == <<hostVars, fifo, uart, alarm, adapterVars, clientVars, gaps, gap>>

NoReceive  == [status |-> "off", want |-> 0, bytes |-> <<>>]
Receive(n) == [status |-> "on", want |-> n, bytes |-> <<>>]

\* What only a reset of the board ends: until then the host sends nothing more.
Broken  == uart.status = "failed"
Stopped == client = "panicked" \/ Broken

Lesser(a, b)   == IF a <= b THEN a ELSE b
First(bytes, n) == SubSeq(bytes, 1, Lesser(n, Len(bytes)))

-----------------------------------------------------------------------------
(* receive_automatic, in the cases that its callers meet: the adapter is    *)
(* idle and, as the argument says, has its buffer or not.                   *)

\* Mutant: rx_client_index keeps its value.
ReceiveAutomaticIndexKept(has_buffer) ==
  /\ state' = "Receiving"
  /\ UNCHANGED rx_client_buffer
  /\ rx_buffer' = FALSE
  /\ uart' = IF has_buffer THEN Receive(1) ELSE NoReceive
  /\ client' = "listening" /\ outcome' = None /\ UNCHANGED <<decoder, unread>>

ReceiveAutomatic(has_buffer) ==
  /\ state' = "Receiving"
  /\ rx_client_buffer' = <<>>
  /\ rx_buffer' = FALSE
  /\ uart' = IF has_buffer THEN Receive(1) ELSE NoReceive
  /\ client' = "listening" /\ outcome' = None /\ UNCHANGED <<decoder, unread>>

Restarted ==
  /\ alarm' = FALSE
  /\ ReceiveAutomatic(TRUE)

-----------------------------------------------------------------------------
(* received_buffer of the bootloader: its loop, over one byte at a time.     *)
(* RESETs are passed over, and the first other command is served.            *)

\* Mutant: the decoder keeps what the last callback has left in it.
ClientReceivedOldDecoder(has_buffer, bytes) ==
  /\ client' = "decoding"
  /\ unread' = bytes /\ UNCHANGED <<decoder, outcome>>
  /\ state' = "Idle" /\ rx_buffer' = has_buffer
  /\ rx_client_buffer' = bytes
  /\ uart' = NoReceive
  /\ UNCHANGED alarm

ClientReceived(has_buffer, bytes) ==
  /\ client' = "decoding"
  /\ decoder' = FreshDecoder /\ unread' = bytes /\ UNCHANGED outcome
  /\ state' = "Idle" /\ rx_buffer' = has_buffer
  /\ rx_client_buffer' = bytes
  /\ uart' = NoReceive
  /\ UNCHANGED alarm

Decode ==
  /\ client = "decoding" /\ unread # <<>>
  /\ LET step == ReceiveCommand(decoder, Head(unread)) IN
     CASE step[2].kind \in {"none", "Reset"} ->
            /\ decoder' = step[1] /\ unread' = Tail(unread)
            /\ UNCHANGED <<uart, alarm, adapterVars, client, outcome>>
       [] step[2].kind = "Exit" -> Restarted
       [] OTHER ->
            /\ client' = IF step[2] = Panic THEN "panicked" ELSE "serving"
            /\ outcome' = step[2]
            /\ decoder' = step[1] /\ unread' = <<>>
            /\ UNCHANGED <<uart, alarm, adapterVars>>
  /\ UNCHANGED <<hostVars, fifo, gaps, gap>>

\* Mutant: no other receive is started.
NothingDecodedDeaf ==
  /\ client = "decoding" /\ unread = <<>>
  /\ client' = "listening"
  /\ UNCHANGED <<hostVars, fifo, uart, alarm, adapterVars, decoder, unread, outcome, gaps, gap>>

NothingDecoded ==
  /\ client = "decoding" /\ unread = <<>>
  /\ ReceiveAutomatic(rx_buffer)
  /\ UNCHANGED <<hostVars, fifo, alarm, gaps, gap>>

-----------------------------------------------------------------------------
(* The callbacks of the driver and of the alarm.                            *)

\* Mutant: what is received goes to the start of the client's buffer.
CopiedToStart(bytes) == First(bytes, BUF)

\* Mutant: the end of the client's buffer is not seen.
CopiedWhole(bytes) == rx_client_buffer \o bytes

\* received_buffer of the adapter: the copy, up to the end of the client's buffer.
Copied(bytes) == rx_client_buffer \o First(bytes, BUF - Len(rx_client_buffer))

Taken(n) == [uart EXCEPT !.bytes = @ \o First(fifo, n)]

Takes(n) ==
  /\ uart.status = "on" /\ n <= Len(fifo) /\ Len(uart.bytes) + n <= RX_BUF
  /\ fifo' = SubSeq(fifo, n + 1, Len(fifo))

DriverTakes ==
  /\ \E n \in Packets :
       /\ Takes(n) /\ Len(Taken(n).bytes) < uart.want
       /\ uart' = Taken(n)
  /\ UNCHANGED <<hostVars, alarm, adapterVars, clientVars, gaps, gap>>

\* The driver calls back: the alarm is set, and more is asked for.
Received ==
  /\ \E n \in Packets :
       /\ Takes(n) /\ Len(Taken(n).bytes) >= uart.want
       /\ rx_client_buffer' = Copied(Taken(n).bytes)
  /\ alarm' = TRUE
  /\ uart' = Receive(Lesser(RX_BUF \div 2, CHUNK))
  /\ UNCHANGED <<hostVars, state, rx_buffer, clientVars, gaps, gap>>

\* An error other than CANCEL: what came is copied, the buffer is dropped.
ReceiveFails ==
  /\ uart.status = "on" /\ "error" \in Faults
  /\ rx_client_buffer' = Copied(uart.bytes)
  /\ uart' = [NoReceive EXCEPT !.status = "failed"]
  /\ UNCHANGED <<hostVars, fifo, alarm, state, rx_buffer, clientVars, gaps, gap>>

\* 6 ms after the last callback.
AlarmFires ==
  /\ alarm /\ (fifo = <<>> \/ Broken)
  /\ IF host = "sending"
     THEN gaps < MaxGaps /\ gaps' = gaps + 1 /\ gap' = TRUE
     ELSE UNCHANGED <<gaps, gap>>
  /\ alarm' = FALSE
  /\ uart' = IF uart.status = "on" THEN [uart EXCEPT !.status = "aborting"] ELSE uart
  /\ UNCHANGED <<hostVars, fifo, adapterVars, clientVars>>

\* Mutant: the adapter's buffer is not put back.
CancelledBufferDropped ==
  /\ uart.status = "aborting"
  /\ ClientReceived(FALSE, Copied(uart.bytes))
  /\ UNCHANGED <<hostVars, fifo, gaps, gap>>

\* CANCEL: the buffer is put back, the adapter is idle, the client is called.
Cancelled ==
  /\ uart.status = "aborting"
  /\ ClientReceived(TRUE, Copied(uart.bytes))
  /\ UNCHANGED <<hostVars, fifo, gaps, gap>>

-----------------------------------------------------------------------------
(* The rest of the bootloader, and of the host.                             *)

\* The last byte of the answer; a host that is still sending does not see it.
Answer ==
  /\ client = "serving"
  /\ client' = "transmitting" /\ UNCHANGED <<decoder, unread, outcome>>
  /\ host' = IF host = "waiting" THEN "idle" ELSE host
  /\ UNCHANGED <<cmd, enc, sent, fifo, uart, alarm, adapterVars, gaps, gap>>

\* transmitted_buffer.
Transmitted ==
  /\ client = "transmitting"
  /\ ReceiveAutomatic(rx_buffer)
  /\ UNCHANGED <<hostVars, fifo, alarm, gaps, gap>>

\* Nothing of an earlier command is on its way, or about to be decoded.
LineClear ==
  fifo = <<>> /\ ~alarm /\ (client = "transmitting" \/ uart = Receive(1))

SendCommand ==
  /\ host = "idle" /\ ~Stopped
  /\ \E c \in Commands : Encodable(c) /\ cmd' = c
  /\ host' = "sending" /\ enc' = FreshEncoder /\ sent' = <<>>
  /\ gap' = ~LineClear
  /\ UNCHANGED <<fifo, uart, alarm, adapterVars, clientVars, gaps>>

\* The next byte of the encoder.
SendByte ==
  /\ host = "sending"
  /\ LET next == NextOfCommand(enc, cmd) IN
     /\ enc' = next[1]
     /\ fifo' = Append(fifo, next[2]) /\ sent' = Append(sent, next[2])
     /\ host' = IF CommandEnded(next[1], cmd) THEN "waiting" ELSE host
  /\ UNCHANGED <<cmd, uart, alarm, adapterVars, clientVars, gaps, gap>>

\* No answer comes.
GiveUp ==
  /\ host = "waiting" /\ ~alarm
  /\ \/ client = "listening" /\ uart.status = "on" /\ fifo = <<>>
     \/ client = "listening" /\ uart.status \in {"off", "failed"}
     \/ client = "panicked"
  /\ host' = "idle"
  /\ UNCHANGED <<cmd, enc, sent, fifo, uart, alarm, adapterVars, clientVars, gaps, gap>>

\* Someone resets the board.
ResetBoard ==
  /\ host = "idle" /\ Stopped
  /\ Restarted /\ fifo' = <<>>
  /\ UNCHANGED <<hostVars, gaps, gap>>

Init ==
  /\ host = "idle" /\ enc = FreshEncoder /\ cmd = Message("Ping", <<>>) /\ sent = <<>>
  /\ fifo = <<>>
  /\ uart = Receive(1) /\ alarm = FALSE
  /\ state = "Receiving" /\ rx_buffer = FALSE /\ rx_client_buffer = <<>>
  /\ client = "listening" /\ outcome = None
  /\ decoder = FreshDecoder /\ unread = <<>>
  /\ gaps = 0 /\ gap = FALSE

Device ==
  \/ DriverTakes \/ Received \/ AlarmFires \/ Cancelled
  \/ Decode \/ NothingDecoded \/ Answer \/ Transmitted

Next == Device \/ ReceiveFails \/ SendCommand \/ SendByte \/ GiveUp \/ ResetBoard

Spec == Init /\ [][Next]_vars

\* The driver and the alarm work, commands are served, the host goes on with
\* what it has begun.  It need not begin anything, and no receive need fail.
FairSpec == Spec /\ WF_vars(Device) /\ WF_vars(SendByte) /\ WF_vars(GiveUp)

-----------------------------------------------------------------------------
(* Properties.                                                              *)

TypeOK ==
  /\ host \in {"idle", "sending", "waiting"}
  /\ uart.status \in {"off", "on", "aborting", "failed"}
  /\ Len(uart.bytes) <= RX_BUF
  /\ Len(rx_client_buffer) <= BUF
  /\ state \in {"Idle", "Receiving"}
  /\ client \in {"listening", "decoding", "serving", "transmitting", "panicked"}
  /\ gaps \in 0 .. MaxGaps /\ {alarm, rx_buffer, gap} \subseteq BOOLEAN

\* The pieces in which a command comes are put together in order, none is lost
\* or comes twice, up to the end of the client's buffer: without a pause, the
\* client's buffer, the receive in the driver and what waits for the next one
\* are the bytes sent (received_buffer, receive_automatic).
InOrder ==
  ((alarm \/ uart.status = "aborting") /\ ~gap /\ ~Broken) =>
    IF Len(rx_client_buffer) < BUF
    THEN rx_client_buffer \o uart.bytes \o fifo = sent
    ELSE rx_client_buffer = First(sent, BUF)

\* What is served is the command that was sent, whole: how it was cut into
\* receives does not show, and one too long for the buffer is not served
\* (bootloader.rs:270 decodes each callback by itself).  Only a part of a command
\* makes the bootloader panic (lib.rs:380 slices four bytes off whatever there is).
ServedAsSent ==
  ~gap => client # "panicked" /\ (client = "serving" => outcome = cmd)

\* When pauses split commands and their parts are decoded by themselves, or with
\* parts of others, flash is not changed in another way than the host asks: the
\* lengths of the parts do not fit, except for SET_ATTR, which states its own.
\* With one exception: a part that begins with the second half of a doubled escape
\* character may be any command (bootloader.rs:270 begins with a new decoder), but
\* its arguments are then escape characters, all of them.
Changes(c) ==
  \/ c.kind \in {"ErasePage", "SetStartAddress"}
  \/ c.kind = "WritePage" /\ Len(c.fields[2]) = INT_PAGE_SIZE

AllEscapes(bytes) == \A i \in DOMAIN bytes : bytes[i] = ESCAPE_CHAR

SplitContained ==
  (client = "serving" /\ Changes(outcome)) =>
    \/ outcome \in Commands /\ (gaps <= 1 => outcome = cmd)
    \/ AllEscapes(Arguments(outcome))

\* A command that fits into the buffer and is sent without a pause is answered,
\* whatever came before it: a split command, one too long, a reset of the board.
Fits(c) == Len(Arguments(c)) + Cardinality({i \in DOMAIN Arguments(c) :
                                              Arguments(c)[i] = ESCAPE_CHAR}) + 2 <= BUF

AnsweredOnceSent ==
  (host = "sending" /\ Fits(cmd) /\ cmd.kind \notin {"Reset", "Exit"})
    ~> (client = "transmitting" \/ gap \/ Stopped)

\* Every receive ends, and another one is started: the bootloader listens again
\* unless it is stopped.
ListensAgain == alarm ~> ((client = "listening" /\ uart.status = "on" /\ ~alarm) \/ Stopped)

=============================================================================
