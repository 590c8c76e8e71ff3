----------------------------- MODULE Bootloader -----------------------------
(***************************************************************************)
(* bootloader/src/bootloader.rs: the Bootloader, its UART clients          *)
(* (received_buffer, transmitted_buffer) and its flash client              *)
(* (read_complete, write_complete, erase_complete).                        *)
(*                                                                         *)
(* It owns two buffers, BUF and the page buffer, and gives them away: BUF  *)
(* to the UART to receive a command or to transmit, the page buffer to     *)
(* flash.  Every completion is a callback that hands a buffer back.  The   *)
(* result of every such call is dropped (`let _ =`), so when the driver    *)
(* refuses, the buffer goes with the error and no callback will follow.    *)
(*                                                                         *)
(* The UART and the flash are external: the model accepts a call or        *)
(* refuses it, and completes an accepted one at some later step.  Decoding *)
(* is abstracted to the sequence of commands found in one received buffer. *)
(***************************************************************************)
EXTENDS BootloaderPromise

CONSTANT
  Batches    \* what the host may have sent when a receive completes

ASSUME BatchesAssumption == \A b \in Batches : b \in Seq(Command)

VARIABLES
  state,        \* Bootloader.state
  buffer,       \* where BUF is: "cell", "rx", "tx" or "lost"
  bytes,        \* what BUF holds that will be used
  page_buffer,  \* where the page buffer is: "cell", "flash" or "lost"
  op,           \* the flash operation in progress
  flash,        \* the contents of flash
  \* History: the command being served, and what its reply has carried so far.
  request,
  wire

vars == <<state, buffer, bytes, page_buffer, op, flash, request, wire>>

Idle == [kind |-> "Idle"]
NoOp == [kind |-> "none"]

-----------------------------------------------------------------------------
(* Calls to the drivers.                                                   *)

Listen ==
  \/ buffer' = "rx" /\ bytes' = <<>>
  \/ "refuse" \in Faults /\ buffer' = "lost" /\ bytes' = <<>>

Transmit(reply) ==
  \/ buffer' = "tx" /\ bytes' = reply
  \/ "refuse" \in Faults /\ buffer' = "lost" /\ bytes' = <<>>

Refusable(p) == p \notin Pages \/ "refuse" \in Faults

ReadPage(p) ==
  \/ /\ p \in Pages
     /\ op' = [kind |-> "read", page |-> p]
     /\ page_buffer' = "flash"
  \/ /\ Refusable(p)
     /\ op' = NoOp
     /\ page_buffer' = "lost"

WritePage(p, contents) ==
  \/ /\ p \in Pages
     /\ op' = [kind |-> "write", page |-> p, data |-> contents]
     /\ page_buffer' = "flash"
  \/ /\ Refusable(p)
     /\ op' = NoOp
     /\ page_buffer' = "lost"

\* erase_page takes no buffer, so the page buffer stays where it is.
ErasePage(p) ==
  \/ p \in Pages /\ op' = [kind |-> "erase", page |-> p]
  \/ Refusable(p) /\ op' = NoOp

-----------------------------------------------------------------------------
(* received_buffer: one action per command.                                *)

\* A command that is answered from BUF alone.
AnswerAtOnce(code) ==
  /\ Transmit(Response(code))
  /\ UNCHANGED <<state, page_buffer, op, flash>>

\* A command that starts by reading page p; BUF waits in its cell.
StartWithRead(p, next, kept) ==
  /\ state' = next
  /\ buffer' = "cell" /\ bytes' = kept
  /\ ReadPage(p)
  /\ UNCHANGED flash

HandlePing(c) ==
  c.kind = "Ping" /\ AnswerAtOnce(RES_PONG)

HandleUnsupported(c) ==
  c.kind \in {"ChangeBaud", "Unsupported"} /\ AnswerAtOnce(RES_UNKNOWN)

HandleBadArguments(c) ==
  c.kind = "BadArguments" /\ AnswerAtOnce(RES_BADARGS)

HandleMalformed(c) ==
  c.kind = "Malformed" /\ AnswerAtOnce(RES_INTERNAL_ERROR)

HandleInfo(c) ==
  /\ c.kind = "Info"
  /\ StartWithRead(FlagsPage, [kind |-> "Info"], <<>>)

HandleReadRange(c) ==
  /\ c.kind = "ReadRange"
  /\ StartWithRead(PageOf(c.address),
       [kind |-> "ReadRange", address |-> c.address,
        length |-> c.length, remaining_length |-> c.length], <<>>)

HandleCrcIntFlash(c) ==
  /\ c.kind = "CrcIntFlash"
  /\ StartWithRead(PageOf(c.address),
       [kind |-> "Crc", address |-> c.address,
        remaining_length |-> c.length, crc |-> CrcInit], <<>>)

HandleGetAttr(c) ==
  /\ c.kind = "GetAttr"
  /\ StartWithRead(AttributePage(c.index),
       [kind |-> "GetAttribute", index |-> c.index], <<>>)

\* The new attribute is kept in BUF until the page it goes into is read.
HandleSetAttr(c) ==
  /\ c.kind = "SetAttr"
  /\ StartWithRead(AttributePage(c.index),
       [kind |-> "SetAttribute", index |-> c.index],
       AttributeRecord(c.key, c.value))

HandleSetStartAddress(c) ==
  /\ c.kind = "SetStartAddress"
  /\ StartWithRead(FlagsPage,
       [kind |-> "SetStartAddress", address |-> c.address], <<>>)

WritePageAccepted(c) == Len(c.data) = PageSize /\ ~InBootloader(c.address)

HandleWritePage(c) ==
  /\ c.kind = "WritePage"
  /\ WritePageAccepted(c)
  /\ state' = [kind |-> "WriteFlashPage"]
  /\ buffer' = "cell" /\ bytes' = <<>>
  /\ WritePage(PageOf(c.address), [o \in Offsets |-> c.data[o + 1]])
  /\ UNCHANGED flash

\* Mutant: the page buffer taken for the check is not put back.
RejectWritePageKeepingPage(c) ==
  /\ c.kind = "WritePage"
  /\ ~WritePageAccepted(c)
  /\ state' = Idle
  /\ Transmit(Response(RES_BADARGS))
  /\ page_buffer' = "lost"
  /\ UNCHANGED <<op, flash>>

RejectWritePage(c) ==
  /\ c.kind = "WritePage"
  /\ ~WritePageAccepted(c)
  /\ state' = Idle
  /\ Transmit(Response(IF Len(c.data) # PageSize THEN RES_BADARGS
                                                 ELSE RES_BADADDR))
  /\ UNCHANGED <<page_buffer, op, flash>>

\* Mutant: the state is not set.
HandleErasePageStateless(c) ==
  /\ c.kind = "ErasePage"
  /\ buffer' = "cell" /\ bytes' = <<>>
  /\ ErasePage(PageOf(c.address))
  /\ UNCHANGED <<state, page_buffer, flash>>

HandleErasePage(c) ==
  /\ c.kind = "ErasePage"
  /\ state' = [kind |-> "ErasePage"]
  /\ buffer' = "cell" /\ bytes' = <<>>
  /\ ErasePage(PageOf(c.address))
  /\ UNCHANGED <<page_buffer, flash>>

Handle(c) ==
  \/ HandlePing(c) \/ HandleUnsupported(c)
  \/ HandleBadArguments(c) \/ HandleMalformed(c)
  \/ HandleInfo(c) \/ HandleReadRange(c) \/ HandleCrcIntFlash(c)
  \/ HandleGetAttr(c) \/ HandleSetAttr(c) \/ HandleSetStartAddress(c)
  \/ HandleWritePage(c) \/ RejectWritePage(c) \/ HandleErasePage(c)

\* EXIT calls the reset function, which resets the chip: the bootloader that
\* comes up again starts from scratch, on the same flash.
Restart ==
  /\ state' = Idle
  /\ buffer' = "rx" /\ bytes' = <<>>
  /\ page_buffer' = "cell"
  /\ op' = NoOp
  /\ request' = NoCommand /\ wire' = <<>>

\* The loop of received_buffer passes over RESETs and serves the first other
\* command; whatever follows it in the same buffer is dropped.
FirstOther(batch, i) ==
  /\ batch[i].kind # "Reset"
  /\ \A j \in 1 .. i - 1 : batch[j].kind = "Reset"

ReceivedCommand ==
  /\ buffer = "rx"
  /\ \E batch \in Batches : \E i \in DOMAIN batch :
       /\ FirstOther(batch, i)
       /\ batch[i].kind # "Exit"
       /\ Handle(batch[i])
       /\ request' = batch[i]
       /\ wire' = <<>>

ReceivedExit ==
  /\ buffer = "rx"
  /\ \E batch \in Batches : \E i \in DOMAIN batch :
       FirstOther(batch, i) /\ batch[i].kind = "Exit"
  /\ Restart
  /\ UNCHANGED flash

\* Mutant: the early return forgets to listen again.
ReceivedNothingAndDeaf ==
  /\ buffer = "rx"
  /\ buffer' = "cell" /\ bytes' = <<>>
  /\ UNCHANGED <<state, page_buffer, op, flash, request, wire>>

\* A receive that failed, was empty, or held no more than RESETs or a command
\* not yet complete.
ReceivedNothing ==
  /\ buffer = "rx"
  /\ Listen
  /\ UNCHANGED <<state, page_buffer, op, flash, request, wire>>

-----------------------------------------------------------------------------
(* read_complete, by state.  flash's result is ignored.                    *)

Reading(kind) == op.kind = "read" /\ state.kind = kind

ReadData == flash[op.page]

\* The common end of a read: the page buffer is back, the reply goes out.
SendFromPage(reply) ==
  /\ page_buffer' = "cell"
  /\ op' = NoOp
  /\ Transmit(reply)
  /\ UNCHANGED <<flash, request, wire>>

ReadInfo ==
  /\ Reading("Info")
  /\ state' = Idle
  /\ \E stale \in StaleBytes : SendFromPage(InfoReply(ReadData, stale))

ReadGetAttribute ==
  /\ Reading("GetAttribute")
  /\ state' = Idle
  /\ SendFromPage(GetAttributeReply(ReadData, state.index))

ReadSetAttribute ==
  /\ Reading("SetAttribute")
  /\ WritePage(AttributePage(state.index),
               Patch(ReadData, AttributeOffset(state.index), bytes))
  /\ UNCHANGED <<state, buffer, bytes, flash, request, wire>>

ReadSetStartAddress ==
  /\ Reading("SetStartAddress")
  /\ WritePage(PageOf(FlagsAddress + StartOffset),
               Patch(ReadData, StartField, state.address))
  /\ UNCHANGED <<state, buffer, bytes, flash, request, wire>>

Lesser(a, b) == IF a <= b THEN a ELSE b

\* Mutant: one free place in BUF is taken to be enough for a byte.
CopiedToTheEnd(page, offset, n, start) ==
  LET Index(i) == start + i + Cardinality({j \in 0 .. i - 1 :
                                             page[offset + j] = ESCAPE_CHAR})
  IN  Cardinality({i \in 0 .. Lesser(n, BufLen - start) - 1 :
                     Index(i) < BufLen})

\* How far the copy loop of ReadRange gets: it needs two free places in BUF
\* for each byte, and an escaped byte takes two.
Copied(page, offset, n, start) ==
  LET Index(i) == start + i + Cardinality({j \in 0 .. i - 1 :
                                             page[offset + j] = ESCAPE_CHAR})
  IN  Cardinality({i \in 0 .. Lesser(n, BufLen - start) - 1 :
                     Index(i) < BufLen - 1})

\* Mutant: progress is counted in bytes sent, escapes included.
AdvanceByBytesSent(chunk) ==
  state' = [state EXCEPT !.address = @ + Len(Escape(chunk)),
                         !.remaining_length = @ - Len(Escape(chunk))]

Advance(chunk) ==
  state' = [state EXCEPT !.address = @ + Len(chunk),
                         !.remaining_length = @ - Len(chunk)]

ReadReadRange ==
  /\ Reading("ReadRange")
  /\ LET first   == state.length = state.remaining_length
         header  == IF first THEN Response(RES_READ_RANGE) ELSE <<>>
         offset  == OffsetOf(state.address)
         len     == Lesser(PageSize - offset, state.remaining_length)
         chunk   == PageBytes(ReadData, offset,
                              Copied(ReadData, offset, len, Len(header)))
     IN  Advance(chunk) /\ SendFromPage(header \o Escape(chunk))

CrcOffset == OffsetOf(state.address)
CrcLen    == Lesser(PageSize - CrcOffset, state.remaining_length)

\* Mutant: every page starts the CRC anew.
NewCrcRestarted == CrcFold(CrcInit, PageBytes(ReadData, CrcOffset, CrcLen))

NewCrc    == CrcFold(state.crc, PageBytes(ReadData, CrcOffset, CrcLen))

ReadCrcLast ==
  /\ Reading("Crc")
  /\ CrcLen = state.remaining_length
  /\ state' = Idle
  /\ SendFromPage(Response(RES_CRCIF) \o CrcBytes(NewCrc))

\* More pages: the next read starts from within the callback.
ReadCrcMore ==
  /\ Reading("Crc")
  /\ CrcLen < state.remaining_length
  /\ state' = [kind |-> "Crc", address |-> state.address + CrcLen,
               remaining_length |-> state.remaining_length - CrcLen,
               crc |-> NewCrc]
  /\ ReadPage(PageOf(state.address + CrcLen))
  /\ UNCHANGED <<buffer, bytes, flash, request, wire>>

-----------------------------------------------------------------------------
(* write_complete and erase_complete.  Their result is ignored as well.    *)

Programmed(p, contents) == [flash EXCEPT ![p] = contents]

\* What flash holds when programming page p stopped half-way.
Torn(p, contents) ==
  {flash} \cup {Programmed(p, TornPage(contents, n)) : n \in Cuts}

OpContents == IF op.kind = "write" THEN op.data ELSE ErasedPage

\* The states in which the callbacks answer OK; in any other state they would
\* listen again, which OpMatchesState shows never to be asked of them.
ProgramComplete ==
  /\ \/ op.kind = "write"
          /\ state.kind \in {"WriteFlashPage", "SetAttribute", "SetStartAddress"}
     \/ op.kind = "erase" /\ state.kind = "ErasePage"
  /\ flash' \in {Programmed(op.page, OpContents)}
                  \cup (IF "fail" \in Faults THEN Torn(op.page, OpContents) ELSE {})
  /\ page_buffer' = "cell"
  /\ op' = NoOp
  /\ state' = Idle
  /\ Transmit(Response(RES_OK))
  /\ UNCHANGED <<request, wire>>

-----------------------------------------------------------------------------
(* transmitted_buffer.                                                     *)

\* Mutant: a READ_RANGE always goes on.
AlwaysMoreToRead == state.kind = "ReadRange"

MoreToRead == state.kind = "ReadRange" /\ state.remaining_length > 0

TransmittedChunk ==
  /\ buffer = "tx"
  /\ MoreToRead
  /\ buffer' = "cell" /\ bytes' = <<>>
  /\ wire' = wire \o bytes
  /\ ReadPage(PageOf(state.address))
  /\ UNCHANGED <<state, flash, request>>

TransmittedReply ==
  /\ buffer = "tx"
  /\ ~MoreToRead
  /\ state' = IF state.kind = "ReadRange" THEN Idle ELSE state
  /\ Listen
  /\ request' = NoCommand /\ wire' = <<>>
  /\ UNCHANGED <<page_buffer, op, flash>>

\* Mutant: a READ_RANGE goes on with the next chunk although this one was not sent.
TransmitFailedGoesOn ==
  /\ "txerror" \in Faults
  /\ buffer = "tx"
  /\ MoreToRead
  /\ buffer' = "cell" /\ bytes' = <<>>
  /\ ReadPage(PageOf(state.address))
  /\ UNCHANGED <<state, flash, request, wire>>

\* On an error the callback keeps neither the buffer nor anything else.
TransmitFailed ==
  /\ "txerror" \in Faults
  /\ buffer = "tx"
  /\ buffer' = "lost" /\ bytes' = <<>>
  /\ UNCHANGED <<state, page_buffer, op, flash, request, wire>>

-----------------------------------------------------------------------------
\* The chip loses power, or is reset by its button, at any moment.
PowerCycle ==
  /\ flash' \in (IF op.kind \in {"write", "erase"} THEN Torn(op.page, OpContents)
                                                   ELSE {flash})
  /\ Restart

Received == ReceivedCommand \/ ReceivedExit \/ ReceivedNothing

FlashDone ==
  \/ ReadInfo \/ ReadGetAttribute \/ ReadSetAttribute \/ ReadSetStartAddress
  \/ ReadReadRange \/ ReadCrcLast \/ ReadCrcMore
  \/ ProgramComplete

Transmitted == TransmittedChunk \/ TransmittedReply

Next == Received \/ FlashDone \/ Transmitted \/ TransmitFailed \/ PowerCycle

\* new() and start().
Init ==
  /\ state = Idle
  /\ buffer = "rx" /\ bytes = <<>>
  /\ page_buffer = "cell"
  /\ op = NoOp
  /\ flash \in Images
  /\ request = NoCommand /\ wire = <<>>

Spec == Init /\ [][Next]_vars

\* Flash and UART complete what they accepted: their interrupts are serviced by
\* the kernel loop, which never waits for anything else.  Nothing makes the
\* host send, or keeps power from failing.
Fairness == WF_vars(FlashDone) /\ WF_vars(Transmitted)

FairSpec == Spec /\ Fairness

-----------------------------------------------------------------------------
(* Properties.                                                             *)

StateOK ==
  /\ state.kind \in {"Idle", "Info", "ErasePage", "GetAttribute",
                     "SetAttribute", "SetStartAddress", "WriteFlashPage",
                     "ReadRange", "Crc"}
  /\ state.kind \in {"GetAttribute", "SetAttribute"} => state.index \in Nat
  /\ state.kind = "SetStartAddress" => state.address \in StartAddresses
  /\ state.kind = "ReadRange" =>
       /\ state.address \in Nat /\ state.length \in Nat
       /\ state.remaining_length \in 0 .. state.length
  /\ state.kind = "Crc" =>
       state.address \in Nat /\ state.remaining_length \in Nat

OpOK ==
  \/ op = NoOp
  \/ op.kind \in {"read", "erase"} /\ op.page \in Pages
  \/ op.kind = "write" /\ op.page \in Pages /\ op.data \in Page

\* Type invariant of the bootloader's variables (struct Bootloader).
TypeOK ==
  /\ StateOK
  /\ OpOK
  /\ buffer \in {"cell", "rx", "tx", "lost"}
  /\ page_buffer \in {"cell", "flash", "lost"}
  /\ flash \in Flash
  /\ request \in Command \cup {NoCommand}

\* The bootloader has at most one completion outstanding, and holds what the
\* next callback needs: it listens only when Idle and with the page buffer at
\* home (or `page_buffer.take()` in received_buffer would do nothing and the
\* command would never be answered), it transmits only with the page buffer at
\* home (transmitted_buffer takes it for the next chunk), and BUF waits in its
\* cell while flash works (read_complete and write_complete take it).
OneOutstanding ==
  /\ buffer = "rx" => /\ state.kind = "Idle" /\ op = NoOp
                      /\ page_buffer = "cell" /\ request = NoCommand
  /\ buffer = "tx" => /\ state.kind \in {"Idle", "ReadRange"} /\ op = NoOp
                      /\ page_buffer = "cell"
  /\ op # NoOp => buffer = "cell"
  /\ op.kind \in {"read", "write"} <=> page_buffer = "flash"

\* A flash callback finds the state its operation was started for: none of the
\* `_ =>` arms of read_complete, write_complete and erase_complete, which keep
\* the page buffer or answer nothing, is ever taken.
OpMatchesState ==
  /\ op.kind = "read" => state.kind \in {"Info", "GetAttribute", "SetAttribute",
                                        "SetStartAddress", "ReadRange", "Crc"}
  /\ op.kind = "write" => state.kind \in {"WriteFlashPage", "SetAttribute",
                                         "SetStartAddress"}
  /\ op.kind = "erase" => state.kind = "ErasePage"

\* No reply or chunk is longer than BUF: the index arithmetic of ReadRange's
\* copy loop (bootloader.rs:611-636), with escapes, never runs past its end.
FitsInBuffer == Len(bytes) <= BufLen

\* No callback will come any more.
Wedged == op = NoOp /\ buffer \notin {"rx", "tx"}

\* The bootloader stops for want of a callback only when a driver has refused BUF
\* or a transmission has failed, or when a flash call was refused, which without
\* a faulty driver means that the command reaches outside flash: every handler
\* starts exactly one operation.  (A refused erase takes no buffer with it.)
NeverWedged ==
  Wedged =>
    \/ buffer = "lost" /\ Faults \cap {"refuse", "txerror"} # {}
    \/ /\ page_buffer = "lost" \/ state.kind = "ErasePage"
       /\ "refuse" \in Faults \/ ~Addressable(request)

\* A WRITE_PAGE never changes a byte of the bootloader itself, whatever
\* address in or next to it is given (bootloader.rs:329-331).
WritePageKeepsBootloader ==
  [][request.kind = "WritePage" =>
       \A a \in BootStart .. BootEnd - 1 :
         flash'[PageOf(a)][OffsetOf(a)] = flash[PageOf(a)][OffsetOf(a)]]_vars

\* Every command is eventually answered in full, unless a driver refused.
Answered == request # NoCommand ~> request = NoCommand \/ Wedged

\* The whole reply is in BUF, or has been streamed up to its last chunk.
ReplyComplete == buffer = "tx" /\ ~MoreToRead

\* Seen from the host the bootloader is the abstract service: the reply of a
\* READ_RANGE is one string however it was cut by pages, escapes and BUF, a
\* CRC covers its range however many pages it spans, and a page is changed in
\* one step, to exactly what the command says.
Service == INSTANCE BootloaderService WITH
  mem   <- flash,
  reply <- IF ReplyComplete THEN wire \o bytes ELSE <<>>,
  up    <- ~Wedged

ServiceSpec == Service!Spec

-----------------------------------------------------------------------------
(* What the documents say and the code does not do.                        *)

\* protocol/src/lib.rs:77: "The attribute index must be less than 16", and
\* README.md:398 "The attributes section occupies the next 1024 bytes": a
\* SET_ATTRIBUTE changes nothing outside that section.
SetAttrStaysInAttributes ==
  [][request.kind = "SetAttr" /\ op.kind = "write" =>
       \A p \in Pages, o \in Offsets :
         flash'[p][o] # flash[p][o] =>
           p * PageSize + o \in AttributesAddress ..
             AttributesAddress + NumAttributes * AttributeSize - 1]_vars

=============================================================================
