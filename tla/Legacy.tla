-------------------------------- MODULE Legacy --------------------------------
(***************************************************************************)
(* legacy/src/bootloader.c and bl_commands.c: the C bootloader of the      *)
(* SAM4L boards, with what it uses of the USART and of the flash           *)
(* controller.                                                             *)
(*                                                                         *)
(* One loop polls the receiver and the transmitter; a command is run to    *)
(* its end when its last byte is received.  Commands that change flash     *)
(* wait for the controller, with power failing and bytes arriving          *)
(* meanwhile; so does a change of baud rate, for the transmitter to drain. *)
(* Nothing of a command is cleared when the next begins: only RESET does   *)
(* that.                                                                   *)
(*                                                                         *)
(* External: the line, and the host, which sends a request, reads the      *)
(* answer, gives up when none comes, and tries a baud rate and goes back.  *)
(***************************************************************************)
EXTENDS LegacyPromise

CONSTANTS
  HomeRate,     \* the rate both ends start with
  Requests,     \* what the host may ask: [sync, args, cmd]
  Rates,        \* the baud rates the host may try
  Noise,        \* what a byte sent at another rate may arrive as
  Cuts,         \* where power failing may cut the programming of a page
  Image,        \* flash at the start
  Faults        \* "timeout", "power", "fail"

IsRequest(r) ==
  /\ r = [sync |-> r.sync, args |-> r.args, cmd |-> r.cmd]
  /\ r.sync \in BOOLEAN /\ r.args \in Seq(Byte) /\ r.cmd \in Byte

\* The rate that the program starts with is one that the USART can have.
ASSUME HostAssumption ==
  /\ \A r \in Requests : IsRequest(r)
  /\ Rates \subseteq Nat /\ HomeRate \in 0 .. Word - 1 /\ InRange(HomeRate)
  /\ Noise \subseteq Byte /\ Cuts \subseteq Nat
  /\ Image \in [AllPages -> Page]

VARIABLES
  byte_escape, rx, tx,          \* rx_stage_ram up to rx_ptr; what is left to send
  change_baud_state, baudrate, new_baud_rate, old_baud_rate,
  usart, rhr, shifter,          \* configuration, receive register, bytes going out
  flash, page_buffer,
  job,                          \* what the loop is busy with
  \* The host: the bytes it has still to send, its rate, and the one it can fall
  \* back to; its request, what it got for it, and flash as it was before it.
  sending, host_rate, home, request, got, before,
  clean                         \* history: nothing went wrong during the request

rxVars    == <<byte_escape, rx>>
baudVars  == <<change_baud_state, baudrate, new_baud_rate, old_baud_rate>>
flashVars == <<flash, page_buffer>>
lineVars  == <<usart, rhr, shifter>>
askVars   == <<sending, host_rate, home, request, before>>
hostVars  == <<askVars, got, clean>>

vars == <<rxVars, tx, baudVars, lineVars, flashVars, job, hostVars>>

None  == [kind |-> "none"]
Drain == [kind |-> "drain"]
Fault == [kind |-> "fault"]

Waiting == change_baud_state = "WAITING_CONFIRMATION"

-----------------------------------------------------------------------------
(* Commands: bl_cmd and the bl_c_* it calls.  A command is the character b  *)
(* after an escape, with rx as its arguments.                               *)

Say(code) == tx' = _escape_set(<<>>, code)

\* One answer at once, nothing else changed.
Answer(code, dat) ==
  /\ tx' = _escape_set(dat, code)
  /\ UNCHANGED <<baudVars, flashVars, job>>

Refuse(code) == Answer(code, <<>>)

Ping(b) == b = CMD_PING /\ Answer(RES_PONG, <<>>)

Info(b) == b = CMD_INFO /\ Answer(RES_INFO, InfoData(flash))

\* CMD_ID is known and does nothing.
Id(b) == b = CMD_ID /\ UNCHANGED <<tx, baudVars, flashVars, job>>

\* Mutant: the lower bound left to the alignment.
NamesAnyPage(address) ==
  /\ address < ALLOWED_FLASH_CEILING
  /\ address % PageSize = 0

\* A page is named by its first address.
NamesPage(address) ==
  /\ address >= ALLOWED_FLASH_FLOOR
  /\ address < ALLOWED_FLASH_CEILING
  /\ address % PageSize = 0

\* The page is erased, and then next, if any, programmed from its start.
Erase(page, next) ==
  /\ job' = [kind |-> "erase", page |-> page, next |-> next]
  /\ UNCHANGED <<tx, baudVars, flashVars>>

\* A page that is erased already is left as it is.
ErasePage(b) ==
  /\ b = CMD_EPAGE
  /\ LET address == _rx_u32(rx, 0)
         page    == address \div PageSize
     IN  \/ Len(rx) # 4 /\ Refuse(RES_BADARGS)
         \/ Len(rx) = 4 /\ ~NamesPage(address) /\ Refuse(RES_BADADDR)
         \/ Len(rx) = 4 /\ NamesPage(address) /\ flash[page] = NoData
              /\ Answer(RES_OK, <<>>)
         \/ Len(rx) = 4 /\ NamesPage(address) /\ flash[page] # NoData
              /\ Erase(page, <<>>)

WritePage(b) ==
  /\ b = CMD_WPAGE
  /\ LET address == _rx_u32(rx, 0)
     IN  \/ Len(rx) # PageSize + 4 /\ Refuse(RES_BADARGS)
         \/ Len(rx) = PageSize + 4 /\ ~NamesPage(address) /\ Refuse(RES_BADADDR)
         \/ /\ Len(rx) = PageSize + 4 /\ NamesPage(address)
            /\ Erase(address \div PageSize, SubSeq(rx, 5, Len(rx)))

CrcOfRx ==
  IF rx = <<>> THEN [i \in 1 .. 4 |-> Erased] ELSE crc32(rx)

CrcRx(b) ==
  /\ b = CMD_CRCRX
  /\ Answer(RES_CRCRX,
       <<Len(rx) % ByteValues, Len(rx) \div ByteValues>> \o CrcOfRx)

\* The sum is one of 32 bits.  Reading past the end of memory faults, and the
\* handler of a fault does not return.
ReadRange(b) ==
  /\ b = CMD_RRANGE
  /\ LET length  == _rx_u16(rx, 4)
         address == _rx_u32(rx, 0)
         end     == (address + length) % Word
         short   == Len(rx) = 6 /\ length < TXBUFSZ \div 2
     IN  \/ ~short /\ Refuse(RES_BADARGS)
         \/ short /\ end > ALLOWED_FLASH_CEILING + 1 /\ Refuse(RES_BADADDR)
         \/ /\ short /\ end <= ALLOWED_FLASH_CEILING + 1
            /\ \/ /\ address <= end
                  /\ Answer(RES_RRANGE, Memory(flash, address, length))
               \/ /\ address > end
                  /\ job' = Fault
                  /\ UNCHANGED <<tx, baudVars, flashVars>>

\* rx_stage_ram[9] is read before rx_ptr is looked at; but with fewer bytes
\* received than that, no length there makes rx_ptr right.
AttrArgs == Len(rx) >= KeyLen + 2 /\ Len(rx) = KeyLen + 2 + rx[KeyLen + 2]

SetAttr(b) ==
  /\ b = CMD_SATTR
  /\ LET idx   == rx[1]
         legal == idx < NumAttributes /\ rx[KeyLen + 2] <= ValueLen
         page  == AttrAddress(idx) \div PageSize
         start == (idx % (PageSize \div AttrSize)) * AttrSize
     IN  \/ ~AttrArgs /\ Refuse(RES_BADARGS)
         \/ AttrArgs /\ ~legal /\ Refuse(RES_BADADDR)
         \/ AttrArgs /\ legal /\ Erase(page, AsSeq(Patched(flash[page], start, Tail(rx))))

GetAttr(b) ==
  /\ b = CMD_GATTR
  /\ \/ Len(rx) # 1 /\ Refuse(RES_BADARGS)
     \/ Len(rx) = 1 /\ rx[1] >= NumAttributes /\ Refuse(RES_BADADDR)
     \/ /\ Len(rx) = 1 /\ rx[1] < NumAttributes
        /\ Answer(RES_GATTR, Memory(flash, AttrAddress(rx[1]), AttrSize))

CrcIntFlash(b) ==
  /\ b = CMD_CRCIF
  /\ LET base == _rx_u32(rx, 0)
         len  == _rx_u32(rx, 4)
         outside == \/ base >= ALLOWED_FLASH_CEILING
                    \/ (base + len) % Word > ALLOWED_FLASH_CEILING + 1
                    \/ len >= FlashSize
     IN  \/ Len(rx) # 8 /\ Refuse(RES_BADARGS)
         \/ Len(rx) = 8 /\ outside /\ Refuse(RES_BADADDR)
         \/ /\ Len(rx) = 8 /\ ~outside
            /\ Answer(RES_CRCIF, crc32(Memory(flash, base, len)))

\* The first word received becomes the second of the page; the rest of the page
\* is what the page buffer holds.
WriteUser(b) ==
  /\ b = CMD_WUSER
  /\ \/ Len(rx) # 8 /\ Refuse(RES_BADARGS)
     \/ Len(rx) = 8 /\ Erase(UserPage, SubSeq(rx, 5, 8) \o SubSeq(rx, 1, 4))

Unknown(b) ==
  /\ b \notin {CMD_PING, CMD_INFO, CMD_ID, CMD_RESET, CMD_EPAGE, CMD_WPAGE,
               CMD_CRCRX, CMD_RRANGE, CMD_SATTR, CMD_GATTR, CMD_CRCIF,
               CMD_WUSER, CMD_CHANGE_BAUD}
  /\ Refuse(RES_UNKNOWN)

\* Nothing is left to send, what was received is forgotten; a pending escape,
\* a baud rate waiting for confirmation and flash are not.
Reset(b) ==
  /\ b = CMD_RESET
  /\ rx' = <<>> /\ tx' = <<>>
  /\ UNCHANGED <<baudVars, flashVars, job>>

ChangeState(state, rate, code) ==
  /\ change_baud_state' = state /\ new_baud_rate' = rate
  /\ Say(code)
  /\ UNCHANGED <<baudrate, old_baud_rate, flashVars, job>>

\* The confirmation follows the five bytes of the request, still in rx.
ChangeBaud(b) ==
  /\ b = CMD_CHANGE_BAUD
  /\ LET new     == Len(rx) = 5 /\ rx[1] = CHANGE_BAUD_SUBCMD_NEW
         confirm == Len(rx) = 10 /\ rx[6] = CHANGE_BAUD_SUBCMD_CONFIRM
         idle    == change_baud_state = "IDLE"
         right   == confirm /\ _rx_u32(rx, 6) = baudrate
     IN  \/ Len(rx) < 5 /\ Refuse(RES_BADARGS)
         \/ new /\ ~idle /\ Refuse(RES_INTERROR)
         \/ new /\ idle /\ ChangeState("CHANGING", _rx_u32(rx, 1), RES_OK)
         \/ Len(rx) >= 5 /\ ~new /\ ~Waiting /\ Refuse(RES_INTERROR)
         \/ right /\ Waiting /\ ChangeState("IDLE", new_baud_rate, RES_OK)
         \/ /\ Len(rx) >= 5 /\ ~new /\ ~right /\ Waiting
            /\ ChangeState("RESETTING", new_baud_rate, RES_CHANGE_BAUD_FAIL)

\* bl_cmd.
Command(b) ==
  \/ /\ Waiting /\ b # CMD_CHANGE_BAUD
     /\ ChangeState("RESETTING", new_baud_rate, RES_CHANGE_BAUD_FAIL)
     /\ UNCHANGED rx
  \/ ~Waiting /\ Reset(b)
  \/ /\ ~Waiting \/ b = CMD_CHANGE_BAUD
     /\ \/ Ping(b) \/ Info(b) \/ Id(b) \/ ErasePage(b) \/ WritePage(b)
        \/ CrcRx(b) \/ ReadRange(b) \/ SetAttr(b) \/ GetAttr(b)
        \/ CrcIntFlash(b) \/ WriteUser(b) \/ ChangeBaud(b) \/ Unknown(b)
     /\ UNCHANGED rx

-----------------------------------------------------------------------------
(* bl_loop_poll.  The loop is idle (job = None) between its steps, and runs *)
(* many times in the time of a byte.                                        *)

\* Mutant: one byte too many is taken.
FullLate == Len(rx) > RXBUFSZ

Full == Len(rx) >= RXBUFSZ

\* Mutant: noise at a baud rate to confirm is not counted.
NeverTooLong == FALSE

\* Too much for a confirmation.
TooLong == Waiting /\ Len(rx) > 10

Keep(b) ==
  /\ rx' = Append(rx, b)
  /\ UNCHANGED <<tx, baudVars, flashVars, job>>

\* bl_rxb.  A character that fits no more is read and dropped, whatever it is.
Receive ==
  /\ job = None /\ rhr # <<>> /\ rhr' = <<>>
  /\ LET b == Head(rhr)
     IN  \/ /\ Full
            /\ tx' = <<RES_OVERFLOW>>
            /\ UNCHANGED <<rxVars, baudVars, flashVars, job>>
         \/ /\ ~Full /\ byte_escape /\ byte_escape' = FALSE
            /\ \/ b = ESCAPE_CHAR /\ Keep(b)
               \/ b # ESCAPE_CHAR /\ Command(b)
         \/ /\ ~Full /\ ~byte_escape /\ b = ESCAPE_CHAR
            /\ byte_escape' = TRUE
            /\ UNCHANGED <<rx, tx, baudVars, flashVars, job>>
         \/ /\ ~Full /\ ~byte_escape /\ b # ESCAPE_CHAR
            /\ \/ TooLong /\ Command(0)
               \/ ~TooLong /\ Keep(b)
            /\ UNCHANGED byte_escape
  /\ UNCHANGED <<usart, shifter, hostVars>>

\* The holding register and the shift register of the transmitter.
TxReady == Len(shifter) < 2

\* bl_txb.
Transmit ==
  /\ job = None /\ TxReady /\ tx # <<>>
  /\ shifter' = Append(shifter, Head(tx))
  /\ tx' = Tail(tx)
  /\ UNCHANGED <<rxVars, baudVars, usart, rhr, flashVars, job, hostVars>>

Switching == change_baud_state \in {"CHANGING", "RESETTING"}

StartDrain ==
  /\ job = None /\ TxReady /\ tx = <<>> /\ Switching
  /\ job' = Drain
  /\ UNCHANGED <<rxVars, tx, baudVars, lineVars, flashVars, hostVars>>

\* Mutant: only the holding register is waited for.
TxReadyIsEmpty == TxReady

TxEmpty == shifter = <<>>

\* bl_change_baud_rate and bl_reset_baud_rate.
Use(rate, old) ==
  /\ baudrate' = rate /\ old_baud_rate' = old
  /\ usart' = usart_init_rs232(rate)

\* Mutant: the rate to go back to is saved after it is replaced.
ChangeRateSavedLate == Use(new_baud_rate, new_baud_rate)

ChangeRate == Use(new_baud_rate, baudrate)
ResetRate  == Use(old_baud_rate, 0)

SwitchRate ==
  /\ job = Drain /\ TxEmpty
  /\ \/ /\ change_baud_state = "CHANGING" /\ ChangeRate
        /\ change_baud_state' = "WAITING_CONFIRMATION"
     \/ /\ change_baud_state = "RESETTING" /\ ResetRate
        /\ change_baud_state' = "IDLE"
  /\ rhr' = <<>> /\ shifter' = <<>> /\ job' = None
  /\ UNCHANGED <<rxVars, tx, new_baud_rate, flashVars, hostVars>>

-----------------------------------------------------------------------------
(* The flash controller ends what a command waits for.                      *)

\* Mutant: what an earlier command left in the page buffer stays in it.
ClearNothing == page_buffer

clear_page_buffer == NoData

EraseDone ==
  /\ job.kind = "erase"
  /\ flash' = [flash EXCEPT ![job.page] = NoData]
  /\ \/ /\ job.next = <<>>
        /\ Say(RES_OK) /\ job' = None
        /\ UNCHANGED page_buffer
     \/ /\ job.next # <<>>
        /\ page_buffer' = Patched(clear_page_buffer, 0, job.next)
        /\ job' = [kind |-> "program", page |-> job.page]
        /\ UNCHANGED tx
  /\ UNCHANGED <<rxVars, baudVars, lineVars, hostVars>>

\* The check after the erase finds a bit that is not set.
EraseFails ==
  /\ "fail" \in Faults /\ job.kind = "erase"
  /\ Say(RES_INTERROR) /\ job' = None /\ clean' = FALSE
  /\ UNCHANGED <<rxVars, baudVars, lineVars, flashVars, askVars, got>>

WriteDone ==
  /\ job.kind = "program"
  /\ flash' = [flash EXCEPT ![job.page] = page_buffer]
  /\ Say(RES_OK) /\ job' = None
  /\ UNCHANGED <<rxVars, baudVars, lineVars, page_buffer, hostVars>>

-----------------------------------------------------------------------------
(* Power failing, during the work on a page or not; the host starts again   *)
(* with the board.                                                          *)

PingRequest == [sync |-> TRUE, args |-> <<>>, cmd |-> CMD_PING]

HostInit ==
  /\ sending = <<>> /\ host_rate = HomeRate /\ home = HomeRate
  /\ request = PingRequest /\ got = <<>> /\ before = Image /\ clean = FALSE

\* bl_init, and the values main starts with.
Init ==
  /\ byte_escape = FALSE /\ rx = <<>> /\ tx = <<>>
  /\ change_baud_state = "IDLE" /\ new_baud_rate = 0 /\ old_baud_rate = 0
  /\ baudrate = HomeRate /\ usart = usart_init_rs232(HomeRate)
  /\ rhr = <<>> /\ shifter = <<>>
  /\ flash = Image /\ page_buffer = NoData
  /\ job = None
  /\ HostInit

CutAt(old, new, cut) == [o \in Offsets |-> IF o < cut THEN new[o] ELSE old[o]]

PowerCycle ==
  /\ "power" \in Faults
  /\ \/ job.kind \notin {"erase", "program"} /\ flash' = flash
     \/ /\ job.kind \in {"erase", "program"}
        /\ \E cut \in Cuts :
             flash' = [flash EXCEPT ![job.page] =
                         CutAt(@, IF job.kind = "erase" THEN NoData ELSE page_buffer, cut)]
  /\ byte_escape' = FALSE /\ rx' = <<>> /\ tx' = <<>>
  /\ change_baud_state' = "IDLE" /\ new_baud_rate' = 0 /\ old_baud_rate' = 0
  /\ baudrate' = HomeRate /\ usart' = usart_init_rs232(HomeRate)
  /\ rhr' = <<>> /\ shifter' = <<>> /\ job' = None
  /\ sending' = <<>> /\ host_rate' = HomeRate /\ home' = HomeRate
  /\ request' = PingRequest /\ got' = <<>> /\ before' = flash' /\ clean' = FALSE
  /\ UNCHANGED page_buffer

-----------------------------------------------------------------------------
(* The host and the line (external).                                        *)

Frame(r) ==
  (IF r.sync THEN <<0, ESCAPE_CHAR, CMD_RESET>> ELSE <<>>)
    \o Escaped(r.args) \o <<ESCAPE_CHAR, r.cmd>>

\* The two ends use the same rate.  The host's line is not limited to 32 bits.
Compatible ==
  LET over == IF MCK >= 16 * host_rate THEN 16 ELSE 8
  IN  usart = [over |-> over, cd_fp |-> (8 * MCK + ((over * host_rate) \div 2)) \div (over * host_rate)]

\* The loop has nothing to do until a byte comes, or waits for something slow.
Settled ==
  \/ job.kind \in {"erase", "program", "fault"}
  \/ job = Drain /\ ~TxEmpty
  \/ job = None /\ rhr = <<>> /\ ~(TxReady /\ (tx # <<>> \/ Switching))

\* Nothing is on its way.
Silent == Settled /\ sending = <<>> /\ TxEmpty

Quiet == Silent /\ job = None

Ask(r, rate) ==
  /\ sending' = Frame(r) /\ request' = r /\ host_rate' = rate
  /\ got' = <<>> /\ before' = flash
  /\ UNCHANGED <<rxVars, tx, baudVars, lineVars, flashVars, job>>

\* A request begins well when what was left before it cannot disturb it.
NewRequest ==
  /\ Quiet
  /\ \E r \in Requests :
       /\ Ask(r, home)
       /\ clean' = /\ ~byte_escape /\ change_baud_state = "IDLE"
                   /\ IF r.sync THEN Len(rx) + 1 < RXBUFSZ ELSE rx = <<>>
                   /\ Len(r.args) < RXBUFSZ
  /\ UNCHANGED home

LittleEndian(n) ==
  LET B == ByteValues
  IN  <<n % B, (n \div B) % B, (n \div (B * B)) % B, (n \div (B * B * B)) % B>>

BaudRequest(rate) ==
  [sync |-> TRUE, cmd |-> CMD_CHANGE_BAUD,
   args |-> <<CHANGE_BAUD_SUBCMD_NEW>> \o LittleEndian(rate)]

BaudConfirm(rate) ==
  [sync |-> FALSE, cmd |-> CMD_CHANGE_BAUD,
   args |-> <<CHANGE_BAUD_SUBCMD_CONFIRM>> \o LittleEndian(rate)]

\* The host confirms a rate only when it has asked for it, and no command is
\* the escape character.
ASSUME RequestAssumption ==
  \A r \in Requests :
    r.cmd # ESCAPE_CHAR /\ \A rate \in Rates : r # BaudConfirm(rate)

NewRate ==
  /\ Quiet
  /\ \E rate \in Rates : Ask(BaudRequest(rate), home)
  /\ clean' = (~byte_escape /\ Len(rx) + 1 < RXBUFSZ /\ change_baud_state = "IDLE")
  /\ UNCHANGED home

Agreed == got = <<ESCAPE_CHAR, RES_OK>>

\* The rate is accepted: the host uses it, to confirm it.
Confirm ==
  /\ sending = <<>> /\ Agreed
  /\ \E rate \in Rates : request = BaudRequest(rate) /\ Ask(BaudConfirm(rate), rate)
  /\ UNCHANGED <<home, clean>>

\* It is confirmed: the host keeps it.
KeepRate ==
  /\ sending = <<>> /\ Agreed
  /\ \E rate \in Rates : request = BaudConfirm(rate) /\ home # rate /\ home' = rate
  /\ UNCHANGED <<rxVars, tx, baudVars, lineVars, flashVars, job,
                 sending, host_rate, request, before, got, clean>>

\* No answer, or a late one: the host, whose patience is much longer than a byte
\* takes, asks again, at the rate it had before.
Timeout ==
  /\ "timeout" \in Faults /\ Silent
  /\ Ask(IF request.cmd = CMD_CHANGE_BAUD THEN PingRequest ELSE request, home)
  /\ clean' = FALSE
  /\ UNCHANGED home

\* The time of a character: the transmitter shifts one out, which the host gets
\* when its rate is the same.
ShiftOut ==
  /\ shifter' = IF TxEmpty THEN <<>> ELSE Tail(shifter)
  /\ got' = IF TxEmpty \/ ~Compatible THEN got ELSE Append(got, Head(shifter))
  /\ UNCHANGED <<rxVars, tx, baudVars, usart, flashVars, job,
                 host_rate, home, request, before>>

\* In the same time one arrives at the most.  A byte that is not read before the
\* next arrives is lost.
ByteArrives ==
  /\ sending # <<>> /\ Settled /\ Compatible
  /\ rhr' = <<Head(sending)>> /\ sending' = Tail(sending)
  /\ clean' = (clean /\ rhr = <<>>)
  /\ ShiftOut

\* At another rate it arrives as something else, or not at all.
NoiseArrives ==
  /\ sending # <<>> /\ Settled /\ ~Compatible
  /\ \E n \in Noise : rhr' = <<n>>
  /\ sending' = Tail(sending) /\ clean' = FALSE
  /\ ShiftOut

ByteLost ==
  /\ sending # <<>> /\ Settled /\ ~Compatible
  /\ sending' = Tail(sending) /\ clean' = FALSE
  /\ rhr' = rhr
  /\ ShiftOut

\* The host sends nothing meanwhile.
HostReceives ==
  /\ ~TxEmpty
  /\ clean' = (clean /\ Compatible)
  /\ UNCHANGED <<rhr, sending>>
  /\ ShiftOut

-----------------------------------------------------------------------------

Loop == Receive \/ Transmit \/ StartDrain \/ SwitchRate

Controller == EraseDone \/ WriteDone

Next ==
  \/ Loop \/ Controller \/ EraseFails \/ PowerCycle
  \/ NewRequest \/ NewRate \/ Confirm \/ KeepRate \/ Timeout
  \/ ByteArrives \/ NoiseArrives \/ ByteLost \/ HostReceives

Spec == Init /\ [][Next]_vars

\* The loop polls for ever, the flash controller finishes, bytes sent arrive,
\* also those at another rate now and then; the host goes on asking.
FairSpec ==
  /\ Spec
  /\ WF_vars(Loop) /\ WF_vars(Controller \/ EraseFails)
  /\ WF_vars(ByteArrives \/ NoiseArrives \/ ByteLost) /\ SF_vars(NoiseArrives)
  /\ WF_vars(HostReceives)
  /\ WF_vars(NewRequest \/ NewRate \/ Timeout)

-----------------------------------------------------------------------------
(* Properties.                                                              *)

\* The staging buffers hold no more than their arrays (bootloader.c:34-39: the
\* bounds are checked in bl_loop_poll, for bl_rxb, and in _escape_cat), and the
\* registers hold what the hardware can.
TypeOK ==
  /\ byte_escape \in BOOLEAN
  /\ Len(rx) <= RXBUFSZ /\ Range(rx) \subseteq Byte
  /\ Len(tx) <= TXBUFSZ /\ Range(tx) \subseteq Byte
  /\ Len(rhr) <= 1 /\ Range(rhr) \subseteq Byte
  /\ Len(shifter) <= 2 /\ Range(shifter) \subseteq Byte
  /\ change_baud_state \in {"IDLE", "CHANGING", "WAITING_CONFIRMATION", "RESETTING"}
  /\ {baudrate, new_baud_rate, old_baud_rate} \subseteq 0 .. Word - 1
  /\ DOMAIN flash = AllPages /\ \A p \in AllPages : flash[p] \in Page
  /\ page_buffer \in Page
  /\ job.kind \in {"none", "drain", "fault", "erase", "program"}
  /\ job.kind \in {"erase", "program"} => job.page \in AllPages

\* All of the request is received, and what it asks for is done.
Done == sending = <<>> /\ rhr = <<>> /\ job \in {None, Drain}

Promised ==
  IF \E rate \in Rates : request = BaudConfirm(rate)
  THEN Outcome(RES_OK, <<>>, before)
  ELSE Promise(request.cmd, request.args, before)

\* Of a request that nothing disturbed, the host has read, or has still to read,
\* the reply that is promised, and flash is what it was but for the promised
\* effect, whatever requests came before it, refused, cut off or late (the
\* bl_c_* functions of bl_commands.c, on buffers nothing clears in between).
\* The promise is the code's where bootloader.h says otherwise (LegacyPromise):
\* of CMD_ID, that nothing is sent.
AnswersRight ==
  clean /\ Done =>
    got \o shifter \o tx = Promised.reply /\ flash = Promised.flash

\* Below the floor of the application flash changes only in the attributes, and
\* by SATTR: no request, however garbled by bytes lost or left over, and no power
\* failure changes a page of the bootloader (bl_commands.c:117, :152, :238).
BootloaderSafe ==
  [][\A p \in AllPages :
       flash'[p] # flash[p] => p \in WritablePages \cup AttributePages \cup {UserPage}]_vars

\* A request that nothing disturbs is answered in full.  ID has no answer, and a
\* range that wraps around the end of memory faults.
Answered ==
  clean ~> (~clean \/ job = Fault \/ got = Promised.reply)

\* The USART works at the rate the program believes in, whenever it is not
\* trying one: no sequence of changes, refused rates, failed confirmations and
\* reverts leaves it at another or with no valid configuration (bootloader.c:79-102).
RateKept ==
  change_baud_state \in {"IDLE", "CHANGING"} =>
    usart = usart_init_rs232(baudrate) /\ usart # Misframed

\* A rate that does not get confirmed is given up in the end, as long as the
\* host sends something, at whatever rate, other than a CHANGE_BAUD without
\* arguments (bootloader.c:154-163, :176-186).
BaudSettles ==
  []<>(change_baud_state = "IDLE" \/ <<request.cmd, request.args>> = <<CMD_CHANGE_BAUD, <<>>>>)

=============================================================================
