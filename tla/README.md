# Verification of the Tock bootloader

TLA+ models of the Tock bootloader (`bootloader/`, `protocol/`, `chips/`,
`boards/`, `legacy/`), the TLC runs that check them on small instances, and
theorems about them checked by TLAPS.

    tlc -workers 2 -config MCBootloaderWrites.cfg MCBootloader
    tlapm BootloaderProofs.tla
    tlc -workers 2 -config MCFlashLargeToSmall.cfg MCFlashLargeToSmall
    tlapm FlashLargeToSmallProofs.tla

and likewise for the other modules of section 2.

`PROJECT.json` lists the components, the runs, the lines of source each
definition stands for, the hazards and the theorems.

## 1. Inventory

### The system

The bootloader runs alone on the chip, at the start of flash. After a reset it
decides whether to start the kernel or to stay; if it stays it serves commands
from a host over a serial line: read, write, erase and digest flash, get and set
the attributes, set the start address of the kernel, exit. Everything runs on one
thread. Drivers complete operations through callbacks from the kernel's main loop,
so there is no preemption of the bootloader's own code: the interleavings are those
of completions, timers, host traffic, and resets, which may come at any instruction.

| Component | Source | State | Operations |
|---|---|---|---|
| Bootloader | `bootloader/src/bootloader.rs` | `state`, the cells of BUF and of the page buffer, flash | `start`, `received_buffer` (13 kinds of command), `transmitted_buffer`, `read_complete`, `write_complete`, `erase_complete` |
| CRC-32 | `bootloader/src/bootloader_crc.rs` | a table | none |
| BootloaderEnterer, entry deciders, jumper | `bootloader/src/bootloader.rs`, `bootloader_entry_*.rs`, `chips/*`, `arch/*` | the start address in flash; a register or a word of RAM that survives resets | `check`, `jump`, `stay_in_bootloader` |
| FlashLargeToSmall | `bootloader/src/flash_large_to_small.rs` | `state`, its own page buffer, the client's | `read_page`, `write_page`, `erase_page` and the callbacks of the flash below |
| Sam71FlashDirect | `boards/samv71xplained-bootloader/src/flash_passthrough.rs` | two page buffers | the same |
| UartReceiveMultipleTimeout | `bootloader/src/uart_receive_multiple_timeout.rs` | `state`, two buffers, an index, an alarm | `receive_automatic`, `received_buffer`, `alarm` |
| UartReceiveTimeout | `bootloader/src/uart_receive_timeout.rs` | an alarm | the same, on hardware that reports idle lines |
| Protocol codec | `protocol/src/lib.rs` | for each of four machines: escape state, buffer, count | `receive`, `next`, `reset`, `set_payload_len` |
| Board wiring | `boards/*/src/main.rs`, `boards/kernel_layout.ld` | none after start | |
| bootloader_attributes | `tools/bootloader_attributes` | none (build time) | |
| Legacy bootloader | `legacy/src/*.c` | escape flag, receive and transmit buffers, baud-rate state | `bl_loop_poll`, `bl_rxb`, `bl_cmd`, `bl_c_*` |
| Kernel, drivers, ASF | submodule, `legacy/src/ASF` | | external |

### How they interact

`Bootloader` owns two buffers and lends them by moving them: BUF to the UART, to
receive a command (`receive_automatic`) or to send a reply (`transmit_buffer`), and
the page buffer to flash (`read_page`, `write_page`; `erase_page` takes none). The
completion callback hands the buffer back. On the nRF52 boards the UART is
`UartReceiveMultipleTimeout` over USB CDC or UARTE and flash is
`FlashLargeToSmall` over the NVMC with its 4096-byte pages; on the SAMV71 it is the
USART itself and `Sam71FlashDirect`, whose `read_page` calls `read_complete` before
it returns. `received_buffer` decodes with a `CommandDecoder` it creates anew each
time. `BootloaderEnterer` runs once, before any of this.

### What is hard

* The **continuation of a command is in `state`**, and the buffers it needs are in
  cells: `take().map(..)` silently does nothing when the cell is empty. Every
  handler has to end in exactly one call that leads to a callback. About twenty
  paths do, and only a long sequence of commands would show one that does not.
* **READ_RANGE streams**: page ends, BUF's end and escapes each cut the reply, and
  the rest continues from `transmitted_buffer`.
* **Errors are dropped** (`let _ =`, `_result`): a refused call takes a buffer with
  it, a failed write is answered OK.
* **Resets** between reading a page and writing it back, or while it is programmed.
* **Receiving**: timers against data, a command split over two callbacks.
* **The codec**: four machines, of which two keep state between messages, over a line
  that may lose bytes.
* **Entry**: registers that survive the reset, and a busy wait for a second one.
* **Legacy**: nothing of a command is cleared when the next begins; waiting for flash or
  for the transmitter stops the loop; 32-bit sums wrap; both ends change the baud rate.

### What makes each component correct

* Bootloader: each command has exactly its documented effect on flash and one
  complete reply; WRITE_PAGE leaves the bootloader alone; it never goes deaf while
  drivers accept its calls; no callback finds an empty cell or a state it does not
  expect.
* CRC: it is the CRC-32 whatever pages a range spans.
* Flash adapters: a 512-byte page changes as if it were a page of the device, and
  nothing else does, up to a power failure; every accepted operation gets one
  callback.
* UART adapter: what is delivered is what was sent, up to BUF, in one piece unless
  the host pauses; every `receive_automatic` ends.
* Codec: decoding what was encoded gives the command back; RESET always recovers.
* Entry: the kernel is started only from a plausible image; a request to stay is
  honoured once.
* Legacy: the same service, and a change of baud rate that ends with both sides at
  one rate.

## 2. Modules

| Module | What it is |
|---|---|
| `Crc32` | the lookup table and the byte loop; words are sets of one-bits |
| `MCCrc32` | all messages of bounded length, against the reference definition |
| `BootloaderData` | flash, layout, commands and reply bytes; constants and their assumptions |
| `BootloaderPromise` | what each command promises: what it makes of flash, and its replies |
| `BootloaderService` | the abstract specification of the bootloader: at most one promise at a time |
| `Bootloader` | the detailed model: one action per handler, callback and environment step; the properties |
| `MCBootloader` | small instances |
| `BootloaderProofs` | lemmas by induction about strings, CRC and escapes; theorems about `Bootloader`, the refinement included |
| `PageFlash` | the abstract specification of a flash adapter |
| `FlashLargeToSmall` | the detailed model of the 512-byte adapter over larger pages |
| `MCFlashLargeToSmall` | small instances |
| `FlashLargeToSmallProofs` | theorems about `FlashLargeToSmall` |
| `Sam71FlashDirect`, `MCSam71FlashDirect` | the SAMV71's adapter, and an instance |
| `Sam71FlashDirectProofs` | theorems about it |
| `BootEntry`, `MCBootEntry` | from a reset to the bootloader or a kernel |
| `BootEntryProofs` | theorems about it |
| `Protocol` | the encoders and decoders of the wire format, as operators on their states |
| `ProtocolProofs` | each decoder undoes its encoder, for messages of any length |
| `Codec`, `MCCodec` | a host and a device that use them over a line |
| `CodecProofs` | theorems about `Codec` |
| `UartLink`, `MCUartLink` | host, UART driver, `UartReceiveMultipleTimeout` and the decoding loop of `received_buffer` |
| `UartLinkProofs` | theorems about `UartLink` |
| `LegacyData` | sizes, codes, words, replies and the baud-rate divisor of the C bootloader |
| `LegacyPromise` | what each of its commands promises: one reply, one effect on flash; by the header's comments, or by the code where it says so |
| `Legacy`, `MCLegacy` | the C bootloader with its USART and flash controller, a line and a host |
| `LegacyProofs` | theorems about `Legacy` |

`Crc32` <- `BootloaderData` <- `BootloaderPromise` <- `Bootloader`, which instantiates
`BootloaderService` under the refinement mapping `Service`: the operators of `BootloaderPromise`
are its parameters.
`FlashLargeToSmall` and `Sam71FlashDirect` each instantiate `PageFlash` as `Small`.
`Protocol` <- `Codec` and `UartLink`; `UartLink` is the composition of the codec, the UART
adapter and the receiving side of the bootloader. `LegacyData` <- `LegacyPromise` <- `Legacy`.
Flash and `Bootloader` are not composed; what they have to agree on is written below, under
"The two halves". `UartLink` leaves out what serving a command does: `Bootloader` takes decoded
commands, and `ServedAsSent` says which.

### Bootloader

| Variable | Code |
|---|---|
| `state` | `Bootloader.state`, as a record with the variant's fields |
| `buffer` | who holds BUF: the cell, the UART receiving or transmitting, or nobody ("lost", dropped with an error) |
| `bytes` | what BUF holds that will be used: the reply being sent, or the attribute SET_ATTRIBUTE keeps there across its read |
| `page_buffer` | who holds the page buffer |
| `op` | the flash operation accepted and not completed, with its data |
| `flash` | the contents of flash |
| `request`, `wire` | history: the command being served and the chunks of its reply already sent |

A handler is one action, as in the code, where it runs to its end before anything
else does. The calls it makes are operators (`Listen`, `Transmit`, `ReadPage`,
`WritePage`, `ErasePage`) that accept, or refuse and keep the buffer out of reach
as `let _ =` does.

Decisions worth knowing:

* **Decoding.** `received_buffer` sees a batch of decoded commands; the loop skips
  RESETs, serves the first other one and drops the rest (`FirstOther`). Commands the
  decoder knows and the bootloader does not are `ChangeBaud`, which the documents say it serves, and
  `Unsupported`; the decoder's errors are `BadArguments` and `Malformed`.
* **Synchronous reads** of the SAMV71 are covered: `read_page` is the last thing
  each handler does, so a completion inside the call does what one right after it
  would.
* **`_ =>` arms** of the flash callbacks are not actions: `OpMatchesState` shows that
  none is reached, and `CallbacksExpected` proves it.
* **Addresses outside flash** are refused, as `Sam71FlashDirect` does; on the nRF52
  the access faults. Either way the bootloader answers nothing until it is reset,
  which is the abstract service's `Wedge`.
* **INFO** keeps the data of its JSON blob (version, start address in hexadecimal),
  the length, the padding and the byte the padding misses; the fixed text is left out.
* **`StaleBytes`** is what BUF may hold past the string of INFO: any of the given
  bytes, more than the code can have there.
* **SET_START_ADDRESS** carries its four little-endian bytes.
* **Torn pages.** A power failure, or a failed program, leaves the old page, or the
  first `n` bytes of the new one and the rest erased, for each `n` in `Cuts`.
* **EXIT** resets the chip; coming up again is `Restart`.
* Widths: lengths and addresses stay in flash or are refused, so the 16- and 32-bit
  fields of `State` cannot wrap; the CRC word has its 32 bits.
* Operators introduced as `Mutant:` are deliberately wrong variants of the definition
  that follows them. Nothing uses them; with one in place of its original the property
  named in `PROJECT.json` fails, which shows that the property depends on the code.

### BootloaderService

With the operators of `BootloaderPromise`, a command is accepted, takes effect on flash at once, and has one reply computed from
flash as it then is. No buffers, pages in flight, chunks or callbacks. It may wedge at
any point, which the implementation does only when a driver refuses or a transmission
fails (`NeverWedged`), and it may be reset, tearing only the
page the command in progress changes.

### FlashLargeToSmall

| Variable | Code |
|---|---|
| `state` | `FlashLargeToSmall.state` |
| `pagebuffer` | whether the large page buffer is in its cell, with the flash below, or lost |
| `client_pagebuffer` | what the client's page holds, while the adapter has it |
| `large` | the operation the flash below accepted and has not completed |
| `flash` | large pages, each a function from slots to opaque contents |
| `job`, `result` | history: the client's call, and what its last read returned |

A slot is a 512-byte part of a large page. `LargeSlots` is the size of a large page and
`FallbackSlots` that of the 4096 bytes `get_large_page_index_offset` assumes when the buffer
is out, which in the callbacks it always is. The loops that copy 512 bytes are one assignment
of a slot, and panic when the slot is not in the page, as the indexing does.

Only the flash below is external: it refuses a page that does not exist, may refuse other
calls, and completes what it accepted later. The client makes one call at a time, which
theorem `Ownership` shows of the Bootloader; the page number one past the end is included.

`PageFlash` is the promise: an accepted call changes the page it names and no other, and a
read returns what is there; power failing, or a failed operation, may leave any page *near*
the one named erased or partly programmed. Here, near is "in the same large page".

### Sam71FlashDirect

`efc_page` is what the page for the controller holds while it is in its cell, `client_page`
whether the client's is, `efc` the operation accepted and not completed; `job` and `result`
are history, as above. A read calls back before it returns: the callback is the same step, and
what the client then calls is the next (`PageFlash!ReadAtOnce`). A call made from inside the
callback cannot find anything changed, because a read touches neither page. Near is "the same
page": the SAMV71 programs pages of 512 bytes.

### BootEntry

| Variable | Code |
|---|---|
| `gpregret` | GPREGRET of the nRF52, GPBR7 of the SAMV71 |
| `double_reset` | the word of RAM |
| `active`, `inactive`, `select_low` | the counts of `stay_in_bootloader` for a pin, and the pin, which calls for the bootloader when it is low |
| `start_address`, `image` | the flags, and what is at that address |
| `stage` | which of two chained bootloaders runs |
| `pc` | where the boot has got to |
| `why`, `held_low`, `seen_low` | history: what calls for the bootloader |

One step is one volatile read or write, because a reset may come between any two. `board`, chosen
at the start, says which decider is used and which resets the register outlives; the
`register` decider of both chips has the same steps. The second `>=` of the register's check
(`bootloader_entry_gpregret.rs:75`) is never reached, since the first takes every such value.
A start address inside the range of kernels but past the chip's flash is dereferenced
(`bootloader.rs:131`): `Faults`.

The mark 0x91 that is left for a chained bootloader is there after a kernel was started, too: one
reset by that kernel enters the bootloader. `StaysForAReason` counts the mark as a reason.

### Protocol, Codec

A message is its kind and its fields as sequences of bytes, least significant first, so that
conversions of numbers do not appear; doubling and undoubling of escape characters, lengths,
padding, and errors do. An encoder is a count and a flag, a decoder its state, buffer and, for
responses, the length it needs. `Codec` runs them byte by byte. The host sends PINGs after an
answer it did not expect, as a flash tool does, until one is answered.

Worth knowing: `ResponseDecoder::reset` (`lib.rs:584`) leaves the length that was needed;
`CommandEncoder::new` accepts the attribute index 16 (`lib.rs:262`, compared with `>`); a
`GET_ATTR` response with the length 56 is decoded into a value one byte longer than there is
(the byte after it). A response to a read of no bytes completes inside `handle_escape`, which
drops it (`lib.rs:745`): reads of length 0 are left out of the instance.

### UartLink

`state`, `rx_buffer`, `rx_client_buffer` are the adapter's fields, the length of the last its
`rx_client_index`; `uart` is the receive in the driver; `fifo` what no receive has taken yet, which
the driver is taken to keep; `decoder` and `unread` are local to `received_buffer`. `AlarmFires`
comes only when nothing waits, except in the `MaxGaps` pauses of 6 ms inside a command. `gap` says
that the command being sent has had such a pause, or was begun while bytes that a pause had
left of the one before were still on their way (`LineClear`). What the
model shows of them: the first part is dropped, the rest decoded by itself. A pause inside
the last bytes of a WRITE_PAGE panics (`lib.rs:380`), and the tail of a SET_ATTR may be another
SET_ATTR. `SplitContained` says what else can come out of parts: an ERASE_PAGE, SET_START_ADDRESS or
full WRITE_PAGE is one of the host's, whole, since the lengths of parts do not fit. There is one
exception. A part that begins between the two halves of a doubled escape character is read out of
step by the new decoder, as long as only doubled escapes follow: it takes every second half for a
first one, then the next plain byte for a code. A WRITE_PAGE with five 0xFC in a row and then 0x23,
split so at the first of them, is served as SET_START_ADDRESS(0xFCFCFCFC), which rewrites the page of the attributes
(`bootloader.rs:405`). The arguments of such a command are escape characters, all of them. A
WRITE_PAGE longer than BUF is never answered. An error other than CANCEL ends receiving
for good.

### Legacy

The program's variables have their names: `rx` is `rx_stage_ram` up to `rx_ptr`, `tx` is
`tx_stage_ram` from `tx_ptr` for `tx_left`. `job` is what the loop is stuck in: nothing,
draining the transmitter, or waiting for the flash controller. `usart` is the divisor
and oversampling that `usart_set_async_baudrate` computes in 32 bits, `rhr` and `shifter` the
registers of the USART. The host is at `host_rate` and can fall back to `home`.

A byte has 64 values, so that words have 24 bits and their overflow is within TLC's
integers. Assumed of the line and the host: the loop polls many times in the time of a character,
at most one character arrives in that time, the host waits much longer than that for an answer,
and starts again when the board loses power. A byte that arrives before the last one is read
replaces it.

Worth knowing: after a programming error WPAGE still answers OK (only the erase is
checked); the result of `usart_init_rs232` is not looked at, so that a rate it refuses leaves the USART
at 5 bits with parity until the change is given up; if the answer to a confirmation is lost the
device stays at the new rate and the host goes back; a range that wraps around the end of memory
passes the check of RRANGE and faults.

### The two halves

`Bootloader` assumes a flash in which power failing damages only the page being programmed,
such as the SAMV71's. `PageFlashSpec` shows that the nRF52 boards have one except that the
seven neighbours in the same 4096 bytes are at risk too. There, `WritePageKeepsBootloader`
and `ServiceSpec` say what happens without power failures, and with them only as far as a
large page holds nothing but what is being written: the linker script aligns the bootloader's
image, flags and attributes to 512 bytes, not to 4096.

## 3. Runs

Sizes are scaled: pages of 6 bytes instead of 512, attributes of 3 instead of 64, BUF of
8 instead of 600, the least that holds an attribute of escape characters.
What matters is kept: two attributes in a page, the flags in one page, the
bootloader's image filling whole pages, BUF able to hold a plain page with its header
but not one with many escapes.

| Run | Instance | Shows |
|---|---|---|
| `crc32` | all strings of at most 2 bytes (65793 states) | the loop is the CRC-32; the reply is in the order a host checks |
| `reads` | every read-only command, every range of at most 15 bytes in a flash of 4 pages, three images (no, some, only escape characters), a RESET before a command, a second command behind one (5832 states) | the service is implemented; nothing is longer than BUF |
| `writes` | every kind of command, in and out of flash, at page ends, inside pages and inside the image, GET_ATTR to read back, EXIT, power failures, refused calls, failed writes, failed transmissions (55440 states) | the service is implemented; the image is safe; buffers and states as expected; every command is answered unless a driver refuses |
| `large_to_small` | two large pages of two slots, all contents, all calls, refusals, power failures (116736 states) | the adapter is a flash of small pages; every call is answered unless the write back is refused; buffers as expected |
| `large_to_small_panic` | two large pages of one slot where the adapter assumes two; refusals, failed writes, panics (3696 states) | buffers as expected even then |
| `direct` | two pages and the number past them, all contents, refusals, failed programs, power failures (1600 states) | the adapter is a flash of its pages, of which only the one in use is at risk; every call is answered |
| `entry` | five kinds of board, start addresses below, in, above the kernels and past flash, three images for each of two bootloaders, all resets (5680 states) | requests to stay are honoured, and once; every boot ends |
| `codec` | every command and response, escape characters in every field, wrong arguments, bytes lost (222988 states) | what is encoded is decoded; after losses PINGs bring both ends in step |
| `link` | commands of all kinds that change flash, one longer than BUF, bytes and packets, two pauses inside commands, failed receives (353259 states) | what is served is what was sent; parts change flash by SET_ATTR or by a command of escape characters only; the link listens again |
| `legacy` | every command, arguments right, short, long, out of range, wrapping around; a host that gives up at any time; failed erases (462596 states) | replies and flash are those promised, the bootloader's pages are left alone, buffers hold what is put in them |
| `legacy_faults` | three rates, one that the USART cannot have and one whose product with the oversampling overflows; noise, timeouts, power failures (512327 states) | replies leave at the rate the host listens at; a rate not confirmed is given up |
| `doc_attr_index` | SET_ATTRIBUTE with an index past the last | a statement of the documents that the code does not keep |

15 bytes are enough for a range to cover a page entirely and parts of two others,
from every offset; runs of escapes then fill BUF exactly, with one place free, and not
at all. Nothing is carried between commands but flash and stale bytes, and every sequence of
commands is explored, without a bound. A reset is possible in every state, so the
absence of deadlock says little here: `NeverWedged` and `Answered` are the properties
that do.

**Fairness.** `WF(FlashDone)` and `WF(Transmitted)`: an accepted flash operation or
transmission completes, which is the drivers' contract and what the kernel's loop of
interrupt service provides. The host and the power supply are under no
obligation: nothing is fair about receiving or resetting. `Answered` needs no more.
`Completed` of the adapters likewise needs that the flash below completes what it accepted.
`Boots` needs that the processor runs, and is void if resets come for ever. `Resyncs` needs
that both ends run and the host goes on with its PINGs; losses are bounded by `MaxLost`. In `UartLink`
the driver, the alarm and the loop run and the host ends what it has begun; it need not begin
anything, and receives may fail for ever. In `Legacy` the loop polls, the flash
controller finishes, bytes sent arrive, and the host goes on asking; `BaudSettles` needs that bytes sent
at another rate arrive as noise now and then (`SF(NoiseArrives)`): if none ever arrived, nothing
would tell the device that the rate is wrong.

The larger instances have what the control distinguishes: for `entry`, one start address for
each side of each comparison and three samples, so that a majority differs from unanimity; for `link`,
a BUF that most commands fit in and one does not, a WRITE_PAGE of escape characters and the code of
SET_START_ADDRESS, a driver that hands over one byte or four, and
a receive of three so that both more and less than was asked for comes back; for
`legacy`, pages longer than the 8 bytes that WUSER writes, a receive buffer that a page and its
address just fit in, and a transmit buffer that the longest reply RRANGE allows just fits in when every byte of it is escaped. `legacy` may really stop (a
range that wraps around faults), so deadlock is not checked there.

Two large pages of two slots have what an operation can disturb: the neighbour in the page,
and another page. Failed writes are left to the theorem `Implements`: with them the abstract flash allows every write to
harm the neighbours, so a run without them shows more of a write that succeeds.

Failed *reads* are not modelled: those of the drivers in use are copies from memory. The
fault "fail" is that of a write or an erase.

### What the documents say and the code does not do

The definitions say what the code does, and the properties of the passing runs are about that. Where it
is not what a document says, the definition is named in which the difference is seen; the first, by which the
bootloader is lost, has a run that shows the statement violated.

| Statement | Code | Seen in |
|---|---|---|
| `protocol/src/lib.rs:77`, `README.md:398`: 16 attributes in 1024 bytes | any index is written | run `doc_attr_index` |
| `README.md:249`, `:288`, `protocol/src/lib.rs:74`: a value has at most 55 bytes | a longer one is cut, stored with its full length, and answered OK (`bootloader.rs:388`) | `AttributeRecord` |
| `protocol/src/lib.rs:47-48`: an address that is not page aligned gets RES_BADADDR | the page it falls into is erased (`bootloader.rs:353`) | `HandleErasePage` |
| `README.md:133`, `protocol/src/lib.rs:38-39`: the string of INFO is followed by zeros | the first byte after it is not cleared (`bootloader.rs:513`) | `InfoReply` |
| `README.md:324-350`: CHANGE_BAUD_RATE (0x21) is answered 0x15 and changes the rate | it is decoded, and answered RES_UNKNOWN (`bootloader.rs:420`) | `HandleUnsupported` |
| `flash_large_to_small.rs:3-4`: large pages must be a multiple of 512 bytes | the callbacks take a page to have 4096 bytes (`:76`): with larger ones they use another page, with smaller ones an index leaves the page | `SameSize`; `Panic` |
| `README.md:33`: if the pin is high then stay in the bootloader | the bootloader stays when it is low (`bootloader_entry_gpio.rs:29`), as the comment of the legacy one says (`legacy/src/main.c:49`) | `Sample` |
| `legacy/src/bootloader.h:39-41`: the result of CMD_ID is 8 bytes of unique ID | nothing is answered (`bl_commands.c:96`) | `Id`, `Promise` |
| `protocol/src/lib.rs:31-117`: the other commands supported by the protocol (ID, CRC of the receive buffer, user pages, external flash, clock) | are decoded, and answered RES_UNKNOWN | `HandleUnsupported` |
| `README.md:209`: the code of READ_RANGE is 0x06 | it is 0x11; 0x06 is ERASE_PAGE (`protocol/src/lib.rs`) | codes are kinds in `Bootloader` |
| `README.md:404-419`: an attribute is its key and up to 56 bytes of value | a byte between them holds the length of the value, of which 55 bytes are stored | `AttributeRecord` |
| `README.md:91-92`: messages of responses are escaped | CRC and INFO replies are not (`bootloader.rs:688`) | `ReadCrcLast`, `InfoReply` |
| `boards/samv71xplained-bootloader/src/main.rs:100-102`: after EXIT the kernel is started because GPBR7 is 0 then | a mark that was left for a chained bootloader may be there | `Marked`, `Exit` |
| a response to READ_RANGE of no bytes | is never delivered (`protocol/src/lib.rs:745`) | `LoadCode` |
| `legacy/src/bootloader.h:28-29`, `protocol/src/lib.rs:35-36`: PING drops a buffer | it drops nothing: only RESET does | `Ping`, `HandlePing` |
| `legacy/src/bootloader.h:44-47`: RESET clears the buffers | not once the receive buffer is full: then it is not looked at; nor while a rate waits for its confirmation | `Receive`, `Command` |
| `legacy/src/bootloader.h:63-73`, `:87-91`, `:117-140`: commands of the external flash and of the clock | are answered RES_UNKNOWN (`bootloader.c:229-238`) | `Unknown` |
| `legacy/src/bootloader.h:81-84`: RRANGE answers with length bytes | of fewer than 4096 bytes only (`bl_commands.c:214`) | `ReadRange` |
| `legacy/src/bootloader.h:110-114`: CRCIF of a range of internal flash | not of all of it, nor of one that begins with its last byte (`bl_commands.c:324`) | `CrcIntFlash` |
| `legacy/src/bootloader.h:142-145`, CMD_WUSER: the words in the order given | are written the other way round | `WriteUser` |
| `legacy/src/bootloader.h:153-155`: any other command than a confirmation reverts a change of baud rate | CHANGE_BAUD without arguments is refused and the device goes on waiting | `ChangeBaud` |

The promises that `AnswersRight` refers to (`LegacyPromise`) are the header's comments except in the rows of
`legacy/src/bootloader.h` here, where they are the code's, and say so: the passing run `legacy` shows of CMD_ID
that nothing is sent and nothing is changed, not that it has a result. Likewise `RequestsHonoured` and
`StaysForAReason` take a pin that is low to call for the bootloader.

`ServiceSpec` shares with `Bootloader` the operators that say what a page or a reply consists of
(`AttributeRecord`, `InfoReply`, `GetAttributeReply`, and with them `WriteVerdict` and `InBootloader`). What it
shows is when and in how many steps they take effect, not that they are right: of the byte that INFO
does not clear, the length that is stored, and the checks that ERASE_PAGE has not, no property tells; they are
in this table.

## 4. Proofs

`BootloaderProofs` proves, for all values of the constants that satisfy the named
assumptions of `BootloaderData` and `Bootloader`:

* `TypeCorrect`: `Spec => []TypeOK`
* `Ownership`: `Spec => []OneOutstanding`
* `CallbacksExpected`: `Spec => []OpMatchesState`
* `WritePageSafe`: `Spec => WritePageKeepsBootloader`

**Assumptions.** `SizeAssumption`, `BufferAssumption`, `ArgumentAssumption`,
`ImageAssumption` and `BatchesAssumption` type the parameters; a start address has at least one byte, and BUF
holds an attribute of escape characters and INFO's reply, as 600 bytes do. `LayoutAssumption` is what the linker
script provides: both ends of the image are multiples of the page size and in flash, the flags
are a page of flash and their fields lie in it, no attribute straddles two pages. No assumption is made about
the drivers: `Faults` is arbitrary.

**Argument.** `TypeOK`, `OneOutstanding` and `OpMatchesState` need each other: that a page
read back is written as the right type needs the state's fields, and that a callback finds
its state needs that nothing else was started meanwhile. One more fact is needed,
`RecordKept`: while SET_ATTRIBUTE waits for its read, `bytes` is a record of bytes as long as an
attribute, so that `Patch` yields a page. Their conjunction `Inv` is inductive.
Its proof has one lemma per group of actions (commands answered at once, commands that start a read,
the other commands, ends of a read that transmit, reads that are written back, the rest of
`FlashDone`), and arithmetic is kept in lemmas on `PageOf` and `OffsetOf`.

`WritePageSafe` adds `ServesRequest`, which relates the operation in progress to the command it
is for: a page programmed in state WriteFlashPage is the page of an address that
passed the check. `FlashChange` says that flash changes only in the page of the operation in progress, and
`BootloaderPages` that, with an image of whole pages, an address outside the image never lies in one of
its pages. Without that alignment the theorem is false, and the check in the code too weak.

Its last part goes on from there, under the same assumptions:

* `StopsOnlyOnFault`: `Spec => []NeverWedged`
* `NothingOutgrowsBuffer`: `Spec => []FitsInBuffer`
* `ImplementsService`: `Spec => ServiceSpec`

The invariant `SInv` adds to `Inv` how far the command being served has come. `ReadServed`: a read is
of the page that the request names, in the state for it. `ProgramServed`: a page being programmed is
`NewPage` of the request and of the page as it is. `RangeServed`: the chunks of a READ_RANGE so
far, the one on its way included, are the header and the escaped bytes from the request's
address to `state.address`. `CrcServed`: the CRC so far is that of these bytes. `ReplyReady`: what is
being sent is not empty, and only a READ_RANGE comes in more than one piece. The step of READ_RANGE (`RangeStep`)
needs that escaping, and that of the CRC (`CrcFacts`) that folding, distribute over concatenation: theorems
`EscapeConcat` and `CrcFoldConcat`, by induction on the length. The copy loop's
bound needs a count of the escapes before each byte, likewise.

`NeverWedged` is part of the invariant, since a page buffer that is lost has to stay explained until the
reset. It says more than that the bootloader stops only when something fails: without a faulty driver it stops
only if the request reaches outside flash (`~Addressable`), the case in which the service, too, wedges.

The refinement then maps each action to one of the service: `AcceptStep`, `DeliverStep`, `WedgeStep`,
`ResetStep` are what the abstract step needs, `ReadInfoStep` and its like show it of the concrete ones.
The reply is computed when the last read completes (`ReplyComplete`), all reads before it are
stutters. `ProgramFacts` is the crux of writes: what an interrupted or failed program leaves is in
`Outcomes` of the request.

`ProtocolProofs` proves, from `ProtocolAssumption` (the lengths that a message carries fit in a byte)
alone:

* `CommandParsed`: from the code and arguments of any command that can be encoded, the decoder makes that command;
* `ResponseParsed`: from those of a response, and the length it was told to expect, that response.

Between them lie the encoder and the decoder as machines. `CommandByteFollows` and
`ResponseByteFollows` say that they move in lockstep: if the decoder is `Following` the encoder (it has in its
buffer what the encoder has rendered, and is inside an escape exactly when the encoder is), then after the
next byte it still is, or has received the command's code at the end. Each is by cases of
the byte: escape character or not, within the arguments, second half of a doubled one, code.

`CodecProofs` proves, from `CodecAssumption` (commands and responses are values of the two types that fit a decoder's
buffer; no READ_RANGE is of no bytes, which would not be answered), for any number of losses:

* `CommandsAreDecoded`: `Spec => []CommandsArrive`
* `ResponsesAreDecoded`: `Spec => []ResponsesArrive`
* `PongResets`: `Spec => []PongClears`

The invariant `CodecInv` has three parts. `Encoded`: the encoders are somewhere in their message. `InStep`: as
long as nothing is lost, each decoder is `Following` its encoder, or has received what was
sent. `Pinged` is what makes `PongClears` true and has nothing to do with what is lost: an escape character
completes no command, the code of PING in whatever state makes PING or nothing, and no message
with a payload is ever parsed as a PONG, so that a host that has decoded a single PONG has a decoder as new.

`UartLinkProofs` proves, from `LinkAssumption` (BUF is not longer than the decoder's buffer, the driver's
buffer has two bytes or more) and `CommandsAssumption`, for any sizes and any number of pauses:

* `LinkTypes`: `Spec => []TypeOK`
* `PiecesInOrder`: `Spec => []InOrder`
* `ServesWhatIsSent`: `Spec => []ServedAsSent`
* `SplitsAreContained`: `Spec => []SplitContained`

`LInv` is inductive: besides the properties it has `Forms` (the types of the strings), `Turns` (at most one of
the driver, the alarm and the bootloader has a callback to make, and a receive of one byte has nothing
yet) and `Sides` (without a pause, the bootloader has nothing of a command, or is collecting it,
or has all of it when the host waits). It was found not to be inductive, and `InOrder` to be false, with
two pauses and a `gap` that every new command cleared: the rest of a command split twice may still be on
its way when the next begins. Hence `LineClear`. `ServesWhatIsSent` adds `Told`: there is a sequence of
states of the encoder, one per byte sent, and while the bootloader decodes, its decoder follows the
one it has got to (`NextTaken`, `TakesNext`). `CommandParsed` then says what comes out.

`SplitsAreContained` has to speak of bytes of several commands at once. `SInv` says that there is a
line: a sequence of places (a command, and where its encoder is), each following from the one
before or beginning a command (`Chain`), of which the host's is the last, such that what waits, what the
driver holds, what the client's buffer holds and what is left to decode are the bytes at these places
from some index on (`Spelt`, `Line`). While the bootloader decodes, its decoder is `Related` to the
place of the next byte: it is where the encoder is, or is `Astray`, in one of three ways: it has the wrong
number of bytes (`Misses`), it reads the halves of doubled escapes the wrong way round and has
seen escapes only (`Halved`), or it has missed the escape before the code (`Late`). A new decoder is
related to any place (`FreshRelates`); `RelatedSteps` shows that a decoder stays related from byte to byte,
and at a code completes the command itself, one of a length that its kind does not take
(`WrongLength`), or one of escapes only (`EscapesParsed`). For the last clause, about the first pause,
`Once` says that the line has one command, from its beginning, and `Halves` that before the
second part has come nothing has been completed (`NotYet`).

The attempt refuted the property that stood here before, that no part at all changes flash but as
a SET_ATTR: the case of `Halved` could not be closed, and TLC found the exception described under
`UartLink` once its instance had a WRITE_PAGE with enough escape characters in a row.

`FlashLargeToSmallProofs` proves, from `SlotAssumption` and `ContentsAssumption` alone, for
any number and size of large pages, any contents and any faults:

* `TypeCorrect`: `Spec => []TypeOK`
* `Custody`: `Spec => []BuffersHome`

and under the hypothesis `SameSize`, that large pages have the size the adapter falls back to:

* `Implements`: `Spec => PageFlashSpec`

`TypeOK` and `BuffersHome` are inductive together: that a write back has contents for its
slot needs the client's page to be there. The refinement needs `Agreement` as well: the flash
below works on the large page of the client's page, and what it programs is that page with
one slot changed. `Written` then shows that programming is what the abstract flash makes of
each small page, and `TornDamage` that an interrupted program damages pages near it only.
Both rest on arithmetic stated once (`Division`, `SmallPageInLarge`, `InLargeIsSmall`,
`SamePage`). Without `SameSize` the index computed in a call and the offset computed in its
callback do not belong together, and the theorem is false.

`Sam71FlashDirectProofs` proves, from `PagesAssumption` and `ContentsAssumption`, for flash
of any size, any contents and any faults:

* `Custody`: `Spec => []BuffersHome`
* `Implements`: `Spec => PageFlashSpec`

`BuffersHome` is inductive with the types and `Agreement`, that the controller works on what the
client asked for. `TornDamage` and `OutcomeAllowed` show what an interrupted and a finished
operation do to each page; the rest of the refinement is one step per action.

`BootEntryProofs` proves, from `EntryAssumption`, for any set of boards, kernel ranges, start
addresses and number of samples other than 0:

* `TypeCorrect`: `Spec => []TypeOK`
* `Honoured`: `Spec => []RequestsHonoured`
* `WordCleared`: `Spec => []WordOnlyInWindow`
* `NoReasonNoStay`: `Spec => StaysForAReason`

The invariant says of each reason that is pending where it waits: a request in the register
(`RequestWaits`), a second reset in the word of RAM, with no request in its way (`DoubleWaits`),
and conversely that a register that is set has a reason (`RegisterHasReason`). `SamplesTrue` relates
the counts to what the pin has been; `OwnSteps` keeps each decider to its own steps. With no samples
at all a select pin held low would be overlooked, hence the assumption.

`LegacyProofs` proves, from `SizeAssumption` (an end of flash fits twice in a word, the version lies in flash,
INFO has room for it, the receive buffer has room for a change of baud rate and its confirmation, and its length fits in
two bytes), `ReplyAssumption` (the transmit buffer, 8192 bytes in the code, holds the CRC, an attribute and INFO's reply
with every byte escaped),
`LegacyLayoutAssumption` (the attributes are whole, below the application, and straddle no page) and
`HostAssumption` (the host sends bytes, and the program starts with a rate that the USART can have) and
`RequestAssumption` (no command is the escape character, and the host confirms a rate only when it has asked for it), for any
layout, requests, rates, noise and faults:

* `BootloaderIsSafe`: `Spec => BootloaderSafe`
* `TypesKept`: `Spec => []TypeOK`, under the hypothesis `CrcBytes`, that a CRC is a string of four bytes
* `AnswersAreRight`: `Spec => []AnswersRight`, under `CrcBytes` too
* `RateIsKept`: `Spec => []RateKept`, under the hypothesis that `Noise` does not contain the code of CHANGE_BAUD

`Contents` is inductive: what is in the buffers and on the line are bytes, and the page that is worked on is
`Touchable`, one of the application, of the attributes or the user's. `NamedPage` and `AttributePage` show that
what passes the checks of EPAGE, WPAGE and SATTR is; `OnlyJobPage` that no other page changes.
`TypesKept` adds `Sent`. Its arithmetic is where the checks earn their keep: the end of a range is a sum of
32 bits, and `ReadRangeSends` and `CrcIntFlashSends` show that one that passes, and is not below its
start, has not wrapped (`NoWrap`), so that what is read lies in flash (`MemoryType`). `CatType`, by
induction on the data, is that a reply of any length stops at the end of its buffer.

`RateKept` is not inductive: `RateInv` adds that the rate to go back to is valid while another is tried, and
that while the rate being tried is not valid, no CHANGE_BAUD is in the receive register. The second is what the
hypothesis is for. A misframed USART receives nothing that was sent; if it received noise that spells the
confirmation, the program would keep the rate.

`AnswersRight` relates the ends of a request, and says nothing of the time between. `Answering` does: a request that
nothing disturbed `Proceeds`, that is, it is in one of four stages. In `Progress` its bytes are on their way:
`Pending`, the rest of them with the one in the receive register and an escape seen before them, is
the reset of a `sync` and the request (`Synced`), the request (`Syncing`), or what is `Left` of it, the arguments before
that being in `rx` (`Collecting`); nothing of an earlier reply is left, and flash is as it was. `Working`: flash is being
written, with what makes it the promised flash when it ends. `Finished`: the reply, from what the host has of it to what
is in the buffer, is the promised one. `Faulted`: a range wrapped around the end of memory. A change of baud rate is two requests, of which the second
finds the arguments of the first still in `rx` (`ConfirmProgress`), and may be answered only while the device waits for that
rate (`Tried`). No stage needs anything of what earlier requests left, other than what makes `clean` true when a
request begins: there lies the content of the theorem.

The proof has three parts. Of a command: when it runs with its arguments in `rx`, it gives the reply and
the flash of `Promise`, or begins the work that does (`CommandFulfils`, with one lemma per
command; `ReplyIs` shows that a reply that fits is not cut off, `NumberOfFour` and `NamedIsWritable` that the code's
words and checks are the promise's numbers and pages). Of a byte: what it does to `Pending`, by cases of the byte
(`PlainByte`, `ByteAfterEscape`, `ReceiveProceeds`). Of the rest: that it disturbs neither (`ProgressStays`,
`FinishedStays`), or starts the request well (`NewProceeds`, `ConfirmProceeds`).

The attempt corrected the model: the promise of CRCRX had the number of bytes received in its first byte and 0 in the second,
which is right only below 256 bytes; the code has always sent both (`bl_commands.c:190-204`).

**Induction over data.** The library's induction theorems take an operator as a parameter, but its theorem on
well-founded relations does not: `WFMin` with `NatLessThanWellFounded` says that a set of numbers that is not
empty has a least member (`LeastNat`). Taken of the set of lengths at which a statement fails, that is
induction (`Induction`). Folds are reached by stating what a run of them is (`IsCrcRun`, `IsEscapeRun`).

**Only model-checked.**

* Liveness: `Answered` (of both bootloaders), `Completed`, `Boots`, `Resyncs`, `AnsweredOnceSent`, `ListensAgain`,
  `BaudSettles`. They need fairness, and ENABLED, which the provers do not have.
* `MatchesPolynomial` and `SelfChecking`: about 256 words of a table. The runs check them on every entry.
* That `RateKept` holds with noise that contains CHANGE_BAUD: it does not. With noise that can spell a
  confirmation TLC finds the program idle at a rate that the USART cannot have.

## 5. Plan

Done: all models and runs; the theorems about the bootloader and its refinement, the flash adapters, entry,
the codec, the link and the legacy bootloader. Left, in this order:

1. A composition of `Bootloader` with `PageFlash`, in place of the argument under "The two halves".

## 6. Not modelled

* Board wiring: done once, with no behaviour afterwards, `bootloader_exit` of the SAMV71 excepted.
* `UartReceiveTimeout`: no board uses it; it is named in commented-out lines only.
* The build tool that formats attributes, LEDs and debug output, the null scheduler.
* The Tock kernel and the chip drivers: not in the repository, they are the environment.
* The Atmel framework but for the two dozen functions that the legacy bootloader calls. It is most of
  the C in the repository by lines, and nearly all of it headers and drivers that nothing calls.
* The word of RAM for double resets is taken to be reserved. On the nRF52 boards its address lies in
  the RAM that the linker script gives to the program.
* The stack: reads of the SAMV71 nest one call per page in a CRC or a READ_RANGE.
