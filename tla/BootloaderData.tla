--------------------------- MODULE BootloaderData ---------------------------
(***************************************************************************)
(* The data the bootloader works on: flash pages, the layout of the flags  *)
(* and attributes regions (boards/kernel_layout.ld), the commands of the   *)
(* protocol as received_buffer sees them, and the byte strings of the      *)
(* replies.  Shared by the abstract service and by the bootloader.         *)
(*                                                                         *)
(* Field and buffer sizes are parameters; the sizes of the real system are *)
(* PageSize = 512, BufLen = 600, KeyLen = 8, ValueLen = 55,                *)
(* VersionOffset = 14, VersionLen = 8, StartOffset = 32, StartLen = 4,     *)
(* InfoLen = 192, NumAttributes = 16.                                      *)
(***************************************************************************)
EXTENDS Crc32, FiniteSets

CONSTANTS
  PageSize, NumPages, BufLen,
  BootStart, BootEnd,           \* _stext and _etext, as addresses
  FlagsAddress, AttributesAddress,
  VersionOffset, VersionLen, StartOffset, StartLen, InfoLen,
  KeyLen, ValueLen, NumAttributes,
  \* The arguments the host uses.
  Addresses, Lengths, Indexes, PageData, Keys, Values, StartAddresses,
  \* What earlier commands may have left in BUF beyond a reply being built.
  StaleBytes,
  \* What flash may hold at first, and after how many bytes the programming of
  \* a page may be cut short.
  Images, Cuts,
  \* What the environment may do wrong: "refuse" a call a driver could serve,
  \* "fail" a flash write or erase it had accepted, "txerror" a transmission.
  Faults

ESCAPE_CHAR == 252              \* 0xFC

RES_PONG           == 17
RES_BADADDR        == 18
RES_INTERNAL_ERROR == 19
RES_BADARGS        == 20
RES_OK             == 21
RES_UNKNOWN        == 22
RES_READ_RANGE     == 32
RES_GET_ATTR       == 34
RES_CRCIF          == 35
RES_INFO           == 37

AttributeSize == KeyLen + 1 + ValueLen

Multiple(a, n) == \E k \in 0 .. a : a = k * n

ASSUME SizeAssumption ==
  /\ PageSize \in Nat \ {0}
  /\ NumPages \in Nat \ {0}
  /\ KeyLen \in Nat /\ ValueLen \in Nat
  /\ VersionOffset \in Nat /\ VersionLen \in Nat
  /\ StartOffset \in Nat /\ StartLen \in Nat \ {0}
  /\ InfoLen \in Nat
  /\ NumAttributes \in Nat

\* BUF holds the longest reply that is built in one piece (an attribute of
\* escape characters), and a chunk of READ_RANGE is never empty.
ASSUME BufferAssumption ==
  /\ BufLen \in Nat
  /\ BufLen >= 2 + 2 * AttributeSize
  /\ BufLen >= 3 + InfoLen
  /\ InfoLen > VersionLen + 2 * StartLen
  /\ BufLen >= 4

ASSUME ArgumentAssumption ==
  /\ Addresses \subseteq Nat /\ Lengths \subseteq Nat /\ Indexes \subseteq Nat
  /\ \A d \in PageData : d \in Seq(Byte)
  /\ \A k \in Keys : k \in Seq(Byte) /\ Len(k) = KeyLen
  /\ \A v \in Values : v \in Seq(Byte)
  /\ \A s \in StartAddresses : s \in Seq(Byte) /\ Len(s) = StartLen
  /\ StaleBytes \subseteq Byte /\ StaleBytes # {}
  /\ Cuts \subseteq Nat
  /\ Faults \subseteq {"refuse", "fail", "txerror"}

-----------------------------------------------------------------------------
(* Flash.                                                                  *)

Pages   == 0 .. NumPages - 1
Offsets == 0 .. PageSize - 1
Page    == [Offsets -> Byte]
Flash   == [Pages -> Page]

PageOf(address)   == address \div PageSize
OffsetOf(address) == address % PageSize

ErasedPage == [o \in Offsets |-> 255]

ASSUME ImageAssumption == \A m \in Images : m \in Flash

\* A page whose programming stopped after n bytes: the rest is still erased.
TornPage(page, n) == [o \in Offsets |-> IF o < n THEN page[o] ELSE 255]

\* The page after `bytes` have been copied over it from offset `offset` on.
Patch(page, offset, bytes) ==
  [o \in Offsets |-> IF o \in offset .. offset + Len(bytes) - 1
                     THEN bytes[o - offset + 1] ELSE page[o]]

\* The bytes of one page, and of flash, in order.
PageBytes(page, offset, n) == [i \in 1 .. n |-> page[offset + i - 1]]
FlashBytes(mem, address, n) ==
  [i \in 1 .. n |-> mem[PageOf(address + i - 1)][OffsetOf(address + i - 1)]]

FlagsPage   == PageOf(FlagsAddress)
StartField  == OffsetOf(FlagsAddress + StartOffset)

AttributeAddress(index) == AttributesAddress + index * AttributeSize
AttributePage(index)    == PageOf(AttributeAddress(index))
AttributeOffset(index)  == OffsetOf(AttributeAddress(index))

\* kernel_layout.ld aligns the bootloader's image and its regions: both ends
\* of the image are page aligned and in flash, the flags begin in flash, the
\* version and the start address lie in the page where they begin, and no
\* attribute straddles two pages.
ASSUME LayoutAssumption ==
  /\ BootStart \in Nat /\ BootEnd \in Nat
  /\ FlagsAddress \in Nat /\ AttributesAddress \in Nat
  /\ Multiple(BootStart, PageSize) /\ Multiple(BootEnd, PageSize)
  /\ BootEnd <= NumPages * PageSize
  /\ FlagsPage \in Pages
  /\ OffsetOf(FlagsAddress) + VersionOffset + VersionLen <= PageSize
  /\ OffsetOf(FlagsAddress) + StartOffset + StartLen <= PageSize
  /\ \A i \in Indexes : AttributeOffset(i) + AttributeSize <= PageSize

\* Mutant: the image's first byte counts as outside it.
InBootloaderExclusive(address) == BootStart < address /\ address < BootEnd

InBootloader(address) == BootStart <= address /\ address < BootEnd

\* The 64 bytes that SET_ATTRIBUTE leaves in BUF: the key, the low byte of the
\* value's length, and the value cut or zero-filled to 55 bytes.
AttributeRecord(key, value) ==
  [i \in 1 .. AttributeSize |->
     IF i <= KeyLen THEN key[i]
     ELSE IF i = KeyLen + 1 THEN Len(value) % 256
     ELSE IF i - KeyLen - 1 <= Len(value) THEN value[i - KeyLen - 1]
     ELSE 0]

-----------------------------------------------------------------------------
(* Commands, as received_buffer gets them from the decoder.  ChangeBaud and *)
(* Unsupported are those that the decoder knows and the bootloader does    *)
(* not serve, the one that README.md documents and the others.             *)
(* BadArguments and Malformed are the decoder's errors.                    *)

Command ==
       [kind : {"Ping", "Reset", "Info", "Exit", "ChangeBaud", "Unsupported",
                "BadArguments", "Malformed"}]
  \cup [kind : {"ReadRange", "CrcIntFlash"},
        address : Addresses, length : Lengths]
  \cup [kind : {"WritePage"}, address : Addresses, data : PageData]
  \cup [kind : {"ErasePage"}, address : Addresses]
  \cup [kind : {"GetAttr"}, index : Indexes]
  \cup [kind : {"SetAttr"}, index : Indexes, key : Keys, value : Values]
  \cup [kind : {"SetStartAddress"}, address : StartAddresses]

NoCommand == [kind |-> "None"]

-----------------------------------------------------------------------------
(* Replies.                                                                *)

Escape(bytes) ==
  FlattenSeq([i \in DOMAIN bytes |->
    IF bytes[i] = ESCAPE_CHAR THEN <<ESCAPE_CHAR, ESCAPE_CHAR>>
                              ELSE <<bytes[i]>>])

Response(code) == <<ESCAPE_CHAR, code>>

\* The version in the flags page ends at its first zero byte.
Version(page) ==
  LET field == PageBytes(page, OffsetOf(FlagsAddress) + VersionOffset, VersionLen)
      shown == {n \in 1 .. VersionLen : \A i \in 1 .. n : field[i] # 0}
  IN  SubSeq(field, 1, Cardinality(shown))

HexDigit(n) == IF n < 10 THEN 48 + n ELSE 87 + n

\* The start address in hexadecimal, its most significant digit first.
StartDigits(page) ==
  [i \in 1 .. 2 * StartLen |->
     LET b == page[OffsetOf(FlagsAddress) + StartOffset
                     + StartLen - 1 - (i - 1) \div 2]
     IN  HexDigit(IF i % 2 = 1 THEN b \div 16 ELSE b % 16)]

\* The data of the JSON blob; its fixed text is left out.
InfoString(page) == Version(page) \o StartDigits(page)

\* The blob's length, the blob, and zeros, except for the byte right after the
\* blob: the loop that clears the rest starts one place too far, and that byte
\* is what BUF held there before.
InfoReply(page, stale) ==
  LET blob == InfoString(page)
  IN  Response(RES_INFO) \o <<Len(blob)>> \o blob \o
        [i \in 1 .. InfoLen - Len(blob) |-> IF i = 1 THEN stale ELSE 0]

GetAttributeReply(page, index) ==
  Response(RES_GET_ATTR)
    \o Escape(PageBytes(page, AttributeOffset(index), AttributeSize))

=============================================================================
