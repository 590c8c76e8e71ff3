----------------------------- MODULE LegacyData -----------------------------
(***************************************************************************)
(* legacy/src/bootloader.h and the helpers of legacy/src/bl_commands.c:    *)
(* sizes, command and response codes, flash as the commands see it, the    *)
(* little-endian words of the receive buffer and the escaped replies; and  *)
(* the divisor that ASF's usart.c computes for a baud rate.                *)
(*                                                                         *)
(* A byte has ByteValues values instead of 256, so that a 32-bit word, and *)
(* what overflows it, is within TLC's integers.                            *)
(***************************************************************************)
EXTENDS Integers, Sequences, SequencesExt

CONSTANTS
  ByteValues,        \* 256
  PageSize,          \* 512
  NumPages,          \* 1024
  ALLOWED_FLASH_FLOOR,
  ALLOWED_ATTRIBUTE_FLOOR,
  KeyLen, ValueLen,  \* 8 and 55
  NumAttributes,     \* 16
  VersionAt, VersionLen,  \* 0x40E and 8
  InfoLen,           \* 192
  RXBUFSZ, TXBUFSZ,
  MCK,               \* sysclk_get_main_hz()
  crc32(_)           \* the four bytes of the CRC of a string: module Crc32

ESCAPE_CHAR == ByteValues - 4
Erased      == ByteValues - 1   \* all bits of a byte set
Byte        == 0 .. ByteValues - 1
Word        == ByteValues * ByteValues * ByteValues * ByteValues
FlashSize   == NumPages * PageSize
ALLOWED_FLASH_CEILING == FlashSize - 1
AttrSize    == KeyLen + 1 + ValueLen
Offsets     == 0 .. PageSize - 1

ASSUME SizeAssumption ==
  /\ ByteValues \in Nat /\ ByteValues >= 64
  /\ PageSize \in Nat /\ NumPages \in Nat /\ PageSize >= 2 /\ NumPages > 0
  /\ 2 * FlashSize <= Word
  /\ KeyLen \in Nat /\ ValueLen \in Nat
  /\ VersionAt \in Nat /\ VersionLen \in Nat /\ VersionAt + VersionLen <= FlashSize
  /\ InfoLen \in Nat /\ VersionLen <= InfoLen /\ VersionLen < ByteValues
  /\ RXBUFSZ \in Nat /\ RXBUFSZ > 10 /\ RXBUFSZ < ByteValues * ByteValues
  /\ TXBUFSZ \in Nat

\* Every reply but that of a range, whose length is checked, has room for its
\* bytes if all are escaped: the CRC of what is received, the attribute, the
\* information.
ASSUME ReplyAssumption ==
  /\ TXBUFSZ >= 2 + 2 * 6
  /\ TXBUFSZ >= 2 + 2 * AttrSize
  /\ TXBUFSZ >= 2 + 2 * (InfoLen + 1)

\* The attributes are below the part of flash that commands may write, and no
\* attribute straddles two pages.
ASSUME LegacyLayoutAssumption ==
  /\ ALLOWED_FLASH_FLOOR \in Nat /\ ALLOWED_ATTRIBUTE_FLOOR \in Nat
  /\ NumAttributes \in Nat
  /\ ALLOWED_ATTRIBUTE_FLOOR + NumAttributes * AttrSize <= ALLOWED_FLASH_FLOOR
  /\ ALLOWED_FLASH_FLOOR <= FlashSize
  /\ ALLOWED_ATTRIBUTE_FLOOR % PageSize = 0 /\ PageSize % AttrSize = 0

CMD_PING == 1
CMD_INFO == 3
CMD_ID == 4
CMD_RESET == 5
CMD_EPAGE == 6
CMD_WPAGE == 7
CMD_CRCRX == 16
CMD_RRANGE == 17
CMD_SATTR == 19
CMD_GATTR == 20
CMD_CRCIF == 21
CMD_WUSER == 32
CMD_CHANGE_BAUD == 33

RES_OVERFLOW == 16
RES_PONG == 17
RES_BADADDR == 18
RES_INTERROR == 19
RES_BADARGS == 20
RES_OK == 21
RES_UNKNOWN == 22
RES_CRCRX == 25
RES_RRANGE == 32
RES_GATTR == 34
RES_CRCIF == 35
RES_INFO == 37
RES_CHANGE_BAUD_FAIL == 38

CHANGE_BAUD_SUBCMD_NEW == 1
CHANGE_BAUD_SUBCMD_CONFIRM == 2

-----------------------------------------------------------------------------
(* Words and replies.                                                      *)

\* Mutant: the bytes of a word in the wrong order.
u32BigEndian(s, offset) ==
  s[offset + 4] + ByteValues * (s[offset + 3]
    + ByteValues * (s[offset + 2] + ByteValues * s[offset + 1]))

_rx_u32(s, offset) ==
  s[offset + 1] + ByteValues * (s[offset + 2]
    + ByteValues * (s[offset + 3] + ByteValues * s[offset + 4]))

_rx_u16(s, offset) == s[offset + 1] + ByteValues * s[offset + 2]

Stuffed(b) == IF b = ESCAPE_CHAR THEN <<b, b>> ELSE <<b>>

Escaped(s) == FlattenSeq([i \in DOMAIN s |-> Stuffed(s[i])])

\* Bytes are added while an escaped one fits.
CatStep(tx, b) == IF Len(tx) < TXBUFSZ - 1 THEN tx \o Stuffed(b) ELSE tx

_escape_cat(tx, dat) ==
  LET cat[i \in 0 .. Len(dat)] == IF i = 0 THEN tx ELSE CatStep(cat[i - 1], dat[i])
  IN  cat[Len(dat)]

\* The whole of what tx_stage_ram and tx_left become; tx_ptr goes back to 0.
_escape_set(dat, cmd) == _escape_cat(<<ESCAPE_CHAR, cmd>>, dat)

-----------------------------------------------------------------------------
(* Flash, as a function from pages to functions from offsets to bytes.  The *)
(* user page is flash of its own, outside the array.                        *)

UserPage == NumPages
AllPages == 0 .. NumPages
Page     == [Offsets -> Byte]
NoData   == [o \in Offsets |-> Erased]

Memory(flash, address, length) ==
  [i \in 1 .. length |->
     flash[(address + i - 1) \div PageSize][(address + i - 1) % PageSize]]

AttrAddress(idx) == ALLOWED_ATTRIBUTE_FLOOR + idx * AttrSize

\* buf[offset + i] = s[i] in bl_c_sattr.
Patched(page, offset, s) ==
  [o \in Offsets |->
     IF o \in offset .. offset + Len(s) - 1 THEN s[o - offset + 1] ELSE page[o]]

AsSeq(page) == [i \in 1 .. PageSize |-> page[i - 1]]

\* bl_c_info: the length of the string, the string, zeros.  Of the string the
\* version is kept, up to its terminating zero; the fixed text is left out.
InfoText(flash) ==
  LET version == Memory(flash, VersionAt, VersionLen)
      ends    == {i \in 1 .. VersionLen : \A j \in 1 .. i : version[j] # 0}
  IN  [i \in ends |-> version[i]]

InfoData(flash) ==
  LET text == InfoText(flash)
  IN  <<Len(text)>> \o text \o [i \in 1 .. InfoLen - Len(text) |-> 0]

-----------------------------------------------------------------------------
(* usart_set_async_baudrate: oversampling and divisor, in eighths, that the *)
(* 32-bit arithmetic of the code gives for a rate.  A division by zero      *)
(* yields zero, as the processor's does.                                    *)

Over(baudrate) == IF MCK >= (16 * baudrate) % Word THEN 16 ELSE 8

CdFp(baudrate) ==
  LET d == (Over(baudrate) * baudrate) % Word
  IN  IF d = 0 THEN 0 ELSE ((8 * MCK + d \div 2) % Word) \div d

MIN_CD_VALUE == 1
MAX_CD_VALUE == 65535

InRange(baudrate) == CdFp(baudrate) \div 8 \in MIN_CD_VALUE .. MAX_CD_VALUE

\* usart_reset leaves a mode that frames characters of 5 bits with parity; the
\* rest of usart_init_rs232 is skipped for a rate out of range, and the result
\* that says so is not looked at.
Misframed == [over |-> 0, cd_fp |-> 0]

usart_init_rs232(baudrate) ==
  IF InRange(baudrate) THEN [over |-> Over(baudrate), cd_fp |-> CdFp(baudrate)]
  ELSE Misframed

=============================================================================
