--------------------------- MODULE LegacyPromise ---------------------------
(***************************************************************************)
(* What the commands of the legacy bootloader promise, of requests that    *)
(* arrive whole: what legacy/src/bootloader.h says of their arguments,     *)
(* results and effects, with the codes of refusals, which it does not      *)
(* name, from bl_commands.c.  A command has a reply and an effect on       *)
(* flash; nothing is said of buffers, escapes or the time it takes.        *)
(*                                                                         *)
(* Where the code does other than a comment of the header says, the        *)
(* promise here is the code's, marked "Not the comment".                   *)
(***************************************************************************)
EXTENDS LegacyData

Number(s) ==
  LET ends[n \in 0 .. Len(s)] ==
        IF n = 0 THEN 0 ELSE s[Len(s) + 1 - n] + ByteValues * ends[n - 1]
  IN  ends[Len(s)]

Pages(first, last) == {p \in 0 .. NumPages - 1 : first <= p * PageSize /\ p * PageSize < last}

WritablePages  == Pages(ALLOWED_FLASH_FLOOR, FlashSize)
AttributePages ==
  Pages(ALLOWED_ATTRIBUTE_FLOOR, ALLOWED_ATTRIBUTE_FLOOR + NumAttributes * AttrSize)

Outcome(code, dat, flash) ==
  [reply |-> <<ESCAPE_CHAR, code>> \o Escaped(dat), flash |-> flash]

\* A command on the page at an address, which only pages of the application have.
OnPage(address, flash, Effect(_)) ==
  IF \E p \in WritablePages : p * PageSize = address
  THEN Outcome(RES_OK, <<>>,
         [p \in AllPages |-> IF p * PageSize = address THEN Effect(p) ELSE flash[p]])
  ELSE Outcome(RES_BADADDR, <<>>, flash)

Bytes(s) == [o \in Offsets |-> s[o + 1]]

\* The bytes from an address on, each on its page, are replaced.
Stored(flash, address, s) ==
  [p \in AllPages |-> [o \in Offsets |->
     LET i == (p * PageSize + o) - address
     IN  IF i \in 0 .. Len(s) - 1 THEN s[i + 1] ELSE flash[p][o]]]

\* Not the comment (bootloader.h:142-145): the second word is stored first.
UserPageWith(args) ==
  [o \in Offsets |-> IF o < 4 THEN args[o + 5]
                     ELSE IF o < 8 THEN args[o - 3] ELSE Erased]

Promise(cmd, args, flash) ==
  LET N       == Len(args)
      address == Number(SubSeq(args, 1, 4))
      count   == Number(SubSeq(args, 5, N))
      Says(code, dat) == Outcome(code, dat, flash)
      Fails(code)     == Says(code, <<>>)
  IN  CASE cmd = CMD_PING -> Fails(RES_PONG)
        [] cmd = CMD_INFO -> Says(RES_INFO, InfoData(flash))
        \* Not the comment (bootloader.h:39-41): CMD_ID has "8 bytes of unique ID"
        \* as its result there, and no reply in the code.
        [] cmd \in {CMD_ID, CMD_RESET} -> [reply |-> <<>>, flash |-> flash]
        [] cmd = CMD_EPAGE ->
             IF N # 4 THEN Fails(RES_BADARGS)
             ELSE OnPage(address, flash, LAMBDA p : NoData)
        [] cmd = CMD_WPAGE ->
             IF N # 4 + PageSize THEN Fails(RES_BADARGS)
             ELSE OnPage(address, flash, LAMBDA p : Bytes(SubSeq(args, 5, N)))
        [] cmd = CMD_CRCRX ->
             Says(RES_CRCRX, <<N % ByteValues, N \div ByteValues>>
                               \o (IF N = 0 THEN [i \in 1 .. 4 |-> Erased]
                                   ELSE crc32(args)))
        \* Not the comment (bootloader.h:81-84): the length has a limit.
        [] cmd = CMD_RRANGE ->
             IF N # 6 \/ count >= TXBUFSZ \div 2 THEN Fails(RES_BADARGS)
             ELSE IF address + count > FlashSize THEN Fails(RES_BADADDR)
             ELSE Says(RES_RRANGE, Memory(flash, address, count))
        [] cmd = CMD_SATTR ->
             IF N < KeyLen + 2 \/ (N >= KeyLen + 2 /\ N # KeyLen + 2 + args[KeyLen + 2])
             THEN Fails(RES_BADARGS)
             ELSE IF args[1] >= NumAttributes \/ args[KeyLen + 2] > ValueLen
             THEN Fails(RES_BADADDR)
             ELSE Outcome(RES_OK, <<>>, Stored(flash, AttrAddress(args[1]), Tail(args)))
        [] cmd = CMD_GATTR ->
             IF N # 1 THEN Fails(RES_BADARGS)
             ELSE IF args[1] >= NumAttributes THEN Fails(RES_BADADDR)
             ELSE Says(RES_GATTR, Memory(flash, AttrAddress(args[1]), AttrSize))
        \* Not the comment (bootloader.h:110-114): the whole of flash is no range,
        \* nor does one begin with its last byte.
        [] cmd = CMD_CRCIF ->
             IF N # 8 THEN Fails(RES_BADARGS)
             ELSE IF \/ address >= FlashSize - 1 \/ address + count > FlashSize
                     \/ count >= FlashSize
             THEN Fails(RES_BADADDR)
             ELSE Says(RES_CRCIF, crc32(Memory(flash, address, count)))
        [] cmd = CMD_WUSER ->
             IF N # 8 THEN Fails(RES_BADARGS)
             ELSE Outcome(RES_OK, <<>>, [flash EXCEPT ![UserPage] = UserPageWith(args)])
        [] cmd = CMD_CHANGE_BAUD ->
             IF N < 5 THEN Fails(RES_BADARGS)
             ELSE IF N = 5 /\ args[1] = CHANGE_BAUD_SUBCMD_NEW THEN Fails(RES_OK)
             ELSE Fails(RES_INTERROR)
        \* Not the comment (bootloader.h:63-73, :87-91, :117-140): the commands of
        \* the external flash and of the clock are among these.
        [] OTHER -> Fails(RES_UNKNOWN)

=============================================================================
