------------------------------ MODULE MCLegacy ------------------------------
(***************************************************************************)
(* Instances of Legacy.  Bytes have 64 values: a word has 24 bits and      *)
(* ESCAPE_CHAR is 60.  Flash has five pages of 12 bytes, more than the 8   *)
(* that WUSER writes: the bootloader, two pages of attributes of 4 bytes,  *)
(* two pages of the application.                                           *)
(***************************************************************************)
EXTENDS Legacy

\* Four bytes that depend on every byte and its place.
Digest(s) ==
  LET sum == FoldLeft(LAMBDA h, b : (5 * h + b + 1) % 4096, 7, s)
  IN  <<sum % 64, sum \div 64, 60, 1>>

MCImage ==
  [p \in 0 .. 5 |->
     IF p = 5 THEN NoData
     ELSE [o \in 0 .. 11 |-> IF p = 0 /\ o = 4 THEN 0
                            ELSE IF (p + o) % 4 = 3 THEN 60 ELSE 8 * p + o]]

Word4(n) == LittleEndian(n)

Sync(cmd, args) == [sync |-> TRUE, args |-> args, cmd |-> cmd]
Bare(cmd, args) == [sync |-> FALSE, args |-> args, cmd |-> cmd]

Data == <<1, 60, 2, 63, 60, 60, 0, 5, 6, 7, 8, 60>>

ReadRequests ==
  {Sync(CMD_CHANGE_BAUD, <<1>>), Sync(CMD_INFO, <<>>), Sync(CMD_ID, <<>>),
   Sync(2, <<>>), Sync(CMD_CRCRX, <<60>>),
   Sync(CMD_RRANGE, Word4(55) \o <<5, 0>>), Sync(CMD_RRANGE, Word4(36) \o <<7, 0>>),
   Sync(CMD_RRANGE, Word4(56) \o <<5, 0>>), Sync(CMD_RRANGE, <<1>>),
   Sync(CMD_GATTR, <<1>>), Sync(CMD_GATTR, <<4>>), Sync(CMD_GATTR, <<>>),
   Sync(CMD_CRCIF, Word4(1) \o Word4(59)), Sync(CMD_CRCIF, Word4(1) \o Word4(60)),
   Sync(CMD_CRCIF, <<>>)}

WriteRequests ==
  {Sync(CMD_EPAGE, Word4(48)), Sync(CMD_EPAGE, Word4(0)), Sync(CMD_EPAGE, Word4(44)),
   Sync(CMD_EPAGE, Word4(60)), Sync(CMD_EPAGE, <<24>>),
   Sync(CMD_WPAGE, Word4(48) \o Data), Sync(CMD_WPAGE, Word4(12) \o Data),
   Sync(CMD_WPAGE, Word4(48) \o Tail(Data)),
   Sync(CMD_SATTR, <<1, 7, 2, 60, 9>>), Sync(CMD_SATTR, <<4, 7, 0>>),
   Sync(CMD_SATTR, <<0, 7, 3, 1, 1, 1>>), Sync(CMD_SATTR, <<0>>),
   Sync(CMD_WUSER, Word4(1) \o Word4(2)), Sync(CMD_WUSER, Word4(1))}

TooMuch == Sync(CMD_CRCRX, [i \in 1 .. 17 |-> 1])
Wraps   == Sync(CMD_RRANGE, Word4(16777214) \o <<3, 0>>)

FlashRequests == ReadRequests \cup WriteRequests \cup {PingRequest, TooMuch, Wraps}

BaudRequests ==
  {Bare(CMD_CHANGE_BAUD, <<>>), Bare(CMD_CHANGE_BAUD, <<2, 1, 1, 1, 1>>),
   Sync(CMD_EPAGE, Word4(0)), Sync(CMD_WUSER, Word4(1) \o Word4(2))}

NoRates   == {}
SomeRates == {9216, 30000, 1152 + 1048576}

=============================================================================
