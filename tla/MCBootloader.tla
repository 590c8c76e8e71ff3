---------------------------- MODULE MCBootloader ----------------------------
(***************************************************************************)
(* Small instances of the bootloader.  Pages of 6 bytes, attributes of 3   *)
(* (key, length, one byte of value), two per page:                         *)
(*                                                                         *)
(*   page 0   flags: version, a spare byte, start address                  *)
(*   page 1   attributes 0 and 1                                           *)
(*   page 2   the bootloader's code                                        *)
(*   page 3   the kernel                                                   *)
(*                                                                         *)
(* BUF has 8 bytes, the least that holds an attribute of escapes, so that  *)
(* a page is sent in one chunk or in several according to its escapes.     *)
(***************************************************************************)
EXTENDS Bootloader

E == ESCAPE_CHAR

FlagsBytes  == <<65, 0, 18, 7, 8, 9>>
AttrBytes   == <<75, 1, E, 76, 0, E>>
CodeBytes   == <<1, 2, 3, 4, 5, 6>>
\* The CRC of the single byte 125 is fcb6e20c.
PlainKernel == <<125, 11, 12, 13, 14, 15>>
MixedKernel == <<E, 11, 12, E, E, 15>>
EscKernel   == <<E, E, E, E, E, E>>

PageFrom(s) == [o \in 0 .. PageSize - 1 |-> s[o + 1]]
Image(kernel) ==
  <<>> @@ (0 :> PageFrom(FlagsBytes)) @@ (1 :> PageFrom(AttrBytes))
       @@ (2 :> PageFrom(CodeBytes))  @@ (3 :> PageFrom(kernel))

OneImage  == {Image(MixedKernel)}
AllImages == {Image(k) : k \in {PlainKernel, MixedKernel, EscKernel}}

FlashSize == NumPages * PageSize

AllAddresses == 0 .. FlashSize - 1
AllLengths   == 0 .. 15
TwoIndexes   == {0, 1}
OneByteKey   == {<<75>>}
OneValue     == {<<E>>}
NewStarts    == {<<E>>}
NewPages     == {EscKernel, <<1, 2>>}
TwoStale     == {0, 170}

Alone(c) == <<c>>
AfterReset(c) == <<[kind |-> "Reset"], c>>

InRange(c) == c.address + c.length <= FlashSize

\* Every command that only reads, with every range that lies in flash; a RESET
\* before one, and a second command in the same buffer.
ReadBatches ==
  {Alone(c) : c \in {d \in Command :
      /\ d.kind \notin {"WritePage", "ErasePage", "SetAttr", "SetStartAddress"}
      /\ d.kind \in {"ReadRange", "CrcIntFlash"} => InRange(d)}}
  \cup {AfterReset([kind |-> "Info"]),
        <<[kind |-> "Ping"], [kind |-> "Info"]>>}

\* Every kind of command, on addresses in and out of flash; every one that changes
\* flash, with the ones that read it back; EXIT.
SomeAddresses == {0, 6, 11, 12, 17, 18, 20, 24}
SomeIndexes   == {0, 1, 6}
WriteBatches ==
  {Alone(c) : c \in {d \in Command \ {[kind |-> "Reset"]} :
      /\ d.kind \in {"ReadRange", "CrcIntFlash", "ErasePage"}
           => d.address \in {6, 17, 18, 24}}}
  \cup {AfterReset([kind |-> "Exit"]), <<>>}
AllFaults == {"refuse", "fail", "txerror"}

\* SET_ATTRIBUTE, past the last attribute as well.
PlainImage     == {Image(PlainKernel)}
SetAttrBatches == {Alone(c) : c \in {d \in Command : d.kind = "SetAttr"}}

=============================================================================
