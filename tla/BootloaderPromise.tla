------------------------- MODULE BootloaderPromise -------------------------
(***************************************************************************)
(* What the bootloader promises its host of each command: the flash it     *)
(* reaches, what it makes of flash, and the replies it may get, computed   *)
(* from flash as it then is.                                               *)
(***************************************************************************)
EXTENDS BootloaderData

\* WRITE_PAGE is refused for a page of the wrong size or inside the bootloader.
WriteVerdict(c) ==
  IF Len(c.data) # PageSize THEN RES_BADARGS
  ELSE IF InBootloader(c.address) THEN RES_BADADDR
  ELSE RES_OK

\* The commands that never get as far as flash.
AnsweredAtOnce(c) ==
  \/ c.kind \in {"Ping", "ChangeBaud", "Unsupported", "BadArguments", "Malformed"}
  \/ c.kind = "WritePage" /\ WriteVerdict(c) # RES_OK

\* The page a command changes, and what it becomes.
Changes(c) ==
  \/ c.kind \in {"ErasePage", "SetAttr", "SetStartAddress"}
  \/ c.kind = "WritePage" /\ WriteVerdict(c) = RES_OK

TargetPage(c) ==
  CASE c.kind \in {"WritePage", "ErasePage"} -> PageOf(c.address)
    [] c.kind = "SetAttr"                    -> AttributePage(c.index)
    [] c.kind = "SetStartAddress"            -> FlagsPage

NewPage(c, old) ==
  CASE c.kind = "WritePage"       -> [o \in Offsets |-> c.data[o + 1]]
    [] c.kind = "ErasePage"       -> ErasedPage
    [] c.kind = "SetAttr"         -> Patch(old, AttributeOffset(c.index),
                                           AttributeRecord(c.key, c.value))
    [] c.kind = "SetStartAddress" -> Patch(old, StartField, c.address)

\* What a command touches lies in flash; no other command is ever answered.
Addressable(c) ==
  CASE c.kind \in {"ReadRange", "CrcIntFlash"} ->
         /\ PageOf(c.address) \in Pages
         /\ c.address + c.length <= NumPages * PageSize
    [] c.kind = "GetAttr" -> AttributePage(c.index) \in Pages
    [] Changes(c)         -> TargetPage(c) \in Pages
    [] OTHER              -> TRUE

\* Flash after the command, and what an interrupted or failed one may leave.
Done(m, c) == [m EXCEPT ![TargetPage(c)] = NewPage(c, @)]

Interrupted(m, c) ==
  {m} \cup {[m EXCEPT ![TargetPage(c)] = TornPage(NewPage(c, @), n)] :
              n \in Cuts}

Outcomes(m, c) ==
  IF ~Changes(c) \/ ~Addressable(c) THEN {m}
  ELSE {Done(m, c)} \cup (IF "fail" \in Faults THEN Interrupted(m, c) ELSE {})

Replies(m, c) ==
  CASE c.kind = "Ping"         -> {Response(RES_PONG)}
    [] c.kind \in {"ChangeBaud", "Unsupported"} -> {Response(RES_UNKNOWN)}
    [] c.kind = "BadArguments" -> {Response(RES_BADARGS)}
    [] c.kind = "Malformed"    -> {Response(RES_INTERNAL_ERROR)}
    [] c.kind = "Info"         -> {InfoReply(m[FlagsPage], s) : s \in StaleBytes}
    [] c.kind = "GetAttr"      ->
         {GetAttributeReply(m[AttributePage(c.index)], c.index)}
    [] c.kind = "ReadRange"    ->
         {Response(RES_READ_RANGE) \o Escape(FlashBytes(m, c.address, c.length))}
    [] c.kind = "CrcIntFlash"  ->
         {Response(RES_CRCIF)
            \o CrcBytes(CrcFold(CrcInit, FlashBytes(m, c.address, c.length)))}
    [] c.kind = "WritePage"    -> {Response(WriteVerdict(c))}
    [] OTHER                   -> {Response(RES_OK)}

=============================================================================
