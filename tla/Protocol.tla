------------------------------ MODULE Protocol ------------------------------
(***************************************************************************)
(* The wire format of protocol/src/lib.rs: what CommandEncoder and         *)
(* ResponseEncoder emit, byte by byte, and what CommandDecoder and         *)
(* ResponseDecoder make of each byte.                                      *)
(*                                                                         *)
(* A command or a response is its kind and its fields, each a sequence of  *)
(* bytes, least significant first: a number is not assembled.              *)
(***************************************************************************)
EXTENDS Integers, Sequences, SequencesExt

CONSTANTS
  KEY_LEN, MAX_ATTR_LEN, INT_PAGE_SIZE, EXT_PAGE_SIZE, MAX_INFO_LEN,
  MAX_INDEX,     \* 16
  RxLen          \* of a decoder's buffer, 4224

\* A length that a message carries is a byte.
ASSUME ProtocolAssumption ==
  /\ {KEY_LEN, MAX_ATTR_LEN, INT_PAGE_SIZE, EXT_PAGE_SIZE, MAX_INFO_LEN} \subseteq Nat
  /\ MAX_ATTR_LEN <= 255 /\ MAX_INFO_LEN <= 255
  /\ RxLen \in Nat

Byte == 0 .. 255

ESCAPE_CHAR == 252

\* The commands, their codes, and the sizes of their fields; -1 is any number of
\* bytes.  A code not listed is ignored.
CommandCode ==
  [Ping |-> 1, Info |-> 3, Id |-> 4, Reset |-> 5, ErasePage |-> 6, WritePage |-> 7,
   EraseExBlock |-> 8, WriteExPage |-> 9, CrcRxBuffer |-> 16, ReadRange |-> 17,
   ExReadRange |-> 18, SetAttr |-> 19, GetAttr |-> 20, CrcIntFlash |-> 21,
   CrcExtFlash |-> 22, EraseExPage |-> 23, ExtFlashInit |-> 24, ClockOut |-> 25,
   WriteFlashUserPages |-> 32, ChangeBaud |-> 33, Exit |-> 34, SetStartAddress |-> 35]

CommandKinds == DOMAIN CommandCode
Bare == {"Ping", "Info", "Id", "Reset", "CrcRxBuffer", "ExtFlashInit", "ClockOut", "Exit"}

\* The fields of the commands that are of one length.
Sizes ==
  [k \in CommandKinds \ (Bare \cup {"WritePage", "SetAttr"}) |->
     CASE k \in {"ErasePage", "EraseExBlock", "EraseExPage", "SetStartAddress"} -> <<4>>
       [] k = "WriteExPage"                                           -> <<4, EXT_PAGE_SIZE>>
       [] k \in {"ReadRange", "ExReadRange"}                          -> <<4, 2>>
       [] k = "GetAttr"                                               -> <<1>>
       [] k \in {"CrcIntFlash", "CrcExtFlash", "WriteFlashUserPages"} -> <<4, 4>>
       [] k = "ChangeBaud"                                            -> <<1, 4>>]

ResponseCode ==
  [Overflow |-> 16, Pong |-> 17, BadAddress |-> 18, InternalError |-> 19,
   BadArguments |-> 20, Ok |-> 21, Unknown |-> 22, ExtFlashTimeout |-> 23,
   ExtFlashPageError |-> 24, CrcRxBuffer |-> 25, ReadRange |-> 32, ExReadRange |-> 33,
   GetAttr |-> 34, CrcIntFlash |-> 35, CrcExtFlash |-> 36, Info |-> 37,
   ChangeBaudFail |-> 38]

ResponseKinds == DOMAIN ResponseCode
Unbounded == {"ReadRange", "ExReadRange"}

\* What set_payload_len is given for the others that have a payload.
PayloadLen ==
  [CrcRxBuffer |-> 6, GetAttr |-> 1 + KEY_LEN + MAX_ATTR_LEN, CrcIntFlash |-> 4,
   CrcExtFlash |-> 4, Info |-> 1 + MAX_INFO_LEN]

Message(kind, fields) == [kind |-> kind, fields |-> fields]

\* The values of Command: a slice is of any length.
IsCommand(c) ==
  /\ c = Message(c.kind, c.fields)
  /\ c.kind \in CommandKinds /\ c.fields \in Seq(Seq(Byte))
  /\ CASE c.kind \in Bare -> c.fields = <<>>
       [] c.kind \in {"WritePage", "WriteExPage"} ->
            Len(c.fields) = 2 /\ Len(c.fields[1]) = 4
       [] c.kind = "SetAttr" -> Len(c.fields) = 3 /\ Len(c.fields[1]) = 1
       [] OTHER -> /\ Len(c.fields) = Len(Sizes[c.kind])
                   /\ \A i \in DOMAIN c.fields : Len(c.fields[i]) = Sizes[c.kind][i]
  /\ c.kind = "ChangeBaud" => c.fields[1][1] \in {1, 2}

\* The values of Response that ResponseEncoder::new takes.
IsResponse(r) ==
  /\ r = Message(r.kind, r.fields)
  /\ r.kind \in ResponseKinds /\ r.fields \in Seq(Seq(Byte))
  /\ CASE r.kind \in Unbounded -> Len(r.fields) = 1
       [] r.kind = "GetAttr" -> /\ Len(r.fields) = 2
                                /\ Len(r.fields[1]) = KEY_LEN
                                /\ Len(r.fields[2]) <= MAX_ATTR_LEN
       [] r.kind = "Info" -> Len(r.fields) = 1 /\ Len(r.fields[1]) <= MAX_INFO_LEN
       [] r.kind = "CrcRxBuffer" -> /\ Len(r.fields) = 2
                                    /\ Len(r.fields[1]) = 2 /\ Len(r.fields[2]) = 4
       [] r.kind \in {"CrcIntFlash", "CrcExtFlash"} ->
            Len(r.fields) = 1 /\ Len(r.fields[1]) = 4
       [] OTHER -> r.fields = <<>>

-----------------------------------------------------------------------------
(* The encoders.  An encoder has rendered `count` bytes of the message, and *)
(* perhaps the first half of a doubled escape character.                    *)

FreshEncoder == [count |-> 0, sent_escape |-> FALSE]

\* CommandEncoder::new.
Encodable(c) ==
  CASE c.kind = "WritePage"   -> Len(c.fields[2]) = INT_PAGE_SIZE
    [] c.kind = "WriteExPage" -> Len(c.fields[2]) = EXT_PAGE_SIZE
    [] c.kind = "SetAttr"     -> /\ c.fields[1][1] <= MAX_INDEX
                                 /\ Len(c.fields[2]) = KEY_LEN
                                 /\ Len(c.fields[3]) <= MAX_ATTR_LEN
    [] OTHER                  -> TRUE

\* render_buffer pads what is short.
Padded(bytes, n) == [i \in 1 .. n |-> IF i <= Len(bytes) THEN bytes[i] ELSE 0]

\* What a message carries, before escapes are doubled.
Arguments(c) ==
  IF c.kind = "SetAttr"
  THEN c.fields[1] \o c.fields[2] \o <<Len(c.fields[3])>> \o c.fields[3]
  ELSE FlattenSeq(c.fields)

Payload(r) ==
  CASE r.kind = "GetAttr" -> r.fields[1] \o <<Len(r.fields[2])>>
                               \o Padded(r.fields[2], MAX_ATTR_LEN)
    [] r.kind = "Info"    -> <<Len(r.fields[1])>> \o Padded(r.fields[1], MAX_INFO_LEN)
    [] OTHER              -> FlattenSeq(r.fields)

\* Mutant: an escape character is not doubled.
RenderSingle(e, bytes) ==
  <<[e EXCEPT !.count = @ + 1], bytes[e.count + 1]>>

\* render_byte: the encoder after it, and the byte.
Render(e, bytes) ==
  LET byte == bytes[e.count + 1] IN
  IF byte = ESCAPE_CHAR /\ ~e.sent_escape
  THEN <<[e EXCEPT !.sent_escape = TRUE], byte>>
  ELSE <<[count |-> e.count + 1, sent_escape |-> FALSE], byte>>

\* render_basic_cmd and render_header: the escape character and the code.
RenderCode(e, i, code) ==
  <<[e EXCEPT !.count = @ + 1], IF i = 0 THEN ESCAPE_CHAR ELSE code>>

\* next: a command ends with its code, a response starts with it.
CommandEnded(e, c)  == e.count = Len(Arguments(c)) + 2
ResponseEnded(e, r) == e.count = Len(Payload(r)) + 2

NextOfCommand(e, c) ==
  LET n == Len(Arguments(c)) IN
  IF e.count < n THEN Render(e, Arguments(c))
  ELSE RenderCode(e, e.count - n, CommandCode[c.kind])

NextOfResponse(e, r) ==
  IF e.count < 2 THEN RenderCode(e, e.count, ResponseCode[r.kind])
  ELSE LET step == Render([e EXCEPT !.count = @ - 2], Payload(r)) IN
       <<[step[1] EXCEPT !.count = @ + 2], step[2]>>

-----------------------------------------------------------------------------
(* The decoders: the state after a byte, and what the byte completes.       *)

None  == Message("none", <<>>)
Err(kind) == Message([BadArguments |-> "ErrBadArguments", UnknownCommand |-> "ErrUnknownCommand",
                      SetLength |-> "ErrSetLength", UnsetLength |-> "ErrUnsetLength"][kind], <<>>)
Panic == Message("panic", <<>>)

FreshDecoder == [state |-> "Loading", buffer |-> <<>>]

\* load_char.
Loaded(buffer, ch) == IF Len(buffer) < RxLen THEN Append(buffer, ch) ELSE buffer

\* The fields of a buffer cut into pieces of the sizes.
Start(sizes, i) == FoldFunctionOnSet(LAMBDA a, b : a + b, 0, sizes, 1 .. i - 1)
Cut(buffer, sizes) ==
  [i \in DOMAIN sizes |-> SubSeq(buffer, Start(sizes, i) + 1, Start(sizes, i) + sizes[i])]

\* handle_escape, for the code of a command: WRITE_PAGE takes any number of bytes,
\* and slices the address off without a check.
Parsed(kind, buffer) ==
  LET n == Len(buffer) IN
  CASE kind \in Bare -> Message(kind, <<>>)
    [] kind = "WritePage" ->
         IF n < 4 THEN Panic
         ELSE Message(kind, <<SubSeq(buffer, 1, 4), SubSeq(buffer, 5, n)>>)
    [] kind = "SetAttr" ->
         LET head == 2 + KEY_LEN IN
         IF n < head \/ n # head + buffer[head] THEN Err("BadArguments")
         ELSE Message(kind, <<SubSeq(buffer, 1, 1), SubSeq(buffer, 2, head - 1),
                              SubSeq(buffer, head + 1, n)>>)
    [] OTHER ->
         IF n # Start(Sizes[kind], Len(Sizes[kind]) + 1)
              \/ (kind = "ChangeBaud" /\ buffer[1] \notin {1, 2})
         THEN Err("BadArguments")
         ELSE Message(kind, Cut(buffer, Sizes[kind]))

KindOf(codes, ch) == CHOOSE k \in DOMAIN codes : codes[k] = ch
IsCode(codes, ch) == \E k \in DOMAIN codes : codes[k] = ch

\* CommandDecoder::receive.
ReceiveCommand(d, ch) ==
  CASE d.state = "Loading" /\ ch = ESCAPE_CHAR -> <<[d EXCEPT !.state = "Escape"], None>>
    [] d.state = "Escape" /\ IsCode(CommandCode, ch) ->
         <<FreshDecoder, Parsed(KindOf(CommandCode, ch), d.buffer)>>
    [] d.state = "Escape" /\ ch # ESCAPE_CHAR /\ ~IsCode(CommandCode, ch) ->
         <<[d EXCEPT !.state = "Loading"], None>>
    [] OTHER -> <<[state |-> "Loading", buffer |-> Loaded(d.buffer, ch)], None>>

\* Of a ResponseDecoder; needed = 0 is None.
FreshResponseDecoder == [state |-> "Loading", buffer |-> <<>>, needed |-> 0]

\* The payload of a response, in a buffer that starts with its code.
ParsedResponse(buffer) ==
  LET n == Len(buffer)
      kind == KindOf(ResponseCode, buffer[1]) IN
  IF ~IsCode(ResponseCode, buffer[1]) \/ kind \notin DOMAIN PayloadLen \cup Unbounded
  THEN Err("UnknownCommand")
  ELSE CASE kind \in Unbounded -> Message(kind, <<Tail(buffer)>>)
         [] kind = "GetAttr" ->
              LET head == 2 + KEY_LEN IN
              IF n < head \/ head - 1 + buffer[head] > n THEN Err("BadArguments")
              ELSE Message(kind, <<SubSeq(buffer, 2, head - 1),
                                   SubSeq(Padded(buffer, n + 1), head + 1,
                                          head + buffer[head])>>)
         [] kind = "Info" ->
              IF n < 2 \/ buffer[2] + 1 >= n THEN Err("BadArguments")
              ELSE Message(kind, <<SubSeq(buffer, 3, buffer[2] + 2)>>)
         [] kind = "CrcRxBuffer" -> Message(kind, Cut(Padded(Tail(buffer), 6), <<2, 4>>))
         [] OTHER -> Message(kind, <<Padded(Tail(buffer), 4)>>)

\* Mutant: the length that was needed stays set.
LoadResponseNeededKept(d, ch) ==
  LET buffer == Loaded(d.buffer, ch) IN
  IF d.needed = Len(buffer)
  THEN <<[FreshResponseDecoder EXCEPT !.needed = d.needed], ParsedResponse(buffer)>>
  ELSE <<[d EXCEPT !.state = "Loading", !.buffer = buffer], None>>

LoadResponse(d, ch) ==
  LET buffer == Loaded(d.buffer, ch) IN
  IF d.needed = Len(buffer)
  THEN <<FreshResponseDecoder, ParsedResponse(buffer)>>
  ELSE <<[d EXCEPT !.state = "Loading", !.buffer = buffer], None>>

\* The code of a response with a payload is loaded, and a response which that
\* completes is dropped: only an error is passed on.
LoadCode(d, ch) ==
  LET step == LoadResponse(d, ch) IN
  IF step[2] = Err("UnknownCommand") \/ step[2] = Err("BadArguments") THEN step
  ELSE <<step[1], None>>

\* Mutant: no response may come when the length of one is set.
ReceiveEscapedBounded(d, ch) ==
  IF ~IsCode(ResponseCode, ch) THEN <<[d EXCEPT !.state = "Loading"], None>>
  ELSE LET kind == KindOf(ResponseCode, ch) IN
       CASE kind \in Unbounded /\ d.needed = 0 ->
              <<[d EXCEPT !.state = "Loading"], Err("UnsetLength")>>
         [] kind \in Unbounded /\ d.needed # 0 -> LoadCode(d, ch)
         [] kind \notin Unbounded /\ d.needed # 0 ->
              <<[d EXCEPT !.state = "Loading"], Err("SetLength")>>
         [] kind \in DOMAIN PayloadLen /\ d.needed = 0 ->
              LoadCode([d EXCEPT !.needed = PayloadLen[kind] + 1], ch)
         [] OTHER -> <<FreshResponseDecoder, Message(kind, <<>>)>>

\* handle_escape.
ReceiveEscaped(d, ch) ==
  IF ~IsCode(ResponseCode, ch) THEN <<[d EXCEPT !.state = "Loading"], None>>
  ELSE LET kind == KindOf(ResponseCode, ch) IN
       CASE kind \in Unbounded /\ d.needed = 0 ->
              <<[d EXCEPT !.state = "Loading"], Err("UnsetLength")>>
         [] kind \in Unbounded /\ d.needed # 0 -> LoadCode(d, ch)
         [] kind \in DOMAIN PayloadLen /\ d.needed # 0 ->
              <<[d EXCEPT !.state = "Loading"], Err("SetLength")>>
         [] kind \in DOMAIN PayloadLen /\ d.needed = 0 ->
              LoadCode([d EXCEPT !.needed = PayloadLen[kind] + 1], ch)
         [] OTHER -> <<FreshResponseDecoder, Message(kind, <<>>)>>

\* ResponseDecoder::receive.
ReceiveResponse(d, ch) ==
  CASE d.state = "Loading" /\ ch = ESCAPE_CHAR -> <<[d EXCEPT !.state = "Escape"], None>>
    [] d.state = "Escape" /\ ch # ESCAPE_CHAR  -> ReceiveEscaped(d, ch)
    [] OTHER                                   -> LoadResponse(d, ch)

\* set_payload_len, which does nothing when one is set, and reset, which leaves
\* the state and the length.
SetPayloadLen(d, n) == IF d.needed = 0 THEN [d EXCEPT !.needed = n + 1] ELSE d
ResetDecoder(d)     == [d EXCEPT !.buffer = <<>>]

=============================================================================
