--------------------------- MODULE ProtocolProofs ---------------------------
(***************************************************************************)
(* What the encoders and decoders of Protocol make of every command and    *)
(* every response: a decoder follows an encoder byte by byte, and parses   *)
(* what the encoder was given.                                             *)
(***************************************************************************)
EXTENDS Protocol, SequenceTheorems, TLAPS

-----------------------------------------------------------------------------
(* The codes of the commands.                                              *)

LEMMA KindsOfCommands ==
  CommandKinds = {"Ping", "Info", "Id", "Reset", "ErasePage", "WritePage", "EraseExBlock",
                  "WriteExPage", "CrcRxBuffer", "ReadRange", "ExReadRange", "SetAttr",
                  "GetAttr", "CrcIntFlash", "CrcExtFlash", "EraseExPage", "ExtFlashInit",
                  "ClockOut", "WriteFlashUserPages", "ChangeBaud", "Exit", "SetStartAddress"}
  BY DEF CommandKinds, CommandCode

LEMMA CommandCodes ==
  /\ \A k \in CommandKinds : CommandCode[k] \in 1 .. 35
  /\ \A k, l \in CommandKinds : CommandCode[k] = CommandCode[l] => k = l
<1>1. ASSUME NEW k \in CommandKinds PROVE CommandCode[k] \in 1 .. 35
  BY KindsOfCommands DEF CommandCode
<1>2. ASSUME NEW k \in CommandKinds, NEW l \in CommandKinds, CommandCode[k] = CommandCode[l]
      PROVE  k = l
  BY <1>2, KindsOfCommands DEF CommandCode
<1>. QED  BY <1>1, <1>2

LEMMA CommandOfCode ==
  ASSUME NEW k \in CommandKinds
  PROVE  /\ IsCode(CommandCode, CommandCode[k])
         /\ KindOf(CommandCode, CommandCode[k]) = k
<1>1. \E l \in DOMAIN CommandCode : CommandCode[l] = CommandCode[k]
  BY DEF CommandKinds
<1>2. KindOf(CommandCode, CommandCode[k]) \in CommandKinds
      /\ CommandCode[KindOf(CommandCode, CommandCode[k])] = CommandCode[k]
  BY <1>1 DEF KindOf, CommandKinds
<1>. QED  BY <1>1, <1>2, CommandCodes DEF IsCode

LEMMA NoCommandIsEscape == ~IsCode(CommandCode, ESCAPE_CHAR)
<1>1. \A k \in DOMAIN CommandCode : CommandCode[k] # ESCAPE_CHAR
  BY CommandCodes DEF CommandKinds, ESCAPE_CHAR
<1>. QED  BY <1>1 DEF IsCode

-----------------------------------------------------------------------------
(* A decoder that follows an encoder.                                      *)

\* The beginning of a string, one byte longer.
LEMMA OneMore ==
  ASSUME NEW S, NEW s \in Seq(S), NEW n \in 0 .. Len(s) - 1
  PROVE  /\ SubSeq(s, 1, n) \in Seq(S) /\ Len(SubSeq(s, 1, n)) = n
         /\ Append(SubSeq(s, 1, n), s[n + 1]) = SubSeq(s, 1, n + 1)
<1>. DEFINE a == SubSeq(s, 1, n)
            b == SubSeq(s, 1, n + 1)
            c == Append(a, s[n + 1])
<1>1. /\ a \in Seq(S) /\ Len(a) = n /\ \A i \in 1 .. n : a[i] = s[i]
      /\ s[n + 1] \in S
  OBVIOUS
<1>2. b \in Seq(S) /\ Len(b) = n + 1 /\ \A i \in 1 .. n + 1 : b[i] = s[i]
  OBVIOUS
<1>. HIDE DEF a, b
<1>3. c \in Seq(S) /\ Len(c) = n + 1 /\ \A i \in 1 .. n + 1 : c[i] = s[i]
  BY <1>1
<1>. HIDE DEF c
<1>4. b = c
  BY <1>2, <1>3
<1>. QED  BY <1>1, <1>4 DEF a, b, c

LEMMA Whole ==
  ASSUME NEW S, NEW s \in Seq(S)
  PROVE  SubSeq(s, 1, Len(s)) = s
  OBVIOUS

Encoders == [count : Nat, sent_escape : BOOLEAN]

\* An encoder that renders args, and has rendered half of an escape character only
\* where there is one.
Encoding(e, args) ==
  /\ e \in Encoders /\ e.count <= Len(args) + 2
  /\ e.sent_escape => e.count < Len(args) /\ args[e.count + 1] = ESCAPE_CHAR

\* The decoder of a command that has been given what the encoder has rendered.
Following(e, args) ==
  [state  |-> IF e.sent_escape \/ e.count = Len(args) + 1 THEN "Escape" ELSE "Loading",
   buffer |-> SubSeq(args, 1, IF e.count < Len(args) THEN e.count ELSE Len(args))]

LEMMA FreshFollows ==
  ASSUME NEW args \in Seq(Byte)
  PROVE  Encoding(FreshEncoder, args) /\ Following(FreshEncoder, args) = FreshDecoder
<1>1. SubSeq(args, 1, 0) = <<>>
  OBVIOUS
<1>2. 0 # Len(args) + 1 /\ (0 < Len(args) \/ Len(args) = 0) /\ 0 \in 0 .. Len(args) + 2
  OBVIOUS
<1>. HIDE DEF Byte
<1>. QED  BY <1>1, <1>2 DEF Encoding, Encoders, Following, FreshEncoder, FreshDecoder

LEMMA LoadedNext ==
  ASSUME NEW args \in Seq(Byte), NEW n \in 0 .. Len(args) - 1, n < RxLen
  PROVE  Loaded(SubSeq(args, 1, n), args[n + 1]) = SubSeq(args, 1, n + 1)
  BY OneMore DEF Loaded

\* The three kinds of steps of an encoder.
LEMMA EscapeIsAnnounced ==
  ASSUME NEW c, NEW args, args = Arguments(c), NEW n \in Nat, n = Len(args),
         NEW e \in Encoders, e.count <= n, ~e.sent_escape,
         e.count < n => args[e.count + 1] = ESCAPE_CHAR
  PROVE  LET next == NextOfCommand(e, c)
         IN  /\ next[1] \in Encoders /\ next[2] = ESCAPE_CHAR
             /\ next[1].count = IF e.count < n THEN e.count ELSE e.count + 1
             /\ next[1].sent_escape <=> e.count < n
<1>. DEFINE next == NextOfCommand(e, c)
<1>1. CASE e.count < n
  <2>. DEFINE half == [e EXCEPT !.sent_escape = TRUE]
  <2>1. next = Render(e, args)
    BY <1>1 DEF NextOfCommand
  <2>2. Render(e, args) = <<half, args[e.count + 1]>>
    BY <1>1 DEF Render
  <2>3. half \in Encoders /\ half.count = e.count /\ half.sent_escape
    BY DEF Encoders
  <2>. HIDE DEF half
  <2>4. next[1] = half /\ next[2] = ESCAPE_CHAR
    BY <1>1, <2>1, <2>2
  <2>. QED  BY <1>1, <2>3, <2>4
<1>2. CASE ~(e.count < n)
  <2>. DEFINE more == [e EXCEPT !.count = @ + 1]
  <2>1. next = RenderCode(e, e.count - n, CommandCode[c.kind])
    BY <1>2 DEF NextOfCommand
  <2>2. e.count - n = 0
    BY <1>2 DEF Encoders
  <2>3. RenderCode(e, e.count - n, CommandCode[c.kind]) = <<more, ESCAPE_CHAR>>
    BY <2>2 DEF RenderCode
  <2>4. more \in Encoders /\ more.count = e.count + 1 /\ ~more.sent_escape
    BY DEF Encoders
  <2>. HIDE DEF more
  <2>5. next[1] = more /\ next[2] = ESCAPE_CHAR
    BY <2>1, <2>3
  <2>. QED  BY <1>2, <2>4, <2>5
<1>. QED  BY <1>1, <1>2

LEMMA ArgumentIsRendered ==
  ASSUME NEW c, NEW args, args = Arguments(c), NEW n \in Nat, n = Len(args),
         NEW e \in Encoders, e.count < n,
         e.sent_escape <=> args[e.count + 1] = ESCAPE_CHAR
  PROVE  LET next == NextOfCommand(e, c)
         IN  /\ next[1] \in Encoders /\ next[2] = args[e.count + 1]
             /\ next[1].count = e.count + 1 /\ ~next[1].sent_escape
<1>. DEFINE done == [count |-> e.count + 1, sent_escape |-> FALSE]
            next == NextOfCommand(e, c)
<1>1. next = Render(e, args)
  BY DEF NextOfCommand
<1>2. Render(e, args) = <<done, args[e.count + 1]>>
  BY DEF Render
<1>3. done \in Encoders /\ done.count = e.count + 1 /\ ~done.sent_escape
  BY DEF Encoders
<1>. HIDE DEF done
<1>4. next[1] = done /\ next[2] = args[e.count + 1]
  BY <1>1, <1>2
<1>. QED  BY <1>3, <1>4

LEMMA CodeIsRendered ==
  ASSUME NEW c, NEW args, args = Arguments(c), NEW n \in Nat, n = Len(args),
         NEW e \in Encoders, e.count = n + 1, ~e.sent_escape
  PROVE  LET next == NextOfCommand(e, c)
         IN  /\ next[1] \in Encoders /\ next[2] = CommandCode[c.kind]
             /\ next[1].count = n + 2 /\ ~next[1].sent_escape
<1>. DEFINE more == [e EXCEPT !.count = @ + 1]
            next == NextOfCommand(e, c)
            code == CommandCode[c.kind]
<1>. HIDE DEF code
<1>1. next = RenderCode(e, e.count - n, code)
  <2>1. ~(e.count < n)
    OBVIOUS
  <2>. QED  BY <2>1 DEF NextOfCommand, code
<1>2. e.count - n # 0
  OBVIOUS
<1>3. RenderCode(e, e.count - n, code) = <<more, code>>
  BY <1>2 DEF RenderCode
<1>4. more \in Encoders /\ more.count = n + 2 /\ ~more.sent_escape
  BY DEF Encoders
<1>. HIDE DEF more
<1>5. next[1] = more /\ next[2] = code
  BY <1>1, <1>3
<1>. QED  BY <1>4, <1>5 DEF code

LEMMA DecoderSteps ==
  ASSUME NEW b, NEW ch
  PROVE  /\ ReceiveCommand([state |-> "Loading", buffer |-> b], ESCAPE_CHAR)
              = <<[state |-> "Escape", buffer |-> b], None>>
         /\ ch # ESCAPE_CHAR =>
              ReceiveCommand([state |-> "Loading", buffer |-> b], ch)
                = <<[state |-> "Loading", buffer |-> Loaded(b, ch)], None>>
         /\ ReceiveCommand([state |-> "Escape", buffer |-> b], ESCAPE_CHAR)
              = <<[state |-> "Loading", buffer |-> Loaded(b, ESCAPE_CHAR)], None>>
         /\ \A k \in CommandKinds :
              ReceiveCommand([state |-> "Escape", buffer |-> b], CommandCode[k])
                = <<FreshDecoder, Parsed(k, b)>>
<1>. DEFINE l == [state |-> "Loading", buffer |-> b]
            x == [state |-> "Escape", buffer |-> b]
<1>1. /\ l.state = "Loading" /\ l.buffer = b
      /\ [l EXCEPT !.state = "Escape"] = x
      /\ x.state = "Escape" /\ x.buffer = b
  OBVIOUS
<1>. HIDE DEF l, x
<1>2. ReceiveCommand(l, ESCAPE_CHAR) = <<x, None>>
  BY <1>1 DEF ReceiveCommand
<1>3. ch # ESCAPE_CHAR =>
        ReceiveCommand(l, ch) = <<[state |-> "Loading", buffer |-> Loaded(b, ch)], None>>
  BY <1>1 DEF ReceiveCommand
<1>4. ReceiveCommand(x, ESCAPE_CHAR)
        = <<[state |-> "Loading", buffer |-> Loaded(b, ESCAPE_CHAR)], None>>
  BY <1>1, NoCommandIsEscape DEF ReceiveCommand
<1>5. ASSUME NEW k \in CommandKinds
      PROVE  ReceiveCommand(x, CommandCode[k]) = <<FreshDecoder, Parsed(k, b)>>
  <2>. DEFINE code == CommandCode[k]
  <2>1. IsCode(CommandCode, code) /\ KindOf(CommandCode, code) = k
    BY CommandOfCode
  <2>. HIDE DEF code
  <2>2. ReceiveCommand(x, code) = <<FreshDecoder, Parsed(k, b)>>
    BY <1>1, <2>1 DEF ReceiveCommand
  <2>. QED  BY <2>2 DEF code
<1>. QED  BY <1>2, <1>3, <1>4, <1>5 DEF l, x

LEMMA Follows ==
  ASSUME NEW args \in Seq(Byte), NEW n \in Nat, n = Len(args), NEW e \in Encoders
  PROVE  /\ e.count <= n /\ ~e.sent_escape =>
              Following(e, args) = [state |-> "Loading", buffer |-> SubSeq(args, 1, e.count)]
         /\ e.count < n /\ e.sent_escape =>
              Following(e, args) = [state |-> "Escape", buffer |-> SubSeq(args, 1, e.count)]
         /\ e.count = n + 1 =>
              Following(e, args) = [state |-> "Escape", buffer |-> args]
<1>1. e.count \in Nat
  BY DEF Encoders
<1>. DEFINE b == SubSeq(args, 1, IF e.count < Len(args) THEN e.count ELSE Len(args))
<1>2. e.count <= n => b = SubSeq(args, 1, e.count)
  <2>1. CASE e.count < n
    BY <2>1
  <2>2. CASE e.count = n
    BY <2>2
  <2>. QED  BY <1>1, <2>1, <2>2
<1>3. e.count = n + 1 => b = args
  <2>. SUFFICES ASSUME e.count = n + 1 PROVE b = args
    OBVIOUS
  <2>1. ~(e.count < Len(args))
    OBVIOUS
  <2>2. SubSeq(args, 1, Len(args)) = args
    BY Whole
  <2>. QED  BY <2>1, <2>2, Zenon
<1>4. Following(e, args)
        = [state |-> IF e.sent_escape \/ e.count = n + 1 THEN "Escape" ELSE "Loading",
           buffer |-> b]
  BY DEF Following
<1>. HIDE DEF b
<1>5. CASE e.count <= n /\ ~e.sent_escape
  <2>1. ~(e.sent_escape \/ e.count = n + 1) /\ e.count # n + 1
    BY <1>1, <1>5
  <2>. QED  BY <1>2, <1>4, <1>5, <2>1
<1>6. CASE e.count < n /\ e.sent_escape
  <2>1. e.count <= n /\ e.count # n + 1
    BY <1>1, <1>6
  <2>. QED  BY <1>2, <1>4, <1>6, <2>1
<1>7. CASE e.count = n + 1
  <2>1. ~(e.count <= n) /\ ~(e.count < n)
    BY <1>7
  <2>. QED  BY <1>3, <1>4, <1>7, <2>1
<1>. QED  BY <1>5, <1>6, <1>7

\* The encoder goes on to the end of the command.
LEMMA NextEncodes ==
  ASSUME NEW c, c.kind \in CommandKinds,
         NEW args \in Seq(Byte), args = Arguments(c), NEW n \in Nat, n = Len(args),
         NEW e, Encoding(e, args), e.count < n + 2
  PROVE  LET next  == NextOfCommand(e, c)
         IN  /\ Encoding(next[1], args)
             /\ next[2] \in Byte
             /\ next[1].count \in {e.count, e.count + 1}
             /\ IF e.count = n + 1 THEN next[1].count = n + 2 ELSE next[1].count < n + 2
<1>. DEFINE next == NextOfCommand(e, c)
<1>1. /\ e \in Encoders /\ e.count \in Nat /\ e.count <= n + 1
      /\ e.sent_escape => e.count < n /\ args[e.count + 1] = ESCAPE_CHAR
  BY DEF Encoding, Encoders
<1>2. CASE e.count <= n /\ ~e.sent_escape /\ (e.count < n => args[e.count + 1] = ESCAPE_CHAR)
  <2>1. /\ next[1] \in Encoders /\ next[2] = ESCAPE_CHAR
        /\ next[1].count = IF e.count < n THEN e.count ELSE e.count + 1
        /\ next[1].sent_escape <=> e.count < n
    BY <1>1, <1>2, EscapeIsAnnounced
  <2>. HIDE DEF next
  <2>2. Encoding(next[1], args)
    BY <1>1, <1>2, <2>1 DEF Encoding
  <2>3. e.count # n + 1 /\ next[1].count < n + 2 /\ next[1].count \in {e.count, e.count + 1}
    BY <1>1, <1>2, <2>1
  <2>4. ESCAPE_CHAR \in Byte
    BY DEF ESCAPE_CHAR, Byte
  <2>. QED  BY <2>1, <2>2, <2>3, <2>4 DEF next
<1>3. CASE e.count < n /\ (e.sent_escape \/ args[e.count + 1] # ESCAPE_CHAR)
  <2>. DEFINE x == args[e.count + 1]
  <2>1. x \in Byte /\ (e.sent_escape <=> x = ESCAPE_CHAR)
    BY <1>1, <1>3
  <2>2. /\ next[1] \in Encoders /\ next[2] = x
        /\ next[1].count = e.count + 1 /\ ~next[1].sent_escape
    BY <1>1, <1>3, <2>1, ArgumentIsRendered
  <2>. HIDE DEF next, x
  <2>3. Encoding(next[1], args)
    BY <1>1, <1>3, <2>2 DEF Encoding
  <2>4. e.count # n + 1 /\ next[1].count < n + 2
    BY <1>1, <1>3, <2>2
  <2>. QED  BY <2>1, <2>2, <2>3, <2>4 DEF next
<1>4. CASE e.count = n + 1
  <2>1. ~e.sent_escape
    BY <1>1, <1>4
  <2>2. /\ next[1] \in Encoders /\ next[2] = CommandCode[c.kind]
        /\ next[1].count = n + 2 /\ ~next[1].sent_escape
    BY <1>1, <1>4, <2>1, CodeIsRendered
  <2>. HIDE DEF next
  <2>3. Encoding(next[1], args)
    BY <2>2 DEF Encoding
  <2>4. CommandCode[c.kind] \in Byte
    BY CommandCodes DEF Byte
  <2>. QED  BY <1>4, <2>2, <2>3, <2>4 DEF next
<1>. QED  BY <1>1, <1>2, <1>3, <1>4

\* Nothing but the last byte of a command completes one, and that one gives the
\* arguments to the parser.
LEMMA CommandByteFollows ==
  ASSUME NEW c, c.kind \in CommandKinds,
         NEW args \in Seq(Byte), args = Arguments(c), NEW n \in Nat, n = Len(args),
         NEW e, Encoding(e, args), e.count < n + 2,
         e.count < n => e.count < RxLen
  PROVE  LET next  == NextOfCommand(e, c)
             taken == ReceiveCommand(Following(e, args), next[2])
         IN  taken = IF e.count = n + 1
                     THEN <<FreshDecoder, Parsed(c.kind, args)>>
                     ELSE <<Following(next[1], args), None>>
<1>. DEFINE next == NextOfCommand(e, c)
            b    == SubSeq(args, 1, e.count)
<1>1. /\ e \in Encoders /\ e.count \in Nat /\ e.count <= n + 1
      /\ e.sent_escape => e.count < n /\ args[e.count + 1] = ESCAPE_CHAR
  BY DEF Encoding, Encoders
<1>2. CASE e.count <= n /\ ~e.sent_escape /\ (e.count < n => args[e.count + 1] = ESCAPE_CHAR)
  <2>1. /\ next[1] \in Encoders /\ next[2] = ESCAPE_CHAR
        /\ next[1].count = IF e.count < n THEN e.count ELSE e.count + 1
        /\ next[1].sent_escape <=> e.count < n
    BY <1>1, <1>2, EscapeIsAnnounced
  <2>. HIDE DEF next
  <2>2. Following(e, args) = [state |-> "Loading", buffer |-> b]
    BY <1>1, <1>2, Follows
  <2>3. Following(next[1], args) = [state |-> "Escape", buffer |-> b]
    <3>. PICK d \in Encoders : d = next[1]
      BY <2>1
    <3>1. CASE e.count < n
      <4>1. d.count = e.count /\ d.sent_escape
        BY <2>1, <3>1
      <4>2. Following(d, args) = [state |-> "Escape", buffer |-> SubSeq(args, 1, d.count)]
        BY <3>1, <4>1, Follows
      <4>. QED  BY <4>1, <4>2, Zenon
    <3>2. CASE ~(e.count < n)
      <4>1. d.count = n + 1 /\ e.count = Len(args)
        BY <1>1, <1>2, <2>1, <3>2
      <4>2. b = args
        BY <4>1, Whole
      <4>. QED  BY <4>1, <4>2, Follows
    <3>. QED  BY <3>1, <3>2
  <2>. HIDE DEF b
  <2>4. ReceiveCommand(Following(e, args), next[2]) = <<Following(next[1], args), None>>
    <3>1. ReceiveCommand([state |-> "Loading", buffer |-> b], ESCAPE_CHAR)
            = <<[state |-> "Escape", buffer |-> b], None>>
      BY DecoderSteps
    <3>. QED  BY <2>1, <2>2, <2>3, <3>1, Zenon
  <2>5. e.count # n + 1
    BY <1>1, <1>2
  <2>. QED  BY <2>4, <2>5 DEF next
<1>3. CASE e.count < n /\ (e.sent_escape \/ args[e.count + 1] # ESCAPE_CHAR)
  <2>. DEFINE x == args[e.count + 1]
  <2>1. x \in Byte /\ (e.sent_escape <=> x = ESCAPE_CHAR)
    BY <1>1, <1>3
  <2>2. /\ next[1] \in Encoders /\ next[2] = x
        /\ next[1].count = e.count + 1 /\ ~next[1].sent_escape
    BY <1>1, <1>3, <2>1, ArgumentIsRendered
  <2>. HIDE DEF next
  <2>3. Following(next[1], args)
          = [state |-> "Loading", buffer |-> SubSeq(args, 1, e.count + 1)]
    <3>. PICK d \in Encoders : d = next[1]
      BY <2>2
    <3>1. d.count = e.count + 1 /\ d.count <= n /\ ~d.sent_escape
      BY <1>1, <1>3, <2>2
    <3>2. Following(d, args) = [state |-> "Loading", buffer |-> SubSeq(args, 1, d.count)]
      BY <3>1, Follows
    <3>. QED  BY <3>1, <3>2, Zenon
  <2>4. Loaded(b, x) = SubSeq(args, 1, e.count + 1)
    <3>1. e.count \in 0 .. Len(args) - 1 /\ e.count < RxLen
      BY <1>1, <1>3
    <3>. QED  BY <3>1, LoadedNext
  <2>5. Following(e, args) = [state |-> IF e.sent_escape THEN "Escape" ELSE "Loading",
                              buffer |-> b]
    BY <1>1, <1>3, Follows
  <2>. HIDE DEF b, x
  <2>6. ReceiveCommand(Following(e, args), x) = <<Following(next[1], args), None>>
    <3>1. CASE e.sent_escape
      <4>1. ReceiveCommand([state |-> "Escape", buffer |-> b], ESCAPE_CHAR)
              = <<[state |-> "Loading", buffer |-> Loaded(b, ESCAPE_CHAR)], None>>
        BY DecoderSteps
      <4>. QED  BY <2>1, <2>3, <2>4, <2>5, <3>1, <4>1, Zenon
    <3>2. CASE ~e.sent_escape
      <4>1. ReceiveCommand([state |-> "Loading", buffer |-> b], x)
              = <<[state |-> "Loading", buffer |-> Loaded(b, x)], None>>
        BY <2>1, <3>2, DecoderSteps
      <4>. QED  BY <2>3, <2>4, <2>5, <3>2, <4>1, Zenon
    <3>. QED  BY <3>1, <3>2
  <2>7. e.count # n + 1
    BY <1>1, <1>3
  <2>. QED  BY <2>2, <2>6, <2>7 DEF next
<1>4. CASE e.count = n + 1
  <2>1. ~e.sent_escape
    BY <1>1, <1>4
  <2>2. /\ next[1] \in Encoders /\ next[2] = CommandCode[c.kind]
        /\ next[1].count = n + 2 /\ ~next[1].sent_escape
    BY <1>1, <1>4, <2>1, CodeIsRendered
  <2>. HIDE DEF next
  <2>3. Following(e, args) = [state |-> "Escape", buffer |-> args]
    BY <1>1, <1>4, Follows
  <2>4. ReceiveCommand(Following(e, args), next[2]) = <<FreshDecoder, Parsed(c.kind, args)>>
    <3>1. ReceiveCommand([state |-> "Escape", buffer |-> args], CommandCode[c.kind])
            = <<FreshDecoder, Parsed(c.kind, args)>>
      BY DecoderSteps
    <3>. QED  BY <2>2, <2>3, <3>1, Zenon
  <2>. QED  BY <1>4, <2>4 DEF next
<1>. QED  BY <1>1, <1>2, <1>3, <1>4

-----------------------------------------------------------------------------
(* The parser undoes what puts the arguments together: no command has more  *)
(* than two fields, SET_ATTR excepted.                                      *)

IsSum(f, sizes, S) ==
  f = [s \in SUBSET S |-> IF s = {} THEN 0
                          ELSE sizes[CHOOSE x \in s : TRUE] + f[s \ {CHOOSE x \in s : TRUE}]]

LEMMA FoldIsSum ==
  ASSUME NEW sizes, NEW S
  PROVE  FoldFunctionOnSet(LAMBDA a, b : a + b, 0, sizes, S)
           = LET sum == CHOOSE f : IsSum(f, sizes, S) IN sum[S]
  BY DEF FoldFunctionOnSet, MapThenFoldSet, IsSum

LEMMA SumOfOne ==
  ASSUME NEW sizes, sizes[1] \in Nat
  PROVE  FoldFunctionOnSet(LAMBDA a, b : a + b, 0, sizes, {1}) = sizes[1]
<1>. DEFINE g == [s \in SUBSET {1} |-> IF s = {} THEN 0 ELSE sizes[1]]
            f == CHOOSE h : IsSum(h, sizes, {1})
<1>1. IsSum(g, sizes, {1})
  <2>1. ASSUME NEW s \in SUBSET {1}
        PROVE  g[s] = IF s = {} THEN 0
                      ELSE sizes[CHOOSE x \in s : TRUE] + g[s \ {CHOOSE x \in s : TRUE}]
    <3>1. CASE s = {}
      BY <3>1
    <3>2. CASE s # {}
      <4>1. s = {1} /\ (CHOOSE x \in s : TRUE) = 1
        BY <3>2
      <4>2. s \ {1} = {} /\ g[{}] = 0
        BY <4>1
      <4>. QED  BY <4>1, <4>2
    <3>. QED  BY <3>1, <3>2
  <2>. QED  BY <2>1 DEF IsSum
<1>2. IsSum(f, sizes, {1})
  <2>. HIDE DEF g
  <2>. QED  BY <1>1
<1>3. f[{}] = 0
  BY <1>2 DEF IsSum
<1>. HIDE DEF f
<1>4. ASSUME NEW i \in {1}
      PROVE  f[{i}] = sizes[i]
  <2>1. (CHOOSE x \in {i} : TRUE) = i /\ {i} \ {i} = {} /\ {i} # {}
    OBVIOUS
  <2>2. f[{i}] = sizes[CHOOSE x \in {i} : TRUE] + f[{i} \ {CHOOSE x \in {i} : TRUE}]
    BY <1>2, <2>1 DEF IsSum
  <2>. QED  BY <1>3, <2>1, <2>2
<1>5. f[{1}] = sizes[1]
  BY <1>4
<1>. QED  BY <1>5, FoldIsSum DEF f

LEMMA SumOfTwo ==
  ASSUME NEW sizes, sizes[1] \in Nat, sizes[2] \in Nat
  PROVE  FoldFunctionOnSet(LAMBDA a, b : a + b, 0, sizes, {1, 2}) = sizes[1] + sizes[2]
<1>. DEFINE g == [s \in SUBSET {1, 2} |->
                    IF s = {} THEN 0 ELSE IF s = {1} THEN sizes[1]
                    ELSE IF s = {2} THEN sizes[2] ELSE sizes[1] + sizes[2]]
            f == CHOOSE h : IsSum(h, sizes, {1, 2})
<1>1. IsSum(g, sizes, {1, 2})
  <2>1. ASSUME NEW s \in SUBSET {1, 2}
        PROVE  g[s] = IF s = {} THEN 0
                      ELSE sizes[CHOOSE x \in s : TRUE] + g[s \ {CHOOSE x \in s : TRUE}]
    <3>1. CASE s = {}
      BY <3>1
    <3>2. CASE s # {}
      <4>. DEFINE y == CHOOSE x \in s : TRUE
      <4>1. y \in s /\ y \in {1, 2}
        BY <3>2
      <4>. HIDE DEF y
      <4>2. s \in {{1}, {2}, {1, 2}}
        BY <3>2
      <4>3. g[{}] = 0 /\ g[{1}] = sizes[1] /\ g[{2}] = sizes[2]
            /\ g[{1, 2}] = sizes[1] + sizes[2]
        OBVIOUS
      <4>. HIDE DEF g
      <4>4. g[s] = sizes[y] + g[s \ {y}]
        <5>1. CASE s = {1}
          <6>1. y = 1 /\ s \ {y} = {}
            BY <4>1, <5>1
          <6>2. g[s] = sizes[1] /\ g[s \ {y}] = 0
            BY <4>3, <5>1, <6>1, Zenon
          <6>3. sizes[y] = sizes[1]
            BY <6>1
          <6>. QED  BY <6>2, <6>3
        <5>2. CASE s = {2}
          <6>1. y = 2 /\ s \ {y} = {}
            BY <4>1, <5>2
          <6>2. g[s] = sizes[2] /\ g[s \ {y}] = 0
            BY <4>3, <5>2, <6>1, Zenon
          <6>3. sizes[y] = sizes[2]
            BY <6>1
          <6>. QED  BY <6>2, <6>3
        <5>3. CASE s = {1, 2}
          <6>1. (y = 1 /\ s \ {y} = {2}) \/ (y = 2 /\ s \ {y} = {1})
            BY <4>1, <5>3
          <6>2. g[s] = sizes[1] + sizes[2]
            BY <4>3, <5>3, Zenon
          <6>3. CASE y = 1 /\ s \ {y} = {2}
            <7>1. sizes[y] = sizes[1] /\ g[s \ {y}] = sizes[2]
              BY <4>3, <6>3, Zenon
            <7>. QED  BY <6>2, <7>1
          <6>4. CASE y = 2 /\ s \ {y} = {1}
            <7>1. sizes[y] = sizes[2] /\ g[s \ {y}] = sizes[1]
              BY <4>3, <6>4, Zenon
            <7>. QED  BY <6>2, <7>1
          <6>. QED  BY <6>1, <6>3, <6>4
        <5>. QED  BY <4>2, <5>1, <5>2, <5>3
      <4>. QED  BY <3>2, <4>4 DEF y
    <3>. QED  BY <3>1, <3>2
  <2>. QED  BY <2>1 DEF IsSum
<1>2. IsSum(f, sizes, {1, 2})
  <2>. HIDE DEF g
  <2>. QED  BY <1>1
<1>. HIDE DEF f
<1>3. f[{}] = 0
  BY <1>2 DEF IsSum
<1>4. ASSUME NEW i \in {1, 2}
      PROVE  f[{i}] = sizes[i]
  <2>1. (CHOOSE x \in {i} : TRUE) = i /\ {i} \ {i} = {} /\ {i} # {}
    OBVIOUS
  <2>2. f[{i}] = sizes[CHOOSE x \in {i} : TRUE] + f[{i} \ {CHOOSE x \in {i} : TRUE}]
    BY <1>2, <2>1 DEF IsSum
  <2>. QED  BY <1>3, <2>1, <2>2
<1>5. f[{1, 2}] = sizes[1] + sizes[2]
  <2>. DEFINE y == CHOOSE x \in {1, 2} : TRUE
  <2>1. y \in {1, 2}
    OBVIOUS
  <2>2. f[{1, 2}] = sizes[y] + f[{1, 2} \ {y}]
    BY <1>2 DEF IsSum
  <2>. HIDE DEF y
  <2>3. (y = 1 /\ {1, 2} \ {y} = {2}) \/ (y = 2 /\ {1, 2} \ {y} = {1})
    BY <2>1
  <2>4. f[{1}] = sizes[1] /\ f[{2}] = sizes[2]
    BY <1>4
  <2>5. CASE y = 1 /\ {1, 2} \ {y} = {2}
    BY <2>2, <2>4, <2>5, Zenon
  <2>6. CASE y = 2 /\ {1, 2} \ {y} = {1}
    <3>1. f[{1, 2}] = sizes[2] + sizes[1]
      BY <2>2, <2>4, <2>6, Zenon
    <3>. QED  BY <3>1
  <2>. QED  BY <2>3, <2>5, <2>6
<1>. QED  BY <1>5, FoldIsSum DEF f

LEMMA StartIs ==
  ASSUME NEW sizes
  PROVE  /\ sizes[1] \in Nat => Start(sizes, 2) = sizes[1]
         /\ sizes[1] \in Nat /\ sizes[2] \in Nat => Start(sizes, 3) = sizes[1] + sizes[2]
         /\ Start(sizes, 1) = 0
<1>1. 1 .. 1 - 1 = {} /\ 1 .. 2 - 1 = {1} /\ 1 .. 3 - 1 = {1, 2}
  OBVIOUS
<1>2. Start(sizes, 1) = 0
  <2>. DEFINE g == [s \in SUBSET {} |-> 0]
              f == CHOOSE h : IsSum(h, sizes, {})
  <2>1. IsSum(g, sizes, {})
    BY DEF IsSum
  <2>. HIDE DEF g
  <2>2. IsSum(f, sizes, {})
    BY <2>1
  <2>3. f[{}] = 0
    BY <2>2 DEF IsSum
  <2>. QED  BY <1>1, <2>3, FoldIsSum DEF Start
<1>. QED  BY <1>1, <1>2, SumOfOne, SumOfTwo DEF Start

IsFlat(g, seqs) ==
  g = [i \in 1 .. Len(seqs) |-> IF i = 1 THEN seqs[i] ELSE g[i - 1] \o seqs[i]]

LEMMA FlattenIs ==
  ASSUME NEW seqs
  PROVE  /\ Len(seqs) = 0 => FlattenSeq(seqs) = seqs
         /\ Len(seqs) = 1 => FlattenSeq(seqs) = seqs[1]
         /\ Len(seqs) = 2 => FlattenSeq(seqs) = seqs[1] \o seqs[2]
<1>. DEFINE f == CHOOSE h : IsFlat(h, seqs)
<1>1. Len(seqs) # 0 => FlattenSeq(seqs) = f[Len(seqs)]
  BY DEF FlattenSeq, IsFlat
<1>2. Len(seqs) = 0 => FlattenSeq(seqs) = seqs
  BY DEF FlattenSeq
<1>3. ASSUME Len(seqs) = 1 PROVE f[1] = seqs[1]
  <2>. DEFINE g == [i \in 1 .. 1 |-> seqs[1]]
  <2>1. IsFlat(g, seqs)
    BY <1>3 DEF IsFlat
  <2>. HIDE DEF g
  <2>2. IsFlat(f, seqs)
    BY <2>1
  <2>. QED  BY <1>3, <2>2 DEF IsFlat
<1>4. ASSUME Len(seqs) = 2 PROVE f[2] = seqs[1] \o seqs[2]
  <2>. DEFINE g == [i \in 1 .. 2 |-> IF i = 1 THEN seqs[1] ELSE seqs[1] \o seqs[2]]
  <2>1. ASSUME NEW i \in 1 .. 2
        PROVE  g[i] = IF i = 1 THEN seqs[i] ELSE g[i - 1] \o seqs[i]
    <3>1. CASE i = 1
      BY <3>1
    <3>2. CASE i = 2
      <4>1. g[i - 1] = seqs[1]
        BY <3>2
      <4>. QED  BY <3>2, <4>1
    <3>. QED  BY <3>1, <3>2
  <2>2. IsFlat(g, seqs)
    BY <1>4, <2>1 DEF IsFlat
  <2>. HIDE DEF g
  <2>3. IsFlat(f, seqs)
    BY <2>2
  <2>. HIDE DEF f
  <2>4. \A i \in 1 .. 2 : f[i] = IF i = 1 THEN seqs[i] ELSE f[i - 1] \o seqs[i]
    BY <1>4, <2>3 DEF IsFlat
  <2>5. f[1] = seqs[1]
    BY <2>4
  <2>6. 2 \in 1 .. 2 /\ 2 # 1 /\ 2 - 1 = 1
    OBVIOUS
  <2>7. f[2] = f[2 - 1] \o seqs[2]
    BY <2>4, <2>6, Zenon
  <2>. QED  BY <2>5, <2>6, <2>7, Zenon
<1>. HIDE DEF f
<1>5. Len(seqs) = 1 => FlattenSeq(seqs) = seqs[1]
  BY <1>1, <1>3
<1>6. Len(seqs) = 2 => FlattenSeq(seqs) = seqs[1] \o seqs[2]
  <2>. SUFFICES ASSUME Len(seqs) = 2 PROVE FlattenSeq(seqs) = seqs[1] \o seqs[2]
    OBVIOUS
  <2>1. FlattenSeq(seqs) = f[2]
    BY <1>1
  <2>. QED  BY <1>4, <2>1, Zenon
<1>. QED  BY <1>2, <1>5, <1>6, Zenon

LEMMA CutConcat ==
  ASSUME NEW S, NEW a \in Seq(S), NEW b \in Seq(S)
  PROVE  /\ a \o b \in Seq(S) /\ Len(a \o b) = Len(a) + Len(b)
         /\ SubSeq(a \o b, 1, Len(a)) = a
         /\ SubSeq(a \o b, Len(a) + 1, Len(a) + Len(b)) = b
<1>. DEFINE w == a \o b
            x == SubSeq(w, 1, Len(a))
            y == SubSeq(w, Len(a) + 1, Len(a) + Len(b))
<1>1. /\ w \in Seq(S) /\ Len(w) = Len(a) + Len(b)
      /\ \A i \in 1 .. Len(a) : w[i] = a[i]
      /\ \A i \in 1 .. Len(b) : w[Len(a) + i] = b[i]
  OBVIOUS
<1>. HIDE DEF w
<1>2. /\ x \in Seq(S) /\ Len(x) = Len(a)
      /\ \A i \in 1 .. Len(a) : x[i] = w[i]
  BY <1>1
<1>3. /\ y \in Seq(S) /\ Len(y) = Len(b)
      /\ \A i \in 1 .. Len(b) : y[i] = w[Len(a) + i]
  BY <1>1
<1>. HIDE DEF x, y
<1>4. x = a
  BY <1>1, <1>2
<1>5. y = b
  BY <1>1, <1>3
<1>. QED  BY <1>1, <1>4, <1>5 DEF w, x, y

LEMMA Pieces ==
  ASSUME NEW fields \in Seq(Seq(Byte))
  PROVE  /\ \A i \in 1 .. Len(fields) : fields[i] \in Seq(Byte)
         /\ Len(fields) = 0 => fields = <<>>
         /\ Len(fields) = 1 => fields = <<fields[1]>>
         /\ Len(fields) = 2 => fields = <<fields[1], fields[2]>>
         /\ Len(fields) = 3 => fields = <<fields[1], fields[2], fields[3]>>
<1>1. \A i \in 1 .. Len(fields) : fields[i] \in Seq(Byte)
  BY ElementOfSeq
<1>2. PICK T : T = Seq(Byte)
  OBVIOUS
<1>3. fields \in Seq(T)
  BY <1>2
<1>4. /\ Len(fields) = 0 => fields = <<>>
      /\ Len(fields) = 1 => fields = <<fields[1]>>
      /\ Len(fields) = 2 => fields = <<fields[1], fields[2]>>
      /\ Len(fields) = 3 => fields = <<fields[1], fields[2], fields[3]>>
  BY <1>3
<1>. QED  BY <1>1, <1>4

\* A message of one or of two fields, cut by their sizes.
IsCut(fields, sizes) ==
  /\ Len(FlattenSeq(fields)) = Start(sizes, Len(sizes) + 1)
  /\ Cut(FlattenSeq(fields), sizes) = fields

LEMMA CutOne ==
  ASSUME NEW a \in Seq(Byte)
  PROVE  FlattenSeq(<<a>>) = a /\ IsCut(<<a>>, <<Len(a)>>)
<1>0. PICK fields, sizes : fields = <<a>> /\ sizes = <<Len(a)>>
  OBVIOUS
<1>1. PICK n \in Nat : n = Len(a)
  OBVIOUS
<1>2. FlattenSeq(fields) = a
  <2>1. Len(fields) = 1 /\ fields[1] = a
    BY <1>0
  <2>. QED  BY <2>1, FlattenIs, Zenon
<1>3. sizes[1] = n /\ Len(sizes) + 1 = 2 /\ DOMAIN sizes = 1 .. 1
  BY <1>0, <1>1
<1>4. Start(sizes, 1) = 0 /\ Start(sizes, 2) = n
  BY <1>3, StartIs
<1>5. SubSeq(a, 1, n) = a /\ Len(a) = n
  BY <1>1, Whole
<1>6. Cut(a, sizes) = [i \in 1 .. 1 |-> a]
  <2>1. ASSUME NEW i \in 1 .. 1
        PROVE  SubSeq(a, Start(sizes, i) + 1, Start(sizes, i) + sizes[i]) = a
    <3>1. i = 1
      OBVIOUS
    <3>2. Start(sizes, i) + 1 = 1 /\ Start(sizes, i) + sizes[i] = n
      BY <1>3, <1>4, <3>1
    <3>. QED  BY <1>5, <3>2
  <2>. QED  BY <1>3, <2>1 DEF Cut
<1>7. [i \in 1 .. 1 |-> a] = <<a>>
  OBVIOUS
<1>8. Len(a) = Start(sizes, Len(sizes) + 1)
  BY <1>3, <1>4, <1>5
<1>9. IsCut(fields, sizes)
  BY <1>0, <1>2, <1>5, <1>6, <1>7, <1>8, Zenon DEF IsCut
<1>. QED  BY <1>0, <1>2, <1>9, Zenon

LEMMA CutTwo ==
  ASSUME NEW a \in Seq(Byte), NEW b \in Seq(Byte)
  PROVE  FlattenSeq(<<a, b>>) = a \o b /\ IsCut(<<a, b>>, <<Len(a), Len(b)>>)
<1>0. PICK fields, sizes : fields = <<a, b>> /\ sizes = <<Len(a), Len(b)>>
  OBVIOUS
<1>1. PICK w : w = a \o b
  OBVIOUS
<1>2. PICK m \in Nat, n \in Nat : m = Len(a) /\ n = Len(b)
  OBVIOUS
<1>3. /\ w \in Seq(Byte) /\ Len(w) = m + n
      /\ SubSeq(w, 1, m) = a /\ SubSeq(w, m + 1, m + n) = b
  <2>1. /\ a \o b \in Seq(Byte) /\ Len(a \o b) = Len(a) + Len(b)
        /\ SubSeq(a \o b, 1, Len(a)) = a
        /\ SubSeq(a \o b, Len(a) + 1, Len(a) + Len(b)) = b
    BY CutConcat
  <2>. QED  BY <1>1, <1>2, <2>1, Zenon
<1>4. FlattenSeq(fields) = w
  <2>1. Len(fields) = 2 /\ fields[1] = a /\ fields[2] = b
    BY <1>0
  <2>. QED  BY <1>1, <2>1, FlattenIs, Zenon
<1>5. sizes[1] = m /\ sizes[2] = n /\ Len(sizes) + 1 = 3 /\ DOMAIN sizes = 1 .. 2
  BY <1>0, <1>2
<1>6. Start(sizes, 1) = 0 /\ Start(sizes, 2) = m /\ Start(sizes, 3) = m + n
  BY <1>5, StartIs
<1>7. Cut(w, sizes) = [i \in 1 .. 2 |-> IF i = 1 THEN a ELSE b]
  <2>. DEFINE piece(i) == SubSeq(w, Start(sizes, i) + 1, Start(sizes, i) + sizes[i])
  <2>1. Start(sizes, 1) + 1 = 1 /\ Start(sizes, 1) + sizes[1] = m
    BY <1>5, <1>6
  <2>2. Start(sizes, 2) + 1 = m + 1 /\ Start(sizes, 2) + sizes[2] = m + n
    BY <1>5, <1>6
  <2>3. piece(1) = a /\ piece(2) = b
    BY <1>3, <2>1, <2>2, Zenon
  <2>. HIDE DEF piece
  <2>4. \A i \in 1 .. 2 : piece(i) = IF i = 1 THEN a ELSE b
    BY <2>3
  <2>5. Cut(w, sizes) = [i \in 1 .. 2 |-> piece(i)]
    BY <1>5, Zenon DEF Cut, piece
  <2>. QED  BY <2>4, <2>5
<1>8. [i \in 1 .. 2 |-> IF i = 1 THEN a ELSE b] = <<a, b>>
  OBVIOUS
<1>9. Len(w) = Start(sizes, Len(sizes) + 1)
  BY <1>3, <1>5, <1>6
<1>10. IsCut(fields, sizes)
  BY <1>0, <1>1, <1>4, <1>7, <1>8, <1>9, Zenon DEF IsCut
<1>. QED  BY <1>0, <1>1, <1>4, <1>10, Zenon

-----------------------------------------------------------------------------
(* Every command that the encoder takes is what its arguments parse to.     *)

LEMMA MessageIs ==
  ASSUME NEW k, NEW fields
  PROVE  Message(k, fields).kind = k /\ Message(k, fields).fields = fields
  BY DEF Message

LEMMA SizesAre ==
  /\ DOMAIN Sizes = CommandKinds \ (Bare \cup {"WritePage", "SetAttr"})
  /\ \A k \in DOMAIN Sizes : \/ \E n \in Nat : Sizes[k] = <<n>>
                             \/ \E m, n \in Nat : Sizes[k] = <<m, n>>
  /\ Sizes["ChangeBaud"] = <<1, 4>>
  /\ Sizes["WriteExPage"] = <<4, EXT_PAGE_SIZE>>
<1>1. EXT_PAGE_SIZE \in Nat
  BY ProtocolAssumption
<1>2. DOMAIN Sizes = CommandKinds \ (Bare \cup {"WritePage", "SetAttr"})
  BY DEF Sizes
<1>3. {"ChangeBaud", "WriteExPage"} \subseteq DOMAIN Sizes
  BY <1>2, KindsOfCommands DEF Bare
<1>4. ASSUME NEW k \in DOMAIN Sizes
      PROVE  Sizes[k] \in {<<4>>, <<1>>, <<4, EXT_PAGE_SIZE>>, <<4, 2>>, <<4, 4>>, <<1, 4>>}
  BY <1>2, KindsOfCommands DEF Sizes, Bare
<1>5. Sizes["ChangeBaud"] = <<1, 4>>
  BY <1>2, <1>3 DEF Sizes
<1>6. Sizes["WriteExPage"] = <<4, EXT_PAGE_SIZE>>
  BY <1>2, <1>3 DEF Sizes
<1>. QED  BY <1>1, <1>2, <1>4, <1>5, <1>6

LEMMA ByteConcat ==
  \A a, b \in Seq(Byte) :
    /\ a \o b \in Seq(Byte) /\ Len(a \o b) = Len(a) + Len(b)
    /\ \A i \in 1 .. Len(a) : (a \o b)[i] = a[i]
    /\ \A i \in 1 .. Len(b) : (a \o b)[Len(a) + i] = b[i]
    /\ SubSeq(a \o b, 1, Len(a)) = a
    /\ SubSeq(a \o b, Len(a) + 1, Len(a) + Len(b)) = b
<1>1. ASSUME NEW a \in Seq(Byte), NEW b \in Seq(Byte)
      PROVE  /\ a \o b \in Seq(Byte) /\ Len(a \o b) = Len(a) + Len(b)
             /\ \A i \in 1 .. Len(a) : (a \o b)[i] = a[i]
             /\ \A i \in 1 .. Len(b) : (a \o b)[Len(a) + i] = b[i]
  OBVIOUS
<1>2. ASSUME NEW a \in Seq(Byte), NEW b \in Seq(Byte)
      PROVE  /\ SubSeq(a \o b, 1, Len(a)) = a
             /\ SubSeq(a \o b, Len(a) + 1, Len(a) + Len(b)) = b
  BY CutConcat
<1>. QED  BY <1>1, <1>2, Zenon

LEMMA SubSeqIs ==
  ASSUME NEW S, NEW w \in Seq(S), NEW m \in Nat, NEW x \in Seq(S), m + Len(x) <= Len(w),
         \A i \in 1 .. Len(x) : w[m + i] = x[i]
  PROVE  SubSeq(w, m + 1, m + Len(x)) = x
<1>. DEFINE y == SubSeq(w, m + 1, m + Len(x))
<1>1. y \in Seq(S) /\ Len(y) = Len(x) /\ \A i \in 1 .. Len(x) : y[i] = w[m + i]
  OBVIOUS
<1>. HIDE DEF y
<1>2. y = x
  BY <1>1
<1>. QED  BY <1>2 DEF y

\* WRITE_PAGE: four bytes of address, and the rest.
LEMMA WritePageParsed ==
  ASSUME NEW a \in Seq(Byte), Len(a) = 4, NEW b \in Seq(Byte)
  PROVE  Parsed("WritePage", a \o b) = Message("WritePage", <<a, b>>)
<1>1. PICK w : w = a \o b
  OBVIOUS
<1>2. PICK n \in Nat : n = Len(b)
  OBVIOUS
<1>3. /\ w \in Seq(Byte) /\ Len(w) = 4 + n
      /\ SubSeq(w, 1, 4) = a /\ SubSeq(w, 4 + 1, 4 + n) = b
  <2>1. /\ a \o b \in Seq(Byte) /\ Len(a \o b) = Len(a) + Len(b)
        /\ SubSeq(a \o b, 1, Len(a)) = a
        /\ SubSeq(a \o b, Len(a) + 1, Len(a) + Len(b)) = b
    BY ByteConcat, Zenon
  <2>. QED  BY <1>1, <1>2, <2>1, Zenon
<1>4. ~(Len(w) < 4) /\ 4 + 1 = 5
  BY <1>3
<1>5. "WritePage" \notin Bare
  BY DEF Bare
<1>6. Parsed("WritePage", w) = Message("WritePage", <<SubSeq(w, 1, 4), SubSeq(w, 5, Len(w))>>)
  BY <1>4, <1>5 DEF Parsed
<1>. QED  BY <1>1, <1>3, <1>4, <1>6, Zenon

\* A string of four pieces, the first and the third of one byte.
HasFourPieces(a, b, u, v) ==
  LET w == a \o b \o u \o v IN
  /\ w \in Seq(Byte) /\ Len(w) = 2 + Len(b) + Len(v)
  /\ SubSeq(w, 1, 1) = a /\ SubSeq(w, 2, Len(b) + 1) = b /\ w[Len(b) + 2] = u[1]
  /\ SubSeq(w, Len(b) + 3, Len(b) + 2 + Len(v)) = v

LEMMA FourPieces ==
  ASSUME NEW a \in Seq(Byte), NEW b \in Seq(Byte), NEW u \in Seq(Byte), NEW v \in Seq(Byte),
         Len(a) = 1, Len(u) = 1
  PROVE  HasFourPieces(a, b, u, v)
<1>0. PICK w : w = a \o b \o u \o v
  OBVIOUS
<1>len. PICK K \in Nat, l \in Nat : K = Len(b) /\ l = Len(v)
  OBVIOUS
<1>1. PICK ab \in Seq(Byte) : ab = a \o b
  BY ByteConcat, Zenon
<1>2. PICK p \in Seq(Byte) : p = ab \o u
  BY ByteConcat, Zenon
<1>3. w = p \o v
  BY <1>0, <1>1, <1>2, Zenon
<1>4. w \in Seq(Byte)
  BY <1>3, ByteConcat, Zenon
<1>5. Len(ab) = Len(a) + Len(b)
       /\ (\A i \in 1 .. Len(a) : ab[i] = a[i])
       /\ \A i \in 1 .. Len(b) : ab[Len(a) + i] = b[i]
  <2>1. /\ Len(a \o b) = Len(a) + Len(b)
        /\ (\A i \in 1 .. Len(a) : (a \o b)[i] = a[i])
        /\ \A i \in 1 .. Len(b) : (a \o b)[Len(a) + i] = b[i]
    BY ByteConcat, Zenon
  <2>. QED  BY <1>1, <2>1, Zenon
<1>6. Len(p) = Len(ab) + Len(u)
       /\ (\A i \in 1 .. Len(ab) : p[i] = ab[i])
       /\ \A i \in 1 .. Len(u) : p[Len(ab) + i] = u[i]
  <2>1. /\ Len(ab \o u) = Len(ab) + Len(u)
        /\ (\A i \in 1 .. Len(ab) : (ab \o u)[i] = ab[i])
        /\ \A i \in 1 .. Len(u) : (ab \o u)[Len(ab) + i] = u[i]
    BY ByteConcat, Zenon
  <2>. QED  BY <1>2, <2>1, Zenon
<1>7. Len(w) = Len(p) + Len(v)
       /\ (\A i \in 1 .. Len(p) : w[i] = p[i])
       /\ \A i \in 1 .. Len(v) : w[Len(p) + i] = v[i]
  <2>1. /\ Len(p \o v) = Len(p) + Len(v)
        /\ (\A i \in 1 .. Len(p) : (p \o v)[i] = p[i])
        /\ \A i \in 1 .. Len(v) : (p \o v)[Len(p) + i] = v[i]
    BY ByteConcat, Zenon
  <2>. QED  BY <1>3, <2>1, Zenon
<1>8. Len(ab) = 1 + K
  BY <1>len, <1>5
<1>9. Len(p) = 2 + K
  BY <1>len, <1>6, <1>8
<1>10. Len(w) = 2 + K + l
  BY <1>len, <1>7, <1>9
<1>11. \A i \in 1 .. Len(a) : w[0 + i] = a[i]
  BY <1>len, <1>5, <1>6, <1>7, <1>8, <1>9
<1>12. \A i \in 1 .. Len(b) : w[1 + i] = b[i]
  <2>1. \A i \in 1 .. K : ab[1 + i] = b[i]
    BY <1>len, <1>5
  <2>2. \A i \in 1 .. 1 + K : w[i] = ab[i]
    BY <1>len, <1>6, <1>7, <1>8, <1>9
  <2>3. \A i \in 1 .. K : w[1 + i] = b[i]
    BY <2>1, <2>2
  <2>. QED  BY <1>len, <2>3
<1>13. w[K + 2] = u[1]
  <2>1. p[1 + K + 1] = u[1]
    BY <1>len, <1>6, <1>8
  <2>2. w[K + 2] = p[K + 2]
    BY <1>len, <1>7, <1>9
  <2>. QED  BY <2>1, <2>2
<1>14. \A i \in 1 .. Len(v) : w[2 + K + i] = v[i]
  BY <1>len, <1>7, <1>9
<1>15. SubSeq(w, 0 + 1, 0 + Len(a)) = a
  BY <1>len, <1>4, <1>10, <1>11, SubSeqIs
<1>16. SubSeq(w, 1 + 1, 1 + Len(b)) = b
  BY <1>len, <1>4, <1>10, <1>12, SubSeqIs
<1>17. SubSeq(w, (2 + K) + 1, (2 + K) + Len(v)) = v
  <2>. DEFINE m == 2 + K
  <2>1. m \in Nat /\ m + Len(v) <= Len(w) /\ \A i \in 1 .. Len(v) : w[m + i] = v[i]
    BY <1>len, <1>10, <1>14
  <2>. HIDE DEF m
  <2>2. SubSeq(w, m + 1, m + Len(v)) = v
    BY <1>4, <2>1, SubSeqIs
  <2>. QED  BY <2>2 DEF m
<1>18. (2 + K) + 1 = K + 3 /\ (2 + K) + Len(v) = K + 2 + l /\ 1 + Len(b) = K + 1
       /\ 0 + 1 = 1 /\ 1 + 1 = 2 /\ 0 + Len(a) = 1
  BY <1>len
<1>19. Len(w) = 2 + Len(b) + Len(v) /\ K = Len(b) /\ l = Len(v)
  BY <1>len, <1>10
<1>. QED  BY <1>0, <1>4, <1>13, <1>15, <1>16, <1>17, <1>18, <1>19, Zenon DEF HasFourPieces

\* SET_ATTR: an index, a key, a length and as many bytes.
LEMMA SetAttrParsed ==
  ASSUME NEW a \in Seq(Byte), NEW b \in Seq(Byte), NEW v \in Seq(Byte)
  PROVE  Len(a) = 1 /\ Len(b) = KEY_LEN /\ Len(v) <= 255 =>
         /\ a \o b \o <<Len(v)>> \o v \in Seq(Byte)
         /\ Parsed("SetAttr", a \o b \o <<Len(v)>> \o v) = Message("SetAttr", <<a, b, v>>)
<1>1. KEY_LEN \in Nat
  BY ProtocolAssumption
<1>2. PICK l \in Nat : l = Len(v)
  OBVIOUS
<1>0. SUFFICES ASSUME Len(a) = 1 /\ Len(b) = KEY_LEN /\ l <= 255
              PROVE  /\ a \o b \o <<l>> \o v \in Seq(Byte)
                     /\ Parsed("SetAttr", a \o b \o <<l>> \o v)
                          = Message("SetAttr", <<a, b, v>>)
  BY <1>2
<1>3. l \in Byte
  BY <1>0 DEF Byte
<1>4. PICK u : u = <<l>>
  OBVIOUS
<1>5. u \in Seq(Byte) /\ Len(u) = 1 /\ u[1] = l
  BY <1>3, <1>4
<1>6. PICK w : w = a \o b \o u \o v
  OBVIOUS
<1>7. /\ w \in Seq(Byte) /\ Len(w) = 2 + KEY_LEN + l
      /\ SubSeq(w, 1, 1) = a /\ SubSeq(w, 2, KEY_LEN + 1) = b /\ w[KEY_LEN + 2] = u[1]
      /\ SubSeq(w, KEY_LEN + 3, KEY_LEN + 2 + l) = v
  <2>1. Len(u) = 1 /\ Len(a) = 1 /\ KEY_LEN = Len(b) /\ w = a \o b \o u \o v
        /\ u \in Seq(Byte)
    BY <1>0, <1>5, <1>6
  <2>2. /\ w \in Seq(Byte) /\ Len(w) = 2 + Len(b) + Len(v)
        /\ SubSeq(w, 1, 1) = a /\ SubSeq(w, 2, Len(b) + 1) = b /\ w[Len(b) + 2] = u[1]
        /\ SubSeq(w, Len(b) + 3, Len(b) + 2 + Len(v)) = v
    <3>1. HasFourPieces(a, b, u, v)
      BY <2>1, FourPieces, Zenon
    <3>. QED  BY <2>1, <3>1, Zenon DEF HasFourPieces
  <2>. QED  BY <1>2, <2>1, <2>2, Zenon
<1>. DEFINE head == 2 + KEY_LEN
<1>8. /\ head - 1 = KEY_LEN + 1 /\ head + 1 = KEY_LEN + 3
      /\ head = KEY_LEN + 2 /\ Len(w) = KEY_LEN + 2 + l
      /\ ~(Len(w) < head)
  <2>1. Len(w) = 2 + KEY_LEN + l
    BY <1>7
  <2>. QED  BY <1>1, <2>1
<1>9. Len(w) = head + w[head]
  BY <1>1, <1>5, <1>7
<1>10. "SetAttr" \notin Bare /\ "SetAttr" # "WritePage"
  BY DEF Bare
<1>11. Parsed("SetAttr", w)
         = Message("SetAttr", <<SubSeq(w, 1, 1), SubSeq(w, 2, head - 1),
                                SubSeq(w, head + 1, Len(w))>>)
  BY <1>8, <1>9, <1>10 DEF Parsed
<1>12. Parsed("SetAttr", w) = Message("SetAttr", <<a, b, v>>)
  BY <1>7, <1>8, <1>11, Zenon
<1>. QED  BY <1>4, <1>6, <1>7, <1>12, Zenon

\* The others, cut by the sizes of their fields.
LEMMA SizedParsed ==
  ASSUME NEW k \in DOMAIN Sizes, NEW fields
  PROVE  /\ fields \in Seq(Seq(Byte)) /\ Len(fields) = Len(Sizes[k])
         /\ \A i \in DOMAIN fields : Len(fields[i]) = Sizes[k][i]
         /\ k = "ChangeBaud" => fields[1][1] \in {1, 2}
         => /\ FlattenSeq(fields) \in Seq(Byte)
            /\ Parsed(k, FlattenSeq(fields)) = Message(k, fields)
<1>0. SUFFICES ASSUME fields \in Seq(Seq(Byte)), Len(fields) = Len(Sizes[k]),
                      \A i \in DOMAIN fields : Len(fields[i]) = Sizes[k][i],
                      k = "ChangeBaud" => fields[1][1] \in {1, 2}
               PROVE  /\ FlattenSeq(fields) \in Seq(Byte)
                      /\ Parsed(k, FlattenSeq(fields)) = Message(k, fields)
  OBVIOUS
<1>. DEFINE w == FlattenSeq(fields)
            sizes == Sizes[k]
<1>1. DOMAIN fields = 1 .. Len(fields)
  BY <1>0
<1>2. w \in Seq(Byte) /\ Len(w) = Start(sizes, Len(sizes) + 1) /\ Cut(w, sizes) = fields
      /\ (k = "ChangeBaud" => w[1] \in {1, 2})
  <2>1. CASE \E n \in Nat : sizes = <<n>>
    <3>1. PICK n \in Nat : sizes = <<n>>
      BY <2>1
    <3>2. Len(fields) = 1 /\ sizes[1] = n
      BY <1>0, <3>1
    <3>3. PICK a \in Seq(Byte) : fields = <<a>> /\ a = fields[1]
      BY <1>0, <3>2, Pieces
    <3>4. Len(a) = n
      BY <1>0, <1>1, <3>2, <3>3
    <3>5. sizes = <<Len(a)>>
      BY <3>1, <3>4
    <3>6. k # "ChangeBaud"
      <4>1. Len(Sizes["ChangeBaud"]) = 2
        BY SizesAre
      <4>2. Len(sizes) # 2
        BY <3>1
      <4>. QED  BY <4>1, <4>2, Zenon
    <3>7. w = a /\ Len(w) = Start(sizes, Len(sizes) + 1) /\ Cut(w, sizes) = fields
      <4>1. FlattenSeq(<<a>>) = a /\ IsCut(<<a>>, <<Len(a)>>)
        BY CutOne, Zenon
      <4>2. w = a /\ IsCut(fields, sizes)
        BY <3>3, <3>5, <4>1, Zenon
      <4>. QED  BY <4>2, Zenon DEF IsCut
    <3>. QED  BY <3>6, <3>7, Zenon
  <2>2. CASE \E m, n \in Nat : sizes = <<m, n>>
    <3>1. PICK m \in Nat, n \in Nat : sizes = <<m, n>>
      BY <2>2
    <3>2. Len(fields) = 2 /\ sizes[1] = m /\ sizes[2] = n
      BY <1>0, <3>1
    <3>3. PICK a \in Seq(Byte), b \in Seq(Byte) :
            fields = <<a, b>> /\ a = fields[1] /\ b = fields[2]
      <4>1. fields[1] \in Seq(Byte) /\ fields[2] \in Seq(Byte)
            /\ fields = <<fields[1], fields[2]>>
        BY <1>0, <3>2, Pieces
      <4>. QED  BY <4>1, Zenon
    <3>4. Len(a) = m /\ Len(b) = n
      BY <1>0, <1>1, <3>2, <3>3
    <3>5. sizes = <<Len(a), Len(b)>>
      BY <3>1, <3>4, Zenon
    <3>6. w = a \o b /\ Len(w) = Start(sizes, Len(sizes) + 1) /\ Cut(w, sizes) = fields
      <4>1. FlattenSeq(<<a, b>>) = a \o b /\ IsCut(<<a, b>>, <<Len(a), Len(b)>>)
        BY CutTwo, Zenon
      <4>2. w = a \o b /\ IsCut(fields, sizes)
        BY <3>3, <3>5, <4>1, Zenon
      <4>. QED  BY <4>2, Zenon DEF IsCut
    <3>7. a \o b \in Seq(Byte)
      OBVIOUS
    <3>8. ASSUME k = "ChangeBaud" PROVE w[1] \in {1, 2}
      <4>1. sizes = <<1, 4>>
        BY <3>8, SizesAre
      <4>2. sizes[1] = 1
        BY <4>1
      <4>3. Len(a) = 1
        BY <3>2, <3>4, <4>2
      <4>4. (a \o b)[1] = a[1]
        <5>1. 1 \in 1 .. Len(a)
          BY <4>3
        <5>. QED  BY <5>1, ByteConcat, Zenon
      <4>5. a[1] \in {1, 2}
        BY <1>0, <3>3, <3>8
      <4>. QED  BY <3>6, <4>4, <4>5, Zenon
    <3>. QED  BY <3>6, <3>7, <3>8, Zenon
  <2>. QED  BY <2>1, <2>2, SizesAre
<1>3. k \notin Bare /\ k # "WritePage" /\ k # "SetAttr"
  BY SizesAre
<1>. HIDE DEF w
<1>4. Parsed(k, w) = Message(k, Cut(w, Sizes[k]))
  BY <1>2, <1>3 DEF Parsed
<1>5. Parsed(k, w) = Message(k, fields)
  BY <1>2, <1>4, Zenon
<1>. QED  BY <1>2, <1>5 DEF w

\* What the arguments of a command parse to is the command: no field is lost, none
\* runs into another, and no command that CommandEncoder::new accepts is refused
\* by handle_escape or makes it panic.
THEOREM CommandParsed ==
  ASSUME NEW c, IsCommand(c), Encodable(c)
  PROVE  Arguments(c) \in Seq(Byte) /\ Parsed(c.kind, Arguments(c)) = c
<1>1. PICK k, fields : k \in CommandKinds /\ k = c.kind /\ fields = c.fields
  BY DEF IsCommand
<1>2. c = Message(k, fields) /\ fields \in Seq(Seq(Byte))
  BY <1>1, Zenon DEF IsCommand
<1>3. DOMAIN Sizes = CommandKinds \ (Bare \cup {"WritePage", "SetAttr"})
  BY SizesAre
<1>4. CASE k \in Bare
  <2>1. fields = <<>>
    <3>1. c.kind \in Bare
      BY <1>1, <1>4
    <3>2. c.fields = <<>>
      BY <3>1 DEF IsCommand, Bare
    <3>. QED  BY <1>1, <3>2
  <2>2. k # "SetAttr"
    BY <1>4 DEF Bare
  <2>3. Arguments(c) = fields
    <3>1. Len(fields) = 0
      BY <2>1
    <3>2. FlattenSeq(fields) = fields
      BY <3>1, FlattenIs, Zenon
    <3>. QED  BY <1>1, <2>2, <3>2, Zenon DEF Arguments
  <2>4. Parsed(k, Arguments(c)) = Message(k, <<>>)
    BY <1>4 DEF Parsed, Bare
  <2>5. Arguments(c) \in Seq(Byte)
    BY <2>1, <2>3
  <2>. QED  BY <1>1, <1>2, <2>1, <2>4, <2>5, Zenon
<1>5. CASE k = "WritePage"
  <2>1. Len(fields) = 2 /\ Len(fields[1]) = 4
    BY <1>1, <1>5 DEF IsCommand, Bare
  <2>2. PICK a \in Seq(Byte), b \in Seq(Byte) : fields = <<a, b>> /\ a = fields[1]
    <3>1. fields[1] \in Seq(Byte) /\ fields[2] \in Seq(Byte)
          /\ fields = <<fields[1], fields[2]>>
      BY <1>2, <2>1, Pieces
    <3>. QED  BY <3>1, Zenon
  <2>3. FlattenSeq(<<a, b>>) = a \o b
    BY CutTwo
  <2>4. c.kind # "SetAttr"
    BY <1>1, <1>5
  <2>5. Arguments(c) = a \o b
    BY <1>1, <2>2, <2>3, <2>4, Zenon DEF Arguments
  <2>6. Len(a) = 4
    BY <2>1, <2>2, Zenon
  <2>7. Parsed("WritePage", a \o b) = Message("WritePage", <<a, b>>)
    BY <2>6, WritePageParsed, Zenon
  <2>8. a \o b \in Seq(Byte)
    BY ByteConcat, Zenon
  <2>. QED  BY <1>1, <1>2, <1>5, <2>2, <2>5, <2>7, <2>8, Zenon
<1>6. CASE k = "SetAttr"
  <2>1. Len(fields) = 3 /\ Len(fields[1]) = 1
    BY <1>1, <1>6 DEF IsCommand, Bare
  <2>2. Len(fields[2]) = KEY_LEN /\ Len(fields[3]) <= MAX_ATTR_LEN
    BY <1>1, <1>6 DEF Encodable
  <2>3. PICK a \in Seq(Byte), b \in Seq(Byte), v \in Seq(Byte) :
          fields = <<a, b, v>> /\ a = fields[1] /\ b = fields[2] /\ v = fields[3]
    <3>1. fields[1] \in Seq(Byte) /\ fields[2] \in Seq(Byte) /\ fields[3] \in Seq(Byte)
          /\ fields = <<fields[1], fields[2], fields[3]>>
      BY <1>2, <2>1, Pieces
    <3>. QED  BY <3>1, Zenon
  <2>4. Len(v) <= 255
    <3>1. Len(v) <= MAX_ATTR_LEN
      BY <2>2, <2>3, Zenon
    <3>. QED  BY <3>1, ProtocolAssumption
  <2>5. Len(a) = 1 /\ Len(b) = KEY_LEN
    BY <2>1, <2>2, <2>3, Zenon
  <2>6. Arguments(c) = a \o b \o <<Len(v)>> \o v
    <3>1. c.kind = "SetAttr"
      BY <1>1, <1>6
    <3>2. Arguments(c) = c.fields[1] \o c.fields[2] \o <<Len(c.fields[3])>> \o c.fields[3]
      BY <3>1, Zenon DEF Arguments
    <3>. QED  BY <1>1, <2>3, <3>2, Zenon
  <2>7. /\ a \o b \o <<Len(v)>> \o v \in Seq(Byte)
        /\ Parsed("SetAttr", a \o b \o <<Len(v)>> \o v) = Message("SetAttr", <<a, b, v>>)
    BY <2>4, <2>5, SetAttrParsed, Zenon
  <2>. QED  BY <1>1, <1>2, <1>6, <2>3, <2>6, <2>7, Zenon
<1>7. CASE k \in DOMAIN Sizes
  <2>1. k \notin Bare /\ k # "WritePage" /\ k # "SetAttr"
    BY <1>3, <1>7
  <2>2. DOMAIN fields = 1 .. Len(fields)
    BY <1>2
  <2>3. /\ Len(fields) = Len(Sizes[k])
        /\ \A i \in DOMAIN fields : Len(fields[i]) = Sizes[k][i]
    <3>1. CASE k = "WriteExPage"
      <4>1. Len(fields) = 2 /\ Len(fields[1]) = 4
        BY <1>1, <3>1 DEF IsCommand, Bare
      <4>2. Len(fields[2]) = EXT_PAGE_SIZE
        BY <1>1, <3>1 DEF Encodable
      <4>3. Sizes[k] = <<4, EXT_PAGE_SIZE>>
        BY <3>1, SizesAre
      <4>4. Len(Sizes[k]) = 2 /\ Sizes[k][1] = 4 /\ Sizes[k][2] = EXT_PAGE_SIZE
        BY <4>3
      <4>5. \A i \in 1 .. 2 : Len(fields[i]) = Sizes[k][i]
        <5>1. Len(fields[1]) = Sizes[k][1] /\ Len(fields[2]) = Sizes[k][2]
          BY <4>1, <4>2, <4>4, Zenon
        <5>2. \A i \in 1 .. 2 : i = 1 \/ i = 2
          OBVIOUS
        <5>. QED  BY <5>1, <5>2, Zenon
      <4>6. DOMAIN fields = 1 .. 2
        BY <2>2, <4>1
      <4>. QED  BY <4>1, <4>4, <4>5, <4>6, Zenon
    <3>2. CASE k # "WriteExPage"
      BY <1>1, <2>1, <3>2 DEF IsCommand
    <3>. QED  BY <3>1, <3>2
  <2>4. k = "ChangeBaud" => fields[1][1] \in {1, 2}
    BY <1>1, Zenon DEF IsCommand
  <2>5. /\ FlattenSeq(fields) \in Seq(Byte)
        /\ Parsed(k, FlattenSeq(fields)) = Message(k, fields)
    BY <1>2, <1>7, <2>3, <2>4, SizedParsed, Zenon
  <2>6. Arguments(c) = FlattenSeq(fields)
    BY <1>1, <2>1, Zenon DEF Arguments
  <2>. QED  BY <1>1, <1>2, <2>5, <2>6, Zenon
<1>. QED  BY <1>1, <1>3, <1>4, <1>5, <1>6, <1>7

-----------------------------------------------------------------------------
(* Responses.                                                              *)

LEMMA KindsOfResponses ==
  /\ ResponseKinds = {"Overflow", "Pong", "BadAddress", "InternalError", "BadArguments", "Ok",
                      "Unknown", "ExtFlashTimeout", "ExtFlashPageError", "CrcRxBuffer",
                      "ReadRange", "ExReadRange", "GetAttr", "CrcIntFlash", "CrcExtFlash",
                      "Info", "ChangeBaudFail"}
  /\ DOMAIN PayloadLen = {"CrcRxBuffer", "GetAttr", "CrcIntFlash", "CrcExtFlash", "Info"}
  BY DEF ResponseKinds, ResponseCode, PayloadLen

LEMMA ResponseCodes ==
  /\ \A k \in ResponseKinds : ResponseCode[k] \in 16 .. 38
  /\ \A k, l \in ResponseKinds : ResponseCode[k] = ResponseCode[l] => k = l
<1>1. ASSUME NEW k \in ResponseKinds PROVE ResponseCode[k] \in 16 .. 38
  BY KindsOfResponses DEF ResponseCode
<1>2. ASSUME NEW k \in ResponseKinds, NEW l \in ResponseKinds, ResponseCode[k] = ResponseCode[l]
      PROVE  k = l
  BY <1>2, KindsOfResponses DEF ResponseCode
<1>. QED  BY <1>1, <1>2

LEMMA ResponseOfCode ==
  ASSUME NEW k \in ResponseKinds
  PROVE  /\ IsCode(ResponseCode, ResponseCode[k])
         /\ KindOf(ResponseCode, ResponseCode[k]) = k
<1>1. \E l \in DOMAIN ResponseCode : ResponseCode[l] = ResponseCode[k]
  BY DEF ResponseKinds
<1>2. KindOf(ResponseCode, ResponseCode[k]) \in ResponseKinds
      /\ ResponseCode[KindOf(ResponseCode, ResponseCode[k])] = ResponseCode[k]
  BY <1>1 DEF KindOf, ResponseKinds
<1>. QED  BY <1>1, <1>2, ResponseCodes DEF IsCode

LEMMA PaddedIs ==
  \A s \in Seq(Byte), n \in Nat :
    /\ Padded(s, n) \in Seq(Byte) /\ Len(Padded(s, n)) = n
    /\ \A i \in 1 .. n : i <= Len(s) => Padded(s, n)[i] = s[i]
<1>. SUFFICES ASSUME NEW s \in Seq(Byte), NEW n \in Nat
              PROVE  /\ Padded(s, n) \in Seq(Byte) /\ Len(Padded(s, n)) = n
                     /\ \A i \in 1 .. n : i <= Len(s) => Padded(s, n)[i] = s[i]
  OBVIOUS
<1>1. 0 \in Byte
  BY DEF Byte
<1>2. \A i \in 1 .. n : (IF i <= Len(s) THEN s[i] ELSE 0) \in Byte
  BY <1>1
<1>. QED  BY <1>2 DEF Padded

HasParts(w, a, b) ==
  /\ w \in Seq(Byte) /\ Len(w) = Len(a) + Len(b)
  /\ \A i \in 1 .. Len(a) : w[i] = a[i]
  /\ \A i \in 1 .. Len(b) : w[Len(a) + i] = b[i]

LEMMA Parts ==
  \A a, b \in Seq(Byte) : \A w : w = a \o b => HasParts(w, a, b)
<1>1. \A a, b \in Seq(Byte) : HasParts(a \o b, a, b)
  BY ByteConcat, Zenon DEF HasParts
<1>. QED  BY <1>1, Zenon

\* A buffer that holds the code of a response and its payload.
HasCode(w, code, p) ==
  /\ w \in Seq(Byte) /\ Len(w) = 1 + Len(p) /\ w[1] = code
  /\ \A i \in 1 .. Len(p) : w[1 + i] = p[i]

LEMMA CodeAndPayload ==
  ASSUME NEW code \in Byte, NEW p \in Seq(Byte)
  PROVE  HasCode(<<code>> \o p, code, p) /\ Tail(<<code>> \o p) = p
<1>1. PICK u : u = <<code>>
  OBVIOUS
<1>2. u \in Seq(Byte) /\ Len(u) = 1 /\ u[1] = code
  BY <1>1
<1>3. PICK w : w = u \o p
  OBVIOUS
<1>4. HasParts(w, u, p)
  BY <1>2, <1>3, Parts, Zenon
<1>5. w \in Seq(Byte) /\ Len(w) = 1 + Len(p)
  BY <1>2, <1>4 DEF HasParts
<1>6. w[1] = u[1] /\ \A i \in 1 .. Len(p) : w[1 + i] = p[i]
  BY <1>2, <1>4 DEF HasParts
<1>7. PICK t : t = Tail(w)
  OBVIOUS
<1>8. /\ t \in Seq(Byte) /\ Len(t) = Len(p)
      /\ \A i \in 1 .. Len(p) : t[i] = w[i + 1]
  <2>1. w # <<>>
    BY <1>5
  <2>. QED  BY <1>5, <1>7, <2>1
<1>9. \A i \in 1 .. Len(p) : t[i] = p[i]
  <2>1. \A i \in 1 .. Len(p) : i + 1 = 1 + i
    OBVIOUS
  <2>. QED  BY <1>6, <1>8, <2>1
<1>10. t = p
  BY <1>8, <1>9
<1>. QED  BY <1>1, <1>2, <1>3, <1>5, <1>6, <1>7, <1>10, Zenon DEF HasCode

\* A string of three pieces, of which the second is a byte.
HasThreePieces(p, a, l, v) ==
  /\ p \in Seq(Byte) /\ Len(p) = Len(a) + 1 + Len(v)
  /\ \A i \in 1 .. Len(a) : p[i] = a[i]
  /\ p[Len(a) + 1] = l
  /\ \A i \in 1 .. Len(v) : p[Len(a) + 1 + i] = v[i]

LEMMA ThreePieces ==
  ASSUME NEW a \in Seq(Byte), NEW l \in Byte, NEW v \in Seq(Byte)
  PROVE  HasThreePieces(a \o <<l>> \o v, a, l, v)
<1>1. PICK u : u = <<l>>
  OBVIOUS
<1>2. u \in Seq(Byte) /\ Len(u) = 1 /\ u[1] = l
  BY <1>1
<1>3. PICK au : au = a \o u
  OBVIOUS
<1>4. /\ au \in Seq(Byte) /\ Len(au) = Len(a) + 1
      /\ \A i \in 1 .. Len(a) : au[i] = a[i]
      /\ au[Len(a) + 1] = u[1]
  <2>1. HasParts(au, a, u)
    BY <1>2, <1>3, Parts, Zenon
  <2>. QED  BY <1>2, <2>1 DEF HasParts
<1>5. PICK p : p = au \o v
  OBVIOUS
<1>6. /\ p \in Seq(Byte) /\ Len(p) = Len(au) + Len(v)
      /\ \A i \in 1 .. Len(au) : p[i] = au[i]
      /\ \A i \in 1 .. Len(v) : p[Len(au) + i] = v[i]
  <2>1. HasParts(p, au, v)
    BY <1>4, <1>5, Parts, Zenon
  <2>. QED  BY <2>1 DEF HasParts
<1>7. PICK m \in Nat : m = Len(a)
  OBVIOUS
<1>8. Len(au) = m + 1
  BY <1>4, <1>7
<1>9. HasThreePieces(p, a, l, v)
  BY <1>2, <1>4, <1>6, <1>7, <1>8 DEF HasThreePieces
<1>. QED  BY <1>1, <1>3, <1>5, <1>9, Zenon

\* What ParsedResponse does, by the kind that the code is of.
LEMMA ParsedByKind ==
  ASSUME NEW k \in DOMAIN PayloadLen \cup Unbounded, NEW w, w[1] = ResponseCode[k]
  PROVE  LET n    == Len(w)
             head == 2 + KEY_LEN
         IN  /\ k \in Unbounded => ParsedResponse(w) = Message(k, <<Tail(w)>>)
             /\ k = "GetAttr" /\ ~(n < head \/ head - 1 + w[head] > n) =>
                  ParsedResponse(w)
                    = Message(k, <<SubSeq(w, 2, head - 1),
                                   SubSeq(Padded(w, n + 1), head + 1, head + w[head])>>)
             /\ k = "Info" /\ ~(n < 2 \/ w[2] + 1 >= n) =>
                  ParsedResponse(w) = Message(k, <<SubSeq(w, 3, w[2] + 2)>>)
             /\ k = "CrcRxBuffer" =>
                  ParsedResponse(w) = Message(k, Cut(Padded(Tail(w), 6), <<2, 4>>))
             /\ k \in {"CrcIntFlash", "CrcExtFlash"} =>
                  ParsedResponse(w) = Message(k, <<Padded(Tail(w), 4)>>)
<1>1. k \in ResponseKinds
  BY KindsOfResponses DEF Unbounded
<1>2. IsCode(ResponseCode, w[1]) /\ KindOf(ResponseCode, w[1]) = k
  BY <1>1, ResponseOfCode
<1>3. k \in DOMAIN PayloadLen \cup Unbounded
  OBVIOUS
<1>. QED  BY <1>2, <1>3 DEF ParsedResponse, Unbounded

LEMMA GetAttrAnswered ==
  ASSUME NEW a \in Seq(Byte), NEW b \in Seq(Byte), NEW K \in Nat, K = KEY_LEN, Len(a) = K,
         NEW l \in Nat, l = Len(b), NEW M \in Nat, M = MAX_ATTR_LEN, l <= M, l \in Byte,
         NEW p, HasThreePieces(p, a, l, Padded(b, M)),
         NEW w, HasCode(w, ResponseCode["GetAttr"], p)
  PROVE  /\ Len(p) = 1 + K + M
         /\ ParsedResponse(w) = Message("GetAttr", <<a, b>>)
<1>1. PICK v \in Seq(Byte) : v = Padded(b, M)
  BY PaddedIs, Zenon
<1>2. Len(v) = M /\ \A i \in 1 .. M : i <= l => v[i] = b[i]
  BY <1>1, PaddedIs
<1>3. /\ p \in Seq(Byte) /\ Len(p) = K + 1 + M
      /\ \A i \in 1 .. K : p[i] = a[i]
      /\ p[K + 1] = l
      /\ \A i \in 1 .. M : p[K + 1 + i] = v[i]
  BY <1>1, <1>2 DEF HasThreePieces
<1>4. w \in Seq(Byte) /\ Len(w) = 1 + Len(p) /\ \A i \in 1 .. Len(p) : w[1 + i] = p[i]
  BY DEF HasCode
<1>5. PICK head \in Nat : head = 2 + K
  OBVIOUS
<1>6. PICK n \in Nat : n = Len(w)
  BY <1>4
<1>7. n = head + M
  BY <1>3, <1>4, <1>5, <1>6
<1>8. /\ \A i \in 1 .. K : w[1 + i] = a[i]
      /\ w[head] = l
      /\ \A i \in 1 .. M : w[head + i] = v[i]
  <2>1. ASSUME NEW i \in 1 .. K PROVE w[1 + i] = a[i]
    BY <1>3, <1>4
  <2>2. w[head] = l
    <3>1. w[1 + (K + 1)] = p[K + 1]
      BY <1>3, <1>4
    <3>. QED  BY <1>3, <1>5, <3>1
  <2>3. ASSUME NEW i \in 1 .. M PROVE w[head + i] = v[i]
    <3>1. w[1 + (K + 1 + i)] = p[K + 1 + i]
      BY <1>3, <1>4
    <3>2. 1 + (K + 1 + i) = head + i
      BY <1>5
    <3>. QED  BY <1>3, <3>1, <3>2
  <2>. QED  BY <2>1, <2>2, <2>3
<1>9. SubSeq(w, 1 + 1, 1 + Len(a)) = a
  <2>1. 1 + Len(a) <= Len(w) /\ \A i \in 1 .. Len(a) : w[1 + i] = a[i]
    BY <1>5, <1>6, <1>7, <1>8
  <2>. QED  BY <1>4, <2>1, SubSeqIs
<1>10. PICK q \in Seq(Byte) : q = Padded(w, n + 1)
  <2>1. n + 1 \in Nat
    OBVIOUS
  <2>. QED  BY <1>4, <2>1, PaddedIs, Zenon
<1>11. Len(q) = n + 1 /\ \A i \in 1 .. n : q[i] = w[i]
  <2>1. n + 1 \in Nat
    OBVIOUS
  <2>2. Len(q) = n + 1 /\ \A i \in 1 .. n + 1 : i <= Len(w) => q[i] = w[i]
    BY <1>4, <1>10, <2>1, PaddedIs, Zenon
  <2>. QED  BY <1>6, <2>2
<1>12. SubSeq(q, head + 1, head + Len(b)) = b
  <2>1. head + Len(b) <= Len(q)
    BY <1>7, <1>11
  <2>2. \A i \in 1 .. Len(b) : q[head + i] = b[i]
    <3>. SUFFICES ASSUME NEW i \in 1 .. l PROVE q[head + i] = b[i]
      OBVIOUS
    <3>1. head + i \in 1 .. n /\ i \in 1 .. M /\ i <= l
      BY <1>7
    <3>. QED  BY <1>2, <1>8, <1>11, <3>1
  <2>. QED  BY <2>1, <2>2, SubSeqIs
<1>13. ~(n < head \/ head - 1 + w[head] > n)
  BY <1>7, <1>8
<1>14. ParsedResponse(w)
         = Message("GetAttr", <<SubSeq(w, 2, head - 1),
                                SubSeq(Padded(w, n + 1), head + 1, head + w[head])>>)
  <2>1. "GetAttr" \in DOMAIN PayloadLen \cup Unbounded /\ w[1] = ResponseCode["GetAttr"]
    BY KindsOfResponses DEF HasCode
  <2>2. 2 + KEY_LEN = head
    BY <1>5
  <2>. QED  BY <1>6, <1>13, <2>1, <2>2, ParsedByKind, Zenon
<1>15. head - 1 = 1 + Len(a) /\ 1 + 1 = 2 /\ head + w[head] = head + Len(b)
  BY <1>5, <1>8
<1>16. ParsedResponse(w) = Message("GetAttr", <<a, b>>)
  BY <1>9, <1>10, <1>12, <1>14, <1>15, Zenon
<1>. QED  BY <1>3, <1>16

LEMMA InfoAnswered ==
  ASSUME NEW b \in Seq(Byte), NEW l \in Nat, l = Len(b), NEW M \in Nat, l <= M,
         NEW p, HasCode(p, l, Padded(b, M)),
         NEW w, HasCode(w, ResponseCode["Info"], p)
  PROVE  Len(p) = 1 + M /\ ParsedResponse(w) = Message("Info", <<b>>)
<1>1. PICK v \in Seq(Byte) : v = Padded(b, M)
  BY PaddedIs, Zenon
<1>2. Len(v) = M /\ \A i \in 1 .. M : i <= l => v[i] = b[i]
  BY <1>1, PaddedIs
<1>3. /\ p \in Seq(Byte) /\ Len(p) = 1 + M
      /\ p[1] = l
      /\ \A i \in 1 .. M : p[1 + i] = v[i]
  BY <1>1, <1>2 DEF HasCode
<1>4. w \in Seq(Byte) /\ Len(w) = 1 + Len(p) /\ \A i \in 1 .. Len(p) : w[1 + i] = p[i]
  BY DEF HasCode
<1>5. PICK n \in Nat : n = Len(w)
  BY <1>4
<1>6. n = 2 + M
  BY <1>3, <1>4, <1>5
<1>7. w[2] = l
  <2>1. w[1 + 1] = p[1]
    BY <1>3, <1>4
  <2>. QED  BY <1>3, <2>1
<1>8. \A i \in 1 .. Len(b) : w[2 + i] = b[i]
  <2>. SUFFICES ASSUME NEW i \in 1 .. l PROVE w[2 + i] = b[i]
    OBVIOUS
  <2>1. i \in 1 .. M /\ i <= l /\ 1 + i \in 1 .. 1 + M /\ 1 + (1 + i) = 2 + i
    OBVIOUS
  <2>2. w[1 + (1 + i)] = p[1 + i]
    BY <1>3, <1>4, <2>1
  <2>. QED  BY <1>2, <1>3, <2>1, <2>2
<1>9. SubSeq(w, 2 + 1, 2 + Len(b)) = b
  <2>1. 2 + Len(b) <= Len(w)
    BY <1>5, <1>6
  <2>. QED  BY <1>4, <1>8, <2>1, SubSeqIs
<1>10. ~(n < 2 \/ w[2] + 1 >= n)
  BY <1>6, <1>7
<1>11. ParsedResponse(w) = Message("Info", <<SubSeq(w, 3, w[2] + 2)>>)
  <2>1. "Info" \in DOMAIN PayloadLen \cup Unbounded /\ w[1] = ResponseCode["Info"]
    BY KindsOfResponses DEF HasCode
  <2>. QED  BY <1>5, <1>10, <2>1, ParsedByKind, Zenon
<1>12. w[2] + 2 = 2 + Len(b) /\ 2 + 1 = 3
  BY <1>7
<1>. QED  BY <1>3, <1>9, <1>11, <1>12, Zenon

LEMMA PaddedWhole ==
  ASSUME NEW s \in Seq(Byte)
  PROVE  Padded(s, Len(s)) = s
<1>1. PICK t \in Seq(Byte) : t = Padded(s, Len(s))
  BY PaddedIs
<1>2. Len(t) = Len(s) /\ \A i \in 1 .. Len(s) : t[i] = s[i]
  BY <1>1, PaddedIs
<1>3. t = s
  BY <1>2
<1>. QED  BY <1>1, <1>3

\* What a response of a kind is made of.
LEMMA FieldsOfResponse ==
  ASSUME NEW r, IsResponse(r)
  PROVE  /\ r = Message(r.kind, r.fields)
         /\ r.kind \in ResponseKinds /\ r.fields \in Seq(Seq(Byte))
         /\ r.kind \in Unbounded => Len(r.fields) = 1
         /\ r.kind = "GetAttr" => /\ Len(r.fields) = 2
                                  /\ Len(r.fields[1]) = KEY_LEN
                                  /\ Len(r.fields[2]) <= MAX_ATTR_LEN
         /\ r.kind = "Info" => Len(r.fields) = 1 /\ Len(r.fields[1]) <= MAX_INFO_LEN
         /\ r.kind = "CrcRxBuffer" => /\ Len(r.fields) = 2
                                      /\ Len(r.fields[1]) = 2 /\ Len(r.fields[2]) = 4
         /\ r.kind \in {"CrcIntFlash", "CrcExtFlash"} =>
              Len(r.fields) = 1 /\ Len(r.fields[1]) = 4
         /\ r.kind \notin DOMAIN PayloadLen \cup Unbounded => r.fields = <<>>
<1>1. PICK k \in ResponseKinds : k = r.kind
  BY DEF IsResponse
<1>. QED  BY <1>1, KindsOfResponses DEF IsResponse, Unbounded

\* The payloads of the responses with a checksum.
LEMMA CrcsAnswered ==
  ASSUME NEW k \in ResponseKinds, NEW fields \in Seq(Seq(Byte)),
         \/ k = "CrcRxBuffer" /\ Len(fields) = 2 /\ Len(fields[1]) = 2 /\ Len(fields[2]) = 4
         \/ k \in {"CrcIntFlash", "CrcExtFlash"} /\ Len(fields) = 1 /\ Len(fields[1]) = 4
  PROVE  LET p == FlattenSeq(fields)
         IN  /\ p \in Seq(Byte) /\ Len(p) = PayloadLen[k]
             /\ \A w : w[1] = ResponseCode[k] /\ Tail(w) = p =>
                  ParsedResponse(w) = Message(k, fields)
<1>. DEFINE p == FlattenSeq(fields)
<1>1. k \in DOMAIN PayloadLen \cup Unbounded
  BY KindsOfResponses
<1>2. CASE k = "CrcRxBuffer" /\ Len(fields) = 2 /\ Len(fields[1]) = 2 /\ Len(fields[2]) = 4
  <2>1. PICK a \in Seq(Byte), b \in Seq(Byte) :
          a = fields[1] /\ b = fields[2] /\ fields = <<a, b>>
    <3>1. Len(fields) = 2
      BY <1>2
    <3>2. 1 \in 1 .. Len(fields) /\ 2 \in 1 .. Len(fields)
      BY <3>1
    <3>. QED  BY <3>1, <3>2, Pieces, Zenon
  <2>2. Len(a) = 2 /\ Len(b) = 4
    BY <1>2, <2>1
  <2>3. p = a \o b /\ IsCut(fields, <<2, 4>>)
    BY <2>1, <2>2, CutTwo, Zenon
  <2>4. PICK q : q = a \o b
    OBVIOUS
  <2>5. q \in Seq(Byte) /\ Len(q) = Len(a) + Len(b)
    BY <2>4, ByteConcat, Zenon
  <2>6. Padded(q, 6) = q
    <3>1. Len(q) = 6
      BY <2>2, <2>5
    <3>. QED  BY <2>5, <3>1, PaddedWhole, Zenon
  <2>7. Cut(p, <<2, 4>>) = fields
    BY <2>3, Zenon DEF IsCut
  <2>8. PayloadLen[k] = 6
    BY <1>2 DEF PayloadLen
  <2>9. ASSUME NEW w, w[1] = ResponseCode[k], Tail(w) = p
        PROVE  ParsedResponse(w) = Message(k, fields)
    <3>1. ParsedResponse(w) = Message(k, Cut(Padded(Tail(w), 6), <<2, 4>>))
      BY <1>1, <1>2, <2>9, ParsedByKind
    <3>. QED  BY <2>3, <2>4, <2>6, <2>7, <2>9, <3>1, Zenon
  <2>10. Len(q) = 6
    BY <2>2, <2>5
  <2>. QED  BY <2>3, <2>4, <2>5, <2>8, <2>9, <2>10, Zenon
<1>3. CASE k \in {"CrcIntFlash", "CrcExtFlash"} /\ Len(fields) = 1 /\ Len(fields[1]) = 4
  <2>1. PICK a \in Seq(Byte) : a = fields[1] /\ fields = <<a>>
    BY <1>3, Pieces
  <2>2. p = a /\ Len(a) = 4
    BY <1>3, <2>1, CutOne, Zenon
  <2>3. PayloadLen[k] = 4
    BY <1>3 DEF PayloadLen
  <2>4. Padded(a, 4) = a
    BY <2>2, PaddedWhole, Zenon
  <2>5. ASSUME NEW w, w[1] = ResponseCode[k], Tail(w) = p
        PROVE  ParsedResponse(w) = Message(k, fields)
    <3>1. ParsedResponse(w) = Message(k, <<Padded(Tail(w), 4)>>)
      BY <1>1, <1>3, <2>5, ParsedByKind
    <3>. QED  BY <2>1, <2>2, <2>4, <2>5, <3>1, Zenon
  <2>. QED  BY <2>2, <2>3, <2>5, Zenon
<1>. QED  BY <1>2, <1>3

\* Of the response that a decoder makes of the payload of any response, and its code,
\* nothing is different from what the encoder was given (ResponseEncoder, and
\* load_char and the parsing that it does once it has all the bytes).
THEOREM ResponseParsed ==
  ASSUME NEW r, IsResponse(r)
  PROVE  /\ Payload(r) \in Seq(Byte)
         /\ r.kind \in DOMAIN PayloadLen => Len(Payload(r)) = PayloadLen[r.kind]
         /\ r.kind \in DOMAIN PayloadLen \cup Unbounded =>
              ParsedResponse(<<ResponseCode[r.kind]>> \o Payload(r)) = r
         /\ r.kind \notin DOMAIN PayloadLen \cup Unbounded =>
              Payload(r) = <<>> /\ r = Message(r.kind, <<>>)
<1>. DEFINE p == Payload(r)
<1>0. PICK k \in ResponseKinds, fields \in Seq(Seq(Byte)) :
        k = r.kind /\ fields = r.fields /\ r = Message(k, fields)
  BY FieldsOfResponse
<1>1. ResponseCode[k] \in Byte
  BY ResponseCodes DEF Byte
<1>2. ASSUME p \in Seq(Byte)
      PROVE  LET w == <<ResponseCode[k]>> \o p
             IN  HasCode(w, ResponseCode[k], p) /\ Tail(w) = p /\ w[1] = ResponseCode[k]
  BY <1>1, <1>2, CodeAndPayload, Zenon DEF HasCode
<1>3. CASE k \in Unbounded
  <2>1. k \notin DOMAIN PayloadLen /\ k # "GetAttr" /\ k # "Info"
    BY <1>3, KindsOfResponses DEF Unbounded
  <2>2. PICK a \in Seq(Byte) : a = fields[1] /\ fields = <<a>>
    BY <1>0, <1>3, FieldsOfResponse, Pieces
  <2>3. p = a
    <3>1. p = FlattenSeq(fields)
      BY <1>0, <2>1, Zenon DEF Payload
    <3>. QED  BY <2>2, <3>1, CutOne, Zenon
  <2>4. PICK w : w = <<ResponseCode[k]>> \o p
    OBVIOUS
  <2>5. ParsedResponse(w) = Message(k, <<Tail(w)>>)
    BY <1>2, <1>3, <2>3, <2>4, ParsedByKind, Zenon
  <2>6. Tail(w) = a
    BY <1>2, <2>3, <2>4, Zenon
  <2>. HIDE DEF p
  <2>7. ParsedResponse(w) = r
    BY <1>0, <2>2, <2>5, <2>6, Zenon
  <2>. QED  BY <1>0, <1>3, <2>1, <2>3, <2>4, <2>7, Zenon DEF p
<1>4. CASE k = "GetAttr"
  <2>1. PICK a \in Seq(Byte), b \in Seq(Byte) :
          a = fields[1] /\ b = fields[2] /\ fields = <<a, b>>
    BY <1>0, <1>4, FieldsOfResponse, Pieces
  <2>2. PICK K \in Nat, M \in Nat, l \in Nat :
          K = KEY_LEN /\ M = MAX_ATTR_LEN /\ l = Len(b)
    BY ProtocolAssumption
  <2>3. Len(a) = K /\ l <= M /\ l \in Byte
    <3>1. Len(a) = K /\ l <= M
      BY <1>0, <1>4, <2>1, <2>2, FieldsOfResponse
    <3>2. M <= 255
      BY <2>2, ProtocolAssumption
    <3>. QED  BY <3>1, <3>2 DEF Byte
  <2>4. PICK v \in Seq(Byte) : v = Padded(b, M)
    BY <2>2, PaddedIs, Zenon
  <2>5. p = a \o <<l>> \o v
    BY <1>0, <1>4, <2>1, <2>2, <2>4, Zenon DEF Payload
  <2>6. HasThreePieces(p, a, l, Padded(b, M))
    BY <2>3, <2>4, <2>5, ThreePieces, Zenon
  <2>7. p \in Seq(Byte)
    BY <2>6 DEF HasThreePieces
  <2>. HIDE DEF p
  <2>8. PICK w : w = <<ResponseCode[k]>> \o p
    OBVIOUS
  <2>9. HasCode(w, ResponseCode["GetAttr"], p)
    BY <1>2, <1>4, <2>7, <2>8, Zenon
  <2>10. Len(p) = 1 + K + M /\ ParsedResponse(w) = Message("GetAttr", <<a, b>>)
    BY <2>2, <2>3, <2>6, <2>9, GetAttrAnswered
  <2>11. PayloadLen[k] = 1 + K + M /\ k \in DOMAIN PayloadLen
    BY <1>4, <2>2 DEF PayloadLen
  <2>. QED  BY <1>0, <1>4, <2>1, <2>7, <2>8, <2>10, <2>11, Zenon DEF p
<1>5. CASE k = "Info"
  <2>1. PICK b \in Seq(Byte) : b = fields[1] /\ fields = <<b>>
    BY <1>0, <1>5, FieldsOfResponse, Pieces
  <2>2. PICK M \in Nat, l \in Nat : M = MAX_INFO_LEN /\ l = Len(b)
    BY ProtocolAssumption
  <2>3. l <= M /\ l \in Byte
    <3>1. l <= M
      BY <1>0, <1>5, <2>1, <2>2, FieldsOfResponse
    <3>2. M <= 255
      BY <2>2, ProtocolAssumption
    <3>. QED  BY <3>1, <3>2 DEF Byte
  <2>4. PICK v \in Seq(Byte) : v = Padded(b, M)
    BY <2>2, PaddedIs, Zenon
  <2>5. p = <<l>> \o v
    BY <1>0, <1>5, <2>1, <2>2, <2>4, Zenon DEF Payload
  <2>6. HasCode(p, l, Padded(b, M))
    BY <2>3, <2>4, <2>5, CodeAndPayload, Zenon
  <2>7. p \in Seq(Byte)
    BY <2>6 DEF HasCode
  <2>. HIDE DEF p
  <2>8. PICK w : w = <<ResponseCode[k]>> \o p
    OBVIOUS
  <2>9. HasCode(w, ResponseCode["Info"], p)
    BY <1>2, <1>5, <2>7, <2>8, Zenon
  <2>10. Len(p) = 1 + M /\ ParsedResponse(w) = Message("Info", <<b>>)
    BY <2>2, <2>3, <2>6, <2>9, InfoAnswered
  <2>11. PayloadLen[k] = 1 + M /\ k \in DOMAIN PayloadLen
    BY <1>5, <2>2 DEF PayloadLen
  <2>. QED  BY <1>0, <1>5, <2>1, <2>7, <2>8, <2>10, <2>11, Zenon DEF p
<1>6. CASE k \in {"CrcRxBuffer", "CrcIntFlash", "CrcExtFlash"}
  <2>1. k # "GetAttr" /\ k # "Info" /\ k \in DOMAIN PayloadLen
    BY <1>6, KindsOfResponses
  <2>2. p = FlattenSeq(fields)
    BY <1>0, <2>1, Zenon DEF Payload
  <2>3. \/ k = "CrcRxBuffer" /\ Len(fields) = 2 /\ Len(fields[1]) = 2 /\ Len(fields[2]) = 4
        \/ k \in {"CrcIntFlash", "CrcExtFlash"} /\ Len(fields) = 1 /\ Len(fields[1]) = 4
    BY <1>0, <1>6, FieldsOfResponse
  <2>4. /\ p \in Seq(Byte) /\ Len(p) = PayloadLen[k]
        /\ \A w : w[1] = ResponseCode[k] /\ Tail(w) = p => ParsedResponse(w) = r
    BY <1>0, <2>2, <2>3, CrcsAnswered, Zenon
  <2>. HIDE DEF p
  <2>5. PICK w : w = <<ResponseCode[k]>> \o p
    OBVIOUS
  <2>6. ParsedResponse(w) = r
    BY <1>2, <2>4, <2>5, Zenon
  <2>. QED  BY <1>0, <2>1, <2>4, <2>5, <2>6, Zenon DEF p
<1>7. CASE k \notin DOMAIN PayloadLen \cup Unbounded
  <2>1. k # "GetAttr" /\ k # "Info" /\ k \notin DOMAIN PayloadLen /\ fields = <<>>
    BY <1>0, <1>7, KindsOfResponses, FieldsOfResponse
  <2>2. FlattenSeq(fields) = <<>>
    <3>1. Len(fields) = 0
      BY <2>1
    <3>. QED  BY <2>1, <3>1, FlattenIs, Zenon
  <2>3. p = <<>> /\ p \in Seq(Byte)
    <3>1. p = FlattenSeq(fields)
      BY <1>0, <2>1, Zenon DEF Payload
    <3>2. <<>> \in Seq(Byte)
      OBVIOUS
    <3>. QED  BY <2>2, <3>1, <3>2, Zenon
  <2>. QED  BY <1>0, <1>7, <2>1, <2>3, Zenon
<1>. QED  BY <1>3, <1>4, <1>5, <1>6, <1>7, KindsOfResponses

-----------------------------------------------------------------------------
(* A response decoder that follows an encoder.                             *)

REncoding(e, p) ==
  /\ e \in Encoders /\ e.count <= Len(p) + 2
  /\ e.sent_escape => /\ 2 <= e.count /\ e.count < Len(p) + 2
                      /\ p[e.count - 1] = ESCAPE_CHAR

LEMMA HeaderIsRendered ==
  ASSUME NEW r, NEW e \in Encoders, e.count < 2, ~e.sent_escape
  PROVE  LET next == NextOfResponse(e, r)
         IN  /\ next[1] \in Encoders
             /\ next[1].count = e.count + 1 /\ ~next[1].sent_escape
             /\ next[2] = IF e.count = 0 THEN ESCAPE_CHAR ELSE ResponseCode[r.kind]
<1>. DEFINE more == [e EXCEPT !.count = @ + 1]
            next == NextOfResponse(e, r)
            code == ResponseCode[r.kind]
<1>. HIDE DEF code
<1>1. next = RenderCode(e, e.count, code)
  BY DEF NextOfResponse, code
<1>2. RenderCode(e, e.count, code) = <<more, IF e.count = 0 THEN ESCAPE_CHAR ELSE code>>
  BY DEF RenderCode
<1>3. more \in Encoders /\ more.count = e.count + 1 /\ ~more.sent_escape
  BY DEF Encoders
<1>. HIDE DEF more
<1>4. next[1] = more /\ next[2] = IF e.count = 0 THEN ESCAPE_CHAR ELSE code
  BY <1>1, <1>2
<1>. QED  BY <1>3, <1>4 DEF code

LEMMA PayloadIsRendered ==
  ASSUME NEW r, NEW p, p = Payload(r), NEW e \in Encoders, 2 <= e.count
  PROVE  LET next == NextOfResponse(e, r)
             byte == p[e.count - 1]
         IN  /\ next[1] \in Encoders /\ next[2] = byte
             /\ byte = ESCAPE_CHAR /\ ~e.sent_escape =>
                  next[1].count = e.count /\ next[1].sent_escape
             /\ ~(byte = ESCAPE_CHAR /\ ~e.sent_escape) =>
                  next[1].count = e.count + 1 /\ ~next[1].sent_escape
<1>. DEFINE next == NextOfResponse(e, r)
            byte == p[e.count - 1]
<1>. DEFINE less == [e EXCEPT !.count = @ - 2]
<1>0. less \in Encoders
  BY DEF Encoders
<1>1. PICK d \in Encoders : d = less
  BY <1>0, Zenon
<1>2. /\ d.count = e.count - 2 /\ (d.sent_escape <=> e.sent_escape)
      /\ d.count + 1 = e.count - 1
  BY <1>1 DEF Encoders
<1>3. PICK step : step = Render(d, p)
  OBVIOUS
<1>4. next = <<[step[1] EXCEPT !.count = @ + 2], step[2]>>
  <2>1. ~(e.count < 2)
    BY DEF Encoders
  <2>. QED  BY <1>1, <1>3, <2>1, Zenon DEF NextOfResponse
<1>5. /\ step[1] \in Encoders /\ step[2] = byte
      /\ byte = ESCAPE_CHAR /\ ~e.sent_escape =>
           step[1].count = d.count /\ step[1].sent_escape
      /\ ~(byte = ESCAPE_CHAR /\ ~e.sent_escape) =>
           step[1].count = d.count + 1 /\ ~step[1].sent_escape
  <2>. DEFINE half == [d EXCEPT !.sent_escape = TRUE]
              done == [count |-> d.count + 1, sent_escape |-> FALSE]
  <2>1. /\ half \in Encoders /\ half.count = d.count /\ half.sent_escape
        /\ done \in Encoders /\ done.count = d.count + 1 /\ ~done.sent_escape
    <3>1. d.count \in Nat /\ d.count + 1 \in Nat
      BY DEF Encoders
    <3>2. half \in Encoders /\ half.count = d.count /\ half.sent_escape
      BY DEF Encoders
    <3>3. done \in Encoders /\ done.count = d.count + 1 /\ ~done.sent_escape
      BY <3>1 DEF Encoders
    <3>. QED  BY <3>2, <3>3
  <2>2. p[d.count + 1] = byte
    BY <1>2, Zenon
  <2>3. step = IF byte = ESCAPE_CHAR /\ ~e.sent_escape THEN <<half, byte>> ELSE <<done, byte>>
    BY <1>2, <1>3, <2>2, Zenon DEF Render
  <2>. HIDE DEF half, done, byte
  <2>. QED  BY <2>1, <2>3
<1>6. PICK f \in Encoders : f = step[1]
  BY <1>5
<1>. DEFINE more == [f EXCEPT !.count = @ + 2]
<1>7. PICK g \in Encoders : g = more
  <2>1. more \in Encoders
    BY DEF Encoders
  <2>. QED  BY <2>1, Zenon
<1>8. g.count = f.count + 2 /\ (g.sent_escape <=> f.sent_escape)
  BY <1>7 DEF Encoders
<1>9. next[1] = g /\ next[2] = step[2]
  BY <1>4, <1>6, <1>7
<1>10. e.count \in Nat
  BY DEF Encoders
<1>11. /\ f.count = d.count => g.count = e.count
       /\ f.count = d.count + 1 => g.count = e.count + 1
  BY <1>2, <1>8, <1>10
<1>. HIDE DEF next, byte
<1>12. /\ byte = ESCAPE_CHAR /\ ~e.sent_escape => g.count = e.count /\ g.sent_escape
       /\ ~(byte = ESCAPE_CHAR /\ ~e.sent_escape) => g.count = e.count + 1 /\ ~g.sent_escape
  BY <1>5, <1>6, <1>8, <1>11, Zenon
<1>. QED  BY <1>5, <1>9, <1>12, Zenon DEF next, byte

LEMMA NoResponseIsEscape == ~IsCode(ResponseCode, ESCAPE_CHAR)
<1>1. \A k \in DOMAIN ResponseCode : ResponseCode[k] # ESCAPE_CHAR
  BY ResponseCodes DEF ResponseKinds, ESCAPE_CHAR
<1>. QED  BY <1>1 DEF IsCode

RDecoder(s, b, m) == [state |-> s, buffer |-> b, needed |-> m]

\* The decoder of a response, of which w is the code and the payload, that has been
\* given what the encoder has rendered, all but the last byte.  The payload is of n bytes,
\* and the decoder may know that before the code comes.
RFollowing(e, w, n, set) ==
  RDecoder(IF e.sent_escape \/ e.count = 1 THEN "Escape" ELSE "Loading",
           IF e.count < 2 THEN <<>> ELSE SubSeq(w, 1, e.count - 1),
           IF e.count < 2 THEN set ELSE n + 1)

LEMMA RDecoderIs ==
  ASSUME NEW s, NEW b, NEW m, NEW z
  PROVE  LET d == RDecoder(s, b, m)
         IN  /\ d.state = s /\ d.buffer = b /\ d.needed = m
             /\ [d EXCEPT !.state = z] = RDecoder(z, b, m)
             /\ [d EXCEPT !.buffer = z] = RDecoder(s, z, m)
             /\ [d EXCEPT !.needed = z] = RDecoder(s, b, z)
<1>. DEFINE d == RDecoder(s, b, m)
            dom == {"state", "buffer", "needed"}
<1>1. d.state = s /\ d.buffer = b /\ d.needed = m /\ DOMAIN d = dom
  BY DEF RDecoder
<1>3. [d EXCEPT !.state = z] = RDecoder(z, b, m)
  <2>1. DOMAIN [d EXCEPT !.state = z] = dom
    BY <1>1
  <2>2. /\ [d EXCEPT !.state = z].state = z
        /\ [d EXCEPT !.state = z].buffer = b
        /\ [d EXCEPT !.state = z].needed = m
    BY <1>1
  <2>. QED  BY <2>1, <2>2 DEF RDecoder
<1>4. [d EXCEPT !.buffer = z] = RDecoder(s, z, m)
  <2>1. DOMAIN [d EXCEPT !.buffer = z] = dom
    BY <1>1
  <2>2. /\ [d EXCEPT !.buffer = z].state = s
        /\ [d EXCEPT !.buffer = z].buffer = z
        /\ [d EXCEPT !.buffer = z].needed = m
    BY <1>1
  <2>. QED  BY <2>1, <2>2 DEF RDecoder
<1>5. [d EXCEPT !.needed = z] = RDecoder(s, b, z)
  <2>1. DOMAIN [d EXCEPT !.needed = z] = dom
    BY <1>1
  <2>2. /\ [d EXCEPT !.needed = z].state = s
        /\ [d EXCEPT !.needed = z].buffer = b
        /\ [d EXCEPT !.needed = z].needed = z
    BY <1>1
  <2>. QED  BY <2>1, <2>2 DEF RDecoder
<1>. QED  BY <1>1, <1>3, <1>4, <1>5

\* What a response decoder does with a byte, by its state.
LEMMA ResponseSteps ==
  ASSUME NEW b, NEW m, NEW ch
  PROVE  LET l == RDecoder("Loading", b, m)
             x == RDecoder("Escape", b, m)
             loaded == IF m = Len(Loaded(b, ch))
                       THEN <<FreshResponseDecoder, ParsedResponse(Loaded(b, ch))>>
                       ELSE <<RDecoder("Loading", Loaded(b, ch), m),
                              None>>
         IN  /\ ReceiveResponse(l, ESCAPE_CHAR) = <<x, None>>
             /\ ch # ESCAPE_CHAR => ReceiveResponse(l, ch) = loaded
             /\ ch = ESCAPE_CHAR => ReceiveResponse(x, ch) = loaded
             /\ ch # ESCAPE_CHAR => ReceiveResponse(x, ch) = ReceiveEscaped(x, ch)
             /\ LoadResponse(x, ch) = loaded
<1>. DEFINE l == RDecoder("Loading", b, m)
            x == RDecoder("Escape", b, m)
            done == RDecoder("Loading", Loaded(b, ch), m)
            loaded == IF m = Len(Loaded(b, ch))
                      THEN <<FreshResponseDecoder, ParsedResponse(Loaded(b, ch))>>
                      ELSE <<done, None>>
<1>1. /\ l.state = "Loading" /\ l.buffer = b /\ l.needed = m
      /\ x.state = "Escape" /\ x.buffer = b /\ x.needed = m
      /\ [l EXCEPT !.state = "Escape"] = x
      /\ "Escape" # "Loading"
  BY RDecoderIs
<1>2. /\ [l EXCEPT !.state = "Loading", !.buffer = Loaded(b, ch)] = done
      /\ [x EXCEPT !.state = "Loading", !.buffer = Loaded(b, ch)] = done
  <2>1. PICK z : z = Loaded(b, ch)
    OBVIOUS
  <2>2. \A d : [d EXCEPT !.state = "Loading", !.buffer = z]
                = [[d EXCEPT !.state = "Loading"] EXCEPT !.buffer = z]
    OBVIOUS
  <2>3. /\ [[l EXCEPT !.state = "Loading"] EXCEPT !.buffer = z] = RDecoder("Loading", z, m)
        /\ [[x EXCEPT !.state = "Loading"] EXCEPT !.buffer = z] = RDecoder("Loading", z, m)
    <3>1. [l EXCEPT !.state = "Loading"] = l /\ [x EXCEPT !.state = "Loading"] = l
      BY RDecoderIs
    <3>2. [l EXCEPT !.buffer = z] = RDecoder("Loading", z, m)
      BY RDecoderIs
    <3>. QED  BY <3>1, <3>2, Zenon
  <2>. QED  BY <2>1, <2>2, <2>3, Zenon
<1>. HIDE DEF l, x, done
<1>3. LoadResponse(l, ch) = loaded /\ LoadResponse(x, ch) = loaded
  <2>1. CASE m = Len(Loaded(b, ch))
    BY <1>1, <2>1 DEF LoadResponse
  <2>2. CASE m # Len(Loaded(b, ch))
    BY <1>1, <1>2, <2>2 DEF LoadResponse
  <2>. QED  BY <2>1, <2>2
<1>. HIDE DEF loaded
<1>4. ReceiveResponse(l, ESCAPE_CHAR) = <<x, None>>
  BY <1>1, Zenon DEF ReceiveResponse
<1>5. ch # ESCAPE_CHAR => ReceiveResponse(l, ch) = loaded
  BY <1>1, <1>3 DEF ReceiveResponse
<1>6. ch = ESCAPE_CHAR => ReceiveResponse(x, ch) = loaded
  BY <1>1, <1>3 DEF ReceiveResponse
<1>7. ch # ESCAPE_CHAR => ReceiveResponse(x, ch) = ReceiveEscaped(x, ch)
  BY <1>1 DEF ReceiveResponse
<1>. QED  BY <1>3, <1>4, <1>5, <1>6, <1>7, Zenon DEF l, x, done, loaded

LEMMA ResultsDiffer ==
  /\ None # Err("UnknownCommand") /\ None # Err("BadArguments")
  /\ \A k \in ResponseKinds : \A f : Message(k, f) # None
<1>1. None.kind = "none" /\ Err("UnknownCommand").kind = "ErrUnknownCommand"
      /\ Err("BadArguments").kind = "ErrBadArguments"
  BY MessageIs DEF None, Err
<1>2. ASSUME NEW k \in ResponseKinds, NEW f, Message(k, f) = None
      PROVE  FALSE
  <2>1. k = "none"
    BY <1>1, <1>2, MessageIs
  <2>. QED  BY <2>1, KindsOfResponses
<1>. QED  BY <1>1, <1>2

\* What it does with the code of a response, whose length it knows where the code does
\* not say.
LEMMA CodeReceived ==
  ASSUME NEW k \in ResponseKinds, NEW set, NEW n \in Nat, 0 < n, 0 < RxLen,
         k \in Unbounded => set = n + 1,
         k \in DOMAIN PayloadLen => set = 0 /\ PayloadLen[k] = n
  PROVE  LET x == RDecoder("Escape", <<>>, set)
             code == ResponseCode[k]
         IN  /\ k \in DOMAIN PayloadLen \cup Unbounded =>
                  ReceiveEscaped(x, code) = <<RDecoder("Loading", <<code>>, n + 1), None>>
             /\ k \notin DOMAIN PayloadLen \cup Unbounded =>
                  ReceiveEscaped(x, code) = <<FreshResponseDecoder, Message(k, <<>>)>>
<1>. DEFINE x == RDecoder("Escape", <<>>, set)
            y == RDecoder("Escape", <<>>, n + 1)
            z == RDecoder("Loading", <<ResponseCode[k]>>, n + 1)
<1>1. PICK code : code = ResponseCode[k]
  OBVIOUS
<1>2. IsCode(ResponseCode, code) /\ KindOf(ResponseCode, code) = k
  BY <1>1, ResponseOfCode
<1>3. /\ x.needed = set /\ [x EXCEPT !.needed = n + 1] = y
  BY RDecoderIs
<1>4. Loaded(<<>>, code) = <<code>> /\ Len(<<code>>) = 1
  BY ProtocolAssumption DEF Loaded
<1>5. LoadCode(y, code) = <<z, None>>
  <2>1. LoadResponse(y, code) = <<z, None>>
    <3>1. n + 1 # Len(Loaded(<<>>, code))
      <4>1. n + 1 # 1
        OBVIOUS
      <4>. QED  BY <1>4, <4>1, Zenon
    <3>2. LoadResponse(y, code)
            = IF n + 1 = Len(Loaded(<<>>, code))
              THEN <<FreshResponseDecoder, ParsedResponse(Loaded(<<>>, code))>>
              ELSE <<RDecoder("Loading", Loaded(<<>>, code), n + 1), None>>
      BY ResponseSteps
    <3>. QED  BY <1>1, <1>4, <3>1, <3>2
  <2>. HIDE DEF y, z
  <2>2. <<z, None>>[2] = None /\ <<z, None>>[1] = z
    OBVIOUS
  <2>. QED  BY <2>1, <2>2, ResultsDiffer, Zenon DEF LoadCode
<1>. HIDE DEF x, y, z
<1>6. CASE k \in Unbounded
  <2>1. x.needed # 0 /\ x = y
    <3>1. x = y
      BY <1>6 DEF x, y
    <3>. QED  BY <1>3, <1>6, <3>1
  <2>2. ReceiveEscaped(x, code) = LoadCode(x, code)
    BY <1>2, <1>6, <2>1 DEF ReceiveEscaped
  <2>. QED  BY <1>1, <1>5, <1>6, <2>1, <2>2, Zenon DEF x, z
<1>7. CASE k \in DOMAIN PayloadLen
  <2>1. k \notin Unbounded /\ x.needed = 0 /\ PayloadLen[k] = n
    BY <1>3, <1>7, KindsOfResponses DEF Unbounded
  <2>2. ReceiveEscaped(x, code) = LoadCode([x EXCEPT !.needed = PayloadLen[k] + 1], code)
    BY <1>2, <1>7, <2>1 DEF ReceiveEscaped
  <2>. QED  BY <1>1, <1>3, <1>5, <1>7, <2>1, <2>2, Zenon DEF x, z
<1>8. CASE k \notin DOMAIN PayloadLen \cup Unbounded
  <2>1. ReceiveEscaped(x, code) = <<FreshResponseDecoder, Message(k, <<>>)>>
    BY <1>2, <1>8 DEF ReceiveEscaped
  <2>. QED  BY <1>1, <1>8, <2>1, Zenon DEF x
<1>. QED  BY <1>6, <1>7, <1>8


LEMMA RFollows ==
  ASSUME NEW w, NEW n \in Nat, NEW set, NEW e \in Encoders
  PROVE  /\ e.count = 0 /\ ~e.sent_escape =>
              RFollowing(e, w, n, set) = RDecoder("Loading", <<>>, set)
         /\ e.count = 1 => RFollowing(e, w, n, set) = RDecoder("Escape", <<>>, set)
         /\ 2 <= e.count /\ ~e.sent_escape =>
              RFollowing(e, w, n, set) = RDecoder("Loading", SubSeq(w, 1, e.count - 1), n + 1)
         /\ 2 <= e.count /\ e.sent_escape =>
              RFollowing(e, w, n, set) = RDecoder("Escape", SubSeq(w, 1, e.count - 1), n + 1)
<1>1. e.count \in Nat
  BY DEF Encoders
<1>2. PICK b : b = SubSeq(w, 1, e.count - 1)
  OBVIOUS
<1>3. RFollowing(e, w, n, set)
        = RDecoder(IF e.sent_escape \/ e.count = 1 THEN "Escape" ELSE "Loading",
                   IF e.count < 2 THEN <<>> ELSE b,
                   IF e.count < 2 THEN set ELSE n + 1)
  BY <1>2, Zenon DEF RFollowing
<1>4. CASE e.count < 2
  <2>1. ~(2 <= e.count)
    BY <1>1, <1>4
  <2>. QED  BY <1>3, <1>4, <2>1
<1>5. CASE ~(e.count < 2)
  <2>1. e.count # 0 /\ e.count # 1
    BY <1>1, <1>5
  <2>2. CASE e.sent_escape
    BY <1>2, <1>3, <1>5, <2>1, <2>2, Zenon
  <2>3. CASE ~e.sent_escape
    BY <1>2, <1>3, <1>5, <2>1, <2>3, Zenon
  <2>. QED  BY <2>2, <2>3
<1>. QED  BY <1>4, <1>5

LEMMA PayloadNotEmpty ==
  \A k \in DOMAIN PayloadLen : PayloadLen[k] \in Nat /\ 0 < PayloadLen[k]
<1>. PICK K \in Nat, M \in Nat, L \in Nat :
       K = KEY_LEN /\ M = MAX_ATTR_LEN /\ L = MAX_INFO_LEN
  BY ProtocolAssumption
<1>. QED  BY KindsOfResponses DEF PayloadLen

\* A response r of kind k, and the string w that carries its payload p.
Carries(w, r, k, p, n) ==
  /\ k \in ResponseKinds /\ k = r.kind
  /\ p \in Seq(Byte) /\ p = Payload(r) /\ n \in Nat /\ n = Len(p)
  /\ HasCode(w, ResponseCode[k], p)
  /\ k \in DOMAIN PayloadLen \cup Unbounded => 0 < n /\ ParsedResponse(w) = r
  /\ k \in DOMAIN PayloadLen => PayloadLen[k] = n
  /\ k \notin DOMAIN PayloadLen \cup Unbounded => n = 0 /\ r = Message(k, <<>>)

LEMMA ResponseCarried ==
  ASSUME NEW r, IsResponse(r), r.kind \in Unbounded => Payload(r) # <<>>
  PROVE  LET p == Payload(r)
         IN  Carries(<<ResponseCode[r.kind]>> \o p, r, r.kind, p, Len(p))
<1>1. PICK p \in Seq(Byte) : p = Payload(r)
  BY ResponseParsed, Zenon
<1>2. PICK k \in ResponseKinds : k = r.kind
  BY FieldsOfResponse
<1>3. PICK code \in Byte : code = ResponseCode[k]
  BY ResponseCodes DEF Byte
<1>4. PICK w : w = <<code>> \o p
  OBVIOUS
<1>5. HasCode(w, code, p)
  BY <1>4, CodeAndPayload, Zenon
<1>6. PICK n \in Nat : n = Len(p)
  OBVIOUS
<1>7. k \in DOMAIN PayloadLen => PayloadLen[k] = n
  BY <1>1, <1>2, <1>6, ResponseParsed, Zenon
<1>8. k \in DOMAIN PayloadLen \cup Unbounded => 0 < n
  <2>1. CASE k \in DOMAIN PayloadLen
    BY <1>7, <2>1, PayloadNotEmpty
  <2>2. CASE k \in Unbounded
    <3>1. p # <<>>
      BY <1>1, <1>2, <2>2
    <3>. QED  BY <1>6, <3>1
  <2>. QED  BY <2>1, <2>2
<1>9. k \in DOMAIN PayloadLen \cup Unbounded => ParsedResponse(w) = r
  BY <1>1, <1>2, <1>3, <1>4, ResponseParsed, Zenon
<1>10. k \notin DOMAIN PayloadLen \cup Unbounded => n = 0 /\ r = Message(k, <<>>)
  <2>1. k \notin DOMAIN PayloadLen \cup Unbounded => p = <<>> /\ r = Message(k, <<>>)
    BY <1>1, <1>2, ResponseParsed, Zenon
  <2>2. p = <<>> => n = 0
    BY <1>6
  <2>. QED  BY <2>1, <2>2, Zenon
<1>11. Carries(w, r, k, p, n)
  BY <1>1, <1>2, <1>3, <1>5, <1>6, <1>7, <1>8, <1>9, <1>10, Zenon DEF Carries
<1>. QED  BY <1>1, <1>2, <1>3, <1>4, <1>6, <1>11, Zenon

LEMMA FirstByte ==
  ASSUME NEW w \in Seq(Byte), 1 <= Len(w)
  PROVE  SubSeq(w, 1, 1) = <<w[1]>>
<1>. DEFINE a == SubSeq(w, 1, 1)
<1>1. a \in Seq(Byte) /\ Len(a) = 1 /\ a[1] = w[1]
  OBVIOUS
<1>. HIDE DEF a
<1>2. a = <<w[1]>>
  BY <1>1
<1>. QED  BY <1>2 DEF a

\* A byte at a time, the encoder of a response goes on to its end, and the decoder makes
\* the response of the last byte, nothing of the others.
LEMMA ResponseByteFollows ==
  ASSUME NEW r, NEW k, NEW p, NEW n, NEW w, Carries(w, r, k, p, n), n + 1 <= RxLen,
         NEW set, k \in Unbounded => set = n + 1, k \in DOMAIN PayloadLen => set = 0,
         NEW e, REncoding(e, p), e.count < n + 2
  PROVE  LET next  == NextOfResponse(e, r)
             taken == ReceiveResponse(RFollowing(e, w, n, set), next[2])
         IN  /\ REncoding(next[1], p)
             /\ taken = IF next[1].count = n + 2 THEN <<FreshResponseDecoder, r>>
                        ELSE <<RFollowing(next[1], w, n, set), None>>
<1>. DEFINE next == NextOfResponse(e, r)
<1>0. n \in Nat /\ n = Len(p) /\ p = Payload(r)
  BY DEF Carries
<1>1. k \in ResponseKinds /\ k = r.kind
  BY DEF Carries
<1>2. PICK code \in Byte : code = ResponseCode[k] /\ code # ESCAPE_CHAR
  BY <1>1, ResponseCodes DEF Byte, ESCAPE_CHAR
<1>3. /\ w \in Seq(Byte) /\ Len(w) = n + 1 /\ w[1] = code
      /\ \A i \in 1 .. n : w[1 + i] = p[i]
  BY <1>2 DEF Carries, HasCode
<1>4. /\ k \in DOMAIN PayloadLen \cup Unbounded => 0 < n /\ ParsedResponse(w) = r
      /\ k \in DOMAIN PayloadLen => PayloadLen[k] = n
      /\ k \notin DOMAIN PayloadLen \cup Unbounded => n = 0 /\ r = Message(k, <<>>)
  BY DEF Carries
<1>5. /\ e \in Encoders /\ e.count \in Nat /\ e.count <= n + 1
      /\ e.sent_escape => 2 <= e.count /\ p[e.count - 1] = ESCAPE_CHAR
  BY <1>0 DEF REncoding, Encoders
<1>6. CASE e.count < 2
  <2>1. ~e.sent_escape
    BY <1>5, <1>6
  <2>2. PICK f \in Encoders : f = next[1]
    BY <1>5, <1>6, <2>1, HeaderIsRendered
  <2>3. /\ f.count = e.count + 1 /\ ~f.sent_escape
        /\ next[2] = IF e.count = 0 THEN ESCAPE_CHAR ELSE code
    BY <1>1, <1>2, <1>5, <1>6, <2>1, <2>2, HeaderIsRendered
  <2>4. REncoding(next[1], p)
    BY <1>0, <1>5, <2>2, <2>3 DEF REncoding
  <2>. HIDE DEF next
  <2>5. CASE e.count = 0
    <3>1. /\ f.count = 1 /\ f.count # n + 2 /\ next[2] = ESCAPE_CHAR
      BY <1>0, <2>3, <2>5
    <3>2. RFollowing(e, w, n, set) = RDecoder("Loading", <<>>, set)
      BY <1>0, <1>5, <2>1, <2>5, RFollows
    <3>3. RFollowing(f, w, n, set) = RDecoder("Escape", <<>>, set)
      BY <1>0, <3>1, RFollows
    <3>4. ReceiveResponse(RDecoder("Loading", <<>>, set), ESCAPE_CHAR)
            = <<RDecoder("Escape", <<>>, set), None>>
      BY ResponseSteps
    <3>5. ReceiveResponse(RFollowing(e, w, n, set), next[2]) = <<RFollowing(next[1], w, n, set), None>>
      BY <2>2, <3>1, <3>2, <3>3, <3>4, Zenon
    <3>6. next[1].count # n + 2
      BY <2>2, <3>1, Zenon
    <3>. QED  BY <2>4, <3>5, <3>6 DEF next
  <2>6. CASE e.count = 1
    <3>1. f.count = 2 /\ next[2] = code /\ code # ESCAPE_CHAR
      BY <1>2, <2>3, <2>6
    <3>2. RFollowing(e, w, n, set) = RDecoder("Escape", <<>>, set)
      BY <1>0, <1>5, <2>6, RFollows
    <3>3. ReceiveResponse(RFollowing(e, w, n, set), next[2])
            = ReceiveEscaped(RDecoder("Escape", <<>>, set), code)
      BY <3>1, <3>2, ResponseSteps
    <3>4. CASE k \in DOMAIN PayloadLen \cup Unbounded
      <4>1. ReceiveEscaped(RDecoder("Escape", <<>>, set), code)
              = <<RDecoder("Loading", <<code>>, n + 1), None>>
        <5>1. 0 < RxLen /\ 0 < n
          BY <1>0, <1>4, <3>4, ProtocolAssumption
        <5>. QED  BY <1>0, <1>1, <1>2, <1>4, <3>4, <5>1, CodeReceived
      <4>2. RFollowing(f, w, n, set) = RDecoder("Loading", SubSeq(w, 1, f.count - 1), n + 1)
        BY <1>0, <2>3, <3>1, RFollows
      <4>3. SubSeq(w, 1, f.count - 1) = <<code>>
        <5>1. f.count - 1 = 1
          BY <3>1
        <5>2. SubSeq(w, 1, 1) = <<w[1]>>
          BY <1>0, <1>3, FirstByte
        <5>. QED  BY <1>3, <5>1, <5>2, Zenon
      <4>4. f.count # n + 2
        BY <1>0, <1>4, <3>1, <3>4
      <4>5. ReceiveResponse(RFollowing(e, w, n, set), next[2])
              = <<RFollowing(next[1], w, n, set), None>>
        BY <2>2, <3>3, <4>1, <4>2, <4>3, Zenon
      <4>6. next[1].count # n + 2
        BY <2>2, <4>4, Zenon
      <4>. QED  BY <2>4, <4>5, <4>6 DEF next
    <3>5. CASE k \notin DOMAIN PayloadLen \cup Unbounded
      <4>1. ReceiveEscaped(RDecoder("Escape", <<>>, set), code)
              = <<FreshResponseDecoder, Message(k, <<>>)>>
        <5>1. 1 \in Nat /\ 0 < 1 /\ 0 < RxLen
          BY <1>0, ProtocolAssumption
        <5>. QED  BY <1>1, <1>2, <3>5, <5>1, CodeReceived
      <4>2. f.count = n + 2 /\ r = Message(k, <<>>)
        BY <1>4, <3>1, <3>5
      <4>3. ReceiveResponse(RFollowing(e, w, n, set), next[2]) = <<FreshResponseDecoder, r>>
        BY <3>3, <4>1, <4>2, Zenon
      <4>4. next[1].count = n + 2
        BY <2>2, <4>2, Zenon
      <4>. QED  BY <2>4, <4>3, <4>4 DEF next
    <3>. QED  BY <3>4, <3>5
  <2>. QED  BY <1>5, <1>6, <2>5, <2>6
<1>7. CASE 2 <= e.count
  <2>1. PICK m \in 1 .. n : m = e.count - 1
    BY <1>0, <1>5, <1>7
  <2>2. PICK x \in Byte : x = p[m] /\ x = w[m + 1]
    BY <1>0, <1>3, <2>1, ElementOfSeq
  <2>3. PICK f \in Encoders : f = next[1]
    BY <1>0, <1>5, <1>7, PayloadIsRendered
  <2>4. /\ next[2] = x
        /\ x = ESCAPE_CHAR /\ ~e.sent_escape => f.count = e.count /\ f.sent_escape
        /\ ~(x = ESCAPE_CHAR /\ ~e.sent_escape) => f.count = e.count + 1 /\ ~f.sent_escape
    <3>1. p[e.count - 1] = x
      BY <2>1, <2>2, Zenon
    <3>2. /\ next[2] = p[e.count - 1]
          /\ p[e.count - 1] = ESCAPE_CHAR /\ ~e.sent_escape =>
               next[1].count = e.count /\ next[1].sent_escape
          /\ ~(p[e.count - 1] = ESCAPE_CHAR /\ ~e.sent_escape) =>
               next[1].count = e.count + 1 /\ ~next[1].sent_escape
      BY <1>0, <1>5, <1>7, PayloadIsRendered
    <3>. HIDE DEF next
    <3>. QED  BY <2>3, <3>1, <3>2, Zenon
  <2>. HIDE DEF next
  <2>5. e.sent_escape => x = ESCAPE_CHAR
    BY <1>5, <2>1, <2>2
  <2>6. PICK b : b = SubSeq(w, 1, m)
    OBVIOUS
  <2>7. RFollowing(e, w, n, set)
          = RDecoder(IF e.sent_escape THEN "Escape" ELSE "Loading", b, n + 1)
    <3>1. CASE e.sent_escape
      BY <1>0, <1>5, <1>7, <2>1, <2>6, <3>1, RFollows
    <3>2. CASE ~e.sent_escape
      BY <1>0, <1>5, <1>7, <2>1, <2>6, <3>2, RFollows
    <3>. QED  BY <3>1, <3>2
  <2>8. CASE x = ESCAPE_CHAR /\ ~e.sent_escape
    <3>1. f.count = e.count /\ f.sent_escape /\ f.count # n + 2
      BY <1>5, <2>4, <2>8
    <3>2. REncoding(next[1], p)
      BY <1>5, <1>7, <2>1, <2>2, <2>3, <2>8, <3>1, <1>0 DEF REncoding
    <3>3. RFollowing(f, w, n, set) = RDecoder("Escape", b, n + 1)
      BY <1>0, <1>7, <2>1, <2>6, <3>1, RFollows
    <3>4. ReceiveResponse(RDecoder("Loading", b, n + 1), ESCAPE_CHAR)
            = <<RDecoder("Escape", b, n + 1), None>>
      BY ResponseSteps
    <3>5. ReceiveResponse(RFollowing(e, w, n, set), next[2])
            = <<RFollowing(next[1], w, n, set), None>>
      BY <2>3, <2>4, <2>7, <2>8, <3>3, <3>4, Zenon
    <3>6. next[1].count # n + 2
      BY <2>3, <3>1, Zenon
    <3>. QED  BY <3>2, <3>5, <3>6 DEF next
  <2>9. CASE ~(x = ESCAPE_CHAR /\ ~e.sent_escape)
    <3>1. f.count = e.count + 1 /\ ~f.sent_escape /\ f.count = m + 2
      BY <1>5, <2>1, <2>4, <2>9
    <3>2. REncoding(next[1], p)
      BY <1>0, <1>5, <2>3, <3>1 DEF REncoding
    <3>3. PICK c : c = SubSeq(w, 1, m + 1)
      OBVIOUS
    <3>4. Loaded(b, x) = c /\ Len(c) = m + 1
      <4>1. m \in 0 .. Len(w) - 1 /\ m < RxLen
        BY <1>0, <1>3, ProtocolAssumption
      <4>2. Loaded(b, x) = c
        BY <1>3, <2>2, <2>6, <3>3, <4>1, LoadedNext, Zenon
      <4>3. Len(c) = m + 1
        BY <1>3, <3>3, <4>1
      <4>. QED  BY <4>2, <4>3
    <3>5. ReceiveResponse(RFollowing(e, w, n, set), x)
            = IF n + 1 = Len(Loaded(b, x))
              THEN <<FreshResponseDecoder, ParsedResponse(Loaded(b, x))>>
              ELSE <<RDecoder("Loading", Loaded(b, x), n + 1), None>>
      <4>1. CASE e.sent_escape
        BY <2>5, <2>7, <4>1, ResponseSteps
      <4>2. CASE ~e.sent_escape
        BY <2>7, <2>9, <4>2, ResponseSteps
      <4>. QED  BY <4>1, <4>2
    <3>6. CASE m = n
      <4>1. c = w /\ ParsedResponse(w) = r
        <5>1. c = w
          BY <1>3, <3>3, <3>6, Whole
        <5>2. k \in DOMAIN PayloadLen \cup Unbounded
          BY <1>4, <2>1
        <5>. QED  BY <1>4, <5>1, <5>2
      <4>2. n + 1 = Len(Loaded(b, x))
        BY <3>4, <3>6
      <4>3. ReceiveResponse(RFollowing(e, w, n, set), next[2]) = <<FreshResponseDecoder, r>>
        BY <2>4, <3>4, <3>5, <4>1, <4>2, Zenon
      <4>4. next[1].count = n + 2
        BY <2>3, <3>1, <3>6, Zenon
      <4>. QED  BY <3>2, <4>3, <4>4 DEF next
    <3>7. CASE m # n
      <4>1. n + 1 # Len(Loaded(b, x)) /\ f.count # n + 2
        BY <1>0, <3>1, <3>4, <3>7
      <4>2. RFollowing(f, w, n, set) = RDecoder("Loading", c, n + 1)
        <5>1. RFollowing(f, w, n, set) = RDecoder("Loading", SubSeq(w, 1, f.count - 1), n + 1)
          BY <1>0, <3>1, RFollows
        <5>2. f.count - 1 = m + 1
          BY <3>1
        <5>. QED  BY <3>3, <5>1, <5>2, Zenon
      <4>3. ReceiveResponse(RFollowing(e, w, n, set), next[2])
              = <<RFollowing(next[1], w, n, set), None>>
        BY <2>3, <2>4, <3>4, <3>5, <4>1, <4>2, Zenon
      <4>4. next[1].count # n + 2
        BY <2>3, <4>1, Zenon
      <4>. QED  BY <3>2, <4>3, <4>4 DEF next
    <3>. QED  BY <3>6, <3>7
  <2>. QED  BY <2>8, <2>9
<1>. QED  BY <1>5, <1>6, <1>7

======================================================================
