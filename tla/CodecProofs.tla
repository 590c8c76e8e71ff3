---------------------------- MODULE CodecProofs -----------------------------
(***************************************************************************)
(* The proofs of the safety properties of Codec, for commands and          *)
(* responses of any bytes and any number of bytes lost.                    *)
(***************************************************************************)
EXTENDS Codec, ProtocolProofs

\* What the ends may send.
GoodCommand(c)  == IsCommand(c) /\ Encodable(c) /\ Len(Arguments(c)) <= RxLen
GoodResponse(r) == /\ IsResponse(r) /\ Len(Payload(r)) + 1 <= RxLen
                   /\ r.kind \in Unbounded => Payload(r) # <<>>

-----------------------------------------------------------------------------
(* PING and PONG, whatever state the decoders are in.                      *)

LEMMA PingIs ==
  /\ Ping.kind = "Ping" /\ Ping.fields = <<>> /\ Arguments(Ping) = <<>> /\ Len(<<>>) = 0
  /\ Ping.kind \in CommandKinds /\ Ping.kind \notin Unbounded /\ Ping # Panic /\ Ping # None
  /\ CommandCode["Ping"] = 1
<1>1. Ping.kind = "Ping" /\ Ping.fields = <<>>
  BY MessageIs DEF Ping
<1>2. Arguments(Ping) = <<>>
  <2>1. Arguments(Ping) = FlattenSeq(Ping.fields)
    BY <1>1 DEF Arguments
  <2>2. Len(<<>>) = 0
    OBVIOUS
  <2>. QED  BY <1>1, <2>1, <2>2, FlattenIs, Zenon
<1>3. Panic.kind = "panic" /\ None.kind = "none"
  BY MessageIs DEF Panic, None
<1>4. Ping # Panic /\ Ping # None
  BY <1>1, <1>3
<1>. QED  BY <1>1, <1>2, <1>4, KindsOfCommands DEF CommandCode, Unbounded

LEMMA PongIs ==
  /\ Pong.kind = "Pong" /\ Pong.fields = <<>> /\ Payload(Pong) = <<>>
  /\ ResponseCode["Pong"] = 17 /\ Pong # None
<1>1. Pong.kind = "Pong" /\ Pong.fields = <<>>
  BY MessageIs DEF Pong
<1>2. Payload(Pong) = <<>>
  <2>1. Payload(Pong) = FlattenSeq(Pong.fields)
    BY <1>1 DEF Payload
  <2>2. Len(<<>>) = 0
    OBVIOUS
  <2>. QED  BY <1>1, <2>1, <2>2, FlattenIs, Zenon
<1>3. None.kind = "none"
  BY MessageIs DEF None
<1>4. Pong # None
  BY <1>1, <1>3
<1>. QED  BY <1>1, <1>2, <1>4 DEF ResponseCode

\* An escape character completes no command, and the code of PING only a PING.
LEMMA PingReceived ==
  ASSUME NEW d
  PROVE  /\ ReceiveCommand(d, ESCAPE_CHAR)[2] = None
         /\ \/ ReceiveCommand(d, 1) = <<FreshDecoder, Ping>>
            \/ ReceiveCommand(d, 1)[2] = None
<1>1. IsCode(CommandCode, 1) /\ KindOf(CommandCode, 1) = "Ping"
  BY PingIs, CommandOfCode
<1>2. Parsed("Ping", d.buffer) = Ping
  <2>1. "Ping" \in Bare
    BY DEF Bare
  <2>. QED  BY <2>1 DEF Parsed, Ping
<1>3. ReceiveCommand(d, ESCAPE_CHAR)[2] = None
  BY NoCommandIsEscape DEF ReceiveCommand
<1>4. 1 # ESCAPE_CHAR
  BY DEF ESCAPE_CHAR
<1>5. CASE d.state = "Escape"
  <2>1. ReceiveCommand(d, 1) = <<FreshDecoder, Ping>>
    BY <1>1, <1>2, <1>4, <1>5 DEF ReceiveCommand
  <2>. QED  BY <1>3, <2>1
<1>6. CASE d.state # "Escape"
  <2>1. ReceiveCommand(d, 1)[2] = None
    BY <1>4, <1>6 DEF ReceiveCommand
  <2>. QED  BY <1>3, <2>1
<1>. QED  BY <1>5, <1>6

LEMMA ParsedIsNotPong ==
  \A b : ParsedResponse(b) # Pong
<1>. SUFFICES ASSUME NEW b PROVE ParsedResponse(b).kind # "Pong"
  BY PongIs
<1>. DEFINE kind == KindOf(ResponseCode, b[1])
<1>1. CASE ~IsCode(ResponseCode, b[1]) \/ kind \notin DOMAIN PayloadLen \cup Unbounded
  <2>1. ParsedResponse(b) = Err("UnknownCommand")
    BY <1>1 DEF ParsedResponse
  <2>2. Err("UnknownCommand").kind = "ErrUnknownCommand"
    BY MessageIs DEF Err
  <2>. QED  BY <2>1, <2>2
<1>2. CASE ~(~IsCode(ResponseCode, b[1]) \/ kind \notin DOMAIN PayloadLen \cup Unbounded)
  <2>1. kind \in DOMAIN PayloadLen \cup Unbounded /\ IsCode(ResponseCode, b[1])
    BY <1>2
  <2>2. kind \in {"CrcRxBuffer", "GetAttr", "CrcIntFlash", "CrcExtFlash", "Info",
                  "ReadRange", "ExReadRange"}
    BY <2>1, KindsOfResponses DEF Unbounded
  <2>. HIDE DEF kind
  <2>3. PICK k : k = kind
    OBVIOUS
  <2>4. \/ ParsedResponse(b) = Err("BadArguments")
        \/ \E f : ParsedResponse(b) = Message(k, f)
    BY <2>1, <2>2, <2>3 DEF ParsedResponse, Unbounded, kind
  <2>5. Err("BadArguments").kind = "ErrBadArguments"
    BY MessageIs DEF Err
  <2>6. \A f : Message(k, f).kind = k
    BY MessageIs
  <2>. QED  BY <2>2, <2>3, <2>4, <2>5, <2>6
<1>. QED  BY <1>1, <1>2

\* And the code of PONG a PONG, which leaves the decoder as new, or nothing of the kind.
LEMMA PongReceived ==
  ASSUME NEW d
  PROVE  /\ ReceiveResponse(d, ESCAPE_CHAR)[2] # Pong
         /\ \/ ReceiveResponse(d, 17) = <<FreshResponseDecoder, Pong>>
            \/ ReceiveResponse(d, 17)[2] # Pong
<1>1. "Pong" \in ResponseKinds /\ "Pong" \notin DOMAIN PayloadLen \cup Unbounded
  BY KindsOfResponses DEF Unbounded
<1>2. IsCode(ResponseCode, 17) /\ KindOf(ResponseCode, 17) = "Pong"
  BY <1>1, PongIs, ResponseOfCode
<1>3. ASSUME NEW ch PROVE LoadResponse(d, ch)[2] # Pong
  <2>1. PICK b : b = Loaded(d.buffer, ch)
    OBVIOUS
  <2>2. LoadResponse(d, ch)[2] = ParsedResponse(b) \/ LoadResponse(d, ch)[2] = None
    BY <2>1 DEF LoadResponse
  <2>. QED  BY <2>2, ParsedIsNotPong, PongIs
<1>4. ReceiveResponse(d, ESCAPE_CHAR)[2] # Pong
  <2>1. CASE d.state = "Loading"
    BY <2>1, PongIs DEF ReceiveResponse
  <2>2. CASE d.state # "Loading"
    <3>1. ReceiveResponse(d, ESCAPE_CHAR) = LoadResponse(d, ESCAPE_CHAR)
      BY <2>2 DEF ReceiveResponse
    <3>. QED  BY <1>3, <3>1
  <2>. QED  BY <2>1, <2>2
<1>5. 17 # ESCAPE_CHAR
  BY DEF ESCAPE_CHAR
<1>6. CASE d.state = "Escape"
  <2>1. ReceiveResponse(d, 17) = ReceiveEscaped(d, 17)
    BY <1>5, <1>6 DEF ReceiveResponse
  <2>2. ReceiveEscaped(d, 17) = <<FreshResponseDecoder, Pong>>
    BY <1>1, <1>2 DEF ReceiveEscaped, Pong
  <2>. QED  BY <1>4, <2>1, <2>2
<1>7. CASE d.state # "Escape"
  <2>1. ReceiveResponse(d, 17) = LoadResponse(d, 17)
    BY <1>5, <1>7 DEF ReceiveResponse
  <2>. QED  BY <1>3, <1>4, <2>1
<1>. QED  BY <1>6, <1>7

-----------------------------------------------------------------------------
(* The invariant.                                                          *)

\* What the host has given its decoder for the length of the payload, and what the
\* device makes of a command.
KnownLen(c) == IF c.kind \in Unbounded THEN c.fields[2][1] + 1 ELSE 0
Made(c)     == IF c.kind = "Reset" THEN <<>> ELSE <<c>>
Carrier(r)  == <<ResponseCode[r.kind]>> \o Payload(r)

Encoded ==
  /\ phase \in {"host", "command", "response"}
  /\ phase = "host" => decoded = <<>>
  /\ phase # "host" => GoodCommand(cmd) /\ Encoding(enc, Arguments(cmd))
  /\ phase = "response" => /\ resp \in Responses /\ REncoding(renc, Payload(resp))
                           /\ CommandEnded(enc, cmd)

\* What the host has decoded since it sent a PING.
Silent  == understood = <<>>
Other   == \E x : x # Pong /\ understood = <<x>>
Cleared == understood = <<Pong>> /\ rdec = FreshResponseDecoder
Two     == \E x, y : understood = <<x, y>>

\* While a PING is answered, whatever was lost.
Pinged ==
  phase # "host" /\ cmd = Ping =>
    /\ Silent \/ Other \/ Cleared \/ Two
    /\ ~Silent => dec = FreshDecoder /\ decoded = <<>>
    /\ phase = "command" /\ enc.count < 2 => Silent /\ decoded = <<>>
    /\ decoded # <<>> => decoded = <<Ping>> /\ dec = FreshDecoder
    /\ phase = "response" => /\ decoded = <<>> /\ dec = FreshDecoder /\ resp = Pong
                             /\ renc.count = 0 => Silent
                             /\ renc.count = 1 => Silent \/ Other

\* The parts of an exchange in which nothing was lost.
Sending ==
  /\ dec = Following(enc, Arguments(cmd)) /\ decoded = <<>>
  /\ rdec = RDecoder("Loading", <<>>, KnownLen(cmd)) /\ understood = <<>>

Sent ==
  /\ dec = FreshDecoder /\ decoded = Made(cmd)
  /\ rdec = RDecoder("Loading", <<>>, KnownLen(cmd)) /\ understood = <<>>

Answered ==
  /\ dec = FreshDecoder /\ decoded = <<>>
  /\ rdec = FreshResponseDecoder /\ understood = <<resp>>

Answering ==
  /\ dec = FreshDecoder /\ decoded = <<>>
  /\ rdec = RFollowing(renc, Carrier(resp), Len(Payload(resp)), KnownLen(cmd))
  /\ understood = <<>>

InStep ==
  intact =>
    /\ phase = "host" => dec = FreshDecoder /\ rdec = FreshResponseDecoder
    /\ phase = "command" => IF CommandEnded(enc, cmd) THEN Sent \/ Answered ELSE Sending
    /\ phase = "response" => /\ resp \in Answers(cmd)
                             /\ IF ResponseEnded(renc, resp) THEN Answered ELSE Answering

CodecInv == Encoded /\ Pinged /\ InStep

-----------------------------------------------------------------------------
(* Lemmas about the two ends.                                              *)

LEMMA Sendable ==
  /\ \A c \in Commands : Encodable(c) => GoodCommand(c)
  /\ \A r \in Responses : GoodResponse(r)
<1>1. ASSUME NEW c \in Commands, Encodable(c) PROVE GoodCommand(c)
  BY <1>1, CodecAssumption, Zenon DEF GoodCommand
<1>2. ASSUME NEW r \in Responses PROVE GoodResponse(r)
  <2>1. IsResponse(r) /\ Len(Payload(r)) + 1 <= RxLen
    BY CodecAssumption, Zenon
  <2>2. r.kind \in Unbounded => Payload(r) # <<>>
    BY CodecAssumption, Zenon
  <2>. QED  BY <2>1, <2>2, Zenon DEF GoodResponse
<1>. QED  BY <1>1, <1>2

LEMMA GoodArguments ==
  ASSUME NEW c, GoodCommand(c)
  PROVE  /\ c.kind \in CommandKinds /\ c # None /\ c # Panic
         /\ Arguments(c) \in Seq(Byte) /\ Len(Arguments(c)) \in Nat
         /\ Len(Arguments(c)) <= RxLen
         /\ Parsed(c.kind, Arguments(c)) = c
<1>1. c.kind \in CommandKinds
  BY DEF GoodCommand, IsCommand
<1>2. None.kind = "none" /\ Panic.kind = "panic"
  BY MessageIs DEF None, Panic
<1>3. c # None /\ c # Panic
  BY <1>1, <1>2, KindsOfCommands
<1>4. Arguments(c) \in Seq(Byte) /\ Parsed(c.kind, Arguments(c)) = c
  BY CommandParsed DEF GoodCommand
<1>5. Len(Arguments(c)) \in Nat
  BY <1>4
<1>. QED  BY <1>1, <1>3, <1>4, <1>5 DEF GoodCommand

LEMMA Appended ==
  \A x, y : Append(<<>>, x) = <<x>> /\ Append(<<x>>, y) = <<x, y>>
<1>. SUFFICES ASSUME NEW x, NEW y
              PROVE  Append(<<>>, x) = <<x>> /\ Append(<<x>>, y) = <<x, y>>
  OBVIOUS
<1>. DEFINE a == Append(<<>>, x)
            b == Append(<<x>>, y)
            S == {x, y}
<1>1. <<>> \in Seq(S) /\ <<x>> \in Seq(S) /\ x \in S /\ y \in S
  OBVIOUS
<1>2. a \in Seq(S) /\ Len(a) = 1 /\ a[1] = x
  BY <1>1
<1>3. b \in Seq(S) /\ Len(b) = 2 /\ b[1] = x /\ b[2] = y
  BY <1>1
<1>. HIDE DEF a, b, S
<1>4. a = <<x>>
  BY <1>2
<1>5. b = <<x, y>>
  BY <1>3
<1>. QED  BY <1>4, <1>5 DEF a, b

LEMMA Lengths ==
  /\ Len(<<>>) = 0
  /\ \A x : Len(<<x>>) = 1 /\ <<x>>[1] = x /\ <<x>> # <<>>
            /\ Head(<<x>>) = x /\ Tail(<<x>>) = <<>>
  /\ \A x, y : Len(<<x, y>>) = 2 /\ <<x, y>> # <<>>
  OBVIOUS

LEMMA FreshEncoderIs ==
  FreshEncoder \in Encoders /\ FreshEncoder.count = 0 /\ ~FreshEncoder.sent_escape
  BY DEF FreshEncoder, Encoders

\* The response to a PING is a PONG.
LEMMA PingAnswered ==
  \A r \in Answers(Ping) : r = Pong
<1>. SUFFICES ASSUME NEW r \in Answers(Ping) PROVE r = Pong
  OBVIOUS
<1>1. r \in Responses /\ r.kind = "Pong"
  BY PingIs DEF Answers, ResultKind
<1>2. IsResponse(r)
  BY <1>1, Sendable DEF GoodResponse
<1>3. r.fields = <<>>
  <2>1. "Pong" \notin DOMAIN PayloadLen \cup Unbounded
    BY KindsOfResponses DEF Unbounded
  <2>. QED  BY <1>1, <1>2, <2>1, FieldsOfResponse
<1>4. r = Message("Pong", <<>>)
  BY <1>1, <1>2, <1>3, FieldsOfResponse
<1>. QED  BY <1>4 DEF Pong

\* What a response carries is known to the host when it answers a command.
LEMMA AnswerKnown ==
  ASSUME NEW c, GoodCommand(c), NEW r \in Answers(c)
  PROVE  /\ r \in Responses
         /\ r.kind \in Unbounded => KnownLen(c) = Len(Payload(r)) + 1
         /\ r.kind \in DOMAIN PayloadLen => KnownLen(c) = 0
<1>1. c.kind \in CommandKinds
  BY GoodArguments
<1>2. /\ r \in Responses
      /\ \/ r.kind = ResultKind(c) /\ (c.kind \in Unbounded => Len(r.fields[1]) = c.fields[2][1])
         \/ r.fields = <<>>
  BY <1>1 DEF Answers, Plain
<1>3. IsResponse(r)
  BY <1>2, Sendable DEF GoodResponse
<1>4. ASSUME r.kind \in DOMAIN PayloadLen \cup Unbounded PROVE r.fields # <<>>
  <2>1. Len(r.fields) # 0
    BY <1>3, <1>4, FieldsOfResponse, KindsOfResponses
  <2>. QED  BY <2>1, Lengths, Zenon
<1>5. ResultKind(c) \in Unbounded <=> c.kind \in Unbounded
  BY <1>1, KindsOfCommands DEF ResultKind, Unbounded
<1>6. ASSUME r.kind \in Unbounded PROVE KnownLen(c) = Len(Payload(r)) + 1
  <2>1. c.kind \in Unbounded /\ Len(r.fields[1]) = c.fields[2][1]
    BY <1>2, <1>4, <1>5, <1>6
  <2>2. PICK a \in Seq(Byte) : a = r.fields[1] /\ r.fields = <<a>>
    <3>1. Len(r.fields) = 1 /\ r.fields \in Seq(Seq(Byte))
      BY <1>3, <1>6, FieldsOfResponse
    <3>. QED  BY <3>1, Pieces
  <2>3. r.kind # "GetAttr" /\ r.kind # "Info"
    BY <1>6 DEF Unbounded
  <2>4. Payload(r) = FlattenSeq(r.fields)
    BY <2>3 DEF Payload
  <2>5. Payload(r) = a
    BY <2>2, <2>4, CutOne, Zenon
  <2>. QED  BY <2>1, <2>2, <2>5, Zenon DEF KnownLen
<1>7. ASSUME r.kind \in DOMAIN PayloadLen PROVE KnownLen(c) = 0
  <2>1. c.kind \notin Unbounded
    <3>1. r.kind \notin Unbounded
      BY <1>7, KindsOfResponses DEF Unbounded
    <3>. QED  BY <1>2, <1>4, <1>5, <1>7, <3>1
  <2>. QED  BY <2>1 DEF KnownLen
<1>. QED  BY <1>2, <1>6, <1>7

\* A byte of a command, and of a response.
LEMMA CommandGoesOn ==
  ASSUME NEW c, GoodCommand(c), NEW e, Encoding(e, Arguments(c)), ~CommandEnded(e, c)
  PROVE  LET next == NextOfCommand(e, c)
         IN  /\ Encoding(next[1], Arguments(c))
             /\ next[1].count \in {e.count, e.count + 1} /\ next[1].count \in Nat
             /\ ReceiveCommand(Following(e, Arguments(c)), next[2])
                  = IF CommandEnded(next[1], c) THEN <<FreshDecoder, c>>
                    ELSE <<Following(next[1], Arguments(c)), None>>
<1>. DEFINE next == NextOfCommand(e, c)
<1>1. PICK args \in Seq(Byte) : args = Arguments(c)
  BY GoodArguments
<1>2. PICK n \in Nat : n = Len(args)
  OBVIOUS
<1>3. c.kind \in CommandKinds /\ n <= RxLen /\ Parsed(c.kind, args) = c
  BY <1>1, <1>2, GoodArguments
<1>4. Encoding(e, args)
  BY <1>1, Zenon
<1>5. e.count \in Nat /\ e.count < n + 2
  <2>1. e.count # n + 2
    BY <1>1, <1>2 DEF CommandEnded
  <2>. QED  BY <1>2, <1>4, <2>1 DEF Encoding, Encoders
<1>6. /\ Encoding(next[1], args)
      /\ next[1].count \in {e.count, e.count + 1}
      /\ IF e.count = n + 1 THEN next[1].count = n + 2 ELSE next[1].count < n + 2
  BY <1>1, <1>2, <1>3, <1>4, <1>5, NextEncodes
<1>7. ReceiveCommand(Following(e, args), next[2])
        = IF e.count = n + 1 THEN <<FreshDecoder, Parsed(c.kind, args)>>
          ELSE <<Following(next[1], args), None>>
  <2>1. e.count < n => e.count < RxLen
    BY <1>3, <1>5, ProtocolAssumption
  <2>. QED  BY <1>1, <1>2, <1>3, <1>4, <1>5, <2>1, CommandByteFollows
<1>. HIDE DEF next
<1>8. next[1].count \in Nat
  BY <1>5, <1>6
<1>9. CommandEnded(next[1], c) <=> e.count = n + 1
  <2>1. CommandEnded(next[1], c) <=> next[1].count = n + 2
    BY <1>1, <1>2 DEF CommandEnded
  <2>. QED  BY <1>6, <1>8, <2>1
<1>10. ReceiveCommand(Following(e, Arguments(c)), next[2])
         = IF CommandEnded(next[1], c) THEN <<FreshDecoder, c>>
           ELSE <<Following(next[1], Arguments(c)), None>>
  <2>1. CASE e.count = n + 1
    BY <1>1, <1>3, <1>7, <1>9, <2>1
  <2>2. CASE e.count # n + 1
    BY <1>1, <1>7, <1>9, <2>2
  <2>. QED  BY <2>1, <2>2
<1>. QED  BY <1>1, <1>6, <1>8, <1>10 DEF next

LEMMA ResponseGoesOn ==
  ASSUME NEW r \in Responses, NEW e, REncoding(e, Payload(r)), ~ResponseEnded(e, r)
  PROVE  LET next == NextOfResponse(e, r)
             n == Len(Payload(r))
         IN  /\ REncoding(next[1], Payload(r))
             /\ \A set : /\ r.kind \in Unbounded => set = n + 1
                         /\ r.kind \in DOMAIN PayloadLen => set = 0
                  => ReceiveResponse(RFollowing(e, Carrier(r), n, set), next[2])
                       = IF ResponseEnded(next[1], r) THEN <<FreshResponseDecoder, r>>
                         ELSE <<RFollowing(next[1], Carrier(r), n, set), None>>
<1>. DEFINE next == NextOfResponse(e, r)
<1>1. /\ IsResponse(r) /\ Len(Payload(r)) + 1 <= RxLen
      /\ r.kind \in Unbounded => Payload(r) # <<>>
  BY Sendable DEF GoodResponse
<1>2. PICK p, n, k, w : /\ p = Payload(r) /\ n = Len(p) /\ k = r.kind /\ w = Carrier(r)
                        /\ Carries(w, r, k, p, n)
  BY <1>1, ResponseCarried, Zenon DEF Carrier
<1>3. n \in Nat
  BY <1>2 DEF Carries
<1>4. REncoding(e, p) /\ e.count < n + 2 /\ n + 1 <= RxLen
  <2>1. e.count # n + 2 /\ REncoding(e, p) /\ n + 1 <= RxLen
    BY <1>1, <1>2 DEF ResponseEnded
  <2>. QED  BY <1>2, <1>3, <2>1 DEF REncoding, Encoders
<1>5. ResponseEnded(next[1], r) <=> next[1].count = n + 2
  BY <1>2, Zenon DEF ResponseEnded
<1>6. ASSUME NEW set, k \in Unbounded => set = n + 1, k \in DOMAIN PayloadLen => set = 0
      PROVE  /\ REncoding(next[1], p)
             /\ ReceiveResponse(RFollowing(e, w, n, set), next[2])
                  = IF next[1].count = n + 2 THEN <<FreshResponseDecoder, r>>
                    ELSE <<RFollowing(next[1], w, n, set), None>>
  BY <1>2, <1>4, <1>6, ResponseByteFollows
<1>7. REncoding(next[1], p)
  <2>1. k \in DOMAIN PayloadLen => k \notin Unbounded
    BY KindsOfResponses DEF Unbounded
  <2>2. CASE k \in Unbounded
    BY <1>6, <2>1, <2>2
  <2>3. CASE k \notin Unbounded
    BY <1>6, <2>3
  <2>. QED  BY <2>2, <2>3
<1>. HIDE DEF next
<1>8. ASSUME NEW set, r.kind \in Unbounded => set = n + 1,
             r.kind \in DOMAIN PayloadLen => set = 0
      PROVE  ReceiveResponse(RFollowing(e, w, n, set), next[2])
               = IF ResponseEnded(next[1], r) THEN <<FreshResponseDecoder, r>>
                 ELSE <<RFollowing(next[1], w, n, set), None>>
  BY <1>2, <1>5, <1>6, <1>8
<1>. QED  BY <1>2, <1>7, <1>8 DEF next

-----------------------------------------------------------------------------
(* The steps.                                                              *)

LEMMA FreshEncodes ==
  /\ \A c : GoodCommand(c) => Encoding(FreshEncoder, Arguments(c))
  /\ \A r \in Responses : REncoding(FreshEncoder, Payload(r))
<1>1. ASSUME NEW c, GoodCommand(c) PROVE Encoding(FreshEncoder, Arguments(c))
  <2>1. Arguments(c) \in Seq(Byte)
    BY <1>1, GoodArguments
  <2>. QED  BY <2>1, FreshFollows
<1>2. ASSUME NEW r \in Responses PROVE REncoding(FreshEncoder, Payload(r))
  <2>1. Payload(r) \in Seq(Byte)
    BY Sendable, ResponseParsed DEF GoodResponse
  <2>2. Len(Payload(r)) \in Nat
    BY <2>1
  <2>. QED  BY <2>2, FreshEncoderIs DEF REncoding
<1>. QED  BY <1>1, <1>2

LEMMA EncodedKept ==
  ASSUME Encoded, [Next]_vars
  PROVE  Encoded'
<1>1. CASE SendCommand
  <2>1. PICK c \in Commands : Encodable(c) /\ cmd' = c
    BY <1>1 DEF SendCommand
  <2>2. GoodCommand(cmd') /\ enc' = FreshEncoder /\ phase' = "command"
    BY <1>1, <2>1, Sendable DEF SendCommand
  <2>3. Encoding(enc', Arguments(cmd'))
    BY <2>2, FreshEncodes
  <2>. QED  BY <2>2, <2>3 DEF Encoded
<1>2. CASE CommandByte \/ CommandByteLost
  <2>1. /\ phase = "command" /\ phase' = "command" /\ ~CommandEnded(enc, cmd)
        /\ cmd' = cmd /\ enc' = NextOfCommand(enc, cmd)[1]
    BY <1>2 DEF CommandByte, CommandByteLost
  <2>2. GoodCommand(cmd) /\ Encoding(enc, Arguments(cmd))
    BY <2>1 DEF Encoded
  <2>3. Encoding(enc', Arguments(cmd))
    BY <2>1, <2>2, CommandGoesOn
  <2>. QED  BY <2>1, <2>2, <2>3 DEF Encoded
<1>3. CASE Answer
  <2>1. /\ phase = "command" /\ phase' = "response" /\ CommandEnded(enc, cmd)
        /\ cmd' = cmd /\ enc' = enc /\ renc' = FreshEncoder
        /\ resp' \in Answers(Head(decoded))
    BY <1>3 DEF Answer, hostVars
  <2>2. resp' \in Responses
    BY <2>1 DEF Answers
  <2>3. REncoding(renc', Payload(resp'))
    BY <2>1, <2>2, FreshEncodes
  <2>. QED  BY <2>1, <2>2, <2>3 DEF Encoded
<1>4. CASE Restart
  BY <1>4 DEF Restart, Encoded, hostVars
<1>5. CASE ResponseByte \/ ResponseByteLost
  <2>1. /\ phase = "response" /\ phase' = "response" /\ ~ResponseEnded(renc, resp)
        /\ cmd' = cmd /\ enc' = enc /\ resp' = resp
        /\ renc' = NextOfResponse(renc, resp)[1]
    BY <1>5 DEF ResponseByte, ResponseByteLost, hostVars
  <2>2. resp \in Responses /\ REncoding(renc, Payload(resp))
    BY <2>1 DEF Encoded
  <2>3. REncoding(renc', Payload(resp))
    BY <2>1, <2>2, ResponseGoesOn
  <2>. QED  BY <2>1, <2>2, <2>3 DEF Encoded
<1>6. CASE ResponseSent
  BY <1>6 DEF ResponseSent, Encoded, hostVars, deviceVars
<1>7. CASE Content \/ GiveUp
  BY <1>7 DEF Content, GiveUp, Over, Encoded, deviceVars
<1>8. CASE UNCHANGED vars
  BY <1>8 DEF vars, Encoded, hostVars, deviceVars
<1>. QED  BY <1>1, <1>2, <1>3, <1>4, <1>5, <1>6, <1>7, <1>8 DEF Next

LEMMA PingedKept ==
  ASSUME Encoded, Pinged, [Next]_vars
  PROVE  Pinged'
<1>1. CASE SendCommand
  <2>1. decoded' = <<>> /\ understood' = <<>> /\ phase' = "command"
    BY <1>1 DEF SendCommand, Encoded, deviceVars
  <2>2. phase' # "response"
    BY <2>1
  <2>. QED  BY <2>1, <2>2 DEF Pinged, Silent
<1>2. CASE CommandByte
  <2>. SUFFICES ASSUME cmd' = Ping PROVE Pinged'
    BY DEF Pinged
  <2>1. /\ phase = "command" /\ phase' = "command" /\ ~CommandEnded(enc, cmd)
        /\ cmd = Ping /\ understood' = understood /\ rdec' = rdec
    BY <1>2 DEF CommandByte
  <2>2. PICK b : b = NextOfCommand(enc, cmd)[2]
    OBVIOUS
  <2>3. /\ enc' = NextOfCommand(enc, cmd)[1] /\ dec' = ReceiveCommand(dec, b)[1]
        /\ decoded' = IF ReceiveCommand(dec, b)[2] = None \/ ReceiveCommand(dec, b)[2].kind = "Reset"
                      THEN decoded ELSE Append(decoded, ReceiveCommand(dec, b)[2])
    BY <1>2, <2>2 DEF CommandByte
  <2>4. enc.count \in Nat /\ enc.count < 2 /\ Encoding(enc, <<>>) /\ enc \in Encoders
    <3>1. Encoding(enc, <<>>) /\ enc.count # 2
      BY <2>1, PingIs DEF Encoded, CommandEnded
    <3>. QED  BY <3>1, PingIs DEF Encoding, Encoders
  <2>5. understood = <<>> /\ decoded = <<>>
    BY <2>1, <2>4 DEF Pinged, Silent
  <2>6. CASE enc.count = 0
    <3>1. b = ESCAPE_CHAR
      <4>1. NextOfCommand(enc, cmd) = RenderCode(enc, enc.count - 0, 1)
        BY <2>1, <2>4, PingIs DEF NextOfCommand
      <4>2. enc.count - 0 = 0
        BY <2>6
      <4>3. RenderCode(enc, 0, 1)[2] = ESCAPE_CHAR
        BY DEF RenderCode
      <4>. QED  BY <2>2, <4>1, <4>2, <4>3, Zenon
    <3>2. decoded' = <<>>
      BY <2>3, <2>5, <3>1, PingReceived
    <3>. QED  BY <2>1, <2>5, <3>2 DEF Pinged, Silent
  <2>7. CASE enc.count = 1
    <3>1. b = 1
      BY <2>1, <2>2, <2>4, <2>7, PingIs DEF NextOfCommand, RenderCode
    <3>2. enc'.count = 2
      BY <2>1, <2>3, <2>4, <2>7, PingIs DEF NextOfCommand, RenderCode, Encoders
    <3>3. CASE ReceiveCommand(dec, 1) = <<FreshDecoder, Ping>>
      <4>1. dec' = FreshDecoder /\ decoded' = <<Ping>>
        BY <2>3, <2>5, <3>1, <3>3, PingIs, Appended
      <4>. QED  BY <2>1, <2>5, <3>2, <4>1 DEF Pinged, Silent
    <3>4. CASE ReceiveCommand(dec, 1)[2] = None
      <4>1. decoded' = <<>>
        BY <2>3, <2>5, <3>1, <3>4
      <4>. QED  BY <2>1, <2>5, <4>1 DEF Pinged, Silent
    <3>. QED  BY <3>3, <3>4, PingReceived
  <2>. QED  BY <2>4, <2>6, <2>7
<1>3. CASE CommandByteLost
  <2>1. /\ phase = "command" /\ phase' = "command" /\ ~CommandEnded(enc, cmd)
        /\ cmd' = cmd /\ understood' = understood /\ decoded' = decoded
    BY <1>3 DEF CommandByteLost, deviceVars
  <2>2. cmd = Ping => enc.count < 2
    <3>. SUFFICES ASSUME cmd = Ping PROVE enc.count < 2
      OBVIOUS
    <3>1. Encoding(enc, <<>>) /\ enc.count # 2
      BY <2>1, PingIs DEF Encoded, CommandEnded
    <3>. QED  BY <3>1, PingIs DEF Encoding, Encoders
  <2>. QED  BY <2>1, <2>2 DEF Pinged, Silent
<1>4. CASE Answer
  <2>. SUFFICES ASSUME cmd' = Ping PROVE Pinged'
    BY DEF Pinged
  <2>1. /\ phase = "command" /\ phase' = "response" /\ cmd = Ping /\ decoded # <<>>
        /\ resp' \in Answers(Head(decoded)) /\ renc' = FreshEncoder
        /\ decoded' = Tail(decoded) /\ dec' = dec /\ understood' = understood
    BY <1>4 DEF Answer, hostVars
  <2>2. decoded = <<Ping>> /\ dec = FreshDecoder /\ understood = <<>>
    BY <2>1 DEF Pinged, Silent
  <2>3. resp' = Pong /\ decoded' = <<>>
    BY <2>1, <2>2, Lengths, PingAnswered
  <2>4. renc'.count = 0
    BY <2>1, FreshEncoderIs
  <2>. QED  BY <2>1, <2>2, <2>3, <2>4 DEF Pinged, Silent
<1>5. CASE Restart
  <2>1. decoded' = <<>> /\ phase' = "command" /\ phase = "command" /\ cmd' = cmd
        /\ understood' = understood /\ decoded # <<>> /\ Head(decoded) = Panic
    BY <1>5 DEF Restart, hostVars
  <2>2. cmd # Ping
    BY <2>1, PingIs, Lengths DEF Pinged
  <2>. QED  BY <2>1, <2>2 DEF Pinged
<1>6. CASE ResponseByte \/ ResponseByteLost
  <2>. SUFFICES ASSUME cmd' = Ping PROVE Pinged'
    BY DEF Pinged
  <2>1. /\ phase = "response" /\ phase' = "response" /\ ~ResponseEnded(renc, resp)
        /\ cmd = Ping /\ dec' = dec /\ decoded' = decoded /\ resp' = resp
        /\ renc' = NextOfResponse(renc, resp)[1]
    BY <1>6 DEF ResponseByte, ResponseByteLost, hostVars
  <2>2. resp = Pong /\ dec = FreshDecoder /\ decoded = <<>>
    BY <2>1 DEF Pinged
  <2>3. renc \in Encoders /\ renc.count \in {0, 1} /\ ~renc.sent_escape
    <3>1. REncoding(renc, <<>>) /\ renc.count # 2
      BY <2>1, <2>2, PongIs, Lengths DEF Encoded, ResponseEnded
    <3>. QED  BY <3>1, Lengths DEF REncoding, Encoders
  <2>4. /\ renc'.count = renc.count + 1
        /\ NextOfResponse(renc, resp)[2] = IF renc.count = 0 THEN ESCAPE_CHAR ELSE 17
    BY <2>1, <2>2, <2>3, PongIs, HeaderIsRendered
  <2>5. CASE understood' = understood /\ rdec' = rdec
    <3>1. renc.count = 0 => Silent
      BY <2>1 DEF Pinged
    <3>2. renc.count = 1 => Silent \/ Other
      BY <2>1 DEF Pinged
    <3>. QED  BY <2>1, <2>2, <2>3, <2>4, <2>5, <3>1, <3>2 DEF Pinged, Silent, Other
  <2>6. CASE ResponseByte
    <3>1. PICK taken, b : /\ b = NextOfResponse(renc, resp)[2]
                          /\ taken = ReceiveResponse(rdec, b)
                          /\ rdec' = taken[1]
                          /\ understood' = IF taken[2] = None THEN understood
                                           ELSE Append(understood, taken[2])
      BY <2>6 DEF ResponseByte
    <3>2. CASE renc.count = 0
      <4>1. understood = <<>> /\ taken[2] # Pong
        BY <2>1, <2>4, <3>1, <3>2, PongReceived DEF Pinged, Silent
      <4>2. understood' = <<>> \/ \E x : x # Pong /\ understood' = <<x>>
        BY <3>1, <4>1, Appended
      <4>3. renc'.count = 1
        BY <2>4, <3>2
      <4>. QED  BY <2>1, <2>2, <4>2, <4>3 DEF Pinged, Silent, Other
    <3>3. CASE renc.count = 1
      <4>1. renc'.count = 2 /\ b = 17
        BY <2>4, <3>1, <3>3
      <4>2. understood = <<>> \/ \E x : x # Pong /\ understood = <<x>>
        BY <2>1, <3>3 DEF Pinged, Silent, Other
      <4>3. taken = <<FreshResponseDecoder, Pong>> \/ taken[2] # Pong
        BY <3>1, <4>1, PongReceived
      <4>4. (Silent \/ Other \/ Cleared \/ Two)'
        <5>1. CASE taken[2] = None
          BY <3>1, <4>2, <5>1 DEF Silent, Other
        <5>2. CASE taken[2] # None /\ understood = <<>>
          <6>1. understood' = <<taken[2]>>
            BY <3>1, <5>2, Appended
          <6>2. CASE taken = <<FreshResponseDecoder, Pong>>
            <7>1. taken[1] = FreshResponseDecoder /\ taken[2] = Pong
              BY <6>2
            <7>. QED  BY <3>1, <6>1, <7>1, Zenon DEF Cleared
          <6>3. CASE taken[2] # Pong
            BY <6>1, <6>3 DEF Other
          <6>. QED  BY <4>3, <6>2, <6>3
        <5>3. CASE taken[2] # None /\ \E x : x # Pong /\ understood = <<x>>
          <6>1. PICK x : understood = <<x>>
            BY <5>3
          <6>2. understood' = <<x, taken[2]>>
            BY <3>1, <5>3, <6>1, Appended
          <6>. QED  BY <6>2 DEF Two
        <5>. QED  BY <4>2, <5>1, <5>2, <5>3
      <4>. QED  BY <2>1, <2>2, <4>1, <4>4 DEF Pinged
    <3>. QED  BY <2>3, <3>2, <3>3
  <2>7. CASE ResponseByteLost
    BY <2>5, <2>7 DEF ResponseByteLost, hostVars
  <2>. QED  BY <1>6, <2>6, <2>7
<1>7. CASE ResponseSent
  <2>1. /\ phase = "response" /\ phase' = "command" /\ UNCHANGED <<hostVars, deviceVars>>
        /\ CommandEnded(enc, cmd)
    BY <1>7 DEF ResponseSent, Encoded
  <2>2. cmd = Ping => ~(enc.count < 2) /\ decoded = <<>>
    BY <2>1, PingIs, Lengths DEF Pinged, CommandEnded
  <2>. QED  BY <2>1, <2>2 DEF Pinged, Silent, Other, Cleared, Two, hostVars, deviceVars
<1>8. CASE Content \/ GiveUp
  BY <1>8 DEF Content, GiveUp, Pinged
<1>9. CASE UNCHANGED vars
  BY <1>9 DEF vars, Pinged, Silent, Other, Cleared, Two, hostVars, deviceVars
<1>. QED  BY <1>1, <1>2, <1>3, <1>4, <1>5, <1>6, <1>7, <1>8, <1>9 DEF Next

LEMMA FreshIs == FreshResponseDecoder = RDecoder("Loading", <<>>, 0)
  BY DEF FreshResponseDecoder, RDecoder

\* An exchange in which nothing was lost leaves both decoders as new.
LEMMA InStepAtTheEnd ==
  ASSUME Encoded, InStep, intact, Over
  PROVE  dec = FreshDecoder /\ rdec = FreshResponseDecoder
<1>1. phase = "command" /\ CommandEnded(enc, cmd) /\ decoded = <<>>
  BY DEF Over
<1>2. CASE Answered
  BY <1>2 DEF Answered
<1>3. CASE Sent
  <2>1. cmd.kind = "Reset"
    BY <1>1, <1>3, Lengths DEF Sent, Made
  <2>2. KnownLen(cmd) = 0
    BY <2>1 DEF KnownLen, Unbounded
  <2>. QED  BY <1>3, <2>2, FreshIs DEF Sent
<1>. QED  BY <1>1, <1>2, <1>3 DEF InStep

\* So does an answered PING.
LEMMA PongAtTheEnd ==
  ASSUME Pinged, Over, AsExpected, cmd = Ping
  PROVE  dec = FreshDecoder /\ rdec = FreshResponseDecoder
<1>1. phase # "host"
  BY DEF Over
<1>2. Len(understood) = 1 /\ understood[1] = Pong
  BY PingIs, PingAnswered DEF AsExpected
<1>3. ~Silent /\ ~Other /\ ~Two
  BY <1>2, Lengths DEF Silent, Other, Two
<1>. QED  BY <1>1, <1>3 DEF Pinged, Cleared

LEMMA InStepKept ==
  ASSUME Encoded, Pinged, InStep, [Next]_vars, Encoded'
  PROVE  InStep'
<1>. SUFFICES ASSUME intact' PROVE InStep'
  BY DEF InStep
<1>1. CASE SendCommand
  <2>1. PICK c \in Commands :
          /\ Encodable(c) /\ cmd' = c
          /\ rdec' = IF c.kind \in Unbounded THEN SetPayloadLen(rdec, c.fields[2][1]) ELSE rdec
    BY <1>1 DEF SendCommand
  <2>2. /\ phase = "host" /\ phase' = "command" /\ enc' = FreshEncoder /\ understood' = <<>>
        /\ dec' = dec /\ decoded' = decoded /\ intact
    BY <1>1 DEF SendCommand, deviceVars
  <2>3. dec = FreshDecoder /\ rdec = RDecoder("Loading", <<>>, 0) /\ decoded = <<>>
    BY <2>2, FreshIs DEF InStep, Encoded
  <2>4. Arguments(c) \in Seq(Byte) /\ Len(Arguments(c)) \in Nat
    BY <2>1, Sendable, GoodArguments
  <2>5. dec' = Following(enc', Arguments(cmd'))
    BY <2>1, <2>2, <2>3, <2>4, FreshFollows
  <2>6. ~CommandEnded(enc', cmd')
    BY <2>1, <2>2, <2>4, FreshEncoderIs DEF CommandEnded
  <2>7. rdec' = RDecoder("Loading", <<>>, KnownLen(cmd'))
    <3>1. CASE c.kind \in Unbounded
      <4>1. PICK x : x = c.fields[2][1]
        OBVIOUS
      <4>2. rdec.needed = 0 /\ [rdec EXCEPT !.needed = x + 1] = RDecoder("Loading", <<>>, x + 1)
        BY <2>3, RDecoderIs
      <4>3. SetPayloadLen(rdec, x) = RDecoder("Loading", <<>>, x + 1)
        BY <4>2, Zenon DEF SetPayloadLen
      <4>. QED  BY <2>1, <3>1, <4>1, <4>3, Zenon DEF KnownLen
    <3>2. CASE c.kind \notin Unbounded
      BY <2>1, <2>3, <3>2, Zenon DEF KnownLen
    <3>. QED  BY <3>1, <3>2
  <2>8. Sending'
    BY <2>2, <2>3, <2>5, <2>7 DEF Sending
  <2>. QED  BY <2>2, <2>6, <2>8 DEF InStep
<1>2. CASE CommandByte
  <2>1. /\ phase = "command" /\ phase' = "command" /\ ~CommandEnded(enc, cmd) /\ intact
        /\ cmd' = cmd /\ understood' = understood /\ rdec' = rdec
    BY <1>2 DEF CommandByte
  <2>2. PICK taken : /\ taken = ReceiveCommand(dec, NextOfCommand(enc, cmd)[2])
                     /\ dec' = taken[1]
                     /\ decoded' = IF taken[2] = None \/ taken[2].kind = "Reset" THEN decoded
                                   ELSE Append(decoded, taken[2])
    BY <1>2 DEF CommandByte
  <2>3. enc' = NextOfCommand(enc, cmd)[1]
    BY <1>2 DEF CommandByte
  <2>4. /\ dec = Following(enc, Arguments(cmd)) /\ decoded = <<>>
        /\ rdec = RDecoder("Loading", <<>>, KnownLen(cmd)) /\ understood = <<>>
    BY <2>1 DEF InStep, Sending
  <2>5. GoodCommand(cmd) /\ Encoding(enc, Arguments(cmd)) /\ cmd # None
    BY <2>1, GoodArguments DEF Encoded
  <2>6. taken = IF CommandEnded(enc', cmd) THEN <<FreshDecoder, cmd>>
                ELSE <<Following(enc', Arguments(cmd)), None>>
    BY <2>1, <2>2, <2>3, <2>4, <2>5, CommandGoesOn
  <2>7. CASE CommandEnded(enc', cmd)
    <3>1. taken[1] = FreshDecoder /\ taken[2] = cmd
      BY <2>6, <2>7
    <3>2. dec' = FreshDecoder /\ decoded' = Made(cmd)
      BY <2>2, <2>4, <2>5, <3>1, Appended DEF Made
    <3>3. Sent'
      BY <2>1, <2>4, <3>2 DEF Sent
    <3>. QED  BY <2>1, <2>7, <3>3 DEF InStep
  <2>8. CASE ~CommandEnded(enc', cmd)
    <3>1. taken[1] = Following(enc', Arguments(cmd)) /\ taken[2] = None
      BY <2>6, <2>8
    <3>2. Sending'
      BY <2>1, <2>2, <2>4, <3>1 DEF Sending
    <3>. QED  BY <2>1, <2>8, <3>2 DEF InStep
  <2>. QED  BY <2>7, <2>8
<1>3. CASE CommandByteLost \/ ResponseByteLost
  BY <1>3 DEF CommandByteLost, ResponseByteLost
<1>4. CASE Answer
  <2>1. /\ phase = "command" /\ phase' = "response" /\ CommandEnded(enc, cmd) /\ intact
        /\ decoded # <<>> /\ resp' \in Answers(Head(decoded)) /\ renc' = FreshEncoder
        /\ decoded' = Tail(decoded) /\ dec' = dec
        /\ cmd' = cmd /\ understood' = understood /\ rdec' = rdec
    BY <1>4 DEF Answer, hostVars
  <2>2. Sent
    BY <2>1 DEF InStep, Answered
  <2>3. decoded = <<cmd>>
    BY <2>1, <2>2 DEF Sent, Made
  <2>4. resp' \in Answers(cmd) /\ decoded' = <<>>
    BY <2>1, <2>3, Lengths
  <2>5. resp' \in Responses
    BY <2>1 DEF Encoded
  <2>6. PICK n \in Nat : n = Len(Payload(resp'))
    <3>1. Payload(resp') \in Seq(Byte)
      BY <2>5, Sendable, ResponseParsed DEF GoodResponse
    <3>. QED  BY <3>1
  <2>7. RFollowing(renc', Carrier(resp'), n, KnownLen(cmd))
          = RDecoder("Loading", <<>>, KnownLen(cmd))
    BY <2>1, RFollows, FreshEncoderIs
  <2>8. ~ResponseEnded(renc', resp')
    BY <2>1, <2>6, FreshEncoderIs DEF ResponseEnded
  <2>9. Answering'
    BY <2>1, <2>2, <2>4, <2>6, <2>7, Zenon DEF Answering, Sent
  <2>. QED  BY <2>1, <2>4, <2>8, <2>9 DEF InStep
<1>5. CASE Restart
  <2>1. phase = "command" /\ CommandEnded(enc, cmd) /\ intact /\ decoded # <<>>
        /\ Head(decoded) = Panic
    BY <1>5 DEF Restart
  <2>2. decoded = <<cmd>>
    BY <2>1 DEF InStep, Answered, Sent, Made
  <2>3. cmd # Panic
    BY <2>1, GoodArguments DEF Encoded
  <2>. QED  BY <2>1, <2>2, <2>3, Lengths
<1>6. CASE ResponseByte
  <2>1. /\ phase = "response" /\ phase' = "response" /\ ~ResponseEnded(renc, resp) /\ intact
        /\ cmd' = cmd /\ resp' = resp /\ dec' = dec /\ decoded' = decoded
        /\ renc' = NextOfResponse(renc, resp)[1]
    BY <1>6 DEF ResponseByte
  <2>2. PICK taken : /\ taken = ReceiveResponse(rdec, NextOfResponse(renc, resp)[2])
                     /\ rdec' = taken[1]
                     /\ understood' = IF taken[2] = None THEN understood
                                      ELSE Append(understood, taken[2])
    BY <1>6 DEF ResponseByte
  <2>3. /\ resp \in Answers(cmd) /\ dec = FreshDecoder /\ decoded = <<>>
        /\ rdec = RFollowing(renc, Carrier(resp), Len(Payload(resp)), KnownLen(cmd))
        /\ understood = <<>>
    BY <2>1 DEF InStep, Answering
  <2>4. GoodCommand(cmd) /\ resp \in Responses /\ REncoding(renc, Payload(resp))
    BY <2>1 DEF Encoded
  <2>5. /\ resp.kind \in Unbounded => KnownLen(cmd) = Len(Payload(resp)) + 1
        /\ resp.kind \in DOMAIN PayloadLen => KnownLen(cmd) = 0
    BY <2>3, <2>4, AnswerKnown
  <2>6. taken = IF ResponseEnded(renc', resp) THEN <<FreshResponseDecoder, resp>>
                ELSE <<RFollowing(renc', Carrier(resp), Len(Payload(resp)), KnownLen(cmd)), None>>
    BY <2>1, <2>2, <2>3, <2>4, <2>5, ResponseGoesOn
  <2>7. resp # None
    <3>1. IsResponse(resp)
      BY <2>4, Sendable DEF GoodResponse
    <3>. QED  BY <3>1, FieldsOfResponse, ResultsDiffer
  <2>8. CASE ResponseEnded(renc', resp)
    <3>1. taken[1] = FreshResponseDecoder /\ taken[2] = resp
      BY <2>6, <2>8
    <3>2. understood' = <<resp>>
      BY <2>2, <2>3, <2>7, <3>1, Appended
    <3>3. Answered'
      BY <2>1, <2>2, <2>3, <3>1, <3>2 DEF Answered
    <3>. QED  BY <2>1, <2>3, <2>8, <3>3 DEF InStep
  <2>9. CASE ~ResponseEnded(renc', resp)
    <3>1. /\ taken[1] = RFollowing(renc', Carrier(resp), Len(Payload(resp)), KnownLen(cmd))
          /\ taken[2] = None
      BY <2>6, <2>9
    <3>2. Answering'
      BY <2>1, <2>2, <2>3, <3>1 DEF Answering
    <3>. QED  BY <2>1, <2>3, <2>9, <3>2 DEF InStep
  <2>. QED  BY <2>8, <2>9
<1>7. CASE ResponseSent
  <2>1. /\ phase = "response" /\ phase' = "command" /\ ResponseEnded(renc, resp) /\ intact
        /\ UNCHANGED <<cmd, enc, dec, decoded, rdec, understood, resp>>
    BY <1>7 DEF ResponseSent, hostVars, deviceVars
  <2>2. Answered /\ CommandEnded(enc, cmd)
    BY <2>1 DEF InStep, Encoded
  <2>3. Answered' /\ CommandEnded(enc', cmd')
    BY <2>1, <2>2 DEF Answered
  <2>. QED  BY <2>1, <2>3 DEF InStep
<1>8. CASE Content
  <2>1. /\ Over /\ AsExpected /\ (intact \/ cmd = Ping)
        /\ phase' = "host" /\ dec' = dec /\ rdec' = rdec
    BY <1>8 DEF Content, deviceVars
  <2>2. dec = FreshDecoder /\ rdec = FreshResponseDecoder
    BY <2>1, InStepAtTheEnd, PongAtTheEnd
  <2>. QED  BY <2>1, <2>2 DEF InStep
<1>9. CASE GiveUp
  <2>1. Over /\ intact /\ phase' = "host" /\ dec' = dec /\ rdec' = ResetDecoder(rdec)
    BY <1>9 DEF GiveUp, deviceVars
  <2>2. dec = FreshDecoder /\ rdec = FreshResponseDecoder
    BY <2>1, InStepAtTheEnd
  <2>3. ResetDecoder(rdec) = FreshResponseDecoder
    <3>1. [rdec EXCEPT !.buffer = <<>>] = RDecoder("Loading", <<>>, 0)
      BY <2>2, FreshIs, RDecoderIs
    <3>. QED  BY <3>1, FreshIs, Zenon DEF ResetDecoder
  <2>. QED  BY <2>1, <2>2, <2>3 DEF InStep
<1>10. CASE UNCHANGED vars
  <2>1. UNCHANGED <<phase, cmd, enc, dec, decoded, resp, renc, rdec, understood, intact>>
    BY <1>10 DEF vars, hostVars, deviceVars
  <2>2. /\ Sent' <=> Sent
        /\ Answered' <=> Answered
        /\ Sending' <=> Sending
        /\ Answering' <=> Answering
    BY <2>1 DEF Sent, Answered, Sending, Answering
  <2>. QED  BY <2>1, <2>2 DEF InStep
<1>. QED  BY <1>1, <1>2, <1>3, <1>4, <1>5, <1>6, <1>7, <1>8, <1>9, <1>10 DEF Next

-----------------------------------------------------------------------------

\* Every state that the ends reach satisfies the invariant.
THEOREM CodecInvariance == Spec => []CodecInv
<1>1. Init => CodecInv
  <2>. SUFFICES ASSUME Init PROVE CodecInv
    OBVIOUS
  <2>1. phase = "host" /\ decoded = <<>> /\ dec = FreshDecoder /\ rdec = FreshResponseDecoder
    BY DEF Init
  <2>. QED  BY <2>1 DEF CodecInv, Encoded, Pinged, InStep
<1>2. CodecInv /\ [Next]_vars => CodecInv'
  <2>. SUFFICES ASSUME CodecInv, [Next]_vars PROVE CodecInv'
    OBVIOUS
  <2>1. Encoded'
    BY EncodedKept DEF CodecInv
  <2>2. Pinged'
    BY PingedKept DEF CodecInv
  <2>3. InStep'
    BY <2>1, InStepKept DEF CodecInv
  <2>. QED  BY <2>1, <2>2, <2>3 DEF CodecInv
<1>. QED  BY <1>1, <1>2, PTL DEF Spec

\* Of every command that the host may encode, whatever bytes it is made of and whatever
\* was exchanged before, the device decodes exactly that command, unless a byte is lost.
THEOREM CommandsAreDecoded == Spec => []CommandsArrive
<1>1. CodecInv => CommandsArrive
  <2>. SUFFICES ASSUME InStep, intact, phase = "command", CommandEnded(enc, cmd),
                       understood = <<>>
                PROVE  decoded = IF cmd.kind = "Reset" THEN <<>> ELSE <<cmd>>
    BY DEF CodecInv, CommandsArrive
  <2>1. ~Answered
    BY Lengths DEF Answered
  <2>. QED  BY <2>1 DEF InStep, Sent, Made
<1>. QED  BY <1>1, CodecInvariance, PTL

\* And of every response that the device may encode the host decodes that one response.
THEOREM ResponsesAreDecoded == Spec => []ResponsesArrive
<1>1. CodecInv => ResponsesArrive
  BY DEF CodecInv, InStep, Answered, ResponsesArrive
<1>. QED  BY <1>1, CodecInvariance, PTL

\* Whatever bytes were lost, in whatever states they left the two decoders, both are as
\* new when the host has the one PONG that it waits for.
THEOREM PongResets == Spec => []PongClears
<1>1. CodecInv => PongClears
  BY DEF CodecInv, InStep, PongClears
<1>. QED  BY <1>1, CodecInvariance, PTL

======================================================================
