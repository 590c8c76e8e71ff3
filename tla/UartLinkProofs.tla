--------------------------- MODULE UartLinkProofs ---------------------------
(***************************************************************************)
(* Theorems about UartLink, for buffers of any length, packets of any      *)
(* size, any number of pauses and any set of commands.                     *)
(*                                                                         *)
(* LInv gives the types and the order of the pieces; LServed adds, for a   *)
(* command without a pause, where the decoder is in it; SInv follows every *)
(* byte on the line, whatever pauses there are, to the place in a command  *)
(* where it was rendered.                                                  *)
(***************************************************************************)
EXTENDS UartLink, ProtocolProofs

-----------------------------------------------------------------------------
(* Strings.                                                                *)

LEMMA ConcatType ==
  \A S : \A s, t \in Seq(S) : s \o t \in Seq(S) /\ Len(s \o t) = Len(s) + Len(t)
  OBVIOUS

\* The provers find an instance of a law of strings when the law has a name.
Shifts(s, t, u, v) == (s \o (t \o u)) \o v = (s \o t) \o (u \o v)

LEMMA Associative ==
  \A S : \A s, t, u, v \in Seq(S) : Shifts(s, t, u, v)
<1>. SUFFICES ASSUME NEW S, NEW s \in Seq(S), NEW t \in Seq(S), NEW u \in Seq(S),
                     NEW v \in Seq(S)
              PROVE  (s \o (t \o u)) \o v = (s \o t) \o (u \o v)
  BY DEF Shifts
<1>1. PICK w \in Seq(S) : w = s \o t
  BY ConcatType
<1>2. (w \o u) \o v = w \o (u \o v)
  BY ConcatAssociative
<1>3. (s \o t) \o u = s \o (t \o u)
  BY ConcatAssociative
<1>. QED  BY <1>1, <1>2, <1>3, Zenon

LEMMA SameString ==
  \A S : \A s, t \in Seq(S) :
    Len(s) = Len(t) /\ (\A i \in 1 .. Len(s) : s[i] = t[i]) => s = t
  OBVIOUS

LEMMA FirstType ==
  ASSUME NEW S, NEW s \in Seq(S), NEW n \in Nat
  PROVE  /\ First(s, n) \in Seq(S)
         /\ Len(First(s, n)) = Lesser(n, Len(s))
         /\ \A i \in 1 .. Lesser(n, Len(s)) : First(s, n)[i] = s[i]
<1>. DEFINE m == Lesser(n, Len(s))
<1>1. m \in Nat /\ m <= Len(s)
  BY DEF Lesser
<1>. HIDE DEF m
<1>2. \A i \in 1 .. m : s[i] \in S
  BY <1>1
<1>3. /\ SubSeq(s, 1, m) \in Seq(S)
      /\ Len(SubSeq(s, 1, m)) = m
      /\ \A i \in 1 .. m : SubSeq(s, 1, m)[i] = s[i]
  BY <1>1, <1>2, SubSeqProperties
<1>. QED  BY <1>3 DEF First, m

\* What is taken of a string and what is left of it are the string.
LEMMA FirstAndRest ==
  ASSUME NEW S, NEW s \in Seq(S), NEW n \in Nat, n <= Len(s)
  PROVE  LET rest == SubSeq(s, n + 1, Len(s))
         IN  /\ rest \in Seq(S)
             /\ Len(First(s, n)) = n
             /\ First(s, n) \o rest = s
<1>. DEFINE rest == SubSeq(s, n + 1, Len(s))
            head == First(s, n)
<1>1. /\ rest \in Seq(S) /\ Len(rest) = Len(s) - n
      /\ \A i \in 1 .. Len(s) - n : rest[i] = s[n + i]
  OBVIOUS
<1>2. /\ head \in Seq(S) /\ Len(head) = n
      /\ \A i \in 1 .. n : head[i] = s[i]
  <2>1. Lesser(n, Len(s)) = n
    BY DEF Lesser
  <2>. QED  BY <2>1, FirstType
<1>. HIDE DEF rest, head
<1>3. /\ head \o rest \in Seq(S) /\ Len(head \o rest) = Len(s)
      /\ \A i \in 1 .. Len(s) : (head \o rest)[i] = s[i]
  BY <1>1, <1>2
<1>. DEFINE whole == head \o rest
<1>. HIDE DEF whole
<1>4. whole = s
  <2>1. /\ whole \in Seq(S) /\ Len(whole) = Len(s)
        /\ \A i \in 1 .. Len(s) : whole[i] = s[i]
    BY <1>3 DEF whole
  <2>. QED  BY <2>1
<1>. QED  BY <1>1, <1>2, <1>4 DEF whole, rest, head

\* The first bytes of two strings one after the other.
LEMMA FirstOfConcat ==
  ASSUME NEW S, NEW s \in Seq(S), NEW t \in Seq(S), NEW n \in Nat
  PROVE  /\ n <= Len(s) => First(s \o t, n) = First(s, n)
         /\ n >= Len(s) => First(s \o t, n) = s \o First(t, n - Len(s))
<1>. DEFINE w == s \o t
<1>1. /\ w \in Seq(S) /\ Len(w) = Len(s) + Len(t)
      /\ \A i \in 1 .. Len(s) : w[i] = s[i]
      /\ \A i \in 1 .. Len(t) : w[Len(s) + i] = t[i]
  OBVIOUS
<1>. HIDE DEF w
<1>2. /\ First(w, n) \in Seq(S)
      /\ Len(First(w, n)) = Lesser(n, Len(w))
      /\ \A i \in 1 .. Lesser(n, Len(w)) : First(w, n)[i] = w[i]
  BY <1>1, FirstType
<1>3. CASE n <= Len(s)
  <2>1. Lesser(n, Len(w)) = n /\ Lesser(n, Len(s)) = n
    BY <1>1, <1>3 DEF Lesser
  <2>2. /\ First(s, n) \in Seq(S) /\ Len(First(s, n)) = n
        /\ \A i \in 1 .. n : First(s, n)[i] = s[i]
    BY <2>1, FirstType
  <2>. DEFINE a == First(w, n)
              b == First(s, n)
  <2>3. /\ a \in Seq(S) /\ b \in Seq(S) /\ Len(a) = n /\ Len(b) = n
        /\ \A i \in 1 .. n : a[i] = b[i]
    BY <1>1, <1>2, <1>3, <2>1, <2>2
  <2>. HIDE DEF a, b
  <2>4. a = b
    BY <2>3
  <2>5. n = Len(s) => First(w, n) = s \o First(t, n - Len(s))
    <3>. SUFFICES ASSUME n = Len(s)
                  PROVE  First(w, n) = s \o First(t, n - Len(s))
      OBVIOUS
    <3>1. Lesser(0, Len(t)) = 0 /\ n - Len(s) = 0
      BY DEF Lesser
    <3>2. First(t, 0) \in Seq(S) /\ Len(First(t, 0)) = 0
      BY <3>1, FirstType
    <3>3. First(t, n - Len(s)) = <<>>
      BY <3>1, <3>2
    <3>4. s \o First(t, n - Len(s)) = s
      BY <3>3, ConcatEmptySeq
    <3>5. a = s
      BY <1>1, <2>3, <2>2 DEF b
    <3>. QED  BY <3>4, <3>5 DEF a
  <2>. QED  BY <1>3, <2>4, <2>5 DEF a, b, w
<1>4. CASE n > Len(s)
  <2>. DEFINE k == n - Len(s)
              m == Lesser(k, Len(t))
              f == First(t, k)
              a == First(w, n)
              b == s \o f
  <2>1. k \in Nat /\ Lesser(n, Len(w)) = Len(s) + m /\ m \in Nat /\ m <= Len(t)
    BY <1>1, <1>4 DEF Lesser
  <2>2. f \in Seq(S) /\ Len(f) = m /\ \A i \in 1 .. m : f[i] = t[i]
    BY <2>1, FirstType
  <2>. HIDE DEF f, m, k
  <2>3. /\ b \in Seq(S) /\ Len(b) = Len(s) + m
        /\ \A i \in 1 .. Len(s) : b[i] = s[i]
        /\ \A i \in 1 .. m : b[Len(s) + i] = f[i]
    BY <2>1, <2>2
  <2>. HIDE DEF b
  <2>4. a \in Seq(S) /\ Len(a) = Len(s) + m
        /\ \A i \in 1 .. Len(s) + m : a[i] = w[i]
    BY <1>2, <2>1
  <2>. HIDE DEF a
  <2>5. ASSUME NEW i \in 1 .. Len(s) + m PROVE a[i] = b[i]
    <3>1. CASE i <= Len(s)
      BY <1>1, <2>1, <2>3, <2>4, <3>1
    <3>2. CASE i > Len(s)
      <4>1. i - Len(s) \in 1 .. m /\ i = Len(s) + (i - Len(s))
        BY <2>1, <3>2
      <4>2. b[i] = t[i - Len(s)]
        BY <2>2, <2>3, <4>1
      <4>3. w[i] = t[i - Len(s)]
        BY <1>1, <2>1, <4>1
      <4>. QED  BY <2>4, <4>2, <4>3
    <3>. QED  BY <2>1, <3>1, <3>2
  <2>6. a = b
    BY <2>3, <2>4, <2>5
  <2>. QED  BY <1>4, <2>6 DEF a, b, f, k, w
<1>. QED  BY <1>3, <1>4

-----------------------------------------------------------------------------
(* The inductive invariant.  Forms says of what the variables are made;     *)
(* Turns, whose turn it is: at most one of the driver, the alarm and the    *)
(* bootloader acts on a callback; Sides, where host and bootloader are in   *)
(* their exchange, as long as no pause has come between them.               *)

Forms ==
  /\ fifo \in Seq(Byte) /\ sent \in Seq(Byte) /\ rx_client_buffer \in Seq(Byte)
  /\ uart \in [status : {"off", "on", "aborting", "failed"}, want : Nat, bytes : Seq(Byte)]
  /\ enc \in Encoders
  /\ host # "idle" => cmd \in Commands /\ Encodable(cmd)
  /\ host = "sending" => enc.count < Len(Arguments(cmd)) + 2

Turns ==
  /\ uart.status # "off" <=> client = "listening"
  /\ client # "listening" => ~alarm
  /\ uart.status = "aborting" => ~alarm
  /\ client \in {"decoding", "serving", "transmitting"} => rx_buffer
  /\ uart.status = "on" /\ ~alarm => uart = Receive(1) /\ rx_client_buffer = <<>>

\* The bootloader has nothing of the command, or all of it.
NothingTaken == client = "transmitting" \/ (uart.status = "on" /\ ~alarm)
AllTaken     == client \in {"decoding", "serving"} \/ uart.status = "aborting"

Sides ==
  ~gap =>
    /\ NothingTaken => \/ fifo = sent /\ host # "idle"
                       \/ fifo = <<>> /\ host # "sending"
    /\ AllTaken => host = "waiting" /\ fifo = <<>>
    /\ alarm => host # "idle"

LInv == TypeOK /\ Forms /\ Turns /\ Sides /\ InOrder

USE LinkAssumption

LEMMA LInvInit == Init => LInv
<1>. SUFFICES ASSUME Init PROVE LInv
  OBVIOUS
<1>. USE DEF Init
<1>1. TypeOK
  <2>1. /\ {alarm, rx_buffer, gap} \subseteq BOOLEAN
        /\ uart.bytes = <<>> /\ uart.status = "on"
    BY DEF Receive
  <2>2. Len(uart.bytes) <= RX_BUF /\ Len(rx_client_buffer) <= BUF /\ gaps \in 0 .. MaxGaps
    BY <2>1
  <2>. QED  BY <2>1, <2>2 DEF TypeOK
<1>2. Forms
  BY DEF Forms, Receive, FreshEncoder, Encoders
<1>3. Turns
  BY DEF Turns, Receive
<1>4. Sides
  BY DEF Sides, NothingTaken, AllTaken, Receive
<1>5. InOrder
  BY DEF InOrder, Receive
<1>. QED  BY <1>1, <1>2, <1>3, <1>4, <1>5 DEF LInv

-----------------------------------------------------------------------------
(* The host.                                                                *)

\* What the encoder renders next is a byte, and it counts up by at most one.
LEMMA NextByte ==
  ASSUME NEW c \in Commands, Encodable(c), NEW e \in Encoders,
         e.count < Len(Arguments(c)) + 2
  PROVE  LET next == NextOfCommand(e, c)
         IN  /\ next[1] \in Encoders
             /\ next[1].count <= e.count + 1
             /\ next[2] \in Byte
<1>. DEFINE args == Arguments(c)
            n == Len(args)
<1>1. c.kind \in CommandKinds /\ args \in Seq(Byte)
  BY CommandsAssumption, CommandParsed DEF IsCommand
<1>2. CommandCode[c.kind] \in Byte
  BY <1>1, CommandCodes DEF Byte
<1>. USE DEF Encoders
<1>. DEFINE code == CommandCode[c.kind]
<1>. HIDE DEF args, code
<1>3. CASE e.count < n
  <2>1. args[e.count + 1] \in Byte
    BY <1>1, <1>3
  <2>2. NextOfCommand(e, c) = Render(e, args)
    BY <1>3 DEF NextOfCommand, args
  <2>. DEFINE halfway == [e EXCEPT !.sent_escape = TRUE]
              done    == [count |-> e.count + 1, sent_escape |-> FALSE]
              byte    == args[e.count + 1]
  <2>3. \/ NextOfCommand(e, c) = <<halfway, byte>>
        \/ NextOfCommand(e, c) = <<done, byte>>
    BY <2>2 DEF Render
  <2>4. /\ halfway \in Encoders
        /\ halfway.count = e.count
    OBVIOUS
  <2>5. e.count + 1 \in Nat /\ e.count <= e.count + 1
    OBVIOUS
  <2>6. /\ done \in Encoders
        /\ done.count = e.count + 1
    BY <2>5
  <2>. HIDE DEF halfway, done, byte
  <2>. QED  BY <2>1, <2>3, <2>4, <2>5, <2>6 DEF byte
<1>4. CASE ~(e.count < n)
  <2>1. NextOfCommand(e, c) = RenderCode(e, e.count - n, code)
    BY <1>4 DEF NextOfCommand, args, code
  <2>. QED  BY <1>2, <2>1 DEF RenderCode, ESCAPE_CHAR, Byte, code
<1>. QED  BY <1>3, <1>4

-----------------------------------------------------------------------------
(* What the copies preserve.                                               *)

\* InOrder, of the client's buffer, of what a receive holds and of what waits.
Ordered(b, u, f, s) ==
  IF Len(b) < BUF THEN b \o u \o f = s ELSE b = First(s, BUF)

\* The receive takes the first bytes of what waits.
LEMMA OrderedTake ==
  ASSUME NEW b \in Seq(Byte), NEW u \in Seq(Byte), NEW f \in Seq(Byte), NEW s \in Seq(Byte),
         NEW n \in Nat, n <= Len(f), Ordered(b, u, f, s)
  PROVE  Ordered(b, u \o First(f, n), SubSeq(f, n + 1, Len(f)), s)
<1>2. PICK head \in Seq(Byte), rest \in Seq(Byte) :
        head = First(f, n) /\ rest = SubSeq(f, n + 1, Len(f)) /\ head \o rest = f
  BY FirstAndRest, FirstType
<1>3. (b \o (u \o head)) \o rest = (b \o u) \o f
  <2>1. Shifts(b, u, head, rest)
    BY Associative, Zenon
  <2>. QED  BY <1>2, <2>1, Zenon DEF Shifts
<1>4. Len(b) < BUF => (b \o (u \o head)) \o rest = s
  BY <1>3, Zenon DEF Ordered
<1>5. ~(Len(b) < BUF) => b = First(s, BUF)
  BY Zenon DEF Ordered
<1>. QED  BY <1>2, <1>4, <1>5, Zenon DEF Ordered

\* What a receive holds is copied, as far as there is room.
LEMMA OrderedCopy ==
  ASSUME NEW b \in Seq(Byte), NEW u \in Seq(Byte), NEW f \in Seq(Byte), NEW s \in Seq(Byte),
         Len(b) <= BUF, Ordered(b, u, f, s)
  PROVE  LET copied == b \o First(u, BUF - Len(b))
         IN  /\ copied \in Seq(Byte)
             /\ Len(copied) <= BUF
             /\ Ordered(copied, <<>>, f, s)
<1>. DEFINE k == BUF - Len(b)
            g == First(u, k)
            copied == b \o g
<1>1. k \in Nat /\ BUF \in Nat
  OBVIOUS
<1>2. g \in Seq(Byte) /\ Len(g) = Lesser(k, Len(u))
  BY <1>1, FirstType
<1>3. copied \in Seq(Byte) /\ Len(copied) = Len(b) + Len(g)
  BY <1>2, ConcatType
<1>4. Len(copied) <= BUF
  BY <1>2, <1>3 DEF Lesser
<1>. DEFINE uf == u \o f
<1>5. uf \in Seq(Byte) /\ b \o uf = (b \o u) \o f
  BY ConcatType, ConcatAssociative
<1>6. CASE Len(b) < BUF /\ Len(u) < k
  <2>1. g = u
    <3>1. Lesser(k, Len(u)) = Len(u)
      BY <1>1, <1>6 DEF Lesser
    <3>2. g \in Seq(Byte) /\ Len(g) = Len(u) /\ \A i \in 1 .. Len(u) : g[i] = u[i]
      BY <1>1, <3>1, FirstType
    <3>. HIDE DEF g
    <3>. QED  BY <3>2, SameString, Zenon
  <2>2. Len(copied) < BUF
    BY <1>2, <1>3, <1>6 DEF Lesser
  <2>3. copied \o <<>> = copied
    BY <1>3, ConcatEmptySeq
  <2>4. (copied \o <<>>) \o f = s
    BY <1>6, <2>1, <2>3, Zenon DEF Ordered
  <2>. HIDE DEF copied
  <2>5. Ordered(copied, <<>>, f, s)
    BY <2>2, <2>4, Zenon DEF Ordered
  <2>. QED  BY <1>3, <1>4, <2>5 DEF copied
<1>7. CASE Len(b) < BUF /\ ~(Len(u) < k)
  <2>. HIDE DEF copied, g
  <2>1. Len(copied) = BUF
    <3>1. Lesser(k, Len(u)) = k
      BY <1>1, <1>7 DEF Lesser
    <3>. QED  BY <1>1, <1>2, <1>3, <3>1
  <2>. USE DEF copied, g
  <2>2. First(b \o uf, BUF) = b \o First(uf, k)
    BY <1>1, <1>5, FirstOfConcat
  <2>3. First(uf, k) = g
    BY <1>1, <1>7, FirstOfConcat
  <2>4. b \o uf = s
    BY <1>5, <1>7, Zenon DEF Ordered
  <2>5. copied = First(s, BUF)
    BY <2>2, <2>3, <2>4, Zenon
  <2>. HIDE DEF copied
  <2>6. ~(Len(copied) < BUF)
    BY <2>1
  <2>7. Ordered(copied, <<>>, f, s)
    BY <2>5, <2>6, Zenon DEF Ordered
  <2>. QED  BY <1>3, <1>4, <2>7 DEF copied
<1>8. CASE ~(Len(b) < BUF)
  <2>1. k = 0 /\ Lesser(k, Len(u)) = 0
    BY <1>8 DEF Lesser
  <2>2. g = <<>>
    BY <1>2, <2>1
  <2>3. copied = b
    BY <2>2, ConcatEmptySeq
  <2>. HIDE DEF copied
  <2>4. Ordered(copied, <<>>, f, s)
    BY <1>8, <2>3, Zenon DEF Ordered
  <2>. QED  BY <1>3, <1>4, <2>4 DEF copied
<1>. QED  BY <1>6, <1>7, <1>8

\* One byte more is sent, and waits.
LEMMA OrderedSend ==
  ASSUME NEW b \in Seq(Byte), NEW u \in Seq(Byte), NEW f \in Seq(Byte), NEW s \in Seq(Byte),
         NEW x \in Byte, Len(b) <= BUF, Ordered(b, u, f, s)
  PROVE  Ordered(b, u, Append(f, x), Append(s, x))
<1>1. /\ Append(f, x) = f \o <<x>> /\ Append(s, x) = s \o <<x>>
      /\ <<x>> \in Seq(Byte)
  OBVIOUS
<1>2. CASE Len(b) < BUF
  <2>1. b \o u \in Seq(Byte)
    BY ConcatType
  <2>2. (b \o u) \o (f \o <<x>>) = ((b \o u) \o f) \o <<x>>
    BY <1>1, <2>1, ConcatAssociative
  <2>3. (b \o u) \o f = s
    BY <1>2, Zenon DEF Ordered
  <2>. QED  BY <1>1, <1>2, <2>2, <2>3, Zenon DEF Ordered
<1>3. CASE ~(Len(b) < BUF)
  <2>1. b = First(s, BUF) /\ BUF \in Nat
    BY <1>3 DEF Ordered
  <2>2. BUF <= Len(s)
    BY <1>3, <2>1, FirstType DEF Lesser
  <2>3. First(s \o <<x>>, BUF) = First(s, BUF)
    BY <1>1, <2>1, <2>2, FirstOfConcat
  <2>. QED  BY <1>1, <1>3, <2>1, <2>3, Zenon DEF Ordered
<1>. QED  BY <1>2, <1>3

-----------------------------------------------------------------------------
(* The steps.                                                               *)

LEMMA InOrderIs ==
  InOrder <=> (((alarm \/ uart.status = "aborting") /\ ~gap /\ ~Broken)
                 => Ordered(rx_client_buffer, uart.bytes, fifo, sent))
  BY Zenon DEF InOrder, Ordered

\* Another receive is started, of a first byte, and nothing has come.
LEMMA RestartStep ==
  ASSUME LInv, alarm' = FALSE, ReceiveAutomatic(TRUE),
         UNCHANGED <<hostVars, gaps, gap>>,
         fifo' \in Seq(Byte),
         ~gap => (fifo' = sent /\ host # "idle") \/ (fifo' = <<>> /\ host # "sending")
  PROVE  LInv'
<1>. USE DEF LInv, ReceiveAutomatic, Receive, hostVars
<1>1. uart' = Receive(1) /\ uart'.status = "on" /\ uart'.bytes = <<>> /\ uart'.want = 1
  OBVIOUS
<1>2. TypeOK'
  <2>1. /\ alarm' \in BOOLEAN /\ rx_buffer' \in BOOLEAN /\ gap' \in BOOLEAN
        /\ host' \in {"idle", "sending", "waiting"}
    BY DEF TypeOK
  <2>2. /\ Len(uart'.bytes) <= RX_BUF /\ Len(rx_client_buffer') <= BUF
        /\ gaps' \in 0 .. MaxGaps
    BY <1>1 DEF TypeOK
  <2>. QED  BY <1>1, <2>1, <2>2 DEF TypeOK
<1>3. Forms'
  BY DEF Forms
<1>4. Turns'
  BY <1>1 DEF Turns
<1>5. Sides'
  BY <1>1 DEF Sides, NothingTaken, AllTaken
<1>6. InOrder'
  BY <1>1 DEF InOrder
<1>. QED  BY <1>2, <1>3, <1>4, <1>5, <1>6

LEMMA DriverTakesStep ==
  ASSUME LInv, DriverTakes  PROVE LInv'
<1>1. PICK n \in Packets : /\ Takes(n) /\ Len(Taken(n).bytes) < uart.want
                           /\ uart' = Taken(n)
  BY DEF DriverTakes
<1>. DEFINE head == First(fifo, n)
            rest == SubSeq(fifo, n + 1, Len(fifo))
            held == uart.bytes \o head
<1>2. /\ n \in Nat /\ n >= 1 /\ n <= Len(fifo) /\ uart.status = "on"
      /\ fifo' = rest /\ Len(uart.bytes) + n <= RX_BUF
  BY <1>1 DEF Takes
<1>3. fifo \in Seq(Byte) /\ uart.bytes \in Seq(Byte) /\ sent \in Seq(Byte)
      /\ rx_client_buffer \in Seq(Byte)
      /\ uart \in [status : {"off", "on", "aborting", "failed"}, want : Nat, bytes : Seq(Byte)]
  BY DEF LInv, Forms
<1>4. head \in Seq(Byte) /\ Len(head) = n /\ rest \in Seq(Byte)
  BY <1>2, <1>3, FirstType, FirstAndRest
<1>5. held \in Seq(Byte) /\ Len(held) = Len(uart.bytes) + n
  BY <1>3, <1>4, ConcatType
<1>6. /\ uart' = [uart EXCEPT !.bytes = held] /\ Len(held) < uart.want
  BY <1>1, <1>3 DEF Taken
<1>. HIDE DEF head, rest
<1>7. /\ uart' \in [status : {"off", "on", "aborting", "failed"}, want : Nat, bytes : Seq(Byte)]
      /\ uart'.status = "on" /\ uart'.bytes = held /\ uart'.want = uart.want
  BY <1>2, <1>3, <1>5, <1>6
<1>8. UNCHANGED <<host, cmd, enc, sent, alarm, state, rx_buffer, rx_client_buffer, client,
                  gaps, gap>>
  BY DEF DriverTakes, hostVars, adapterVars, clientVars
<1>9. alarm
  <2>. SUFFICES ASSUME ~alarm PROVE FALSE
    OBVIOUS
  <2>1. uart.want = 1
    BY <1>2 DEF LInv, Turns, Receive
  <2>. QED  BY <1>2, <1>3, <1>5, <1>6, <2>1
<1>10. TypeOK'
  <2>1. Len(uart'.bytes) <= RX_BUF
    BY <1>2, <1>5, <1>7
  <2>. QED  BY <1>7, <1>8, <2>1 DEF LInv, TypeOK
<1>11. Forms'
  BY <1>2, <1>4, <1>7, <1>8 DEF LInv, Forms
<1>12. Turns'
  BY <1>2, <1>7, <1>8, <1>9 DEF LInv, Turns
<1>13. Sides'
  BY <1>2, <1>7, <1>8, <1>9 DEF LInv, Sides, Turns, NothingTaken, AllTaken
<1>14. InOrder'
  <2>. SUFFICES ASSUME ~gap
                PROVE  Ordered(rx_client_buffer, held, rest, sent)
    BY <1>2, <1>7, <1>8 DEF InOrder, Ordered
  <2>1. Ordered(rx_client_buffer, uart.bytes, fifo, sent)
    BY <1>2, <1>9, InOrderIs DEF LInv, Broken
  <2>. QED  BY <1>2, <1>3, <2>1, OrderedTake DEF held, head, rest
<1>. QED  BY <1>10, <1>11, <1>12, <1>13, <1>14 DEF LInv

\* What a receive holds is copied behind what the client has.
LEMMA CopyStep ==
  ASSUME LInv, NEW bytes \in Seq(Byte)
  PROVE  /\ Copied(bytes) \in Seq(Byte) /\ Len(Copied(bytes)) <= BUF
         /\ \A f, s \in Seq(Byte) : Ordered(rx_client_buffer, bytes, f, s)
                                      => Ordered(Copied(bytes), <<>>, f, s)
<1>1. rx_client_buffer \in Seq(Byte) /\ Len(rx_client_buffer) <= BUF
  BY DEF LInv, Forms, TypeOK
<1>2. ASSUME NEW f \in Seq(Byte), NEW s \in Seq(Byte),
             Ordered(rx_client_buffer, bytes, f, s)
      PROVE  Ordered(Copied(bytes), <<>>, f, s)
  BY <1>1, <1>2, OrderedCopy DEF Copied
<1>3. Copied(bytes) \in Seq(Byte) /\ Len(Copied(bytes)) <= BUF
  <2>. DEFINE k == BUF - Len(rx_client_buffer)
              g == First(bytes, k)
  <2>1. k \in Nat
    BY <1>1
  <2>. HIDE DEF k
  <2>2. g \in Seq(Byte) /\ Len(g) = Lesser(k, Len(bytes))
    BY <2>1, FirstType
  <2>. HIDE DEF g
  <2>3. Len(g) <= k
    BY <2>1, <2>2 DEF Lesser
  <2>4. /\ rx_client_buffer \o g \in Seq(Byte)
        /\ Len(rx_client_buffer \o g) = Len(rx_client_buffer) + Len(g)
    BY <1>1, <2>2, ConcatType
  <2>5. Len(rx_client_buffer \o g) <= BUF
    BY <1>1, <2>1, <2>2, <2>3, <2>4 DEF k
  <2>. QED  BY <2>4, <2>5 DEF Copied, g, k
<1>. QED  BY <1>2, <1>3

LEMMA ReceivedStep ==
  ASSUME LInv, Received  PROVE LInv'
<1>1. PICK n \in Packets : /\ Takes(n)
                           /\ rx_client_buffer' = Copied(Taken(n).bytes)
  BY DEF Received
<1>. DEFINE head == First(fifo, n)
            rest == SubSeq(fifo, n + 1, Len(fifo))
            held == uart.bytes \o head
            want == Lesser(RX_BUF \div 2, CHUNK)
<1>2. /\ n \in Nat /\ n >= 1 /\ n <= Len(fifo) /\ uart.status = "on" /\ fifo' = rest
  BY <1>1 DEF Takes
<1>3. fifo \in Seq(Byte) /\ uart.bytes \in Seq(Byte) /\ sent \in Seq(Byte)
      /\ rx_client_buffer \in Seq(Byte)
      /\ uart \in [status : {"off", "on", "aborting", "failed"}, want : Nat, bytes : Seq(Byte)]
  BY DEF LInv, Forms
<1>4. head \in Seq(Byte) /\ rest \in Seq(Byte)
  BY <1>2, <1>3, FirstType, FirstAndRest
<1>5. held \in Seq(Byte)
  BY <1>3, <1>4, ConcatType
<1>6. rx_client_buffer' = Copied(held)
  BY <1>1, <1>3 DEF Taken
<1>7. want \in Nat
  BY DEF Lesser
<1>. HIDE DEF head, rest, held, want
<1>8. /\ uart' = [status |-> "on", want |-> want, bytes |-> <<>>]
      /\ alarm'
      /\ UNCHANGED <<host, cmd, enc, sent, state, rx_buffer, client, gaps, gap>>
  BY DEF Received, Receive, hostVars, clientVars, want
<1>9. rx_client_buffer' \in Seq(Byte) /\ Len(rx_client_buffer') <= BUF
  BY <1>5, <1>6, CopyStep
<1>10. TypeOK'
  <2>1. Len(uart'.bytes) <= RX_BUF /\ uart'.status = "on" /\ alarm' \in BOOLEAN
    BY <1>8 DEF Received
  <2>. QED  BY <1>8, <1>9, <2>1 DEF LInv, TypeOK
<1>11. Forms'
  BY <1>2, <1>4, <1>7, <1>8, <1>9 DEF LInv, Forms
<1>12. Turns'
  BY <1>2, <1>8 DEF LInv, Turns
<1>13. ~gap => /\ Ordered(rx_client_buffer, uart.bytes, fifo, sent)
               /\ host # "idle"
  <2>. SUFFICES ASSUME ~gap
                PROVE  /\ Ordered(rx_client_buffer, uart.bytes, fifo, sent)
                       /\ host # "idle"
    OBVIOUS
  <2>1. CASE alarm
    BY <1>2, <2>1, InOrderIs DEF LInv, Broken, Sides
  <2>2. CASE ~alarm
    <3>1. uart.bytes = <<>> /\ rx_client_buffer = <<>>
      BY <1>2, <2>2 DEF LInv, Turns, Receive
    <3>2. fifo = sent /\ host # "idle"
      <4>1. fifo # <<>>
        BY <1>2
      <4>. QED  BY <1>2, <2>2, <4>1 DEF LInv, Sides, NothingTaken
    <3>3. (<<>> \o <<>>) \o fifo = sent
      BY <1>3, <3>2
    <3>4. Len(<<>>) < BUF
      OBVIOUS
    <3>5. Ordered(<<>>, <<>>, fifo, sent)
      BY <3>3, <3>4, Zenon DEF Ordered
    <3>. QED  BY <3>1, <3>2, <3>5
  <2>. QED  BY <2>1, <2>2
<1>14. Sides'
  BY <1>2, <1>8, <1>13 DEF LInv, Sides, Turns, NothingTaken, AllTaken
<1>15. InOrder'
  <2>. SUFFICES ASSUME ~gap
                PROVE  Ordered(rx_client_buffer', <<>>, rest, sent)
    BY <1>2, <1>8 DEF InOrder, Ordered
  <2>1. Ordered(rx_client_buffer, held, rest, sent)
    BY <1>2, <1>3, <1>13, OrderedTake DEF held, head, rest
  <2>. QED  BY <1>3, <1>4, <1>5, <1>6, <2>1, CopyStep
<1>. QED  BY <1>10, <1>11, <1>12, <1>14, <1>15 DEF LInv

LEMMA ReceiveFailsStep ==
  ASSUME LInv, ReceiveFails  PROVE LInv'
<1>1. /\ uart.bytes \in Seq(Byte)
      /\ uart' = [status |-> "failed", want |-> 0, bytes |-> <<>>]
      /\ uart.status = "on"
      /\ rx_client_buffer' = Copied(uart.bytes)
      /\ UNCHANGED <<host, cmd, enc, sent, fifo, alarm, state, rx_buffer, client, gaps, gap>>
  BY DEF LInv, Forms, ReceiveFails, NoReceive, hostVars, clientVars
<1>2. rx_client_buffer' \in Seq(Byte) /\ Len(rx_client_buffer') <= BUF
  BY <1>1, CopyStep
<1>3. uart'.status = "failed" /\ uart'.bytes = <<>> /\ Len(uart'.bytes) <= RX_BUF
  BY <1>1
<1>4. TypeOK'
  BY <1>1, <1>2, <1>3 DEF LInv, TypeOK
<1>5. Forms'
  BY <1>1, <1>2 DEF LInv, Forms
<1>6. Turns'
  BY <1>1, <1>3 DEF LInv, Turns
<1>7. Sides'
  BY <1>1, <1>3 DEF LInv, Sides, Turns, NothingTaken, AllTaken
<1>8. InOrder'
  BY <1>3 DEF InOrder, Broken
<1>. QED  BY <1>4, <1>5, <1>6, <1>7, <1>8 DEF LInv

LEMMA AlarmFiresStep ==
  ASSUME LInv, AlarmFires  PROVE LInv'
<1>1. /\ alarm /\ ~alarm' /\ alarm' \in BOOLEAN
      /\ uart' = IF uart.status = "on" THEN [uart EXCEPT !.status = "aborting"] ELSE uart
      /\ UNCHANGED <<host, cmd, enc, sent, fifo, state, rx_buffer, rx_client_buffer, client>>
  BY DEF AlarmFires, hostVars, adapterVars, clientVars
<1>2. /\ fifo = <<>> \/ uart.status = "failed"
      /\ gaps' \in 0 .. MaxGaps /\ gap' \in BOOLEAN
      /\ ~gap' => ~gap /\ host # "sending"
  <2>1. gaps \in 0 .. MaxGaps /\ gap \in BOOLEAN
    BY DEF LInv, TypeOK
  <2>2. fifo = <<>> \/ uart.status = "failed"
    BY DEF AlarmFires, Broken
  <2>3. CASE host = "sending"
    <3>1. gaps < MaxGaps /\ gaps' = gaps + 1 /\ gap' = TRUE
      BY <2>3, Zenon DEF AlarmFires
    <3>. QED  BY <2>1, <2>2, <3>1
  <2>4. CASE host # "sending"
    <3>1. gaps' = gaps /\ gap' = gap
      BY <2>4 DEF AlarmFires
    <3>. QED  BY <2>1, <2>2, <2>4, <3>1
  <2>. QED  BY <2>3, <2>4
<1>3. uart \in [status : {"off", "on", "aborting", "failed"}, want : Nat, bytes : Seq(Byte)]
  BY DEF LInv, Forms
<1>4. /\ uart' \in [status : {"off", "on", "aborting", "failed"}, want : Nat, bytes : Seq(Byte)]
      /\ uart'.bytes = uart.bytes
      /\ uart'.status = IF uart.status = "on" THEN "aborting" ELSE uart.status
  BY <1>1, <1>3
<1>5. client = "listening" /\ uart.status \in {"on", "failed"} /\ uart'.status # "on"
  BY <1>1, <1>3, <1>4 DEF LInv, Turns
<1>6. TypeOK'
  BY <1>1, <1>2, <1>4 DEF LInv, TypeOK
<1>7. Forms'
  BY <1>1, <1>4 DEF LInv, Forms
<1>8. Turns'
  BY <1>1, <1>4, <1>5 DEF LInv, Turns
<1>9. Sides'
  <2>1. host \in {"idle", "sending", "waiting"}
    BY DEF LInv, TypeOK
  <2>. QED  BY <1>1, <1>2, <1>4, <1>5, <2>1 DEF LInv, Sides, NothingTaken, AllTaken
<1>10. InOrder'
  <2>. SUFFICES ASSUME ~gap', uart'.status = "aborting"
                PROVE  Ordered(rx_client_buffer, uart.bytes, fifo, sent)
    BY <1>1, <1>4 DEF InOrder, Ordered
  <2>1. ~gap /\ uart.status = "on"
    BY <1>2, <1>4, <1>5
  <2>. QED  BY <1>1, <2>1, InOrderIs DEF LInv, Broken
<1>. QED  BY <1>6, <1>7, <1>8, <1>9, <1>10 DEF LInv

LEMMA CancelledStep ==
  ASSUME LInv, Cancelled  PROVE LInv'
<1>1. /\ uart.status = "aborting" /\ uart.bytes \in Seq(Byte)
      /\ uart' = [status |-> "off", want |-> 0, bytes |-> <<>>]
      /\ rx_client_buffer' = Copied(uart.bytes)
      /\ client' = "decoding" /\ rx_buffer' = TRUE /\ state' = "Idle"
      /\ UNCHANGED <<host, cmd, enc, sent, fifo, alarm, gaps, gap>>
  BY DEF LInv, Forms, Cancelled, ClientReceived, NoReceive, hostVars
<1>2. rx_client_buffer' \in Seq(Byte) /\ Len(rx_client_buffer') <= BUF
  BY <1>1, CopyStep
<1>3. uart'.status = "off" /\ uart'.bytes = <<>> /\ Len(uart'.bytes) <= RX_BUF
  BY <1>1
<1>4. ~alarm
  BY <1>1 DEF LInv, Turns
<1>5. TypeOK'
  BY <1>1, <1>2, <1>3 DEF LInv, TypeOK
<1>6. Forms'
  BY <1>1, <1>2 DEF LInv, Forms
<1>7. Turns'
  BY <1>1, <1>3, <1>4 DEF Turns
<1>8. Sides'
  BY <1>1, <1>3, <1>4 DEF LInv, Sides, NothingTaken, AllTaken
<1>9. InOrder'
  BY <1>1, <1>3, <1>4 DEF InOrder
<1>. QED  BY <1>5, <1>6, <1>7, <1>8, <1>9 DEF LInv

LEMMA DecodeStep ==
  ASSUME LInv, Decode  PROVE LInv'
<1>1. /\ client = "decoding"
      /\ UNCHANGED <<host, cmd, enc, sent, fifo, gaps, gap>>
  BY DEF Decode, hostVars
<1>2. \/ UNCHANGED <<uart, alarm, adapterVars>> /\ client' \in {client, "panicked", "serving"}
      \/ Restarted
  BY Zenon DEF Decode
<1>3. CASE UNCHANGED <<uart, alarm, adapterVars>> /\ client' \in {client, "panicked", "serving"}
  <2>1. UNCHANGED <<uart, alarm, state, rx_buffer, rx_client_buffer>>
    BY <1>3 DEF adapterVars
  <2>2. uart.status = "off"
    BY <1>1 DEF LInv, Turns, Forms
  <2>3. TypeOK'
    BY <1>1, <1>3, <2>1 DEF LInv, TypeOK
  <2>4. Forms'
    BY <1>1, <2>1 DEF LInv, Forms
  <2>5. Turns'
    BY <1>1, <1>3, <2>1, <2>2 DEF LInv, Turns
  <2>6. Sides'
    BY <1>1, <1>3, <2>1, <2>2 DEF LInv, Sides, NothingTaken, AllTaken
  <2>7. InOrder'
    BY <1>1, <2>1 DEF LInv, InOrder, Broken
  <2>. QED  BY <2>3, <2>4, <2>5, <2>6, <2>7 DEF LInv
<1>4. CASE Restarted
  <2>1. fifo' \in Seq(Byte)
    BY <1>1 DEF LInv, Forms
  <2>2. ~gap => fifo' = <<>> /\ host # "sending"
    BY <1>1 DEF LInv, Sides, AllTaken
  <2>. QED  BY <1>1, <1>4, <2>1, <2>2, RestartStep DEF Restarted, hostVars
<1>. QED  BY <1>2, <1>3, <1>4

LEMMA NothingDecodedStep ==
  ASSUME LInv, NothingDecoded  PROVE LInv'
<1>1. /\ client = "decoding" /\ ReceiveAutomatic(rx_buffer)
      /\ UNCHANGED <<hostVars, fifo, alarm, gaps, gap>>
  BY DEF NothingDecoded
<1>2. rx_buffer = TRUE /\ alarm' = FALSE
  BY <1>1 DEF LInv, Turns, TypeOK
<1>3. fifo' \in Seq(Byte)
  BY <1>1 DEF LInv, Forms
<1>4. ~gap => fifo' = <<>> /\ host # "sending"
  BY <1>1 DEF LInv, Sides, AllTaken
<1>5. ReceiveAutomatic(TRUE)
  BY <1>1, <1>2
<1>. QED  BY <1>1, <1>2, <1>3, <1>4, <1>5, RestartStep

LEMMA TransmittedStep ==
  ASSUME LInv, Transmitted  PROVE LInv'
<1>1. /\ client = "transmitting" /\ ReceiveAutomatic(rx_buffer)
      /\ UNCHANGED <<hostVars, fifo, alarm, gaps, gap>>
  BY DEF Transmitted
<1>2. rx_buffer = TRUE /\ alarm' = FALSE
  BY <1>1 DEF LInv, Turns, TypeOK
<1>3. fifo' \in Seq(Byte)
  BY <1>1 DEF LInv, Forms
<1>4. ~gap => (fifo' = sent /\ host # "idle") \/ (fifo' = <<>> /\ host # "sending")
  BY <1>1 DEF LInv, Sides, NothingTaken
<1>5. ReceiveAutomatic(TRUE)
  BY <1>1, <1>2
<1>. QED  BY <1>1, <1>2, <1>3, <1>4, <1>5, RestartStep

LEMMA AnswerStep ==
  ASSUME LInv, Answer  PROVE LInv'
<1>1. /\ client = "serving" /\ client' = "transmitting"
      /\ host' = IF host = "waiting" THEN "idle" ELSE host
      /\ UNCHANGED <<cmd, enc, sent, fifo, uart, alarm, state, rx_buffer, rx_client_buffer,
                     gaps, gap>>
  BY DEF Answer, adapterVars
<1>2. uart.status = "off" /\ rx_buffer /\ ~alarm
  BY <1>1 DEF LInv, Turns
<1>3. TypeOK'
  BY <1>1 DEF LInv, TypeOK
<1>4. Forms'
  BY <1>1 DEF LInv, Forms
<1>5. Turns'
  BY <1>1, <1>2 DEF Turns
<1>6. Sides'
  BY <1>1, <1>2 DEF LInv, Sides, NothingTaken, AllTaken
<1>7. InOrder'
  BY <1>1, <1>2 DEF InOrder
<1>. QED  BY <1>3, <1>4, <1>5, <1>6, <1>7 DEF LInv

LEMMA SendCommandStep ==
  ASSUME LInv, SendCommand  PROVE LInv'
<1>1. /\ host = "idle" /\ host' = "sending"
      /\ cmd' \in Commands /\ Encodable(cmd')
      /\ enc' = [count |-> 0, sent_escape |-> FALSE] /\ sent' = <<>>
      /\ gap' = ~LineClear
      /\ UNCHANGED <<fifo, uart, alarm, state, rx_buffer, rx_client_buffer, client, gaps>>
  BY DEF SendCommand, FreshEncoder, adapterVars, clientVars
<1>2. TypeOK'
  <2>1. gap' \in BOOLEAN
    BY <1>1
  <2>. QED  BY <1>1, <2>1 DEF LInv, TypeOK
<1>3. Forms'
  <2>1. Len(Arguments(cmd')) \in Nat
    BY <1>1, CommandsAssumption, CommandParsed
  <2>2. enc' \in Encoders /\ enc'.count = 0
    BY <1>1 DEF Encoders
  <2>3. enc'.count < Len(Arguments(cmd')) + 2
    BY <2>1, <2>2
  <2>4. sent' \in Seq(Byte)
    BY <1>1
  <2>. QED  BY <1>1, <2>2, <2>3, <2>4 DEF LInv, Forms
<1>4. Turns'
  BY <1>1 DEF LInv, Turns
<1>5. Sides'
  <2>. SUFFICES ASSUME LineClear
                PROVE  /\ fifo' = sent' /\ host' # "idle"
                       /\ ~AllTaken'
                       /\ ~alarm'
    BY <1>1 DEF Sides
  <2>1. fifo = <<>> /\ ~alarm /\ (client = "transmitting" \/ uart = Receive(1))
    BY DEF LineClear
  <2>2. Receive(1).status = "on"
    BY DEF Receive
  <2>3. client \notin {"decoding", "serving"} /\ uart.status # "aborting"
    BY <2>1, <2>2 DEF LInv, Turns
  <2>. QED  BY <1>1, <2>1, <2>3 DEF AllTaken
<1>6. InOrder'
  <2>. SUFFICES ASSUME LineClear
                PROVE  ~alarm /\ uart.status # "aborting"
    BY <1>1 DEF InOrder
  <2>1. Receive(1).status = "on"
    BY DEF Receive
  <2>. QED  BY <2>1 DEF LineClear, LInv, Turns
<1>. QED  BY <1>2, <1>3, <1>4, <1>5, <1>6 DEF LInv

LEMMA SendByteStep ==
  ASSUME LInv, SendByte  PROVE LInv'
<1>. DEFINE next == NextOfCommand(enc, cmd)
            byte == next[2]
<1>1. host = "sending" /\ cmd \in Commands /\ Encodable(cmd)
      /\ enc \in Encoders /\ enc.count < Len(Arguments(cmd)) + 2
      /\ fifo \in Seq(Byte) /\ sent \in Seq(Byte)
  BY DEF SendByte, LInv, Forms
<1>2. /\ next[1] \in Encoders /\ next[1].count <= enc.count + 1
      /\ byte \in Byte
  BY <1>1, NextByte
<1>3. /\ enc' = next[1] /\ fifo' = Append(fifo, byte) /\ sent' = Append(sent, byte)
      /\ host' = IF CommandEnded(enc', cmd) THEN "waiting" ELSE host
      /\ UNCHANGED <<cmd, uart, alarm, state, rx_buffer, rx_client_buffer, client, gaps, gap>>
  BY DEF SendByte, adapterVars, clientVars
<1>. HIDE DEF byte
<1>4. host' \in {"sending", "waiting"}
  BY <1>1, <1>3
<1>5. fifo' \in Seq(Byte) /\ sent' \in Seq(Byte)
  BY <1>1, <1>2, <1>3
<1>6. TypeOK'
  BY <1>3, <1>4 DEF LInv, TypeOK
<1>7. Forms'
  <2>1. enc' \in Encoders /\ enc'.count <= enc.count + 1
    BY <1>2, <1>3, Zenon
  <2>2. host' = "sending" => enc'.count # Len(Arguments(cmd)) + 2
    BY <1>3 DEF CommandEnded
  <2>3. Len(Arguments(cmd)) \in Nat
    BY <1>1, CommandsAssumption, CommandParsed
  <2>4. host' = "sending" => enc'.count < Len(Arguments(cmd)) + 2
    BY <1>1, <2>1, <2>2, <2>3 DEF Encoders
  <2>. QED  BY <1>1, <1>3, <1>5, <2>1, <2>4 DEF LInv, Forms
<1>8. Turns'
  BY <1>3 DEF LInv, Turns
<1>9. Sides'
  <2>. SUFFICES ASSUME ~gap  PROVE Sides'
    BY <1>3 DEF Sides
  <2>1. ~AllTaken
    BY <1>1 DEF LInv, Sides
  <2>2. NothingTaken => fifo = sent
    BY <1>1 DEF LInv, Sides
  <2>3. AllTaken' = AllTaken /\ NothingTaken' = NothingTaken
    BY <1>3 DEF AllTaken, NothingTaken
  <2>4. NothingTaken' => fifo' = sent'
    BY <1>3, <2>2, <2>3
  <2>. QED  BY <1>4, <2>1, <2>3, <2>4 DEF Sides
<1>10. InOrder'
  <2>. SUFFICES ASSUME alarm \/ uart.status = "aborting", ~gap, ~Broken
                PROVE  Ordered(rx_client_buffer, uart.bytes, fifo', sent')
    BY <1>3 DEF InOrder, Ordered, Broken
  <2>1. Ordered(rx_client_buffer, uart.bytes, fifo, sent)
    BY InOrderIs DEF LInv
  <2>2. /\ rx_client_buffer \in Seq(Byte) /\ uart.bytes \in Seq(Byte)
        /\ Len(rx_client_buffer) <= BUF
    BY DEF LInv, Forms, TypeOK
  <2>. QED  BY <1>1, <1>2, <1>3, <2>1, <2>2, OrderedSend
<1>. QED  BY <1>6, <1>7, <1>8, <1>9, <1>10 DEF LInv

LEMMA GiveUpStep ==
  ASSUME LInv, GiveUp  PROVE LInv'
<1>1. /\ host' = "idle" /\ host = "waiting" /\ ~alarm
      /\ UNCHANGED <<cmd, enc, sent, fifo, uart, alarm, state, rx_buffer, rx_client_buffer,
                     client, gaps, gap>>
  BY DEF GiveUp, adapterVars, clientVars
<1>2. \/ uart.status = "on" /\ client = "listening" /\ fifo = <<>>
      \/ uart.status = "failed" /\ client = "listening"
      \/ uart.status = "off" /\ client = "panicked"
  BY DEF GiveUp, LInv, Turns
<1>3. TypeOK'
  BY <1>1 DEF LInv, TypeOK
<1>4. Forms'
  BY <1>1 DEF LInv, Forms
<1>5. Turns'
  BY <1>1 DEF LInv, Turns
<1>6. Sides'
  BY <1>1, <1>2 DEF LInv, Sides, NothingTaken, AllTaken
<1>7. InOrder'
  BY <1>1 DEF LInv, InOrder, Broken
<1>. QED  BY <1>3, <1>4, <1>5, <1>6, <1>7 DEF LInv

LEMMA ResetBoardStep ==
  ASSUME LInv, ResetBoard  PROVE LInv'
<1>1. host = "idle" /\ Restarted /\ fifo' = <<>> /\ UNCHANGED <<hostVars, gaps, gap>>
  BY DEF ResetBoard
<1>2. fifo' \in Seq(Byte)
  BY <1>1
<1>3. ~gap => fifo' = <<>> /\ host # "sending"
  BY <1>1
<1>. QED  BY <1>1, <1>2, <1>3, RestartStep DEF Restarted

LEMMA LInvNext == LInv /\ [Next]_vars => LInv'
<1>. SUFFICES ASSUME LInv, [Next]_vars PROVE LInv'
  OBVIOUS
<1>1. CASE DriverTakes     BY <1>1, DriverTakesStep
<1>2. CASE Received        BY <1>2, ReceivedStep
<1>3. CASE AlarmFires      BY <1>3, AlarmFiresStep
<1>4. CASE Cancelled       BY <1>4, CancelledStep
<1>5. CASE Decode          BY <1>5, DecodeStep
<1>6. CASE NothingDecoded  BY <1>6, NothingDecodedStep
<1>7. CASE Answer          BY <1>7, AnswerStep
<1>8. CASE Transmitted     BY <1>8, TransmittedStep
<1>9. CASE ReceiveFails    BY <1>9, ReceiveFailsStep
<1>10. CASE SendCommand    BY <1>10, SendCommandStep
<1>11. CASE SendByte       BY <1>11, SendByteStep
<1>12. CASE GiveUp         BY <1>12, GiveUpStep
<1>13. CASE ResetBoard     BY <1>13, ResetBoardStep
<1>14. CASE UNCHANGED vars
  BY <1>14 DEF vars, hostVars, adapterVars, clientVars, LInv, TypeOK, Forms, Turns, Sides,
               NothingTaken, AllTaken, InOrder, Broken
<1>. QED
  BY <1>1, <1>2, <1>3, <1>4, <1>5, <1>6, <1>7, <1>8, <1>9, <1>10, <1>11, <1>12, <1>13, <1>14
     DEF Next, Device

-----------------------------------------------------------------------------

\* The two ends of the line, the adapter and the driver stay in step: the
\* invariant under which every theorem below is proved.
THEOREM Invariance == Spec => []LInv
<1>. QED  BY LInvInit, LInvNext, PTL DEF Spec

\* The variables keep their types; the buffers their lengths, whatever comes:
\* the copy stops at the end of the client's buffer.
THEOREM LinkTypes == Spec => []TypeOK
<1>1. LInv => TypeOK
  BY DEF LInv
<1>. QED  BY <1>1, Invariance, PTL

\* Whatever the pieces in which a command comes, they are put together in
\* order, none is lost or comes twice, as long as no pause splits it.
THEOREM PiecesInOrder == Spec => []InOrder
<1>1. LInv => InOrder
  BY DEF LInv
<1>. QED  BY <1>1, Invariance, PTL

-----------------------------------------------------------------------------
(* What is served.  Told says that the bytes sent are those of the encoder, *)
(* E[i] being the encoder after i of them, and that the bootloader's        *)
(* decoder follows it: k bytes behind the first, it is where Following puts  *)
(* a decoder that has taken what E[k] has rendered.                         *)

Rendered(E) ==
  /\ E \in [0 .. Len(sent) -> Encoders]
  /\ E[0] = FreshEncoder /\ E[Len(sent)] = enc
  /\ \A i \in 0 .. Len(sent) : Encoding(E[i], Arguments(cmd)) /\ E[i].count <= i
  /\ \A i \in 0 .. Len(sent) - 1 :
       LET next == NextOfCommand(E[i], cmd) IN
       E[i].count < Len(Arguments(cmd)) + 2 /\ E[i + 1] = next[1] /\ sent[i + 1] = next[2]

\* The decoder has taken k bytes of those that the buffer has room for.
Taking(E, k) ==
  /\ unread \in Seq(Byte) /\ k + Len(unread) = Lesser(BUF, Len(sent))
  /\ \A i \in 1 .. Len(unread) : unread[i] = sent[k + i]
  /\ k < Len(sent) => decoder = Following(E[k], Arguments(cmd))

Told ==
  (~gap /\ host # "idle") =>
    /\ host = "waiting" => enc.count = Len(Arguments(cmd)) + 2
    /\ \E E : /\ Rendered(E)
              /\ client = "decoding" => \E k \in 0 .. Len(sent) : Taking(E, k)

LServed == LInv /\ Told /\ ServedAsSent

\* Steps that leave the host and its command, and start no decoding.
LEMMA ToldStays ==
  ASSUME Told, UNCHANGED <<host, cmd, enc, sent>>, gap' \/ gap' = gap,
         client' # "decoding"
  PROVE  Told'
  BY DEF Told, Rendered

LEMMA ServesStays ==
  ASSUME ServedAsSent, UNCHANGED <<cmd>>, gap' \/ gap' = gap,
         client' # "panicked", client' # "serving"
  PROVE  ServedAsSent'
  BY DEF ServedAsSent

\* A command is sent: the encoder is fresh, and nothing of it has been taken.
LEMMA SendCommandServed ==
  ASSUME LServed, SendCommand  PROVE Told' /\ ServedAsSent'
<1>1. /\ host' = "sending" /\ enc' = FreshEncoder /\ sent' = <<>>
      /\ cmd' \in Commands /\ Encodable(cmd')
      /\ gap' = ~LineClear /\ client' = client
  BY DEF SendCommand, clientVars
<1>2. ASSUME ~gap' PROVE client' \in {"listening", "transmitting"}
  <2>1. client = "transmitting" \/ uart = Receive(1)
    BY <1>1, <1>2 DEF LineClear
  <2>2. Receive(1).status = "on"
    BY DEF Receive
  <2>. QED  BY <1>1, <2>1, <2>2 DEF LServed, LInv, Turns
<1>3. Told'
  <2>. DEFINE E == [i \in 0 .. 0 |-> FreshEncoder]
              args == Arguments(cmd')
  <2>1. args \in Seq(Byte)
    BY <1>1, CommandsAssumption, CommandParsed
  <2>2. Encoding(FreshEncoder, args)
    BY <2>1, FreshFollows
  <2>3. FreshEncoder \in Encoders /\ FreshEncoder.count = 0
    BY DEF FreshEncoder, Encoders
  <2>4. Len(sent') = 0 /\ 0 .. Len(sent') = 0 .. 0 /\ 0 .. Len(sent') - 1 = {}
    BY <1>1
  <2>5. /\ E \in [0 .. 0 -> Encoders] /\ E[0] = FreshEncoder
        /\ \A i \in 0 .. 0 : Encoding(E[i], args) /\ E[i].count <= i
    BY <2>2, <2>3
  <2>. HIDE DEF E
  <2>6. Rendered(E)'
    BY <1>1, <2>4, <2>5 DEF Rendered
  <2>. QED  BY <1>1, <1>2, <2>6 DEF Told
<1>4. ServedAsSent'
  BY <1>2 DEF ServedAsSent
<1>. QED  BY <1>3, <1>4

\* One byte more is rendered.
LEMMA SendByteServed ==
  ASSUME LServed, SendByte  PROVE Told' /\ ServedAsSent'
<1>. DEFINE next == NextOfCommand(enc, cmd)
            args == Arguments(cmd)
            m == Len(sent)
<1>1. /\ host = "sending" /\ cmd \in Commands /\ Encodable(cmd)
      /\ enc.count < Len(args) + 2 /\ sent \in Seq(Byte) /\ enc \in Encoders
  BY DEF SendByte, LServed, LInv, Forms
<1>2. /\ enc' = next[1] /\ sent' = Append(sent, next[2])
      /\ host' = IF CommandEnded(enc', cmd) THEN "waiting" ELSE host
      /\ UNCHANGED <<cmd, client, outcome, gap>>
  BY DEF SendByte, clientVars
<1>3. ServedAsSent'
  BY <1>2 DEF LServed, ServedAsSent
<1>4. ASSUME ~gap PROVE Told'
  <2>1. client # "decoding"
    BY <1>1, <1>4 DEF LServed, LInv, Sides, AllTaken
  <2>2. PICK E : Rendered(E)
    BY <1>1, <1>4 DEF LServed, Told
  <2>3. /\ E \in [0 .. m -> Encoders] /\ E[0] = FreshEncoder /\ E[m] = enc
        /\ \A i \in 0 .. m : Encoding(E[i], args) /\ E[i].count <= i
        /\ \A i \in 0 .. m - 1 :
             LET step == NextOfCommand(E[i], cmd) IN
             E[i].count < Len(args) + 2 /\ E[i + 1] = step[1] /\ sent[i + 1] = step[2]
    BY <2>2 DEF Rendered
  <2>4. Encoding(enc, args) /\ enc.count <= m /\ m \in Nat
    BY <1>1, <2>3
  <2>5. /\ Encoding(next[1], args) /\ next[1].count \in {enc.count, enc.count + 1}
        /\ next[1].count <= Len(args) + 2
    <3>1. args \in Seq(Byte) /\ cmd.kind \in CommandKinds
      BY <1>1, CommandsAssumption, CommandParsed DEF IsCommand
    <3>2. Len(args) \in Nat /\ enc.count \in Nat
      BY <1>1, <3>1 DEF Encoders
    <3>. QED  BY <1>1, <2>4, <3>1, <3>2, NextEncodes
  <2>6. next[1] \in Encoders /\ next[1].count <= m + 1
    BY <1>1, <2>4, <2>5 DEF Encoding, Encoders
  <2>7. PICK F : F = [i \in 0 .. m + 1 |-> IF i <= m THEN E[i] ELSE next[1]]
    OBVIOUS
  <2>8. /\ F \in [0 .. m + 1 -> Encoders]
        /\ \A i \in 0 .. m : F[i] = E[i]
        /\ F[m + 1] = next[1]
    <3>1. \A i \in 0 .. m + 1 : (IF i <= m THEN E[i] ELSE next[1]) \in Encoders
      BY <2>3, <2>4, <2>6
    <3>. QED  BY <2>4, <2>7, <3>1
  <2>9. /\ Len(sent') = m + 1
        /\ \A i \in 1 .. m : sent'[i] = sent[i]
        /\ sent'[m + 1] = next[2]
    BY <1>1, <1>2
  <2>. HIDE DEF next
  <2>10. \A i \in 0 .. m + 1 : Encoding(F[i], args) /\ F[i].count <= i
    BY <2>3, <2>4, <2>5, <2>6, <2>8
  <2>11. \A i \in 0 .. m :
           LET step == NextOfCommand(F[i], cmd) IN
           F[i].count < Len(args) + 2 /\ F[i + 1] = step[1] /\ sent'[i + 1] = step[2]
    <3>. SUFFICES ASSUME NEW i \in 0 .. m
                  PROVE  LET step == NextOfCommand(F[i], cmd) IN
                         F[i].count < Len(args) + 2 /\ F[i + 1] = step[1]
                           /\ sent'[i + 1] = step[2]
      OBVIOUS
    <3>1. CASE i = m
      <4>1. F[i] = enc /\ F[i + 1] = next[1] /\ sent'[i + 1] = next[2]
        BY <2>3, <2>4, <2>8, <2>9, <3>1
      <4>. QED  BY <1>1, <4>1, Zenon DEF next
    <3>2. CASE i \in 0 .. m - 1
      <4>1. F[i] = E[i] /\ F[i + 1] = E[i + 1] /\ sent'[i + 1] = sent[i + 1]
        BY <2>4, <2>8, <2>9, <3>2
      <4>. QED  BY <2>3, <3>2, <4>1, Zenon
    <3>. QED  BY <2>4, <3>1, <3>2
  <2>12. F[0] = FreshEncoder /\ F[Len(sent')] = enc'
    BY <1>2, <2>3, <2>4, <2>8, <2>9
  <2>13. Len(sent') = m + 1 /\ Len(sent') - 1 = m
    BY <2>4, <2>9
  <2>14. Rendered(F)'
    BY <1>2, <2>8, <2>10, <2>11, <2>12, <2>13, Zenon DEF Rendered
  <2>15. host' = "waiting" => enc'.count = Len(args) + 2
    BY <1>1, <1>2 DEF CommandEnded
  <2>. QED  BY <1>2, <2>1, <2>14, <2>15 DEF Told
<1>5. ASSUME gap PROVE Told'
  BY <1>2, <1>5 DEF Told
<1>. QED  BY <1>3, <1>4, <1>5

\* What has come of the command is all of it, or as much as the buffer holds.
LEMMA CancelledServed ==
  ASSUME LServed, Cancelled  PROVE Told' /\ ServedAsSent'
<1>1. /\ uart.status = "aborting" /\ uart.bytes \in Seq(Byte)
      /\ sent \in Seq(Byte) /\ rx_client_buffer \in Seq(Byte)
      /\ rx_client_buffer' = Copied(uart.bytes) /\ unread' = Copied(uart.bytes)
      /\ decoder' = FreshDecoder /\ client' = "decoding"
      /\ UNCHANGED <<host, cmd, enc, sent, gap>>
  BY DEF LServed, LInv, Forms, Cancelled, ClientReceived, hostVars
<1>2. ServedAsSent'
  BY <1>1 DEF ServedAsSent
<1>3. ASSUME ~gap, host # "idle" PROVE Told'
  <2>1. host = "waiting" /\ fifo = <<>>
    BY <1>1, <1>3 DEF LServed, LInv, Sides, AllTaken
  <2>2. PICK b \in Seq(Byte) : b = unread'
    BY <1>1, CopyStep DEF LServed
  <2>3. b = First(sent, BUF)
    <3>1. Ordered(rx_client_buffer, uart.bytes, <<>>, sent)
      BY <1>1, <1>3, <2>1, InOrderIs DEF LServed, LInv, Broken
    <3>2. Ordered(b, <<>>, <<>>, sent)
      <4>1. <<>> \in Seq(Byte)
        OBVIOUS
      <4>. QED  BY <1>1, <2>2, <3>1, <4>1, CopyStep DEF LServed
    <3>3. CASE Len(b) < BUF
      <4>1. b = sent
        <5>1. (b \o <<>>) \o <<>> = b
          BY ConcatEmptySeq
        <5>. QED  BY <3>2, <3>3, <5>1, Zenon DEF Ordered
      <4>2. First(sent, BUF) = sent
        <5>1. Lesser(BUF, Len(sent)) = Len(sent)
          BY <1>1, <3>3, <4>1 DEF Lesser
        <5>2. SubSeq(sent, 1, Len(sent)) = sent
          BY <1>1, Whole
        <5>. QED  BY <5>1, <5>2, Zenon DEF First
      <4>. QED  BY <4>1, <4>2
    <3>4. CASE ~(Len(b) < BUF)
      BY <3>2, <3>4, Zenon DEF Ordered
    <3>. QED  BY <3>3, <3>4
  <2>4. /\ Len(b) = Lesser(BUF, Len(sent))
        /\ \A i \in 1 .. Len(b) : b[i] = sent[i]
    <3>1. BUF \in Nat
      OBVIOUS
    <3>. QED  BY <1>1, <2>3, <3>1, FirstType
  <2>5. PICK E : Rendered(E)
    BY <1>3 DEF LServed, Told
  <2>6. FreshDecoder = Following(E[0], Arguments(cmd))
    <3>1. Arguments(cmd) \in Seq(Byte)
      BY <1>3, CommandsAssumption, CommandParsed DEF LServed, LInv, Forms
    <3>2. E[0] = FreshEncoder
      BY <2>5 DEF Rendered
    <3>. QED  BY <3>1, <3>2, FreshFollows
  <2>7. Taking(E, 0)'
    <3>1. /\ 0 + Len(b) = Lesser(BUF, Len(sent))
          /\ \A i \in 1 .. Len(b) : b[i] = sent[0 + i]
      <4>1. PICK l \in Nat : l = Len(b)
        OBVIOUS
      <4>2. 0 + Len(b) = Len(b) /\ \A i \in 1 .. l : 0 + i = i
        OBVIOUS
      <4>. QED  BY <2>4, <4>1, <4>2, Zenon
    <3>. QED  BY <1>1, <2>2, <2>6, <3>1, Zenon DEF Taking
  <2>8. Rendered(E)'
    BY <1>1, <2>5 DEF Rendered
  <2>9. 0 \in 0 .. Len(sent)
    BY <1>1
  <2>. QED  BY <1>1, <1>3, <2>7, <2>8, <2>9 DEF LServed, Told
<1>4. ASSUME gap \/ host = "idle" PROVE Told'
  <2>1. gap' \/ host' = "idle"
    BY <1>1, <1>4
  <2>. QED  BY <2>1 DEF Told
<1>. QED  BY <1>2, <1>3, <1>4

\* The next byte that the decoder is given is the next that the encoder rendered.
LEMMA NextTaken ==
  ASSUME LServed, client = "decoding", ~gap, unread # <<>>,
         NEW E, Rendered(E), NEW k \in 0 .. Len(sent), Taking(E, k)
  PROVE  /\ k + 1 \in 0 .. Len(sent)
         /\ \/ /\ k + 1 = Len(sent)
               /\ ReceiveCommand(decoder, Head(unread)) = <<FreshDecoder, cmd>>
            \/ ReceiveCommand(decoder, Head(unread))
                 = <<Following(E[k + 1], Arguments(cmd)), None>>
<1>. DEFINE e == E[k]
            next == NextOfCommand(e, cmd)
<1>1. /\ host = "waiting" /\ cmd \in Commands /\ Encodable(cmd)
      /\ sent \in Seq(Byte) /\ BUF \in Nat /\ BUF <= RxLen
  <2>1. host = "waiting"
    BY DEF LServed, LInv, Sides, AllTaken
  <2>. QED  BY <2>1, ProtocolAssumption DEF LServed, LInv, Forms
<1>2. PICK args \in Seq(Byte) : args = Arguments(cmd)
  BY <1>1, CommandsAssumption, CommandParsed
<1>3. PICK n \in Nat : n = Len(args)
  OBVIOUS
<1>4. cmd.kind \in CommandKinds /\ Parsed(cmd.kind, args) = cmd
  BY <1>1, <1>2, CommandsAssumption, CommandParsed DEF IsCommand
<1>5. unread \in Seq(Byte) /\ k + Len(unread) = Lesser(BUF, Len(sent))
      /\ (\A i \in 1 .. Len(unread) : unread[i] = sent[k + i])
      /\ (k < Len(sent) => decoder = Following(e, args))
  BY <1>2 DEF Taking
<1>6. Len(unread) \in Nat /\ Len(unread) >= 1 /\ Head(unread) = unread[1]
  BY <1>5
<1>7. k < Len(sent) /\ k < BUF /\ k \in Nat
  BY <1>1, <1>5, <1>6 DEF Lesser
<1>8. Head(unread) = sent[k + 1]
  BY <1>5, <1>6
<1>9. k \in 0 .. Len(sent) - 1
  BY <1>1, <1>7
<1>10. /\ e.count < n + 2 /\ E[k + 1] = next[1] /\ sent[k + 1] = next[2]
       /\ Encoding(e, args) /\ e.count <= k
  BY <1>2, <1>3, <1>9, Zenon DEF Rendered
<1>11. e.count \in Nat
  BY <1>10 DEF Encoding, Encoders
<1>12. e.count < n => e.count < RxLen
  BY <1>1, <1>7, <1>10, <1>11, ProtocolAssumption
<1>. HIDE DEF e
<1>13. ReceiveCommand(Following(e, args), next[2])
         = IF e.count = n + 1 THEN <<FreshDecoder, Parsed(cmd.kind, args)>>
           ELSE <<Following(next[1], args), None>>
  BY <1>2, <1>3, <1>4, <1>10, <1>12, CommandByteFollows
<1>14. e.count = n + 1 => next[1].count = n + 2
  BY <1>2, <1>3, <1>4, <1>10, NextEncodes
<1>. HIDE DEF next
<1>15. e.count = n + 1 => k + 1 = Len(sent)
  <2>. SUFFICES ASSUME e.count = n + 1, k + 1 # Len(sent) PROVE FALSE
    OBVIOUS
  <2>1. k + 1 \in 0 .. Len(sent) - 1
    BY <1>1, <1>9
  <2>2. E[k + 1].count < n + 2
    BY <1>2, <1>3, <2>1, Zenon DEF Rendered
  <2>. QED  BY <1>10, <1>14, <2>2
<1>16. ReceiveCommand(decoder, Head(unread)) = ReceiveCommand(Following(e, args), next[2])
  BY <1>5, <1>7, <1>8, <1>10, Zenon
<1>17. CASE e.count = n + 1
  <2>1. ReceiveCommand(decoder, Head(unread)) = <<FreshDecoder, cmd>>
    BY <1>4, <1>13, <1>16, <1>17
  <2>. QED  BY <1>9, <1>15, <1>17, <2>1
<1>18. CASE e.count # n + 1
  <2>1. ReceiveCommand(decoder, Head(unread)) = <<Following(E[k + 1], Arguments(cmd)), None>>
    BY <1>2, <1>10, <1>13, <1>16, <1>18
  <2>. QED  BY <1>9, <2>1
<1>. QED  BY <1>17, <1>18

\* The decoder goes one byte on.
LEMMA TakesNext ==
  ASSUME LServed, unread # <<>>, UNCHANGED <<cmd, sent>>, unread' = Tail(unread),
         NEW E, NEW k \in 0 .. Len(sent), Taking(E, k), k + 1 \in 0 .. Len(sent),
         k + 1 = Len(sent) \/ decoder' = Following(E[k + 1], Arguments(cmd))
  PROVE  Taking(E, k + 1)'
<1>1. /\ unread \in Seq(Byte) /\ k + Len(unread) = Lesser(BUF, Len(sent))
      /\ \A i \in 1 .. Len(unread) : unread[i] = sent[k + i]
  BY DEF Taking
<1>2. PICK rest \in Seq(Byte) : rest = unread' /\ rest = Tail(unread)
  <2>1. Tail(unread) \in Seq(Byte)
    BY <1>1
  <2>. QED  BY <2>1, Zenon
<1>3. /\ Len(unread) \in Nat /\ Len(rest) = Len(unread) - 1
      /\ \A i \in 1 .. Len(rest) : rest[i] = unread[i + 1]
  BY <1>1, <1>2
<1>4. k + 1 + Len(rest) = Lesser(BUF, Len(sent))
  BY <1>1, <1>3
<1>5. \A i \in 1 .. Len(rest) : rest[i] = sent[k + 1 + i]
  <2>. SUFFICES ASSUME NEW i \in 1 .. Len(rest) PROVE rest[i] = sent[k + 1 + i]
    OBVIOUS
  <2>1. i + 1 \in 1 .. Len(unread) /\ k + (i + 1) = k + 1 + i
    BY <1>3
  <2>2. unread[i + 1] = sent[k + (i + 1)]
    BY <1>1, <2>1
  <2>. QED  BY <1>3, <2>1, <2>2
<1>6. k + 1 < Len(sent) => decoder' = Following(E[k + 1], Arguments(cmd))
  OBVIOUS
<1>. QED  BY <1>2, <1>4, <1>5, <1>6 DEF Taking

LEMMA DecodeServed ==
  ASSUME LServed, Decode  PROVE Told' /\ ServedAsSent'
<1>. DEFINE step == ReceiveCommand(decoder, Head(unread))
<1>1. /\ client = "decoding" /\ unread # <<>>
      /\ UNCHANGED <<host, cmd, enc, sent, gap>>
  BY DEF Decode, hostVars
<1>2. \/ /\ step[2].kind \in {"none", "Reset"}
         /\ decoder' = step[1] /\ unread' = Tail(unread) /\ UNCHANGED <<client, outcome>>
      \/ client' = "listening"
      \/ /\ step[2].kind \notin {"none", "Reset"}
         /\ client' = IF step[2] = Panic THEN "panicked" ELSE "serving"
         /\ outcome' = step[2]
  BY DEF Decode, Restarted, ReceiveAutomatic
<1>3. CASE gap
  BY <1>1, <1>3 DEF Told, ServedAsSent
<1>4. CASE ~gap
  <2>1. host = "waiting" /\ cmd \in Commands
    BY <1>1, <1>4 DEF LServed, LInv, Forms, Sides, AllTaken
  <2>2. PICK E : Rendered(E) /\ \E k \in 0 .. Len(sent) : Taking(E, k)
    BY <1>1, <1>4, <2>1 DEF LServed, Told
  <2>3. PICK k \in 0 .. Len(sent) : Taking(E, k)
    BY <2>2
  <2>4. /\ k + 1 \in 0 .. Len(sent)
        /\ \/ k + 1 = Len(sent) /\ step = <<FreshDecoder, cmd>>
           \/ step = <<Following(E[k + 1], Arguments(cmd)), None>>
    BY <1>1, <1>4, <2>2, <2>3, NextTaken
  <2>5. Rendered(E)' /\ enc'.count = Len(Arguments(cmd')) + 2
    BY <1>1, <1>4, <2>1, <2>2 DEF Rendered, LServed, Told
  <2>6. None.kind = "none" /\ Panic.kind = "panic"
    BY DEF None, Panic, Message
  <2>7. cmd.kind \in CommandKinds /\ cmd.kind # "none" /\ cmd # Panic
    <3>1. cmd.kind \in CommandKinds
      BY <2>1, CommandsAssumption DEF IsCommand
    <3>. QED  BY <2>6, <3>1, KindsOfCommands
  <2>. HIDE DEF step
  <2>8. CASE /\ step[2].kind \in {"none", "Reset"}
             /\ decoder' = step[1] /\ unread' = Tail(unread) /\ UNCHANGED <<client, outcome>>
    <3>1. k + 1 = Len(sent) \/ decoder' = Following(E[k + 1], Arguments(cmd))
      BY <2>4, <2>8
    <3>2. Taking(E, k + 1)'
      BY <1>1, <2>3, <2>4, <2>8, <3>1, TakesNext
    <3>3. Told'
      BY <1>1, <2>4, <2>5, <3>2 DEF Told
    <3>4. ServedAsSent'
      BY <1>1, <2>8 DEF ServedAsSent
    <3>. QED  BY <3>3, <3>4
  <2>9. CASE client' = "listening"
    BY <1>1, <2>5, <2>9 DEF Told, ServedAsSent
  <2>10. CASE /\ step[2].kind \notin {"none", "Reset"}
              /\ client' = IF step[2] = Panic THEN "panicked" ELSE "serving"
              /\ outcome' = step[2]
    <3>1. step[2] = cmd
      BY <2>4, <2>6, <2>10
    <3>2. client' = "serving" /\ outcome' = cmd
      BY <2>7, <2>10, <3>1
    <3>. QED  BY <1>1, <2>5, <3>2 DEF Told, ServedAsSent
  <2>. QED  BY <1>2, <2>8, <2>9, <2>10
<1>. QED  BY <1>3, <1>4

LEMMA LServedNext == LServed /\ [Next]_vars => LServed'
<1>. SUFFICES ASSUME LServed, [Next]_vars PROVE LServed'
  OBVIOUS
<1>1. LInv'
  BY LInvNext DEF LServed
<1>2. Told' /\ ServedAsSent'
  <2>1. CASE DriverTakes \/ Received \/ ReceiveFails
    <3>1. uart.status = "on" /\ UNCHANGED <<host, cmd, enc, sent, client, gap>>
      BY <2>1 DEF DriverTakes, Received, ReceiveFails, Takes, hostVars, clientVars
    <3>2. client = "listening"
      BY <3>1 DEF LServed, LInv, Turns
    <3>. QED  BY <3>1, <3>2, ToldStays, ServesStays DEF LServed
  <2>2. CASE AlarmFires
    <3>1. alarm /\ UNCHANGED <<host, cmd, enc, sent, client>> /\ (gap' \/ gap' = gap)
      BY <2>2 DEF AlarmFires, hostVars, clientVars
    <3>2. client = "listening"
      BY <3>1 DEF LServed, LInv, Turns
    <3>. QED  BY <3>1, <3>2, ToldStays, ServesStays DEF LServed
  <2>3. CASE Cancelled
    BY <2>3, CancelledServed
  <2>4. CASE Decode
    BY <2>4, DecodeServed
  <2>5. CASE NothingDecoded \/ Transmitted \/ ResetBoard
    <3>1. client' = "listening" /\ UNCHANGED <<host, cmd, enc, sent, gap>>
      BY <2>5 DEF NothingDecoded, Transmitted, ResetBoard, Restarted, ReceiveAutomatic, hostVars
    <3>. QED  BY <3>1, ToldStays, ServesStays DEF LServed
  <2>6. CASE Answer
    <3>1. /\ client' = "transmitting" /\ UNCHANGED <<cmd, enc, sent, gap>>
          /\ host' = "idle" \/ host' = host
      BY <2>6 DEF Answer
    <3>2. Told'
      <4>1. CASE host' = "idle"
        BY <4>1 DEF Told
      <4>2. CASE host' = host
        BY <3>1, <4>2, ToldStays DEF LServed
      <4>. QED  BY <3>1, <4>1, <4>2
    <3>. QED  BY <3>1, <3>2, ServesStays DEF LServed
  <2>7. CASE SendCommand
    BY <2>7, SendCommandServed
  <2>8. CASE SendByte
    BY <2>8, SendByteServed
  <2>9. CASE GiveUp
    <3>1. host' = "idle" /\ UNCHANGED <<cmd, client, outcome, gap>>
      BY <2>9 DEF GiveUp, clientVars
    <3>. QED  BY <3>1 DEF LServed, Told, ServedAsSent
  <2>10. CASE UNCHANGED vars
    BY <2>10 DEF vars, hostVars, clientVars, LServed, Told, ServedAsSent, Rendered, Taking
  <2>. QED
    BY <2>1, <2>2, <2>3, <2>4, <2>5, <2>6, <2>7, <2>8, <2>9, <2>10 DEF Next, Device
<1>. QED  BY <1>1, <1>2 DEF LServed

\* What the bootloader serves is the command that the host sent, whole, and it
\* never panics, unless a pause of 6 ms has split the command: whatever bytes it is
\* made of, however it was cut into packets and receives, however long it is and
\* whatever came before it (received_buffer, handle_escape, the adapter).
THEOREM ServesWhatIsSent == Spec => []ServedAsSent
<1>1. Init => LServed
  BY LInvInit DEF Init, LServed, Told, ServedAsSent
<1>2. LServed => ServedAsSent
  BY DEF LServed
<1>. QED  BY <1>1, <1>2, LServedNext, PTL DEF Spec

-----------------------------------------------------------------------------
(* What the parser makes of a part of a command.                           *)

LEMMA FourBytes ==
  \A k \in {"ErasePage", "SetStartAddress"} : k \in DOMAIN Sizes /\ Sizes[k] = <<4>>
<1>1. {"ErasePage", "SetStartAddress"} \subseteq CommandKinds \ (Bare \cup {"WritePage", "SetAttr"})
  BY KindsOfCommands DEF Bare
<1>. QED  BY <1>1 DEF Sizes

LEMMA KindParsed ==
  ASSUME NEW k \in CommandKinds, NEW b \in Seq(Byte)
  PROVE  /\ Parsed(k, b).kind \in {k, "panic", "ErrBadArguments"}
         /\ k = "WritePage" /\ Parsed(k, b).kind = k =>
              Len(b) >= 4 /\ Parsed(k, b) = Message(k, <<SubSeq(b, 1, 4), SubSeq(b, 5, Len(b))>>)
         /\ k \in {"ErasePage", "SetStartAddress"} /\ Parsed(k, b).kind = k =>
              Len(b) = 4 /\ Parsed(k, b) = Message(k, <<b>>)
<1>1. /\ Err("BadArguments").kind = "ErrBadArguments" /\ Panic.kind = "panic"
      /\ \A fields : Message(k, fields).kind = k
  BY DEF Err, Panic, Message
<1>2. k # "panic" /\ k # "ErrBadArguments"
  BY KindsOfCommands
<1>3. CASE k \in Bare
  <2>1. Parsed(k, b) = Message(k, <<>>)
    BY <1>3 DEF Parsed, Bare
  <2>2. k \notin {"WritePage", "ErasePage", "SetStartAddress"}
    BY <1>3 DEF Bare
  <2>. QED  BY <1>1, <2>1, <2>2, Zenon
<1>4. CASE k = "WritePage"
  <2>1. k \notin Bare /\ k \notin {"ErasePage", "SetStartAddress"}
    BY <1>4 DEF Bare
  <2>. DEFINE whole == Message(k, <<SubSeq(b, 1, 4), SubSeq(b, 5, Len(b))>>)
  <2>2. Parsed(k, b) = IF Len(b) < 4 THEN Panic ELSE whole
    BY <1>4, <2>1 DEF Parsed
  <2>3. whole.kind = k
    BY <1>1, Zenon
  <2>. HIDE DEF whole
  <2>4. CASE Len(b) < 4
    BY <1>1, <1>2, <2>1, <2>2, <2>4, Zenon
  <2>5. CASE ~(Len(b) < 4)
    <3>1. Len(b) >= 4
      BY <2>5
    <3>. QED  BY <2>1, <2>2, <2>3, <2>5, <3>1, Zenon DEF whole
  <2>. QED  BY <2>4, <2>5
<1>5. CASE k = "SetAttr"
  <2>1. k \notin Bare /\ k \notin {"WritePage", "ErasePage", "SetStartAddress"}
    BY <1>5 DEF Bare
  <2>2. \/ Parsed(k, b) = Err("BadArguments")
        \/ \E fields : Parsed(k, b) = Message(k, fields)
    BY <1>5, <2>1 DEF Parsed
  <2>. QED  BY <1>1, <2>1, <2>2, Zenon
<1>6. CASE k \notin Bare \cup {"WritePage", "SetAttr"}
  <2>. DEFINE sum == Start(Sizes[k], Len(Sizes[k]) + 1)
  <2>1. \/ Parsed(k, b) = Err("BadArguments")
        \/ Len(b) = sum /\ Parsed(k, b) = Message(k, Cut(b, Sizes[k]))
    BY <1>6 DEF Parsed
  <2>2. ASSUME k \in {"ErasePage", "SetStartAddress"}
        PROVE  sum = 4 /\ (Len(b) = 4 => Parsed(k, b) = Message(k, <<b>>))
    <3>1. k \in DOMAIN Sizes /\ Sizes[k] = <<4>>
      BY <2>2, FourBytes
    <3>2. PICK sizes : sizes = <<4>>
      OBVIOUS
    <3>7. sizes = Sizes[k] /\ Len(sizes) + 1 = 2 /\ sizes[1] = 4 /\ Len(sizes) = 1
      BY <3>1, <3>2
    <3>3. Start(sizes, 2) = 4
      BY <3>7, StartIs
    <3>. PICK fields : fields = <<b>>
      OBVIOUS
    <3>4. fields \in Seq(Seq(Byte)) /\ Len(fields) = 1 /\ fields[1] = b
      OBVIOUS
    <3>5. FlattenSeq(fields) = b
      BY <3>4, FlattenIs, Zenon
    <3>6. ASSUME Len(b) = 4 PROVE Parsed(k, b) = Message(k, <<b>>)
      <4>1. Len(fields) = Len(Sizes[k]) /\ \A i \in DOMAIN fields : Len(fields[i]) = Sizes[k][i]
        <5>1. DOMAIN fields = 1 .. 1
          BY <3>4
        <5>2. Len(fields[1]) = Sizes[k][1] /\ Len(fields) = Len(Sizes[k])
          BY <3>2, <3>7, <3>4, <3>6
        <5>. QED  BY <5>1, <5>2
      <4>2. k # "ChangeBaud"
        BY <2>2
      <4>. QED  BY <3>1, <3>4, <3>5, <4>1, <4>2, SizedParsed, Zenon
    <3>. QED  BY <3>7, <3>3, <3>6, Zenon
  <2>. HIDE DEF sum
  <2>3. k # "WritePage"
    BY <1>6
  <2>. QED  BY <1>1, <1>2, <2>1, <2>2, <2>3, Zenon
<1>. QED  BY <1>3, <1>4, <1>5, <1>6

\* A part that is not as long as the whole changes nothing.
LEMMA WrongLength ==
  ASSUME NEW c, IsCommand(c), Encodable(c), NEW b \in Seq(Byte), Len(b) # Len(Arguments(c))
  PROVE  ~Changes(Parsed(c.kind, b))
<1>1. PICK k \in CommandKinds, fields \in Seq(Seq(Byte)) : k = c.kind /\ fields = c.fields
  BY DEF IsCommand
<1>2. PICK r : r = Parsed(k, b)
  OBVIOUS
<1>3. Arguments(c) = FlattenSeq(fields) \/ k = "SetAttr"
  BY <1>1 DEF Arguments
<1>4. CASE k = "WritePage"
  <2>1. k \notin Bare
    BY <1>4 DEF Bare
  <2>2. Len(fields) = 2 /\ Len(fields[1]) = 4 /\ Len(fields[2]) = INT_PAGE_SIZE
    BY <1>1, <1>4, <2>1 DEF IsCommand, Encodable
  <2>3. FlattenSeq(fields) = fields[1] \o fields[2]
    <3>1. Len(fields) = 2
      BY <2>2
    <3>. QED  BY <3>1, FlattenIs, Zenon
  <2>4. fields[1] \in Seq(Byte) /\ fields[2] \in Seq(Byte)
    <3>1. 1 \in 1 .. Len(fields) /\ 2 \in 1 .. Len(fields)
      BY <2>2
    <3>. QED  BY <3>1, ElementOfSeq, Zenon
  <2>5. Len(Arguments(c)) = 4 + INT_PAGE_SIZE
    <3>1. Len(fields[1] \o fields[2]) = Len(fields[1]) + Len(fields[2])
      BY <2>4
    <3>. QED  BY <1>3, <1>4, <2>2, <2>3, <3>1, Zenon
  <2>6. SUFFICES ASSUME Changes(r) PROVE FALSE
    BY <1>1, <1>2
  <2>7. r.kind = k /\ Len(r.fields[2]) = INT_PAGE_SIZE
    <3>1. r.kind \in {k, "panic", "ErrBadArguments"}
      BY <1>2, KindParsed
    <3>. QED  BY <1>4, <2>6, <3>1 DEF Changes
  <2>8. Len(b) >= 4 /\ r = Message(k, <<SubSeq(b, 1, 4), SubSeq(b, 5, Len(b))>>)
    BY <1>2, <1>4, <2>7, KindParsed
  <2>9. r.fields[2] = SubSeq(b, 5, Len(b))
    BY <2>8 DEF Message
  <2>10. Len(SubSeq(b, 5, Len(b))) = Len(b) - 4
    BY <2>8
  <2>11. INT_PAGE_SIZE \in Nat
    BY ProtocolAssumption
  <2>12. PICK n \in Nat : n = Len(b)
    OBVIOUS
  <2>13. n - 4 = INT_PAGE_SIZE
    BY <2>7, <2>9, <2>10, <2>12, Zenon
  <2>. QED  BY <2>5, <2>11, <2>12, <2>13
<1>5. CASE k \in {"ErasePage", "SetStartAddress"}
  <2>1. k \notin Bare \cup {"WritePage", "SetAttr", "WriteExPage"}
    BY <1>5 DEF Bare
  <2>2. Sizes[k] = <<4>>
    BY <1>5, FourBytes
  <2>3. Len(fields) = 1 /\ Len(fields[1]) = 4
    <3>1. Len(fields) = Len(Sizes[k]) /\ \A i \in DOMAIN fields : Len(fields[i]) = Sizes[k][i]
      BY <1>1, <2>1 DEF IsCommand
    <3>2. Len(Sizes[k]) = 1 /\ Sizes[k][1] = 4
      BY <2>2
    <3>3. DOMAIN fields = 1 .. Len(fields)
      OBVIOUS
    <3>4. Len(fields) = 1
      BY <3>1, <3>2, Zenon
    <3>5. 1 \in DOMAIN fields
      BY <3>3, <3>4
    <3>. QED  BY <3>1, <3>2, <3>4, <3>5, Zenon
  <2>4. FlattenSeq(fields) = fields[1]
    BY <2>3, FlattenIs
  <2>5. Len(Arguments(c)) = 4
    BY <1>3, <2>1, <2>3, <2>4, Zenon
  <2>6. r.kind # k
    BY <1>2, <1>5, <2>5, KindParsed
  <2>7. r.kind \in {"panic", "ErrBadArguments"}
    BY <1>2, <2>6, KindParsed
  <2>. QED  BY <1>1, <1>2, <2>7 DEF Changes
<1>6. CASE k \notin {"WritePage", "ErasePage", "SetStartAddress"}
  <2>1. r.kind \notin {"WritePage", "ErasePage", "SetStartAddress"}
    BY <1>2, <1>6, KindParsed
  <2>. QED  BY <1>1, <1>2, <2>1 DEF Changes
<1>. QED  BY <1>4, <1>5, <1>6

\* Of a string of escape characters, commands with nothing else are made.
LEMMA EscapesParsed ==
  ASSUME NEW k \in CommandKinds, NEW b \in Seq(Byte), AllEscapes(b), Changes(Parsed(k, b))
  PROVE  AllEscapes(Arguments(Parsed(k, b)))
<1>1. PICK r : r = Parsed(k, b)
  OBVIOUS
<1>2. r.kind = k /\ k \in {"WritePage", "ErasePage", "SetStartAddress"}
  <2>1. r.kind \in {k, "panic", "ErrBadArguments"}
    BY <1>1, KindParsed
  <2>. QED  BY <1>1, <2>1 DEF Changes
<1>3. r.kind # "SetAttr"
  BY <1>2
<1>4. Arguments(r) = FlattenSeq(r.fields)
  BY <1>3 DEF Arguments
<1>5. \A i \in 1 .. Len(b) : b[i] = ESCAPE_CHAR
  BY DEF AllEscapes
<1>6. CASE k = "WritePage"
  <2>. DEFINE s == SubSeq(b, 1, 4)
              t == SubSeq(b, 5, Len(b))
  <2>1. Len(b) >= 4 /\ r = Message(k, <<s, t>>)
    BY <1>1, <1>2, <1>6, KindParsed
  <2>2. s \in Seq(Byte) /\ Len(s) = 4 /\ \A i \in 1 .. 4 : s[i] = ESCAPE_CHAR
    BY <1>5, <2>1
  <2>3. t \in Seq(Byte) /\ \A i \in 1 .. Len(t) : t[i] = ESCAPE_CHAR
    BY <1>5, <2>1
  <2>. HIDE DEF s, t
  <2>4. FlattenSeq(r.fields) = s \o t
    <3>1. r.fields = <<s, t>>
      BY <2>1 DEF Message
    <3>2. Len(r.fields) = 2 /\ r.fields[1] = s /\ r.fields[2] = t
      BY <3>1
    <3>. QED  BY <3>2, FlattenIs, Zenon
  <2>5. AllEscapes(s \o t)
    <3>. PICK w : w = s \o t
      OBVIOUS
    <3>1. /\ w \in Seq(Byte) /\ Len(w) = 4 + Len(t)
          /\ \A i \in 1 .. 4 : w[i] = s[i]
          /\ \A i \in 1 .. Len(t) : w[4 + i] = t[i]
      <4>1. /\ w \in Seq(Byte) /\ Len(w) = Len(s) + Len(t)
            /\ \A i \in 1 .. Len(s) : w[i] = s[i]
            /\ \A i \in 1 .. Len(t) : w[Len(s) + i] = t[i]
        BY <2>2, <2>3, ByteConcat, Zenon
      <4>. QED  BY <2>2, <4>1, Zenon
    <3>2. ASSUME NEW i \in 1 .. 4 + Len(t) PROVE w[i] = ESCAPE_CHAR
      <4>1. CASE i <= 4
        BY <2>2, <3>1, <4>1
      <4>2. CASE i > 4
        <5>1. PICK j \in 1 .. Len(t) : i = 4 + j
          <6>1. i - 4 \in 1 .. Len(t) /\ i = 4 + (i - 4)
            BY <4>2
          <6>. QED  BY <6>1
        <5>2. w[i] = t[j]
          BY <3>1, <5>1, Zenon
        <5>. QED  BY <2>3, <5>2, Zenon
      <4>3. i <= 4 \/ i > 4
        <5>1. Len(t) \in Nat
          BY <2>3
        <5>. QED  BY <5>1
      <4>. QED  BY <4>1, <4>2, <4>3, Zenon
    <3>. QED  BY <3>1, <3>2 DEF AllEscapes
  <2>. QED  BY <1>1, <1>4, <2>4, <2>5, Zenon
<1>7. CASE k \in {"ErasePage", "SetStartAddress"}
  <2>1. r = Message(k, <<b>>)
    BY <1>1, <1>2, <1>7, KindParsed
  <2>2. r.fields = <<b>>
    BY <2>1 DEF Message
  <2>3. Len(r.fields) = 1 /\ r.fields[1] = b
    BY <2>2
  <2>4. FlattenSeq(r.fields) = b
    BY <2>3, FlattenIs, Zenon
  <2>. QED  BY <1>1, <1>4, <2>4
<1>. QED  BY <1>2, <1>6, <1>7

-----------------------------------------------------------------------------
(* A decoder that began anywhere in a command.  It is where the encoder is,  *)
(* but does not have as many bytes as it should; or it has taken the second  *)
(* half of a doubled escape character for the first, and has seen escape     *)
(* characters only; or it has so taken the escape before the code.           *)

Decoders == [state : {"Loading", "Escape"}, buffer : Seq(Byte)]

Misses(d, e, args) ==
  /\ d.state = IF e.sent_escape \/ e.count = Len(args) + 1 THEN "Escape" ELSE "Loading"
  /\ Len(d.buffer) # IF e.count < Len(args) THEN e.count ELSE Len(args)

Halved(d, e, args) ==
  /\ AllEscapes(d.buffer) /\ e.count <= Len(args)
  /\ IF e.sent_escape THEN d.state = "Loading" /\ Len(d.buffer) <= e.count
                      ELSE d.state = "Escape" /\ Len(d.buffer) < e.count

Late(d, e, args) == d.state = "Loading" /\ e.count = Len(args) + 1

Astray(d, e, args) == Misses(d, e, args) \/ Halved(d, e, args) \/ Late(d, e, args)

Related(d, e, args) == d = Following(e, args) \/ Astray(d, e, args)

\* What the encoder makes of its next byte.
Announces(e, f, x, args) ==
  /\ x = ESCAPE_CHAR /\ ~e.sent_escape /\ e.count < Len(args)
  /\ f.count = e.count /\ f.sent_escape
Announced(e, f, x, args) ==
  /\ x = ESCAPE_CHAR /\ ~e.sent_escape /\ e.count = Len(args)
  /\ f.count = Len(args) + 1 /\ ~f.sent_escape
Doubles(e, f, x, args) ==
  /\ x = ESCAPE_CHAR /\ e.sent_escape /\ e.count < Len(args)
  /\ f.count = e.count + 1 /\ ~f.sent_escape
Plain(e, f, x, args) ==
  /\ x \in Byte /\ x # ESCAPE_CHAR /\ ~e.sent_escape /\ e.count < Len(args)
  /\ f.count = e.count + 1 /\ ~f.sent_escape
Codes(e, f, x, args, k) ==
  /\ x = CommandCode[k] /\ ~e.sent_escape /\ e.count = Len(args) + 1
  /\ f.count = Len(args) + 2 /\ ~f.sent_escape

LEMMA EncoderSteps ==
  ASSUME NEW c, c.kind \in CommandKinds, NEW args \in Seq(Byte), args = Arguments(c),
         NEW e, Encoding(e, args), e.count < Len(args) + 2
  PROVE  LET next == NextOfCommand(e, c)
             f == next[1]
             x == next[2]
         IN  /\ f \in Encoders
             /\ \/ Announces(e, f, x, args) \/ Announced(e, f, x, args)
                \/ Doubles(e, f, x, args) \/ Plain(e, f, x, args) \/ Codes(e, f, x, args, c.kind)
<1>. PICK n \in Nat : n = Len(args)
  OBVIOUS
<1>. PICK next, f, x : next = NextOfCommand(e, c) /\ f = next[1] /\ x = next[2]
  OBVIOUS
<1>1. /\ e \in Encoders /\ e.count \in Nat /\ e.count <= n + 1
      /\ e.sent_escape => e.count < n /\ args[e.count + 1] = ESCAPE_CHAR
  BY DEF Encoding, Encoders
<1>2. CASE e.count <= n /\ ~e.sent_escape /\ (e.count < n => args[e.count + 1] = ESCAPE_CHAR)
  <2>1. /\ f \in Encoders /\ x = ESCAPE_CHAR
        /\ f.count = IF e.count < n THEN e.count ELSE e.count + 1
        /\ f.sent_escape <=> e.count < n
    BY <1>1, <1>2, EscapeIsAnnounced
  <2>2. CASE e.count < n
    <3>1. Announces(e, f, x, args)
      BY <1>2, <2>1, <2>2 DEF Announces
    <3>. QED  BY <2>1, <3>1
  <2>3. CASE e.count = n
    <3>1. Announced(e, f, x, args)
      BY <1>2, <2>1, <2>3 DEF Announced
    <3>. QED  BY <2>1, <3>1
  <2>. QED  BY <1>1, <1>2, <2>2, <2>3
<1>3. CASE e.count < n /\ (e.sent_escape \/ args[e.count + 1] # ESCAPE_CHAR)
  <2>1. /\ args[e.count + 1] \in Byte
        /\ e.sent_escape <=> args[e.count + 1] = ESCAPE_CHAR
    BY <1>1, <1>3
  <2>2. /\ f \in Encoders /\ x = args[e.count + 1]
        /\ f.count = e.count + 1 /\ ~f.sent_escape
    BY <1>1, <1>3, <2>1, ArgumentIsRendered
  <2>3. Doubles(e, f, x, args) \/ Plain(e, f, x, args)
    BY <1>3, <2>1, <2>2, Zenon DEF Doubles, Plain
  <2>. QED  BY <2>2, <2>3
<1>4. CASE e.count = n + 1
  <2>1. ~e.sent_escape
    BY <1>1, <1>4
  <2>2. /\ f \in Encoders /\ x = CommandCode[c.kind]
        /\ f.count = n + 2 /\ ~f.sent_escape
    BY <1>1, <1>4, <2>1, CodeIsRendered
  <2>3. Codes(e, f, x, args, c.kind)
    BY <1>4, <2>1, <2>2, Zenon DEF Codes
  <2>. QED  BY <2>2, <2>3
<1>. QED  BY <1>1, <1>2, <1>3, <1>4

\* The decoder's, by its state and the byte.
LEMMA DecoderGoes ==
  ASSUME NEW d \in Decoders, NEW x \in Byte, Len(d.buffer) < RxLen
  PROVE  LET taken == ReceiveCommand(d, x)
             more  == Append(d.buffer, x)
         IN  /\ more \in Seq(Byte) /\ Len(more) = Len(d.buffer) + 1
             /\ d.state = "Loading" /\ x = ESCAPE_CHAR =>
                  taken = <<[state |-> "Escape", buffer |-> d.buffer], None>>
             /\ d.state = "Loading" /\ x # ESCAPE_CHAR =>
                  taken = <<[state |-> "Loading", buffer |-> more], None>>
             /\ d.state = "Escape" /\ x = ESCAPE_CHAR =>
                  taken = <<[state |-> "Loading", buffer |-> more], None>>
             /\ d.state = "Escape" /\ x # ESCAPE_CHAR =>
                  \/ taken = <<[state |-> "Loading", buffer |-> d.buffer], None>>
                  \/ \E k \in CommandKinds : taken = <<FreshDecoder, Parsed(k, d.buffer)>>
             /\ \A k \in CommandKinds : d.state = "Escape" /\ x = CommandCode[k] =>
                  taken = <<FreshDecoder, Parsed(k, d.buffer)>>
<1>. PICK b \in Seq(Byte), s \in {"Loading", "Escape"} : b = d.buffer /\ s = d.state
  BY DEF Decoders
<1>1. d = [state |-> s, buffer |-> b]
  BY DEF Decoders
<1>. PICK more : more = Append(b, x)
  OBVIOUS
<1>2. /\ more \in Seq(Byte) /\ Len(more) = Len(b) + 1
  OBVIOUS
<1>3. Loaded(b, x) = more
  BY DEF Loaded
<1>. DEFINE l == [state |-> "Loading", buffer |-> b]
            e == [state |-> "Escape", buffer |-> b]
<1>4. /\ ReceiveCommand(l, ESCAPE_CHAR) = <<e, None>>
      /\ x # ESCAPE_CHAR =>
           ReceiveCommand(l, x) = <<[state |-> "Loading", buffer |-> Loaded(b, x)], None>>
      /\ ReceiveCommand(e, ESCAPE_CHAR)
           = <<[state |-> "Loading", buffer |-> Loaded(b, ESCAPE_CHAR)], None>>
      /\ \A k \in CommandKinds :
           ReceiveCommand(e, CommandCode[k]) = <<FreshDecoder, Parsed(k, b)>>
  BY DecoderSteps, Zenon
<1>5. /\ s = "Loading" => d = l
      /\ s = "Escape" => d = e
  BY <1>1
<1>. HIDE DEF l, e
<1>6. s = "Loading" /\ x = ESCAPE_CHAR => ReceiveCommand(d, x) = <<e, None>>
  BY <1>4, <1>5, Zenon
<1>7. s = "Loading" /\ x # ESCAPE_CHAR =>
        ReceiveCommand(d, x) = <<[state |-> "Loading", buffer |-> more], None>>
  <2>. SUFFICES ASSUME s = "Loading", x # ESCAPE_CHAR
                PROVE  ReceiveCommand(d, x) = <<[state |-> "Loading", buffer |-> more], None>>
    OBVIOUS
  <2>1. d = l
    BY <1>5
  <2>2. ReceiveCommand(l, x) = <<[state |-> "Loading", buffer |-> Loaded(b, x)], None>>
    BY <1>4
  <2>. QED  BY <1>3, <2>1, <2>2
<1>8. s = "Escape" /\ x = ESCAPE_CHAR =>
        ReceiveCommand(d, x) = <<[state |-> "Loading", buffer |-> more], None>>
  <2>. SUFFICES ASSUME s = "Escape", x = ESCAPE_CHAR
                PROVE  ReceiveCommand(d, x) = <<[state |-> "Loading", buffer |-> more], None>>
    OBVIOUS
  <2>1. d = e
    BY <1>5
  <2>2. ReceiveCommand(e, x) = <<[state |-> "Loading", buffer |-> Loaded(b, x)], None>>
    BY <1>4
  <2>. QED  BY <1>3, <2>1, <2>2
<1>9. ASSUME NEW k \in CommandKinds, s = "Escape", x = CommandCode[k]
      PROVE  ReceiveCommand(d, x) = <<FreshDecoder, Parsed(k, b)>>
  <2>1. d = e
    BY <1>9, <1>5
  <2>2. ReceiveCommand(e, x) = <<FreshDecoder, Parsed(k, b)>>
    BY <1>9, <1>4
  <2>. QED  BY <2>1, <2>2
<1>10. ASSUME s = "Escape", x # ESCAPE_CHAR, ~\E k \in CommandKinds : x = CommandCode[k]
      PROVE  ReceiveCommand(d, x) = <<[state |-> "Loading", buffer |-> b], None>>
  <2>1. ~IsCode(CommandCode, x)
    BY <1>10 DEF IsCode, CommandKinds
  <2>. PICK off : off = [d EXCEPT !.state = "Loading"]
    OBVIOUS
  <2>2. off = [state |-> "Loading", buffer |-> b]
    BY DEF Decoders
  <2>3. ReceiveCommand(d, x) = <<off, None>>
    <3>1. d.state = "Escape" /\ d.state # "Loading"
      BY <1>10
    <3>. QED  BY <1>10, <2>1, <3>1 DEF ReceiveCommand
  <2>. QED  BY <2>2, <2>3
<1>. QED  BY <1>2, <1>6, <1>7, <1>8, <1>9, <1>10, Zenon DEF e

LEMMA NoneChangesNothing == ~Changes(None)
  BY DEF Changes, None, Message

LEMMA FreshIsDecoder ==
  FreshDecoder \in Decoders /\ FreshDecoder.state = "Loading" /\ Len(FreshDecoder.buffer) = 0
  BY DEF FreshDecoder, Decoders

\* A new decoder may begin anywhere.
LEMMA FreshRelates ==
  ASSUME NEW args \in Seq(Byte), NEW e, Encoding(e, args), e.count < Len(args) + 2
  PROVE  Related(FreshDecoder, e, args)
<1>. PICK n \in Nat : n = Len(args)
  OBVIOUS
<1>1. e \in Encoders /\ e.count \in Nat /\ (e.sent_escape => e.count < n)
  BY DEF Encoding, Encoders
<1>2. CASE e.count = n + 1
  BY <1>2, FreshIsDecoder DEF Related, Astray, Late
<1>3. CASE e.sent_escape
  <2>1. AllEscapes(FreshDecoder.buffer)
    BY DEF AllEscapes, FreshDecoder
  <2>. QED  BY <1>1, <1>3, <2>1, FreshIsDecoder DEF Related, Astray, Halved
<1>4. CASE e.count # n + 1 /\ ~e.sent_escape /\ e.count # 0 /\ n # 0
  BY <1>1, <1>4, FreshIsDecoder DEF Related, Astray, Misses
<1>5. CASE e.count # n + 1 /\ ~e.sent_escape /\ (e.count = 0 \/ n = 0)
  <2>1. e.count = 0
    BY <1>1, <1>5
  <2>2. Following(e, args) = [state |-> "Loading", buffer |-> SubSeq(args, 1, 0)]
    BY <1>1, <1>5, <2>1, Follows
  <2>3. SubSeq(args, 1, 0) = <<>>
    OBVIOUS
  <2>. QED  BY <2>2, <2>3 DEF Related, FreshDecoder
<1>. QED  BY <1>1, <1>2, <1>3, <1>4, <1>5

\* At the beginning of a command, so may one that has bytes already.
LEMMA BeginsRelated ==
  ASSUME NEW d \in Decoders, d = FreshDecoder \/ (d.state = "Loading" /\ Len(d.buffer) # 0),
         NEW args \in Seq(Byte)
  PROVE  Related(d, FreshEncoder, args)
<1>1. Following(FreshEncoder, args) = FreshDecoder
  BY FreshFollows
<1>2. FreshEncoder.count = 0 /\ ~FreshEncoder.sent_escape
  BY DEF FreshEncoder
<1>3. Len(args) \in Nat /\ 0 # Len(args) + 1 /\ (0 < Len(args) \/ Len(args) = 0)
  OBVIOUS
<1>. QED  BY <1>1, <1>2, <1>3 DEF Related, Astray, Misses

-----------------------------------------------------------------------------
(* A step of a decoder astray.  StepsWell(d, taken, f, c) is what is to be   *)
(* shown of what the decoder d makes of a byte of the command c, taken, when *)
(* the encoder is then f.                                                   *)

RelatedThen(d, f, args) ==
  IF f.count = Len(args) + 2 THEN d = FreshDecoder \/ (d.state = "Loading" /\ Len(d.buffer) # 0)
  ELSE Related(d, f, args)

StepsWell(d, taken, f, c) ==
  /\ taken[1] \in Decoders /\ Len(taken[1].buffer) <= Len(d.buffer) + 1
  /\ RelatedThen(taken[1], f, Arguments(c))
  /\ Changes(taken[2]) => taken[2] = c \/ AllEscapes(Arguments(taken[2]))

\* No byte of what is between its places completes a command.
LEMMA NothingCompleted ==
  ASSUME NEW d \in Decoders, NEW s \in {"Loading", "Escape"}, NEW b \in Seq(Byte),
         Len(b) <= Len(d.buffer) + 1,
         NEW f, NEW c, RelatedThen([state |-> s, buffer |-> b], f, Arguments(c))
  PROVE  StepsWell(d, <<[state |-> s, buffer |-> b], None>>, f, c)
<1>. PICK o : o = [state |-> s, buffer |-> b]
  OBVIOUS
<1>1. o \in Decoders /\ o.buffer = b
  BY DEF Decoders
<1>2. <<o, None>>[1] = o /\ <<o, None>>[2] = None
  OBVIOUS
<1>. QED  BY <1>1, <1>2, NoneChangesNothing, Zenon DEF StepsWell

LEMMA MissesSteps ==
  ASSUME NEW c, IsCommand(c), Encodable(c), NEW args \in Seq(Byte), args = Arguments(c),
         NEW e, Encoding(e, args), NEW f \in Encoders, NEW x \in Byte,
         \/ Announces(e, f, x, args) \/ Announced(e, f, x, args)
         \/ Doubles(e, f, x, args) \/ Plain(e, f, x, args) \/ Codes(e, f, x, args, c.kind),
         NEW d \in Decoders, Misses(d, e, args), Len(d.buffer) < RxLen
  PROVE  StepsWell(d, ReceiveCommand(d, x), f, c)
<1>. PICK n \in Nat : n = Len(args)
  OBVIOUS
<1>. PICK b \in Seq(Byte) : b = d.buffer
  BY DEF Decoders
<1>. PICK more : more = Append(b, x)
  OBVIOUS
<1>. PICK taken : taken = ReceiveCommand(d, x)
  OBVIOUS
<1>1. e.count \in Nat /\ f.count \in Nat
  BY DEF Encoding, Encoders
<1>2. more \in Seq(Byte) /\ Len(more) = Len(b) + 1
  OBVIOUS
<1>3. CASE Announces(e, f, x, args) \/ Announced(e, f, x, args)
  <2>. PICK o : o = [state |-> "Escape", buffer |-> b]
    OBVIOUS
  <2>1. e.count # n + 1 /\ ~e.sent_escape /\ x = ESCAPE_CHAR /\ f.count # n + 2
        /\ (f.sent_escape \/ f.count = n + 1)
        /\ (IF f.count < n THEN f.count ELSE n) = (IF e.count < n THEN e.count ELSE n)
    BY <1>1, <1>3 DEF Announces, Announced
  <2>2. d.state = "Loading"
    BY <2>1 DEF Misses
  <2>3. taken = <<o, None>>
    BY <2>1, <2>2, DecoderGoes
  <2>4. Misses(o, f, args)
    BY <2>1 DEF Misses
  <2>5. RelatedThen(o, f, Arguments(c))
    BY <2>1, <2>4 DEF RelatedThen, Related, Astray
  <2>6. Len(b) <= Len(d.buffer) + 1
    OBVIOUS
  <2>. QED  BY <2>3, <2>5, <2>6, NothingCompleted
<1>4. CASE Doubles(e, f, x, args) \/ Plain(e, f, x, args)
  <2>. PICK o : o = [state |-> "Loading", buffer |-> more]
    OBVIOUS
  <2>1. e.count < n /\ (e.sent_escape <=> x = ESCAPE_CHAR) /\ f.count = e.count + 1
        /\ ~f.sent_escape
    BY <1>4 DEF Doubles, Plain
  <2>2. d.state = IF x = ESCAPE_CHAR THEN "Escape" ELSE "Loading"
    BY <1>1, <2>1 DEF Misses
  <2>3. taken = <<o, None>>
    BY <2>2, DecoderGoes
  <2>4. Len(b) # e.count
    BY <2>1 DEF Misses
  <2>5. Misses(o, f, args)
    <3>1. Len(more) # f.count /\ f.count <= n /\ f.count # n + 1
      BY <1>1, <1>2, <2>1, <2>4
    <3>. QED  BY <1>1, <2>1, <3>1 DEF Misses
  <2>6. RelatedThen(o, f, Arguments(c))
    BY <1>1, <2>1, <2>5 DEF RelatedThen, Related, Astray
  <2>7. Len(more) <= Len(d.buffer) + 1
    BY <1>2
  <2>. QED  BY <1>2, <2>3, <2>6, <2>7, NothingCompleted
<1>5. CASE Codes(e, f, x, args, c.kind)
  <2>1. d.state = "Escape" /\ Len(b) # n /\ f.count = n + 2 /\ x = CommandCode[c.kind]
    BY <1>5 DEF Codes, Misses
  <2>2. c.kind \in CommandKinds
    BY DEF IsCommand
  <2>3. taken = <<FreshDecoder, Parsed(c.kind, b)>>
    BY <2>1, <2>2, DecoderGoes
  <2>4. ~Changes(Parsed(c.kind, b))
    BY <2>1, WrongLength
  <2>. PICK p : p = Parsed(c.kind, b)
    OBVIOUS
  <2>5. taken[1] = FreshDecoder /\ ~Changes(taken[2])
    <3>1. taken = <<FreshDecoder, p>>
      BY <2>3
    <3>. QED  BY <2>4, <3>1
  <2>6. RelatedThen(FreshDecoder, f, Arguments(c))
    BY <2>1 DEF RelatedThen
  <2>7. 0 <= Len(d.buffer) + 1
    OBVIOUS
  <2>. QED  BY <2>5, <2>6, <2>7, FreshIsDecoder DEF StepsWell
<1>. QED  BY <1>3, <1>4, <1>5

LEMMA HalvedSteps ==
  ASSUME NEW c, IsCommand(c), Encodable(c), NEW args \in Seq(Byte), args = Arguments(c),
         NEW e, Encoding(e, args), NEW f \in Encoders, NEW x \in Byte,
         \/ Announces(e, f, x, args) \/ Announced(e, f, x, args)
         \/ Doubles(e, f, x, args) \/ Plain(e, f, x, args) \/ Codes(e, f, x, args, c.kind),
         NEW d \in Decoders, Halved(d, e, args), Len(d.buffer) < RxLen
  PROVE  StepsWell(d, ReceiveCommand(d, x), f, c)
<1>. PICK n \in Nat : n = Len(args)
  OBVIOUS
<1>. PICK b \in Seq(Byte) : b = d.buffer
  BY DEF Decoders
<1>. PICK more : more = Append(b, x)
  OBVIOUS
<1>. PICK taken : taken = ReceiveCommand(d, x)
  OBVIOUS
<1>1. e.count \in Nat /\ f.count \in Nat /\ e.count <= n
  BY DEF Encoding, Encoders, Halved
<1>2. more \in Seq(Byte) /\ Len(more) = Len(b) + 1
  OBVIOUS
<1>3. AllEscapes(b) /\ (x = ESCAPE_CHAR => AllEscapes(more))
  BY DEF Halved, AllEscapes
<1>4. ASSUME NEW s \in {"Loading", "Escape"}, NEW w \in Seq(Byte), Len(w) <= Len(b) + 1,
             taken = <<[state |-> s, buffer |-> w], None>>, f.count # n + 2,
             Astray([state |-> s, buffer |-> w], f, args)
      PROVE  StepsWell(d, taken, f, c)
  <2>1. RelatedThen([state |-> s, buffer |-> w], f, Arguments(c))
    BY <1>4 DEF RelatedThen, Related
  <2>. QED  BY <1>4, <2>1, NothingCompleted
<1>5. CASE Announces(e, f, x, args) \/ Announced(e, f, x, args)
  <2>. PICK o : o = [state |-> "Loading", buffer |-> more]
    OBVIOUS
  <2>1. d.state = "Escape" /\ Len(b) < e.count /\ x = ESCAPE_CHAR
    BY <1>5 DEF Halved, Announces, Announced
  <2>2. taken = <<o, None>>
    BY <2>1, DecoderGoes
  <2>3. Halved(o, f, args) \/ Late(o, f, args)
    BY <1>1, <1>2, <1>3, <1>5, <2>1 DEF Halved, Late, Announces, Announced
  <2>4. f.count # n + 2
    BY <1>1, <1>5 DEF Announces, Announced
  <2>5. Len(more) <= Len(b) + 1
    BY <1>2
  <2>6. Astray(o, f, args)
    BY <2>3 DEF Astray
  <2>. QED  BY <1>2, <1>4, <2>2, <2>4, <2>5, <2>6, Zenon
<1>6. CASE Doubles(e, f, x, args)
  <2>. PICK o : o = [state |-> "Escape", buffer |-> b]
    OBVIOUS
  <2>1. d.state = "Loading" /\ Len(b) <= e.count /\ x = ESCAPE_CHAR
    BY <1>6 DEF Halved, Doubles
  <2>2. taken = <<o, None>>
    BY <2>1, DecoderGoes
  <2>3. Halved(o, f, args)
    BY <1>1, <1>3, <1>6, <2>1 DEF Halved, Doubles
  <2>4. f.count # n + 2
    BY <1>1, <1>6 DEF Doubles
  <2>5. Len(b) <= Len(b) + 1
    OBVIOUS
  <2>6. Astray(o, f, args)
    BY <2>3 DEF Astray
  <2>. QED  BY <1>4, <2>2, <2>4, <2>5, <2>6, Zenon
<1>7. CASE Plain(e, f, x, args)
  <2>1. d.state = "Escape" /\ Len(b) < e.count /\ x # ESCAPE_CHAR
    BY <1>7 DEF Halved, Plain
  <2>2. f.count = e.count + 1 /\ ~f.sent_escape /\ e.count < n /\ f.count # n + 2 /\ f.count # n + 1
    BY <1>1, <1>7 DEF Plain
  <2>3. ASSUME taken = <<[state |-> "Loading", buffer |-> b], None>>
        PROVE  StepsWell(d, taken, f, c)
    <3>. PICK o : o = [state |-> "Loading", buffer |-> b]
      OBVIOUS
    <3>1. Misses(o, f, args)
      BY <1>1, <2>1, <2>2 DEF Misses
    <3>2. Len(b) <= Len(b) + 1
      OBVIOUS
    <3>3. Astray(o, f, args)
      BY <3>1 DEF Astray
    <3>. QED  BY <1>4, <2>2, <2>3, <3>2, <3>3, Zenon
  <2>4. ASSUME NEW k \in CommandKinds, taken = <<FreshDecoder, Parsed(k, b)>>
        PROVE  StepsWell(d, taken, f, c)
    <3>. PICK p : p = Parsed(k, b)
      OBVIOUS
    <3>1. Changes(p) => AllEscapes(Arguments(p))
      BY <1>3, EscapesParsed
    <3>2. taken[1] = FreshDecoder /\ taken[2] = p
      BY <2>4
    <3>3. Misses(FreshDecoder, f, args)
      BY <1>1, <2>2, FreshIsDecoder DEF Misses
    <3>4. RelatedThen(FreshDecoder, f, Arguments(c))
      BY <2>2, <3>3 DEF RelatedThen, Related, Astray
    <3>5. 0 <= Len(d.buffer) + 1
      OBVIOUS
    <3>. QED  BY <3>1, <3>2, <3>4, <3>5, FreshIsDecoder DEF StepsWell
  <2>. QED  BY <2>1, <2>3, <2>4, DecoderGoes
<1>8. ~Codes(e, f, x, args, c.kind)
  BY <1>1 DEF Codes
<1>. QED  BY <1>5, <1>6, <1>7, <1>8

LEMMA LateSteps ==
  ASSUME NEW c, IsCommand(c), Encodable(c), NEW args \in Seq(Byte), args = Arguments(c),
         NEW e, Encoding(e, args), NEW f \in Encoders, NEW x \in Byte,
         \/ Announces(e, f, x, args) \/ Announced(e, f, x, args)
         \/ Doubles(e, f, x, args) \/ Plain(e, f, x, args) \/ Codes(e, f, x, args, c.kind),
         NEW d \in Decoders, Late(d, e, args), Len(d.buffer) < RxLen
  PROVE  StepsWell(d, ReceiveCommand(d, x), f, c)
<1>. PICK b \in Seq(Byte) : b = d.buffer
  BY DEF Decoders
<1>. PICK more : more = Append(b, x)
  OBVIOUS
<1>1. Codes(e, f, x, args, c.kind)
  BY DEF Late, Announces, Announced, Doubles, Plain
<1>2. x # ESCAPE_CHAR
  <2>1. c.kind \in CommandKinds
    BY DEF IsCommand
  <2>2. CommandCode[c.kind] \in 1 .. 35
    BY <2>1, CommandCodes
  <2>3. x = CommandCode[c.kind]
    BY <1>1 DEF Codes
  <2>4. x \in 1 .. 35
    BY <2>2, <2>3, Zenon
  <2>. QED  BY <2>4 DEF ESCAPE_CHAR
<1>3. ReceiveCommand(d, x) = <<[state |-> "Loading", buffer |-> more], None>>
  BY <1>2, DecoderGoes DEF Late
<1>4. more \in Seq(Byte) /\ Len(more) = Len(b) + 1
  OBVIOUS
<1>5. RelatedThen([state |-> "Loading", buffer |-> more], f, Arguments(c))
  <2>. PICK o : o = [state |-> "Loading", buffer |-> more]
    OBVIOUS
  <2>1. o.state = "Loading" /\ Len(o.buffer) # 0
    BY <1>4
  <2>2. f.count = Len(args) + 2
    BY <1>1 DEF Codes
  <2>. QED  BY <2>1, <2>2, Zenon DEF RelatedThen
<1>6. Len(more) <= Len(d.buffer) + 1 /\ "Loading" \in {"Loading", "Escape"}
  BY <1>4
<1>. QED  BY <1>3, <1>4, <1>5, <1>6, NothingCompleted, Zenon

\* A decoder that began anywhere stays in one of its places, and completes what
\* changes flash only when it has all of the command, or escape characters only.
LEMMA RelatedSteps ==
  ASSUME NEW c, IsCommand(c), Encodable(c), NEW args \in Seq(Byte), args = Arguments(c),
         NEW e, Encoding(e, args), e.count < Len(args) + 2,
         NEW d \in Decoders, Related(d, e, args), Len(d.buffer) < RxLen
  PROVE  LET next == NextOfCommand(e, c)
         IN  StepsWell(d, ReceiveCommand(d, next[2]), next[1], c)
<1>. PICK next, f, x : next = NextOfCommand(e, c) /\ f = next[1] /\ x = next[2]
  OBVIOUS
<1>1. c.kind \in CommandKinds /\ Parsed(c.kind, args) = c
  BY CommandParsed DEF IsCommand
<1>. PICK n \in Nat : n = Len(args)
  OBVIOUS
<1>2. /\ f \in Encoders
      /\ \/ Announces(e, f, x, args) \/ Announced(e, f, x, args)
         \/ Doubles(e, f, x, args) \/ Plain(e, f, x, args) \/ Codes(e, f, x, args, c.kind)
  BY <1>1, EncoderSteps
<1>3. /\ Encoding(f, args) /\ x \in Byte
      /\ IF e.count = n + 1 THEN f.count = n + 2 ELSE f.count < n + 2
  BY <1>1, NextEncodes
<1>4. CASE d = Following(e, args)
  <2>1. /\ e \in Encoders /\ e.count \in Nat
        /\ Len(d.buffer) = IF e.count < n THEN e.count ELSE n
    <3>1. e.count \in Nat /\ e \in Encoders
      BY DEF Encoding, Encoders
    <3>2. d.buffer = SubSeq(args, 1, IF e.count < n THEN e.count ELSE n)
      BY <1>4 DEF Following
    <3>3. CASE e.count < n
      <4>1. Len(SubSeq(args, 1, e.count)) = e.count
        BY <3>1, <3>3
      <4>. QED  BY <3>1, <3>2, <3>3, <4>1
    <3>4. CASE ~(e.count < n)
      <4>1. SubSeq(args, 1, n) = args
        BY Whole
      <4>. QED  BY <3>1, <3>2, <3>4, <4>1
    <3>. QED  BY <3>3, <3>4
  <2>2. e.count < n => e.count < RxLen
    BY <2>1
  <2>3. ReceiveCommand(d, x) = IF e.count = n + 1 THEN <<FreshDecoder, Parsed(c.kind, args)>>
                               ELSE <<Following(f, args), None>>
    BY <1>1, <1>4, <2>2, CommandByteFollows
  <2>4. CASE e.count = n + 1
    <3>1. ReceiveCommand(d, x) = <<FreshDecoder, c>>
      BY <1>1, <2>3, <2>4, Zenon
    <3>2. RelatedThen(FreshDecoder, f, Arguments(c))
      BY <1>3, <2>4 DEF RelatedThen
    <3>3. 0 <= Len(d.buffer) + 1
      BY <2>1
    <3>. QED  BY <3>1, <3>2, <3>3, FreshIsDecoder DEF StepsWell
  <2>5. CASE e.count # n + 1
    <3>1. f.count # n + 2 /\ f.count \in Nat
      BY <1>2, <1>3, <2>5 DEF Encoders
    <3>. PICK m \in Nat : m = IF f.count < n THEN f.count ELSE n
      BY <3>1
    <3>. PICK b : b = SubSeq(args, 1, m)
      OBVIOUS
    <3>. PICK s \in {"Loading", "Escape"} :
           s = IF f.sent_escape \/ f.count = n + 1 THEN "Escape" ELSE "Loading"
      OBVIOUS
    <3>2. m <= n
      BY <3>1
    <3>3. b \in Seq(Byte) /\ Len(b) = m
      BY <3>2
    <3>4. Following(f, args) = [state |-> s, buffer |-> b]
      BY DEF Following
    <3>5. Len(b) <= Len(d.buffer) + 1
      <4>1. f.count \in {e.count, e.count + 1}
        BY <1>1, NextEncodes
      <4>. QED  BY <2>1, <3>1, <3>3, <4>1
    <3>6. RelatedThen([state |-> s, buffer |-> b], f, Arguments(c))
      BY <3>1, <3>4 DEF RelatedThen, Related
    <3>7. ReceiveCommand(d, x) = <<[state |-> s, buffer |-> b], None>>
      BY <2>3, <2>5, <3>4, Zenon
    <3>. QED  BY <3>3, <3>5, <3>6, <3>7, NothingCompleted
  <2>. QED  BY <2>4, <2>5
<1>5. CASE Misses(d, e, args)
  BY <1>2, <1>3, <1>5, MissesSteps
<1>6. CASE Halved(d, e, args)
  BY <1>2, <1>3, <1>6, HalvedSteps
<1>7. CASE Late(d, e, args)
  BY <1>2, <1>3, <1>7, LateSteps
<1>. QED  BY <1>4, <1>5, <1>6, <1>7 DEF Related, Astray

-----------------------------------------------------------------------------
(* A place is where an encoder may be in a command.  The line is a sequence  *)
(* of places, each the next of the one before or the beginning of a command, *)
(* of which the host's is the last; what is on it are the bytes that the     *)
(* encoder renders there.                                                   *)

Places ==
  {p \in [cmd : Commands, enc : Encoders] :
     /\ Encodable(p.cmd) /\ Encoding(p.enc, Arguments(p.cmd))
     /\ p.enc.count < Len(Arguments(p.cmd)) + 2}

Place(c, e) == [cmd |-> c, enc |-> e]

ByteAt(p)   == NextOfCommand(p.enc, p.cmd)[2]
NextEnc(p)  == NextOfCommand(p.enc, p.cmd)[1]
Ends(p)     == p.enc.count = Len(Arguments(p.cmd)) + 1

Precedes(p, q) ==
  IF Ends(p) THEN q.enc = FreshEncoder ELSE q.cmd = p.cmd /\ q.enc = NextEnc(p)

Chain(Q) == \A i \in 1 .. Len(Q) - 1 : Precedes(Q[i], Q[i + 1])

\* The bytes at the places behind the first j.
Spelt(s, Q, j) == j + Len(s) <= Len(Q) /\ \A i \in 1 .. Len(s) : s[i] = ByteAt(Q[j + i])

LEMMA PlaceFacts ==
  ASSUME NEW p \in Places
  PROVE  /\ p.cmd \in Commands /\ IsCommand(p.cmd) /\ Encodable(p.cmd)
         /\ p.cmd.kind \in CommandKinds
         /\ Arguments(p.cmd) \in Seq(Byte)
         /\ Encoding(p.enc, Arguments(p.cmd)) /\ p.enc \in Encoders
         /\ p.enc.count < Len(Arguments(p.cmd)) + 2
         /\ p = Place(p.cmd, p.enc)
<1>1. /\ p.cmd \in Commands /\ Encodable(p.cmd) /\ p.enc \in Encoders
      /\ Encoding(p.enc, Arguments(p.cmd))
      /\ p.enc.count < Len(Arguments(p.cmd)) + 2
      /\ p = Place(p.cmd, p.enc)
  BY DEF Places, Place
<1>2. IsCommand(p.cmd)
  BY <1>1, CommandsAssumption
<1>3. p.cmd.kind \in CommandKinds
  BY <1>2 DEF IsCommand
<1>4. Arguments(p.cmd) \in Seq(Byte)
  BY <1>1, <1>2, CommandParsed
<1>. QED  BY <1>1, <1>2, <1>3, <1>4

\* The encoder at a place goes on to a place, or ends its command.
LEMMA PlaceNext ==
  ASSUME NEW p \in Places
  PROVE  /\ ByteAt(p) \in Byte
         /\ Ends(p) => NextEnc(p).count = Len(Arguments(p.cmd)) + 2
         /\ ~Ends(p) => /\ Place(p.cmd, NextEnc(p)) \in Places
                        /\ NextEnc(p).count # Len(Arguments(p.cmd)) + 2
                        /\ NextEnc(p) # FreshEncoder
<1>. PICK args \in Seq(Byte) : args = Arguments(p.cmd)
  BY PlaceFacts
<1>. PICK n \in Nat : n = Len(args)
  OBVIOUS
<1>. PICK e, c, f : e = p.enc /\ c = p.cmd /\ f = NextEnc(p)
  OBVIOUS
<1>1. c \in Commands /\ Encodable(c) /\ c.kind \in CommandKinds /\ Encoding(e, args)
      /\ e.count < n + 2 /\ e \in Encoders
  BY PlaceFacts
<1>2. /\ Encoding(f, args) /\ ByteAt(p) \in Byte /\ f.count \in {e.count, e.count + 1}
      /\ IF e.count = n + 1 THEN f.count = n + 2 ELSE f.count < n + 2
  BY <1>1, NextEncodes DEF NextEnc, ByteAt
<1>3. f \in Encoders
  BY <1>2 DEF Encoding
<1>4. \/ Announces(e, f, ByteAt(p), args) \/ Announced(e, f, ByteAt(p), args)
      \/ Doubles(e, f, ByteAt(p), args) \/ Plain(e, f, ByteAt(p), args)
      \/ Codes(e, f, ByteAt(p), args, c.kind)
  BY <1>1, EncoderSteps DEF NextEnc, ByteAt
<1>5. f # FreshEncoder
  <2>1. FreshEncoder.count = 0 /\ ~FreshEncoder.sent_escape
    BY DEF FreshEncoder
  <2>2. e.count \in Nat
    BY <1>1 DEF Encoders
  <2>. QED  BY <1>4, <2>1, <2>2 DEF Announces, Announced, Doubles, Plain, Codes
<1>6. CASE Ends(p)
  BY <1>2, <1>6 DEF Ends
<1>7. CASE ~Ends(p)
  <2>1. f.count < n + 2 /\ f.count # n + 2
    <3>1. f.count \in Nat
      BY <1>3 DEF Encoders
    <3>. QED  BY <1>2, <1>7, <3>1 DEF Ends
  <2>2. Place(c, f) \in Places
    BY <1>1, <1>2, <1>3, <2>1 DEF Places, Place
  <2>. QED  BY <1>2, <1>5, <1>7, <2>1, <2>2
<1>. QED  BY <1>6, <1>7

-----------------------------------------------------------------------------
(* Strings spelt on the line, cut and put together.                        *)

LEMMA SpeltEmpty ==
  ASSUME NEW Q \in Seq(Places), NEW j \in Nat, j <= Len(Q)
  PROVE  Spelt(<<>>, Q, j)
  BY DEF Spelt

LEMMA SpeltConcat ==
  ASSUME NEW Q \in Seq(Places), NEW j \in Nat, NEW s \in Seq(Byte), NEW t \in Seq(Byte),
         Spelt(s, Q, j), Spelt(t, Q, j + Len(s))
  PROVE  Spelt(s \o t, Q, j)
<1>. PICK w : w = s \o t
  OBVIOUS
<1>1. /\ w \in Seq(Byte) /\ Len(w) = Len(s) + Len(t)
      /\ \A i \in 1 .. Len(s) : w[i] = s[i]
      /\ \A i \in 1 .. Len(t) : w[Len(s) + i] = t[i]
  BY ByteConcat, Zenon
<1>. PICK ls \in Nat, lt \in Nat, lq \in Nat : ls = Len(s) /\ lt = Len(t) /\ lq = Len(Q)
  OBVIOUS
<1>2. /\ j + ls + lt <= lq
      /\ \A i \in 1 .. ls : s[i] = ByteAt(Q[j + i])
      /\ \A i \in 1 .. lt : t[i] = ByteAt(Q[j + ls + i])
  BY DEF Spelt
<1>3. ASSUME NEW i \in 1 .. ls + lt PROVE w[i] = ByteAt(Q[j + i])
  <2>1. CASE i <= ls
    <3>1. i \in 1 .. ls
      BY <2>1
    <3>. QED  BY <1>1, <1>2, <3>1, Zenon
  <2>2. CASE i > ls
    <3>1. PICK h \in 1 .. lt : i = ls + h
      <4>1. i - ls \in 1 .. lt /\ i = ls + (i - ls)
        BY <2>2
      <4>. QED  BY <4>1
    <3>2. j + i = j + ls + h
      BY <3>1
    <3>3. w[i] = t[h]
      BY <1>1, <3>1, Zenon
    <3>. QED  BY <1>2, <3>2, <3>3, Zenon
  <2>. QED  BY <2>1, <2>2
<1>4. j + (ls + lt) <= lq
  BY <1>2
<1>. QED  BY <1>1, <1>3, <1>4, Zenon DEF Spelt

LEMMA SpeltFirst ==
  ASSUME NEW Q \in Seq(Places), NEW j \in Nat, NEW s \in Seq(Byte), Spelt(s, Q, j), NEW n \in Nat
  PROVE  Spelt(First(s, n), Q, j)
<1>. PICK w : w = First(s, n)
  OBVIOUS
<1>. PICK m \in Nat : m = Lesser(n, Len(s)) /\ m <= Len(s)
  BY DEF Lesser
<1>1. w \in Seq(Byte) /\ Len(w) = m /\ \A i \in 1 .. m : w[i] = s[i]
  BY FirstType, Zenon
<1>2. j + m <= Len(Q) /\ \A i \in 1 .. m : i \in 1 .. Len(s)
  BY DEF Spelt
<1>. QED  BY <1>1, <1>2, Zenon DEF Spelt

LEMMA SpeltRest ==
  ASSUME NEW Q \in Seq(Places), NEW j \in Nat, NEW s \in Seq(Byte), Spelt(s, Q, j),
         NEW n \in Nat, n <= Len(s)
  PROVE  LET rest == SubSeq(s, n + 1, Len(s))
         IN  rest \in Seq(Byte) /\ Len(rest) = Len(s) - n /\ Spelt(rest, Q, j + n)
<1>. DEFINE w == SubSeq(s, n + 1, Len(s))
<1>1. w \in Seq(Byte) /\ Len(w) = Len(s) - n /\ \A i \in 1 .. Len(s) - n : w[i] = s[n + i]
  OBVIOUS
<1>. HIDE DEF w
<1>2. ASSUME NEW i \in 1 .. Len(w) PROVE w[i] = ByteAt(Q[j + n + i])
  <2>1. n + i \in 1 .. Len(s) /\ j + (n + i) = j + n + i /\ i \in 1 .. Len(s) - n
    BY <1>1
  <2>2. s[n + i] = ByteAt(Q[j + (n + i)])
    BY <2>1, Zenon DEF Spelt
  <2>. QED  BY <1>1, <2>1, <2>2, Zenon
<1>3. j + n + Len(w) <= Len(Q)
  <2>1. j + Len(s) <= Len(Q)
    BY DEF Spelt
  <2>. QED  BY <1>1, <2>1
<1>4. Spelt(w, Q, j + n)
  BY <1>2, <1>3, Zenon DEF Spelt
<1>. QED  BY <1>1, <1>4 DEF w

LEMMA SpeltTail ==
  ASSUME NEW Q \in Seq(Places), NEW j \in Nat, NEW s \in Seq(Byte), Spelt(s, Q, j), s # <<>>
  PROVE  /\ Tail(s) \in Seq(Byte) /\ Len(Tail(s)) = Len(s) - 1 /\ Len(s) >= 1
         /\ Spelt(Tail(s), Q, j + 1)
         /\ j + 1 \in 1 .. Len(Q) /\ Head(s) = ByteAt(Q[j + 1])
<1>. DEFINE w == Tail(s)
<1>1. /\ Len(s) \in Nat /\ Len(s) >= 1 /\ Head(s) = s[1]
      /\ w \in Seq(Byte) /\ Len(w) = Len(s) - 1
      /\ \A i \in 1 .. Len(s) - 1 : w[i] = s[1 + i]
  OBVIOUS
<1>. HIDE DEF w
<1>2. 1 \in 1 .. Len(s) /\ j + 1 \in 1 .. Len(Q)
  BY <1>1 DEF Spelt
<1>3. s[1] = ByteAt(Q[j + 1])
  BY <1>2, Zenon DEF Spelt
<1>4. ASSUME NEW i \in 1 .. Len(w) PROVE w[i] = ByteAt(Q[j + 1 + i])
  <2>1. 1 + i \in 1 .. Len(s) /\ j + (1 + i) = j + 1 + i /\ i \in 1 .. Len(s) - 1
    BY <1>1
  <2>2. s[1 + i] = ByteAt(Q[j + (1 + i)])
    BY <2>1, Zenon DEF Spelt
  <2>. QED  BY <1>1, <2>1, <2>2, Zenon
<1>5. j + 1 + Len(w) <= Len(Q)
  <2>1. j + Len(s) <= Len(Q)
    BY DEF Spelt
  <2>. QED  BY <1>1, <2>1
<1>6. Spelt(w, Q, j + 1)
  BY <1>4, <1>5, Zenon DEF Spelt
<1>. QED  BY <1>1, <1>2, <1>3, <1>6, Zenon DEF w

\* A longer line.
LEMMA SpeltLonger ==
  ASSUME NEW Q \in Seq(Places), NEW j \in Nat, NEW s \in Seq(Byte), Spelt(s, Q, j),
         NEW p \in Places
  PROVE  Spelt(s, Append(Q, p), j)
<1>. PICK R : R = Append(Q, p)
  OBVIOUS
<1>1. Len(R) = Len(Q) + 1 /\ \A i \in 1 .. Len(Q) : R[i] = Q[i]
  OBVIOUS
<1>2. j + Len(s) <= Len(R) /\ \A i \in 1 .. Len(s) : j + i \in 1 .. Len(Q)
  BY <1>1 DEF Spelt
<1>. QED  BY <1>1, <1>2, Zenon DEF Spelt

\* One byte more.
LEMMA SpeltMore ==
  ASSUME NEW Q \in Seq(Places), NEW j \in Nat, NEW s \in Seq(Byte), Spelt(s, Q, j),
         j + Len(s) + 1 <= Len(Q)
  PROVE  Spelt(Append(s, ByteAt(Q[j + Len(s) + 1])), Q, j)
<1>. PICK x \in Byte : x = ByteAt(Q[j + Len(s) + 1])
  <2>1. j + Len(s) + 1 \in 1 .. Len(Q)
    OBVIOUS
  <2>2. Q[j + Len(s) + 1] \in Places
    BY <2>1, ElementOfSeq, Zenon
  <2>. QED  BY <2>2, PlaceNext, Zenon
<1>. PICK w : w = Append(s, x)
  OBVIOUS
<1>. PICK ls \in Nat : ls = Len(s)
  OBVIOUS
<1>1. Len(w) = ls + 1 /\ w[ls + 1] = x /\ \A i \in 1 .. ls : w[i] = s[i]
  OBVIOUS
<1>2. ASSUME NEW i \in 1 .. ls + 1 PROVE w[i] = ByteAt(Q[j + i])
  <2>1. CASE i = ls + 1
    <3>1. j + i = j + ls + 1
      BY <2>1
    <3>. QED  BY <1>1, <2>1, <3>1, Zenon
  <2>2. CASE i # ls + 1
    <3>1. i \in 1 .. ls
      BY <2>2
    <3>. QED  BY <1>1, <3>1, Zenon DEF Spelt
  <2>. QED  BY <2>1, <2>2
<1>3. j + (ls + 1) <= Len(Q)
  OBVIOUS
<1>. QED  BY <1>1, <1>2, <1>3, Zenon DEF Spelt

\* What the client's buffer holds of the line between k and l.
Filled(b, k, l) == k + Len(b) = l \/ (Len(b) = BUF /\ k + BUF <= l)

\* A receive that holds what comes behind l is copied.
LEMMA SpeltCopy ==
  ASSUME NEW Q \in Seq(Places), NEW k \in Nat, NEW l \in Nat,
         rx_client_buffer \in Seq(Byte), Len(rx_client_buffer) <= BUF,
         Spelt(rx_client_buffer, Q, k), Filled(rx_client_buffer, k, l),
         NEW s \in Seq(Byte), Spelt(s, Q, l)
  PROVE  /\ Copied(s) \in Seq(Byte) /\ Spelt(Copied(s), Q, k)
         /\ Filled(Copied(s), k, l + Len(s))
         /\ Len(Copied(s)) <= BUF /\ k + Len(Copied(s)) <= l + Len(s)
<1>. PICK b \in Seq(Byte) : b = rx_client_buffer
  OBVIOUS
<1>. DEFINE room == BUF - Len(b)
            g == First(s, room)
            w == b \o g
<1>0. room \in Nat
  OBVIOUS
<1>. HIDE DEF room
<1>1. g \in Seq(Byte) /\ Len(g) = Lesser(room, Len(s)) /\ Spelt(g, Q, l)
  BY <1>0, FirstType, SpeltFirst, Zenon
<1>. HIDE DEF g
<1>2. Copied(s) = w
  BY Zenon DEF Copied, g, room
<1>3. w \in Seq(Byte) /\ Len(w) = Len(b) + Len(g)
  BY <1>1, ByteConcat, Zenon
<1>4. CASE k + Len(b) = l
  <2>1. Spelt(g, Q, k + Len(b)) /\ Spelt(b, Q, k)
    BY <1>1, <1>4, Zenon
  <2>2. Spelt(w, Q, k)
    BY <1>1, <2>1, SpeltConcat, Zenon
  <2>. HIDE DEF w
  <2>3. Len(w) <= BUF /\ k + Len(w) <= l + Len(s) /\ Filled(w, k, l + Len(s))
    <3>. PICK lw \in Nat, lb \in Nat, lg \in Nat, ls \in Nat :
           lw = Len(w) /\ lb = Len(b) /\ lg = Len(g) /\ ls = Len(s)
      BY <1>1, <1>3
    <3>1. /\ lg = IF room <= ls THEN room ELSE ls
          /\ lw = lb + lg /\ k + lb = l /\ room = BUF - lb
      <4>1. room = BUF - Len(b)
        BY DEF room
      <4>. QED  BY <1>1, <1>3, <1>4, <4>1, Zenon DEF Lesser
    <3>2. lw <= BUF /\ k + lw <= l + ls
      BY <3>1
    <3>3. k + lw = l + ls \/ (lw = BUF /\ k + BUF <= l + ls)
      <4>0. BUF \in Nat
        OBVIOUS
      <4>1. CASE room <= ls
        <5>1. lw = BUF
          BY <3>1, <4>0, <4>1, <1>0
        <5>2. k + lw <= l + ls
          BY <3>2
        <5>. QED  BY <5>1, <5>2
      <4>2. CASE ~(room <= ls)
        <5>1. k + lw = l + ls
          BY <3>1, <4>2
        <5>. QED  BY <5>1
      <4>. QED  BY <4>1, <4>2
    <3>. QED  BY <3>2, <3>3, Zenon DEF Filled
  <2>. QED  BY <1>2, <1>3, <2>2, <2>3, Zenon
<1>5. CASE Len(b) = BUF /\ k + BUF <= l
  <2>1. Len(g) = 0
    BY <1>1, <1>5 DEF Lesser, room
  <2>2. g = <<>>
    BY <1>1, <2>1
  <2>3. w = b
    BY <2>2
  <2>4. Len(b) <= BUF /\ k + Len(b) <= l + Len(s) /\ Filled(b, k, l + Len(s))
    BY <1>5 DEF Filled
  <2>. QED  BY <1>2, <2>3, <2>4, Zenon
<1>. QED  BY <1>4, <1>5 DEF Filled

-----------------------------------------------------------------------------
(* The invariant.  Behind the first m places is what waits for a receive;    *)
(* behind the first k, what the client's buffer or, while the bootloader     *)
(* decodes, its loop still has; behind the first l, what the driver holds.   *)

Abreast(Q, m) ==
  IF host = "sending" THEN m + Len(fifo) + 1 = Len(Q) /\ Q[Len(Q)] = Place(cmd, enc)
  ELSE m + Len(fifo) = Len(Q) /\ (Len(Q) # 0 => Ends(Q[Len(Q)]))

Gathering(Q, k, l, m) ==
  /\ Spelt(rx_client_buffer, Q, k) /\ Filled(rx_client_buffer, k, l)
  /\ Spelt(uart.bytes, Q, l) /\ l + Len(uart.bytes) = m

Reading(Q, k, m) ==
  /\ unread \in Seq(Byte) /\ Spelt(unread, Q, k) /\ k + Len(unread) <= m
  /\ decoder \in Decoders /\ Len(decoder.buffer) + Len(unread) <= BUF
  /\ unread # <<>> => Related(decoder, Q[k + 1].enc, Arguments(Q[k + 1].cmd))

Line(Q, k, l, m) ==
  /\ Chain(Q) /\ Abreast(Q, m) /\ Spelt(fifo, Q, m)
  /\ client = "listening" => Gathering(Q, k, l, m)
  /\ client = "decoding" => Reading(Q, k, m)

\* Nothing of the command is still to come.
Quiet == host # "sending" /\ fifo = <<>>

\* Up to the first pause, and after it until another one, the line begins with
\* the host's command and has no other: its first part completes nothing.
Once(Q) ==
  /\ Len(Q) # 0 => Q[1].enc = FreshEncoder
  /\ \A i \in 1 .. Len(Q) : Q[i].cmd = cmd
  /\ \A i \in 2 .. Len(Q) : Q[i].enc # FreshEncoder

Exactly(Q, k) == unread # <<>> => decoder = Following(Q[k + 1].enc, Arguments(Q[k + 1].cmd))

Halves(Q, k, m) ==
  /\ client = "listening" => k = 0 \/ gaps = 1 \/ Quiet
  /\ uart.status = "aborting" => (k = 0 \/ Quiet) /\ (gaps = 1 \/ Quiet) /\ host # "idle"
  /\ client = "decoding" => (Exactly(Q, k) \/ Quiet) /\ (gaps = 1 \/ Quiet) /\ host # "idle"
  /\ client = "serving" => Quiet /\ host = "waiting"
  /\ client = "transmitting" => m = 0 \/ gaps = 1 \/ Quiet
  /\ host = "idle" /\ ~Stopped => fifo = <<>> /\ ~alarm

Holds(Q, k, l, m) == Line(Q, k, l, m) /\ (gaps <= 1 => Once(Q) /\ Halves(Q, k, m))

OnLine == \E Q \in Seq(Places) : \E k, l, m \in Nat : Holds(Q, k, l, m)

SInv == LInv /\ OnLine /\ SplitContained

\* Where nothing is gathered or read, only the host's end of the line counts.
LEMMA LineStays ==
  ASSUME NEW Q \in Seq(Places), NEW k \in Nat, NEW l \in Nat, NEW m \in Nat, Line(Q, k, l, m),
         UNCHANGED <<cmd, enc, fifo>>, host' = host \/ {host, host'} = {"idle", "waiting"},
         client' \notin {"listening", "decoding"}
  PROVE  Line(Q, k, l, m)'
<1>1. host' = "sending" <=> host = "sending"
  OBVIOUS
<1>2. Abreast(Q, m)'
  BY <1>1 DEF Line, Abreast
<1>. QED  BY <1>2 DEF Line

\* A receive is started.
LEMMA LineRestarts ==
  ASSUME LInv, NEW Q \in Seq(Places), NEW k \in Nat, NEW l \in Nat, NEW m \in Nat,
         Line(Q, k, l, m), UNCHANGED <<host, cmd, enc, fifo>>,
         client' = "listening", rx_client_buffer' = <<>>, uart' = Receive(1)
  PROVE  Line(Q, m, m, m)'
<1>1. uart'.bytes = <<>> /\ Len(uart'.bytes) = 0
  BY DEF Receive
<1>2. m <= Len(Q)
  <2>1. m + Len(fifo) <= Len(Q)
    BY DEF Line, Spelt
  <2>2. fifo \in Seq(Byte)
    BY DEF LInv, Forms
  <2>. QED  BY <2>1, <2>2
<1>3. Spelt(<<>>, Q, m)
  BY <1>2, SpeltEmpty
<1>4. Filled(<<>>, m, m)
  BY DEF Filled
<1>5. Gathering(Q, m, m, m)'
  BY <1>1, <1>3, <1>4 DEF Gathering
<1>6. Abreast(Q, m)'
  BY DEF Line, Abreast
<1>. QED  BY <1>5, <1>6 DEF Line

\* A receive takes n bytes.
LEMMA AbreastTakes ==
  ASSUME NEW Q, NEW m \in Nat, Abreast(Q, m), UNCHANGED <<host, cmd, enc>>,
         NEW n \in Nat, Len(fifo) \in Nat, Len(fifo') = Len(fifo) - n
  PROVE  Abreast(Q, m + n)'
<1>1. m + n + Len(fifo') = m + Len(fifo)
  OBVIOUS
<1>2. m + n + Len(fifo') + 1 = m + Len(fifo) + 1
  OBVIOUS
<1>. QED  BY <1>1, <1>2, Zenon DEF Abreast

\* What has been received, or what a broken receive had, is copied.
LEMMA LineCopies ==
  ASSUME LInv, NEW Q \in Seq(Places), NEW k \in Nat, NEW l \in Nat, NEW m \in Nat,
         Line(Q, k, l, m), client = "listening", UNCHANGED <<host, cmd, enc, client>>,
         NEW n \in Nat, n <= Len(fifo), fifo' = SubSeq(fifo, n + 1, Len(fifo)),
         rx_client_buffer' = Copied(uart.bytes \o First(fifo, n)), uart'.bytes = <<>>
  PROVE  Line(Q, k, m + n, m + n)'
<1>. PICK f \in Seq(Byte), u \in Seq(Byte), b \in Seq(Byte) :
       f = fifo /\ u = uart.bytes /\ b = rx_client_buffer
  BY DEF LInv, Forms
<1>1. /\ Spelt(f, Q, m) /\ Spelt(b, Q, k) /\ Filled(b, k, l) /\ Spelt(u, Q, l)
      /\ l + Len(u) = m /\ Len(b) <= BUF
  BY DEF Line, Gathering, LInv, TypeOK
<1>. DEFINE g == First(f, n)
            w == u \o g
            rest == SubSeq(f, n + 1, Len(f))
<1>2. g \in Seq(Byte) /\ Len(g) = n /\ Spelt(g, Q, m)
  <2>1. Lesser(n, Len(f)) = n
    BY DEF Lesser
  <2>. QED  BY <1>1, <2>1, FirstType, SpeltFirst, Zenon
<1>3. rest \in Seq(Byte) /\ Len(rest) = Len(f) - n /\ Spelt(rest, Q, m + n)
  BY <1>1, SpeltRest
<1>. HIDE DEF g, rest
<1>4. w \in Seq(Byte) /\ Len(w) = Len(u) + n
  BY <1>2, ByteConcat, Zenon
<1>5. Spelt(w, Q, l)
  <2>1. Spelt(g, Q, l + Len(u))
    BY <1>1, <1>2, Zenon
  <2>. QED  BY <1>1, <1>2, <2>1, SpeltConcat, Zenon
<1>. HIDE DEF w
<1>6. l + Len(w) = m + n
  BY <1>1, <1>4
<1>7. Spelt(Copied(w), Q, k) /\ Filled(Copied(w), k, m + n)
  <2>1. Spelt(Copied(w), Q, k) /\ Filled(Copied(w), k, l + Len(w))
    BY <1>1, <1>4, <1>5, SpeltCopy, Zenon
  <2>. QED  BY <1>6, <2>1, Zenon
<1>8. rx_client_buffer' = Copied(w) /\ fifo' = rest
  BY DEF w, g, rest
<1>9. m + n <= Len(Q)
  <2>1. m + n + Len(rest) <= Len(Q)
    BY <1>3 DEF Spelt
  <2>. QED  BY <1>3, <2>1
<1>10. Spelt(<<>>, Q, m + n)
  <2>1. m + n \in Nat
    OBVIOUS
  <2>. QED  BY <1>9, <2>1, SpeltEmpty, Zenon
<1>11. Gathering(Q, k, m + n, m + n)'
  <2>1. m + n + Len(uart'.bytes) = m + n
    OBVIOUS
  <2>. QED  BY <1>7, <1>8, <1>10, <2>1, Zenon DEF Gathering
<1>12. Abreast(Q, m + n)'
  <2>1. Len(rest) = Len(f) - n /\ Len(f) \in Nat /\ Len(rest) \in Nat
    BY <1>3
  <2>. QED  BY <1>8, <2>1, AbreastTakes, Zenon DEF Line
<1>13. Spelt(fifo', Q, m + n)
  BY <1>3, <1>8, Zenon
<1>14. Chain(Q)
  BY DEF Line
<1>. QED  BY <1>11, <1>12, <1>13, <1>14, Zenon DEF Line

LEMMA IsOnLine ==
  ASSUME NEW Q \in Seq(Places), NEW k \in Nat, NEW l \in Nat, NEW m \in Nat,
         Line(Q, k, l, m)', gaps' <= 1 => (Once(Q) /\ Halves(Q, k, m))'
  PROVE  OnLine'
  BY Zenon DEF OnLine, Holds

LEMMA StaysContained ==
  ASSUME SplitContained, client' # "serving" \/ UNCHANGED <<client, outcome, gaps, cmd>>
  PROVE  SplitContained'
  BY DEF SplitContained

-----------------------------------------------------------------------------
(* The driver and the alarm.                                                *)

LEMMA HalvesTakes ==
  ASSUME NEW Q, NEW k, NEW m, NEW n, Once(Q), Halves(Q, k, m), fifo # <<>>,
         client = "listening", uart.status = "on", uart'.status = "on",
         UNCHANGED <<host, cmd, client, gaps>>
  PROVE  (Once(Q) /\ Halves(Q, k, n))'
<1>1. ~Quiet /\ ~Stopped
  BY DEF Quiet, Stopped, Broken
<1>2. (k = 0 \/ gaps = 1) /\ host # "idle"
  BY <1>1 DEF Halves
<1>3. Halves(Q, k, n)'
  BY <1>2 DEF Halves
<1>. QED  BY <1>3 DEF Once

LEMMA DriverTakesLine ==
  ASSUME SInv, DriverTakes  PROVE OnLine' /\ SplitContained'
<1>0. /\ uart.status = "on" /\ client = "listening"
      /\ UNCHANGED <<host, cmd, enc, client, gaps, rx_client_buffer, outcome>>
  BY DEF DriverTakes, Takes, hostVars, adapterVars, clientVars, SInv, LInv, Turns
<1>. PICK n \in Packets : Takes(n) /\ uart' = Taken(n)
  BY Zenon DEF DriverTakes
<1>. PICK Q \in Seq(Places), k \in Nat, l \in Nat, m \in Nat : Holds(Q, k, l, m)
  BY Zenon DEF SInv, OnLine
<1>. PICK f \in Seq(Byte), u \in Seq(Byte) : f = fifo /\ u = uart.bytes
  BY DEF SInv, LInv, Forms
<1>1. /\ n \in Nat /\ n >= 1 /\ n <= Len(f) /\ fifo' = SubSeq(fifo, n + 1, Len(fifo))
      /\ uart'.bytes = u \o First(f, n) /\ uart'.status = "on"
  <2>1. uart \in [status : {"off", "on", "aborting", "failed"}, want : Nat, bytes : Seq(Byte)]
    BY DEF SInv, LInv, Forms
  <2>2. uart' = [uart EXCEPT !.bytes = u \o First(f, n)]
    BY DEF Taken
  <2>3. uart'.bytes = u \o First(f, n) /\ uart'.status = "on"
    BY <1>0, <2>1, <2>2
  <2>. QED  BY <2>3 DEF Takes
<1>. DEFINE g == First(f, n)
            w == u \o g
            rest == SubSeq(f, n + 1, Len(f))
<1>. PICK lu \in Nat, lf \in Nat : lu = Len(u) /\ lf = Len(f)
  OBVIOUS
<1>2. /\ Spelt(f, Q, m) /\ Spelt(u, Q, l) /\ l + lu = m
      /\ Spelt(rx_client_buffer, Q, k) /\ Filled(rx_client_buffer, k, l) /\ Chain(Q)
      /\ Abreast(Q, m)
  BY <1>0, Zenon DEF Holds, Line, Gathering
<1>3. rest \in Seq(Byte) /\ Len(rest) = Len(f) - n /\ Spelt(rest, Q, m + n)
  <2>1. n \in Nat /\ n <= Len(f) /\ Spelt(f, Q, m)
    BY <1>1, <1>2, Zenon
  <2>. HIDE <1>1, <1>2
  <2>. QED  BY <2>1, SpeltRest
<1>4. g \in Seq(Byte) /\ Len(g) = n /\ Spelt(g, Q, m)
  <2>1. Lesser(n, Len(f)) = n
    BY <1>1 DEF Lesser
  <2>. QED  BY <1>1, <1>2, <2>1, FirstType, SpeltFirst, Zenon
<1>5. fifo' = rest /\ uart'.bytes = w
  BY <1>1
<1>. HIDE DEF g, rest, w
<1>6. Spelt(w, Q, l) /\ l + Len(w) = m + n
  <2>1. Spelt(g, Q, l + Len(u))
    BY <1>2, <1>4, Zenon
  <2>2. w \in Seq(Byte) /\ Len(w) = Len(u) + Len(g)
    BY <1>4, ByteConcat, Zenon DEF w
  <2>3. Len(w) = lu + n
    BY <1>4, <2>2, Zenon
  <2>4. l + (lu + n) = m + n
    BY <1>2, SMTT(30)
  <2>5. l + Len(w) = m + n
    BY <2>3, <2>4, Zenon
  <2>6. Spelt(w, Q, l)
    BY <1>2, <1>4, <2>1, SpeltConcat, Zenon DEF w
  <2>. QED  BY <2>5, <2>6
<1>7. Gathering(Q, k, l, m + n)'
  BY <1>0, <1>2, <1>5, <1>6, Zenon DEF Gathering
<1>8. Abreast(Q, m + n)'
  BY <1>0, <1>1, <1>2, <1>3, <1>5, AbreastTakes, Zenon
<1>9. Line(Q, k, l, m + n)'
  <2>1. client' # "decoding"
    BY <1>0
  <2>. QED  BY <1>2, <1>3, <1>5, <1>7, <1>8, <2>1, Zenon DEF Line
<1>10. fifo # <<>>
  BY <1>1
<1>11. gaps' <= 1 => (Once(Q) /\ Halves(Q, k, m + n))'
  BY <1>0, <1>1, <1>10, HalvesTakes, Zenon DEF Holds
<1>12. m + n \in Nat
  BY <1>1
<1>. QED  BY <1>0, <1>9, <1>11, <1>12, IsOnLine, StaysContained, Zenon DEF SInv

LEMMA ReceivedLine ==
  ASSUME SInv, Received  PROVE OnLine' /\ SplitContained'
<1>0. /\ uart.status = "on" /\ client = "listening"
      /\ UNCHANGED <<host, cmd, enc, client, gaps, outcome>>
      /\ uart' = Receive(Lesser(RX_BUF \div 2, CHUNK))
  BY DEF Received, Takes, hostVars, clientVars, SInv, LInv, Turns
<1>. PICK n \in Packets : Takes(n) /\ rx_client_buffer' = Copied(Taken(n).bytes)
  BY Zenon DEF Received
<1>. PICK Q \in Seq(Places), k \in Nat, l \in Nat, m \in Nat : Holds(Q, k, l, m)
  BY Zenon DEF SInv, OnLine
<1>1. /\ n \in Nat /\ n >= 1 /\ n <= Len(fifo) /\ fifo' = SubSeq(fifo, n + 1, Len(fifo))
      /\ rx_client_buffer' = Copied(uart.bytes \o First(fifo, n))
  <2>1. uart \in [status : {"off", "on", "aborting", "failed"}, want : Nat, bytes : Seq(Byte)]
    BY DEF SInv, LInv, Forms
  <2>2. Taken(n).bytes = uart.bytes \o First(fifo, n)
    BY <2>1 DEF Taken
  <2>. QED  BY <2>2 DEF Takes
<1>2. uart'.bytes = <<>> /\ uart'.status = "on"
  BY <1>0 DEF Receive
<1>3. Line(Q, k, m + n, m + n)'
  BY <1>0, <1>1, <1>2, LineCopies, Zenon DEF Holds, SInv
<1>4. fifo # <<>>
  <2>1. fifo \in Seq(Byte)
    BY DEF SInv, LInv, Forms
  <2>. QED  BY <1>1, <2>1
<1>5. gaps' <= 1 => (Once(Q) /\ Halves(Q, k, m + n))'
  BY <1>0, <1>2, <1>4, HalvesTakes, Zenon DEF Holds
<1>6. m + n \in Nat
  BY <1>1
<1>. QED  BY <1>0, <1>3, <1>5, <1>6, IsOnLine, StaysContained, Zenon DEF SInv

LEMMA ReceiveFailsLine ==
  ASSUME SInv, ReceiveFails  PROVE OnLine' /\ SplitContained'
<1>0. /\ client = "listening" /\ uart'.status = "failed" /\ uart'.bytes = <<>>
      /\ rx_client_buffer' = Copied(uart.bytes)
      /\ UNCHANGED <<host, cmd, enc, client, gaps, outcome, fifo>>
  BY DEF ReceiveFails, NoReceive, hostVars, clientVars, SInv, LInv, Turns
<1>. PICK Q \in Seq(Places), k \in Nat, l \in Nat, m \in Nat : Holds(Q, k, l, m)
  BY Zenon DEF SInv, OnLine
<1>1. 0 <= Len(fifo) /\ fifo' = SubSeq(fifo, 0 + 1, Len(fifo))
  <2>1. fifo \in Seq(Byte)
    BY DEF SInv, LInv, Forms
  <2>. QED  BY <1>0, <2>1
<1>2. uart.bytes \o First(fifo, 0) = uart.bytes
  <2>1. First(fifo, 0) = <<>>
    <3>1. fifo \in Seq(Byte)
      BY DEF SInv, LInv, Forms
    <3>2. Lesser(0, Len(fifo)) = 0
      BY <3>1 DEF Lesser
    <3>3. First(fifo, 0) \in Seq(Byte) /\ Len(First(fifo, 0)) = 0
      BY <3>1, <3>2, FirstType
    <3>. QED  BY <3>3
  <2>2. uart.bytes \in Seq(Byte)
    BY DEF SInv, LInv, Forms
  <2>. QED  BY <2>1, <2>2, ConcatEmptySeq
<1>3. Line(Q, k, m + 0, m + 0)'
  <2>1. rx_client_buffer' = Copied(uart.bytes \o First(fifo, 0))
    BY <1>0, <1>2, Zenon
  <2>. QED  BY <1>0, <1>1, <2>1, LineCopies, Zenon DEF Holds, SInv
<1>4. gaps' <= 1 => (Once(Q) /\ Halves(Q, k, m))'
  <2>. SUFFICES ASSUME gaps <= 1, Once(Q), Halves(Q, k, m) PROVE (Once(Q) /\ Halves(Q, k, m))'
    BY <1>0, Zenon DEF Holds
  <2>1. Once(Q)'
    BY <1>0 DEF Once
  <2>2. Stopped' /\ (Quiet' <=> Quiet)
    BY <1>0 DEF Stopped, Broken, Quiet
  <2>. QED  BY <1>0, <2>1, <2>2 DEF Halves
<1>5. m + 0 = m
  OBVIOUS
<1>. QED  BY <1>0, <1>3, <1>4, <1>5, IsOnLine, StaysContained, Zenon DEF SInv

LEMMA AlarmFiresLine ==
  ASSUME SInv, AlarmFires  PROVE OnLine' /\ SplitContained'
<1>0. /\ alarm /\ (fifo = <<>> \/ Broken) /\ client = "listening"
      /\ ~alarm' /\ UNCHANGED <<host, cmd, enc, client, outcome, fifo, rx_client_buffer>>
      /\ host = "sending" => gaps' = gaps + 1
      /\ host # "sending" => gaps' = gaps
      /\ gaps \in Nat
  BY DEF AlarmFires, hostVars, adapterVars, clientVars, SInv, LInv, Turns, TypeOK
<1>1. /\ uart'.bytes = uart.bytes /\ uart.status \in {"on", "failed"}
      /\ uart'.status = IF uart.status = "on" THEN "aborting" ELSE uart.status
  <2>1. uart \in [status : {"off", "on", "aborting", "failed"}, want : Nat, bytes : Seq(Byte)]
    BY DEF SInv, LInv, Forms
  <2>2. uart' = IF uart.status = "on" THEN [uart EXCEPT !.status = "aborting"] ELSE uart
    BY DEF AlarmFires
  <2>3. uart.status \in {"on", "failed"}
    BY <1>0, <2>1 DEF SInv, LInv, Turns
  <2>. QED  BY <2>1, <2>2, <2>3
<1>. PICK Q \in Seq(Places), k \in Nat, l \in Nat, m \in Nat : Holds(Q, k, l, m)
  BY Zenon DEF SInv, OnLine
<1>2. Line(Q, k, l, m)'
  BY <1>0, <1>1 DEF Holds, Line, Abreast, Gathering
<1>3. gaps' <= 1 => (Once(Q) /\ Halves(Q, k, m))'
  <2>. SUFFICES ASSUME gaps' <= 1 PROVE (Once(Q) /\ Halves(Q, k, m))'
    OBVIOUS
  <2>1. Once(Q) /\ Halves(Q, k, m)
    BY <1>0 DEF Holds
  <2>2. Once(Q)'
    BY <1>0, <2>1 DEF Once
  <2>3. CASE host = "sending"
    <3>1. gaps = 0 /\ gaps' = 1
      BY <1>0, <2>3
    <3>2. k = 0
      BY <1>0, <2>1, <2>3, <3>1 DEF Halves, Quiet
    <3>. QED  BY <1>0, <2>2, <2>3, <3>1, <3>2 DEF Halves
  <2>4. CASE host # "sending"
    <3>1. gaps' = gaps /\ (Quiet' <=> Quiet) /\ (Stopped' <=> Stopped)
      BY <1>0, <1>1, <2>4 DEF Quiet, Stopped, Broken
    <3>2. uart'.status = "aborting" => Quiet /\ host # "idle"
      BY <1>0, <1>1, <2>1, <2>4 DEF Quiet, Stopped, Broken, Halves
    <3>. QED  BY <1>0, <2>1, <2>2, <3>1, <3>2 DEF Halves
  <2>. QED  BY <2>3, <2>4
<1>4. client' # "serving"
  BY <1>0
<1>. QED  BY <1>2, <1>3, <1>4, IsOnLine, StaysContained, Zenon DEF SInv

-----------------------------------------------------------------------------
(* The bootloader, but for Decode.                                          *)

LEMMA CancelledLine ==
  ASSUME SInv, Cancelled  PROVE OnLine' /\ SplitContained'
<1>0. /\ uart.status = "aborting" /\ client = "listening"
      /\ client' = "decoding" /\ decoder' = FreshDecoder /\ unread' = Copied(uart.bytes)
      /\ uart' = NoReceive /\ UNCHANGED <<host, cmd, enc, gaps, outcome, fifo>>
      /\ uart.bytes \in Seq(Byte) /\ rx_client_buffer \in Seq(Byte)
      /\ Len(rx_client_buffer) <= BUF
  BY DEF Cancelled, ClientReceived, hostVars, SInv, LInv, Turns, Forms, TypeOK
<1>. PICK Q \in Seq(Places), k \in Nat, l \in Nat, m \in Nat : Holds(Q, k, l, m)
  BY Zenon DEF SInv, OnLine
<1>1. /\ Spelt(uart.bytes, Q, l) /\ l + Len(uart.bytes) = m
      /\ Spelt(rx_client_buffer, Q, k) /\ Filled(rx_client_buffer, k, l)
      /\ Chain(Q) /\ Abreast(Q, m) /\ Spelt(fifo, Q, m)
  BY <1>0, Zenon DEF Holds, Line, Gathering
<1>2. /\ unread' \in Seq(Byte) /\ Spelt(unread', Q, k)
      /\ Len(unread') <= BUF /\ k + Len(unread') <= m
  BY <1>0, <1>1, SpeltCopy, Zenon
<1>3. ASSUME unread' # <<>> PROVE k + 1 \in 1 .. Len(Q) /\ Q[k + 1] \in Places
  <2>1. k + 1 \in 1 .. Len(Q)
    BY <1>2, <1>3, SpeltTail, Zenon
  <2>. QED  BY <2>1, ElementOfSeq, Zenon
<1>4. unread' # <<>> => Related(decoder', Q[k + 1].enc, Arguments(Q[k + 1].cmd))
  BY <1>0, <1>3, PlaceFacts, FreshRelates, Zenon
<1>5. decoder' \in Decoders /\ Len(decoder'.buffer) + Len(unread') <= BUF
  <2>1. Len(decoder'.buffer) = 0 /\ decoder' \in Decoders
    BY <1>0, FreshIsDecoder
  <2>2. PICK a \in Nat : a = Len(unread')
    BY <1>2
  <2>. QED  BY <1>2, <2>1, <2>2
<1>6. Line(Q, k, l, m)'
  <2>1. Reading(Q, k, m)'
    BY <1>2, <1>4, <1>5, Zenon DEF Reading
  <2>2. Abreast(Q, m)'
    BY <1>0, <1>1, Zenon DEF Abreast
  <2>3. client' # "listening"
    BY <1>0
  <2>. QED  BY <1>0, <1>1, <2>1, <2>2, <2>3, Zenon DEF Line
<1>7. gaps' <= 1 => (Once(Q) /\ Halves(Q, k, m))'
  <2>. SUFFICES ASSUME gaps <= 1 PROVE (Once(Q) /\ Halves(Q, k, m))'
    BY <1>0
  <2>1. Once(Q) /\ (k = 0 \/ Quiet) /\ (gaps = 1 \/ Quiet) /\ host # "idle"
    BY <1>0 DEF Holds, Halves
  <2>2. Once(Q)' /\ (Quiet' <=> Quiet)
    BY <1>0, <2>1 DEF Once, Quiet
  <2>3. ASSUME k = 0 PROVE Exactly(Q, k)'
    <3>. SUFFICES ASSUME unread' # <<>>
                  PROVE  decoder' = Following(Q[k + 1].enc, Arguments(Q[k + 1].cmd))
      BY DEF Exactly
    <3>1. k + 1 = 1 /\ Len(Q) # 0
      BY <1>3, <2>3
    <3>2. Q[k + 1].enc = FreshEncoder
      BY <2>1, <3>1, Zenon DEF Once
    <3>3. Arguments(Q[k + 1].cmd) \in Seq(Byte)
      BY <1>3, PlaceFacts, Zenon
    <3>. QED  BY <1>0, <3>2, <3>3, FreshFollows, Zenon
  <2>4. uart'.status = "off"
    BY <1>0 DEF NoReceive
  <2>. QED  BY <1>0, <2>1, <2>2, <2>3, <2>4 DEF Halves
<1>8. client' # "serving"
  BY <1>0
<1>. QED  BY <1>6, <1>7, <1>8, IsOnLine, StaysContained, Zenon DEF SInv

\* A receive is started after decoding or transmitting.
LEMMA RestartLine ==
  ASSUME SInv, client \in {"decoding", "transmitting"},
         UNCHANGED <<host, cmd, enc, fifo, gaps>>, ~alarm',
         client' = "listening", rx_client_buffer' = <<>>, uart' = Receive(1)
  PROVE  OnLine' /\ SplitContained'
<1>. PICK Q \in Seq(Places), k \in Nat, l \in Nat, m \in Nat : Holds(Q, k, l, m)
  BY Zenon DEF SInv, OnLine
<1>1. Line(Q, m, m, m)'
  BY LineRestarts, Zenon DEF SInv, Holds
<1>2. gaps' <= 1 => (Once(Q) /\ Halves(Q, m, m))'
  <2>. SUFFICES ASSUME gaps <= 1 PROVE (Once(Q) /\ Halves(Q, m, m))'
    OBVIOUS
  <2>1. Once(Q) /\ Halves(Q, k, m)
    BY DEF Holds
  <2>2. Once(Q)' /\ (Quiet' <=> Quiet) /\ uart'.status = "on"
    BY <2>1 DEF Once, Quiet, Receive
  <2>3. m = 0 \/ gaps = 1 \/ Quiet
    BY <2>1 DEF Halves
  <2>4. ~Stopped
    <3>1. uart.status = "off"
      BY DEF SInv, LInv, Turns, Forms
    <3>. QED  BY <3>1 DEF Stopped, Broken
  <2>5. host = "idle" => fifo = <<>>
    BY <2>1, <2>4 DEF Halves
  <2>. QED  BY <2>2, <2>3, <2>5 DEF Halves
<1>3. client' # "serving"
  OBVIOUS
<1>. QED  BY <1>1, <1>2, <1>3, IsOnLine, StaysContained, Zenon DEF SInv

LEMMA NothingDecodedLine ==
  ASSUME SInv, NothingDecoded \/ Transmitted  PROVE OnLine' /\ SplitContained'
<1>1. /\ client \in {"decoding", "transmitting"} /\ ReceiveAutomatic(rx_buffer)
      /\ UNCHANGED <<host, cmd, enc, fifo, gaps, alarm>>
  BY DEF NothingDecoded, Transmitted, hostVars
<1>2. rx_buffer /\ ~alarm
  BY <1>1 DEF SInv, LInv, Turns
<1>3. client' = "listening" /\ rx_client_buffer' = <<>> /\ uart' = Receive(1)
  BY <1>1, <1>2 DEF ReceiveAutomatic
<1>. QED  BY <1>1, <1>2, <1>3, RestartLine

LEMMA AnswerLine ==
  ASSUME SInv, Answer  PROVE OnLine' /\ SplitContained'
<1>0. /\ client = "serving" /\ client' = "transmitting" /\ ~alarm' /\ UNCHANGED uart
      /\ UNCHANGED <<cmd, enc, fifo, gaps>>
      /\ host' = IF host = "waiting" THEN "idle" ELSE host
      /\ uart.status = "off"
  BY DEF Answer, SInv, LInv, Turns, Forms
<1>. PICK Q \in Seq(Places), k \in Nat, l \in Nat, m \in Nat : Holds(Q, k, l, m)
  BY Zenon DEF SInv, OnLine
<1>1. Line(Q, k, l, m)'
  BY <1>0, LineStays DEF Holds
<1>2. gaps' <= 1 => (Once(Q) /\ Halves(Q, k, m))'
  BY <1>0 DEF Holds, Once, Halves, Quiet
<1>3. client' # "serving"
  BY <1>0
<1>. QED  BY <1>1, <1>2, <1>3, IsOnLine, StaysContained, Zenon DEF SInv

LEMMA GiveUpLine ==
  ASSUME SInv, GiveUp  PROVE OnLine' /\ SplitContained'
<1>0. /\ host = "waiting" /\ host' = "idle" /\ ~alarm
      /\ UNCHANGED <<cmd, enc, fifo, gaps, uart, alarm, rx_client_buffer,
                     client, decoder, unread, outcome>>
      /\ \/ client = "listening" /\ uart.status = "on" /\ fifo = <<>>
         \/ client = "listening" /\ uart.status = "failed"
         \/ client = "panicked" /\ uart.status = "off"
  BY DEF GiveUp, adapterVars, clientVars, SInv, LInv, Turns, Forms
<1>. PICK Q \in Seq(Places), k \in Nat, l \in Nat, m \in Nat : Holds(Q, k, l, m)
  BY Zenon DEF SInv, OnLine
<1>1. Line(Q, k, l, m)'
  BY <1>0 DEF Holds, Line, Abreast, Gathering
<1>2. gaps' <= 1 => (Once(Q) /\ Halves(Q, k, m))'
  BY <1>0 DEF Holds, Once, Halves, Quiet, Stopped, Broken
<1>. QED  BY <1>0, <1>1, <1>2, IsOnLine, StaysContained, Zenon DEF SInv

LEMMA ResetBoardLine ==
  ASSUME SInv, ResetBoard  PROVE OnLine' /\ SplitContained'
<1>0. /\ host' = "idle" /\ fifo' = <<>> /\ ~alarm' /\ client' = "listening"
      /\ rx_client_buffer' = <<>> /\ uart' = Receive(1)
  BY DEF ResetBoard, Restarted, ReceiveAutomatic, hostVars
<1>1. <<>> \in Seq(Places) /\ 0 \in Nat
  OBVIOUS
<1>2. Line(<<>>, 0, 0, 0)'
  <2>1. Chain(<<>>)
    BY DEF Chain
  <2>2. Abreast(<<>>, 0)'
    BY <1>0 DEF Abreast
  <2>3. Spelt(<<>>, <<>>, 0)
    BY DEF Spelt
  <2>4. Gathering(<<>>, 0, 0, 0)'
    BY <1>0, <2>3 DEF Gathering, Filled, Receive
  <2>. QED  BY <1>0, <2>1, <2>2, <2>3, <2>4 DEF Line
<1>3. (Once(<<>>) /\ Halves(<<>>, 0, 0))'
  BY <1>0 DEF Once, Halves, Receive
<1>4. client' # "serving"
  BY <1>0
<1>. QED  BY <1>1, <1>2, <1>3, <1>4, IsOnLine, StaysContained, Zenon DEF SInv

-----------------------------------------------------------------------------
(* The host.                                                                *)

LEMMA Longer ==
  ASSUME NEW Q \in Seq(Places), NEW p \in Places
  PROVE  /\ Append(Q, p) \in Seq(Places) /\ Len(Append(Q, p)) = Len(Q) + 1
         /\ Append(Q, p)[Len(Q) + 1] = p
         /\ \A i \in 1 .. Len(Q) : Append(Q, p)[i] = Q[i]
  OBVIOUS

LEMMA ChainLonger ==
  ASSUME NEW Q \in Seq(Places), NEW p \in Places, Chain(Q),
         Len(Q) # 0 => Precedes(Q[Len(Q)], p)
  PROVE  Chain(Append(Q, p))
<1>. PICK R : R = Append(Q, p)
  OBVIOUS
<1>. PICK z \in Nat : z = Len(Q)
  OBVIOUS
<1>1. Len(R) = z + 1 /\ R[z + 1] = p /\ \A i \in 1 .. z : R[i] = Q[i]
  BY Longer
<1>2. ASSUME NEW i \in 1 .. z PROVE Precedes(R[i], R[i + 1])
  <2>1. CASE i = z
    BY <1>1, <2>1
  <2>2. CASE i # z
    <3>1. i \in 1 .. Len(Q) - 1 /\ i + 1 \in 1 .. z
      BY <2>2
    <3>2. Precedes(Q[i], Q[i + 1])
      BY <3>1, Zenon DEF Chain
    <3>. QED  BY <1>1, <3>1, <3>2, Zenon
  <2>. QED  BY <2>1, <2>2
<1>3. Len(R) - 1 = z
  BY <1>1
<1>. QED  BY <1>2, <1>3, Zenon DEF Chain

\* What the bootloader has of the line is not affected.
LEMMA LineLonger ==
  ASSUME LInv, NEW Q \in Seq(Places), NEW k \in Nat, NEW l \in Nat, NEW m \in Nat,
         Line(Q, k, l, m), NEW p \in Places,
         UNCHANGED <<client, decoder, unread, rx_client_buffer, uart>>
  PROVE  /\ client' = "listening" => Gathering(Append(Q, p), k, l, m)'
         /\ client' = "decoding" => Reading(Append(Q, p), k, m)'
         /\ (Exactly(Q, k) /\ client' = "decoding") => Exactly(Append(Q, p), k)'
<1>. PICK R : R = Append(Q, p)
  OBVIOUS
<1>1. \A i \in 1 .. Len(Q) : R[i] = Q[i]
  BY Longer
<1>2. client' = "listening" => Gathering(R, k, l, m)'
  <2>. SUFFICES ASSUME client = "listening" PROVE Gathering(R, k, l, m)'
    OBVIOUS
  <2>1. Gathering(Q, k, l, m)
    BY DEF Line
  <2>2. rx_client_buffer \in Seq(Byte) /\ uart.bytes \in Seq(Byte)
    BY DEF LInv, Forms
  <2>3. Spelt(rx_client_buffer, R, k) /\ Spelt(uart.bytes, R, l)
    BY <2>1, <2>2, SpeltLonger, Zenon DEF Gathering
  <2>. QED  BY <2>1, <2>3, Zenon DEF Gathering
<1>3. client' = "decoding" => Reading(R, k, m)' /\ (Exactly(Q, k) => Exactly(R, k)')
  <2>. SUFFICES ASSUME client = "decoding"
                PROVE  Reading(R, k, m)' /\ (Exactly(Q, k) => Exactly(R, k)')
    OBVIOUS
  <2>1. Reading(Q, k, m)
    BY DEF Line
  <2>2. Spelt(unread, R, k)
    BY <2>1, SpeltLonger, Zenon DEF Reading
  <2>3. unread # <<>> => R[k + 1] = Q[k + 1]
    <3>1. unread # <<>> => k + 1 \in 1 .. Len(Q)
      BY <2>1, SpeltTail, Zenon DEF Reading
    <3>. QED  BY <1>1, <3>1
  <2>4. Reading(R, k, m)'
    BY <2>1, <2>2, <2>3, Zenon DEF Reading
  <2>. QED  BY <2>3, <2>4, Zenon DEF Exactly
<1>. QED  BY <1>2, <1>3, Zenon

LEMMA SendCommandLine ==
  ASSUME SInv, SendCommand  PROVE OnLine' /\ SplitContained'
<1>0. /\ host = "idle" /\ ~Stopped /\ host' = "sending" /\ enc' = FreshEncoder
      /\ UNCHANGED <<fifo, uart, alarm, rx_client_buffer, client, decoder, unread, outcome, gaps>>
  BY DEF SendCommand, adapterVars, clientVars
<1>1. cmd' \in Commands /\ Encodable(cmd')
  BY DEF SendCommand
<1>. PICK p : p = Place(cmd', enc')
  OBVIOUS
<1>2. p \in Places /\ p.enc = FreshEncoder /\ p.cmd = cmd'
  <2>1. Arguments(cmd') \in Seq(Byte)
    BY <1>1, CommandsAssumption, CommandParsed
  <2>2. Encoding(FreshEncoder, Arguments(cmd'))
    BY <2>1, FreshFollows
  <2>3. FreshEncoder \in Encoders /\ FreshEncoder.count = 0
    BY DEF FreshEncoder, Encoders
  <2>4. 0 < Len(Arguments(cmd')) + 2
    BY <2>1
  <2>. QED  BY <1>0, <1>1, <2>2, <2>3, <2>4 DEF Places, Place
<1>. PICK Q \in Seq(Places), k \in Nat, l \in Nat, m \in Nat : Holds(Q, k, l, m)
  BY Zenon DEF SInv, OnLine
<1>3. CASE gaps <= 1
  <2>1. Once(Q) /\ Halves(Q, k, m)
    BY <1>3 DEF Holds
  <2>2. fifo = <<>> /\ ~alarm
    BY <1>0, <2>1 DEF Halves
  <2>3. client \in {"listening", "transmitting"}
    BY <1>0, <2>1 DEF Halves, Stopped, SInv, LInv, TypeOK
  <2>4. client = "listening" => uart = Receive(1) /\ rx_client_buffer = <<>>
    BY <1>0, <2>1, <2>2 DEF Halves, Stopped, Broken, SInv, LInv, Turns, TypeOK
  <2>. PICK R : R = <<p>>
    OBVIOUS
  <2>5. R \in Seq(Places) /\ Len(R) = 1 /\ R[1] = p /\ 0 \in Nat
    BY <1>2
  <2>6. Spelt(<<>>, R, 0)
    BY <2>5 DEF Spelt
  <2>7. Line(R, 0, 0, 0)'
    <3>1. Chain(R)
      BY <2>5 DEF Chain
    <3>2. Abreast(R, 0)'
      BY <1>0, <2>2, <2>5 DEF Abreast
    <3>3. client' = "listening" => Gathering(R, 0, 0, 0)'
      BY <1>0, <2>4, <2>6 DEF Gathering, Filled, Receive
    <3>4. client' # "decoding"
      BY <1>0, <2>3
    <3>. QED  BY <1>0, <2>2, <2>6, <3>1, <3>2, <3>3, <3>4 DEF Line
  <2>8. (Once(R) /\ Halves(R, 0, 0))'
    <3>1. Once(R)'
      BY <1>2, <2>5 DEF Once
    <3>2. uart'.status # "aborting" /\ client' \notin {"decoding", "serving"}
      BY <1>0, <2>1, <2>3 DEF Halves
    <3>. QED  BY <1>0, <3>1, <3>2 DEF Halves
  <2>9. client' # "serving"
    BY <1>0, <2>3
  <2>. QED  BY <2>5, <2>7, <2>8, <2>9, IsOnLine, StaysContained, Zenon DEF SInv
<1>4. CASE ~(gaps <= 1)
  <2>1. Line(Q, k, l, m)
    BY DEF Holds
  <2>2. m + Len(fifo) = Len(Q) /\ (Len(Q) # 0 => Ends(Q[Len(Q)]))
    BY <1>0, <2>1 DEF Line, Abreast
  <2>. PICK R : R = Append(Q, p)
    OBVIOUS
  <2>3. R \in Seq(Places) /\ Len(R) = Len(Q) + 1 /\ R[Len(Q) + 1] = p
    BY <1>2, Longer
  <2>4. Chain(R)
    BY <1>2, <2>1, <2>2, ChainLonger DEF Line, Precedes
  <2>5. /\ client' = "listening" => Gathering(R, k, l, m)'
        /\ client' = "decoding" => Reading(R, k, m)'
    BY <1>0, <1>2, <2>1, LineLonger DEF SInv
  <2>6. Spelt(fifo', R, m)
    <3>1. fifo \in Seq(Byte)
      BY DEF SInv, LInv, Forms
    <3>. QED  BY <1>0, <1>2, <2>1, <3>1, SpeltLonger DEF Line
  <2>7. Abreast(R, m)'
    BY <1>0, <2>2, <2>3 DEF Abreast
  <2>8. Line(R, k, l, m)'
    BY <2>4, <2>5, <2>6, <2>7, Zenon DEF Line
  <2>9. ~(gaps' <= 1)
    BY <1>0, <1>4
  <2>10. SplitContained'
    BY <1>0, <1>4 DEF SInv, SplitContained
  <2>. QED  BY <2>3, <2>8, <2>9, <2>10, IsOnLine, Zenon
<1>. QED  BY <1>3, <1>4

LEMMA SendByteLine ==
  ASSUME SInv, SendByte  PROVE OnLine' /\ SplitContained'
<1>. PICK p : p = Place(cmd, enc)
  OBVIOUS
<1>0. /\ host = "sending" /\ enc' = NextEnc(p) /\ fifo' = Append(fifo, ByteAt(p))
      /\ host' = IF CommandEnded(NextEnc(p), cmd) THEN "waiting" ELSE host
      /\ UNCHANGED <<cmd, uart, alarm, rx_client_buffer, client, decoder, unread, outcome, gaps>>
  BY DEF SendByte, adapterVars, clientVars, NextEnc, ByteAt, Place
<1>. PICK Q \in Seq(Places), k \in Nat, l \in Nat, m \in Nat : Holds(Q, k, l, m)
  BY Zenon DEF SInv, OnLine
<1>1. Line(Q, k, l, m) /\ fifo \in Seq(Byte)
  BY DEF Holds, SInv, LInv, Forms
<1>2. m + Len(fifo) + 1 = Len(Q) /\ Q[Len(Q)] = p /\ Spelt(fifo, Q, m) /\ Chain(Q)
  BY <1>0, <1>1 DEF Line, Abreast
<1>3. p \in Places /\ p.cmd = cmd /\ p.enc = enc
  <2>1. Len(Q) \in 1 .. Len(Q)
    BY <1>1, <1>2
  <2>2. Q[Len(Q)] \in Places
    BY <2>1, ElementOfSeq, Zenon
  <2>. QED  BY <1>2, <2>2 DEF Place
<1>4. Spelt(fifo', Q, m) /\ Len(fifo') = Len(fifo) + 1
  <2>1. Spelt(Append(fifo, ByteAt(Q[m + Len(fifo) + 1])), Q, m)
    <3>1. m + Len(fifo) + 1 <= Len(Q)
      BY <1>2
    <3>. QED  BY <1>1, <1>2, <3>1, SpeltMore, Zenon
  <2>2. ByteAt(p) \in Byte
    BY <1>3, PlaceNext
  <2>3. Len(Append(fifo, ByteAt(p))) = Len(fifo) + 1
    BY <1>1, <2>2
  <2>. QED  BY <1>0, <1>2, <2>1, <2>3, Zenon
<1>5. PICK f \in Nat, z \in Nat : f = Len(fifo) /\ z = Len(Q) /\ m + f + 1 = z
  BY <1>1, <1>2
<1>6. Len(fifo') = f + 1
  BY <1>4, <1>5, Zenon
<1>12. m + (f + 1) + 1 = z + 1
  BY <1>5, SMTT(30)
<1>7. CommandEnded(NextEnc(p), cmd) <=> Ends(p)
  BY <1>3, PlaceNext DEF CommandEnded
<1>8. gaps <= 1 => /\ k = 0 \/ gaps = 1 \/ client \notin {"listening"}
                   /\ uart.status = "aborting" => k = 0 /\ gaps = 1
                   /\ client = "decoding" => Exactly(Q, k) /\ gaps = 1
                   /\ client # "serving"
                   /\ client = "transmitting" => m = 0 \/ gaps = 1
                   /\ Once(Q)
  BY <1>0 DEF Holds, Halves, Quiet
<1>9. SplitContained'
  BY <1>0 DEF SInv, SplitContained
<1>10. CASE Ends(p)
  <2>1. host' = "waiting"
    BY <1>0, <1>7, <1>10
  <2>2. Line(Q, k, l, m)'
    <3>1. Abreast(Q, m)'
      BY <1>2, <1>5, <1>6, <1>10, <2>1 DEF Abreast
    <3>. QED  BY <1>0, <1>1, <1>4, <3>1, Zenon DEF Line, Gathering, Reading
  <2>3. gaps' <= 1 => (Once(Q) /\ Halves(Q, k, m))'
    BY <1>0, <1>8, <2>1 DEF Once, Halves, Exactly
  <2>. QED  BY <1>9, <2>2, <2>3, IsOnLine, Zenon
<1>11. CASE ~Ends(p)
  <2>. PICK q : q = Place(cmd, NextEnc(p))
    OBVIOUS
  <2>. PICK R : R = Append(Q, q)
    OBVIOUS
  <2>1. host' = "sending"
    BY <1>0, <1>7, <1>11
  <2>2. q \in Places /\ q.cmd = cmd /\ q.enc = NextEnc(p) /\ q.enc # FreshEncoder
    BY <1>3, <1>11, PlaceNext DEF Place
  <2>3. q = Place(cmd', enc')
    BY <1>0
  <2>4. /\ R \in Seq(Places) /\ Len(R) = z + 1 /\ R[z + 1] = q
        /\ \A i \in 1 .. z : R[i] = Q[i]
    BY <1>5, <2>2, Longer
  <2>5. Chain(R)
    BY <1>2, <1>3, <1>11, <2>2, ChainLonger DEF Precedes
  <2>6. /\ client' = "listening" => Gathering(R, k, l, m)'
        /\ client' = "decoding" => Reading(R, k, m)'
        /\ (Exactly(Q, k) /\ client' = "decoding") => Exactly(R, k)'
    BY <1>0, <1>1, <2>2, LineLonger DEF SInv
  <2>7. Spelt(fifo', R, m)
    <3>1. fifo' \in Seq(Byte)
      BY <1>0, <1>1, <1>3, PlaceNext
    <3>2. Q \in Seq(Places) /\ m \in Nat /\ q \in Places /\ Spelt(fifo', Q, m)
      BY <1>4, <2>2
    <3>. HIDE <1>0, <1>1, <1>2, <1>4, <1>8, <2>4, <2>6
    <3>3. Spelt(fifo', Append(Q, q), m)
      BY <3>1, <3>2, SpeltLonger
    <3>. QED  BY <3>3
  <2>8. Line(R, k, l, m)'
    <3>1. Abreast(R, m)'
      <4>1. m + Len(fifo') + 1 = Len(R)
        BY <1>6, <1>12, <2>4, Zenon
      <4>. QED  BY <2>1, <2>3, <2>4, <4>1, Zenon DEF Abreast
    <3>. QED  BY <2>5, <2>6, <2>7, <3>1, Zenon DEF Line
  <2>9. gaps' <= 1 => (Once(R) /\ Halves(R, k, m))'
    <3>. SUFFICES ASSUME gaps <= 1 PROVE (Once(R) /\ Halves(R, k, m))'
      BY <1>0
    <3>1. Once(R)'
      <4>1. R[1].enc = FreshEncoder
        BY <1>5, <1>8, <2>4 DEF Once
      <4>2. ASSUME NEW i \in 1 .. z + 1
            PROVE  R[i].cmd = cmd' /\ (i # 1 => R[i].enc # FreshEncoder)
        <5>1. CASE i = z + 1
          BY <1>0, <2>2, <2>4, <5>1
        <5>2. CASE i # z + 1
          <6>1. i \in 1 .. z
            BY <5>2
          <6>. QED  BY <1>0, <1>5, <1>8, <2>4, <6>1 DEF Once
        <5>. QED  BY <5>1, <5>2
      <4>. QED  BY <2>4, <4>1, <4>2 DEF Once
    <3>. QED  BY <1>0, <1>8, <2>1, <2>6, <3>1 DEF Halves
  <2>. QED  BY <1>9, <2>4, <2>8, <2>9, IsOnLine, Zenon
<1>. QED  BY <1>10, <1>11

-----------------------------------------------------------------------------
(* The next byte is decoded.                                                *)

Decoded == ReceiveCommand(decoder, Head(unread))

\* What it is, and what the decoder makes of it.
LEMMA DecodesPlace ==
  ASSUME NEW Q \in Seq(Places), NEW k \in Nat, NEW m \in Nat, Reading(Q, k, m), unread # <<>>
  PROVE  /\ k + 1 \in 1 .. Len(Q) /\ Q[k + 1] \in Places
         /\ Head(unread) = ByteAt(Q[k + 1])
         /\ Tail(unread) \in Seq(Byte) /\ Spelt(Tail(unread), Q, k + 1)
         /\ k + 1 + Len(Tail(unread)) <= m
         /\ Len(decoder.buffer) < RxLen
         /\ Len(decoder.buffer) + 1 + Len(Tail(unread)) <= BUF
         /\ StepsWell(decoder, Decoded, NextEnc(Q[k + 1]), Q[k + 1].cmd)
<1>1. /\ unread \in Seq(Byte) /\ Spelt(unread, Q, k) /\ k + Len(unread) <= m
      /\ decoder \in Decoders /\ Len(decoder.buffer) + Len(unread) <= BUF
      /\ Related(decoder, Q[k + 1].enc, Arguments(Q[k + 1].cmd))
  BY DEF Reading
<1>2. /\ Tail(unread) \in Seq(Byte) /\ Len(Tail(unread)) = Len(unread) - 1 /\ Len(unread) >= 1
      /\ Spelt(Tail(unread), Q, k + 1)
      /\ k + 1 \in 1 .. Len(Q) /\ Head(unread) = ByteAt(Q[k + 1])
  BY <1>1, SpeltTail, Zenon
<1>3. PICK u \in Nat, t \in Nat, b \in Nat :
        u = Len(unread) /\ t = Len(Tail(unread)) /\ b = Len(decoder.buffer)
  <2>1. Len(decoder.buffer) \in Nat
    BY <1>1 DEF Decoders
  <2>2. Len(unread) \in Nat /\ Len(Tail(unread)) \in Nat
    BY <1>1, <1>2
  <2>. QED  BY <2>1, <2>2, Zenon
<1>4. t = u - 1 /\ u >= 1 /\ k + u <= m /\ b + u <= BUF
  BY <1>1, <1>2, <1>3, Zenon
<1>5. k + 1 + t <= m /\ b + 1 + t <= BUF /\ b < RxLen
  BY <1>4, ProtocolAssumption
<1>6. PICK p \in Places : p = Q[k + 1]
  BY <1>2, ElementOfSeq, Zenon
<1>7. StepsWell(decoder, ReceiveCommand(decoder, ByteAt(p)), NextEnc(p), p.cmd)
  <2>1. Len(decoder.buffer) < RxLen /\ Related(decoder, p.enc, Arguments(p.cmd))
    BY <1>1, <1>3, <1>5, <1>6, Zenon
  <2>2. /\ IsCommand(p.cmd) /\ Encodable(p.cmd) /\ Arguments(p.cmd) \in Seq(Byte)
        /\ Encoding(p.enc, Arguments(p.cmd)) /\ p.enc.count < Len(Arguments(p.cmd)) + 2
    BY PlaceFacts, Zenon
  <2>. QED  BY <1>1, <2>1, <2>2, RelatedSteps, Zenon DEF NextEnc, ByteAt
<1>. QED  BY <1>2, <1>3, <1>5, <1>6, <1>7, Zenon DEF Decoded

\* The next place, if it is read too.
LEMMA NextPlace ==
  ASSUME NEW Q \in Seq(Places), NEW k \in Nat, Chain(Q), k + 1 < Len(Q)
  PROVE  /\ k + 1 \in 1 .. Len(Q) /\ k + 1 + 1 \in 2 .. Len(Q)
         /\ Q[k + 1] \in Places /\ Q[k + 1 + 1] \in Places
         /\ Precedes(Q[k + 1], Q[k + 1 + 1])
<1>1. /\ k + 1 \in 1 .. Len(Q) - 1 /\ k + 1 + 1 \in 2 .. Len(Q) /\ k + 1 \in 1 .. Len(Q)
      /\ k + 1 + 1 \in 1 .. Len(Q)
  OBVIOUS
<1>2. Precedes(Q[k + 1], Q[k + 1 + 1])
  BY <1>1, Zenon DEF Chain
<1>. QED  BY <1>1, <1>2, ElementOfSeq, Zenon

LEMMA DecodesOn ==
  ASSUME NEW Q \in Seq(Places), NEW k \in Nat, NEW m \in Nat, Chain(Q),
         Reading(Q, k, m), unread # <<>>, decoder' = Decoded[1], unread' = Tail(unread)
  PROVE  Reading(Q, k + 1, m)'
<1>. DEFINE d == Decoded[1]
            t == Tail(unread)
<1>1. /\ t \in Seq(Byte) /\ Spelt(t, Q, k + 1) /\ k + 1 + Len(t) <= m
      /\ Len(decoder.buffer) + 1 + Len(t) <= BUF
      /\ StepsWell(decoder, Decoded, NextEnc(Q[k + 1]), Q[k + 1].cmd)
  BY DecodesPlace, Zenon
<1>2. d \in Decoders /\ Len(d.buffer) <= Len(decoder.buffer) + 1
      /\ RelatedThen(d, NextEnc(Q[k + 1]), Arguments(Q[k + 1].cmd))
  BY <1>1, Zenon DEF StepsWell
<1>. HIDE DEF d, t
<1>3. Len(d.buffer) + Len(t) <= BUF
  <2>1. PICK a \in Nat, b \in Nat, c \in Nat :
          a = Len(d.buffer) /\ b = Len(decoder.buffer) /\ c = Len(t)
    <3>1. Len(d.buffer) \in Nat /\ Len(decoder.buffer) \in Nat
      BY <1>2 DEF Reading, Decoders
    <3>2. Len(t) \in Nat
      BY <1>1
    <3>. QED  BY <3>1, <3>2, Zenon
  <2>2. a <= b + 1 /\ b + 1 + c <= BUF
    BY <1>1, <1>2, <2>1, Zenon
  <2>3. a + c <= BUF
    BY <2>2
  <2>. QED  BY <2>1, <2>3, Zenon
<1>4. ASSUME t # <<>> PROVE Related(d, Q[k + 1 + 1].enc, Arguments(Q[k + 1 + 1].cmd))
  <2>1. k + 1 < Len(Q)
    <3>1. k + 1 \in Nat
      OBVIOUS
    <3>2. k + 1 + 1 \in 1 .. Len(Q)
      BY <1>1, <1>4, <3>1, SpeltTail, Zenon
    <3>. QED  BY <3>2
  <2>2. PICK p \in Places, q \in Places : p = Q[k + 1] /\ q = Q[k + 1 + 1] /\ Precedes(p, q)
    BY <2>1, NextPlace, Zenon
  <2>3. RelatedThen(d, NextEnc(p), Arguments(p.cmd))
    BY <1>2, <2>2, Zenon
  <2>4. Related(d, q.enc, Arguments(q.cmd))
    <3>1. CASE Ends(p)
      <4>1. q.enc = FreshEncoder /\ Arguments(q.cmd) \in Seq(Byte)
        BY <2>2, <3>1, PlaceFacts, Zenon DEF Precedes
      <4>2. NextEnc(p).count = Len(Arguments(p.cmd)) + 2
        BY <3>1, PlaceNext, Zenon
      <4>3. d = FreshDecoder \/ (d.state = "Loading" /\ Len(d.buffer) # 0)
        BY <2>3, <4>2, Zenon DEF RelatedThen
      <4>. QED  BY <1>2, <4>1, <4>3, BeginsRelated, Zenon
    <3>2. CASE ~Ends(p)
      <4>1. q.cmd = p.cmd /\ q.enc = NextEnc(p)
        BY <2>2, <3>2, Zenon DEF Precedes
      <4>2. NextEnc(p).count # Len(Arguments(p.cmd)) + 2
        BY <3>2, PlaceNext, Zenon
      <4>. QED  BY <2>3, <4>1, <4>2, Zenon DEF RelatedThen
    <3>. QED  BY <3>1, <3>2
  <2>. QED  BY <2>2, <2>4, Zenon
<1>5. decoder' = d /\ unread' = t
  BY Zenon DEF d, t
<1>. QED  BY <1>1, <1>2, <1>3, <1>4, <1>5, Zenon DEF Reading

\* Before all of the line's only command has come, nothing is completed.
LEMMA NotYet ==
  ASSUME LInv, NEW Q \in Seq(Places), NEW k \in Nat, NEW l \in Nat, NEW m \in Nat,
         Line(Q, k, l, m), client = "decoding", Once(Q), Exactly(Q, k), ~Quiet, unread # <<>>
  PROVE  /\ k + 1 < Len(Q)
         /\ Decoded = <<Following(Q[k + 1 + 1].enc, Arguments(Q[k + 1 + 1].cmd)), None>>
<1>0. Reading(Q, k, m) /\ Abreast(Q, m) /\ Chain(Q) /\ fifo \in Seq(Byte)
  BY DEF Line, LInv, Forms
<1>1. k + 1 < Len(Q)
  <2>1. k + 1 <= m
    <3>1. Len(Tail(unread)) \in Nat /\ k + 1 + Len(Tail(unread)) <= m
      BY <1>0, DecodesPlace
    <3>. QED  BY <3>1
  <2>2. m < Len(Q)
    BY <1>0 DEF Abreast, Quiet
  <2>. QED  BY <2>1, <2>2
<1>2. PICK p \in Places, q \in Places : p = Q[k + 1] /\ q = Q[k + 1 + 1] /\ Precedes(p, q)
  BY <1>0, <1>1, NextPlace, Zenon
<1>3. q.enc # FreshEncoder
  <2>1. k + 1 + 1 \in 2 .. Len(Q)
    BY <1>0, <1>1, NextPlace, Zenon
  <2>. QED  BY <1>2, <2>1, Zenon DEF Once
<1>4. ~Ends(p) /\ q.cmd = p.cmd /\ q.enc = NextEnc(p)
  BY <1>2, <1>3, Zenon DEF Precedes
<1>5. PICK args \in Seq(Byte), n \in Nat : args = Arguments(p.cmd) /\ n = Len(args)
  BY PlaceFacts
<1>6. /\ p.cmd.kind \in CommandKinds /\ Encoding(p.enc, args) /\ p.enc.count < n + 2
      /\ p.enc.count # n + 1
  BY <1>4, <1>5, PlaceFacts, Zenon DEF Ends
<1>7. decoder = Following(p.enc, args)
  BY <1>2, <1>5, Zenon DEF Exactly
<1>8. p.enc.count < n => p.enc.count < RxLen
  <2>. SUFFICES ASSUME p.enc.count < n PROVE p.enc.count < RxLen
    OBVIOUS
  <2>1. p.enc.count \in Nat
    BY <1>6 DEF Encoding, Encoders
  <2>2. decoder.buffer = SubSeq(args, 1, p.enc.count)
    BY <1>5, <1>7 DEF Following
  <2>3. Len(SubSeq(args, 1, p.enc.count)) = p.enc.count
    BY <1>5, <2>1
  <2>4. Len(decoder.buffer) < RxLen
    BY <1>0, DecodesPlace, Zenon
  <2>. QED  BY <2>2, <2>3, <2>4, Zenon
<1>9. ReceiveCommand(Following(p.enc, args), ByteAt(p)) = <<Following(NextEnc(p), args), None>>
  BY <1>5, <1>6, <1>8, CommandByteFollows, Zenon DEF NextEnc, ByteAt
<1>10. Head(unread) = ByteAt(p)
  BY <1>0, <1>2, DecodesPlace, Zenon
<1>11. Decoded = <<Following(q.enc, Arguments(q.cmd)), None>>
  BY <1>4, <1>5, <1>7, <1>9, <1>10, Zenon DEF Decoded
<1>. QED  BY <1>1, <1>2, <1>11, Zenon

LEMMA DecodeLine ==
  ASSUME SInv, Decode  PROVE OnLine' /\ SplitContained'
<1>0. /\ client = "decoding" /\ unread # <<>> /\ uart.status = "off" /\ ~alarm
      /\ UNCHANGED <<host, cmd, enc, fifo, gaps>>
  BY DEF Decode, hostVars, SInv, LInv, Turns, Forms
<1>1. \/ /\ decoder' = Decoded[1] /\ unread' = Tail(unread)
         /\ UNCHANGED <<client, outcome, uart, alarm>>
      \/ Restarted
      \/ /\ Decoded[2].kind \notin {"none", "Reset"}
         /\ client' \in {"panicked", "serving"} /\ outcome' = Decoded[2]
         /\ UNCHANGED <<uart, alarm>>
  BY Zenon DEF Decode, Decoded
<1>. PICK Q \in Seq(Places), k \in Nat, l \in Nat, m \in Nat : Holds(Q, k, l, m)
  BY Zenon DEF SInv, OnLine
<1>2. Line(Q, k, l, m) /\ Reading(Q, k, m) /\ Chain(Q)
  BY <1>0 DEF Holds, Line
<1>3. gaps <= 1 => /\ Once(Q) /\ host # "idle" /\ (gaps = 1 \/ Quiet)
                   /\ Exactly(Q, k) \/ Quiet
  BY <1>0 DEF Holds, Halves
<1>4. gaps <= 1 /\ ~Quiet =>
        /\ k + 1 < Len(Q)
        /\ Decoded = <<Following(Q[k + 1 + 1].enc, Arguments(Q[k + 1 + 1].cmd)), None>>
  BY <1>0, <1>2, <1>3, NotYet DEF SInv
<1>5. CASE /\ decoder' = Decoded[1] /\ unread' = Tail(unread)
           /\ UNCHANGED <<client, outcome, uart, alarm>>
  <2>1. Line(Q, k + 1, l, m)'
    <3>1. Reading(Q, k + 1, m)'
      BY <1>0, <1>2, <1>5, DecodesOn
    <3>2. Abreast(Q, m)' /\ Spelt(fifo', Q, m)
      BY <1>0, <1>2 DEF Line, Abreast
    <3>3. client' # "listening"
      BY <1>0, <1>5
    <3>. QED  BY <1>2, <3>1, <3>2, <3>3, Zenon DEF Line
  <2>2. gaps' <= 1 => (Once(Q) /\ Halves(Q, k + 1, m))'
    <3>. SUFFICES ASSUME gaps <= 1 PROVE (Once(Q) /\ Halves(Q, k + 1, m))'
      BY <1>0
    <3>1. Once(Q)' /\ (Quiet' <=> Quiet)
      BY <1>0, <1>3 DEF Once, Quiet
    <3>2. Exactly(Q, k + 1)' \/ Quiet
      BY <1>4, <1>5 DEF Exactly
    <3>3. client' = "decoding" /\ uart'.status = "off"
      BY <1>0, <1>5
    <3>. QED  BY <1>0, <1>3, <3>1, <3>2, <3>3 DEF Halves
  <2>3. client' # "serving" /\ k + 1 \in Nat
    BY <1>0, <1>5
  <2>. QED  BY <2>1, <2>2, <2>3, IsOnLine, StaysContained, Zenon DEF SInv
<1>6. CASE Restarted
  <2>1. client' = "listening" /\ rx_client_buffer' = <<>> /\ uart' = Receive(1) /\ ~alarm'
    BY <1>6 DEF Restarted, ReceiveAutomatic
  <2>. QED  BY <1>0, <2>1, RestartLine
<1>7. CASE /\ Decoded[2].kind \notin {"none", "Reset"}
           /\ client' \in {"panicked", "serving"} /\ outcome' = Decoded[2]
           /\ UNCHANGED <<uart, alarm>>
  <2>1. Line(Q, k, l, m)'
    BY <1>0, <1>2, <1>7, LineStays
  <2>2. gaps <= 1 => Quiet
    <3>. SUFFICES ASSUME gaps <= 1, ~Quiet PROVE FALSE
      OBVIOUS
    <3>1. Decoded[2] = None
      BY <1>4
    <3>. QED  BY <1>7, <3>1 DEF None, Message
  <2>3. host \in {"idle", "sending", "waiting"}
    BY DEF SInv, LInv, TypeOK
  <2>4. gaps' <= 1 => (Once(Q) /\ Halves(Q, k, m))'
    <3>. SUFFICES ASSUME gaps <= 1 PROVE (Once(Q) /\ Halves(Q, k, m))'
      BY <1>0
    <3>1. Once(Q)' /\ Quiet' /\ host' = "waiting"
      BY <1>0, <1>3, <2>2, <2>3 DEF Once, Quiet
    <3>. QED  BY <1>0, <1>7, <3>1 DEF Halves
  <2>5. Changes(outcome') => \/ outcome' = Q[k + 1].cmd
                             \/ AllEscapes(Arguments(outcome'))
    <3>1. StepsWell(decoder, Decoded, NextEnc(Q[k + 1]), Q[k + 1].cmd)
      BY <1>0, <1>2, DecodesPlace, Zenon
    <3>. QED  BY <1>7, <3>1, Zenon DEF StepsWell
  <2>6. Q[k + 1].cmd \in Commands /\ (gaps <= 1 => Q[k + 1].cmd = cmd)
    <3>1. k + 1 \in 1 .. Len(Q) /\ Q[k + 1] \in Places
      BY <1>0, <1>2, DecodesPlace, Zenon
    <3>. QED  BY <1>3, <3>1, PlaceFacts, Zenon DEF Once
  <2>7. SplitContained'
    BY <1>0, <2>5, <2>6 DEF SplitContained
  <2>. QED  BY <2>1, <2>4, <2>7, IsOnLine, Zenon
<1>. QED  BY <1>1, <1>5, <1>6, <1>7

-----------------------------------------------------------------------------
LEMMA SInvInit == Init => SInv
<1>. SUFFICES ASSUME Init PROVE SInv
  OBVIOUS
<1>0. /\ host = "idle" /\ fifo = <<>> /\ ~alarm /\ client = "listening"
      /\ rx_client_buffer = <<>> /\ uart = Receive(1)
  BY DEF Init
<1>1. Line(<<>>, 0, 0, 0)
  <2>1. Chain(<<>>) /\ Spelt(<<>>, <<>>, 0)
    BY DEF Chain, Spelt
  <2>2. Abreast(<<>>, 0)
    BY <1>0 DEF Abreast
  <2>3. Gathering(<<>>, 0, 0, 0)
    BY <1>0, <2>1 DEF Gathering, Filled, Receive
  <2>. QED  BY <1>0, <2>1, <2>2, <2>3 DEF Line
<1>2. Once(<<>>) /\ Halves(<<>>, 0, 0)
  BY <1>0 DEF Once, Halves, Receive
<1>3. <<>> \in Seq(Places) /\ 0 \in Nat
  OBVIOUS
<1>4. OnLine
  BY <1>1, <1>2, <1>3, Zenon DEF OnLine, Holds
<1>5. SplitContained
  BY <1>0 DEF SplitContained
<1>. QED  BY <1>4, <1>5, LInvInit DEF SInv

LEMMA SInvNext == SInv /\ [Next]_vars => SInv'
<1>. SUFFICES ASSUME SInv, [Next]_vars PROVE SInv'
  OBVIOUS
<1>1. LInv'
  BY LInvNext DEF SInv
<1>2. OnLine' /\ SplitContained'
  <2>1. CASE Device
    BY <2>1, DriverTakesLine, ReceivedLine, AlarmFiresLine, CancelledLine, DecodeLine,
       NothingDecodedLine, AnswerLine DEF Device
  <2>2. CASE ReceiveFails \/ SendCommand \/ SendByte \/ GiveUp \/ ResetBoard
    BY <2>2, ReceiveFailsLine, SendCommandLine, SendByteLine, GiveUpLine, ResetBoardLine
  <2>3. CASE UNCHANGED vars
    <3>1. PICK Q \in Seq(Places), k \in Nat, l \in Nat, m \in Nat : Holds(Q, k, l, m)
      BY Zenon DEF SInv, OnLine
    <3>2. Line(Q, k, l, m)'
      BY <2>3, <3>1 DEF vars, hostVars, adapterVars, clientVars, Holds, Line, Abreast,
                        Gathering, Reading
    <3>3. gaps' <= 1 => (Once(Q) /\ Halves(Q, k, m))'
      BY <2>3, <3>1 DEF vars, hostVars, adapterVars, clientVars, Holds, Once, Halves, Exactly,
                        Quiet, Stopped, Broken
    <3>4. UNCHANGED <<client, outcome, gaps, cmd>>
      BY <2>3 DEF vars, hostVars, clientVars
    <3>. QED  BY <3>1, <3>2, <3>3, <3>4, IsOnLine, StaysContained, Zenon DEF SInv
  <2>. QED  BY <2>1, <2>2, <2>3 DEF Next
<1>. QED  BY <1>1, <1>2 DEF SInv

\* However pauses cut commands into parts, and wherever a part begins, the bootloader
\* serves no command that changes flash but one of the host's, whole and with its own
\* arguments, and up to the second pause the one that the host has sent last; or one
\* whose arguments are escape characters only, which a part makes that begins between
\* the two halves of a doubled escape character (bootloader.rs:270 gives each callback
\* a new decoder; uart_receive_multiple_timeout.rs calls back after 6 ms).
THEOREM SplitsAreContained == Spec => []SplitContained
<1>1. SInv => SplitContained
  BY DEF SInv
<1>. QED  BY SInvInit, SInvNext, <1>1, PTL DEF Spec

=============================================================================
