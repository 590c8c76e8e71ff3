----------------------------- MODULE LegacyProofs -----------------------------
(***************************************************************************)
(* Theorems about Legacy, for every size of page, flash and buffers, set   *)
(* of requests and rates, and set of faults.                               *)
(***************************************************************************)
EXTENDS Legacy, SequenceTheorems, WellFoundedInduction, TLAPS

-----------------------------------------------------------------------------
(* Induction, and arithmetic.                                              *)

LEMMA NatWellFounded ==
  IsWellFoundedOn({ss \in Nat \X Nat : ss[1] < ss[2]}, Nat)
BY NatLessThanWellFounded DEF OpToRel

LEMMA LeastNat ==
  ASSUME NEW T, T \subseteq Nat, T # {}
  PROVE  \E n \in T : \A m \in T : n <= m
<1>. DEFINE R == {ss \in Nat \X Nat : ss[1] < ss[2]}
<1>1. PICK n \in T : \A m \in T : <<m, n>> \notin R
  BY NatWellFounded, WFMin
<1>2. \A m \in T : n <= m
  <2>. SUFFICES ASSUME NEW m \in T, m < n PROVE FALSE
    OBVIOUS
  <2>1. <<m, n>> \in R
    OBVIOUS
  <2>. QED  BY <1>1, <2>1
<1>. QED  BY <1>2

\* A set that contains 0, and with each number below n the next one, contains
\* them all up to n.
LEMMA Induction ==
  ASSUME NEW n \in Nat, NEW T, 0 \in T,
         \A i \in 0 .. n - 1 : i \in T => i + 1 \in T
  PROVE  0 .. n \subseteq T
<1>. SUFFICES ASSUME (0 .. n) \ T # {} PROVE FALSE
  OBVIOUS
<1>. DEFINE U == (0 .. n) \ T
<1>1. PICK m \in U : \A k \in U : m <= k
  <2>1. U \subseteq Nat /\ U # {}
    OBVIOUS
  <2>. HIDE DEF U
  <2>. QED  BY <2>1, LeastNat
<1>2. m - 1 \in 0 .. n - 1 /\ m - 1 \in T
  BY <1>1
<1>. QED  BY <1>1, <1>2

LEMMA Digit ==
  ASSUME NEW B \in Nat, NEW M \in Nat, NEW x \in 0 .. B - 1, NEW y \in 0 .. M - 1
  PROVE  x + B * y \in 0 .. B * M - 1
<1>1. B * y <= B * (M - 1) /\ B * y >= 0
  OBVIOUS
<1>2. B * (M - 1) = B * M - B
  OBVIOUS
<1>3. B * y \in Int /\ B * M \in Int
  OBVIOUS
<1>. QED  BY <1>1, <1>2, <1>3

LEMMA ByteIs == Byte = 0 .. ByteValues - 1 /\ ByteValues \in Nat /\ ByteValues >= 64
BY SizeAssumption DEF Byte

LEMMA BytesAre ==
  ASSUME NEW s \in Seq(Byte), NEW i \in 1 .. Len(s)
  PROVE  s[i] \in 0 .. ByteValues - 1
BY ByteIs

\* A word read from the receive buffer is one of 32 bits.
LEMMA WordType ==
  ASSUME NEW s \in Seq(Byte), NEW k \in Nat, k + 4 <= Len(s)
  PROVE  _rx_u32(s, k) \in 0 .. Word - 1
<1>. DEFINE B == ByteValues
<1>1. B \in Nat
  BY ByteIs
<1>2. /\ s[k + 1] \in 0 .. B - 1 /\ s[k + 2] \in 0 .. B - 1
      /\ s[k + 3] \in 0 .. B - 1 /\ s[k + 4] \in 0 .. B - 1
  BY BytesAre
<1>. DEFINE c == s[k + 3] + B * s[k + 4]
            b == s[k + 2] + B * c
            a == s[k + 1] + B * b
<1>3. c \in 0 .. B * B - 1
  BY <1>1, <1>2, Digit
<1>4. B * B \in Nat /\ B * (B * B) \in Nat
  BY <1>1
<1>. HIDE DEF c
<1>5. b \in 0 .. B * (B * B) - 1
  BY <1>1, <1>2, <1>3, <1>4, Digit
<1>. HIDE DEF b
<1>6. a \in 0 .. B * (B * (B * B)) - 1
  BY <1>1, <1>2, <1>4, <1>5, Digit
<1>7. B * (B * (B * B)) = Word
  BY <1>1 DEF Word
<1>8. a = _rx_u32(s, k)
  BY DEF a, b, c, _rx_u32
<1>. QED  BY <1>6, <1>7, <1>8

LEMMA WordIs == Word \in Nat /\ Word > 0
<1>1. ByteValues \in Nat /\ ByteValues > 0
  BY ByteIs
<1>2. \A m, n \in Nat : m > 0 /\ n > 0 => m * n \in Nat /\ m * n > 0
  OBVIOUS
<1>. QED  BY <1>1, <1>2, Zenon DEF Word

LEMMA HalfWordType ==
  ASSUME NEW s \in Seq(Byte), NEW k \in Nat, k + 2 <= Len(s)
  PROVE  _rx_u16(s, k) \in 0 .. ByteValues * ByteValues - 1
<1>1. s[k + 1] \in 0 .. ByteValues - 1 /\ s[k + 2] \in 0 .. ByteValues - 1
  BY BytesAre
<1>. QED  BY <1>1, ByteIs, Digit DEF _rx_u16

LEMMA SizesAre ==
  /\ PageSize \in Nat \ {0} /\ NumPages \in Nat \ {0}
  /\ RXBUFSZ \in Nat /\ TXBUFSZ \in Nat /\ TXBUFSZ >= 2
  /\ KeyLen \in Nat /\ ValueLen \in Nat
BY SizeAssumption, ReplyAssumption

LEMMA Quotient ==
  ASSUME NEW a \in Nat, NEW n \in Nat \ {0}
  PROVE  /\ a \div n \in Nat
         /\ a % n \in 0 .. n - 1
         /\ a = n * (a \div n) + (a % n)
BY SMTT(20)

LEMMA ModOnce ==
  ASSUME NEW w \in Nat \ {0}, NEW x \in Nat, x < 2 * w
  PROVE  x % w = IF x < w THEN x ELSE x - w
<1>1. CASE x < w
  BY <1>1
<1>2. CASE ~(x < w)
  <2>1. (x - w) % w = x - w
    BY <1>2
  <2>. DEFINE q == x \div w
  <2>2. q \in Nat /\ x % w \in 0 .. w - 1 /\ x = w * q + (x % w)
    BY Quotient, Zenon
  <2>. HIDE DEF q
  <2>. PICK r \in 0 .. w - 1 : r = x % w
    BY <2>2
  <2>3. q >= 1
    BY <1>2, <2>2
  <2>4. q < 2
    <3>. SUFFICES ASSUME q >= 2 PROVE FALSE
      BY <2>2
    <3>1. w * q >= w * 2
      BY <2>2
    <3>2. w * q \in Nat
      BY <2>2
    <3>. QED  BY <2>2, <3>1, <3>2
  <2>5. q = 1
    BY <2>2, <2>3, <2>4
  <2>. QED  BY <1>2, <2>2, <2>5
<1>. QED  BY <1>1, <1>2

\* What lies below a multiple of n is in a lower part.
LEMMA Below ==
  ASSUME NEW n \in Nat \ {0}, NEW p \in Nat, NEW q \in Nat, p * n < q * n
  PROVE  p < q
<1>. SUFFICES ASSUME p >= q PROVE FALSE
  OBVIOUS
<1>1. p * n >= q * n
  OBVIOUS
<1>. QED  BY <1>1

-----------------------------------------------------------------------------
(* The pages that commands change.                                         *)

Touchable == WritablePages \cup AttributePages \cup {UserPage}

LEMMA TouchableInFlash == Touchable \subseteq AllPages
BY SizeAssumption DEF Touchable, WritablePages, AttributePages, Pages, UserPage, AllPages

\* A page that EPAGE or WPAGE accepts is one of the application.
LEMMA NamedPage ==
  ASSUME NEW address \in Nat, NamesPage(address)
  PROVE  /\ address \div PageSize \in WritablePages
         /\ (address \div PageSize) * PageSize = address
<1>. DEFINE p == address \div PageSize
<1>1. p \in Nat /\ p * PageSize = address
  <2>1. address % PageSize = 0
    BY DEF NamesPage
  <2>2. p \in Nat /\ address = PageSize * p + (address % PageSize)
    BY SizesAre, Quotient, Zenon
  <2>. HIDE DEF p
  <2>. QED  BY <2>1, <2>2, SizesAre
<1>2. address < NumPages * PageSize /\ address >= ALLOWED_FLASH_FLOOR
  <2>1. address < ALLOWED_FLASH_CEILING /\ address >= ALLOWED_FLASH_FLOOR
    BY DEF NamesPage
  <2>2. NumPages * PageSize \in Nat
    BY SizeAssumption
  <2>. QED  BY <2>1, <2>2 DEF ALLOWED_FLASH_CEILING, FlashSize
<1>3. p < NumPages
  BY <1>1, <1>2, SizeAssumption, Below
<1>. QED  BY <1>1, <1>2, <1>3, SizeAssumption DEF WritablePages, Pages, FlashSize

\* And one that SATTR accepts one of the attributes.
LEMMA AttributePage ==
  ASSUME NEW idx \in Nat, idx < NumAttributes
  PROVE  AttrAddress(idx) \div PageSize \in AttributePages
<1>. DEFINE a == AttrAddress(idx)
            p == a \div PageSize
            k == ALLOWED_ATTRIBUTE_FLOOR \div PageSize
            end == ALLOWED_ATTRIBUTE_FLOOR + NumAttributes * AttrSize
<1>1. AttrSize \in Nat /\ AttrSize > 0 /\ NumAttributes \in Nat
  BY SizeAssumption, LegacyLayoutAssumption DEF AttrSize
<1>2. idx * AttrSize >= 0 /\ idx * AttrSize < NumAttributes * AttrSize
  <2>1. (idx + 1) * AttrSize <= NumAttributes * AttrSize
    BY <1>1
  <2>2. (idx + 1) * AttrSize = idx * AttrSize + AttrSize /\ idx * AttrSize \in Nat
    BY <1>1
  <2>. QED  BY <1>1, <2>1, <2>2
<1>3. /\ ALLOWED_ATTRIBUTE_FLOOR \in Nat /\ a \in Nat /\ end \in Nat
      /\ ALLOWED_ATTRIBUTE_FLOOR <= a /\ a < end
  <2>1. idx * AttrSize \in Nat /\ NumAttributes * AttrSize \in Nat
    BY <1>1
  <2>. HIDE DEF AttrSize
  <2>. QED  BY <1>2, <2>1, LegacyLayoutAssumption DEF AttrAddress
<1>4. /\ p \in Nat /\ p * PageSize <= a /\ a < (p + 1) * PageSize
  <2>0. PageSize \in Nat \ {0} /\ a \in Nat
    BY <1>3, SizeAssumption
  <2>1. /\ p \in Nat /\ a % PageSize \in 0 .. PageSize - 1
        /\ a = PageSize * p + (a % PageSize)
    BY <2>0, Quotient, Zenon
  <2>2. (p + 1) * PageSize = p * PageSize + PageSize /\ p * PageSize \in Nat
    BY <2>1, SizeAssumption
  <2>3. PageSize * p = p * PageSize
    BY <2>1, SizeAssumption
  <2>4. PICK rest \in 0 .. PageSize - 1 : rest = a % PageSize
    BY <2>1
  <2>. HIDE DEF p, a
  <2>. QED  BY <2>0, <2>1, <2>2, <2>3, <2>4
<1>5. k \in Nat /\ k * PageSize = ALLOWED_ATTRIBUTE_FLOOR
  BY <1>3, SizeAssumption, LegacyLayoutAssumption, Quotient
<1>. HIDE DEF a, p, k
<1>6. ALLOWED_ATTRIBUTE_FLOOR <= p * PageSize
  <2>1. k * PageSize < (p + 1) * PageSize
    BY <1>3, <1>4, <1>5, SizeAssumption
  <2>2. k < p + 1
    BY <1>4, <1>5, <2>1, SizeAssumption, Below
  <2>3. k * PageSize <= p * PageSize
    BY <1>4, <1>5, <2>2, SizeAssumption
  <2>. QED  BY <1>5, <2>3
<1>7. p * PageSize < end /\ end <= NumPages * PageSize
  <2>1. end <= FlashSize /\ FlashSize \in Nat
    BY <1>3, LegacyLayoutAssumption, SizeAssumption DEF FlashSize
  <2>2. p * PageSize \in Nat
    BY <1>4, SizeAssumption
  <2>. HIDE DEF end
  <2>. QED  BY <1>3, <1>4, <2>1, <2>2 DEF FlashSize
<1>8. p < NumPages
  <2>1. p * PageSize \in Nat /\ NumPages * PageSize \in Nat
    BY <1>4, SizeAssumption
  <2>2. p * PageSize < NumPages * PageSize
    BY <1>3, <1>7, <2>1
  <2>. QED  BY <1>4, <2>2, SizeAssumption, Below
<1>9. p \in 0 .. NumPages - 1
  BY <1>4, <1>8, SizeAssumption
<1>. HIDE DEF end
<1>10. p \in AttributePages
  BY <1>6, <1>7, <1>9 DEF AttributePages, Pages, end
<1>. QED  BY <1>10 DEF a, p

-----------------------------------------------------------------------------
(* The inductive invariant: what the buffers, flash and the commands that   *)
(* work on it hold.                                                         *)

Received ==
  /\ byte_escape \in BOOLEAN
  /\ rx \in Seq(Byte) /\ Len(rx) <= RXBUFSZ
  /\ rhr \in Seq(Byte) /\ Len(rhr) <= 1

HostTypes ==
  /\ sending \in Seq(Byte) /\ IsRequest(request)
  /\ host_rate \in Nat /\ home \in Nat

BaudTypes ==
  /\ change_baud_state \in {"IDLE", "CHANGING", "WAITING_CONFIRMATION", "RESETTING"}
  /\ {baudrate, new_baud_rate, old_baud_rate} \subseteq 0 .. Word - 1

FlashTypes == flash \in [AllPages -> Page] /\ page_buffer \in Page

\* What is worked on is a page of the application, of the attributes or the
\* user's.
JobTypes ==
  \/ job \in {None, Drain, Fault}
  \/ \E p \in Touchable, next \in Seq(Byte) :
       job = [kind |-> "erase", page |-> p, next |-> next]
  \/ \E p \in Touchable : job = [kind |-> "program", page |-> p]

Contents == Received /\ HostTypes /\ BaudTypes /\ FlashTypes /\ JobTypes

LEMMA ErasedIsByte == Erased \in Byte /\ ESCAPE_CHAR \in Byte /\ NoData \in Page
<1>1. Erased \in Byte /\ ESCAPE_CHAR \in Byte
  BY ByteIs DEF Erased, ESCAPE_CHAR
<1>. QED  BY <1>1 DEF NoData, Page

LEMMA CodesAreBytes ==
  {CMD_PING, CMD_RESET, CMD_CHANGE_BAUD, CHANGE_BAUD_SUBCMD_NEW,
   CHANGE_BAUD_SUBCMD_CONFIRM} \subseteq Byte
BY ByteIs DEF CMD_PING, CMD_RESET, CMD_CHANGE_BAUD, CHANGE_BAUD_SUBCMD_NEW,
              CHANGE_BAUD_SUBCMD_CONFIRM

LEMMA PingRequestType == IsRequest(PingRequest)
BY CodesAreBytes DEF IsRequest, PingRequest

LEMMA ContentsInit == Init => Contents
<1>. SUFFICES ASSUME Init PROVE Contents
  OBVIOUS
<1>1. Received
  <2>1. byte_escape \in BOOLEAN
    BY Zenon DEF Init
  <2>2. rx = <<>> /\ rhr = <<>>
    BY DEF Init
  <2>. QED  BY <2>1, <2>2, SizesAre DEF Received
<1>2. HostTypes
  BY PingRequestType, HostAssumption, WordIs DEF Init, HostInit, HostTypes
<1>3. BaudTypes
  BY HostAssumption, WordIs DEF Init, BaudTypes
<1>4. FlashTypes
  BY HostAssumption, ErasedIsByte DEF Init, FlashTypes
<1>5. JobTypes
  BY DEF Init, JobTypes
<1>. QED  BY <1>1, <1>2, <1>3, <1>4, <1>5 DEF Contents

-----------------------------------------------------------------------------
(* The bytes that the two ends send.                                       *)

\* The prefixes that flattening goes through.
IsFlatRun(g, seqs, n) ==
  g = [i \in 1 .. n |-> IF i = 1 THEN seqs[i] ELSE g[i - 1] \o seqs[i]]

LEMMA FlatRunExists ==
  ASSUME NEW seqs, NEW n \in Nat
  PROVE  \E g : IsFlatRun(g, seqs, n)
<1>. DEFINE T == {m \in Nat : \E g : IsFlatRun(g, seqs, m)}
<1>1. 0 \in T
  <2>. DEFINE g == [i \in 1 .. 0 |-> {}]
  <2>1. g = [i \in 1 .. 0 |-> IF i = 1 THEN seqs[i] ELSE g[i - 1] \o seqs[i]]
    OBVIOUS
  <2>. QED  BY <2>1 DEF IsFlatRun
<1>2. ASSUME NEW m \in 0 .. n - 1, m \in T
      PROVE  m + 1 \in T
  <2>1. PICK f : IsFlatRun(f, seqs, m)
    BY <1>2
  <2>. DEFINE g == [i \in 1 .. m + 1 |->
                      IF i <= m THEN f[i]
                      ELSE IF i = 1 THEN seqs[i] ELSE f[m] \o seqs[m + 1]]
  <2>2. ASSUME NEW i \in 1 .. m + 1
        PROVE  g[i] = IF i = 1 THEN seqs[i] ELSE g[i - 1] \o seqs[i]
    <3>1. CASE i <= m
      <4>1. g[i] = f[i] /\ i \in 1 .. m
        BY <3>1
      <4>2. f[i] = IF i = 1 THEN seqs[i] ELSE f[i - 1] \o seqs[i]
        BY <2>1, <4>1 DEF IsFlatRun
      <4>3. i # 1 => g[i - 1] = f[i - 1]
        BY <3>1
      <4>. QED  BY <4>1, <4>2, <4>3
    <3>2. CASE i = m + 1
      <4>1. i # 1 => g[i - 1] = f[m]
        BY <3>2
      <4>2. g[i] = IF i = 1 THEN seqs[i] ELSE f[m] \o seqs[i]
        BY <3>2
      <4>. QED  BY <3>2, <4>1, <4>2
    <3>. QED  BY <3>1, <3>2
  <2>3. IsFlatRun(g, seqs, m + 1)
    BY <2>2 DEF IsFlatRun
  <2>. QED  BY <2>3
<1>. HIDE DEF T
<1>3. n \in T
  BY <1>1, <1>2, Induction
<1>. QED  BY <1>3 DEF T

LEMMA FlattenIsRun ==
  ASSUME NEW seqs, Len(seqs) \in Nat \ {0}
  PROVE  \E g : IsFlatRun(g, seqs, Len(seqs)) /\ FlattenSeq(seqs) = g[Len(seqs)]
<1>. DEFINE g == CHOOSE h : IsFlatRun(h, seqs, Len(seqs))
<1>1. IsFlatRun(g, seqs, Len(seqs))
  BY FlatRunExists
<1>2. FlattenSeq(seqs) = g[Len(seqs)]
  BY DEF FlattenSeq, IsFlatRun
<1>. QED  BY <1>1, <1>2

LEMMA FlattenType ==
  ASSUME NEW S, NEW seqs \in Seq(Seq(S))
  PROVE  FlattenSeq(seqs) \in Seq(S)
<1>. DEFINE n == Len(seqs)
            T(g) == {i \in Nat : i + 1 \in 1 .. n => g[i + 1] \in Seq(S)}
<1>0. n \in Nat /\ \A i \in 1 .. n : seqs[i] \in Seq(S)
  OBVIOUS
<1>1. CASE n = 0
  <2>1. FlattenSeq(seqs) = seqs /\ seqs = <<>>
    BY <1>1 DEF FlattenSeq
  <2>. QED  BY <2>1
<1>2. CASE n # 0
  <2>1. PICK g : IsFlatRun(g, seqs, n) /\ FlattenSeq(seqs) = g[n]
    <3>1. Len(seqs) \in Nat \ {0}
      BY <1>0, <1>2
    <3>. QED  BY <3>1, FlattenIsRun
  <2>2. \A i \in 1 .. n : g[i] = IF i = 1 THEN seqs[i] ELSE g[i - 1] \o seqs[i]
    <3>. HIDE DEF n
    <3>. QED  BY <2>1 DEF IsFlatRun
  <2>. HIDE DEF n
  <2>3. 0 \in T(g)
    BY <1>0, <2>2
  <2>4. ASSUME NEW i \in 0 .. n - 1, i \in T(g)
        PROVE  i + 1 \in T(g)
    <3>. SUFFICES ASSUME i + 2 \in 1 .. n PROVE g[i + 2] \in Seq(S)
      BY <1>0
    <3>1. g[i + 1] \in Seq(S)
      BY <1>0, <2>4
    <3>2. g[i + 2] = g[i + 1] \o seqs[i + 2]
      <4>1. i + 2 # 1 /\ (i + 2) - 1 = i + 1
        BY <1>0
      <4>. QED  BY <2>2, <4>1
    <3>. QED  BY <1>0, <3>1, <3>2, ConcatProperties
  <2>. HIDE DEF T
  <2>5. 0 .. n \subseteq T(g)
    BY <1>0, <2>3, <2>4, Induction
  <2>6. n - 1 \in T(g)
    BY <1>0, <1>2, <2>5
  <2>7. g[n] \in Seq(S)
    BY <1>0, <1>2, <2>6 DEF T
  <2>. QED  BY <2>1, <2>7
<1>. QED  BY <1>1, <1>2

LEMMA StuffedType ==
  ASSUME NEW b \in Byte
  PROVE  Stuffed(b) \in Seq(Byte) /\ Len(Stuffed(b)) <= 2
<1>1. <<b>> \in Seq(Byte) /\ Len(<<b>>) <= 2
  OBVIOUS
<1>2. <<b, b>> \in Seq(Byte) /\ Len(<<b, b>>) <= 2
  OBVIOUS
<1>. QED  BY <1>1, <1>2, Zenon DEF Stuffed

LEMMA EscapedType ==
  ASSUME NEW s \in Seq(Byte)
  PROVE  Escaped(s) \in Seq(Byte)
<1>. DEFINE seqs == [i \in 1 .. Len(s) |-> Stuffed(s[i])]
<1>1. \A i \in 1 .. Len(s) : Stuffed(s[i]) \in Seq(Byte)
  BY StuffedType
<1>2. Len(s) \in Nat /\ DOMAIN s = 1 .. Len(s)
  OBVIOUS
<1>3. seqs \in Seq(Seq(Byte))
  BY <1>1, <1>2
<1>4. Escaped(s) = FlattenSeq(seqs)
  BY <1>2 DEF Escaped
<1>. HIDE DEF seqs
<1>. QED  BY <1>3, <1>4, FlattenType

LEMMA FrameType ==
  ASSUME NEW r, IsRequest(r)
  PROVE  Frame(r) \in Seq(Byte)
<1>1. r.args \in Seq(Byte) /\ r.cmd \in Byte
  BY DEF IsRequest
<1>2. 0 \in Byte /\ ESCAPE_CHAR \in Byte /\ CMD_RESET \in Byte
  BY ByteIs, CodesAreBytes DEF ESCAPE_CHAR
<1>3. <<0, ESCAPE_CHAR, CMD_RESET>> \in Seq(Byte) /\ <<>> \in Seq(Byte)
      /\ <<ESCAPE_CHAR, r.cmd>> \in Seq(Byte)
  BY <1>1, <1>2
<1>4. Escaped(r.args) \in Seq(Byte)
  BY <1>1, EscapedType
<1>. QED  BY <1>3, <1>4, ConcatProperties DEF Frame

LEMMA LittleEndianType ==
  ASSUME NEW n \in Nat
  PROVE  LittleEndian(n) \in Seq(Byte)
<1>. DEFINE B == ByteValues
<1>1. B \in Nat \ {0} /\ Byte = 0 .. B - 1
  BY ByteIs
<1>2. B * B \in Nat \ {0} /\ B * B * B \in Nat \ {0}
  <2>1. \A x, y \in Nat \ {0} : x * y \in Nat \ {0}
    OBVIOUS
  <2>. HIDE DEF B
  <2>. QED  BY <1>1, <2>1
<1>. HIDE DEF B
<1>3. n \div B \in Nat /\ n \div (B * B) \in Nat /\ n \div (B * B * B) \in Nat
  BY <1>1, <1>2, Quotient, Zenon
<1>4. \A x \in Nat : x % B \in Byte
  BY <1>1, Quotient
<1>. QED  BY <1>3, <1>4 DEF LittleEndian, B

LEMMA BaudRequestTypes ==
  ASSUME NEW rate \in Nat
  PROVE  IsRequest(BaudRequest(rate)) /\ IsRequest(BaudConfirm(rate))
<1>1. LittleEndian(rate) \in Seq(Byte)
  BY LittleEndianType
<1>2. /\ <<CHANGE_BAUD_SUBCMD_NEW>> \in Seq(Byte)
      /\ <<CHANGE_BAUD_SUBCMD_CONFIRM>> \in Seq(Byte)
  BY CodesAreBytes
<1>3. /\ <<CHANGE_BAUD_SUBCMD_NEW>> \o LittleEndian(rate) \in Seq(Byte)
      /\ <<CHANGE_BAUD_SUBCMD_CONFIRM>> \o LittleEndian(rate) \in Seq(Byte)
  BY <1>1, <1>2, ConcatProperties
<1>. QED  BY <1>3, CodesAreBytes DEF IsRequest, BaudRequest, BaudConfirm

-----------------------------------------------------------------------------
(* Commands.                                                                *)

\* What a command leaves.
Kept ==
  /\ rx' \in Seq(Byte) /\ Len(rx') <= RXBUFSZ
  /\ BaudTypes' /\ FlashTypes' /\ JobTypes'

LEMMA UnchangedKeeps ==
  ASSUME Contents, UNCHANGED <<rx, baudVars, flashVars, job>>
  PROVE  Kept
<1>1. UNCHANGED rx /\ UNCHANGED baudVars /\ UNCHANGED flashVars /\ UNCHANGED job
  OBVIOUS
<1>2. rx' \in Seq(Byte) /\ Len(rx') <= RXBUFSZ
  BY <1>1 DEF Contents, Received
<1>3. BaudTypes'
  BY <1>1 DEF Contents, BaudTypes, baudVars
<1>4. FlashTypes'
  BY <1>1 DEF Contents, FlashTypes, flashVars
<1>5. JobTypes'
  BY <1>1 DEF Contents, JobTypes
<1>. QED  BY <1>2, <1>3, <1>4, <1>5 DEF Kept

LEMMA AnswerKeeps ==
  ASSUME Contents, NEW code, NEW dat, Answer(code, dat), UNCHANGED rx
  PROVE  Kept
BY UnchangedKeeps DEF Answer

LEMMA RefuseKeeps ==
  ASSUME Contents, NEW code, Refuse(code), UNCHANGED rx
  PROVE  Kept
BY AnswerKeeps DEF Refuse

LEMMA EraseKeeps ==
  ASSUME Contents, NEW page \in Touchable, NEW next \in Seq(Byte),
         Erase(page, next), UNCHANGED rx
  PROVE  Kept
<1>1. UNCHANGED baudVars /\ UNCHANGED flashVars
  BY DEF Erase
<1>2. rx' \in Seq(Byte) /\ Len(rx') <= RXBUFSZ
  BY DEF Contents, Received
<1>3. BaudTypes'
  BY <1>1 DEF Contents, BaudTypes, baudVars
<1>4. FlashTypes'
  BY <1>1 DEF Contents, FlashTypes, flashVars
<1>5. JobTypes'
  BY DEF Erase, JobTypes
<1>. QED  BY <1>2, <1>3, <1>4, <1>5 DEF Kept

LEMMA ChangeStateKeeps ==
  ASSUME Contents, NEW rate \in 0 .. Word - 1, NEW code,
         NEW state \in {"IDLE", "CHANGING", "RESETTING"},
         ChangeState(state, rate, code), UNCHANGED rx
  PROVE  Kept
<1>1. UNCHANGED flashVars /\ UNCHANGED job
  BY DEF ChangeState
<1>2. rx' \in Seq(Byte) /\ Len(rx') <= RXBUFSZ
  BY DEF Contents, Received
<1>3. BaudTypes'
  BY DEF ChangeState, Contents, BaudTypes
<1>4. FlashTypes'
  BY <1>1 DEF Contents, FlashTypes, flashVars
<1>5. JobTypes'
  BY <1>1 DEF Contents, JobTypes
<1>. QED  BY <1>2, <1>3, <1>4, <1>5 DEF Kept

\* Bytes copied over a page leave a page.
LEMMA PatchedType ==
  ASSUME NEW page \in Page, NEW offset \in Nat, NEW s \in Seq(Byte)
  PROVE  Patched(page, offset, s) \in Page
<1>1. ASSUME NEW o \in Offsets, o \in offset .. offset + Len(s) - 1
      PROVE  s[o - offset + 1] \in Byte
  <2>1. o - offset + 1 \in 1 .. Len(s)
    BY <1>1 DEF Offsets
  <2>. QED  BY <2>1
<1>2. \A o \in Offsets : page[o] \in Byte
  BY DEF Page
<1>. QED  BY <1>1, <1>2 DEF Patched, Page

LEMMA AsSeqType ==
  ASSUME NEW page \in Page
  PROVE  AsSeq(page) \in Seq(Byte) /\ Len(AsSeq(page)) = PageSize
<1>1. ASSUME NEW i \in 1 .. PageSize
      PROVE  page[i - 1] \in Byte
  <2>1. i - 1 \in Offsets
    BY SizesAre DEF Offsets
  <2>. QED  BY <2>1 DEF Page
<1>2. PageSize \in Nat
  BY SizesAre
<1>. QED  BY <1>1, <1>2 DEF AsSeq

LEMMA ErasePageKeeps ==
  ASSUME Contents, NEW b, ErasePage(b), UNCHANGED rx
  PROVE  Kept
<1>. DEFINE address == _rx_u32(rx, 0)
            page    == address \div PageSize
<1>1. CASE Len(rx) = 4 /\ NamesPage(address) /\ Erase(page, <<>>)
  <2>1. rx \in Seq(Byte)
    BY DEF Contents, Received
  <2>2. address \in 0 .. Word - 1
    <3>1. 0 \in Nat /\ 0 + 4 <= Len(rx)
      BY <1>1
    <3>. QED  BY <2>1, <3>1, WordType
  <2>3. page \in Touchable
    BY <1>1, <2>2, WordIs, NamedPage DEF Touchable
  <2>4. <<>> \in Seq(Byte)
    OBVIOUS
  <2>. QED  BY <1>1, <2>3, <2>4, EraseKeeps, Zenon
<1>2. CASE Refuse(RES_BADARGS) \/ Refuse(RES_BADADDR) \/ Answer(RES_OK, <<>>)
  BY <1>2, AnswerKeeps, RefuseKeeps, Zenon
<1>. QED  BY <1>1, <1>2, Zenon DEF ErasePage

LEMMA WritePageKeeps ==
  ASSUME Contents, NEW b, WritePage(b), UNCHANGED rx
  PROVE  Kept
<1>. DEFINE address == _rx_u32(rx, 0)
            page    == address \div PageSize
            next    == SubSeq(rx, 5, Len(rx))
<1>1. CASE Len(rx) = PageSize + 4 /\ NamesPage(address) /\ Erase(page, next)
  <2>1. rx \in Seq(Byte) /\ next \in Seq(Byte)
    BY DEF Contents, Received
  <2>2. address \in 0 .. Word - 1
    BY <1>1, <2>1, WordType, SizesAre
  <2>3. page \in Touchable
    BY <1>1, <2>2, WordIs, NamedPage DEF Touchable
  <2>. QED  BY <1>1, <2>1, <2>3, EraseKeeps, Zenon
<1>2. CASE Refuse(RES_BADARGS) \/ Refuse(RES_BADADDR)
  BY <1>2, RefuseKeeps, Zenon
<1>. QED  BY <1>1, <1>2, Zenon DEF WritePage

LEMMA SetAttrKeeps ==
  ASSUME Contents, NEW b, SetAttr(b), UNCHANGED rx
  PROVE  Kept
<1>. DEFINE idx   == rx[1]
            page  == AttrAddress(idx) \div PageSize
            start == (idx % (PageSize \div AttrSize)) * AttrSize
            next  == AsSeq(Patched(flash[page], start, Tail(rx)))
<1>1. CASE AttrArgs /\ idx < NumAttributes /\ Erase(page, next)
  <2>1. rx \in Seq(Byte) /\ flash \in [AllPages -> Page]
    BY DEF Contents, Received, FlashTypes
  <2>2. Len(rx) >= 2
    BY <1>1, SizesAre DEF AttrArgs
  <2>3. idx \in Nat /\ Tail(rx) \in Seq(Byte)
    BY <2>1, <2>2, ByteIs
  <2>4. page \in Touchable
    BY <1>1, <2>3, AttributePage DEF Touchable
  <2>5. flash[page] \in Page
    BY <2>1, <2>4, TouchableInFlash
  <2>6. start \in Nat
    <3>1. AttrSize \in Nat \ {0}
      BY SizesAre DEF AttrSize
    <3>. HIDE DEF AttrSize
    <3>2. PageSize \div AttrSize \in Nat \ {0}
      <4>1. PageSize % AttrSize = 0
        BY LegacyLayoutAssumption
      <4>2. /\ PageSize \div AttrSize \in Nat
            /\ PageSize = AttrSize * (PageSize \div AttrSize) + (PageSize % AttrSize)
        BY <3>1, SizesAre, Quotient, Zenon
      <4>3. PageSize \div AttrSize # 0
        BY <3>1, <4>1, <4>2, SizesAre
      <4>. QED  BY <4>2, <4>3
    <3>3. idx % (PageSize \div AttrSize) \in Nat
      <4>. PICK d \in Nat \ {0} : d = PageSize \div AttrSize
        BY <3>2
      <4>1. idx % d \in Nat
        BY <2>3
      <4>. QED  BY <4>1
    <3>. QED  BY <3>1, <3>3
  <2>. HIDE DEF page, start, idx
  <2>7. next \in Seq(Byte)
    BY <2>3, <2>5, <2>6, PatchedType, AsSeqType, Zenon
  <2>. HIDE DEF next
  <2>. QED  BY <1>1, <2>4, <2>7, EraseKeeps, Zenon
<1>2. CASE Refuse(RES_BADARGS) \/ Refuse(RES_BADADDR)
  BY <1>2, RefuseKeeps, Zenon
<1>. QED  BY <1>1, <1>2, Zenon DEF SetAttr

LEMMA WriteUserKeeps ==
  ASSUME Contents, NEW b, WriteUser(b), UNCHANGED rx
  PROVE  Kept
<1>. DEFINE next == SubSeq(rx, 5, 8) \o SubSeq(rx, 1, 4)
<1>1. CASE Len(rx) = 8 /\ Erase(UserPage, next)
  <2>1. rx \in Seq(Byte)
    BY DEF Contents, Received
  <2>2. SubSeq(rx, 5, 8) \in Seq(Byte) /\ SubSeq(rx, 1, 4) \in Seq(Byte)
    BY <1>1, <2>1
  <2>3. next \in Seq(Byte)
    BY <2>2
  <2>4. UserPage \in Touchable
    BY DEF Touchable
  <2>. HIDE DEF next
  <2>. QED  BY <1>1, <2>3, <2>4, EraseKeeps, Zenon
<1>2. CASE Refuse(RES_BADARGS)
  BY <1>2, RefuseKeeps, Zenon
<1>. QED  BY <1>1, <1>2, Zenon DEF WriteUser

LEMMA ReadRangeKeeps ==
  ASSUME Contents, NEW b, ReadRange(b), UNCHANGED rx
  PROVE  Kept
<1>1. CASE job' = Fault /\ UNCHANGED <<baudVars, flashVars>>
  <2>1. rx' \in Seq(Byte) /\ Len(rx') <= RXBUFSZ
    BY DEF Contents, Received
  <2>2. BaudTypes'
    BY <1>1 DEF Contents, BaudTypes, baudVars
  <2>3. FlashTypes'
    BY <1>1 DEF Contents, FlashTypes, flashVars
  <2>4. JobTypes'
    BY <1>1 DEF JobTypes
  <2>. QED  BY <2>1, <2>2, <2>3, <2>4 DEF Kept
<1>2. CASE \E code, dat : Answer(code, dat)
  BY <1>2, AnswerKeeps, Zenon
<1>3. CASE \E code : Refuse(code)
  BY <1>3, RefuseKeeps, Zenon
<1>. QED  BY <1>1, <1>2, <1>3, Zenon DEF ReadRange

LEMMA ChangeBaudKeeps ==
  ASSUME Contents, NEW b, ChangeBaud(b), UNCHANGED rx
  PROVE  Kept
<1>. DEFINE new     == Len(rx) = 5 /\ rx[1] = CHANGE_BAUD_SUBCMD_NEW
            confirm == Len(rx) = 10 /\ rx[6] = CHANGE_BAUD_SUBCMD_CONFIRM
            right   == confirm /\ _rx_u32(rx, 6) = baudrate
            rate    == _rx_u32(rx, 1)
<1>1. new_baud_rate \in 0 .. Word - 1
  BY DEF Contents, BaudTypes
<1>2. CASE new /\ ChangeState("CHANGING", rate, RES_OK)
  <2>1. 1 \in Nat /\ 1 + 4 <= Len(rx) /\ rx \in Seq(Byte)
    BY <1>2 DEF Contents, Received
  <2>2. rate \in 0 .. Word - 1
    BY <2>1, WordType
  <2>. HIDE DEF rate, new
  <2>3. "CHANGING" \in {"IDLE", "CHANGING", "RESETTING"}
    OBVIOUS
  <2>. QED  BY <1>2, <2>2, <2>3, ChangeStateKeeps, Zenon
<1>3. CASE \/ ChangeState("IDLE", new_baud_rate, RES_OK)
           \/ ChangeState("RESETTING", new_baud_rate, RES_CHANGE_BAUD_FAIL)
  <2>1. {"IDLE", "RESETTING"} \subseteq {"IDLE", "CHANGING", "RESETTING"}
    OBVIOUS
  <2>. QED  BY <1>1, <1>3, <2>1, ChangeStateKeeps, Zenon
<1>4. CASE \E code : Refuse(code)
  BY <1>4, RefuseKeeps, Zenon
<1>. QED  BY <1>2, <1>3, <1>4, Zenon DEF ChangeBaud

LEMMA CommandKeeps ==
  ASSUME Contents, NEW b, Command(b)
  PROVE  Kept
<1>1. CASE /\ Waiting /\ b # CMD_CHANGE_BAUD
           /\ ChangeState("RESETTING", new_baud_rate, RES_CHANGE_BAUD_FAIL)
           /\ UNCHANGED rx
  <2>1. new_baud_rate \in 0 .. Word - 1
    BY DEF Contents, BaudTypes
  <2>2. "RESETTING" \in {"IDLE", "CHANGING", "RESETTING"}
    OBVIOUS
  <2>. QED  BY <1>1, <2>1, <2>2, ChangeStateKeeps, Zenon
<1>2. CASE Reset(b)
  <2>1. UNCHANGED baudVars /\ UNCHANGED flashVars /\ UNCHANGED job /\ rx' = <<>>
    BY <1>2 DEF Reset
  <2>2. rx' \in Seq(Byte) /\ Len(rx') <= RXBUFSZ
    BY <2>1, SizesAre
  <2>3. BaudTypes'
    BY <2>1 DEF Contents, BaudTypes, baudVars
  <2>4. FlashTypes'
    BY <2>1 DEF Contents, FlashTypes, flashVars
  <2>5. JobTypes'
    BY <2>1 DEF Contents, JobTypes
  <2>. QED  BY <2>2, <2>3, <2>4, <2>5 DEF Kept
<1>3. CASE /\ \/ Ping(b) \/ Info(b) \/ CrcRx(b) \/ GetAttr(b)
              \/ CrcIntFlash(b) \/ Unknown(b)
           /\ UNCHANGED rx
  <2>1. (\E code, dat : Answer(code, dat)) \/ (\E code : Refuse(code))
    BY <1>3, Zenon DEF Ping, Info, CrcRx, GetAttr, CrcIntFlash, Unknown
  <2>. QED  BY <1>3, <2>1, AnswerKeeps, RefuseKeeps, Zenon
<1>4. CASE Id(b) /\ UNCHANGED rx
  BY <1>4, UnchangedKeeps DEF Id
<1>5. CASE /\ \/ ErasePage(b) \/ WritePage(b) \/ ReadRange(b) \/ SetAttr(b)
              \/ WriteUser(b) \/ ChangeBaud(b)
           /\ UNCHANGED rx
  BY <1>5, ErasePageKeeps, WritePageKeeps, ReadRangeKeeps, SetAttrKeeps,
     WriteUserKeeps, ChangeBaudKeeps, Zenon
<1>. QED  BY <1>1, <1>2, <1>3, <1>4, <1>5, Zenon DEF Command

-----------------------------------------------------------------------------
(* The other steps.                                                         *)

LEMMA ReceiveContents ==
  ASSUME Contents, Receive
  PROVE  Contents'
<1>. DEFINE b == Head(rhr)
<1>1. rhr \in Seq(Byte) /\ rhr # <<>> /\ b \in Byte
  BY DEF Receive, Contents, Received
<1>2. HostTypes'
  BY DEF Receive, Contents, HostTypes, hostVars, askVars
<1>3. rhr' = <<>>
  BY DEF Receive
<1>4. Kept /\ byte_escape' \in BOOLEAN
  <2>1. byte_escape \in BOOLEAN
    BY DEF Contents, Received
  <2>2. CASE UNCHANGED <<rx, baudVars, flashVars, job>> /\ byte_escape' = byte_escape
    BY <2>1, <2>2, UnchangedKeeps, Zenon
  <2>3. CASE UNCHANGED <<rx, baudVars, flashVars, job>> /\ byte_escape' = TRUE
    BY <2>3, UnchangedKeeps, Zenon
  <2>4. CASE (\E c : Command(c)) /\ byte_escape' \in {FALSE, byte_escape}
    BY <2>1, <2>4, CommandKeeps, Zenon
  <2>5. CASE Keep(b) /\ ~Full /\ byte_escape' \in {FALSE, byte_escape}
    <3>1. UNCHANGED baudVars /\ UNCHANGED flashVars /\ UNCHANGED job /\ rx' = Append(rx, b)
      BY <2>5 DEF Keep
    <3>2. rx' \in Seq(Byte) /\ Len(rx') <= RXBUFSZ
      <4>1. rx \in Seq(Byte) /\ Len(rx) < RXBUFSZ
        BY <2>5, SizesAre DEF Full, Contents, Received
      <4>. HIDE DEF b
      <4>. QED  BY <1>1, <3>1, <4>1, SizesAre
    <3>3. BaudTypes'
      BY <3>1 DEF Contents, BaudTypes, baudVars
    <3>4. FlashTypes'
      BY <3>1 DEF Contents, FlashTypes, flashVars
    <3>5. JobTypes'
      BY <3>1 DEF Contents, JobTypes
    <3>6. byte_escape' \in BOOLEAN
      BY <2>1, <2>5, Zenon
    <3>. QED  BY <3>2, <3>3, <3>4, <3>5, <3>6 DEF Kept
  <2>. QED  BY <2>2, <2>3, <2>4, <2>5, Zenon DEF Receive, rxVars
<1>. QED  BY <1>2, <1>3, <1>4 DEF Kept, Contents, Received

LEMMA LineContents ==
  ASSUME Contents, Transmit \/ StartDrain
  PROVE  Contents'
<1>1. /\ UNCHANGED rxVars /\ UNCHANGED rhr /\ UNCHANGED baudVars
      /\ UNCHANGED flashVars /\ UNCHANGED hostVars
  BY DEF Transmit, StartDrain, lineVars
<1>2. Received'
  <2>1. byte_escape' = byte_escape /\ rx' = rx /\ rhr' = rhr
    BY <1>1 DEF rxVars
  <2>. QED  BY <2>1, Zenon DEF Contents, Received
<1>3. HostTypes'
  BY <1>1 DEF Contents, HostTypes, hostVars, askVars
<1>4. BaudTypes'
  BY <1>1 DEF Contents, BaudTypes, baudVars
<1>5. FlashTypes'
  BY <1>1 DEF Contents, FlashTypes, flashVars
<1>6. job' = job \/ job' = Drain
  BY DEF Transmit, StartDrain
<1>7. JobTypes'
  BY <1>6 DEF Contents, JobTypes
<1>. QED  BY <1>2, <1>3, <1>4, <1>5, <1>7 DEF Contents

LEMMA SwitchRateContents ==
  ASSUME Contents, SwitchRate
  PROVE  Contents'
<1>1. /\ UNCHANGED rxVars /\ UNCHANGED flashVars /\ UNCHANGED hostVars
      /\ rhr' = <<>> /\ job' = None
  BY DEF SwitchRate
<1>2. Received'
  <2>1. byte_escape' = byte_escape /\ rx' = rx
    BY <1>1 DEF rxVars
  <2>2. rhr' \in Seq(Byte) /\ Len(rhr') <= 1
    BY <1>1
  <2>. QED  BY <2>1, <2>2, Zenon DEF Contents, Received
<1>3. HostTypes'
  BY <1>1 DEF Contents, HostTypes, hostVars, askVars
<1>4. BaudTypes'
  BY WordIs DEF Contents, BaudTypes, SwitchRate, ChangeRate, ResetRate, Use
<1>5. FlashTypes'
  BY <1>1 DEF Contents, FlashTypes, flashVars
<1>6. JobTypes'
  BY <1>1 DEF JobTypes
<1>. QED  BY <1>2, <1>3, <1>4, <1>5, <1>6 DEF Contents

LEMMA ControllerContents ==
  ASSUME Contents, EraseDone \/ EraseFails \/ WriteDone
  PROVE  Contents'
<1>1. /\ UNCHANGED rxVars /\ UNCHANGED rhr /\ UNCHANGED baudVars
      /\ UNCHANGED askVars
  BY DEF EraseDone, EraseFails, WriteDone, lineVars, hostVars
<1>2. Received'
  <2>1. byte_escape' = byte_escape /\ rx' = rx /\ rhr' = rhr
    BY <1>1 DEF rxVars
  <2>. QED  BY <2>1, Zenon DEF Contents, Received
<1>3. HostTypes'
  BY <1>1 DEF Contents, HostTypes, askVars
<1>4. BaudTypes'
  BY <1>1 DEF Contents, BaudTypes, baudVars
<1>5. FlashTypes' /\ JobTypes'
  <2>1. CASE EraseDone
    <3>1. PICK p \in Touchable, next \in Seq(Byte) :
            job = [kind |-> "erase", page |-> p, next |-> next]
      BY <2>1 DEF EraseDone, Contents, JobTypes, None, Drain, Fault
    <3>2. flash' \in [AllPages -> Page]
      BY <2>1, <3>1, TouchableInFlash, ErasedIsByte DEF EraseDone, Contents, FlashTypes
    <3>3. CASE UNCHANGED page_buffer /\ job' = None
      BY <3>2, <3>3 DEF Contents, FlashTypes, JobTypes
    <3>4. CASE /\ page_buffer' = Patched(clear_page_buffer, 0, job.next)
               /\ job' = [kind |-> "program", page |-> job.page]
      <4>1. page_buffer' \in Page
        <5>1. 0 \in Nat
          OBVIOUS
        <5>. QED  BY <3>1, <3>4, <5>1, ErasedIsByte, PatchedType DEF clear_page_buffer
      <4>2. job' = [kind |-> "program", page |-> p]
        BY <3>1, <3>4
      <4>. QED  BY <3>2, <4>1, <4>2 DEF FlashTypes, JobTypes
    <3>. QED  BY <2>1, <3>3, <3>4 DEF EraseDone
  <2>2. CASE EraseFails
    <3>1. UNCHANGED flashVars /\ job' = None
      BY <2>2 DEF EraseFails
    <3>. QED  BY <3>1 DEF Contents, FlashTypes, flashVars, JobTypes
  <2>3. CASE WriteDone
    <3>1. PICK p \in Touchable : job = [kind |-> "program", page |-> p]
      BY <2>3 DEF WriteDone, Contents, JobTypes, None, Drain, Fault
    <3>2. flash' \in [AllPages -> Page]
      BY <2>3, <3>1, TouchableInFlash DEF WriteDone, Contents, FlashTypes
    <3>. QED  BY <2>3, <3>2 DEF WriteDone, Contents, FlashTypes, JobTypes
  <2>. QED  BY <2>1, <2>2, <2>3
<1>. QED  BY <1>2, <1>3, <1>4, <1>5 DEF Contents

\* Programming that is cut leaves bytes of the old page and of the new one.
LEMMA CutType ==
  ASSUME NEW old \in Page, NEW new \in Page, NEW cut
  PROVE  CutAt(old, new, cut) \in Page
BY DEF CutAt, Page

LEMMA PowerCycleContents ==
  ASSUME Contents, PowerCycle
  PROVE  Contents'
<1>1. Received'
  <2>1. byte_escape' \in BOOLEAN
    BY Zenon DEF PowerCycle
  <2>2. rx' = <<>> /\ rhr' = <<>>
    BY DEF PowerCycle
  <2>. QED  BY <2>1, <2>2, SizesAre DEF Received
<1>2. HostTypes'
  <2>1. /\ sending' = <<>> /\ host_rate' = HomeRate /\ home' = HomeRate
        /\ request' = PingRequest
    BY DEF PowerCycle
  <2>2. IsRequest(request')
    BY <2>1, PingRequestType
  <2>. QED  BY <2>1, <2>2, HostAssumption, WordIs DEF HostTypes
<1>3. BaudTypes'
  <2>1. change_baud_state' = "IDLE" /\ new_baud_rate' = 0 /\ old_baud_rate' = 0
        /\ baudrate' = HomeRate
    BY DEF PowerCycle
  <2>. QED  BY <2>1, HostAssumption, WordIs DEF BaudTypes
<1>4. FlashTypes'
  <2>1. CASE flash' = flash
    BY <2>1 DEF PowerCycle, Contents, FlashTypes
  <2>2. ASSUME NEW cut,
               job.kind \in {"erase", "program"},
               flash' = [flash EXCEPT ![job.page] =
                          CutAt(@, IF job.kind = "erase" THEN NoData ELSE page_buffer, cut)]
        PROVE  FlashTypes'
    <3>1. job.page \in AllPages
      BY <2>2, TouchableInFlash DEF Contents, JobTypes, None, Drain, Fault
    <3>2. flash \in [AllPages -> Page] /\ page_buffer \in Page
      BY DEF Contents, FlashTypes
    <3>3. \A new \in Page : CutAt(flash[job.page], new, cut) \in Page
      BY <3>1, <3>2, CutType
    <3>4. flash' \in [AllPages -> Page]
      BY <2>2, <3>1, <3>2, <3>3, ErasedIsByte
    <3>5. page_buffer' = page_buffer
      BY DEF PowerCycle
    <3>. QED  BY <3>2, <3>4, <3>5 DEF FlashTypes
  <2>. QED  BY <2>1, <2>2 DEF PowerCycle
<1>5. JobTypes'
  BY DEF PowerCycle, JobTypes
<1>. QED  BY <1>1, <1>2, <1>3, <1>4, <1>5 DEF Contents

LEMMA HostKeeps ==
  ASSUME Contents, HostTypes',
         UNCHANGED <<rxVars, rhr, baudVars, flashVars, job>>
  PROVE  Contents'
<1>1. /\ UNCHANGED rxVars /\ UNCHANGED rhr /\ UNCHANGED baudVars
      /\ UNCHANGED flashVars /\ UNCHANGED job
  OBVIOUS
<1>2. Received'
  <2>1. byte_escape' = byte_escape /\ rx' = rx /\ rhr' = rhr
    BY <1>1 DEF rxVars
  <2>. QED  BY <2>1, Zenon DEF Contents, Received
<1>3. BaudTypes'
  BY <1>1 DEF Contents, BaudTypes, baudVars
<1>4. FlashTypes'
  BY <1>1 DEF Contents, FlashTypes, flashVars
<1>5. JobTypes'
  BY <1>1 DEF Contents, JobTypes
<1>. QED  BY <1>2, <1>3, <1>4, <1>5 DEF Contents

LEMMA AskKeeps ==
  ASSUME Contents, NEW r, IsRequest(r), NEW rate \in Nat, Ask(r, rate),
         home' \in Nat
  PROVE  Contents'
<1>1. HostTypes'
  <2>1. sending' = Frame(r) /\ request' = r /\ host_rate' = rate
    BY DEF Ask
  <2>2. Frame(r) \in Seq(Byte)
    BY FrameType
  <2>. QED  BY <2>1, <2>2, Zenon DEF HostTypes
<1>2. UNCHANGED <<rxVars, rhr, baudVars, flashVars, job>>
  BY DEF Ask, lineVars
<1>. QED  BY <1>1, <1>2, HostKeeps

LEMMA HostContents ==
  ASSUME Contents, NewRequest \/ NewRate \/ Confirm \/ KeepRate \/ Timeout
  PROVE  Contents'
<1>1. home \in Nat /\ IsRequest(request)
  BY DEF Contents, HostTypes
<1>2. CASE NewRequest
  <2>1. PICK r \in Requests : Ask(r, home)
    BY <1>2 DEF NewRequest
  <2>2. home' = home
    BY <1>2 DEF NewRequest
  <2>. QED  BY <1>1, <2>1, <2>2, HostAssumption, AskKeeps, Zenon
<1>3. CASE NewRate
  <2>1. PICK rate \in Rates : Ask(BaudRequest(rate), home)
    BY <1>3 DEF NewRate
  <2>2. home' = home
    BY <1>3 DEF NewRate
  <2>3. rate \in Nat
    BY HostAssumption
  <2>. QED  BY <1>1, <2>1, <2>2, <2>3, BaudRequestTypes, AskKeeps, Zenon
<1>4. CASE Confirm
  <2>1. PICK rate \in Rates : Ask(BaudConfirm(rate), rate)
    BY <1>4 DEF Confirm
  <2>2. home' = home
    BY <1>4 DEF Confirm
  <2>3. rate \in Nat
    BY HostAssumption
  <2>. QED  BY <1>1, <2>1, <2>2, <2>3, BaudRequestTypes, AskKeeps, Zenon
<1>5. CASE KeepRate
  <2>1. PICK rate \in Rates : home' = rate
    BY <1>5 DEF KeepRate
  <2>2. HostTypes'
    BY <1>5, <2>1, HostAssumption DEF KeepRate, Contents, HostTypes
  <2>. QED  BY <1>5, <2>2, HostKeeps DEF KeepRate, lineVars
<1>6. CASE Timeout
  <2>1. home' = home
    BY <1>6 DEF Timeout
  <2>2. Ask(PingRequest, home) \/ Ask(request, home)
    BY <1>6, Zenon DEF Timeout
  <2>. QED  BY <1>1, <2>1, <2>2, PingRequestType, AskKeeps, Zenon
<1>. QED  BY <1>2, <1>3, <1>4, <1>5, <1>6

LEMMA ByteContents ==
  ASSUME Contents, ByteArrives \/ NoiseArrives \/ ByteLost \/ HostReceives
  PROVE  Contents'
<1>1. UNCHANGED <<rxVars, baudVars, flashVars, job, host_rate, home, request>>
  BY DEF ByteArrives, NoiseArrives, ByteLost, HostReceives, ShiftOut
<1>2. sending \in Seq(Byte) /\ rhr \in Seq(Byte) /\ Len(rhr) <= 1
  BY DEF Contents, HostTypes, Received
<1>3. sending' \in Seq(Byte) /\ rhr' \in Seq(Byte) /\ Len(rhr') <= 1
  <2>1. CASE ByteArrives
    BY <1>2, <2>1 DEF ByteArrives
  <2>2. CASE NoiseArrives
    BY <1>2, <2>2, HostAssumption DEF NoiseArrives
  <2>3. CASE ByteLost
    BY <1>2, <2>3 DEF ByteLost
  <2>4. CASE HostReceives
    BY <1>2, <2>4 DEF HostReceives
  <2>. QED  BY <2>1, <2>2, <2>3, <2>4
<1>4. Received'
  <2>1. byte_escape' = byte_escape /\ rx' = rx
    BY <1>1 DEF rxVars
  <2>. QED  BY <1>3, <2>1, Zenon DEF Contents, Received
<1>5. HostTypes'
  BY <1>1, <1>3 DEF Contents, HostTypes
<1>6. BaudTypes'
  BY <1>1 DEF Contents, BaudTypes, baudVars
<1>7. FlashTypes'
  BY <1>1 DEF Contents, FlashTypes, flashVars
<1>8. JobTypes'
  BY <1>1 DEF Contents, JobTypes
<1>. QED  BY <1>4, <1>5, <1>6, <1>7, <1>8 DEF Contents

LEMMA StutterContents ==
  ASSUME Contents, UNCHANGED vars
  PROVE  Contents'
<1>1. UNCHANGED <<rxVars, rhr, baudVars, flashVars, job>> /\ UNCHANGED askVars
  BY DEF vars, lineVars, hostVars
<1>2. HostTypes'
  BY <1>1 DEF Contents, HostTypes, askVars
<1>. QED  BY <1>1, <1>2, HostKeeps

LEMMA NextContents ==
  ASSUME Contents, [Next]_vars
  PROVE  Contents'
BY ReceiveContents, LineContents, SwitchRateContents, ControllerContents,
   PowerCycleContents, HostContents, ByteContents, StutterContents, Zenon
DEF Next, Loop, Controller

LEMMA ContentsInvariant == Spec => []Contents
<1>1. Contents /\ [Next]_vars => Contents'
  BY NextContents
<1>. QED  BY ContentsInit, <1>1, PTL DEF Spec

-----------------------------------------------------------------------------
(* Flash.                                                                   *)

LEMMA JobPage ==
  ASSUME JobTypes, job.kind \in {"erase", "program"}
  PROVE  job.page \in Touchable
BY DEF JobTypes, None, Drain, Fault

\* The page that the controller works on is the only one that a step changes.
LEMMA OnlyJobPage ==
  ASSUME Contents, [Next]_vars
  PROVE  \/ flash' = flash
         \/ /\ job.kind \in {"erase", "program"}
            /\ \E page : flash' = [flash EXCEPT ![job.page] = page]
<1>1. CASE EraseDone \/ WriteDone
  BY <1>1 DEF EraseDone, WriteDone
<1>2. CASE PowerCycle
  BY <1>2 DEF PowerCycle
<1>3. CASE Receive
  <2>1. CASE \E b : Command(b)
    <3>. PICK b : Command(b)
      BY <2>1
    <3>. QED
      BY Zenon DEF Command, ChangeState, Reset, Ping, Info, Id, ErasePage, WritePage,
             CrcRx, ReadRange, SetAttr, GetAttr, CrcIntFlash, WriteUser,
             ChangeBaud, Unknown, Refuse, Answer, Erase, flashVars
  <2>2. CASE UNCHANGED flashVars
    BY <2>2 DEF flashVars
  <2>. QED  BY <1>3, <2>1, <2>2, Zenon DEF Receive, Keep
<1>4. CASE Transmit \/ StartDrain \/ SwitchRate \/ EraseFails
  BY <1>4 DEF Transmit, StartDrain, SwitchRate, EraseFails, flashVars
<1>5. CASE NewRequest \/ NewRate \/ Confirm \/ KeepRate \/ Timeout
  <2>1. CASE \E r, rate : Ask(r, rate)
    BY <2>1 DEF Ask, flashVars
  <2>2. CASE KeepRate
    BY <2>2 DEF KeepRate, flashVars
  <2>. QED  BY <1>5, <2>1, <2>2, Zenon DEF NewRequest, NewRate, Confirm, Timeout
<1>6. CASE ByteArrives \/ NoiseArrives \/ ByteLost \/ HostReceives
  BY <1>6 DEF ByteArrives, NoiseArrives, ByteLost, HostReceives, ShiftOut, flashVars
<1>7. CASE UNCHANGED vars
  BY <1>7 DEF vars, flashVars
<1>. QED  BY <1>1, <1>2, <1>3, <1>4, <1>5, <1>6, <1>7 DEF Next, Loop, Controller

\* No command, whatever was left in the receive buffer for it to read, and no
\* power failure changes a page of flash below the application but the
\* attributes': the checks of addresses in bl_c_epage, bl_c_wpage and bl_c_sattr
\* (bl_commands.c:117, :152, :238) suffice.
THEOREM BootloaderIsSafe == Spec => BootloaderSafe
<1>1. Contents /\ [Next]_vars =>
        \A p \in AllPages :
          flash'[p] # flash[p] => p \in WritablePages \cup AttributePages \cup {UserPage}
  <2>. SUFFICES ASSUME Contents, [Next]_vars,
                       NEW p \in AllPages, flash'[p] # flash[p]
                PROVE  p \in Touchable
    BY DEF Touchable
  <2>1. PICK page : /\ job.kind \in {"erase", "program"}
                    /\ flash' = [flash EXCEPT ![job.page] = page]
    BY OnlyJobPage
  <2>2. p = job.page
    BY <2>1 DEF Contents, FlashTypes
  <2>. QED  BY <2>1, <2>2, JobPage DEF Contents
<1>2. Contents /\ [Next]_vars => [\A p \in AllPages :
          flash'[p] # flash[p] => p \in WritablePages \cup AttributePages \cup {UserPage}]_vars
  BY <1>1
<1>. QED  BY ContentsInvariant, <1>2, PTL DEF Spec, BootloaderSafe

-----------------------------------------------------------------------------
(* The baud rate.                                                           *)

\* The USART is configured for the rate the program believes in.  Before a
\* switch that rate is valid; afterwards the one to go back to is.  At a rate that
\* is not, no CHANGE_BAUD can be received.
RateInv ==
  /\ usart = usart_init_rs232(baudrate)
  /\ change_baud_state \in {"IDLE", "CHANGING"} => InRange(baudrate)
  /\ change_baud_state \in {"WAITING_CONFIRMATION", "RESETTING"} => InRange(old_baud_rate)
  /\ ~InRange(baudrate) => rhr # <<CMD_CHANGE_BAUD>>

LEMMA Configured ==
  ASSUME NEW rate, InRange(rate)
  PROVE  usart_init_rs232(rate) # Misframed
BY DEF usart_init_rs232, Misframed, Over

LEMMA RateInit == Init => RateInv
<1>. SUFFICES ASSUME Init PROVE RateInv
  OBVIOUS
<1>1. rhr = <<>> /\ change_baud_state = "IDLE" /\ baudrate = HomeRate
      /\ usart = usart_init_rs232(HomeRate)
  BY DEF Init
<1>. QED  BY <1>1, HostAssumption DEF RateInv

\* What a command does to the rates.
LEMMA CommandRate ==
  ASSUME NEW b, Command(b), Contents
  PROVE  /\ baudrate' = baudrate /\ old_baud_rate' = old_baud_rate
         /\ \/ change_baud_state' = change_baud_state
            \/ change_baud_state = "IDLE" /\ change_baud_state' = "CHANGING"
            \/ Waiting /\ change_baud_state' = "RESETTING"
            \/ Waiting /\ change_baud_state' = "IDLE" /\ b = CMD_CHANGE_BAUD
<1>1. CASE /\ Waiting
           /\ ChangeState("RESETTING", new_baud_rate, RES_CHANGE_BAUD_FAIL)
  BY <1>1 DEF ChangeState
<1>2. CASE Reset(b)
  BY <1>2 DEF Reset, baudVars
<1>3. CASE \/ Ping(b) \/ Info(b) \/ Id(b) \/ ErasePage(b) \/ WritePage(b)
           \/ CrcRx(b) \/ ReadRange(b) \/ SetAttr(b) \/ GetAttr(b)
           \/ CrcIntFlash(b) \/ WriteUser(b) \/ Unknown(b)
  <2>1. UNCHANGED baudVars
    BY <1>3, Zenon DEF Ping, Info, Id, ErasePage, WritePage, CrcRx, ReadRange,
         SetAttr, GetAttr, CrcIntFlash, WriteUser, Unknown, Refuse, Answer, Erase
  <2>. QED  BY <2>1 DEF baudVars
<1>4. CASE ChangeBaud(b)
  <2>1. b = CMD_CHANGE_BAUD
    BY <1>4 DEF ChangeBaud
  <2>2. CASE \E code : Refuse(code)
    BY <2>2 DEF Refuse, Answer, baudVars
  <2>3. CASE /\ change_baud_state = "IDLE"
             /\ \E rate : ChangeState("CHANGING", rate, RES_OK)
    BY <2>3 DEF ChangeState
  <2>4. CASE Waiting /\ \E rate, code : \/ ChangeState("IDLE", rate, code)
                                        \/ ChangeState("RESETTING", rate, code)
    BY <2>1, <2>4 DEF ChangeState
  <2>. QED  BY <1>4, <2>2, <2>3, <2>4, Zenon DEF ChangeBaud
<1>. QED  BY <1>1, <1>2, <1>3, <1>4, Zenon DEF Command

LEMMA ReceiveRate ==
  ASSUME Contents, RateInv, Receive
  PROVE  RateInv'
<1>1. rhr \in Seq(Byte) /\ rhr # <<>> /\ Len(rhr) <= 1 /\ rhr' = <<>> /\ usart' = usart
  BY DEF Receive, Contents, Received
<1>2. rhr = <<Head(rhr)>>
  BY <1>1
<1>3. CASE UNCHANGED baudVars
  BY <1>1, <1>3 DEF RateInv, baudVars
<1>4. ASSUME NEW b \in {0, Head(rhr)}, Command(b)
      PROVE  RateInv'
  <2>1. CASE change_baud_state' = change_baud_state
    BY <1>1, <1>4, <2>1, CommandRate DEF RateInv
  <2>2. CASE change_baud_state = "IDLE" /\ change_baud_state' = "CHANGING"
    BY <1>1, <1>4, <2>2, CommandRate DEF RateInv
  <2>3. CASE Waiting /\ change_baud_state' = "RESETTING"
    BY <1>1, <1>4, <2>3, CommandRate DEF RateInv, Waiting
  <2>4. CASE Waiting /\ change_baud_state' = "IDLE" /\ b = CMD_CHANGE_BAUD
    <3>1. b = Head(rhr)
      BY <2>4 DEF CMD_CHANGE_BAUD
    <3>2. InRange(baudrate)
      BY <1>2, <2>4, <3>1 DEF RateInv
    <3>. QED  BY <1>1, <1>4, <2>4, <3>2, CommandRate DEF RateInv
  <2>. QED  BY <1>4, <2>1, <2>2, <2>3, <2>4, CommandRate, Zenon
<1>5. UNCHANGED baudVars \/ \E b \in {0, Head(rhr)} : Command(b)
  BY Zenon DEF Receive, Keep
<1>. QED  BY <1>3, <1>4, <1>5

LEMMA SwitchRateRate ==
  ASSUME RateInv, SwitchRate
  PROVE  RateInv'
<1>1. rhr' = <<>>
  BY DEF SwitchRate
<1>2. CASE /\ change_baud_state = "CHANGING" /\ ChangeRate
           /\ change_baud_state' = "WAITING_CONFIRMATION"
  BY <1>1, <1>2 DEF RateInv, ChangeRate, Use
<1>3. CASE /\ change_baud_state = "RESETTING" /\ ResetRate
           /\ change_baud_state' = "IDLE"
  BY <1>1, <1>3 DEF RateInv, ResetRate, Use
<1>. QED  BY <1>2, <1>3 DEF SwitchRate

LEMMA NextRate ==
  ASSUME CMD_CHANGE_BAUD \notin Noise, Contents, RateInv, [Next]_vars
  PROVE  RateInv'
<1>1. CASE Receive
  BY <1>1, ReceiveRate
<1>2. CASE SwitchRate
  BY <1>2, SwitchRateRate
<1>3. CASE UNCHANGED <<baudVars, usart, rhr>>
  BY <1>3 DEF RateInv, baudVars
<1>4. CASE PowerCycle
  <2>1. /\ rhr' = <<>> /\ change_baud_state' = "IDLE" /\ baudrate' = HomeRate
        /\ usart' = usart_init_rs232(HomeRate)
    BY <1>4 DEF PowerCycle
  <2>. QED  BY <2>1, HostAssumption DEF RateInv
<1>5. CASE ByteArrives
  <2>1. InRange(baudrate)
    <3>1. usart # Misframed
      BY <1>5 DEF ByteArrives, Compatible, Misframed
    <3>. QED  BY <3>1 DEF RateInv, usart_init_rs232
  <2>2. UNCHANGED <<baudVars, usart>>
    BY <1>5 DEF ByteArrives, ShiftOut
  <2>. QED  BY <2>1, <2>2 DEF RateInv, baudVars
<1>6. CASE NoiseArrives
  <2>1. PICK n \in Noise : rhr' = <<n>>
    BY <1>6 DEF NoiseArrives
  <2>2. rhr' # <<CMD_CHANGE_BAUD>>
    BY <2>1
  <2>3. UNCHANGED <<baudVars, usart>>
    BY <1>6 DEF NoiseArrives, ShiftOut
  <2>. QED  BY <2>2, <2>3 DEF RateInv, baudVars
<1>7. CASE Transmit \/ StartDrain \/ EraseDone \/ EraseFails \/ WriteDone
  <2>1. UNCHANGED <<baudVars, usart, rhr>>
    BY <1>7 DEF Transmit, StartDrain, EraseDone, EraseFails, WriteDone, lineVars
  <2>. QED  BY <1>3, <2>1
<1>8. CASE NewRequest \/ NewRate \/ Confirm \/ KeepRate \/ Timeout
  <2>1. CASE \E r, rate : Ask(r, rate)
    <3>1. UNCHANGED <<baudVars, usart, rhr>>
      BY <2>1 DEF Ask, lineVars
    <3>. QED  BY <1>3, <3>1
  <2>2. CASE KeepRate
    <3>1. UNCHANGED <<baudVars, usart, rhr>>
      BY <2>2 DEF KeepRate, lineVars
    <3>. QED  BY <1>3, <3>1
  <2>. QED  BY <1>8, <2>1, <2>2, Zenon DEF NewRequest, NewRate, Confirm, Timeout
<1>9. CASE ByteLost \/ HostReceives
  <2>1. UNCHANGED <<baudVars, usart, rhr>>
    BY <1>9 DEF ByteLost, HostReceives, ShiftOut
  <2>. QED  BY <1>3, <2>1
<1>10. CASE UNCHANGED vars
  <2>1. UNCHANGED <<baudVars, usart, rhr>>
    BY <1>10 DEF vars, lineVars
  <2>. QED  BY <1>3, <2>1
<1>. QED  BY <1>1, <1>2, <1>4, <1>5, <1>6, <1>7, <1>8, <1>9, <1>10, Zenon
          DEF Next, Loop, Controller

\* The USART never stays at a rate it cannot have, nor at one that the program
\* does not know of, whatever rates are asked for, refused, confirmed or given up
\* (bootloader.c:79-102), as long as what is received at the wrong rate does not
\* itself contain a CHANGE_BAUD: a confirmation by noise is as good as one.
THEOREM RateIsKept ==
  ASSUME CMD_CHANGE_BAUD \notin Noise
  PROVE  Spec => []RateKept
<1>1. Contents /\ RateInv /\ [Next]_vars => RateInv'
  BY NextRate
<1>2. RateInv => RateKept
  BY Configured DEF RateInv, RateKept
<1>. QED  BY ContentsInvariant, RateInit, <1>1, <1>2, PTL DEF Spec

-----------------------------------------------------------------------------
(* Replies.                                                                 *)

Reply == {s \in Seq(Byte) : Len(s) <= TXBUFSZ}

LEMMA CatStepType ==
  ASSUME NEW s \in Reply, NEW b \in Byte
  PROVE  CatStep(s, b) \in Reply
<1>1. CASE Len(s) < TXBUFSZ - 1
  <2>1. Stuffed(b) \in Seq(Byte) /\ Len(Stuffed(b)) <= 2
    BY StuffedType
  <2>2. s \o Stuffed(b) \in Seq(Byte) /\ Len(s \o Stuffed(b)) = Len(s) + Len(Stuffed(b))
    BY <2>1, ConcatProperties DEF Reply
  <2>3. Len(s) \in Nat /\ Len(Stuffed(b)) \in Nat
    BY <2>1 DEF Reply
  <2>4. Len(s \o Stuffed(b)) <= TXBUFSZ
    BY <1>1, <2>1, <2>2, <2>3, SizesAre
  <2>. QED  BY <1>1, <2>2, <2>4 DEF CatStep, Reply
<1>2. CASE ~(Len(s) < TXBUFSZ - 1)
  BY <1>2 DEF CatStep
<1>. QED  BY <1>1, <1>2

\* The replies that adding the first n bytes goes through.
IsCatRun(f, s, dat, n) ==
  f = [i \in 0 .. n |-> IF i = 0 THEN s ELSE CatStep(f[i - 1], dat[i])]

LEMMA CatRunExists ==
  ASSUME NEW s, NEW dat, NEW n \in Nat
  PROVE  \E f : IsCatRun(f, s, dat, n)
<1>. DEFINE T == {m \in Nat : \E f : IsCatRun(f, s, dat, m)}
<1>1. 0 \in T
  <2>. DEFINE f == [i \in 0 .. 0 |-> s]
  <2>1. f = [i \in 0 .. 0 |-> IF i = 0 THEN s ELSE CatStep(f[i - 1], dat[i])]
    OBVIOUS
  <2>. QED  BY <2>1 DEF IsCatRun
<1>2. ASSUME NEW m \in 0 .. n - 1, m \in T
      PROVE  m + 1 \in T
  <2>1. PICK f : IsCatRun(f, s, dat, m)
    BY <1>2
  <2>. DEFINE g == [i \in 0 .. m + 1 |-> IF i <= m THEN f[i]
                                        ELSE CatStep(f[m], dat[m + 1])]
  <2>2. ASSUME NEW i \in 0 .. m + 1
        PROVE  g[i] = IF i = 0 THEN s ELSE CatStep(g[i - 1], dat[i])
    <3>1. CASE i <= m
      BY <2>1, <3>1 DEF IsCatRun
    <3>2. CASE i = m + 1
      <4>1. g[i] = CatStep(f[m], dat[m + 1]) /\ g[i - 1] = f[m] /\ i # 0
        BY <3>2
      <4>. QED  BY <3>2, <4>1
    <3>. QED  BY <3>1, <3>2
  <2>3. IsCatRun(g, s, dat, m + 1)
    BY <2>2 DEF IsCatRun
  <2>. QED  BY <2>3
<1>. HIDE DEF T
<1>3. n \in T
  BY <1>1, <1>2, Induction
<1>. QED  BY <1>3 DEF T

\* The transmit buffer holds whatever is put into a reply, however long.
LEMMA CatType ==
  ASSUME NEW s \in Reply, NEW dat \in Seq(Byte)
  PROVE  _escape_cat(s, dat) \in Reply
<1>. DEFINE n == Len(dat)
            f == CHOOSE g : IsCatRun(g, s, dat, n)
            T == {i \in Nat : f[i] \in Reply}
<1>1. n \in Nat
  OBVIOUS
<1>2. IsCatRun(f, s, dat, n)
  BY <1>1, CatRunExists
<1>3. _escape_cat(s, dat) = f[n]
  BY DEF _escape_cat, IsCatRun
<1>. HIDE DEF f
<1>4. 0 \in T
  BY <1>1, <1>2 DEF IsCatRun
<1>5. ASSUME NEW i \in 0 .. n - 1, i \in T
      PROVE  i + 1 \in T
  <2>1. i + 1 \in 0 .. n /\ i + 1 # 0 /\ (i + 1) - 1 = i
    BY <1>1
  <2>2. f[i + 1] = CatStep(f[i], dat[i + 1])
    BY <1>2, <2>1 DEF IsCatRun
  <2>3. dat[i + 1] \in Byte
    BY <2>1
  <2>. QED  BY <1>5, <2>2, <2>3, CatStepType
<1>. HIDE DEF T, n
<1>6. 0 .. n \subseteq T
  BY <1>1, <1>4, <1>5, Induction
<1>7. n \in T
  BY <1>1, <1>6
<1>. QED  BY <1>3, <1>7 DEF T

LEMMA ReplyType ==
  ASSUME NEW dat \in Seq(Byte), NEW code \in Byte
  PROVE  _escape_set(dat, code) \in Reply
<1>1. <<ESCAPE_CHAR, code>> \in Reply
  BY ErasedIsByte, SizesAre DEF Reply
<1>. QED  BY <1>1, CatType DEF _escape_set

ReplyCodes == {RES_OVERFLOW, RES_PONG, RES_BADADDR, RES_INTERROR, RES_BADARGS,
               RES_OK, RES_UNKNOWN, RES_CRCRX, RES_RRANGE, RES_GATTR, RES_CRCIF,
               RES_INFO, RES_CHANGE_BAUD_FAIL}

LEMMA ReplyCodesAreBytes == ReplyCodes \subseteq Byte
BY ByteIs DEF ReplyCodes, RES_OVERFLOW, RES_PONG, RES_BADADDR, RES_INTERROR,
              RES_BADARGS, RES_OK, RES_UNKNOWN, RES_CRCRX, RES_RRANGE, RES_GATTR,
              RES_CRCIF, RES_INFO, RES_CHANGE_BAUD_FAIL

-----------------------------------------------------------------------------
(* What is read from memory.                                                *)

LEMMA MemoryType ==
  ASSUME NEW mem \in [AllPages -> Page], NEW a \in Nat, NEW n \in Nat,
         a + n <= FlashSize
  PROVE  Memory(mem, a, n) \in Seq(Byte) /\ Len(Memory(mem, a, n)) = n
<1>1. ASSUME NEW i \in 1 .. n
      PROVE  mem[(a + i - 1) \div PageSize][(a + i - 1) % PageSize] \in Byte
  <2>. DEFINE at == a + i - 1
              p  == at \div PageSize
  <2>1. at \in Nat /\ at < FlashSize
    <3>1. FlashSize \in Nat
      BY SizeAssumption DEF FlashSize
    <3>. QED  BY <3>1
  <2>. HIDE DEF at
  <2>2. /\ p \in Nat /\ at % PageSize \in 0 .. PageSize - 1
        /\ at = PageSize * p + (at % PageSize)
    BY <2>1, SizesAre, Quotient, Zenon
  <2>. HIDE DEF p
  <2>3. p * PageSize < NumPages * PageSize
    <3>1. NumPages * PageSize \in Nat /\ p * PageSize \in Nat /\ PageSize * p = p * PageSize
      BY <2>2, SizesAre
    <3>. PICK rest \in 0 .. PageSize - 1 : rest = at % PageSize
      BY <2>2
    <3>. QED  BY <2>1, <2>2, <3>1, SizesAre DEF FlashSize
  <2>4. p < NumPages
    BY <2>2, <2>3, SizesAre, Below
  <2>5. p \in AllPages /\ at % PageSize \in Offsets
    BY <2>2, <2>4, SizesAre DEF AllPages, Offsets
  <2>6. mem[p][at % PageSize] \in Byte
    BY <2>5 DEF Page
  <2>. QED  BY <2>6 DEF p, at
<1>. QED  BY <1>1 DEF Memory

LEMMA AttributeInFlash ==
  ASSUME NEW idx \in Nat, idx < NumAttributes
  PROVE  /\ AttrAddress(idx) \in Nat /\ AttrSize \in Nat
         /\ AttrAddress(idx) + AttrSize <= FlashSize
<1>1. AttrSize \in Nat /\ NumAttributes \in Nat
  BY SizeAssumption, LegacyLayoutAssumption DEF AttrSize
<1>2. (idx + 1) * AttrSize <= NumAttributes * AttrSize
  BY <1>1
<1>3. /\ (idx + 1) * AttrSize = idx * AttrSize + AttrSize /\ idx * AttrSize \in Nat
      /\ NumAttributes * AttrSize \in Nat
  BY <1>1
<1>4. FlashSize \in Nat
  BY SizeAssumption DEF FlashSize
<1>. HIDE DEF AttrSize
<1>. QED  BY <1>1, <1>2, <1>3, <1>4, LegacyLayoutAssumption DEF AttrAddress

\* The version in flash is a string that ends within its bytes.
LEMMA InfoTextType ==
  ASSUME NEW mem \in [AllPages -> Page]
  PROVE  InfoText(mem) \in Seq(Byte) /\ Len(InfoText(mem)) <= VersionLen
<1>. DEFINE version == Memory(mem, VersionAt, VersionLen)
            ends == {i \in 1 .. VersionLen : \A j \in 1 .. i : version[j] # 0}
            T    == {i \in 1 .. VersionLen : version[i] = 0} \cup {VersionLen + 1}
<1>1. VersionAt \in Nat /\ VersionLen \in Nat /\ version \in Seq(Byte)
      /\ Len(version) = VersionLen
  BY SizeAssumption, MemoryType
<1>2. InfoText(mem) = [i \in ends |-> version[i]]
  BY DEF InfoText
<1>. HIDE DEF version
<1>3. PICK m \in T : \A k \in T : m <= k
  <2>1. T \subseteq Nat /\ T # {}
    BY <1>1
  <2>. HIDE DEF T
  <2>. QED  BY <2>1, LeastNat
<1>4. ends = 1 .. m - 1
  <2>1. ASSUME NEW i \in ends PROVE i \in 1 .. m - 1
    <3>1. i < m
      <4>. SUFFICES ASSUME m <= i PROVE FALSE
        BY <1>1
      <4>1. m \in 1 .. i /\ version[m] = 0
        BY <1>1
      <4>. QED  BY <4>1
    <3>. QED  BY <1>1, <3>1
  <2>2. ASSUME NEW i \in 1 .. m - 1 PROVE i \in ends
    <3>1. i \in 1 .. VersionLen
      BY <1>1
    <3>2. ASSUME NEW j \in 1 .. i PROVE version[j] # 0
      BY <1>1, <1>3, <3>1
    <3>. QED  BY <3>1, <3>2
  <2>. QED  BY <2>1, <2>2
<1>5. m - 1 \in Nat /\ m - 1 <= VersionLen
  BY <1>1
<1>. HIDE DEF ends, T
<1>6. InfoText(mem) = [i \in 1 .. m - 1 |-> version[i]]
  BY <1>2, <1>4
<1>7. \A i \in 1 .. m - 1 : version[i] \in Byte
  BY <1>1, <1>5
<1>. QED  BY <1>5, <1>6, <1>7

LEMMA InfoDataType ==
  ASSUME NEW mem \in [AllPages -> Page]
  PROVE  InfoData(mem) \in Seq(Byte) /\ Len(InfoData(mem)) = InfoLen + 1
<1>. DEFINE text == InfoText(mem)
            zeros == [i \in 1 .. InfoLen - Len(text) |-> 0]
<1>1. text \in Seq(Byte) /\ Len(text) <= VersionLen /\ Len(text) \in Nat
  BY InfoTextType
<1>2. InfoLen \in Nat /\ VersionLen <= InfoLen /\ VersionLen < ByteValues
      /\ VersionLen \in Nat
  BY SizeAssumption
<1>3. InfoData(mem) = <<Len(text)>> \o text \o zeros
  BY DEF InfoData
<1>. HIDE DEF text
<1>4. zeros \in Seq(Byte) /\ Len(zeros) = InfoLen - Len(text)
  <2>1. InfoLen - Len(text) \in Nat /\ 0 \in Byte
    BY <1>1, <1>2, ByteIs
  <2>. QED  BY <2>1
<1>5. <<Len(text)>> \in Seq(Byte)
  BY <1>1, <1>2, ByteIs
<1>. DEFINE first == <<Len(text)>>
<1>6. first \in Seq(Byte) /\ Len(first) = 1
  BY <1>5
<1>. HIDE DEF zeros, first
<1>7. first \o text \in Seq(Byte) /\ Len(first \o text) = 1 + Len(text)
  BY <1>1, <1>6, ConcatProperties
<1>8. /\ (first \o text) \o zeros \in Seq(Byte)
      /\ Len((first \o text) \o zeros) = Len(first \o text) + Len(zeros)
  BY <1>4, <1>7, ConcatProperties
<1>9. Len((first \o text) \o zeros) = InfoLen + 1
  BY <1>1, <1>2, <1>4, <1>7, <1>8
<1>. QED  BY <1>3, <1>8, <1>9 DEF first

-----------------------------------------------------------------------------
(* What is sent.                                                            *)

\* A CRC is a string of four bytes.
CrcBytes == \A s \in Seq(Byte) : crc32(s) \in Seq(Byte) /\ Len(crc32(s)) = 4

Sent ==
  /\ tx \in Reply
  /\ shifter \in Seq(Byte) /\ Len(shifter) <= 2

LEMMA AnswerSends ==
  ASSUME NEW code \in ReplyCodes, NEW dat \in Seq(Byte), Answer(code, dat)
  PROVE  tx' \in Reply
<1>1. tx' = _escape_set(dat, code) /\ code \in Byte
  BY ReplyCodesAreBytes DEF Answer
<1>. QED  BY <1>1, ReplyType

LEMMA RefuseSends ==
  ASSUME NEW code \in ReplyCodes, Refuse(code)
  PROVE  tx' \in Reply
<1>1. <<>> \in Seq(Byte)
  OBVIOUS
<1>. QED  BY <1>1, AnswerSends DEF Refuse

LEMMA SaySends ==
  ASSUME NEW code \in ReplyCodes, Say(code)
  PROVE  tx' \in Reply
<1>1. <<>> \in Seq(Byte) /\ code \in Byte
  BY ReplyCodesAreBytes
<1>. QED  BY <1>1, ReplyType DEF Say

LEMMA CrcRxSends ==
  ASSUME CrcBytes, Contents, NEW b, CrcRx(b)
  PROVE  tx' \in Reply
<1>. DEFINE n   == Len(rx)
            dat == <<n % ByteValues, n \div ByteValues>> \o CrcOfRx
<1>1. rx \in Seq(Byte) /\ n \in Nat /\ n < ByteValues * ByteValues
  <2>1. rx \in Seq(Byte) /\ n <= RXBUFSZ /\ n \in Nat
    BY DEF Contents, Received
  <2>2. RXBUFSZ < ByteValues * ByteValues /\ ByteValues * ByteValues \in Nat
    BY SizeAssumption
  <2>. HIDE DEF n
  <2>. QED  BY <2>1, <2>2, SizesAre
<1>2. n % ByteValues \in Byte /\ n \div ByteValues \in Byte
  <2>. HIDE DEF n
  <2>1. ByteValues \in Nat \ {0}
    BY ByteIs
  <2>. DEFINE q == n \div ByteValues
  <2>2. /\ q \in Nat /\ n % ByteValues \in 0 .. ByteValues - 1
        /\ n = ByteValues * q + (n % ByteValues)
    BY <1>1, <2>1, Quotient, Zenon
  <2>. HIDE DEF q
  <2>3. q * ByteValues < ByteValues * ByteValues
    <3>1. ByteValues * ByteValues \in Nat /\ q * ByteValues \in Nat
          /\ ByteValues * q = q * ByteValues
      BY <2>1, <2>2
    <3>. PICK rest \in 0 .. ByteValues - 1 : rest = n % ByteValues
      BY <2>2
    <3>. QED  BY <1>1, <2>1, <2>2, <3>1
  <2>4. q < ByteValues
    BY <2>1, <2>2, <2>3, Below
  <2>. QED  BY <2>2, <2>4, ByteIs DEF q
<1>3. CrcOfRx \in Seq(Byte)
  <2>1. [i \in 1 .. 4 |-> Erased] \in Seq(Byte)
    BY ErasedIsByte
  <2>. QED  BY <1>1, <2>1 DEF CrcOfRx, CrcBytes
<1>4. <<n % ByteValues, n \div ByteValues>> \in Seq(Byte)
  BY <1>2
<1>5. dat \in Seq(Byte)
  BY <1>3, <1>4, ConcatProperties
<1>6. Answer(RES_CRCRX, dat)
  BY DEF CrcRx
<1>. HIDE DEF dat
<1>. QED  BY <1>5, <1>6, AnswerSends DEF ReplyCodes

\* A sum that has not wrapped is not below what is added to.
LEMMA NoWrap ==
  ASSUME NEW a \in 0 .. Word - 1, NEW n \in 0 .. Word - 1, a <= (a + n) % Word
  PROVE  a + n = (a + n) % Word
<1>. DEFINE x == a + n
<1>1. /\ x \in Nat /\ x < 2 * Word /\ Word \in Nat \ {0}
      /\ x - Word < a /\ a \in Nat
  BY WordIs
<1>2. a <= x % Word
  OBVIOUS
<1>. HIDE DEF x
<1>3. x % Word = IF x < Word THEN x ELSE x - Word
  BY <1>1, ModOnce
<1>4. x = x % Word
  BY <1>1, <1>2, <1>3
<1>. QED  BY <1>4 DEF x

\* The range that is read is within memory: its end is, and an address that is
\* not is past its end.
LEMMA ReadRangeSends ==
  ASSUME Contents, Sent, NEW b, ReadRange(b)
  PROVE  tx' \in Reply
<1>. DEFINE length  == _rx_u16(rx, 4)
            address == _rx_u32(rx, 0)
            end     == (address + length) % Word
            dat     == Memory(flash, address, length)
<1>1. CASE Refuse(RES_BADARGS) \/ Refuse(RES_BADADDR)
  BY <1>1, RefuseSends DEF ReplyCodes
<1>2. CASE UNCHANGED tx
  BY <1>2 DEF Sent
<1>3. CASE /\ Len(rx) = 6 /\ end <= ALLOWED_FLASH_CEILING + 1 /\ address <= end
           /\ Answer(RES_RRANGE, dat)
  <2>1. rx \in Seq(Byte) /\ flash \in [AllPages -> Page]
    BY DEF Contents, Received, FlashTypes
  <2>2. address \in 0 .. Word - 1
    <3>1. 0 \in Nat /\ 0 + 4 <= Len(rx)
      BY <1>3
    <3>. QED  BY <2>1, <3>1, WordType
  <2>3. length \in 0 .. ByteValues * ByteValues - 1
    <3>1. 4 \in Nat /\ 4 + 2 <= Len(rx)
      BY <1>3
    <3>. QED  BY <2>1, <3>1, HalfWordType
  <2>4. ByteValues * ByteValues \in Nat /\ ByteValues * ByteValues <= Word
    <3>. DEFINE BB == ByteValues * ByteValues
    <3>1. BB \in Nat /\ BB >= 1
      BY ByteIs
    <3>2. Word = BB * BB
      BY ByteIs DEF Word
    <3>. HIDE DEF BB
    <3>3. BB * BB >= BB
      BY <3>1
    <3>. QED  BY <3>1, <3>2, <3>3 DEF BB
  <2>5. FlashSize \in Nat /\ ALLOWED_FLASH_CEILING + 1 = FlashSize
    BY SizeAssumption DEF FlashSize, ALLOWED_FLASH_CEILING
  <2>6. address + length <= FlashSize
    <3>1. length \in 0 .. Word - 1
      BY <2>3, <2>4, WordIs
    <3>2. address <= end
      BY <1>3
    <3>3. address + length = end
      BY <2>2, <3>1, <3>2, NoWrap
    <3>. HIDE DEF end, address, length
    <3>. QED  BY <1>3, <2>5, <3>3
  <2>7. address \in Nat /\ length \in Nat
    BY <2>2, <2>3, <2>4, WordIs
  <2>. HIDE DEF address, length
  <2>8. dat \in Seq(Byte)
    BY <2>1, <2>6, <2>7, MemoryType
  <2>. QED  BY <1>3, <2>8, AnswerSends DEF ReplyCodes
<1>. HIDE DEF end, address, dat
<1>. QED  BY <1>1, <1>2, <1>3, Zenon DEF ReadRange, end, address, dat

LEMMA GetAttrSends ==
  ASSUME Contents, NEW b, GetAttr(b)
  PROVE  tx' \in Reply
<1>. DEFINE dat == Memory(flash, AttrAddress(rx[1]), AttrSize)
<1>1. CASE Refuse(RES_BADARGS) \/ Refuse(RES_BADADDR)
  BY <1>1, RefuseSends DEF ReplyCodes
<1>2. CASE Len(rx) = 1 /\ rx[1] < NumAttributes /\ Answer(RES_GATTR, dat)
  <2>1. rx[1] \in Nat /\ flash \in [AllPages -> Page]
    <3>1. rx \in Seq(Byte) /\ flash \in [AllPages -> Page]
      BY DEF Contents, Received, FlashTypes
    <3>2. rx[1] \in Byte
      BY <1>2, <3>1
    <3>. QED  BY <3>1, <3>2, ByteIs
  <2>2. /\ AttrAddress(rx[1]) \in Nat /\ AttrSize \in Nat
        /\ AttrAddress(rx[1]) + AttrSize <= FlashSize
    BY <1>2, <2>1, AttributeInFlash
  <2>3. dat \in Seq(Byte)
    BY <2>1, <2>2, MemoryType
  <2>. HIDE DEF dat
  <2>. QED  BY <1>2, <2>3, AnswerSends DEF ReplyCodes
<1>. QED  BY <1>1, <1>2, Zenon DEF GetAttr

LEMMA CrcIntFlashSends ==
  ASSUME CrcBytes, Contents, NEW b, CrcIntFlash(b)
  PROVE  tx' \in Reply
<1>. DEFINE base == _rx_u32(rx, 0)
            len  == _rx_u32(rx, 4)
            sum  == (base + len) % Word
            outside == \/ base >= ALLOWED_FLASH_CEILING
                       \/ sum > ALLOWED_FLASH_CEILING + 1
                       \/ len >= FlashSize
            dat == Memory(flash, base, len)
<1>1. CASE Refuse(RES_BADARGS) \/ Refuse(RES_BADADDR)
  BY <1>1, RefuseSends DEF ReplyCodes
<1>2. CASE Len(rx) = 8 /\ ~outside /\ Answer(RES_CRCIF, crc32(dat))
  <2>1. rx \in Seq(Byte) /\ flash \in [AllPages -> Page]
    BY DEF Contents, Received, FlashTypes
  <2>2. base \in 0 .. Word - 1 /\ len \in 0 .. Word - 1
    <3>1. 0 \in Nat /\ 0 + 4 <= Len(rx) /\ 4 \in Nat /\ 4 + 4 <= Len(rx)
      BY <1>2
    <3>. QED  BY <2>1, <3>1, WordType
  <2>. HIDE DEF base, len
  <2>3. /\ FlashSize \in Nat /\ ALLOWED_FLASH_CEILING + 1 = FlashSize
        /\ 2 * FlashSize <= Word
    BY SizeAssumption DEF FlashSize, ALLOWED_FLASH_CEILING
  <2>4. base < FlashSize /\ len < FlashSize /\ sum <= FlashSize
    <3>. HIDE DEF sum
    <3>1. sum \in Nat
      <4>1. base + len \in Nat /\ Word \in Nat \ {0}
        BY <2>2, WordIs
      <4>. QED  BY <4>1 DEF sum
    <3>2. /\ ~(base >= ALLOWED_FLASH_CEILING) /\ ~(len >= FlashSize)
          /\ ~(sum > ALLOWED_FLASH_CEILING + 1)
      BY <1>2, Zenon
    <3>3. ALLOWED_FLASH_CEILING \in Int
      BY SizeAssumption DEF FlashSize, ALLOWED_FLASH_CEILING
    <3>. QED  BY <2>2, <2>3, <3>1, <3>2, <3>3, WordIs
  <2>5. base \in Nat /\ len \in Nat /\ base + len < Word
    BY <2>2, <2>3, <2>4, WordIs
  <2>6. sum = base + len
    BY <2>5, WordIs
  <2>7. base + len <= FlashSize
    BY <2>4, <2>6
  <2>8. dat \in Seq(Byte)
    BY <2>1, <2>5, <2>7, MemoryType
  <2>9. crc32(dat) \in Seq(Byte)
    BY <2>8 DEF CrcBytes
  <2>. QED  BY <1>2, <2>9, AnswerSends DEF ReplyCodes
<1>. HIDE DEF outside, dat
<1>. QED  BY <1>1, <1>2, Zenon DEF CrcIntFlash, outside, dat

LEMMA CommandSends ==
  ASSUME CrcBytes, Contents, Sent, NEW b, Command(b)
  PROVE  tx' \in Reply
<1>1. CASE \E state, rate : \E code \in ReplyCodes : ChangeState(state, rate, code)
  <2>1. \E code \in ReplyCodes : Say(code)
    BY <1>1, Zenon DEF ChangeState
  <2>. QED  BY <2>1, SaySends, Zenon
<1>2. CASE Reset(b) \/ Id(b)
  <2>1. tx' = tx \/ tx' = <<>>
    BY <1>2 DEF Reset, Id
  <2>2. <<>> \in Reply
    BY SizesAre DEF Reply
  <2>. QED  BY <2>1, <2>2, Zenon DEF Sent
<1>3. CASE Info(b)
  <2>1. InfoData(flash) \in Seq(Byte)
    BY InfoDataType DEF Contents, FlashTypes
  <2>. QED  BY <1>3, <2>1, AnswerSends DEF Info, ReplyCodes
<1>4. CASE Ping(b)
  <2>1. <<>> \in Seq(Byte)
    OBVIOUS
  <2>. QED  BY <1>4, <2>1, AnswerSends DEF Ping, ReplyCodes
<1>5. CASE (\E code \in ReplyCodes : Refuse(code)) \/ (\E p, next : Erase(p, next))
  BY <1>5, RefuseSends DEF Erase, Sent
<1>6. CASE Answer(RES_OK, <<>>)
  <2>1. <<>> \in Seq(Byte)
    OBVIOUS
  <2>. QED  BY <1>6, <2>1, AnswerSends DEF ReplyCodes
<1>7. RES_OK \in ReplyCodes /\ RES_CHANGE_BAUD_FAIL \in ReplyCodes
      /\ RES_BADARGS \in ReplyCodes /\ RES_BADADDR \in ReplyCodes
      /\ RES_UNKNOWN \in ReplyCodes /\ RES_INTERROR \in ReplyCodes
  BY DEF ReplyCodes
<1>8. CASE ErasePage(b) \/ WritePage(b) \/ SetAttr(b) \/ WriteUser(b)
           \/ Unknown(b) \/ ChangeBaud(b)
  BY <1>1, <1>5, <1>6, <1>7, <1>8, Zenon
     DEF ErasePage, WritePage, SetAttr, WriteUser, Unknown, ChangeBaud
<1>9. CASE CrcRx(b) \/ ReadRange(b) \/ GetAttr(b) \/ CrcIntFlash(b)
  BY <1>9, CrcRxSends, ReadRangeSends, GetAttrSends, CrcIntFlashSends, Zenon
<1>. QED  BY <1>1, <1>2, <1>3, <1>4, <1>7, <1>8, <1>9, Zenon DEF Command

LEMMA NextSends ==
  ASSUME CrcBytes, Contents, Sent, [Next]_vars
  PROVE  Sent'
<1>0. /\ tx \in Reply /\ tx \in Seq(Byte) /\ Len(tx) <= TXBUFSZ
      /\ shifter \in Seq(Byte) /\ Len(shifter) <= 2
  BY DEF Sent, Reply
<1>1. CASE Receive
  <2>1. shifter' = shifter
    BY <1>1 DEF Receive
  <2>2. CASE \E b : Command(b)
    BY <1>0, <2>1, <2>2, CommandSends DEF Sent
  <2>3. CASE tx' \in {tx, <<RES_OVERFLOW>>}
    <3>1. <<RES_OVERFLOW>> \in Reply
      BY ReplyCodesAreBytes, SizesAre DEF Reply, ReplyCodes
    <3>. QED  BY <1>0, <2>1, <2>3, <3>1 DEF Sent
  <2>4. tx' \in {tx, <<RES_OVERFLOW>>} \/ \E b : Command(b)
    BY <1>1, Zenon DEF Receive, Keep
  <2>. QED  BY <2>2, <2>3, <2>4
<1>2. CASE Transmit
  <2>1. tx # <<>> /\ Len(shifter) < 2 /\ shifter' = Append(shifter, Head(tx))
        /\ tx' = Tail(tx)
    BY <1>2 DEF Transmit, TxReady
  <2>2. Head(tx) \in Byte /\ Tail(tx) \in Seq(Byte) /\ Len(Tail(tx)) <= TXBUFSZ
    BY <1>0, <2>1, SizesAre
  <2>3. shifter' \in Seq(Byte) /\ Len(shifter') <= 2
    BY <1>0, <2>1, <2>2
  <2>. QED  BY <2>1, <2>2, <2>3 DEF Sent, Reply
<1>3. CASE UNCHANGED <<tx, shifter>>
  BY <1>0, <1>3 DEF Sent
<1>4. CASE StartDrain \/ EraseDone \/ EraseFails \/ WriteDone
  <2>1. shifter' = shifter
    BY <1>4 DEF StartDrain, EraseDone, EraseFails, WriteDone, lineVars
  <2>2. tx' = tx \/ \E code \in ReplyCodes : Say(code)
    BY <1>4 DEF StartDrain, EraseDone, EraseFails, WriteDone, ReplyCodes
  <2>3. tx' \in Reply
    BY <1>0, <2>2, SaySends, Zenon
  <2>. QED  BY <1>0, <2>1, <2>3 DEF Sent
<1>5. CASE SwitchRate \/ PowerCycle
  <2>1. shifter' = <<>> /\ (tx' = tx \/ tx' = <<>>)
    BY <1>5 DEF SwitchRate, PowerCycle
  <2>2. <<>> \in Reply /\ <<>> \in Seq(Byte) /\ Len(<<>>) <= 2
    BY SizesAre DEF Reply
  <2>. QED  BY <1>0, <2>1, <2>2 DEF Sent
<1>6. CASE NewRequest \/ NewRate \/ Confirm \/ KeepRate \/ Timeout
  <2>1. CASE \E r, rate : Ask(r, rate)
    <3>1. UNCHANGED <<tx, shifter>>
      BY <2>1 DEF Ask, lineVars
    <3>. QED  BY <1>3, <3>1
  <2>2. CASE KeepRate
    <3>1. UNCHANGED <<tx, shifter>>
      BY <2>2 DEF KeepRate, lineVars
    <3>. QED  BY <1>3, <3>1
  <2>. QED  BY <1>6, <2>1, <2>2, Zenon DEF NewRequest, NewRate, Confirm, Timeout
<1>7. CASE ByteArrives \/ NoiseArrives \/ ByteLost \/ HostReceives
  <2>1. tx' = tx /\ shifter' = IF TxEmpty THEN <<>> ELSE Tail(shifter)
    BY <1>7 DEF ByteArrives, NoiseArrives, ByteLost, HostReceives, ShiftOut
  <2>2. shifter' \in Seq(Byte) /\ Len(shifter') <= 2
    BY <1>0, <2>1 DEF TxEmpty
  <2>. QED  BY <1>0, <2>1, <2>2 DEF Sent
<1>8. CASE UNCHANGED vars
  <2>1. UNCHANGED <<tx, shifter>>
    BY <1>8 DEF vars, lineVars
  <2>. QED  BY <1>3, <2>1
<1>. QED  BY <1>1, <1>2, <1>4, <1>5, <1>6, <1>7, <1>8, Zenon DEF Next, Loop, Controller

LEMMA SentInit == Init => Sent
<1>. SUFFICES ASSUME Init PROVE Sent
  OBVIOUS
<1>1. tx = <<>> /\ shifter = <<>>
  BY DEF Init
<1>. QED  BY <1>1, SizesAre DEF Sent, Reply

LEMMA BytesRange ==
  ASSUME NEW s \in Seq(Byte)
  PROVE  Range(s) \subseteq Byte
BY DEF Range

LEMMA TypesFollow ==
  ASSUME Contents, Sent
  PROVE  TypeOK
<1>1. /\ byte_escape \in BOOLEAN /\ Len(rx) <= RXBUFSZ /\ Len(rhr) <= 1
      /\ rx \in Seq(Byte) /\ rhr \in Seq(Byte)
  BY DEF Contents, Received
<1>2. /\ Len(tx) <= TXBUFSZ /\ tx \in Seq(Byte)
      /\ Len(shifter) <= 2 /\ shifter \in Seq(Byte)
  BY DEF Sent, Reply
<1>3. /\ Range(rx) \subseteq Byte /\ Range(rhr) \subseteq Byte
      /\ Range(tx) \subseteq Byte /\ Range(shifter) \subseteq Byte
  BY <1>1, <1>2, BytesRange
<1>4. DOMAIN flash = AllPages /\ (\A p \in AllPages : flash[p] \in Page)
      /\ page_buffer \in Page
  BY DEF Contents, FlashTypes
<1>5. /\ job.kind \in {"none", "drain", "fault", "erase", "program"}
      /\ job.kind \in {"erase", "program"} => job.page \in AllPages
  BY TouchableInFlash DEF Contents, JobTypes, None, Drain, Fault
<1>. QED  BY <1>1, <1>2, <1>3, <1>4, <1>5, Zenon DEF Contents, BaudTypes, TypeOK

\* The two staging buffers, which hold a page or more, are never written past
\* their end: what is received stops at RXBUFSZ and a reply at TXBUFSZ, whatever
\* the lengths in a request say (bootloader.c:34-39, bl_commands.c:34-42), and
\* the addresses that RRANGE, CRCIF and the attributes read from are in flash.
THEOREM TypesKept ==
  ASSUME CrcBytes
  PROVE  Spec => []TypeOK
<1>1. Contents /\ Sent /\ [Next]_vars => Sent'
  BY NextSends
<1>2. Contents /\ Sent => TypeOK
  BY TypesFollow
<1>. QED  BY ContentsInvariant, SentInit, <1>1, <1>2, PTL DEF Spec

-----------------------------------------------------------------------------
(* Escaping, and the replies built with it.                                *)

\* The escaped prefixes of a string.
IsEscapeRun(e, s) ==
  /\ e[0] = <<>>
  /\ \A i \in 0 .. Len(s) - 1 : e[i + 1] = e[i] \o Stuffed(s[i + 1])

LEMMA EscapedIsRun ==
  ASSUME NEW s \in Seq(Byte)
  PROVE  \E e : IsEscapeRun(e, s) /\ Escaped(s) = e[Len(s)]
<1>. DEFINE n    == Len(s)
            seqs == [i \in 1 .. n |-> Stuffed(s[i])]
<1>1. n \in Nat /\ DOMAIN s = 1 .. n /\ Len(seqs) = n
  OBVIOUS
<1>2. Escaped(s) = FlattenSeq(seqs)
  BY <1>1 DEF Escaped
<1>3. CASE n = 0
  <2>1. Escaped(s) = <<>>
    BY <1>1, <1>2, <1>3 DEF FlattenSeq
  <2>. DEFINE e == [i \in 0 .. 0 |-> <<>>]
  <2>2. IsEscapeRun(e, s) /\ Escaped(s) = e[n]
    BY <1>3, <2>1 DEF IsEscapeRun
  <2>. QED  BY <2>2
<1>4. CASE n # 0
  <2>1. PICK g : IsFlatRun(g, seqs, n) /\ FlattenSeq(seqs) = g[n]
    <3>1. Len(seqs) \in Nat \ {0}
      BY <1>1, <1>4
    <3>. QED  BY <1>1, <3>1, FlattenIsRun
  <2>2. \A i \in 1 .. n : g[i] = IF i = 1 THEN seqs[i] ELSE g[i - 1] \o seqs[i]
    <3>. HIDE DEF n, seqs
    <3>. QED  BY <2>1 DEF IsFlatRun
  <2>. DEFINE e == [i \in 0 .. n |-> IF i = 0 THEN <<>> ELSE g[i]]
  <2>3. ASSUME NEW i \in 0 .. n - 1
        PROVE  e[i + 1] = e[i] \o Stuffed(s[i + 1])
    <3>1. i + 1 \in 1 .. n /\ e[i + 1] = g[i + 1] /\ seqs[i + 1] = Stuffed(s[i + 1])
      BY <1>1
    <3>2. CASE i = 0
      <4>1. e[i] = <<>> /\ e[i + 1] = Stuffed(s[i + 1])
        BY <2>2, <3>1, <3>2
      <4>2. s[i + 1] \in Byte
        BY <3>1
      <4>3. Stuffed(s[i + 1]) \in Seq(Byte)
        BY <4>2, StuffedType
      <4>4. <<>> \o Stuffed(s[i + 1]) = Stuffed(s[i + 1])
        BY <4>3, ConcatEmptySeq
      <4>. QED  BY <4>1, <4>4, Zenon
    <3>3. CASE i # 0
      <4>1. e[i] = g[i]
        BY <1>1, <3>3
      <4>2. g[i + 1] = g[i] \o seqs[i + 1]
        <5>1. i + 1 # 1 /\ (i + 1) - 1 = i
          BY <3>3
        <5>. QED  BY <2>2, <3>1, <5>1
      <4>. QED  BY <3>1, <4>1, <4>2, Zenon
    <3>. QED  BY <3>2, <3>3
  <2>4. e[0] = <<>> /\ e[n] = g[n]
    BY <1>1, <1>4
  <2>. HIDE DEF e
  <2>5. IsEscapeRun(e, s)
    BY <2>3, <2>4 DEF IsEscapeRun
  <2>. QED  BY <1>2, <2>1, <2>4, <2>5
<1>. QED  BY <1>3, <1>4

\* No byte becomes more than two.
LEMMA EscapeRunType ==
  ASSUME NEW s \in Seq(Byte), NEW e, IsEscapeRun(e, s)
  PROVE  \A i \in 0 .. Len(s) : e[i] \in Seq(Byte) /\ Len(e[i]) <= 2 * i
<1>. DEFINE T == {i \in Nat : e[i] \in Seq(Byte) /\ Len(e[i]) <= 2 * i}
<1>1. 0 \in T
  <2>1. e[0] = <<>> /\ <<>> \in Seq(Byte) /\ Len(<<>>) <= 2 * 0
    BY DEF IsEscapeRun
  <2>. QED  BY <2>1
<1>2. ASSUME NEW i \in 0 .. Len(s) - 1, i \in T
      PROVE  i + 1 \in T
  <2>. DEFINE c == Stuffed(s[i + 1])
  <2>1. e[i + 1] = e[i] \o c
    BY DEF IsEscapeRun
  <2>2. s[i + 1] \in Byte /\ i \in Nat
    OBVIOUS
  <2>3. c \in Seq(Byte) /\ Len(c) <= 2
    BY <2>2, StuffedType
  <2>. HIDE DEF c
  <2>4. e[i] \in Seq(Byte) /\ Len(e[i]) <= 2 * i
    BY <1>2
  <2>5. e[i + 1] \in Seq(Byte) /\ Len(e[i + 1]) = Len(e[i]) + Len(c)
    BY <2>1, <2>3, <2>4, ConcatProperties
  <2>6. Len(e[i]) \in Nat /\ Len(c) \in Nat
    BY <2>3, <2>4
  <2>. QED  BY <2>2, <2>3, <2>4, <2>5, <2>6
<1>. HIDE DEF T
<1>3. Len(s) \in Nat
  OBVIOUS
<1>4. 0 .. Len(s) \subseteq T
  BY <1>1, <1>2, <1>3, Induction
<1>. QED  BY <1>4 DEF T

LEMMA BytesAssociative ==
  \A v, w, x \in Seq(Byte) : (v \o w) \o x = v \o (w \o x)
<1>. DEFINE B == Byte
<1>. SUFFICES ASSUME NEW v \in Seq(B), NEW w \in Seq(B), NEW x \in Seq(B)
              PROVE  (v \o w) \o x = v \o (w \o x)
  OBVIOUS
<1>. HIDE DEF B
<1>. QED  BY ConcatAssociative

LEMMA EscapedEmpty == Escaped(<<>>) = <<>>
<1>1. <<>> \in Seq(Byte) /\ Len(<<>>) = 0
  OBVIOUS
<1>2. PICK e : IsEscapeRun(e, <<>>) /\ Escaped(<<>>) = e[0]
  BY <1>1, EscapedIsRun
<1>. QED  BY <1>2 DEF IsEscapeRun

\* The first byte is escaped first, then the others.
LEMMA EscapedCons ==
  ASSUME NEW s \in Seq(Byte), s # <<>>
  PROVE  Escaped(s) = Stuffed(s[1]) \o Escaped(Tail(s))
<1>1. /\ Len(s) \in Nat \ {0} /\ Tail(s) \in Seq(Byte) /\ Len(Tail(s)) = Len(s) - 1
      /\ s[1] \in Byte /\ \A i \in 1 .. Len(s) - 1 : Tail(s)[i] = s[i + 1]
  OBVIOUS
<1>. DEFINE t == Tail(s)
            c == Stuffed(s[1])
            n == Len(s) - 1
<1>2. PICK e : IsEscapeRun(e, s) /\ Escaped(s) = e[Len(s)]
  BY EscapedIsRun
<1>3. PICK f : IsEscapeRun(f, t) /\ Escaped(t) = f[Len(t)]
  BY <1>1, EscapedIsRun
<1>4. n \in Nat /\ Len(t) = n /\ Len(s) = n + 1
  BY <1>1
<1>5. c \in Seq(Byte)
  BY <1>1, StuffedType
<1>6. \A i \in 0 .. n : f[i] \in Seq(Byte)
  BY <1>1, <1>3, <1>4, EscapeRunType
<1>. DEFINE T == {i \in Nat : e[i + 1] = c \o f[i]}
<1>7. 0 \in T
  <2>1. e[1] = e[0] \o c /\ e[0] = <<>> /\ f[0] = <<>>
    <3>1. 0 \in 0 .. Len(s) - 1 /\ 0 + 1 = 1
      BY <1>1
    <3>. QED  BY <1>2, <1>3, <3>1 DEF IsEscapeRun
  <2>2. <<>> \o c = c /\ c \o <<>> = c
    BY <1>5, ConcatEmptySeq
  <2>3. e[0 + 1] = c \o f[0]
    BY <2>1, <2>2
  <2>. QED  BY <2>3
<1>8. ASSUME NEW i \in 0 .. n - 1, i \in T
      PROVE  i + 1 \in T
  <2>. DEFINE d == Stuffed(s[i + 2])
  <2>1. i + 1 \in 0 .. Len(s) - 1 /\ (i + 1) + 1 = i + 2 /\ i \in 0 .. Len(t) - 1
        /\ i + 1 \in 1 .. Len(s) - 1 /\ i + 2 \in 1 .. Len(s) /\ i \in 0 .. n
        /\ i + 1 \in Nat
    BY <1>4
  <2>2. e[i + 2] = e[i + 1] \o d
    BY <1>2, <2>1 DEF IsEscapeRun
  <2>3. f[i + 1] = f[i] \o d
    <3>1. t[i + 1] = s[i + 2]
      BY <1>1, <2>1
    <3>. QED  BY <1>3, <2>1, <3>1 DEF IsEscapeRun
  <2>4. d \in Seq(Byte)
    <3>1. s[i + 2] \in Byte
      BY <2>1
    <3>. QED  BY <3>1, StuffedType
  <2>5. (c \o f[i]) \o d = c \o (f[i] \o d)
    BY <1>5, <1>6, <2>1, <2>4, BytesAssociative
  <2>6. e[i + 1] = c \o f[i]
    BY <1>8
  <2>7. e[i + 2] = c \o f[i + 1]
    BY <2>2, <2>3, <2>5, <2>6, Zenon
  <2>. QED  BY <2>1, <2>7
<1>. HIDE DEF T
<1>9. 0 .. n \subseteq T
  BY <1>4, <1>7, <1>8, Induction
<1>10. e[n + 1] = c \o f[n]
  <2>. HIDE DEF n
  <2>1. n \in T
    BY <1>4, <1>9
  <2>. QED  BY <2>1 DEF T
<1>. QED  BY <1>2, <1>3, <1>4, <1>10

\* Reserve: what a reply to be escaped needs at the most.
Fits(dat) == 2 + 2 * Len(dat) <= TXBUFSZ

\* A reply that fits is all there.
LEMMA ReplyIs ==
  ASSUME NEW dat \in Seq(Byte), NEW code \in Byte, Fits(dat)
  PROVE  _escape_set(dat, code) = <<ESCAPE_CHAR, code>> \o Escaped(dat)
<1>. DEFINE h == <<ESCAPE_CHAR, code>>
            n == Len(dat)
            f == CHOOSE g : IsCatRun(g, h, dat, n)
<1>1. n \in Nat /\ h \in Seq(Byte) /\ Len(h) = 2
  BY ErasedIsByte
<1>2. IsCatRun(f, h, dat, n)
  BY <1>1, CatRunExists
<1>3. _escape_set(dat, code) = f[n]
  BY DEF _escape_set, _escape_cat, IsCatRun
<1>. HIDE DEF f, h
<1>4. PICK e : IsEscapeRun(e, dat) /\ Escaped(dat) = e[n]
  BY EscapedIsRun
<1>. DEFINE T == {i \in Nat : f[i] = h \o e[i]}
<1>5. 0 \in T
  <2>1. f[0] = h /\ e[0] = <<>>
    BY <1>1, <1>2, <1>4 DEF IsCatRun, IsEscapeRun
  <2>2. h \o <<>> = h
    BY <1>1, ConcatEmptySeq
  <2>. QED  BY <2>1, <2>2
<1>6. ASSUME NEW i \in 0 .. n - 1, i \in T
      PROVE  i + 1 \in T
  <2>. DEFINE c == Stuffed(dat[i + 1])
  <2>1. i + 1 \in 0 .. n /\ i + 1 # 0 /\ (i + 1) - 1 = i /\ i \in 0 .. n
        /\ i + 1 \in Nat /\ i \in Nat /\ dat[i + 1] \in Byte
    BY <1>1
  <2>2. f[i + 1] = CatStep(f[i], dat[i + 1])
    BY <1>2, <2>1 DEF IsCatRun
  <2>3. e[i] \in Seq(Byte) /\ Len(e[i]) <= 2 * i
    BY <1>4, <2>1, EscapeRunType
  <2>4. f[i] = h \o e[i]
    BY <1>6
  <2>5. Len(f[i]) < TXBUFSZ - 1
    <3>1. Len(h \o e[i]) = Len(h) + Len(e[i])
      BY <1>1, <2>3, ConcatProperties
    <3>2. Len(e[i]) \in Nat
      BY <2>3
    <3>3. Len(f[i]) = 2 + Len(e[i])
      BY <1>1, <2>4, <3>1
    <3>. QED  BY <1>1, <2>1, <2>3, <3>2, <3>3, SizesAre DEF Fits
  <2>6. f[i + 1] = f[i] \o c
    BY <2>2, <2>5 DEF CatStep
  <2>7. e[i + 1] = e[i] \o c
    BY <1>4 DEF IsEscapeRun
  <2>8. c \in Seq(Byte)
    BY <2>1, StuffedType
  <2>9. (h \o e[i]) \o c = h \o (e[i] \o c)
    BY <1>1, <2>3, <2>8, BytesAssociative
  <2>10. f[i + 1] = h \o e[i + 1]
    BY <2>4, <2>6, <2>7, <2>9, Zenon
  <2>. QED  BY <2>1, <2>10
<1>. HIDE DEF T, n
<1>7. 0 .. n \subseteq T
  BY <1>1, <1>5, <1>6, Induction
<1>8. n \in T
  BY <1>1, <1>7
<1>. QED  BY <1>3, <1>4, <1>8 DEF T, h

-----------------------------------------------------------------------------
(* What is left of a request.                                              *)

\* Arguments to be sent, and the command after them.
Left(s, cmd) == Escaped(s) \o <<ESCAPE_CHAR, cmd>>

LEMMA LeftType ==
  ASSUME NEW s \in Seq(Byte), NEW cmd \in Byte
  PROVE  Left(s, cmd) \in Seq(Byte) /\ Left(s, cmd) # <<>>
<1>1. Escaped(s) \in Seq(Byte)
  BY EscapedType
<1>2. <<ESCAPE_CHAR, cmd>> \in Seq(Byte) /\ Len(<<ESCAPE_CHAR, cmd>>) = 2
  BY ErasedIsByte
<1>. DEFINE l == Escaped(s) \o <<ESCAPE_CHAR, cmd>>
<1>3. l \in Seq(Byte) /\ Len(l) = Len(Escaped(s)) + 2
  BY <1>1, <1>2, ConcatProperties
<1>4. Len(Escaped(s)) \in Nat
  BY <1>1
<1>. HIDE DEF l
<1>5. l # <<>>
  BY <1>3, <1>4
<1>. QED  BY <1>3, <1>5 DEF Left, l

LEMMA LeftEmpty ==
  ASSUME NEW cmd \in Byte
  PROVE  Left(<<>>, cmd) = <<ESCAPE_CHAR, cmd>>
<1>1. <<ESCAPE_CHAR, cmd>> \in Seq(Byte)
  BY ErasedIsByte
<1>. QED  BY <1>1, EscapedEmpty, ConcatEmptySeq DEF Left

LEMMA LeftCons ==
  ASSUME NEW s \in Seq(Byte), s # <<>>, NEW cmd \in Byte
  PROVE  Left(s, cmd) = Stuffed(s[1]) \o Left(Tail(s), cmd)
<1>. DEFINE b == s[1]
            c == Stuffed(b)
            t == Tail(s)
            e == Escaped(t)
            end == <<ESCAPE_CHAR, cmd>>
<1>1. t \in Seq(Byte) /\ b \in Byte
  OBVIOUS
<1>2. end \in Seq(Byte)
  BY ErasedIsByte
<1>3. Escaped(s) = c \o e
  BY EscapedCons
<1>. HIDE DEF b, t, end
<1>4. c \in Seq(Byte) /\ e \in Seq(Byte)
  BY <1>1, StuffedType, EscapedType
<1>. HIDE DEF c, e
<1>5. (c \o e) \o end = c \o (e \o end)
  BY <1>2, <1>4, BytesAssociative
<1>6. Left(s, cmd) = Escaped(s) \o end /\ Left(t, cmd) = e \o end
  BY DEF Left, end, e
<1>. QED  BY <1>3, <1>5, <1>6 DEF c, b, t

Before(a, s) == <<a>> \o s

LEMMA BeforeType ==
  ASSUME NEW a \in Byte, NEW s \in Seq(Byte)
  PROVE  Before(a, s) \in Seq(Byte)
<1>. DEFINE x == <<a>>
<1>1. x \in Seq(Byte)
  OBVIOUS
<1>. HIDE DEF x
<1>2. x \o s \in Seq(Byte)
  BY <1>1, ConcatProperties
<1>. QED  BY <1>2 DEF Before, x

LEMMA BeforeEqual ==
  ASSUME NEW a \in Byte, NEW b \in Byte, NEW s \in Seq(Byte), NEW t \in Seq(Byte),
         Before(a, s) = Before(b, t)
  PROVE  a = b /\ s = t
<1>. DEFINE x == <<a>> \o s
            y == <<b>> \o t
<1>1. /\ x \in Seq(Byte) /\ Len(x) = 1 + Len(s) /\ x[1] = a
      /\ \A i \in 1 .. Len(s) : x[i + 1] = s[i]
  OBVIOUS
<1>2. /\ y \in Seq(Byte) /\ Len(y) = 1 + Len(t) /\ y[1] = b
      /\ \A i \in 1 .. Len(t) : y[i + 1] = t[i]
  OBVIOUS
<1>3. x = y
  BY DEF Before
<1>. HIDE DEF x, y
<1>4. Len(s) = Len(t) /\ Len(s) \in Nat
  BY <1>1, <1>2, <1>3
<1>5. \A i \in 1 .. Len(s) : s[i] = t[i]
  BY <1>1, <1>2, <1>3, <1>4
<1>. QED  BY <1>1, <1>2, <1>3, <1>4, <1>5, SeqEqual

LEMMA PairIs ==
  ASSUME NEW a \in Byte, NEW b \in Byte
  PROVE  <<a, b>> = Before(a, <<b>>)
<1>. DEFINE x == <<a, b>>
            y == <<a>> \o <<b>>
<1>1. x \in Seq(Byte) /\ Len(x) = 2 /\ x[1] = a /\ x[2] = b
  OBVIOUS
<1>2. y \in Seq(Byte) /\ Len(y) = 2 /\ y[1] = a /\ y[2] = b
  OBVIOUS
<1>. HIDE DEF x, y
<1>3. \A i \in 1 .. Len(x) : x[i] = y[i]
  BY <1>1, <1>2
<1>4. x = y
  BY <1>1, <1>2, <1>3, SeqEqual
<1>. QED  BY <1>4 DEF x, y, Before

LEMMA PairBefore ==
  ASSUME NEW a \in Byte, NEW b \in Byte, NEW s \in Seq(Byte)
  PROVE  <<a, b>> \o s = Before(a, Before(b, s))
<1>. DEFINE x == <<a>>
            y == <<b>>
<1>1. x \in Seq(Byte) /\ y \in Seq(Byte)
  OBVIOUS
<1>2. <<a, b>> = x \o y
  BY PairIs DEF Before
<1>. HIDE DEF x, y
<1>3. (x \o y) \o s = x \o (y \o s)
  BY <1>1, BytesAssociative
<1>. QED  BY <1>2, <1>3 DEF x, y, Before

LEMMA LeftFirst ==
  ASSUME NEW s \in Seq(Byte), s # <<>>, NEW cmd \in Byte
  PROVE  /\ s[1] \in Byte /\ Left(Tail(s), cmd) \in Seq(Byte)
         /\ Left(s, cmd) =
              LET rest == Before(s[1], Left(Tail(s), cmd))
              IN  IF s[1] = ESCAPE_CHAR THEN Before(ESCAPE_CHAR, rest) ELSE rest
<1>. DEFINE c == s[1]
            t == Left(Tail(s), cmd)
<1>1. c \in Byte /\ Tail(s) \in Seq(Byte)
  OBVIOUS
<1>2. t \in Seq(Byte)
  BY <1>1, LeftType
<1>3. Left(s, cmd) = Stuffed(c) \o t
  BY LeftCons
<1>. HIDE DEF c, t
<1>4. CASE c = ESCAPE_CHAR
  BY <1>1, <1>2, <1>3, <1>4, PairBefore DEF Stuffed, c, t
<1>5. CASE c # ESCAPE_CHAR
  BY <1>1, <1>2, <1>3, <1>5 DEF Stuffed, Before, c, t
<1>. QED  BY <1>4, <1>5

LEMMA LeftLast ==
  ASSUME NEW cmd \in Byte
  PROVE  /\ Left(<<>>, cmd) = Before(ESCAPE_CHAR, Before(cmd, <<>>))
         /\ <<>> \in Seq(Byte) /\ Before(cmd, <<>>) \in Seq(Byte)
<1>1. <<cmd>> \in Seq(Byte) /\ <<>> \in Seq(Byte)
  OBVIOUS
<1>2. <<cmd>> \o <<>> = <<cmd>>
  BY <1>1, ConcatEmptySeq
<1>3. Before(cmd, <<>>) = <<cmd>>
  BY <1>2 DEF Before
<1>. QED  BY <1>1, <1>3, LeftEmpty, PairIs, ErasedIsByte

\* A byte that is not the escape character is the next argument.
LEMMA PlainByte ==
  ASSUME NEW s \in Seq(Byte), NEW cmd \in Byte, NEW b \in Byte, b # ESCAPE_CHAR,
         NEW rest \in Seq(Byte), Before(b, rest) = Left(s, cmd)
  PROVE  s # <<>> /\ s[1] = b /\ rest = Left(Tail(s), cmd)
<1>0. ESCAPE_CHAR \in Byte
  BY ErasedIsByte
<1>1. s # <<>>
  <2>. SUFFICES ASSUME s = <<>> PROVE FALSE
    OBVIOUS
  <2>1. Before(b, rest) = Before(ESCAPE_CHAR, Before(cmd, <<>>))
    BY LeftLast
  <2>. QED  BY <1>0, <2>1, LeftLast, BeforeEqual
<1>. DEFINE t == Left(Tail(s), cmd)
<1>2. s[1] \in Byte /\ t \in Seq(Byte)
  BY <1>1, LeftFirst
<1>. HIDE DEF t
<1>3. s[1] # ESCAPE_CHAR
  <2>. SUFFICES ASSUME s[1] = ESCAPE_CHAR PROVE FALSE
    OBVIOUS
  <2>1. Before(b, rest) = Before(ESCAPE_CHAR, Before(s[1], t))
    BY <1>1, LeftFirst DEF t
  <2>. QED  BY <1>0, <1>2, <2>1, BeforeType, BeforeEqual
<1>4. Before(b, rest) = Before(s[1], t)
  BY <1>1, <1>3, LeftFirst DEF t
<1>5. b = s[1] /\ rest = t
  BY <1>2, <1>4, BeforeEqual
<1>. QED  BY <1>1, <1>5 DEF t

\* After an escape comes an argument that is the escape character, or the command.
LEMMA ByteAfterEscape ==
  ASSUME NEW s \in Seq(Byte), NEW cmd \in Byte, NEW b \in Byte, cmd # ESCAPE_CHAR,
         NEW rest \in Seq(Byte), Before(ESCAPE_CHAR, Before(b, rest)) = Left(s, cmd)
  PROVE  \/ b = ESCAPE_CHAR /\ s # <<>> /\ s[1] = b /\ rest = Left(Tail(s), cmd)
         \/ b # ESCAPE_CHAR /\ s = <<>> /\ b = cmd /\ rest = <<>>
<1>0. ESCAPE_CHAR \in Byte /\ Before(b, rest) \in Seq(Byte)
  BY ErasedIsByte, BeforeType
<1>1. CASE s = <<>>
  <2>. DEFINE empty == <<>>
              last  == Before(cmd, empty)
  <2>1. empty \in Seq(Byte) /\ last \in Seq(Byte)
        /\ Before(ESCAPE_CHAR, Before(b, rest)) = Before(ESCAPE_CHAR, last)
    BY <1>1, LeftLast
  <2>. HIDE DEF empty
  <2>2. last = Before(b, rest)
    <3>. HIDE DEF last
    <3>. QED  BY <1>0, <2>1, BeforeEqual
  <2>3. b = cmd /\ rest = empty
    BY <2>1, <2>2, BeforeEqual
  <2>. QED  BY <1>1, <2>3 DEF empty
<1>2. CASE s # <<>>
  <2>. DEFINE t == Left(Tail(s), cmd)
  <2>1. s[1] \in Byte /\ t \in Seq(Byte)
    BY <1>2, LeftFirst
  <2>2. Left(s, cmd) = IF s[1] = ESCAPE_CHAR THEN Before(ESCAPE_CHAR, Before(s[1], t))
                       ELSE Before(s[1], t)
    BY <1>2, LeftFirst
  <2>. HIDE DEF t
  <2>3. s[1] = ESCAPE_CHAR
    BY <1>0, <2>1, <2>2, BeforeEqual
  <2>4. Before(b, rest) = Before(s[1], t)
    BY <1>0, <2>1, <2>2, <2>3, BeforeType, BeforeEqual
  <2>5. b = s[1] /\ rest = t
    BY <2>1, <2>4, BeforeEqual
  <2>. QED  BY <1>2, <2>3, <2>5 DEF t
<1>. QED  BY <1>1, <1>2

-----------------------------------------------------------------------------
(* What the promises say of numbers and of pages.                          *)

\* The numbers of the last bytes of a string, the most significant first.
IsNumberRun(f, s, n) ==
  f = [i \in 0 .. n |-> IF i = 0 THEN 0 ELSE s[Len(s) + 1 - i] + ByteValues * f[i - 1]]

LEMMA NumberRunExists ==
  ASSUME NEW s, NEW n \in Nat
  PROVE  \E f : IsNumberRun(f, s, n)
<1>. DEFINE T == {m \in Nat : \E f : IsNumberRun(f, s, m)}
            Step(f, i) == s[Len(s) + 1 - i] + ByteValues * f[i - 1]
<1>1. 0 \in T
  <2>. DEFINE f == [i \in 0 .. 0 |-> 0]
  <2>1. f = [i \in 0 .. 0 |-> IF i = 0 THEN 0 ELSE Step(f, i)]
    <3>. HIDE DEF Step
    <3>. QED  OBVIOUS
  <2>. QED  BY <2>1 DEF IsNumberRun
<1>2. ASSUME NEW m \in 0 .. n - 1, m \in T
      PROVE  m + 1 \in T
  <2>1. PICK f : IsNumberRun(f, s, m)
    BY <1>2
  <2>. DEFINE top == s[Len(s) + 1 - (m + 1)] + ByteValues * f[m]
              g == [i \in 0 .. m + 1 |-> IF i <= m THEN f[i] ELSE top]
  <2>2. ASSUME NEW i \in 0 .. m + 1
        PROVE  g[i] = IF i = 0 THEN 0 ELSE Step(g, i)
    <3>1. CASE i <= m
      <4>1. f[i] = IF i = 0 THEN 0 ELSE Step(f, i)
        BY <2>1, <3>1 DEF IsNumberRun
      <4>2. g[i] = f[i] /\ (i # 0 => g[i - 1] = f[i - 1])
        BY <3>1
      <4>. QED  BY <4>1, <4>2
    <3>2. CASE i = m + 1
      <4>1. g[i] = top /\ g[i - 1] = f[m] /\ i # 0
        BY <3>2
      <4>. QED  BY <3>2, <4>1
    <3>. QED  BY <3>1, <3>2
  <2>3. IsNumberRun(g, s, m + 1)
    BY <2>2 DEF IsNumberRun
  <2>. QED  BY <2>3
<1>. HIDE DEF T
<1>3. n \in T
  BY <1>1, <1>2, Induction
<1>. QED  BY <1>3 DEF T

LEMMA NumberIsRun ==
  ASSUME NEW s, Len(s) \in Nat
  PROVE  \E f : /\ Number(s) = f[Len(s)] /\ f[0] = 0
                /\ \A i \in 1 .. Len(s) : f[i] = s[Len(s) + 1 - i] + ByteValues * f[i - 1]
<1>. DEFINE f == CHOOSE g : IsNumberRun(g, s, Len(s))
<1>1. IsNumberRun(f, s, Len(s))
  BY NumberRunExists
<1>2. Number(s) = f[Len(s)]
  BY DEF Number, IsNumberRun
<1>. HIDE DEF f
<1>3. f[0] = 0
  BY <1>1 DEF IsNumberRun
<1>4. ASSUME NEW i \in 1 .. Len(s)
      PROVE  f[i] = s[Len(s) + 1 - i] + ByteValues * f[i - 1]
  <2>1. i \in 0 .. Len(s) /\ i # 0
    OBVIOUS
  <2>. QED  BY <1>1, <2>1 DEF IsNumberRun
<1>. QED  BY <1>2, <1>3, <1>4

LEMMA SubBytes ==
  ASSUME NEW s \in Seq(Byte), NEW k \in Nat, NEW n \in Nat, k + n <= Len(s)
  PROVE  LET t == SubSeq(s, k + 1, k + n)
         IN  /\ t \in Seq(Byte) /\ Len(t) = n
             /\ \A i \in 1 .. n : t[i] = s[k + i]
OBVIOUS

\* The four bytes at an offset are the word that the code reads there.
LEMMA NumberOfFour ==
  ASSUME NEW s \in Seq(Byte), NEW k \in Nat, k + 4 <= Len(s)
  PROVE  Number(SubSeq(s, k + 1, k + 4)) = _rx_u32(s, k)
<1>. DEFINE t == SubSeq(s, k + 1, k + 4)
<1>1. Len(t) = 4 /\ t[1] = s[k + 1] /\ t[2] = s[k + 2] /\ t[3] = s[k + 3] /\ t[4] = s[k + 4]
  BY SubBytes
<1>2. s[k + 4] \in Byte
  OBVIOUS
<1>. HIDE DEF t
<1>3. PICK f : /\ Number(t) = f[Len(t)] /\ f[0] = 0
               /\ \A i \in 1 .. Len(t) : f[i] = t[Len(t) + 1 - i] + ByteValues * f[i - 1]
  <2>1. Len(t) \in Nat
    BY <1>1
  <2>. QED  BY <2>1, NumberIsRun, Zenon
<1>4. f[1] = t[4] + ByteValues * f[0] /\ f[2] = t[3] + ByteValues * f[1]
      /\ f[3] = t[2] + ByteValues * f[2] /\ f[4] = t[1] + ByteValues * f[3]
  BY <1>1, <1>3
<1>5. f[1] = t[4]
  <2>1. t[4] \in Nat /\ ByteValues * 0 = 0
    BY <1>1, <1>2, ByteIs
  <2>. QED  BY <1>3, <1>4, <2>1
<1>6. Number(t) = t[1] + ByteValues * (t[2] + ByteValues * (t[3] + ByteValues * t[4]))
  BY <1>1, <1>3, <1>4, <1>5, Zenon
<1>. QED  BY <1>1, <1>6 DEF _rx_u32, t

LEMMA NumberOfTwo ==
  ASSUME NEW s \in Seq(Byte), NEW k \in Nat, k + 2 <= Len(s)
  PROVE  Number(SubSeq(s, k + 1, k + 2)) = _rx_u16(s, k)
<1>. DEFINE t == SubSeq(s, k + 1, k + 2)
<1>1. Len(t) = 2 /\ t[1] = s[k + 1] /\ t[2] = s[k + 2]
  BY SubBytes
<1>2. s[k + 2] \in Byte
  OBVIOUS
<1>. HIDE DEF t
<1>3. PICK f : /\ Number(t) = f[Len(t)] /\ f[0] = 0
               /\ \A i \in 1 .. Len(t) : f[i] = t[Len(t) + 1 - i] + ByteValues * f[i - 1]
  <2>1. Len(t) \in Nat
    BY <1>1
  <2>. QED  BY <2>1, NumberIsRun, Zenon
<1>4. f[1] = t[2] + ByteValues * f[0] /\ f[2] = t[1] + ByteValues * f[1]
  BY <1>1, <1>3
<1>5. f[1] = t[2]
  <2>1. t[2] \in Nat /\ ByteValues * 0 = 0
    BY <1>1, <1>2, ByteIs
  <2>. QED  BY <1>3, <1>4, <2>1
<1>6. Number(t) = t[1] + ByteValues * t[2]
  BY <1>1, <1>3, <1>4, <1>5, Zenon
<1>. QED  BY <1>1, <1>6 DEF _rx_u16, t

\* The addresses that name a page are those of the pages of the application.
LEMMA NamedIsWritable ==
  ASSUME NEW address \in Nat
  PROVE  NamesPage(address) <=> \E p \in WritablePages : p * PageSize = address
<1>1. NamesPage(address) => \E p \in WritablePages : p * PageSize = address
  BY NamedPage
<1>2. ASSUME NEW p \in WritablePages, p * PageSize = address
      PROVE  NamesPage(address)
  <2>0. p \in Nat /\ p < NumPages /\ ALLOWED_FLASH_FLOOR <= address
    BY <1>2, SizesAre DEF WritablePages, Pages
  <2>1. PageSize \in Nat /\ PageSize >= 2 /\ NumPages \in Nat
    BY SizeAssumption
  <2>2. address % PageSize = 0
    <3>. DEFINE q == address \div PageSize
                m == address % PageSize
    <3>1. q \in Nat /\ m \in 0 .. PageSize - 1 /\ address = PageSize * q + m
      <4>1. PageSize \in Nat \ {0}
        BY SizesAre
      <4>. QED  BY <4>1, Quotient, Zenon
    <3>. HIDE DEF q, m
    <3>2. (q + 1) * PageSize = PageSize * q + PageSize
          /\ (p + 1) * PageSize = p * PageSize + PageSize
          /\ q * PageSize = PageSize * q /\ q * PageSize \in Nat
      BY <2>0, <2>1, <3>1
    <3>3. ~(q + 1 <= p)
      <4>. SUFFICES ASSUME q + 1 <= p PROVE FALSE
        OBVIOUS
      <4>1. (q + 1) * PageSize <= p * PageSize
        BY <2>0, <2>1, <3>1
      <4>. QED  BY <1>2, <2>1, <3>1, <3>2, <4>1
    <3>4. ~(p + 1 <= q)
      <4>. SUFFICES ASSUME p + 1 <= q PROVE FALSE
        OBVIOUS
      <4>1. (p + 1) * PageSize <= q * PageSize
        BY <2>0, <2>1, <3>1
      <4>. QED  BY <1>2, <2>1, <3>1, <3>2, <4>1
    <3>5. p = q
      BY <2>0, <3>1, <3>3, <3>4
    <3>6. m = 0
      BY <1>2, <3>1, <3>2, <3>5
    <3>. QED  BY <3>6 DEF m
  <2>3. address < ALLOWED_FLASH_CEILING
    <3>1. (p + 1) * PageSize <= NumPages * PageSize
      BY <2>0, <2>1
    <3>2. (p + 1) * PageSize = p * PageSize + PageSize
      BY <2>0, <2>1
    <3>3. NumPages * PageSize \in Nat
      BY <2>1
    <3>. QED  BY <1>2, <2>1, <3>1, <3>2, <3>3 DEF ALLOWED_FLASH_CEILING, FlashSize
  <2>. QED  BY <2>0, <2>2, <2>3 DEF NamesPage
<1>. QED  BY <1>1, <1>2

\* And name one page.
LEMMA OnePageNamed ==
  ASSUME NEW address \in Nat, NamesPage(address)
  PROVE  /\ address \div PageSize \in AllPages
         /\ \A p \in AllPages : p * PageSize = address <=> p = address \div PageSize
<1>. DEFINE pg == address \div PageSize
<1>1. pg \in WritablePages /\ pg * PageSize = address
  BY NamedPage
<1>2. pg \in AllPages /\ pg \in Nat
  BY <1>1, SizesAre DEF WritablePages, Pages, AllPages
<1>. HIDE DEF pg
<1>3. ASSUME NEW p \in AllPages, p * PageSize = address
      PROVE  p = pg
  <2>1. p \in Nat /\ PageSize \in Nat /\ PageSize >= 2
    BY SizeAssumption DEF AllPages
  <2>2. p * PageSize = pg * PageSize
    BY <1>1, <1>3
  <2>3. ~(p + 1 <= pg)
    <3>. SUFFICES ASSUME p + 1 <= pg PROVE FALSE
      OBVIOUS
    <3>1. (p + 1) * PageSize <= pg * PageSize /\ (p + 1) * PageSize = p * PageSize + PageSize
      BY <1>2, <2>1
    <3>. QED  BY <2>1, <2>2, <3>1
  <2>4. ~(pg + 1 <= p)
    <3>. SUFFICES ASSUME pg + 1 <= p PROVE FALSE
      OBVIOUS
    <3>1. (pg + 1) * PageSize <= p * PageSize /\ (pg + 1) * PageSize = pg * PageSize + PageSize
      BY <1>2, <2>1
    <3>. QED  BY <2>1, <2>2, <3>1
  <2>. QED  BY <1>2, <2>1, <2>3, <2>4
<1>. QED  BY <1>1, <1>2, <1>3 DEF pg

-----------------------------------------------------------------------------
(* A command does what it promises, at once or when flash is written.      *)

\* What erasing and programming leave in a page.
Target(next) == IF next = <<>> THEN NoData ELSE Patched(NoData, 0, next)

Replied(P) == tx' = P.reply /\ flash' = P.flash /\ job' = job

ReadsPastEnd == job' = Fault /\ tx' = tx /\ flash' = flash

Started(P) ==
  /\ tx' = tx /\ flash' = flash /\ P.reply = <<ESCAPE_CHAR, RES_OK>>
  /\ \E page \in AllPages : \E next \in Seq(Byte) :
       /\ job' = [kind |-> "erase", page |-> page, next |-> next]
       /\ P.flash = [flash EXCEPT ![page] = Target(next)]

Fulfils(P) == Replied(P) \/ Started(P)

LEMMA CommandsDiffer ==
  /\ CMD_PING = 1 /\ CMD_INFO = 3 /\ CMD_ID = 4 /\ CMD_RESET = 5 /\ CMD_EPAGE = 6
  /\ CMD_WPAGE = 7 /\ CMD_CRCRX = 16 /\ CMD_RRANGE = 17 /\ CMD_SATTR = 19
  /\ CMD_GATTR = 20 /\ CMD_CRCIF = 21 /\ CMD_WUSER = 32 /\ CMD_CHANGE_BAUD = 33
BY DEF CMD_PING, CMD_INFO, CMD_ID, CMD_RESET, CMD_EPAGE, CMD_WPAGE, CMD_CRCRX,
       CMD_RRANGE, CMD_SATTR, CMD_GATTR, CMD_CRCIF, CMD_WUSER, CMD_CHANGE_BAUD

LEMMA OutcomeEmpty ==
  ASSUME NEW code \in ReplyCodes, NEW mem
  PROVE  /\ Outcome(code, <<>>, mem).reply = <<ESCAPE_CHAR, code>>
         /\ Outcome(code, <<>>, mem).flash = mem
<1>1. <<ESCAPE_CHAR, code>> \in Seq(Byte)
  BY ErasedIsByte, ReplyCodesAreBytes
<1>2. <<ESCAPE_CHAR, code>> \o <<>> = <<ESCAPE_CHAR, code>>
  BY <1>1, ConcatEmptySeq
<1>. QED  BY <1>2, EscapedEmpty DEF Outcome

LEMMA AnswerFulfils ==
  ASSUME NEW code \in ReplyCodes, NEW dat \in Seq(Byte), Fits(dat), Answer(code, dat)
  PROVE  Replied(Outcome(code, dat, flash))
<1>1. UNCHANGED flashVars /\ UNCHANGED job /\ tx' = _escape_set(dat, code)
  BY DEF Answer
<1>2. code \in Byte
  BY ReplyCodesAreBytes
<1>3. tx' = <<ESCAPE_CHAR, code>> \o Escaped(dat)
  BY <1>1, <1>2, ReplyIs
<1>. QED  BY <1>1, <1>3 DEF Replied, Outcome, flashVars

LEMMA RefuseFulfils ==
  ASSUME NEW code \in ReplyCodes, Refuse(code)
  PROVE  Replied(Outcome(code, <<>>, flash))
<1>. DEFINE empty == <<>>
<1>1. empty \in Seq(Byte) /\ Len(empty) = 0
  OBVIOUS
<1>2. Fits(empty)
  BY <1>1, SizesAre DEF Fits
<1>3. Answer(code, empty)
  BY DEF Refuse
<1>. HIDE DEF empty
<1>4. Replied(Outcome(code, empty, flash))
  BY <1>1, <1>2, <1>3, AnswerFulfils
<1>. QED  BY <1>4 DEF empty

LEMMA CodesKnown ==
  {RES_PONG, RES_BADADDR, RES_INTERROR, RES_BADARGS, RES_OK, RES_UNKNOWN, RES_CRCRX,
   RES_RRANGE, RES_GATTR, RES_CRCIF, RES_INFO} \subseteq ReplyCodes
BY DEF ReplyCodes

LEMMA EraseFulfils ==
  ASSUME NEW page \in AllPages, NEW next \in Seq(Byte), Erase(page, next),
         NEW mem, mem = [flash EXCEPT ![page] = Target(next)]
  PROVE  Started(Outcome(RES_OK, <<>>, mem))
<1>1. UNCHANGED tx /\ UNCHANGED flashVars
      /\ job' = [kind |-> "erase", page |-> page, next |-> next]
  BY DEF Erase
<1>2. /\ Outcome(RES_OK, <<>>, mem).reply = <<ESCAPE_CHAR, RES_OK>>
      /\ Outcome(RES_OK, <<>>, mem).flash = mem
  BY CodesKnown, OutcomeEmpty
<1>. QED  BY <1>1, <1>2 DEF Started, flashVars

LEMMA FirstWord ==
  ASSUME NEW s \in Seq(Byte), Len(s) >= 4
  PROVE  /\ Number(SubSeq(s, 1, 4)) = _rx_u32(s, 0)
         /\ _rx_u32(s, 0) \in 0 .. Word - 1 /\ _rx_u32(s, 0) \in Nat
<1>1. 0 \in Nat /\ 0 + 4 <= Len(s) /\ 0 + 1 = 1 /\ 0 + 4 = 4
  OBVIOUS
<1>2. Number(SubSeq(s, 0 + 1, 0 + 4)) = _rx_u32(s, 0)
  BY <1>1, NumberOfFour
<1>3. _rx_u32(s, 0) \in 0 .. Word - 1
  BY <1>1, WordType
<1>. QED  BY <1>1, <1>2, <1>3, WordIs

\* What is promised of a command on a page.
OnOnePage(address, mem, page) ==
  IF \E p \in WritablePages : p * PageSize = address
  THEN Outcome(RES_OK, <<>>,
         [p \in AllPages |-> IF p * PageSize = address THEN page ELSE mem[p]])
  ELSE Outcome(RES_BADADDR, <<>>, mem)

LEMMA OnePageChanged ==
  ASSUME NEW address \in Nat, NamesPage(address), NEW mem \in [AllPages -> Page], NEW page
  PROVE  OnOnePage(address, mem, page)
           = Outcome(RES_OK, <<>>, [mem EXCEPT ![address \div PageSize] = page])
<1>. DEFINE pg == address \div PageSize
<1>1. pg \in AllPages /\ \A p \in AllPages : p * PageSize = address <=> p = pg
  BY OnePageNamed
<1>2. \E p \in WritablePages : p * PageSize = address
  BY NamedIsWritable
<1>. HIDE DEF pg
<1>3. [p \in AllPages |-> IF p * PageSize = address THEN page ELSE mem[p]]
        = [mem EXCEPT ![pg] = page]
  BY <1>1
<1>. QED  BY <1>2, <1>3 DEF OnOnePage, pg

LEMMA NoPageChanged ==
  ASSUME NEW address \in Nat, ~NamesPage(address), NEW mem, NEW page
  PROVE  OnOnePage(address, mem, page) = Outcome(RES_BADADDR, <<>>, mem)
BY NamedIsWritable DEF OnOnePage

LEMMA ErasePageFulfils ==
  ASSUME Contents, ErasePage(CMD_EPAGE)
  PROVE  Fulfils(Promise(CMD_EPAGE, rx, flash))
<1>. DEFINE address == _rx_u32(rx, 0)
            page    == address \div PageSize
            P       == Promise(CMD_EPAGE, rx, flash)
<1>1. rx \in Seq(Byte) /\ flash \in [AllPages -> Page]
  BY DEF Contents, Received, FlashTypes
<1>2. P = IF Len(rx) # 4 THEN Outcome(RES_BADARGS, <<>>, flash)
          ELSE OnOnePage(Number(SubSeq(rx, 1, 4)), flash, NoData)
  BY CommandsDiffer DEF Promise, OnPage, OnOnePage
<1>3. CASE Len(rx) # 4 /\ Refuse(RES_BADARGS)
  BY <1>2, <1>3, CodesKnown, RefuseFulfils DEF Fulfils
<1>. HIDE DEF P
<1>4. ASSUME Len(rx) = 4
      PROVE  address \in Nat /\ P = OnOnePage(address, flash, NoData)
  <2>1. Len(rx) >= 4
    BY <1>4
  <2>2. Number(SubSeq(rx, 1, 4)) = address /\ address \in Nat
    BY <1>1, <2>1, FirstWord, Zenon
  <2>. QED  BY <1>2, <1>4, <2>2, Zenon
<1>. HIDE DEF address
<1>5. CASE Len(rx) = 4 /\ ~NamesPage(address) /\ Refuse(RES_BADADDR)
  <2>1. P = Outcome(RES_BADADDR, <<>>, flash)
    BY <1>4, <1>5, NoPageChanged
  <2>. QED  BY <1>5, <2>1, CodesKnown, RefuseFulfils DEF Fulfils, P
<1>6. ASSUME Len(rx) = 4, NamesPage(address)
      PROVE  page \in AllPages /\ P = Outcome(RES_OK, <<>>, [flash EXCEPT ![page] = NoData])
  BY <1>1, <1>4, <1>6, OnePageNamed, OnePageChanged
<1>. HIDE DEF page
<1>7. CASE Len(rx) = 4 /\ NamesPage(address) /\ flash[page] = NoData /\ Answer(RES_OK, <<>>)
  <2>1. [flash EXCEPT ![page] = NoData] = flash
    BY <1>1, <1>6, <1>7
  <2>2. Refuse(RES_OK)
    BY <1>7 DEF Refuse
  <2>. QED  BY <1>6, <1>7, <2>1, <2>2, CodesKnown, RefuseFulfils DEF Fulfils, P
<1>8. CASE Len(rx) = 4 /\ NamesPage(address) /\ Erase(page, <<>>)
  <2>1. Target(<<>>) = NoData /\ <<>> \in Seq(Byte)
    BY DEF Target
  <2>2. Started(P)
    BY <1>6, <1>8, <2>1, EraseFulfils
  <2>. QED  BY <2>2 DEF Fulfils, P
<1>. QED  BY <1>3, <1>5, <1>7, <1>8, Zenon DEF ErasePage, address, page

\* A whole page replaces another.
LEMMA TargetIs ==
  ASSUME NEW s \in Seq(Byte), Len(s) = PageSize
  PROVE  Target(s) = Bytes(s)
<1>1. PageSize \in Nat /\ PageSize > 0
  BY SizesAre
<1>2. s # <<>>
  BY <1>1
<1>3. ASSUME NEW o \in Offsets
      PROVE  o \in 0 .. 0 + Len(s) - 1 /\ o - 0 + 1 = o + 1
  BY <1>1 DEF Offsets
<1>4. Patched(NoData, 0, s) = Bytes(s)
  BY <1>3 DEF Patched, Bytes
<1>. QED  BY <1>2, <1>4 DEF Target

LEMMA TargetOfPage ==
  ASSUME NEW page \in Page
  PROVE  Target(AsSeq(page)) = page
<1>1. AsSeq(page) \in Seq(Byte) /\ Len(AsSeq(page)) = PageSize
  BY AsSeqType
<1>2. ASSUME NEW o \in Offsets
      PROVE  AsSeq(page)[o + 1] = page[o]
  <2>1. o + 1 \in 1 .. PageSize /\ (o + 1) - 1 = o
    BY SizesAre DEF Offsets
  <2>. QED  BY <2>1 DEF AsSeq
<1>3. page = [o \in Offsets |-> page[o]]
  BY DEF Page
<1>4. Bytes(AsSeq(page)) = page
  BY <1>2, <1>3 DEF Bytes
<1>. QED  BY <1>1, <1>4, TargetIs

LEMMA WritePageFulfils ==
  ASSUME Contents, WritePage(CMD_WPAGE)
  PROVE  Fulfils(Promise(CMD_WPAGE, rx, flash))
<1>. DEFINE address == _rx_u32(rx, 0)
            page    == address \div PageSize
            next    == SubSeq(rx, 5, Len(rx))
            P       == Promise(CMD_WPAGE, rx, flash)
<1>1. rx \in Seq(Byte) /\ flash \in [AllPages -> Page] /\ PageSize \in Nat
      /\ Len(rx) \in Nat
  BY SizesAre DEF Contents, Received, FlashTypes
<1>2. P = IF Len(rx) # 4 + PageSize THEN Outcome(RES_BADARGS, <<>>, flash)
          ELSE OnOnePage(Number(SubSeq(rx, 1, 4)), flash, Bytes(next))
  BY CommandsDiffer DEF Promise, OnPage, OnOnePage
<1>3. CASE Len(rx) # PageSize + 4 /\ Refuse(RES_BADARGS)
  <2>1. P = Outcome(RES_BADARGS, <<>>, flash)
    BY <1>1, <1>2, <1>3
  <2>. QED  BY <1>3, <2>1, CodesKnown, RefuseFulfils DEF Fulfils
<1>. HIDE DEF P
<1>4. ASSUME Len(rx) = PageSize + 4
      PROVE  /\ address \in Nat /\ P = OnOnePage(address, flash, Bytes(next))
             /\ next \in Seq(Byte) /\ Len(next) = PageSize
  <2>1. Number(SubSeq(rx, 1, 4)) = address /\ address \in Nat
    BY <1>1, <1>4, FirstWord
  <2>2. next \in Seq(Byte) /\ Len(next) = PageSize
    BY <1>1, <1>4
  <2>3. Len(rx) = 4 + PageSize
    BY <1>1, <1>4
  <2>. QED  BY <1>2, <2>1, <2>2, <2>3, Zenon
<1>. HIDE DEF address, next
<1>5. CASE Len(rx) = PageSize + 4 /\ ~NamesPage(address) /\ Refuse(RES_BADADDR)
  <2>1. P = Outcome(RES_BADADDR, <<>>, flash)
    BY <1>4, <1>5, NoPageChanged
  <2>. QED  BY <1>5, <2>1, CodesKnown, RefuseFulfils DEF Fulfils, P
<1>6. ASSUME Len(rx) = PageSize + 4, NamesPage(address)
      PROVE  page \in AllPages /\ P = Outcome(RES_OK, <<>>, [flash EXCEPT ![page] = Bytes(next)])
  BY <1>1, <1>4, <1>6, OnePageNamed, OnePageChanged
<1>. HIDE DEF page
<1>7. CASE Len(rx) = PageSize + 4 /\ NamesPage(address) /\ Erase(page, next)
  <2>1. Started(P)
    BY <1>4, <1>6, <1>7, TargetIs, EraseFulfils
  <2>. QED  BY <2>1 DEF Fulfils, P
<1>. QED  BY <1>3, <1>5, <1>7, Zenon DEF WritePage, address, page, next

LEMMA QuotientIs ==
  ASSUME NEW n \in Nat \ {0}, NEW q \in Nat, NEW m \in 0 .. n - 1, NEW a, a = n * q + m
  PROVE  a \in Nat /\ a \div n = q /\ a % n = m
<1>1. a \in Nat /\ n * q \in Nat
  BY SMT
<1>. DEFINE p == a \div n
            l == a % n
<1>2. p \in Nat /\ l \in 0 .. n - 1 /\ a = n * p + l
  BY <1>1, Quotient, Zenon
<1>. HIDE DEF p, l
<1>3. n * p \in Nat /\ n * (p + 1) = n * p + n /\ n * (q + 1) = n * q + n
  BY <1>2
<1>4. ~(p + 1 <= q)
  <2>. SUFFICES ASSUME p + 1 <= q PROVE FALSE
    OBVIOUS
  <2>1. n * (p + 1) <= n * q
    BY <1>2
  <2>. QED  BY <1>1, <1>2, <1>3, <2>1
<1>5. ~(q + 1 <= p)
  <2>. SUFFICES ASSUME q + 1 <= p PROVE FALSE
    OBVIOUS
  <2>1. n * (q + 1) <= n * p
    BY <1>2
  <2>. QED  BY <1>1, <1>2, <1>3, <2>1
<1>6. p = q
  BY <1>2, <1>4, <1>5
<1>7. l = m
  BY <1>1, <1>2, <1>6
<1>. QED  BY <1>1, <1>6, <1>7 DEF p, l

\* An attribute lies in one page.
LEMMA AttributePlace ==
  ASSUME NEW idx \in Nat, idx < NumAttributes
  PROVE  LET page  == AttrAddress(idx) \div PageSize
             start == (idx % (PageSize \div AttrSize)) * AttrSize
         IN  /\ page \in Nat /\ start \in Nat /\ start + AttrSize <= PageSize
             /\ AttrAddress(idx) = page * PageSize + start
<1>1. AttrSize \in Nat \ {0} /\ PageSize \in Nat \ {0}
  BY SizesAre DEF AttrSize
<1>2. ALLOWED_ATTRIBUTE_FLOOR \in Nat /\ ALLOWED_ATTRIBUTE_FLOOR % PageSize = 0
      /\ PageSize % AttrSize = 0
  BY LegacyLayoutAssumption
<1>. DEFINE k == PageSize \div AttrSize
            f == ALLOWED_ATTRIBUTE_FLOOR \div PageSize
            q == idx \div k
            m == idx % k
            page  == AttrAddress(idx) \div PageSize
            start == m * AttrSize
<1>3. k \in Nat /\ PageSize = AttrSize * k
  <2>1. k \in Nat /\ PageSize = AttrSize * k + (PageSize % AttrSize)
    BY <1>1, Quotient, Zenon
  <2>. HIDE DEF k
  <2>. QED  BY <1>1, <1>2, <2>1
<1>4. f \in Nat /\ ALLOWED_ATTRIBUTE_FLOOR = PageSize * f
  <2>1. f \in Nat /\ ALLOWED_ATTRIBUTE_FLOOR = PageSize * f + (ALLOWED_ATTRIBUTE_FLOOR % PageSize)
    BY <1>1, <1>2, Quotient, Zenon
  <2>. HIDE DEF f
  <2>. QED  BY <1>1, <1>2, <2>1
<1>. HIDE DEF k, f
<1>5. k \in Nat \ {0}
  BY <1>1, <1>3
<1>6. q \in Nat /\ m \in 0 .. k - 1 /\ idx = k * q + m
  BY <1>5, Quotient, Zenon
<1>. HIDE DEF q, m
<1>7. start \in Nat /\ start + AttrSize <= PageSize
  <2>1. (m + 1) * AttrSize <= k * AttrSize
    BY <1>1, <1>5, <1>6
  <2>2. (m + 1) * AttrSize = m * AttrSize + AttrSize /\ k * AttrSize = AttrSize * k
        /\ m * AttrSize \in Nat
    BY <1>1, <1>5, <1>6
  <2>. QED  BY <1>1, <1>3, <2>1, <2>2
<1>8. AttrAddress(idx) = PageSize * (f + q) + start
  <2>1. idx * AttrSize = k * q * AttrSize + m * AttrSize
    BY <1>1, <1>5, <1>6
  <2>2. k * q * AttrSize = (AttrSize * k) * q
    BY <1>1, <1>5, <1>6
  <2>3. PageSize * (f + q) = PageSize * f + PageSize * q
    BY <1>1, <1>4, <1>6
  <2>4. idx * AttrSize = PageSize * q + start
    BY <1>3, <2>1, <2>2
  <2>5. PageSize * q \in Nat /\ PageSize * f \in Nat
    BY <1>1, <1>4, <1>6
  <2>. HIDE DEF start
  <2>. QED  BY <1>4, <1>7, <2>3, <2>4, <2>5 DEF AttrAddress
<1>. HIDE DEF start
<1>9. page = f + q
  <2>1. f + q \in Nat /\ start \in 0 .. PageSize - 1
    BY <1>1, <1>4, <1>6, <1>7
  <2>. DEFINE g == f + q
  <2>. HIDE DEF g
  <2>. QED  BY <1>1, <1>8, <2>1, QuotientIs DEF g
<1>10. page \in Nat /\ AttrAddress(idx) = page * PageSize + start
  <2>1. page \in Nat
    BY <1>4, <1>6, <1>9
  <2>. HIDE DEF page
  <2>2. AttrAddress(idx) = PageSize * page + start /\ PageSize * page = page * PageSize
    BY <1>1, <1>8, <1>9, <2>1
  <2>. QED  BY <2>1, <2>2
<1>. QED  BY <1>7, <1>10 DEF start, m, k

\* Bytes, and where in a page they are to be.
InPage(address, page, start, s) ==
  address = page * PageSize + start /\ start + Len(s) <= PageSize

\* Bytes stored at an address in a page change this page only.
StoresOne(mem, address, s, page, start) ==
  Stored(mem, address, s) = [mem EXCEPT ![page] = Patched(mem[page], start, s)]

LEMMA StoredIs ==
  ASSUME NEW mem \in [AllPages -> Page], NEW page \in AllPages, NEW start \in Nat,
         NEW s \in Seq(Byte), NEW address, InPage(address, page, start, s)
  PROVE  StoresOne(mem, address, s, page, start)
<1>0. address = page * PageSize + start /\ start + Len(s) <= PageSize
  BY DEF InPage
<1>1. PageSize \in Nat \ {0} /\ page \in Nat /\ AllPages \subseteq Nat
      /\ Offsets = 0 .. PageSize - 1 /\ Len(s) \in Nat
  BY SizesAre DEF AllPages, Offsets
<1>. DEFINE At(p) == [o \in Offsets |->
                       LET i == (p * PageSize + o) - address
                       IN  IF i \in 0 .. Len(s) - 1 THEN s[i + 1] ELSE mem[p][o]]
<1>2. At(page) = Patched(mem[page], start, s)
  <2>1. ASSUME NEW o \in Offsets
        PROVE  (page * PageSize + o) - address = o - start
    <3>. DEFINE base == page * PageSize
    <3>1. base \in Nat
      BY <1>1
    <3>. HIDE DEF base
    <3>. QED  BY <1>0, <1>1, <3>1 DEF base
  <2>2. ASSUME NEW o \in Offsets
        PROVE  o - start \in 0 .. Len(s) - 1 <=> o \in start .. start + Len(s) - 1
    BY <1>1
  <2>. QED  BY <2>1, <2>2 DEF Patched
<1>3. ASSUME NEW p \in AllPages, p # page
      PROVE  At(p) = mem[p]
  <2>1. p \in Nat
    BY <1>1
  <2>2. ASSUME NEW o \in Offsets
        PROVE  ~((p * PageSize + o) - address \in 0 .. Len(s) - 1)
    <3>. DEFINE a == p * PageSize
                b == page * PageSize
    <3>1. a \in Nat /\ b \in Nat
      BY <1>1, <2>1
    <3>2. CASE p < page
      <4>1. (p + 1) * PageSize <= b /\ (p + 1) * PageSize = a + PageSize
        BY <1>1, <2>1, <3>2
      <4>. HIDE DEF a, b
      <4>2. (a + o) - (b + start) < 0
        BY <1>0, <1>1, <3>1, <4>1
      <4>. QED  BY <1>0, <1>1, <4>2 DEF a, b
    <3>3. CASE p > page
      <4>1. (page + 1) * PageSize <= a /\ (page + 1) * PageSize = b + PageSize
        BY <1>1, <2>1, <3>3
      <4>. HIDE DEF a, b
      <4>2. (a + o) - (b + start) >= Len(s)
        BY <1>0, <1>1, <3>1, <4>1
      <4>. QED  BY <1>0, <1>1, <4>2 DEF a, b
    <3>. QED  BY <1>1, <1>3, <2>1, <3>2, <3>3
  <2>3. At(p) = [o \in Offsets |-> mem[p][o]]
    BY <2>2
  <2>4. mem[p] \in Page
    OBVIOUS
  <2>. QED  BY <2>3, <2>4 DEF Page
<1>4. Stored(mem, address, s) = [p \in AllPages |-> At(p)]
  BY <1>0 DEF Stored
<1>. HIDE DEF At
<1>. QED  BY <1>2, <1>3, <1>4 DEF StoresOne

LEMMA SetAttrFulfils ==
  ASSUME Contents, SetAttr(CMD_SATTR)
  PROVE  Fulfils(Promise(CMD_SATTR, rx, flash))
<1>. DEFINE idx   == rx[1]
            page  == AttrAddress(idx) \div PageSize
            start == (idx % (PageSize \div AttrSize)) * AttrSize
            new   == Patched(flash[page], start, Tail(rx))
            legal == idx < NumAttributes /\ rx[KeyLen + 2] <= ValueLen
            P     == Promise(CMD_SATTR, rx, flash)
<1>1. rx \in Seq(Byte) /\ flash \in [AllPages -> Page] /\ KeyLen \in Nat /\ ValueLen \in Nat
      /\ Len(rx) \in Nat
  BY SizesAre DEF Contents, Received, FlashTypes
<1>2. P = IF ~AttrArgs THEN Outcome(RES_BADARGS, <<>>, flash)
          ELSE IF idx >= NumAttributes \/ rx[KeyLen + 2] > ValueLen
          THEN Outcome(RES_BADADDR, <<>>, flash)
          ELSE Outcome(RES_OK, <<>>, Stored(flash, AttrAddress(idx), Tail(rx)))
  <2>1. P = IF Len(rx) < KeyLen + 2 \/ (Len(rx) >= KeyLen + 2 /\ Len(rx) # KeyLen + 2 + rx[KeyLen + 2])
            THEN Outcome(RES_BADARGS, <<>>, flash)
            ELSE IF idx >= NumAttributes \/ rx[KeyLen + 2] > ValueLen
            THEN Outcome(RES_BADADDR, <<>>, flash)
            ELSE Outcome(RES_OK, <<>>, Stored(flash, AttrAddress(idx), Tail(rx)))
    BY CommandsDiffer DEF Promise
  <2>2. ~AttrArgs <=> (Len(rx) < KeyLen + 2 \/ (Len(rx) >= KeyLen + 2 /\ Len(rx) # KeyLen + 2 + rx[KeyLen + 2]))
    BY <1>1 DEF AttrArgs
  <2>. HIDE DEF P, idx
  <2>. QED  BY <2>1, <2>2, Zenon
<1>. HIDE DEF P
<1>3. CASE ~AttrArgs /\ Refuse(RES_BADARGS)
  <2>1. P = Outcome(RES_BADARGS, <<>>, flash)
    BY <1>2, <1>3
  <2>. QED  BY <1>3, <2>1, CodesKnown, RefuseFulfils DEF Fulfils, P
<1>4. ASSUME AttrArgs
      PROVE  /\ idx \in Nat /\ rx[KeyLen + 2] \in Nat
             /\ Len(rx) = KeyLen + 2 + rx[KeyLen + 2]
             /\ Tail(rx) \in Seq(Byte) /\ Len(Tail(rx)) = KeyLen + 1 + rx[KeyLen + 2]
  <2>1. Len(rx) >= KeyLen + 2 /\ Len(rx) = KeyLen + 2 + rx[KeyLen + 2]
    BY <1>4 DEF AttrArgs
  <2>2. 1 \in 1 .. Len(rx) /\ KeyLen + 2 \in 1 .. Len(rx) /\ rx # <<>>
    BY <1>1, <2>1
  <2>3. idx \in Byte /\ rx[KeyLen + 2] \in Byte /\ Tail(rx) \in Seq(Byte)
        /\ Len(Tail(rx)) = Len(rx) - 1
    BY <1>1, <2>2
  <2>4. idx \in Nat /\ rx[KeyLen + 2] \in Nat
    <3>. HIDE DEF idx
    <3>. QED  BY <2>3, ByteIs
  <2>5. Len(Tail(rx)) = KeyLen + 1 + rx[KeyLen + 2]
    <3>. DEFINE n == Len(rx)
                m == Len(Tail(rx))
                l == rx[KeyLen + 2]
    <3>1. m = n - 1 /\ n = KeyLen + 2 + l /\ l \in Nat /\ KeyLen \in Nat
      BY <1>1, <2>1, <2>3, <2>4
    <3>. HIDE DEF n, m, l
    <3>2. m = KeyLen + 1 + l
      BY <3>1
    <3>. QED  BY <3>2 DEF m, l
  <2>. QED  BY <2>1, <2>3, <2>4, <2>5
<1>. HIDE DEF idx
<1>5. CASE AttrArgs /\ ~legal /\ Refuse(RES_BADADDR)
  <2>1. NumAttributes \in Nat
    BY LegacyLayoutAssumption
  <2>2. idx >= NumAttributes \/ rx[KeyLen + 2] > ValueLen
    BY <1>1, <1>4, <1>5, <2>1
  <2>3. P = Outcome(RES_BADADDR, <<>>, flash)
    BY <1>2, <1>5, <2>2, Zenon
  <2>. QED  BY <1>5, <2>3, CodesKnown, RefuseFulfils DEF Fulfils, P
<1>6. CASE AttrArgs /\ legal /\ Erase(page, AsSeq(new))
  <2>1. ~(idx >= NumAttributes) /\ ~(rx[KeyLen + 2] > ValueLen)
    BY <1>1, <1>4, <1>6, LegacyLayoutAssumption
  <2>2. P = Outcome(RES_OK, <<>>, Stored(flash, AttrAddress(idx), Tail(rx)))
    BY <1>2, <1>6, <2>1, Zenon
  <2>3. page \in AllPages
    BY <1>4, <1>6, AttributePage, TouchableInFlash DEF Touchable
  <2>4. /\ start \in Nat /\ start + AttrSize <= PageSize
        /\ AttrAddress(idx) = page * PageSize + start
    BY <1>4, <1>6, AttributePlace
  <2>. HIDE DEF page, start
  <2>5. start + Len(Tail(rx)) <= PageSize
    BY <1>1, <1>4, <1>6, <2>1, <2>4, SizesAre DEF AttrSize
  <2>6. Stored(flash, AttrAddress(idx), Tail(rx)) = [flash EXCEPT ![page] = new]
    <3>. DEFINE t == Tail(rx)
                a == AttrAddress(idx)
    <3>1. t \in Seq(Byte) /\ start + Len(t) <= PageSize /\ a = page * PageSize + start
      BY <1>4, <1>6, <2>4, <2>5
    <3>. HIDE DEF t, a
    <3>2. Stored(flash, a, t) = [flash EXCEPT ![page] = Patched(flash[page], start, t)]
      <4>1. start \in Nat /\ flash \in [AllPages -> Page] /\ page \in AllPages
        BY <1>1, <2>3, <2>4
      <4>2. t \in Seq(Byte) /\ InPage(a, page, start, t)
        BY <3>1 DEF InPage
      <4>3. StoresOne(flash, a, t, page, start)
        BY <4>1, <4>2, StoredIs, Zenon
      <4>. QED  BY <4>3 DEF StoresOne
    <3>. QED  BY <3>2 DEF t, a
  <2>7. new \in Page
    BY <1>1, <1>4, <1>6, <2>3, <2>4, PatchedType
  <2>. HIDE DEF new
  <2>8. AsSeq(new) \in Seq(Byte) /\ Target(AsSeq(new)) = new
    BY <2>7, AsSeqType, TargetOfPage
  <2>9. Started(P)
    BY <1>6, <2>2, <2>3, <2>6, <2>8, EraseFulfils
  <2>. QED  BY <2>9 DEF Fulfils, P
<1>. QED  BY <1>3, <1>5, <1>6, Zenon DEF SetAttr, idx

AreJoined(x, y, z, k, l) ==
  /\ z \in Seq(Byte) /\ Len(z) = k + l
  /\ \A i \in 1 .. k : z[i] = x[i]
  /\ \A i \in 1 .. l : z[k + i] = y[i]

LEMMA ConcatPlaces ==
  ASSUME NEW x \in Seq(Byte), NEW y \in Seq(Byte), NEW k \in Nat, NEW l \in Nat, NEW z,
         z = x \o y, k = Len(x), l = Len(y)
  PROVE  AreJoined(x, y, z, k, l)
BY DEF AreJoined

LEMMA WriteUserFulfils ==
  ASSUME Contents, WriteUser(CMD_WUSER)
  PROVE  Fulfils(Promise(CMD_WUSER, rx, flash))
<1>. DEFINE next == SubSeq(rx, 5, 8) \o SubSeq(rx, 1, 4)
            P    == Promise(CMD_WUSER, rx, flash)
<1>1. rx \in Seq(Byte) /\ flash \in [AllPages -> Page] /\ UserPage \in AllPages
  BY TouchableInFlash DEF Contents, Received, FlashTypes, Touchable
<1>2. P = IF Len(rx) # 8 THEN Outcome(RES_BADARGS, <<>>, flash)
          ELSE Outcome(RES_OK, <<>>, [flash EXCEPT ![UserPage] = UserPageWith(rx)])
  BY CommandsDiffer DEF Promise
<1>. HIDE DEF P
<1>3. CASE Len(rx) # 8 /\ Refuse(RES_BADARGS)
  BY <1>2, <1>3, CodesKnown, RefuseFulfils DEF Fulfils, P
<1>4. CASE Len(rx) = 8 /\ Erase(UserPage, next)
  <2>. DEFINE x == SubSeq(rx, 5, 8)
              y == SubSeq(rx, 1, 4)
  <2>0. /\ x \in Seq(Byte) /\ Len(x) = 4 /\ \A i \in 1 .. 4 : x[i] = rx[i + 4]
        /\ y \in Seq(Byte) /\ Len(y) = 4 /\ \A i \in 1 .. 4 : y[i] = rx[i]
    <3>1. /\ SubSeq(rx, 4 + 1, 4 + 4) = x /\ SubSeq(rx, 0 + 1, 0 + 4) = y
          /\ 4 \in Nat /\ 0 \in Nat /\ 4 + 4 <= Len(rx) /\ 0 + 4 <= Len(rx)
      BY <1>4
    <3>2. /\ x \in Seq(Byte) /\ Len(x) = 4 /\ \A i \in 1 .. 4 : x[i] = rx[4 + i]
          /\ y \in Seq(Byte) /\ Len(y) = 4 /\ \A i \in 1 .. 4 : y[i] = rx[0 + i]
      <4>. HIDE DEF x, y
      <4>. QED  BY <1>1, <3>1, SubBytes
    <3>. HIDE DEF x, y
    <3>. QED  BY <3>2
  <2>. HIDE DEF x, y
  <2>1. /\ next \in Seq(Byte) /\ Len(next) = 8
        /\ \A i \in 1 .. 4 : next[i] = x[i]
        /\ \A i \in 5 .. 8 : next[i] = y[i - 4] /\ i - 4 \in 1 .. 4
    <3>1. next = x \o y
      BY DEF x, y
    <3>. DEFINE k == Len(x)
                l == Len(y)
    <3>2. k = 4 /\ l = 4 /\ k \in Nat /\ l \in Nat /\ k = Len(x) /\ l = Len(y)
      BY <2>0
    <3>. HIDE DEF next, k, l
    <3>3. AreJoined(x, y, next, k, l)
      <4>1. x \in Seq(Byte) /\ y \in Seq(Byte)
        BY <2>0
      <4>. QED  BY <3>1, <3>2, <4>1, ConcatPlaces, Zenon
    <3>4. ASSUME NEW i \in 5 .. 8
          PROVE  next[i] = y[i - 4] /\ i - 4 \in 1 .. 4
      <4>1. i - 4 \in 1 .. l /\ k + (i - 4) = i
        BY <3>2
      <4>2. next[k + (i - 4)] = y[i - 4]
        BY <3>3, <4>1 DEF AreJoined
      <4>. QED  BY <3>2, <4>1, <4>2
    <3>5. next \in Seq(Byte) /\ Len(next) = 8
      <4>1. next \in Seq(Byte) /\ Len(next) = k + l
        BY <3>3, Zenon DEF AreJoined
      <4>. DEFINE n == Len(next)
      <4>. HIDE DEF n
      <4>2. n = k + l
        BY <4>1, Zenon DEF n
      <4>3. k = 4 /\ l = 4
        BY <3>2, Zenon
      <4>4. n = 8
        BY <4>2, <4>3
      <4>. QED  BY <4>1, <4>4, Zenon DEF n
    <3>6. \A i \in 1 .. 4 : next[i] = x[i]
      <4>1. \A i \in 1 .. k : next[i] = x[i]
        BY <3>3, Zenon DEF AreJoined
      <4>. QED  BY <3>2, <4>1, Zenon
    <3>. QED  BY <3>4, <3>5, <3>6, Zenon
  <2>2. /\ \A i \in 1 .. 4 : next[i] = rx[i + 4]
        /\ \A i \in 5 .. 8 : next[i] = rx[i - 4]
    <3>. HIDE DEF next
    <3>. QED  BY <2>0, <2>1
  <2>. HIDE DEF next
  <2>3. ASSUME NEW o \in Offsets
        PROVE  (IF o \in 0 .. 0 + Len(next) - 1 THEN next[o - 0 + 1] ELSE NoData[o])
                 = IF o < 4 THEN rx[o + 5] ELSE IF o < 8 THEN rx[o - 3] ELSE Erased
    <3>1. o \in Nat
      BY SizesAre DEF Offsets
    <3>2. CASE o < 4
      <4>1. o + 1 \in 1 .. 4 /\ o \in 0 .. 0 + Len(next) - 1 /\ o - 0 + 1 = o + 1
            /\ (o + 1) + 4 = o + 5
        BY <2>1, <3>1, <3>2
      <4>2. next[o + 1] = rx[o + 5]
        BY <2>2, <4>1
      <4>. QED  BY <3>2, <4>1, <4>2
    <3>3. CASE ~(o < 4) /\ o < 8
      <4>1. o + 1 \in 5 .. 8 /\ o \in 0 .. 0 + Len(next) - 1 /\ o - 0 + 1 = o + 1
            /\ (o + 1) - 4 = o - 3
        BY <2>1, <3>1, <3>3
      <4>2. next[o + 1] = rx[o - 3]
        BY <2>2, <4>1
      <4>. QED  BY <3>3, <4>1, <4>2
    <3>4. CASE ~(o < 8)
      <4>1. ~(o \in 0 .. 0 + Len(next) - 1) /\ ~(o < 4)
        BY <2>1, <3>1, <3>4
      <4>. QED  BY <3>4, <4>1 DEF NoData
    <3>. QED  BY <3>2, <3>3, <3>4
  <2>4. next # <<>>
    <3>1. Len(<<>>) = 0 /\ 8 # 0
      OBVIOUS
    <3>2. Len(next) = 8
      BY <2>1, Zenon
    <3>. QED  BY <3>1, <3>2, Zenon
  <2>5. Target(next) = UserPageWith(rx)
    BY <2>3, <2>4 DEF Target, Patched, UserPageWith
  <2>6. P = Outcome(RES_OK, <<>>, [flash EXCEPT ![UserPage] = Target(next)])
    BY <1>2, <1>4, <2>5
  <2>7. Started(P)
    BY <1>1, <1>4, <2>1, <2>6, EraseFulfils
  <2>. QED  BY <2>7 DEF Fulfils, P
<1>. QED  BY <1>3, <1>4, Zenon DEF WriteUser

-----------------------------------------------------------------------------
(* Each command, at the code of bl_commands.c that runs it.                 *)

LEMMA PingFulfils ==
  ASSUME Ping(CMD_PING)
  PROVE  Fulfils(Promise(CMD_PING, rx, flash))
<1>1. Promise(CMD_PING, rx, flash) = Outcome(RES_PONG, <<>>, flash)
  BY CommandsDiffer DEF Promise
<1>2. Refuse(RES_PONG)
  BY DEF Ping, Refuse
<1>. QED  BY <1>1, <1>2, CodesKnown, RefuseFulfils DEF Fulfils

LEMMA InfoFulfils ==
  ASSUME Contents, Info(CMD_INFO)
  PROVE  Fulfils(Promise(CMD_INFO, rx, flash))
<1>. DEFINE dat == InfoData(flash)
<1>1. Promise(CMD_INFO, rx, flash) = Outcome(RES_INFO, dat, flash)
  BY CommandsDiffer DEF Promise
<1>2. dat \in Seq(Byte) /\ Len(dat) = InfoLen + 1
  BY InfoDataType DEF Contents, FlashTypes
<1>3. Answer(RES_INFO, dat)
  BY DEF Info
<1>. HIDE DEF dat
<1>4. Fits(dat)
  BY <1>2, ReplyAssumption, SizeAssumption DEF Fits
<1>. QED  BY <1>1, <1>2, <1>3, <1>4, CodesKnown, AnswerFulfils DEF Fulfils

\* ID and RESET leave nothing to send.
LEMMA IdFulfils ==
  ASSUME tx = <<>>, Id(CMD_ID)
  PROVE  Fulfils(Promise(CMD_ID, rx, flash))
<1>1. Promise(CMD_ID, rx, flash) = [reply |-> <<>>, flash |-> flash]
  BY CommandsDiffer DEF Promise
<1>. QED  BY <1>1 DEF Id, Fulfils, Replied, flashVars

LEMMA ResetFulfils ==
  ASSUME Reset(CMD_RESET)
  PROVE  Fulfils(Promise(CMD_RESET, rx, flash))
<1>1. Promise(CMD_RESET, rx, flash) = [reply |-> <<>>, flash |-> flash]
  BY CommandsDiffer DEF Promise
<1>. QED  BY <1>1 DEF Reset, Fulfils, Replied, flashVars

LEMMA UnknownFulfils ==
  ASSUME NEW b, Unknown(b)
  PROVE  Fulfils(Promise(b, rx, flash))
<1>1. Promise(b, rx, flash) = Outcome(RES_UNKNOWN, <<>>, flash)
  BY DEF Promise, Unknown
<1>. QED  BY <1>1, CodesKnown, RefuseFulfils DEF Fulfils, Unknown

LEMMA CrcRxData ==
  ASSUME CrcBytes, Contents
  PROVE  LET dat == <<Len(rx) % ByteValues, Len(rx) \div ByteValues>> \o CrcOfRx
         IN  dat \in Seq(Byte) /\ Len(dat) = 6
<1>. DEFINE n   == Len(rx)
            x   == <<n % ByteValues, n \div ByteValues>>
<1>1. rx \in Seq(Byte) /\ n \in Nat /\ n < ByteValues * ByteValues
  <2>1. rx \in Seq(Byte) /\ n <= RXBUFSZ /\ n \in Nat
    BY DEF Contents, Received
  <2>2. RXBUFSZ < ByteValues * ByteValues /\ ByteValues * ByteValues \in Nat
    BY SizeAssumption
  <2>. HIDE DEF n
  <2>. QED  BY <2>1, <2>2, SizesAre
<1>2. n % ByteValues \in Byte /\ n \div ByteValues \in Byte
  <2>. HIDE DEF n
  <2>1. ByteValues \in Nat \ {0}
    BY ByteIs
  <2>. DEFINE q == n \div ByteValues
  <2>2. /\ q \in Nat /\ n % ByteValues \in 0 .. ByteValues - 1
        /\ n = ByteValues * q + (n % ByteValues)
    BY <1>1, <2>1, Quotient, Zenon
  <2>. HIDE DEF q
  <2>3. q * ByteValues < ByteValues * ByteValues
    <3>1. ByteValues * ByteValues \in Nat /\ q * ByteValues \in Nat
          /\ ByteValues * q = q * ByteValues
      BY <2>1, <2>2
    <3>. PICK rest \in 0 .. ByteValues - 1 : rest = n % ByteValues
      BY <2>2
    <3>. QED  BY <1>1, <2>1, <2>2, <3>1
  <2>4. q < ByteValues
    BY <2>1, <2>2, <2>3, Below
  <2>. QED  BY <2>2, <2>4, ByteIs DEF q
<1>3. CrcOfRx \in Seq(Byte) /\ Len(CrcOfRx) = 4
  <2>1. [i \in 1 .. 4 |-> Erased] \in Seq(Byte) /\ Len([i \in 1 .. 4 |-> Erased]) = 4
    BY ErasedIsByte
  <2>. QED  BY <1>1, <2>1 DEF CrcOfRx, CrcBytes
<1>. HIDE DEF n
<1>4. x \in Seq(Byte) /\ Len(x) = 2
  BY <1>2
<1>. HIDE DEF x
<1>5. x \o CrcOfRx \in Seq(Byte) /\ Len(x \o CrcOfRx) = Len(x) + Len(CrcOfRx)
  BY <1>3, <1>4, ConcatProperties
<1>6. Len(x \o CrcOfRx) = 6
  BY <1>3, <1>4, <1>5
<1>. QED  BY <1>5, <1>6 DEF x, n

LEMMA CrcRxFulfils ==
  ASSUME CrcBytes, Contents, CrcRx(CMD_CRCRX)
  PROVE  Fulfils(Promise(CMD_CRCRX, rx, flash))
<1>. DEFINE dat == <<Len(rx) % ByteValues, Len(rx) \div ByteValues>> \o CrcOfRx
<1>1. CrcOfRx = IF Len(rx) = 0 THEN [i \in 1 .. 4 |-> Erased] ELSE crc32(rx)
  <2>1. rx = <<>> <=> Len(rx) = 0
    BY DEF Contents, Received
  <2>. QED  BY <2>1 DEF CrcOfRx
<1>2. Promise(CMD_CRCRX, rx, flash)
        = Outcome(RES_CRCRX, <<Len(rx) % ByteValues, Len(rx) \div ByteValues>>
            \o (IF Len(rx) = 0 THEN [i \in 1 .. 4 |-> Erased] ELSE crc32(rx)), flash)
  BY CommandsDiffer DEF Promise
<1>3. Promise(CMD_CRCRX, rx, flash) = Outcome(RES_CRCRX, dat, flash)
  BY <1>1, <1>2, Zenon
<1>4. dat \in Seq(Byte) /\ Len(dat) = 6
  BY CrcRxData
<1>5. Answer(RES_CRCRX, dat)
  BY DEF CrcRx
<1>. HIDE DEF dat
<1>6. Fits(dat)
  BY <1>4, ReplyAssumption DEF Fits
<1>. QED  BY <1>3, <1>4, <1>5, <1>6, CodesKnown, AnswerFulfils DEF Fulfils

\* The two numbers of RRANGE, and where the range ends.
LEMMA RangeIs ==
  ASSUME Contents, Len(rx) = 6
  PROVE  LET length  == _rx_u16(rx, 4)
             address == _rx_u32(rx, 0)
             end     == (address + length) % Word
         IN  /\ length \in Nat /\ address \in Nat /\ end \in Nat
             /\ Number(SubSeq(rx, 1, 4)) = address
             /\ Number(SubSeq(rx, 5, Len(rx))) = length
             /\ end <= address + length
             /\ address <= end => address + length = end
<1>. DEFINE length  == _rx_u16(rx, 4)
            address == _rx_u32(rx, 0)
            end     == (address + length) % Word
<1>0. rx \in Seq(Byte)
  BY DEF Contents, Received
<1>1. /\ Number(SubSeq(rx, 1, 4)) = address
      /\ address \in 0 .. Word - 1 /\ address \in Nat
  <2>1. Len(rx) >= 4
    OBVIOUS
  <2>. QED  BY <1>0, <2>1, FirstWord, Zenon
<1>2. length \in 0 .. ByteValues * ByteValues - 1 /\ Number(SubSeq(rx, 5, Len(rx))) = length
  <2>1. 4 \in Nat /\ 4 + 2 <= Len(rx) /\ 4 + 1 = 5 /\ 4 + 2 = Len(rx)
    OBVIOUS
  <2>2. Number(SubSeq(rx, 4 + 1, 4 + 2)) = length
    BY <1>0, <2>1, NumberOfTwo
  <2>. QED  BY <1>0, <2>1, <2>2, HalfWordType
<1>3. ByteValues * ByteValues \in Nat /\ ByteValues * ByteValues <= Word
  <2>. DEFINE BB == ByteValues * ByteValues
  <2>1. BB \in Nat /\ BB >= 1
    BY ByteIs
  <2>2. Word = BB * BB
    BY ByteIs DEF Word
  <2>. HIDE DEF BB
  <2>3. BB * BB >= BB
    BY <2>1
  <2>. QED  BY <2>1, <2>2, <2>3 DEF BB
<1>4. length \in Nat /\ length \in 0 .. Word - 1
  BY <1>2, <1>3, WordIs
<1>. HIDE DEF length, address
<1>5. end \in Nat /\ end <= address + length
  <2>. DEFINE x == address + length
  <2>1. x \in Nat /\ Word \in Nat \ {0} /\ x < 2 * Word
    BY <1>1, <1>4, WordIs
  <2>. HIDE DEF x
  <2>2. x % Word = IF x < Word THEN x ELSE x - Word
    BY <2>1, ModOnce
  <2>3. x % Word \in Nat /\ x % Word <= x
    BY <2>1, <2>2
  <2>. QED  BY <2>3 DEF x
<1>6. address <= end => address + length = end
  BY <1>1, <1>4, NoWrap
<1>. QED  BY <1>1, <1>2, <1>4, <1>5, <1>6 DEF length, address

LEMMA ReadRangeFulfils ==
  ASSUME Contents, ReadRange(CMD_RRANGE)
  PROVE  Fulfils(Promise(CMD_RRANGE, rx, flash)) \/ ReadsPastEnd
<1>. DEFINE length  == _rx_u16(rx, 4)
            address == _rx_u32(rx, 0)
            end     == (address + length) % Word
            short   == Len(rx) = 6 /\ length < TXBUFSZ \div 2
            dat     == Memory(flash, address, length)
            P       == Promise(CMD_RRANGE, rx, flash)
            count   == Number(SubSeq(rx, 5, Len(rx)))
            start   == Number(SubSeq(rx, 1, 4))
<1>1. P = IF Len(rx) # 6 \/ count >= TXBUFSZ \div 2 THEN Outcome(RES_BADARGS, <<>>, flash)
          ELSE IF start + count > FlashSize THEN Outcome(RES_BADADDR, <<>>, flash)
          ELSE Outcome(RES_RRANGE, Memory(flash, start, count), flash)
  BY CommandsDiffer DEF Promise
<1>. HIDE DEF P
<1>2. ASSUME Len(rx) = 6
      PROVE  /\ length \in Nat /\ address \in Nat /\ end \in Nat
             /\ start = address /\ count = length
             /\ end <= address + length
             /\ address <= end => address + length = end
  BY <1>2, RangeIs
<1>3. FlashSize \in Nat /\ ALLOWED_FLASH_CEILING + 1 = FlashSize
  BY SizeAssumption DEF FlashSize, ALLOWED_FLASH_CEILING
<1>4. TXBUFSZ \in Nat /\ TXBUFSZ \div 2 \in Nat /\ 2 * (TXBUFSZ \div 2) <= TXBUFSZ
  BY SizesAre
<1>. HIDE DEF length, address, end, count, start
<1>5. CASE ~short /\ Refuse(RES_BADARGS)
  <2>1. Len(rx) # 6 \/ count >= TXBUFSZ \div 2
    BY <1>2, <1>4, <1>5
  <2>2. P = Outcome(RES_BADARGS, <<>>, flash)
    BY <1>1, <2>1, Zenon
  <2>. QED  BY <1>5, <2>2, CodesKnown, RefuseFulfils DEF Fulfils, P
<1>6. CASE short /\ end > ALLOWED_FLASH_CEILING + 1 /\ Refuse(RES_BADADDR)
  <2>1. Len(rx) = 6 /\ ~(count >= TXBUFSZ \div 2) /\ start + count > FlashSize
    BY <1>2, <1>3, <1>4, <1>6
  <2>2. P = Outcome(RES_BADADDR, <<>>, flash)
    BY <1>1, <2>1, Zenon
  <2>. QED  BY <1>6, <2>2, CodesKnown, RefuseFulfils DEF Fulfils, P
<1>7. CASE /\ short /\ end <= ALLOWED_FLASH_CEILING + 1 /\ address <= end
           /\ Answer(RES_RRANGE, dat)
  <2>1. /\ Len(rx) = 6 /\ ~(count >= TXBUFSZ \div 2) /\ ~(start + count > FlashSize)
        /\ address + length <= FlashSize /\ length < TXBUFSZ \div 2
    BY <1>2, <1>3, <1>4, <1>7
  <2>2. start = address /\ count = length /\ address \in Nat /\ length \in Nat
    BY <1>2, <2>1
  <2>3. P = Outcome(RES_RRANGE, dat, flash)
    BY <1>1, <2>1, <2>2, Zenon
  <2>4. dat \in Seq(Byte) /\ Len(dat) = length
    BY <2>1, <2>2, MemoryType DEF Contents, FlashTypes
  <2>. HIDE DEF dat
  <2>5. Fits(dat)
    BY <1>4, <2>1, <2>2, <2>4 DEF Fits
  <2>. QED  BY <1>7, <2>3, <2>4, <2>5, CodesKnown, AnswerFulfils DEF Fulfils, P
<1>8. CASE job' = Fault /\ UNCHANGED <<tx, baudVars, flashVars>>
  BY <1>8 DEF ReadsPastEnd, flashVars
<1>. QED  BY <1>5, <1>6, <1>7, <1>8, Zenon DEF ReadRange, length, address, end

LEMMA GetAttrFulfils ==
  ASSUME Contents, GetAttr(CMD_GATTR)
  PROVE  Fulfils(Promise(CMD_GATTR, rx, flash))
<1>. DEFINE idx == rx[1]
            dat == Memory(flash, AttrAddress(idx), AttrSize)
            P   == Promise(CMD_GATTR, rx, flash)
<1>1. P = IF Len(rx) # 1 THEN Outcome(RES_BADARGS, <<>>, flash)
          ELSE IF idx >= NumAttributes THEN Outcome(RES_BADADDR, <<>>, flash)
          ELSE Outcome(RES_GATTR, dat, flash)
  BY CommandsDiffer DEF Promise
<1>. HIDE DEF P
<1>2. rx \in Seq(Byte) /\ flash \in [AllPages -> Page] /\ NumAttributes \in Nat
  BY LegacyLayoutAssumption DEF Contents, Received, FlashTypes
<1>3. CASE Len(rx) # 1 /\ Refuse(RES_BADARGS)
  BY <1>1, <1>3, CodesKnown, RefuseFulfils DEF Fulfils, P
<1>4. CASE Len(rx) = 1 /\ idx >= NumAttributes /\ Refuse(RES_BADADDR)
  BY <1>1, <1>4, CodesKnown, RefuseFulfils DEF Fulfils, P
<1>5. CASE Len(rx) = 1 /\ idx < NumAttributes /\ Answer(RES_GATTR, dat)
  <2>1. idx \in Nat
    <3>1. 1 \in 1 .. Len(rx)
      BY <1>5
    <3>2. idx \in 0 .. ByteValues - 1
      BY <1>2, <3>1, BytesAre
    <3>. HIDE DEF idx
    <3>. QED  BY <3>2, ByteIs
  <2>. HIDE DEF idx
  <2>2. P = Outcome(RES_GATTR, dat, flash)
    BY <1>1, <1>2, <1>5, <2>1
  <2>3. /\ AttrAddress(idx) \in Nat /\ AttrSize \in Nat
        /\ AttrAddress(idx) + AttrSize <= FlashSize
    BY <1>5, <2>1, AttributeInFlash
  <2>4. dat \in Seq(Byte) /\ Len(dat) = AttrSize
    BY <1>2, <2>3, MemoryType
  <2>. HIDE DEF dat
  <2>5. Fits(dat)
    BY <2>3, <2>4, ReplyAssumption DEF Fits
  <2>. QED  BY <1>5, <2>2, <2>4, <2>5, CodesKnown, AnswerFulfils DEF Fulfils, P
<1>. QED  BY <1>3, <1>4, <1>5, Zenon DEF GetAttr, idx, dat

LEMMA CrcIntFlashFulfils ==
  ASSUME CrcBytes, Contents, CrcIntFlash(CMD_CRCIF)
  PROVE  Fulfils(Promise(CMD_CRCIF, rx, flash))
<1>. DEFINE base == _rx_u32(rx, 0)
            len  == _rx_u32(rx, 4)
            sum  == (base + len) % Word
            outside == \/ base >= ALLOWED_FLASH_CEILING
                       \/ sum > ALLOWED_FLASH_CEILING + 1
                       \/ len >= FlashSize
            dat   == Memory(flash, base, len)
            P     == Promise(CMD_CRCIF, rx, flash)
            count == Number(SubSeq(rx, 5, Len(rx)))
            start == Number(SubSeq(rx, 1, 4))
<1>0. rx \in Seq(Byte) /\ flash \in [AllPages -> Page]
  BY DEF Contents, Received, FlashTypes
<1>1. P = IF Len(rx) # 8 THEN Outcome(RES_BADARGS, <<>>, flash)
          ELSE IF \/ start >= FlashSize - 1 \/ start + count > FlashSize
                  \/ count >= FlashSize
          THEN Outcome(RES_BADADDR, <<>>, flash)
          ELSE Outcome(RES_CRCIF, crc32(Memory(flash, start, count)), flash)
  BY CommandsDiffer DEF Promise
<1>. HIDE DEF P
<1>2. ASSUME Len(rx) = 8
      PROVE  /\ start = base /\ base \in 0 .. Word - 1 /\ base \in Nat
             /\ count = len /\ len \in 0 .. Word - 1 /\ len \in Nat
  <2>1. start = base /\ base \in 0 .. Word - 1 /\ base \in Nat
    <3>1. Len(rx) >= 4
      BY <1>2
    <3>. QED  BY <1>0, <3>1, FirstWord, Zenon
  <2>2. count = len /\ len \in 0 .. Word - 1
    <3>1. 4 \in Nat /\ 4 + 4 <= Len(rx) /\ 4 + 1 = 5 /\ 4 + 4 = Len(rx)
      BY <1>2
    <3>2. Number(SubSeq(rx, 4 + 1, 4 + 4)) = len
      BY <1>0, <3>1, NumberOfFour
    <3>. QED  BY <1>0, <3>1, <3>2, WordType
  <2>. HIDE DEF len
  <2>3. len \in Nat
    BY <2>2, WordIs
  <2>. QED  BY <2>1, <2>2, <2>3
<1>3. /\ FlashSize \in Nat /\ ALLOWED_FLASH_CEILING = FlashSize - 1
      /\ 2 * FlashSize <= Word /\ Word \in Nat \ {0}
  BY SizeAssumption, WordIs DEF FlashSize, ALLOWED_FLASH_CEILING
<1>. HIDE DEF base, len, start, count
<1>4. ASSUME Len(rx) = 8
      PROVE  outside <=> \/ start >= FlashSize - 1 \/ start + count > FlashSize
                         \/ count >= FlashSize
  <2>1. CASE base >= FlashSize - 1 \/ len >= FlashSize
    BY <1>2, <1>3, <1>4, <2>1
  <2>2. CASE base < FlashSize - 1 /\ len < FlashSize
    <3>1. sum = base + len
      <4>. DEFINE x == base + len
      <4>1. x \in Nat /\ x < 2 * Word /\ x < Word
        BY <1>2, <1>3, <1>4, <2>2
      <4>. HIDE DEF x
      <4>2. x % Word = x
        BY <1>3, <4>1, ModOnce
      <4>. QED  BY <4>2 DEF x
    <3>. HIDE DEF sum
    <3>. QED  BY <1>2, <1>3, <1>4, <2>2, <3>1
  <2>. QED  BY <1>2, <1>3, <1>4, <2>1, <2>2
<1>. HIDE DEF outside
<1>5. CASE Len(rx) # 8 /\ Refuse(RES_BADARGS)
  BY <1>1, <1>5, CodesKnown, RefuseFulfils DEF Fulfils, P
<1>6. CASE Len(rx) = 8 /\ outside /\ Refuse(RES_BADADDR)
  <2>1. P = Outcome(RES_BADADDR, <<>>, flash)
    BY <1>1, <1>4, <1>6, Zenon
  <2>. QED  BY <1>6, <2>1, CodesKnown, RefuseFulfils DEF Fulfils, P
<1>7. CASE Len(rx) = 8 /\ ~outside /\ Answer(RES_CRCIF, crc32(dat))
  <2>1. /\ start = base /\ count = len /\ base \in Nat /\ len \in Nat
        /\ base + len <= FlashSize
    BY <1>2, <1>3, <1>4, <1>7
  <2>2. P = Outcome(RES_CRCIF, crc32(dat), flash)
    BY <1>1, <1>4, <1>7, <2>1, Zenon
  <2>3. dat \in Seq(Byte)
    BY <1>0, <2>1, MemoryType
  <2>. HIDE DEF dat
  <2>. DEFINE crc == crc32(dat)
  <2>4. crc \in Seq(Byte) /\ Len(crc) = 4
    BY <2>3 DEF CrcBytes
  <2>. HIDE DEF crc
  <2>5. Fits(crc)
    <3>1. 2 + 2 * 4 <= TXBUFSZ
      BY ReplyAssumption, SizesAre
    <3>. QED  BY <2>4, <3>1, Zenon DEF Fits
  <2>6. Answer(RES_CRCIF, crc) /\ P = Outcome(RES_CRCIF, crc, flash)
    BY <1>7, <2>2, Zenon DEF crc
  <2>. QED  BY <2>4, <2>5, <2>6, CodesKnown, AnswerFulfils DEF Fulfils, P
<1>. QED  BY <1>5, <1>6, <1>7, Zenon DEF CrcIntFlash, outside, base, len

LEMMA SayIs ==
  ASSUME NEW code \in ReplyCodes, Say(code)
  PROVE  tx' = <<ESCAPE_CHAR, code>>
<1>. DEFINE empty == <<>>
            h == <<ESCAPE_CHAR, code>>
<1>1. empty \in Seq(Byte) /\ Len(empty) = 0 /\ Escaped(empty) = empty
  BY EscapedEmpty
<1>2. Fits(empty)
  BY <1>1, SizesAre DEF Fits
<1>3. tx' = _escape_set(empty, code) /\ code \in Byte
  BY ReplyCodesAreBytes DEF Say
<1>4. h \in Seq(Byte) /\ h \o <<>> = h
  <2>1. h \in Seq(Byte)
    BY ErasedIsByte, ReplyCodesAreBytes
  <2>. HIDE DEF h
  <2>. QED  BY <2>1, ConcatEmptySeq
<1>. HIDE DEF empty
<1>5. _escape_set(empty, code) = h \o Escaped(empty)
  BY <1>1, <1>2, <1>3, ReplyIs
<1>. QED  BY <1>1, <1>3, <1>4, <1>5 DEF empty

\* A change of rate is answered before it is made.
LEMMA ChangeBaudFulfils ==
  ASSUME change_baud_state = "IDLE", ChangeBaud(CMD_CHANGE_BAUD)
  PROVE  Fulfils(Promise(CMD_CHANGE_BAUD, rx, flash))
<1>. DEFINE P   == Promise(CMD_CHANGE_BAUD, rx, flash)
            new == Len(rx) = 5 /\ rx[1] = CHANGE_BAUD_SUBCMD_NEW
            rate == _rx_u32(rx, 1)
<1>1. P = IF Len(rx) < 5 THEN Outcome(RES_BADARGS, <<>>, flash)
          ELSE IF new THEN Outcome(RES_OK, <<>>, flash)
          ELSE Outcome(RES_INTERROR, <<>>, flash)
  BY CommandsDiffer DEF Promise
<1>. HIDE DEF P, rate
<1>2. CASE Len(rx) < 5 /\ Refuse(RES_BADARGS)
  BY <1>1, <1>2, CodesKnown, RefuseFulfils DEF Fulfils, P
<1>3. CASE new /\ ChangeState("CHANGING", rate, RES_OK)
  <2>1. P = Outcome(RES_OK, <<>>, flash)
    BY <1>1, <1>3
  <2>2. tx' = <<ESCAPE_CHAR, RES_OK>> /\ flash' = flash /\ job' = job
    BY <1>3, CodesKnown, SayIs DEF ChangeState, flashVars
  <2>. QED  BY <2>1, <2>2, CodesKnown, OutcomeEmpty DEF Fulfils, Replied, P
<1>4. CASE ~(Len(rx) < 5) /\ ~new /\ Refuse(RES_INTERROR)
  <2>1. P = Outcome(RES_INTERROR, <<>>, flash)
    BY <1>1, <1>4
  <2>. QED  BY <1>4, <2>1, CodesKnown, RefuseFulfils DEF Fulfils, P
<1>5. ~Waiting
  BY DEF Waiting
<1>6. Len(rx) >= 5 => ~(Len(rx) < 5)
  OBVIOUS
<1>. QED  BY <1>2, <1>3, <1>4, <1>5, <1>6, Zenon DEF ChangeBaud, rate

-----------------------------------------------------------------------------
(* The commands together.                                                  *)

\* With nothing left of an earlier reply and no rate being tried, a command gives
\* the reply and the flash that are promised, or begins the work that does.
LEMMA CommandFulfils ==
  ASSUME CrcBytes, Contents, change_baud_state = "IDLE", tx = <<>>, NEW b, Command(b)
  PROVE  Fulfils(Promise(b, rx, flash)) \/ ReadsPastEnd
<1>1. ~Waiting
  BY DEF Waiting
<1>2. CASE Reset(b)
  BY <1>2, ResetFulfils, Zenon DEF Reset
<1>3. CASE Ping(b) \/ Info(b) \/ Id(b) \/ Unknown(b)
  BY <1>3, PingFulfils, InfoFulfils, IdFulfils, UnknownFulfils, Zenon DEF Ping, Info, Id
<1>4. CASE ErasePage(b) \/ WritePage(b) \/ SetAttr(b) \/ WriteUser(b)
  BY <1>4, ErasePageFulfils, WritePageFulfils, SetAttrFulfils, WriteUserFulfils, Zenon
     DEF ErasePage, WritePage, SetAttr, WriteUser
<1>5. CASE CrcRx(b) \/ GetAttr(b) \/ CrcIntFlash(b)
  BY <1>5, CrcRxFulfils, GetAttrFulfils, CrcIntFlashFulfils, Zenon
     DEF CrcRx, GetAttr, CrcIntFlash
<1>6. CASE ReadRange(b)
  BY <1>6, ReadRangeFulfils, Zenon DEF ReadRange
<1>7. CASE ChangeBaud(b)
  BY <1>7, ChangeBaudFulfils, Zenon DEF ChangeBaud
<1>. QED  BY <1>1, <1>2, <1>3, <1>4, <1>5, <1>6, <1>7, Zenon DEF Command

LEMMA CommandKindsDiffer ==
  ASSUME NEW b, b = CMD_CHANGE_BAUD
  PROVE  /\ ~Reset(b) /\ ~Ping(b) /\ ~Info(b) /\ ~Id(b) /\ ~ErasePage(b) /\ ~WritePage(b)
         /\ ~CrcRx(b) /\ ~ReadRange(b) /\ ~SetAttr(b) /\ ~GetAttr(b) /\ ~CrcIntFlash(b)
         /\ ~WriteUser(b) /\ ~Unknown(b)
<1>1. b \notin {CMD_PING, CMD_INFO, CMD_ID, CMD_RESET, CMD_EPAGE, CMD_WPAGE, CMD_CRCRX,
                CMD_RRANGE, CMD_SATTR, CMD_GATTR, CMD_CRCIF, CMD_WUSER}
  BY CommandsDiffer
<1>2. ~Reset(b)
  BY <1>1 DEF Reset
<1>3. ~Ping(b) /\ ~Info(b) /\ ~Id(b)
  BY <1>1 DEF Ping, Info, Id
<1>4. ~ErasePage(b) /\ ~WritePage(b) /\ ~CrcRx(b) /\ ~ReadRange(b)
  BY <1>1, Zenon DEF ErasePage, WritePage, CrcRx, ReadRange
<1>5. ~SetAttr(b) /\ ~GetAttr(b) /\ ~CrcIntFlash(b) /\ ~WriteUser(b)
  BY <1>1, Zenon DEF SetAttr, GetAttr, CrcIntFlash, WriteUser
<1>6. ~Unknown(b)
  BY DEF Unknown
<1>. QED  BY <1>2, <1>3, <1>4, <1>5, <1>6

LEMMA OnlyChangeBaud ==
  ASSUME NEW b, b = CMD_CHANGE_BAUD, Command(b)
  PROVE  ChangeBaud(b) /\ UNCHANGED rx
BY CommandKindsDiffer, Zenon DEF Command

LEMMA OnlyReset ==
  ASSUME NEW b, b = CMD_RESET, ~Waiting, Command(b)
  PROVE  Reset(b)
<1>1. b \notin {CMD_PING, CMD_INFO, CMD_ID, CMD_CHANGE_BAUD, CMD_EPAGE, CMD_WPAGE, CMD_CRCRX,
                CMD_RRANGE, CMD_SATTR, CMD_GATTR, CMD_CRCIF, CMD_WUSER}
  BY CommandsDiffer
<1>2. ~Ping(b) /\ ~Info(b) /\ ~Id(b)
  BY <1>1 DEF Ping, Info, Id
<1>3. ~ErasePage(b) /\ ~WritePage(b) /\ ~CrcRx(b) /\ ~ReadRange(b)
  BY <1>1, Zenon DEF ErasePage, WritePage, CrcRx, ReadRange
<1>4. ~SetAttr(b) /\ ~GetAttr(b) /\ ~CrcIntFlash(b) /\ ~WriteUser(b) /\ ~ChangeBaud(b)
  BY <1>1, Zenon DEF SetAttr, GetAttr, CrcIntFlash, WriteUser, ChangeBaud
<1>5. ~Unknown(b)
  BY DEF Unknown
<1>. QED  BY <1>2, <1>3, <1>4, <1>5, Zenon DEF Command

-----------------------------------------------------------------------------
(* Sequences of bytes.                                                     *)

LEMMA EmptyIs == <<>> \in Seq(Byte) /\ Len(<<>>) = 0
OBVIOUS

\* What is taken from the front of a string and added to another.
LEMMA MoveOne ==
  ASSUME NEW x \in Seq(Byte), NEW y \in Seq(Byte), y # <<>>
  PROVE  /\ Head(y) \in Byte /\ Tail(y) \in Seq(Byte)
         /\ Append(x, Head(y)) \in Seq(Byte)
         /\ Append(x, Head(y)) \o Tail(y) = x \o y
<1>. DEFINE h == Head(y)
            t == Tail(y)
            a == <<h>>
<1>1. h \in Byte /\ t \in Seq(Byte) /\ a \in Seq(Byte)
  OBVIOUS
<1>2. y = a \o t
  OBVIOUS
<1>3. Append(x, h) = x \o a /\ Append(x, h) \in Seq(Byte)
  OBVIOUS
<1>. HIDE DEF h, t, a
<1>4. (x \o a) \o t = x \o (a \o t)
  BY <1>1, BytesAssociative
<1>. QED  BY <1>1, <1>2, <1>3, <1>4 DEF h, t

LEMMA AppendConcat ==
  ASSUME NEW x \in Seq(Byte), NEW y \in Seq(Byte), NEW b \in Byte
  PROVE  x \o Append(y, b) = Append(x \o y, b) /\ Append(y, b) \in Seq(Byte)
<1>. DEFINE a == <<b>>
            z == x \o y
<1>1. a \in Seq(Byte) /\ z \in Seq(Byte) /\ Append(y, b) = y \o a /\ Append(y, b) \in Seq(Byte)
  OBVIOUS
<1>2. Append(z, b) = z \o a
  <2>1. z \in Seq(Byte)
    BY <1>1
  <2>. HIDE DEF z
  <2>. QED  BY <2>1
<1>. HIDE DEF a
<1>3. (x \o y) \o a = x \o (y \o a)
  BY <1>1, BytesAssociative
<1>. QED  BY <1>1, <1>2, <1>3 DEF z

LEMMA LeftLong ==
  ASSUME NEW s \in Seq(Byte), NEW cmd \in Byte
  PROVE  Len(Left(s, cmd)) >= 2
<1>. DEFINE e == Escaped(s)
            y == <<ESCAPE_CHAR, cmd>>
<1>1. e \in Seq(Byte) /\ Len(e) \in Nat
  BY EscapedType
<1>2. y \in Seq(Byte) /\ Len(y) = 2
  BY ErasedIsByte
<1>. HIDE DEF e, y
<1>3. Len(e \o y) = Len(e) + Len(y)
  BY <1>1, <1>2, ConcatProperties
<1>4. Len(e \o y) >= 2
  BY <1>1, <1>2, <1>3
<1>. QED  BY <1>4 DEF Left, e, y

LEMMA BeforeLen ==
  ASSUME NEW a \in Byte, NEW s \in Seq(Byte)
  PROVE  Len(Before(a, s)) = Len(s) + 1 /\ Before(a, s) # <<>>
<1>. DEFINE x == <<a>>
<1>1. x \in Seq(Byte) /\ Len(x) = 1
  OBVIOUS
<1>. HIDE DEF x
<1>2. x \o s \in Seq(Byte) /\ Len(x \o s) = Len(x) + Len(s)
  BY <1>1, ConcatProperties
<1>3. Len(x \o s) = Len(s) + 1 /\ Len(s) \in Nat
  BY <1>1, <1>2
<1>4. x \o s # <<>>
  BY <1>3
<1>. QED  BY <1>3, <1>4 DEF Before, x

LEMMA BeforeFirst ==
  ASSUME NEW s \in Seq(Byte), s # <<>>
  PROVE  s = Before(Head(s), Tail(s)) /\ Head(s) \in Byte /\ Tail(s) \in Seq(Byte)
BY DEF Before

-----------------------------------------------------------------------------
(* A baud rate in a request.                                               *)

LEMMA LittleEndianLen ==
  ASSUME NEW n \in Nat
  PROVE  Len(LittleEndian(n)) = 4
BY DEF LittleEndian

Wanted(rate) == _rx_u32(BaudRequest(rate).args, 1)

LEMMA BaudArgs ==
  ASSUME NEW rate \in Nat
  PROVE  LET req  == BaudRequest(rate).args
             conf == BaudConfirm(rate).args
         IN  /\ req \in Seq(Byte) /\ Len(req) = 5 /\ req[1] = CHANGE_BAUD_SUBCMD_NEW
             /\ conf \in Seq(Byte) /\ Len(conf) = 5
             /\ req \o conf \in Seq(Byte) /\ Len(req \o conf) = 10
             /\ (req \o conf)[6] = CHANGE_BAUD_SUBCMD_CONFIRM
             /\ _rx_u32(req \o conf, 6) = Wanted(rate)
<1>. DEFINE req  == BaudRequest(rate).args
            conf == BaudConfirm(rate).args
            x    == <<CHANGE_BAUD_SUBCMD_NEW>>
            y    == <<CHANGE_BAUD_SUBCMD_CONFIRM>>
            n    == LittleEndian(rate)
            all  == req \o conf
<1>1. n \in Seq(Byte) /\ Len(n) = 4
  BY LittleEndianType, LittleEndianLen
<1>2. /\ x \in Seq(Byte) /\ Len(x) = 1 /\ x[1] = CHANGE_BAUD_SUBCMD_NEW
      /\ y \in Seq(Byte) /\ Len(y) = 1 /\ y[1] = CHANGE_BAUD_SUBCMD_CONFIRM
  BY CodesAreBytes
<1>3. req = x \o n /\ conf = y \o n
  BY DEF BaudRequest, BaudConfirm
<1>. DEFINE k == Len(n)
            l == Len(x)
            m == Len(y)
<1>4. k = 4 /\ l = 1 /\ m = 1 /\ k \in Nat /\ l \in Nat /\ m \in Nat
  BY <1>1, <1>2
<1>. HIDE DEF req, conf, x, y, n, k, l, m
<1>5. AreJoined(x, n, req, l, k) /\ AreJoined(y, n, conf, m, k)
  BY <1>1, <1>2, <1>3, <1>4, ConcatPlaces, Zenon DEF k, l, m
<1>6. /\ req \in Seq(Byte) /\ Len(req) = l + k /\ \A i \in 1 .. l : req[i] = x[i]
      /\ \A i \in 1 .. k : req[l + i] = n[i]
      /\ conf \in Seq(Byte) /\ Len(conf) = m + k /\ \A i \in 1 .. m : conf[i] = y[i]
      /\ \A i \in 1 .. k : conf[m + i] = n[i]
  BY <1>5, Zenon DEF AreJoined
<1>. DEFINE p == Len(req)
            q == Len(conf)
<1>7. p = l + k /\ q = m + k
  BY <1>6, Zenon
<1>. HIDE DEF p, q
<1>8. p = 5 /\ q = 5
  BY <1>4, <1>7
<1>9. AreJoined(req, conf, all, p, q)
  <2>1. p \in Nat /\ q \in Nat /\ p = Len(req) /\ q = Len(conf) /\ all = req \o conf
    <3>1. p \in Nat /\ q \in Nat
      BY <1>8
    <3>. QED  BY <3>1 DEF p, q
  <2>. HIDE DEF all
  <2>. QED  BY <1>6, <2>1, ConcatPlaces, Zenon
<1>. HIDE DEF all
<1>10. /\ all \in Seq(Byte) /\ Len(all) = p + q /\ \A i \in 1 .. p : all[i] = req[i]
       /\ \A i \in 1 .. q : all[p + i] = conf[i]
  BY <1>9, Zenon DEF AreJoined
<1>11. Len(all) = 10
  <2>. DEFINE r == Len(all)
  <2>1. r = p + q
    BY <1>10, Zenon
  <2>. HIDE DEF r
  <2>2. r = 10
    BY <1>8, <2>1
  <2>. QED  BY <2>2 DEF r
<1>12. req[1] = x[1] /\ conf[1] = y[1]
  <2>1. 1 \in 1 .. l /\ 1 \in 1 .. m
    BY <1>4
  <2>. QED  BY <1>6, <2>1, Zenon
<1>13. ASSUME NEW i \in 1 .. 4
       PROVE  req[i + 1] = n[i] /\ conf[i + 1] = n[i]
  <2>1. i \in 1 .. k /\ l + i = i + 1 /\ m + i = i + 1
    BY <1>4
  <2>2. req[l + i] = n[i] /\ conf[m + i] = n[i]
    BY <1>6, <2>1, Zenon
  <2>. QED  BY <2>1, <2>2, Zenon
<1>14. ASSUME NEW i \in 1 .. 5
       PROVE  all[i + 5] = conf[i]
  <2>1. i \in 1 .. q /\ p + i = i + 5
    BY <1>8
  <2>2. all[p + i] = conf[i]
    BY <1>10, <2>1, Zenon
  <2>. QED  BY <2>1, <2>2, Zenon
<1>15. all[6] = y[1]
  <2>1. 1 \in 1 .. 5 /\ 1 + 5 = 6
    OBVIOUS
  <2>2. all[1 + 5] = conf[1]
    BY <1>14, <2>1, Zenon
  <2>. QED  BY <1>12, <2>1, <2>2, Zenon
<1>16. ASSUME NEW i \in 1 .. 4
       PROVE  all[6 + i] = req[1 + i]
  <2>1. i + 1 \in 1 .. 5 /\ (i + 1) + 5 = 6 + i /\ i + 1 = 1 + i
    OBVIOUS
  <2>2. all[(i + 1) + 5] = conf[i + 1]
    BY <1>14, <2>1, Zenon
  <2>. QED  BY <1>13, <2>1, <2>2, Zenon
<1>17. _rx_u32(all, 6) = Wanted(rate)
  <2>1. 1 \in 1 .. 4 /\ 2 \in 1 .. 4 /\ 3 \in 1 .. 4 /\ 4 \in 1 .. 4
    OBVIOUS
  <2>2. all[6 + 1] = req[1 + 1] /\ all[6 + 2] = req[1 + 2]
        /\ all[6 + 3] = req[1 + 3] /\ all[6 + 4] = req[1 + 4]
    BY <1>16, <2>1, Zenon
  <2>. QED  BY <2>2, Zenon DEF _rx_u32, Wanted, req
<1>. QED  BY <1>2, <1>6, <1>8, <1>10, <1>11, <1>12, <1>15, <1>17, Zenon
     DEF p, q, req, conf, all

\* A request for a rate is no confirmation of one.
LEMMA RequestNotConfirm ==
  ASSUME NEW r1, NEW r2
  PROVE  BaudRequest(r1) # BaudConfirm(r2)
<1>1. BaudRequest(r1).sync = TRUE /\ BaudConfirm(r2).sync = FALSE
  BY DEF BaudRequest, BaudConfirm
<1>. QED  BY <1>1

\* At rest, the request of a rate is accepted.
LEMMA RateAsked ==
  ASSUME change_baud_state = "IDLE", NEW rate \in Nat, rx = BaudRequest(rate).args,
         Command(CMD_CHANGE_BAUD)
  PROVE  /\ change_baud_state' = "CHANGING" /\ new_baud_rate' = Wanted(rate)
         /\ rx' = rx /\ job' = job
<1>. DEFINE new == Len(rx) = 5 /\ rx[1] = CHANGE_BAUD_SUBCMD_NEW
            u   == _rx_u32(rx, 1)
<1>1. new /\ ~(Len(rx) < 5) /\ ~Waiting
  <2>1. Len(rx) = 5 /\ rx[1] = CHANGE_BAUD_SUBCMD_NEW
    BY BaudArgs
  <2>2. ~(5 < 5)
    OBVIOUS
  <2>3. ~Waiting
    BY DEF Waiting
  <2>. QED  BY <2>1, <2>2, <2>3, Zenon
<1>2. ChangeBaud(CMD_CHANGE_BAUD) /\ rx' = rx
  BY OnlyChangeBaud
<1>. HIDE DEF new
<1>3. ChangeState("CHANGING", u, RES_OK)
  BY <1>1, <1>2, Zenon DEF ChangeBaud, new
<1>4. u = Wanted(rate)
  BY Zenon DEF Wanted
<1>. QED  BY <1>2, <1>3, <1>4, Zenon DEF ChangeState

\* The confirmation of a rate that is used is accepted.
LEMMA RateConfirmed ==
  ASSUME Waiting, NEW rate \in Nat, baudrate = Wanted(rate),
         rx = BaudRequest(rate).args \o BaudConfirm(rate).args,
         Command(CMD_CHANGE_BAUD)
  PROVE  /\ change_baud_state' = "IDLE" /\ tx' = <<ESCAPE_CHAR, RES_OK>>
         /\ flash' = flash /\ job' = job
<1>1. /\ Len(rx) = 10 /\ rx[6] = CHANGE_BAUD_SUBCMD_CONFIRM
      /\ _rx_u32(rx, 6) = baudrate
  BY BaudArgs, Zenon
<1>2. ~(Len(rx) < 5) /\ ~(Len(rx) = 5)
  <2>1. ~(10 < 5) /\ 10 # 5
    OBVIOUS
  <2>. QED  BY <1>1, <2>1, Zenon
<1>3. ChangeBaud(CMD_CHANGE_BAUD)
  BY OnlyChangeBaud
<1>4. ChangeState("IDLE", new_baud_rate, RES_OK)
  BY <1>1, <1>2, <1>3, Zenon DEF ChangeBaud
<1>5. Say(RES_OK) /\ RES_OK \in ReplyCodes
  BY <1>4, CodesKnown DEF ChangeState
<1>. QED  BY <1>4, <1>5, SayIs DEF ChangeState, flashVars

-----------------------------------------------------------------------------
(* The invariant of requests: what is left of one that nothing disturbed,  *)
(* what is done of it, and what is answered.                               *)

\* The bytes that the program has still to deal with, an escape it has seen first.
Coming  == IF rhr = <<>> THEN sending ELSE Before(Head(rhr), sending)
Pending == IF byte_escape THEN Before(ESCAPE_CHAR, Coming) ELSE Coming

\* The arguments received so far follow base, and the others are pending.
Collecting(base) ==
  \E s, t \in Seq(Byte) :
    /\ request.args = s \o t
    /\ rx = base \o s
    /\ Pending = Left(t, request.cmd)

\* The reset before a request, and the zero before it that ends a pending escape.
Synced == Before(ESCAPE_CHAR, Before(CMD_RESET, Left(request.args, request.cmd)))

Syncing ==
  \/ Pending = Before(0, Synced) /\ ~byte_escape /\ Len(rx) + 1 < RXBUFSZ
  \/ Pending = Synced /\ Len(rx) < RXBUFSZ

Ordinary == \A rate \in Rates : request # BaudConfirm(rate)

OrdinaryProgress ==
  /\ Ordinary
  /\ change_baud_state = "IDLE" /\ Len(request.args) < RXBUFSZ
  /\ job = None
  /\ Syncing \/ Collecting(<<>>)

\* A rate is going to be used, or is, that is not confirmed.
Tried(rate) ==
  \/ /\ change_baud_state = "CHANGING" /\ job \in {None, Drain} /\ rhr = <<>>
     /\ new_baud_rate = Wanted(rate)
  \/ /\ Waiting /\ job = None
     /\ baudrate = Wanted(rate)

ConfirmProgress ==
  \E rate \in Rates :
    /\ request = BaudConfirm(rate)
    /\ Tried(rate) /\ Collecting(BaudRequest(rate).args)

Progress ==
  /\ got = <<>> /\ shifter = <<>> /\ tx = <<>>
  /\ flash = before /\ request.cmd # ESCAPE_CHAR
  /\ OrdinaryProgress \/ ConfirmProgress

Heard == sending = <<>> /\ rhr = <<>>

Nothing == got = <<>> /\ shifter = <<>> /\ tx = <<>>

\* What is promised will be in flash when the controller is done.
Working ==
  /\ Heard /\ Nothing
  /\ Promised.reply = <<ESCAPE_CHAR, RES_OK>>
  /\ \A rate \in Rates : request # BaudRequest(rate)
  /\ \/ /\ job.kind = "erase"
        /\ Promised.flash = [flash EXCEPT ![job.page] = Target(job.next)]
     \/ /\ job.kind = "program"
        /\ Promised.flash = [flash EXCEPT ![job.page] = page_buffer]

Finished ==
  /\ Heard /\ job \in {None, Drain}
  /\ got \o shifter \o tx = Promised.reply /\ flash = Promised.flash
  /\ \A rate \in Rates :
       request = BaudRequest(rate) => rx = request.args /\ ~byte_escape /\ Tried(rate)

Faulted == job = Fault /\ Heard /\ Nothing

Proceeds == Progress \/ Working \/ Finished \/ Faulted

Answering == got \in Seq(Byte) /\ clean \in BOOLEAN /\ (clean => Proceeds)

-----------------------------------------------------------------------------
(* It gives the property.                                                  *)

LEMMA HeardNothingPends ==
  ASSUME Contents, Heard
  PROVE  Len(Pending) <= 1
<1>1. Coming = <<>>
  BY DEF Coming, Heard
<1>2. Len(Before(ESCAPE_CHAR, Coming)) = 1
  <2>. DEFINE empty == <<>>
  <2>1. empty \in Seq(Byte) /\ Len(empty) = 0 /\ ESCAPE_CHAR \in Byte /\ Coming = empty
    BY <1>1, ErasedIsByte
  <2>. HIDE DEF empty
  <2>2. Len(Before(ESCAPE_CHAR, Coming)) = Len(empty) + 1
    BY <2>1, BeforeLen
  <2>. QED  BY <2>1, <2>2
<1>3. Len(<<>>) = 0
  OBVIOUS
<1>4. Len(Pending) \in {0, 1}
  BY <1>1, <1>2, <1>3, Zenon DEF Pending
<1>. QED  BY <1>4

LEMMA RequestIs ==
  ASSUME Contents
  PROVE  /\ request.args \in Seq(Byte) /\ request.cmd \in Byte
         /\ sending \in Seq(Byte) /\ rhr \in Seq(Byte) /\ Len(rhr) <= 1
         /\ rx \in Seq(Byte) /\ byte_escape \in BOOLEAN /\ tx = tx
BY DEF Contents, HostTypes, Received, IsRequest

LEMMA SyncedIs ==
  ASSUME Contents
  PROVE  /\ Left(request.args, request.cmd) \in Seq(Byte)
         /\ Before(CMD_RESET, Left(request.args, request.cmd)) \in Seq(Byte)
         /\ Synced \in Seq(Byte) /\ Len(Synced) >= 2
         /\ CMD_RESET \in Byte /\ ESCAPE_CHAR \in Byte /\ 0 \in Byte
<1>. DEFINE l == Left(request.args, request.cmd)
            r == Before(CMD_RESET, l)
<1>0. request.args \in Seq(Byte) /\ request.cmd \in Byte
  BY RequestIs, Zenon
<1>1. l \in Seq(Byte) /\ CMD_RESET \in Byte /\ ESCAPE_CHAR \in Byte /\ 0 \in Byte
  <2>1. l \in Seq(Byte)
    BY <1>0, LeftType, Zenon
  <2>. QED  BY <2>1, CodesAreBytes, ErasedIsByte, ByteIs
<1>2. Len(l) >= 2 /\ Len(l) \in Nat
  <2>1. Len(l) >= 2
    BY <1>0, LeftLong, Zenon
  <2>. HIDE DEF l
  <2>. QED  BY <1>1, <2>1
<1>. HIDE DEF l
<1>3. r \in Seq(Byte) /\ Len(r) = Len(l) + 1
  BY <1>1, BeforeType, BeforeLen
<1>. HIDE DEF r
<1>4. Synced = Before(ESCAPE_CHAR, r)
  BY DEF Synced, r, l
<1>5. Synced \in Seq(Byte) /\ Len(Synced) = Len(r) + 1
  BY <1>1, <1>3, <1>4, BeforeType, BeforeLen
<1>6. Len(Synced) >= 2
  BY <1>2, <1>3, <1>5
<1>. QED  BY <1>1, <1>3, <1>5, <1>6 DEF r, l

LEMMA ProgressPends ==
  ASSUME Contents, Progress
  PROVE  ~Heard
<1>. SUFFICES ASSUME Heard PROVE FALSE
  OBVIOUS
<1>1. Len(Pending) <= 1
  BY HeardNothingPends
<1>2. CASE \E base : Collecting(base)
  <2>. PICK s \in Seq(Byte), t \in Seq(Byte) : Pending = Left(t, request.cmd)
    BY <1>2 DEF Collecting
  <2>1. Len(Pending) >= 2
    BY RequestIs, LeftLong
  <2>2. Pending \in Seq(Byte)
    BY RequestIs, LeftType
  <2>. QED  BY <1>1, <2>1, <2>2
<1>3. CASE Syncing
  <2>1. /\ Synced \in Seq(Byte) /\ Len(Synced) >= 2 /\ Before(0, Synced) \in Seq(Byte)
        /\ Len(Before(0, Synced)) = Len(Synced) + 1
    BY SyncedIs, BeforeType, BeforeLen
  <2>2. Pending \in Seq(Byte) /\ Len(Pending) >= 2
    BY <1>3, <2>1 DEF Syncing
  <2>. QED  BY <1>1, <2>2
<1>. QED  BY <1>2, <1>3, Zenon DEF Progress, OrdinaryProgress, ConfirmProgress

LEMMA AnswersFollow ==
  ASSUME Contents, Answering
  PROVE  AnswersRight
<1>. SUFFICES ASSUME clean, Done PROVE got \o shifter \o tx = Promised.reply /\ flash = Promised.flash
  BY DEF AnswersRight
<1>1. ~Progress
  BY ProgressPends DEF Done, Heard
<1>2. ~Working /\ ~Faulted
  BY DEF Done, Working, Faulted, None, Drain, Fault
<1>3. Finished
  BY <1>1, <1>2 DEF Answering, Proceeds
<1>. QED  BY <1>3 DEF Finished

-----------------------------------------------------------------------------
(* What a byte received does to what is pending.                           *)

LEMMA ByteTaken ==
  ASSUME Contents, Receive
  PROVE  LET b == Head(rhr)
         IN  /\ b \in Byte
             /\ Pending = IF byte_escape THEN Before(ESCAPE_CHAR, Before(b, sending))
                          ELSE Before(b, sending)
             /\ Pending' = IF byte_escape' THEN Before(ESCAPE_CHAR, sending) ELSE sending
             /\ rhr' = <<>> /\ job = None
             /\ UNCHANGED <<sending, request, before, got, clean, shifter>>
<1>1. rhr # <<>> /\ rhr' = <<>> /\ job = None /\ UNCHANGED shifter /\ UNCHANGED hostVars
  BY DEF Receive
<1>2. sending' = sending /\ request' = request /\ before' = before /\ got' = got
      /\ clean' = clean
  BY <1>1 DEF hostVars, askVars
<1>3. Head(rhr) \in Byte
  BY <1>1, RequestIs
<1>4. Coming = Before(Head(rhr), sending) /\ Coming' = sending
  BY <1>1, <1>2, Zenon DEF Coming
<1>. QED  BY <1>1, <1>2, <1>3, <1>4, Zenon DEF Pending

\* An escape seen is pending still.
LEMMA EscapeSeen ==
  ASSUME Contents, Receive, ~Full, ~byte_escape, Head(rhr) = ESCAPE_CHAR
  PROVE  /\ byte_escape' = TRUE /\ Pending' = Pending
         /\ UNCHANGED <<rx, tx, baudVars, flashVars, job>>
<1>1. byte_escape' = TRUE /\ UNCHANGED <<rx, tx, baudVars, flashVars, job>>
  BY Zenon DEF Receive
<1>2. Pending = Before(ESCAPE_CHAR, sending) /\ Pending' = Before(ESCAPE_CHAR, sending)
  BY <1>1, ByteTaken, Zenon
<1>. QED  BY <1>1, <1>2

\* The next argument is kept.
LEMMA ArgumentKept ==
  ASSUME Contents, NEW base \in Seq(Byte), NEW s \in Seq(Byte), NEW t \in Seq(Byte), t # <<>>,
         request.args = s \o t, rx = base \o s, request' = request,
         rx' = Append(rx, t[1]), Pending' = Left(Tail(t), request.cmd)
  PROVE  Collecting(base)'
<1>. DEFINE u == Append(s, Head(t))
            v == Tail(t)
<1>1. t[1] = Head(t)
  OBVIOUS
<1>2. Head(t) \in Byte /\ u \in Seq(Byte) /\ v \in Seq(Byte) /\ u \o v = s \o t
  BY MoveOne
<1>3. base \o u = Append(base \o s, Head(t))
  BY <1>2, AppendConcat
<1>. HIDE DEF u
<1>4. request'.args = u \o v /\ rx' = base \o u /\ Pending' = Left(v, request'.cmd)
  BY <1>1, <1>2, <1>3, Zenon
<1>. HIDE DEF v
<1>. QED  BY <1>2, <1>4 DEF Collecting

\* Of the arguments one more is kept, or, all received, the command is run.
LEMMA CollectStep ==
  ASSUME Contents, Receive, ~Full, ~TooLong, request.cmd # ESCAPE_CHAR,
         NEW base \in Seq(Byte), Collecting(base)
  PROVE  \/ Collecting(base)' /\ UNCHANGED <<tx, baudVars, flashVars, job>>
         \/ /\ Heard' /\ ~byte_escape'
            /\ rx = base \o request.args /\ Command(request.cmd)
<1>. DEFINE b == Head(rhr)
<1>0. /\ b \in Byte /\ request.cmd \in Byte /\ sending \in Seq(Byte) /\ rx \in Seq(Byte)
      /\ byte_escape \in BOOLEAN
  BY RequestIs, ByteTaken
<1>1. PICK s \in Seq(Byte), t \in Seq(Byte) :
        request.args = s \o t /\ rx = base \o s /\ Pending = Left(t, request.cmd)
  BY DEF Collecting
<1>2. request' = request /\ sending' = sending /\ rhr' = <<>>
  BY ByteTaken
<1>3. CASE ~byte_escape /\ b = ESCAPE_CHAR
  <2>1. Pending' = Pending /\ UNCHANGED <<rx, tx, baudVars, flashVars, job>>
    BY <1>3, EscapeSeen, Zenon
  <2>2. Collecting(base)'
    BY <1>1, <1>2, <2>1 DEF Collecting
  <2>. QED  BY <2>1, <2>2, Zenon
<1>4. CASE ~byte_escape /\ b # ESCAPE_CHAR
  <2>1. Keep(b) /\ byte_escape' = byte_escape
    BY <1>4, Zenon DEF Receive
  <2>2. Before(b, sending) = Left(t, request.cmd) /\ Pending' = sending
    BY <1>1, <1>4, <2>1, ByteTaken, Zenon
  <2>3. t # <<>> /\ t[1] = b /\ sending = Left(Tail(t), request.cmd)
    <3>. HIDE DEF b
    <3>. QED  BY <1>0, <1>4, <2>2, PlainByte
  <2>4. rx' = Append(rx, t[1]) /\ UNCHANGED <<tx, baudVars, flashVars, job>>
    BY <2>1, <2>3, Zenon DEF Keep
  <2>5. Collecting(base)'
    BY <1>1, <1>2, <2>2, <2>3, <2>4, ArgumentKept, Zenon
  <2>. QED  BY <2>4, <2>5, Zenon
<1>5. CASE byte_escape
  <2>1. ~byte_escape'
        /\ \/ b = ESCAPE_CHAR /\ Keep(b)
           \/ b # ESCAPE_CHAR /\ Command(b)
    <3>1. ~byte_escape'
      BY <1>5, SMT DEF Receive
    <3>2. ASSUME b # ESCAPE_CHAR PROVE Command(b)
      BY <1>5, <3>2, Zenon DEF Receive
    <3>3. ASSUME b = ESCAPE_CHAR PROVE Keep(b)
      BY <1>5, <3>3, SMT DEF Receive
    <3>. HIDE DEF b
    <3>. QED  BY <3>1, <3>2, <3>3
  <2>2. Before(ESCAPE_CHAR, Before(b, sending)) = Left(t, request.cmd) /\ Pending' = sending
    BY <1>1, <1>5, <2>1, ByteTaken, Zenon
  <2>3. \/ b = ESCAPE_CHAR /\ t # <<>> /\ t[1] = b /\ sending = Left(Tail(t), request.cmd)
        \/ b # ESCAPE_CHAR /\ t = <<>> /\ b = request.cmd /\ sending = <<>>
    <3>. HIDE DEF b
    <3>. QED  BY <1>0, <2>2, ByteAfterEscape
  <2>4. CASE b = ESCAPE_CHAR
    <3>1. t # <<>> /\ t[1] = b /\ sending = Left(Tail(t), request.cmd) /\ Keep(b)
      BY <2>1, <2>3, <2>4, Zenon
    <3>2. rx' = Append(rx, t[1]) /\ UNCHANGED <<tx, baudVars, flashVars, job>>
      BY <3>1, Zenon DEF Keep
    <3>3. Collecting(base)'
      BY <1>1, <1>2, <2>2, <3>1, <3>2, ArgumentKept, Zenon
    <3>. QED  BY <3>2, <3>3, Zenon
  <2>5. CASE b # ESCAPE_CHAR
    <3>1. t = <<>> /\ b = request.cmd /\ sending = <<>> /\ Command(b)
      BY <2>1, <2>3, <2>5, Zenon
    <3>2. s \o t = s
      BY <3>1, ConcatEmptySeq
    <3>3. rx = base \o request.args
      BY <1>1, <3>2, Zenon
    <3>4. Heard'
      BY <1>2, <3>1, Zenon DEF Heard
    <3>. QED  BY <2>1, <3>1, <3>3, <3>4, Zenon
  <2>. QED  BY <2>4, <2>5, Zenon
<1>. QED  BY <1>0, <1>3, <1>4, <1>5, Zenon

LEMMA CodesNotEscape ==
  0 # ESCAPE_CHAR /\ CMD_RESET # ESCAPE_CHAR /\ CMD_CHANGE_BAUD # ESCAPE_CHAR
BY ByteIs, CommandsDiffer DEF ESCAPE_CHAR

LEMMA PromisedStays ==
  ASSUME request' = request, before' = before
  PROVE  Promised' = Promised
BY DEF Promised

\* Arguments of which none is received.
LEMMA CollectingNone ==
  ASSUME NEW base \in Seq(Byte), NEW args \in Seq(Byte)
  PROVE  <<>> \o args = args /\ base \o <<>> = base
BY ConcatEmptySeq

\* The zero is kept, and the reset forgets it with what was received before it.
LEMMA SyncStep ==
  ASSUME Contents, Receive, ~Waiting, Syncing
  PROVE  /\ Syncing' \/ Collecting(<<>>)'
         /\ tx' \in {tx, <<>>} /\ UNCHANGED <<baudVars, flashVars, job>>
<1>. DEFINE b == Head(rhr)
            l == Left(request.args, request.cmd)
<1>0. /\ b \in Byte /\ sending \in Seq(Byte) /\ rx \in Seq(Byte) /\ byte_escape \in BOOLEAN
      /\ request.args \in Seq(Byte)
  BY RequestIs, ByteTaken
<1>1. request' = request /\ Synced' = Synced
  BY ByteTaken DEF Synced
<1>2. /\ l \in Seq(Byte) /\ Before(CMD_RESET, l) \in Seq(Byte) /\ Synced \in Seq(Byte)
      /\ CMD_RESET \in Byte /\ ESCAPE_CHAR \in Byte /\ 0 \in Byte
      /\ Synced = Before(ESCAPE_CHAR, Before(CMD_RESET, l))
  BY SyncedIs DEF Synced
<1>3. ~Full
  BY <1>0, SizesAre DEF Syncing, Full
<1>4. ~TooLong
  BY DEF TooLong
<1>5. CASE Pending = Before(0, Synced) /\ ~byte_escape /\ Len(rx) + 1 < RXBUFSZ
  <2>1. Before(b, sending) = Before(0, Synced)
    BY <1>5, ByteTaken, Zenon
  <2>2. b = 0 /\ sending = Synced
    <3>. HIDE DEF b
    <3>. QED  BY <1>0, <1>2, <2>1, BeforeEqual
  <2>3. b # ESCAPE_CHAR
    BY <2>2, CodesNotEscape
  <2>4. Keep(b) /\ byte_escape' = byte_escape
    BY <1>3, <1>4, <1>5, <2>3, Zenon DEF Receive
  <2>5. Pending' = Synced
    BY <1>5, <2>2, <2>4, ByteTaken, Zenon
  <2>6. Len(rx') < RXBUFSZ
    <3>1. rx' = Append(rx, b)
      BY <2>4 DEF Keep
    <3>. HIDE DEF b
    <3>. QED  BY <1>0, <1>5, <3>1
  <2>7. Syncing'
    BY <1>1, <2>5, <2>6 DEF Syncing
  <2>. QED  BY <2>4, <2>7, Zenon DEF Keep
<1>6. CASE Pending = Synced /\ Len(rx) < RXBUFSZ /\ byte_escape
  <2>1. Before(ESCAPE_CHAR, Before(b, sending)) = Before(ESCAPE_CHAR, Before(CMD_RESET, l))
    BY <1>2, <1>6, ByteTaken, Zenon
  <2>2. b = CMD_RESET /\ sending = l
    <3>. HIDE DEF b, l
    <3>1. Before(b, sending) \in Seq(Byte)
      BY <1>0, BeforeType
    <3>2. Before(b, sending) = Before(CMD_RESET, l)
      BY <1>2, <2>1, <3>1, BeforeEqual
    <3>. QED  BY <1>0, <1>2, <3>2, BeforeEqual
  <2>3. b # ESCAPE_CHAR
    BY <2>2, CodesNotEscape
  <2>4. ~byte_escape'
    BY <1>3, <1>6, SMT DEF Receive
  <2>5. Command(b)
    BY <1>3, <1>6, <2>3, Zenon DEF Receive
  <2>6. Reset(b)
    BY <2>2, <2>5, OnlyReset
  <2>7. rx' = <<>> /\ tx' = <<>> /\ UNCHANGED <<baudVars, flashVars, job>>
    BY <2>6, Zenon DEF Reset
  <2>8. Pending' = l
    BY <2>2, <2>4, ByteTaken, Zenon
  <2>9. Collecting(<<>>)'
    <3>. DEFINE empty == <<>>
                args  == request.args
    <3>1. empty \in Seq(Byte) /\ args \in Seq(Byte) /\ request'.args = empty \o args
          /\ rx' = empty \o empty /\ Pending' = Left(args, request'.cmd)
      <4>1. empty \in Seq(Byte) /\ args \in Seq(Byte)
        BY <1>0
      <4>. HIDE DEF empty, args
      <4>2. empty \o args = args /\ empty \o empty = empty
        BY <4>1, CollectingNone DEF empty
      <4>. QED  BY <1>1, <2>7, <2>8, <4>1, <4>2 DEF args, empty
    <3>. HIDE DEF args
    <3>. QED  BY <3>1, Zenon DEF Collecting
  <2>. QED  BY <2>7, <2>9, Zenon
<1>7. CASE Pending = Synced /\ Len(rx) < RXBUFSZ /\ ~byte_escape
  <2>1. Before(b, sending) = Before(ESCAPE_CHAR, Before(CMD_RESET, l))
    BY <1>2, <1>7, ByteTaken, Zenon
  <2>2. b = ESCAPE_CHAR
    <3>. HIDE DEF b, l
    <3>. QED  BY <1>0, <1>2, <2>1, BeforeEqual
  <2>3. Pending' = Pending /\ UNCHANGED <<rx, tx, baudVars, flashVars, job>>
    BY <1>3, <1>7, <2>2, EscapeSeen, Zenon
  <2>4. Syncing'
    BY <1>1, <1>7, <2>3 DEF Syncing
  <2>. QED  BY <2>3, <2>4, Zenon
<1>. QED  BY <1>0, <1>5, <1>6, <1>7, Zenon DEF Syncing

LEMMA CollectedLen ==
  ASSUME Contents, NEW base \in Seq(Byte), Collecting(base)
  PROVE  Len(rx) <= Len(base) + Len(request.args) /\ Len(rx) \in Nat
<1>. PICK s \in Seq(Byte), t \in Seq(Byte) : request.args = s \o t /\ rx = base \o s
  BY DEF Collecting
<1>1. Len(request.args) = Len(s) + Len(t) /\ Len(rx) = Len(base) + Len(s)
  BY ConcatProperties
<1>2. Len(s) \in Nat /\ Len(t) \in Nat /\ Len(base) \in Nat
  OBVIOUS
<1>. QED  BY <1>1, <1>2

\* Where nothing is sent yet, what is sent is the next reply.
LEMMA FirstSent ==
  ASSUME NEW s \in Seq(Byte), NEW e, e = <<>>, NEW f, f = <<>>
  PROVE  e \o f \o s = s
<1>1. <<>> \o <<>> = <<>> /\ <<>> \o s = s
  BY EmptyIs, ConcatEmptySeq
<1>. QED  BY <1>1, Zenon

LEMMA OrdinaryPromise ==
  ASSUME Ordinary
  PROVE  Promised = Promise(request.cmd, request.args, before)
BY DEF Ordinary, Promised

\* The request, all received, is answered, or begun.
LEMMA CommandDone ==
  ASSUME CrcBytes, Contents, Sent, Receive, Progress, OrdinaryProgress,
         Heard', ~byte_escape', rx = request.args, Command(request.cmd)
  PROVE  Proceeds'
<1>. DEFINE P == Promise(request.cmd, rx, flash)
<1>1. /\ request' = request /\ before' = before /\ got' = got /\ shifter' = shifter
      /\ rhr' = <<>> /\ job = None
  BY ByteTaken
<1>2. /\ got = <<>> /\ shifter = <<>> /\ tx = <<>> /\ flash = before
      /\ change_baud_state = "IDLE" /\ Ordinary
  BY DEF Progress, OrdinaryProgress
<1>3. Promised = P /\ Promised' = P
  BY <1>1, <1>2, OrdinaryPromise, PromisedStays
<1>4. Fulfils(P) \/ ReadsPastEnd
  BY <1>2, CommandFulfils
<1>5. tx' \in Seq(Byte)
  BY CommandSends DEF Reply
<1>6. ASSUME NEW rate \in Rates, request = BaudRequest(rate)
      PROVE  /\ rx' = rx /\ job' = job
             /\ job' = None => Tried(rate)'
  <2>1. rate \in Nat /\ request.cmd = CMD_CHANGE_BAUD /\ rx = BaudRequest(rate).args
    BY <1>6, HostAssumption DEF BaudRequest
  <2>2. /\ change_baud_state' = "CHANGING" /\ new_baud_rate' = Wanted(rate)
        /\ rx' = rx /\ job' = job
    BY <1>2, <2>1, RateAsked
  <2>. QED  BY <1>1, <2>2 DEF Tried
<1>. HIDE DEF P
<1>7. CASE Replied(P)
  <2>1. tx' = P.reply /\ flash' = P.flash /\ job' = None
    BY <1>1, <1>7 DEF Replied
  <2>2. got' \o shifter' \o tx' = Promised'.reply
    <3>1. got' = <<>> /\ shifter' = <<>>
      BY <1>1, <1>2
    <3>2. got' \o shifter' \o tx' = tx'
      BY <1>5, <3>1, FirstSent
    <3>. QED  BY <1>3, <2>1, <3>2
  <2>3. ASSUME NEW rate \in Rates, request' = BaudRequest(rate)
        PROVE  rx' = request'.args /\ ~byte_escape' /\ Tried(rate)'
    BY <1>1, <1>6, <2>1, <2>3
  <2>4. Finished'
    BY <1>3, <2>1, <2>2, <2>3 DEF Finished
  <2>. QED  BY <2>4 DEF Proceeds
<1>8. CASE Started(P)
  <2>. PICK page \in AllPages, next \in Seq(Byte) :
         /\ job' = [kind |-> "erase", page |-> page, next |-> next]
         /\ P.flash = [flash EXCEPT ![page] = Target(next)]
    BY <1>8 DEF Started
  <2>1. tx' = tx /\ flash' = flash /\ P.reply = <<ESCAPE_CHAR, RES_OK>>
    BY <1>8 DEF Started
  <2>2. Nothing'
    BY <1>1, <1>2, <2>1 DEF Nothing
  <2>3. \A rate \in Rates : request' # BaudRequest(rate)
    <3>. SUFFICES ASSUME NEW rate \in Rates, request' = BaudRequest(rate) PROVE FALSE
      OBVIOUS
    <3>1. job' = None
      BY <1>1, <1>6
    <3>. QED  BY <3>1 DEF None
  <2>4. job'.kind = "erase" /\ Promised'.flash = [flash' EXCEPT ![job'.page] = Target(job'.next)]
    BY <1>3, <2>1
  <2>5. Working'
    BY <1>3, <2>1, <2>2, <2>3, <2>4 DEF Working
  <2>. QED  BY <2>5 DEF Proceeds
<1>9. CASE ReadsPastEnd
  <2>1. Faulted'
    BY <1>1, <1>2, <1>9 DEF Faulted, ReadsPastEnd, Nothing
  <2>. QED  BY <2>1 DEF Proceeds
<1>. QED  BY <1>4, <1>7, <1>8, <1>9 DEF Fulfils

LEMMA ReceiveOrdinary ==
  ASSUME CrcBytes, Contents, Sent, Receive, Progress, OrdinaryProgress
  PROVE  Proceeds'
<1>1. /\ request' = request /\ before' = before /\ got' = got /\ shifter' = shifter
  BY ByteTaken
<1>2. /\ got = <<>> /\ shifter = <<>> /\ tx = <<>> /\ flash = before
      /\ request.cmd # ESCAPE_CHAR
      /\ change_baud_state = "IDLE" /\ Ordinary /\ Len(request.args) < RXBUFSZ
      /\ job = None
  BY DEF Progress, OrdinaryProgress
<1>3. ~Waiting /\ ~TooLong
  BY <1>2 DEF Waiting, TooLong
<1>4. ASSUME Syncing' \/ Collecting(<<>>)', tx' = tx, UNCHANGED <<baudVars, flashVars, job>>
      PROVE  Proceeds'
  <2>1. flash' = flash /\ change_baud_state' = change_baud_state /\ job' = job
    BY <1>4 DEF flashVars, baudVars
  <2>2. OrdinaryProgress'
    BY <1>1, <1>2, <1>4, <2>1 DEF OrdinaryProgress, Ordinary
  <2>3. Progress'
    BY <1>1, <1>2, <1>4, <2>1, <2>2 DEF Progress
  <2>. QED  BY <2>3 DEF Proceeds
<1>5. CASE Syncing
  <2>1. /\ Syncing' \/ Collecting(<<>>)'
        /\ tx' \in {tx, <<>>} /\ UNCHANGED <<baudVars, flashVars, job>>
    BY <1>3, <1>5, SyncStep, Zenon
  <2>2. tx' = tx
    BY <1>2, <2>1
  <2>. QED  BY <1>4, <2>1, <2>2, Zenon
<1>6. CASE Collecting(<<>>)
  <2>. DEFINE empty == <<>>
  <2>1. empty \in Seq(Byte) /\ Len(empty) = 0
    OBVIOUS
  <2>2. Collecting(empty)
    BY <1>6
  <2>. HIDE DEF empty
  <2>3. Len(rx) <= Len(empty) + Len(request.args) /\ Len(rx) \in Nat
    BY <2>1, <2>2, CollectedLen
  <2>4. ~Full
    <3>1. request.args \in Seq(Byte)
      BY RequestIs
    <3>2. Len(request.args) \in Nat /\ RXBUFSZ \in Nat
      BY <3>1, SizesAre
    <3>. QED  BY <1>2, <2>1, <2>3, <3>2 DEF Full
  <2>5. \/ Collecting(empty)' /\ UNCHANGED <<tx, baudVars, flashVars, job>>
        \/ Heard' /\ ~byte_escape' /\ rx = empty \o request.args /\ Command(request.cmd)
    BY <1>2, <1>3, <2>1, <2>2, <2>4, CollectStep, Zenon
  <2>6. empty \o request.args = request.args
    BY RequestIs, ConcatEmptySeq DEF empty
  <2>7. CASE Collecting(empty)' /\ UNCHANGED <<tx, baudVars, flashVars, job>>
    <3>1. Collecting(<<>>)'
      BY <2>7 DEF empty
    <3>. QED  BY <1>4, <2>7, <3>1, Zenon
  <2>8. CASE Heard' /\ ~byte_escape' /\ rx = empty \o request.args /\ Command(request.cmd)
    BY <2>6, <2>8, CommandDone, Zenon
  <2>. QED  BY <2>5, <2>7, <2>8
<1>. QED  BY <1>5, <1>6 DEF OrdinaryProgress

\* A rate is confirmed at the rate itself.
LEMMA ReceiveConfirm ==
  ASSUME CrcBytes, Contents, Sent, Receive, Progress, ConfirmProgress
  PROVE  Proceeds'
<1>1. /\ request' = request /\ before' = before /\ got' = got /\ shifter' = shifter
      /\ rhr # <<>> /\ job = None
  <2>1. rhr # <<>>
    BY DEF Receive
  <2>. QED  BY <2>1, ByteTaken
<1>2. /\ got = <<>> /\ shifter = <<>> /\ tx = <<>> /\ flash = before
      /\ request.cmd # ESCAPE_CHAR
  BY DEF Progress
<1>3. PICK rate \in Rates :
        request = BaudConfirm(rate) /\ Tried(rate) /\ Collecting(BaudRequest(rate).args)
  BY DEF ConfirmProgress
<1>. DEFINE base == BaudRequest(rate).args
<1>4. rate \in Nat
  BY HostAssumption
<1>5. Waiting /\ baudrate = Wanted(rate)
  BY <1>1, <1>3 DEF Tried
<1>6. base \in Seq(Byte) /\ Len(base) = 5 /\ Len(request.args) = 5
  BY <1>3, <1>4, BaudArgs
<1>. HIDE DEF base
<1>7. ~Full /\ ~TooLong
  <2>1. Len(rx) <= Len(base) + Len(request.args) /\ Len(rx) \in Nat
    BY <1>3, <1>6, CollectedLen DEF base
  <2>2. RXBUFSZ > 10 /\ RXBUFSZ \in Nat
    BY SizeAssumption
  <2>. QED  BY <1>6, <2>1, <2>2 DEF Full, TooLong
<1>8. \/ Collecting(base)' /\ UNCHANGED <<tx, baudVars, flashVars, job>>
      \/ Heard' /\ ~byte_escape' /\ rx = base \o request.args /\ Command(request.cmd)
  BY <1>2, <1>3, <1>6, <1>7, CollectStep, Zenon DEF base
<1>9. CASE Collecting(base)' /\ UNCHANGED <<tx, baudVars, flashVars, job>>
  <2>1. /\ change_baud_state' = change_baud_state /\ baudrate' = baudrate /\ flash' = flash
        /\ tx' = tx /\ job' = job
    BY <1>9 DEF baudVars, flashVars
  <2>2. Tried(rate)'
    BY <1>1, <1>5, <2>1 DEF Tried, Waiting
  <2>3. Collecting(BaudRequest(rate).args)'
    BY <1>9 DEF base
  <2>4. ConfirmProgress'
    BY <1>1, <1>3, <2>2, <2>3 DEF ConfirmProgress
  <2>5. Progress'
    BY <1>1, <1>2, <2>1, <2>4 DEF Progress
  <2>. QED  BY <2>5 DEF Proceeds
<1>10. CASE Heard' /\ ~byte_escape' /\ rx = base \o request.args /\ Command(request.cmd)
  <2>1. request.cmd = CMD_CHANGE_BAUD
    BY <1>3 DEF BaudConfirm
  <2>2. rx = BaudRequest(rate).args \o BaudConfirm(rate).args
    BY <1>3, <1>10 DEF base
  <2>3. /\ change_baud_state' = "IDLE" /\ tx' = <<ESCAPE_CHAR, RES_OK>>
        /\ flash' = flash /\ job' = job
    BY <1>4, <1>5, <1>10, <2>1, <2>2, RateConfirmed
  <2>4. Promised' = Outcome(RES_OK, <<>>, before)
    BY <1>1, <1>3 DEF Promised
  <2>5. Promised'.reply = <<ESCAPE_CHAR, RES_OK>> /\ Promised'.flash = before
    BY <2>4, CodesKnown, OutcomeEmpty
  <2>6. got' \o shifter' \o tx' = tx'
    <3>1. got' = <<>> /\ shifter' = <<>>
      BY <1>1, <1>2
    <3>2. tx' \in Seq(Byte)
      BY <1>10, CommandSends DEF Reply
    <3>. QED  BY <3>1, <3>2, FirstSent
  <2>7. \A r \in Rates : request' # BaudRequest(r)
    BY <1>1, <1>3, RequestNotConfirm
  <2>8. Finished'
    BY <1>1, <1>2, <1>10, <2>3, <2>5, <2>6, <2>7 DEF Finished
  <2>. QED  BY <2>8 DEF Proceeds
<1>. QED  BY <1>8, <1>9, <1>10

LEMMA ReceiveProceeds ==
  ASSUME CrcBytes, Contents, Sent, Receive, Proceeds
  PROVE  Proceeds'
<1>1. job = None /\ rhr # <<>>
  BY DEF Receive
<1>2. ~Finished
  BY <1>1 DEF Finished, Heard
<1>3. ~Working
  BY <1>1 DEF Working, Heard
<1>4. ~Faulted
  BY <1>1 DEF Faulted, Heard
<1>5. Progress
  BY <1>2, <1>3, <1>4 DEF Proceeds
<1>. QED  BY <1>5, ReceiveOrdinary, ReceiveConfirm DEF Progress

-----------------------------------------------------------------------------
(* Steps that leave what is pending as it is.                               *)

KeepsTried == \A rate \in Rates : Tried(rate) => Tried(rate)'

LEMMA ProgressStays ==
  ASSUME Progress, rx' = rx, byte_escape' = byte_escape, tx' = tx, got' = got,
         request' = request, before' = before, flash' = flash, shifter' = <<>>,
         Pending' = Pending, KeepsTried,
         change_baud_state = "IDLE" /\ job = None => change_baud_state' = "IDLE" /\ job' = None
  PROVE  Progress'
<1>1. ASSUME NEW base, Collecting(base)
      PROVE  Collecting(base)'
  BY <1>1 DEF Collecting
<1>2. Synced' = Synced
  BY DEF Synced
<1>3. Syncing => Syncing'
  BY <1>2 DEF Syncing
<1>4. OrdinaryProgress => OrdinaryProgress'
  <2>. SUFFICES ASSUME OrdinaryProgress PROVE OrdinaryProgress'
    OBVIOUS
  <2>1. Ordinary' /\ Len(request'.args) < RXBUFSZ
    BY DEF OrdinaryProgress, Ordinary
  <2>2. change_baud_state' = "IDLE" /\ job' = None
    BY DEF OrdinaryProgress
  <2>3. Syncing' \/ Collecting(<<>>)'
    BY <1>1, <1>3, Zenon DEF OrdinaryProgress
  <2>. QED  BY <2>1, <2>2, <2>3 DEF OrdinaryProgress
<1>5. ConfirmProgress => ConfirmProgress'
  <2>. SUFFICES ASSUME ConfirmProgress PROVE ConfirmProgress'
    OBVIOUS
  <2>. PICK rate \in Rates :
         request = BaudConfirm(rate) /\ Tried(rate) /\ Collecting(BaudRequest(rate).args)
    BY DEF ConfirmProgress
  <2>1. request' = BaudConfirm(rate) /\ Tried(rate)'
    BY DEF KeepsTried
  <2>2. Collecting(BaudRequest(rate).args)'
    BY <1>1, Zenon
  <2>. QED  BY <2>1, <2>2 DEF ConfirmProgress
<1>. QED  BY <1>4, <1>5 DEF Progress

LEMMA FinishedStays ==
  ASSUME Finished, rx' = rx, byte_escape' = byte_escape, Heard', job' \in {None, Drain},
         request' = request, before' = before, flash' = flash,
         got' \o shifter' \o tx' = got \o shifter \o tx, KeepsTried
  PROVE  Finished'
<1>1. Promised' = Promised
  BY PromisedStays
<1>2. ASSUME NEW rate \in Rates, request' = BaudRequest(rate)
      PROVE  rx' = request'.args /\ ~byte_escape' /\ Tried(rate)'
  <2>1. rx = request.args /\ ~byte_escape /\ Tried(rate)
    BY <1>2 DEF Finished
  <2>. QED  BY <2>1, Zenon DEF KeepsTried
<1>. QED  BY <1>1, <1>2 DEF Finished

\* What the host notes of a rate is no matter of a request.
LEMMA UnchangedProceeds ==
  ASSUME Proceeds, UNCHANGED <<rxVars, tx, baudVars, lineVars, flashVars, job>>,
         UNCHANGED <<sending, request, got, before>>
  PROVE  Proceeds'
<1>1. UNCHANGED rxVars /\ UNCHANGED tx /\ UNCHANGED baudVars /\ UNCHANGED lineVars
      /\ UNCHANGED flashVars /\ UNCHANGED job
  OBVIOUS
<1>2. /\ byte_escape' = byte_escape /\ rx' = rx /\ tx' = tx /\ rhr' = rhr
      /\ shifter' = shifter /\ flash' = flash /\ page_buffer' = page_buffer /\ job' = job
      /\ change_baud_state' = change_baud_state /\ baudrate' = baudrate
      /\ new_baud_rate' = new_baud_rate
  BY <1>1 DEF rxVars, baudVars, lineVars, flashVars
<1>3. sending' = sending /\ request' = request /\ got' = got /\ before' = before
  OBVIOUS
<1>4. Pending' = Pending
  BY <1>2, <1>3 DEF Pending, Coming
<1>5. KeepsTried
  BY <1>2 DEF KeepsTried, Tried, Waiting
<1>6. Progress => Progress'
  <2>. SUFFICES ASSUME Progress PROVE Progress'
    OBVIOUS
  <2>1. shifter' = <<>>
    BY <1>2 DEF Progress
  <2>. QED  BY <1>2, <1>3, <1>4, <1>5, <2>1, ProgressStays
<1>7. Finished => Finished'
  <2>. SUFFICES ASSUME Finished PROVE Finished'
    OBVIOUS
  <2>1. Heard' /\ job' \in {None, Drain}
    BY <1>2, <1>3 DEF Finished, Heard
  <2>. QED  BY <1>2, <1>3, <1>5, <2>1, FinishedStays
<1>8. Working => Working'
  <2>1. Promised' = Promised
    BY <1>3, PromisedStays
  <2>. QED  BY <1>2, <1>3, <2>1 DEF Working, Heard, Nothing
<1>9. Faulted => Faulted'
  BY <1>2, <1>3 DEF Faulted, Heard, Nothing
<1>. QED  BY <1>6, <1>7, <1>8, <1>9 DEF Proceeds

-----------------------------------------------------------------------------
(* The loop and the controller.                                             *)

LEMMA KindsDiffer ==
  /\ None # Drain /\ None # Fault /\ Drain # Fault
  /\ None.kind = "none" /\ Drain.kind = "drain" /\ Fault.kind = "fault"
BY DEF None, Drain, Fault

LEMMA TransmitProceeds ==
  ASSUME Sent, got \in Seq(Byte), Transmit, Proceeds
  PROVE  Proceeds'
<1>1. /\ job = None /\ tx # <<>> /\ shifter' = Append(shifter, Head(tx)) /\ tx' = Tail(tx)
      /\ UNCHANGED rxVars /\ UNCHANGED baudVars /\ rhr' = rhr /\ UNCHANGED flashVars
      /\ job' = job /\ UNCHANGED hostVars
  BY DEF Transmit
<1>2. /\ byte_escape' = byte_escape /\ rx' = rx /\ flash' = flash
      /\ change_baud_state' = change_baud_state /\ baudrate' = baudrate
      /\ new_baud_rate' = new_baud_rate /\ sending' = sending /\ request' = request
      /\ got' = got /\ before' = before
  BY <1>1 DEF rxVars, baudVars, flashVars, hostVars, askVars
<1>3. ~Progress
  BY <1>1 DEF Progress
<1>4. ~Working /\ ~Faulted
  BY <1>1 DEF Working, Faulted, Nothing
<1>5. Finished
  BY <1>3, <1>4 DEF Proceeds
<1>6. Heard' /\ job' \in {None, Drain}
  BY <1>1, <1>2, <1>5 DEF Finished, Heard
<1>7. KeepsTried
  BY <1>1, <1>2 DEF KeepsTried, Tried, Waiting
<1>8. got' \o shifter' \o tx' = got \o shifter \o tx
  <2>1. tx \in Seq(Byte) /\ shifter \in Seq(Byte)
    BY DEF Sent, Reply
  <2>2. /\ shifter' \in Seq(Byte) /\ tx' \in Seq(Byte)
        /\ shifter' \o tx' = shifter \o tx
    BY <1>1, <2>1, MoveOne
  <2>3. (got \o shifter') \o tx' = got \o (shifter' \o tx')
    BY <2>2, BytesAssociative
  <2>4. (got \o shifter) \o tx = got \o (shifter \o tx)
    BY <2>1, BytesAssociative
  <2>. QED  BY <1>2, <2>2, <2>3, <2>4
<1>9. Finished'
  BY <1>2, <1>5, <1>6, <1>7, <1>8, FinishedStays
<1>. QED  BY <1>9 DEF Proceeds

LEMMA StartDrainProceeds ==
  ASSUME StartDrain, Proceeds
  PROVE  Proceeds'
<1>1. /\ job = None /\ job' = Drain /\ Switching
      /\ UNCHANGED rxVars /\ tx' = tx /\ UNCHANGED baudVars /\ UNCHANGED lineVars
      /\ UNCHANGED flashVars /\ UNCHANGED hostVars
  BY DEF StartDrain
<1>2. /\ byte_escape' = byte_escape /\ rx' = rx /\ flash' = flash /\ rhr' = rhr
      /\ shifter' = shifter
      /\ change_baud_state' = change_baud_state /\ baudrate' = baudrate
      /\ new_baud_rate' = new_baud_rate /\ sending' = sending /\ request' = request
      /\ got' = got /\ before' = before
  BY <1>1 DEF rxVars, baudVars, lineVars, flashVars, hostVars, askVars
<1>3. ~Working /\ ~Faulted
  BY <1>1, KindsDiffer DEF Working, Faulted
<1>4. KeepsTried /\ change_baud_state # "IDLE"
  BY <1>1, <1>2 DEF KeepsTried, Tried, Waiting, Switching
<1>5. Pending' = Pending
  BY <1>2 DEF Pending, Coming
<1>6. Progress => Progress'
  <2>. SUFFICES ASSUME Progress PROVE Progress'
    OBVIOUS
  <2>1. shifter' = <<>>
    BY <1>2 DEF Progress
  <2>. QED  BY <1>1, <1>2, <1>4, <1>5, <2>1, ProgressStays
<1>7. Finished => Finished'
  <2>. SUFFICES ASSUME Finished PROVE Finished'
    OBVIOUS
  <2>1. Heard' /\ job' \in {None, Drain}
    BY <1>1, <1>2 DEF Finished, Heard
  <2>2. got' \o shifter' \o tx' = got \o shifter \o tx
    BY <1>1, <1>2
  <2>. QED  BY <1>2, <1>4, <2>1, <2>2, FinishedStays
<1>. QED  BY <1>3, <1>6, <1>7 DEF Proceeds

\* The reply is out, and no byte of a confirmation is in.
LEMMA SwitchRateProceeds ==
  ASSUME SwitchRate, Proceeds
  PROVE  Proceeds'
<1>1. /\ job = Drain /\ job' = None /\ shifter = <<>> /\ shifter' = <<>> /\ rhr' = <<>>
      /\ UNCHANGED rxVars /\ tx' = tx /\ new_baud_rate' = new_baud_rate
      /\ UNCHANGED flashVars /\ UNCHANGED hostVars
      /\ change_baud_state \in {"CHANGING", "RESETTING"}
      /\ change_baud_state = "CHANGING" =>
           change_baud_state' = "WAITING_CONFIRMATION" /\ baudrate' = new_baud_rate
  BY DEF SwitchRate, TxEmpty, ChangeRate, ResetRate, Use
<1>2. /\ byte_escape' = byte_escape /\ rx' = rx /\ flash' = flash
      /\ sending' = sending /\ request' = request
      /\ got' = got /\ before' = before
  BY <1>1 DEF rxVars, flashVars, hostVars, askVars
<1>3. ~Working /\ ~Faulted
  BY <1>1, KindsDiffer DEF Working, Faulted
<1>4. KeepsTried
  BY <1>1, KindsDiffer DEF KeepsTried, Tried, Waiting
<1>5. Progress => Progress'
  <2>. SUFFICES ASSUME Progress PROVE Progress'
    OBVIOUS
  <2>1. ConfirmProgress
    BY <1>1, KindsDiffer DEF Progress, OrdinaryProgress
  <2>2. rhr = <<>>
    BY <1>1, <2>1, KindsDiffer DEF ConfirmProgress, Tried
  <2>3. Pending' = Pending
    BY <1>1, <1>2, <2>2 DEF Pending, Coming
  <2>. QED  BY <1>1, <1>2, <1>4, <2>3, KindsDiffer, ProgressStays
<1>6. Finished => Finished'
  <2>. SUFFICES ASSUME Finished PROVE Finished'
    OBVIOUS
  <2>1. Heard' /\ job' \in {None, Drain}
    BY <1>1, <1>2 DEF Finished, Heard
  <2>2. got' \o shifter' \o tx' = got \o shifter \o tx
    BY <1>1, <1>2
  <2>. QED  BY <1>2, <1>4, <2>1, <2>2, FinishedStays
<1>. QED  BY <1>3, <1>5, <1>6 DEF Proceeds

LEMMA ReplyGiven ==
  ASSUME Say(RES_OK), got = <<>>, shifter = <<>>, got' = got, shifter' = shifter
  PROVE  got' \o shifter' \o tx' = <<ESCAPE_CHAR, RES_OK>>
<1>1. RES_OK \in ReplyCodes
  BY CodesKnown
<1>. DEFINE h == <<ESCAPE_CHAR, RES_OK>>
<1>2. tx' = h /\ h \in Seq(Byte)
  BY <1>1, SayIs, ErasedIsByte, ReplyCodesAreBytes
<1>. HIDE DEF h
<1>3. got' \o shifter' \o h = h
  BY <1>2, FirstSent
<1>. QED  BY <1>2, <1>3 DEF h

LEMMA ControllerProceeds ==
  ASSUME Controller, Contents, Proceeds
  PROVE  Proceeds'
<1>1. /\ job.kind \in {"erase", "program"}
      /\ UNCHANGED rxVars /\ UNCHANGED lineVars /\ UNCHANGED hostVars
  BY DEF Controller, EraseDone, WriteDone
<1>2. /\ rhr' = rhr /\ shifter' = shifter /\ sending' = sending /\ request' = request
      /\ got' = got /\ before' = before
  BY <1>1 DEF lineVars, hostVars, askVars
<1>3. ~Finished /\ ~Faulted
  BY <1>1, KindsDiffer DEF Finished, Faulted
<1>4. ~Progress
  BY <1>1, KindsDiffer DEF Progress, OrdinaryProgress, ConfirmProgress, Tried
<1>5. Working
  BY <1>3, <1>4 DEF Proceeds
<1>6. /\ Heard' /\ got = <<>> /\ shifter = <<>> /\ tx = <<>>
      /\ Promised' = Promised /\ Promised.reply = <<ESCAPE_CHAR, RES_OK>>
      /\ \A rate \in Rates : request' # BaudRequest(rate)
  BY <1>2, <1>5, PromisedStays DEF Working, Heard, Nothing
<1>7. flash \in [AllPages -> Page] /\ job.page \in AllPages
  BY <1>1, JobPage, TouchableInFlash DEF Contents, FlashTypes
<1>8. ASSUME flash' = Promised.flash, Say(RES_OK), job' = None
      PROVE  Proceeds'
  <2>1. got' \o shifter' \o tx' = <<ESCAPE_CHAR, RES_OK>>
    BY <1>2, <1>6, <1>8, ReplyGiven
  <2>2. Finished'
    BY <1>6, <1>8, <2>1 DEF Finished
  <2>. QED  BY <2>2 DEF Proceeds
<1>9. CASE EraseDone
  <2>1. job.kind = "erase" /\ flash' = [flash EXCEPT ![job.page] = NoData]
    BY <1>9 DEF EraseDone
  <2>2. Promised.flash = [flash EXCEPT ![job.page] = Target(job.next)]
    BY <1>5, <2>1 DEF Working
  <2>3. CASE job.next = <<>> /\ Say(RES_OK) /\ job' = None
    <3>1. Target(job.next) = NoData
      BY <2>3 DEF Target
    <3>. QED  BY <1>8, <2>1, <2>2, <2>3, <3>1
  <2>4. CASE /\ job.next # <<>> /\ tx' = tx
             /\ page_buffer' = Patched(clear_page_buffer, 0, job.next)
             /\ job' = [kind |-> "program", page |-> job.page]
    <3>1. page_buffer' = Target(job.next)
      BY <2>4 DEF Target, clear_page_buffer
    <3>2. Promised.flash = [flash' EXCEPT ![job.page] = page_buffer']
      BY <1>7, <2>1, <2>2, <3>1
    <3>3. Nothing'
      BY <1>2, <1>6, <2>4 DEF Nothing
    <3>4. Working'
      BY <1>6, <2>4, <3>2, <3>3 DEF Working
    <3>. QED  BY <3>4 DEF Proceeds
  <2>. QED  BY <1>9, <2>3, <2>4, Zenon DEF EraseDone
<1>10. CASE WriteDone
  <2>1. /\ job.kind = "program" /\ flash' = [flash EXCEPT ![job.page] = page_buffer]
        /\ Say(RES_OK) /\ job' = None
    BY <1>10 DEF WriteDone
  <2>2. Promised.flash = flash'
    BY <1>5, <2>1 DEF Working
  <2>. QED  BY <1>8, <2>1, <2>2
<1>. QED  BY <1>9, <1>10 DEF Controller

-----------------------------------------------------------------------------
(* The host and the line.                                                   *)

LEMMA TripleBefore ==
  ASSUME NEW a \in Byte, NEW b \in Byte, NEW c \in Byte, NEW s \in Seq(Byte)
  PROVE  <<a, b, c>> \o s = Before(a, Before(b, Before(c, s)))
<1>. DEFINE x == <<a>>
            y == <<b, c>>
            z == <<a, b, c>>
            w == x \o y
<1>1. x \in Seq(Byte) /\ y \in Seq(Byte)
  OBVIOUS
<1>2. z \in Seq(Byte) /\ Len(z) = 3 /\ z[1] = a /\ z[2] = b /\ z[3] = c
  OBVIOUS
<1>3. w \in Seq(Byte) /\ Len(w) = 3 /\ w[1] = a /\ w[2] = b /\ w[3] = c
  OBVIOUS
<1>. HIDE DEF w, z
<1>4. \A i \in 1 .. Len(z) : z[i] = w[i]
  BY <1>2, <1>3
<1>5. z = w
  BY <1>2, <1>3, <1>4, SeqEqual
<1>6. y \o s = Before(b, Before(c, s))
  BY PairBefore
<1>. HIDE DEF x, y
<1>7. (x \o y) \o s = x \o (y \o s)
  BY <1>1, BytesAssociative
<1>. QED  BY <1>5, <1>6, <1>7 DEF Before, x, z, w

LEMMA FrameIs ==
  ASSUME NEW r, IsRequest(r)
  PROVE  Frame(r) = IF r.sync
                    THEN Before(0, Before(ESCAPE_CHAR, Before(CMD_RESET, Left(r.args, r.cmd))))
                    ELSE Left(r.args, r.cmd)
<1>. DEFINE e == Escaped(r.args)
            y == <<ESCAPE_CHAR, r.cmd>>
            x == <<0, ESCAPE_CHAR, CMD_RESET>>
            l == Left(r.args, r.cmd)
<1>1. r.args \in Seq(Byte) /\ r.cmd \in Byte /\ r.sync \in BOOLEAN
  BY DEF IsRequest
<1>2. 0 \in Byte /\ ESCAPE_CHAR \in Byte /\ CMD_RESET \in Byte
  BY ByteIs, ErasedIsByte, CodesAreBytes
<1>3. e \in Seq(Byte) /\ y \in Seq(Byte) /\ x \in Seq(Byte) /\ l \in Seq(Byte)
  <2>1. e \in Seq(Byte)
    BY <1>1, EscapedType, Zenon
  <2>2. l \in Seq(Byte)
    BY <1>1, LeftType, Zenon
  <2>3. y \in Seq(Byte)
    BY <1>1, <1>2
  <2>4. x \in Seq(Byte)
    BY <1>2
  <2>. QED  BY <2>1, <2>2, <2>3, <2>4, Zenon
<1>4. x \o l = Before(0, Before(ESCAPE_CHAR, Before(CMD_RESET, l)))
  <2>. HIDE DEF l
  <2>. QED  BY <1>2, <1>3, TripleBefore
<1>5. (x \o e) \o y = x \o (e \o y) /\ <<>> \o e = e
  <2>. HIDE DEF x, e, y
  <2>. QED  BY <1>3, BytesAssociative, ConcatEmptySeq
<1>6. l = e \o y
  BY DEF Left
<1>7. Frame(r) = (IF r.sync THEN x ELSE <<>>) \o e \o y
  BY DEF Frame
<1>8. CASE r.sync
  <2>1. Frame(r) = x \o l
    <3>. HIDE DEF x, e, y, l
    <3>. QED  BY <1>5, <1>6, <1>7, <1>8
  <2>. QED  BY <1>4, <1>8, <2>1, Zenon
<1>9. CASE ~r.sync
  <2>1. Frame(r) = l
    <3>. HIDE DEF x, e, y, l
    <3>. QED  BY <1>5, <1>6, <1>7, <1>9
  <2>. QED  BY <1>9, <2>1, Zenon
<1>. QED  BY <1>8, <1>9, Zenon

LEMMA QuietIs ==
  ASSUME Quiet
  PROVE  sending = <<>> /\ rhr = <<>> /\ shifter = <<>> /\ tx = <<>> /\ job = None
<1>1. Len(<<>>) < 2
  OBVIOUS
<1>2. sending = <<>> /\ shifter = <<>> /\ job = None /\ Settled
  BY DEF Quiet, Silent, TxEmpty
<1>3. TxReady
  BY <1>1, <1>2 DEF TxReady
<1>. QED  BY <1>2, <1>3, KindsDiffer DEF Settled

\* A request that begins well.
LEMMA AskStarts ==
  ASSUME Contents, Quiet, NEW r, NEW rate, IsRequest(r), Ask(r, rate),
         r.cmd # ESCAPE_CHAR, \A n \in Rates : r # BaudConfirm(n),
         ~byte_escape, change_baud_state = "IDLE", Len(r.args) < RXBUFSZ,
         r.sync => Len(rx) + 1 < RXBUFSZ, ~r.sync => rx = <<>>
  PROVE  Proceeds'
<1>1. /\ sending' = Frame(r) /\ request' = r /\ got' = <<>> /\ before' = flash
      /\ UNCHANGED rxVars /\ tx' = tx /\ UNCHANGED baudVars /\ UNCHANGED lineVars
      /\ UNCHANGED flashVars /\ job' = job
  BY DEF Ask
<1>2. /\ byte_escape' = byte_escape /\ rx' = rx /\ flash' = flash /\ rhr' = rhr
      /\ shifter' = shifter /\ change_baud_state' = change_baud_state
  BY <1>1 DEF rxVars, baudVars, lineVars, flashVars
<1>3. rhr = <<>> /\ shifter = <<>> /\ tx = <<>> /\ job = None
  BY QuietIs
<1>4. Pending' = Frame(r)
  BY <1>1, <1>2, <1>3 DEF Pending, Coming
<1>5. r.args \in Seq(Byte) /\ r.sync \in BOOLEAN
  BY DEF IsRequest
<1>6. Syncing' \/ Collecting(<<>>)'
  <2>1. CASE r.sync
    <3>1. Pending' = Before(0, Synced')
      BY <1>1, <1>4, <2>1, FrameIs DEF Synced
    <3>. QED  BY <1>2, <2>1, <3>1 DEF Syncing
  <2>2. CASE ~r.sync
    <3>1. Pending' = Left(r.args, r.cmd)
      BY <1>4, <2>2, FrameIs
    <3>. DEFINE empty == <<>>
                args  == r.args
    <3>2. empty \in Seq(Byte) /\ args \in Seq(Byte)
      BY <1>5
    <3>3. empty \o args = args /\ empty \o empty = empty
      <4>. HIDE DEF args
      <4>. QED  BY <3>2, CollectingNone
    <3>4. request'.args = empty \o args /\ rx' = empty \o empty
          /\ Pending' = Left(args, request'.cmd)
      BY <1>1, <1>2, <2>2, <3>1, <3>3, Zenon
    <3>. HIDE DEF args
    <3>. QED  BY <3>2, <3>4, Zenon DEF Collecting
  <2>. QED  BY <1>5, <2>1, <2>2
<1>7. OrdinaryProgress'
  BY <1>1, <1>2, <1>3, <1>6 DEF OrdinaryProgress, Ordinary
<1>8. Progress'
  BY <1>1, <1>2, <1>3, <1>7 DEF Progress
<1>. QED  BY <1>8 DEF Proceeds

LEMMA NewProceeds ==
  ASSUME Contents, NewRequest \/ NewRate, clean'
  PROVE  Proceeds'
<1>1. CASE NewRequest
  <2>. PICK r \in Requests :
         /\ Ask(r, home)
         /\ clean' = /\ ~byte_escape /\ change_baud_state = "IDLE"
                     /\ IF r.sync THEN Len(rx) + 1 < RXBUFSZ ELSE rx = <<>>
                     /\ Len(r.args) < RXBUFSZ
    BY <1>1 DEF NewRequest
  <2>1. Quiet
    BY <1>1 DEF NewRequest
  <2>2. /\ ~byte_escape /\ change_baud_state = "IDLE"
        /\ IF r.sync THEN Len(rx) + 1 < RXBUFSZ ELSE rx = <<>>
        /\ Len(r.args) < RXBUFSZ
    OBVIOUS
  <2>3. IsRequest(r) /\ r.cmd # ESCAPE_CHAR /\ \A n \in Rates : r # BaudConfirm(n)
    BY HostAssumption, RequestAssumption
  <2>. QED  BY <2>1, <2>2, <2>3, AskStarts
<1>2. CASE NewRate
  <2>. PICK rate \in Rates : Ask(BaudRequest(rate), home)
    BY <1>2 DEF NewRate
  <2>1. Quiet /\ ~byte_escape /\ Len(rx) + 1 < RXBUFSZ /\ change_baud_state = "IDLE"
    BY <1>2 DEF NewRate
  <2>. DEFINE r == BaudRequest(rate)
  <2>2. r.sync /\ r.cmd = CMD_CHANGE_BAUD
    BY DEF BaudRequest
  <2>3. rate \in Nat
    BY HostAssumption
  <2>4. IsRequest(r) /\ Len(r.args) = 5
    BY <2>3, BaudRequestTypes, BaudArgs
  <2>5. \A n \in Rates : r # BaudConfirm(n)
    BY RequestNotConfirm
  <2>6. Len(r.args) < RXBUFSZ
    BY <2>4, SizeAssumption
  <2>. HIDE DEF r
  <2>7. r.cmd # ESCAPE_CHAR
    BY <2>2, CodesNotEscape
  <2>8. Ask(r, home)
    BY DEF r
  <2>. QED  BY <2>1, <2>2, <2>4, <2>5, <2>6, <2>7, <2>8, AskStarts
<1>. QED  BY <1>1, <1>2

\* The host has the answer, so nothing else is being sent.
LEMMA ConfirmProceeds ==
  ASSUME Contents, Sent, Confirm, Proceeds
  PROVE  Proceeds'
<1>1. PICK rate \in Rates : request = BaudRequest(rate) /\ Ask(BaudConfirm(rate), rate)
  BY DEF Confirm
<1>. DEFINE r == BaudConfirm(rate)
            h == <<ESCAPE_CHAR, RES_OK>>
<1>2. got = h /\ sending = <<>>
  BY DEF Confirm, Agreed
<1>3. got # <<>>
  BY <1>2
<1>4. Finished
  BY <1>3 DEF Proceeds, Progress, Working, Faulted, Nothing
<1>5. rate \in Nat
  BY HostAssumption
<1>6. rx = request.args /\ ~byte_escape /\ Tried(rate) /\ rhr = <<>>
      /\ got \o shifter \o tx = Promised.reply /\ flash = Promised.flash
  BY <1>1, <1>4 DEF Finished, Heard
<1>7. Promised = Outcome(RES_OK, <<>>, before)
  <2>1. Ordinary
    BY <1>1, RequestNotConfirm DEF Ordinary
  <2>2. Promised = Promise(request.cmd, request.args, before)
    BY <2>1, OrdinaryPromise
  <2>3. request.cmd = CMD_CHANGE_BAUD
    BY <1>1 DEF BaudRequest
  <2>4. Len(request.args) = 5 /\ request.args[1] = CHANGE_BAUD_SUBCMD_NEW
    BY <1>1, <1>5, BaudArgs
  <2>. DEFINE args == request.args
  <2>5. Promise(CMD_CHANGE_BAUD, args, before)
          = IF Len(args) < 5 THEN Outcome(RES_BADARGS, <<>>, before)
            ELSE IF Len(args) = 5 /\ args[1] = CHANGE_BAUD_SUBCMD_NEW
                 THEN Outcome(RES_OK, <<>>, before)
                 ELSE Outcome(RES_INTERROR, <<>>, before)
    <3>. HIDE DEF args
    <3>. QED  BY CommandsDiffer DEF Promise
  <2>6. ~(5 < 5)
    OBVIOUS
  <2>. QED  BY <2>2, <2>3, <2>4, <2>5, <2>6, Zenon
<1>8. Promised.reply = h /\ Promised.flash = before
  BY <1>7, CodesKnown, OutcomeEmpty
<1>9. shifter = <<>> /\ tx = <<>>
  <2>1. shifter \in Seq(Byte) /\ tx \in Seq(Byte)
    BY DEF Sent, Reply
  <2>2. h \in Seq(Byte)
    BY CodesKnown, ErasedIsByte, ReplyCodesAreBytes
  <2>3. h \o shifter \o tx = h
    BY <1>2, <1>6, <1>8
  <2>. HIDE DEF h
  <2>. DEFINE p == h \o shifter
              q == p \o tx
  <2>4. p \in Seq(Byte) /\ Len(p) = Len(h) + Len(shifter)
    BY <2>1, <2>2, ConcatProperties
  <2>. HIDE DEF p
  <2>5. Len(q) = Len(p) + Len(tx)
    BY <2>1, <2>4, ConcatProperties
  <2>6. q = h
    BY <2>3 DEF p
  <2>7. Len(h) \in Nat /\ Len(shifter) \in Nat /\ Len(tx) \in Nat
    BY <2>1, <2>2
  <2>. HIDE DEF q
  <2>8. Len(shifter) = 0 /\ Len(tx) = 0
    BY <2>4, <2>5, <2>6, <2>7
  <2>. QED  BY <2>1, <2>8
<1>10. /\ sending' = Frame(r) /\ request' = r /\ got' = <<>> /\ before' = flash
       /\ UNCHANGED rxVars /\ tx' = tx /\ UNCHANGED baudVars /\ UNCHANGED lineVars
       /\ UNCHANGED flashVars /\ job' = job
  BY <1>1 DEF Ask
<1>11. /\ byte_escape' = byte_escape /\ rx' = rx /\ flash' = flash /\ rhr' = rhr
       /\ shifter' = shifter /\ change_baud_state' = change_baud_state
       /\ baudrate' = baudrate /\ new_baud_rate' = new_baud_rate
  BY <1>10 DEF rxVars, baudVars, lineVars, flashVars
<1>12. Pending' = Frame(r)
  BY <1>6, <1>10, <1>11, Zenon DEF Pending, Coming
<1>13. Pending' = Left(r.args, r.cmd)
  <2>1. IsRequest(r) /\ ~r.sync
    BY <1>5, BaudRequestTypes DEF BaudConfirm
  <2>. HIDE DEF r
  <2>. QED  BY <1>12, <2>1, FrameIs
<1>14. Tried(rate)'
  BY <1>6, <1>10, <1>11 DEF Tried, Waiting
<1>15. Collecting(BaudRequest(rate).args)'
  <2>. DEFINE empty == <<>>
              base  == BaudRequest(rate).args
              args  == r.args
  <2>1. empty \in Seq(Byte) /\ base \in Seq(Byte) /\ args \in Seq(Byte)
    <3>1. empty \in Seq(Byte)
      OBVIOUS
    <3>2. base \in Seq(Byte) /\ args \in Seq(Byte)
      BY <1>5, BaudArgs, Zenon
    <3>. QED  BY <3>1, <3>2, Zenon
  <2>2. empty \o args = args /\ base \o empty = base
    <3>. HIDE DEF args, base
    <3>. QED  BY <2>1, CollectingNone
  <2>3. request'.args = args /\ rx' = base /\ Pending' = Left(args, request'.cmd)
    BY <1>1, <1>6, <1>10, <1>11, <1>13
  <2>. HIDE DEF args, base, r
  <2>4. request'.args = empty \o args /\ rx' = base \o empty
    BY <2>2, <2>3
  <2>5. Collecting(base)'
    BY <2>1, <2>3, <2>4, Zenon DEF Collecting
  <2>. QED  BY <2>5 DEF base
<1>16. ConfirmProgress'
  BY <1>10, <1>14, <1>15 DEF ConfirmProgress
<1>17. request'.cmd # ESCAPE_CHAR
  BY <1>10, CodesNotEscape DEF BaudConfirm
<1>18. Progress'
  BY <1>9, <1>10, <1>11, <1>16, <1>17 DEF Progress
<1>. QED  BY <1>18 DEF Proceeds

\* A byte that arrives is pending as it was before.
LEMMA ByteArrivesProceeds ==
  ASSUME Contents, ByteArrives, rhr = <<>>, Proceeds
  PROVE  Proceeds'
<1>1. /\ sending # <<>> /\ Settled
      /\ rhr' = <<Head(sending)>> /\ sending' = Tail(sending) /\ ShiftOut
  BY DEF ByteArrives
<1>2. /\ UNCHANGED rxVars /\ tx' = tx /\ UNCHANGED baudVars /\ UNCHANGED flashVars
      /\ job' = job /\ request' = request /\ before' = before
  BY <1>1 DEF ShiftOut
<1>3. /\ byte_escape' = byte_escape /\ rx' = rx /\ flash' = flash
      /\ change_baud_state' = change_baud_state /\ baudrate' = baudrate
  BY <1>2 DEF rxVars, baudVars, flashVars
<1>4. Progress
  BY <1>1 DEF Proceeds, Working, Finished, Faulted, Heard
<1>5. shifter = <<>> /\ got = <<>>
  BY <1>4 DEF Progress
<1>6. shifter' = <<>> /\ got' = got
  BY <1>1, <1>5 DEF ShiftOut, TxEmpty
<1>7. Pending' = Pending
  <2>1. sending = Before(Head(sending), Tail(sending))
    BY <1>1, RequestIs, BeforeFirst
  <2>2. rhr' # <<>> /\ Head(rhr') = Head(sending)
    BY <1>1
  <2>3. Coming = sending /\ Coming' = Before(Head(sending), Tail(sending))
    BY <1>1, <2>2, Zenon DEF Coming
  <2>4. Coming' = Coming
    BY <2>1, <2>3, Zenon
  <2>. QED  BY <1>3, <2>4, Zenon DEF Pending
<1>8. ~(change_baud_state = "CHANGING" /\ job \in {None, Drain})
  <2>. SUFFICES ASSUME change_baud_state = "CHANGING", job \in {None, Drain} PROVE FALSE
    OBVIOUS
  <2>1. TxReady /\ TxEmpty
    BY <1>5 DEF TxReady, TxEmpty
  <2>2. Switching
    BY DEF Switching
  <2>. QED  BY <1>1, <2>1, <2>2, KindsDiffer DEF Settled
<1>9. KeepsTried
  BY <1>2, <1>3, <1>8 DEF KeepsTried, Tried, Waiting
<1>10. Progress'
  BY <1>2, <1>3, <1>4, <1>6, <1>7, <1>9, ProgressStays
<1>. QED  BY <1>10 DEF Proceeds

LEMMA HostReceivesProceeds ==
  ASSUME Sent, got \in Seq(Byte), HostReceives, Compatible, Proceeds
  PROVE  Proceeds'
<1>1. shifter # <<>> /\ rhr' = rhr /\ sending' = sending /\ ShiftOut
  BY DEF HostReceives, TxEmpty
<1>2. /\ UNCHANGED rxVars /\ tx' = tx /\ UNCHANGED baudVars /\ UNCHANGED flashVars
      /\ job' = job /\ request' = request /\ before' = before
      /\ shifter' = Tail(shifter) /\ got' = Append(got, Head(shifter))
  BY <1>1 DEF ShiftOut, TxEmpty
<1>3. /\ byte_escape' = byte_escape /\ rx' = rx /\ flash' = flash
      /\ change_baud_state' = change_baud_state /\ baudrate' = baudrate
      /\ new_baud_rate' = new_baud_rate
  BY <1>2 DEF rxVars, baudVars, flashVars
<1>4. Finished
  BY <1>1 DEF Proceeds, Progress, Working, Faulted, Nothing
<1>5. Heard' /\ job' \in {None, Drain}
  BY <1>1, <1>2, <1>4 DEF Finished, Heard
<1>6. KeepsTried
  BY <1>1, <1>2, <1>3 DEF KeepsTried, Tried, Waiting
<1>7. got' \o shifter' = got \o shifter
  <2>1. shifter \in Seq(Byte)
    BY DEF Sent
  <2>. QED  BY <1>1, <1>2, <2>1, MoveOne
<1>8. Finished'
  BY <1>2, <1>3, <1>4, <1>5, <1>6, <1>7, FinishedStays
<1>. QED  BY <1>8 DEF Proceeds

-----------------------------------------------------------------------------
(* All steps.                                                               *)

LEMMA AnsweringInit == Init => Answering
<1>. SUFFICES ASSUME Init PROVE Answering
  OBVIOUS
<1>1. got = <<>> /\ clean = FALSE
  BY DEF Init, HostInit
<1>2. got \in Seq(Byte)
  BY <1>1
<1>3. clean \in BOOLEAN /\ ~clean
  BY <1>1
<1>. QED  BY <1>2, <1>3 DEF Answering

\* What the host has got is bytes.
LEMMA NextGot ==
  ASSUME Sent, [Next]_vars, got \in Seq(Byte)
  PROVE  got' \in Seq(Byte)
<1>1. CASE got' = got
  BY <1>1
<1>2. CASE got' = <<>>
  BY <1>2
<1>3. CASE ShiftOut
  <2>1. CASE TxEmpty
    <3>1. got' = got
      BY <1>3, <2>1 DEF ShiftOut
    <3>. QED  BY <3>1
  <2>2. CASE ~TxEmpty
    <3>1. shifter \in Seq(Byte) /\ shifter # <<>>
      BY <2>2 DEF Sent, TxEmpty
    <3>2. Head(shifter) \in Byte
      BY <3>1
    <3>3. got' = got \/ got' = Append(got, Head(shifter))
      BY <1>3 DEF ShiftOut
    <3>. QED  BY <3>2, <3>3
  <2>. QED  BY <2>1, <2>2
<1>4. \/ Loop \/ Controller \/ EraseFails \/ KeepRate \/ UNCHANGED vars
      \/ PowerCycle \/ (\E r, rate : Ask(r, rate)) \/ ShiftOut
  BY Zenon DEF Next, NewRequest, NewRate, Confirm, Timeout, ByteArrives, NoiseArrives,
               ByteLost, HostReceives
<1>5. CASE Loop \/ Controller \/ EraseFails \/ KeepRate \/ UNCHANGED vars
  <2>1. got' = got
    BY <1>5 DEF Loop, Controller, Receive, Transmit, StartDrain, SwitchRate, EraseDone,
                WriteDone, EraseFails, KeepRate, hostVars, vars
  <2>. QED  BY <1>1, <2>1
<1>6. CASE PowerCycle \/ \E r, rate : Ask(r, rate)
  <2>1. got' = <<>>
    BY <1>6, Zenon DEF PowerCycle, Ask
  <2>. QED  BY <1>2, <2>1
<1>. QED  BY <1>3, <1>4, <1>5, <1>6

LEMMA NextClean ==
  ASSUME [Next]_vars, clean \in BOOLEAN
  PROVE  clean' \in BOOLEAN
<1>1. CASE clean' = clean
  BY <1>1
<1>2. CASE NewRequest
  <2>. PICK r \in Requests :
         clean' = /\ ~byte_escape /\ change_baud_state = "IDLE"
                  /\ IF r.sync THEN Len(rx) + 1 < RXBUFSZ ELSE rx = <<>>
                  /\ Len(r.args) < RXBUFSZ
    BY <1>2 DEF NewRequest
  <2>. QED  OBVIOUS
<1>3. CASE NewRate
  <2>1. clean' = (~byte_escape /\ Len(rx) + 1 < RXBUFSZ /\ change_baud_state = "IDLE")
    BY <1>3 DEF NewRate
  <2>. QED  BY <2>1
<1>4. CASE EraseFails \/ PowerCycle \/ Timeout \/ NoiseArrives \/ ByteLost
  <2>1. clean' = FALSE
    BY <1>4, Zenon DEF EraseFails, PowerCycle, Timeout, NoiseArrives, ByteLost
  <2>. QED  BY <2>1
<1>5. CASE ByteArrives \/ HostReceives
  <2>1. clean' = (clean /\ rhr = <<>>) \/ clean' = (clean /\ Compatible)
    BY <1>5 DEF ByteArrives, HostReceives
  <2>. QED  BY <2>1
<1>6. CASE Loop \/ Controller \/ KeepRate \/ Confirm \/ UNCHANGED vars
  <2>1. clean' = clean
    BY <1>6 DEF Loop, Controller, Receive, Transmit, StartDrain, SwitchRate, EraseDone,
                WriteDone, KeepRate, Confirm, hostVars, vars
  <2>. QED  BY <1>1, <2>1
<1>. QED  BY <1>2, <1>3, <1>4, <1>5, <1>6, Zenon DEF Next

\* Every step that leaves a request undisturbed takes it a stage further, or
\* begins it.
LEMMA NextProceeds ==
  ASSUME CrcBytes, Contents, Sent, Answering, [Next]_vars, clean'
  PROVE  Proceeds'
<1>0. /\ got \in Seq(Byte) /\ clean \in BOOLEAN
      /\ clean => Proceeds
  BY DEF Answering
<1>1. CASE Loop
  <2>1. clean' = clean
    BY <1>1 DEF Loop, Receive, Transmit, StartDrain, SwitchRate, hostVars
  <2>2. Proceeds
    BY <1>0, <2>1
  <2>. QED  BY <1>0, <1>1, <2>2, ReceiveProceeds, TransmitProceeds, StartDrainProceeds,
               SwitchRateProceeds, Zenon DEF Loop
<1>2. CASE Controller
  <2>1. clean' = clean
    BY <1>2 DEF Controller, EraseDone, WriteDone, hostVars
  <2>2. Proceeds
    BY <1>0, <2>1
  <2>. QED  BY <1>2, <2>2, ControllerProceeds, Zenon
<1>3. CASE NewRequest \/ NewRate
  BY <1>3, NewProceeds, Zenon
<1>4. CASE Confirm
  <2>1. clean' = clean
    BY <1>4 DEF Confirm
  <2>2. Proceeds
    BY <1>0, <2>1
  <2>. QED  BY <1>4, <2>2, ConfirmProceeds, Zenon
<1>5. CASE KeepRate \/ UNCHANGED vars
  <2>1. /\ UNCHANGED <<rxVars, tx, baudVars, lineVars, flashVars, job>>
        /\ UNCHANGED <<sending, request, got, before>>
        /\ clean' = clean
    BY <1>5 DEF KeepRate, vars, hostVars, askVars
  <2>2. Proceeds
    BY <1>0, <2>1
  <2>. QED  BY <2>1, <2>2, UnchangedProceeds, Zenon
<1>6. CASE ByteArrives
  <2>1. clean' = (clean /\ rhr = <<>>)
    BY <1>6 DEF ByteArrives
  <2>2. rhr = <<>> /\ Proceeds
    BY <1>0, <2>1
  <2>. QED  BY <1>6, <2>2, ByteArrivesProceeds, Zenon
<1>7. CASE HostReceives
  <2>1. clean' = (clean /\ Compatible)
    BY <1>7 DEF HostReceives
  <2>2. Compatible /\ Proceeds
    <3>1. clean /\ Compatible
      BY <2>1
    <3>. QED  BY <1>0, <3>1, Zenon
  <2>. QED  BY <1>0, <1>7, <2>2, HostReceivesProceeds, Zenon
<1>8. CASE EraseFails \/ PowerCycle \/ Timeout \/ NoiseArrives \/ ByteLost
  <2>1. clean' = FALSE
    BY <1>8, Zenon DEF EraseFails, PowerCycle, Timeout, NoiseArrives, ByteLost
  <2>. QED  BY <2>1
<1>. QED  BY <1>1, <1>2, <1>3, <1>4, <1>5, <1>6, <1>7, <1>8, Zenon DEF Next

LEMMA NextAnswering ==
  ASSUME CrcBytes, Contents, Sent, Answering, [Next]_vars
  PROVE  Answering'
<1>1. got \in Seq(Byte) /\ clean \in BOOLEAN
  BY DEF Answering
<1>2. got' \in Seq(Byte)
  BY <1>1, NextGot, Zenon
<1>3. clean' \in BOOLEAN
  BY <1>1, NextClean, Zenon
<1>4. clean' => Proceeds'
  BY NextProceeds, Zenon
<1>. QED  BY <1>2, <1>3, <1>4, Zenon DEF Answering

\* AnswersRight: the reply to a request that nothing disturbed, from the first byte
\* the host has read to the last one in the buffer, is the one that is promised
\* for its command and arguments and for flash as it was, and flash is as
\* promised, whatever an earlier request left in the buffers, for every size of
\* page, flash and buffer (the bl_c_* of bl_commands.c, bl_cmd and bl_loop_poll).
\* A CRC is taken to be four bytes.
THEOREM AnswersAreRight ==
  ASSUME CrcBytes
  PROVE  Spec => []AnswersRight
<1>1. Contents /\ Sent /\ [Next]_vars => Sent'
  BY NextSends
<1>2. Contents /\ Sent /\ Answering /\ [Next]_vars => Answering'
  BY NextAnswering
<1>3. Contents /\ Answering => AnswersRight
  BY AnswersFollow
<1>. QED  BY ContentsInvariant, SentInit, AnsweringInit, <1>1, <1>2, <1>3, PTL DEF Spec

=============================================================================
