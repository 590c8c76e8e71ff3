-------------------------- MODULE BootloaderProofs --------------------------
(***************************************************************************)
(* Theorems about Bootloader, for every page size, flash size, layout, set *)
(* of command arguments and set of faults that the assumptions allow.      *)
(*                                                                         *)
(* The first part is about what the operators of Crc32 and BootloaderData  *)
(* compute over a string of any length: by induction, for which the        *)
(* library's theorems serve in the form of a least number, the one that    *)
(* takes no operator as a parameter.  The second has the types and the     *)
(* safety properties, the third the refinement of BootloaderService.       *)
(***************************************************************************)
EXTENDS Bootloader, SequenceTheorems, FiniteSetTheorems,
        WellFoundedInduction, TLAPS

-----------------------------------------------------------------------------
(* Induction.                                                              *)

LEMMA NatWellFounded ==
  IsWellFoundedOn({ss \in Nat \X Nat : ss[1] < ss[2]}, Nat)
BY NatLessThanWellFounded DEF OpToRel

LEMMA LeastNat ==
  ASSUME NEW T, T \subseteq Nat, T # {}
  PROVE  \E n \in T : \A m \in T : n <= m
<1>. DEFINE R == {ss \in Nat \X Nat : ss[1] < ss[2]}
<1>1. PICK n \in T : \A m \in T : <<m, n>> \notin R
  BY NatWellFounded, WFMin
<1>2. \A m \in T : n <= m
  <2>. SUFFICES ASSUME NEW m \in T, m < n PROVE FALSE
    OBVIOUS
  <2>1. <<m, n>> \in R
    OBVIOUS
  <2>. QED  BY <1>1, <2>1
<1>. QED  BY <1>2

\* A set that contains 0, and with each number below n the next one, contains
\* them all up to n.
LEMMA Induction ==
  ASSUME NEW n \in Nat, NEW T, 0 \in T,
         \A i \in 0 .. n - 1 : i \in T => i + 1 \in T
  PROVE  0 .. n \subseteq T
<1>. SUFFICES ASSUME (0 .. n) \ T # {} PROVE FALSE
  OBVIOUS
<1>. DEFINE U == (0 .. n) \ T
<1>1. PICK m \in U : \A k \in U : m <= k
  <2>1. U \subseteq Nat /\ U # {}
    OBVIOUS
  <2>. HIDE DEF U
  <2>. QED  BY <2>1, LeastNat
<1>2. m - 1 \in 0 .. n - 1 /\ m - 1 \in T
  BY <1>1
<1>. QED  BY <1>1, <1>2

-----------------------------------------------------------------------------
(* The CRC.                                                                *)

\* The values that the loop over the bytes goes through.
IsCrcRun(f, crc, string, n) ==
  f = [i \in 0 .. n |-> IF i = 0 THEN crc ELSE CrcStep(f[i - 1], string[i])]

LEMMA CrcRunExists ==
  ASSUME NEW crc, NEW string, NEW n \in Nat
  PROVE  \E f : IsCrcRun(f, crc, string, n)
<1>. DEFINE T == {m \in Nat : \E f : IsCrcRun(f, crc, string, m)}
<1>1. 0 \in T
  <2>. DEFINE f == [i \in 0 .. 0 |-> crc]
  <2>1. f = [i \in 0 .. 0 |-> IF i = 0 THEN crc ELSE CrcStep(f[i - 1], string[i])]
    OBVIOUS
  <2>. QED  BY <2>1 DEF IsCrcRun
<1>2. ASSUME NEW m \in 0 .. n - 1, m \in T
      PROVE  m + 1 \in T
  <2>1. PICK f : IsCrcRun(f, crc, string, m)
    BY <1>2
  <2>. DEFINE g == [i \in 0 .. m + 1 |-> IF i <= m THEN f[i]
                                        ELSE CrcStep(f[m], string[m + 1])]
  <2>2. ASSUME NEW i \in 0 .. m + 1
        PROVE  g[i] = IF i = 0 THEN crc ELSE CrcStep(g[i - 1], string[i])
    <3>1. CASE i <= m
      BY <2>1, <3>1 DEF IsCrcRun
    <3>2. CASE i = m + 1
      <4>1. g[i] = CrcStep(f[m], string[m + 1]) /\ g[i - 1] = f[m] /\ i # 0
        BY <3>2
      <4>. QED  BY <3>2, <4>1
    <3>. QED  BY <3>1, <3>2
  <2>3. IsCrcRun(g, crc, string, m + 1)
    BY <2>2 DEF IsCrcRun
  <2>. QED  BY <2>3
<1>. HIDE DEF T
<1>3. n \in T
  BY <1>1, <1>2, Induction
<1>. QED  BY <1>3 DEF T

LEMMA CrcFoldIsRun ==
  ASSUME NEW crc, NEW string, Len(string) \in Nat
  PROVE  \E f : /\ IsCrcRun(f, crc, string, Len(string))
               /\ CrcFold(crc, string) = f[Len(string)]
<1>. DEFINE f == CHOOSE g : IsCrcRun(g, crc, string, Len(string))
<1>1. IsCrcRun(f, crc, string, Len(string))
  BY CrcRunExists
<1>2. CrcFold(crc, string) = f[Len(string)]
  BY DEF CrcFold, IsCrcRun
<1>. QED  BY <1>1, <1>2

LEMMA CrcRunStep ==
  ASSUME NEW f, NEW crc, NEW string, NEW n \in Nat, IsCrcRun(f, crc, string, n)
  PROVE  /\ f[0] = crc
         /\ \A i \in 0 .. n - 1 : f[i + 1] = CrcStep(f[i], string[i + 1])
<1>1. f[0] = crc
  BY DEF IsCrcRun
<1>2. ASSUME NEW i \in 0 .. n - 1
      PROVE  f[i + 1] = CrcStep(f[i], string[i + 1])
  <2>1. i + 1 \in 0 .. n /\ i + 1 # 0 /\ (i + 1) - 1 = i
    OBVIOUS
  <2>. QED  BY <2>1 DEF IsCrcRun
<1>. QED  BY <1>1, <1>2

LEMMA CrcFoldEmpty == \A crc : CrcFold(crc, <<>>) = crc
<1>. TAKE crc
<1>1. Len(<<>>) = 0
  OBVIOUS
<1>2. PICK f : IsCrcRun(f, crc, <<>>, 0) /\ CrcFold(crc, <<>>) = f[0]
  BY <1>1, CrcFoldIsRun
<1>. QED  BY <1>2 DEF IsCrcRun

\* Folding one string after another is folding the two in one: a CRC may be
\* computed page by page.
THEOREM CrcFoldConcat ==
  ASSUME NEW crc, NEW S, NEW s \in Seq(S), NEW t \in Seq(S)
  PROVE  CrcFold(crc, s \o t) = CrcFold(CrcFold(crc, s), t)
<1>1. PICK f : /\ IsCrcRun(f, crc, s, Len(s))
               /\ CrcFold(crc, s) = f[Len(s)]
  BY CrcFoldIsRun
<1>2. PICK g : /\ IsCrcRun(g, CrcFold(crc, s), t, Len(t))
               /\ CrcFold(CrcFold(crc, s), t) = g[Len(t)]
  BY CrcFoldIsRun
<1>3. /\ Len(s) \in Nat /\ Len(t) \in Nat /\ Len(s \o t) = Len(s) + Len(t)
      /\ \A i \in 1 .. Len(s) : (s \o t)[i] = s[i]
      /\ \A i \in 1 .. Len(t) : (s \o t)[Len(s) + i] = t[i]
  OBVIOUS
<1>4. PICK h : /\ IsCrcRun(h, crc, s \o t, Len(s) + Len(t))
               /\ CrcFold(crc, s \o t) = h[Len(s) + Len(t)]
  <2>. DEFINE st == s \o t
  <2>1. Len(st) \in Nat /\ Len(st) = Len(s) + Len(t)
    BY <1>3
  <2>. HIDE DEF st
  <2>2. \E h : /\ IsCrcRun(h, crc, st, Len(s) + Len(t))
              /\ CrcFold(crc, st) = h[Len(s) + Len(t)]
    BY <2>1, CrcFoldIsRun
  <2>. QED  BY <2>2 DEF st
<1>5. /\ h[0] = crc
      /\ \A i \in 0 .. Len(s) + Len(t) - 1 :
           h[i + 1] = CrcStep(h[i], (s \o t)[i + 1])
  <2>. DEFINE st == s \o t
  <2>1. IsCrcRun(h, crc, st, Len(s) + Len(t)) /\ Len(s) + Len(t) \in Nat
    BY <1>3, <1>4
  <2>. HIDE DEF st
  <2>2. /\ h[0] = crc
        /\ \A i \in 0 .. Len(s) + Len(t) - 1 : h[i + 1] = CrcStep(h[i], st[i + 1])
    BY <2>1, CrcRunStep
  <2>. QED  BY <2>2 DEF st
<1>. DEFINE T == {i \in Nat : h[i] = f[i]}
            U == {i \in Nat : h[Len(s) + i] = g[i]}
<1>6. 0 .. Len(s) \subseteq T
  <2>1. 0 \in T
    BY <1>1, <1>3, <1>5, CrcRunStep
  <2>2. ASSUME NEW i \in 0 .. Len(s) - 1, i \in T
        PROVE  i + 1 \in T
    <3>1. h[i + 1] = CrcStep(h[i], (s \o t)[i + 1])
      BY <1>3, <1>5
    <3>2. f[i + 1] = CrcStep(f[i], s[i + 1])
      BY <1>1, <1>3, CrcRunStep
    <3>3. (s \o t)[i + 1] = s[i + 1]
      BY <1>3
    <3>. QED  BY <2>2, <3>1, <3>2, <3>3
  <2>. HIDE DEF T
  <2>. QED  BY <2>1, <2>2, <1>3, Induction
<1>7. 0 .. Len(t) \subseteq U
  <2>1. 0 \in U
    <3>1. h[Len(s)] = f[Len(s)]
      BY <1>3, <1>6
    <3>2. g[0] = CrcFold(crc, s)
      BY <1>2, <1>3, CrcRunStep
    <3>. QED  BY <1>1, <1>3, <3>1, <3>2
  <2>2. ASSUME NEW i \in 0 .. Len(t) - 1, i \in U
        PROVE  i + 1 \in U
    <3>1. Len(s) + (i + 1) \in 1 .. Len(s) + Len(t)
          /\ (Len(s) + (i + 1)) - 1 = Len(s) + i
      BY <1>3
    <3>2. h[Len(s) + (i + 1)] = CrcStep(h[Len(s) + i], (s \o t)[Len(s) + (i + 1)])
      <4>1. /\ Len(s) + i \in 0 .. Len(s) + Len(t) - 1
            /\ (Len(s) + i) + 1 = Len(s) + (i + 1)
        BY <1>3
      <4>. QED  BY <1>5, <4>1
    <3>3. g[i + 1] = CrcStep(g[i], t[i + 1])
      BY <1>2, <1>3, CrcRunStep
    <3>4. (s \o t)[Len(s) + (i + 1)] = t[i + 1]
      BY <1>3
    <3>. QED  BY <2>2, <3>2, <3>3, <3>4
  <2>. HIDE DEF U
  <2>. QED  BY <2>1, <2>2, <1>3, Induction
<1>. QED  BY <1>2, <1>3, <1>4, <1>7

-----------------------------------------------------------------------------
(* Escaping.                                                               *)

\* What becomes of one byte, and the prefixes that escaping s goes through.
Escaped(b) == IF b = ESCAPE_CHAR THEN <<ESCAPE_CHAR, ESCAPE_CHAR>> ELSE <<b>>

IsEscapeRun(f, s) ==
  /\ f[0] = <<>>
  /\ \A i \in 0 .. Len(s) - 1 : f[i + 1] = f[i] \o Escaped(s[i + 1])

LEMMA EscapedType ==
  ASSUME NEW b \in Byte
  PROVE  /\ Escaped(b) \in Seq(Byte)
         /\ Len(Escaped(b)) = IF b = ESCAPE_CHAR THEN 2 ELSE 1
<1>1. ESCAPE_CHAR \in Byte
  BY DEF ESCAPE_CHAR, Byte
<1>. QED  BY <1>1 DEF Escaped

IsFlatRun(g, seqs, n) ==
  g = [i \in 1 .. n |-> IF i = 1 THEN seqs[i] ELSE g[i - 1] \o seqs[i]]

LEMMA FlatRunExists ==
  ASSUME NEW seqs, NEW n \in Nat
  PROVE  \E g : IsFlatRun(g, seqs, n)
<1>. DEFINE T == {m \in Nat : \E g : IsFlatRun(g, seqs, m)}
<1>1. 0 \in T
  <2>. DEFINE g == [i \in 1 .. 0 |-> {}]
  <2>1. g = [i \in 1 .. 0 |-> IF i = 1 THEN seqs[i] ELSE g[i - 1] \o seqs[i]]
    OBVIOUS
  <2>. QED  BY <2>1 DEF IsFlatRun
<1>2. ASSUME NEW m \in 0 .. n - 1, m \in T
      PROVE  m + 1 \in T
  <2>1. PICK f : IsFlatRun(f, seqs, m)
    BY <1>2
  <2>. DEFINE g == [i \in 1 .. m + 1 |->
                      IF i <= m THEN f[i]
                      ELSE IF i = 1 THEN seqs[i] ELSE f[m] \o seqs[m + 1]]
  <2>2. ASSUME NEW i \in 1 .. m + 1
        PROVE  g[i] = IF i = 1 THEN seqs[i] ELSE g[i - 1] \o seqs[i]
    <3>1. CASE i <= m
      <4>1. g[i] = f[i] /\ i \in 1 .. m
        BY <3>1
      <4>2. f[i] = IF i = 1 THEN seqs[i] ELSE f[i - 1] \o seqs[i]
        BY <2>1, <4>1 DEF IsFlatRun
      <4>3. i # 1 => g[i - 1] = f[i - 1]
        BY <3>1
      <4>. QED  BY <4>1, <4>2, <4>3
    <3>2. CASE i = m + 1
      <4>1. i # 1 => g[i - 1] = f[m]
        BY <3>2
      <4>2. g[i] = IF i = 1 THEN seqs[i] ELSE f[m] \o seqs[i]
        BY <3>2
      <4>. QED  BY <3>2, <4>1, <4>2
    <3>. QED  BY <3>1, <3>2
  <2>3. IsFlatRun(g, seqs, m + 1)
    BY <2>2 DEF IsFlatRun
  <2>. QED  BY <2>3
<1>. HIDE DEF T
<1>3. n \in T
  BY <1>1, <1>2, Induction
<1>. QED  BY <1>3 DEF T

LEMMA FlattenIsRun ==
  ASSUME NEW seqs, Len(seqs) \in Nat \ {0}
  PROVE  \E g : IsFlatRun(g, seqs, Len(seqs)) /\ FlattenSeq(seqs) = g[Len(seqs)]
<1>. DEFINE g == CHOOSE h : IsFlatRun(h, seqs, Len(seqs))
<1>1. IsFlatRun(g, seqs, Len(seqs))
  BY FlatRunExists
<1>2. FlattenSeq(seqs) = g[Len(seqs)]
  BY DEF FlattenSeq, IsFlatRun
<1>. QED  BY <1>1, <1>2

LEMMA EscapeIsRun ==
  ASSUME NEW s \in Seq(Byte)
  PROVE  \E f : IsEscapeRun(f, s) /\ Escape(s) = f[Len(s)]
<1>. DEFINE n    == Len(s)
            seqs == [i \in 1 .. n |-> Escaped(s[i])]
<1>1. n \in Nat /\ Escape(s) = FlattenSeq(seqs)
  <2>1. n \in Nat /\ DOMAIN s = 1 .. n
    OBVIOUS
  <2>. QED  BY <2>1 DEF Escape, Escaped
<1>2. seqs \in Seq(Seq(Byte)) /\ Len(seqs) = n
      /\ \A i \in 1 .. n : seqs[i] = Escaped(s[i])
  <2>1. \A i \in 1 .. n : Escaped(s[i]) \in Seq(Byte)
    BY EscapedType
  <2>. QED  BY <1>1, <2>1
<1>. HIDE DEF seqs, n
<1>3. CASE n = 0
  <2>1. FlattenSeq(seqs) = <<>>
    BY <1>2, <1>3 DEF FlattenSeq
  <2>2. IsEscapeRun([i \in {0} |-> <<>>], s)
    BY <1>3 DEF IsEscapeRun, n
  <2>. QED  BY <1>1, <1>3, <2>1, <2>2 DEF n
<1>4. CASE n # 0
  <2>1. PICK g : IsFlatRun(g, seqs, n) /\ FlattenSeq(seqs) = g[n]
    BY <1>1, <1>2, <1>4, FlattenIsRun
  <2>. DEFINE f == [i \in 0 .. n |-> IF i = 0 THEN <<>> ELSE g[i]]
  <2>2. ASSUME NEW i \in 0 .. n - 1
        PROVE  f[i + 1] = f[i] \o Escaped(s[i + 1])
    <3>1. /\ i + 1 \in 1 .. n
          /\ f[i + 1] = g[i + 1]
          /\ f[i] = IF i = 0 THEN <<>> ELSE g[i]
      BY <1>1
    <3>2. g[i + 1] = IF i + 1 = 1 THEN seqs[i + 1]
                     ELSE g[(i + 1) - 1] \o seqs[i + 1]
      BY <2>1, <3>1 DEF IsFlatRun
    <3>3. (i + 1) - 1 = i
      OBVIOUS
    <3>4. seqs[i + 1] = Escaped(s[i + 1]) /\ seqs[i + 1] \in Seq(Byte)
      BY <1>2, <3>1
    <3>5. CASE i = 0
      <4>1. f[i + 1] = seqs[i + 1] /\ f[i] = <<>>
        BY <3>1, <3>2, <3>5
      <4>2. <<>> \o seqs[i + 1] = seqs[i + 1]
        BY <3>4, ConcatEmptySeq
      <4>. QED  BY <3>4, <4>1, <4>2
    <3>6. CASE i # 0
      <4>1. i + 1 # 1
        BY <1>1, <3>6
      <4>2. g[i + 1] = g[i] \o Escaped(s[i + 1])
        BY <3>2, <3>3, <3>4, <4>1
      <4>3. f[i] = g[i] /\ f[i + 1] = g[i + 1]
        BY <3>1, <3>6
      <4>. HIDE DEF f
      <4>. QED  BY <4>2, <4>3
    <3>. QED  BY <3>5, <3>6
  <2>3. f[0] = <<>> /\ f[n] = g[n]
    BY <1>1, <1>4
  <2>. QED  BY <1>1, <2>1, <2>2, <2>3 DEF IsEscapeRun, n
<1>. QED  BY <1>3, <1>4

LEMMA EscapeRunType ==
  ASSUME NEW s \in Seq(Byte), NEW f, IsEscapeRun(f, s)
  PROVE  \A i \in 0 .. Len(s) : f[i] \in Seq(Byte)
<1>. DEFINE T == {i \in Nat : f[i] \in Seq(Byte)}
<1>1. 0 \in T
  BY EmptySeq DEF IsEscapeRun
<1>2. ASSUME NEW i \in 0 .. Len(s) - 1, i \in T
      PROVE  i + 1 \in T
  <2>1. f[i + 1] = f[i] \o Escaped(s[i + 1])
    BY DEF IsEscapeRun
  <2>2. s[i + 1] \in Byte /\ i \in Nat
    OBVIOUS
  <2>3. f[i + 1] \in Seq(Byte)
    BY <1>2, <2>1, <2>2, EscapedType, ConcatProperties
  <2>. QED  BY <2>2, <2>3
<1>. HIDE DEF T
<1>3. Len(s) \in Nat
  OBVIOUS
<1>4. 0 .. Len(s) \subseteq T
  BY <1>1, <1>2, <1>3, Induction
<1>. QED  BY <1>4 DEF T

LEMMA EscapeType ==
  ASSUME NEW s \in Seq(Byte)
  PROVE  Escape(s) \in Seq(Byte)
<1>1. PICK f : IsEscapeRun(f, s) /\ Escape(s) = f[Len(s)]
  BY EscapeIsRun
<1>2. Len(s) \in 0 .. Len(s)
  OBVIOUS
<1>. QED  BY <1>1, <1>2, EscapeRunType

LEMMA EscapeEmpty == Escape(<<>>) = <<>>
<1>1. <<>> \in Seq(Byte) /\ Len(<<>>) = 0
  OBVIOUS
<1>2. PICK f : IsEscapeRun(f, <<>>) /\ Escape(<<>>) = f[0]
  BY <1>1, EscapeIsRun
<1>. QED  BY <1>2 DEF IsEscapeRun

LEMMA BytesAssociative ==
  \A v, w, x \in Seq(Byte) : (v \o w) \o x = v \o (w \o x)
<1>. DEFINE B == Byte
<1>. SUFFICES ASSUME NEW v \in Seq(B), NEW w \in Seq(B), NEW x \in Seq(B)
              PROVE  (v \o w) \o x = v \o (w \o x)
  OBVIOUS
<1>. HIDE DEF B
<1>. QED  BY ConcatAssociative

\* Escaping one string after another is escaping the two in one: a reply may
\* be copied page by page, as ReadRange does.
THEOREM EscapeConcat ==
  ASSUME NEW s \in Seq(Byte), NEW t \in Seq(Byte)
  PROVE  Escape(s \o t) = Escape(s) \o Escape(t)
<1>1. PICK f : IsEscapeRun(f, s) /\ Escape(s) = f[Len(s)]
  BY EscapeIsRun
<1>2. PICK g : IsEscapeRun(g, t) /\ Escape(t) = g[Len(t)]
  BY EscapeIsRun
<1>3. /\ Len(s) \in Nat /\ Len(t) \in Nat
      /\ \A i \in 0 .. Len(s) - 1 : i + 1 \in 1 .. Len(s) /\ s[i + 1] \in Byte
      /\ \A i \in 0 .. Len(t) - 1 : i + 1 \in 1 .. Len(t) /\ t[i + 1] \in Byte
  OBVIOUS
<1>4. PICK u \in Seq(Byte) :
         /\ u = s \o t
         /\ Len(u) = Len(s) + Len(t)
         /\ \A i \in 1 .. Len(s) : u[i] = s[i]
         /\ \A i \in 1 .. Len(t) : u[Len(s) + i] = t[i]
  <2>1. s \o t \in Seq(Byte) /\ Len(s \o t) = Len(s) + Len(t)
    OBVIOUS
  <2>2. \A i \in 1 .. Len(s) : (s \o t)[i] = s[i]
    OBVIOUS
  <2>3. \A i \in 1 .. Len(t) : (s \o t)[Len(s) + i] = t[i]
    OBVIOUS
  <2>. QED  BY <2>1, <2>2, <2>3
<1>5. PICK h : IsEscapeRun(h, u) /\ Escape(u) = h[Len(s) + Len(t)]
  BY <1>4, EscapeIsRun
<1>6. /\ h[0] = <<>>
      /\ \A i \in 0 .. Len(s) + Len(t) - 1 :
           h[i + 1] = h[i] \o Escaped(u[i + 1])
  <2>1. h[0] = <<>>
    BY <1>5 DEF IsEscapeRun
  <2>2. \A i \in 0 .. Len(u) - 1 : h[i + 1] = h[i] \o Escaped(u[i + 1])
    BY <1>5, Zenon DEF IsEscapeRun
  <2>3. 0 .. Len(s) + Len(t) - 1 = 0 .. Len(u) - 1
    BY <1>4
  <2>. QED  BY <2>1, <2>2, <2>3, Zenon
<1>. DEFINE T == {i \in Nat : h[i] = f[i]}
            U == {i \in Nat : h[Len(s) + i] = f[Len(s)] \o g[i]}
<1>7. 0 .. Len(s) \subseteq T
  <2>1. 0 \in T
    BY <1>1, <1>6 DEF IsEscapeRun
  <2>2. ASSUME NEW i \in 0 .. Len(s) - 1, i \in T
        PROVE  i + 1 \in T
    <3>1. i \in 0 .. Len(s) + Len(t) - 1 /\ i + 1 \in 1 .. Len(s)
      BY <1>3
    <3>2. h[i + 1] = h[i] \o Escaped(s[i + 1])
      BY <1>3, <1>4, <1>6, <3>1
    <3>3. f[i + 1] = f[i] \o Escaped(s[i + 1])
      BY <1>1, Zenon DEF IsEscapeRun
    <3>4. h[i] = f[i]
      BY <2>2
    <3>5. h[i + 1] = f[i + 1]
      BY <3>2, <3>3, <3>4, Zenon
    <3>. QED  BY <3>5
  <2>. HIDE DEF T
  <2>. QED  BY <2>1, <2>2, <1>3, Induction
<1>8. f[Len(s)] \in Seq(Byte) /\ \A i \in 0 .. Len(t) : g[i] \in Seq(Byte)
  BY <1>1, <1>2, <1>3, EscapeRunType
<1>9. 0 .. Len(t) \subseteq U
  <2>1. 0 \in U
    <3>1. h[Len(s)] = f[Len(s)]
      BY <1>3, <1>7
    <3>2. f[Len(s)] \o g[0] = f[Len(s)]
      <4>1. g[0] = <<>>
        BY <1>2 DEF IsEscapeRun
      <4>. QED  BY <1>8, <4>1, ConcatEmptySeq, Zenon
    <3>3. Len(s) + 0 = Len(s) /\ 0 \in Nat
      BY <1>3
    <3>. QED  BY <3>1, <3>2, <3>3, Zenon
  <2>2. ASSUME NEW i \in 0 .. Len(t) - 1, i \in U
        PROVE  i + 1 \in U
    <3>1. /\ Len(s) + i \in 0 .. Len(s) + Len(t) - 1
          /\ (Len(s) + i) + 1 = Len(s) + (i + 1)
          /\ i + 1 \in 1 .. Len(t) /\ i \in 0 .. Len(t)
      BY <1>3
    <3>2. h[Len(s) + (i + 1)] = h[Len(s) + i] \o Escaped(t[i + 1])
      BY <1>3, <1>4, <1>6, <3>1
    <3>3. g[i + 1] = g[i] \o Escaped(t[i + 1])
      BY <1>2 DEF IsEscapeRun
    <3>4. g[i] \in Seq(Byte) /\ Escaped(t[i + 1]) \in Seq(Byte)
      BY <1>3, <1>8, <3>1, EscapedType
    <3>5. (f[Len(s)] \o g[i]) \o Escaped(t[i + 1])
            = f[Len(s)] \o (g[i] \o Escaped(t[i + 1]))
      BY <1>8, <3>4, BytesAssociative, Zenon
    <3>6. h[Len(s) + i] = f[Len(s)] \o g[i]
      BY <2>2
    <3>7. h[Len(s) + (i + 1)] = f[Len(s)] \o g[i + 1]
      BY <3>2, <3>3, <3>5, <3>6, Zenon
    <3>8. i + 1 \in Nat
      OBVIOUS
    <3>. QED  BY <3>7, <3>8, Zenon
  <2>. HIDE DEF U
  <2>. QED  BY <2>1, <2>2, <1>3, Induction
<1>10. h[Len(s) + Len(t)] = f[Len(s)] \o g[Len(t)]
  <2>1. Len(t) \in 0 .. Len(t)
    BY <1>3
  <2>. QED  BY <1>9, <2>1, Zenon
<1>. QED  BY <1>1, <1>2, <1>4, <1>5, <1>10, Zenon

\* An escaped string is longer by the number of bytes that are the escape
\* character.
EscapesIn(s, n) == Cardinality({j \in 0 .. n - 1 : s[j + 1] = ESCAPE_CHAR})

LEMMA CountNext ==
  ASSUME NEW s, NEW n \in Nat
  PROVE  /\ EscapesIn(s, n) \in 0 .. n
         /\ EscapesIn(s, n + 1) =
              EscapesIn(s, n) + (IF s[n + 1] = ESCAPE_CHAR THEN 1 ELSE 0)
<1>. DEFINE A == {j \in 0 .. n - 1 : s[j + 1] = ESCAPE_CHAR}
            B == {j \in 0 .. (n + 1) - 1 : s[j + 1] = ESCAPE_CHAR}
<1>1. A \subseteq 0 .. n - 1 /\ n \notin A /\ n - 1 \in Int
  OBVIOUS
<1>2. IsFiniteSet(0 .. n - 1) /\ Cardinality(0 .. n - 1) = n
  BY FS_Interval
<1>3. B = IF s[n + 1] = ESCAPE_CHAR THEN A \cup {n} ELSE A
  OBVIOUS
<1>. HIDE DEF A, B
<1>4. IsFiniteSet(A) /\ Cardinality(A) \in Nat /\ Cardinality(A) <= n
  BY <1>1, <1>2, FS_Subset, FS_CardinalityType
<1>5. Cardinality(A \cup {n}) = Cardinality(A) + 1
  BY <1>1, <1>4, FS_AddElement
<1>6. Cardinality(B) = Cardinality(A) + (IF s[n + 1] = ESCAPE_CHAR THEN 1 ELSE 0)
  BY <1>3, <1>4, <1>5
<1>. QED  BY <1>4, <1>6 DEF EscapesIn, A, B

LEMMA EscapeLength ==
  ASSUME NEW s \in Seq(Byte)
  PROVE  Len(Escape(s)) = Len(s) + EscapesIn(s, Len(s))
<1>1. PICK f : IsEscapeRun(f, s) /\ Escape(s) = f[Len(s)]
  BY EscapeIsRun
<1>. DEFINE T == {i \in Nat : i \in 0 .. Len(s) =>
                                Len(f[i]) = i + EscapesIn(s, i)}
<1>2. 0 \in T
  <2>1. {j \in 0 .. 0 - 1 : s[j + 1] = ESCAPE_CHAR} = {}
    OBVIOUS
  <2>2. EscapesIn(s, 0) = 0
    BY <2>1, FS_EmptySet DEF EscapesIn
  <2>3. Len(f[0]) = 0
    BY <1>1 DEF IsEscapeRun
  <2>. QED  BY <2>2, <2>3
<1>3. ASSUME NEW i \in 0 .. Len(s) - 1, i \in T
      PROVE  i + 1 \in T
  <2>1. f[i + 1] = f[i] \o Escaped(s[i + 1])
    BY <1>1 DEF IsEscapeRun
  <2>2. f[i] \in Seq(Byte)
    BY <1>1, EscapeRunType
  <2>3. s[i + 1] \in Byte /\ i \in Nat
    OBVIOUS
  <2>4. Len(f[i + 1]) = Len(f[i]) + (IF s[i + 1] = ESCAPE_CHAR THEN 2 ELSE 1)
    <3>1. Escaped(s[i + 1]) \in Seq(Byte)
          /\ Len(Escaped(s[i + 1])) = IF s[i + 1] = ESCAPE_CHAR THEN 2 ELSE 1
      BY <2>3, EscapedType
    <3>2. Len(f[i + 1]) = Len(f[i]) + Len(Escaped(s[i + 1]))
      BY <2>1, <2>2, <3>1, ConcatProperties, Zenon
    <3>. QED  BY <3>1, <3>2
  <2>5. EscapesIn(s, i) \in Nat
        /\ EscapesIn(s, i + 1) =
             EscapesIn(s, i) + (IF s[i + 1] = ESCAPE_CHAR THEN 1 ELSE 0)
    BY <2>3, CountNext
  <2>6. Len(f[i]) = i + EscapesIn(s, i)
    BY <1>3
  <2>7. Len(f[i + 1]) = (i + 1) + EscapesIn(s, i + 1)
    BY <2>3, <2>4, <2>5, <2>6
  <2>. QED  BY <2>3, <2>7
<1>. HIDE DEF T
<1>4. Len(s) \in Nat
  OBVIOUS
<1>5. 0 .. Len(s) \subseteq T
  BY <1>2, <1>3, <1>4, Induction
<1>6. Len(s) \in T
  BY <1>4, <1>5
<1>. QED  BY <1>1, <1>4, <1>6 DEF T

\* A finite set of numbers that goes down to 0 without a gap is an interval.
LEMMA GapFree ==
  ASSUME NEW n \in Nat, NEW S, S \subseteq 0 .. n - 1,
         \A i \in S : \A j \in 0 .. i : j \in S
  PROVE  Cardinality(S) \in Nat /\ S = 0 .. Cardinality(S) - 1
<1>. DEFINE T == Nat \ S
<1>1. PICK m \in T : \A k \in T : m <= k
  <2>1. T \subseteq Nat /\ n \in T
    OBVIOUS
  <2>. HIDE DEF T
  <2>. QED  BY <2>1, LeastNat
<1>2. S = 0 .. m - 1
  <2>1. ASSUME NEW i \in S PROVE i \in 0 .. m - 1
    <3>1. i \in Nat
      OBVIOUS
    <3>2. m \in 0 .. i => FALSE
      BY <1>1
    <3>. QED  BY <1>1, <3>1, <3>2
  <2>2. ASSUME NEW i \in 0 .. m - 1 PROVE i \in S
    <3>1. i \notin T
      BY <1>1
    <3>. QED  BY <1>1, <3>1
  <2>. QED  BY <2>1, <2>2
<1>3. Cardinality(0 .. m - 1) = m
  BY FS_Interval
<1>. QED  BY <1>2, <1>3

-----------------------------------------------------------------------------
(* Pages and addresses.                                                    *)

\* An address falls on a place inside its page.
LEMMA OffsetType ==
  ASSUME NEW a \in Nat
  PROVE  OffsetOf(a) \in Offsets
  BY SizeAssumption DEF OffsetOf, Offsets

\* The page of an address is a page number, and the two give the address back.
LEMMA DivMod ==
  ASSUME NEW a \in Nat
  PROVE  PageOf(a) \in Nat /\ a = PageSize * PageOf(a) + OffsetOf(a)
  BY SizeAssumption DEF OffsetOf, PageOf

LEMMA AttributeAddressType ==
  ASSUME NEW i \in Nat
  PROVE  AttributeAddress(i) \in Nat
<1>1. AttributeSize \in Nat
  BY SizeAssumption DEF AttributeSize
<1>2. \A m, n \in Nat : m * n \in Nat
  OBVIOUS
<1>3. i * AttributeSize \in Nat
  BY <1>1, <1>2
<1>4. AttributesAddress \in Nat
  BY LayoutAssumption
<1>. QED  BY <1>3, <1>4 DEF AttributeAddress

\* Page numbers of addresses on either side of a page boundary.
LEMMA PageBelow ==
  ASSUME NEW a \in Nat, NEW k \in Nat, a < k * PageSize
  PROVE  PageOf(a) < k
<1>. DEFINE q == PageOf(a)
            r == OffsetOf(a)
<1>1. q \in Nat /\ r \in Nat /\ a = PageSize * q + r
  BY DivMod, OffsetType, SizeAssumption DEF Offsets
<1>. HIDE DEF q, r
<1>2. SUFFICES ASSUME q >= k PROVE FALSE
  BY <1>1 DEF q
<1>3. PageSize * q >= PageSize * k
  BY <1>1, <1>2, SizeAssumption
<1>. QED  BY <1>1, <1>3, SizeAssumption

LEMMA PageAbove ==
  ASSUME NEW a \in Nat, NEW k \in Nat, a >= k * PageSize
  PROVE  PageOf(a) >= k
<1>. DEFINE q == PageOf(a)
            r == OffsetOf(a)
<1>1. q \in Nat /\ r \in Nat /\ r < PageSize /\ a = PageSize * q + r
  BY DivMod, OffsetType, SizeAssumption DEF Offsets
<1>. HIDE DEF q, r
<1>2. SUFFICES ASSUME q + 1 <= k PROVE FALSE
  BY <1>1 DEF q
<1>3. PageSize * (q + 1) <= PageSize * k
  BY <1>1, <1>2, SizeAssumption
<1>4. PageSize * (q + 1) = PageSize * q + PageSize
  BY <1>1, SizeAssumption
<1>. QED  BY <1>1, <1>3, <1>4, SizeAssumption

\* The bootloader's image fills whole pages: no page outside it holds one of
\* its bytes.
LEMMA BootloaderPages ==
  ASSUME NEW a \in Nat, InBootloader(a),
         NEW b \in Nat, ~InBootloader(b)
  PROVE  PageOf(a) # PageOf(b)
<1>1. PICK s \in Nat : BootStart = s * PageSize
  BY LayoutAssumption DEF Multiple
<1>2. PICK e \in Nat : BootEnd = e * PageSize
  BY LayoutAssumption DEF Multiple
<1>3. s <= PageOf(a) /\ PageOf(a) < e
  BY <1>1, <1>2, PageAbove, PageBelow DEF InBootloader
<1>4. PageOf(b) < s \/ PageOf(b) >= e
  BY <1>1, <1>2, PageAbove, PageBelow, LayoutAssumption DEF InBootloader
<1>. QED  BY <1>3, <1>4, DivMod

\* Copying bytes over a page gives a page.
LEMMA PatchType ==
  ASSUME NEW page \in Page, NEW offset \in Nat, NEW s \in Seq(Byte)
  PROVE  Patch(page, offset, s) \in Page
<1>. SUFFICES ASSUME NEW o \in Offsets
              PROVE  Patch(page, offset, s)[o] \in Byte
  BY DEF Patch, Page
<1>1. CASE o \in offset .. offset + Len(s) - 1
  <2>1. o - offset + 1 \in 1 .. Len(s)
    BY <1>1, SizeAssumption DEF Offsets
  <2>. QED  BY <1>1, <2>1 DEF Patch
<1>2. CASE o \notin offset .. offset + Len(s) - 1
  BY <1>2 DEF Patch, Page
<1>. QED  BY <1>1, <1>2

\* A page cut short is a page.
LEMMA TornPageType ==
  ASSUME NEW page \in Page, NEW n \in Nat
  PROVE  TornPage(page, n) \in Page
  BY DEF TornPage, Page, Offsets, Byte

\* What SET_ATTRIBUTE leaves in BUF is a string of bytes.
LEMMA RecordType ==
  ASSUME NEW key \in Keys, NEW value \in Values
  PROVE  AttributeRecord(key, value) \in Seq(Byte)
<1>1. key \in Seq(Byte) /\ Len(key) = KeyLen /\ value \in Seq(Byte)
  BY ArgumentAssumption
<1>2. AttributeSize \in Nat
  BY SizeAssumption DEF AttributeSize
<1>3. ASSUME NEW i \in 1 .. AttributeSize
      PROVE  AttributeRecord(key, value)[i] \in Byte
  <2>1. CASE i <= KeyLen
    BY <1>1, <1>2, <2>1, SizeAssumption DEF AttributeRecord
  <2>2. CASE i = KeyLen + 1
    <3>1. AttributeRecord(key, value)[i] = Len(value) % 256
      BY <2>2, SizeAssumption DEF AttributeRecord
    <3>2. Len(value) \in Nat
      BY <1>1
    <3>3. \A n \in Nat : n % 256 \in 0 .. 255
      OBVIOUS
    <3>. QED  BY <3>1, <3>2, <3>3 DEF Byte
  <2>3. CASE i > KeyLen + 1 /\ i - KeyLen - 1 <= Len(value)
    <3>1. i - KeyLen - 1 \in 1 .. Len(value)
      BY <1>1, <1>2, <2>3, SizeAssumption
    <3>. QED  BY <1>1, <2>3, <3>1, SizeAssumption DEF AttributeRecord
  <2>4. CASE i > KeyLen + 1 /\ ~(i - KeyLen - 1 <= Len(value))
    BY <2>4, SizeAssumption DEF AttributeRecord, Byte
  <2>. QED  BY <2>1, <2>2, <2>3, <2>4, <1>2, SizeAssumption
<1>4. AttributeRecord(key, value) \in [1 .. AttributeSize -> Byte]
  BY <1>3 DEF AttributeRecord
<1>. QED  BY <1>2, <1>4

\* The page number of an address below the end of flash.
LEMMA PageInFlash ==
  ASSUME NEW a \in Nat, a < NumPages * PageSize
  PROVE  PageOf(a) \in Pages
<1>1. PageOf(a) < NumPages
  BY PageBelow, SizeAssumption
<1>. QED  BY <1>1, DivMod, SizeAssumption DEF Pages

\* The bytes that follow an address up to the end of its page.
LEMMA SamePage ==
  ASSUME NEW a \in Nat, NEW j \in Nat, OffsetOf(a) + j < PageSize
  PROVE  PageOf(a + j) = PageOf(a) /\ OffsetOf(a + j) = OffsetOf(a) + j
<1>. DEFINE q == PageOf(a)
            r == OffsetOf(a)
            k == PageOf(a + j)
            t == OffsetOf(a + j)
<1>1. q \in Nat /\ r \in Nat /\ a = PageSize * q + r /\ r + j < PageSize
  BY DivMod, OffsetType, SizeAssumption DEF Offsets
<1>2. a + j \in Nat
  OBVIOUS
<1>3. k \in Nat /\ t \in Nat /\ t < PageSize /\ a + j = PageSize * k + t
  <2>. DEFINE b == a + j
  <2>1. b \in Nat
    BY <1>2
  <2>. HIDE DEF b
  <2>2. PageOf(b) \in Nat /\ b = PageSize * PageOf(b) + OffsetOf(b)
    BY <2>1, DivMod
  <2>3. OffsetOf(b) \in Offsets
    BY <2>1, OffsetType
  <2>4. OffsetOf(b) \in Nat /\ OffsetOf(b) < PageSize
    BY <2>3, SizeAssumption DEF Offsets
  <2>. QED  BY <2>2, <2>4 DEF b
<1>. HIDE DEF q, r, k, t
<1>4. ~(k < q)
  <2>. SUFFICES ASSUME k + 1 <= q PROVE FALSE
    BY <1>1, <1>3
  <2>1. PageSize * (k + 1) <= PageSize * q
    BY <1>1, <1>3, SizeAssumption
  <2>2. PageSize * (k + 1) = PageSize * k + PageSize
    BY <1>3, SizeAssumption
  <2>. QED  BY <1>1, <1>3, <2>1, <2>2, SizeAssumption
<1>5. ~(q < k)
  <2>. SUFFICES ASSUME q + 1 <= k PROVE FALSE
    BY <1>1, <1>3
  <2>1. PageSize * (q + 1) <= PageSize * k
    BY <1>1, <1>3, SizeAssumption
  <2>2. PageSize * (q + 1) = PageSize * q + PageSize
    BY <1>1, SizeAssumption
  <2>. QED  BY <1>1, <1>3, <2>1, <2>2, SizeAssumption
<1>6. k = q
  BY <1>1, <1>3, <1>4, <1>5
<1>7. t = r + j
  BY <1>1, <1>3, <1>6, SizeAssumption
<1>. QED  BY <1>6, <1>7 DEF q, r, k, t

\* A page of flash ends where flash does, or before.
LEMMA PageEnd ==
  ASSUME NEW a \in Nat, PageOf(a) \in Pages,
         NEW n \in Nat, OffsetOf(a) + n <= PageSize
  PROVE  a + n <= NumPages * PageSize
<1>. DEFINE q == PageOf(a)
            r == OffsetOf(a)
<1>1. /\ q \in Nat /\ q + 1 <= NumPages
      /\ r \in Nat /\ a = PageSize * q + r /\ r + n <= PageSize
  BY DivMod, OffsetType, SizeAssumption DEF Offsets, Pages
<1>. HIDE DEF q, r
<1>2. PageSize * (q + 1) <= PageSize * NumPages
  BY <1>1, SizeAssumption
<1>3. /\ PageSize * (q + 1) = PageSize * q + PageSize
      /\ PageSize * NumPages = NumPages * PageSize
  BY <1>1, SizeAssumption
<1>4. PageSize * q \in Nat /\ PageSize * NumPages \in Nat
  BY <1>1, SizeAssumption
<1>. QED  BY <1>1, <1>2, <1>3, <1>4, SizeAssumption

LEMMA PageBytesType ==
  ASSUME NEW page \in Page, NEW offset \in Nat, NEW n \in Nat,
         offset + n <= PageSize
  PROVE  /\ PageBytes(page, offset, n) \in Seq(Byte)
         /\ Len(PageBytes(page, offset, n)) = n
<1>1. \A i \in 1 .. n : page[offset + i - 1] \in Byte
  BY SizeAssumption DEF Page, Offsets
<1>. QED  BY <1>1 DEF PageBytes

LEMMA FlashBytesType ==
  ASSUME NEW mem \in Flash, NEW a \in Nat, NEW n \in Nat,
         a + n <= NumPages * PageSize
  PROVE  /\ FlashBytes(mem, a, n) \in Seq(Byte)
         /\ Len(FlashBytes(mem, a, n)) = n
<1>1. ASSUME NEW i \in 1 .. n
      PROVE  mem[PageOf(a + i - 1)][OffsetOf(a + i - 1)] \in Byte
  <2>1. a + i - 1 \in Nat /\ a + i - 1 < NumPages * PageSize
    BY SizeAssumption
  <2>2. PageOf(a + i - 1) \in Pages /\ OffsetOf(a + i - 1) \in Offsets
    BY <2>1, PageInFlash, OffsetType
  <2>. QED  BY <2>2 DEF Flash, Page
<1>. QED  BY <1>1 DEF FlashBytes

\* A range of flash inside one page is a range of that page.
LEMMA FlashBytesOnePage ==
  ASSUME NEW mem, NEW a \in Nat, NEW n \in Nat, OffsetOf(a) + n <= PageSize
  PROVE  FlashBytes(mem, a, n) = PageBytes(mem[PageOf(a)], OffsetOf(a), n)
<1>1. OffsetOf(a) \in Nat
  BY OffsetType, SizeAssumption DEF Offsets
<1>2. ASSUME NEW i \in 1 .. n
      PROVE  mem[PageOf(a + i - 1)][OffsetOf(a + i - 1)]
               = mem[PageOf(a)][OffsetOf(a) + i - 1]
  <2>1. /\ i - 1 \in Nat /\ OffsetOf(a) + (i - 1) < PageSize
        /\ a + (i - 1) = a + i - 1
        /\ OffsetOf(a) + (i - 1) = OffsetOf(a) + i - 1
    BY <1>1, SizeAssumption
  <2>2. /\ PageOf(a + (i - 1)) = PageOf(a)
        /\ OffsetOf(a + (i - 1)) = OffsetOf(a) + (i - 1)
    BY <2>1, SamePage
  <2>. QED  BY <2>1, <2>2
<1>. QED  BY <1>2, Zenon DEF FlashBytes, PageBytes

\* A range of flash, cut in two.
LEMMA FlashBytesConcat ==
  ASSUME NEW mem \in Flash, NEW a \in Nat, NEW m \in Nat, NEW n \in Nat,
         a + m + n <= NumPages * PageSize
  PROVE  FlashBytes(mem, a, m + n)
           = FlashBytes(mem, a, m) \o FlashBytes(mem, a + m, n)
<1>. DEFINE s == FlashBytes(mem, a, m)
            t == FlashBytes(mem, a + m, n)
            u == FlashBytes(mem, a, m + n)
<1>1. s \in Seq(Byte) /\ Len(s) = m
  BY FlashBytesType, SizeAssumption
<1>2. t \in Seq(Byte) /\ Len(t) = n
  BY FlashBytesType, SizeAssumption
<1>3. u \in Seq(Byte) /\ Len(u) = m + n
  BY FlashBytesType, SizeAssumption
<1>4. ASSUME NEW i \in 1 .. m + n
      PROVE  u[i] = IF i <= m THEN s[i] ELSE t[i - m]
  <2>1. CASE i <= m
    BY <2>1 DEF FlashBytes
  <2>2. CASE i > m
    <3>1. i - m \in 1 .. n /\ a + m + (i - m) - 1 = a + i - 1
      BY <2>2
    <3>. QED  BY <2>2, <3>1 DEF FlashBytes
  <2>. QED  BY <2>1, <2>2
<1>. HIDE DEF s, t, u
<1>5. s \o t \in Seq(Byte) /\ Len(s \o t) = m + n
  BY <1>1, <1>2, ConcatProperties
<1>6. \A i \in 1 .. m + n : (s \o t)[i] = IF i <= m THEN s[i] ELSE t[i - m]
  BY <1>1, <1>2, ConcatProperties
<1>7. \A i \in 1 .. m + n : u[i] = (s \o t)[i]
  BY <1>4, <1>6
<1>8. u = s \o t
  <2>. DEFINE w == s \o t
  <2>1. w \in Seq(Byte) /\ Len(w) = Len(u) /\ \A i \in 1 .. Len(u) : u[i] = w[i]
    BY <1>3, <1>5, <1>7
  <2>. HIDE DEF w
  <2>2. u = w
    BY <1>3, <2>1, SeqEqual
  <2>. QED  BY <2>2 DEF w
<1>. QED  BY <1>8 DEF s, t, u

-----------------------------------------------------------------------------
(* The operators the model is built from.                                  *)

\* The copy loop of ReadRange copies no more than it is asked to.
LEMMA CopiedBound ==
  ASSUME NEW page, NEW offset, NEW n \in Nat, NEW start \in Nat
  PROVE  Copied(page, offset, n, start) \in 0 .. n
<1>. DEFINE L == Lesser(n, BufLen - start)
            Index(i) == start + i + Cardinality({j \in 0 .. i - 1 :
                                                   page[offset + j] = ESCAPE_CHAR})
            S == {i \in 0 .. L - 1 : Index(i) < BufLen - 1}
<1>1. L \in Int /\ L <= n
  BY BufferAssumption DEF Lesser
<1>2. S \subseteq 0 .. n - 1
  BY <1>1
<1>3. IsFiniteSet(0 .. n - 1) /\ Cardinality(0 .. n - 1) = n
  BY FS_Interval
<1>4. Cardinality(S) \in Nat /\ Cardinality(S) <= n
  BY <1>2, <1>3, FS_Subset, FS_CardinalityType
<1>. QED  BY <1>4 DEF Copied

-----------------------------------------------------------------------------
(* The inductive invariant.                                                *)

\* While SET_ATTRIBUTE reads the page it will change, BUF keeps the record.
RecordKept ==
  state.kind = "SetAttribute" /\ op.kind = "read" => bytes \in Seq(Byte)

Inv == TypeOK /\ OneOutstanding /\ OpMatchesState /\ RecordKept

LEMMA InitInv == Init => Inv
  BY ImageAssumption
  DEF Init, Inv, TypeOK, StateOK, OpOK, OneOutstanding, OpMatchesState,
      RecordKept, Idle, NoOp

USE DEF Idle, NoOp

\* Commands answered from BUF alone.
LEMMA AtOncePreservesInv ==
  ASSUME Inv, buffer = "rx", NEW code, AnswerAtOnce(code), request' \in Command
  PROVE  Inv'
  BY DEF AnswerAtOnce, Transmit, Inv, TypeOK, StateOK, OpOK, OneOutstanding,
         OpMatchesState, RecordKept

\* Commands that start by reading a page.
LEMMA StartPreservesInv ==
  ASSUME Inv, buffer = "rx", request' \in Command,
         NEW p, NEW next, NEW kept,
         StartWithRead(p, next, kept),
         next.kind \in {"Info", "GetAttribute", "SetAttribute",
                       "SetStartAddress", "ReadRange", "Crc"},
         StateOK',
         next.kind = "SetAttribute" => kept \in Seq(Byte)
  PROVE  Inv'
  BY DEF StartWithRead, ReadPage, Inv, TypeOK, OpOK, OneOutstanding,
         OpMatchesState, RecordKept

LEMMA HandlePreservesInv ==
  ASSUME Inv, buffer = "rx", NEW c \in Command, Handle(c), request' = c
  PROVE  Inv'
<1>1. CASE HandlePing(c)
  BY <1>1, AtOncePreservesInv DEF HandlePing
<1>2. CASE HandleUnsupported(c)
  BY <1>2, AtOncePreservesInv DEF HandleUnsupported
<1>3. CASE HandleBadArguments(c)
  BY <1>3, AtOncePreservesInv DEF HandleBadArguments
<1>4. CASE HandleMalformed(c)
  BY <1>4, AtOncePreservesInv DEF HandleMalformed
<1>5. CASE HandleInfo(c)
  <2>1. StateOK'
    BY <1>5 DEF HandleInfo, StartWithRead, StateOK
  <2>. QED  BY <1>5, <2>1, StartPreservesInv DEF HandleInfo
<1>6. CASE HandleReadRange(c)
  <2>1. c.address \in Nat /\ c.length \in Nat
    BY <1>6, ArgumentAssumption DEF HandleReadRange, Command
  <2>2. StateOK'
    BY <1>6, <2>1 DEF HandleReadRange, StartWithRead, StateOK
  <2>. QED  BY <1>6, <2>2, StartPreservesInv DEF HandleReadRange
<1>7. CASE HandleCrcIntFlash(c)
  <2>1. c.address \in Nat /\ c.length \in Nat
    BY <1>7, ArgumentAssumption DEF HandleCrcIntFlash, Command
  <2>2. StateOK'
    BY <1>7, <2>1 DEF HandleCrcIntFlash, StartWithRead, StateOK
  <2>. QED  BY <1>7, <2>2, StartPreservesInv DEF HandleCrcIntFlash
<1>8. CASE HandleGetAttr(c)
  <2>1. c.index \in Nat
    BY <1>8, ArgumentAssumption DEF HandleGetAttr, Command
  <2>2. StateOK'
    BY <1>8, <2>1 DEF HandleGetAttr, StartWithRead, StateOK
  <2>. QED  BY <1>8, <2>2, StartPreservesInv DEF HandleGetAttr
<1>9. CASE HandleSetAttr(c)
  <2>1. c.index \in Nat /\ c.key \in Keys /\ c.value \in Values
    BY <1>9, ArgumentAssumption DEF HandleSetAttr, Command
  <2>2. AttributeRecord(c.key, c.value) \in Seq(Byte)
    BY <2>1, RecordType
  <2>3. StateOK'
    BY <1>9, <2>1 DEF HandleSetAttr, StartWithRead, StateOK
  <2>. QED  BY <1>9, <2>2, <2>3, StartPreservesInv DEF HandleSetAttr
<1>10. CASE HandleSetStartAddress(c)
  <2>1. c.address \in StartAddresses
    BY <1>10 DEF HandleSetStartAddress, Command
  <2>2. StateOK'
    BY <1>10, <2>1 DEF HandleSetStartAddress, StartWithRead, StateOK
  <2>. QED  BY <1>10, <2>2, StartPreservesInv DEF HandleSetStartAddress
<1>11. CASE HandleWritePage(c)
  <2>1. c.data \in Seq(Byte) /\ Len(c.data) = PageSize
    BY <1>11, ArgumentAssumption DEF HandleWritePage, WritePageAccepted, Command
  <2>2. [o \in Offsets |-> c.data[o + 1]] \in Page
    BY <2>1, SizeAssumption DEF Page, Offsets
  <2>. QED
    BY <1>11, <2>2
    DEF HandleWritePage, WritePage, Inv, TypeOK, StateOK, OpOK, OneOutstanding,
        OpMatchesState, RecordKept
<1>12. CASE RejectWritePage(c)
  BY <1>12
  DEF RejectWritePage, Transmit, Inv, TypeOK, StateOK, OpOK, OneOutstanding,
      OpMatchesState, RecordKept
<1>13. CASE HandleErasePage(c)
  BY <1>13
  DEF HandleErasePage, ErasePage, Inv, TypeOK, StateOK, OpOK, OneOutstanding,
      OpMatchesState, RecordKept
<1>. QED
  BY <1>1, <1>2, <1>3, <1>4, <1>5, <1>6, <1>7, <1>8, <1>9, <1>10, <1>11, <1>12,
     <1>13 DEF Handle

\* What a flash callback that sends a reply leaves.
LEMMA SendPreservesInv ==
  ASSUME Inv, op.kind = "read", NEW reply, SendFromPage(reply), StateOK',
         state'.kind \in {"Idle", "ReadRange"}
  PROVE  Inv'
  BY DEF SendFromPage, Transmit, Inv, TypeOK, OpOK, OneOutstanding,
         OpMatchesState, RecordKept

\* What one that writes the page back leaves.
LEMMA WriteBackPreservesInv ==
  ASSUME Inv, op.kind = "read",
         state.kind \in {"SetAttribute", "SetStartAddress"},
         NEW p, NEW contents \in Page, WritePage(p, contents),
         UNCHANGED <<state, buffer, bytes, flash, request, wire>>
  PROVE  Inv'
  BY DEF WritePage, Inv, TypeOK, StateOK, OpOK, OneOutstanding,
         OpMatchesState, RecordKept

\* The page a read delivers.
LEMMA ReadDataType ==
  ASSUME TypeOK, op.kind = "read"
  PROVE  ReadData \in Page
  BY DEF TypeOK, OpOK, ReadData, Flash

LEMMA FlashDonePreservesInv ==
  ASSUME Inv, FlashDone
  PROVE  Inv'
<1>1. CASE ReadInfo
  <2>1. StateOK' /\ state'.kind = "Idle"
    BY <1>1 DEF ReadInfo, StateOK
  <2>. QED  BY <1>1, <2>1, SendPreservesInv DEF ReadInfo, Reading
<1>2. CASE ReadGetAttribute
  <2>1. StateOK' /\ state'.kind = "Idle"
    BY <1>2 DEF ReadGetAttribute, StateOK
  <2>. QED  BY <1>2, <2>1, SendPreservesInv DEF ReadGetAttribute, Reading
<1>3. CASE ReadSetAttribute
  <2>1. state.index \in Nat /\ bytes \in Seq(Byte)
    BY <1>3 DEF ReadSetAttribute, Reading, Inv, TypeOK, StateOK, RecordKept
  <2>2. AttributeAddress(state.index) \in Nat
    BY <2>1, AttributeAddressType
  <2>3. AttributeOffset(state.index) \in Nat
    BY <2>2, OffsetType, SizeAssumption DEF AttributeOffset, Offsets
  <2>4. Patch(ReadData, AttributeOffset(state.index), bytes) \in Page
    BY <1>3, <2>1, <2>3, ReadDataType, PatchType
    DEF ReadSetAttribute, Reading, Inv
  <2>. QED
    BY <1>3, <2>4, WriteBackPreservesInv DEF ReadSetAttribute, Reading
<1>4. CASE ReadSetStartAddress
  <2>1. state.address \in Seq(Byte)
    BY <1>4, ArgumentAssumption
    DEF ReadSetStartAddress, Reading, Inv, TypeOK, StateOK
  <2>2. FlagsAddress + StartOffset \in Nat
    BY LayoutAssumption, SizeAssumption
  <2>3. StartField \in Nat
    BY <2>2, OffsetType, SizeAssumption DEF StartField, Offsets
  <2>4. Patch(ReadData, StartField, state.address) \in Page
    BY <1>4, <2>1, <2>3, ReadDataType, PatchType
    DEF ReadSetStartAddress, Reading, Inv
  <2>. QED
    BY <1>4, <2>4, WriteBackPreservesInv DEF ReadSetStartAddress, Reading
<1>5. CASE ReadReadRange
  <2>. DEFINE header == IF state.length = state.remaining_length
                        THEN Response(RES_READ_RANGE) ELSE <<>>
              offset == OffsetOf(state.address)
              len    == Lesser(PageSize - offset, state.remaining_length)
              copied == Copied(ReadData, offset, len, Len(header))
              chunk  == PageBytes(ReadData, offset, copied)
  <2>1. /\ state.kind = "ReadRange"
        /\ Advance(chunk)
        /\ SendFromPage(header \o Escape(chunk))
    BY <1>5 DEF ReadReadRange, Reading
  <2>2. /\ state.address \in Nat /\ state.length \in Nat
        /\ state.remaining_length \in 0 .. state.length
    BY <2>1 DEF Inv, TypeOK, StateOK
  <2>3. len \in Nat /\ len <= state.remaining_length
    BY <2>2, OffsetType, SizeAssumption DEF Lesser, Offsets
  <2>4. Len(header) \in Nat
    BY DEF Response
  <2>5. copied \in 0 .. len
    BY <2>3, <2>4, CopiedBound
  <2>. HIDE DEF len, copied, header, offset
  <2>6. Len(chunk) = copied
    BY <2>3, <2>5 DEF PageBytes
  <2>. HIDE DEF chunk
  <2>7. state.remaining_length - copied \in 0 .. state.length
        /\ state.address + copied \in Nat
    BY <2>2, <2>3, <2>5
  <2>8. StateOK' /\ state'.kind = "ReadRange"
    BY <2>1, <2>2, <2>7, <2>6 DEF Advance, StateOK, Inv, TypeOK
  <2>. QED
    BY <1>5, <2>1, <2>8, SendPreservesInv DEF ReadReadRange, Reading
<1>6. CASE ReadCrcLast
  <2>1. StateOK' /\ state'.kind = "Idle"
    BY <1>6 DEF ReadCrcLast, StateOK
  <2>. QED  BY <1>6, <2>1, SendPreservesInv DEF ReadCrcLast, Reading
<1>7. CASE ReadCrcMore
  <2>1. state.address \in Nat /\ state.remaining_length \in Nat
    BY <1>7 DEF ReadCrcMore, Reading, Inv, TypeOK, StateOK
  <2>2. CrcLen \in Nat /\ CrcLen < state.remaining_length
    BY <1>7, <2>1, OffsetType, SizeAssumption
    DEF ReadCrcMore, CrcLen, CrcOffset, Lesser, Offsets
  <2>3. state.address + CrcLen \in Nat
        /\ state.remaining_length - CrcLen \in Nat
    BY <2>1, <2>2
  <2>. QED
    BY <1>7, <2>3
    DEF ReadCrcMore, Reading, ReadPage, Inv, TypeOK, StateOK, OpOK,
        OneOutstanding, OpMatchesState, RecordKept
<1>8. CASE ProgramComplete
  <2>1. op.page \in Pages /\ OpContents \in Page
    BY <1>8 DEF ProgramComplete, Inv, TypeOK, OpOK, OpContents, ErasedPage,
                Page, Byte
  <2>2. flash' \in Flash
    <3>1. Programmed(op.page, OpContents) \in Flash
      BY <2>1 DEF Programmed, Flash, Inv, TypeOK
    <3>2. Torn(op.page, OpContents) \subseteq Flash
      BY <2>1, TornPageType, ArgumentAssumption
      DEF Torn, Programmed, Flash, Inv, TypeOK
    <3>. QED  BY <1>8, <3>1, <3>2 DEF ProgramComplete
  <2>. QED
    BY <1>8, <2>2
    DEF ProgramComplete, Transmit, Inv, TypeOK, StateOK, OpOK, OneOutstanding,
        OpMatchesState, RecordKept
<1>. QED
  BY <1>1, <1>2, <1>3, <1>4, <1>5, <1>6, <1>7, <1>8 DEF FlashDone

LEMMA NextPreservesInv == Inv /\ [Next]_vars => Inv'
<1>. SUFFICES ASSUME Inv, [Next]_vars PROVE Inv'
  OBVIOUS
<1>1. CASE ReceivedCommand
  <2>1. PICK c : c \in Command /\ Handle(c) /\ request' = c
    BY <1>1, BatchesAssumption DEF ReceivedCommand
  <2>. QED  BY <1>1, <2>1, HandlePreservesInv DEF ReceivedCommand
<1>2. CASE ReceivedExit
  BY <1>2 DEF ReceivedExit, Restart, Inv, TypeOK, StateOK, OpOK, OneOutstanding,
              OpMatchesState, RecordKept
<1>3. CASE ReceivedNothing
  BY <1>3 DEF ReceivedNothing, Listen, Inv, TypeOK, StateOK, OpOK,
              OneOutstanding, OpMatchesState, RecordKept
<1>4. CASE FlashDone
  BY <1>4, FlashDonePreservesInv
<1>5. CASE TransmittedChunk
  BY <1>5 DEF TransmittedChunk, MoreToRead, ReadPage, Inv, TypeOK, StateOK, OpOK,
              OneOutstanding, OpMatchesState, RecordKept
<1>6. CASE TransmittedReply
  BY <1>6 DEF TransmittedReply, MoreToRead, Listen, Inv, TypeOK, StateOK, OpOK,
              OneOutstanding, OpMatchesState, RecordKept
<1>7. CASE TransmitFailed
  BY <1>7 DEF TransmitFailed, Inv, TypeOK, StateOK, OpOK, OneOutstanding,
              OpMatchesState, RecordKept
<1>8. CASE PowerCycle
  <2>1. flash' \in Flash
    <3>1. CASE op.kind \in {"write", "erase"}
      <4>1. op.page \in Pages /\ OpContents \in Page
        BY <3>1 DEF Inv, TypeOK, OpOK, OpContents, ErasedPage, Page, Byte
      <4>. QED
        BY <1>8, <3>1, <4>1, TornPageType, ArgumentAssumption
        DEF PowerCycle, Torn, Programmed, Flash, Inv, TypeOK
    <3>2. CASE op.kind \notin {"write", "erase"}
      BY <1>8, <3>2 DEF PowerCycle, Inv, TypeOK
    <3>. QED  BY <3>1, <3>2
  <2>. QED
    BY <1>8, <2>1 DEF PowerCycle, Restart, Inv, TypeOK, StateOK, OpOK,
                      OneOutstanding, OpMatchesState, RecordKept
<1>9. CASE UNCHANGED vars
  BY <1>9 DEF vars, Inv, TypeOK, StateOK, OpOK, OneOutstanding, OpMatchesState,
              RecordKept
<1>. QED
  BY <1>1, <1>2, <1>3, <1>4, <1>5, <1>6, <1>7, <1>8, <1>9
  DEF Next, Received, Transmitted

LEMMA Invariance == Spec => []Inv
  BY InitInv, NextPreservesInv, PTL DEF Spec

\* The bootloader's variables keep their types: flash stays a map from pages to
\* bytes, whatever is written, patched or torn.
THEOREM TypeCorrect == Spec => []TypeOK
<1>1. Inv => TypeOK  BY DEF Inv
<1>. QED  BY <1>1, Invariance, PTL

\* The bootloader has at most one completion outstanding, and each of its two
\* buffers is where the next callback looks for it.
THEOREM Ownership == Spec => []OneOutstanding
<1>1. Inv => OneOutstanding  BY DEF Inv
<1>. QED  BY <1>1, Invariance, PTL

\* No flash callback is ever called in a state it does not expect.
THEOREM CallbacksExpected == Spec => []OpMatchesState
<1>1. Inv => OpMatchesState  BY DEF Inv
<1>. QED  BY <1>1, Invariance, PTL

-----------------------------------------------------------------------------
(* Flash changes only where the command being served says.                 *)

\* An operation that is, or will become, a write is for the page that the
\* command names; a WRITE_PAGE never gets this far inside the bootloader.
ServesRequest ==
  op # NoOp =>
    /\ state.kind = "WriteFlashPage" =>
         /\ request.kind = "WritePage"
         /\ op.page = PageOf(request.address)
         /\ ~InBootloader(request.address)
    /\ state.kind = "SetAttribute" => request.kind = "SetAttr"
    /\ state.kind = "SetStartAddress" => request.kind = "SetStartAddress"
    /\ state.kind = "ErasePage" => request.kind = "ErasePage"

LEMMA InitServes == Init => ServesRequest
  BY DEF Init, ServesRequest

LEMMA HandleServes ==
  ASSUME NEW c \in Command, Handle(c), request' = c, Inv, buffer = "rx"
  PROVE  ServesRequest'
<1>1. CASE HandlePing(c) \/ HandleUnsupported(c) \/ HandleBadArguments(c)
             \/ HandleMalformed(c)
  BY <1>1 DEF HandlePing, HandleUnsupported, HandleBadArguments, HandleMalformed,
              AnswerAtOnce, Inv, OneOutstanding, ServesRequest
<1>2. CASE HandleInfo(c) \/ HandleReadRange(c) \/ HandleCrcIntFlash(c)
             \/ HandleGetAttr(c) \/ HandleSetAttr(c) \/ HandleSetStartAddress(c)
  BY <1>2 DEF HandleInfo, HandleReadRange, HandleCrcIntFlash, HandleGetAttr,
              HandleSetAttr, HandleSetStartAddress, StartWithRead, ReadPage,
              ServesRequest
<1>3. CASE HandleWritePage(c)
  BY <1>3 DEF HandleWritePage, WritePageAccepted, WritePage, ServesRequest
<1>4. CASE RejectWritePage(c)
  BY <1>4 DEF RejectWritePage, Inv, OneOutstanding, ServesRequest
<1>5. CASE HandleErasePage(c)
  BY <1>5 DEF HandleErasePage, ErasePage, ServesRequest
<1>. QED  BY <1>1, <1>2, <1>3, <1>4, <1>5 DEF Handle

LEMMA NextServes ==
  ASSUME Inv, ServesRequest, [Next]_vars
  PROVE  ServesRequest'
<1>1. CASE ReceivedCommand
  <2>1. PICK c : c \in Command /\ Handle(c) /\ request' = c
    BY <1>1, BatchesAssumption DEF ReceivedCommand
  <2>. QED  BY <1>1, <2>1, HandleServes DEF ReceivedCommand
<1>2. CASE ReceivedExit \/ PowerCycle
  BY <1>2 DEF ReceivedExit, PowerCycle, Restart, ServesRequest
<1>3. CASE ReceivedNothing
  BY <1>3 DEF ReceivedNothing, Inv, OneOutstanding, ServesRequest
<1>4. CASE FlashDone
  <2>1. CASE ReadInfo \/ ReadGetAttribute \/ ReadReadRange \/ ReadCrcLast
               \/ ProgramComplete
    BY <1>4, <2>1 DEF ReadInfo, ReadGetAttribute, ReadReadRange, ReadCrcLast,
                      ProgramComplete, SendFromPage, ServesRequest
  <2>2. CASE ReadSetAttribute \/ ReadSetStartAddress
    BY <1>4, <2>2 DEF ReadSetAttribute, ReadSetStartAddress, Reading, WritePage,
                      ServesRequest
  <2>3. CASE ReadCrcMore
    BY <1>4, <2>3 DEF ReadCrcMore, ServesRequest
  <2>. QED  BY <1>4, <2>1, <2>2, <2>3 DEF FlashDone
<1>5. CASE TransmittedChunk
  BY <1>5 DEF TransmittedChunk, MoreToRead, ServesRequest
<1>6. CASE TransmittedReply \/ TransmitFailed
  BY <1>6 DEF TransmittedReply, TransmitFailed, Inv, OneOutstanding, ServesRequest
<1>7. CASE UNCHANGED vars
  BY <1>7 DEF vars, ServesRequest
<1>. QED
  BY <1>1, <1>2, <1>3, <1>4, <1>5, <1>6, <1>7 DEF Next, Received, Transmitted

LEMMA ServesInvariance == Spec => []ServesRequest
<1>1. ServesRequest /\ Inv /\ [Next]_vars => ServesRequest'
  BY NextServes
<1>. QED  BY InitServes, <1>1, Invariance, PTL DEF Spec

\* Flash changes only when an operation that programs a page ends, or is cut
\* short by a reset, and then only in the page of that operation.
LEMMA FlashChange ==
  ASSUME Inv, [Next]_vars, NEW p \in Pages, flash'[p] # flash[p]
  PROVE  op.kind \in {"write", "erase"} /\ op.page = p
<1>1. CASE ProgramComplete
  BY <1>1 DEF ProgramComplete, Programmed, Torn, Inv, TypeOK, Flash
<1>2. CASE PowerCycle
  BY <1>2 DEF PowerCycle, Programmed, Torn, Inv, TypeOK, Flash
<1>3. CASE ReceivedCommand
  BY <1>3 DEF ReceivedCommand, Handle, HandlePing, HandleUnsupported,
       HandleBadArguments, HandleMalformed, AnswerAtOnce, HandleInfo,
       HandleReadRange, HandleCrcIntFlash, HandleGetAttr, HandleSetAttr,
       HandleSetStartAddress, StartWithRead, HandleWritePage, RejectWritePage,
       HandleErasePage
<1>4. CASE ReceivedExit \/ ReceivedNothing
  BY <1>4 DEF ReceivedExit, ReceivedNothing
<1>5. CASE ReadInfo \/ ReadGetAttribute \/ ReadSetAttribute
             \/ ReadSetStartAddress \/ ReadReadRange \/ ReadCrcLast \/ ReadCrcMore
  BY <1>5 DEF ReadInfo, ReadGetAttribute, ReadSetAttribute, ReadSetStartAddress,
       ReadReadRange, ReadCrcLast, ReadCrcMore, SendFromPage
<1>6. CASE TransmittedChunk \/ TransmittedReply \/ TransmitFailed
  BY <1>6 DEF TransmittedChunk, TransmittedReply, TransmitFailed
<1>7. CASE UNCHANGED vars
  BY <1>7 DEF vars
<1>. QED
  BY <1>1, <1>2, <1>3, <1>4, <1>5, <1>6, <1>7
  DEF Next, Received, FlashDone, Transmitted

\* A WRITE_PAGE leaves every byte of the bootloader alone, whatever its address
\* and whenever power fails: the address check of received_buffer is enough
\* because the image fills whole pages.
THEOREM WritePageSafe == Spec => WritePageKeepsBootloader
<1>. DEFINE Kept ==
       request.kind = "WritePage" =>
         \A a \in BootStart .. BootEnd - 1 :
           flash'[PageOf(a)][OffsetOf(a)] = flash[PageOf(a)][OffsetOf(a)]
<1>1. ASSUME Inv, ServesRequest, [Next]_vars
      PROVE  Kept
  <2>. SUFFICES ASSUME request.kind = "WritePage",
                       NEW a \in BootStart .. BootEnd - 1,
                       flash'[PageOf(a)][OffsetOf(a)]
                         # flash[PageOf(a)][OffsetOf(a)]
                PROVE  FALSE
    OBVIOUS
  <2>1. a \in Nat /\ InBootloader(a)
    BY LayoutAssumption DEF InBootloader
  <2>2. PageOf(a) \in Pages
    <3>1. a < NumPages * PageSize
      BY <2>1, LayoutAssumption, SizeAssumption DEF InBootloader
    <3>2. PageOf(a) < NumPages
      BY <2>1, <3>1, PageBelow, SizeAssumption
    <3>. QED  BY <2>1, <3>2, DivMod, SizeAssumption DEF Pages
  <2>3. FALSE
    <3>1. op.kind \in {"write", "erase"} /\ op.page = PageOf(a)
      BY <1>1, <2>2, FlashChange
    <3>2. op # NoOp
      BY <3>1
    <3>3. state.kind = "WriteFlashPage"
      <4>1. state.kind \in {"WriteFlashPage", "SetAttribute",
                            "SetStartAddress", "ErasePage"}
        BY <1>1, <3>1 DEF Inv, OpMatchesState
      <4>. QED  BY <1>1, <3>2, <4>1 DEF ServesRequest
    <3>4. op.page = PageOf(request.address) /\ ~InBootloader(request.address)
      BY <1>1, <3>2, <3>3 DEF ServesRequest
    <3>5. request.address \in Nat
      <4>1. request \in [kind : {"WritePage"}, address : Addresses,
                         data : PageData]
        BY <1>1 DEF Inv, TypeOK, Command, NoCommand
      <4>. QED  BY <4>1, ArgumentAssumption
    <3>. QED  BY <2>1, <3>1, <3>4, <3>5, BootloaderPages
  <2>. QED  BY <2>3
<1>2. Inv /\ ServesRequest /\ [Next]_vars => [Kept]_vars
  BY <1>1
<1>. QED
  BY <1>2, Invariance, ServesInvariance, PTL DEF Spec, WritePageKeepsBootloader

-----------------------------------------------------------------------------
(* What the command in progress has done so far, and the refinement of the  *)
(* abstract service: for every size of BUF as well.                         *)

-----------------------------------------------------------------------------
(* The replies.                                                            *)

LEMMA ResponseType ==
  ASSUME NEW code \in Nat
  PROVE  /\ Response(code) \in Seq(Nat)
         /\ Len(Response(code)) = 2
         /\ Response(code) # <<>>
  BY DEF Response, ESCAPE_CHAR

LEMMA BytesAreNumbers ==
  ASSUME NEW s \in Seq(Byte)
  PROVE  s \in Seq(Nat)
<1>1. Byte \subseteq Nat
  BY DEF Byte
<1>. QED  BY <1>1, SeqMonotonic

LEMMA ConcatNumbers ==
  \A s, t \in Seq(Nat) : s \o t \in Seq(Nat) /\ Len(s \o t) = Len(s) + Len(t)
  OBVIOUS

LEMMA NumbersAssociative ==
  \A v, w, x \in Seq(Nat) : (v \o w) \o x = v \o (w \o x)
<1>. DEFINE N == Nat
<1>. SUFFICES ASSUME NEW v \in Seq(N), NEW w \in Seq(N), NEW x \in Seq(N)
              PROVE  (v \o w) \o x = v \o (w \o x)
  OBVIOUS
<1>. HIDE DEF N
<1>. QED  BY ConcatAssociative

LEMMA VersionType ==
  ASSUME NEW page \in Page
  PROVE  /\ Version(page) \in Seq(Nat)
         /\ Len(Version(page)) \in 0 .. VersionLen
<1>. DEFINE at    == OffsetOf(FlagsAddress) + VersionOffset
            field == PageBytes(page, at, VersionLen)
            shown == {n \in 1 .. VersionLen : \A i \in 1 .. n : field[i] # 0}
            count == Cardinality(shown)
<1>1. at \in Nat /\ VersionLen \in Nat /\ at + VersionLen <= PageSize
  BY LayoutAssumption, OffsetType, SizeAssumption DEF Offsets
<1>. HIDE DEF at
<1>2. field \in Seq(Byte) /\ Len(field) = VersionLen
  BY <1>1, PageBytesType
<1>3. count \in 0 .. VersionLen
  <2>1. IsFiniteSet(1 .. VersionLen) /\ Cardinality(1 .. VersionLen) = VersionLen
    BY FS_Interval, SizeAssumption
  <2>2. shown \subseteq 1 .. VersionLen
    OBVIOUS
  <2>. HIDE DEF shown
  <2>3. count \in Nat /\ count <= VersionLen
    BY <2>1, <2>2, FS_Subset, FS_CardinalityType
  <2>. QED  BY <2>3
<1>4. Version(page) = SubSeq(field, 1, count)
  BY DEF Version, at
<1>. HIDE DEF field, count
<1>5. \A i \in 1 .. count : field[i] \in Nat
  <2>. SUFFICES ASSUME NEW i \in 1 .. count PROVE field[i] \in Nat
    OBVIOUS
  <2>1. i \in 1 .. VersionLen
    BY <1>3, SizeAssumption
  <2>2. field[i] \in Byte
    BY <1>2, <2>1
  <2>. QED  BY <2>2 DEF Byte
<1>6. /\ SubSeq(field, 1, count) \in Seq(Nat)
      /\ Len(SubSeq(field, 1, count)) = count
  BY <1>3, <1>5, SubSeqProperties, SizeAssumption
<1>. QED  BY <1>3, <1>4, <1>6

LEMMA StartDigitsType ==
  ASSUME NEW page \in Page
  PROVE  /\ StartDigits(page) \in Seq(Nat)
         /\ Len(StartDigits(page)) = 2 * StartLen
<1>1. ASSUME NEW i \in 1 .. 2 * StartLen
      PROVE  StartDigits(page)[i] \in Nat
  <2>. DEFINE k == (i - 1) \div 2
              o == OffsetOf(FlagsAddress) + StartOffset + StartLen - 1 - k
  <2>1. k \in 0 .. StartLen - 1
    BY SizeAssumption
  <2>. HIDE DEF k
  <2>2. o \in Offsets
    BY <2>1, LayoutAssumption, OffsetType, SizeAssumption DEF Offsets
  <2>. HIDE DEF o
  <2>3. page[o] \in 0 .. 255
    BY <2>2 DEF Page, Byte
  <2>4. page[o] \div 16 \in Nat /\ page[o] % 16 \in Nat
    BY <2>3
  <2>5. \A n \in Nat : HexDigit(n) \in Nat
    BY DEF HexDigit
  <2>6. StartDigits(page)[i]
          = HexDigit(IF i % 2 = 1 THEN page[o] \div 16 ELSE page[o] % 16)
    BY DEF StartDigits, o, k
  <2>. QED  BY <2>4, <2>5, <2>6
<1>2. 2 * StartLen \in Nat
  BY SizeAssumption
<1>. DEFINE n == 2 * StartLen
<1>3. StartDigits(page) = [i \in 1 .. n |-> StartDigits(page)[i]]
  BY DEF StartDigits
<1>. HIDE DEF n
<1>. QED  BY <1>1, <1>2, <1>3 DEF n

\* INFO always gets the same number of bytes.
LEMMA InfoReplyType ==
  ASSUME NEW page \in Page, NEW stale \in Byte
  PROVE  /\ InfoReply(page, stale) \in Seq(Nat)
         /\ Len(InfoReply(page, stale)) = 3 + InfoLen
<1>. DEFINE blob == InfoString(page)
            rest == [i \in 1 .. InfoLen - Len(blob) |->
                       IF i = 1 THEN stale ELSE 0]
            head == Response(RES_INFO) \o <<Len(blob)>>
<1>1. blob \in Seq(Nat) /\ Len(blob) \in 0 .. VersionLen + 2 * StartLen
  <2>. DEFINE v == Version(page)
              d == StartDigits(page)
  <2>1. v \in Seq(Nat) /\ Len(v) \in 0 .. VersionLen
    BY VersionType
  <2>2. d \in Seq(Nat) /\ Len(d) = 2 * StartLen
    BY StartDigitsType
  <2>3. blob = v \o d
    BY DEF InfoString
  <2>. HIDE DEF v, d, blob
  <2>4. blob \in Seq(Nat) /\ Len(blob) = Len(v) + Len(d)
    BY <2>1, <2>2, <2>3, ConcatNumbers
  <2>. QED  BY <2>1, <2>2, <2>4, SizeAssumption
<1>. HIDE DEF blob
<1>2. InfoLen - Len(blob) \in Nat
  BY <1>1, BufferAssumption, SizeAssumption
<1>3. rest \in Seq(Nat) /\ Len(rest) = InfoLen - Len(blob)
  <2>1. stale \in Nat
    BY DEF Byte
  <2>. DEFINE n == InfoLen - Len(blob)
  <2>2. n \in Nat
    BY <1>2
  <2>. HIDE DEF n
  <2>. QED  BY <2>1, <2>2 DEF n
<1>4. head \in Seq(Nat) /\ Len(head) = 3
  <2>1. Response(RES_INFO) \in Seq(Nat) /\ Len(Response(RES_INFO)) = 2
    BY ResponseType DEF RES_INFO
  <2>2. <<Len(blob)>> \in Seq(Nat) /\ Len(<<Len(blob)>>) = 1
    BY <1>1
  <2>3. head \in Seq(Nat)
        /\ Len(head) = Len(Response(RES_INFO)) + Len(<<Len(blob)>>)
    BY <2>1, <2>2, ConcatNumbers, Zenon
  <2>. HIDE DEF head
  <2>. QED  BY <2>1, <2>2, <2>3
<1>5. InfoReply(page, stale) = (head \o blob) \o rest
  BY DEF InfoReply, blob
<1>. HIDE DEF rest, head
<1>6. head \o blob \in Seq(Nat) /\ Len(head \o blob) = 3 + Len(blob)
  BY <1>1, <1>4, ConcatNumbers
<1>. DEFINE hb == head \o blob
<1>7. hb \in Seq(Nat) /\ Len(hb) = 3 + Len(blob)
  BY <1>6
<1>. HIDE DEF hb
<1>8. hb \o rest \in Seq(Nat) /\ Len(hb \o rest) = Len(hb) + Len(rest)
  BY <1>3, <1>7, ConcatNumbers
<1>. QED  BY <1>1, <1>3, <1>5, <1>7, <1>8, SizeAssumption DEF hb

\* An attribute fits in BUF even if all of it has to be escaped.
LEMMA GetAttributeReplyType ==
  ASSUME NEW page \in Page, NEW index \in Indexes
  PROVE  /\ GetAttributeReply(page, index) \in Seq(Nat)
         /\ Len(GetAttributeReply(page, index)) \in 2 .. BufLen
<1>. DEFINE s == PageBytes(page, AttributeOffset(index), AttributeSize)
            e == Escape(s)
            h == Response(RES_GET_ATTR)
<1>1. AttributeOffset(index) \in Nat /\ AttributeSize \in Nat
      /\ AttributeOffset(index) + AttributeSize <= PageSize
  <2>1. index \in Nat
    BY ArgumentAssumption
  <2>2. AttributeAddress(index) \in Nat
    BY <2>1, AttributeAddressType
  <2>3. AttributeOffset(index) \in Nat
    BY <2>2, OffsetType, SizeAssumption DEF AttributeOffset, Offsets
  <2>. QED  BY <2>3, LayoutAssumption, SizeAssumption DEF AttributeSize
<1>2. s \in Seq(Byte) /\ Len(s) = AttributeSize
  BY <1>1, PageBytesType
<1>. HIDE DEF s
<1>3. /\ e \in Seq(Nat)
      /\ Len(e) \in 0 .. 2 * AttributeSize
  <2>1. e \in Seq(Nat)
    BY <1>2, EscapeType, BytesAreNumbers
  <2>2. Len(e) = AttributeSize + EscapesIn(s, AttributeSize)
    BY <1>2, EscapeLength
  <2>3. EscapesIn(s, AttributeSize) \in 0 .. AttributeSize
    BY <1>1, CountNext
  <2>. QED  BY <1>1, <2>1, <2>2, <2>3
<1>4. h \in Seq(Nat) /\ Len(h) = 2
  BY ResponseType DEF RES_GET_ATTR
<1>5. GetAttributeReply(page, index) = h \o e
  BY DEF GetAttributeReply, s
<1>. HIDE DEF h, e
<1>6. h \o e \in Seq(Nat) /\ Len(h \o e) = Len(h) + Len(e)
  BY <1>3, <1>4, ConcatNumbers
<1>. QED  BY <1>1, <1>3, <1>4, <1>5, <1>6, BufferAssumption

LEMMA CrcReplyType ==
  ASSUME NEW crc
  PROVE  /\ Response(RES_CRCIF) \o CrcBytes(crc) \in Seq(Nat)
         /\ Len(Response(RES_CRCIF) \o CrcBytes(crc)) = 6
<1>1. ASSUME NEW s \in SUBSET (0 .. 7) PROVE ByteValue[s] \in Nat
  BY DEF ByteValue
<1>2. \A w, n : ByteOf(w, n) \in Nat
  <2>. TAKE w, n
  <2>1. {k \in 0 .. 7 : 8 * n + k \in w} \in SUBSET (0 .. 7)
    OBVIOUS
  <2>. QED  BY <1>1, <2>1 DEF ByteOf
<1>3. CrcBytes(crc) \in Seq(Nat) /\ Len(CrcBytes(crc)) = 4
  BY <1>2 DEF CrcBytes
<1>4. Response(RES_CRCIF) \in Seq(Nat) /\ Len(Response(RES_CRCIF)) = 2
  BY ResponseType DEF RES_CRCIF
<1>. DEFINE r == Response(RES_CRCIF)
            b == CrcBytes(crc)
<1>5. r \o b \in Seq(Nat) /\ Len(r \o b) = Len(r) + Len(b)
  BY <1>3, <1>4, ConcatNumbers, Zenon
<1>6. Len(r) = 2 /\ Len(b) = 4
  BY <1>3, <1>4
<1>. HIDE DEF r, b
<1>7. Len(r \o b) = 6
  BY <1>5, <1>6
<1>. QED  BY <1>5, <1>7 DEF r, b

-----------------------------------------------------------------------------
(* The copy loop of ReadRange.                                             *)

\* What the loop copies fits in BUF behind what is there, and when BUF is nearly
\* empty it copies something.
LEMMA CopiedFits ==
  ASSUME NEW page, NEW offset \in Nat, NEW n \in Nat, NEW start \in 0 .. 2
  PROVE  LET c == Copied(page, offset, n, start)
         IN  /\ c \in 0 .. n
             /\ n # 0 => c # 0
             /\ start + c + EscapesIn(PageBytes(page, offset, c), c) <= BufLen
<1>. DEFINE c == Copied(page, offset, n, start)
            L == Lesser(n, BufLen - start)
            Count(i) == Cardinality({j \in 0 .. i - 1 :
                                       page[offset + j] = ESCAPE_CHAR})
            Index(i) == start + i + Count(i)
            S == {i \in 0 .. L - 1 : Index(i) < BufLen - 1}
<1>1. BufLen \in Nat /\ BufLen >= 4
  BY BufferAssumption
<1>2. L \in Nat /\ L <= n /\ (n # 0 => L # 0)
  BY <1>1 DEF Lesser
<1>3. c = Cardinality(S)
  BY DEF Copied
<1>4. ASSUME NEW i \in Nat
      PROVE  /\ Count(i) \in 0 .. i
             /\ Count(i + 1) \in Count(i) .. Count(i) + 1
             /\ \A j \in 0 .. i : Count(j) <= Count(i)
  <2>. DEFINE A(k) == {j \in 0 .. k - 1 : page[offset + j] = ESCAPE_CHAR}
  <2>1. ASSUME NEW k \in Nat
        PROVE  IsFiniteSet(A(k)) /\ Cardinality(A(k)) \in 0 .. k
    <3>1. IsFiniteSet(0 .. k - 1) /\ Cardinality(0 .. k - 1) = k
      BY FS_Interval
    <3>2. A(k) \subseteq 0 .. k - 1
      OBVIOUS
    <3>. HIDE DEF A
    <3>3. IsFiniteSet(A(k)) /\ Cardinality(A(k)) <= k /\ Cardinality(A(k)) \in Nat
      BY <3>1, <3>2, FS_Subset, FS_CardinalityType
    <3>. QED  BY <3>3
  <2>2. ASSUME NEW k \in 0 .. i PROVE Cardinality(A(k)) <= Cardinality(A(i))
    <3>1. A(k) \subseteq A(i)
      OBVIOUS
    <3>2. IsFiniteSet(A(i))
      BY <2>1
    <3>. HIDE DEF A
    <3>. QED  BY <3>1, <3>2, FS_Subset
  <2>3. A(i + 1) \subseteq A(i) \cup {i} /\ A(i) \subseteq A(i + 1)
    OBVIOUS
  <2>. HIDE DEF A
  <2>4. IsFiniteSet(A(i)) /\ IsFiniteSet(A(i + 1))
        /\ Cardinality(A(i)) \in Nat /\ Cardinality(A(i + 1)) \in Nat
    <3>1. i + 1 \in Nat
      OBVIOUS
    <3>. QED  BY <2>1, <3>1
  <2>5. IsFiniteSet(A(i) \cup {i})
        /\ Cardinality(A(i) \cup {i}) <= Cardinality(A(i)) + 1
        /\ Cardinality(A(i) \cup {i}) \in Nat
    <3>. DEFINE B == A(i)
    <3>1. IsFiniteSet(B) /\ Cardinality(B) \in Nat
      BY <2>4
    <3>. HIDE DEF B
    <3>2. IsFiniteSet(B \cup {i})
          /\ Cardinality(B \cup {i}) =
               IF i \in B THEN Cardinality(B) ELSE Cardinality(B) + 1
      BY <3>1, FS_AddElement
    <3>3. Cardinality(B \cup {i}) <= Cardinality(B) + 1
          /\ Cardinality(B \cup {i}) \in Nat
      BY <3>1, <3>2
    <3>. QED  BY <3>2, <3>3 DEF B
  <2>6. Cardinality(A(i + 1)) <= Cardinality(A(i) \cup {i})
        /\ Cardinality(A(i)) <= Cardinality(A(i + 1))
    BY <2>3, <2>4, <2>5, FS_Subset
  <2>7. Cardinality(A(i + 1)) \in Cardinality(A(i)) .. Cardinality(A(i)) + 1
    BY <2>4, <2>5, <2>6
  <2>. QED  BY <2>1, <2>2, <2>7 DEF A
<1>5. Count(0) = 0
  <2>1. {j \in 0 .. 0 - 1 : page[offset + j] = ESCAPE_CHAR} = {}
    OBVIOUS
  <2>. QED  BY <2>1, FS_EmptySet
<1>. HIDE DEF Count
<1>6. S \subseteq 0 .. L - 1 /\ \A i \in S : \A j \in 0 .. i : j \in S
  <2>. SUFFICES ASSUME NEW i \in S, NEW j \in 0 .. i PROVE j \in S
    OBVIOUS
  <2>1. i \in Nat /\ i \in 0 .. L - 1 /\ j \in 0 .. L - 1
    BY <1>2
  <2>2. Count(j) <= Count(i) /\ Count(j) \in Nat /\ Count(i) \in Nat
    <3>1. j \in Nat
      OBVIOUS
    <3>. QED  BY <1>4, <2>1, <3>1
  <2>. QED  BY <1>1, <2>1, <2>2
<1>7. L # 0 => 0 \in S
  BY <1>1, <1>2, <1>5
<1>8. ASSUME NEW i \in S PROVE start + (i + 1) + Count(i + 1) <= BufLen
  BY <1>1, <1>2, <1>4
<1>. HIDE DEF S, L, c
<1>9. c \in Nat /\ S = 0 .. c - 1
  BY <1>2, <1>3, <1>6, GapFree
<1>10. c \in 0 .. n /\ (n # 0 => c # 0)
  <2>1. c # 0 => c - 1 \in 0 .. L - 1
    BY <1>6, <1>9
  <2>. QED  BY <1>2, <1>7, <1>9, <2>1
<1>11. EscapesIn(PageBytes(page, offset, c), c) = Count(c)
  <2>1. ASSUME NEW j \in 0 .. c - 1
        PROVE  PageBytes(page, offset, c)[j + 1] = page[offset + j]
    <3>1. j + 1 \in 1 .. c /\ offset + (j + 1) - 1 = offset + j
      BY <1>9
    <3>. QED  BY <3>1 DEF PageBytes
  <2>2. {j \in 0 .. c - 1 : PageBytes(page, offset, c)[j + 1] = ESCAPE_CHAR}
          = {j \in 0 .. c - 1 : page[offset + j] = ESCAPE_CHAR}
    BY <2>1
  <2>. QED  BY <2>2 DEF EscapesIn, Count
<1>12. start + c + Count(c) <= BufLen
  <2>1. CASE c = 0
    BY <1>1, <1>5, <2>1
  <2>2. CASE c # 0
    <3>1. c - 1 \in S /\ (c - 1) + 1 = c
      BY <1>9, <2>2
    <3>. QED  BY <1>8, <3>1
  <2>. QED  BY <2>1, <2>2
<1>. QED  BY <1>10, <1>11, <1>12 DEF c

-----------------------------------------------------------------------------
(* What the commands promise.                                              *)

LEMMA ChangingCommands ==
  ASSUME NEW c, NEW old
  PROVE  /\ c.kind = "SetAttr" =>
              /\ Changes(c) /\ TargetPage(c) = AttributePage(c.index)
              /\ NewPage(c, old) = Patch(old, AttributeOffset(c.index),
                                         AttributeRecord(c.key, c.value))
         /\ c.kind = "SetStartAddress" =>
              /\ Changes(c) /\ TargetPage(c) = FlagsPage
              /\ NewPage(c, old) = Patch(old, StartField, c.address)
         /\ c.kind = "ErasePage" =>
              /\ Changes(c) /\ TargetPage(c) = PageOf(c.address)
              /\ NewPage(c, old) = ErasedPage
         /\ c.kind = "WritePage" =>
              /\ Changes(c) <=> Len(c.data) = PageSize /\ ~InBootloader(c.address)
              /\ TargetPage(c) = PageOf(c.address)
              /\ NewPage(c, old) = [o \in Offsets |-> c.data[o + 1]]
<1>1. WriteVerdict(c) = RES_OK
        <=> Len(c.data) = PageSize /\ ~InBootloader(c.address)
  BY DEF WriteVerdict, RES_OK, RES_BADARGS, RES_BADADDR
<1>2. CASE c.kind = "SetAttr"
  BY <1>2 DEF Changes, TargetPage, NewPage
<1>3. CASE c.kind = "SetStartAddress"
  BY <1>3 DEF Changes, TargetPage, NewPage
<1>4. CASE c.kind = "ErasePage"
  BY <1>4 DEF Changes, TargetPage, NewPage
<1>5. CASE c.kind = "WritePage"
  BY <1>1, <1>5 DEF Changes, TargetPage, NewPage
<1>. QED  BY <1>2, <1>3, <1>4, <1>5

\* Which commands stay inside flash.
LEMMA AddressableCommands ==
  ASSUME NEW c
  PROVE  /\ c.kind \in {"ReadRange", "CrcIntFlash"} =>
              (Addressable(c) <=> /\ PageOf(c.address) \in Pages
                                  /\ c.address + c.length <= NumPages * PageSize)
         /\ c.kind = "GetAttr" =>
              (Addressable(c) <=> AttributePage(c.index) \in Pages)
         /\ Changes(c) => (Addressable(c) <=> TargetPage(c) \in Pages)
         /\ c.kind \in {"Ping", "ChangeBaud", "Unsupported", "BadArguments",
                        "Malformed", "Info"}
              => Addressable(c)
<1>1. CASE c.kind \in {"ReadRange", "CrcIntFlash"}
  BY <1>1 DEF Addressable, Changes
<1>2. CASE c.kind = "GetAttr"
  BY <1>2 DEF Addressable, Changes
<1>3. CASE Changes(c)
  <2>1. c.kind \in {"ErasePage", "SetAttr", "SetStartAddress", "WritePage"}
    BY <1>3 DEF Changes
  <2>. QED  BY <1>3, <2>1 DEF Addressable
<1>4. CASE c.kind \in {"Ping", "ChangeBaud", "Unsupported", "BadArguments",
                        "Malformed", "Info"}
  BY <1>4 DEF Addressable, Changes
<1>. QED  BY <1>1, <1>2, <1>3, <1>4

\* Taking the rest of a page, or part of it, extends what has been taken.
LEMMA NextChunk ==
  ASSUME NEW mem \in Flash, NEW from \in Nat, NEW at \in Nat, from <= at,
         PageOf(at) \in Pages, NEW n \in Nat, OffsetOf(at) + n <= PageSize
  PROVE  LET taken == FlashBytes(mem, from, at - from)
             chunk == PageBytes(mem[PageOf(at)], OffsetOf(at), n)
         IN  /\ at + n <= NumPages * PageSize
             /\ taken \in Seq(Byte)
             /\ chunk \in Seq(Byte) /\ Len(chunk) = n
             /\ FlashBytes(mem, from, (at + n) - from) = taken \o chunk
<1>. DEFINE m == at - from
<1>1. at + n <= NumPages * PageSize
  BY PageEnd
<1>2. m \in Nat /\ from + m = at /\ m + n = (at + n) - from
  OBVIOUS
<1>3. /\ from + m <= NumPages * PageSize
      /\ from + m + n <= NumPages * PageSize
      /\ at + n <= NumPages * PageSize
  BY <1>1, <1>2, SizeAssumption
<1>. HIDE DEF m
<1>4. FlashBytes(mem, from, m) \in Seq(Byte)
  BY <1>2, <1>3, FlashBytesType
<1>5. /\ FlashBytes(mem, from + m, n) \in Seq(Byte)
      /\ Len(FlashBytes(mem, from + m, n)) = n
  BY <1>2, <1>3, FlashBytesType
<1>6. FlashBytes(mem, from, m + n)
        = FlashBytes(mem, from, m) \o FlashBytes(mem, from + m, n)
  BY <1>2, <1>3, FlashBytesConcat
<1>7. FlashBytes(mem, at, n) = PageBytes(mem[PageOf(at)], OffsetOf(at), n)
  BY FlashBytesOnePage
<1>. QED  BY <1>1, <1>2, <1>4, <1>5, <1>6, <1>7 DEF m

LEMMA NothingTaken ==
  ASSUME NEW mem, NEW a \in Nat
  PROVE  FlashBytes(mem, a, a - a) = <<>>
  BY DEF FlashBytes

-----------------------------------------------------------------------------
(* The inductive invariant: how far the command being served has come.     *)

\* What a read is for, and what has been made of the request so far.
ReadServed ==
  op.kind = "read" =>
    /\ state.kind = "Info" =>
         request.kind = "Info" /\ op.page = FlagsPage /\ wire = <<>>
    /\ state.kind = "GetAttribute" =>
         /\ request.kind = "GetAttr" /\ state.index = request.index
         /\ op.page = AttributePage(request.index) /\ wire = <<>>
    /\ state.kind = "SetAttribute" =>
         /\ request.kind = "SetAttr" /\ state.index = request.index
         /\ op.page = AttributePage(request.index) /\ wire = <<>>
         /\ bytes = AttributeRecord(request.key, request.value)
    /\ state.kind = "SetStartAddress" =>
         /\ request.kind = "SetStartAddress" /\ state.address = request.address
         /\ op.page = FlagsPage /\ wire = <<>>

\* An operation that programs a page brings about what the request says.
ProgramServed ==
  op.kind \in {"write", "erase"} =>
    /\ Changes(request)
    /\ op.page = TargetPage(request)
    /\ OpContents = NewPage(request, flash[op.page])
    /\ wire = <<>>

\* How far a request for a range of flash has come.
Progress ==
  /\ PageOf(request.address) \in Pages
  /\ request.address <= state.address
  /\ state.address + state.remaining_length = request.address + request.length
  /\ state.address <= NumPages * PageSize
  /\ op # NoOp => op.page = PageOf(state.address)

Covered == FlashBytes(flash, request.address, state.address - request.address)

Sent == IF buffer = "tx" THEN wire \o bytes ELSE wire

RangeServed ==
  state.kind = "ReadRange" /\ (op.kind = "read" \/ buffer = "tx") =>
    /\ request.kind = "ReadRange" /\ state.length = request.length
    /\ Progress
    /\ buffer = "tx" => \/ state.remaining_length < state.length
                        \/ state.remaining_length = 0
    /\ Sent = IF op.kind = "read" /\ state.remaining_length = state.length
              THEN <<>>
              ELSE Response(RES_READ_RANGE) \o Escape(Covered)

CrcServed ==
  state.kind = "Crc" /\ op.kind = "read" =>
    /\ request.kind = "CrcIntFlash"
    /\ Progress
    /\ state.crc = CrcFold(CrcInit, Covered)
    /\ wire = <<>>

\* A reply is never empty, and one that is not a range goes out in one piece.
ReplyReady ==
  buffer = "tx" =>
    /\ bytes \in Seq(Nat)
    /\ state.kind = "Idle" => wire = <<>> /\ bytes # <<>>
    /\ request \in Command

Serving ==
  ReadServed /\ ProgramServed /\ RangeServed /\ CrcServed /\ ReplyReady

SInv == Inv /\ Serving /\ NeverWedged

USE DEF Idle, NoOp

\* Nothing is in progress.
LEMMA QuietServes ==
  ASSUME op' = NoOp, buffer' # "tx"
  PROVE  Serving'
  BY DEF Serving, ReadServed, ProgramServed, RangeServed, CrcServed, ReplyReady

\* A reply goes out in one piece.
LEMMA TransmitServes ==
  ASSUME op' = NoOp, state'.kind = "Idle", wire' = <<>>, request' \in Command,
         NEW reply \in Seq(Nat), reply # <<>>, Transmit(reply)
  PROVE  Serving' /\ NeverWedged'
  BY QuietServes
  DEF Transmit, Serving, ReadServed, ProgramServed, RangeServed, CrcServed,
      ReplyReady, NeverWedged, Wedged

LEMMA ListenServes ==
  ASSUME op' = NoOp, Listen
  PROVE  Serving' /\ NeverWedged'
  BY QuietServes DEF Listen, NeverWedged, Wedged

LEMMA InitSInv == Init => SInv
<1>. SUFFICES ASSUME Init PROVE SInv
  OBVIOUS
<1>1. Inv
  BY InitInv
<1>2. Serving
  BY DEF Init, Serving, ReadServed, ProgramServed, RangeServed, CrcServed,
         ReplyReady
<1>3. NeverWedged
  BY DEF Init, NeverWedged, Wedged
<1>. QED  BY <1>1, <1>2, <1>3 DEF SInv

\* A command answered from BUF alone.
LEMMA AtOnceServes ==
  ASSUME Inv, buffer = "rx", NEW code \in Nat, AnswerAtOnce(code),
         request' \in Command, wire' = <<>>
  PROVE  Serving' /\ NeverWedged'
<1>1. op' = NoOp /\ state'.kind = "Idle" /\ Transmit(Response(code))
  BY DEF AnswerAtOnce, Inv, OneOutstanding
<1>. QED  BY <1>1, ResponseType, TransmitServes

\* A command whose first read was refused.
LEMMA RefusedReadServes ==
  ASSUME NEW p, NEW next, NEW kept, StartWithRead(p, next, kept),
         op' = NoOp, page_buffer' = "lost", Refusable(p),
         p \notin Pages => ~Addressable(request')
  PROVE  Serving' /\ NeverWedged'
<1>1. buffer' = "cell"
  BY DEF StartWithRead
<1>2. "refuse" \in Faults \/ ~Addressable(request')
  BY DEF Refusable
<1>. QED  BY <1>1, <1>2, QuietServes DEF NeverWedged

\* One whose first read was accepted.
LEMMA AcceptedReadServes ==
  ASSUME NEW p, NEW next, NEW kept, StartWithRead(p, next, kept),
         op' = [kind |-> "read", page |-> p],
         ReadServed', RangeServed', CrcServed'
  PROVE  Serving' /\ NeverWedged'
  BY DEF StartWithRead, Serving, ProgramServed, ReplyReady, NeverWedged, Wedged

LEMMA StartServes ==
  ASSUME NEW p, NEW next, NEW kept, StartWithRead(p, next, kept),
         p \notin Pages => ~Addressable(request'),
         p \in Pages /\ op' = [kind |-> "read", page |-> p]
           => ReadServed' /\ RangeServed' /\ CrcServed'
  PROVE  Serving' /\ NeverWedged'
<1>1. \/ p \in Pages /\ op' = [kind |-> "read", page |-> p]
      \/ Refusable(p) /\ op' = NoOp /\ page_buffer' = "lost"
  BY DEF StartWithRead, ReadPage
<1>. QED  BY <1>1, AcceptedReadServes, RefusedReadServes

LEMMA PageStart ==
  ASSUME NEW a \in Nat, PageOf(a) \in Pages
  PROVE  a <= NumPages * PageSize
<1>1. OffsetOf(a) + 0 <= PageSize
  BY OffsetType, SizeAssumption DEF Offsets
<1>2. a + 0 <= NumPages * PageSize
  BY <1>1, PageEnd
<1>. QED  BY <1>2

LEMMA HandleReadsServe ==
  ASSUME Inv, NEW c \in Command, request' = c, wire' = <<>>,
         \/ HandleInfo(c) \/ HandleReadRange(c) \/ HandleCrcIntFlash(c)
         \/ HandleGetAttr(c) \/ HandleSetAttr(c) \/ HandleSetStartAddress(c)
  PROVE  Serving' /\ NeverWedged'
<1>1. CASE HandleInfo(c)
  <2>1. c.kind = "Info" /\ StartWithRead(FlagsPage, [kind |-> "Info"], <<>>)
    BY <1>1 DEF HandleInfo
  <2>2. FlagsPage \in Pages
    BY LayoutAssumption
  <2>3. state' = [kind |-> "Info"]
    BY <2>1 DEF StartWithRead
  <2>4. op' = [kind |-> "read", page |-> FlagsPage]
          => ReadServed' /\ RangeServed' /\ CrcServed'
    BY <2>1, <2>3 DEF ReadServed, RangeServed, CrcServed
  <2>. QED  BY <2>1, <2>2, <2>4, StartServes
<1>2. CASE HandleReadRange(c)
  <2>. DEFINE next == [kind |-> "ReadRange", address |-> c.address,
                       length |-> c.length, remaining_length |-> c.length]
              p == PageOf(c.address)
  <2>1. c.kind = "ReadRange" /\ StartWithRead(p, next, <<>>)
    BY <1>2 DEF HandleReadRange
  <2>2. state' = next /\ buffer' = "cell"
    BY <2>1 DEF StartWithRead
  <2>3. c.address \in Nat /\ c.length \in Nat
    BY <2>1, ArgumentAssumption DEF Command
  <2>4. p \notin Pages => ~Addressable(c)
    BY <2>1, AddressableCommands
  <2>5. ASSUME p \in Pages, op' = [kind |-> "read", page |-> p]
        PROVE  ReadServed' /\ RangeServed' /\ CrcServed'
    <3>1. c.address <= NumPages * PageSize
      BY <2>3, <2>5, PageStart
    <3>. QED
      BY <2>1, <2>2, <2>3, <2>5, <3>1
      DEF ReadServed, RangeServed, CrcServed, Progress, Sent
  <2>. HIDE DEF p, next
  <2>. QED  BY <2>1, <2>4, <2>5, StartServes
<1>3. CASE HandleCrcIntFlash(c)
  <2>. DEFINE next == [kind |-> "Crc", address |-> c.address,
                       remaining_length |-> c.length, crc |-> CrcInit]
              p == PageOf(c.address)
  <2>1. c.kind = "CrcIntFlash" /\ StartWithRead(p, next, <<>>)
    BY <1>3 DEF HandleCrcIntFlash
  <2>2. state' = next /\ buffer' = "cell"
    BY <2>1 DEF StartWithRead
  <2>3. c.address \in Nat /\ c.length \in Nat
    BY <2>1, ArgumentAssumption DEF Command
  <2>4. p \notin Pages => ~Addressable(c)
    BY <2>1, AddressableCommands
  <2>5. ASSUME p \in Pages, op' = [kind |-> "read", page |-> p]
        PROVE  ReadServed' /\ RangeServed' /\ CrcServed'
    <3>1. c.address <= NumPages * PageSize
      BY <2>3, <2>5, PageStart
    <3>2. CrcFold(CrcInit, FlashBytes(flash', c.address, c.address - c.address))
            = CrcInit
      BY <2>3, NothingTaken, CrcFoldEmpty
    <3>. QED
      BY <2>1, <2>2, <2>3, <2>5, <3>1, <3>2
      DEF ReadServed, RangeServed, CrcServed, Progress, Covered
  <2>. HIDE DEF p, next
  <2>. QED  BY <2>1, <2>4, <2>5, StartServes
<1>4. CASE HandleGetAttr(c)
  <2>. DEFINE next == [kind |-> "GetAttribute", index |-> c.index]
              p == AttributePage(c.index)
  <2>1. c.kind = "GetAttr" /\ StartWithRead(p, next, <<>>)
    BY <1>4 DEF HandleGetAttr
  <2>2. state' = next
    BY <2>1 DEF StartWithRead
  <2>3. p \notin Pages => ~Addressable(c)
    BY <2>1, AddressableCommands
  <2>4. op' = [kind |-> "read", page |-> p]
          => ReadServed' /\ RangeServed' /\ CrcServed'
    BY <2>1, <2>2 DEF ReadServed, RangeServed, CrcServed
  <2>. HIDE DEF p, next
  <2>. QED  BY <2>1, <2>3, <2>4, StartServes
<1>5. CASE HandleSetAttr(c)
  <2>. DEFINE next == [kind |-> "SetAttribute", index |-> c.index]
              p == AttributePage(c.index)
              kept == AttributeRecord(c.key, c.value)
  <2>1. c.kind = "SetAttr" /\ StartWithRead(p, next, kept)
    BY <1>5 DEF HandleSetAttr
  <2>2. state' = next /\ bytes' = kept
    BY <2>1 DEF StartWithRead
  <2>3. p \notin Pages => ~Addressable(c)
    BY <2>1, AddressableCommands, ChangingCommands
  <2>4. op' = [kind |-> "read", page |-> p]
          => ReadServed' /\ RangeServed' /\ CrcServed'
    BY <2>1, <2>2 DEF ReadServed, RangeServed, CrcServed
  <2>. HIDE DEF p, next, kept
  <2>. QED  BY <2>1, <2>3, <2>4, StartServes
<1>6. CASE HandleSetStartAddress(c)
  <2>. DEFINE next == [kind |-> "SetStartAddress", address |-> c.address]
  <2>1. c.kind = "SetStartAddress" /\ StartWithRead(FlagsPage, next, <<>>)
    BY <1>6 DEF HandleSetStartAddress
  <2>2. state' = next
    BY <2>1 DEF StartWithRead
  <2>3. FlagsPage \in Pages
    BY LayoutAssumption
  <2>4. op' = [kind |-> "read", page |-> FlagsPage]
          => ReadServed' /\ RangeServed' /\ CrcServed'
    BY <2>1, <2>2 DEF ReadServed, RangeServed, CrcServed
  <2>. HIDE DEF next
  <2>. QED  BY <2>1, <2>3, <2>4, StartServes
<1>. QED  BY <1>1, <1>2, <1>3, <1>4, <1>5, <1>6

LEMMA HandleServing ==
  ASSUME Inv, buffer = "rx", NEW c \in Command, Handle(c), request' = c,
         wire' = <<>>
  PROVE  Serving' /\ NeverWedged'
<1>1. CASE \/ HandlePing(c) \/ HandleUnsupported(c)
           \/ HandleBadArguments(c) \/ HandleMalformed(c)
  <2>1. PICK code \in Nat : AnswerAtOnce(code)
    BY <1>1
    DEF HandlePing, HandleUnsupported, HandleBadArguments, HandleMalformed,
        RES_PONG, RES_UNKNOWN, RES_BADARGS, RES_INTERNAL_ERROR
  <2>. QED  BY <2>1, AtOnceServes
<1>2. CASE \/ HandleInfo(c) \/ HandleReadRange(c) \/ HandleCrcIntFlash(c)
           \/ HandleGetAttr(c) \/ HandleSetAttr(c) \/ HandleSetStartAddress(c)
  BY <1>2, HandleReadsServe
<1>3. CASE HandleWritePage(c)
  <2>. DEFINE p == PageOf(c.address)
              contents == [o \in Offsets |-> c.data[o + 1]]
  <2>1. /\ c.kind = "WritePage" /\ WritePageAccepted(c)
        /\ buffer' = "cell" /\ state' = [kind |-> "WriteFlashPage"]
        /\ WritePage(p, contents)
    BY <1>3 DEF HandleWritePage
  <2>2. /\ Changes(c) /\ TargetPage(c) = p
        /\ \A old : NewPage(c, old) = contents
        /\ p \notin Pages => ~Addressable(c)
    BY <2>1, ChangingCommands, AddressableCommands DEF WritePageAccepted
  <2>. HIDE DEF p, contents
  <2>3. CASE op' = [kind |-> "write", page |-> p, data |-> contents]
    BY <2>1, <2>2, <2>3
    DEF Serving, ReadServed, ProgramServed, RangeServed, CrcServed, ReplyReady,
        OpContents, NeverWedged, Wedged
  <2>4. CASE Refusable(p) /\ op' = NoOp /\ page_buffer' = "lost"
    <3>1. "refuse" \in Faults \/ ~Addressable(c)
      BY <2>2, <2>4 DEF Refusable
    <3>. QED  BY <2>1, <2>4, <3>1, QuietServes DEF NeverWedged
  <2>. QED  BY <2>1, <2>3, <2>4 DEF WritePage
<1>4. CASE RejectWritePage(c)
  <2>1. PICK code \in Nat : Transmit(Response(code))
    BY <1>4 DEF RejectWritePage, RES_BADARGS, RES_BADADDR
  <2>2. op' = NoOp /\ state'.kind = "Idle"
    BY <1>4 DEF RejectWritePage, Inv, OneOutstanding
  <2>. QED  BY <2>1, <2>2, ResponseType, TransmitServes
<1>5. CASE HandleErasePage(c)
  <2>. DEFINE p == PageOf(c.address)
  <2>1. /\ c.kind = "ErasePage"
        /\ buffer' = "cell" /\ state' = [kind |-> "ErasePage"]
        /\ ErasePage(p)
    BY <1>5 DEF HandleErasePage
  <2>2. /\ Changes(c) /\ TargetPage(c) = p
        /\ \A old : NewPage(c, old) = ErasedPage
        /\ p \notin Pages => ~Addressable(c)
    BY <2>1, ChangingCommands, AddressableCommands
  <2>. HIDE DEF p
  <2>3. CASE op' = [kind |-> "erase", page |-> p]
    BY <2>1, <2>2, <2>3
    DEF Serving, ReadServed, ProgramServed, RangeServed, CrcServed, ReplyReady,
        OpContents, NeverWedged, Wedged
  <2>4. CASE Refusable(p) /\ op' = NoOp
    <3>1. "refuse" \in Faults \/ ~Addressable(c)
      BY <2>2, <2>4 DEF Refusable
    <3>. QED  BY <2>1, <2>4, <3>1, QuietServes DEF NeverWedged
  <2>. QED  BY <2>1, <2>3, <2>4 DEF ErasePage
<1>. QED  BY <1>1, <1>2, <1>3, <1>4, <1>5 DEF Handle

\* A flash callback that sends a whole reply.
LEMMA SendServes ==
  ASSUME Inv, NEW reply \in Seq(Nat), reply # <<>>, SendFromPage(reply),
         state'.kind = "Idle", wire = <<>>, request \in Command
  PROVE  Serving' /\ NeverWedged'
<1>1. op' = NoOp /\ wire' = <<>> /\ request' \in Command /\ Transmit(reply)
  BY DEF SendFromPage
<1>. QED  BY <1>1, TransmitServes

\* What is being served is a command.
LEMMA RequestIsCommand ==
  ASSUME TypeOK, request # NoCommand
  PROVE  request \in Command
  BY DEF TypeOK

LEMMA NoCommandKind == NoCommand.kind = "None"
  BY DEF NoCommand

LEMMA ReadInfoServes ==
  ASSUME Inv, Serving, ReadInfo
  PROVE  Serving' /\ NeverWedged'
<1>1. PICK stale \in StaleBytes : SendFromPage(InfoReply(ReadData, stale))
  BY DEF ReadInfo
<1>2. state'.kind = "Idle" /\ op.kind = "read" /\ state.kind = "Info"
  BY DEF ReadInfo, Reading
<1>3. request.kind = "Info" /\ wire = <<>>
  BY <1>2 DEF Serving, ReadServed
<1>4. ReadData \in Page /\ stale \in Byte
  BY <1>2, ReadDataType, ArgumentAssumption DEF Inv
<1>5. InfoReply(ReadData, stale) \in Seq(Nat)
      /\ Len(InfoReply(ReadData, stale)) = 3 + InfoLen
  BY <1>4, InfoReplyType
<1>6. InfoReply(ReadData, stale) # <<>>
  BY <1>5, SizeAssumption
<1>7. request \in Command
  BY <1>3, RequestIsCommand, NoCommandKind DEF Inv
<1>. QED  BY <1>1, <1>2, <1>3, <1>5, <1>6, <1>7, SendServes

LEMMA GetAttributeIndex ==
  ASSUME Inv, Serving, op.kind = "read",
         state.kind \in {"GetAttribute", "SetAttribute"}
  PROVE  /\ request \in Command /\ state.index = request.index
         /\ state.index \in Indexes /\ op.page = AttributePage(state.index)
         /\ wire = <<>>
<1>1. /\ request.kind \in {"GetAttr", "SetAttr"}
      /\ state.index = request.index
      /\ op.page = AttributePage(state.index) /\ wire = <<>>
  BY DEF Serving, ReadServed
<1>2. request \in Command
  BY <1>1, RequestIsCommand, NoCommandKind DEF Inv
<1>3. request.index \in Indexes
  BY <1>1, <1>2 DEF Command
<1>. QED  BY <1>1, <1>2, <1>3

LEMMA ReadGetAttributeServes ==
  ASSUME Inv, Serving, ReadGetAttribute
  PROVE  Serving' /\ NeverWedged'
<1>. DEFINE reply == GetAttributeReply(ReadData, state.index)
<1>1. /\ SendFromPage(reply) /\ state'.kind = "Idle"
      /\ op.kind = "read" /\ state.kind = "GetAttribute"
  BY DEF ReadGetAttribute, Reading
<1>2. request \in Command /\ state.index \in Indexes /\ wire = <<>>
  BY <1>1, GetAttributeIndex
<1>3. ReadData \in Page
  BY <1>1, ReadDataType DEF Inv
<1>4. reply \in Seq(Nat) /\ Len(reply) \in 2 .. BufLen
  BY <1>2, <1>3, GetAttributeReplyType
<1>. HIDE DEF reply
<1>5. reply # <<>>
  BY <1>4
<1>. QED  BY <1>1, <1>2, <1>4, <1>5, SendServes

\* A read that is followed by a write of the page the request names.
LEMMA WriteBackServes ==
  ASSUME Inv, op.kind = "read", NEW p \in Pages, NEW contents,
         WritePage(p, contents),
         UNCHANGED <<state, buffer, bytes, flash, request, wire>>,
         state.kind \in {"SetAttribute", "SetStartAddress"},
         Changes(request), TargetPage(request) = p,
         contents = NewPage(request, flash[p]), wire = <<>>
  PROVE  Serving' /\ NeverWedged'
<1>1. buffer = "cell"
  BY DEF Inv, OneOutstanding
<1>2. CASE op' = [kind |-> "write", page |-> p, data |-> contents]
  BY <1>1, <1>2
  DEF Serving, ReadServed, ProgramServed, RangeServed, CrcServed, ReplyReady,
      OpContents, NeverWedged, Wedged
<1>3. CASE Refusable(p) /\ op' = NoOp /\ page_buffer' = "lost"
  <2>1. "refuse" \in Faults
    BY <1>3 DEF Refusable
  <2>. QED  BY <1>1, <1>3, <2>1, QuietServes DEF NeverWedged
<1>. QED  BY <1>2, <1>3 DEF WritePage

LEMMA ReadSetAttributeServes ==
  ASSUME Inv, Serving, ReadSetAttribute
  PROVE  Serving' /\ NeverWedged'
<1>. DEFINE p == AttributePage(state.index)
            contents == Patch(ReadData, AttributeOffset(state.index), bytes)
<1>1. /\ op.kind = "read" /\ state.kind = "SetAttribute"
      /\ WritePage(p, contents)
      /\ UNCHANGED <<state, buffer, bytes, flash, request, wire>>
  BY DEF ReadSetAttribute, Reading
<1>2. /\ request.kind = "SetAttr" /\ state.index = request.index
      /\ op.page = AttributePage(request.index) /\ wire = <<>>
      /\ bytes = AttributeRecord(request.key, request.value)
  BY <1>1 DEF Serving, ReadServed
<1>3. op.page \in Pages
  BY <1>1 DEF Inv, TypeOK, OpOK
<1>4. /\ p = op.page /\ ReadData = flash[p]
      /\ contents = Patch(flash[p], AttributeOffset(request.index),
                          AttributeRecord(request.key, request.value))
  BY <1>2 DEF ReadData
<1>. HIDE DEF p, contents
<1>5. /\ Changes(request) /\ TargetPage(request) = p
      /\ contents = NewPage(request, flash[p])
  BY <1>2, <1>4, ChangingCommands
<1>. QED  BY <1>1, <1>2, <1>3, <1>4, <1>5, WriteBackServes

\* The start address is in the page of the flags.
LEMMA StartPage == PageOf(FlagsAddress + StartOffset) = FlagsPage
<1>1. OffsetOf(FlagsAddress) \in Nat
  BY LayoutAssumption, OffsetType, SizeAssumption DEF Offsets
<1>2. /\ FlagsAddress \in Nat /\ StartOffset \in Nat
      /\ OffsetOf(FlagsAddress) + StartOffset < PageSize
  BY <1>1, LayoutAssumption, SizeAssumption
<1>. QED  BY <1>2, SamePage DEF FlagsPage

LEMMA ReadSetStartAddressServes ==
  ASSUME Inv, Serving, ReadSetStartAddress
  PROVE  Serving' /\ NeverWedged'
<1>. DEFINE contents == Patch(ReadData, StartField, state.address)
<1>1. /\ op.kind = "read" /\ state.kind = "SetStartAddress"
      /\ WritePage(FlagsPage, contents)
      /\ UNCHANGED <<state, buffer, bytes, flash, request, wire>>
  BY StartPage DEF ReadSetStartAddress, Reading
<1>2. /\ request.kind = "SetStartAddress" /\ state.address = request.address
      /\ op.page = FlagsPage /\ wire = <<>>
  BY <1>1 DEF Serving, ReadServed
<1>3. FlagsPage \in Pages
  BY LayoutAssumption
<1>4. contents = Patch(flash[FlagsPage], StartField, request.address)
  BY <1>2 DEF ReadData
<1>. HIDE DEF contents
<1>5. /\ Changes(request) /\ TargetPage(request) = FlagsPage
      /\ contents = NewPage(request, flash[FlagsPage])
  BY <1>2, <1>4, ChangingCommands
<1>. QED  BY <1>1, <1>2, <1>3, <1>5, WriteBackServes

LEMMA ProgramCompleteServes ==
  ASSUME Inv, Serving, ProgramComplete
  PROVE  Serving' /\ NeverWedged'
<1>1. /\ op' = NoOp /\ state'.kind = "Idle" /\ Transmit(Response(RES_OK))
      /\ UNCHANGED <<request, wire>> /\ op.kind \in {"write", "erase"}
  BY DEF ProgramComplete
<1>2. Changes(request) /\ wire = <<>>
  BY <1>1 DEF Serving, ProgramServed
<1>3. request # NoCommand
  BY <1>2, NoCommandKind DEF Changes
<1>4. request \in Command
  BY <1>3, RequestIsCommand DEF Inv
<1>5. Response(RES_OK) \in Seq(Nat) /\ Response(RES_OK) # <<>>
  BY ResponseType DEF RES_OK
<1>. QED  BY <1>1, <1>2, <1>4, <1>5, TransmitServes

\* READ_RANGE: the header, if this is the first chunk, and the next bytes that
\* still fit, from the page that was read.
LEMMA RangeStep ==
  ASSUME Inv, Serving, ReadReadRange
  PROVE  \E reply \in Seq(Nat) :
           /\ SendFromPage(reply)
           /\ Len(reply) <= BufLen
           /\ request \in Command /\ request.kind = "ReadRange"
           /\ state'.kind = "ReadRange" /\ state'.length = request.length
           /\ PageOf(request.address) \in Pages
           /\ state'.address \in Nat /\ state'.remaining_length \in Nat
           /\ request.address <= state'.address
           /\ state'.address + state'.remaining_length
                = request.address + request.length
           /\ state'.address <= NumPages * PageSize
           /\ \/ state'.remaining_length < state'.length
              \/ state'.remaining_length = 0
           /\ wire \o reply
                = Response(RES_READ_RANGE)
                    \o Escape(FlashBytes(flash, request.address,
                                         state'.address - request.address))
<1>. DEFINE first  == state.length = state.remaining_length
            header == IF first THEN Response(RES_READ_RANGE) ELSE <<>>
            offset == OffsetOf(state.address)
            len    == Lesser(PageSize - offset, state.remaining_length)
            copied == Copied(ReadData, offset, len, Len(header))
            chunk  == PageBytes(ReadData, offset, copied)
            reply  == header \o Escape(chunk)
            from   == request.address
            at     == state.address
            taken  == FlashBytes(flash, from, at - from)
<1>1. /\ state.kind = "ReadRange" /\ op.kind = "read"
      /\ Advance(chunk)
      /\ SendFromPage(reply)
  BY DEF ReadReadRange, Reading
<1>2. /\ request.kind = "ReadRange" /\ state.length = request.length
      /\ Progress
      /\ Sent = IF first THEN <<>>
                ELSE Response(RES_READ_RANGE) \o Escape(taken)
  BY <1>1 DEF Serving, RangeServed, Covered
<1>3. Sent = wire
  BY <1>1 DEF Inv, OneOutstanding, Sent
<1>4. /\ request \in Command
      /\ from \in Nat /\ request.length \in Nat
  <2>1. request \in Command
    BY <1>2, RequestIsCommand, NoCommandKind DEF Inv
  <2>. QED  BY <1>2, <2>1, ArgumentAssumption DEF Command
<1>5. /\ at \in Nat /\ state.remaining_length \in 0 .. state.length
      /\ from <= at /\ at + state.remaining_length = from + request.length
      /\ PageOf(from) \in Pages /\ op.page = PageOf(at)
  BY <1>1, <1>2 DEF Inv, TypeOK, StateOK, Progress
<1>6. PageOf(at) \in Pages /\ ReadData = flash[PageOf(at)] /\ flash \in Flash
  BY <1>1, <1>5 DEF Inv, TypeOK, OpOK, ReadData
<1>7. offset \in Nat /\ offset < PageSize
  BY <1>5, OffsetType, SizeAssumption DEF Offsets
<1>8. /\ len \in Nat /\ len <= state.remaining_length /\ offset + len <= PageSize
      /\ state.remaining_length # 0 => len # 0
  BY <1>4, <1>5, <1>7, SizeAssumption DEF Lesser
<1>9. Len(header) \in 0 .. 2 /\ header \in Seq(Nat)
  <2>1. Response(RES_READ_RANGE) \in Seq(Nat) /\ Len(Response(RES_READ_RANGE)) = 2
    BY ResponseType DEF RES_READ_RANGE
  <2>2. <<>> \in Seq(Nat) /\ Len(<<>>) = 0
    OBVIOUS
  <2>3. CASE first
    BY <2>1, <2>3
  <2>4. CASE ~first
    BY <2>2, <2>4
  <2>. QED  BY <2>3, <2>4
<1>10. /\ copied \in 0 .. len /\ (len # 0 => copied # 0)
       /\ Len(header) + copied + EscapesIn(chunk, copied) <= BufLen
  <2>. HIDE DEF header, len, offset
  <2>. QED  BY <1>7, <1>8, <1>9, CopiedFits
<1>. HIDE DEF header, len, offset, copied
<1>11. copied \in Nat /\ offset + copied <= PageSize
  BY <1>7, <1>8, <1>10, SizeAssumption
<1>12. /\ at + copied <= NumPages * PageSize
       /\ taken \in Seq(Byte)
       /\ chunk \in Seq(Byte) /\ Len(chunk) = copied
       /\ FlashBytes(flash, from, (at + copied) - from) = taken \o chunk
  <2>1. chunk = PageBytes(flash[PageOf(at)], OffsetOf(at), copied)
    BY <1>6, Zenon DEF offset
  <2>2. /\ flash \in Flash /\ from \in Nat /\ at \in Nat /\ from <= at
        /\ PageOf(at) \in Pages /\ copied \in Nat
        /\ OffsetOf(at) + copied <= PageSize
    BY <1>4, <1>5, <1>6, <1>11 DEF offset
  <2>. HIDE DEF chunk, from, at
  <2>3. /\ at + copied <= NumPages * PageSize
        /\ FlashBytes(flash, from, at - from) \in Seq(Byte)
        /\ PageBytes(flash[PageOf(at)], OffsetOf(at), copied) \in Seq(Byte)
        /\ Len(PageBytes(flash[PageOf(at)], OffsetOf(at), copied)) = copied
        /\ FlashBytes(flash, from, (at + copied) - from)
             = FlashBytes(flash, from, at - from)
                 \o PageBytes(flash[PageOf(at)], OffsetOf(at), copied)
    BY <2>2, NextChunk
  <2>. QED  BY <2>1, <2>3, Zenon
<1>. HIDE DEF chunk
<1>13. Escape(chunk) \in Seq(Nat)
       /\ Len(Escape(chunk)) = copied + EscapesIn(chunk, copied)
  BY <1>12, EscapeType, EscapeLength, BytesAreNumbers
<1>14. reply \in Seq(Nat) /\ Len(reply) <= BufLen
  <2>1. reply \in Seq(Nat) /\ Len(reply) = Len(header) + Len(Escape(chunk))
    BY <1>9, <1>13, ConcatNumbers, Zenon
  <2>2. EscapesIn(chunk, copied) \in Nat
    BY <1>11, CountNext
  <2>. HIDE DEF reply
  <2>. QED  BY <1>9, <1>10, <1>11, <1>13, <2>1, <2>2
<1>15. /\ state'.kind = "ReadRange" /\ state'.length = request.length
       /\ state'.address = at + copied
       /\ state'.remaining_length = state.remaining_length - copied
  BY <1>1, <1>2, <1>12 DEF Advance
<1>16. /\ state'.address \in Nat /\ state'.remaining_length \in Nat
       /\ from <= state'.address
       /\ state'.address + state'.remaining_length = from + request.length
       /\ \/ state'.remaining_length < state'.length
          \/ state'.remaining_length = 0
  <2>1. /\ copied <= state.remaining_length
        /\ state.remaining_length # 0 => copied # 0
    BY <1>5, <1>8, <1>10, <1>11
  <2>. HIDE DEF at, from
  <2>. QED  BY <1>2, <1>4, <1>5, <1>11, <1>15, <2>1
<1>17. wire \o reply
         = Response(RES_READ_RANGE)
             \o Escape(FlashBytes(flash, from, state'.address - from))
  <2>1. FlashBytes(flash, from, state'.address - from) = taken \o chunk
    BY <1>12, <1>15
  <2>2. Escape(taken \o chunk) = Escape(taken) \o Escape(chunk)
    BY <1>12, EscapeConcat
  <2>3. Escape(taken) \in Seq(Nat)
    BY <1>12, EscapeType, BytesAreNumbers
  <2>4. Response(RES_READ_RANGE) \in Seq(Nat)
    BY ResponseType DEF RES_READ_RANGE
  <2>5. CASE first
    <3>1. at = from /\ wire = <<>>
      BY <1>2, <1>3, <1>4, <1>5, <2>5
    <3>2. taken = <<>>
      BY <1>4, <3>1, NothingTaken
    <3>3. Escape(taken) = <<>>
      BY <3>2, EscapeEmpty
    <3>4. Escape(taken) \o Escape(chunk) = Escape(chunk)
      BY <1>13, <3>3, ConcatEmptySeq
    <3>5. wire \o reply = reply
      BY <1>14, <3>1, ConcatEmptySeq
    <3>6. reply = Response(RES_READ_RANGE) \o Escape(chunk)
      BY <2>5 DEF header
    <3>. QED  BY <2>1, <2>2, <3>4, <3>5, <3>6, Zenon
  <2>6. CASE ~first
    <3>1. wire = Response(RES_READ_RANGE) \o Escape(taken)
      BY <1>2, <1>3, <2>6
    <3>2. reply = Escape(chunk)
      BY <1>13, <2>6, ConcatEmptySeq DEF header
    <3>3. (Response(RES_READ_RANGE) \o Escape(taken)) \o Escape(chunk)
            = Response(RES_READ_RANGE) \o (Escape(taken) \o Escape(chunk))
      BY <1>13, <2>3, <2>4, NumbersAssociative, Zenon
    <3>. QED  BY <2>1, <2>2, <3>1, <3>2, <3>3, Zenon
  <2>. QED  BY <2>5, <2>6
<1>. HIDE DEF reply, from
<1>18. state'.address <= NumPages * PageSize
  BY <1>12, <1>15
<1>. QED
  BY <1>1, <1>2, <1>4, <1>5, <1>14, <1>15, <1>16, <1>17, <1>18 DEF from

LEMMA ReadReadRangeServes ==
  ASSUME Inv, Serving, ReadReadRange
  PROVE  Serving' /\ NeverWedged'
<1>1. PICK reply \in Seq(Nat) :
        /\ SendFromPage(reply)
        /\ Len(reply) <= BufLen
        /\ request \in Command /\ request.kind = "ReadRange"
        /\ state'.kind = "ReadRange" /\ state'.length = request.length
        /\ PageOf(request.address) \in Pages
        /\ state'.address \in Nat /\ state'.remaining_length \in Nat
        /\ request.address <= state'.address
        /\ state'.address + state'.remaining_length
             = request.address + request.length
        /\ state'.address <= NumPages * PageSize
        /\ \/ state'.remaining_length < state'.length
           \/ state'.remaining_length = 0
        /\ wire \o reply
             = Response(RES_READ_RANGE)
                 \o Escape(FlashBytes(flash, request.address,
                                      state'.address - request.address))
  BY RangeStep
<1>2. /\ op' = NoOp /\ UNCHANGED <<flash, request, wire>>
      /\ Transmit(reply)
  BY <1>1 DEF SendFromPage
<1>3. CASE buffer' = "tx" /\ bytes' = reply
  <2>1. Progress'
    BY <1>1, <1>2 DEF Progress
  <2>2. Sent' = Response(RES_READ_RANGE) \o Escape(Covered')
    BY <1>1, <1>2, <1>3, Zenon DEF Sent, Covered
  <2>3. RangeServed'
    BY <1>1, <1>2, <1>3, <2>1, <2>2 DEF RangeServed
  <2>4. ReplyReady'
    BY <1>1, <1>2, <1>3 DEF ReplyReady
  <2>5. ReadServed' /\ ProgramServed' /\ CrcServed'
    BY <1>2 DEF ReadServed, ProgramServed, CrcServed
  <2>6. NeverWedged'
    BY <1>3 DEF NeverWedged, Wedged
  <2>. QED  BY <2>3, <2>4, <2>5, <2>6 DEF Serving
<1>4. CASE "refuse" \in Faults /\ buffer' = "lost"
  BY <1>2, <1>4, QuietServes DEF NeverWedged
<1>. QED  BY <1>2, <1>3, <1>4 DEF Transmit

\* CRC_INTERNAL_FLASH: what has been folded so far, and the bytes of this page.
LEMMA CrcFacts ==
  ASSUME Inv, Serving, op.kind = "read", state.kind = "Crc"
  PROVE  /\ request \in Command /\ request.kind = "CrcIntFlash" /\ wire = <<>>
         /\ PageOf(request.address) \in Pages
         /\ request.address \in Nat /\ request.length \in Nat
         /\ state.address \in Nat /\ state.remaining_length \in Nat
         /\ CrcLen \in 0 .. state.remaining_length
         /\ request.address <= state.address
         /\ state.address + state.remaining_length
              = request.address + request.length
         /\ state.address + CrcLen <= NumPages * PageSize
         /\ NewCrc = CrcFold(CrcInit,
                             FlashBytes(flash, request.address,
                               (state.address + CrcLen) - request.address))
<1>. DEFINE from  == request.address
            at    == state.address
            n     == CrcLen
            taken == FlashBytes(flash, from, at - from)
            chunk == PageBytes(flash[PageOf(at)], OffsetOf(at), n)
<1>1. /\ request.kind = "CrcIntFlash" /\ wire = <<>> /\ Progress
      /\ state.crc = CrcFold(CrcInit, taken)
  BY DEF Serving, CrcServed, Covered
<1>2. request \in Command
  BY <1>1, RequestIsCommand, NoCommandKind DEF Inv
<1>3. from \in Nat /\ request.length \in Nat
  BY <1>1, <1>2, ArgumentAssumption DEF Command
<1>4. at \in Nat /\ state.remaining_length \in Nat /\ flash \in Flash
  BY DEF Inv, TypeOK, StateOK
<1>5. /\ PageOf(from) \in Pages /\ from <= at
      /\ at + state.remaining_length = from + request.length
      /\ op.page = PageOf(at)
  BY <1>1 DEF Progress
<1>6. op.page \in Pages
  BY DEF Inv, TypeOK, OpOK
<1>7. /\ n \in Nat /\ n <= state.remaining_length /\ OffsetOf(at) + n <= PageSize
  <2>1. OffsetOf(at) \in Nat /\ OffsetOf(at) < PageSize
    BY <1>4, OffsetType, SizeAssumption DEF Offsets
  <2>. QED  BY <1>4, <2>1, SizeAssumption DEF CrcLen, CrcOffset, Lesser
<1>8. NewCrc = CrcFold(state.crc, chunk)
  BY <1>5 DEF NewCrc, ReadData, CrcOffset
<1>9. /\ flash \in Flash /\ from \in Nat /\ at \in Nat /\ from <= at
      /\ PageOf(at) \in Pages /\ n \in Nat /\ OffsetOf(at) + n <= PageSize
  BY <1>3, <1>4, <1>5, <1>6, <1>7
<1>. HIDE DEF from, at, n
<1>10. /\ at + n <= NumPages * PageSize
       /\ taken \in Seq(Byte) /\ chunk \in Seq(Byte)
       /\ FlashBytes(flash, from, (at + n) - from) = taken \o chunk
  BY <1>9, NextChunk
<1>. HIDE DEF taken, chunk
<1>11. CrcFold(CrcInit, taken \o chunk) = CrcFold(CrcFold(CrcInit, taken), chunk)
  BY <1>10, CrcFoldConcat
<1>12. NewCrc = CrcFold(CrcInit, FlashBytes(flash, from, (at + n) - from))
  BY <1>1, <1>8, <1>10, <1>11, Zenon
<1>13. n \in 0 .. state.remaining_length
  BY <1>4, <1>7
<1>. QED
  BY <1>1, <1>2, <1>3, <1>4, <1>5, <1>10, <1>12, <1>13 DEF from, at, n

LEMMA ReadCrcLastServes ==
  ASSUME Inv, Serving, ReadCrcLast
  PROVE  Serving' /\ NeverWedged'
<1>. DEFINE reply == Response(RES_CRCIF) \o CrcBytes(NewCrc)
<1>1. /\ SendFromPage(reply) /\ state'.kind = "Idle"
      /\ op.kind = "read" /\ state.kind = "Crc"
  BY DEF ReadCrcLast, Reading
<1>2. request \in Command /\ wire = <<>>
  BY <1>1, CrcFacts
<1>3. reply \in Seq(Nat) /\ Len(reply) = 6
  BY CrcReplyType
<1>. HIDE DEF reply
<1>4. reply # <<>>
  BY <1>3
<1>. QED  BY <1>1, <1>2, <1>3, <1>4, SendServes

\* An address from which something is still to be read, but not from flash.
LEMMA BeyondFlash ==
  ASSUME request.kind \in {"ReadRange", "CrcIntFlash"},
         request.address + request.length \in Nat,
         NEW a \in Nat, NEW n \in Nat \ {0},
         a + n = request.address + request.length, PageOf(a) \notin Pages
  PROVE  ~Addressable(request)
<1>1. ~(a < NumPages * PageSize)
  BY PageInFlash
<1>2. ~(request.address + request.length <= NumPages * PageSize)
  BY <1>1, SizeAssumption
<1>. QED  BY <1>2, AddressableCommands

LEMMA ReadCrcMoreServes ==
  ASSUME Inv, Serving, ReadCrcMore
  PROVE  Serving' /\ NeverWedged'
<1>. DEFINE next == state.address + CrcLen
            left == state.remaining_length - CrcLen
<1>1. /\ op.kind = "read" /\ state.kind = "Crc"
      /\ CrcLen < state.remaining_length
      /\ state' = [kind |-> "Crc", address |-> next,
                   remaining_length |-> left, crc |-> NewCrc]
      /\ ReadPage(PageOf(next))
      /\ UNCHANGED <<buffer, bytes, flash, request, wire>>
  BY DEF ReadCrcMore, Reading
<1>2. buffer = "cell"
  BY <1>1 DEF Inv, OneOutstanding
<1>3. /\ request \in Command /\ request.kind = "CrcIntFlash" /\ wire = <<>>
      /\ PageOf(request.address) \in Pages
      /\ request.address \in Nat /\ request.length \in Nat
      /\ state.address \in Nat /\ state.remaining_length \in Nat
      /\ CrcLen \in 0 .. state.remaining_length
      /\ request.address <= state.address
      /\ state.address + state.remaining_length = request.address + request.length
      /\ next <= NumPages * PageSize
      /\ NewCrc = CrcFold(CrcInit, FlashBytes(flash, request.address,
                                              next - request.address))
  BY <1>1, CrcFacts
<1>4. /\ next \in Nat /\ left \in Nat \ {0} /\ request.address <= next
      /\ next + left = request.address + request.length
  BY <1>1, <1>3
<1>. HIDE DEF next, left
<1>5. CASE op' = [kind |-> "read", page |-> PageOf(next)]
  <2>1. Progress'
    BY <1>1, <1>3, <1>4, <1>5 DEF Progress
  <2>2. state'.crc = CrcFold(CrcInit, Covered')
    BY <1>1, <1>3, <1>4, Zenon DEF Covered
  <2>3. CrcServed'
    BY <1>1, <1>3, <2>1, <2>2 DEF CrcServed
  <2>4. ReadServed' /\ ProgramServed' /\ RangeServed'
    BY <1>1, <1>5 DEF ReadServed, ProgramServed, RangeServed
  <2>5. ReplyReady' /\ NeverWedged'
    BY <1>1, <1>2, <1>5 DEF ReplyReady, NeverWedged, Wedged
  <2>. QED  BY <2>3, <2>4, <2>5 DEF Serving
<1>6. CASE Refusable(PageOf(next)) /\ op' = NoOp /\ page_buffer' = "lost"
  <2>1. "refuse" \in Faults \/ ~Addressable(request)
    <3>1. CASE PageOf(next) \notin Pages
      <4>1. request.address + request.length \in Nat
        BY <1>3
      <4>. QED  BY <1>3, <1>4, <3>1, <4>1, BeyondFlash
    <3>. QED  BY <1>6, <3>1 DEF Refusable
  <2>. QED  BY <1>1, <1>2, <1>6, <2>1, QuietServes DEF NeverWedged
<1>. QED  BY <1>1, <1>5, <1>6 DEF ReadPage

LEMMA TransmittedChunkServes ==
  ASSUME Inv, Serving, TransmittedChunk
  PROVE  Serving' /\ NeverWedged'
<1>. DEFINE at == state.address
<1>1. /\ buffer = "tx" /\ state.kind = "ReadRange" /\ state.remaining_length > 0
      /\ buffer' = "cell" /\ wire' = wire \o bytes
      /\ ReadPage(PageOf(at))
      /\ UNCHANGED <<state, flash, request>>
  BY DEF TransmittedChunk, MoreToRead
<1>2. op = NoOp
  BY <1>1 DEF Inv, OneOutstanding
<1>3. /\ request.kind = "ReadRange" /\ state.length = request.length
      /\ Progress
      /\ \/ state.remaining_length < state.length
         \/ state.remaining_length = 0
      /\ Sent = Response(RES_READ_RANGE) \o Escape(Covered)
  BY <1>1, <1>2 DEF Serving, RangeServed
<1>4. /\ at \in Nat /\ state.length \in Nat
      /\ state.remaining_length \in 0 .. state.length
  BY <1>1 DEF Inv, TypeOK, StateOK
<1>5. request \in Command /\ request.address \in Nat /\ request.length \in Nat
  <2>1. request \in Command
    BY <1>3, RequestIsCommand, NoCommandKind DEF Inv
  <2>. QED  BY <1>3, <2>1, ArgumentAssumption DEF Command
<1>6. /\ state.remaining_length # state.length
      /\ state.remaining_length \in Nat \ {0}
      /\ at + state.remaining_length = request.address + request.length
  BY <1>1, <1>3, <1>4 DEF Progress
<1>7. wire' = Response(RES_READ_RANGE) \o Escape(Covered)
  BY <1>1, <1>3 DEF Sent
<1>8. CASE op' = [kind |-> "read", page |-> PageOf(at)]
  <2>1. Progress'
    BY <1>1, <1>3, <1>8 DEF Progress
  <2>2. Sent' = Response(RES_READ_RANGE) \o Escape(Covered')
    <3>1. Covered' = Covered
      BY <1>1 DEF Covered
    <3>2. Sent' = wire'
      BY <1>1 DEF Sent
    <3>. QED  BY <1>7, <3>1, <3>2, Zenon
  <2>3. RangeServed'
    BY <1>1, <1>3, <1>6, <2>1, <2>2 DEF RangeServed
  <2>4. ReadServed' /\ ProgramServed' /\ CrcServed'
    BY <1>1, <1>8 DEF ReadServed, ProgramServed, CrcServed
  <2>5. ReplyReady' /\ NeverWedged'
    BY <1>1, <1>8 DEF ReplyReady, NeverWedged, Wedged
  <2>. QED  BY <2>3, <2>4, <2>5 DEF Serving
<1>9. CASE Refusable(PageOf(at)) /\ op' = NoOp /\ page_buffer' = "lost"
  <2>1. "refuse" \in Faults \/ ~Addressable(request)
    <3>1. CASE PageOf(at) \notin Pages
      <4>1. request.address + request.length \in Nat
        BY <1>5
      <4>. QED  BY <1>3, <1>4, <1>6, <3>1, <4>1, BeyondFlash
    <3>. QED  BY <1>9, <3>1 DEF Refusable
  <2>. QED  BY <1>1, <1>9, <2>1, QuietServes DEF NeverWedged
<1>. QED  BY <1>1, <1>8, <1>9 DEF ReadPage

LEMMA FlashDoneServes ==
  ASSUME Inv, Serving, FlashDone
  PROVE  Serving' /\ NeverWedged'
  BY ReadInfoServes, ReadGetAttributeServes, ReadSetAttributeServes,
     ReadSetStartAddressServes, ReadReadRangeServes, ReadCrcLastServes,
     ReadCrcMoreServes, ProgramCompleteServes
  DEF FlashDone

LEMMA NextSInv == SInv /\ [Next]_vars => SInv'
<1>. SUFFICES ASSUME SInv, [Next]_vars
              PROVE  Serving' /\ NeverWedged'
  BY NextPreservesInv DEF SInv
<1>1. Inv /\ Serving /\ NeverWedged
  BY DEF SInv
<1>2. CASE ReceivedCommand
  <2>1. PICK c \in Command : Handle(c) /\ request' = c /\ wire' = <<>>
    BY <1>2, BatchesAssumption DEF ReceivedCommand
  <2>2. buffer = "rx"
    BY <1>2 DEF ReceivedCommand
  <2>. QED  BY <1>1, <2>1, <2>2, HandleServing
<1>3. CASE ReceivedExit \/ PowerCycle
  <2>1. op' = NoOp /\ buffer' = "rx"
    BY <1>3 DEF ReceivedExit, PowerCycle, Restart
  <2>. QED  BY <2>1, QuietServes DEF NeverWedged, Wedged
<1>4. CASE ReceivedNothing \/ TransmittedReply
  <2>1. op' = NoOp /\ Listen
    BY <1>1, <1>4 DEF ReceivedNothing, TransmittedReply, Inv, OneOutstanding
  <2>. QED  BY <2>1, ListenServes
<1>5. CASE FlashDone
  BY <1>1, <1>5, FlashDoneServes
<1>6. CASE TransmittedChunk
  BY <1>1, <1>6, TransmittedChunkServes
<1>7. CASE TransmitFailed
  <2>1. op' = NoOp /\ buffer' = "lost" /\ "txerror" \in Faults
    BY <1>1, <1>7 DEF TransmitFailed, Inv, OneOutstanding
  <2>. QED  BY <2>1, QuietServes DEF NeverWedged
<1>8. CASE UNCHANGED vars
  <2>1. Serving'
    BY <1>1, <1>8
    DEF vars, Serving, ReadServed, ProgramServed, RangeServed, CrcServed,
        ReplyReady, Progress, Covered, Sent, OpContents
  <2>2. NeverWedged'
    BY <1>1, <1>8 DEF vars, NeverWedged, Wedged
  <2>. QED  BY <2>1, <2>2
<1>. QED
  BY <1>2, <1>3, <1>4, <1>5, <1>6, <1>7, <1>8 DEF Next, Received, Transmitted

LEMMA ServingInvariance == Spec => []SInv
  BY InitSInv, NextSInv, PTL DEF Spec

\* However long the bootloader runs, with or without resets in between, it stops
\* for want of a callback only if a driver refused a call or failed a
\* transmission, or if the command reaches outside flash.
THEOREM StopsOnlyOnFault == Spec => []NeverWedged
<1>1. SInv => NeverWedged  BY DEF SInv
<1>. QED  BY <1>1, ServingInvariance, PTL

-----------------------------------------------------------------------------
(* Nothing outgrows BUF.                                                   *)

LEMMA BufferRoom ==
  /\ BufLen \in Nat /\ AttributeSize \in Nat
  /\ AttributeSize <= BufLen
  /\ 6 <= BufLen
  /\ 3 + InfoLen <= BufLen
  BY BufferAssumption, SizeAssumption DEF AttributeSize

LEMMA ResponseFits ==
  ASSUME NEW code \in Nat
  PROVE  Len(Response(code)) <= BufLen
<1>1. Len(Response(code)) = 2
  BY ResponseType
<1>2. 2 <= BufLen
  BY BufferRoom
<1>. QED  BY <1>1, <1>2

LEMMA TransmitFits ==
  ASSUME NEW reply, Len(reply) <= BufLen, Transmit(reply)
  PROVE  FitsInBuffer'
<1>1. CASE bytes' = reply
  BY <1>1 DEF FitsInBuffer
<1>2. CASE bytes' = <<>>
  BY <1>2, BufferRoom DEF FitsInBuffer
<1>. QED  BY <1>1, <1>2 DEF Transmit

LEMMA NothingFits ==
  ASSUME bytes' = <<>>
  PROVE  FitsInBuffer'
  BY BufferRoom DEF FitsInBuffer

LEMMA HandleFits ==
  ASSUME NEW c \in Command, Handle(c)
  PROVE  FitsInBuffer'
<1>1. CASE HandlePing(c) \/ HandleUnsupported(c) \/ HandleBadArguments(c)
             \/ HandleMalformed(c) \/ RejectWritePage(c)
  <2>1. PICK code \in Nat : Transmit(Response(code))
    BY <1>1
    DEF HandlePing, HandleUnsupported, HandleBadArguments, HandleMalformed,
        RejectWritePage, AnswerAtOnce, RES_PONG, RES_UNKNOWN, RES_BADARGS,
        RES_INTERNAL_ERROR, RES_BADADDR
  <2>2. Len(Response(code)) <= BufLen
    BY ResponseFits
  <2>. QED  BY <2>1, <2>2, TransmitFits
<1>2. CASE HandleInfo(c) \/ HandleReadRange(c) \/ HandleCrcIntFlash(c)
             \/ HandleGetAttr(c) \/ HandleSetStartAddress(c)
  BY <1>2, NothingFits
  DEF HandleInfo, HandleReadRange, HandleCrcIntFlash, HandleGetAttr,
      HandleSetStartAddress, StartWithRead
<1>3. CASE HandleSetAttr(c)
  <2>1. bytes' = AttributeRecord(c.key, c.value)
    BY <1>3 DEF HandleSetAttr, StartWithRead
  <2>2. Len(AttributeRecord(c.key, c.value)) = AttributeSize
    BY BufferRoom DEF AttributeRecord
  <2>. QED  BY <2>1, <2>2, BufferRoom DEF FitsInBuffer
<1>4. CASE HandleWritePage(c) \/ HandleErasePage(c)
  BY <1>4, NothingFits DEF HandleWritePage, HandleErasePage
<1>. QED  BY <1>1, <1>2, <1>3, <1>4 DEF Handle

LEMMA FlashDoneFits ==
  ASSUME SInv, FitsInBuffer, FlashDone
  PROVE  FitsInBuffer'
<1>1. Inv /\ Serving
  BY DEF SInv
<1>2. CASE ReadInfo
  <2>1. PICK stale \in StaleBytes : Transmit(InfoReply(ReadData, stale))
    BY <1>2 DEF ReadInfo, SendFromPage
  <2>2. ReadData \in Page /\ stale \in Byte
    BY <1>1, <1>2, ReadDataType, ArgumentAssumption DEF Inv, ReadInfo, Reading
  <2>3. Len(InfoReply(ReadData, stale)) <= BufLen
    BY <2>2, InfoReplyType, BufferRoom
  <2>. QED  BY <2>1, <2>3, TransmitFits
<1>3. CASE ReadGetAttribute
  <2>. DEFINE reply == GetAttributeReply(ReadData, state.index)
  <2>1. ReadData \in Page /\ state.index \in Indexes /\ Transmit(reply)
    BY <1>1, <1>3, ReadDataType, GetAttributeIndex
    DEF Inv, ReadGetAttribute, Reading, SendFromPage
  <2>2. Len(reply) \in 2 .. BufLen
    BY <2>1, GetAttributeReplyType
  <2>. HIDE DEF reply
  <2>. QED  BY <2>1, <2>2, BufferRoom, TransmitFits
<1>4. CASE ReadSetAttribute \/ ReadSetStartAddress \/ ReadCrcMore
  BY <1>4 DEF ReadSetAttribute, ReadSetStartAddress, ReadCrcMore, FitsInBuffer
<1>5. CASE ReadReadRange
  <2>1. PICK reply \in Seq(Nat) : SendFromPage(reply) /\ Len(reply) <= BufLen
    BY <1>1, <1>5, RangeStep
  <2>. QED  BY <2>1, TransmitFits DEF SendFromPage
<1>6. CASE ReadCrcLast
  <2>. DEFINE reply == Response(RES_CRCIF) \o CrcBytes(NewCrc)
  <2>1. Transmit(reply)
    BY <1>6 DEF ReadCrcLast, SendFromPage
  <2>2. Len(reply) = 6
    BY CrcReplyType
  <2>. HIDE DEF reply
  <2>. QED  BY <2>1, <2>2, BufferRoom, TransmitFits
<1>7. CASE ProgramComplete
  <2>1. Len(Response(RES_OK)) <= BufLen /\ Transmit(Response(RES_OK))
    BY <1>7, ResponseFits DEF ProgramComplete, RES_OK
  <2>. QED  BY <2>1, TransmitFits
<1>. QED  BY <1>2, <1>3, <1>4, <1>5, <1>6, <1>7 DEF FlashDone

LEMMA NextFits == SInv /\ FitsInBuffer /\ [Next]_vars => FitsInBuffer'
<1>. SUFFICES ASSUME SInv, FitsInBuffer, [Next]_vars
              PROVE  FitsInBuffer'
  OBVIOUS
<1>1. CASE ReceivedCommand
  <2>1. PICK c \in Command : Handle(c)
    BY <1>1, BatchesAssumption DEF ReceivedCommand
  <2>. QED  BY <2>1, HandleFits
<1>2. CASE FlashDone
  BY <1>2, FlashDoneFits
<1>3. CASE ReceivedExit \/ PowerCycle \/ ReceivedNothing \/ TransmittedChunk
             \/ TransmittedReply \/ TransmitFailed
  BY <1>3, NothingFits
  DEF ReceivedExit, PowerCycle, Restart, ReceivedNothing, TransmittedChunk,
      TransmittedReply, TransmitFailed, Listen
<1>4. CASE UNCHANGED vars
  BY <1>4 DEF vars, FitsInBuffer
<1>. QED  BY <1>1, <1>2, <1>3, <1>4 DEF Next, Received, Transmitted

\* Whatever a command asks for, no reply, chunk or record is longer than BUF: the
\* copy loop of READ_RANGE stops in time whichever bytes have to be escaped, and
\* an attribute fits even if every byte of it has to be.
THEOREM NothingOutgrowsBuffer == Spec => []FitsInBuffer
<1>1. Init => FitsInBuffer
  BY BufferRoom DEF Init, FitsInBuffer
<1>. QED  BY <1>1, NextFits, ServingInvariance, PTL DEF Spec

-----------------------------------------------------------------------------
(* Every step of the bootloader is a step of the service, or none.         *)

\* The reply as the service has it.
Reply == IF ReplyComplete THEN wire \o bytes ELSE <<>>

\* A call was refused or failed and no callback will come.
LEMMA WedgeStep ==
  ASSUME ~Wedged, op' = NoOp, buffer' \notin {"rx", "tx"},
         request' \in Command \cup {NoCommand},
         \/ flash' = flash
         \/ request # NoCommand /\ flash' \in Outcomes(flash, request)
  PROVE  Service!Next
<1>1. Wedged' /\ ~ReplyComplete'
  BY DEF Wedged, ReplyComplete
<1>2. flash' \in {flash} \cup (IF request = NoCommand THEN {}
                               ELSE Outcomes(flash, request))
  OBVIOUS
<1>3. Service!Wedge
  BY <1>1, <1>2 DEF Service!Wedge
<1>. QED  BY <1>3 DEF Service!Next

LEMMA AcceptStep ==
  ASSUME ~Wedged, ~ReplyComplete, request = NoCommand, request' \in Command,
         ~Wedged', ~ReplyComplete', flash' = flash
  PROVE  Service!Next
<1>1. Service!Accept
  BY DEF Service!Accept
<1>. QED  BY <1>1 DEF Service!Next

LEMMA DeclineStep ==
  ASSUME ~Wedged, request = NoCommand, request' \in Command,
         AnsweredAtOnce(request'), ~Wedged', flash' = flash,
         Reply' \in Replies(flash, request')
  PROVE  Service!Next
<1>1. Service!Decline
  BY DEF Service!Decline, Reply
<1>. QED  BY <1>1 DEF Service!Next

LEMMA AnswerStep ==
  ASSUME ~Wedged, ~ReplyComplete, request # NoCommand, Addressable(request),
         request' = request, ~Wedged', flash' \in Outcomes(flash, request),
         Reply' \in Replies(flash, request)
  PROVE  Service!Next
<1>1. Service!Answer
  BY DEF Service!Answer, Reply
<1>. QED  BY <1>1 DEF Service!Next

LEMMA DeliverStep ==
  ASSUME ~Wedged, Reply # <<>>, request' = NoCommand, flash' = flash,
         ~Wedged', ~ReplyComplete'
  PROVE  Service!Next
<1>1. Service!Deliver
  BY DEF Service!Deliver, Reply
<1>. QED  BY <1>1 DEF Service!Next

LEMMA ResetStep ==
  ASSUME request' = NoCommand, ~Wedged', ~ReplyComplete',
         \/ flash' = flash
         \/ /\ ~Wedged /\ ~ReplyComplete /\ Changes(request)
            /\ Addressable(request) /\ flash' \in Interrupted(flash, request)
  PROVE  Service!Next
<1>1. flash' \in {flash} \cup
        (IF ~Wedged /\ (IF ReplyComplete THEN wire \o bytes ELSE <<>>) = <<>>
              /\ Changes(request) /\ Addressable(request)
         THEN Interrupted(flash, request) ELSE {})
  OBVIOUS
<1>2. Service!Reset
  BY <1>1 DEF Service!Reset
<1>. QED  BY <1>2 DEF Service!Next

\* Nothing that the host could see.
LEMMA StutterStep ==
  ASSUME UNCHANGED <<flash, request>>, ~Wedged, ~Wedged',
         ~ReplyComplete, ~ReplyComplete'
  PROVE  UNCHANGED Service!vars
  BY DEF Service!vars

-----------------------------------------------------------------------------
(* The steps of received_buffer.                                           *)

\* While BUF is with the UART to receive a command, the service is idle.
LEMMA ListeningFacts ==
  ASSUME Inv, buffer = "rx"
  PROVE  /\ ~Wedged /\ ~ReplyComplete /\ request = NoCommand /\ op = NoOp
         /\ state.kind = "Idle"
  BY DEF Inv, OneOutstanding, Wedged, ReplyComplete

LEMMA AtOnceStep ==
  ASSUME Inv, buffer = "rx", NEW c \in Command, request' = c, wire' = <<>>,
         NEW code \in Nat, Transmit(Response(code)), flash' = flash,
         op' = NoOp, state'.kind = "Idle",
         AnsweredAtOnce(c), Replies(flash, c) = {Response(code)}
  PROVE  Service!Next
<1>1. ~Wedged /\ request = NoCommand
  BY ListeningFacts
<1>2. CASE buffer' = "tx" /\ bytes' = Response(code)
  <2>1. wire' \o bytes' = Response(code)
    BY <1>2, ResponseType, ConcatEmptySeq
  <2>2. ~Wedged' /\ ReplyComplete'
    BY <1>2 DEF Wedged, ReplyComplete, MoreToRead
  <2>3. Reply' \in Replies(flash, c)
    BY <2>1, <2>2 DEF Reply
  <2>. QED  BY <1>1, <2>2, <2>3, DeclineStep
<1>3. CASE buffer' = "lost"
  BY <1>1, <1>3, WedgeStep
<1>. QED  BY <1>2, <1>3 DEF Transmit

\* A command for which flash is called, or which flash refuses.
LEMMA AcceptedStep ==
  ASSUME Inv, buffer = "rx", request' \in Command, flash' = flash,
         buffer' = "cell"
  PROVE  Service!Next
<1>1. ~Wedged /\ ~ReplyComplete /\ request = NoCommand
  BY ListeningFacts
<1>2. ~ReplyComplete'
  BY DEF ReplyComplete
<1>3. CASE op' = NoOp
  BY <1>1, <1>3, WedgeStep
<1>4. CASE op' # NoOp
  <2>1. ~Wedged'
    BY <1>4 DEF Wedged
  <2>. QED  BY <1>1, <1>2, <2>1, AcceptStep
<1>. QED  BY <1>3, <1>4

LEMMA HandleStep ==
  ASSUME Inv, buffer = "rx", NEW c \in Command, Handle(c), request' = c,
         wire' = <<>>
  PROVE  Service!Next
<1>1. CASE \/ HandlePing(c) \/ HandleUnsupported(c)
           \/ HandleBadArguments(c) \/ HandleMalformed(c)
  <2>1. PICK code \in Nat :
          /\ AnswerAtOnce(code) /\ AnsweredAtOnce(c)
          /\ Replies(flash, c) = {Response(code)}
    BY <1>1
    DEF HandlePing, HandleUnsupported, HandleBadArguments, HandleMalformed,
        RES_PONG, RES_UNKNOWN, RES_BADARGS, RES_INTERNAL_ERROR,
        AnsweredAtOnce, Replies
  <2>2. /\ Transmit(Response(code)) /\ flash' = flash
        /\ op' = NoOp /\ state'.kind = "Idle"
    BY <2>1, ListeningFacts DEF AnswerAtOnce
  <2>. QED  BY <2>1, <2>2, AtOnceStep
<1>2. CASE RejectWritePage(c)
  <2>1. /\ c.kind = "WritePage" /\ ~WritePageAccepted(c)
        /\ Transmit(Response(WriteVerdict(c))) /\ flash' = flash
        /\ op' = NoOp /\ state'.kind = "Idle"
    BY <1>2, ListeningFacts DEF RejectWritePage, WritePageAccepted, WriteVerdict
  <2>2. WriteVerdict(c) \in Nat /\ WriteVerdict(c) # RES_OK
    BY <2>1 DEF WriteVerdict, WritePageAccepted, RES_OK, RES_BADARGS, RES_BADADDR
  <2>3. AnsweredAtOnce(c) /\ Replies(flash, c) = {Response(WriteVerdict(c))}
    BY <2>1, <2>2 DEF AnsweredAtOnce, Replies
  <2>. QED  BY <2>1, <2>2, <2>3, AtOnceStep
<1>3. CASE \/ HandleInfo(c) \/ HandleReadRange(c) \/ HandleCrcIntFlash(c)
           \/ HandleGetAttr(c) \/ HandleSetAttr(c) \/ HandleSetStartAddress(c)
           \/ HandleWritePage(c) \/ HandleErasePage(c)
  <2>1. flash' = flash /\ buffer' = "cell"
    BY <1>3
    DEF HandleInfo, HandleReadRange, HandleCrcIntFlash, HandleGetAttr,
        HandleSetAttr, HandleSetStartAddress, StartWithRead, HandleWritePage,
        HandleErasePage
  <2>. QED  BY <2>1, AcceptedStep
<1>. QED  BY <1>1, <1>2, <1>3 DEF Handle

-----------------------------------------------------------------------------
(* The steps of flash.                                                     *)

\* While flash works, the service is up and its reply is not known.
LEMMA WorkingFacts ==
  ASSUME Inv, op # NoOp
  PROVE  ~Wedged /\ ~ReplyComplete /\ buffer = "cell"
  BY DEF Inv, OneOutstanding, Wedged, ReplyComplete

\* A callback of flash that has the whole reply.
LEMMA SendStep ==
  ASSUME Inv, op # NoOp, op' = NoOp, NEW reply \in Seq(Nat), Transmit(reply),
         state'.kind = "Idle" \/ state'.remaining_length = 0,
         wire' = wire, request' = request, request \in Command,
         request # NoCommand, Addressable(request),
         flash' \in Outcomes(flash, request),
         wire \o reply \in Replies(flash, request)
  PROVE  Service!Next
<1>1. ~Wedged /\ ~ReplyComplete
  BY WorkingFacts
<1>2. CASE buffer' = "tx" /\ bytes' = reply
  <2>1. ~Wedged' /\ ReplyComplete'
    BY <1>2 DEF Wedged, ReplyComplete, MoreToRead
  <2>2. Reply' = wire \o reply
    BY <1>2, <2>1 DEF Reply
  <2>. QED  BY <1>1, <2>1, <2>2, AnswerStep
<1>3. CASE buffer' = "lost"
  BY <1>1, <1>3, WedgeStep
<1>. QED  BY <1>2, <1>3 DEF Transmit

\* One that starts the next operation.
LEMMA ContinueStep ==
  ASSUME Inv, op # NoOp, UNCHANGED <<buffer, flash, request>>
  PROVE  Service!Next \/ UNCHANGED Service!vars
<1>1. ~Wedged /\ ~ReplyComplete /\ buffer' = "cell"
  BY WorkingFacts
<1>2. ~ReplyComplete'
  BY <1>1 DEF ReplyComplete
<1>3. CASE op' = NoOp
  <2>1. request' \in Command \cup {NoCommand}
    BY DEF Inv, TypeOK
  <2>. QED  BY <1>1, <1>3, <2>1, WedgeStep
<1>4. CASE op' # NoOp
  <2>1. ~Wedged'
    BY <1>4 DEF Wedged
  <2>. QED  BY <1>1, <1>2, <2>1, StutterStep
<1>. QED  BY <1>3, <1>4

\* A command that only reads leaves flash as it is.
LEMMA OutcomeOfRead ==
  ASSUME request.kind \in {"Info", "GetAttr", "ReadRange", "CrcIntFlash"}
  PROVE  /\ flash \in Outcomes(flash, request)
         /\ request # NoCommand
  BY DEF Outcomes, Changes, NoCommand

LEMMA ReadInfoStep ==
  ASSUME Inv, Serving, ReadInfo
  PROVE  Service!Next
<1>1. PICK stale \in StaleBytes : SendFromPage(InfoReply(ReadData, stale))
  BY DEF ReadInfo
<1>2. state'.kind = "Idle" /\ op.kind = "read" /\ state.kind = "Info"
  BY DEF ReadInfo, Reading
<1>3. request.kind = "Info" /\ wire = <<>> /\ op.page = FlagsPage
  BY <1>2 DEF Serving, ReadServed
<1>4. ReadData \in Page /\ stale \in Byte
  BY <1>2, ReadDataType, ArgumentAssumption DEF Inv
<1>5. InfoReply(ReadData, stale) \in Seq(Nat)
  BY <1>4, InfoReplyType
<1>6. /\ request \in Command /\ request # NoCommand /\ Addressable(request)
      /\ flash \in Outcomes(flash, request)
  BY <1>3, RequestIsCommand, OutcomeOfRead, AddressableCommands DEF Inv
<1>7. wire \o InfoReply(ReadData, stale) \in Replies(flash, request)
  <2>1. wire \o InfoReply(ReadData, stale) = InfoReply(flash[FlagsPage], stale)
    BY <1>3, <1>5, ConcatEmptySeq DEF ReadData
  <2>2. Replies(flash, request)
          = {InfoReply(flash[FlagsPage], s) : s \in StaleBytes}
    BY <1>3 DEF Replies
  <2>. QED  BY <2>1, <2>2
<1>8. /\ op # NoOp /\ op' = NoOp /\ Transmit(InfoReply(ReadData, stale))
      /\ UNCHANGED <<flash, request, wire>>
  BY <1>1, <1>2 DEF SendFromPage
<1>. QED  BY <1>2, <1>5, <1>6, <1>7, <1>8, SendStep

LEMMA ReadGetAttributeStep ==
  ASSUME Inv, Serving, ReadGetAttribute
  PROVE  Service!Next
<1>. DEFINE reply == GetAttributeReply(ReadData, state.index)
<1>1. /\ SendFromPage(reply) /\ state'.kind = "Idle"
      /\ op.kind = "read" /\ state.kind = "GetAttribute"
  BY DEF ReadGetAttribute, Reading
<1>2. /\ request \in Command /\ state.index \in Indexes /\ wire = <<>>
      /\ state.index = request.index
  BY <1>1, GetAttributeIndex
<1>3. request.kind = "GetAttr" /\ op.page = AttributePage(request.index)
  BY <1>1 DEF Serving, ReadServed
<1>4. op.page \in Pages /\ ReadData \in Page
  BY <1>1, ReadDataType DEF Inv, TypeOK, OpOK
<1>5. reply \in Seq(Nat)
  BY <1>2, <1>4, GetAttributeReplyType
<1>6. /\ request # NoCommand /\ Addressable(request)
      /\ flash \in Outcomes(flash, request)
  BY <1>3, <1>4, OutcomeOfRead, AddressableCommands
<1>7. wire \o reply \in Replies(flash, request)
  <2>1. reply = GetAttributeReply(flash[AttributePage(request.index)],
                                  request.index)
    BY <1>2, <1>3 DEF ReadData
  <2>2. Replies(flash, request)
          = {GetAttributeReply(flash[AttributePage(request.index)],
                               request.index)}
    BY <1>3 DEF Replies
  <2>. HIDE DEF reply
  <2>3. wire \o reply = reply
    BY <1>2, <1>5, ConcatEmptySeq
  <2>. QED  BY <2>1, <2>2, <2>3
<1>8. /\ op # NoOp /\ op' = NoOp /\ Transmit(reply)
      /\ UNCHANGED <<flash, request, wire>>
  BY <1>1 DEF SendFromPage
<1>. HIDE DEF reply
<1>. QED  BY <1>1, <1>2, <1>5, <1>6, <1>7, <1>8, SendStep

LEMMA ReadCrcLastStep ==
  ASSUME Inv, Serving, ReadCrcLast
  PROVE  Service!Next
<1>. DEFINE reply == Response(RES_CRCIF) \o CrcBytes(NewCrc)
            range == FlashBytes(flash, request.address, request.length)
<1>1. /\ SendFromPage(reply) /\ state'.kind = "Idle"
      /\ op.kind = "read" /\ state.kind = "Crc"
      /\ CrcLen = state.remaining_length
  BY DEF ReadCrcLast, Reading
<1>2. /\ request \in Command /\ request.kind = "CrcIntFlash" /\ wire = <<>>
      /\ PageOf(request.address) \in Pages
      /\ request.address \in Nat /\ request.length \in Nat
      /\ state.address \in Nat /\ state.remaining_length \in Nat
      /\ state.address + state.remaining_length
           = request.address + request.length
      /\ state.address + CrcLen <= NumPages * PageSize
      /\ NewCrc = CrcFold(CrcInit,
                          FlashBytes(flash, request.address,
                            (state.address + CrcLen) - request.address))
  BY <1>1, CrcFacts
<1>3. /\ (state.address + CrcLen) - request.address = request.length
      /\ request.address + request.length <= NumPages * PageSize
  BY <1>1, <1>2
<1>4. NewCrc = CrcFold(CrcInit, range)
  BY <1>2, <1>3, Zenon
<1>5. reply \in Seq(Nat)
  BY CrcReplyType
<1>6. /\ request # NoCommand /\ Addressable(request)
      /\ flash \in Outcomes(flash, request)
  BY <1>2, <1>3, OutcomeOfRead, AddressableCommands
<1>7. wire \o reply \in Replies(flash, request)
  <2>1. Replies(flash, request)
          = {Response(RES_CRCIF) \o CrcBytes(CrcFold(CrcInit, range))}
    BY <1>2 DEF Replies
  <2>2. reply \in Replies(flash, request)
    BY <1>4, <2>1, Zenon
  <2>. HIDE DEF reply
  <2>3. wire \o reply = reply
    BY <1>2, <1>5, ConcatEmptySeq
  <2>. QED  BY <2>2, <2>3
<1>8. /\ op # NoOp /\ op' = NoOp /\ Transmit(reply)
      /\ UNCHANGED <<flash, request, wire>>
  BY <1>1 DEF SendFromPage
<1>. HIDE DEF reply
<1>. QED  BY <1>1, <1>2, <1>5, <1>6, <1>7, <1>8, SendStep

\* The last chunk completes the reply; another one is for the service no step.
LEMMA ReadReadRangeStep ==
  ASSUME Inv, Serving, ReadReadRange
  PROVE  Service!Next \/ UNCHANGED Service!vars
<1>. DEFINE from == request.address
            taken == FlashBytes(flash, from, state'.address - from)
<1>1. PICK reply \in Seq(Nat) :
        /\ SendFromPage(reply)
        /\ request \in Command /\ request.kind = "ReadRange"
        /\ state'.kind = "ReadRange"
        /\ PageOf(from) \in Pages
        /\ state'.address \in Nat /\ state'.remaining_length \in Nat
        /\ from <= state'.address
        /\ state'.address + state'.remaining_length = from + request.length
        /\ state'.address <= NumPages * PageSize
        /\ wire \o reply = Response(RES_READ_RANGE) \o Escape(taken)
  BY RangeStep
<1>2. /\ op' = NoOp /\ UNCHANGED <<flash, request, wire>> /\ Transmit(reply)
  BY <1>1 DEF SendFromPage
<1>3. op # NoOp
  BY DEF ReadReadRange, Reading
<1>4. from \in Nat /\ request.length \in Nat
  BY <1>1, ArgumentAssumption DEF Command
<1>5. CASE state'.remaining_length = 0
  <2>1. /\ state'.address - from = request.length
        /\ from + request.length <= NumPages * PageSize
    BY <1>1, <1>4, <1>5
  <2>2. /\ request # NoCommand /\ Addressable(request)
        /\ flash \in Outcomes(flash, request)
    BY <1>1, <2>1, OutcomeOfRead, AddressableCommands
  <2>3. wire \o reply \in Replies(flash, request)
    <3>1. Replies(flash, request)
            = {Response(RES_READ_RANGE)
                 \o Escape(FlashBytes(flash, from, request.length))}
      BY <1>1 DEF Replies
    <3>2. taken = FlashBytes(flash, from, request.length)
      BY <2>1
    <3>. HIDE DEF taken
    <3>. QED  BY <1>1, <3>1, <3>2, Zenon
  <2>. QED  BY <1>1, <1>2, <1>3, <1>5, <2>2, <2>3, SendStep
<1>6. CASE state'.remaining_length # 0
  <2>1. ~Wedged /\ ~ReplyComplete
    BY <1>3, WorkingFacts
  <2>2. ~ReplyComplete'
    BY <1>1, <1>6 DEF ReplyComplete, MoreToRead
  <2>3. CASE buffer' = "tx"
    <3>1. ~Wedged'
      BY <2>3 DEF Wedged
    <3>. QED  BY <1>2, <2>1, <2>2, <3>1, StutterStep
  <2>4. CASE buffer' = "lost"
    BY <1>1, <1>2, <2>1, <2>4, WedgeStep
  <2>. QED  BY <1>2, <2>3, <2>4 DEF Transmit
<1>. QED  BY <1>5, <1>6

\* What programming a page brings about is what the command promises, whether
\* it completes, fails or is cut short.
LEMMA ProgramFacts ==
  ASSUME Inv, Serving, op.kind \in {"write", "erase"}
  PROVE  /\ Changes(request) /\ Addressable(request)
         /\ request # NoCommand /\ request \in Command /\ wire = <<>>
         /\ Programmed(op.page, OpContents) = Done(flash, request)
         /\ Torn(op.page, OpContents) = Interrupted(flash, request)
<1>1. /\ Changes(request) /\ op.page = TargetPage(request)
      /\ OpContents = NewPage(request, flash[op.page]) /\ wire = <<>>
  BY DEF Serving, ProgramServed
<1>2. op.page \in Pages
  BY DEF Inv, TypeOK, OpOK
<1>3. request # NoCommand
  BY <1>1, NoCommandKind DEF Changes
<1>4. Addressable(request) /\ request \in Command
  BY <1>1, <1>2, <1>3, AddressableCommands, RequestIsCommand DEF Inv
<1>5. Programmed(op.page, OpContents) = Done(flash, request)
  BY <1>1 DEF Programmed, Done
<1>6. Torn(op.page, OpContents) = Interrupted(flash, request)
  BY <1>1 DEF Programmed, Torn, Interrupted
<1>. QED  BY <1>1, <1>3, <1>4, <1>5, <1>6

LEMMA ProgramCompleteStep ==
  ASSUME Inv, Serving, ProgramComplete
  PROVE  Service!Next
<1>1. /\ op.kind \in {"write", "erase"} /\ op' = NoOp /\ state'.kind = "Idle"
      /\ Transmit(Response(RES_OK)) /\ UNCHANGED <<request, wire>>
      /\ flash' \in {Programmed(op.page, OpContents)}
           \cup (IF "fail" \in Faults THEN Torn(op.page, OpContents) ELSE {})
  BY DEF ProgramComplete
<1>2. /\ Changes(request) /\ Addressable(request)
      /\ request # NoCommand /\ request \in Command /\ wire = <<>>
      /\ Programmed(op.page, OpContents) = Done(flash, request)
      /\ Torn(op.page, OpContents) = Interrupted(flash, request)
  BY <1>1, ProgramFacts
<1>3. flash' \in Outcomes(flash, request)
  BY <1>1, <1>2 DEF Outcomes
<1>4. Response(RES_OK) \in Seq(Nat)
  BY ResponseType DEF RES_OK
<1>5. wire \o Response(RES_OK) \in Replies(flash, request)
  <2>1. wire \o Response(RES_OK) = Response(RES_OK)
    BY <1>2, <1>4, ConcatEmptySeq
  <2>2. Replies(flash, request) = {Response(RES_OK)}
    <3>1. CASE request.kind \in {"ErasePage", "SetAttr", "SetStartAddress"}
      BY <3>1 DEF Replies
    <3>2. CASE request.kind = "WritePage" /\ WriteVerdict(request) = RES_OK
      BY <3>2 DEF Replies
    <3>. QED  BY <1>2, <3>1, <3>2 DEF Changes
  <2>. QED  BY <2>1, <2>2
<1>6. op # NoOp
  BY <1>1
<1>. QED  BY <1>1, <1>2, <1>3, <1>4, <1>5, <1>6, SendStep

LEMMA FlashDoneStep ==
  ASSUME Inv, Serving, FlashDone
  PROVE  Service!Next \/ UNCHANGED Service!vars
<1>1. CASE ReadSetAttribute \/ ReadSetStartAddress \/ ReadCrcMore
  BY <1>1, ContinueStep
  DEF ReadSetAttribute, ReadSetStartAddress, ReadCrcMore, Reading
<1>. QED
  BY <1>1, ReadInfoStep, ReadGetAttributeStep, ReadReadRangeStep,
     ReadCrcLastStep, ProgramCompleteStep
  DEF FlashDone

-----------------------------------------------------------------------------
(* The steps of transmitted_buffer, and the rest.                          *)

LEMMA TransmittedStep ==
  ASSUME Inv, Serving, Inv', Transmitted \/ TransmitFailed
  PROVE  Service!Next \/ UNCHANGED Service!vars
<1>1. buffer = "tx" /\ ~Wedged /\ flash' = flash /\ op = NoOp
      /\ request' \in Command \cup {NoCommand}
  BY DEF Transmitted, TransmittedChunk, TransmittedReply, TransmitFailed,
         Wedged, Inv, OneOutstanding, TypeOK
<1>2. CASE TransmittedChunk
  <2>1. MoreToRead /\ buffer' = "cell" /\ request' = request
    BY <1>2 DEF TransmittedChunk
  <2>2. ~ReplyComplete /\ ~ReplyComplete'
    BY <2>1 DEF ReplyComplete
  <2>3. CASE op' = NoOp
    BY <1>1, <2>1, <2>3, WedgeStep
  <2>4. CASE op' # NoOp
    <3>1. ~Wedged'
      BY <2>4 DEF Wedged
    <3>. QED  BY <1>1, <2>1, <2>2, <3>1, StutterStep
  <2>. QED  BY <2>3, <2>4
<1>3. CASE TransmittedReply
  <2>1. ~MoreToRead /\ Listen /\ request' = NoCommand /\ op' = NoOp
    BY <1>1, <1>3 DEF TransmittedReply
  <2>2. Reply # <<>>
    <3>1. Reply = wire \o bytes
      BY <1>1, <2>1 DEF Reply, ReplyComplete
    <3>2. CASE state.kind = "Idle"
      <4>1. wire = <<>> /\ bytes # <<>> /\ bytes \in Seq(Nat)
        BY <1>1, <3>2 DEF Serving, ReplyReady
      <4>. QED  BY <3>1, <4>1, ConcatEmptySeq
    <3>3. CASE state.kind = "ReadRange"
      <4>. DEFINE e == Escape(Covered)
                  h == Response(RES_READ_RANGE)
      <4>1. wire \o bytes = h \o e
        BY <1>1, <3>3 DEF Serving, RangeServed, Sent
      <4>2. /\ request.kind = "ReadRange" /\ Progress
        BY <1>1, <3>3 DEF Serving, RangeServed
      <4>3. request.address \in Nat /\ state.address \in Nat
        <5>1. request \in Command
          BY <4>2, RequestIsCommand, NoCommandKind DEF Inv
        <5>. QED
          BY <3>3, <4>2, <5>1, ArgumentAssumption
          DEF Command, Inv, TypeOK, StateOK
      <4>4. Covered \in Seq(Byte)
        <5>. DEFINE n == state.address - request.address
        <5>1. n \in Nat /\ request.address + n <= NumPages * PageSize
          BY <4>2, <4>3 DEF Progress
        <5>2. flash \in Flash
          BY DEF Inv, TypeOK
        <5>. HIDE DEF n
        <5>3. FlashBytes(flash, request.address, n) \in Seq(Byte)
          BY <4>3, <5>1, <5>2, FlashBytesType
        <5>. QED  BY <5>3 DEF Covered, n
      <4>5. e \in Seq(Nat) /\ h \in Seq(Nat) /\ Len(h) = 2
        BY <4>4, EscapeType, BytesAreNumbers, ResponseType DEF RES_READ_RANGE
      <4>. HIDE DEF e, h
      <4>6. Len(h \o e) = Len(h) + Len(e)
        BY <4>5, ConcatNumbers, Zenon
      <4>7. Len(e) \in Nat
        BY <4>5
      <4>8. h \o e # <<>>
        BY <4>5, <4>6, <4>7
      <4>. QED  BY <3>1, <4>1, <4>8
    <3>. QED  BY <1>1, <3>2, <3>3 DEF Inv, OneOutstanding
  <2>3. CASE buffer' = "rx"
    <3>1. ~Wedged' /\ ~ReplyComplete'
      BY <2>3 DEF Wedged, ReplyComplete
    <3>. QED  BY <1>1, <2>1, <2>2, <3>1, DeliverStep
  <2>4. CASE buffer' = "lost"
    BY <1>1, <2>1, <2>4, WedgeStep
  <2>. QED  BY <2>1, <2>3, <2>4 DEF Listen
<1>4. CASE TransmitFailed
  <2>1. op' = NoOp /\ buffer' = "lost"
    BY <1>1, <1>4 DEF TransmitFailed
  <2>. QED  BY <1>1, <2>1, WedgeStep
<1>. QED  BY <1>2, <1>3, <1>4 DEF Transmitted

LEMMA RestartStep ==
  ASSUME Inv, Serving, Restart,
         \/ flash' = flash
         \/ op.kind \in {"write", "erase"} /\ flash' \in Torn(op.page, OpContents)
  PROVE  Service!Next
<1>1. request' = NoCommand /\ ~Wedged' /\ ~ReplyComplete'
  BY DEF Restart, Wedged, ReplyComplete
<1>2. CASE flash' = flash
  BY <1>1, <1>2, ResetStep
<1>3. CASE /\ op.kind \in {"write", "erase"}
           /\ flash' \in Torn(op.page, OpContents)
  <2>1. ~Wedged /\ ~ReplyComplete
    BY <1>3, WorkingFacts
  <2>2. /\ Changes(request) /\ Addressable(request)
        /\ flash' \in Interrupted(flash, request)
    BY <1>3, ProgramFacts
  <2>. QED  BY <1>1, <2>1, <2>2, ResetStep
<1>. QED  BY <1>2, <1>3

LEMMA EveryStep ==
  SInv /\ [Next]_vars => [Service!Next]_(Service!vars)
<1>. SUFFICES ASSUME SInv, [Next]_vars
              PROVE  Service!Next \/ UNCHANGED Service!vars
  OBVIOUS
<1>1. Inv /\ Serving /\ Inv'
  BY NextPreservesInv DEF SInv
<1>2. CASE ReceivedCommand
  <2>1. PICK c \in Command : Handle(c) /\ request' = c /\ wire' = <<>>
    BY <1>2, BatchesAssumption DEF ReceivedCommand
  <2>. QED  BY <1>1, <1>2, <2>1, HandleStep DEF ReceivedCommand
<1>3. CASE ReceivedExit
  BY <1>1, <1>3, RestartStep DEF ReceivedExit
<1>4. CASE ReceivedNothing
  <2>1. ~Wedged /\ ~ReplyComplete /\ request = NoCommand /\ op = NoOp
    BY <1>1, <1>4, ListeningFacts DEF ReceivedNothing
  <2>2. UNCHANGED <<flash, request, op>> /\ Listen
    BY <1>4 DEF ReceivedNothing
  <2>3. CASE buffer' = "rx"
    <3>1. ~Wedged' /\ ~ReplyComplete'
      BY <2>3 DEF Wedged, ReplyComplete
    <3>. QED  BY <2>1, <2>2, <3>1, StutterStep
  <2>4. CASE buffer' = "lost"
    BY <2>1, <2>2, <2>4, WedgeStep
  <2>. QED  BY <2>2, <2>3, <2>4 DEF Listen
<1>5. CASE FlashDone
  BY <1>1, <1>5, FlashDoneStep
<1>6. CASE Transmitted \/ TransmitFailed
  BY <1>1, <1>6, TransmittedStep
<1>7. CASE PowerCycle
  BY <1>1, <1>7, RestartStep DEF PowerCycle
<1>8. CASE UNCHANGED vars
  BY <1>8 DEF vars, Service!vars, Wedged, ReplyComplete, MoreToRead
<1>. QED
  BY <1>2, <1>3, <1>4, <1>5, <1>6, <1>7, <1>8 DEF Next, Received

\* Seen from the host, the bootloader is the abstract service: every reply is,
\* byte for byte, what the command promises of flash as it then was, however the
\* pages, the escapes and BUF cut it up, and every change of flash is what the
\* command says, or what cutting it short leaves.
THEOREM ImplementsService == Spec => ServiceSpec
<1>1. Init => Service!Init
  BY DEF Init, Service!Init, ReplyComplete, Wedged
<1>. QED
  BY <1>1, EveryStep, ServingInvariance, PTL DEF Spec, ServiceSpec, Service!Spec

=============================================================================
