----------------------- MODULE FlashLargeToSmallProofs -----------------------
(***************************************************************************)
(* Theorems about FlashLargeToSmall: its types and the custody of its      *)
(* buffers for large pages of any size, and that it is a flash of small    *)
(* pages when its large pages have the size it falls back to.              *)
(***************************************************************************)
EXTENDS FlashLargeToSmall, TLAPS

\* Division by the size of a large page, whatever it is.
LEMMA Division ==
  ASSUME NEW n \in Nat, NEW d \in Nat \ {0}
  PROVE  /\ n \div d \in Nat
         /\ n % d \in 0 .. d - 1
         /\ n = d * (n \div d) + (n % d)
BY SMTT(20)

\* Multiplication is monotone.
LEMMA Multiplication ==
  ASSUME NEW m \in Nat, NEW k \in Nat, NEW d \in Nat, m <= k
  PROVE  d * m <= d * k
<1>1. PICK e \in Nat : k = m + e
  <2>1. k - m \in Nat /\ k = m + (k - m)
    OBVIOUS
  <2> QED BY <2>1
<1>2. d * e \in Nat
  BY SMT
<1>3. d * k = d * m + d * e
  BY <1>1
<1> QED BY <1>2, <1>3

\* A small page lies in a large page of the flash, in one of its slots.
LEMMA SmallPageInLarge ==
  ASSUME NEW p \in SmallPages
  PROVE  p \in Nat /\ p \div LargeSlots \in LargePages /\ p % LargeSlots \in Slots
<1>1. p \in Nat
  BY SlotAssumption DEF SmallPages
<1>2. /\ p \div LargeSlots \in Nat
      /\ p % LargeSlots \in 0 .. LargeSlots - 1
      /\ p = LargeSlots * (p \div LargeSlots) + (p % LargeSlots)
  BY <1>1, SlotAssumption, Division
<1>3. p \div LargeSlots < NumLarge
  <2> DEFINE q == p \div LargeSlots
  <2>1. SUFFICES ASSUME q >= NumLarge PROVE FALSE
    BY <1>2, SlotAssumption
  <2>2. LargeSlots * q >= LargeSlots * NumLarge
    BY <1>2, <2>1, SlotAssumption, Multiplication
  <2>3. p < NumLarge * LargeSlots
    BY SlotAssumption DEF SmallPages
  <2> QED BY <1>2, <2>2, <2>3, SlotAssumption
<1> QED BY <1>1, <1>2, <1>3, SlotAssumption DEF LargePages, Slots

\* A small page number in a large page of the flash is in the flash.
LEMMA InLargeIsSmall ==
  ASSUME NEW n \in Nat, n \div LargeSlots \in LargePages
  PROVE  n \in SmallPages
<1> DEFINE q == n \div LargeSlots
           r == n % LargeSlots
<1>1. q \in Nat /\ r \in 0 .. LargeSlots - 1 /\ n = LargeSlots * q + r
  BY SlotAssumption, Division
<1>2. q + 1 <= NumLarge
  BY <1>1, SlotAssumption DEF LargePages
<1>3. LargeSlots * (q + 1) <= LargeSlots * NumLarge
  BY <1>1, <1>2, SlotAssumption, Multiplication
<1>4. LargeSlots * (q + 1) = LargeSlots * q + LargeSlots
  BY <1>1, SlotAssumption
<1> QED BY <1>1, <1>3, <1>4, SlotAssumption DEF SmallPages

-----------------------------------------------------------------------------
(* Types and custody: together they are inductive.                         *)

Inv == TypeOK /\ BuffersHome

LEMMA InitInv == Init => Inv
BY SMT DEF Init, Inv, TypeOK, BuffersHome, Idle, NoLarge, NoJob

\* What is written back is a large page.
LEMMA PatchedType ==
  ASSUME Inv, Reading({"Write", "Erase"}), InPage
  PROVE  Patched \in LargePage
<1>1. large.index \in LargePages
  BY DEF Inv, TypeOK, Reading, NoLarge
<1>2. LargeRead \in LargePage
  BY <1>1 DEF Inv, TypeOK, LargeRead
<1>3. state.kind = "Write" => client_pagebuffer \in Contents
  <2>1. large # NoLarge
    BY DEF Reading, NoLarge
  <2>2. job # NoJob
    BY <2>1 DEF Inv, BuffersHome
  <2>3. state.kind = "Write" => job.kind = "write"
    BY <2>2 DEF Inv, BuffersHome
  <2> QED BY <2>3 DEF Inv, BuffersHome, TypeOK
<1>4. (IF state.kind = "Write" THEN client_pagebuffer ELSE Erased) \in Contents
  BY <1>3, ContentsAssumption
<1> QED BY <1>2, <1>4 DEF Patched, LargePage

\* Whatever becomes of a write, flash holds contents.
LEMMA TornType ==
  ASSUME Inv, large.kind = "write"
  PROVE  /\ Programmed(large.data) \in [LargePages -> LargePage]
         /\ Torn \subseteq [LargePages -> LargePage]
<1>1. /\ large.index \in LargePages
      /\ large.data \in LargePage
      /\ flash \in [LargePages -> LargePage]
  BY DEF Inv, TypeOK, NoLarge
<1>2. \A c \in LargePage : Programmed(c) \in [LargePages -> LargePage]
  BY <1>1 DEF Programmed
<1>3. \A n \in 0 .. LargeSlots : TornPage(n) \in LargePage
  BY <1>1, ContentsAssumption DEF TornPage, LargePage
<1> QED BY <1>1, <1>2, <1>3 DEF Torn

\* A call by the client.
LEMMA StartInv ==
  ASSUME NEW kind \in {"Read", "Write", "Erase"}, NEW n \in Named,
         NEW held \in Contents \cup {NoContents}, NEW call,
         call # NoJob, call.page = n,
         held # NoContents <=> call.kind \in {"read", "write"},
         <<kind, call.kind>> \in
           {<<"Read", "read">>, <<"Write", "write">>, <<"Erase", "erase">>},
         Inv, Start(kind, n, held, call)
  PROVE  Inv'
<1>1. TypeOK'
  <2>1. state' \in [kind : {"Read", "Write", "Erase"}, page_number : Named]
    BY DEF Start
  <2>2. CASE /\ Index(n) \in LargePages
             /\ large' = [kind |-> "read", index |-> Index(n)]
             /\ pagebuffer' = "below"
             /\ client_pagebuffer' = held
    BY <2>1, <2>2 DEF Start, Inv, TypeOK
  <2>3. CASE UNCHANGED <<large, pagebuffer, client_pagebuffer, job>>
    BY <2>1, <2>3 DEF Start, Inv, TypeOK
  <2> QED BY <2>2, <2>3 DEF Start
<1>2. BuffersHome'
  <2>1. CASE /\ Index(n) \in LargePages
             /\ large' = [kind |-> "read", index |-> Index(n)]
             /\ pagebuffer' = "below"
             /\ client_pagebuffer' = held
             /\ job' = call
    BY <2>1 DEF Start, BuffersHome, NoLarge
  <2>2. CASE UNCHANGED <<large, pagebuffer, client_pagebuffer, job>>
    BY <2>2 DEF Start, Inv, BuffersHome
  <2> QED BY <2>1, <2>2 DEF Start
<1> QED BY <1>1, <1>2 DEF Inv

LEMMA NextInv ==
  ASSUME Inv, [Next]_vars
  PROVE  Inv'
<1>1. CASE ReadPage
  <2>1. PICK n \in Named, held \in Contents :
          Start("Read", n, held, [kind |-> "read", page |-> n])
    BY <1>1 DEF ReadPage
  <2> QED BY <2>1, StartInv, ContentsAssumption DEF NoJob
<1>2. CASE WritePage
  <2>1. PICK n \in Named, data \in Contents :
          Start("Write", n, data, [kind |-> "write", page |-> n, data |-> data])
    BY <1>2 DEF WritePage
  <2> QED BY <2>1, StartInv, ContentsAssumption DEF NoJob
<1>3. CASE ErasePage
  <2>1. PICK n \in Named :
          Start("Erase", n, NoContents, [kind |-> "erase", page |-> n])
    BY <1>3 DEF ErasePage
  <2> QED BY <2>1, StartInv, ContentsAssumption DEF NoJob
<1>4. CASE ReadCompleteRead
  <2>1. large.index \in LargePages
    BY <1>4 DEF ReadCompleteRead, Reading, Inv, TypeOK, NoLarge
  <2>2. LargeRead[Offset(state.page_number)] \in Contents
    BY <1>4, <2>1 DEF ReadCompleteRead, InPage, LargeRead, Inv, TypeOK, LargePage
  <2>3. TypeOK'
    BY <1>4, <2>2 DEF ReadCompleteRead, Return, Inv, TypeOK
  <2>4. BuffersHome'
    BY <1>4 DEF ReadCompleteRead, Return, BuffersHome, NoJob, NoLarge
  <2> QED BY <2>3, <2>4 DEF Inv
<1>5. CASE WriteBack
  <2>1. Patched \in LargePage
    BY <1>5, PatchedType DEF WriteBack
  <2>2. TypeOK'
    BY <1>5, <2>1 DEF WriteBack, Inv, TypeOK, NoLarge
  <2>3. job # NoJob /\ pagebuffer = "below"
    BY <1>5 DEF WriteBack, Reading, Inv, BuffersHome, NoLarge
  <2>4. BuffersHome'
    BY <1>5, <2>3 DEF WriteBack, Reading, Inv, BuffersHome, NoLarge
  <2> QED BY <2>2, <2>4 DEF Inv
<1>6. CASE Panic
  <2>1. TypeOK'
    BY <1>6 DEF Panic, Inv, TypeOK, NoLarge
  <2>2. job # NoJob
    BY <1>6 DEF Panic, Reading, Inv, BuffersHome, NoLarge
  <2>3. BuffersHome'
    BY <1>6, <2>2 DEF Panic, Inv, BuffersHome
  <2> QED BY <2>1, <2>3 DEF Inv
<1>7. CASE WriteComplete
  <2>1. flash' \in [LargePages -> LargePage]
    BY <1>7, TornType DEF WriteComplete, Outcomes
  <2>2. TypeOK'
    BY <1>7, <2>1 DEF WriteComplete, Return, Inv, TypeOK
  <2>3. BuffersHome'
    BY <1>7 DEF WriteComplete, Return, BuffersHome, NoJob, NoLarge
  <2> QED BY <2>2, <2>3 DEF Inv
<1>8. CASE PowerCycle
  <2>1. flash' \in [LargePages -> LargePage]
    BY <1>8, TornType DEF PowerCycle, Inv, TypeOK
  <2>2. TypeOK'
    BY <1>8, <2>1 DEF PowerCycle, TypeOK, Idle
  <2>3. BuffersHome'
    BY <1>8 DEF PowerCycle, BuffersHome, NoJob, NoLarge
  <2> QED BY <2>2, <2>3 DEF Inv
<1>9. CASE UNCHANGED vars
  BY <1>9 DEF vars, Inv, TypeOK, BuffersHome
<1> QED BY <1>1, <1>2, <1>3, <1>4, <1>5, <1>6, <1>7, <1>8, <1>9
        DEF Next, ReadComplete

\* The adapter's state has its type, for large pages of any size.
THEOREM TypeCorrect == Spec => []TypeOK
<1>1. Inv => TypeOK
  BY DEF Inv
<1> QED BY <1>1, InitInv, NextInv, PTL DEF Spec

\* The adapter has both buffers where its next step takes them from, for large
\* pages of any size.
THEOREM Custody == Spec => []BuffersHome
<1>1. Inv => BuffersHome
  BY DEF Inv
<1> QED BY <1>1, InitInv, NextInv, PTL DEF Spec

-----------------------------------------------------------------------------
(* Refinement, for large pages of the size the adapter falls back to.      *)

SameSize == LargeSlots = FallbackSlots

\* The large flash works on the page of the client's call, and what it writes
\* is that page with the call's part of it changed.
Agreement ==
  /\ job \in Small!Jobs \cup {NoJob}
  /\ large # NoLarge => large.index = job.page \div LargeSlots
  /\ job.kind = "write" => client_pagebuffer = job.data
  /\ large.kind = "write" =>
       /\ job.kind \in {"write", "erase"}
       /\ large.data =
            [s \in Slots |->
               IF s = job.page % LargeSlots
               THEN IF job.kind = "write" THEN job.data ELSE Erased
               ELSE flash[large.index][s]]

RInv == Inv /\ Agreement

LEMMA InitAgreement == Init => Agreement
BY SMT DEF Init, Agreement, NoLarge, NoJob

\* Indices and offsets are those of large pages, the page buffer at home or
\* not.
LEMMA Indices ==
  ASSUME SameSize
  PROVE  \A n : Index(n) = n \div LargeSlots /\ Offset(n) = n % LargeSlots
BY DEF SameSize, Index, Offset, Multiplier

\* While the large flash works, `state` names the client's page and call.
LEMMA AtWork ==
  ASSUME RInv, large # NoLarge, state.kind # "Panicked"
  PROVE  /\ job # NoJob
         /\ job \in Small!Jobs
         /\ job.page \in SmallPages
         /\ state.page_number = job.page
         /\ state.kind = "Read" <=> job.kind = "read"
         /\ state.kind = "Write" <=> job.kind = "write"
         /\ state.kind = "Erase" <=> job.kind = "erase"
<1>1. job # NoJob
  BY DEF RInv, Inv, BuffersHome
<1>2. job \in Small!Jobs
  BY <1>1 DEF RInv, Agreement
<1>3. job.page \in SmallPages
  BY <1>2 DEF Small!Jobs
<1> QED BY <1>1, <1>2, <1>3 DEF RInv, Inv, BuffersHome

LEMMA StartAgreement ==
  ASSUME SameSize,
         NEW kind \in {"Read", "Write", "Erase"}, NEW n \in Named,
         NEW held \in Contents \cup {NoContents}, NEW call,
         n \in SmallPages => call \in Small!Jobs,
         call.page = n, call.kind = "write" => held = call.data,
         RInv, Start(kind, n, held, call)
  PROVE  Agreement'
<1>1. CASE /\ Index(n) \in LargePages
           /\ large' = [kind |-> "read", index |-> Index(n)]
           /\ client_pagebuffer' = held
           /\ job' = call
  <2>1. n \in Nat
    BY SlotAssumption DEF Named
  <2>2. Index(n) = n \div LargeSlots
    BY Indices
  <2>3. n \in SmallPages
    BY <1>1, <2>1, <2>2, InLargeIsSmall
  <2>4. call \in Small!Jobs
    BY <2>3
  <2> HIDE DEF Small!Jobs
  <2> QED BY <1>1, <2>2, <2>4 DEF Agreement
<1>2. CASE UNCHANGED <<large, pagebuffer, client_pagebuffer, job>>
  BY <1>2 DEF Start, RInv, Agreement
<1> QED BY <1>1, <1>2 DEF Start

LEMMA NextAgreement ==
  ASSUME SameSize, RInv, [Next]_vars
  PROVE  Agreement'
<1>1. CASE ReadPage
  <2>1. PICK n \in Named, held \in Contents :
          Start("Read", n, held, [kind |-> "read", page |-> n])
    BY <1>1 DEF ReadPage
  <2> QED BY <2>1, StartAgreement DEF Small!Jobs
<1>2. CASE WritePage
  <2>1. PICK n \in Named, data \in Contents :
          Start("Write", n, data, [kind |-> "write", page |-> n, data |-> data])
    BY <1>2 DEF WritePage
  <2> QED BY <2>1, StartAgreement DEF Small!Jobs
<1>3. CASE ErasePage
  <2>1. PICK n \in Named :
          Start("Erase", n, NoContents, [kind |-> "erase", page |-> n])
    BY <1>3 DEF ErasePage
  <2> QED BY <2>1, StartAgreement DEF Small!Jobs
<1>4. CASE ReadCompleteRead \/ WriteComplete \/ PowerCycle
  BY <1>4 DEF ReadCompleteRead, WriteComplete, PowerCycle, Return,
              Agreement, NoJob, NoLarge
<1>5. CASE WriteBack
  <2>1. large # NoLarge /\ state.kind \in {"Write", "Erase"}
    BY <1>5 DEF WriteBack, Reading, NoLarge
  <2>2. /\ job \in Small!Jobs
        /\ state.page_number = job.page
        /\ state.kind = "Write" <=> job.kind = "write"
        /\ job.kind \in {"write", "erase"}
    BY <2>1, AtWork
  <2>3. /\ Index(job.page) = job.page \div LargeSlots
        /\ Offset(job.page) = job.page % LargeSlots
    BY Indices
  <2>4. large.index \in LargePages /\ large.index = job.page \div LargeSlots
    BY <2>1 DEF RInv, Inv, TypeOK, Agreement, NoLarge
  <2>5. Patched =
          [s \in Slots |->
             IF s = job.page % LargeSlots
             THEN IF job.kind = "write" THEN job.data ELSE Erased
             ELSE flash[large.index][s]]
    <3>1. LargeRead \in [Slots -> Contents]
      BY <2>4 DEF RInv, Inv, TypeOK, LargeRead, LargePage
    <3>2. job.kind = "write" => client_pagebuffer = job.data
      BY DEF RInv, Agreement
    <3> QED BY <2>2, <2>3, <3>1, <3>2 DEF Patched, LargeRead
  <2>6. UNCHANGED <<job, client_pagebuffer, flash>>
    BY <1>5 DEF WriteBack
  <2>7. CASE large' = [kind |-> "write", index |-> Index(state.page_number),
                       data |-> Patched]
    <3>1. /\ large'.kind = "write"
          /\ large'.index = job.page \div LargeSlots
          /\ large'.data = Patched
          /\ large'.index = large.index
      BY <2>2, <2>3, <2>4, <2>7
    <3> QED BY <2>2, <2>5, <2>6, <3>1 DEF RInv, Agreement
  <2>8. CASE large' = NoLarge
    BY <2>6, <2>8 DEF RInv, Agreement, NoLarge
  <2> QED BY <1>5, <2>7, <2>8 DEF WriteBack
<1>6. CASE Panic
  BY <1>6 DEF Panic, RInv, Agreement, NoLarge
<1>7. CASE UNCHANGED vars
  BY <1>7 DEF vars, RInv, Agreement
<1> QED BY <1>1, <1>2, <1>3, <1>4, <1>5, <1>6, <1>7 DEF Next, ReadComplete

\* A small page is known by its large page and its slot.
LEMMA SamePage ==
  ASSUME NEW p \in SmallPages, NEW q \in SmallPages,
         p \div LargeSlots = q \div LargeSlots, p % LargeSlots = q % LargeSlots
  PROVE  p = q
<1>1. /\ p = LargeSlots * (p \div LargeSlots) + (p % LargeSlots)
      /\ q = LargeSlots * (q \div LargeSlots) + (q % LargeSlots)
  BY SmallPageInLarge, SlotAssumption, Division
<1> QED BY <1>1

\* The small pages of a flash of large ones hold contents.
LEMMA PagesType ==
  ASSUME NEW f \in [LargePages -> LargePage]
  PROVE  [p \in SmallPages |-> f[p \div LargeSlots][p % LargeSlots]]
           \in [SmallPages -> Contents]
BY SmallPageInLarge DEF LargePage

\* The large page being written holds what the call makes of each small page.
LEMMA Written ==
  ASSUME RInv, large.kind = "write", NEW q \in SmallPages
  PROVE  Small!After(q) = IF q \div LargeSlots = large.index
                          THEN large.data[q % LargeSlots] ELSE Pages[q]
<1>1. /\ large.index = job.page \div LargeSlots
      /\ job.kind \in {"write", "erase"}
      /\ large.data =
           [s \in Slots |->
              IF s = job.page % LargeSlots
              THEN IF job.kind = "write" THEN job.data ELSE Erased
              ELSE flash[large.index][s]]
  BY DEF RInv, Agreement, NoLarge
<1>2. job.page \in SmallPages
  BY <1>1 DEF RInv, Agreement, Small!Jobs, NoJob
<1>3. /\ q % LargeSlots \in Slots
      /\ Pages[q] = flash[q \div LargeSlots][q % LargeSlots]
  BY SmallPageInLarge DEF Pages
<1>4. q = job.page <=> /\ q \div LargeSlots = large.index
                       /\ q % LargeSlots = job.page % LargeSlots
  BY <1>1, <1>2, SamePage
<1> QED BY <1>1, <1>3, <1>4 DEF Small!After

\* Whatever becomes of the write, only the pages of the large page change, and
\* to what the call makes of them, to erased or to partly programmed.
LEMMA TornDamage ==
  ASSUME RInv, large.kind = "write", flash' \in Torn
  PROVE  Small!Damaged(Pages')
<1>1. /\ large.index = job.page \div LargeSlots
      /\ large.index \in LargePages
      /\ flash \in [LargePages -> LargePage]
      /\ job.kind \in {"write", "erase"}
      /\ job.page \in SmallPages
  BY DEF RInv, Inv, TypeOK, Agreement, NoLarge, NoJob, Small!Jobs
<1>2. ASSUME NEW q \in SmallPages
      PROVE  IF q \in NearTo[job.page]
             THEN Pages'[q] \in {Pages[q], Small!After(q), Erased, Partial}
             ELSE Pages'[q] = Pages[q]
  <2>1. /\ q \div LargeSlots \in LargePages
        /\ q % LargeSlots \in Slots
        /\ Pages[q] = flash[q \div LargeSlots][q % LargeSlots]
        /\ Pages'[q] = flash'[q \div LargeSlots][q % LargeSlots]
    BY SmallPageInLarge DEF Pages
  <2>2. q \in NearTo[job.page] <=> q \div LargeSlots = large.index
    BY <1>1 DEF NearTo
  <2>3. CASE flash' = flash
    BY <2>1, <2>3
  <2>4. ASSUME NEW n \in 0 .. LargeSlots, flash' = Programmed(TornPage(n))
        PROVE  IF q \div LargeSlots = large.index
               THEN Pages'[q] \in {large.data[q % LargeSlots], Erased, Partial}
               ELSE Pages'[q] = Pages[q]
    BY <1>1, <2>1, <2>4 DEF Programmed, TornPage
  <2> QED BY <2>2, <2>3, <2>4, Written DEF Torn
<1> QED BY <1>1, <1>2 DEF Small!Damaged

\* Every step of the adapter is a step of the flash of small pages or none.
LEMMA StepRefines ==
  ASSUME SameSize, RInv, Inv', Agreement', [Next]_vars
  PROVE  [Small!Next]_(Small!vars)
<1>0. Pages' \in [SmallPages -> Contents]
  BY PagesType DEF Inv, TypeOK, Pages
<1>1. CASE ReadPage \/ WritePage \/ ErasePage
  <2>1. job = NoJob /\ UNCHANGED <<flash, result>>
    BY <1>1 DEF ReadPage, WritePage, ErasePage, Start
  <2>2. Pages' = Pages
    BY <2>1 DEF Pages
  <2>3. CASE job' = NoJob
    BY <2>1, <2>2, <2>3 DEF Small!vars
  <2>4. CASE job' # NoJob
    <3>1. job' \in Small!Jobs
      BY <2>4 DEF Agreement
    <3>2. Small!Call
      BY <2>1, <2>2, <3>1 DEF Small!Call, NoJob, Small!NoJob
    <3> QED BY <3>2 DEF Small!Next
  <2> QED BY <2>3, <2>4
<1>2. CASE ReadCompleteRead
  <2>1. large # NoLarge /\ state.kind = "Read" /\ UNCHANGED flash
    BY <1>2 DEF ReadCompleteRead, Reading, NoLarge
  <2>2. /\ job # NoJob
        /\ job.page \in SmallPages
        /\ state.page_number = job.page
        /\ job.kind = "read"
    BY <2>1, AtWork
  <2>3. large.index = job.page \div LargeSlots
    BY <2>1 DEF RInv, Agreement
  <2>4. Pages' = Pages
    BY <2>1 DEF Pages
  <2>5. result' = Pages[job.page]
    <3>1. result' = flash[large.index][Offset(job.page)]
      BY <1>2, <2>2 DEF ReadCompleteRead, LargeRead
    <3> QED BY <3>1, <2>2, <2>3, Indices DEF Pages
  <2>6. \A q \in SmallPages : Pages'[q] = Small!After(q)
    BY <2>2, <2>4 DEF Small!After
  <2>7. job' = NoJob
    BY <1>2 DEF ReadCompleteRead, Return
  <2>8. Small!Complete
    BY <1>0, <2>2, <2>5, <2>6, <2>7 DEF Small!Complete, NoJob, Small!NoJob
  <2> QED BY <2>8 DEF Small!Next
<1>3. CASE WriteBack \/ Panic
  <2>1. UNCHANGED <<flash, job, result>>
    BY <1>3 DEF WriteBack, Panic
  <2> QED BY <2>1 DEF Small!vars, Pages
<1>4. CASE WriteComplete
  <2>1. large.kind = "write" /\ large # NoLarge
    BY <1>4 DEF WriteComplete, NoLarge
  <2>2. job.kind \in {"write", "erase"} /\ job # NoJob
    BY <2>1 DEF RInv, Inv, BuffersHome, Agreement, NoJob
  <2>3. job' = NoJob /\ UNCHANGED result
    BY <1>4 DEF WriteComplete, Return
  <2>4. CASE flash' = Programmed(large.data)
    <3>1. large.index \in LargePages /\ flash \in [LargePages -> LargePage]
      BY <2>1 DEF RInv, Inv, TypeOK
    <3>2. ASSUME NEW q \in SmallPages
          PROVE  Pages'[q] = Small!After(q)
      <4>1. /\ q \div LargeSlots \in LargePages
            /\ Pages[q] = flash[q \div LargeSlots][q % LargeSlots]
            /\ Pages'[q] = flash'[q \div LargeSlots][q % LargeSlots]
        BY SmallPageInLarge DEF Pages
      <4> QED BY <2>1, <2>4, <3>1, <4>1, Written DEF Programmed
    <3>3. Small!Complete
      BY <1>0, <2>2, <2>3, <3>2 DEF Small!Complete, NoJob, Small!NoJob
    <3> QED BY <3>3 DEF Small!Next
  <2>5. CASE "fail" \in Faults /\ flash' \in Torn
    <3>1. Small!Damaged(Pages')
      BY <2>1, <2>5, TornDamage
    <3>2. Small!Complete
      BY <1>0, <2>2, <2>3, <2>5, <3>1 DEF Small!Complete, NoJob, Small!NoJob
    <3> QED BY <3>2 DEF Small!Next
  <2> QED BY <1>4, <2>4, <2>5 DEF WriteComplete, Outcomes
<1>5. CASE PowerCycle
  <2>1. job' = NoJob /\ result' = NoContents
    BY <1>5 DEF PowerCycle
  <2>2. Small!Damaged(Pages')
    <3>1. CASE large.kind = "write"
      BY <1>5, <3>1, TornDamage DEF PowerCycle
    <3>2. CASE large.kind # "write"
      <4>1. Pages' = Pages
        BY <1>5, <3>2 DEF PowerCycle, Pages
      <4> QED BY <4>1 DEF Small!Damaged
    <3> QED BY <3>1, <3>2
  <2>3. Small!PowerCycle
    BY <1>0, <2>1, <2>2 DEF Small!PowerCycle, NoJob, Small!NoJob
  <2> QED BY <2>3 DEF Small!Next
<1>6. CASE UNCHANGED vars
  BY <1>6 DEF vars, Small!vars, Pages
<1> QED BY <1>1, <1>2, <1>3, <1>4, <1>5, <1>6 DEF Next, ReadComplete

\* On large pages of the size it falls back to, the adapter is a flash of small
\* pages: a call changes the page it names and no other, and a read returns
\* what was last written there.
THEOREM Implements ==
  ASSUME SameSize
  PROVE  Spec => PageFlashSpec
<1>1. Init => Small!Init
  <2> SUFFICES ASSUME Init PROVE Small!Init
    OBVIOUS
  <2>1. Pages \in [SmallPages -> Contents]
    BY PagesType DEF Init, Pages
  <2> QED BY <2>1 DEF Init, Small!Init, NoJob, Small!NoJob
<1>2. Init => RInv
  BY InitInv, InitAgreement DEF RInv
<1>3. RInv /\ [Next]_vars => RInv'
  BY NextInv, NextAgreement DEF RInv
<1>4. RInv /\ RInv' /\ [Next]_vars => [Small!Next]_(Small!vars)
  BY StepRefines DEF RInv
<1> QED BY <1>1, <1>2, <1>3, <1>4, PTL DEF Spec, PageFlashSpec, Small!Spec

=============================================================================
