----------------------- MODULE Sam71FlashDirectProofs -----------------------
(***************************************************************************)
(* Theorems about Sam71FlashDirect, for flash of any size, any contents    *)
(* and any faults.                                                         *)
(***************************************************************************)
EXTENDS Sam71FlashDirect, TLAPS

Operations ==
       {NoOp}
  \cup [kind : {"write"}, page : PageNumbers, data : Contents]
  \cup [kind : {"erase"}, page : PageNumbers]

Types ==
  /\ flash \in [PageNumbers -> Contents]
  /\ efc \in Operations
  /\ efc_page \in Contents \cup {NoContents}
  /\ client_page \in BOOLEAN

\* Efc works on what the client asked for: on the same page, with the same data.
Agreement == job = efc

Inv == Types /\ BuffersHome /\ Agreement

\* What an operation may leave of flash is made of whole pages, of which only
\* its own differs.
LEMMA TornType ==
  ASSUME Types, efc # NoOp, NEW new \in Torn
  PROVE  /\ new \in [PageNumbers -> Contents]
         /\ \A q \in PageNumbers \ {efc.page} : new[q] = flash[q]
         /\ new[efc.page] \in {flash[efc.page], NewContents, Erased, Partial}
<1>1. efc.page \in PageNumbers /\ NewContents \in Contents
  BY ContentsAssumption DEF Types, Operations, NewContents
<1> QED BY <1>1, ContentsAssumption DEF Types, Torn

LEMMA OutcomesTorn == Outcomes \subseteq Torn
BY DEF Outcomes, Torn

LEMMA InitInv == Init => Inv
<1> SUFFICES ASSUME Init PROVE Inv
  OBVIOUS
<1>1. Types
  BY ContentsAssumption DEF Init, Types, Operations
<1>2. BuffersHome /\ Agreement
  BY ContentsAssumption DEF Init, BuffersHome, Agreement, NoOp, NoJob
<1> QED BY <1>1, <1>2 DEF Inv

LEMMA NextInv == Inv /\ [Next]_vars => Inv'
<1> SUFFICES ASSUME Inv, [Next]_vars PROVE Inv'
  OBVIOUS
<1> USE DEF Inv
<1>1. CASE ReadPage
  BY <1>1 DEF ReadPage, Types, BuffersHome, Agreement, Operations
<1>2. CASE WritePage
  <2>1. PICK n \in PageNumbers, data \in Contents :
          efc' = [kind |-> "write", page |-> n, data |-> data] /\ job' = efc'
    BY <1>2 DEF WritePage
  <2>2. efc_page' = NoContents /\ client_page' = TRUE /\ flash' = flash
    BY <1>2 DEF WritePage
  <2>3. Types'
    BY <2>1, <2>2 DEF Types, Operations
  <2>4. BuffersHome' /\ Agreement'
    BY <2>1, <2>2 DEF BuffersHome, Agreement, NoJob, NoOp
  <2> QED BY <2>3, <2>4
<1>3. CASE WriteRefused
  <2>1. efc_page' \in Contents /\ UNCHANGED <<client_page, efc, flash, job>>
    BY <1>3 DEF WriteRefused
  <2>2. efc_page # NoContents
    BY <1>3 DEF WriteRefused
  <2> QED BY <2>1, <2>2, ContentsAssumption DEF Types, BuffersHome, Agreement
<1>4. CASE ErasePage
  <2>1. PICK n \in PageNumbers : efc' = [kind |-> "erase", page |-> n] /\ job' = efc'
    BY <1>4 DEF ErasePage
  <2>2. UNCHANGED <<efc_page, client_page, flash>>
    BY <1>4 DEF ErasePage
  <2>3. efc.kind # "write"
    BY <1>4 DEF ErasePage, Agreement, NoJob
  <2>4. Types'
    BY <2>1, <2>2 DEF Types, Operations
  <2>5. BuffersHome' /\ Agreement'
    BY <2>1, <2>2, <2>3 DEF BuffersHome, Agreement, NoJob, NoOp
  <2> QED BY <2>4, <2>5
<1>5. CASE WriteComplete
  <2>1. efc.kind = "write" /\ efc # NoOp /\ efc.data \in Contents
    BY <1>5 DEF WriteComplete, NoOp, Types, Operations
  <2>2. flash' \in [PageNumbers -> Contents]
    BY <1>5, <2>1, TornType, OutcomesTorn DEF WriteComplete
  <2>3. efc_page' = efc.data /\ client_page' = FALSE /\ efc' = NoOp /\ job' = NoJob
    BY <1>5 DEF WriteComplete
  <2>4. Types'
    BY <2>1, <2>2, <2>3 DEF Types, Operations
  <2>5. BuffersHome' /\ Agreement'
    BY <2>1, <2>3, ContentsAssumption DEF BuffersHome, Agreement, NoJob, NoOp
  <2> QED BY <2>4, <2>5
<1>6. CASE EraseComplete
  <2>1. efc.kind = "erase" /\ efc # NoOp
    BY <1>6 DEF EraseComplete, NoOp
  <2>2. flash' \in [PageNumbers -> Contents]
    BY <1>6, <2>1, TornType, OutcomesTorn DEF EraseComplete
  <2>3. efc' = NoOp /\ job' = NoJob /\ UNCHANGED <<efc_page, client_page>>
    BY <1>6 DEF EraseComplete
  <2>4. Types'
    BY <2>2, <2>3 DEF Types, Operations
  <2>5. BuffersHome' /\ Agreement'
    BY <2>1, <2>3 DEF BuffersHome, Agreement, NoJob, NoOp
  <2> QED BY <2>4, <2>5
<1>7. CASE PowerCycle
  <2>1. flash' \in [PageNumbers -> Contents]
    BY <1>7, TornType DEF PowerCycle, Types
  <2>2. efc_page' = Erased /\ client_page' = FALSE /\ efc' = NoOp /\ job' = NoJob
    BY <1>7 DEF PowerCycle
  <2>3. Types'
    BY <2>1, <2>2, ContentsAssumption DEF Types, Operations
  <2>4. BuffersHome' /\ Agreement'
    BY <2>2, ContentsAssumption DEF BuffersHome, Agreement, NoJob, NoOp
  <2> QED BY <2>3, <2>4
<1>8. CASE UNCHANGED vars
  BY <1>8 DEF vars, Types, BuffersHome, Agreement, Operations
<1> QED BY <1>1, <1>2, <1>3, <1>4, <1>5, <1>6, <1>7, <1>8 DEF Next

\* Whatever is refused or fails, and whenever power fails, the adapter ends every
\* call with its own page at home and the client's given back, and write_complete
\* finds the client's page (flash_passthrough.rs).
THEOREM Custody == Spec => []BuffersHome
<1>1. Inv => BuffersHome
  BY DEF Inv
<1> QED BY <1>1, InitInv, NextInv, PTL DEF Spec

\* Power failing, or a failed operation, does what PageFlash allows.
LEMMA TornDamage ==
  ASSUME Inv, efc # NoOp, NEW new \in Torn
  PROVE  Small!Damaged(new)
<1>1. /\ job = efc
      /\ efc.page \in PageNumbers
      /\ efc.kind \in {"write", "erase"}
  BY DEF Inv, Agreement, Types, Operations
<1>2. NewContents = Small!After(efc.page)
  BY <1>1 DEF NewContents, Small!After
<1>3. new[efc.page] \in {flash[efc.page], Small!After(efc.page), Erased, Partial}
  BY <1>2, TornType DEF Inv
<1>4. \A q \in PageNumbers : q \notin {efc.page} => new[q] = flash[q]
  BY TornType DEF Inv
<1> QED BY <1>1, <1>3, <1>4 DEF Small!Damaged

\* An operation that ends normally changes its page and no other.
LEMMA OutcomeAllowed ==
  ASSUME Inv, efc # NoOp, NEW new \in Outcomes
  PROVE  \/ \A q \in PageNumbers : new[q] = Small!After(q)
         \/ "fail" \in Faults /\ Small!Damaged(new)
<1>1. /\ job = efc
      /\ efc.page \in PageNumbers
      /\ efc.kind \in {"write", "erase"}
      /\ flash \in [PageNumbers -> Contents]
  BY DEF Inv, Agreement, Types, Operations
<1>2. CASE new = [flash EXCEPT ![efc.page] = NewContents]
  BY <1>1, <1>2 DEF NewContents, Small!After
<1>3. CASE "fail" \in Faults /\ new \in Torn
  BY <1>3, TornDamage
<1> QED BY <1>2, <1>3 DEF Outcomes

LEMMA StepRefines ==
  ASSUME Inv, [Next]_vars, Inv'
  PROVE  [Small!Next]_(Small!vars)
<1> USE DEF NoJob, NoOp, Small!NoJob
<1>0. flash' \in [PageNumbers -> Contents] /\ job = efc
  BY DEF Inv, Types, Agreement
<1>1. CASE ReadPage
  <2>1. \E n \in PageNumbers : result' = flash[n]
    BY <1>1, PagesAssumption DEF ReadPage, Named, PageNumbers
  <2>2. Small!ReadAtOnce
    BY <1>1, <2>1 DEF ReadPage, Small!ReadAtOnce
  <2> QED BY <2>2 DEF Small!Next
<1>2. CASE WritePage \/ ErasePage
  <2>1. job = NoJob /\ UNCHANGED <<flash, result>>
    BY <1>2 DEF WritePage, ErasePage
  <2>2. job' \in Small!Jobs
    BY <1>2 DEF WritePage, ErasePage, Small!Jobs
  <2>3. Small!Call
    BY <2>1, <2>2 DEF Small!Call
  <2> QED BY <2>3 DEF Small!Next
<1>3. CASE WriteRefused
  BY <1>3 DEF WriteRefused, Small!vars
<1>4. CASE WriteComplete \/ EraseComplete
  <2>1. /\ flash' \in Outcomes
        /\ efc.kind \in {"write", "erase"}
        /\ job' = NoJob /\ UNCHANGED result
    BY <1>4 DEF WriteComplete, EraseComplete
  <2>2. \/ \A q \in PageNumbers : flash'[q] = Small!After(q)
        \/ "fail" \in Faults /\ Small!Damaged(flash')
    BY <2>1, OutcomeAllowed
  <2>3. Small!Complete
    BY <1>0, <2>1, <2>2 DEF Small!Complete
  <2> QED BY <2>3 DEF Small!Next
<1>5. CASE PowerCycle
  <2>1. job' = NoJob /\ result' = NoContents
    BY <1>5 DEF PowerCycle
  <2>2. Small!Damaged(flash')
    <3>1. CASE efc = NoOp
      BY <1>0, <1>5, <3>1 DEF PowerCycle, Small!Damaged
    <3>2. CASE efc # NoOp
      BY <1>5, <3>2, TornDamage DEF PowerCycle
    <3> QED BY <3>1, <3>2
  <2>3. Small!PowerCycle
    BY <1>0, <2>1, <2>2 DEF Small!PowerCycle
  <2> QED BY <2>3 DEF Small!Next
<1>6. CASE UNCHANGED vars
  BY <1>6 DEF vars, Small!vars
<1> QED BY <1>1, <1>2, <1>3, <1>4, <1>5, <1>6 DEF Next

\* The adapter of the SAMV71 is a flash of 512-byte pages of which an interrupted
\* operation harms its own page only: which is the flash that the bootloader's
\* safety rests on (flash_passthrough.rs).
THEOREM Implements == Spec => PageFlashSpec
<1>1. Init => Small!Init
  BY DEF Init, Small!Init, NoJob, Small!NoJob
<1> QED BY <1>1, InitInv, NextInv, StepRefines, PTL DEF Spec, PageFlashSpec, Small!Spec

=============================================================================
