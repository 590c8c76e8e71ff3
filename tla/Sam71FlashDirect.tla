-------------------------- MODULE Sam71FlashDirect --------------------------
(***************************************************************************)
(* boards/samv71xplained-bootloader/src/flash_passthrough.rs: 512-byte     *)
(* pages on a flash that has such pages.  A read copies from memory and    *)
(* calls back before it returns; a write is copied into a page of the      *)
(* flash controller's (Efc), which programs it in the background.          *)
(*                                                                         *)
(* External: Efc, which accepts or refuses a call and completes it later.  *)
(* The client has one call outstanding at a time, as in FlashLargeToSmall; *)
(* one made in the callback of a read is a step after that read.           *)
(***************************************************************************)
EXTENDS Naturals

CONSTANTS
  PAGE_COUNT,          \* 4096
  Contents, Erased, Partial, NoContents,
  Faults               \* "refuse", "fail": of Efc

ASSUME PagesAssumption == PAGE_COUNT \in Nat \ {0}

ASSUME ContentsAssumption ==
  Erased \in Contents /\ Partial \in Contents /\ NoContents \notin Contents

VARIABLES
  efc_page,      \* what the page for Efc holds, while it is here
  client_page,   \* the client's page is here
  efc,           \* the operation of Efc in progress
  flash,         \* the contents of flash
  \* History: the client's call in progress, and what its last read returned.
  job,
  result

vars == <<efc_page, client_page, efc, flash, job, result>>

PageNumbers == 0 .. PAGE_COUNT - 1

\* Page numbers the client may name: those in flash and one past it.
Named == 0 .. PAGE_COUNT

NoOp  == [kind |-> "none"]
NoJob == [kind |-> "none"]

Refusable(n) == n \notin PageNumbers \/ "refuse" \in Faults

-----------------------------------------------------------------------------
(* The calls of the client.                                                *)

\* A read past the end is refused, as if it had not been made; any other is
\* completed at once.
ReadPage ==
  /\ job = NoJob
  /\ \E n \in Named : n < PAGE_COUNT /\ result' = flash[n]
  /\ UNCHANGED <<efc_page, client_page, efc, flash, job>>

\* Mutant: the client's page is not copied.
WritePageUncopied ==
  /\ job = NoJob /\ efc_page # NoContents
  /\ \E n \in PageNumbers, data \in Contents :
       /\ efc' = [kind |-> "write", page |-> n, data |-> efc_page]
       /\ job' = [kind |-> "write", page |-> n, data |-> data]
  /\ efc_page' = NoContents /\ client_page' = TRUE
  /\ UNCHANGED <<flash, result>>

WritePage ==
  /\ job = NoJob /\ efc_page # NoContents
  /\ \E n \in PageNumbers, data \in Contents :
       /\ efc' = [kind |-> "write", page |-> n, data |-> data]
       /\ job' = [kind |-> "write", page |-> n, data |-> data]
  /\ efc_page' = NoContents /\ client_page' = TRUE
  /\ UNCHANGED <<flash, result>>

\* Efc refuses: both pages are back, one with the client's data in it.
WriteRefused ==
  /\ job = NoJob /\ efc_page # NoContents
  /\ \E n \in Named : Refusable(n)
  /\ efc_page' \in Contents
  /\ UNCHANGED <<client_page, efc, flash, job, result>>

ErasePage ==
  /\ job = NoJob
  /\ \E n \in PageNumbers :
       /\ efc' = [kind |-> "erase", page |-> n]
       /\ job' = [kind |-> "erase", page |-> n]
  /\ UNCHANGED <<efc_page, client_page, flash, result>>

-----------------------------------------------------------------------------
(* The callbacks of Efc.  A result is passed on, to a client that ignores it.*)

NewContents == IF efc.kind = "write" THEN efc.data ELSE Erased

Torn == {flash} \cup {[flash EXCEPT ![efc.page] = c] : c \in {NewContents, Erased, Partial}}

Outcomes == {[flash EXCEPT ![efc.page] = NewContents]}
              \cup (IF "fail" \in Faults THEN Torn ELSE {})

\* Mutant: the page for Efc is only put back after a write that succeeded.
WriteCompletePageKept ==
  /\ efc.kind = "write" /\ client_page
  /\ flash' \in Outcomes
  /\ efc_page' = IF flash'[efc.page] = efc.data THEN efc.data ELSE NoContents
  /\ client_page' = FALSE
  /\ efc' = NoOp /\ job' = NoJob
  /\ UNCHANGED result

WriteComplete ==
  /\ efc.kind = "write" /\ client_page
  /\ flash' \in Outcomes
  /\ efc_page' = efc.data
  /\ client_page' = FALSE
  /\ efc' = NoOp /\ job' = NoJob
  /\ UNCHANGED result

\* Mutant: as write_complete, it calls the client only if its page is here.
EraseCompleteWithPage ==
  /\ efc.kind = "erase"
  /\ flash' \in Outcomes
  /\ efc' = NoOp /\ job' = IF client_page THEN NoJob ELSE job
  /\ UNCHANGED <<efc_page, client_page, result>>

EraseComplete ==
  /\ efc.kind = "erase"
  /\ flash' \in Outcomes
  /\ efc' = NoOp /\ job' = NoJob
  /\ UNCHANGED <<efc_page, client_page, result>>

-----------------------------------------------------------------------------
PowerCycle ==
  /\ flash' \in (IF efc = NoOp THEN {flash} ELSE Torn)
  /\ efc_page' = Erased /\ client_page' = FALSE
  /\ efc' = NoOp /\ job' = NoJob
  /\ result' = NoContents

Next ==
  \/ ReadPage \/ WritePage \/ WriteRefused \/ ErasePage
  \/ WriteComplete \/ EraseComplete
  \/ PowerCycle

Init ==
  /\ efc_page = Erased /\ client_page = FALSE
  /\ efc = NoOp
  /\ flash \in [PageNumbers -> Contents]
  /\ job = NoJob
  /\ result = NoContents

Spec == Init /\ [][Next]_vars

\* Efc completes what it accepted.
FairSpec == Spec /\ WF_vars(WriteComplete) /\ WF_vars(EraseComplete)

-----------------------------------------------------------------------------
(* Properties.                                                             *)

\* Between calls the page for Efc is at home, or every later write would be
\* refused as busy, and the client's page is with the client; during a write both
\* are out, and write_complete finds the client's: also after writes that were
\* refused or failed, and after a call made in the callback of another.
BuffersHome ==
  /\ efc_page = NoContents <=> efc.kind = "write"
  /\ client_page <=> efc.kind = "write"
  /\ job = NoJob <=> efc = NoOp

\* Every call that was accepted is answered.
Completed == job # NoJob ~> job = NoJob

\* The adapter is a flash whose pages are programmed one by one: what Efc programs
\* is the page of this call, not of the one before it.
Small == INSTANCE PageFlash WITH
  pages <- flash, NearTo <- [p \in PageNumbers |-> {p}]

PageFlashSpec == Small!Spec

=============================================================================
