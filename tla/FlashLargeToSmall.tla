-------------------------- MODULE FlashLargeToSmall --------------------------
(***************************************************************************)
(* bootloader/src/flash_large_to_small.rs: 512-byte pages on a flash with  *)
(* larger ones.  A read reads the large page and passes a part of it on; a *)
(* write or an erase reads the large page, changes a part of it and writes *)
(* it back.                                                                *)
(*                                                                         *)
(* A large page is a function from slots to contents, one slot per small   *)
(* page.  The large flash is external: it accepts or refuses a call and    *)
(* completes what it accepted later.  Its client has one call outstanding  *)
(* at a time, which BootloaderProofs!Ownership shows of the Bootloader.    *)
(***************************************************************************)
EXTENDS Integers

CONSTANTS
  NumLarge,         \* large pages in flash
  LargeSlots,       \* the size of a large page over 512
  FallbackSlots,    \* 4096 over 512
  Contents, Erased, Partial, NoContents,
  Faults            \* "refuse", "fail": as in Bootloader, of the large flash

ASSUME SlotAssumption ==
  /\ NumLarge \in Nat \ {0}
  /\ LargeSlots \in Nat \ {0}
  /\ FallbackSlots \in Nat \ {0}

ASSUME ContentsAssumption ==
  Erased \in Contents /\ Partial \in Contents /\ NoContents \notin Contents

VARIABLES
  state,              \* FlashLargeToSmall.state; "Panicked" after a panic
  pagebuffer,         \* where the large page buffer is: "cell", "below", "lost"
  client_pagebuffer,  \* what the client's page holds, while it is here
  large,              \* the large flash's operation in progress
  flash,              \* the contents of flash
  \* History: the client's call in progress, and what its last read returned.
  job,
  result

vars == <<state, pagebuffer, client_pagebuffer, large, flash, job, result>>

LargePages == 0 .. NumLarge - 1
SmallPages == 0 .. NumLarge * LargeSlots - 1
Slots      == 0 .. LargeSlots - 1
LargePage  == [Slots -> Contents]

Idle    == [kind |-> "Idle"]
NoLarge == [kind |-> "none"]
NoJob   == [kind |-> "none"]

-----------------------------------------------------------------------------
\* get_large_page_index_offset: the size of the large page is asked of the
\* page buffer, and taken to be 4096 bytes when that is not at home.
Multiplier == IF pagebuffer = "cell" THEN LargeSlots ELSE FallbackSlots
Index(n)   == n \div Multiplier
Offset(n)  == n % Multiplier

Refusable(i) == i \notin LargePages \/ "refuse" \in Faults

\* The start of read_page, write_page and erase_page: the large page is read.
\* When that is refused, or the large page buffer is out, the client has its
\* call refused and its page back.
Start(kind, n, held, call) ==
  /\ job = NoJob
  /\ pagebuffer = "cell"
  /\ state' = [kind |-> kind, page_number |-> n]
  /\ \/ /\ Index(n) \in LargePages
        /\ large' = [kind |-> "read", index |-> Index(n)]
        /\ pagebuffer' = "below"
        /\ client_pagebuffer' = held
        /\ job' = call
     \/ /\ Refusable(Index(n))
        /\ UNCHANGED <<large, pagebuffer, client_pagebuffer, job>>
  /\ UNCHANGED <<flash, result>>

\* Page numbers the client may name: those in flash and one past it.
Named == 0 .. NumLarge * LargeSlots

ReadPage ==
  \E n \in Named, held \in Contents :
    Start("Read", n, held, [kind |-> "read", page |-> n])

WritePage ==
  \E n \in Named, data \in Contents :
    Start("Write", n, data, [kind |-> "write", page |-> n, data |-> data])

ErasePage ==
  \E n \in Named :
    Start("Erase", n, NoContents, [kind |-> "erase", page |-> n])

-----------------------------------------------------------------------------
(* read_complete.  The result is ignored.                                  *)

LargeRead == flash[large.index]

Reading(kinds) == large.kind = "read" /\ state.kind \in kinds

\* The part of the large page copied from or to lies in it.
InPage == Offset(state.page_number) \in Slots

\* The client's callback: its page goes back, the large page buffer stays.
Return ==
  /\ pagebuffer' = "cell"
  /\ client_pagebuffer' = NoContents
  /\ large' = NoLarge
  /\ job' = NoJob
  /\ UNCHANGED state

ReadCompleteRead ==
  /\ Reading({"Read"}) /\ InPage
  /\ Return
  /\ result' = LargeRead[Offset(state.page_number)]
  /\ UNCHANGED flash

\* Mutant: the whole page is erased for the sake of one part.
PatchedWhole ==
  [s \in Slots |->
     IF s = Offset(state.page_number) /\ state.kind = "Write"
     THEN client_pagebuffer ELSE Erased]

Patched ==
  [LargeRead EXCEPT ![Offset(state.page_number)] =
     IF state.kind = "Write" THEN client_pagebuffer ELSE Erased]

\* When the write back is refused the page buffer is gone with the error.
WriteBack ==
  /\ Reading({"Write", "Erase"}) /\ InPage
  /\ \/ /\ Index(state.page_number) \in LargePages
        /\ large' = [kind |-> "write", index |-> Index(state.page_number),
                     data |-> Patched]
        /\ UNCHANGED pagebuffer
     \/ /\ Refusable(Index(state.page_number))
        /\ large' = NoLarge
        /\ pagebuffer' = "lost"
  /\ UNCHANGED <<state, client_pagebuffer, flash, job, result>>

\* An index past the end of the large page panics; the board's panic handler
\* does not return.
Panic ==
  /\ Reading({"Read", "Write", "Erase"}) /\ ~InPage
  /\ state' = [kind |-> "Panicked"]
  /\ large' = NoLarge
  /\ pagebuffer' = "lost"
  /\ UNCHANGED <<client_pagebuffer, flash, job, result>>

-----------------------------------------------------------------------------
(* write_complete.  The result is ignored, so a failure is not reported.   *)

Programmed(contents) == [flash EXCEPT ![large.index] = contents]

\* Programming erases the large page and goes through it in order.
TornPage(n) ==
  [s \in Slots |-> IF s < n THEN large.data[s] ELSE
                   IF s = n THEN Partial ELSE Erased]

Torn == {flash} \cup {Programmed(TornPage(n)) : n \in 0 .. LargeSlots}

Outcomes == {Programmed(large.data)} \cup (IF "fail" \in Faults THEN Torn ELSE {})

\* Mutant: the large page buffer is not put back after an erase.
WriteCompleteNotHome ==
  /\ large.kind = "write" /\ state.kind \in {"Write", "Erase"}
  /\ flash' \in Outcomes
  /\ pagebuffer' = IF state.kind = "Erase" THEN "lost" ELSE "cell"
  /\ client_pagebuffer' = NoContents
  /\ large' = NoLarge
  /\ job' = NoJob
  /\ UNCHANGED <<state, result>>

\* Mutant: no arm for an erase.
WriteCompleteOnly ==
  /\ large.kind = "write" /\ state.kind = "Write"
  /\ flash' \in Outcomes
  /\ Return
  /\ UNCHANGED result

WriteComplete ==
  /\ large.kind = "write" /\ state.kind \in {"Write", "Erase"}
  /\ flash' \in Outcomes
  /\ Return
  /\ UNCHANGED result

-----------------------------------------------------------------------------
PowerCycle ==
  /\ flash' \in (IF large.kind = "write" THEN Torn ELSE {flash})
  /\ state' = Idle
  /\ pagebuffer' = "cell"
  /\ client_pagebuffer' = NoContents
  /\ large' = NoLarge
  /\ job' = NoJob
  /\ result' = NoContents

ReadComplete == ReadCompleteRead \/ WriteBack \/ Panic

Next ==
  \/ ReadPage \/ WritePage \/ ErasePage
  \/ ReadComplete \/ WriteComplete
  \/ PowerCycle

Init ==
  /\ state = Idle
  /\ pagebuffer = "cell"
  /\ client_pagebuffer = NoContents
  /\ large = NoLarge
  /\ flash \in [LargePages -> LargePage]
  /\ job = NoJob
  /\ result = NoContents

Spec == Init /\ [][Next]_vars

\* The large flash completes what it accepted.
FairSpec == Spec /\ WF_vars(ReadComplete) /\ WF_vars(WriteComplete)

-----------------------------------------------------------------------------
(* Properties.                                                             *)

\* Type invariant of struct FlashLargeToSmall.
TypeOK ==
  /\ \/ state \in {Idle, [kind |-> "Panicked"]}
     \/ state \in [kind : {"Read", "Write", "Erase"}, page_number : Named]
  /\ pagebuffer \in {"cell", "below", "lost"}
  /\ client_pagebuffer \in Contents \cup {NoContents}
  /\ \/ large = NoLarge
     \/ large \in [kind : {"read"}, index : LargePages]
     \/ large \in [kind : {"write"}, index : LargePages, data : LargePage]
  /\ flash \in [LargePages -> LargePage]
  /\ result \in Contents \cup {NoContents}

\* Both buffers are where the next step takes them from: between calls the
\* large one is at home and the client's is back with the client, or a call
\* would be refused or would overwrite it; during a call `state` is what the
\* callbacks need to finish that call and no other.
BuffersHome ==
  /\ job = NoJob => pagebuffer = "cell" /\ large = NoLarge
  /\ job # NoJob /\ state.kind # "Panicked" =>
       /\ pagebuffer # "cell"
       /\ state.page_number = job.page
       /\ <<state.kind, job.kind>> \in {<<"Read", "read">>, <<"Write", "write">>,
                                       <<"Erase", "erase">>}
  /\ client_pagebuffer # NoContents <=> job.kind \in {"read", "write"}
  /\ pagebuffer = "below" <=> large # NoLarge

\* Every call the adapter accepted is answered, unless the large flash refused
\* the write back.  (A panic answers nothing.)
Completed ==
  job # NoJob ~>
    (job = NoJob \/ (pagebuffer = "lost" /\ state.kind # "Panicked"))

\* The adapter is a flash of small pages.  What is programmed together is a
\* large page.
Pages  == [p \in SmallPages |-> flash[p \div LargeSlots][p % LargeSlots]]
NearTo == [p \in SmallPages |->
             {q \in SmallPages : q \div LargeSlots = p \div LargeSlots}]

Small == INSTANCE PageFlash WITH PageNumbers <- SmallPages, pages <- Pages

PageFlashSpec == Small!Spec

=============================================================================
