------------------------------ MODULE PageFlash ------------------------------
(***************************************************************************)
(* What the flash adapters promise the bootloader: flash is an array of    *)
(* 512-byte pages, one operation runs at a time, an accepted one ends in   *)
(* one callback, and it changes the page it names and nothing else, as     *)
(* long as it is not interrupted.  An interrupted one may damage the pages *)
(* the device programs together with it.                                   *)
(*                                                                         *)
(* A page's contents are opaque.  A refused call changes nothing.          *)
(***************************************************************************)

CONSTANTS
  PageNumbers,
  Contents, Erased, Partial,  \* Partial: programming stopped within the page
  NoContents,
  NearTo,                     \* the pages programmed together with each page
  Faults                      \* "fail": an accepted operation may fail

VARIABLES
  pages,     \* the contents of each page
  job,       \* the operation accepted and not completed
  result     \* what the last completed read returned

vars == <<pages, job, result>>

NoJob == [kind |-> "none"]

Jobs ==
       [kind : {"read", "erase"}, page : PageNumbers]
  \cup [kind : {"write"}, page : PageNumbers, data : Contents]

\* What the job makes of page q.
After(q) ==
  IF job.kind = "write" /\ q = job.page THEN job.data
  ELSE IF job.kind = "erase" /\ q = job.page THEN Erased
  ELSE pages[q]

\* Only a job that programs damages anything, and only near its page.
Damaged(new) ==
  \A q \in PageNumbers :
    IF job.kind \in {"write", "erase"} /\ q \in NearTo[job.page]
    THEN new[q] \in {pages[q], After(q), Erased, Partial}
    ELSE new[q] = pages[q]

-----------------------------------------------------------------------------
Init ==
  /\ pages \in [PageNumbers -> Contents]
  /\ job = NoJob
  /\ result = NoContents

Call ==
  /\ job = NoJob
  /\ job' \in Jobs
  /\ UNCHANGED <<pages, result>>

Complete ==
  /\ job # NoJob
  /\ job' = NoJob
  /\ result' = IF job.kind = "read" THEN pages[job.page] ELSE result
  /\ pages' \in [PageNumbers -> Contents]
  /\ \/ \A q \in PageNumbers : pages'[q] = After(q)
     \/ "fail" \in Faults /\ Damaged(pages')

\* A read whose callback comes before the call returns.
ReadAtOnce ==
  /\ job = NoJob
  /\ \E p \in PageNumbers : result' = pages[p]
  /\ UNCHANGED <<pages, job>>

PowerCycle ==
  /\ job' = NoJob
  /\ result' = NoContents
  /\ pages' \in [PageNumbers -> Contents]
  /\ Damaged(pages')

Next == Call \/ Complete \/ ReadAtOnce \/ PowerCycle

Spec == Init /\ [][Next]_vars

=============================================================================
