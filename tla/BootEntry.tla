----------------------------- MODULE BootEntry -----------------------------
(***************************************************************************)
(* From a reset to the bootloader or the kernel: BootloaderEnterer in      *)
(* bootloader.rs and the deciders that boards give it, with the two words  *)
(* that outlive a reset: a retention register (GPREGRET of the nRF52,      *)
(* GPBR7 of the SAMV71) and a word of RAM.                                 *)
(*                                                                         *)
(* The steps of a boot are the volatile writes and reads that a reset can  *)
(* come between.  Two bootloaders may be chained: the kernel of the first  *)
(* is then the second.                                                     *)
(*                                                                         *)
(* External: the kernel, which may ask for the bootloader or be reset by   *)
(* itself; the reset button, power, the select pin, and the commands that  *)
(* change the image.                                                       *)
(***************************************************************************)
EXTENDS Integers, FiniteSets

CONSTANTS
  Boards,        \* [decider, keeps]: keeps are the resets the register outlives
  KERNEL_MIN, KERNEL_MAX,  \* 0x8000 and 0x200000
  FlashEnd,      \* the end of the flash of the chip
  Starts,        \* what the word of the start address may be
  Samples        \* 10000

ASSUME EntryAssumption ==
  /\ \A b \in Boards : /\ b.decider \in {"register", "double_reset", "gpio", "always"}
                       /\ b.keeps \subseteq {"soft", "pin"}
  /\ Starts \subseteq Nat /\ KERNEL_MIN \in Nat /\ KERNEL_MAX \in Nat /\ FlashEnd \in Nat
  /\ Samples \in Nat \ {0}

DFU_MAGIC_TOCK_BOOTLOADER1 == 144
DFU_MAGIC_TOCK_BOOTLOADER2 == 145
DFU_DBL_RESET_MAGIC == 5905109

VARIABLES
  board,
  gpregret, double_reset,    \* what outlives a reset
  select_low,                \* the select pin; low is active, against README.md:33
  active, inactive,          \* counts of its samples
  start_address, image,      \* of each bootloader: where its kernel is, and what is there
  stage,                     \* which of two chained bootloaders runs
  pc,
  \* History: what calls for the bootloader since it last ran, and whether the
  \* select pin was low since the reset, all the time and at any time.
  why, held_low, seen_low

flagsVars == <<start_address, image>>
pinVars   == <<select_low, active, inactive, held_low, seen_low>>
vars == <<board, gpregret, double_reset, flagsVars, stage, pc, why, pinVars>>

Stages  == {1, 2}
Images  == {"erased", "kernel", "bootloader"}
Running == {"active", "kernel", "fault"}
Steps   == {"reset", "sample", "window", "closing", "jump"}

UsesRegister == board.decider = "register"
UsesWindow   == board.decider \in {"register", "double_reset"}

InKernelRange(address) == KERNEL_MIN <= address /\ address < KERNEL_MAX

Bootable ==
  /\ InKernelRange(start_address[stage]) /\ start_address[stage] < FlashEnd
  /\ image[stage] # "erased"

-----------------------------------------------------------------------------
(* stay_in_bootloader: the steps to its answer.                             *)

GoTo(step) == pc' = step /\ UNCHANGED <<board, flagsVars, stage>>

\* Mutant: only the mark of a bootloader is recognised.
AsksFromSecond == gpregret >= DFU_MAGIC_TOCK_BOOTLOADER2

\* What the kernel has written, or the first of two bootloaders.
AsksToStay == gpregret >= DFU_MAGIC_TOCK_BOOTLOADER1

\* Mutant: the request is left in the register.
RequestNotCleared ==
  /\ pc = "reset" /\ UsesRegister /\ AsksToStay
  /\ GoTo("active")
  /\ UNCHANGED <<gpregret, double_reset, why, pinVars>>

Requested ==
  /\ pc = "reset" /\ UsesRegister /\ AsksToStay
  /\ gpregret' = 0
  /\ GoTo("active")
  /\ UNCHANGED <<double_reset, why, pinVars>>

NotRequested == UsesRegister => ~AsksToStay

SecondReset ==
  /\ pc = "reset" /\ UsesWindow /\ NotRequested
  /\ double_reset = DFU_DBL_RESET_MAGIC
  /\ double_reset' = 0
  /\ GoTo("active")
  /\ UNCHANGED <<gpregret, why, pinVars>>

\* The busy loop starts.
FirstReset ==
  /\ pc = "reset" /\ UsesWindow /\ NotRequested
  /\ double_reset # DFU_DBL_RESET_MAGIC
  /\ double_reset' = DFU_DBL_RESET_MAGIC
  /\ GoTo("window")
  /\ UNCHANGED <<gpregret, why, pinVars>>

\* Mutant: the word is left set when the loop ends.
WordNotCleared ==
  /\ pc = "window"
  /\ GoTo(IF UsesRegister THEN "closing" ELSE "jump")
  /\ UNCHANGED <<gpregret, double_reset, why, pinVars>>

\* It ends without another reset.
WindowEnds ==
  /\ pc = "window"
  /\ double_reset' = 0
  /\ GoTo(IF UsesRegister THEN "closing" ELSE "jump")
  /\ UNCHANGED <<gpregret, why, pinVars>>

\* For a second bootloader to stay.
LeaveMark ==
  /\ pc = "closing"
  /\ gpregret' = DFU_MAGIC_TOCK_BOOTLOADER2
  /\ GoTo("jump")
  /\ UNCHANGED <<double_reset, why, pinVars>>

\* BootloaderEntryAlways.
Always ==
  /\ pc = "reset" /\ board.decider = "always"
  /\ GoTo("active")
  /\ UNCHANGED <<gpregret, double_reset, why, pinVars>>

\* BootloaderEntryGpio.
StartSampling ==
  /\ pc = "reset" /\ board.decider = "gpio"
  /\ GoTo("sample")
  /\ UNCHANGED <<gpregret, double_reset, why, pinVars>>

\* Mutant: the loop counts the samples of one kind only.
SampleLowOnly ==
  /\ pc = "sample" /\ active + inactive < Samples
  /\ active' = active + (IF select_low THEN 1 ELSE 0)
  /\ GoTo("sample")
  /\ UNCHANGED <<gpregret, double_reset, why, select_low, inactive, held_low, seen_low>>

Sample ==
  /\ pc = "sample" /\ active + inactive < Samples
  /\ active' = active + (IF select_low THEN 1 ELSE 0)
  /\ inactive' = inactive + (IF select_low THEN 0 ELSE 1)
  /\ GoTo("sample")
  /\ UNCHANGED <<gpregret, double_reset, why, select_low, held_low, seen_low>>

MoreActive == active > inactive

EndSampling ==
  /\ pc = "sample" /\ active + inactive = Samples
  /\ GoTo(IF MoreActive THEN "active" ELSE "jump")
  /\ UNCHANGED <<gpregret, double_reset, why, pinVars>>

-----------------------------------------------------------------------------
(* BootloaderEnterer::jump.  Reading the stack pointer from an address in   *)
(* the range of kernels that the chip has no flash for is a fault.          *)

ValidStart == InKernelRange(start_address[stage])

NoKernel ==
  /\ pc = "jump"
  /\ \/ ~ValidStart
     \/ ValidStart /\ start_address[stage] < FlashEnd /\ image[stage] = "erased"
  /\ GoTo("active")
  /\ UNCHANGED <<gpregret, double_reset, why, pinVars>>

Faults ==
  /\ pc = "jump" /\ ValidStart /\ start_address[stage] >= FlashEnd
  /\ GoTo("fault")
  /\ UNCHANGED <<gpregret, double_reset, why, pinVars>>

Jump ==
  /\ pc = "jump" /\ ValidStart /\ start_address[stage] < FlashEnd
  /\ image[stage] # "erased"
  /\ \/ /\ image[stage] = "kernel"
        /\ pc' = "kernel"
        /\ UNCHANGED stage
     \/ /\ image[stage] = "bootloader" /\ stage = 1
        /\ stage' = 2 /\ pc' = "reset"
  /\ active' = 0 /\ inactive' = 0
  /\ UNCHANGED <<board, flagsVars, gpregret, double_reset, why,
                 select_low, held_low, seen_low>>

-----------------------------------------------------------------------------
(* Resets.                                                                  *)

\* The mark that was left for a second bootloader is still there.
Marked == UsesRegister /\ gpregret = DFU_MAGIC_TOCK_BOOTLOADER2

\* What called for the bootloader and was not dealt with when the reset came.
Pending == IF pc \in Steps THEN why ELSE {}
Twice   == IF pc = "window" THEN {"double"} ELSE Pending \cap {"double"}
Asked   == (Pending \cap {"request"}) \cup (IF Marked THEN {"mark"} ELSE {})

Reset(kind, because) ==
  /\ pc' = "reset" /\ stage' = 1
  /\ gpregret' = IF kind \in board.keeps THEN gpregret ELSE 0
  /\ active' = 0 /\ inactive' = 0
  /\ held_low' = select_low /\ seen_low' = select_low
  /\ why' = because
  /\ UNCHANGED <<board, flagsVars, select_low>>

\* bootloader_exit.
Exit ==
  /\ pc = "active"
  /\ Reset("soft", Asked)
  /\ UNCHANGED double_reset

KernelAsks ==
  /\ pc = "kernel" /\ UsesRegister
  /\ pc' = "reset" /\ stage' = 1 /\ gpregret' = DFU_MAGIC_TOCK_BOOTLOADER1
  /\ active' = 0 /\ inactive' = 0
  /\ held_low' = select_low /\ seen_low' = select_low
  /\ why' = {"request"}
  /\ UNCHANGED <<board, flagsVars, select_low, double_reset>>

KernelResets ==
  /\ pc = "kernel"
  /\ Reset("soft", Asked)
  /\ UNCHANGED double_reset

PinReset ==
  /\ Reset("pin", Twice \cup (IF "pin" \in board.keeps THEN Asked ELSE {}))
  /\ UNCHANGED double_reset

\* RAM may survive a short one.
PowerCycle ==
  /\ \/ /\ double_reset' = 0
        /\ Reset("power", {})
     \/ /\ UNCHANGED double_reset
        /\ Reset("power", Twice)

-----------------------------------------------------------------------------
(* The rest of the environment.                                             *)

PinMoves ==
  /\ board.decider = "gpio"
  /\ select_low' = ~select_low
  /\ held_low' = FALSE
  /\ seen_low' = TRUE
  /\ UNCHANGED <<board, gpregret, double_reset, flagsVars, stage, pc, why, active, inactive>>

\* SET_START_ADDRESS and the commands that write pages.
Update ==
  /\ pc = "active"
  /\ \E s \in Starts : start_address' = [start_address EXCEPT ![stage] = s]
  /\ \E i \in (IF stage = 1 /\ UsesRegister THEN Images ELSE {"erased", "kernel"}) :
       image' = [image EXCEPT ![stage] = i]
  /\ UNCHANGED <<board, gpregret, double_reset, stage, pc, why, pinVars>>

Init ==
  /\ board \in Boards
  /\ gpregret = 0 /\ double_reset = 0
  /\ select_low \in (IF board.decider = "gpio" THEN BOOLEAN ELSE {FALSE})
  /\ active = 0 /\ inactive = 0
  /\ start_address \in [Stages -> Starts]
  /\ image \in [Stages -> {"erased", "kernel"}]
  /\ stage = 1 /\ pc = "reset"
  /\ why = {} /\ held_low = select_low /\ seen_low = select_low

Boot ==
  \/ Requested \/ SecondReset \/ FirstReset \/ WindowEnds \/ LeaveMark
  \/ Always \/ StartSampling \/ Sample \/ EndSampling
  \/ NoKernel \/ Faults \/ Jump

Next ==
  \/ Boot
  \/ Exit \/ KernelAsks \/ KernelResets \/ PinReset \/ PowerCycle
  \/ PinMoves \/ Update

Spec == Init /\ [][Next]_vars

\* The processor runs.
FairSpec == Spec /\ WF_vars(Boot)

-----------------------------------------------------------------------------
(* Properties.                                                              *)

TypeOK ==
  /\ board \in Boards
  /\ gpregret \in {0, DFU_MAGIC_TOCK_BOOTLOADER1, DFU_MAGIC_TOCK_BOOTLOADER2}
  /\ double_reset \in {0, DFU_DBL_RESET_MAGIC}
  /\ active \in 0 .. Samples /\ inactive \in 0 .. Samples
  /\ active + inactive <= Samples
  /\ start_address \in [Stages -> Starts] /\ image \in [Stages -> Images]
  /\ stage \in Stages /\ pc \in Steps \cup Running
  /\ why \subseteq {"request", "double", "mark"}
  /\ select_low \in BOOLEAN /\ held_low \in BOOLEAN /\ seen_low \in BOOLEAN

\* Whoever asks for the bootloader gets it, whatever the flags and the image are,
\* also when starting them fails: after a request of the kernel, a second reset
\* in the window of the first, or with the select pin held low, neither the
\* kernel nor a fault is reached (the deciders; bootloader.rs:98-107).  The pin
\* calls when it is low, as bootloader_entry_gpio.rs:29 has it; README.md:33 says
\* high.
RequestsHonoured ==
  pc \in {"kernel", "fault"} =>
    /\ why \cap {"request", "double"} = {}
    /\ (board.decider = "gpio" => ~held_low)
    /\ board.decider # "always"

\* With a kernel to start, the bootloader stays only for a reason: a request, a
\* second reset, the mark of the bootloader before it, the select pin, which calls
\* when it is low, as above.  One request is one visit: the words that ask are
\* cleared as they are read (entry_gpregret.rs:68, :101).
StaysForAReason ==
  [][pc # "active" /\ pc' = "active" /\ Bootable =>
       \/ why # {}
       \/ (stage = 2 /\ UsesRegister)
       \/ (board.decider = "gpio" /\ seen_low)
       \/ board.decider = "always"]_vars

\* The word that detects a second reset is set in the window only, or until the
\* reset that came in it is dealt with: neither the bootloader nor the kernel
\* runs with it set, so that no later reset is taken for a second one.
WordOnlyInWindow ==
  double_reset = DFU_DBL_RESET_MAGIC =>
    \/ pc = "window"
    \/ (pc = "reset" /\ "double" \in why)

\* Unless resets come for ever, a boot ends in the bootloader, a kernel, or a
\* fault: also when it is the second of two bootloaders, whatever the words and
\* the flags hold, and whatever the select pin does (each busy loop ends).
Boots ==
  \/ []<><<PinReset \/ PowerCycle>>_vars
  \/ (pc \in Steps ~> pc \in Running)

=============================================================================
