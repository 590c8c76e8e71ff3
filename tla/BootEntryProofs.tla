--------------------------- MODULE BootEntryProofs ---------------------------
(***************************************************************************)
(* Theorems about BootEntry, for any boards, kernel ranges, start          *)
(* addresses and number of samples.                                        *)
(***************************************************************************)
EXTENDS BootEntry, TLAPS

\* Each step of the boot is reached only by the decider it belongs to, the window
\* with its word set.
OwnSteps ==
  /\ pc = "sample"  => board.decider = "gpio"
  /\ pc = "window"  => UsesWindow /\ double_reset = DFU_DBL_RESET_MAGIC
  /\ pc = "closing" => UsesRegister
  /\ pc \in {"jump", "kernel", "fault"} => board.decider # "always"

\* A request that is pending is still in its register, and nothing else is
\* pending with it.
RequestWaits ==
  pc \in Steps /\ "request" \in why =>
    /\ pc = "reset" /\ UsesRegister
    /\ gpregret = DFU_MAGIC_TOCK_BOOTLOADER1
    /\ "double" \notin why

\* A second reset that is pending is the next thing to be found.
DoubleWaits ==
  pc \in Steps /\ "double" \in why =>
    /\ pc = "reset" /\ UsesWindow
    /\ double_reset = DFU_DBL_RESET_MAGIC
    /\ NotRequested

\* The register asks for a first bootloader only for a reason.
RegisterHasReason ==
  /\ gpregret = DFU_MAGIC_TOCK_BOOTLOADER1 => pc = "reset" /\ "request" \in why
  /\ pc = "reset" /\ UsesRegister /\ gpregret # 0 => why # {} \/ stage = 2
  /\ pc \in {"window", "closing"} => ~(UsesRegister /\ AsksToStay)

\* The samples so far, and what is known of the pin they were taken from.
SamplesTrue ==
  board.decider = "gpio" =>
    /\ select_low => seen_low
    /\ held_low => select_low
    /\ active > 0 => seen_low
    /\ pc = "reset" => active = 0 /\ inactive = 0
    /\ pc = "sample" /\ held_low => inactive = 0
    /\ pc \in {"jump", "kernel", "fault"} => ~held_low

Inv ==
  /\ TypeOK
  /\ RequestsHonoured
  /\ WordOnlyInWindow
  /\ OwnSteps
  /\ RequestWaits
  /\ DoubleWaits
  /\ RegisterHasReason
  /\ SamplesTrue

\* Of the words only this matters.
LEMMA Words ==
  /\ DFU_MAGIC_TOCK_BOOTLOADER1 \in Nat /\ DFU_MAGIC_TOCK_BOOTLOADER2 \in Nat
  /\ 0 < DFU_MAGIC_TOCK_BOOTLOADER1
  /\ DFU_MAGIC_TOCK_BOOTLOADER1 < DFU_MAGIC_TOCK_BOOTLOADER2
  /\ DFU_DBL_RESET_MAGIC \in Nat /\ DFU_DBL_RESET_MAGIC # 0
BY SMT DEF DFU_MAGIC_TOCK_BOOTLOADER1, DFU_MAGIC_TOCK_BOOTLOADER2, DFU_DBL_RESET_MAGIC

USE Words DEF Steps, Running, Stages, Images

LEMMA InitInv == Init => Inv
<1> SUFFICES ASSUME Init PROVE Inv
  OBVIOUS
<1>1. TypeOK
  <2>1. select_low \in BOOLEAN
    BY DEF Init
  <2>2. held_low \in BOOLEAN /\ seen_low \in BOOLEAN
    BY <2>1 DEF Init
  <2>3. 0 \in 0 .. Samples /\ 0 + 0 <= Samples
    BY EntryAssumption
  <2> QED BY <2>1, <2>2, <2>3 DEF Init, TypeOK
<1>2. RequestsHonoured /\ WordOnlyInWindow /\ OwnSteps
  BY DEF Init, RequestsHonoured, WordOnlyInWindow, OwnSteps
<1>3. RequestWaits /\ DoubleWaits /\ RegisterHasReason
  BY DEF Init, RequestWaits, DoubleWaits, RegisterHasReason
<1>4. SamplesTrue
  BY DEF Init, SamplesTrue
<1> QED BY <1>1, <1>2, <1>3, <1>4 DEF Inv

-----------------------------------------------------------------------------
(* The steps of the deciders that read or write the words.                 *)

LEMMA WordSteps ==
  ASSUME Inv, Requested \/ SecondReset \/ FirstReset \/ WindowEnds \/ LeaveMark
  PROVE  Inv'
<1> USE DEF Inv, GoTo, pinVars, flagsVars, UsesRegister, UsesWindow, NotRequested, AsksToStay
<1>1. TypeOK'
  BY DEF Requested, SecondReset, FirstReset, WindowEnds, LeaveMark, TypeOK
<1>2. RequestsHonoured' /\ OwnSteps'
  BY DEF Requested, SecondReset, FirstReset, WindowEnds, LeaveMark,
         RequestsHonoured, OwnSteps
<1>3. WordOnlyInWindow'
  BY DEF Requested, SecondReset, FirstReset, WindowEnds, LeaveMark,
         WordOnlyInWindow, DoubleWaits
<1>4. RequestWaits' /\ DoubleWaits'
  BY DEF Requested, SecondReset, FirstReset, WindowEnds, LeaveMark,
         RequestWaits, DoubleWaits, TypeOK
<1>5. RegisterHasReason'
  BY DEF Requested, SecondReset, FirstReset, WindowEnds, LeaveMark,
         RegisterHasReason, RequestWaits, TypeOK
<1>6. SamplesTrue'
  BY DEF Requested, SecondReset, FirstReset, WindowEnds, LeaveMark,
         SamplesTrue, OwnSteps
<1> QED BY <1>1, <1>2, <1>3, <1>4, <1>5, <1>6

(* Those that do not, and the jump.                                        *)

LEMMA OtherSteps ==
  ASSUME Inv, Always \/ StartSampling \/ Sample \/ EndSampling
  PROVE  Inv'
<1> USE DEF Inv, GoTo, pinVars, flagsVars, UsesRegister, UsesWindow, NotRequested, AsksToStay
<1>1. TypeOK'
  <2>1. CASE Sample
    <3>1. /\ active' \in 0 .. Samples /\ inactive' \in 0 .. Samples
          /\ active' + inactive' <= Samples
      <4>1. CASE select_low
        BY <2>1, <4>1, EntryAssumption DEF Sample, TypeOK
      <4>2. CASE ~select_low
        BY <2>1, <4>2, EntryAssumption DEF Sample, TypeOK
      <4> QED BY <4>1, <4>2
    <3> QED BY <2>1, <3>1 DEF Sample, TypeOK
  <2>2. CASE Always \/ StartSampling \/ EndSampling
    BY <2>2 DEF Always, StartSampling, EndSampling, TypeOK
  <2> QED BY <2>1, <2>2
<1>2. RequestsHonoured' /\ OwnSteps'
  BY DEF Always, StartSampling, Sample, EndSampling, RequestsHonoured, OwnSteps
<1>3. WordOnlyInWindow'
  BY DEF Always, StartSampling, Sample, EndSampling, WordOnlyInWindow, DoubleWaits
<1>4. RequestWaits' /\ DoubleWaits'
  BY DEF Always, StartSampling, Sample, EndSampling, RequestWaits, DoubleWaits
<1>5. RegisterHasReason'
  BY DEF Always, StartSampling, Sample, EndSampling, RegisterHasReason, RequestWaits
<1>6. SamplesTrue'
  BY EntryAssumption
  DEF Always, StartSampling, Sample, EndSampling, MoreActive, SamplesTrue, OwnSteps, TypeOK
<1> QED BY <1>1, <1>2, <1>3, <1>4, <1>5, <1>6

LEMMA Jumps ==
  ASSUME Inv, NoKernel \/ Faults \/ Jump
  PROVE  Inv'
<1> USE DEF Inv, GoTo, pinVars, flagsVars, UsesRegister, UsesWindow, NotRequested, AsksToStay
<1>1. TypeOK'
  <2>1. CASE Jump
    <3>1. 0 \in 0 .. Samples /\ 0 + 0 <= Samples
      BY EntryAssumption
    <3> QED BY <2>1, <3>1 DEF Jump, TypeOK
  <2>2. CASE NoKernel \/ Faults
    BY <2>2 DEF NoKernel, Faults, TypeOK
  <2> QED BY <2>1, <2>2
<1>2. RequestsHonoured' /\ OwnSteps'
  BY DEF NoKernel, Faults, Jump, RequestsHonoured, OwnSteps, RequestWaits,
         DoubleWaits, SamplesTrue
<1>3. WordOnlyInWindow'
  BY DEF NoKernel, Faults, Jump, WordOnlyInWindow
<1>4. RequestWaits' /\ DoubleWaits'
  BY DEF NoKernel, Faults, Jump, RequestWaits, DoubleWaits
<1>5. RegisterHasReason'
  BY DEF NoKernel, Faults, Jump, RegisterHasReason
<1>6. SamplesTrue'
  BY DEF NoKernel, Faults, Jump, SamplesTrue
<1> QED BY <1>1, <1>2, <1>3, <1>4, <1>5, <1>6

-----------------------------------------------------------------------------
(* Resets.                                                                 *)

LEMMA Resets ==
  ASSUME Inv, Exit \/ KernelAsks \/ KernelResets \/ PinReset \/ PowerCycle
  PROVE  Inv'
<1> USE DEF Inv, Reset, flagsVars, UsesRegister, UsesWindow, NotRequested, AsksToStay,
        Marked, Pending, Twice, Asked
<1>0. "power" \notin board.keeps
  BY EntryAssumption DEF TypeOK
<1>1. TypeOK'
  BY EntryAssumption DEF Exit, KernelAsks, KernelResets, PinReset, PowerCycle, TypeOK
<1>2. RequestsHonoured' /\ OwnSteps'
  BY DEF Exit, KernelAsks, KernelResets, PinReset, PowerCycle, RequestsHonoured, OwnSteps
<1>3. WordOnlyInWindow'
  BY DEF Exit, KernelAsks, KernelResets, PinReset, PowerCycle, WordOnlyInWindow
<1>4. RequestWaits'
  BY <1>0 DEF Exit, KernelAsks, KernelResets, PinReset, PowerCycle, RequestWaits,
     DoubleWaits, OwnSteps, RegisterHasReason
<1>5. DoubleWaits'
  BY <1>0 DEF Exit, KernelAsks, KernelResets, PinReset, PowerCycle, RequestWaits,
     DoubleWaits, OwnSteps, RegisterHasReason, WordOnlyInWindow, TypeOK
<1>6. RegisterHasReason'
  <2>1. CASE KernelAsks
    BY <2>1 DEF KernelAsks, RegisterHasReason
  <2>2. CASE PowerCycle
    BY <1>0, <2>2 DEF PowerCycle, RegisterHasReason
  <2>3. CASE Exit \/ KernelResets \/ PinReset
    <3>1. pc' = "reset" /\ UNCHANGED board /\ gpregret' \in {0, gpregret}
      BY <2>3 DEF Exit, KernelResets, PinReset
    <3>2. ASSUME gpregret' = DFU_MAGIC_TOCK_BOOTLOADER1
          PROVE  "request" \in why'
      <4>1. pc = "reset" /\ "request" \in why
        BY <3>1, <3>2 DEF RegisterHasReason
      <4> QED BY <2>3, <3>2, <4>1 DEF Exit, KernelResets, PinReset
    <3>3. ASSUME UsesRegister, gpregret' = DFU_MAGIC_TOCK_BOOTLOADER2
          PROVE  "mark" \in why'
      <4>1. Marked
        BY <3>1, <3>3
      <4> QED BY <2>3, <3>3, <4>1 DEF Exit, KernelResets, PinReset
    <3>4. gpregret' \in {0, DFU_MAGIC_TOCK_BOOTLOADER1, DFU_MAGIC_TOCK_BOOTLOADER2}
      BY <3>1 DEF TypeOK
    <3> QED BY <3>1, <3>2, <3>3, <3>4 DEF RegisterHasReason
  <2> QED BY <2>1, <2>2, <2>3
<1>7. SamplesTrue'
  BY DEF Exit, KernelAsks, KernelResets, PinReset, PowerCycle, SamplesTrue
<1> QED BY <1>1, <1>2, <1>3, <1>4, <1>5, <1>6, <1>7

LEMMA Environment ==
  ASSUME Inv, PinMoves \/ Update \/ UNCHANGED vars
  PROVE  Inv'
<1> USE DEF Inv, flagsVars, pinVars, UsesRegister, UsesWindow, NotRequested, AsksToStay
<1>1. TypeOK'
  <2>1. CASE PinMoves \/ UNCHANGED vars
    BY <2>1 DEF PinMoves, vars, TypeOK
  <2>2. CASE Update
    BY <2>2 DEF Update, TypeOK
  <2> QED BY <2>1, <2>2
<1>2. RequestsHonoured' /\ OwnSteps' /\ WordOnlyInWindow'
  BY DEF PinMoves, Update, vars, RequestsHonoured, OwnSteps, WordOnlyInWindow
<1>3. RequestWaits' /\ DoubleWaits' /\ RegisterHasReason'
  BY DEF PinMoves, Update, vars, RequestWaits, DoubleWaits, RegisterHasReason
<1>4. SamplesTrue'
  BY DEF PinMoves, Update, vars, SamplesTrue
<1> QED BY <1>1, <1>2, <1>3, <1>4

LEMMA NextInv == Inv /\ [Next]_vars => Inv'
BY WordSteps, OtherSteps, Jumps, Resets, Environment DEF Next, Boot

-----------------------------------------------------------------------------
\* The words that outlive resets hold 0 or the marks, and the samples stay within
\* the 10000 that are taken (the deciders).
THEOREM TypeCorrect == Spec => []TypeOK
<1>1. Inv => TypeOK
  BY DEF Inv
<1> QED BY <1>1, InitInv, NextInv, PTL DEF Spec

\* A kernel's request, a second reset in time, and a select pin held low reach the
\* bootloader however many resets come before it runs and wherever they come.
THEOREM Honoured == Spec => []RequestsHonoured
<1>1. Inv => RequestsHonoured
  BY DEF Inv
<1> QED BY <1>1, InitInv, NextInv, PTL DEF Spec

\* No reset is taken for a second one that was not in the window of the first
\* (bootloader_entry_doublereset.rs).
THEOREM WordCleared == Spec => []WordOnlyInWindow
<1>1. Inv => WordOnlyInWindow
  BY DEF Inv
<1> QED BY <1>1, InitInv, NextInv, PTL DEF Spec

\* With a kernel to start the bootloader stays only for a reason.
THEOREM NoReasonNoStay == Spec => StaysForAReason
<1>1. ASSUME Inv, [Next]_vars
      PROVE  [pc # "active" /\ pc' = "active" /\ Bootable =>
                \/ why # {}
                \/ (stage = 2 /\ UsesRegister)
                \/ (board.decider = "gpio" /\ seen_low)
                \/ board.decider = "always"]_vars
  <2>1. CASE Requested
    BY <1>1, <2>1 DEF Requested, Inv, RegisterHasReason, AsksToStay
  <2>2. CASE SecondReset
    BY <1>1, <2>2 DEF SecondReset, Inv, WordOnlyInWindow
  <2>3. CASE EndSampling
    BY <1>1, <2>3 DEF EndSampling, GoTo, MoreActive, Inv, SamplesTrue, OwnSteps, TypeOK
  <2>4. CASE NoKernel
    BY <2>4 DEF NoKernel, Bootable, ValidStart
  <2>5. CASE Always
    BY <2>5 DEF Always
  <2>6. CASE FirstReset \/ WindowEnds \/ LeaveMark \/ StartSampling \/ Sample \/ Faults \/ Jump
    BY <2>6 DEF FirstReset, WindowEnds, LeaveMark, StartSampling, Sample, Faults, Jump, GoTo
  <2>7. CASE Exit \/ KernelAsks \/ KernelResets \/ PinReset \/ PowerCycle
    BY <2>7 DEF Exit, KernelAsks, KernelResets, PinReset, PowerCycle, Reset
  <2>8. CASE PinMoves \/ Update
    BY <2>8 DEF PinMoves, Update
  <2> QED BY <1>1, <2>1, <2>2, <2>3, <2>4, <2>5, <2>6, <2>7, <2>8 DEF Next, Boot
<1> QED BY <1>1, InitInv, NextInv, PTL DEF Spec, StaysForAReason

=============================================================================
