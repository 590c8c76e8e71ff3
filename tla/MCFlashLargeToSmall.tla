------------------------- MODULE MCFlashLargeToSmall -------------------------
(***************************************************************************)
(* Two large pages, two contents besides erased and partly programmed.     *)
(***************************************************************************)
EXTENDS FlashLargeToSmall, TLC

CONSTANTS a, b, erased, partial, none

AllContents == {a, b, erased, partial}
Refusals    == {"refuse"}
AllFaults   == {"refuse", "fail"}

=============================================================================
