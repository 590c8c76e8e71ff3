------------------------- MODULE MCSam71FlashDirect -------------------------
(***************************************************************************)
(* Two pages, two contents besides erased and partly programmed.           *)
(***************************************************************************)
EXTENDS Sam71FlashDirect

CONSTANTS a, b, erased, partial, none

AllContents == {a, b, erased, partial}
AllFaults   == {"refuse", "fail"}

=============================================================================
