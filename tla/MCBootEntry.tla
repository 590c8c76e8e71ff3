---------------------------- MODULE MCBootEntry ----------------------------
(***************************************************************************)
(* Instances of BootEntry.  Kernels lie from 2 to 5, of which the chip has  *)
(* flash up to 4; the start address is below, in, or above each of these.  *)
(***************************************************************************)
EXTENDS BootEntry

\* GPREGRET is lost when the pin resets the nRF52; GPBR7 of the SAMV71 is not.
Nrf52  == [decider |-> "register", keeps |-> {"soft"}]
Samv71 == [decider |-> "register", keeps |-> {"soft", "pin"}]

AllBoards ==
  {Nrf52, Samv71, [decider |-> "double_reset", keeps |-> {}],
   [decider |-> "gpio", keeps |-> {}], [decider |-> "always", keeps |-> {}]}

=============================================================================
