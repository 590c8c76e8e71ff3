----------------------------- MODULE MCUartLink -----------------------------
(***************************************************************************)
(* Instances of UartLink.  A page has 2 bytes and an address 4; the last   *)
(* of the WRITE_PAGEs does not fit into the buffer of 10 bytes once its    *)
(* escape characters are doubled.                                          *)
(***************************************************************************)
EXTENDS UartLink

SomeCommands ==
  {Message("Ping", <<>>), Message("Reset", <<>>), Message("Exit", <<>>),
   Message("ErasePage", <<<<252, 35, 0, 6>>>>),
   Message("SetStartAddress", <<<<0, 252, 252, 1>>>>),
   Message("SetAttr", <<<<1>>, <<252>>, <<0>>>>),
   Message("WritePage", <<<<0, 2, 0, 0>>, <<252, 7>>>>),
   Message("WritePage", <<<<252, 5, 0, 0>>, <<252, 252>>>>),
   Message("WritePage", <<<<252, 252, 252, 252>>, <<252, 35>>>>)}

=============================================================================
