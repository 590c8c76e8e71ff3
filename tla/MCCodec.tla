------------------------------ MODULE MCCodec -------------------------------
(***************************************************************************)
(* Instances of Codec.  Arguments are made of escape characters, of bytes  *)
(* that are codes, and of zero; every kind of command and of response is   *)
(* there, those with a payload with an escape character in it; but not a   *)
(* READ_RANGE of no bytes, whose response is never delivered: load_char    *)
(* completes it in handle_escape (lib.rs:745), which drops what it returns.*)
(***************************************************************************)
EXTENDS Codec

A == <<252, 7, 252, 1>>
B == <<0, 252, 252, 6>>

Fields ==
  [k \in {"ErasePage", "EraseExBlock", "EraseExPage", "SetStartAddress"} |-> {<<A>>, <<B>>}]
  @@ [k \in {"ReadRange", "ExReadRange"} |-> {<<B, <<2, 0>>>>}]
  @@ [k \in {"CrcIntFlash", "CrcExtFlash", "WriteFlashUserPages"} |-> {<<A, B>>}]
  @@ [WritePage |-> {<<A, <<252, 5>>>>, <<B, <<7, 252>>>>, <<A, <<1>>>>},
      WriteExPage |-> {<<A, <<252>>>>, <<A, <<1, 2>>>>},
      SetAttr |-> {<<<<16>>, <<252>>, <<>>>>, <<<<0>>, <<1>>, <<252, 252>>>>, <<<<17>>, <<1>>, <<>>>>},
      GetAttr |-> {<<<<252>>>>},
      ChangeBaud |-> {<<<<1>>, A>>, <<<<2>>, B>>}]

AllCommands ==
  {Message(k, <<>>) : k \in Bare}
  \cup UNION {{Message(k, f) : f \in Fields[k]} : k \in DOMAIN Fields}

Short == ResponseKinds \ (DOMAIN PayloadLen \cup Unbounded)

AllResponses ==
  {Message(k, <<>>) : k \in Short}
  \cup {Message(k, <<d>>) : k \in Unbounded, d \in {<<252, 21>>, <<17, 252>>}}
  \cup {Message("CrcRxBuffer", <<<<2, 0>>, A>>), Message("CrcIntFlash", <<A>>),
        Message("CrcExtFlash", <<B>>),
        Message("GetAttr", <<<<252>>, <<>>>>), Message("GetAttr", <<<<7>>, <<252, 252>>>>),
        Message("Info", <<<<252>>>>), Message("Info", <<<<1, 252>>>>)}

=============================================================================
