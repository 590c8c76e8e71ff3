------------------------------- MODULE Codec --------------------------------
(***************************************************************************)
(* Two ends that use protocol/src/lib.rs, as a flash tool and a bootloader *)
(* do (lib.rs:32): the host encodes a command, the device decodes it and   *)
(* encodes a response, the host decodes that.  The encoders run byte by    *)
(* byte; a byte may be lost.                                               *)
(*                                                                         *)
(* External: what the ends do with the library.  The host sends one        *)
(* command at a time, gives up when nothing more comes, and then sends     *)
(* PINGs until one is answered; the device answers in any way the command  *)
(* allows.                                                                 *)
(***************************************************************************)
EXTENDS Protocol, TLC

CONSTANTS
  Commands, Responses,
  MaxLost                    \* bytes lost

\* A decoder has room for every message, and a READ_RANGE is of some bytes (MCCodec).
ASSUME CodecAssumption ==
  /\ \A c \in Commands : IsCommand(c) /\ (Encodable(c) => Len(Arguments(c)) <= RxLen)
  /\ \A r \in Responses : /\ IsResponse(r) /\ Len(Payload(r)) + 1 <= RxLen
                          /\ r.kind \in Unbounded => Payload(r) # <<>>
  /\ MaxLost \in Nat

VARIABLES
  phase,         \* of the exchange: host, command, response
  cmd, enc,      \* the command and its encoder
  dec, decoded,  \* the decoder of the device, what it has decoded and not answered
  resp, renc,    \* the response and its encoder
  rdec,          \* the decoder of the host
  understood,    \* what it has decoded in this exchange
  insync,        \* the host has no reason to send PINGs
  lost,
  intact         \* history: nothing was lost in this exchange, nor before it

deviceVars == <<dec, decoded, resp, renc>>
hostVars   == <<cmd, enc, rdec, understood, insync>>
vars == <<phase, hostVars, deviceVars, lost, intact>>

Ping == Message("Ping", <<>>)
Pong == Message("Pong", <<>>)

\* The kind of the result of a command.
ResultKind(c) ==
  CASE c.kind = "Ping" -> "Pong"
    [] c.kind \in {"Info", "CrcRxBuffer", "ReadRange", "ExReadRange", "GetAttr",
                   "CrcIntFlash", "CrcExtFlash"} -> c.kind
    [] OTHER -> "Ok"

Plain(r) == r.fields = <<>>

Answers(c) ==
  IF c.kind \notin CommandKinds THEN {r \in Responses : r.kind = "BadArguments"}
  ELSE {r \in Responses :
          \/ r.kind = ResultKind(c) /\ (c.kind \in Unbounded =>
                                          Len(r.fields[1]) = c.fields[2][1])
          \/ Plain(r) /\ r # Pong /\ c # Ping}

-----------------------------------------------------------------------------
(* The command.                                                             *)

SendCommand ==
  /\ phase = "host"
  /\ \E c \in Commands :
       /\ Encodable(c) /\ (~insync => c = Ping)
       /\ cmd' = c
       /\ rdec' = IF c.kind \in Unbounded THEN SetPayloadLen(rdec, c.fields[2][1]) ELSE rdec
  /\ enc' = FreshEncoder /\ understood' = <<>>
  /\ phase' = "command"
  /\ UNCHANGED <<deviceVars, insync, lost, intact>>

\* CommandEncoder::next, and CommandDecoder::receive.
CommandByte ==
  /\ phase = "command" /\ ~CommandEnded(enc, cmd)
  /\ LET step == NextOfCommand(enc, cmd)
         taken == ReceiveCommand(dec, step[2]) IN
     /\ enc' = step[1]
     /\ dec' = taken[1]
     /\ decoded' = IF taken[2] = None \/ taken[2].kind = "Reset" THEN decoded
                   ELSE Append(decoded, taken[2])
  /\ UNCHANGED <<phase, cmd, rdec, understood, insync, resp, renc, lost, intact>>

CommandByteLost ==
  /\ phase = "command" /\ ~CommandEnded(enc, cmd)
  /\ lost < MaxLost
  /\ lost' = lost + 1 /\ intact' = FALSE
  /\ enc' = NextOfCommand(enc, cmd)[1]
  /\ UNCHANGED <<phase, cmd, rdec, understood, insync, deviceVars>>

-----------------------------------------------------------------------------
(* The response.                                                            *)

Answer ==
  /\ phase = "command" /\ CommandEnded(enc, cmd)
  /\ decoded # <<>> /\ Head(decoded) # Panic
  /\ resp' \in Answers(Head(decoded))
  /\ renc' = FreshEncoder
  /\ decoded' = Tail(decoded)
  /\ phase' = "response"
  /\ UNCHANGED <<hostVars, dec, lost, intact>>

\* The device stops, and is started again.
Restart ==
  /\ phase = "command" /\ CommandEnded(enc, cmd)
  /\ decoded # <<>> /\ Head(decoded) = Panic
  /\ dec' = FreshDecoder /\ decoded' = <<>>
  /\ UNCHANGED <<phase, hostVars, resp, renc, lost, intact>>

\* ResponseEncoder::next, and ResponseDecoder::receive.
ResponseByte ==
  /\ phase = "response" /\ ~ResponseEnded(renc, resp)
  /\ LET step == NextOfResponse(renc, resp)
         taken == ReceiveResponse(rdec, step[2]) IN
     /\ renc' = step[1]
     /\ rdec' = taken[1]
     /\ understood' = IF taken[2] = None THEN understood ELSE Append(understood, taken[2])
  /\ UNCHANGED <<phase, cmd, enc, insync, dec, decoded, resp, lost, intact>>

ResponseByteLost ==
  /\ phase = "response" /\ ~ResponseEnded(renc, resp)
  /\ lost < MaxLost
  /\ lost' = lost + 1 /\ intact' = FALSE
  /\ renc' = NextOfResponse(renc, resp)[1]
  /\ UNCHANGED <<phase, hostVars, dec, decoded, resp>>

ResponseSent ==
  /\ phase = "response" /\ ResponseEnded(renc, resp)
  /\ phase' = "command"
  /\ UNCHANGED <<hostVars, deviceVars, lost, intact>>

-----------------------------------------------------------------------------
(* The host is content with one response, and with none to a RESET.          *)

AsExpected ==
  \/ /\ Len(understood) = 1
     /\ understood[1] \in Answers(cmd)
  \/ cmd.kind = "Reset" /\ insync /\ understood = <<>>

Over == phase = "command" /\ CommandEnded(enc, cmd) /\ decoded = <<>>

Content ==
  /\ Over /\ AsExpected
  /\ insync' = TRUE
  /\ intact' = (intact \/ cmd = Ping)
  /\ phase' = "host"
  /\ UNCHANGED <<cmd, enc, rdec, understood, deviceVars, lost>>

GiveUp ==
  /\ Over /\ ~AsExpected
  /\ insync' = FALSE
  /\ rdec' = ResetDecoder(rdec)
  /\ phase' = "host"
  /\ UNCHANGED <<cmd, enc, understood, deviceVars, lost, intact>>

Init ==
  /\ phase = "host"
  /\ cmd = Ping /\ enc = FreshEncoder
  /\ dec = FreshDecoder /\ decoded = <<>>
  /\ resp = Pong /\ renc = FreshEncoder
  /\ rdec = FreshResponseDecoder /\ understood = <<>>
  /\ insync = TRUE
  /\ lost = 0 /\ intact = TRUE

Next ==
  \/ SendCommand \/ CommandByte \/ CommandByteLost
  \/ Answer \/ Restart \/ ResponseByte \/ ResponseByteLost \/ ResponseSent
  \/ Content \/ GiveUp

Spec == Init /\ [][Next]_vars

\* The ends keep running; the host sends commands for ever, at least PINGs.
FairSpec == Spec /\ WF_vars(Next)

-----------------------------------------------------------------------------
(* Properties.                                                              *)

\* Unless a byte is lost, the device decodes exactly the command that the host
\* encoded, whatever it holds and came before it: no byte of it is taken for a
\* command (the doubling of escape characters; next and receive).
CommandsArrive ==
  (intact /\ phase = "command" /\ CommandEnded(enc, cmd) /\ understood = <<>>) =>
    decoded = IF cmd.kind = "Reset" THEN <<>> ELSE <<cmd>>

\* And the host the response that the device encoded.
ResponsesArrive ==
  (intact /\ phase = "response" /\ ResponseEnded(renc, resp)) => understood = <<resp>>

\* Once a PING is answered, nothing of what was lost before it has an effect: both
\* decoders are as new, the length that the host may have set included.
PongClears ==
  (phase = "host" /\ intact) => dec = FreshDecoder /\ rdec = FreshResponseDecoder

\* However it was brought out of step, the host gets an answer to its PINGs again
\* once bytes are no longer lost.
Resyncs == ~insync ~> insync

=============================================================================
