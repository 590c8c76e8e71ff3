------------------------- MODULE BootloaderService -------------------------
(***************************************************************************)
(* The bootloader as its host sees it, without buffers, pages in flight,   *)
(* chunks or callbacks: a command is accepted, takes effect on flash at    *)
(* once, and gets one reply.  BootloaderPromise says what each command     *)
(* does; the service is the same for any set of commands.                  *)
(***************************************************************************)

CONSTANTS
  Images,              \* what flash may hold at first
  Command, NoCommand,
  AnsweredAtOnce(_),   \* the commands that never get as far as flash
  Changes(_),          \* the commands that change a page
  Addressable(_),      \* the commands that stay inside flash
  Interrupted(_, _),   \* flash after a command that was cut short
  Outcomes(_, _),      \* flash after a command that was answered
  Replies(_, _)        \* the replies a command may get

VARIABLES
  mem,       \* flash
  request,   \* the command being served, or NoCommand
  reply,     \* the whole reply once it is known, else <<>>
  up         \* FALSE once the bootloader answers nothing any more

vars == <<mem, request, reply, up>>

-----------------------------------------------------------------------------
Init ==
  /\ mem \in Images
  /\ request = NoCommand
  /\ reply = <<>>
  /\ up = TRUE

Accept ==
  /\ up /\ request = NoCommand
  /\ request' \in Command
  /\ UNCHANGED <<mem, reply, up>>

Answer ==
  /\ up /\ request # NoCommand /\ reply = <<>>
  /\ Addressable(request)
  /\ mem' \in Outcomes(mem, request)
  /\ reply' \in Replies(mem, request)
  /\ UNCHANGED <<request, up>>

\* A command answered as soon as it is received, without touching flash.
Decline ==
  /\ up /\ request = NoCommand
  /\ request' \in Command /\ AnsweredAtOnce(request')
  /\ reply' \in Replies(mem, request')
  /\ UNCHANGED <<mem, up>>

Deliver ==
  /\ up /\ reply # <<>>
  /\ request' = NoCommand
  /\ reply' = <<>>
  /\ UNCHANGED <<mem, up>>

\* A call to a driver failed, at any stage of serving a command.  Nothing is
\* answered and nothing changes from then on.
Wedge ==
  /\ up
  /\ up' = FALSE
  /\ request' \in Command \cup {NoCommand}
  /\ reply' = <<>>
  /\ mem' \in {mem} \cup (IF request = NoCommand THEN {}
                          ELSE Outcomes(mem, request))

\* A reset, by power or by EXIT; the page being programmed may be torn.
Reset ==
  /\ up' = TRUE
  /\ request' = NoCommand
  /\ reply' = <<>>
  /\ mem' \in {mem} \cup (IF up /\ reply = <<>> /\ Changes(request)
                             /\ Addressable(request)
                          THEN Interrupted(mem, request) ELSE {})

Next == Accept \/ Decline \/ Answer \/ Deliver \/ Wedge \/ Reset

Spec == Init /\ [][Next]_vars

=============================================================================
