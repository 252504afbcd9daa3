------------------------------- MODULE Mailbox -------------------------------
(***************************************************************************)
(* What the command path promises to the RS-485 host: every command that   *)
(* has a message for the C28 core puts it into an empty mailbox, whole, or *)
(* not at all; there it stays as it is until the C28 takes it; and the     *)
(* answer says which of the two it was.                                    *)
(*                                                                         *)
(*   Ok            the message was in the mailbox and the C28 has taken it *)
(*   DSP_Timeout   the message was in the mailbox; the C28 takes it later, *)
(*                 or has just done so                                     *)
(*   any other     the message has not been in the mailbox                 *)
(*                                                                         *)
(* A message is what the C28 will read: the code in the flag register, the *)
(* supply in MSG_ID_MTOC and the payload in g_ipc_mtoc.  IpcHandshake.tla  *)
(* implements this as long as the main loop runs no command.               *)
(***************************************************************************)

CONSTANTS
    Requests,   \* the messages the host's commands have, Nothing for a pulse
    Nothing,    \* no message
    Answers, Ok, DSP_Timeout

VARIABLES
    call,       \* the command being executed, or NoCall
    box         \* the message the C28 has not taken yet, or Nothing

NoCall == [stage |-> "none"]

\* The command has been read from the line.
Asked(r) == [stage |-> "asked", req |-> r]

\* Its message is in the mailbox, or has been.
Sent(r) == [stage |-> "sent", req |-> r]

Answered(r, a) == [stage |-> "answered", req |-> r, ans |-> a]

Init == call = NoCall /\ box = Nothing

\* A command comes, or the next turn of a broadcast.
Ask == /\ call.stage \in {"none", "answered"}
       /\ \E r \in Requests : call' = Asked(r)
       /\ UNCHANGED box

Put == /\ call.stage = "asked" /\ call.req # Nothing /\ box = Nothing
       /\ box' = call.req
       /\ call' = Sent(call.req)

Take == box # Nothing /\ box' = Nothing /\ UNCHANGED call

\* What answer a says of the message; of a pulse, which has none, it says
\* nothing.
Truthful(a) ==
    \/ call.req = Nothing
    \/ a = Ok /\ call.stage = "sent" /\ box = Nothing
    \/ a = DSP_Timeout /\ call.stage = "sent"
    \/ a \notin {Ok, DSP_Timeout} /\ call.stage = "asked"

Answer == /\ call.stage \in {"asked", "sent"}
          /\ \E a \in Answers : Truthful(a) /\ call' = Answered(call.req, a)
          /\ UNCHANGED box

Deliver == call.stage = "answered" /\ call' = NoCall /\ UNCHANGED box

Next == Ask \/ Put \/ Take \/ Answer \/ Deliver

Service == Init /\ [][Next]_<<call, box>>
=============================================================================
