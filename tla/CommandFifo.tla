----------------------------- MODULE CommandFifo -----------------------------
(***************************************************************************)
(* What the GPU thread promises to the threads that give it commands:      *)
(* commands are accepted one after the other and executed one at a time in *)
(* the order in which they were accepted, none is lost, repeated or        *)
(* invented, every accepted command is executed unless the command to end  *)
(* comes first, and nothing is executed after that one.  GPUThread is      *)
(* shown to implement this specification.                                  *)
(***************************************************************************)
EXTENDS Naturals, Sequences

CONSTANTS
    Commands,    \* the commands that may be given
    EndCommands, \* those of them that end the thread
    Nothing      \* no command is being executed

VARIABLES
    pending,    \* accepted and not yet begun, oldest first
    current,    \* the command that is being executed, or Nothing
    stopped     \* the command to end has been executed

vars == <<pending, current, stopped>>

Init ==
    /\ pending = <<>>
    /\ current = Nothing
    /\ stopped = FALSE

\* Some command becomes the youngest.  It is named by where it ends up, so that
\* there may be infinitely many commands.
Accept ==
    /\ Len(pending') = Len(pending) + 1
    /\ pending'[Len(pending')] \in Commands
    /\ pending' = Append(pending, pending'[Len(pending')])
    /\ UNCHANGED <<current, stopped>>

Begin ==
    /\ ~stopped
    /\ current = Nothing
    /\ pending # <<>>
    /\ current' = Head(pending)
    /\ pending' = Tail(pending)
    /\ UNCHANGED stopped

Finish ==
    /\ current # Nothing
    /\ current' = Nothing
    /\ stopped' = (current \in EndCommands)
    /\ UNCHANGED pending

Next ==
    \/ Accept
    \/ Begin
    \/ Finish

Safety == Init /\ [][Next]_vars

Spec == Safety /\ WF_vars(Begin) /\ WF_vars(Finish)

=============================================================================
