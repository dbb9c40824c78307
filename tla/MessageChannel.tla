--------------------------- MODULE MessageChannel ---------------------------
(***************************************************************************)
(* What one direction of an RTMP connection promises the code above it:   *)
(* the messages handed to the sender are delivered once, unchanged and in *)
(* the order they were handed over, and every one of them is delivered    *)
(* unless the sender stops first.  RtmpWire, where messages are cut into  *)
(* chunks whose headers are compressed and whose buffers two loops write, *)
(* is checked to implement it.                                            *)
(***************************************************************************)
EXTENDS Sequences, SequencesExt

VARIABLES pending,       \* the messages handed over and not delivered yet
          closed         \* the sender stopped

vars == <<pending, closed>>

Init == pending = <<>> /\ closed = FALSE

\* One call may hand over several messages (the replies to one command).
Send == /\ ~closed
        /\ IsPrefix(pending, pending')
        /\ UNCHANGED closed

\* The oldest message is delivered.
Receive == /\ pending # <<>>
           /\ pending' = Tail(pending)
           /\ UNCHANGED closed

\* What was handed over and not delivered yet may be lost from now on.
Close == ~closed /\ closed' = TRUE /\ UNCHANGED pending

Next == Send \/ Receive \/ Close

\* The system delivers while the sender has not stopped.
Spec == Init /\ [][Next]_vars /\ WF_vars(~closed /\ Receive)
=============================================================================
