------------------------------ MODULE RtmpServer ------------------------------
(***************************************************************************)
(* The RTMP server of one shard (rtmp/rtmp.cc, class server): the loop     *)
(* that accepts connections, the gate all its tasks hold, and stop(),      *)
(* around one connection (RtmpConnection).  A connection is on the list    *)
(* _connections from its construction on, but holds the gate only when     *)
(* process() has been let in.                                              *)
(*                                                                         *)
(* Listeners do not interact, and of several connections each would be     *)
(* like this one: there is one of each.                                    *)
(***************************************************************************)
EXTENDS RtmpConnection

VARIABLES
    gateClosed,  \* _task_gate was closed: stop() was called
    holders,     \* who has entered _task_gate and not left it
    acceptor,    \* do_accepts: "looping", "accepting", "accepted" or "ended"
    link         \* the connection: "none" yet, "serving" or "destroyed"

serverState == <<gateClosed, holders, acceptor, link>>
serverVars == <<vars, serverState>>

\* do_accepts has entered the gate, and do_accept_one has once more.
ServerInit ==
    /\ Init
    /\ gateClosed = FALSE /\ holders = {"do_accepts", "do_accept_one"}
    /\ acceptor = "accepting" /\ link = "none"

-----------------------------------------------------------------------------
\* do_accept_one: accept() has a connection; its continuation runs later.
Arrive ==
    /\ acceptor = "accepting" /\ link = "none"
    /\ acceptor' = "accepted"
    /\ UNCHANGED <<vars, gateClosed, holders, link>>

\* The continuation makes the connection and tries the gate; a closed gate destroys
\* the connection with the lambda that holds it.
AcceptOne ==
    /\ acceptor = "accepted"
    /\ acceptor' = "looping"
    /\ IF gateClosed
       THEN link' = "destroyed" /\ holders' = holders \ {"do_accept_one"}
       ELSE link' = "serving" /\ holders' = (holders \ {"do_accept_one"}) \union {"process"}
    /\ UNCHANGED <<vars, gateClosed>>

\* accept() fails, and the loop logs it: a client that was gone at once, or too many
\* open files.
AcceptFails ==
    /\ acceptor = "accepting"
    /\ acceptor' = "looping" /\ holders' = holders \ {"do_accept_one"}
    /\ UNCHANGED <<vars, gateClosed, link>>

\* keep_doing: until the gate is closed.
AcceptNext ==
    /\ acceptor = "looping"
    /\ IF gateClosed
       THEN acceptor' = "ended" /\ holders' = holders \ {"do_accepts"}
       ELSE acceptor' = "accepting" /\ holders' = holders \union {"do_accept_one"}
    /\ UNCHANGED <<vars, gateClosed, link>>

\* Mutant: an accept that is pending is not aborted.
StopWithoutAbort ==
    /\ ~gateClosed /\ gateClosed' = TRUE
    /\ client' = (IF link = "serving" THEN "gone" ELSE client)
    /\ UNCHANGED <<sent, cache, inq, outq, aborted, inClosed, outClosed, pc, owed, mode,
                   started, stopped, complete, read, written, holders, acceptor, link>>

\* stop: the gate is closed, an accept that is pending fails (abort_accept), and the
\* sockets of the connections on the list are shut down.  One accepted already whose
\* continuation is still to come is not on the list.
Stop ==
    /\ ~gateClosed /\ gateClosed' = TRUE
    /\ IF acceptor = "accepting"
       THEN acceptor' = "looping" /\ holders' = holders \ {"do_accept_one"}
       ELSE UNCHANGED <<acceptor, holders>>
    /\ client' = (IF link = "serving" THEN "gone" ELSE client)
    /\ UNCHANGED <<sent, cache, inq, outq, aborted, inClosed, outClosed, pc, owed, mode,
                   started, stopped, complete, read, written, link>>

\* process() is through: the connection is destroyed and leaves the gate.
LeaveGate ==
    /\ link = "serving" /\ Processed
    /\ link' = "destroyed" /\ holders' = holders \ {"process"}
    /\ UNCHANGED <<vars, gateClosed, acceptor>>

\* The future of stop() resolves: main goes on.
StopResolved == gateClosed /\ holders = {}
Finished == StopResolved /\ link # "serving" /\ UNCHANGED serverVars

-----------------------------------------------------------------------------
Serving(A) == link = "serving" /\ A /\ UNCHANGED serverState

AcceptLoop == AcceptOne \/ AcceptNext

ServerNext ==
    \/ Arrive \/ AcceptFails \/ AcceptLoop \/ Stop \/ LeaveGate \/ Finished
    \/ Serving(Leave) \/ Serving(Complete) \/ Serving(ReadFails) \/ Serving(AnswerFails)
    \/ Serving(PutPacket) \/ Serving(StopSession)
    \/ \E m \in {"publish", "play"} : Serving(Request(m))
    \/ \E n \in 1..2 : Serving(ReadPackets(n))
    \/ Serving(InputLoop) \/ Serving(OutputLoop) \/ Serving(Responder)

\* As of the connection (RtmpConnection); tasks of the server that can go on do.
ServerFairness ==
    /\ WF_serverVars(AcceptLoop) /\ WF_serverVars(LeaveGate)
    /\ WF_serverVars(Serving(InputLoop)) /\ WF_serverVars(Serving(OutputLoop))
    /\ WF_serverVars(Serving(Responder))
    /\ WF_serverVars(client = "gone" /\ Serving(ReadFails))
    /\ WF_serverVars(Serving(StopSession))
    /\ WF_serverVars(Serving(Leave))

ServerSpec == ServerInit /\ [][ServerNext]_serverVars /\ ServerFairness

-----------------------------------------------------------------------------
\* stop() comes to its end, whatever it interrupts: an accept, one whose connection
\* is not on the list yet, or a connection in any state (server::stop, rtmp.cc:817).
ServerStops == gateClosed ~> StopResolved

\* Nobody waits for ever: connections that lose their client end, and so does stop.
EverythingEnds == ConnectionEnds /\ ServerStops
=============================================================================
