------------------------------- MODULE Server -------------------------------
(***************************************************************************)
(* The core of AWS.Server: the protected object Slots, the N Line tasks    *)
(* that serve connections through it, the Force_Clean a line runs to abort *)
(* a slow neighbour, and AWS.Server.Shutdown.                              *)
(*                                                                         *)
(* A protected operation of Slots is one atomic step, and so is each piece *)
(* of a task's code between two of them.  Data (request bytes, headers,    *)
(* answers) is abstracted to the outcomes the control depends on; every    *)
(* time-out may or may not have expired whenever the code looks at it.     *)
(* The acceptor is abstracted to the sockets it holds, as in AcceptorAbs,  *)
(* which module Acceptor implements.                                       *)
(***************************************************************************)
EXTENDS Integers, FiniteSets

CONSTANTS
  N,               \* Slots.N, the Max_Connection parameter
  KeepAliveLimit,  \* the Free_Slots_Keep_Alive_Limit parameter
  Sockets,         \* socket objects (addresses: reused once freed)
  NoSock,          \* the null Socket_Access
  MaxAborts,       \* bound on Shutdown_Count for Force_Clean (Natural'Last)
  Patient          \* FALSE: Shutdown may lose patience with lines that are
                   \* still alive after 15 seconds

ASSUME NAssumption == N \in Nat \ {0}
ASSUME LimitAssumption == KeepAliveLimit \in Nat
ASSUME SocketAssumption == NoSock \notin Sockets
ASSUME BoundAssumption == MaxAborts \in Nat
ASSUME PatientAssumption == Patient \in BOOLEAN

Lines == 1..N

\* The task that called AWS.Server.Shutdown, next to the lines.
Main == 0

Tasks == 0..N

Slot_Phase == {"Closed", "In_Shutdown", "Aborted", "Wait_For_Client",
               "Client_Header", "Client_Data", "Server_Response",
               "Server_Processing"}

\* In_Shutdown .. Aborted
Shut_Phase == {"In_Shutdown", "Aborted"}

\* Wait_For_Client .. Server_Processing
Live_Phase == {"Wait_For_Client", "Client_Header", "Client_Data",
               "Server_Response", "Server_Processing"}

Abortable_Phase == {"Wait_For_Client", "Client_Header", "Client_Data",
                    "Server_Response"}

VARIABLES
  phase,          \* Slots.Table (l).Phase
  sock,           \* Slots.Table (l).Sock
  taken,          \* Slots.Table (l).Socket_Taken
  count,          \* Slots.Count, the number of free slots
  shutdownCount,  \* Slots.Shutdown_Count
  pc,             \* where line l is
  lsock,          \* the Socket local of the Line task
  target,         \* slot task t is shutting down, 0 outside a shutdown
  held,           \* the Socket_Access task t got for it
  overwritten,    \* history: slots that Get_Wait_For_Data marked while they
                  \* were in In_Shutdown
  where,          \* who holds each socket object
  main,           \* where AWS.Server.Shutdown is
  index,          \* its loop parameter S
  shutdown        \* HTTP.Shutdown

slotVars == <<phase, sock, taken, count, shutdownCount>>
lineVars == <<pc, lsock>>
shutVars == <<target, held, overwritten>>
mainVars == <<main, index, shutdown>>
vars == <<slotVars, lineVars, shutVars, where, mainVars>>

\* Line control points at which the line owns no slot.
IdlePC == {"Loop", "Accepting", "GotSocket", "Close", "Terminated", "Dead"}

\* Line control points between Slots.Set and Slots.Release.
BusyPC == {"First", "Again", "Next", "Check", "CheckWait", "Waiting", "Back",
           "GiveBack", "Read", "Body", "Process", "Respond", "LoopEnd",
           "Error", "SendError", "OtherError", "Release"}

\* "Clean" and "Shutting" are the two halves of Force_Clean, which both an
\* accepting line (no socket yet) and a line between two requests run.
LinePC == IdlePC \cup BusyPC \cup {"Clean", "Shutting"}

MainPC == {"Running", "StopAcceptor", "Failed", "Slot", "Shutting", "Wait",
           "Freed"}

Holders == {"free", "acceptor", "line", "taken", "lost"}

Init ==
  /\ phase = [l \in Lines |-> "Closed"]
  /\ sock = [l \in Lines |-> NoSock]
  /\ taken = [l \in Lines |-> FALSE]
  /\ count = N
  /\ shutdownCount = 0
  /\ pc = [l \in Lines |-> "Loop"]
  /\ lsock = [l \in Lines |-> NoSock]
  /\ target = [t \in Tasks |-> 0]
  /\ held = [t \in Tasks |-> NoSock]
  /\ overwritten = {}
  /\ where = [s \in Sockets |-> "free"]
  /\ main = "Running"
  /\ index = 1
  /\ shutdown = FALSE

-----------------------------------------------------------------------------
(***************************************************************************)
(* The acceptor, as the lines see it.  A new client connects; a socket the *)
(* acceptor holds may be closed on a time-out or an error; after Shutdown  *)
(* everything it holds is closed.                                          *)
(***************************************************************************)
AcceptorUp == main \in {"Running", "StopAcceptor", "Failed"}

Connect(s) ==
  /\ AcceptorUp
  /\ where[s] = "free"
  /\ where' = [where EXCEPT ![s] = "acceptor"]
  /\ UNCHANGED <<slotVars, lineVars, shutVars, mainVars>>

AcceptorClose(s) ==
  /\ where[s] = "acceptor"
  /\ where' = [where EXCEPT ![s] = "free"]
  /\ UNCHANGED <<slotVars, lineVars, shutVars, mainVars>>

\* The code that took a socket over (server push, a WebSocket) frees it.
ForeignClose(s) ==
  /\ where[s] = "taken"
  /\ where' = [where EXCEPT ![s] = "free"]
  /\ UNCHANGED <<slotVars, lineVars, shutVars, mainVars>>

-----------------------------------------------------------------------------
(***************************************************************************)
(* Operations of the protected object Slots.                               *)
(***************************************************************************)

\* Move line l to control point p.
Goto(l, p) == pc' = [pc EXCEPT ![l] = p]

\* Mutant: Mark_Phase without its check.
MarkRefused_Never(l, ph) == FALSE

\* Mark_Phase raises Socket_Error when the slot was shut down meanwhile.
MarkRefused(l, ph) == phase[l] \in Shut_Phase /\ ph \in Live_Phase

\* Mark_Phase sets the time-out of the socket of the slot: with no socket
\* it raises Constraint_Error, after the phase is assigned.
MarkNull(l, ph) == ph \in Abortable_Phase /\ sock[l] = NoSock

\* Line l calls Mark_Phase; it goes on at ok, or at onSocketError or onOther
\* where the exception it raises is handled.
Mark_Phase(l, ph, ok, onSocketError, onOther) ==
  /\ \/ /\ MarkRefused(l, ph)
        /\ Goto(l, onSocketError)
        /\ UNCHANGED phase
     \/ /\ ~MarkRefused(l, ph)
        /\ phase' = [phase EXCEPT ![l] = ph]
        /\ IF MarkNull(l, ph) THEN Goto(l, onOther) ELSE Goto(l, ok)
  /\ UNCHANGED <<sock, taken, count, shutdownCount, lsock, shutVars, where,
                 mainVars>>

\* Mutant: Shutdown_Count is not incremented.
TakeForShutdown_NoCount(t, v) ==
  /\ target' = [target EXCEPT ![t] = v]
  /\ held' = [held EXCEPT ![t] = sock[v]]
  /\ UNCHANGED <<shutdownCount, overwritten>>

\* Task t obtains the socket of slot v for shutdown (not in Closed .. Aborted
\* and a socket is there).
TakeForShutdown(t, v) ==
  /\ shutdownCount' = shutdownCount + 1
  /\ target' = [target EXCEPT ![t] = v]
  /\ held' = [held EXCEPT ![t] = sock[v]]
  /\ UNCHANGED overwritten

\* Task t has finished with the socket it held.
Forget(t) ==
  /\ target' = [target EXCEPT ![t] = 0]
  /\ held' = [held EXCEPT ![t] = NoSock]
  /\ UNCHANGED overwritten

\* Mutant: the slot stays in In_Shutdown.
Shutdown_Done_NoMark(t) ==
  /\ IF phase[target[t]] = "In_Shutdown" THEN shutdownCount' = shutdownCount - 1
                                         ELSE UNCHANGED shutdownCount
  /\ Forget(t)
  /\ UNCHANGED phase

\* Mutant: Shutdown_Count is not decremented.
Shutdown_Done_NoCount(t) ==
  /\ IF phase[target[t]] = "In_Shutdown"
     THEN phase' = [phase EXCEPT ![target[t]] = "Aborted"]
     ELSE UNCHANGED phase
  /\ Forget(t)
  /\ UNCHANGED shutdownCount

Shutdown_Done(t) ==
  LET v == target[t] IN
  /\ IF phase[v] = "In_Shutdown"
     THEN /\ phase' = [phase EXCEPT ![v] = "Aborted"]
          /\ shutdownCount' = shutdownCount - 1
     ELSE UNCHANGED <<phase, shutdownCount>>
  /\ Forget(t)

\* The order in which Abort_On_Timeout called by line l visits slot s.
Visit(l, s) == IF s > l THEN s - l ELSE s - l + N

\* Slots of T whose phase and force time-out make them abortable; a slot in
\* Wait_For_Client is only woken, by a byte on its Wait_Breaker.
Abortable(l, T) ==
  {s \in T \ {l} : phase[s] \in Abortable_Phase \ {"Wait_For_Client"}}

\* Abort_On_Timeout finds no socket to shut down: called less than half a
\* second after the last time (T = {}), or every slot whose force time-out
\* has expired (T) has had its socket taken and is only marked.
Abort_None(l, T) ==
  /\ \A s \in Abortable(l, T) : sock[s] = NoSock
  /\ phase' = [s \in Lines |->
                 IF s \in Abortable(l, T) THEN "Aborted" ELSE phase[s]]

\* Abort_On_Timeout stops at the first slot v with a socket.
Abort_Slot(l, T, v) ==
  /\ shutdownCount < MaxAborts
  /\ v \in Abortable(l, T)
  /\ sock[v] # NoSock
  /\ \A s \in Abortable(l, T) :
        Visit(l, s) < Visit(l, v) => sock[s] = NoSock
  /\ phase' = [s \in Lines |->
                 IF s = v THEN "In_Shutdown"
                 ELSE IF s \in Abortable(l, T) /\ Visit(l, s) < Visit(l, v)
                      THEN "Aborted" ELSE phase[s]]
  /\ TakeForShutdown(l, v)

-----------------------------------------------------------------------------
(***************************************************************************)
(* The Line task: accept, hand the socket to the slot, run the protocol    *)
(* handler, release the slot.                                              *)
(***************************************************************************)
LoopTop(l) ==
  /\ pc[l] = "Loop"
  /\ Goto(l, IF shutdown THEN "Terminated" ELSE "Accepting")
  /\ UNCHANGED <<slotVars, lsock, shutVars, where, mainVars>>

\* Accept_Socket_Serialized returns a socket with data to read.
Accept(l, s) ==
  /\ pc[l] = "Accepting"
  /\ AcceptorUp
  /\ where[s] = "acceptor"
  /\ where' = [where EXCEPT ![s] = "line"]
  /\ lsock' = [lsock EXCEPT ![l] = s]
  /\ Goto(l, "GotSocket")
  /\ UNCHANGED <<slotVars, shutVars, mainVars>>

\* The acceptor reports an error to Accept_Error, which runs Force_Clean.
Accept_Error(l) ==
  /\ pc[l] = "Accepting"
  /\ AcceptorUp
  /\ Goto(l, "Clean")
  /\ UNCHANGED <<slotVars, lsock, shutVars, where, mainVars>>

\* The acceptor was shut down, or a listening socket is in error: Get raises
\* Socket_Error, which ends the task.
AcceptFails(l) ==
  /\ pc[l] = "Accepting"
  /\ Goto(l, "Terminated")
  /\ UNCHANGED <<slotVars, lsock, shutVars, where, mainVars>>

\* A failed SSL handshake: the socket is shut down and another one awaited.
HandshakeFails(l) ==
  /\ pc[l] = "GotSocket"
  /\ where' = [where EXCEPT ![lsock[l]] = "free"]
  /\ lsock' = [lsock EXCEPT ![l] = NoSock]
  /\ Goto(l, "Accepting")
  /\ UNCHANGED <<slotVars, shutVars, mainVars>>

\* Secure_Server fails (the socket is freed), or Set_Send_Buffer_Size or
\* Set_No_Delay raises Socket_Error on a connection that is gone (it is not):
\* the task ends, with no slot taken.
SetupFails(l) ==
  /\ pc[l] = "GotSocket"
  /\ \E w \in {"free", "lost"} : where' = [where EXCEPT ![lsock[l]] = w]
  /\ lsock' = [lsock EXCEPT ![l] = NoSock]
  /\ Goto(l, "Dead")
  /\ UNCHANGED <<slotVars, shutVars, mainVars>>

\* Mutant: Count is not decremented.
TakeSlot_Missing == UNCHANGED count

TakeSlot == count' = count - 1

Set(l) ==
  /\ pc[l] = "GotSocket"
  /\ phase' = [phase EXCEPT ![l] = "Client_Header"]
  /\ sock' = [sock EXCEPT ![l] = lsock[l]]
  /\ TakeSlot
  /\ Goto(l, "First")
  /\ UNCHANGED <<taken, shutdownCount, lsock, shutVars, where, mainVars>>

\* The entry Release, open when no task is shutting a socket down.
Release(l) ==
  /\ pc[l] = "Release"
  /\ shutdownCount = 0
  /\ count' = count + 1
  /\ LET needShutdown == /\ phase[l] \notin {"Closed", "Aborted"}
                         /\ ~taken[l]
         freed == /\ phase[l] = "Aborted"
                  /\ ~taken[l]
                  /\ sock[l] # NoSock
     IN /\ where' = IF freed THEN [where EXCEPT ![sock[l]] = "free"]
                             ELSE where
        /\ Goto(l, IF needShutdown THEN "Close" ELSE "Loop")
        /\ lsock' = IF needShutdown THEN lsock
                                    ELSE [lsock EXCEPT ![l] = NoSock]
  /\ taken' = IF phase[l] # "Closed" THEN [taken EXCEPT ![l] = FALSE]
                                     ELSE taken
  /\ phase' = [phase EXCEPT ![l] = "Closed"]
  /\ sock' = [sock EXCEPT ![l] = NoSock]
  /\ UNCHANGED <<shutdownCount, shutVars, mainVars>>

\* Need_Shutdown: the line shuts down and frees the socket on its stack.
Close(l) ==
  /\ pc[l] = "Close"
  /\ where' = [where EXCEPT ![lsock[l]] = "free"]
  /\ lsock' = [lsock EXCEPT ![l] = NoSock]
  /\ Goto(l, "Loop")
  /\ UNCHANGED <<slotVars, shutVars, mainVars>>

-----------------------------------------------------------------------------
(***************************************************************************)
(* Force_Clean, run by an accepting line or between two requests.          *)
(***************************************************************************)
AfterClean(l) == IF lsock[l] = NoSock THEN "Accepting" ELSE "Check"

Abort_On_Timeout(l) ==
  /\ pc[l] = "Clean"
  /\ \E T \in SUBSET Lines :
        \/ /\ Abort_None(l, T)
           /\ Goto(l, AfterClean(l))
           /\ UNCHANGED <<shutdownCount, shutVars>>
        \/ \E v \in Lines :
             /\ Abort_Slot(l, T, v)
             /\ Goto(l, "Shutting")
  /\ UNCHANGED <<sock, taken, count, lsock, where, mainVars>>

ForceCleanDone(l) ==
  /\ pc[l] = "Shutting"
  /\ Shutdown_Done(l)
  /\ Goto(l, AfterClean(l))
  /\ UNCHANGED <<sock, taken, count, lsock, where, mainVars>>

-----------------------------------------------------------------------------
(***************************************************************************)
(* Protocol_Handler (HTTP/1), with Next_Request_Or_Give_Back between two   *)
(* requests of a connection.                                               *)
(***************************************************************************)
FirstRequest(l) ==
  /\ pc[l] = "First"
  /\ Mark_Phase(l, "Client_Header", "Read", "Release", "OtherError")

NextRequest(l) ==
  /\ pc[l] = "Again"
  /\ Mark_Phase(l, "Client_Header", "Next", "Release", "OtherError")

\* Wait for the next request on this slot only when enough slots are free;
\* otherwise try to free one.
ChooseWait(l) ==
  /\ pc[l] = "Next"
  /\ Goto(l, IF count >= KeepAliveLimit THEN "CheckWait"
             ELSE IF N > 1 THEN "Clean" ELSE "Check")
  /\ UNCHANGED <<slotVars, lsock, shutVars, where, mainVars>>

\* Bytes of the next request are buffered or readable (either path), or the
\* socket is found broken, or there is nothing to read (no-wait path).
CheckInput(l) ==
  /\ pc[l] \in {"Check", "CheckWait"}
  /\ \E p \in {"Read", "Release", "Back"} :
        /\ p = "Back" => pc[l] = "Check"
        /\ Goto(l, p)
  /\ UNCHANGED <<slotVars, lsock, shutVars, where, mainVars>>

\* Assigns the phase without the check of Mark_Phase.
Get_Wait_For_Data(l) ==
  /\ pc[l] = "CheckWait"
  /\ phase' = [phase EXCEPT ![l] = "Wait_For_Client"]
  /\ overwritten' = IF phase[l] = "In_Shutdown" THEN overwritten \cup {l}
                                                ELSE overwritten
  /\ Goto(l, "Waiting")
  /\ UNCHANGED <<sock, taken, count, shutdownCount, lsock, target, held, where,
                 mainVars>>

\* The wait ends: input, a byte on the Wait_Breaker, or the time-out.
WaitEnds(l) ==
  /\ pc[l] = "Waiting"
  /\ \E p \in {"Read", "Back"} :
        Mark_Phase(l, "Client_Header", p, "Release", "OtherError")

\* Mutant: the slot is not cleared before the socket is given back.
Prepare_Back_NoClear(l) ==
  /\ pc[l] = "Back"
  /\ Goto(l, IF phase[l] \in Shut_Phase THEN "Release" ELSE "GiveBack")
  /\ UNCHANGED <<slotVars, lsock, shutVars, where, mainVars>>

Prepare_Back(l) ==
  /\ pc[l] = "Back"
  /\ IF phase[l] \in Shut_Phase
     THEN /\ Goto(l, "Release")
          /\ UNCHANGED <<phase, sock>>
     ELSE /\ phase' = [phase EXCEPT ![l] = "Closed"]
          /\ sock' = [sock EXCEPT ![l] = NoSock]
          /\ Goto(l, "GiveBack")
  /\ UNCHANGED <<taken, count, shutdownCount, lsock, shutVars, where, mainVars>>

\* The acceptor's box takes the socket unless it is full or closed; a socket
\* it refuses is shut down and never freed.
Give_Back(l) ==
  /\ pc[l] = "GiveBack"
  /\ \/ /\ AcceptorUp
        /\ where' = [where EXCEPT ![lsock[l]] = "acceptor"]
     \/ where' = [where EXCEPT ![lsock[l]] = "lost"]
  /\ Goto(l, "Release")
  /\ UNCHANGED <<slotVars, lsock, shutVars, mainVars>>

\* The request line and the header are read, or fail to be.
ReadFails(l) ==
  /\ pc[l] \in {"Read", "Body"}
  /\ \E p \in {"Release", "Error", "OtherError"} : Goto(l, p)
  /\ UNCHANGED <<slotVars, lsock, shutVars, where, mainVars>>

\* An unknown Expect header: answered with an error, then closed.
ExpectationFailed(l) ==
  /\ pc[l] = "Read"
  /\ Goto(l, "SendError")
  /\ UNCHANGED <<slotVars, lsock, shutVars, where, mainVars>>

\* An HTTP/2 request with HTTP/2 not activated: 505 is sent through
\* Send_Error_Answer, and the connection may go on.
H2NotSupported(l) ==
  /\ pc[l] = "Read"
  /\ Mark_Phase(l, "Server_Response", "Respond", "Release", "Release")

NoBody(l) ==
  /\ pc[l] = "Read"
  /\ Mark_Phase(l, "Server_Processing", "Process", "Release", "OtherError")

\* A body is announced: read now, or left for the user's callback to read.
WithBody(l) ==
  /\ pc[l] = "Read"
  /\ \E p \in {"Body", "Process"} :
        Mark_Phase(l, "Client_Data", p, "Release", "OtherError")

\* Get_Message_Data has read the body, at once or from the user's callback
\* (which does not read from a socket it has taken over).
Get_Message_Data(l) ==
  /\ \/ pc[l] = "Body"
     \/ pc[l] = "Process" /\ phase[l] = "Client_Data" /\ ~taken[l]
  /\ Mark_Phase(l, "Server_Processing", "Process", "Release", "OtherError")

\* Reading it from the callback fails like reading it at once does.
CallbackReadFails(l) ==
  /\ pc[l] = "Process"
  /\ phase[l] = "Client_Data"
  /\ ~taken[l]
  /\ Goto(l, "Error")
  /\ UNCHANGED <<slotVars, lsock, shutVars, where, mainVars>>

\* The callback, or building the answer, raises Socket_Error or any other
\* exception; a WebSocket that is refused also leads to the release.
CallbackFails(l) ==
  /\ pc[l] = "Process"
  /\ \E p \in {"OtherError", "Release"} : Goto(l, p)
  /\ UNCHANGED <<slotVars, lsock, shutVars, where, mainVars>>

\* The callback takes the socket over (AWS.Server.Socket_Taken); the answer
\* it then returns says so too (Response.Socket_Taken) or not.
Socket_Taken(l) ==
  /\ pc[l] = "Process"
  /\ taken' = [taken EXCEPT ![l] = TRUE]
  /\ sock' = [sock EXCEPT ![l] = NoSock]
  /\ where' = IF taken[l] THEN where
              ELSE [where EXCEPT ![lsock[l]] = "taken"]
  /\ \E p \in {"Process", "Release"} : Goto(l, p)
  /\ UNCHANGED <<phase, count, shutdownCount, lsock, shutVars, mainVars>>

\* Send, for a message, a file, a stream or a header only.
Send(l) ==
  /\ pc[l] = "Process"
  /\ Mark_Phase(l, "Server_Response", "Respond", "Release", "OtherError")

\* The answer is sent, or sending it fails.
SendEnds(l) ==
  /\ pc[l] = "Respond"
  /\ \E p \in {"LoopEnd", "Release"} : Goto(l, p)
  /\ UNCHANGED <<slotVars, lsock, shutVars, where, mainVars>>

\* Mutant: the loop does not look at Server.Shutdown.
LoopEnd_NoShutdown(l) ==
  /\ pc[l] = "LoopEnd"
  /\ \E p \in {"Again", "Release"} : Goto(l, p)
  /\ UNCHANGED <<slotVars, lsock, shutVars, where, mainVars>>

\* Keep-alive or not: Will_Close is the request's and the load's.
LoopEnd(l) ==
  /\ pc[l] = "LoopEnd"
  /\ \E p \in {"Again", "Release"} :
        /\ p = "Again" => ~shutdown
        /\ Goto(l, p)
  /\ UNCHANGED <<slotVars, lsock, shutVars, where, mainVars>>

\* Mutant: the exception restarts the line without releasing its slot.
ErrorHandler_Restart(l) ==
  /\ pc[l] = "Error"
  /\ Mark_Phase(l, "Server_Response", "SendError", "Loop", "Loop")

\* Handlers of Wrong_Request_Line and of the overflow exceptions: GOAWAY and
\* exit when HTTP/2 is active, otherwise Mark_Phase, whose exception nobody
\* handles: it ends the task.
ErrorHandler(l) ==
  /\ pc[l] = "Error"
  /\ \/ Mark_Phase(l, "Server_Response", "SendError", "Dead", "Dead")
     \/ /\ Goto(l, "Release")
        /\ UNCHANGED <<slotVars, lsock, shutVars, where, mainVars>>

\* Send_Error_Answer swallows every exception; Will_Close is set.
Send_Error_Answer(l) ==
  /\ pc[l] = "SendError"
  /\ Mark_Phase(l, "Server_Response", "Release", "Release", "Release")

\* The handler of any other exception: it exits when the answer was under
\* way, else sends the error answer the exception handler built, if any.
OtherHandler(l) ==
  /\ pc[l] = "OtherError"
  /\ \/ /\ Goto(l, IF phase[l] \in {"Server_Response", "Client_Data"}
                   THEN "Release" ELSE "LoopEnd")
        /\ UNCHANGED <<slotVars, lsock, shutVars, where, mainVars>>
     \/ /\ phase[l] # "Server_Response"
        /\ Mark_Phase(l, "Server_Response",
                      IF phase[l] = "Client_Data" THEN "Release" ELSE "Respond",
                      "Release", "Release")

-----------------------------------------------------------------------------
(***************************************************************************)
(* AWS.Server.Shutdown.                                                    *)
(***************************************************************************)
BeginShutdown ==
  /\ main = "Running"
  /\ shutdown' = TRUE
  /\ main' = "StopAcceptor"
  /\ UNCHANGED <<slotVars, lineVars, shutVars, where, index>>

\* The acceptor gives up after four seconds (Acceptor!WaitEmptyExpires): its
\* Program_Error leaves Shutdown, which goes no further.
StopAcceptor ==
  /\ main = "StopAcceptor"
  /\ \/ main' = "Slot"
     \/ main' = "Failed"
  /\ UNCHANGED <<slotVars, lineVars, shutVars, where, index, shutdown>>

\* The next slot of the loop, or the wait for the lines after the last one.
NextSlot ==
  /\ index' = index + 1
  /\ main' = IF index = N THEN "Wait" ELSE "Slot"

Get_For_Shutdown ==
  /\ main = "Slot"
  /\ \/ /\ phase[index] \in Live_Phase
        /\ sock[index] # NoSock
        /\ phase' = [phase EXCEPT ![index] = "In_Shutdown"]
        /\ TakeForShutdown(Main, index)
        /\ main' = "Shutting"
        /\ UNCHANGED index
     \/ /\ phase[index] \in Live_Phase
        /\ sock[index] = NoSock
        /\ phase' = [phase EXCEPT ![index] = "Aborted"]
        /\ NextSlot
        /\ UNCHANGED <<shutdownCount, shutVars>>
     \/ /\ phase[index] \notin Live_Phase
        /\ NextSlot
        /\ UNCHANGED <<phase, shutdownCount, shutVars>>
  /\ UNCHANGED <<sock, taken, count, lineVars, where, shutdown>>

SlotShutdownDone ==
  /\ main = "Shutting"
  /\ Shutdown_Done(Main)
  /\ NextSlot
  /\ UNCHANGED <<sock, taken, count, lineVars, where, shutdown>>

LineEnded(l) == pc[l] \in {"Terminated", "Dead"}

\* Lines and slots are freed once every line has terminated, or after 30
\* polls half a second apart.
FreeLines ==
  /\ main = "Wait"
  /\ Patient => \A l \in Lines : LineEnded(l)
  /\ main' = "Freed"
  /\ UNCHANGED <<slotVars, lineVars, shutVars, where, index, shutdown>>

-----------------------------------------------------------------------------
\* What a line does by itself, once it has something to do.
LineWork(l) ==
  \/ LoopTop(l) \/ (\E s \in Sockets : Accept(l, s)) \/ AcceptFails(l)
  \/ HandshakeFails(l) \/ SetupFails(l) \/ Set(l) \/ Close(l)
  \/ Abort_On_Timeout(l) \/ ForceCleanDone(l)
  \/ FirstRequest(l) \/ NextRequest(l) \/ ChooseWait(l) \/ CheckInput(l)
  \/ Get_Wait_For_Data(l) \/ WaitEnds(l) \/ Prepare_Back(l) \/ Give_Back(l)
  \/ ReadFails(l) \/ ExpectationFailed(l) \/ H2NotSupported(l)
  \/ NoBody(l) \/ WithBody(l)
  \/ Get_Message_Data(l) \/ CallbackReadFails(l) \/ CallbackFails(l)
  \/ Send(l) \/ SendEnds(l)
  \/ LoopEnd(l) \/ ErrorHandler(l) \/ Send_Error_Answer(l) \/ OtherHandler(l)

MainStep == StopAcceptor \/ Get_For_Shutdown \/ SlotShutdownDone \/ FreeLines

\* After the memory of the slots is freed nothing is said about lines that
\* still run (main = "Freed" with a line alive is what Patient excludes).
Next ==
  \/ /\ main # "Freed"
     /\ \/ \E s \in Sockets : Connect(s) \/ AcceptorClose(s) \/ ForeignClose(s)
        \/ \E l \in Lines : \/ LineWork(l) \/ Release(l)
                            \/ Accept_Error(l) \/ Socket_Taken(l)
        \/ BeginShutdown \/ MainStep
  \/ main \in {"Freed", "Failed"} /\ UNCHANGED vars

Spec == Init /\ [][Next]_vars
-----------------------------------------------------------------------------
(***************************************************************************)
(* Fairness.  Every line and the task in Shutdown keep running: reads,     *)
(* writes and waits all have finite time-outs, and the user's callback     *)
(* returns.  A line queued on the entry Release is served as soon as       *)
(* Shutdown_Count drops to zero, before any other call on Slots (the       *)
(* "eggshell" rule of protected objects), which SF states.  Nothing is     *)
(* assumed about clients, about Accept_Error or about Shutdown being       *)
(* called.                                                                 *)
(***************************************************************************)
Fairness ==
  /\ \A l \in Lines : WF_vars(LineWork(l)) /\ SF_vars(Release(l))
  /\ WF_vars(MainStep)

FairSpec == Spec /\ Fairness

-----------------------------------------------------------------------------
(***************************************************************************)
(* Properties.                                                             *)
(***************************************************************************)

\* A line owns its slot from Slots.Set to Slots.Release; a line that died in
\* between owns it for ever.
Busy(l) ==
  \/ pc[l] \in BusyPC
  \/ pc[l] \in {"Clean", "Shutting"} /\ lsock[l] # NoSock
  \/ pc[l] = "Dead" /\ phase[l] # "Closed"

BusyLines == {l \in Lines : Busy(l)}

\* Tasks between Get_For_Shutdown and Shutdown_Done.
InFlight == {t \in Tasks : target[t] # 0}

InShutdown == {l \in Lines : phase[l] = "In_Shutdown"}

\* Type correctness of the state of the slots, the lines and the shutdown.
TypeOK ==
  /\ phase \in [Lines -> Slot_Phase]
  /\ sock \in [Lines -> Sockets \cup {NoSock}]
  /\ taken \in [Lines -> BOOLEAN]
  /\ count \in 0..N
  /\ shutdownCount \in Nat
  /\ pc \in [Lines -> LinePC]
  /\ lsock \in [Lines -> Sockets \cup {NoSock}]
  /\ target \in [Tasks -> 0..N]
  /\ held \in [Tasks -> Sockets \cup {NoSock}]
  /\ overwritten \subseteq Lines
  /\ where \in [Sockets -> Holders]
  /\ main \in MainPC
  /\ index \in 1..(N + 1)
  /\ shutdown \in BOOLEAN

\* Slots.Count is exactly the number of slots no line owns, so that the
\* assertions of Set (Count > 0) and Release (Count < N) hold, whatever line
\* dies, gives its socket back or is aborted.
FreeSlotsExact == count = N - Cardinality(BusyLines)

\* Shutdown_Count never undercounts the tasks that hold a socket pointer for
\* shutdown, nor the slots in In_Shutdown: Release cannot open under either.
ReleaseGuarded ==
  /\ Cardinality(InFlight) <= shutdownCount
  /\ Cardinality(InShutdown) <= shutdownCount

\* A line about to free the socket on its stack is its only owner: it is in
\* no slot, not in the acceptor, not taken over, and no other task is about
\* to call Net.Shutdown on it.
CloseOwned ==
  \A l \in Lines : pc[l] = "Close" =>
    /\ where[lsock[l]] = "line"
    /\ \A m \in Lines : sock[m] # lsock[l]
    /\ \A m \in Lines \ {l} : pc[m] = "Close" => lsock[m] # lsock[l]
    /\ \A t \in Tasks : held[t] # lsock[l]

\* The socket a task is shutting down is still the socket of that slot and
\* has been neither given back nor freed by the line, unless the user's
\* callback has taken it over or Get_Wait_For_Data undid the shutdown.
HeldAlive ==
  \A t \in InFlight :
    \/ sock[target[t]] = held[t] /\ where[held[t]] = "line"
    \/ taken[target[t]]
    \/ target[t] \in overwritten

\* Until Get_Wait_For_Data undoes one, Shutdown_Count is exactly the number of
\* shutdowns under way; each shutdown that is not undone has a slot of its own,
\* marked In_Shutdown.
ShutdownCountExact ==
  /\ overwritten = {} => shutdownCount = Cardinality(InFlight)
  /\ \A t \in InFlight :
       target[t] \notin overwritten =>
         /\ phase[target[t]] = "In_Shutdown"
         /\ \A u \in InFlight : target[t] = target[u] => t = u

\* "Called when Shutdown is complete, Slot phase is set to Aborted"
\* (Shutdown_Done, aws-server.ads): unless Get_Wait_For_Data has undone the
\* shutdown of that slot.
ShutdownDoneAborts ==
  [][\A t \in Tasks : target[t] # 0 /\ target'[t] = 0
        => phase'[target[t]] = "Aborted" \/ target[t] \in overwritten]_vars

\* A slot whose shutdown has begun serves no further request: it is released
\* before it is in a live phase again, but for the wait for the next request
\* of a line that had found a free slot and no input before the shutdown.
NoResurrection ==
  [][\A l \in Lines : phase[l] \in Shut_Phase /\ phase'[l] \in Live_Phase
        => /\ pc[l] = "CheckWait" /\ pc'[l] = "Waiting"
           /\ phase[l] = "In_Shutdown" => l \in overwritten']_vars

\* No exception kills a line that owns a slot ("An exception propagated
\* outside of this loop will kill definitely one of the server's slot",
\* Protocol_Handler).
SlotNotLost == \A l \in Lines : pc[l] = "Dead" => phase[l] = "Closed"

\* A line that asks to release its slot is served, however many neighbours
\* run Force_Clean, unless Get_Wait_For_Data has undone a shutdown: the entry
\* may then stay closed.
ReleaseServed ==
  \A l \in Lines :
    (pc[l] = "Release") ~> (pc[l] # "Release" \/ overwritten # {})

\* Once Shutdown has begun every line ends and the memory is released, unless
\* the acceptor cannot be shut down or Get_Wait_For_Data undoes a shutdown.
ShutdownTerminates ==
  shutdown ~> (main \in {"Freed", "Failed"} \/ overwritten # {})

\* "It waits for all tasks to terminate properly before releasing the memory"
\* (Shutdown, aws-server.ads): unless the acceptor cannot be shut down, every
\* task terminates, so that the wait ends.
ShutdownWaits == shutdown ~> main \in {"Freed", "Failed"}
=============================================================================
