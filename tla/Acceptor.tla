------------------------------ MODULE Acceptor ------------------------------
(***************************************************************************)
(* AWS.Net.Acceptors: the socket set with its poll array, Get as the line  *)
(* tasks run it one at a time under the semaphore, the box through which   *)
(* sockets are given back, the signalling socket pair that wakes the task  *)
(* in Get, Add_Listening and Shutdown.                                     *)
(*                                                                         *)
(* A step is a protected operation, a system call, or the examination of   *)
(* one socket of the set.  Time is abstracted: whenever the code compares  *)
(* an age with a time-out either outcome is possible, so Too_Many_FD and   *)
(* Force_Length, which only choose the time-out, do not appear.            *)
(***************************************************************************)
EXTENDS Integers, Sequences, FiniteSets

CONSTANTS
  Callers,      \* tasks that call Get and Give_Back (the lines)
  Clients,      \* connection socket objects (reused once freed)
  Signal,       \* R_Signal
  Server,       \* the listening socket of Listen
  Extra,        \* the listening sockets of later calls of Add_Listening
  None,         \* the null Socket_Access; no task
  BackQueue,    \* Back_Queue_Size
  CloseLength,  \* Close_Length
  Batch,        \* length of the Bytes buffer of Add_Sockets (16)
  Patient       \* FALSE: a task may stay in Get for longer than Shutdown waits

Listeners == {Server} \cup Extra
Socks == Clients \cup Listeners
Slots == 1 .. Cardinality(Socks) + 1
Status == {"no", "in", "err"}

ASSUME BoundsAssumption ==
  /\ BackQueue \in Nat \ {0}
  /\ CloseLength \in Nat
  /\ Batch \in Nat \ {0}
  /\ Patient \in BOOLEAN
ASSUME SocketAssumption ==
  /\ IsFiniteSet(Socks)
  /\ Clients \cap Listeners = {}
  /\ Server \notin Extra
  /\ Signal \notin Socks
  /\ None \notin Socks \cup {Signal} \cup Callers

VARIABLES
  set,      \* Sets.Socket_Set_Type: the sockets at indexes 1 .. Count
  rev,      \* REvents of each slot of the poll array, used or not
  index,    \* Acceptor.Index
  last,     \* Acceptor.Last
  tid,      \* Semaphore: the task that seized it
  pc,       \* where each caller is
  oldest,   \* Oldest_Idx of the task in Get
  todo,     \* bytes it received and has not acted upon
  toClose,  \* To_Close of each caller
  got,      \* the connection each caller has from Get
  box,      \* Box.Buffer
  open,     \* Box.Open
  bytes,    \* bytes in the signalling pair
  wsig,     \* W_Signal is open
  servers,  \* Servers
  adding,   \* Add_Listening of each extra listening socket
  main,     \* where Shutdown is
  tries,    \* its loop parameter J
  alive,    \* which socket objects are allocated
  kern      \* what the kernel knows of each socket

setVars == <<set, rev, index, last>>
getVars == <<oldest, todo, toClose, got>>
boxVars == <<box, open, bytes, wsig>>
shutVars == <<servers, adding, main, tries>>
vars == <<setVars, tid, pc, getVars, boxVars, shutVars, alive, kern>>

\* Get, by the caller that holds the semaphore: Read_Ready loop, Wait, loop
\* over the signal bytes.  Then, outside: To_Close is freed ("Flush", or
\* "Raise" when an exception passes through), and the caller runs on.
InGet == {"Scan", "Wait", "Fetch"}
CallerPC == InGet \cup {"Out", "Flush", "Raise", "Ended"}

First_Index == 2

\* The sockets of a sequence (To_Close, the box, the set).
Elems(q) == {q[i] : i \in DOMAIN q}

\* The set after Listen.
Init ==
  /\ set = <<Signal, Server>>
  /\ rev = [i \in Slots |-> "no"]
  /\ last = 2
  /\ index = 3
  /\ tid = None
  /\ pc = [c \in Callers |-> "Out"]
  /\ oldest = 0
  /\ todo = 0
  /\ toClose = [c \in Callers |-> <<>>]
  /\ got = [c \in Callers |-> None]
  /\ box = <<>>
  /\ open = TRUE
  /\ bytes = 0
  /\ wsig = TRUE
  /\ servers = {Server}
  /\ adding = [e \in Extra |-> "No"]
  /\ main = "Up"
  /\ tries = 0
  /\ alive = {Server}
  /\ kern = [s \in Socks |-> "no"]

Goto(c, p) == pc' = [pc EXCEPT ![c] = p]

\* Socket objects are shut down and deallocated.
Free(S) ==
  /\ alive' = alive \ S
  /\ kern' = [s \in Socks |-> IF s \in S THEN "no" ELSE kern[s]]

-----------------------------------------------------------------------------
(***************************************************************************)
(* The network: requests or connections arrive, sockets fail.              *)
(***************************************************************************)
Arrives(s) ==
  /\ s \in alive
  /\ kern[s] = "no"
  /\ kern' = [kern EXCEPT ![s] = "in"]
  /\ UNCHANGED <<setVars, tid, pc, getVars, boxVars, shutVars, alive>>

Fails(s) ==
  /\ s \in alive
  /\ kern[s] # "err"
  /\ kern' = [kern EXCEPT ![s] = "err"]
  /\ UNCHANGED <<setVars, tid, pc, getVars, boxVars, shutVars, alive>>

-----------------------------------------------------------------------------
(***************************************************************************)
(* The socket set.  The poll array never forgets: Add leaves the REvents   *)
(* of the slot it uses, Remove those of the slot it vacates.               *)
(***************************************************************************)

\* Mutant: the last slot is dropped, whichever socket was asked for.
RemoveSlot_Last(i) ==
  /\ set' = SubSeq(set, 1, Len(set) - 1)
  /\ UNCHANGED rev

\* Remove_Socket: the last socket moves, with its status, to the free slot.
RemoveSlot(i) ==
  /\ set' = SubSeq([set EXCEPT ![i] = set[Len(set)]], 1, Len(set) - 1)
  /\ rev' = [rev EXCEPT ![i] = rev[Len(set)]]

\* Mutant: Last is not decremented.
Take_KeepLast(i) ==
  /\ RemoveSlot(i)
  /\ UNCHANGED last

Take(i) ==
  /\ RemoveSlot(i)
  /\ last' = last - 1

\* What poll reports for socket s.  A signalling socket whose other end is
\* closed reads as ready or as failed, depending on the platform.
Polled(s) ==
  IF s # Signal THEN {kern[s]}
  ELSE IF ~wsig THEN {"in", "err"}
  ELSE IF bytes > 0 THEN {"in"}
  ELSE {"no"}

\* Poll writes the REvents of every used slot.
PollResults ==
  {[i \in Slots |-> IF i > Len(set) THEN rev[i]
                    ELSE IF set[i] = Signal THEN x
                    ELSE kern[set[i]]] : x \in Polled(Signal)}

-----------------------------------------------------------------------------
(***************************************************************************)
(* Get.                                                                    *)
(***************************************************************************)

SemaphoreFree == tid = None

\* Seize; Get raises Socket_Error when the set is empty, after a shutdown.
Seize(c) ==
  /\ pc[c] = "Out"
  /\ got[c] = None
  /\ SemaphoreFree
  /\ IF set = <<>>
     THEN Goto(c, "Ended") /\ UNCHANGED <<tid, oldest>>
     ELSE Goto(c, "Scan") /\ tid' = c /\ oldest' = 0
  /\ UNCHANGED <<setVars, todo, toClose, got, boxVars, shutVars, alive, kern>>

\* Caller c examines the socket at Index, which it read as status st.
Examine(c, st) ==
  /\ pc[c] = "Scan"
  /\ index <= last
  /\ rev[index] = st

\* A listening socket in error: Socket_Error leaves Get.
ListenError(c) ==
  /\ Examine(c, "err")
  /\ set[index] \in Listeners
  /\ Goto(c, "Raise")
  /\ tid' = None
  /\ oldest' = 0
  /\ UNCHANGED <<setVars, todo, toClose, got, boxVars, shutVars, alive, kern>>

\* Accept_Listening: the new connection goes to the end of the set; others
\* may wait in the backlog.
Accept(c) ==
  /\ Examine(c, "in")
  /\ set[index] \in Listeners
  /\ \E s \in Clients \ alive, k \in {kern[set[index]], "no"} :
       /\ set' = Append(set, s)
       /\ alive' = alive \cup {s}
       /\ kern' = [kern EXCEPT ![set[index]] = k]
  /\ index' = index + 1
  /\ UNCHANGED <<rev, last, tid, pc, getVars, boxVars, shutVars>>

\* Accept_Socket fails (On_Error is called), or there is nothing to accept.
NoAccept(c) ==
  /\ Examine(c, "in") \/ Examine(c, "no")
  /\ set[index] \in Listeners
  /\ index' = index + 1
  /\ UNCHANGED <<set, rev, last, tid, pc, getVars, boxVars, shutVars, alive,
                 kern>>

\* A connection is closed: in error, or silent for longer than its time-out.
ClientCloses(c) ==
  /\ Examine(c, "err") \/ Examine(c, "no")
  /\ set[index] \in Clients
  /\ toClose' = [toClose EXCEPT ![c] = Append(@, set[index])]
  /\ Take(index)
  /\ UNCHANGED <<index, tid, pc, oldest, todo, got, boxVars, shutVars, alive,
                 kern>>

\* A connection with data to read is what Get returns.
ClientReady(c) ==
  /\ Examine(c, "in")
  /\ set[index] \in Clients
  /\ got' = [got EXCEPT ![c] = set[index]]
  /\ Take(index)
  /\ Goto(c, "Flush")
  /\ tid' = None
  /\ oldest' = 0
  /\ UNCHANGED <<index, todo, toClose, boxVars, shutVars, alive, kern>>

\* A silent connection stays; it may be the one closest to its time-out.
ClientStays(c) ==
  /\ Examine(c, "no")
  /\ set[index] \in Clients
  /\ oldest' \in {oldest, index}
  /\ index' = index + 1
  /\ UNCHANGED <<set, rev, last, tid, pc, todo, toClose, got, boxVars,
                 shutVars, alive, kern>>

\* The end of Read_Ready: above Close_Length the oldest connection goes.
ScanEnds(c) ==
  /\ pc[c] = "Scan"
  /\ index > last
  /\ Goto(c, "Wait")
  /\ IF oldest > 0 /\ last > CloseLength
     THEN /\ toClose' = [toClose EXCEPT ![c] = Append(@, set[oldest])]
          /\ Take(oldest)
     ELSE UNCHANGED <<set, rev, last, toClose>>
  /\ oldest' = 0
  /\ UNCHANGED <<index, tid, todo, got, boxVars, shutVars, alive, kern>>

\* Mutant: the sockets the set holds are freed, the set keeps them.
ClearSet_Keep == UNCHANGED set

ClearSet == set' = <<>>

\* Every socket of the set is freed, then Servers is cleared.
Shutdown_Internal ==
  /\ Free(Elems(set))
  /\ ClearSet
  /\ servers' = {}

\* Wait returns r and the loop around it ends: events, or a time-out with
\* nothing left to close.  Last covers the sockets that were polled.
WaitReturns(c, r) ==
  /\ pc[c] = "Wait"
  /\ toClose[c] # <<>> => \E i \in 1 .. Len(set) : r[i] # "no"
  /\ rev' = r
  /\ last' = Len(set)

\* No signal: the next scan starts after the signalling socket.
WaitQuiet(c) ==
  /\ \E r \in PollResults : WaitReturns(c, r) /\ r[1] = "no"
  /\ index' = First_Index
  /\ Goto(c, "Scan")
  /\ UNCHANGED <<set, tid, getVars, boxVars, shutVars, alive, kern>>

\* The bytes one Receive returns.
Received == IF bytes < Batch THEN bytes ELSE Batch

\* Mutant: every call of Receive is taken for one command.
Commands_One(n) == 1

\* Each byte is a Socket_Command.
Commands(n) == n

\* Add_Sockets receives bytes from the signalling socket.
WaitSignal(c) ==
  /\ \E r \in PollResults : WaitReturns(c, r) /\ r[1] = "in"
  /\ bytes > 0
  /\ bytes' = bytes - Received
  /\ todo' = Commands(Received)
  /\ Goto(c, "Fetch")
  /\ UNCHANGED <<set, index, tid, oldest, toClose, got, box, open, wsig,
                 shutVars, alive, kern>>

SignalLost(st) == st = "err" \/ (st = "in" /\ bytes = 0)

\* The signalling socket failed, or Receive finds it closed: the shutdown is
\* made here and Socket_Error leaves Get.
WaitShutdown(c) ==
  /\ \E r \in PollResults : WaitReturns(c, r) /\ SignalLost(r[1])
  /\ Shutdown_Internal
  /\ Goto(c, "Raise")
  /\ tid' = None
  /\ UNCHANGED <<index, getVars, boxVars, adding, main, tries>>

\* Nothing happened and sockets are to be closed: one is, and Wait is called
\* again.
WaitClose(c) ==
  /\ pc[c] = "Wait"
  /\ toClose[c] # <<>>
  /\ \E r \in PollResults :
       /\ \A i \in 1 .. Len(set) : r[i] = "no"
       /\ rev' = r
  /\ Free({Head(toClose[c])})
  /\ toClose' = [toClose EXCEPT ![c] = Tail(@)]
  /\ UNCHANGED <<set, index, last, tid, pc, oldest, todo, got, boxVars,
                 shutVars>>

\* Wait raises Socket_Error (On_Error is called): the loop starts again with
\* Index and Last as they are, past the end of the scan.
WaitFails(c) ==
  /\ pc[c] = "Wait"
  /\ Goto(c, "Scan")
  /\ UNCHANGED <<setVars, tid, getVars, boxVars, shutVars, alive, kern>>

\* One command: the entry Box.Get waits for a socket, which joins the set.
\* A socket freed by Box.Shutdown is null by now and raises Constraint_Error.
Fetch(c) ==
  /\ pc[c] = "Fetch"
  /\ todo > 0
  /\ box # <<>>
  /\ box' = Tail(box)
  /\ IF Head(box) = None
     THEN Goto(c, "Raise") /\ tid' = None /\ todo' = 0 /\ UNCHANGED set
     ELSE /\ set' = Append(set, Head(box))
          /\ todo' = todo - 1
          /\ UNCHANGED <<pc, tid>>
  /\ UNCHANGED <<rev, index, last, oldest, toClose, got, open, bytes, wsig,
                 shutVars, alive, kern>>

FetchEnds(c) ==
  /\ pc[c] = "Fetch"
  /\ todo = 0
  /\ index' = First_Index
  /\ Goto(c, "Scan")
  /\ UNCHANGED <<set, rev, last, tid, getVars, boxVars, shutVars, alive, kern>>

\* Shutdown_And_Free of To_Close, outside the semaphore.
Flush(c) ==
  /\ pc[c] \in {"Flush", "Raise"}
  /\ Free(Elems(toClose[c]))
  /\ toClose' = [toClose EXCEPT ![c] = <<>>]
  /\ Goto(c, IF pc[c] = "Flush" THEN "Out" ELSE "Ended")
  /\ UNCHANGED <<setVars, tid, oldest, todo, got, boxVars, shutVars>>

-----------------------------------------------------------------------------
(***************************************************************************)
(* Give_Back and Add_Listening.                                            *)
(***************************************************************************)

\* Mutant: Add does not look at Open.
BoxOpen_Always == TRUE

BoxOpen == open

\* Box.Add: the socket is queued and the command byte sent, atomically.
BoxAdd(s) ==
  /\ box' = Append(box, s)
  /\ bytes' = bytes + 1
  /\ UNCHANGED <<open, wsig>>

\* A caller that has read the request gives the connection back.
Give_Back(c) ==
  /\ pc[c] = "Out"
  /\ got[c] # None
  /\ BoxOpen
  /\ Len(box) < BackQueue
  /\ BoxAdd(got[c])
  /\ got' = [got EXCEPT ![c] = None]
  /\ kern' = [kern EXCEPT ![got[c]] = IF @ = "in" THEN "no" ELSE @]
  /\ UNCHANGED <<setVars, tid, pc, oldest, todo, toClose, shutVars, alive>>

\* The caller closes its connection, because Give_Back refused it or not.
Close(c) ==
  /\ pc[c] = "Out"
  /\ got[c] # None
  /\ Free({got[c]})
  /\ got' = [got EXCEPT ![c] = None]
  /\ UNCHANGED <<setVars, tid, pc, oldest, todo, toClose, boxVars, shutVars>>

\* Add_Listening of an extra listening socket, first half: Give_Back without
\* a limit, which raises Program_Error once the box is closed.
Add_Listening(e) ==
  /\ adding[e] = "No"
  /\ alive' = alive \cup {e}
  /\ IF open
     THEN BoxAdd(e) /\ adding' = [adding EXCEPT ![e] = "Boxed"]
     ELSE UNCHANGED boxVars /\ adding' = [adding EXCEPT ![e] = "Failed"]
  /\ UNCHANGED <<setVars, tid, pc, getVars, servers, main, tries, kern>>

\* Second half: Servers.Add.
AddServer(e) ==
  /\ adding[e] = "Boxed"
  /\ servers' = servers \cup {e}
  /\ adding' = [adding EXCEPT ![e] = "Done"]
  /\ UNCHANGED <<setVars, tid, pc, getVars, boxVars, main, tries, alive, kern>>

-----------------------------------------------------------------------------
(***************************************************************************)
(* Shutdown, called by one task.                                           *)
(***************************************************************************)

\* Mutant: Box.Shutdown empties its buffer.
BoxFreed_Clear == <<>>

\* Freed sockets stay in the buffer as null.
BoxFreed == [i \in DOMAIN box |-> None]

\* Mutant: the signalling socket is closed before the box.
BoxShutdown_SignalFirst ==
  /\ main = "Up"
  /\ wsig' = FALSE
  /\ main' = "CloseSignal"
  /\ UNCHANGED <<setVars, tid, pc, getVars, box, open, bytes, servers, adding,
                 tries, alive, kern>>

BoxShutdown ==
  /\ main = "Up"
  /\ open' = FALSE
  /\ Free(Elems(box))
  /\ box' = BoxFreed
  /\ main' = "CloseSignal"
  /\ UNCHANGED <<setVars, tid, pc, getVars, bytes, wsig, servers, adding,
                 tries>>

CloseSignal ==
  /\ main = "CloseSignal"
  /\ wsig' = FALSE
  /\ main' = "Try"
  /\ UNCHANGED <<setVars, tid, pc, getVars, box, open, bytes, servers, adding,
                 tries, alive, kern>>

\* Nobody is in Get: the shutdown is made directly.
TryDirect ==
  /\ main = "Try"
  /\ SemaphoreFree
  /\ Shutdown_Internal
  /\ main' = "Done"
  /\ UNCHANGED <<rev, index, last, tid, pc, getVars, boxVars, adding, tries>>

TryBusy ==
  /\ main = "Try"
  /\ ~SemaphoreFree
  /\ main' = "WaitEmpty"
  /\ UNCHANGED <<setVars, tid, pc, getVars, boxVars, servers, adding, tries,
                 alive, kern>>

\* The task in Get made the shutdown: Wait_Empty is open.
WaitEmpty ==
  /\ main = "WaitEmpty"
  /\ servers = {}
  /\ main' = "Done"
  /\ UNCHANGED <<setVars, tid, pc, getVars, boxVars, servers, adding, tries,
                 alive, kern>>

\* Mutant: one attempt too many.
LastTry_Late(j) == j = 5

LastTry(j) == j = 4

\* A second passed; after the last one Program_Error.
WaitEmptyExpires ==
  /\ main = "WaitEmpty"
  /\ servers # {}
  /\ Patient => SemaphoreFree
  /\ tries' = tries + 1
  /\ main' = IF LastTry(tries') THEN "Failed" ELSE "Try"
  /\ UNCHANGED <<setVars, tid, pc, getVars, boxVars, servers, adding, alive,
                 kern>>

-----------------------------------------------------------------------------
WaitStep(c) == WaitQuiet(c) \/ WaitSignal(c) \/ WaitShutdown(c) \/ WaitClose(c)

GetStep(c) ==
  \/ ListenError(c) \/ Accept(c) \/ NoAccept(c)
  \/ ClientCloses(c) \/ ClientReady(c) \/ ClientStays(c) \/ ScanEnds(c)
  \/ WaitStep(c) \/ Fetch(c) \/ FetchEnds(c) \/ Flush(c)

CallerStep(c) == Seize(c) \/ GetStep(c) \/ Give_Back(c) \/ Close(c)

MainStep ==
  CloseSignal \/ TryDirect \/ TryBusy \/ WaitEmpty \/ WaitEmptyExpires

Next ==
  \/ \E c \in Callers : CallerStep(c) \/ WaitFails(c)
  \/ \E s \in Socks : Arrives(s) \/ Fails(s)
  \/ \E e \in Extra : Add_Listening(e) \/ AddServer(e)
  \/ BoxShutdown
  \/ MainStep

Spec == Init /\ [][Next]_vars

\* The lines loop over Get, Give_Back and close, Wait does not fail for ever
\* and Shutdown runs to its end; the network and the calls of Add_Listening
\* and Shutdown are under no obligation.
Fairness ==
  /\ \A c \in Callers : WF_vars(CallerStep(c)) /\ SF_vars(WaitStep(c))
  /\ WF_vars(MainStep)

LiveSpec == Spec /\ Fairness

-----------------------------------------------------------------------------
(***************************************************************************)
(* Properties.                                                             *)
(***************************************************************************)
TypeOK ==
  /\ set \in Seq(Socks \cup {Signal})
  /\ Len(set) \in Slots \cup {0}
  /\ rev \in [Slots -> Status]
  /\ index \in Nat /\ last \in Nat /\ oldest \in Nat /\ todo \in Nat
  /\ tid \in Callers \cup {None}
  /\ pc \in [Callers -> CallerPC]
  /\ toClose \in [Callers -> Seq(Clients)]
  /\ got \in [Callers -> Clients \cup {None}]
  /\ box \in Seq(Socks \cup {None})
  /\ open \in BOOLEAN /\ wsig \in BOOLEAN
  /\ bytes \in Nat
  /\ servers \subseteq Listeners
  /\ adding \in [Extra -> {"No", "Boxed", "Done", "Failed"}]
  /\ main \in {"Up", "CloseSignal", "Try", "WaitEmpty", "Done", "Failed"}
  /\ tries \in 0 .. 4
  /\ alive \subseteq Socks
  /\ kern \in [Socks -> Status]

\* Everywhere a pointer to socket s is kept.
Places(s) ==
  {<<"set", i>> : i \in {j \in DOMAIN set : set[j] = s}}
  \cup {<<"box", i>> : i \in {j \in DOMAIN box : box[j] = s}}
  \cup {<<"task", c>> : c \in {d \in Callers : got[d] = s}}
  \cup UNION {{<<"close", c, i>> : i \in {j \in DOMAIN toClose[c] :
                                            toClose[c][j] = s}} : c \in Callers}

\* Add_Listening failed after it had created the socket.
Leaked(s) == s \in Extra /\ adding[s] = "Failed"

\* Every allocated socket has exactly one owner (the set, the box, a To_Close
\* list or a task) and no freed socket is reachable: Get never hands one
\* connection to two tasks, and nothing is freed twice or lost, whatever the
\* order of Get, Give_Back, time-outs and Shutdown.
OneOwner ==
  \A s \in Socks :
    Cardinality(Places(s)) = IF s \in alive /\ ~Leaked(s) THEN 1 ELSE 0

\* Get examines only slots of the set (Check_Range never raises), leaves the
\* signalling socket in slot 1, and what it closes as the oldest connection
\* is a connection it has looked at in this scan.
ScanInRange ==
  /\ set # <<>> => last <= Len(set) /\ set[1] = Signal
  /\ \A c \in Callers : pc[c] = "Scan" => index >= First_Index
  /\ oldest > 0 => oldest < index /\ oldest <= last /\ set[oldest] \in Clients

\* Add_Sockets calls the entry Box.Get once per byte while it holds the
\* semaphore: there is always a socket for it, also when Box.Shutdown comes
\* in between; and while the box is open no socket waits without its byte.
SignalMatchesBox ==
  /\ Len(box) >= bytes + todo
  /\ open => Len(box) = bytes + todo

\* As long as Give_Back accepts sockets, the signalling pair it writes to is
\* open at both ends.
OpenIsReachable == open => wsig /\ set # <<>>

\* When Shutdown returns the set is empty and no socket waits in the box.
ShutdownClears ==
  main = "Done" => set = <<>> /\ \A i \in DOMAIN box : box[i] = None

\* Once Shutdown was called the set is cleared, by the task in Get or by
\* Shutdown itself, and Shutdown returns.
ShutdownCompletes == ~open ~> (main = "Done" /\ set = <<>>)

\* The acceptor as its users see it.
Where ==
  [s \in Clients |-> IF s \notin alive THEN "free"
                     ELSE IF \E c \in Callers : got[c] = s THEN "task"
                     ELSE "acceptor"]

State == IF open THEN "up" ELSE IF set # <<>> THEN "closing" ELSE "down"

Abs == INSTANCE AcceptorAbs WITH where <- Where, state <- State

\* The acceptor implements AcceptorAbs.
Implements == Abs!Spec
=============================================================================
