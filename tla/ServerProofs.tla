---------------------------- MODULE ServerProofs ----------------------------
(***************************************************************************)
(* Proofs about Server, for any number of lines, any set of sockets and    *)
(* any Free_Slots_Keep_Alive_Limit.                                        *)
(***************************************************************************)
EXTENDS Server, FiniteSetTheorems, TLAPS

(***************************************************************************)
(* The inductive invariant.                                                *)
(***************************************************************************)
\* TypeOK without the range of Count, which FreeSlotsExact gives.
TypeInv ==
  /\ phase \in [Lines -> Slot_Phase]
  /\ sock \in [Lines -> Sockets \cup {NoSock}]
  /\ taken \in [Lines -> BOOLEAN]
  /\ count \in Int
  /\ shutdownCount \in Int
  /\ pc \in [Lines -> LinePC]
  /\ lsock \in [Lines -> Sockets \cup {NoSock}]
  /\ target \in [Tasks -> 0..N]
  /\ held \in [Tasks -> Sockets \cup {NoSock}]
  /\ overwritten \subseteq Lines
  /\ where \in [Sockets -> Holders]
  /\ main \in MainPC
  /\ index \in 1..(N + 1)
  /\ main \in {"Running", "StopAcceptor", "Slot", "Shutting"} => index \in Lines
  /\ shutdown \in BOOLEAN

\* Where a line whose socket was taken over may be.
TakenPC == {"Process", "OtherError", "LoopEnd", "Again", "Release"}

\* What the control point of a line says about its socket and its slot.
PcOK(l) ==
  /\ pc[l] \in {"Loop", "Accepting", "Terminated"} => lsock[l] = NoSock
  /\ pc[l] \in BusyPC \cup {"GotSocket", "Close"} => lsock[l] # NoSock
  /\ pc[l] \in {"Loop", "Accepting", "GotSocket", "Close", "Terminated"}
        => phase[l] = "Closed"
  /\ pc[l] \in {"Clean", "Shutting"} /\ lsock[l] = NoSock
        => phase[l] = "Closed"
  /\ phase[l] = "Closed" => sock[l] = NoSock /\ ~taken[l]
  /\ pc[l] \in BusyPC \cup {"Clean", "Shutting"} /\ phase[l] = "Closed"
       /\ lsock[l] # NoSock => pc[l] \in {"GiveBack", "Release"}
  /\ pc[l] = "GiveBack" => phase[l] = "Closed"
  /\ phase[l] # "Closed" /\ ~taken[l] => sock[l] # NoSock
  /\ sock[l] # NoSock => sock[l] = lsock[l]
  /\ taken[l] => sock[l] = NoSock /\ pc[l] \in TakenPC

PcInv == \A l \in Lines : PcOK(l)

\* A task is shutting a slot down exactly at the control points that say so,
\* and holds a socket only then.
LinkInv ==
  /\ \A l \in Lines : pc[l] = "Shutting" <=> target[l] # 0
  /\ main = "Shutting" <=> target[Main] # 0
  /\ \A t \in Tasks : target[t] = 0 => held[t] = NoSock

\* Line l is the owner of the socket object on its stack.
Owns(l) == pc[l] \in {"GotSocket", "Close", "GiveBack"} \/ sock[l] # NoSock

OwnInv ==
  /\ \A l \in Lines : Owns(l) => where[lsock[l]] = "line"
  /\ \A l, m \in Lines : Owns(l) /\ Owns(m) /\ lsock[l] = lsock[m] => l = m

\* Nobody is shutting down a socket that its line is about to free.
CloseInv == \A l \in Lines : pc[l] = "Close" =>
               \A t \in Tasks : held[t] # lsock[l]

\* The part of the invariant that involves no cardinality ...
PInv == TypeInv /\ PcInv /\ LinkInv /\ OwnInv /\ CloseInv

\* ... and the whole of it.
IInv == PInv /\ ReleaseGuarded /\ FreeSlotsExact

-----------------------------------------------------------------------------
(***************************************************************************)
(* Two shapes most steps of a line have: it only moves on, or it calls     *)
(* Mark_Phase.                                                             *)
(***************************************************************************)
\* A step after which every owner was one before, of the same untouched
\* socket, preserves ownership.
LEMMA OwnKept ==
  ASSUME OwnInv,
         \A m \in Lines : Owns(m)' => /\ Owns(m) /\ lsock'[m] = lsock[m]
                                     /\ where'[lsock[m]] = where[lsock[m]]
  PROVE  OwnInv'
BY DEF OwnInv

\* The socket a line owns is one, held by a line.
LEMMA OwnsSocket ==
  ASSUME PInv, NEW m \in Lines, Owns(m)
  PROVE  lsock[m] \in Sockets /\ where[lsock[m]] = "line"
<1>1. where[lsock[m]] = "line"
  BY DEF PInv, OwnInv
<1>2. lsock[m] # NoSock
  BY DEF PInv, PcInv, PcOK, Owns, BusyPC
<1> QED BY <1>1, <1>2 DEF PInv, TypeInv

MovePC == BusyPC \ {"GiveBack", "Release"}

\* A line that only moves between points of the protocol handler preserves
\* the pointwise invariant.
LEMMA MoveStep ==
  ASSUME PInv, NEW l \in Lines, NEW p \in (BusyPC \ {"GiveBack"}) \cup {"Clean"},
         pc[l] \in MovePC, Goto(l, p), taken[l] => p \in TakenPC,
         UNCHANGED <<slotVars, lsock, shutVars, where, mainVars>>
  PROVE  PInv'
<1> USE NAssumption, SocketAssumption
    DEF PInv, Goto, TakenPC, MovePC, BusyPC, IdlePC, LinePC, Lines, Tasks, Main,
        slotVars, shutVars, mainVars
<1>1. TypeInv'
  BY DEF TypeInv
<1>2. PcInv'
  <2> SUFFICES ASSUME NEW m \in Lines
               PROVE  PcOK(m)'
    BY DEF PcInv
  <2>0. PcOK(m) /\ PcOK(l)
    BY DEF PcInv
  <2>1. CASE m = l
    BY <2>0, <2>1 DEF TypeInv, PcOK
  <2>2. CASE m # l
    BY <2>0, <2>2 DEF TypeInv, PcOK
  <2> QED BY <2>1, <2>2
<1>3. LinkInv'
  BY DEF LinkInv, TypeInv
<1>4. OwnInv'
  <2>1. \A m \in Lines : Owns(m)' => Owns(m)
    BY DEF Owns, TypeInv
  <2> QED BY <2>1, OwnKept
<1>5. CloseInv'
  BY DEF CloseInv, TypeInv
<1> QED BY <1>1, <1>2, <1>3, <1>4, <1>5

\* Mark_Phase, with its exceptions, preserves the pointwise invariant.
LEMMA MarkStep ==
  ASSUME PInv, NEW l \in Lines, NEW ph \in Live_Phase,
         NEW ok \in BusyPC \ {"GiveBack"},
         NEW e1 \in (BusyPC \ {"GiveBack"}) \cup {"Dead"},
         NEW e2 \in (BusyPC \ {"GiveBack"}) \cup {"Dead"},
         taken[l] => ph \in Abortable_Phase /\ e1 \in TakenPC /\ e2 \in TakenPC,
         pc[l] \in MovePC, Mark_Phase(l, ph, ok, e1, e2)
  PROVE  PInv'
<1>a. PICK q \in (BusyPC \ {"GiveBack"}) \cup {"Dead"} : pc' = [pc EXCEPT ![l] = q]
  BY DEF Mark_Phase, Goto
<1>b. PICK x \in Slot_Phase \ {"Closed"} : phase' = [phase EXCEPT ![l] = x]
  <2>1. CASE phase' = phase /\ MarkRefused(l, ph)
    BY <2>1 DEF MarkRefused, PInv, TypeInv, Shut_Phase, Slot_Phase
  <2>2. CASE phase' = [phase EXCEPT ![l] = ph]
    BY <2>2 DEF Live_Phase, Slot_Phase
  <2> QED BY <2>1, <2>2 DEF Mark_Phase
<1>c. UNCHANGED <<sock, taken, count, shutdownCount, lsock, target, held, overwritten,
                  where, main, index, shutdown>>
  BY DEF Mark_Phase, shutVars, mainVars
<1>d. phase[l] # "Closed"
  BY DEF PInv, PcInv, PcOK, MovePC, BusyPC
<1>e. taken[l] => q \in TakenPC
  BY <1>a DEF Mark_Phase, Goto, PInv, PcInv, PcOK, MarkNull, TypeInv
<1> USE <1>e, <1>a, <1>b, <1>c, <1>d, NAssumption, SocketAssumption
    DEF PInv, MovePC, BusyPC, IdlePC, LinePC, Lines, Tasks, Main
<1>1. TypeInv'
  BY DEF TypeInv
<1>2. PcInv'
  <2> SUFFICES ASSUME NEW m \in Lines
               PROVE  PcOK(m)'
    BY DEF PcInv
  <2>0. PcOK(m) /\ PcOK(l)
    BY DEF PcInv
  <2>1. CASE m = l
    BY <2>0, <2>1 DEF TypeInv, PcOK
  <2>2. CASE m # l
    BY <2>0, <2>2 DEF TypeInv, PcOK
  <2> QED BY <2>1, <2>2
<1>3. LinkInv'
  BY DEF LinkInv, TypeInv
<1>4. OwnInv'
  <2>1. \A m \in Lines : Owns(m)' => Owns(m)
    BY DEF Owns, TypeInv
  <2> QED BY <2>1, OwnKept
<1>5. CloseInv'
  BY DEF CloseInv, TypeInv
<1> QED BY <1>1, <1>2, <1>3, <1>4, <1>5


\* A client connects.
LEMMA ConnectStep ==
  ASSUME PInv, NEW s \in Sockets, Connect(s)
  PROVE  PInv'
<1> USE NAssumption, SocketAssumption
    DEF PInv, BusyPC, IdlePC, TakenPC, LinePC, Lines, Tasks, Main, Goto, slotVars,
        lineVars, shutVars, mainVars, Connect, Holders
<1>1. TypeInv'
  BY DEF TypeInv, PcInv, PcOK, LinkInv
<1>2. PcInv'
  BY DEF PcInv, PcOK, TypeInv, LinkInv
<1>3. LinkInv'
  BY DEF LinkInv, TypeInv
<1>4. OwnInv'
  <2>1. \A m \in Lines : (Owns(m)' <=> Owns(m)) /\ lsock'[m] = lsock[m]
    BY DEF Owns
  <2>2. ASSUME NEW m \in Lines, Owns(m)
        PROVE  where'[lsock[m]] = where[lsock[m]]
    <3>1. lsock[m] \in Sockets /\ where[lsock[m]] = "line"
      BY <2>2, OwnsSocket
    <3> QED BY <3>1 DEF TypeInv
  <2> QED BY <2>1, <2>2, OwnKept
<1>5. CloseInv'
  BY DEF CloseInv, TypeInv, OwnInv, Owns, PcInv, PcOK, LinkInv
<1> QED BY <1>1, <1>2, <1>3, <1>4, <1>5

\* The acceptor closes a socket it holds.
LEMMA AcceptorCloseStep ==
  ASSUME PInv, NEW s \in Sockets, AcceptorClose(s)
  PROVE  PInv'
<1> USE NAssumption, SocketAssumption
    DEF PInv, BusyPC, IdlePC, TakenPC, LinePC, Lines, Tasks, Main, Goto, slotVars,
        lineVars, shutVars, mainVars, AcceptorClose, Holders
<1>1. TypeInv'
  BY DEF TypeInv, PcInv, PcOK, LinkInv
<1>2. PcInv'
  BY DEF PcInv, PcOK, TypeInv, LinkInv
<1>3. LinkInv'
  BY DEF LinkInv, TypeInv
<1>4. OwnInv'
  <2>1. \A m \in Lines : (Owns(m)' <=> Owns(m)) /\ lsock'[m] = lsock[m]
    BY DEF Owns
  <2>2. ASSUME NEW m \in Lines, Owns(m)
        PROVE  where'[lsock[m]] = where[lsock[m]]
    <3>1. lsock[m] \in Sockets /\ where[lsock[m]] = "line"
      BY <2>2, OwnsSocket
    <3> QED BY <3>1 DEF TypeInv
  <2> QED BY <2>1, <2>2, OwnKept
<1>5. CloseInv'
  BY DEF CloseInv, TypeInv, OwnInv, Owns, PcInv, PcOK, LinkInv
<1> QED BY <1>1, <1>2, <1>3, <1>4, <1>5

\* A socket taken over is freed by its new owner.
LEMMA ForeignCloseStep ==
  ASSUME PInv, NEW s \in Sockets, ForeignClose(s)
  PROVE  PInv'
<1> USE NAssumption, SocketAssumption
    DEF PInv, BusyPC, IdlePC, TakenPC, LinePC, Lines, Tasks, Main, Goto, slotVars,
        lineVars, shutVars, mainVars, ForeignClose, Holders
<1>1. TypeInv'
  BY DEF TypeInv, PcInv, PcOK, LinkInv
<1>2. PcInv'
  BY DEF PcInv, PcOK, TypeInv, LinkInv
<1>3. LinkInv'
  BY DEF LinkInv, TypeInv
<1>4. OwnInv'
  <2>1. \A m \in Lines : (Owns(m)' <=> Owns(m)) /\ lsock'[m] = lsock[m]
    BY DEF Owns
  <2>2. ASSUME NEW m \in Lines, Owns(m)
        PROVE  where'[lsock[m]] = where[lsock[m]]
    <3>1. lsock[m] \in Sockets /\ where[lsock[m]] = "line"
      BY <2>2, OwnsSocket
    <3> QED BY <3>1 DEF TypeInv
  <2> QED BY <2>1, <2>2, OwnKept
<1>5. CloseInv'
  BY DEF CloseInv, TypeInv, OwnInv, Owns, PcInv, PcOK, LinkInv
<1> QED BY <1>1, <1>2, <1>3, <1>4, <1>5

\* The top of the loop of the Line task.
LEMMA LoopTopStep ==
  ASSUME PInv, NEW l \in Lines, LoopTop(l)
  PROVE  PInv'
<1> USE NAssumption, SocketAssumption
    DEF PInv, BusyPC, IdlePC, TakenPC, LinePC, Lines, Tasks, Main, Goto, slotVars,
        lineVars, shutVars, mainVars, LoopTop
<1>1. TypeInv'
  BY DEF TypeInv, PcInv, PcOK, LinkInv
<1>2. PcInv'
  <2> SUFFICES ASSUME NEW m \in Lines
               PROVE  PcOK(m)'
    BY DEF PcInv
  <2>0. PcOK(m) /\ PcOK(l)
    BY DEF PcInv
  <2>1. CASE m = l
    BY <2>0, <2>1 DEF TypeInv, PcOK
  <2>2. CASE m # l
    BY <2>0, <2>2 DEF TypeInv, PcOK
  <2> QED BY <2>1, <2>2
<1>3. LinkInv'
  BY DEF LinkInv, TypeInv
<1>4. OwnInv'
  <2>1. \A m \in Lines : Owns(m)' => /\ Owns(m) /\ lsock'[m] = lsock[m]
                                    /\ where'[lsock[m]] = where[lsock[m]]
    BY DEF Owns, TypeInv, OwnInv, PcInv, PcOK
  <2> QED BY <2>1, OwnKept
<1>5. CloseInv'
  BY DEF CloseInv, TypeInv, OwnInv, Owns, PcInv, PcOK, LinkInv
<1> QED BY <1>1, <1>2, <1>3, <1>4, <1>5

\* A line accepts a socket and becomes its owner.
LEMMA AcceptStep ==
  ASSUME PInv, NEW l \in Lines, NEW s \in Sockets, Accept(l, s)
  PROVE  PInv'
<1> USE NAssumption, SocketAssumption
    DEF PInv, BusyPC, IdlePC, TakenPC, LinePC, Lines, Tasks, Main, Goto, slotVars,
        lineVars, shutVars, mainVars, Accept, Holders
<1>1. TypeInv'
  BY DEF TypeInv, PcInv, PcOK, LinkInv
<1>2. PcInv'
  <2> SUFFICES ASSUME NEW m \in Lines
               PROVE  PcOK(m)'
    BY DEF PcInv
  <2>0. PcOK(m) /\ PcOK(l)
    BY DEF PcInv
  <2>1. CASE m = l
    BY <2>0, <2>1 DEF TypeInv, PcOK
  <2>2. CASE m # l
    BY <2>0, <2>2 DEF TypeInv, PcOK
  <2> QED BY <2>1, <2>2
<1>3. LinkInv'
  BY DEF LinkInv, TypeInv
<1>4. OwnInv'
  <2>1. \A m \in Lines \ {l} : Owns(m)' <=> Owns(m)
    BY DEF Owns, TypeInv
  <2>2. \A m \in Lines \ {l} : Owns(m) => lsock'[m] # s /\ where'[lsock'[m]] = "line"
    BY DEF TypeInv, OwnInv
  <2>3. lsock'[l] = s /\ where'[s] = "line" /\ \A m \in Lines \ {l} : lsock'[m] = lsock[m]
    BY DEF TypeInv
  <2> QED BY <2>1, <2>2, <2>3 DEF OwnInv
<1>5. CloseInv'
  BY DEF CloseInv, TypeInv, OwnInv, Owns, PcInv, PcOK, LinkInv
<1> QED BY <1>1, <1>2, <1>3, <1>4, <1>5

\* Accept_Error starts a Force_Clean.
LEMMA Accept_ErrorStep ==
  ASSUME PInv, NEW l \in Lines, Accept_Error(l)
  PROVE  PInv'
<1> USE NAssumption, SocketAssumption
    DEF PInv, BusyPC, IdlePC, TakenPC, LinePC, Lines, Tasks, Main, Goto, slotVars,
        lineVars, shutVars, mainVars, Accept_Error
<1>1. TypeInv'
  BY DEF TypeInv, PcInv, PcOK, LinkInv
<1>2. PcInv'
  <2> SUFFICES ASSUME NEW m \in Lines
               PROVE  PcOK(m)'
    BY DEF PcInv
  <2>0. PcOK(m) /\ PcOK(l)
    BY DEF PcInv
  <2>1. CASE m = l
    BY <2>0, <2>1 DEF TypeInv, PcOK
  <2>2. CASE m # l
    BY <2>0, <2>2 DEF TypeInv, PcOK
  <2> QED BY <2>1, <2>2
<1>3. LinkInv'
  BY DEF LinkInv, TypeInv
<1>4. OwnInv'
  <2>1. \A m \in Lines : Owns(m)' => /\ Owns(m) /\ lsock'[m] = lsock[m]
                                    /\ where'[lsock[m]] = where[lsock[m]]
    BY DEF Owns, TypeInv, OwnInv, PcInv, PcOK
  <2> QED BY <2>1, OwnKept
<1>5. CloseInv'
  BY DEF CloseInv, TypeInv, OwnInv, Owns, PcInv, PcOK, LinkInv
<1> QED BY <1>1, <1>2, <1>3, <1>4, <1>5

\* The acceptor is down: the line terminates.
LEMMA AcceptFailsStep ==
  ASSUME PInv, NEW l \in Lines, AcceptFails(l)
  PROVE  PInv'
<1> USE NAssumption, SocketAssumption
    DEF PInv, BusyPC, IdlePC, TakenPC, LinePC, Lines, Tasks, Main, Goto, slotVars,
        lineVars, shutVars, mainVars, AcceptFails
<1>1. TypeInv'
  BY DEF TypeInv, PcInv, PcOK, LinkInv
<1>2. PcInv'
  <2> SUFFICES ASSUME NEW m \in Lines
               PROVE  PcOK(m)'
    BY DEF PcInv
  <2>0. PcOK(m) /\ PcOK(l)
    BY DEF PcInv
  <2>1. CASE m = l
    BY <2>0, <2>1 DEF TypeInv, PcOK
  <2>2. CASE m # l
    BY <2>0, <2>2 DEF TypeInv, PcOK
  <2> QED BY <2>1, <2>2
<1>3. LinkInv'
  BY DEF LinkInv, TypeInv
<1>4. OwnInv'
  <2>1. \A m \in Lines : Owns(m)' => /\ Owns(m) /\ lsock'[m] = lsock[m]
                                    /\ where'[lsock[m]] = where[lsock[m]]
    BY DEF Owns, TypeInv, OwnInv, PcInv, PcOK
  <2> QED BY <2>1, OwnKept
<1>5. CloseInv'
  BY DEF CloseInv, TypeInv, OwnInv, Owns, PcInv, PcOK, LinkInv
<1> QED BY <1>1, <1>2, <1>3, <1>4, <1>5

\* The SSL handshake fails.
LEMMA HandshakeFailsStep ==
  ASSUME PInv, NEW l \in Lines, HandshakeFails(l)
  PROVE  PInv'
<1> USE NAssumption, SocketAssumption
    DEF PInv, BusyPC, IdlePC, TakenPC, LinePC, Lines, Tasks, Main, Goto, slotVars,
        lineVars, shutVars, mainVars, HandshakeFails, Holders
<1>1. TypeInv'
  BY DEF TypeInv, PcInv, PcOK, LinkInv
<1>2. PcInv'
  <2> SUFFICES ASSUME NEW m \in Lines
               PROVE  PcOK(m)'
    BY DEF PcInv
  <2>0. PcOK(m) /\ PcOK(l)
    BY DEF PcInv
  <2>1. CASE m = l
    BY <2>0, <2>1 DEF TypeInv, PcOK
  <2>2. CASE m # l
    BY <2>0, <2>2 DEF TypeInv, PcOK
  <2> QED BY <2>1, <2>2
<1>3. LinkInv'
  BY DEF LinkInv, TypeInv
<1>4. OwnInv'
  <2>1. Owns(l)
    BY DEF Owns, TypeInv, PcInv, PcOK
  <2>2. \A m \in Lines : Owns(m)' => m # l /\ Owns(m) /\ lsock'[m] = lsock[m]
    BY DEF Owns, TypeInv, PcInv, PcOK
  <2>3. \A m \in Lines \ {l} : Owns(m) => lsock[m] # lsock[l]
    BY <2>1 DEF OwnInv
  <2>4. \A m \in Lines \ {l} : Owns(m) => where'[lsock[m]] = where[lsock[m]]
    BY <2>3 DEF TypeInv
  <2> QED BY <2>2, <2>4, OwnKept
<1>5. CloseInv'
  BY DEF CloseInv, TypeInv, OwnInv, Owns, PcInv, PcOK, LinkInv
<1> QED BY <1>1, <1>2, <1>3, <1>4, <1>5

\* Setting the socket options fails.
LEMMA SetupFailsStep ==
  ASSUME PInv, NEW l \in Lines, SetupFails(l)
  PROVE  PInv'
<1> USE NAssumption, SocketAssumption
    DEF PInv, BusyPC, IdlePC, TakenPC, LinePC, Lines, Tasks, Main, Goto, slotVars,
        lineVars, shutVars, mainVars, SetupFails, Holders
<1>0. PICK x \in Holders : where' = [where EXCEPT ![lsock[l]] = x]
  OBVIOUS
<1>1. TypeInv'
  <2>1. where' \in [Sockets -> Holders]
    BY <1>0 DEF TypeInv
  <2> QED BY <2>1 DEF TypeInv
<1>2. PcInv'
  <2> SUFFICES ASSUME NEW m \in Lines
               PROVE  PcOK(m)'
    BY DEF PcInv
  <2>0. PcOK(m) /\ PcOK(l)
    BY DEF PcInv
  <2>1. CASE m = l
    BY <2>0, <2>1 DEF TypeInv, PcOK
  <2>2. CASE m # l
    BY <2>0, <2>2 DEF TypeInv, PcOK
  <2> QED BY <2>1, <2>2
<1>3. LinkInv'
  BY DEF LinkInv, TypeInv
<1>4. OwnInv'
  <2>1. Owns(l)
    BY DEF Owns, TypeInv, PcInv, PcOK
  <2>2. \A m \in Lines : Owns(m)' => m # l /\ Owns(m) /\ lsock'[m] = lsock[m]
    BY DEF Owns, TypeInv, PcInv, PcOK
  <2>3. \A m \in Lines \ {l} : Owns(m) => lsock[m] # lsock[l]
    BY <2>1 DEF OwnInv
  <2>4. \A m \in Lines \ {l} : Owns(m) => where'[lsock[m]] = where[lsock[m]]
    BY <1>0, <2>3 DEF TypeInv
  <2> QED BY <2>2, <2>4, OwnKept
<1>5. CloseInv'
  BY DEF CloseInv, TypeInv, OwnInv, Owns, PcInv, PcOK, LinkInv
<1> QED BY <1>1, <1>2, <1>3, <1>4, <1>5

\* Slots.Set.
LEMMA SetStep ==
  ASSUME PInv, NEW l \in Lines, Set(l)
  PROVE  PInv'
<1> USE NAssumption, SocketAssumption
    DEF PInv, BusyPC, IdlePC, TakenPC, LinePC, Lines, Tasks, Main, Goto, slotVars,
        lineVars, shutVars, mainVars, Set, TakeSlot
<1>1. TypeInv'
  <2>1. phase' \in [Lines -> Slot_Phase] /\ sock' \in [Lines -> Sockets \cup {NoSock}]
    BY DEF TypeInv, Slot_Phase
  <2>2. count' \in Int /\ pc' \in [Lines -> LinePC]
    BY DEF TypeInv
  <2> QED BY <2>1, <2>2 DEF TypeInv
<1>2. PcInv'
  <2> SUFFICES ASSUME NEW m \in Lines
               PROVE  PcOK(m)'
    BY DEF PcInv
  <2>0. PcOK(m) /\ PcOK(l)
    BY DEF PcInv
  <2>1. CASE m = l
    BY <2>0, <2>1 DEF TypeInv, PcOK
  <2>2. CASE m # l
    BY <2>0, <2>2 DEF TypeInv, PcOK
  <2> QED BY <2>1, <2>2
<1>3. LinkInv'
  BY DEF LinkInv, TypeInv
<1>4. OwnInv'
  <2>1. \A m \in Lines : Owns(m)' => /\ Owns(m) /\ lsock'[m] = lsock[m]
                                    /\ where'[lsock[m]] = where[lsock[m]]
    BY DEF Owns, TypeInv, OwnInv, PcInv, PcOK
  <2> QED BY <2>1, OwnKept
<1>5. CloseInv'
  BY DEF CloseInv, TypeInv
<1> QED BY <1>1, <1>2, <1>3, <1>4, <1>5

\* Slots.Release; the entry is open only when nobody shuts a socket down.
LEMMA ReleaseStep ==
  ASSUME PInv, shutdownCount = 0 => \A t \in Tasks : target[t] = 0, NEW l \in Lines, Release(l)
  PROVE  PInv'
<1> USE NAssumption, SocketAssumption
    DEF PInv, BusyPC, IdlePC, TakenPC, LinePC, Lines, Tasks, Main, Goto, slotVars,
        lineVars, shutVars, mainVars, Release, Slot_Phase, Holders
<1>1. TypeInv'
  BY DEF TypeInv, PcInv, PcOK, LinkInv
<1>2. PcInv'
  BY DEF PcInv, PcOK, TypeInv, LinkInv
<1>3. LinkInv'
  BY DEF LinkInv, TypeInv
<1>4. OwnInv'
  BY DEF OwnInv, TypeInv, Owns, PcInv, PcOK
<1>5. CloseInv'
  BY DEF CloseInv, TypeInv, OwnInv, Owns, PcInv, PcOK, LinkInv
<1> QED BY <1>1, <1>2, <1>3, <1>4, <1>5

\* The line frees the socket on its stack.
LEMMA CloseStep ==
  ASSUME PInv, NEW l \in Lines, Close(l)
  PROVE  PInv'
<1> USE NAssumption, SocketAssumption
    DEF PInv, BusyPC, IdlePC, TakenPC, LinePC, Lines, Tasks, Main, Goto, slotVars,
        lineVars, shutVars, mainVars, Close, Holders
<1>1. TypeInv'
  BY DEF TypeInv, PcInv, PcOK, LinkInv
<1>2. PcInv'
  <2> SUFFICES ASSUME NEW m \in Lines
               PROVE  PcOK(m)'
    BY DEF PcInv
  <2>0. PcOK(m) /\ PcOK(l)
    BY DEF PcInv
  <2>1. CASE m = l
    BY <2>0, <2>1 DEF TypeInv, PcOK
  <2>2. CASE m # l
    BY <2>0, <2>2 DEF TypeInv, PcOK
  <2> QED BY <2>1, <2>2
<1>3. LinkInv'
  BY DEF LinkInv, TypeInv
<1>4. OwnInv'
  <2>1. Owns(l)
    BY DEF Owns, TypeInv, PcInv, PcOK
  <2>2. \A m \in Lines : Owns(m)' => m # l /\ Owns(m) /\ lsock'[m] = lsock[m]
    BY DEF Owns, TypeInv, PcInv, PcOK
  <2>3. \A m \in Lines \ {l} : Owns(m) => lsock[m] # lsock[l]
    BY <2>1 DEF OwnInv
  <2>4. \A m \in Lines \ {l} : Owns(m) => where'[lsock[m]] = where[lsock[m]]
    BY <2>3 DEF TypeInv
  <2> QED BY <2>2, <2>4, OwnKept
<1>5. CloseInv'
  BY DEF CloseInv, TypeInv, OwnInv, Owns, PcInv, PcOK, LinkInv
<1> QED BY <1>1, <1>2, <1>3, <1>4, <1>5

\* Get_Wait_For_Data assigns the phase of a slot the line owns.
LEMMA Get_Wait_For_DataStep ==
  ASSUME PInv, NEW l \in Lines, Get_Wait_For_Data(l)
  PROVE  PInv'
<1> USE NAssumption, SocketAssumption
    DEF PInv, BusyPC, IdlePC, TakenPC, LinePC, Lines, Tasks, Main, Goto, slotVars,
        lineVars, shutVars, mainVars, Get_Wait_For_Data, Slot_Phase
<1>1. TypeInv'
  BY DEF TypeInv, PcInv, PcOK, LinkInv
<1>2. PcInv'
  <2> SUFFICES ASSUME NEW m \in Lines
               PROVE  PcOK(m)'
    BY DEF PcInv
  <2>0. PcOK(m) /\ PcOK(l)
    BY DEF PcInv
  <2>1. CASE m = l
    BY <2>0, <2>1 DEF TypeInv, PcOK
  <2>2. CASE m # l
    BY <2>0, <2>2 DEF TypeInv, PcOK
  <2> QED BY <2>1, <2>2
<1>3. LinkInv'
  BY DEF LinkInv, TypeInv
<1>4. OwnInv'
  <2>1. \A m \in Lines : Owns(m)' => /\ Owns(m) /\ lsock'[m] = lsock[m]
                                    /\ where'[lsock[m]] = where[lsock[m]]
    BY DEF Owns, TypeInv, OwnInv, PcInv, PcOK
  <2> QED BY <2>1, OwnKept
<1>5. CloseInv'
  BY DEF CloseInv, TypeInv, OwnInv, Owns, PcInv, PcOK, LinkInv
<1> QED BY <1>1, <1>2, <1>3, <1>4, <1>5

\* Prepare_Back.
LEMMA Prepare_BackStep ==
  ASSUME PInv, NEW l \in Lines, Prepare_Back(l)
  PROVE  PInv'
<1> USE NAssumption, SocketAssumption
    DEF PInv, BusyPC, IdlePC, TakenPC, LinePC, Lines, Tasks, Main, Goto, slotVars,
        lineVars, shutVars, mainVars, Prepare_Back, Shut_Phase
<1>1. TypeInv'
  BY DEF TypeInv, Slot_Phase
<1>2. PcInv'
  <2> SUFFICES ASSUME NEW m \in Lines
               PROVE  PcOK(m)'
    BY DEF PcInv
  <2>0. PcOK(m) /\ PcOK(l)
    BY DEF PcInv
  <2>1. CASE m = l
    BY <2>0, <2>1 DEF TypeInv, PcOK
  <2>2. CASE m # l
    BY <2>0, <2>2 DEF TypeInv, PcOK
  <2> QED BY <2>1, <2>2
<1>3. LinkInv'
  BY DEF LinkInv, TypeInv
<1>4. OwnInv'
  <2>1. \A m \in Lines : lsock'[m] = lsock[m] /\ where' = where
    OBVIOUS
  <2>2. \A m \in Lines \ {l} : Owns(m)' => Owns(m)
    BY DEF Owns, TypeInv
  <2>3. CASE phase[l] \in Shut_Phase
    BY <2>3, <2>1, <2>2, OwnKept DEF Owns, TypeInv
  <2>4. CASE phase[l] \notin Shut_Phase
    <3>1. Owns(l)
      BY DEF Owns, PcInv, PcOK
    <3> QED BY <2>1, <2>2, <3>1, OwnKept
  <2> QED BY <2>3, <2>4
<1>5. CloseInv'
  BY DEF CloseInv, TypeInv
<1> QED BY <1>1, <1>2, <1>3, <1>4, <1>5

\* Give_Back.
LEMMA Give_BackStep ==
  ASSUME PInv, NEW l \in Lines, Give_Back(l)
  PROVE  PInv'
<1> USE NAssumption, SocketAssumption
    DEF PInv, BusyPC, IdlePC, TakenPC, LinePC, Lines, Tasks, Main, Goto, slotVars,
        lineVars, shutVars, mainVars, Give_Back, Holders
<1>0. PICK x \in Holders : where' = [where EXCEPT ![lsock[l]] = x]
  OBVIOUS
<1>1. TypeInv'
  BY DEF TypeInv, PcInv, PcOK, LinkInv
<1>2. PcInv'
  <2> SUFFICES ASSUME NEW m \in Lines
               PROVE  PcOK(m)'
    BY DEF PcInv
  <2>0. PcOK(m) /\ PcOK(l)
    BY DEF PcInv
  <2>1. CASE m = l
    BY <2>0, <2>1 DEF TypeInv, PcOK
  <2>2. CASE m # l
    BY <2>0, <2>2 DEF TypeInv, PcOK
  <2> QED BY <2>1, <2>2
<1>3. LinkInv'
  BY DEF LinkInv, TypeInv
<1>4. OwnInv'
  <2>1. Owns(l)
    BY DEF Owns, TypeInv, PcInv, PcOK
  <2>2. \A m \in Lines : Owns(m)' => m # l /\ Owns(m) /\ lsock'[m] = lsock[m]
    BY DEF Owns, TypeInv, PcInv, PcOK
  <2>3. \A m \in Lines \ {l} : Owns(m) => lsock[m] # lsock[l]
    BY <2>1 DEF OwnInv
  <2>4. \A m \in Lines \ {l} : Owns(m) => where'[lsock[m]] = where[lsock[m]]
    BY <1>0, <2>3 DEF TypeInv
  <2> QED BY <2>2, <2>4, OwnKept
<1>5. CloseInv'
  BY DEF CloseInv, TypeInv, OwnInv, Owns, PcInv, PcOK, LinkInv
<1> QED BY <1>1, <1>2, <1>3, <1>4, <1>5

\* Socket_Taken.
LEMMA Socket_TakenStep ==
  ASSUME PInv, NEW l \in Lines, Socket_Taken(l)
  PROVE  PInv'
<1> USE NAssumption, SocketAssumption
    DEF PInv, BusyPC, IdlePC, TakenPC, LinePC, Lines, Tasks, Main, Goto, slotVars,
        lineVars, shutVars, mainVars, Socket_Taken, Holders
<1>1. TypeInv'
  BY DEF TypeInv
<1>2. PcInv'
  <2> SUFFICES ASSUME NEW m \in Lines
               PROVE  PcOK(m)'
    BY DEF PcInv
  <2>0. PcOK(m) /\ PcOK(l)
    BY DEF PcInv
  <2>1. CASE m = l
    BY <2>0, <2>1 DEF TypeInv, PcOK
  <2>2. CASE m # l
    BY <2>0, <2>2 DEF TypeInv, PcOK
  <2> QED BY <2>1, <2>2
<1>3. LinkInv'
  BY DEF LinkInv, TypeInv
<1>4. OwnInv'
  <2>1. CASE taken[l]
    <3>1. \A m \in Lines : Owns(m)' => Owns(m) /\ lsock'[m] = lsock[m] /\ where' = where
      BY <2>1 DEF Owns, TypeInv
    <3> QED BY <3>1, OwnKept
  <2>2. CASE ~taken[l]
    <3>1. Owns(l)
      BY <2>2 DEF Owns, PcInv, PcOK
    <3>2. \A m \in Lines : Owns(m)' => m # l /\ Owns(m) /\ lsock'[m] = lsock[m]
      BY DEF Owns, TypeInv
    <3>3. \A m \in Lines \ {l} : Owns(m) => lsock[m] # lsock[l]
      BY <3>1 DEF OwnInv
    <3>4. \A m \in Lines \ {l} : Owns(m) => where'[lsock[m]] = where[lsock[m]]
      BY <3>3, <2>2 DEF TypeInv
    <3> QED BY <3>2, <3>4, OwnKept
  <2> QED BY <2>1, <2>2 DEF TypeInv
<1>5. CloseInv'
  BY DEF CloseInv, TypeInv
<1> QED BY <1>1, <1>2, <1>3, <1>4, <1>5

\* Shutdown is called.
LEMMA BeginShutdownStep ==
  ASSUME PInv, BeginShutdown
  PROVE  PInv'
<1> USE NAssumption, SocketAssumption
    DEF PInv, BusyPC, IdlePC, TakenPC, LinePC, Lines, Tasks, Main, Goto, slotVars,
        lineVars, shutVars, mainVars, BeginShutdown, MainPC
<1>1. TypeInv'
  BY DEF TypeInv, PcInv, PcOK, LinkInv
<1>2. PcInv'
  BY DEF PcInv, PcOK, TypeInv, LinkInv
<1>3. LinkInv'
  BY DEF LinkInv, TypeInv
<1>4. OwnInv'
  BY DEF OwnInv, TypeInv, Owns, PcInv, PcOK
<1>5. CloseInv'
  BY DEF CloseInv, TypeInv, OwnInv, Owns, PcInv, PcOK, LinkInv
<1> QED BY <1>1, <1>2, <1>3, <1>4, <1>5

\* The acceptor is shut down.
LEMMA StopAcceptorStep ==
  ASSUME PInv, StopAcceptor
  PROVE  PInv'
<1> USE NAssumption, SocketAssumption
    DEF PInv, BusyPC, IdlePC, TakenPC, LinePC, Lines, Tasks, Main, Goto, slotVars,
        lineVars, shutVars, mainVars, StopAcceptor, MainPC
<1>1. TypeInv'
  BY DEF TypeInv, PcInv, PcOK, LinkInv
<1>2. PcInv'
  BY DEF PcInv, PcOK, TypeInv, LinkInv
<1>3. LinkInv'
  BY DEF LinkInv, TypeInv
<1>4. OwnInv'
  BY DEF OwnInv, TypeInv, Owns, PcInv, PcOK
<1>5. CloseInv'
  BY DEF CloseInv, TypeInv, OwnInv, Owns, PcInv, PcOK, LinkInv
<1> QED BY <1>1, <1>2, <1>3, <1>4, <1>5

\* The memory of lines and slots is freed.
LEMMA FreeLinesStep ==
  ASSUME PInv, FreeLines
  PROVE  PInv'
<1> USE NAssumption, SocketAssumption
    DEF PInv, BusyPC, IdlePC, TakenPC, LinePC, Lines, Tasks, Main, Goto, slotVars,
        lineVars, shutVars, mainVars, FreeLines, MainPC
<1>1. TypeInv'
  BY DEF TypeInv, PcInv, PcOK, LinkInv
<1>2. PcInv'
  BY DEF PcInv, PcOK, TypeInv, LinkInv
<1>3. LinkInv'
  BY DEF LinkInv, TypeInv
<1>4. OwnInv'
  BY DEF OwnInv, TypeInv, Owns, PcInv, PcOK
<1>5. CloseInv'
  BY DEF CloseInv, TypeInv, OwnInv, Owns, PcInv, PcOK, LinkInv
<1> QED BY <1>1, <1>2, <1>3, <1>4, <1>5

-----------------------------------------------------------------------------
(***************************************************************************)
(* Steps that shut a slot down.  They change phases, but never to or from  *)
(* Closed.                                                                 *)
(***************************************************************************)
ClosedKept ==
  /\ phase' \in [Lines -> Slot_Phase]
  /\ \A s \in Lines : phase'[s] = "Closed" <=> phase[s] = "Closed"

\* A step of Force_Clean leaves the socket of every line where it was.
LEMMA CleanPcStep ==
  ASSUME PInv, NEW l \in Lines, pc[l] \in {"Clean", "Shutting"},
         NEW q \in {"Shutting", AfterClean(l)}, pc' = [pc EXCEPT ![l] = q],
         ClosedKept, UNCHANGED <<sock, taken, lsock, where>>
  PROVE  PcInv' /\ OwnInv'
<1> USE DEF PInv, TypeInv, ClosedKept
<1>1. PcInv'
  <2> SUFFICES ASSUME NEW m \in Lines
               PROVE  PcOK(m)'
    BY DEF PcInv
  <2>0. PcOK(m) /\ PcOK(l)
    BY DEF PcInv
  <2>1. CASE m = l
    BY <2>0, <2>1 DEF PcOK, AfterClean, BusyPC, TakenPC
  <2>2. CASE m # l
    BY <2>0, <2>2 DEF PcOK
  <2> QED BY <2>1, <2>2
<1>2. OwnInv'
  <2>1. \A m \in Lines : Owns(m)' => Owns(m)
    BY DEF Owns, AfterClean
  <2> QED BY <2>1, OwnKept
<1> QED BY <1>1, <1>2

\* The same of a step of the task in Shutdown.
LEMMA MainPcStep ==
  ASSUME PInv, ClosedKept, UNCHANGED <<pc, sock, taken, lsock, where>>
  PROVE  PcInv' /\ OwnInv'
<1>1. PcInv'
  BY DEF PInv, PcInv, PcOK, ClosedKept
<1>2. OwnInv'
  BY DEF PInv, OwnInv, Owns
<1> QED BY <1>1, <1>2

\* The socket taken for shutdown is not one a line is about to free.
LEMMA HeldStep ==
  ASSUME PInv, NEW t \in Tasks, NEW v \in Lines, sock[v] # NoSock,
         held' = [held EXCEPT ![t] = sock[v]], lsock' = lsock,
         \A m \in Lines : pc'[m] = "Close" => pc[m] = "Close"
  PROVE  CloseInv'
<1> SUFFICES ASSUME NEW m \in Lines, pc[m] = "Close", NEW u \in Tasks
             PROVE  held'[u] # lsock[m]
  BY DEF CloseInv
<1>1. CASE u # t
  BY <1>1 DEF PInv, CloseInv, TypeInv
<1>2. CASE u = t
  <2>1. sock[m] = NoSock /\ m # v
    BY DEF PInv, PcInv, PcOK
  <2>2. Owns(m) /\ Owns(v) /\ sock[v] = lsock[v]
    BY DEF PInv, PcInv, PcOK, Owns
  <2>3. lsock[v] # lsock[m]
    BY <2>1, <2>2 DEF PInv, OwnInv
  <2> QED BY <1>2, <2>2, <2>3 DEF PInv, TypeInv
<1> QED BY <1>1, <1>2

\* Shutdown_Done, whoever calls it.
LEMMA DoneFacts ==
  ASSUME PInv, NEW t \in Tasks, target[t] # 0, Shutdown_Done(t)
  PROVE  /\ ClosedKept
         /\ target' = [target EXCEPT ![t] = 0]
         /\ held' = [held EXCEPT ![t] = NoSock]
         /\ overwritten' = overwritten
         /\ shutdownCount' \in Int
<1> USE NAssumption DEF Shutdown_Done, Forget, PInv, TypeInv
<1>1. target[t] \in Lines
  BY DEF Lines
<1>2. ClosedKept
  BY <1>1 DEF ClosedKept, Slot_Phase
<1> QED BY <1>2

\* Abort_On_Timeout finds nothing to shut down.
LEMMA AbortNoneStep ==
  ASSUME PInv, NEW l \in Lines, pc[l] = "Clean", NEW T \in SUBSET Lines,
         Abort_None(l, T), Goto(l, AfterClean(l)),
         UNCHANGED <<shutdownCount, shutVars, sock, taken, count, lsock, where,
                     mainVars>>
  PROVE  PInv'
<1>0. UNCHANGED <<target, held, overwritten>>
  BY DEF shutVars
<1>1. ClosedKept
  BY DEF Abort_None, Abortable, ClosedKept, PInv, TypeInv, Slot_Phase,
         Abortable_Phase
<1>2. pc' = [pc EXCEPT ![l] = AfterClean(l)] /\ AfterClean(l) \in LinePC \ {"Shutting", "Close"}
  BY DEF Goto, AfterClean, LinePC, BusyPC, IdlePC
<1>3. PcInv' /\ OwnInv'
  BY <1>1, <1>2, CleanPcStep
<1>4. TypeInv'
  BY <1>0, <1>1, <1>2 DEF PInv, TypeInv, ClosedKept, mainVars
<1>5. LinkInv'
  BY <1>0, <1>2 DEF PInv, LinkInv, TypeInv, mainVars
<1>6. CloseInv'
  BY <1>0, <1>2 DEF PInv, CloseInv, TypeInv
<1> QED BY <1>3, <1>4, <1>5, <1>6 DEF PInv

\* Abort_On_Timeout marks a slot of another line In_Shutdown.
LEMMA AbortSlotStep ==
  ASSUME PInv, NEW l \in Lines, pc[l] = "Clean", NEW T \in SUBSET Lines,
         NEW v \in Lines, Abort_Slot(l, T, v), Goto(l, "Shutting"),
         UNCHANGED <<sock, taken, count, lsock, where, mainVars>>
  PROVE  PInv'
<1>1. ClosedKept
  BY DEF Abort_Slot, Abortable, ClosedKept, PInv, TypeInv, Slot_Phase,
         Abortable_Phase
<1>2. pc' = [pc EXCEPT ![l] = "Shutting"]
  BY DEF Goto
<1>3. PcInv' /\ OwnInv'
  BY <1>1, <1>2, CleanPcStep
<1>4. /\ shutdownCount' = shutdownCount + 1
      /\ target' = [target EXCEPT ![l] = v]
      /\ held' = [held EXCEPT ![l] = sock[v]]
      /\ overwritten' = overwritten
      /\ sock[v] # NoSock
  BY DEF Abort_Slot, TakeForShutdown
<1>5. l \in Tasks /\ v \in 1..N /\ l # Main /\ Main \in Tasks
  BY NAssumption DEF Lines, Tasks, Main
<1>6. TypeInv'
  <2>1. target' \in [Tasks -> 0..N] /\ held' \in [Tasks -> Sockets \cup {NoSock}]
    BY <1>4, <1>5, NAssumption DEF PInv, TypeInv
  <2> QED BY <1>1, <1>2, <1>4, <2>1 DEF PInv, TypeInv, ClosedKept, mainVars, LinePC
<1>7. LinkInv'
  <2>1. \A m \in Lines : pc'[m] = "Shutting" <=> target'[m] # 0
    <3> SUFFICES ASSUME NEW m \in Lines
                 PROVE  pc'[m] = "Shutting" <=> target'[m] # 0
      OBVIOUS
    <3>1. m \in Tasks /\ v # 0
      BY NAssumption DEF Lines, Tasks
    <3>2. CASE m = l
      BY <3>1, <3>2, <1>2, <1>4 DEF PInv, TypeInv
    <3>3. CASE m # l
      BY <3>1, <3>3, <1>2, <1>4 DEF PInv, TypeInv, LinkInv
    <3> QED BY <3>2, <3>3
  <2>2. main' = "Shutting" <=> target'[Main] # 0
    BY <1>4, <1>5 DEF PInv, LinkInv, TypeInv, mainVars
  <2>3. \A t \in Tasks : target'[t] = 0 => held'[t] = NoSock
    BY <1>4, <1>5 DEF PInv, LinkInv, TypeInv
  <2> QED BY <2>1, <2>2, <2>3 DEF LinkInv
<1>8. CloseInv'
  BY <1>2, <1>4, <1>5, HeldStep DEF PInv, TypeInv
<1> QED BY <1>3, <1>6, <1>7, <1>8 DEF PInv

\* The second half of Force_Clean.
LEMMA ForceCleanDoneStep ==
  ASSUME PInv, NEW l \in Lines, ForceCleanDone(l)
  PROVE  PInv'
<1>0. l \in Tasks /\ l # Main /\ target[l] # 0 /\ pc[l] = "Shutting"
  BY NAssumption DEF ForceCleanDone, PInv, LinkInv, Lines, Tasks, Main
<1>1. /\ ClosedKept
      /\ target' = [target EXCEPT ![l] = 0]
      /\ held' = [held EXCEPT ![l] = NoSock]
      /\ overwritten' = overwritten
      /\ shutdownCount' \in Int
  BY <1>0, DoneFacts DEF ForceCleanDone
<1>2. pc' = [pc EXCEPT ![l] = AfterClean(l)] /\ AfterClean(l) \in LinePC \ {"Shutting", "Close"}
  BY DEF ForceCleanDone, Goto, AfterClean, LinePC, BusyPC, IdlePC
<1>3. UNCHANGED <<sock, taken, count, lsock, where, main, index, shutdown>>
  BY DEF ForceCleanDone, mainVars
<1>4. PcInv' /\ OwnInv'
  BY <1>0, <1>1, <1>2, <1>3, CleanPcStep
<1>5. TypeInv'
  <2>0. 0 \in 0..N
    BY NAssumption
  <2>1. target' \in [Tasks -> 0..N] /\ held' \in [Tasks -> Sockets \cup {NoSock}]
    BY <1>1, <2>0 DEF PInv, TypeInv
  <2> QED BY <1>1, <1>2, <1>3, <2>1 DEF PInv, TypeInv, ClosedKept
<1>6. LinkInv'
  <2>1. \A m \in Lines : pc'[m] = "Shutting" <=> target'[m] # 0
    <3> SUFFICES ASSUME NEW m \in Lines
                 PROVE  pc'[m] = "Shutting" <=> target'[m] # 0
      OBVIOUS
    <3>1. m \in Tasks
      BY NAssumption DEF Lines, Tasks
    <3>2. CASE m = l
      BY <3>1, <3>2, <1>1, <1>2 DEF PInv, TypeInv
    <3>3. CASE m # l
      BY <3>1, <3>3, <1>1, <1>2 DEF PInv, TypeInv, LinkInv
    <3> QED BY <3>2, <3>3
  <2>2. main' = "Shutting" <=> target'[Main] # 0
    BY <1>0, <1>1, <1>3, NAssumption DEF PInv, LinkInv, TypeInv, Main, Tasks
  <2>3. \A t \in Tasks : target'[t] = 0 => held'[t] = NoSock
    BY <1>1 DEF PInv, LinkInv, TypeInv
  <2> QED BY <2>1, <2>2, <2>3 DEF LinkInv
<1>7. CloseInv'
  BY <1>0, <1>1, <1>2, <1>3, SocketAssumption DEF PInv, CloseInv, TypeInv, PcInv, PcOK
<1> QED BY <1>4, <1>5, <1>6, <1>7 DEF PInv

\* Shutdown ends the shutdown of a slot.
LEMMA SlotShutdownDoneStep ==
  ASSUME PInv, SlotShutdownDone
  PROVE  PInv'
<1>0. Main \in Tasks /\ target[Main] # 0 /\ main = "Shutting" /\ index \in Lines
  BY NAssumption DEF SlotShutdownDone, PInv, LinkInv, TypeInv, Tasks, Main
<1>1. /\ ClosedKept
      /\ target' = [target EXCEPT ![Main] = 0]
      /\ held' = [held EXCEPT ![Main] = NoSock]
      /\ overwritten' = overwritten
      /\ shutdownCount' \in Int
  BY <1>0, DoneFacts DEF SlotShutdownDone
<1>2. UNCHANGED <<pc, sock, taken, count, lsock, where, shutdown>> /\ NextSlot
  BY DEF SlotShutdownDone, lineVars
<1>3. PcInv' /\ OwnInv'
  BY <1>1, <1>2, MainPcStep
<1>4. TypeInv'
  BY <1>0, <1>1, <1>2, NAssumption
     DEF PInv, TypeInv, ClosedKept, NextSlot, MainPC, Lines
<1>5. LinkInv'
  <2>1. \A m \in Lines : m \in Tasks /\ m # Main
    BY NAssumption DEF Lines, Tasks, Main
  <2>2. \A m \in Lines : pc'[m] = "Shutting" <=> target'[m] # 0
    BY <2>1, <1>1, <1>2 DEF PInv, LinkInv, TypeInv
  <2>3. main' = "Shutting" <=> target'[Main] # 0
    BY <1>0, <1>1, <1>2 DEF PInv, TypeInv, NextSlot
  <2>4. \A t \in Tasks : target'[t] = 0 => held'[t] = NoSock
    BY <1>1 DEF PInv, LinkInv, TypeInv
  <2> QED BY <2>2, <2>3, <2>4 DEF LinkInv
<1>6. CloseInv'
  BY <1>0, <1>1, <1>2, SocketAssumption DEF PInv, CloseInv, TypeInv, PcInv, PcOK
<1> QED BY <1>3, <1>4, <1>5, <1>6 DEF PInv

\* Shutdown looks at a slot: it marks it In_Shutdown, marks it Aborted, or
\* leaves it alone.
LEMMA Get_For_ShutdownStep ==
  ASSUME PInv, Get_For_Shutdown
  PROVE  PInv'
<1>0. Main \in Tasks /\ target[Main] = 0 /\ main = "Slot" /\ index \in Lines
  BY NAssumption DEF Get_For_Shutdown, PInv, LinkInv, TypeInv, Tasks, Main
<1>1. UNCHANGED <<pc, sock, taken, count, lsock, where, shutdown>>
  BY DEF Get_For_Shutdown, lineVars
<1>2. CASE /\ phase[index] \in Live_Phase
           /\ sock[index] # NoSock
           /\ phase' = [phase EXCEPT ![index] = "In_Shutdown"]
           /\ TakeForShutdown(Main, index)
           /\ main' = "Shutting"
           /\ UNCHANGED index
  <2>1. ClosedKept
    BY <1>0, <1>2 DEF ClosedKept, PInv, TypeInv, Slot_Phase, Live_Phase
  <2>2. PcInv' /\ OwnInv'
    BY <2>1, <1>1, MainPcStep
  <2>3. TypeInv'
    BY <1>0, <1>1, <1>2, <2>1, NAssumption
       DEF PInv, TypeInv, ClosedKept, MainPC, TakeForShutdown, Lines
  <2>4. LinkInv'
    <3>1. index # 0 /\ \A l \in Lines : l \in Tasks \ {Main}
      BY <1>0, NAssumption DEF Lines, Tasks, Main
    <3>2. /\ target' = [target EXCEPT ![Main] = index]
          /\ held' = [held EXCEPT ![Main] = sock[index]]
      BY <1>2 DEF TakeForShutdown
    <3>3. /\ target'[Main] # 0
          /\ \A t \in Tasks \ {Main} : target'[t] = target[t] /\ held'[t] = held[t]
      BY <1>0, <3>1, <3>2 DEF PInv, TypeInv
    <3> QED BY <1>0, <1>1, <1>2, <3>1, <3>3 DEF PInv, LinkInv
  <2>5. CloseInv'
    BY <1>0, <1>1, <1>2, HeldStep DEF TakeForShutdown
  <2> QED BY <2>2, <2>3, <2>4, <2>5 DEF PInv
<1>3. CASE /\ \/ /\ phase[index] \in Live_Phase
                 /\ phase' = [phase EXCEPT ![index] = "Aborted"]
              \/ phase' = phase
           /\ NextSlot
           /\ UNCHANGED <<shutdownCount, shutVars>>
  <2>1. ClosedKept
    BY <1>0, <1>3 DEF ClosedKept, PInv, TypeInv, Slot_Phase, Live_Phase
  <2>2. PcInv' /\ OwnInv'
    BY <2>1, <1>1, MainPcStep
  <2>3. TypeInv'
    BY <1>0, <1>1, <1>3, <2>1, NAssumption
       DEF PInv, TypeInv, ClosedKept, MainPC, NextSlot, Lines, shutVars
  <2>4. LinkInv'
    BY <1>0, <1>1, <1>3 DEF PInv, LinkInv, NextSlot, shutVars
  <2>5. CloseInv'
    BY <1>1, <1>3 DEF PInv, CloseInv, shutVars
  <2> QED BY <2>2, <2>3, <2>4, <2>5 DEF PInv
<1> QED BY <1>2, <1>3 DEF Get_For_Shutdown

-----------------------------------------------------------------------------
(***************************************************************************)
(* The two counters of Slots.                                              *)
(***************************************************************************)

\* The sets that the counters count are finite.
LEMMA FiniteCounts ==
  /\ IsFiniteSet(BusyLines) /\ Cardinality(BusyLines) \in 0..N
  /\ IsFiniteSet(InFlight) /\ Cardinality(InFlight) \in Nat
  /\ IsFiniteSet(InShutdown) /\ Cardinality(InShutdown) \in Nat
<1>1. IsFiniteSet(Lines) /\ Cardinality(Lines) = N
  BY NAssumption, FS_Interval DEF Lines
<1>2. IsFiniteSet(Tasks)
  BY NAssumption, FS_Interval DEF Tasks
<1>3. BusyLines \in SUBSET Lines /\ InShutdown \in SUBSET Lines /\ InFlight \in SUBSET Tasks
  BY DEF BusyLines, InShutdown, InFlight
<1>4. /\ IsFiniteSet(BusyLines) /\ IsFiniteSet(InShutdown) /\ IsFiniteSet(InFlight)
      /\ Cardinality(BusyLines) <= N
  BY <1>1, <1>2, <1>3, FS_Subset
<1> QED BY <1>4, NAssumption, FS_CardinalityType

\* The same facts about the next state.
LEMMA FiniteCountsNext ==
  /\ IsFiniteSet(BusyLines') /\ Cardinality(BusyLines') \in 0..N
  /\ IsFiniteSet(InFlight') /\ Cardinality(InFlight') \in Nat
  /\ IsFiniteSet(InShutdown') /\ Cardinality(InShutdown') \in Nat
<1>1. IsFiniteSet(Lines) /\ Cardinality(Lines) = N
  BY NAssumption, FS_Interval DEF Lines
<1>2. IsFiniteSet(Tasks)
  BY NAssumption, FS_Interval DEF Tasks
<1>3. BusyLines' \in SUBSET Lines /\ InShutdown' \in SUBSET Lines /\ InFlight' \in SUBSET Tasks
  BY DEF BusyLines, InShutdown, InFlight
<1>4. /\ IsFiniteSet(BusyLines') /\ IsFiniteSet(InShutdown') /\ IsFiniteSet(InFlight')
      /\ Cardinality(BusyLines') <= N
  BY <1>1, <1>2, <1>3, FS_Subset
<1> QED BY <1>4, NAssumption, FS_CardinalityType

\* Release is open only when no task is shutting a socket down.
LEMMA OpenMeansIdle ==
  ASSUME IInv, shutdownCount = 0
  PROVE  \A t \in Tasks : target[t] = 0
<1>1. Cardinality(InFlight) = 0
  BY FiniteCounts DEF IInv, ReleaseGuarded
<1>2. InFlight = {}
  BY <1>1, FiniteCounts, FS_EmptySet
<1> QED BY <1>2 DEF InFlight

\* A step that leaves the counters alone, makes no slot busy or idle and
\* starts no shutdown.
LEMMA QuietStep ==
  ASSUME IInv, UNCHANGED <<count, shutdownCount>>,
         \A l \in Lines : Busy(l)' <=> Busy(l),
         \A t \in Tasks : target'[t] # 0 => target[t] # 0,
         \A l \in Lines : phase'[l] = "In_Shutdown" => phase[l] = "In_Shutdown"
  PROVE  ReleaseGuarded' /\ FreeSlotsExact'
<1>1. BusyLines' = BusyLines
  BY DEF BusyLines
<1>2. InFlight' \in SUBSET InFlight /\ InShutdown' \in SUBSET InShutdown
  BY DEF InFlight, InShutdown
<1>3. /\ Cardinality(InFlight') <= Cardinality(InFlight)
      /\ Cardinality(InShutdown') <= Cardinality(InShutdown)
  BY <1>2, FiniteCounts, FS_Subset
<1>4. shutdownCount \in Int
  BY DEF IInv, PInv, TypeInv
<1> QED BY <1>1, <1>3, <1>4, FiniteCounts, FiniteCountsNext
        DEF IInv, ReleaseGuarded, FreeSlotsExact

\* Task t starts the shutdown of slot v.
LEMMA TakeCounts ==
  ASSUME IInv, NEW t \in Tasks, NEW v \in Lines, TakeForShutdown(t, v),
         count' = count,
         \A l \in Lines : Busy(l)' <=> Busy(l),
         \A l \in Lines : phase'[l] = "In_Shutdown" => l = v \/ phase[l] = "In_Shutdown"
  PROVE  ReleaseGuarded' /\ FreeSlotsExact'
<1>1. BusyLines' = BusyLines
  BY DEF BusyLines
<1>2. InFlight' \in SUBSET (InFlight \cup {t}) /\ InShutdown' \in SUBSET (InShutdown \cup {v})
  BY DEF InFlight, InShutdown, TakeForShutdown, IInv, PInv, TypeInv
<1>3. /\ IsFiniteSet(InFlight \cup {t}) /\ IsFiniteSet(InShutdown \cup {v})
      /\ Cardinality(InFlight \cup {t}) <= Cardinality(InFlight) + 1
      /\ Cardinality(InShutdown \cup {v}) <= Cardinality(InShutdown) + 1
  <2>1. /\ IsFiniteSet(InFlight \cup {t})
        /\ Cardinality(InFlight \cup {t}) =
             IF t \in InFlight THEN Cardinality(InFlight) ELSE Cardinality(InFlight) + 1
    BY FiniteCounts, FS_AddElement
  <2>2. /\ IsFiniteSet(InShutdown \cup {v})
        /\ Cardinality(InShutdown \cup {v}) =
             IF v \in InShutdown THEN Cardinality(InShutdown) ELSE Cardinality(InShutdown) + 1
    BY FiniteCounts, FS_AddElement
  <2> QED BY <2>1, <2>2, FiniteCounts
<1>4. /\ Cardinality(InFlight') <= Cardinality(InFlight \cup {t})
      /\ Cardinality(InShutdown') <= Cardinality(InShutdown \cup {v})
  BY <1>2, <1>3, FS_Subset
<1>5. shutdownCount \in Int /\ shutdownCount' = shutdownCount + 1
  BY DEF IInv, PInv, TypeInv, TakeForShutdown
<1>6. /\ Cardinality(InFlight \cup {t}) \in Nat
      /\ Cardinality(InShutdown \cup {v}) \in Nat
  BY <1>3, FS_CardinalityType
<1> QED BY <1>1, <1>3, <1>4, <1>5, <1>6, FiniteCounts, FiniteCountsNext
        DEF IInv, ReleaseGuarded, FreeSlotsExact

\* Task t ends a shutdown.
LEMMA DoneCounts ==
  ASSUME IInv, NEW t \in Tasks, target[t] # 0, Shutdown_Done(t), count' = count,
         \A l \in Lines : Busy(l)' <=> Busy(l)
  PROVE  ReleaseGuarded' /\ FreeSlotsExact'
<1>1. BusyLines' = BusyLines
  BY DEF BusyLines
<1>2. target[t] \in Lines
  BY NAssumption DEF IInv, PInv, TypeInv, Lines
<1>3. InFlight' = InFlight \ {t} /\ t \in InFlight
  BY DEF Shutdown_Done, Forget, InFlight, IInv, PInv, TypeInv
<1>4. Cardinality(InFlight') = Cardinality(InFlight) - 1
  BY <1>3, FiniteCounts, FS_RemoveElement
<1>5. shutdownCount \in Int
  BY DEF IInv, PInv, TypeInv
<1>6. CASE phase[target[t]] = "In_Shutdown"
  <2>1. InShutdown' = InShutdown \ {target[t]} /\ target[t] \in InShutdown
    BY <1>2, <1>6 DEF Shutdown_Done, InShutdown, IInv, PInv, TypeInv
  <2>2. Cardinality(InShutdown') = Cardinality(InShutdown) - 1
    BY <2>1, FiniteCounts, FS_RemoveElement
  <2>3. shutdownCount' = shutdownCount - 1
    BY <1>6 DEF Shutdown_Done
  <2> QED BY <1>1, <1>4, <1>5, <2>2, <2>3, FiniteCounts
          DEF IInv, ReleaseGuarded, FreeSlotsExact
<1>7. CASE phase[target[t]] # "In_Shutdown"
  <2>1. phase' = phase /\ shutdownCount' = shutdownCount
    BY <1>7 DEF Shutdown_Done
  <2>2. InShutdown' = InShutdown
    BY <2>1 DEF InShutdown
  <2> QED BY <1>1, <1>4, <1>5, <2>1, <2>2, FiniteCounts
          DEF IInv, ReleaseGuarded, FreeSlotsExact
<1> QED BY <1>6, <1>7

\* Slots.Set takes one free slot.
LEMMA SetCounts ==
  ASSUME IInv, NEW l \in Lines, Set(l)
  PROVE  ReleaseGuarded' /\ FreeSlotsExact'
<1>1. BusyLines' = BusyLines \cup {l} /\ l \notin BusyLines
  BY DEF BusyLines, Busy, Set, Goto, IInv, PInv, TypeInv, BusyPC
<1>2. Cardinality(BusyLines') = Cardinality(BusyLines) + 1
  BY <1>1, FiniteCounts, FS_AddElement
<1>3. InFlight' = InFlight /\ shutdownCount' = shutdownCount
  BY DEF Set, InFlight, shutVars
<1>4. InShutdown' = InShutdown
  BY DEF Set, InShutdown, IInv, PInv, PcInv, PcOK, TypeInv
<1> QED BY <1>2, <1>3, <1>4, FiniteCounts, NAssumption
        DEF IInv, ReleaseGuarded, FreeSlotsExact, Set, TakeSlot

\* Slots.Release gives one slot back.
LEMMA ReleaseCounts ==
  ASSUME IInv, NEW l \in Lines, Release(l)
  PROVE  ReleaseGuarded' /\ FreeSlotsExact'
<1>1. \A m \in Lines \ {l} : pc'[m] = pc[m] /\ lsock'[m] = lsock[m] /\ phase'[m] = phase[m]
  BY DEF Release, Goto, IInv, PInv, TypeInv
<1>2. pc'[l] \in {"Close", "Loop"} /\ phase'[l] = "Closed"
  BY DEF Release, Goto, IInv, PInv, TypeInv
<1>3. BusyLines' = BusyLines \ {l} /\ l \in BusyLines
  BY <1>1, <1>2 DEF BusyLines, Busy, BusyPC, Release
<1>4. Cardinality(BusyLines') = Cardinality(BusyLines) - 1
  BY <1>3, FiniteCounts, FS_RemoveElement
<1>5. InFlight' = InFlight /\ shutdownCount' = shutdownCount
  BY DEF Release, InFlight, shutVars
<1>6. InShutdown' \in SUBSET InShutdown
  BY <1>1, <1>2 DEF InShutdown
<1>7. Cardinality(InShutdown') <= Cardinality(InShutdown)
  BY <1>6, FiniteCounts, FS_Subset
<1>8. shutdownCount \in Int /\ count' = count + 1
  BY DEF IInv, PInv, TypeInv, Release
<1> QED BY <1>4, <1>5, <1>7, <1>8, FiniteCounts, FiniteCountsNext, NAssumption
        DEF IInv, ReleaseGuarded, FreeSlotsExact

-----------------------------------------------------------------------------
(***************************************************************************)
(* Every step preserves the whole invariant.                               *)
(***************************************************************************)

\* A step of line l that leaves the other slots and both counters alone, and
\* neither takes nor gives up its own slot.
LEMMA LocalQuiet ==
  ASSUME IInv, NEW l \in Lines, UNCHANGED <<count, shutdownCount, target>>,
         \A m \in Lines \ {l} : /\ pc'[m] = pc[m] /\ lsock'[m] = lsock[m]
                                /\ phase'[m] = phase[m],
         Busy(l)' <=> Busy(l),
         phase'[l] = "In_Shutdown" => phase[l] = "In_Shutdown"
  PROVE  ReleaseGuarded' /\ FreeSlotsExact'
<1>1. \A m \in Lines : Busy(m)' <=> Busy(m)
  BY DEF Busy
<1> QED BY <1>1, QuietStep

\* A line that only moves on preserves the invariant.
LEMMA MoveInv ==
  ASSUME IInv, NEW l \in Lines, NEW p \in (BusyPC \ {"GiveBack"}) \cup {"Clean"},
         pc[l] \in MovePC, Goto(l, p), taken[l] => p \in TakenPC,
         UNCHANGED <<slotVars, lsock, shutVars, where, mainVars>>
  PROVE  IInv'
<1>1. PInv'
  BY MoveStep DEF IInv
<1>2. Busy(l) /\ Busy(l)'
  BY DEF Busy, IInv, PInv, TypeInv, PcInv, PcOK, MovePC, BusyPC, Goto
<1>3. \A m \in Lines \ {l} : pc'[m] = pc[m]
  BY DEF Goto, IInv, PInv, TypeInv
<1> QED BY <1>1, <1>2, <1>3, LocalQuiet DEF IInv, slotVars, shutVars

\* A line that calls Mark_Phase preserves the invariant, also when the
\* exception kills it.
LEMMA MarkInv ==
  ASSUME IInv, NEW l \in Lines, NEW ph \in Live_Phase,
         NEW ok \in BusyPC \ {"GiveBack"},
         NEW e1 \in (BusyPC \ {"GiveBack"}) \cup {"Dead"},
         NEW e2 \in (BusyPC \ {"GiveBack"}) \cup {"Dead"},
         taken[l] => ph \in Abortable_Phase /\ e1 \in TakenPC /\ e2 \in TakenPC,
         pc[l] \in MovePC, Mark_Phase(l, ph, ok, e1, e2)
  PROVE  IInv'
<1>1. PInv'
  BY MarkStep DEF IInv
<1>2. PICK q \in (BusyPC \ {"GiveBack"}) \cup {"Dead"} : pc' = [pc EXCEPT ![l] = q]
  BY DEF Mark_Phase, Goto
<1>3. phase' = phase \/ phase' = [phase EXCEPT ![l] = ph]
  BY DEF Mark_Phase
<1>4. phase[l] # "Closed"
  BY DEF IInv, PInv, PcInv, PcOK, MovePC, BusyPC
<1>5. UNCHANGED <<count, shutdownCount, lsock, target>>
  BY DEF Mark_Phase, shutVars
<1>6. Busy(l) /\ Busy(l)'
  BY <1>2, <1>3, <1>4 DEF Busy, IInv, PInv, TypeInv, MovePC, BusyPC, Live_Phase
<1>7. \A m \in Lines \ {l} : pc'[m] = pc[m] /\ phase'[m] = phase[m]
  BY <1>2, <1>3 DEF IInv, PInv, TypeInv
<1>8. phase'[l] = "In_Shutdown" => phase[l] = "In_Shutdown"
  BY <1>3 DEF IInv, PInv, TypeInv, Live_Phase
<1> QED BY <1>1, <1>5, <1>6, <1>7, <1>8, LocalQuiet DEF IInv

\* Force_Clean of line l, its first half.
LEMMA AbortInv ==
  ASSUME IInv, NEW l \in Lines, Abort_On_Timeout(l)
  PROVE  IInv'
<1>0. pc[l] = "Clean" /\ UNCHANGED <<sock, taken, count, lsock, where, mainVars>>
  BY DEF Abort_On_Timeout
<1>1. PICK T \in SUBSET Lines :
        \/ /\ Abort_None(l, T)
           /\ Goto(l, AfterClean(l))
           /\ UNCHANGED <<shutdownCount, shutVars>>
        \/ \E v \in Lines : Abort_Slot(l, T, v) /\ Goto(l, "Shutting")
  BY DEF Abort_On_Timeout
<1>2. \A m \in Abortable(l, T) : m \in Lines /\ phase[m] # "Closed" /\ m # l
  BY DEF Abortable, Abortable_Phase
<1>3. CASE /\ Abort_None(l, T)
           /\ Goto(l, AfterClean(l))
           /\ UNCHANGED <<shutdownCount, shutVars>>
  <2>1. PInv'
    BY <1>0, <1>3, AbortNoneStep DEF IInv
  <2>2. \A m \in Lines : phase'[m] = phase[m] \/ (phase'[m] = "Aborted" /\ phase[m] # "Closed")
    BY <1>2, <1>3 DEF Abort_None
  <2>3. \A m \in Lines : Busy(m)' <=> Busy(m)
    BY <1>0, <1>3, <2>2 DEF Busy, Goto, AfterClean, BusyPC, IInv, PInv, TypeInv
  <2>4. \A m \in Lines : phase'[m] = "In_Shutdown" => phase[m] = "In_Shutdown"
    BY <2>2
  <2> QED BY <1>0, <1>3, <2>1, <2>3, <2>4, QuietStep DEF IInv, shutVars
<1>4. ASSUME NEW v \in Lines, Abort_Slot(l, T, v), Goto(l, "Shutting")
      PROVE  IInv'
  <2>1. PInv'
    BY <1>0, <1>4, AbortSlotStep DEF IInv
  <2>2. \A m \in Lines :
          \/ phase'[m] = phase[m]
          \/ phase'[m] = "Aborted" /\ phase[m] # "Closed"
          \/ m = v /\ phase'[m] = "In_Shutdown" /\ phase[m] # "Closed"
    BY <1>2, <1>4 DEF Abort_Slot
  <2>3. \A m \in Lines : Busy(m)' <=> Busy(m)
    BY <1>0, <1>4, <2>2 DEF Busy, Goto, BusyPC, IInv, PInv, TypeInv
  <2>4. \A m \in Lines : phase'[m] = "In_Shutdown" => m = v \/ phase[m] = "In_Shutdown"
    BY <2>2
  <2>5. l \in Tasks /\ TakeForShutdown(l, v) /\ count' = count
    BY <1>0, <1>4, NAssumption DEF Abort_Slot, Lines, Tasks
  <2> QED BY <2>1, <2>3, <2>4, <2>5, TakeCounts DEF IInv
<1> QED BY <1>1, <1>3, <1>4

\* Shutdown_Done makes no slot busy or idle.
LEMMA DoneBusy ==
  ASSUME IInv, NEW t \in Tasks, target[t] # 0, Shutdown_Done(t), lsock' = lsock,
         \/ pc' = pc
         \/ t \in Lines /\ pc[t] = "Shutting" /\ Goto(t, AfterClean(t))
  PROVE  \A l \in Lines : Busy(l)' <=> Busy(l)
<1>1. ClosedKept
  BY DoneFacts DEF IInv
<1> QED BY <1>1 DEF ClosedKept, Busy, Goto, AfterClean, BusyPC, IInv, PInv, TypeInv

\* Everything a line does, other than releasing its slot.
LEMMA LineWorkInv ==
  ASSUME IInv, NEW l \in Lines, LineWork(l)
  PROVE  IInv'
<1> USE DEF MovePC, BusyPC, TakenPC
<1>a. PcOK(l) /\ l \in Tasks /\ taken[l] \in BOOLEAN /\ PInv
  <2>1. PInv
    BY DEF IInv
  <2>2. PcOK(l)
    BY <2>1 DEF PInv, PcInv
  <2>3. taken[l] \in BOOLEAN
    BY <2>1 DEF PInv, TypeInv
  <2>4. l \in Tasks
    BY NAssumption DEF Lines, Tasks
  <2> QED BY <2>1, <2>2, <2>3, <2>4
<1>b. ASSUME \A m \in Lines \ {l} : /\ pc'[m] = pc[m] /\ lsock'[m] = lsock[m]
                                    /\ phase'[m] = phase[m],
             UNCHANGED <<count, shutdownCount, target>>, PInv',
             Busy(l)' <=> Busy(l),
             phase'[l] = "In_Shutdown" => phase[l] = "In_Shutdown"
      PROVE  IInv'
  BY <1>b, LocalQuiet DEF IInv
<1> USE <1>a
<1>1. CASE LoopTop(l)
  BY <1>1, <1>b, LoopTopStep DEF LoopTop, Goto, Busy, slotVars, shutVars, PInv, TypeInv
<1>2. ASSUME NEW s \in Sockets, Accept(l, s) PROVE IInv'
  BY <1>2, <1>b, AcceptStep DEF Accept, Goto, Busy, slotVars, shutVars, PInv, TypeInv
<1>3. CASE AcceptFails(l)
  BY <1>3, <1>b, AcceptFailsStep DEF AcceptFails, Goto, Busy, slotVars, shutVars, PInv, TypeInv
<1>4. CASE HandshakeFails(l)
  BY <1>4, <1>b, HandshakeFailsStep
  DEF HandshakeFails, Goto, Busy, slotVars, shutVars, PInv, TypeInv
<1>5. CASE SetupFails(l)
  BY <1>5, <1>b, SetupFailsStep
  DEF SetupFails, Goto, Busy, slotVars, shutVars, PInv, TypeInv, PcOK
<1>6. CASE Set(l)
  BY <1>6, SetStep, SetCounts DEF IInv
<1>7. CASE Close(l)
  BY <1>7, <1>b, CloseStep DEF Close, Goto, Busy, slotVars, shutVars, PInv, TypeInv
<1>8. CASE Abort_On_Timeout(l)
  BY <1>8, AbortInv
<1>9. CASE ForceCleanDone(l)
  <2>1. target[l] # 0 /\ Shutdown_Done(l) /\ count' = count /\ lsock' = lsock
    BY <1>9 DEF ForceCleanDone, PInv, LinkInv
  <2>2. \A m \in Lines : Busy(m)' <=> Busy(m)
    BY <1>9, <2>1, DoneBusy DEF ForceCleanDone
  <2> QED BY <1>9, <2>1, <2>2, ForceCleanDoneStep, DoneCounts DEF IInv
<1>10. CASE FirstRequest(l)
  BY <1>10, MarkInv DEF FirstRequest, Live_Phase, Abortable_Phase, PcOK
<1>11. CASE NextRequest(l)
  BY <1>11, MarkInv DEF NextRequest, Live_Phase, Abortable_Phase
<1>12. CASE ChooseWait(l)
  BY <1>12, MoveInv DEF ChooseWait, PcOK
<1>13. CASE CheckInput(l)
  <2>1. PICK p \in {"Read", "Release", "Back"} : Goto(l, p)
    BY <1>13 DEF CheckInput
  <2> QED BY <1>13, <2>1, MoveInv DEF CheckInput, PcOK
<1>14. CASE Get_Wait_For_Data(l)
  BY <1>14, <1>b, Get_Wait_For_DataStep
  DEF Get_Wait_For_Data, Goto, Busy, shutVars, PInv, TypeInv
<1>15. CASE WaitEnds(l)
  <2>1. PICK p \in {"Read", "Back"} :
          Mark_Phase(l, "Client_Header", p, "Release", "OtherError")
    BY <1>15 DEF WaitEnds
  <2> QED BY <1>15, <2>1, MarkInv DEF WaitEnds, Live_Phase, Abortable_Phase, PcOK
<1>16. CASE Prepare_Back(l)
  BY <1>16, <1>b, Prepare_BackStep
  DEF Prepare_Back, Goto, Busy, shutVars, PInv, TypeInv
<1>17. CASE Give_Back(l)
  BY <1>17, <1>b, Give_BackStep DEF Give_Back, Goto, Busy, slotVars, shutVars, PInv, TypeInv
<1>18. CASE ReadFails(l)
  <2>1. PICK p \in {"Release", "Error", "OtherError"} : Goto(l, p)
    BY <1>18 DEF ReadFails
  <2> QED BY <1>18, <2>1, MoveInv DEF ReadFails, PcOK
<1>19. CASE ExpectationFailed(l)
  BY <1>19, MoveInv DEF ExpectationFailed, PcOK
<1>20. CASE NoBody(l)
  BY <1>20, MarkInv DEF NoBody, Live_Phase, PcOK
<1>21. CASE WithBody(l)
  <2>1. PICK p \in {"Body", "Process"} :
          Mark_Phase(l, "Client_Data", p, "Release", "OtherError")
    BY <1>21 DEF WithBody
  <2> QED BY <1>21, <2>1, MarkInv DEF WithBody, Live_Phase, PcOK
<1>22. CASE Get_Message_Data(l)
  BY <1>22, MarkInv DEF Get_Message_Data, Live_Phase, PcOK
<1>23. CASE CallbackReadFails(l)
  BY <1>23, MoveInv DEF CallbackReadFails
<1>24. CASE CallbackFails(l)
  <2>1. PICK p \in {"OtherError", "Release"} : Goto(l, p)
    BY <1>24 DEF CallbackFails
  <2> QED BY <1>24, <2>1, MoveInv DEF CallbackFails
<1>25. CASE Send(l)
  BY <1>25, MarkInv DEF Send, Live_Phase, Abortable_Phase
<1>26. CASE SendEnds(l)
  <2>1. PICK p \in {"LoopEnd", "Release"} : Goto(l, p)
    BY <1>26 DEF SendEnds
  <2> QED BY <1>26, <2>1, MoveInv DEF SendEnds
<1>27. CASE LoopEnd(l)
  <2>1. PICK p \in {"Again", "Release"} : Goto(l, p)
    BY <1>27 DEF LoopEnd
  <2> QED BY <1>27, <2>1, MoveInv DEF LoopEnd
<1>28. CASE ErrorHandler(l)
  <2>1. CASE Mark_Phase(l, "Server_Response", "SendError", "Dead", "Dead")
    BY <1>28, <2>1, MarkInv DEF ErrorHandler, Live_Phase, PcOK
  <2>2. CASE Goto(l, "Release") /\ UNCHANGED <<slotVars, lsock, shutVars, where, mainVars>>
    BY <1>28, <2>2, MoveInv DEF ErrorHandler
  <2> QED BY <1>28, <2>1, <2>2 DEF ErrorHandler
<1>29. CASE Send_Error_Answer(l)
  BY <1>29, MarkInv DEF Send_Error_Answer, Live_Phase, Abortable_Phase
<1>30. CASE OtherHandler(l)
  <2>1. CASE /\ Goto(l, IF phase[l] \in {"Server_Response", "Client_Data"}
                        THEN "Release" ELSE "LoopEnd")
             /\ UNCHANGED <<slotVars, lsock, shutVars, where, mainVars>>
    BY <1>30, <2>1, MoveInv DEF OtherHandler
  <2>2. CASE Mark_Phase(l, "Server_Response",
                        IF phase[l] = "Client_Data" THEN "Release" ELSE "Respond",
                        "Release", "Release")
    BY <1>30, <2>2, MarkInv DEF OtherHandler, Live_Phase, Abortable_Phase
  <2> QED BY <1>30, <2>1, <2>2 DEF OtherHandler
<1>31. CASE H2NotSupported(l)
  BY <1>31, MarkInv DEF H2NotSupported, Live_Phase, Abortable_Phase, PcOK
<1> QED
  BY <1>1, <1>2, <1>3, <1>4, <1>5, <1>6, <1>7, <1>8, <1>9, <1>10, <1>11, <1>12,
     <1>13, <1>14, <1>15, <1>16, <1>17, <1>18, <1>19, <1>20, <1>21, <1>22, <1>23,
     <1>24, <1>25, <1>26, <1>27, <1>28, <1>29, <1>30, <1>31
  DEF LineWork

\* Everything AWS.Server.Shutdown does.
LEMMA MainInv ==
  ASSUME IInv, BeginShutdown \/ MainStep
  PROVE  IInv'
<1>a. PInv /\ Main \in Tasks /\ \A l \in Lines : l \in Tasks
  BY NAssumption DEF IInv, Lines, Tasks, Main
<1>b. ASSUME UNCHANGED <<slotVars, lineVars, shutVars>>, PInv'
      PROVE  IInv'
  BY <1>b, QuietStep DEF IInv, slotVars, lineVars, shutVars, Busy
<1>1. CASE BeginShutdown
  BY <1>1, <1>a, <1>b, BeginShutdownStep DEF BeginShutdown
<1>2. CASE StopAcceptor
  BY <1>2, <1>a, <1>b, StopAcceptorStep DEF StopAcceptor
<1>3. CASE FreeLines
  BY <1>3, <1>a, <1>b, FreeLinesStep DEF FreeLines
<1>4. CASE SlotShutdownDone
  <2>1. target[Main] # 0 /\ Shutdown_Done(Main) /\ count' = count /\ UNCHANGED <<pc, lsock>>
    BY <1>4, <1>a DEF SlotShutdownDone, PInv, LinkInv, lineVars
  <2>2. \A m \in Lines : Busy(m)' <=> Busy(m)
    BY <1>a, <2>1, DoneBusy
  <2> QED BY <1>4, <1>a, <2>1, <2>2, SlotShutdownDoneStep, DoneCounts DEF IInv
<1>5. CASE Get_For_Shutdown
  <2>1. PInv'
    BY <1>5, <1>a, Get_For_ShutdownStep
  <2>2. index \in Lines /\ UNCHANGED <<pc, lsock, count>>
    BY <1>5, <1>a DEF Get_For_Shutdown, PInv, TypeInv, lineVars
  <2>3. CASE /\ phase[index] \in Live_Phase
             /\ phase' = [phase EXCEPT ![index] = "In_Shutdown"]
             /\ TakeForShutdown(Main, index)
    <3>1. \A m \in Lines : Busy(m)' <=> Busy(m)
      BY <1>a, <2>2, <2>3 DEF Busy, PInv, TypeInv, Live_Phase
    <3>2. \A m \in Lines : phase'[m] = "In_Shutdown" => m = index \/ phase[m] = "In_Shutdown"
      BY <1>a, <2>2, <2>3 DEF PInv, TypeInv
    <3> QED BY <1>a, <2>1, <2>2, <2>3, <3>1, <3>2, TakeCounts DEF IInv
  <2>4. CASE /\ UNCHANGED <<shutdownCount, shutVars>>
             /\ \/ phase' = phase
                \/ /\ phase[index] \in Live_Phase
                   /\ phase' = [phase EXCEPT ![index] = "Aborted"]
    <3>1. \A m \in Lines : Busy(m)' <=> Busy(m)
      BY <1>a, <2>2, <2>4 DEF Busy, PInv, TypeInv, Live_Phase
    <3>2. \A m \in Lines : phase'[m] = "In_Shutdown" => phase[m] = "In_Shutdown"
      BY <1>a, <2>2, <2>4 DEF PInv, TypeInv
    <3> QED BY <2>1, <2>2, <2>4, <3>1, <3>2, QuietStep DEF IInv, shutVars
  <2> QED BY <1>5, <2>3, <2>4 DEF Get_For_Shutdown
<1> QED BY <1>1, <1>2, <1>3, <1>4, <1>5 DEF MainStep

\* The invariant holds initially.
LEMMA InitInv == Init => IInv
<1> SUFFICES ASSUME Init PROVE IInv
  OBVIOUS
<1>1. TypeInv
  <2>1. 1 \in Lines /\ index \in 1..(N + 1) /\ N \in Int /\ 0 \in 0..N
    BY NAssumption DEF Init, Lines
  <2>2. phase \in [Lines -> Slot_Phase] /\ pc \in [Lines -> LinePC]
    BY DEF Init, Slot_Phase, LinePC, IdlePC
  <2>3. sock \in [Lines -> Sockets \cup {NoSock}] /\ lsock \in [Lines -> Sockets \cup {NoSock}]
    BY DEF Init
  <2>4. /\ target \in [Tasks -> 0..N] /\ held \in [Tasks -> Sockets \cup {NoSock}]
        /\ overwritten \subseteq Lines
    BY <2>1 DEF Init
  <2>5. taken \in [Lines -> BOOLEAN] /\ where \in [Sockets -> Holders]
    BY DEF Init, Holders
  <2>6. /\ count \in Int /\ shutdownCount \in Int
        /\ main \in MainPC /\ index \in Lines
    BY <2>1 DEF Init, MainPC
  <2>7. shutdown \in BOOLEAN
    BY Zenon DEF Init
  <2> QED BY <2>1, <2>2, <2>3, <2>4, <2>5, <2>6, <2>7 DEF TypeInv
<1>2. PcInv
  BY DEF Init, PcInv, PcOK, BusyPC, TakenPC, Lines
<1>3. LinkInv
  BY NAssumption DEF Init, LinkInv, Lines, Tasks, Main
<1>4. OwnInv /\ CloseInv
  BY DEF Init, OwnInv, Owns, CloseInv
<1>5. BusyLines = {} /\ InFlight = {} /\ InShutdown = {}
  BY NAssumption DEF Init, BusyLines, Busy, BusyPC, InFlight, InShutdown, Lines, Tasks
<1>6. ReleaseGuarded /\ FreeSlotsExact
  BY <1>5, FS_EmptySet, NAssumption DEF Init, ReleaseGuarded, FreeSlotsExact
<1> QED BY <1>1, <1>2, <1>3, <1>4, <1>6 DEF IInv, PInv

\* Every step preserves the invariant.
LEMMA NextInv == IInv /\ [Next]_vars => IInv'
<1> SUFFICES ASSUME IInv, [Next]_vars PROVE IInv'
  OBVIOUS
<1>a. PInv
  BY DEF IInv
<1>b. ASSUME UNCHANGED <<slotVars, lineVars, shutVars>>, PInv'
      PROVE  IInv'
  BY <1>b, QuietStep DEF IInv, slotVars, lineVars, shutVars, Busy
<1>1. ASSUME NEW s \in Sockets, Connect(s) PROVE IInv'
  BY <1>a, <1>b, <1>1, ConnectStep DEF Connect
<1>2. ASSUME NEW s \in Sockets, AcceptorClose(s) PROVE IInv'
  BY <1>a, <1>b, <1>2, AcceptorCloseStep DEF AcceptorClose
<1>3. ASSUME NEW s \in Sockets, ForeignClose(s) PROVE IInv'
  BY <1>a, <1>b, <1>3, ForeignCloseStep DEF ForeignClose
<1>4. ASSUME NEW l \in Lines, LineWork(l) PROVE IInv'
  BY <1>4, LineWorkInv
<1>5. ASSUME NEW l \in Lines, Release(l) PROVE IInv'
  BY <1>a, <1>5, OpenMeansIdle, ReleaseStep, ReleaseCounts DEF IInv
<1>6. ASSUME NEW l \in Lines, Accept_Error(l) PROVE IInv'
  <2>1. lsock[l] = NoSock
    BY <1>a, <1>6 DEF PInv, PcInv, PcOK, Accept_Error
  <2>2. ~Busy(l) /\ ~Busy(l)'
    BY <1>a, <1>6, <2>1 DEF Accept_Error, Goto, Busy, BusyPC, PInv, TypeInv
  <2>3. \A m \in Lines \ {l} : pc'[m] = pc[m]
    BY <1>a, <1>6 DEF Accept_Error, Goto, PInv, TypeInv
  <2> QED BY <1>a, <1>6, <2>2, <2>3, Accept_ErrorStep, LocalQuiet
          DEF Accept_Error, slotVars, shutVars, IInv
<1>7. ASSUME NEW l \in Lines, Socket_Taken(l) PROVE IInv'
  <2>1. PICK p \in {"Process", "Release"} : pc' = [pc EXCEPT ![l] = p]
    BY <1>7 DEF Socket_Taken, Goto
  <2>2. Busy(l) /\ Busy(l)'
    BY <1>a, <1>7, <2>1 DEF Socket_Taken, Busy, BusyPC, PInv, TypeInv
  <2>3. \A m \in Lines \ {l} : pc'[m] = pc[m]
    BY <1>a, <2>1 DEF PInv, TypeInv
  <2> QED BY <1>a, <1>7, <2>2, <2>3, Socket_TakenStep, LocalQuiet
          DEF Socket_Taken, shutVars, IInv
<1>8. CASE BeginShutdown \/ MainStep
  BY <1>8, MainInv
<1>9. CASE UNCHANGED vars
  <2>1. PInv'
    BY <1>9 DEF IInv, PInv, TypeInv, PcInv, PcOK, LinkInv, OwnInv, Owns, CloseInv,
               vars, slotVars, lineVars, shutVars, mainVars
  <2> QED BY <1>9, <1>b, <2>1 DEF vars
<1> QED BY <1>1, <1>2, <1>3, <1>4, <1>5, <1>6, <1>7, <1>8, <1>9 DEF Next

\* The invariant gives what is claimed about the server.
LEMMA InvImplies == IInv => TypeOK /\ CloseOwned
<1> SUFFICES ASSUME IInv PROVE TypeOK /\ CloseOwned
  OBVIOUS
<1>1. count \in 0..N /\ shutdownCount \in Nat
  BY FiniteCounts, NAssumption DEF IInv, PInv, TypeInv, FreeSlotsExact, ReleaseGuarded
<1>2. TypeOK
  BY <1>1 DEF TypeOK, IInv, PInv, TypeInv
<1>3. CloseOwned
  <2> SUFFICES ASSUME NEW l \in Lines, pc[l] = "Close"
               PROVE  /\ where[lsock[l]] = "line"
                      /\ \A m \in Lines : sock[m] # lsock[l]
                      /\ \A m \in Lines \ {l} : pc[m] = "Close" => lsock[m] # lsock[l]
                      /\ \A t \in Tasks : held[t] # lsock[l]
    BY DEF CloseOwned
  <2>1. Owns(l) /\ lsock[l] # NoSock /\ sock[l] = NoSock
    BY DEF Owns, IInv, PInv, PcInv, PcOK
  <2>2. \A m \in Lines : sock[m] # NoSock => Owns(m) /\ lsock[m] = sock[m]
    BY DEF Owns, IInv, PInv, PcInv, PcOK
  <2>3. \A m \in Lines : pc[m] = "Close" => Owns(m)
    BY DEF Owns
  <2> QED BY <2>1, <2>2, <2>3 DEF IInv, PInv, OwnInv, CloseInv
<1> QED BY <1>2, <1>3

\* The inductive invariant holds in every reachable state.
THEOREM Invariance == Spec => []IInv
<1> QED BY InitInv, NextInv, PTL DEF Spec

\* Type correctness of the server, for every number of lines: Count stays in
\* 0 .. N, so the assertions in Slots.Set and Slots.Release hold.
THEOREM TypeCorrect == Spec => []TypeOK
<1> QED BY Invariance, InvImplies, PTL

\* Slots.Count is the number of slots that no line owns.
THEOREM CountExact == Spec => []FreeSlotsExact
<1>1. IInv => FreeSlotsExact
  BY DEF IInv
<1> QED BY <1>1, Invariance, PTL

\* The guard of the entry Release covers every shutdown under way.
THEOREM GuardCoversShutdowns == Spec => []ReleaseGuarded
<1>1. IInv => ReleaseGuarded
  BY DEF IInv
<1> QED BY <1>1, Invariance, PTL

\* The socket a line frees after Release has no other owner and no task is
\* about to shut it down.
THEOREM NoUseAfterFree == Spec => []CloseOwned
<1> QED BY Invariance, InvImplies, PTL

-----------------------------------------------------------------------------
(***************************************************************************)
(* The shutdown of a slot, by Force_Clean or by Shutdown, is exact: it     *)
(* keeps its slot and its socket until Shutdown_Done, unless the line of   *)
(* the slot gets to Get_Wait_For_Data meanwhile, which is recorded in      *)
(* overwritten.                                                            *)
(***************************************************************************)

(***************************************************************************)
(* The inductive invariant, on top of IInv.                                *)
(***************************************************************************)
\* The slot a task is shutting down is marked so, and the task has the socket
\* of the slot unless that was taken over meanwhile.
Engaged(t) ==
  /\ phase[target[t]] = "In_Shutdown"
  /\ \/ taken[target[t]]
     \/ sock[target[t]] = held[t] /\ held[t] # NoSock

\* The shutdown of task t is under way and was not undone.
Sound(t) == target[t] # 0 /\ target[t] \notin overwritten

\* No two tasks shut the same slot down.
Apart == \A t, u \in Tasks : Sound(t) /\ target[t] = target[u] => t = u

XInv ==
  /\ \A t \in Tasks : Sound(t) => Engaged(t)
  /\ Apart
  /\ overwritten = {} => shutdownCount = Cardinality(InFlight)

JInv == IInv /\ XInv

\* What NoResurrection and ShutdownDoneAborts say of one step.
StaysDown ==
  \A l \in Lines : phase[l] \in Shut_Phase /\ phase'[l] \in Live_Phase
     => /\ pc[l] = "CheckWait" /\ pc'[l] = "Waiting"
        /\ phase[l] = "In_Shutdown" => l \in overwritten'

DoneAborts ==
  \A t \in Tasks : target[t] # 0 /\ target'[t] = 0
     => phase'[target[t]] = "Aborted" \/ target[t] \in overwritten

\* What every step has to establish.
Good == XInv' /\ StaysDown /\ DoneAborts

-----------------------------------------------------------------------------
\* A slot that stays in shutdown, or is closed, is not live.
LEMMA KeptDown ==
  ASSUME \A m \in Lines : phase[m] \in Shut_Phase => phase'[m] \in {phase[m], "Closed"}
  PROVE  StaysDown
BY DEF StaysDown, Shut_Phase, Live_Phase

\* A step that starts and ends no shutdown, and leaves alone every slot that
\* is in shutdown, but that its socket may be taken over.
LEMMA SlotsKept ==
  ASSUME JInv, UNCHANGED <<shutdownCount, shutVars>>,
         \A m \in Lines : phase[m] = "In_Shutdown" =>
            /\ phase'[m] = "In_Shutdown"
            /\ taken'[m] \/ (taken'[m] = taken[m] /\ sock'[m] = sock[m]),
         StaysDown
  PROVE  Good
<1>0. UNCHANGED <<target, held, overwritten>>
  BY DEF shutVars
<1>1. \A t \in Tasks : target[t] # 0 => target[t] \in Lines
  BY NAssumption DEF JInv, IInv, PInv, TypeInv, Lines
<1>2. \A t \in Tasks : Sound(t)' => Engaged(t)'
  BY <1>0, <1>1 DEF JInv, XInv, Engaged, Sound
<1>3. InFlight' = InFlight
  BY <1>0 DEF InFlight
<1>4. Apart'
  BY <1>0 DEF JInv, XInv, Apart, Sound
<1>5. DoneAborts
  BY <1>0 DEF DoneAborts
<1> QED BY <1>0, <1>2, <1>3, <1>4, <1>5 DEF Good, JInv, XInv

\* A step that leaves Slots alone.
LEMMA SlotsIdle ==
  ASSUME JInv, UNCHANGED <<slotVars, shutVars>>
  PROVE  Good
<1>1. StaysDown
  BY KeptDown DEF slotVars
<1> QED BY <1>1, SlotsKept DEF slotVars

\* Mark_Phase is refused on a slot in shutdown.
LEMMA MarkGood ==
  ASSUME JInv, NEW l \in Lines, NEW ph \in Live_Phase, NEW ok, NEW e1, NEW e2,
         Mark_Phase(l, ph, ok, e1, e2)
  PROVE  Good
<1>1. \A m \in Lines : phase[m] \in Shut_Phase => phase'[m] = phase[m]
  BY DEF Mark_Phase, MarkRefused, JInv, IInv, PInv, TypeInv
<1>2. UNCHANGED <<sock, taken, shutdownCount, shutVars>>
  BY DEF Mark_Phase
<1>3. StaysDown
  BY <1>1, KeptDown
<1> QED BY <1>1, <1>2, <1>3, SlotsKept DEF Shut_Phase

-----------------------------------------------------------------------------
\* Task t starts the shutdown of slot v, which was in no shutdown.
LEMMA TakeGood ==
  ASSUME JInv, NEW t \in Tasks, NEW v \in Lines, target[t] = 0,
         TakeForShutdown(t, v), phase[v] \in Live_Phase, sock[v] # NoSock,
         phase'[v] = "In_Shutdown",
         \A m \in Lines \ {v} : phase[m] \in Shut_Phase => phase'[m] = phase[m],
         UNCHANGED <<sock, taken>>
  PROVE  Good
<1>1. \A u \in Tasks : target[u] # 0 => target[u] \in Lines
  BY NAssumption DEF JInv, IInv, PInv, TypeInv, Lines
<1>2. \A u \in Tasks : Sound(u) => target[u] # v
  BY NAssumption DEF JInv, XInv, Engaged, Live_Phase, Lines
<1>3. /\ target'[t] = v /\ held'[t] = sock[v] /\ v # 0 /\ overwritten' = overwritten
      /\ \A u \in Tasks \ {t} : target'[u] = target[u] /\ held'[u] = held[u]
  BY NAssumption DEF TakeForShutdown, JInv, IInv, PInv, TypeInv, Lines
<1>4. \A u \in Tasks : Sound(u)' => Engaged(u)'
  <2> SUFFICES ASSUME NEW u \in Tasks, Sound(u)'
               PROVE  Engaged(u)'
    OBVIOUS
  <2>1. CASE u = t
    BY <1>3, <2>1 DEF Engaged
  <2>2. CASE u # t
    <3>1. /\ target'[u] = target[u] /\ held'[u] = held[u] /\ Sound(u)
          /\ target[u] \in Lines \ {v}
      BY <1>1, <1>2, <1>3, <2>2 DEF Sound
    <3>2. Engaged(u)
      BY <3>1, NAssumption DEF JInv, XInv, Lines
    <3> QED BY <3>1, <3>2 DEF Engaged, Shut_Phase
  <2> QED BY <2>1, <2>2
<1>5. Apart'
  BY <1>2, <1>3 DEF JInv, XInv, Apart, Sound
<1>6. InFlight' = InFlight \cup {t} /\ t \notin InFlight
  BY <1>3 DEF InFlight
<1>7. Cardinality(InFlight') = Cardinality(InFlight) + 1
  BY <1>6, FiniteCounts, FS_AddElement
<1>8. overwritten' = {} => shutdownCount' = Cardinality(InFlight')
  BY <1>3, <1>7 DEF TakeForShutdown, JInv, XInv
<1>9. StaysDown
  BY KeptDown DEF Shut_Phase, Live_Phase
<1>10. DoneAborts
  BY <1>3 DEF DoneAborts
<1> QED BY <1>4, <1>5, <1>8, <1>9, <1>10 DEF Good, XInv

\* Task t ends the shutdown of its slot, which is still in it.
LEMMA DoneGood ==
  ASSUME JInv, NEW t \in Tasks, target[t] # 0, Shutdown_Done(t),
         UNCHANGED <<sock, taken>>
  PROVE  Good
<1>1. \A u \in Tasks : target[u] # 0 => target[u] \in Lines
  BY NAssumption DEF JInv, IInv, PInv, TypeInv, Lines
<1>2. target[t] \notin overwritten => phase[target[t]] = "In_Shutdown"
  BY DEF JInv, XInv, Engaged, Sound
<1>3. phase[target[t]] = "In_Shutdown" =>
        phase' = [phase EXCEPT ![target[t]] = "Aborted"] /\ shutdownCount' = shutdownCount - 1
  BY DEF Shutdown_Done
<1>4. /\ target'[t] = 0 /\ held'[t] = NoSock /\ overwritten' = overwritten
      /\ \A u \in Tasks \ {t} : target'[u] = target[u] /\ held'[u] = held[u]
  BY DEF Shutdown_Done, Forget, JInv, IInv, PInv, TypeInv
<1>5. /\ target[t] \notin overwritten => phase'[target[t]] = "Aborted"
      /\ \A m \in Lines : m # target[t] => phase'[m] = phase[m]
      /\ \A m \in Lines : phase'[m] \in {phase[m], "Aborted"}
  BY <1>1, <1>2 DEF Shutdown_Done, JInv, IInv, PInv, TypeInv
<1>6. \A u \in Tasks : Sound(u)' => Engaged(u)'
  <2> SUFFICES ASSUME NEW u \in Tasks, Sound(u)'
               PROVE  Engaged(u)'
    OBVIOUS
  <2>1. u # t /\ target'[u] = target[u] /\ held'[u] = held[u] /\ Sound(u)
    BY <1>4 DEF Sound
  <2>2. target[u] \in Lines /\ target[u] # target[t]
    BY <1>1, <2>1 DEF JInv, XInv, Apart, Sound
  <2>3. Engaged(u)
    BY <2>1 DEF JInv, XInv
  <2> QED BY <1>5, <2>1, <2>2, <2>3 DEF Engaged
<1>7. Apart'
  BY <1>4 DEF JInv, XInv, Apart, Sound
<1>8. InFlight' = InFlight \ {t} /\ t \in InFlight
  BY <1>4 DEF InFlight
<1>9. Cardinality(InFlight') = Cardinality(InFlight) - 1
  BY <1>8, FiniteCounts, FS_RemoveElement
<1>10. overwritten' = {} => shutdownCount' = Cardinality(InFlight')
  BY <1>2, <1>3, <1>4, <1>9 DEF JInv, XInv
<1>11. StaysDown
  BY <1>5 DEF StaysDown, Live_Phase, Shut_Phase
<1>12. DoneAborts
  BY <1>4, <1>5 DEF DoneAborts
<1> QED BY <1>6, <1>7, <1>10, <1>11, <1>12 DEF Good, XInv

-----------------------------------------------------------------------------
(***************************************************************************)
(* Every step is good.                                                     *)
(***************************************************************************)

\* Slots.Set fills a closed slot.
LEMMA SetGood ==
  ASSUME JInv, NEW l \in Lines, Set(l)
  PROVE  Good
<1>1. phase[l] = "Closed"
  BY DEF Set, JInv, IInv, PInv, PcInv, PcOK
<1>2. \A m \in Lines \ {l} : phase'[m] = phase[m] /\ sock'[m] = sock[m]
  BY DEF Set, JInv, IInv, PInv, TypeInv
<1>3. UNCHANGED <<taken, shutdownCount, shutVars>>
  BY DEF Set
<1>4. StaysDown
  BY <1>1, <1>2, KeptDown DEF Shut_Phase
<1> QED BY <1>1, <1>2, <1>3, <1>4, SlotsKept

\* Get_Wait_For_Data touches no slot in shutdown but its own, and that it does
\* is recorded.
LEMMA WaitGood ==
  ASSUME JInv, NEW l \in Lines, Get_Wait_For_Data(l)
  PROVE  Good
<1>1. /\ pc[l] = "CheckWait" /\ pc'[l] = "Waiting"
      /\ \A m \in Lines \ {l} : phase'[m] = phase[m]
      /\ UNCHANGED <<sock, taken, shutdownCount, target, held>>
  BY DEF Get_Wait_For_Data, Goto, JInv, IInv, PInv, TypeInv
<1>2. CASE phase[l] # "In_Shutdown"
  <2>1. UNCHANGED shutVars
    BY <1>1, <1>2 DEF Get_Wait_For_Data, shutVars
  <2>2. StaysDown
    BY <1>1, <1>2 DEF StaysDown, Shut_Phase, Live_Phase
  <2> QED BY <1>1, <1>2, <2>1, <2>2, SlotsKept
<1>3. CASE phase[l] = "In_Shutdown"
  <2>1. overwritten' = overwritten \cup {l}
    BY <1>3 DEF Get_Wait_For_Data
  <2>2. \A t \in Tasks : Sound(t)' => Sound(t) /\ target[t] \in Lines \ {l}
    BY <1>1, <2>1, NAssumption DEF Sound, JInv, IInv, PInv, TypeInv, Lines
  <2>3. \A t \in Tasks : Sound(t)' => Engaged(t)'
    BY <1>1, <2>2 DEF JInv, XInv, Engaged
  <2>4. Apart'
    BY <1>1, <2>2 DEF JInv, XInv, Apart
  <2>5. StaysDown
    BY <1>1, <2>1 DEF StaysDown, Shut_Phase, Live_Phase
  <2>6. DoneAborts
    BY <1>1 DEF DoneAborts
  <2> QED BY <2>1, <2>3, <2>4, <2>5, <2>6 DEF Good, XInv
<1> QED BY <1>2, <1>3

\* Prepare_Back clears a slot only when it is not being shut down.
LEMMA PrepareBackGood ==
  ASSUME JInv, NEW l \in Lines, Prepare_Back(l)
  PROVE  Good
<1>1. \A m \in Lines : phase[m] \in Shut_Phase => phase'[m] = phase[m] /\ sock'[m] = sock[m]
  BY DEF Prepare_Back, JInv, IInv, PInv, TypeInv
<1>2. UNCHANGED <<taken, shutdownCount, shutVars>>
  BY DEF Prepare_Back
<1>3. StaysDown
  BY <1>1, KeptDown
<1> QED BY <1>1, <1>2, <1>3, SlotsKept DEF Shut_Phase

\* Socket_Taken leaves the phase alone and says that the socket is gone.
LEMMA SocketTakenGood ==
  ASSUME JInv, NEW l \in Lines, Socket_Taken(l)
  PROVE  Good
<1>1. \A m \in Lines : taken'[m] \/ (taken'[m] = taken[m] /\ sock'[m] = sock[m])
  BY DEF Socket_Taken, JInv, IInv, PInv, TypeInv
<1>2. UNCHANGED <<phase, shutdownCount, shutVars>>
  BY DEF Socket_Taken
<1>3. StaysDown
  BY <1>2, KeptDown
<1> QED BY <1>1, <1>2, <1>3, SlotsKept

\* Release finds no shutdown under way.
LEMMA ReleaseGood ==
  ASSUME JInv, NEW l \in Lines, Release(l)
  PROVE  Good
<1>1. \A t \in Tasks : target[t] = 0 /\ target'[t] = 0
  BY OpenMeansIdle DEF Release, shutVars, JInv
<1>2. UNCHANGED <<shutdownCount, target, overwritten>>
  BY DEF Release, shutVars
<1>3. InFlight' = InFlight
  BY <1>2 DEF InFlight
<1>4. \A m \in Lines : phase'[m] \in {phase[m], "Closed"}
  BY DEF Release, JInv, IInv, PInv, TypeInv
<1>5. StaysDown /\ DoneAborts
  BY <1>1, <1>4, KeptDown DEF DoneAborts
<1> QED BY <1>1, <1>2, <1>3, <1>5 DEF Good, JInv, XInv, Apart, Sound

\* The first half of Force_Clean: the slot aborted was in a live phase.
LEMMA AbortGood ==
  ASSUME JInv, NEW l \in Lines, Abort_On_Timeout(l)
  PROVE  Good
<1>0. pc[l] = "Clean" /\ UNCHANGED <<sock, taken>>
  BY DEF Abort_On_Timeout
<1>1. PICK T \in SUBSET Lines :
        \/ /\ Abort_None(l, T)
           /\ Goto(l, AfterClean(l))
           /\ UNCHANGED <<shutdownCount, shutVars>>
        \/ \E v \in Lines : Abort_Slot(l, T, v) /\ Goto(l, "Shutting")
  BY DEF Abort_On_Timeout
<1>2. \A m \in Abortable(l, T) : m \in Lines /\ phase[m] \in Live_Phase
  BY DEF Abortable, Abortable_Phase, Live_Phase
<1>3. CASE Abort_None(l, T) /\ UNCHANGED <<shutdownCount, shutVars>>
  <2>1. \A m \in Lines : phase[m] \in Shut_Phase => phase'[m] = phase[m]
    BY <1>2, <1>3 DEF Abort_None, Shut_Phase, Live_Phase
  <2>2. StaysDown
    BY <2>1, KeptDown
  <2> QED BY <1>0, <1>3, <2>1, <2>2, SlotsKept DEF Shut_Phase
<1>4. ASSUME NEW v \in Lines, Abort_Slot(l, T, v)
      PROVE  Good
  <2>1. l \in Tasks /\ target[l] = 0
    BY <1>0, NAssumption DEF JInv, IInv, PInv, LinkInv, Lines, Tasks
  <2>2. TakeForShutdown(l, v) /\ phase[v] \in Live_Phase /\ sock[v] # NoSock
    BY <1>2, <1>4 DEF Abort_Slot
  <2>3. /\ phase'[v] = "In_Shutdown"
        /\ \A m \in Lines \ {v} : phase[m] \in Shut_Phase => phase'[m] = phase[m]
    BY <1>2, <1>4 DEF Abort_Slot, Shut_Phase, Live_Phase
  <2> QED BY <1>0, <2>1, <2>2, <2>3, TakeGood
<1> QED BY <1>1, <1>3, <1>4

\* Everything a line does, other than releasing its slot.
LEMMA LineWorkGood ==
  ASSUME JInv, NEW l \in Lines, LineWork(l)
  PROVE  Good
<1>c. {"Client_Header", "Client_Data", "Server_Response", "Server_Processing"}
        \subseteq Live_Phase
  BY DEF Live_Phase
<1>m. ASSUME UNCHANGED <<slotVars, shutVars>>
      PROVE  Good
  BY <1>m, SlotsIdle
<1>k. ASSUME NEW ph \in Live_Phase, NEW ok, NEW e1, NEW e2, Mark_Phase(l, ph, ok, e1, e2)
      PROVE  Good
  BY <1>k, MarkGood
<1>1. CASE LoopTop(l)
  BY <1>1, <1>m DEF LoopTop
<1>2. ASSUME NEW s \in Sockets, Accept(l, s) PROVE Good
  BY <1>2, <1>m DEF Accept
<1>3. CASE AcceptFails(l)
  BY <1>3, <1>m DEF AcceptFails
<1>4. CASE HandshakeFails(l)
  BY <1>4, <1>m DEF HandshakeFails
<1>5. CASE SetupFails(l)
  BY <1>5, <1>m DEF SetupFails
<1>6. CASE Set(l)
  BY <1>6, SetGood
<1>7. CASE Close(l)
  BY <1>7, <1>m DEF Close
<1>8. CASE Abort_On_Timeout(l)
  BY <1>8, AbortGood
<1>9. CASE ForceCleanDone(l)
  <2>1. l \in Tasks /\ target[l] # 0
    BY <1>9, NAssumption DEF ForceCleanDone, JInv, IInv, PInv, LinkInv, Lines, Tasks
  <2> QED BY <1>9, <2>1, DoneGood DEF ForceCleanDone
<1>10. CASE FirstRequest(l)
  BY <1>10, <1>c, <1>k DEF FirstRequest
<1>11. CASE NextRequest(l)
  BY <1>11, <1>c, <1>k DEF NextRequest
<1>12. CASE ChooseWait(l)
  BY <1>12, <1>m DEF ChooseWait
<1>13. CASE CheckInput(l)
  BY <1>13, <1>m DEF CheckInput
<1>14. CASE Get_Wait_For_Data(l) \/ WaitEnds(l)
  BY <1>14, <1>c, <1>k, WaitGood DEF WaitEnds
<1>15. CASE Prepare_Back(l)
  BY <1>15, PrepareBackGood
<1>16. CASE Give_Back(l)
  BY <1>16, <1>m DEF Give_Back
<1>17. CASE ReadFails(l)
  BY <1>17, <1>m DEF ReadFails
<1>18. CASE ExpectationFailed(l)
  BY <1>18, <1>m DEF ExpectationFailed
<1>19. CASE H2NotSupported(l)
  BY <1>19, <1>c, <1>k DEF H2NotSupported
<1>20. CASE NoBody(l)
  BY <1>20, <1>c, <1>k DEF NoBody
<1>21. CASE WithBody(l)
  BY <1>21, <1>c, <1>k DEF WithBody
<1>22. CASE Get_Message_Data(l)
  BY <1>22, <1>c, <1>k DEF Get_Message_Data
<1>23. CASE CallbackReadFails(l)
  BY <1>23, <1>m DEF CallbackReadFails
<1>24. CASE CallbackFails(l)
  BY <1>24, <1>m DEF CallbackFails
<1>25. CASE Send(l)
  BY <1>25, <1>c, <1>k DEF Send
<1>26. CASE SendEnds(l)
  BY <1>26, <1>m DEF SendEnds
<1>27. CASE LoopEnd(l)
  BY <1>27, <1>m DEF LoopEnd
<1>28. CASE ErrorHandler(l)
  BY <1>28, <1>c, <1>k, <1>m DEF ErrorHandler
<1>29. CASE Send_Error_Answer(l)
  BY <1>29, <1>c, <1>k DEF Send_Error_Answer
<1>30. CASE OtherHandler(l)
  BY <1>30, <1>c, <1>k, <1>m DEF OtherHandler
<1> QED
  BY <1>1, <1>2, <1>3, <1>4, <1>5, <1>6, <1>7, <1>8, <1>9, <1>10, <1>11, <1>12, <1>13,
     <1>14, <1>15, <1>16, <1>17, <1>18, <1>19, <1>20, <1>21, <1>22, <1>23, <1>24, <1>25,
     <1>26, <1>27, <1>28, <1>29, <1>30
  DEF LineWork

\* Everything AWS.Server.Shutdown does.
LEMMA MainGood ==
  ASSUME JInv, BeginShutdown \/ MainStep
  PROVE  Good
<1>a. Main \in Tasks
  BY NAssumption DEF Tasks, Main
<1>1. CASE BeginShutdown \/ StopAcceptor \/ FreeLines
  BY <1>1, SlotsIdle DEF BeginShutdown, StopAcceptor, FreeLines
<1>2. CASE SlotShutdownDone
  <2>1. target[Main] # 0 /\ UNCHANGED <<sock, taken>>
    BY <1>2 DEF SlotShutdownDone, JInv, IInv, PInv, LinkInv
  <2> QED BY <1>2, <1>a, <2>1, DoneGood DEF SlotShutdownDone
<1>3. CASE Get_For_Shutdown
  <2>1. index \in Lines /\ target[Main] = 0 /\ UNCHANGED <<sock, taken>>
    BY <1>3 DEF Get_For_Shutdown, JInv, IInv, PInv, TypeInv, LinkInv
  <2>2. CASE /\ phase[index] \in Live_Phase /\ sock[index] # NoSock
             /\ phase' = [phase EXCEPT ![index] = "In_Shutdown"]
             /\ TakeForShutdown(Main, index)
    <3>1. /\ phase'[index] = "In_Shutdown"
          /\ \A m \in Lines \ {index} : phase'[m] = phase[m]
      BY <2>1, <2>2 DEF JInv, IInv, PInv, TypeInv
    <3> QED BY <1>a, <2>1, <2>2, <3>1, TakeGood
  <2>3. CASE /\ UNCHANGED <<shutdownCount, shutVars>>
             /\ \/ phase' = phase
                \/ /\ phase[index] \in Live_Phase
                   /\ phase' = [phase EXCEPT ![index] = "Aborted"]
    <3>1. \A m \in Lines : phase[m] \in Shut_Phase => phase'[m] = phase[m]
      BY <2>1, <2>3 DEF Shut_Phase, Live_Phase, JInv, IInv, PInv, TypeInv
    <3>2. StaysDown
      BY <3>1, KeptDown
    <3> QED BY <2>1, <2>3, <3>1, <3>2, SlotsKept DEF Shut_Phase
  <2> QED BY <1>3, <2>2, <2>3 DEF Get_For_Shutdown
<1> QED BY <1>1, <1>2, <1>3 DEF MainStep

\* Every step of the server is good.
LEMMA NextGood ==
  ASSUME JInv, [Next]_vars
  PROVE  Good
<1>1. ASSUME NEW s \in Sockets, Connect(s) \/ AcceptorClose(s) \/ ForeignClose(s)
      PROVE  Good
  BY <1>1, SlotsIdle DEF Connect, AcceptorClose, ForeignClose
<1>2. ASSUME NEW l \in Lines, LineWork(l) PROVE Good
  BY <1>2, LineWorkGood
<1>3. ASSUME NEW l \in Lines, Release(l) PROVE Good
  BY <1>3, ReleaseGood
<1>4. ASSUME NEW l \in Lines, Accept_Error(l) PROVE Good
  BY <1>4, SlotsIdle DEF Accept_Error
<1>5. ASSUME NEW l \in Lines, Socket_Taken(l) PROVE Good
  BY <1>5, SocketTakenGood
<1>6. CASE BeginShutdown \/ MainStep
  BY <1>6, MainGood
<1>7. CASE UNCHANGED vars
  BY <1>7, SlotsIdle DEF vars
<1> QED BY <1>1, <1>2, <1>3, <1>4, <1>5, <1>6, <1>7 DEF Next

\* No shutdown is under way at the start.
LEMMA InitExact == Init => XInv
<1> SUFFICES ASSUME Init PROVE XInv
  OBVIOUS
<1>2. \A t \in Tasks : target[t] = 0
  BY DEF Init
<1>3. InFlight = {}
  BY <1>2 DEF InFlight
<1>4. shutdownCount = Cardinality(InFlight)
  BY <1>3, FS_EmptySet DEF Init
<1> QED BY <1>2, <1>4 DEF XInv, Apart, Sound

-----------------------------------------------------------------------------
(***************************************************************************)
(* The results.                                                            *)
(***************************************************************************)

\* The invariant holds in every reachable state: as long as the shutdown of a
\* slot is not undone by Get_Wait_For_Data the slot is In_Shutdown, its socket
\* is the one in hand, and no other task shuts it down.
THEOREM ExactInvariance == Spec => []JInv
<1>1. Init => JInv
  BY InitInv, InitExact DEF JInv
<1>2. JInv /\ [Next]_vars => JInv'
  BY NextInv, NextGood DEF JInv, Good
<1> QED BY <1>1, <1>2, PTL DEF Spec

\* Shutdown_Count is the number of shutdowns under way, each of a slot of its
\* own that is marked In_Shutdown, until Get_Wait_For_Data undoes one: the
\* entry Release is closed exactly as long as it must be.
THEOREM ShutdownsCounted == Spec => []ShutdownCountExact
<1>1. JInv => ShutdownCountExact
  BY DEF JInv, XInv, ShutdownCountExact, InFlight, Engaged, Apart, Sound
<1> QED BY <1>1, ExactInvariance, PTL

\* The socket that Force_Clean or Shutdown has in hand, outside the lock of
\* Slots, is still that of the slot and is not freed, unless the user's
\* callback has taken it over or Get_Wait_For_Data undid that shutdown.
THEOREM HeldSocketAlive == Spec => []HeldAlive
<1>1. JInv => HeldAlive
  <2> SUFFICES ASSUME JInv, NEW t \in InFlight, ~taken[target[t]],
                      target[t] \notin overwritten
               PROVE  sock[target[t]] = held[t] /\ where[held[t]] = "line"
    BY DEF HeldAlive
  <2>1. t \in Tasks /\ target[t] # 0 /\ target[t] \in Lines
    BY NAssumption DEF InFlight, JInv, IInv, PInv, TypeInv, Lines
  <2>2. sock[target[t]] = held[t] /\ held[t] # NoSock
    BY <2>1 DEF JInv, XInv, Engaged, Sound
  <2>3. Owns(target[t]) /\ lsock[target[t]] = sock[target[t]]
    BY <2>1, <2>2 DEF Owns, JInv, IInv, PInv, PcInv, PcOK
  <2> QED BY <2>1, <2>2, <2>3, OwnsSocket DEF JInv, IInv
<1> QED BY <1>1, ExactInvariance, PTL

\* A slot whose shutdown has begun serves no further request before it was
\* released, but through Get_Wait_For_Data.
THEOREM AbortedStaysDown == Spec => NoResurrection
<1>1. JInv /\ [Next]_vars => [StaysDown]_vars
  BY NextGood DEF Good
<1> QED BY <1>1, ExactInvariance, PTL DEF Spec, NoResurrection, StaysDown

\* Shutdown_Done leaves the slot Aborted, as its specification says, unless
\* Get_Wait_For_Data undid the shutdown.
THEOREM DoneMeansAborted == Spec => ShutdownDoneAborts
<1>1. JInv /\ [Next]_vars => [DoneAborts]_vars
  BY NextGood DEF Good
<1> QED BY <1>1, ExactInvariance, PTL DEF Spec, ShutdownDoneAborts, DoneAborts
=============================================================================
