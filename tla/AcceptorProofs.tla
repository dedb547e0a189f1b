--------------------------- MODULE AcceptorProofs ---------------------------
(***************************************************************************)
(* Proofs about Acceptor, for any number of callers, connections and       *)
(* listening sockets, any Back_Queue_Size and any size of the buffer       *)
(* Add_Sockets receives into: the semaphore and the box, then the scan of  *)
(* the socket set and the phases of Shutdown.                              *)
(***************************************************************************)
EXTENDS Acceptor, FiniteSetTheorems, SequenceTheorems, TLAPS

(***************************************************************************)
(* The inductive invariant of the semaphore and the box.                   *)
(***************************************************************************)
BoxType ==
  /\ pc \in [Callers -> CallerPC]
  /\ tid \in Callers \cup {None}
  /\ got \in [Callers -> Clients \cup {None}]
  /\ todo \in Nat
  /\ bytes \in Nat
  /\ open \in BOOLEAN
  /\ box \in Seq(Socks \cup {None})

\* The task that seized the semaphore, and no other, is inside Get.
Exclusion == \A c \in Callers : pc[c] \in InGet <=> tid = c

\* Bytes received and not yet acted upon belong to a task in that loop.
TodoInv == todo > 0 => \E c \in Callers : pc[c] = "Fetch"

\* Only Box.Shutdown leaves null sockets in the box.
NoNullInv == open => \A i \in DOMAIN box : box[i] # None

BoxInv == BoxType /\ Exclusion /\ TodoInv /\ NoNullInv /\ SignalMatchesBox

-----------------------------------------------------------------------------
\* A step that leaves the box, the signal and the bytes in hand alone, and
\* does not take a task out of the loop over them.
LEMMA BoxKept ==
  ASSUME BoxInv, UNCHANGED <<box, bytes, open, todo>>,
         pc' \in [Callers -> CallerPC], tid' \in Callers \cup {None},
         got' \in [Callers -> Clients \cup {None}],
         Exclusion',
         \A c \in Callers : pc[c] = "Fetch" => todo = 0 \/ pc'[c] = "Fetch"
  PROVE  BoxInv'
BY DEF BoxInv, BoxType, TodoInv, NoNullInv, SignalMatchesBox

\* A caller moves without touching the semaphore.
LEMMA MoveExcl ==
  ASSUME BoxInv, NEW c \in Callers, NEW p \in CallerPC, Goto(c, p),
         pc[c] \in InGet <=> p \in InGet, UNCHANGED tid
  PROVE  Exclusion' /\ pc' \in [Callers -> CallerPC]
BY DEF BoxInv, BoxType, Exclusion, Goto

\* A caller leaves Get and releases the semaphore.
LEMMA LeaveExcl ==
  ASSUME BoxInv, NEW c \in Callers, NEW p \in CallerPC \ InGet, Goto(c, p),
         pc[c] \in InGet, tid' = None
  PROVE  Exclusion' /\ pc' \in [Callers -> CallerPC]
BY SocketAssumption DEF BoxInv, BoxType, Exclusion, Goto

\* A caller waiting in Get has no bytes in hand.
LEMMA NoTodo ==
  ASSUME BoxInv, NEW c \in Callers, pc[c] \in {"Scan", "Wait"}
  PROVE  todo = 0
BY DEF BoxInv, BoxType, Exclusion, TodoInv, InGet

\* The steps of Get before the box is looked at.
LEMMA ScanStep ==
  ASSUME BoxInv, NEW c \in Callers,
         \/ Seize(c) \/ ListenError(c) \/ Accept(c) \/ NoAccept(c)
         \/ ClientCloses(c) \/ ClientReady(c) \/ ClientStays(c) \/ ScanEnds(c)
  PROVE  BoxInv'
<1> USE DEF InGet, CallerPC, boxVars, getVars
<1>1. CASE Seize(c)
  <2>1. UNCHANGED <<box, bytes, open, todo, got>>
    BY <1>1 DEF Seize
  <2>2. /\ pc' \in [Callers -> CallerPC] /\ tid' \in Callers \cup {None}
        /\ Exclusion'
    BY <1>1, SocketAssumption
       DEF Seize, SemaphoreFree, Goto, BoxInv, BoxType, Exclusion
  <2>3. \A d \in Callers : pc[d] = "Fetch" => pc'[d] = "Fetch"
    BY <1>1 DEF Seize, Goto, BoxInv, BoxType
  <2> QED BY <2>1, <2>2, <2>3, BoxKept DEF BoxInv, BoxType
<1>2. CASE ListenError(c) \/ ClientReady(c)
  <2>1. pc[c] = "Scan" /\ tid' = None /\ UNCHANGED <<box, bytes, open, todo>>
    BY <1>2 DEF ListenError, ClientReady, Examine
  <2>2. \E p \in CallerPC \ InGet : Goto(c, p)
    BY <1>2 DEF ListenError, ClientReady
  <2>3. Exclusion' /\ pc' \in [Callers -> CallerPC]
    BY <2>1, <2>2, LeaveExcl
  <2>4. got' \in [Callers -> Clients \cup {None}]
    BY <1>2 DEF ListenError, ClientReady, BoxInv, BoxType
  <2>5. todo = 0
    BY <2>1, NoTodo
  <2> QED BY <2>1, <2>3, <2>4, <2>5, BoxKept
<1>3. CASE \/ Accept(c) \/ NoAccept(c) \/ ClientCloses(c) \/ ClientStays(c)
  <2>1. UNCHANGED <<box, bytes, open, todo, got, pc, tid>>
    BY <1>3 DEF Accept, NoAccept, ClientCloses, ClientStays
  <2> QED BY <2>1, BoxKept DEF BoxInv, BoxType, Exclusion
<1>4. CASE ScanEnds(c)
  <2>1. /\ UNCHANGED <<box, bytes, open, todo, got, tid>>
        /\ pc[c] = "Scan" /\ Goto(c, "Wait")
    BY <1>4 DEF ScanEnds
  <2>2. Exclusion' /\ pc' \in [Callers -> CallerPC]
    BY <2>1, MoveExcl
  <2>3. todo = 0
    BY <2>1, NoTodo
  <2> QED BY <2>1, <2>2, <2>3, BoxKept DEF BoxInv, BoxType
<1> QED BY <1>1, <1>2, <1>3, <1>4

\* The outcomes of Wait but the one that finds bytes.
LEMMA WaitStepKeeps ==
  ASSUME BoxInv, NEW c \in Callers,
         WaitQuiet(c) \/ WaitShutdown(c) \/ WaitClose(c) \/ WaitFails(c)
  PROVE  BoxInv'
<1> USE DEF InGet, CallerPC, boxVars, getVars
<1>0. pc[c] = "Wait" /\ todo = 0
  <2>1. pc[c] = "Wait"
    BY DEF WaitQuiet, WaitShutdown, WaitClose, WaitFails, WaitReturns
  <2> QED BY <2>1, NoTodo
<1>1. CASE WaitQuiet(c) \/ WaitFails(c)
  <2>1. UNCHANGED <<box, bytes, open, todo, got, tid>> /\ Goto(c, "Scan")
    BY <1>1 DEF WaitQuiet, WaitFails
  <2>2. Exclusion' /\ pc' \in [Callers -> CallerPC]
    BY <1>0, <2>1, MoveExcl
  <2> QED BY <1>0, <2>1, <2>2, BoxKept DEF BoxInv, BoxType
<1>2. CASE WaitShutdown(c)
  <2>1. /\ UNCHANGED <<box, bytes, open, todo, got>> /\ tid' = None
        /\ Goto(c, "Raise")
    BY <1>2 DEF WaitShutdown
  <2>2. Exclusion' /\ pc' \in [Callers -> CallerPC]
    BY <1>0, <2>1, LeaveExcl
  <2> QED BY <1>0, <2>1, <2>2, BoxKept DEF BoxInv, BoxType
<1>3. CASE WaitClose(c)
  <2>1. UNCHANGED <<box, bytes, open, todo, got, pc, tid>>
    BY <1>3 DEF WaitClose
  <2> QED BY <2>1, BoxKept DEF BoxInv, BoxType, Exclusion
<1> QED BY <1>1, <1>2, <1>3

\* Add_Sockets receives bytes: they change hands, none is lost.
LEMMA WaitSignalKeeps ==
  ASSUME BoxInv, NEW c \in Callers, WaitSignal(c)
  PROVE  BoxInv'
<1> USE DEF InGet, CallerPC
<1>1. /\ pc[c] = "Wait" /\ Goto(c, "Fetch") /\ UNCHANGED <<box, open, got, tid>>
      /\ bytes' = bytes - Received /\ todo' = Received
  BY DEF WaitSignal, WaitReturns, Commands
<1>2. todo = 0
  BY <1>1, NoTodo
<1>3. Received \in Nat /\ Received <= bytes
  BY BoundsAssumption DEF Received, BoxInv, BoxType
<1>4. bytes' \in Nat /\ todo' \in Nat /\ bytes' + todo' = bytes + todo
  BY <1>1, <1>2, <1>3 DEF BoxInv, BoxType
<1>5. Exclusion' /\ pc' \in [Callers -> CallerPC]
  BY <1>1, MoveExcl
<1>6. pc'[c] = "Fetch"
  BY <1>1 DEF Goto, BoxInv, BoxType
<1> QED BY <1>1, <1>4, <1>5, <1>6
        DEF BoxInv, BoxType, TodoInv, NoNullInv, SignalMatchesBox

\* The first entry of the box is taken.
LEMMA FetchKeeps ==
  ASSUME BoxInv, NEW c \in Callers, Fetch(c)
  PROVE  BoxInv'
<1> USE DEF InGet, CallerPC
<1>1. /\ pc[c] = "Fetch" /\ todo > 0 /\ box # <<>> /\ box' = Tail(box)
      /\ UNCHANGED <<open, bytes, got>>
  BY DEF Fetch
<1>2. /\ box' \in Seq(Socks \cup {None}) /\ Len(box') = Len(box) - 1
      /\ Len(box) \in Nat
  BY <1>1 DEF BoxInv, BoxType
<1>a. /\ bytes \in Nat /\ bytes' = bytes /\ todo \in Nat /\ todo > 0
      /\ open' = open /\ SignalMatchesBox
  BY <1>1 DEF BoxInv, BoxType
<1>3. NoNullInv'
  <2> SUFFICES ASSUME open, NEW i \in DOMAIN box'
               PROVE  box'[i] # None
    BY <1>1 DEF NoNullInv
  <2>1. i + 1 \in DOMAIN box /\ box'[i] = box[i + 1]
    BY <1>1 DEF BoxInv, BoxType
  <2> QED BY <2>1 DEF BoxInv, NoNullInv
<1>4. CASE Head(box) = None
  <2>1. Goto(c, "Raise") /\ tid' = None /\ todo' = 0
    BY <1>4 DEF Fetch
  <2>2. Exclusion' /\ pc' \in [Callers -> CallerPC]
    BY <1>1, <2>1, LeaveExcl
  <2>3. ~open
    <3>1. 1 \in DOMAIN box /\ Head(box) = box[1]
      BY <1>1 DEF BoxInv, BoxType
    <3> QED BY <3>1, <1>4 DEF BoxInv, NoNullInv
  <2>4. SignalMatchesBox'
    BY <1>a, <1>2, <2>1, <2>3 DEF SignalMatchesBox
  <2> QED BY <1>1, <1>2, <1>3, <2>1, <2>2, <2>4 DEF BoxInv, BoxType, TodoInv
<1>5. CASE Head(box) # None
  <2>1. todo' = todo - 1 /\ UNCHANGED <<pc, tid>>
    BY <1>5 DEF Fetch
  <2>2. SignalMatchesBox' /\ todo' \in Nat
    BY <1>a, <1>2, <2>1 DEF SignalMatchesBox
  <2> QED BY <1>1, <1>2, <1>3, <2>1, <2>2 DEF BoxInv, BoxType, TodoInv, Exclusion
<1> QED BY <1>4, <1>5

\* The loop over the bytes ends; the list of sockets to close is freed.
LEMMA EndsKeep ==
  ASSUME BoxInv, NEW c \in Callers, FetchEnds(c) \/ Flush(c)
  PROVE  BoxInv'
<1> USE DEF InGet, CallerPC, boxVars, getVars
<1>1. CASE FetchEnds(c)
  <2>1. /\ UNCHANGED <<box, bytes, open, todo, got, tid>>
        /\ pc[c] = "Fetch" /\ todo = 0 /\ Goto(c, "Scan")
    BY <1>1 DEF FetchEnds
  <2>2. Exclusion' /\ pc' \in [Callers -> CallerPC]
    BY <2>1, MoveExcl
  <2> QED BY <2>1, <2>2, BoxKept DEF BoxInv, BoxType
<1>2. CASE Flush(c)
  <2>1. /\ UNCHANGED <<box, bytes, open, todo, got, tid>>
        /\ pc[c] \in {"Flush", "Raise"}
    BY <1>2 DEF Flush
  <2>2. \E p \in {"Out", "Ended"} : Goto(c, p)
    BY <1>2 DEF Flush
  <2>3. Exclusion' /\ pc' \in [Callers -> CallerPC]
    BY <2>1, <2>2, MoveExcl
  <2>4. \A d \in Callers : pc[d] = "Fetch" => pc'[d] = "Fetch"
    BY <2>1, <2>2 DEF Goto, BoxInv, BoxType
  <2> QED BY <2>1, <2>3, <2>4, BoxKept DEF BoxInv, BoxType
<1> QED BY <1>1, <1>2

\* A socket and its byte are added together.
LEMMA BoxAddKeeps ==
  ASSUME BoxInv, NEW s \in Socks, BoxAdd(s), UNCHANGED <<pc, tid, todo>>,
         got' \in [Callers -> Clients \cup {None}]
  PROVE  BoxInv'
<1>1. /\ box' = Append(box, s) /\ bytes' = bytes + 1 /\ UNCHANGED open
      /\ s # None
  BY SocketAssumption DEF BoxAdd
<1>2. /\ box' \in Seq(Socks \cup {None}) /\ Len(box') = Len(box) + 1
      /\ Len(box) \in Nat
  BY <1>1 DEF BoxInv, BoxType
<1>3. NoNullInv'
  BY <1>1 DEF BoxInv, BoxType, NoNullInv
<1>4. SignalMatchesBox' /\ bytes' \in Nat
  BY <1>1, <1>2 DEF BoxInv, BoxType, SignalMatchesBox
<1> QED BY <1>1, <1>2, <1>3, <1>4 DEF BoxInv, BoxType, TodoInv, Exclusion

LEMMA CallerKeeps ==
  ASSUME BoxInv, NEW c \in Callers, Give_Back(c) \/ Close(c)
  PROVE  BoxInv'
<1>1. CASE Give_Back(c)
  <2>1. got[c] \in Socks
    BY <1>1 DEF Give_Back, BoxInv, BoxType, Socks
  <2>2. /\ BoxAdd(got[c]) /\ UNCHANGED <<pc, tid, todo>>
        /\ got' \in [Callers -> Clients \cup {None}]
    BY <1>1 DEF Give_Back, BoxInv, BoxType
  <2> QED BY <2>1, <2>2, BoxAddKeeps
<1>2. CASE Close(c)
  <2>1. /\ UNCHANGED <<box, bytes, open, todo, pc, tid>>
        /\ got' \in [Callers -> Clients \cup {None}]
    BY <1>2 DEF Close, boxVars, BoxInv, BoxType
  <2> QED BY <2>1, BoxKept DEF BoxInv, BoxType, Exclusion
<1> QED BY <1>1, <1>2

\* Box.Shutdown frees what is in the box and keeps its length.
LEMMA BoxShutdownKeeps ==
  ASSUME BoxInv, BoxShutdown
  PROVE  BoxInv'
<1>1. /\ open' = FALSE /\ box' = [i \in DOMAIN box |-> None]
      /\ UNCHANGED <<bytes, todo, pc, tid, got>>
  BY DEF BoxShutdown, BoxFreed, getVars
<1>2. box' \in Seq(Socks \cup {None}) /\ Len(box') = Len(box)
  <2>1. DOMAIN box = 1 .. Len(box) /\ Len(box) \in Nat
    BY DEF BoxInv, BoxType
  <2>2. box' = [i \in 1 .. Len(box) |-> None]
    BY <1>1, <2>1
  <2> QED BY <2>1, <2>2
<1> QED BY <1>1, <1>2
        DEF BoxInv, BoxType, Exclusion, TodoInv, NoNullInv, SignalMatchesBox

\* The network, Add_Listening and the rest of Shutdown.
LEMMA OtherKeeps ==
  ASSUME BoxInv,
         \/ \E s \in Socks : Arrives(s) \/ Fails(s)
         \/ \E e \in Extra : Add_Listening(e) \/ AddServer(e)
         \/ MainStep
  PROVE  BoxInv'
<1> USE DEF boxVars, getVars
<1>1. CASE \E e \in Extra : Add_Listening(e) /\ open
  <2>1. PICK e \in Extra : Add_Listening(e) /\ open
    BY <1>1
  <2>2. e \in Socks /\ BoxAdd(e) /\ UNCHANGED <<pc, tid, todo, got>>
    BY <2>1 DEF Add_Listening, Socks, Listeners
  <2> QED BY <2>2, BoxAddKeeps DEF BoxInv, BoxType
<1>2. CASE \/ \E s \in Socks : Arrives(s) \/ Fails(s)
           \/ \E e \in Extra : Add_Listening(e) /\ ~open
           \/ \E e \in Extra : AddServer(e)
           \/ MainStep
  <2>1. UNCHANGED <<box, bytes, open, todo, pc, tid, got>>
    BY <1>2 DEF Arrives, Fails, Add_Listening, AddServer, MainStep, CloseSignal,
       TryDirect, TryBusy, WaitEmpty, WaitEmptyExpires
  <2> QED BY <2>1, BoxKept DEF BoxInv, BoxType, Exclusion
<1> QED BY <1>1, <1>2

-----------------------------------------------------------------------------
LEMMA BoxInvInit == Init => BoxInv
BY SocketAssumption
   DEF Init, BoxInv, BoxType, Exclusion, TodoInv, NoNullInv, SignalMatchesBox,
       InGet, CallerPC

LEMMA BoxInvNext == BoxInv /\ [Next]_vars => BoxInv'
<1> SUFFICES ASSUME BoxInv, [Next]_vars
             PROVE  BoxInv'
  OBVIOUS
<1>1. CASE UNCHANGED vars
  BY <1>1 DEF vars, boxVars, getVars, BoxInv, BoxType, Exclusion, TodoInv,
     NoNullInv, SignalMatchesBox
<1>2. CASE \E c \in Callers : CallerStep(c) \/ WaitFails(c)
  BY <1>2, ScanStep, WaitStepKeeps, WaitSignalKeeps, FetchKeeps, EndsKeep,
     CallerKeeps DEF CallerStep, GetStep, WaitStep
<1>3. CASE BoxShutdown
  BY <1>3, BoxShutdownKeeps
<1>4. CASE \/ \E s \in Socks : Arrives(s) \/ Fails(s)
           \/ \E e \in Extra : Add_Listening(e) \/ AddServer(e)
           \/ MainStep
  BY <1>4, OtherKeeps
<1> QED BY <1>1, <1>2, <1>3, <1>4 DEF Next

\* Box.Get, an entry that blocks while the box is empty, is called with the
\* semaphore held only when there is a socket for it, whatever Give_Back,
\* Add_Listening and Shutdown do meanwhile.
THEOREM BoxGetNeverBlocks == Spec => []SignalMatchesBox
<1>1. BoxInv => SignalMatchesBox
  BY DEF BoxInv
<1> QED BY <1>1, BoxInvInit, BoxInvNext, PTL DEF Spec

\* At most one task is inside Get.
THEOREM OneInGet ==
  Spec => [](\A c, d \in Callers : pc[c] \in InGet /\ pc[d] \in InGet => c = d)
<1>1. BoxInv => \A c, d \in Callers : pc[c] \in InGet /\ pc[d] \in InGet => c = d
  BY DEF BoxInv, Exclusion
<1> QED BY <1>1, BoxInvInit, BoxInvNext, PTL DEF Spec

-----------------------------------------------------------------------------
(***************************************************************************)
(* The inductive invariant of the scan, on top of BoxInv.                  *)
(***************************************************************************)
SetType ==
  /\ set \in Seq(Socks \cup {Signal})
  /\ index \in Nat /\ index >= First_Index
  /\ last \in Nat
  /\ oldest \in Nat

\* Slot 1 is the signalling socket, the range of the scan lies in the set, and
\* whoever is inside Get finds a set that was not cleared.
SetInv ==
  /\ set # <<>> => last <= Len(set) /\ set[1] = Signal
  /\ tid # None => set # <<>>

\* The oldest connection is one this scan has passed.
OldestInv ==
  oldest > 0 => /\ oldest < index /\ oldest <= last /\ set[oldest] \in Clients
                /\ \E c \in Callers : pc[c] = "Scan"

MainPoints == {"Up", "CloseSignal", "Try", "WaitEmpty", "Done", "Failed"}

\* What each point of Shutdown says about the box, the signal and the set.
PhaseInv ==
  /\ main \in MainPoints /\ wsig \in BOOLEAN /\ servers \in SUBSET Listeners
  /\ open <=> main = "Up"
  /\ wsig <=> main \in {"Up", "CloseSignal"}
  /\ wsig => set # <<>>
  /\ servers = {} => set = <<>>
  /\ main = "Done" => set = <<>>
  /\ ~open => \A i \in DOMAIN box : box[i] = None

ScanInv == SetType /\ SetInv /\ OldestInv /\ PhaseInv

-----------------------------------------------------------------------------
\* The sequence without its element i, whose place the last one takes.
Without(q, i) == SubSeq([q EXCEPT ![i] = q[Len(q)]], 1, Len(q) - 1)

\* What Without keeps and moves.
LEMMA RemovedSeq ==
  ASSUME NEW S, NEW q \in Seq(S), NEW i \in 1 .. Len(q), NEW r,
         r = Without(q, i)
  PROVE  /\ r \in Seq(S)
         /\ Len(r) = Len(q) - 1
         /\ \A j \in 1 .. Len(r) : r[j] = IF j = i THEN q[Len(q)] ELSE q[j]
<1>1. PICK n \in Nat : n = Len(q) /\ n >= 1 /\ DOMAIN q = 1 .. n
  OBVIOUS
<1>2. PICK moved : moved = [q EXCEPT ![i] = q[n]]
  OBVIOUS
<1>3. \A j \in 1 .. n : moved[j] = IF j = i THEN q[n] ELSE q[j]
  BY <1>1, <1>2
<1>4. \A j \in 1 .. n - 1 : moved[j] \in S
  BY <1>1, <1>3
<1>5. r = SubSeq(moved, 1, n - 1)
  BY <1>1, <1>2 DEF Without
<1>6. PICK k \in Int : k = n - 1
  <2>1. n - 1 \in Int
    BY <1>1
  <2> QED BY <2>1, Zenon
<1>7. /\ r \in Seq(S)
      /\ Len(r) = IF 1 <= k THEN k - 1 + 1 ELSE 0
      /\ \A j \in 1 .. k - 1 + 1 : r[j] = moved[1 + j - 1]
  BY <1>4, <1>5, <1>6, SubSeqProperties
<1>8. Len(r) = k
  BY <1>1, <1>6, <1>7
<1>9. \A j \in 1 .. k : r[j] = moved[j]
  BY <1>6, <1>7
<1> QED BY <1>1, <1>3, <1>6, <1>7, <1>8, <1>9

\* Remove_Socket: the other sockets keep their places, but for the last one.
LEMMA RemoveFacts ==
  ASSUME set \in Seq(Socks \cup {Signal}), NEW i \in 1 .. Len(set), RemoveSlot(i)
  PROVE  /\ set' \in Seq(Socks \cup {Signal})
         /\ Len(set') = Len(set) - 1
         /\ \A j \in 1 .. Len(set') : set'[j] = IF j = i THEN set[Len(set)] ELSE set[j]
<1>1. set' = Without(set, i)
  BY DEF RemoveSlot, Without
<1> QED BY <1>1, RemovedSeq

\* What the task inside Get may rely on when it examines a socket.
LEMMA ExamineFacts ==
  ASSUME BoxInv, ScanInv, NEW c \in Callers, NEW st, Examine(c, st)
  PROVE  /\ tid = c /\ tid # None /\ set # <<>> /\ Len(set) \in Nat
         /\ index \in 2 .. last /\ last <= Len(set) /\ index \in 1 .. Len(set)
         /\ pc[c] = "Scan"
<1>1. pc[c] = "Scan" /\ index <= last
  BY DEF Examine
<1>2. tid = c
  BY <1>1 DEF BoxInv, Exclusion, InGet
<1>3. tid # None
  BY <1>2, SocketAssumption
<1>4. set # <<>> /\ last <= Len(set) /\ Len(set) \in Nat
  BY <1>3 DEF ScanInv, SetInv, SetType
<1> QED BY <1>1, <1>2, <1>3, <1>4 DEF ScanInv, SetType, First_Index

\* A step that leaves the set and the scan alone, and keeps the task in it.
LEMMA ScanKept ==
  ASSUME BoxInv, ScanInv, UNCHANGED <<set, index, last, oldest>>,
         tid' # None => tid # None,
         \A c \in Callers : pc[c] = "Scan" => oldest = 0 \/ pc'[c] = "Scan"
  PROVE  SetType' /\ SetInv' /\ OldestInv'
BY DEF ScanInv, SetType, SetInv, OldestInv

\* A step that leaves Shutdown alone, keeps the set non-empty and adds nothing
\* to a closed box.
LEMMA PhaseKept ==
  ASSUME BoxInv, ScanInv, UNCHANGED <<main, wsig, servers, open, box>>,
         (set # <<>> /\ set' # <<>>) \/ set' = set
  PROVE  PhaseInv'
BY DEF ScanInv, PhaseInv

\* A socket leaves the set during the scan.
LEMMA TakeScan ==
  ASSUME BoxInv, ScanInv, NEW c \in Callers, NEW i \in 2 .. last, Take(i), tid = c,
         index' = index,
         oldest' = 0 \/ (oldest' = oldest /\ oldest < i /\ pc' = pc)
  PROVE  SetType' /\ SetInv' /\ OldestInv' /\ set # <<>> /\ set' # <<>>
<1>1. set # <<>> /\ last <= Len(set) /\ set[1] = Signal /\ Len(set) \in Nat /\ last \in Nat
  BY SocketAssumption DEF ScanInv, SetInv, SetType
<1>2. i \in 1 .. Len(set) /\ i \in Nat /\ i >= 2
  BY <1>1
<1>3. /\ set' \in Seq(Socks \cup {Signal})
      /\ Len(set') = Len(set) - 1
      /\ \A j \in 1 .. Len(set') : set'[j] = IF j = i THEN set[Len(set)] ELSE set[j]
  BY <1>2, RemoveFacts DEF Take, ScanInv, SetType
<1>4. last' = last - 1 /\ last' \in Nat /\ last' <= Len(set') /\ Len(set') \in Nat
  BY <1>1, <1>2, <1>3 DEF Take
<1>5. set'[1] = Signal /\ set' # <<>>
  BY <1>1, <1>2, <1>3, <1>4
<1>6. SetType' /\ SetInv'
  BY <1>3, <1>4, <1>5 DEF ScanInv, SetType, SetInv
<1>7. OldestInv'
  <2>1. CASE oldest' = 0
    BY <2>1 DEF OldestInv
  <2>2. CASE oldest' = oldest /\ oldest < i /\ pc' = pc /\ oldest > 0
    <3>1. oldest \in 1 .. Len(set') /\ oldest # i /\ oldest <= last'
      BY <1>1, <1>2, <1>3, <1>4, <2>2 DEF ScanInv, SetType
    <3> QED BY <1>3, <2>2, <3>1 DEF ScanInv, OldestInv
  <2> QED BY <2>1, <2>2 DEF ScanInv, SetType
<1> QED BY <1>1, <1>5, <1>6, <1>7

\* A socket joins the set.
LEMMA AppendScan ==
  ASSUME BoxInv, ScanInv, NEW c \in Callers, NEW s \in Socks, set' = Append(set, s),
         tid = c, last' = last, index' \in {index, index + 1},
         oldest' = oldest, pc' = pc \/ oldest = 0
  PROVE  SetType' /\ SetInv' /\ OldestInv' /\ set # <<>> /\ set' # <<>>
<1>1. set # <<>> /\ last <= Len(set) /\ set[1] = Signal /\ Len(set) \in Nat /\ last \in Nat
  BY SocketAssumption DEF ScanInv, SetInv, SetType
<1>2. /\ set' \in Seq(Socks \cup {Signal}) /\ set' # <<>> /\ Len(set') = Len(set) + 1
      /\ \A j \in 1 .. Len(set) : set'[j] = set[j]
  BY AppendProperties DEF ScanInv, SetType
<1>3. set'[1] = Signal
  BY <1>1, <1>2
<1>4. SetType' /\ SetInv'
  BY <1>1, <1>2, <1>3 DEF ScanInv, SetType, SetInv, First_Index
<1>5. OldestInv'
  <2>1. CASE oldest = 0
    BY <2>1 DEF OldestInv
  <2>2. CASE oldest > 0
    <3>1. oldest \in 1 .. Len(set) /\ pc' = pc
      BY <1>1, <2>2 DEF ScanInv, OldestInv, SetType
    <3> QED BY <1>2, <2>2, <3>1 DEF ScanInv, OldestInv, SetType
  <2> QED BY <2>1, <2>2 DEF ScanInv, SetType
<1> QED BY <1>1, <1>2, <1>4, <1>5

\* The steps of a caller that end with no oldest connection and leave the set.
LEMMA ScanReset ==
  ASSUME BoxInv, ScanInv, UNCHANGED <<set, last>>, index' \in {index, First_Index},
         oldest' = 0, tid' # None => set # <<>>
  PROVE  SetType' /\ SetInv' /\ OldestInv'
BY DEF ScanInv, SetType, SetInv, OldestInv, First_Index

\* Seize, and the examination of one socket of the set.
LEMMA ExamineScan ==
  ASSUME BoxInv, ScanInv, NEW c \in Callers,
         \/ Seize(c) \/ ListenError(c) \/ Accept(c) \/ NoAccept(c)
         \/ ClientCloses(c) \/ ClientReady(c) \/ ClientStays(c)
  PROVE  ScanInv'
<1> USE DEF boxVars, shutVars, setVars, getVars
<1>0. UNCHANGED <<main, wsig, servers, open, box>>
  BY DEF Seize, ListenError, Accept, NoAccept, ClientCloses, ClientReady, ClientStays
<1>1. CASE Seize(c)
  <2>1. UNCHANGED <<set, index, last>>
    BY <1>1 DEF Seize
  <2>2. CASE set = <<>>
    <3>1. UNCHANGED <<tid, oldest>> /\ Goto(c, "Ended") /\ pc[c] = "Out"
      BY <1>1, <2>2 DEF Seize
    <3>2. \A d \in Callers : pc[d] = "Scan" => pc'[d] = "Scan"
      BY <3>1 DEF Goto, BoxInv, BoxType
    <3> QED BY <1>0, <2>1, <3>1, <3>2, ScanKept, PhaseKept DEF ScanInv
  <2>3. CASE set # <<>>
    <3>1. oldest' = 0
      BY <1>1, <2>3 DEF Seize
    <3> QED BY <1>0, <2>1, <2>3, <3>1, ScanReset, PhaseKept DEF ScanInv
  <2> QED BY <2>2, <2>3
<1>2. CASE ListenError(c)
  <2>1. UNCHANGED <<set, index, last>> /\ oldest' = 0 /\ tid' = None
    BY <1>2 DEF ListenError
  <2> QED BY <1>0, <2>1, ScanReset, PhaseKept DEF ScanInv
<1>3. CASE Accept(c)
  <2>1. PICK x \in Clients : set' = Append(set, x)
    BY <1>3 DEF Accept
  <2>2. tid = c /\ x \in Socks
    BY <1>3, ExamineFacts DEF Accept, Socks
  <2>3. last' = last /\ index' = index + 1 /\ UNCHANGED <<oldest, pc>>
    BY <1>3 DEF Accept
  <2>4. SetType' /\ SetInv' /\ OldestInv' /\ set # <<>> /\ set' # <<>>
    BY <2>1, <2>2, <2>3, AppendScan
  <2> QED BY <1>0, <2>4, PhaseKept DEF ScanInv
<1>4. CASE NoAccept(c)
  <2>1. UNCHANGED <<set, last, oldest, pc, tid>> /\ index' = index + 1
    BY <1>4 DEF NoAccept
  <2>2. SetType' /\ SetInv' /\ OldestInv'
    BY <2>1 DEF ScanInv, SetType, SetInv, OldestInv, First_Index
  <2> QED BY <1>0, <2>1, <2>2, PhaseKept DEF ScanInv
<1>5. CASE ClientCloses(c)
  <2>1. tid = c /\ index \in 2 .. last /\ Take(index) /\ UNCHANGED <<index, oldest, pc>>
    BY <1>5, ExamineFacts DEF ClientCloses
  <2>2. oldest = 0 \/ oldest < index
    BY DEF ScanInv, SetType, OldestInv
  <2>3. SetType' /\ SetInv' /\ OldestInv' /\ set # <<>> /\ set' # <<>>
    BY <2>1, <2>2, TakeScan
  <2> QED BY <1>0, <2>3, PhaseKept DEF ScanInv
<1>6. CASE ClientReady(c)
  <2>1. tid = c /\ index \in 2 .. last /\ Take(index) /\ UNCHANGED index /\ oldest' = 0
    BY <1>6, ExamineFacts DEF ClientReady
  <2>2. SetType' /\ SetInv' /\ OldestInv' /\ set # <<>> /\ set' # <<>>
    BY <2>1, TakeScan
  <2> QED BY <1>0, <2>2, PhaseKept DEF ScanInv
<1>7. CASE ClientStays(c)
  <2>1. /\ UNCHANGED <<set, last, pc, tid>> /\ index' = index + 1
        /\ oldest' \in {oldest, index} /\ set[index] \in Clients
    BY <1>7 DEF ClientStays
  <2>2. index \in 2 .. last /\ pc[c] = "Scan"
    BY <1>7, ExamineFacts DEF ClientStays
  <2>3. SetType' /\ SetInv'
    BY <2>1 DEF ScanInv, SetType, SetInv, First_Index
  <2>4. OldestInv'
    <3>1. CASE oldest' = oldest
      BY <2>1, <3>1 DEF ScanInv, SetType, OldestInv
    <3>2. CASE oldest' = index
      BY <2>1, <2>2, <3>2 DEF ScanInv, SetType, OldestInv
    <3> QED BY <2>1, <3>1, <3>2
  <2> QED BY <1>0, <2>1, <2>3, <2>4, PhaseKept DEF ScanInv
<1> QED BY <1>1, <1>2, <1>3, <1>4, <1>5, <1>6, <1>7

\* A task at "Wait" or "Fetch" has left its scan behind.
LEMMA NoOldest ==
  ASSUME BoxInv, ScanInv, NEW c \in Callers, pc[c] \in {"Wait", "Fetch"}
  PROVE  /\ oldest = 0 /\ tid = c /\ tid # None /\ set # <<>> /\ set[1] = Signal
         /\ Len(set) \in Nat /\ Len(set) >= 1
<1>1. tid = c
  BY DEF BoxInv, Exclusion, InGet
<1>2. \A d \in Callers : pc[d] # "Scan"
  BY <1>1, SocketAssumption DEF BoxInv, Exclusion, InGet
<1>3. oldest = 0
  BY <1>2 DEF ScanInv, SetType, OldestInv
<1>4. tid # None
  BY <1>1, SocketAssumption
<1> QED BY <1>1, <1>3, <1>4 DEF ScanInv, SetInv, SetType

\* The signalling socket reads as lost only after Shutdown has closed it.
LEMMA LostMeansClosed ==
  ASSUME BoxInv, ScanInv, set # <<>>, NEW r \in PollResults, SignalLost(r[1])
  PROVE  ~wsig
<1>1. 1 \in Slots
  BY SocketAssumption, FS_CardinalityType DEF Slots
<1>2. set[1] = Signal /\ Len(set) \in Nat /\ Len(set) >= 1
  BY DEF ScanInv, SetInv, SetType
<1>3. PICK x \in Polled(Signal) :
        r = [i \in Slots |-> IF i > Len(set) THEN rev[i]
                             ELSE IF set[i] = Signal THEN x ELSE kern[set[i]]]
  BY DEF PollResults
<1>4. r[1] = x
  BY <1>1, <1>2, <1>3
<1> QED BY <1>4 DEF Polled, SignalLost, BoxInv, BoxType

\* The end of the scan and the outcomes of Wait.
LEMMA WaitScan ==
  ASSUME BoxInv, ScanInv, NEW c \in Callers,
         ScanEnds(c) \/ WaitStep(c) \/ WaitFails(c)
  PROVE  ScanInv'
<1> USE DEF boxVars, shutVars, setVars, getVars
<1>1. CASE ScanEnds(c)
  <2>0. UNCHANGED <<main, wsig, servers, open, box, index, tid>> /\ oldest' = 0 /\ pc[c] = "Scan"
    BY <1>1 DEF ScanEnds
  <2>1. CASE oldest > 0 /\ last > CloseLength
    <3>1. Take(oldest)
      BY <1>1, <2>1 DEF ScanEnds
    <3>2. tid = c /\ set # <<>> /\ set[1] = Signal
      BY <2>0, SocketAssumption DEF BoxInv, Exclusion, InGet, ScanInv, SetInv
    <3>3. oldest # 1
      BY <2>1, <3>2, SocketAssumption DEF ScanInv, OldestInv, Socks
    <3>4. oldest \in 2 .. last
      BY <2>1, <3>3 DEF ScanInv, SetType, OldestInv
    <3>5. SetType' /\ SetInv' /\ OldestInv' /\ set # <<>> /\ set' # <<>>
      BY <2>0, <3>1, <3>2, <3>4, TakeScan
    <3> QED BY <2>0, <3>5, PhaseKept DEF ScanInv
  <2>2. CASE ~(oldest > 0 /\ last > CloseLength)
    <3>1. UNCHANGED <<set, last>>
      BY <1>1, <2>2 DEF ScanEnds
    <3>2. tid' # None => set # <<>>
      BY <2>0 DEF ScanInv, SetInv
    <3> QED BY <2>0, <3>1, <3>2, ScanReset, PhaseKept DEF ScanInv
  <2> QED BY <2>1, <2>2
<1>a. ASSUME pc[c] = "Wait" PROVE oldest = 0 /\ tid = c /\ set # <<>> /\ set[1] = Signal
  BY <1>a, NoOldest
<1>2. CASE WaitQuiet(c) \/ WaitSignal(c)
  <2>1. /\ pc[c] = "Wait" /\ last' = Len(set)
        /\ UNCHANGED <<main, wsig, servers, open, box, set, tid, oldest>>
        /\ index' \in {index, First_Index}
    BY <1>2 DEF WaitQuiet, WaitSignal, WaitReturns
  <2>2. SetType' /\ SetInv' /\ OldestInv'
    BY <1>a, <2>1 DEF ScanInv, SetType, SetInv, OldestInv, First_Index
  <2> QED BY <2>1, <2>2, PhaseKept DEF ScanInv
<1>3. CASE WaitShutdown(c)
  <2>1. /\ pc[c] = "Wait" /\ last' = Len(set) /\ set' = <<>> /\ servers' = {} /\ tid' = None
        /\ UNCHANGED <<main, wsig, open, box, index, oldest>>
    BY <1>3 DEF WaitShutdown, WaitReturns, Shutdown_Internal, ClearSet
  <2>2. PICK r \in PollResults : SignalLost(r[1])
    BY <1>3 DEF WaitShutdown
  <2>3. ~wsig
    BY <1>a, <2>1, <2>2, LostMeansClosed
  <2>4. SetType' /\ SetInv' /\ OldestInv'
    BY <1>a, <2>1 DEF ScanInv, SetType, SetInv, OldestInv
  <2>5. PhaseInv'
    BY <2>1, <2>3 DEF ScanInv, PhaseInv
  <2> QED BY <2>4, <2>5 DEF ScanInv
<1>4. CASE WaitClose(c)
  <2>1. UNCHANGED <<main, wsig, servers, open, box, set, index, last, oldest, tid, pc>>
    BY <1>4 DEF WaitClose
  <2> QED BY <2>1, ScanKept, PhaseKept DEF ScanInv
<1>5. CASE WaitFails(c)
  <2>1. /\ UNCHANGED <<main, wsig, servers, open, box, set, index, last, oldest, tid>>
        /\ pc[c] = "Wait" /\ Goto(c, "Scan")
    BY <1>5 DEF WaitFails
  <2>2. \A d \in Callers : pc[d] = "Scan" => pc'[d] = "Scan"
    BY <2>1 DEF Goto, BoxInv, BoxType
  <2> QED BY <2>1, <2>2, ScanKept, PhaseKept DEF ScanInv
<1> QED BY <1>1, <1>2, <1>3, <1>4, <1>5 DEF WaitStep

\* The rest of what a caller does.
LEMMA CallerScan ==
  ASSUME BoxInv, ScanInv, NEW c \in Callers,
         Fetch(c) \/ FetchEnds(c) \/ Flush(c) \/ Give_Back(c) \/ Close(c)
  PROVE  ScanInv'
<1> USE DEF boxVars, shutVars, setVars, getVars
<1>1. CASE Fetch(c)
  <2>1. /\ pc[c] = "Fetch" /\ box # <<>> /\ box' = Tail(box)
        /\ UNCHANGED <<main, wsig, servers, open, index, last, oldest>>
    BY <1>1 DEF Fetch
  <2>2. oldest = 0 /\ tid = c /\ set # <<>>
    BY <2>1, NoOldest
  <2>3. SetType' /\ SetInv' /\ OldestInv' /\ set' # <<>>
    <3>1. CASE Head(box) = None
      BY <1>1, <2>1, <2>2, <3>1 DEF Fetch, ScanInv, SetType, SetInv, OldestInv
    <3>2. CASE Head(box) # None
      <4>1. set' = Append(set, Head(box)) /\ Head(box) \in Socks
        BY <1>1, <2>1, <3>2, HeadTailProperties DEF Fetch, BoxInv, BoxType
      <4> QED BY <2>1, <2>2, <4>1, AppendScan
    <3> QED BY <3>1, <3>2
  <2>4. ~open => \A i \in DOMAIN box' : box'[i] = None
    <3> SUFFICES ASSUME ~open, NEW i \in DOMAIN box' PROVE box'[i] = None
      OBVIOUS
    <3>1. i + 1 \in DOMAIN box /\ box'[i] = box[i + 1]
      BY <2>1 DEF BoxInv, BoxType
    <3> QED BY <3>1 DEF ScanInv, PhaseInv
  <2>5. PhaseInv'
    BY <2>1, <2>2, <2>3, <2>4 DEF ScanInv, PhaseInv
  <2> QED BY <2>3, <2>5 DEF ScanInv
<1>2. CASE FetchEnds(c)
  <2>1. /\ UNCHANGED <<main, wsig, servers, open, box, set, last, tid, oldest>>
        /\ pc[c] = "Fetch" /\ index' = First_Index
    BY <1>2 DEF FetchEnds
  <2>2. oldest = 0 /\ set # <<>>
    BY <2>1, NoOldest
  <2> QED BY <2>1, <2>2, ScanReset, PhaseKept DEF ScanInv
<1>3. CASE Flush(c) \/ Close(c)
  <2>1. UNCHANGED <<main, wsig, servers, open, box, set, index, last, oldest, tid>>
    BY <1>3 DEF Flush, Close
  <2>2. \A d \in Callers : pc[d] = "Scan" => pc'[d] = "Scan"
    BY <1>3 DEF Flush, Close, Goto, BoxInv, BoxType
  <2> QED BY <2>1, <2>2, ScanKept, PhaseKept DEF ScanInv
<1>4. CASE Give_Back(c)
  <2>1. UNCHANGED <<main, wsig, servers, open, set, index, last, oldest, tid, pc>> /\ open
    BY <1>4 DEF Give_Back, BoxOpen, BoxAdd
  <2>2. PhaseInv'
    BY <2>1 DEF ScanInv, PhaseInv
  <2> QED BY <2>1, <2>2, ScanKept DEF ScanInv
<1> QED BY <1>1, <1>2, <1>3, <1>4

\* The network, Add_Listening and Shutdown.
LEMMA OtherScan ==
  ASSUME BoxInv, ScanInv,
         \/ \E s \in Socks : Arrives(s) \/ Fails(s)
         \/ \E e \in Extra : Add_Listening(e) \/ AddServer(e)
         \/ BoxShutdown \/ MainStep
  PROVE  ScanInv'
<1> USE DEF boxVars, shutVars, setVars, getVars
<1>1. CASE \E s \in Socks : Arrives(s) \/ Fails(s)
  <2>1. UNCHANGED <<main, wsig, servers, open, box, set, index, last, oldest, tid, pc>>
    BY <1>1 DEF Arrives, Fails
  <2> QED BY <2>1, ScanKept, PhaseKept DEF ScanInv
<1>2. ASSUME NEW e \in Extra, Add_Listening(e) PROVE ScanInv'
  <2>1. UNCHANGED <<main, wsig, servers, open, set, index, last, oldest, tid, pc>>
    BY <1>2 DEF Add_Listening, BoxAdd
  <2>2. open \/ box' = box
    BY <1>2 DEF Add_Listening
  <2>3. PhaseInv'
    BY <2>1, <2>2 DEF ScanInv, PhaseInv
  <2> QED BY <2>1, <2>3, ScanKept DEF ScanInv
<1>3. ASSUME NEW e \in Extra, AddServer(e) PROVE ScanInv'
  <2>1. /\ UNCHANGED <<main, wsig, open, box, set, index, last, oldest, tid, pc>>
        /\ servers' = servers \cup {e}
    BY <1>3 DEF AddServer
  <2>2. servers' \in SUBSET Listeners /\ servers' # {}
    BY <2>1 DEF ScanInv, PhaseInv, Listeners
  <2>3. PhaseInv'
    BY <2>1, <2>2 DEF ScanInv, PhaseInv
  <2> QED BY <2>1, <2>3, ScanKept DEF ScanInv
<1>4. CASE BoxShutdown
  <2>1. /\ UNCHANGED <<wsig, servers, set, index, last, oldest, tid, pc>>
        /\ main = "Up" /\ main' = "CloseSignal" /\ open' = FALSE
        /\ box' = [i \in DOMAIN box |-> None]
    BY <1>4 DEF BoxShutdown, BoxFreed
  <2>2. PhaseInv'
    BY <2>1 DEF ScanInv, PhaseInv, MainPoints
  <2> QED BY <2>1, <2>2, ScanKept DEF ScanInv
<1>5. CASE CloseSignal
  <2>1. /\ UNCHANGED <<open, box, servers, set, index, last, oldest, tid, pc>>
        /\ main = "CloseSignal" /\ main' = "Try" /\ wsig' = FALSE
    BY <1>5 DEF CloseSignal
  <2>2. PhaseInv'
    BY <2>1 DEF ScanInv, PhaseInv, MainPoints
  <2> QED BY <2>1, <2>2, ScanKept DEF ScanInv
<1>6. CASE TryDirect
  <2>1. /\ UNCHANGED <<open, box, wsig, index, last, oldest, tid, pc>>
        /\ main = "Try" /\ main' = "Done" /\ set' = <<>> /\ servers' = {} /\ tid = None
    BY <1>6 DEF TryDirect, Shutdown_Internal, ClearSet, SemaphoreFree
  <2>2. PhaseInv'
    BY <2>1 DEF ScanInv, PhaseInv, MainPoints
  <2>3. oldest = 0
    BY <2>1, SocketAssumption DEF ScanInv, SetType, OldestInv, BoxInv, Exclusion, InGet
  <2>4. SetType' /\ SetInv' /\ OldestInv'
    BY <2>1, <2>3 DEF ScanInv, SetType, SetInv, OldestInv
  <2> QED BY <2>2, <2>4 DEF ScanInv
<1>7. CASE TryBusy \/ WaitEmpty \/ WaitEmptyExpires
  <2>1. UNCHANGED <<open, box, wsig, servers, set, index, last, oldest, tid, pc>>
    BY <1>7 DEF TryBusy, WaitEmpty, WaitEmptyExpires
  <2>2. PhaseInv'
    BY <1>7, <2>1 DEF TryBusy, WaitEmpty, WaitEmptyExpires, ScanInv, PhaseInv, MainPoints
  <2> QED BY <2>1, <2>2, ScanKept DEF ScanInv
<1> QED BY <1>1, <1>2, <1>3, <1>4, <1>5, <1>6, <1>7 DEF MainStep

LEMMA ScanInit == Init => ScanInv
<1> SUFFICES ASSUME Init PROVE ScanInv
  OBVIOUS
<1>1. Server \in Socks /\ servers = {Server} /\ Server \in Listeners
  BY DEF Init, Socks, Listeners
<1>2. set \in Seq(Socks \cup {Signal}) /\ Len(set) = 2 /\ set[1] = Signal /\ set # <<>>
  BY <1>1 DEF Init
<1>3. SetType /\ SetInv /\ OldestInv
  BY <1>2 DEF Init, SetType, SetInv, OldestInv, First_Index
<1>4. PhaseInv
  BY <1>1, <1>2 DEF Init, PhaseInv, MainPoints
<1> QED BY <1>3, <1>4 DEF ScanInv

LEMMA ScanNext == BoxInv /\ ScanInv /\ [Next]_vars => ScanInv'
<1> SUFFICES ASSUME BoxInv, ScanInv, [Next]_vars PROVE ScanInv'
  OBVIOUS
<1>1. CASE UNCHANGED vars
  <2>1. UNCHANGED <<main, wsig, servers, open, box, set, index, last, oldest, tid, pc>>
    BY <1>1 DEF vars, setVars, getVars, boxVars, shutVars
  <2> QED BY <2>1, ScanKept, PhaseKept DEF ScanInv
<1>2. CASE \E c \in Callers : CallerStep(c) \/ WaitFails(c)
  BY <1>2, ExamineScan, WaitScan, CallerScan DEF CallerStep, GetStep
<1>3. CASE \/ \E s \in Socks : Arrives(s) \/ Fails(s)
           \/ \E e \in Extra : Add_Listening(e) \/ AddServer(e)
           \/ BoxShutdown \/ MainStep
  BY <1>3, OtherScan
<1> QED BY <1>1, <1>2, <1>3 DEF Next

-----------------------------------------------------------------------------
LEMMA ScanInvariance == Spec => [](BoxInv /\ ScanInv)
BY BoxInvInit, BoxInvNext, ScanInit, ScanNext, PTL DEF Spec

\* Get reads and removes only slots of the set, never the signalling socket,
\* and closes as the oldest a connection this scan has looked at, although
\* every removal moves the last socket to another index.
THEOREM ScanStaysInRange == Spec => []ScanInRange
<1>1. BoxInv /\ ScanInv => ScanInRange
  BY DEF ScanInv, SetType, SetInv, OldestInv, ScanInRange
<1> QED BY <1>1, ScanInvariance, PTL

\* Give_Back succeeds only while both ends of the signalling pair are open.
THEOREM GivenBackIsSeen == Spec => []OpenIsReachable
<1>1. BoxInv /\ ScanInv => OpenIsReachable
  BY DEF ScanInv, PhaseInv, OpenIsReachable
<1> QED BY <1>1, ScanInvariance, PTL

\* When Shutdown returns, whoever cleared the set, nothing is left in the set
\* or in the box.
THEOREM ShutdownLeavesNothing == Spec => []ShutdownClears
<1>1. BoxInv /\ ScanInv => ShutdownClears
  BY DEF ScanInv, PhaseInv, ShutdownClears
<1> QED BY <1>1, ScanInvariance, PTL

-----------------------------------------------------------------------------
(***************************************************************************)
(* Every socket has one owner, the types, and the refinement of            *)
(* AcceptorAbs; for any sets of callers, connections and listening         *)
(* sockets, any Back_Queue_Size, Close_Length and buffer.                  *)
(***************************************************************************)

(***************************************************************************)
(* Who holds what.  A holder is the set, the box, a task with a connection *)
(* or a task's To_Close list; the last two are named by the task.          *)
(***************************************************************************)
Holders == {"set", "box", "task", "close"} \X (Callers \cup {None})

TheSet == <<"set", None>>
TheBox == <<"box", None>>
Task(c) == <<"task", c>>
ToClose(c) == <<"close", c>>

HeldBy(q, b, g, t) ==
  [h \in Holders |->
     IF h = TheSet THEN Elems(q) \ {Signal}
     ELSE IF h = TheBox THEN Elems(b) \ {None}
     ELSE IF h[1] = "task" /\ h[2] \in Callers THEN {g[h[2]]} \ {None}
     ELSE IF h[1] = "close" /\ h[2] \in Callers THEN Elems(t[h[2]])
     ELSE {}]

Held == HeldBy(set, box, got, toClose)

Owned == {s \in alive : ~Leaked(s)}

\* H gives every socket of O, and nothing else, to exactly one holder.
Partition(H, O) ==
  /\ \A g, h \in Holders : g # h => H[g] \cap H[h] = {}
  /\ O = UNION {H[h] : h \in Holders}

\* No socket is twice in a sequence; null sockets may be.
NoDup(q) == \A i, j \in DOMAIN q : q[i] = q[j] /\ q[i] # None => i = j

OwnType ==
  /\ toClose \in [Callers -> Seq(Clients)]
  /\ adding \in [Extra -> {"No", "Boxed", "Done", "Failed"}]
  /\ alive \in SUBSET Socks

NoDups == NoDup(set) /\ NoDup(box) /\ \A c \in Callers : NoDup(toClose[c])

\* A task enters Get without a connection.
GotInv == \A c \in Callers : pc[c] \in InGet => got[c] = None

\* A listening socket is created by Add_Listening.
NotYet == \A e \in Extra : adding[e] = "No" => e \notin alive

OwnInv == OwnType /\ Partition(Held, Owned) /\ NoDups /\ GotInv /\ NotYet

Inv == BoxInv /\ ScanInv /\ OwnInv

-----------------------------------------------------------------------------
(***************************************************************************)
(* Partitions.                                                             *)
(***************************************************************************)

\* A socket changes hands.
LEMMA PartitionMove ==
  ASSUME NEW H, NEW O, Partition(H, O), NEW K,
         NEW a \in Holders, NEW b \in Holders, a # b, NEW s \in H[a],
         K[a] = H[a] \ {s}, K[b] = H[b] \cup {s},
         \A h \in Holders \ {a, b} : K[h] = H[h]
  PROVE  Partition(K, O)
<1>1. \A g, h \in Holders : g # h => H[g] \cap H[h] = {}
  BY DEF Partition
<1>2. \A h \in Holders \ {a} : s \notin H[h]
  BY <1>1
<1>3. \A g, h \in Holders : g # h => K[g] \cap K[h] = {}
  BY <1>1, <1>2
<1>4. O = UNION {K[h] : h \in Holders}
  <2>1. \A x : x \in O <=> \E h \in Holders : x \in H[h]
    BY DEF Partition
  <2>2. \A x : (\E h \in Holders : x \in H[h]) => \E h \in Holders : x \in K[h]
    OBVIOUS
  <2>3. \A x : (\E h \in Holders : x \in K[h]) => \E h \in Holders : x \in H[h]
    OBVIOUS
  <2> QED BY <2>1, <2>2, <2>3
<1> QED BY <1>3, <1>4 DEF Partition

\* A new socket comes to a holder.
LEMMA PartitionJoin ==
  ASSUME NEW H, NEW O, Partition(H, O), NEW K, NEW P, NEW b \in Holders, NEW s,
         s \notin O, K[b] = H[b] \cup {s}, P = O \cup {s},
         \A h \in Holders \ {b} : K[h] = H[h]
  PROVE  Partition(K, P)
<1>1. \A g, h \in Holders : g # h => H[g] \cap H[h] = {}
  BY DEF Partition
<1>2. \A h \in Holders : s \notin H[h]
  BY DEF Partition
<1>3. \A g, h \in Holders : g # h => K[g] \cap K[h] = {}
  BY <1>1, <1>2
<1>4. P = UNION {K[h] : h \in Holders}
  <2>1. \A x : x \in O <=> \E h \in Holders : x \in H[h]
    BY DEF Partition
  <2>2. \A x : x \in P => \E h \in Holders : x \in K[h]
    BY <2>1
  <2>3. \A x : (\E h \in Holders : x \in K[h]) => x \in P
    BY <2>1
  <2> QED BY <2>2, <2>3
<1> QED BY <1>3, <1>4 DEF Partition

\* Nothing changes hands.
LEMMA PartitionKept ==
  ASSUME NEW H, NEW O, Partition(H, O), NEW K, \A h \in Holders : K[h] = H[h]
  PROVE  Partition(K, O)
BY DEF Partition

-----------------------------------------------------------------------------
(***************************************************************************)
(* Sequences without duplicates.                                           *)
(***************************************************************************)
With(q, s) == Append(q, s)

LEMMA AppendNoDup ==
  ASSUME NEW S, NEW q \in Seq(S), NEW s \in S, NEW r, r = With(q, s),
         NoDup(q), s \notin Elems(q)
  PROVE  r \in Seq(S) /\ NoDup(r) /\ Elems(r) = Elems(q) \cup {s}
<1>1. PICK n \in Nat : n = Len(q) /\ DOMAIN q = 1 .. n
  OBVIOUS
<1>2. /\ r \in Seq(S) /\ DOMAIN r = 1 .. n + 1 /\ r[n + 1] = s
      /\ \A i \in 1 .. n : r[i] = q[i]
  BY <1>1 DEF With
<1>3. \A i \in 1 .. n : q[i] # s
  BY <1>1 DEF Elems
<1>4. NoDup(r)
  <2> SUFFICES ASSUME NEW i \in 1 .. n + 1, NEW j \in 1 .. n + 1, r[i] = r[j], r[i] # None
               PROVE  i = j
    BY <1>2 DEF NoDup
  <2>1. CASE i \in 1 .. n /\ j \in 1 .. n
    BY <1>1, <1>2, <2>1 DEF NoDup
  <2>2. CASE i = n + 1 \/ j = n + 1
    BY <1>2, <1>3, <2>2
  <2> QED BY <2>1, <2>2
<1>5. Elems(r) = Elems(q) \cup {s}
  <2>1. \A x : x \in Elems(r) => x \in Elems(q) \cup {s}
    BY <1>1, <1>2 DEF Elems
  <2>2. \A x \in Elems(q) : x \in Elems(r)
    <3> SUFFICES ASSUME NEW i \in 1 .. n PROVE q[i] \in Elems(r)
      BY <1>1 DEF Elems
    <3>1. i \in 1 .. n + 1 /\ r[i] = q[i]
      BY <1>2
    <3> QED BY <1>2, <3>1 DEF Elems
  <2>3. s \in Elems(r)
    <3>1. n + 1 \in 1 .. n + 1
      OBVIOUS
    <3> QED BY <1>2, <3>1 DEF Elems
  <2> QED BY <2>1, <2>2, <2>3
<1> QED BY <1>2, <1>4, <1>5

LEMMA TailNoDup ==
  ASSUME NEW S, NEW q \in Seq(S), q # <<>>, NEW r, r = Tail(q), NoDup(q)
  PROVE  /\ r \in Seq(S) /\ NoDup(r) /\ Head(q) \in Elems(q)
         /\ Elems(r) \ {None} = (Elems(q) \ {None}) \ {Head(q)}
<1>1. PICK n \in Nat : n = Len(q) /\ DOMAIN q = 1 .. n /\ n >= 1
  OBVIOUS
<1>2. PICK m \in Nat : m = n - 1
  BY <1>1
<1>3. /\ r \in Seq(S) /\ DOMAIN r = 1 .. m /\ Head(q) = q[1]
      /\ \A i \in 1 .. m : r[i] = q[i + 1]
  BY <1>1, <1>2, HeadTailProperties
<1>4. NoDup(r)
  <2> SUFFICES ASSUME NEW i \in 1 .. m, NEW j \in 1 .. m, r[i] = r[j], r[i] # None
               PROVE  i = j
    BY <1>3 DEF NoDup
  <2>1. i + 1 \in 1 .. n /\ j + 1 \in 1 .. n /\ q[i + 1] = q[j + 1] /\ q[i + 1] # None
    BY <1>2, <1>3
  <2>2. i + 1 = j + 1
    BY <1>1, <2>1 DEF NoDup
  <2> QED BY <2>2
<1>5. Head(q) \in Elems(q)
  BY <1>1, <1>3 DEF Elems
<1>6. \A x \in Elems(r) \ {None} : x \in Elems(q) /\ x # Head(q)
  <2> SUFFICES ASSUME NEW i \in 1 .. m, r[i] # None
               PROVE  r[i] \in Elems(q) /\ r[i] # Head(q)
    BY <1>3 DEF Elems
  <2>1. i + 1 \in 1 .. n /\ r[i] = q[i + 1] /\ i + 1 # 1 /\ 1 \in 1 .. n
    BY <1>1, <1>2, <1>3
  <2>2. q[i + 1] # q[1]
    BY <1>1, <2>1 DEF NoDup
  <2> QED BY <1>1, <1>3, <2>1, <2>2 DEF Elems
<1>7. \A x \in Elems(q) : x # Head(q) => x \in Elems(r)
  <2> SUFFICES ASSUME NEW i \in 1 .. n, q[i] # q[1] PROVE q[i] \in Elems(r)
    BY <1>1, <1>3 DEF Elems
  <2>1. PICK k \in 1 .. m : i = k + 1
    <3>1. i - 1 \in 1 .. m /\ i = (i - 1) + 1
      BY <1>2
    <3> QED BY <3>1
  <2> QED BY <1>3, <2>1 DEF Elems
<1> QED BY <1>3, <1>4, <1>5, <1>6, <1>7

LEMMA WithoutNoDup ==
  ASSUME NEW S, None \notin S, NEW q \in Seq(S), NEW i \in 1 .. Len(q), NEW r,
         r = Without(q, i), NoDup(q)
  PROVE  /\ r \in Seq(S) /\ NoDup(r) /\ q[i] \in Elems(q)
         /\ Elems(r) = Elems(q) \ {q[i]}
<1>1. PICK n \in Nat : n = Len(q) /\ DOMAIN q = 1 .. n /\ n >= 1 /\ i \in 1 .. n
  OBVIOUS
<1>2. PICK m \in Nat : m = n - 1
  BY <1>1
<1>b. /\ r \in Seq(S) /\ Len(r) = Len(q) - 1
      /\ \A j \in 1 .. Len(r) : r[j] = IF j = i THEN q[Len(q)] ELSE q[j]
  BY RemovedSeq
<1>c. Len(r) = m /\ DOMAIN r = 1 .. m
  BY <1>1, <1>2, <1>b
<1>3. /\ r \in Seq(S) /\ DOMAIN r = 1 .. m
      /\ \A j \in 1 .. m : r[j] = IF j = i THEN q[n] ELSE q[j]
  BY <1>1, <1>b, <1>c
<1>4. \A j, k \in 1 .. n : q[j] = q[k] => j = k
  BY <1>1 DEF NoDup
<1>a. \A j \in 1 .. m : j \in 1 .. n /\ j # n
  BY <1>1, <1>2
<1>5. NoDup(r)
  <2> SUFFICES ASSUME NEW j \in 1 .. m, NEW k \in 1 .. m, r[j] = r[k]
               PROVE  j = k
    BY <1>3 DEF NoDup
  <2>1. n \in 1 .. n
    BY <1>1
  <2> QED BY <1>3, <1>4, <1>a, <2>1
<1>6. q[i] \in Elems(q)
  BY <1>1 DEF Elems
<1>7. \A x \in Elems(r) : x \in Elems(q) /\ x # q[i]
  <2> SUFFICES ASSUME NEW j \in 1 .. m PROVE r[j] \in Elems(q) /\ r[j] # q[i]
    BY <1>3 DEF Elems
  <2>1. PICK k \in 1 .. n : r[j] = q[k] /\ k # i
    <3>1. CASE j = i
      BY <1>1, <1>3, <1>a, <3>1
    <3>2. CASE j # i
      BY <1>3, <1>a, <3>2
    <3> QED BY <3>1, <3>2
  <2> QED BY <1>1, <1>4, <2>1 DEF Elems
<1>8. \A x \in Elems(q) : x # q[i] => x \in Elems(r)
  <2> SUFFICES ASSUME NEW k \in 1 .. n, q[k] # q[i] PROVE q[k] \in Elems(r)
    BY <1>1 DEF Elems
  <2>1. CASE k = n
    <3>1. i \in 1 .. m /\ r[i] = q[k]
      BY <1>1, <1>2, <1>3, <2>1
    <3> QED BY <1>3, <3>1 DEF Elems
  <2>2. CASE k # n
    <3>1. k \in 1 .. m /\ r[k] = q[k]
      BY <1>1, <1>2, <1>3, <2>2
    <3> QED BY <1>3, <3>1 DEF Elems
  <2> QED BY <2>1, <2>2
<1> QED BY <1>3, <1>5, <1>6, <1>7, <1>8

-----------------------------------------------------------------------------
(***************************************************************************)
(* The holders.                                                            *)
(***************************************************************************)
LEMMA HolderFacts ==
  /\ TheSet \in Holders /\ TheBox \in Holders /\ TheSet # TheBox
  /\ \A c \in Callers :
       /\ Task(c) \in Holders /\ ToClose(c) \in Holders /\ Task(c) # ToClose(c)
       /\ Task(c) \notin {TheSet, TheBox} /\ ToClose(c) \notin {TheSet, TheBox}
  /\ \A c, d \in Callers :
       c # d => Task(c) # Task(d) /\ ToClose(c) # ToClose(d) /\ Task(c) # ToClose(d)
BY DEF Holders, TheSet, TheBox, Task, ToClose

LEMMA HeldFacts ==
  ASSUME NEW q, NEW b, NEW g, NEW t
  PROVE  /\ HeldBy(q, b, g, t)[TheSet] = Elems(q) \ {Signal}
         /\ HeldBy(q, b, g, t)[TheBox] = Elems(b) \ {None}
         /\ \A c \in Callers :
              /\ HeldBy(q, b, g, t)[Task(c)] = {g[c]} \ {None}
              /\ HeldBy(q, b, g, t)[ToClose(c)] = Elems(t[c])
<1>1. \A c \in Callers : /\ Task(c)[1] = "task" /\ Task(c)[2] = c
                         /\ ToClose(c)[1] = "close" /\ ToClose(c)[2] = c
  BY DEF Task, ToClose
<1> QED BY <1>1, HolderFacts DEF HeldBy

\* A holder whose variable does not change holds the same.
LEMMA OthersKeep ==
  ASSUME NEW X, set' = set \/ TheSet \in X, box' = box \/ TheBox \in X,
         \A d \in Callers : got'[d] = got[d] \/ Task(d) \in X,
         \A d \in Callers : toClose'[d] = toClose[d] \/ ToClose(d) \in X
  PROVE  \A h \in Holders \ X : Held'[h] = Held[h]
<1> SUFFICES ASSUME NEW h \in Holders \ X PROVE Held'[h] = Held[h]
  OBVIOUS
<1>1. CASE h = TheSet \/ h = TheBox
  BY <1>1 DEF Held, HeldBy
<1>2. CASE h \notin {TheSet, TheBox} /\ h[1] = "task" /\ h[2] \in Callers
  <2>1. h = Task(h[2])
    BY <1>2 DEF Holders, Task
  <2>2. got'[h[2]] = got[h[2]]
    BY <1>2, <2>1
  <2> QED BY <1>2, <2>2 DEF Held, HeldBy
<1>3. CASE h \notin {TheSet, TheBox} /\ h[1] = "close" /\ h[2] \in Callers
  <2>1. h = ToClose(h[2])
    BY <1>3 DEF Holders, ToClose
  <2>2. toClose'[h[2]] = toClose[h[2]]
    BY <1>3, <2>1
  <2> QED BY <1>3, <2>2 DEF Held, HeldBy
<1>4. CASE ~(h = TheSet \/ h = TheBox) /\ ~(h[1] \in {"task", "close"} /\ h[2] \in Callers)
  BY <1>4 DEF Held, HeldBy
<1> QED BY <1>1, <1>2, <1>3, <1>4

\* What the holders hold is allocated and is a socket.
LEMMA HeldIsOwned ==
  ASSUME OwnInv
  PROVE  /\ \A h \in Holders : \A s \in Held[h] : s \in Owned /\ s \in alive /\ s \in Socks
         /\ \A g, h \in Holders : \A s \in Held[g] : s \in Held[h] => g = h
<1>1. \A h \in Holders : \A s \in Held[h] : s \in Owned
  BY DEF OwnInv, Partition
<1>2. Owned \subseteq Socks /\ Owned \subseteq alive
  BY DEF Owned, OwnInv, OwnType
<1>3. \A g, h \in Holders : g # h => Held[g] \cap Held[h] = {}
  BY DEF OwnInv, Partition
<1> QED BY <1>1, <1>2, <1>3

LEMMA HeldNow ==
  /\ Held[TheSet] = Elems(set) \ {Signal}
  /\ Held[TheBox] = Elems(box) \ {None}
  /\ \A c \in Callers : /\ Held[Task(c)] = {got[c]} \ {None}
                        /\ Held[ToClose(c)] = Elems(toClose[c])
BY HeldFacts DEF Held

LEMMA HeldThen ==
  /\ Held'[TheSet] = Elems(set') \ {Signal}
  /\ Held'[TheBox] = Elems(box') \ {None}
  /\ \A c \in Callers : /\ Held'[Task(c)] = {got'[c]} \ {None}
                        /\ Held'[ToClose(c)] = Elems(toClose'[c])
BY HeldFacts DEF Held

-----------------------------------------------------------------------------
(***************************************************************************)
(* What each kind of step does to the owners.                              *)
(***************************************************************************)

\* No socket changes hands.
LEMMA OwnKept ==
  ASSUME OwnInv, UNCHANGED <<set, box, got, toClose, alive>>, Owned' = Owned,
         adding' \in [Extra -> {"No", "Boxed", "Done", "Failed"}], GotInv', NotYet'
  PROVE  OwnInv'
<1>1. \A h \in Holders : Held'[h] = Held[h]
  <2>1. \A h \in Holders \ {} : Held'[h] = Held[h]
    BY OthersKeep
  <2> QED BY <2>1
<1>2. Partition(Held', Owned)
  BY <1>1, PartitionKept DEF OwnInv
<1>3. Partition(Held, Owned)'
  BY <1>2 DEF Partition
<1> QED BY <1>3 DEF OwnInv, OwnType, NoDups

\* The task in Get takes socket i out of the set, to close it.
LEMMA OwnToClose ==
  ASSUME Inv, NEW c \in Callers, NEW i \in 1 .. Len(set), set[i] \in Clients,
         set' = Without(set, i), toClose' = [toClose EXCEPT ![c] = Append(@, set[i])],
         UNCHANGED <<box, got, alive, adding>>, GotInv'
  PROVE  OwnInv'
<1>1. PICK s \in Clients : s = set[i]
  OBVIOUS
<1>2. s # Signal /\ s # None /\ None \notin Socks \cup {Signal}
  BY SocketAssumption DEF Socks
<1>3. set \in Seq(Socks \cup {Signal}) /\ NoDup(set) /\ toClose \in [Callers -> Seq(Clients)]
  BY DEF Inv, ScanInv, SetType, OwnInv, NoDups, OwnType
<1>4. /\ set' \in Seq(Socks \cup {Signal}) /\ NoDup(set') /\ s \in Elems(set)
      /\ Elems(set') = Elems(set) \ {s}
  BY <1>1, <1>2, <1>3, WithoutNoDup
<1>5. s \in Held[TheSet]
  BY <1>2, <1>4, HeldNow
<1>6. s \notin Held[ToClose(c)]
  BY <1>5, HeldIsOwned, HolderFacts DEF Inv
<1>7. s \notin Elems(toClose[c]) /\ NoDup(toClose[c]) /\ toClose[c] \in Seq(Clients)
  BY <1>3, <1>6, HeldNow DEF Inv, OwnInv, NoDups
<1>8. /\ toClose'[c] = Append(toClose[c], s)
      /\ \A d \in Callers : d # c => toClose'[d] = toClose[d]
  BY <1>1, <1>3
<1>9. /\ toClose'[c] \in Seq(Clients) /\ NoDup(toClose'[c])
      /\ Elems(toClose'[c]) = Elems(toClose[c]) \cup {s}
  <2>1. PICK q \in Seq(Clients) : q = toClose[c] /\ NoDup(q) /\ s \notin Elems(q)
    BY <1>7
  <2>2. PICK r : r = toClose'[c] /\ r = With(q, s)
    BY <1>8, <2>1 DEF With
  <2>3. r \in Seq(Clients)
    BY <1>1, <2>1, <2>2, AppendNoDup
  <2>4. NoDup(r)
    BY <1>1, <2>1, <2>2, AppendNoDup
  <2>5. Elems(r) = Elems(q) \cup {s}
    BY <1>1, <2>1, <2>2, AppendNoDup
  <2> QED BY <2>1, <2>2, <2>3, <2>4, <2>5
<1>10. Partition(Held', Owned)
  <2>1. Held'[TheSet] = Held[TheSet] \ {s}
    BY <1>2, <1>4, HeldNow, HeldThen
  <2>2. Held'[ToClose(c)] = Held[ToClose(c)] \cup {s}
    BY <1>9, HeldNow, HeldThen
  <2>3. \A h \in Holders \ {TheSet, ToClose(c)} : Held'[h] = Held[h]
    BY <1>8, OthersKeep
  <2>4. PICK a \in Holders, b \in Holders : a = TheSet /\ b = ToClose(c) /\ a # b
    BY HolderFacts
  <2> QED BY <1>5, <2>1, <2>2, <2>3, <2>4, PartitionMove DEF Inv, OwnInv
<1>11. Partition(Held, Owned)'
  <2>1. Owned' = Owned
    BY DEF Owned, Leaked
  <2> QED BY <1>10, <2>1 DEF Partition
<1>12. OwnType'
  BY <1>3, <1>8, <1>9 DEF Inv, OwnInv, OwnType
<1>13. NoDups'
  BY <1>4, <1>8, <1>9 DEF Inv, OwnInv, NoDups
<1> QED BY <1>11, <1>12, <1>13 DEF Inv, OwnInv, NotYet

\* The task in Get takes socket i out of the set and returns it.
LEMMA OwnToTask ==
  ASSUME Inv, NEW c \in Callers, NEW i \in 1 .. Len(set), set[i] \in Clients,
         set' = Without(set, i), got[c] = None, got' = [got EXCEPT ![c] = set[i]],
         UNCHANGED <<box, toClose, alive, adding>>, GotInv'
  PROVE  OwnInv'
<1>1. PICK s \in Clients : s = set[i]
  OBVIOUS
<1>2. s # Signal /\ s # None /\ None \notin Socks \cup {Signal}
  BY SocketAssumption DEF Socks
<1>3. set \in Seq(Socks \cup {Signal}) /\ NoDup(set) /\ got \in [Callers -> Clients \cup {None}]
  BY DEF Inv, ScanInv, SetType, OwnInv, NoDups, BoxInv, BoxType
<1>4. /\ set' \in Seq(Socks \cup {Signal}) /\ NoDup(set') /\ s \in Elems(set)
      /\ Elems(set') = Elems(set) \ {s}
  BY <1>1, <1>2, <1>3, WithoutNoDup
<1>5. got'[c] = s /\ \A d \in Callers : d # c => got'[d] = got[d]
  BY <1>1, <1>3
<1>6. Partition(Held', Owned)
  <2>1. Held'[TheSet] = Held[TheSet] \ {s} /\ s \in Held[TheSet]
    BY <1>2, <1>4, HeldNow, HeldThen
  <2>2. Held'[Task(c)] = Held[Task(c)] \cup {s}
    BY <1>2, <1>5, HeldNow, HeldThen
  <2>3. \A h \in Holders \ {TheSet, Task(c)} : Held'[h] = Held[h]
    BY <1>5, OthersKeep
  <2>4. PICK a \in Holders, b \in Holders : a = TheSet /\ b = Task(c) /\ a # b
    BY HolderFacts
  <2> QED BY <2>1, <2>2, <2>3, <2>4, PartitionMove DEF Inv, OwnInv
<1>7. Partition(Held, Owned)'
  <2>1. Owned' = Owned
    BY DEF Owned, Leaked
  <2> QED BY <1>6, <2>1 DEF Partition
<1>8. OwnType' /\ NoDups'
  BY <1>4 DEF Inv, OwnInv, OwnType, NoDups
<1> QED BY <1>7, <1>8 DEF Inv, OwnInv, NotYet

\* A connection is accepted.
LEMMA OwnAccept ==
  ASSUME Inv, NEW s \in Clients, s \notin alive, set' = With(set, s),
         alive' = alive \cup {s}, UNCHANGED <<box, got, toClose, adding>>, GotInv'
  PROVE  OwnInv'
<1>1. s # Signal /\ s # None /\ s \in Socks /\ s \notin Extra
  BY SocketAssumption DEF Socks, Listeners
<1>2. set \in Seq(Socks \cup {Signal}) /\ NoDup(set)
  BY DEF Inv, ScanInv, SetType, OwnInv, NoDups
<1>3. s \notin Elems(set)
  <2>1. s \notin Held[TheSet]
    BY HeldIsOwned, HolderFacts DEF Inv
  <2> QED BY <1>1, <2>1, HeldNow
<1>4. NoDup(set')
  BY <1>1, <1>2, <1>3, AppendNoDup
<1>5. Elems(set') = Elems(set) \cup {s}
  BY <1>1, <1>2, <1>3, AppendNoDup
<1>6. s \notin Owned /\ Owned' = Owned \cup {s}
  BY <1>1 DEF Owned, Leaked
<1>7. Partition(Held', Owned')
  <2>1. Held'[TheSet] = Held[TheSet] \cup {s}
    BY <1>1, <1>5, HeldNow, HeldThen
  <2>2. \A h \in Holders \ {TheSet} : Held'[h] = Held[h]
    BY OthersKeep
  <2>3. PICK a \in Holders : a = TheSet
    BY HolderFacts
  <2> QED BY <1>6, <2>1, <2>2, <2>3, PartitionJoin DEF Inv, OwnInv
<1>8. Partition(Held, Owned)'
  BY <1>7 DEF Partition
<1>9. OwnType' /\ NoDups'
  BY <1>1, <1>4 DEF Inv, OwnInv, OwnType, NoDups
<1>10. NotYet'
  BY <1>1 DEF Inv, OwnInv, NotYet
<1> QED BY <1>8, <1>9, <1>10 DEF OwnInv

\* A socket goes from the box to the set.
LEMMA OwnFetch ==
  ASSUME Inv, box # <<>>, box' = Tail(box),
         \/ Head(box) = None /\ UNCHANGED set
         \/ Head(box) # None /\ set' = With(set, Head(box)),
         UNCHANGED <<got, toClose, alive, adding>>, GotInv'
  PROVE  OwnInv'
<1>1. PICK s : s = Head(box)
  OBVIOUS
<1>2. /\ set \in Seq(Socks \cup {Signal}) /\ NoDup(set)
      /\ box \in Seq(Socks \cup {None}) /\ NoDup(box)
  BY DEF Inv, ScanInv, SetType, OwnInv, NoDups, BoxInv, BoxType
<1>3. /\ NoDup(box') /\ s \in Elems(box)
      /\ Elems(box') \ {None} = (Elems(box) \ {None}) \ {s}
  BY <1>1, <1>2, TailNoDup
<1>4. s \in Socks \cup {None}
  BY <1>1, <1>2, HeadTailProperties
<1>5. Held'[TheBox] = Held[TheBox] \ {s}
  BY <1>3, HeldNow, HeldThen
<1>6. Partition(Held', Owned) /\ NoDup(set')
  <2>1. CASE s = None
    <3>1. Held'[TheBox] = Held[TheBox] /\ set' = set
      BY <1>1, <1>5, <2>1, HeldNow
    <3>2. \A h \in Holders \ {TheBox} : Held'[h] = Held[h]
      BY <3>1, OthersKeep
    <3>3. \A h \in Holders : Held'[h] = Held[h]
      BY <3>1, <3>2
    <3> QED BY <1>2, <3>1, <3>3, PartitionKept DEF Inv, OwnInv
  <2>2. CASE s # None
    <3>1. s \in Held[TheBox] /\ s \in Socks /\ s # Signal /\ set' = With(set, s)
      BY <1>1, <1>3, <1>4, <2>2, HeldNow, SocketAssumption
    <3>2. s \notin Elems(set)
      <4>1. s \notin Held[TheSet]
        BY <3>1, HeldIsOwned, HolderFacts DEF Inv
      <4> QED BY <3>1, <4>1, HeldNow
    <3>3. NoDup(set')
      BY <1>2, <3>1, <3>2, AppendNoDup
    <3>4. Elems(set') = Elems(set) \cup {s}
      BY <1>2, <3>1, <3>2, AppendNoDup
    <3>5. Held'[TheSet] = Held[TheSet] \cup {s}
      BY <3>1, <3>4, HeldNow, HeldThen
    <3>6. \A h \in Holders \ {TheBox, TheSet} : Held'[h] = Held[h]
      BY OthersKeep
    <3>7. PICK a \in Holders, b \in Holders : a = TheBox /\ b = TheSet /\ a # b
      BY HolderFacts
    <3>8. Partition(Held', Owned)
      BY <1>5, <3>1, <3>5, <3>6, <3>7, PartitionMove DEF Inv, OwnInv
    <3> QED BY <3>3, <3>8
  <2> QED BY <2>1, <2>2
<1>7. Partition(Held, Owned)'
  <2>1. Owned' = Owned
    BY DEF Owned, Leaked
  <2> QED BY <1>6, <2>1 DEF Partition
<1>8. OwnType' /\ NoDups'
  BY <1>3, <1>6 DEF Inv, OwnInv, OwnType, NoDups
<1> QED BY <1>7, <1>8 DEF Inv, OwnInv, NotYet

\* A task gives its connection back.
LEMMA OwnGiveBack ==
  ASSUME Inv, NEW c \in Callers, got[c] # None, box' = With(box, got[c]),
         got' = [got EXCEPT ![c] = None],
         UNCHANGED <<set, toClose, alive, adding>>, GotInv'
  PROVE  OwnInv'
<1>1. /\ got \in [Callers -> Clients \cup {None}]
      /\ box \in Seq(Socks \cup {None}) /\ NoDup(box)
  BY DEF Inv, OwnInv, NoDups, BoxInv, BoxType
<1>2. PICK s : s = got[c] /\ s # None /\ s \in Clients /\ s \in Socks
  BY <1>1 DEF Socks
<1>3. s \in Held[Task(c)]
  BY <1>2, HeldNow
<1>4. s \notin Elems(box)
  <2>1. s \notin Held[TheBox]
    BY <1>3, HeldIsOwned, HolderFacts DEF Inv
  <2> QED BY <1>2, <2>1, HeldNow
<1>5. box' = With(box, s)
  BY <1>2
<1>6. NoDup(box')
  BY <1>1, <1>2, <1>4, <1>5, AppendNoDup
<1>7. Elems(box') = Elems(box) \cup {s}
  BY <1>1, <1>2, <1>4, <1>5, AppendNoDup
<1>8. got'[c] = None /\ \A d \in Callers : d # c => got'[d] = got[d]
  BY <1>1
<1>9. Partition(Held', Owned)
  <2>1. Held'[Task(c)] = Held[Task(c)] \ {s}
    BY <1>2, <1>8, HeldNow, HeldThen
  <2>2. Held'[TheBox] = Held[TheBox] \cup {s}
    BY <1>2, <1>7, HeldNow, HeldThen
  <2>3. \A h \in Holders \ {Task(c), TheBox} : Held'[h] = Held[h]
    BY <1>8, OthersKeep
  <2>4. PICK a \in Holders, b \in Holders : a = Task(c) /\ b = TheBox /\ a # b
    BY HolderFacts
  <2> QED BY <1>3, <2>1, <2>2, <2>3, <2>4, PartitionMove DEF Inv, OwnInv
<1>10. Partition(Held, Owned)'
  <2>1. Owned' = Owned
    BY DEF Owned, Leaked
  <2> QED BY <1>9, <2>1 DEF Partition
<1>11. OwnType' /\ NoDups'
  BY <1>6 DEF Inv, OwnInv, OwnType, NoDups
<1> QED BY <1>10, <1>11 DEF Inv, OwnInv, NotYet

\* Add_Listening creates a listening socket, which goes to the box or is lost.
LEMMA OwnListening ==
  ASSUME Inv, NEW e \in Extra, Add_Listening(e)
  PROVE  OwnInv'
<1> USE DEF setVars, getVars, boxVars
<1>1. e \in Socks /\ e # None /\ e # Signal
  BY SocketAssumption DEF Socks, Listeners
<1>2. e \notin alive /\ e \notin Owned
  BY DEF Add_Listening, Inv, OwnInv, NotYet, Owned
<1>3. /\ adding \in [Extra -> {"No", "Boxed", "Done", "Failed"}]
      /\ box \in Seq(Socks \cup {None}) /\ NoDup(box) /\ alive \in SUBSET Socks
  BY DEF Inv, OwnInv, NoDups, BoxInv, BoxType, OwnType
<1>4. UNCHANGED <<set, got, toClose, pc>> /\ alive' = alive \cup {e} /\ adding[e] = "No"
  BY DEF Add_Listening
<1>5. \/ open /\ box' = With(box, e) /\ adding' = [adding EXCEPT ![e] = "Boxed"]
      \/ ~open /\ UNCHANGED box /\ adding' = [adding EXCEPT ![e] = "Failed"]
  BY DEF Add_Listening, BoxAdd, With
<1>6. /\ adding'[e] # "No" /\ \A f \in Extra \ {e} : adding'[f] = adding[f]
      /\ adding' \in [Extra -> {"No", "Boxed", "Done", "Failed"}]
  BY <1>3, <1>5
<1>7. GotInv' /\ NotYet' /\ OwnType'
  BY <1>1, <1>3, <1>4, <1>6 DEF Inv, OwnInv, OwnType, GotInv, NotYet
<1>8. \A x : x # e => (Leaked(x)' <=> Leaked(x))
  BY <1>6 DEF Leaked
<1>9. CASE open
  <2>1. box' = With(box, e) /\ adding'[e] = "Boxed"
    BY <1>3, <1>5, <1>9
  <2>2. e \notin Elems(box)
    <3>1. e \notin Held[TheBox]
      BY <1>2, HeldIsOwned, HolderFacts DEF Inv
    <3> QED BY <1>1, <3>1, HeldNow
  <2>3. NoDup(box')
    BY <1>1, <1>3, <2>1, <2>2, AppendNoDup
  <2>4. Elems(box') = Elems(box) \cup {e}
    BY <1>1, <1>3, <2>1, <2>2, AppendNoDup
  <2>5. Owned' = Owned \cup {e}
    <3>1. ~Leaked(e)'
      BY <2>1 DEF Leaked
    <3> QED BY <1>2, <1>4, <1>8, <3>1 DEF Owned
  <2>6. Partition(Held', Owned')
    <3>1. Held'[TheBox] = Held[TheBox] \cup {e}
      BY <1>1, <2>4, HeldNow, HeldThen
    <3>2. \A h \in Holders \ {TheBox} : Held'[h] = Held[h]
      BY <1>4, OthersKeep
    <3>3. PICK b \in Holders : b = TheBox
      BY HolderFacts
    <3> QED BY <1>2, <2>5, <3>1, <3>2, <3>3, PartitionJoin DEF Inv, OwnInv
  <2>7. Partition(Held, Owned)'
    BY <2>6 DEF Partition
  <2> QED BY <1>4, <1>7, <2>3, <2>7 DEF Inv, OwnInv, NoDups
<1>10. CASE ~open
  <2>1. UNCHANGED box /\ adding'[e] = "Failed"
    BY <1>3, <1>5, <1>10
  <2>2. Owned' = Owned
    <3>1. Leaked(e)'
      BY <2>1 DEF Leaked
    <3> QED BY <1>2, <1>4, <1>8, <3>1 DEF Owned
  <2>3. \A h \in Holders \ {} : Held'[h] = Held[h]
    BY <1>4, <2>1, OthersKeep
  <2>4. Partition(Held', Owned)
    BY <2>3, PartitionKept DEF Inv, OwnInv
  <2>5. Partition(Held, Owned)'
    BY <2>2, <2>4 DEF Partition
  <2> QED BY <1>4, <1>7, <2>1, <2>5 DEF Inv, OwnInv, NoDups
<1> QED BY <1>9, <1>10

\* Sockets of one holder are freed.
LEMMA OwnDrop ==
  ASSUME Inv, NEW a \in Holders, NEW X, Held'[a] = Held[a] \ X,
         \A h \in Holders \ {a} : Held'[h] = Held[h], X \cap Owned \subseteq Held[a],
         alive' = alive \ X, UNCHANGED adding, toClose' \in [Callers -> Seq(Clients)],
         NoDups', GotInv'
  PROVE  OwnInv'
<1>1. Owned' = Owned \ X
  BY DEF Owned, Leaked
<1>2. Partition(Held', Owned')
  <2>1. \A g, h \in Holders : g # h => Held[g] \cap Held[h] = {}
    BY DEF Inv, OwnInv, Partition
  <2>2. \A x : x \in Owned <=> \E h \in Holders : x \in Held[h]
    BY DEF Inv, OwnInv, Partition
  <2>3. \A g, h \in Holders : g # h => Held'[g] \cap Held'[h] = {}
    BY <2>1
  <2>4. \A x : x \in Owned' => \E h \in Holders : x \in Held'[h]
    BY <1>1, <2>2
  <2>5. \A x : (\E h \in Holders : x \in Held'[h]) => x \in Owned'
    BY <1>1, <2>1, <2>2
  <2> QED BY <2>3, <2>4, <2>5 DEF Partition
<1>3. Partition(Held, Owned)'
  BY <1>2 DEF Partition
<1>4. OwnType' /\ NotYet'
  BY DEF Inv, OwnInv, OwnType, NotYet
<1> QED BY <1>3, <1>4 DEF OwnInv

\* The set is cleared.
LEMMA OwnClear ==
  ASSUME Inv, set' = <<>>, alive' = alive \ Elems(set),
         UNCHANGED <<box, got, toClose, adding>>, GotInv'
  PROVE  OwnInv'
<1>1. PICK a \in Holders : a = TheSet
  BY HolderFacts
<1>2. Elems(set') = {} /\ NoDup(set')
  BY DEF Elems, NoDup
<1>3. Held'[a] = Held[a] \ Elems(set)
  BY <1>1, <1>2, HeldNow, HeldThen
<1>4. \A h \in Holders \ {a} : Held'[h] = Held[h]
  BY <1>1, OthersKeep
<1>5. Elems(set) \cap Owned \subseteq Held[a]
  <2>1. Signal \notin Owned
    BY SocketAssumption DEF Inv, OwnInv, OwnType, Owned
  <2> QED BY <1>1, <2>1, HeldNow
<1>6. toClose' \in [Callers -> Seq(Clients)] /\ NoDups'
  BY <1>2 DEF Inv, OwnInv, OwnType, NoDups
<1> QED BY <1>3, <1>4, <1>5, <1>6, OwnDrop

\* What is in the box is freed.
LEMMA OwnBoxFreed ==
  ASSUME Inv, box' = BoxFreed, alive' = alive \ Elems(box),
         UNCHANGED <<set, got, toClose, adding>>, GotInv'
  PROVE  OwnInv'
<1>1. PICK a \in Holders : a = TheBox
  BY HolderFacts
<1>2. Elems(box') \ {None} = {} /\ NoDup(box')
  BY DEF Elems, NoDup, BoxFreed
<1>3. Held'[a] = Held[a] \ Elems(box)
  BY <1>1, <1>2, HeldNow, HeldThen
<1>4. \A h \in Holders \ {a} : Held'[h] = Held[h]
  BY <1>1, OthersKeep
<1>5. Elems(box) \cap Owned \subseteq Held[a]
  <2>1. None \notin Owned
    BY SocketAssumption DEF Inv, OwnInv, OwnType, Owned
  <2> QED BY <1>1, <2>1, HeldNow
<1>6. toClose' \in [Callers -> Seq(Clients)] /\ NoDups'
  BY <1>2 DEF Inv, OwnInv, OwnType, NoDups
<1> QED BY <1>3, <1>4, <1>5, <1>6, OwnDrop

\* A task frees sockets of its To_Close list.
LEMMA OwnFlush ==
  ASSUME Inv, NEW c \in Callers, NEW X, alive' = alive \ X, NEW r \in Seq(Clients), NoDup(r),
         toClose' = [toClose EXCEPT ![c] = r],
         X \subseteq Elems(toClose[c]), Elems(r) = Elems(toClose[c]) \ X,
         UNCHANGED <<set, box, got, adding>>, GotInv'
  PROVE  OwnInv'
<1>1. PICK a \in Holders : a = ToClose(c)
  BY HolderFacts
<1>2. toClose \in [Callers -> Seq(Clients)]
  BY DEF Inv, OwnInv, OwnType
<1>3. /\ toClose'[c] = r /\ \A d \in Callers : d # c => toClose'[d] = toClose[d]
      /\ toClose' \in [Callers -> Seq(Clients)]
  BY <1>2
<1>4. Held'[a] = Held[a] \ X
  BY <1>1, <1>3, HeldNow, HeldThen
<1>5. \A h \in Holders \ {a} : Held'[h] = Held[h]
  BY <1>1, <1>3, OthersKeep
<1>6. X \cap Owned \subseteq Held[a]
  BY <1>1, HeldNow
<1>7. NoDups'
  BY <1>3 DEF Inv, OwnInv, NoDups
<1> QED BY <1>3, <1>4, <1>5, <1>6, <1>7, OwnDrop

\* A task closes its connection.
LEMMA OwnClose ==
  ASSUME Inv, NEW c \in Callers, got[c] # None, alive' = alive \ {got[c]},
         got' = [got EXCEPT ![c] = None], UNCHANGED <<set, box, toClose, adding>>, GotInv'
  PROVE  OwnInv'
<1>1. PICK a \in Holders : a = Task(c)
  BY HolderFacts
<1>2. got \in [Callers -> Clients \cup {None}]
  BY DEF Inv, BoxInv, BoxType
<1>3. got'[c] = None /\ \A d \in Callers : d # c => got'[d] = got[d]
  BY <1>2
<1>4. Held'[a] = Held[a] \ {got[c]}
  BY <1>1, <1>3, HeldNow, HeldThen
<1>5. \A h \in Holders \ {a} : Held'[h] = Held[h]
  BY <1>1, <1>3, OthersKeep
<1>6. {got[c]} \cap Owned \subseteq Held[a]
  BY <1>1, HeldNow
<1>7. toClose' \in [Callers -> Seq(Clients)] /\ NoDups'
  BY DEF Inv, OwnInv, OwnType, NoDups
<1> QED BY <1>4, <1>5, <1>6, <1>7, OwnDrop

-----------------------------------------------------------------------------
(***************************************************************************)
(* The invariant holds in every state.                                     *)
(***************************************************************************)
LEMMA OwnInit == Init => OwnInv
<1> SUFFICES ASSUME Init PROVE OwnInv
  OBVIOUS
<1>1. Server \in Socks /\ Server # Signal /\ Server # None /\ Signal # None /\ Server \notin Extra
  BY SocketAssumption DEF Socks, Listeners
<1>2. OwnType
  BY <1>1 DEF Init, OwnType
<1>3. NoDups /\ GotInv
  BY <1>1 DEF Init, NoDups, NoDup, GotInv, InGet
<1>4. NotYet
  BY <1>1 DEF Init, NotYet
<1>5. Owned = {Server}
  BY <1>1 DEF Init, Owned, Leaked
<1>6. Held[TheSet] = {Server}
  <2>1. Elems(set) = {Signal, Server}
    BY DEF Init, Elems
  <2> QED BY <1>1, <2>1, HeldNow
<1>7. \A h \in Holders \ {TheSet} : Held[h] = {}
  BY DEF Held, HeldBy, Init, Elems
<1>8. Partition(Held, Owned)
  <2>1. TheSet \in Holders
    BY HolderFacts
  <2> QED BY <1>5, <1>6, <1>7, <2>1 DEF Partition
<1> QED BY <1>2, <1>3, <1>4, <1>8 DEF OwnInv

LEMMA GotKept ==
  ASSUME OwnInv, UNCHANGED got,
         \A d \in Callers : pc'[d] \in InGet => pc[d] \in InGet \/ got[d] = None
  PROVE  GotInv'
BY DEF OwnInv, GotInv

\* The steps that leave the owners alone.
LEMMA QuietOwn ==
  ASSUME Inv,
         \/ \E c \in Callers : \/ Seize(c) \/ ListenError(c) \/ NoAccept(c) \/ ClientStays(c)
                             \/ WaitQuiet(c) \/ WaitSignal(c) \/ WaitFails(c) \/ FetchEnds(c)
         \/ \E s \in Socks : Arrives(s) \/ Fails(s)
         \/ \E e \in Extra : AddServer(e)
         \/ CloseSignal \/ TryBusy \/ WaitEmpty \/ WaitEmptyExpires
  PROVE  OwnInv'
<1> USE DEF setVars, getVars, boxVars, shutVars
<1>1. ASSUME NEW c \in Callers,
             \/ Seize(c) \/ ListenError(c) \/ NoAccept(c) \/ ClientStays(c)
             \/ WaitQuiet(c) \/ WaitSignal(c) \/ WaitFails(c) \/ FetchEnds(c)
      PROVE  OwnInv'
  <2>1. UNCHANGED <<set, box, got, toClose, alive, adding>>
    BY <1>1 DEF Seize, ListenError, NoAccept, ClientStays, WaitQuiet, WaitSignal, WaitFails,
       FetchEnds
  <2>2. \/ UNCHANGED pc
        \/ \E p \in CallerPC : Goto(c, p) /\ (p \in InGet => pc[c] \in InGet \/ got[c] = None)
    BY <1>1 DEF Seize, ListenError, NoAccept, ClientStays, WaitQuiet, WaitSignal, WaitFails,
       FetchEnds, Examine, WaitReturns, InGet, CallerPC
  <2>3. \A d \in Callers : pc'[d] \in InGet => pc[d] \in InGet \/ got[d] = None
    BY <2>2 DEF Goto, Inv, BoxInv, BoxType
  <2>4. GotInv' /\ NotYet' /\ Owned' = Owned
    BY <2>1, <2>3, GotKept DEF Inv, OwnInv, NotYet, Owned, Leaked
  <2> QED BY <2>1, <2>4, OwnKept DEF Inv, OwnInv, OwnType
<1>2. CASE \/ \E s \in Socks : Arrives(s) \/ Fails(s)
           \/ CloseSignal \/ TryBusy \/ WaitEmpty \/ WaitEmptyExpires
  <2>1. UNCHANGED <<set, box, got, toClose, alive, adding, pc>>
    BY <1>2 DEF Arrives, Fails, CloseSignal, TryBusy, WaitEmpty, WaitEmptyExpires
  <2>2. GotInv' /\ NotYet' /\ Owned' = Owned
    BY <2>1, GotKept DEF Inv, OwnInv, NotYet, Owned, Leaked
  <2> QED BY <2>1, <2>2, OwnKept DEF Inv, OwnInv, OwnType
<1>3. ASSUME NEW e \in Extra, AddServer(e) PROVE OwnInv'
  <2>1. /\ UNCHANGED <<set, box, got, toClose, alive, pc>> /\ adding[e] = "Boxed"
        /\ adding' = [adding EXCEPT ![e] = "Done"]
    BY <1>3 DEF AddServer
  <2>2. adding \in [Extra -> {"No", "Boxed", "Done", "Failed"}]
    BY DEF Inv, OwnInv, OwnType
  <2>3. \A x : Leaked(x)' <=> Leaked(x)
    BY <2>1, <2>2 DEF Leaked
  <2>4. Owned' = Owned
    BY <2>1, <2>3 DEF Owned
  <2>5. GotInv' /\ NotYet' /\ adding' \in [Extra -> {"No", "Boxed", "Done", "Failed"}]
    BY <2>1, <2>2, GotKept DEF Inv, OwnInv, NotYet
  <2> QED BY <2>1, <2>4, <2>5, OwnKept DEF Inv
<1> QED BY <1>1, <1>2, <1>3

\* A task examines a connection of the set, or ends its scan.
LEMMA TakeOwn ==
  ASSUME Inv, NEW c \in Callers,
         Accept(c) \/ ClientCloses(c) \/ ClientReady(c) \/ ScanEnds(c)
  PROVE  OwnInv'
<1> USE DEF setVars, getVars, boxVars, shutVars
<1>0. pc \in [Callers -> CallerPC] /\ pc[c] = "Scan" /\ got[c] = None
  <2>1. pc[c] = "Scan"
    BY DEF Accept, ClientCloses, ClientReady, ScanEnds, Examine
  <2> QED BY <2>1 DEF Inv, BoxInv, BoxType, OwnInv, GotInv, InGet
<1>1. CASE Accept(c)
  <2>1. PICK s \in Clients \ alive : set' = Append(set, s) /\ alive' = alive \cup {s}
    BY <1>1 DEF Accept
  <2>2. UNCHANGED <<box, got, toClose, adding, pc>>
    BY <1>1 DEF Accept
  <2>3. GotInv' /\ set' = With(set, s)
    BY <2>1, <2>2, GotKept DEF Inv, With
  <2> QED BY <2>1, <2>2, <2>3, OwnAccept
<1>2. CASE ClientCloses(c)
  <2>1. /\ UNCHANGED <<box, got, alive, adding, pc>> /\ set[index] \in Clients
        /\ set' = Without(set, index)
        /\ toClose' = [toClose EXCEPT ![c] = Append(@, set[index])]
    BY <1>2 DEF ClientCloses, Take, RemoveSlot, Without
  <2>2. index \in 1 .. Len(set)
    BY <1>2, ExamineFacts DEF ClientCloses, Inv
  <2>3. GotInv'
    BY <2>1, GotKept DEF Inv
  <2> QED BY <2>1, <2>2, <2>3, OwnToClose
<1>3. CASE ClientReady(c)
  <2>1. /\ UNCHANGED <<box, toClose, alive, adding>> /\ set[index] \in Clients
        /\ set' = Without(set, index) /\ got' = [got EXCEPT ![c] = set[index]]
        /\ Goto(c, "Flush")
    BY <1>3 DEF ClientReady, Take, RemoveSlot, Without
  <2>2. index \in 1 .. Len(set)
    BY <1>3, ExamineFacts DEF ClientReady, Inv
  <2>3. GotInv'
    BY <1>0, <2>1 DEF Inv, OwnInv, GotInv, Goto, InGet, BoxInv, BoxType
  <2> QED BY <1>0, <2>1, <2>2, <2>3, OwnToTask
<1>4. CASE ScanEnds(c)
  <2>1. UNCHANGED <<box, got, alive, adding>> /\ Goto(c, "Wait")
    BY <1>4 DEF ScanEnds
  <2>2. GotInv'
    BY <1>0, <2>1 DEF Inv, OwnInv, GotInv, Goto
  <2>3. CASE oldest > 0 /\ last > CloseLength
    <3>1. /\ set' = Without(set, oldest)
          /\ toClose' = [toClose EXCEPT ![c] = Append(@, set[oldest])]
      BY <1>4, <2>3 DEF ScanEnds, Take, RemoveSlot, Without
    <3>2. tid # None
      BY <1>0, SocketAssumption DEF Inv, BoxInv, Exclusion, InGet
    <3>3. oldest \in 1 .. Len(set) /\ set[oldest] \in Clients
      BY <2>3, <3>2 DEF Inv, ScanInv, SetType, SetInv, OldestInv
    <3> QED BY <2>1, <2>2, <3>1, <3>3, OwnToClose
  <2>4. CASE ~(oldest > 0 /\ last > CloseLength)
    <3>1. UNCHANGED <<set, toClose>>
      BY <1>4, <2>4 DEF ScanEnds
    <3>2. NotYet' /\ Owned' = Owned
      BY <2>1 DEF Inv, OwnInv, NotYet, Owned, Leaked
    <3> QED BY <2>1, <2>2, <3>1, <3>2, OwnKept DEF Inv, OwnInv, OwnType
  <2> QED BY <2>3, <2>4
<1> QED BY <1>1, <1>2, <1>3, <1>4

\* Sockets are closed or given back by a task.
LEMMA TaskOwn ==
  ASSUME Inv, NEW c \in Callers,
         WaitClose(c) \/ Fetch(c) \/ Flush(c) \/ Give_Back(c) \/ Close(c)
  PROVE  OwnInv'
<1> USE DEF setVars, getVars, boxVars, shutVars
<1>0. /\ pc \in [Callers -> CallerPC] /\ toClose \in [Callers -> Seq(Clients)]
      /\ toClose[c] \in Seq(Clients) /\ NoDup(toClose[c])
      /\ got \in [Callers -> Clients \cup {None}]
  BY DEF Inv, BoxInv, BoxType, OwnInv, OwnType, NoDups
<1>1. CASE WaitClose(c)
  <2>1. /\ UNCHANGED <<set, box, got, adding, pc>> /\ toClose[c] # <<>>
        /\ toClose' = [toClose EXCEPT ![c] = Tail(@)] /\ alive' = alive \ {Head(toClose[c])}
    BY <1>1 DEF WaitClose, Free
  <2>2. GotInv'
    BY <2>1, GotKept DEF Inv
  <2>3. PICK q \in Seq(Clients) : q = toClose[c] /\ NoDup(q) /\ q # <<>>
    BY <1>0, <2>1
  <2>4. PICK r : r = Tail(q)
    OBVIOUS
  <2>5. r \in Seq(Clients) /\ NoDup(r) /\ Head(q) \in Elems(q)
    BY <2>3, <2>4, TailNoDup
  <2>6. Elems(r) \ {None} = (Elems(q) \ {None}) \ {Head(q)}
    BY <2>3, <2>4, TailNoDup
  <2>7. None \notin Elems(q) /\ None \notin Elems(r)
    <3>1. None \notin Clients
      BY SocketAssumption DEF Socks
    <3> QED BY <2>3, <2>5, <3>1 DEF Elems
  <2>8. Elems(r) = Elems(q) \ {Head(q)} /\ {Head(q)} \subseteq Elems(q)
    BY <2>5, <2>6, <2>7
  <2>9. toClose' = [toClose EXCEPT ![c] = r] /\ alive' = alive \ {Head(q)}
    BY <2>1, <2>3, <2>4
  <2> QED BY <2>1, <2>2, <2>3, <2>5, <2>8, <2>9, OwnFlush
<1>2. CASE Fetch(c)
  <2>1. /\ UNCHANGED <<got, toClose, alive, adding>> /\ pc[c] = "Fetch"
        /\ box # <<>> /\ box' = Tail(box)
        /\ \/ Head(box) = None /\ UNCHANGED set
           \/ Head(box) # None /\ set' = With(set, Head(box))
    BY <1>2 DEF Fetch, With
  <2>2. UNCHANGED pc \/ Goto(c, "Raise")
    BY <1>2 DEF Fetch
  <2>3. GotInv'
    BY <1>0, <2>1, <2>2, GotKept DEF Inv, Goto, InGet
  <2> QED BY <2>1, <2>3, OwnFetch
<1>3. CASE Flush(c)
  <2>1. /\ UNCHANGED <<set, box, got, adding>> /\ alive' = alive \ Elems(toClose[c])
        /\ toClose' = [toClose EXCEPT ![c] = <<>>]
    BY <1>3 DEF Flush, Free
  <2>2. \E p \in {"Out", "Ended"} : Goto(c, p)
    BY <1>3 DEF Flush
  <2>3. GotInv'
    BY <1>0, <2>1, <2>2, GotKept DEF Inv, Goto, InGet
  <2>4. PICK r \in Seq(Clients) : r = <<>> /\ NoDup(r) /\ Elems(r) = {}
    <3>1. <<>> \in Seq(Clients) /\ NoDup(<<>>) /\ Elems(<<>>) = {}
      BY DEF NoDup, Elems
    <3> QED BY <3>1
  <2> QED BY <2>1, <2>3, <2>4, OwnFlush
<1>4. CASE Give_Back(c)
  <2>1. /\ UNCHANGED <<set, toClose, alive, adding, pc>> /\ got[c] # None /\ pc[c] = "Out"
        /\ box' = With(box, got[c]) /\ got' = [got EXCEPT ![c] = None]
    BY <1>4 DEF Give_Back, BoxAdd, With
  <2>2. GotInv'
    BY <1>0, <2>1 DEF Inv, OwnInv, GotInv
  <2> QED BY <2>1, <2>2, OwnGiveBack
<1>5. CASE Close(c)
  <2>1. /\ UNCHANGED <<set, box, toClose, adding, pc>> /\ got[c] # None /\ pc[c] = "Out"
        /\ alive' = alive \ {got[c]} /\ got' = [got EXCEPT ![c] = None]
    BY <1>5 DEF Close, Free
  <2>2. GotInv'
    BY <1>0, <2>1 DEF Inv, OwnInv, GotInv
  <2> QED BY <2>1, <2>2, OwnClose
<1> QED BY <1>1, <1>2, <1>3, <1>4, <1>5

\* Shutdown frees what the set and the box hold.
LEMMA ShutdownOwn ==
  ASSUME Inv, \/ \E c \in Callers : WaitShutdown(c)
              \/ BoxShutdown \/ TryDirect
  PROVE  OwnInv'
<1> USE DEF setVars, getVars, boxVars, shutVars
<1>1. ASSUME NEW c \in Callers, WaitShutdown(c) PROVE OwnInv'
  <2>1. /\ UNCHANGED <<box, got, toClose, adding>> /\ Goto(c, "Raise")
        /\ set' = <<>> /\ alive' = alive \ Elems(set)
    BY <1>1 DEF WaitShutdown, Shutdown_Internal, ClearSet, Free
  <2>2. GotInv'
    BY <2>1, GotKept DEF Inv, Goto, InGet, BoxInv, BoxType
  <2> QED BY <2>1, <2>2, OwnClear
<1>2. CASE BoxShutdown
  <2>1. /\ UNCHANGED <<set, got, toClose, adding, pc>>
        /\ box' = BoxFreed /\ alive' = alive \ Elems(box)
    BY <1>2 DEF BoxShutdown, Free
  <2>2. GotInv'
    BY <2>1, GotKept DEF Inv
  <2> QED BY <2>1, <2>2, OwnBoxFreed
<1>3. CASE TryDirect
  <2>1. /\ UNCHANGED <<box, got, toClose, adding, pc>>
        /\ set' = <<>> /\ alive' = alive \ Elems(set)
    BY <1>3 DEF TryDirect, Shutdown_Internal, ClearSet, Free
  <2>2. GotInv'
    BY <2>1, GotKept DEF Inv
  <2> QED BY <2>1, <2>2, OwnClear
<1> QED BY <1>1, <1>2, <1>3

LEMMA OwnNext == Inv /\ [Next]_vars => OwnInv'
<1> SUFFICES ASSUME Inv, [Next]_vars PROVE OwnInv'
  OBVIOUS
<1>1. CASE UNCHANGED vars
  <2>1. UNCHANGED <<set, box, got, toClose, alive, adding, pc>>
    BY <1>1 DEF vars, setVars, getVars, boxVars, shutVars
  <2>2. GotInv' /\ NotYet' /\ Owned' = Owned
    BY <2>1, GotKept DEF Inv, OwnInv, NotYet, Owned, Leaked
  <2> QED BY <2>1, <2>2, OwnKept DEF Inv, OwnInv, OwnType
<1>2. CASE \E c \in Callers : CallerStep(c) \/ WaitFails(c)
  BY <1>2, QuietOwn, TakeOwn, TaskOwn, ShutdownOwn DEF CallerStep, GetStep, WaitStep
<1>3. CASE \/ \E s \in Socks : Arrives(s) \/ Fails(s)
           \/ \E e \in Extra : Add_Listening(e) \/ AddServer(e)
           \/ BoxShutdown \/ MainStep
  BY <1>3, QuietOwn, OwnListening, ShutdownOwn DEF MainStep
<1> QED BY <1>1, <1>2, <1>3 DEF Next

LEMMA OwnInvariance == Spec => []Inv
<1>1. Init => Inv
  BY BoxInvInit, ScanInit, OwnInit DEF Inv
<1>2. Inv /\ [Next]_vars => Inv'
  BY BoxInvNext, ScanNext, OwnNext DEF Inv
<1> QED BY <1>1, <1>2, PTL DEF Spec

-----------------------------------------------------------------------------
(***************************************************************************)
(* One owner.                                                              *)
(***************************************************************************)

\* A place of socket s belongs to a holder of s.
LEMMA PlaceHolder ==
  ASSUME NEW s \in Socks, NEW p \in Places(s)
  PROVE  \/ \E i \in DOMAIN set : p = <<"set", i>> /\ set[i] = s /\ s \in Held[TheSet]
         \/ \E i \in DOMAIN box : p = <<"box", i>> /\ box[i] = s /\ s \in Held[TheBox]
         \/ \E c \in Callers : p = <<"task", c>> /\ got[c] = s /\ s \in Held[Task(c)]
         \/ \E c \in Callers : \E i \in DOMAIN toClose[c] :
              p = <<"close", c, i>> /\ toClose[c][i] = s /\ s \in Held[ToClose(c)]
<1>1. s # Signal /\ s # None
  BY SocketAssumption
<1>2. \/ \E i \in DOMAIN set : p = <<"set", i>> /\ set[i] = s
      \/ \E i \in DOMAIN box : p = <<"box", i>> /\ box[i] = s
      \/ \E c \in Callers : p = <<"task", c>> /\ got[c] = s
      \/ \E c \in Callers : \E i \in DOMAIN toClose[c] : p = <<"close", c, i>> /\ toClose[c][i] = s
  BY DEF Places
<1>3. \A i \in DOMAIN set : set[i] = s => s \in Held[TheSet]
  BY <1>1, HeldNow DEF Elems
<1>4. \A i \in DOMAIN box : box[i] = s => s \in Held[TheBox]
  BY <1>1, HeldNow DEF Elems
<1>5. \A c \in Callers : got[c] = s => s \in Held[Task(c)]
  BY <1>1, HeldNow
<1>6. \A c \in Callers : \A i \in DOMAIN toClose[c] : toClose[c][i] = s => s \in Held[ToClose(c)]
  BY HeldNow DEF Elems
<1> QED BY <1>2, <1>3, <1>4, <1>5, <1>6

\* Two places of a socket are the same.
LEMMA PlaceUnique ==
  ASSUME Inv, NEW s \in Socks, NEW p \in Places(s), NEW q \in Places(s)
  PROVE  p = q
<1>0. s # None
  BY SocketAssumption
<1>1. \A g, h \in Holders : s \in Held[g] /\ s \in Held[h] => g = h
  BY HeldIsOwned DEF Inv
<1>2. CASE \E i \in DOMAIN set : p = <<"set", i>> /\ set[i] = s /\ s \in Held[TheSet]
  <2>1. \E i \in DOMAIN set : q = <<"set", i>> /\ set[i] = s
    BY <1>1, <1>2, PlaceHolder, HolderFacts
  <2> QED BY <1>0, <1>2, <2>1 DEF Inv, OwnInv, NoDups, NoDup
<1>3. CASE \E i \in DOMAIN box : p = <<"box", i>> /\ box[i] = s /\ s \in Held[TheBox]
  <2>1. \E i \in DOMAIN box : q = <<"box", i>> /\ box[i] = s
    BY <1>1, <1>3, PlaceHolder, HolderFacts
  <2> QED BY <1>0, <1>3, <2>1 DEF Inv, OwnInv, NoDups, NoDup
<1>4. ASSUME NEW c \in Callers, p = <<"task", c>>, s \in Held[Task(c)]
      PROVE  p = q
  BY <1>1, <1>4, PlaceHolder, HolderFacts
<1>5. ASSUME NEW c \in Callers, NEW i \in DOMAIN toClose[c], p = <<"close", c, i>>,
             toClose[c][i] = s, s \in Held[ToClose(c)]
      PROVE  p = q
  <2>1. \E j \in DOMAIN toClose[c] : q = <<"close", c, j>> /\ toClose[c][j] = s
    BY <1>1, <1>5, PlaceHolder, HolderFacts
  <2>2. NoDup(toClose[c])
    BY DEF Inv, OwnInv, NoDups
  <2> QED BY <1>0, <1>5, <2>1, <2>2 DEF NoDup
<1> QED BY <1>2, <1>3, <1>4, <1>5, PlaceHolder

\* An owned socket has a place.
LEMMA PlaceExists ==
  ASSUME Inv, NEW s \in Socks, s \in Owned
  PROVE  \E p : p \in Places(s)
<1>1. PICK h \in Holders : s \in Held[h]
  BY DEF Inv, OwnInv, Partition
<1>2. CASE h = TheSet
  <2>1. PICK i \in DOMAIN set : set[i] = s
    BY <1>1, <1>2, HeldNow DEF Elems
  <2>2. <<"set", i>> \in Places(s)
    BY <2>1 DEF Places
  <2> QED BY <2>2
<1>3. CASE h = TheBox
  <2>1. PICK i \in DOMAIN box : box[i] = s
    BY <1>1, <1>3, HeldNow DEF Elems
  <2>2. <<"box", i>> \in Places(s)
    BY <2>1 DEF Places
  <2> QED BY <2>2
<1>4. CASE h \notin {TheSet, TheBox} /\ h[1] = "task" /\ h[2] \in Callers
  <2>1. got[h[2]] = s
    BY <1>1, <1>4 DEF Held, HeldBy
  <2>2. <<"task", h[2]>> \in Places(s)
    BY <1>4, <2>1 DEF Places
  <2> QED BY <2>2
<1>5. CASE h \notin {TheSet, TheBox} /\ h[1] = "close" /\ h[2] \in Callers
  <2>1. PICK c \in Callers : c = h[2]
    BY <1>5
  <2>2. s \in Elems(toClose[c])
    BY <1>1, <1>5, <2>1 DEF Held, HeldBy
  <2>3. PICK i \in DOMAIN toClose[c] : toClose[c][i] = s
    BY <2>2 DEF Elems
  <2>4. <<"close", c, i>> \in Places(s)
    BY <2>1, <2>3 DEF Places
  <2> QED BY <2>4
<1>6. CASE h \notin {TheSet, TheBox} /\ ~(h[1] \in {"task", "close"} /\ h[2] \in Callers)
  BY <1>1, <1>6 DEF Held, HeldBy
<1> QED BY <1>2, <1>3, <1>4, <1>5, <1>6

LEMMA InvOneOwner == Inv => OneOwner
<1> SUFFICES ASSUME Inv, NEW s \in Socks
             PROVE  Cardinality(Places(s)) = IF s \in alive /\ ~Leaked(s) THEN 1 ELSE 0
  BY DEF OneOwner
<1>1. CASE s \in Owned
  <2>1. PICK p : p \in Places(s)
    BY <1>1, PlaceExists
  <2>2. Places(s) = {p}
    BY <2>1, PlaceUnique
  <2>3. Cardinality(Places(s)) = 1
    BY <2>2, FS_Singleton
  <2> QED BY <1>1, <2>3 DEF Owned
<1>2. CASE s \notin Owned
  <2>1. \A h \in Holders : s \notin Held[h]
    BY <1>2, HeldIsOwned DEF Inv
  <2>2. Places(s) = {}
    BY <2>1, PlaceHolder, HolderFacts
  <2>3. Cardinality(Places(s)) = 0
    BY <2>2, FS_EmptySet
  <2> QED BY <1>2, <2>3 DEF Owned
<1> QED BY <1>1, <1>2

\* Every allocated socket is in the set, in the box, with one task or in one
\* To_Close list, once; a freed one is nowhere: Get, Give_Back, the time-outs,
\* Add_Listening and Shutdown neither share, lose nor free a socket twice.
THEOREM SocketsOwnedOnce == Spec => []OneOwner
BY InvOneOwner, OwnInvariance, PTL

-----------------------------------------------------------------------------
(***************************************************************************)
(* Types.  The poll array has a slot for every socket, since the set has   *)
(* no duplicates.                                                          *)
(***************************************************************************)
LEMMA SetFits == Inv => Len(set) \in Slots \cup {0}
<1> SUFFICES ASSUME Inv PROVE Len(set) \in Slots \cup {0}
  OBVIOUS
<1>1. PICK n \in Nat : n = Len(set) /\ set \in [1 .. n -> Socks \cup {Signal}]
  BY DEF Inv, ScanInv, SetType
<1>2. PICK m \in Nat : m = Cardinality(Socks)
  BY SocketAssumption, FS_CardinalityType
<1>3. IsFiniteSet(Socks \cup {Signal}) /\ Cardinality(Socks \cup {Signal}) = m + 1
  BY <1>2, SocketAssumption, FS_AddElement
<1>4. IsFiniteSet(1 .. n) /\ Cardinality(1 .. n) = n
  <2>1. \A a, b \in Int : IsFiniteSet(a .. b) /\ Cardinality(a .. b) = IF a > b THEN 0 ELSE b - a + 1
    BY FS_Interval, Zenon
  <2>2. 1 \in Int /\ n \in Int
    BY <1>1
  <2>3. IsFiniteSet(1 .. n) /\ Cardinality(1 .. n) = IF 1 > n THEN 0 ELSE n - 1 + 1
    BY <2>1, <2>2, Zenon
  <2> QED BY <1>1, <2>3
<1>5. \A i, j \in 1 .. n : set[i] = set[j] => i = j
  <2>1. \A i \in 1 .. n : set[i] # None
    BY <1>1, SocketAssumption
  <2> QED BY <1>1, <2>1 DEF Inv, OwnInv, NoDups, NoDup
<1>6. ~(m + 1 < n)
  <2> SUFFICES ASSUME m + 1 < n PROVE FALSE
    OBVIOUS
  <2>1. PICK S, T : S = 1 .. n /\ T = Socks \cup {Signal}
    OBVIOUS
  <2>2. \E x, y \in S : x # y /\ set[x] = set[y]
    BY <1>1, <1>3, <1>4, <2>1, FS_PigeonHole
  <2> QED BY <1>5, <2>1, <2>2
<1> QED BY <1>1, <1>2, <1>6 DEF Slots

\* What the other invariants do not say: the poll array, the kernel's view and
\* the attempts of Shutdown.
TypeRest ==
  /\ rev \in [Slots -> Status]
  /\ kern \in [Socks -> Status]
  /\ tries \in 0 .. 4
  /\ main # "Failed" /\ main # "Done" => tries <= 3

LEMMA PolledType ==
  ASSUME Inv, TypeRest, NEW r \in PollResults
  PROVE  r \in [Slots -> Status]
<1>1. PICK x \in Polled(Signal) :
        r = [i \in Slots |-> IF i > Len(set) THEN rev[i]
                             ELSE IF set[i] = Signal THEN x ELSE kern[set[i]]]
  BY DEF PollResults
<1>2. x \in Status
  BY DEF Polled, Status
<1>3. PICK n \in Nat : n = Len(set) /\ \A i \in 1 .. n : set[i] \in Socks \cup {Signal}
  BY DEF Inv, ScanInv, SetType
<1>4. ASSUME NEW i \in Slots
      PROVE (IF i > n THEN rev[i] ELSE IF set[i] = Signal THEN x ELSE kern[set[i]]) \in Status
  <2>1. i \in Nat /\ i >= 1
    BY SocketAssumption, FS_CardinalityType DEF Slots
  <2>2. i > n \/ i \in 1 .. n
    BY <2>1
  <2> QED BY <1>2, <1>3, <1>4, <2>2 DEF TypeRest
<1> QED BY <1>1, <1>3, <1>4

LEMMA RemoveType ==
  ASSUME Inv, TypeRest, set # <<>>, NEW i, RemoveSlot(i)
  PROVE  rev' \in [Slots -> Status]
<1>1. Len(set) # 0
  BY DEF Inv, ScanInv, SetType
<1>2. Len(set) \in Slots
  BY <1>1, SetFits
<1> QED BY <1>2 DEF RemoveSlot, TypeRest

LEMMA TypeRestNext == Inv /\ TypeRest /\ [Next]_vars => TypeRest'
<1> SUFFICES ASSUME Inv, TypeRest, [Next]_vars PROVE TypeRest'
  OBVIOUS
<1> USE DEF setVars, getVars, boxVars, shutVars
<1>f. ASSUME NEW S, Free(S) PROVE kern' \in [Socks -> Status]
  BY <1>f DEF Free, TypeRest, Status
<1>1. CASE UNCHANGED vars
  BY <1>1 DEF vars, TypeRest
<1>2. ASSUME NEW c \in Callers, CallerStep(c) \/ WaitFails(c)
      PROVE  TypeRest'
  <2>0. UNCHANGED <<main, tries>>
    BY <1>2 DEF CallerStep, GetStep, WaitStep, Seize, ListenError, Accept, NoAccept, ClientCloses,
       ClientReady, ClientStays, ScanEnds, WaitQuiet, WaitSignal, WaitShutdown, WaitClose, WaitFails,
       Fetch, FetchEnds, Flush, Give_Back, Close
  <2>1. CASE \/ Seize(c) \/ ListenError(c) \/ NoAccept(c) \/ ClientStays(c) \/ WaitFails(c)
             \/ Fetch(c) \/ FetchEnds(c)
    <3>1. UNCHANGED <<rev, kern>>
      BY <2>1 DEF Seize, ListenError, NoAccept, ClientStays, WaitFails, Fetch, FetchEnds
    <3> QED BY <2>0, <3>1 DEF TypeRest
  <2>2. CASE Accept(c)
    <3>1. UNCHANGED rev
      BY <2>2 DEF Accept
    <3>2. set[index] \in Socks
      BY <2>2 DEF Accept, Socks
    <3>3. \E k \in {kern[set[index]], "no"} : kern' = [kern EXCEPT ![set[index]] = k]
      BY <2>2 DEF Accept
    <3>4. kern' \in [Socks -> Status]
      BY <3>2, <3>3 DEF TypeRest, Status
    <3> QED BY <2>0, <3>1, <3>4 DEF TypeRest
  <2>3. CASE ClientCloses(c) \/ ClientReady(c)
    <3>1. UNCHANGED kern /\ RemoveSlot(index)
      BY <2>3 DEF ClientCloses, ClientReady, Take
    <3>2. set # <<>>
      BY <2>3, ExamineFacts DEF ClientCloses, ClientReady, Inv
    <3> QED BY <2>0, <3>1, <3>2, RemoveType DEF TypeRest
  <2>4. CASE ScanEnds(c)
    <3>1. UNCHANGED kern /\ (RemoveSlot(oldest) \/ UNCHANGED rev)
      BY <2>4 DEF ScanEnds, Take
    <3>2. set # <<>>
      BY <2>4, SocketAssumption DEF ScanEnds, Inv, BoxInv, Exclusion, InGet, ScanInv, SetInv
    <3> QED BY <2>0, <3>1, <3>2, RemoveType DEF TypeRest
  <2>5. CASE WaitQuiet(c) \/ WaitSignal(c) \/ WaitShutdown(c) \/ WaitClose(c)
    <3>1. \E r \in PollResults : rev' = r
      BY <2>5 DEF WaitQuiet, WaitSignal, WaitShutdown, WaitClose, WaitReturns
    <3>2. UNCHANGED kern \/ \E S : Free(S)
      BY <2>5 DEF WaitQuiet, WaitSignal, WaitShutdown, WaitClose, Shutdown_Internal
    <3> QED BY <1>f, <2>0, <3>1, <3>2, PolledType DEF TypeRest
  <2>6. CASE Flush(c) \/ Close(c)
    <3>1. UNCHANGED rev /\ \E S : Free(S)
      BY <2>6 DEF Flush, Close
    <3> QED BY <1>f, <2>0, <3>1 DEF TypeRest
  <2>7. CASE Give_Back(c)
    <3>1. /\ UNCHANGED rev /\ got[c] \in Socks
          /\ kern' = [kern EXCEPT ![got[c]] = IF @ = "in" THEN "no" ELSE @]
      BY <2>7 DEF Give_Back, Inv, BoxInv, BoxType, Socks
    <3>2. kern' \in [Socks -> Status]
      BY <3>1 DEF TypeRest, Status
    <3> QED BY <2>0, <3>1, <3>2 DEF TypeRest
  <2> QED BY <1>2, <2>1, <2>2, <2>3, <2>4, <2>5, <2>6, <2>7 DEF CallerStep, GetStep, WaitStep
<1>3. CASE \E s \in Socks : Arrives(s) \/ Fails(s)
  BY <1>3 DEF Arrives, Fails, TypeRest, Status
<1>4. CASE \E e \in Extra : Add_Listening(e) \/ AddServer(e)
  BY <1>4 DEF Add_Listening, AddServer, TypeRest
<1>5. CASE BoxShutdown
  <2>1. UNCHANGED <<rev, tries>> /\ main = "Up" /\ kern' \in [Socks -> Status]
    BY <1>5, <1>f DEF BoxShutdown
  <2> QED BY <2>1 DEF TypeRest
<1>6. CASE MainStep
  <2>1. CASE TryDirect
    <3>1. UNCHANGED <<rev, tries>> /\ main = "Try" /\ kern' \in [Socks -> Status]
      BY <1>f, <2>1 DEF TryDirect, Shutdown_Internal
    <3> QED BY <3>1 DEF TypeRest
  <2>2. CASE CloseSignal \/ TryBusy \/ WaitEmpty
    BY <2>2 DEF CloseSignal, TryBusy, WaitEmpty, TypeRest
  <2>3. CASE WaitEmptyExpires
    BY <2>3 DEF WaitEmptyExpires, LastTry, TypeRest
  <2> QED BY <1>6, <2>1, <2>2, <2>3 DEF MainStep
<1> QED BY <1>1, <1>2, <1>3, <1>4, <1>5, <1>6 DEF Next

\* Every variable of the acceptor keeps its type, the set never outgrows the
\* poll array, and Shutdown makes at most four attempts.
THEOREM AcceptorTypes == Spec => []TypeOK
<1>1. Init => TypeRest
  BY DEF Init, TypeRest, Status
<1>2. Inv /\ TypeRest => TypeOK
  <2> SUFFICES ASSUME Inv, TypeRest PROVE TypeOK
    OBVIOUS
  <2>1. Len(set) \in Slots \cup {0}
    BY SetFits
  <2> QED BY <2>1 DEF Inv, TypeRest, TypeOK, BoxInv, BoxType, ScanInv, SetType, PhaseInv, MainPoints,
          OwnInv, OwnType
<1> QED BY <1>1, <1>2, TypeRestNext, OwnInvariance, PTL DEF Spec

-----------------------------------------------------------------------------
(***************************************************************************)
(* The acceptor implements AcceptorAbs: each step is a step of the         *)
(* abstract acceptor or leaves its state alone.                            *)
(***************************************************************************)

\* A task's connection is allocated and with nobody else; what the acceptor
\* holds is with no task.
LEMMA WhereFacts ==
  ASSUME Inv
  PROVE  /\ \A c \in Callers : got[c] # None =>
                got[c] \in Clients /\ got[c] \in alive /\ Where[got[c]] = "task"
         /\ \A h \in Holders : (\A c \in Callers : h # Task(c)) =>
                \A s \in Held[h] : s \in alive /\ \A c \in Callers : got[c] # s
         /\ \A h \in Holders : (\A c \in Callers : h # Task(c)) =>
                \A s \in Clients : s \in Held[h] => Where[s] = "acceptor"
         /\ \A s \in Clients : s \notin alive =>
                Where[s] = "free" /\ \A c \in Callers : got[c] # s
<1>1. \A c \in Callers : got[c] # None => got[c] \in Clients /\ got[c] \in Held[Task(c)]
  BY HeldNow DEF Inv, BoxInv, BoxType
<1>2. \A c \in Callers : got[c] # None => got[c] \in alive
  BY <1>1, HeldIsOwned, HolderFacts DEF Inv
<1>3. ASSUME NEW h \in Holders, \A c \in Callers : h # Task(c), NEW s \in Held[h]
      PROVE  s \in alive /\ \A c \in Callers : got[c] # s
  <2>1. s \in alive /\ s # None
    BY HeldIsOwned, SocketAssumption DEF Inv
  <2>2. ASSUME NEW c \in Callers, got[c] = s PROVE FALSE
    <3>1. s \in Held[Task(c)] /\ Task(c) \in Holders
      BY <1>1, <2>1, <2>2, HolderFacts
    <3> QED BY <1>3, <3>1, HeldIsOwned DEF Inv
  <2> QED BY <2>1, <2>2
<1>4. \A s \in Clients : s # None
  BY SocketAssumption DEF Socks
<1> QED BY <1>1, <1>2, <1>3, <1>4 DEF Where

\* Steps the users of the acceptor do not see.
LEMMA Unseen ==
  ASSUME UNCHANGED <<got, open>>, set' = <<>> <=> set = <<>>,
         \A s \in Clients : s \in alive' <=> s \in alive
  PROVE  Where' = Where /\ State' = State
BY DEF Where, State

\* Connections one holder owns are freed.
LEMMA Freed ==
  ASSUME Inv, NEW h \in Holders, \A c \in Callers : h # Task(c), NEW X,
         X \cap Clients \subseteq Held[h], alive' = alive \ X, UNCHANGED got
  PROVE  \E S \in SUBSET Clients : Abs!Expire(S)
<1>1. \A s \in X \cap Clients : Where[s] = "acceptor" /\ s \in alive
  BY WhereFacts
<1>2. Where' = [s \in Clients |-> IF s \in X \cap Clients THEN "free" ELSE Where[s]]
  BY DEF Where
<1>3. Abs!Expire(X \cap Clients)
  BY <1>1, <1>2 DEF Abs!Expire
<1> QED BY <1>3

LEMMA RefinesInit == Init => Abs!Init
<1> SUFFICES ASSUME Init PROVE Abs!Init
  OBVIOUS
<1>1. \A s \in Clients : s \notin alive
  BY SocketAssumption DEF Init, Listeners
<1>2. Where = [s \in Clients |-> "free"]
  BY <1>1 DEF Where
<1> QED BY <1>2 DEF Init, State, Abs!Init

AbsStep == Abs!Next \/ UNCHANGED <<Where, State>>

\* An examination of the set: a connection is accepted, returned or dropped.
LEMMA TakeRefines ==
  ASSUME Inv, NEW c \in Callers,
         Accept(c) \/ ClientCloses(c) \/ ClientReady(c) \/ ScanEnds(c)
  PROVE  AbsStep
<1> USE DEF setVars, getVars, boxVars, shutVars
<1>0. tid = c /\ set # <<>> /\ set[1] = Signal
  <2>1. pc[c] = "Scan"
    BY DEF Accept, ClientCloses, ClientReady, ScanEnds, Examine
  <2> QED BY <2>1, SocketAssumption DEF Inv, BoxInv, Exclusion, InGet, ScanInv, SetInv
<1>1. CASE Accept(c)
  <2>1. PICK s \in Clients : s \notin alive /\ set' = Append(set, s) /\ alive' = alive \cup {s}
    BY <1>1 DEF Accept
  <2>2. UNCHANGED <<got, open>>
    BY <1>1 DEF Accept
  <2>3. set' # <<>>
    BY <2>1, AppendProperties, SocketAssumption DEF Inv, ScanInv, SetType, Socks
  <2>4. State' = State /\ State # "down"
    BY <1>0, <2>2, <2>3 DEF State
  <2>5. Where[s] = "free" /\ \A d \in Callers : got[d] # s
    BY <2>1, WhereFacts
  <2>6. Where' = [Where EXCEPT ![s] = "acceptor"]
    BY <2>1, <2>2, <2>5 DEF Where
  <2>7. Abs!Connect(s)
    BY <2>4, <2>5, <2>6 DEF Abs!Connect
  <2> QED BY <2>1, <2>7 DEF AbsStep, Abs!Next
<1>2. CASE ClientCloses(c)
  <2>1. /\ UNCHANGED <<got, open, alive, index, oldest, pc>> /\ Take(index) /\ index \in 2 .. last
    BY <1>2, ExamineFacts DEF ClientCloses, Inv
  <2>2. oldest = 0 \/ oldest < index
    BY DEF Inv, ScanInv, SetType, OldestInv
  <2>3. set' # <<>>
    BY <1>0, <2>1, <2>2, TakeScan DEF Inv
  <2> QED BY <1>0, <2>1, <2>3, Unseen DEF AbsStep
<1>3. CASE ClientReady(c)
  <2>1. /\ UNCHANGED <<open, alive, index>> /\ Take(index) /\ index \in 2 .. last /\ oldest' = 0
        /\ set[index] \in Clients /\ got' = [got EXCEPT ![c] = set[index]] /\ index \in 1 .. Len(set)
        /\ pc[c] = "Scan"
    BY <1>3, ExamineFacts DEF ClientReady, Inv
  <2>2. set' # <<>>
    BY <1>0, <2>1, TakeScan DEF Inv
  <2>3. State' = State /\ State # "down"
    BY <1>0, <2>1, <2>2 DEF State
  <2>4. PICK s \in Clients : s = set[index]
    BY <2>1
  <2>5. s \in Held[TheSet]
    <3>1. s # Signal
      BY SocketAssumption DEF Socks
    <3>2. s \in Elems(set)
      BY <2>1, <2>4 DEF Elems, Inv, ScanInv, SetType
    <3> QED BY <3>1, <3>2, HeldNow
  <2>6. Where[s] = "acceptor" /\ s \in alive
    BY <2>4, <2>5, WhereFacts, HolderFacts
  <2>7. got \in [Callers -> Clients \cup {None}] /\ got[c] = None
    BY <2>1 DEF Inv, BoxInv, BoxType, OwnInv, GotInv, InGet
  <2>8. got'[c] = s /\ \A d \in Callers : d # c => got'[d] = got[d]
    BY <2>1, <2>4, <2>7
  <2>9. Where' = [Where EXCEPT ![s] = "task"]
    <3>1. \A x \in Clients : x # None
      BY SocketAssumption DEF Socks
    <3>2. \A x \in Clients \ {s} :
            (\E d \in Callers : got'[d] = x) <=> (\E d \in Callers : got[d] = x)
      BY <2>7, <2>8, <3>1
    <3>3. \E d \in Callers : got'[d] = s
      BY <2>8
    <3> QED BY <2>1, <2>4, <2>6, <3>2, <3>3 DEF Where
  <2>10. Abs!Get(s)
    BY <2>3, <2>6, <2>9 DEF Abs!Get
  <2> QED BY <2>4, <2>10 DEF AbsStep, Abs!Next
<1>4. CASE ScanEnds(c)
  <2>1. UNCHANGED <<got, open, alive, index>> /\ oldest' = 0
    BY <1>4 DEF ScanEnds
  <2>2. set' # <<>>
    <3>1. CASE oldest > 0 /\ last > CloseLength
      <4>1. Take(oldest)
        BY <1>4, <3>1 DEF ScanEnds
      <4>2. oldest # 1
        BY <1>0, <3>1, SocketAssumption DEF Inv, ScanInv, OldestInv, Socks
      <4>3. oldest \in 2 .. last
        BY <3>1, <4>2 DEF Inv, ScanInv, SetType, OldestInv
      <4> QED BY <1>0, <2>1, <4>1, <4>3, TakeScan DEF Inv
    <3>2. CASE ~(oldest > 0 /\ last > CloseLength)
      BY <1>0, <1>4, <3>2 DEF ScanEnds
    <3> QED BY <3>1, <3>2
  <2> QED BY <1>0, <2>1, <2>2, Unseen DEF AbsStep
<1> QED BY <1>1, <1>2, <1>3, <1>4

\* A task gives its connection back or closes it.
LEMMA TaskRefines ==
  ASSUME Inv, NEW c \in Callers, Give_Back(c) \/ Close(c)
  PROVE  AbsStep
<1> USE DEF setVars, getVars, boxVars, shutVars
<1>1. PICK s : s = got[c] /\ s # None
  BY DEF Give_Back, Close
<1>2. s \in Clients /\ s \in alive /\ Where[s] = "task"
  BY <1>1, WhereFacts
<1>3. got \in [Callers -> Clients \cup {None}] /\ got' = [got EXCEPT ![c] = None] /\ UNCHANGED set
  BY DEF Give_Back, Close, Inv, BoxInv, BoxType
<1>4. got'[c] = None /\ \A d \in Callers : d # c => got'[d] = got[d]
  BY <1>3
<1>5. \A d \in Callers : got'[d] # s
  <2>1. ASSUME NEW d \in Callers, d # c PROVE got[d] # s
    <3>1. s \in Held[Task(c)] /\ Task(c) # Task(d) /\ Task(c) \in Holders /\ Task(d) \in Holders
      BY <1>1, <2>1, HeldNow, HolderFacts
    <3>2. s \notin Held[Task(d)]
      BY <3>1, HeldIsOwned DEF Inv
    <3> QED BY <1>1, <3>2, HeldNow
  <2> QED BY <1>1, <1>4, <2>1
<1>6. \A x \in Clients \ {s} : (\E d \in Callers : got'[d] = x) <=> (\E d \in Callers : got[d] = x)
  <2>1. \A x \in Clients : x # None
    BY SocketAssumption DEF Socks
  <2> QED BY <1>1, <1>4, <2>1
<1>7. CASE Give_Back(c)
  <2>1. UNCHANGED <<alive, open>> /\ open
    BY <1>7 DEF Give_Back, BoxOpen, BoxAdd
  <2>2. State = "up" /\ State' = State
    BY <1>3, <2>1 DEF State
  <2>3. Where' = [Where EXCEPT ![s] = "acceptor"]
    BY <1>2, <1>5, <1>6, <2>1, ZenonT(60) DEF Where
  <2>4. Abs!Give_Back(s)
    BY <1>2, <2>2, <2>3 DEF Abs!Give_Back
  <2> QED BY <1>2, <2>4 DEF AbsStep, Abs!Next
<1>8. CASE Close(c)
  <2>1. UNCHANGED open /\ alive' = alive \ {s}
    BY <1>1, <1>8 DEF Close, Free
  <2>2. State' = State
    BY <1>3, <2>1 DEF State
  <2>3. Where' = [Where EXCEPT ![s] = "free"]
    BY <1>2, <1>6, <2>1 DEF Where
  <2>4. Abs!Close(s)
    BY <1>2, <2>2, <2>3 DEF Abs!Close
  <2> QED BY <1>2, <2>4 DEF AbsStep, Abs!Next
<1> QED BY <1>7, <1>8

\* The acceptor frees connections it owns.
LEMMA FreeRefines ==
  ASSUME Inv,
         \/ \E c \in Callers : WaitClose(c) \/ Flush(c) \/ WaitShutdown(c)
         \/ BoxShutdown \/ TryDirect
  PROVE  AbsStep
<1> USE DEF setVars, getVars, boxVars, shutVars
<1>0. /\ toClose \in [Callers -> Seq(Clients)]
      /\ TheSet \in Holders /\ TheBox \in Holders
      /\ \A c \in Callers : TheSet # Task(c) /\ TheBox # Task(c)
      /\ \A c \in Callers : ToClose(c) \in Holders /\ \A d \in Callers : ToClose(c) # Task(d)
  BY HolderFacts DEF Inv, OwnInv, OwnType
<1>a. Elems(set) \cap Clients \subseteq Held[TheSet]
  BY HeldNow, SocketAssumption DEF Socks
<1>b. Elems(box) \cap Clients \subseteq Held[TheBox]
  BY HeldNow, SocketAssumption DEF Socks
<1>1. ASSUME NEW c \in Callers, WaitClose(c) \/ Flush(c) PROVE AbsStep
  <2>1. UNCHANGED <<set, got, open>>
    BY <1>1 DEF WaitClose, Flush
  <2>2. State' = State
    BY <2>1 DEF State
  <2>3. PICK X : alive' = alive \ X /\ X \cap Clients \subseteq Held[ToClose(c)]
    <3>1. CASE WaitClose(c)
      <4>1. toClose[c] # <<>> /\ alive' = alive \ {Head(toClose[c])}
        BY <3>1 DEF WaitClose, Free
      <4>2. toClose[c] \in Seq(Clients) /\ NoDup(toClose[c])
        BY <1>0 DEF Inv, OwnInv, NoDups
      <4>3. Head(toClose[c]) \in Elems(toClose[c])
        BY <4>1, <4>2, TailNoDup
      <4>4. PICK X : X = {Head(toClose[c])}
        OBVIOUS
      <4>5. alive' = alive \ X /\ X \cap Clients \subseteq Held[ToClose(c)]
        BY <4>1, <4>3, <4>4, HeldNow
      <4> QED BY <4>5
    <3>2. CASE Flush(c)
      <4>1. alive' = alive \ Elems(toClose[c])
        BY <3>2 DEF Flush, Free
      <4> QED BY <4>1, HeldNow
    <3> QED BY <1>1, <3>1, <3>2
  <2>4. \E S \in SUBSET Clients : Abs!Expire(S)
    <3>1. PICK h \in Holders : h = ToClose(c)
      BY <1>0
    <3> QED BY <1>0, <2>1, <2>3, <3>1, Freed
  <2> QED BY <2>2, <2>4 DEF AbsStep, Abs!Next, Abs!Advance
<1>2. ASSUME NEW c \in Callers, WaitShutdown(c) PROVE AbsStep
  <2>1. /\ UNCHANGED <<got, open>> /\ pc[c] = "Wait" /\ set' = <<>>
        /\ alive' = alive \ Elems(set)
    BY <1>2 DEF WaitShutdown, WaitReturns, Shutdown_Internal, ClearSet, Free
  <2>2. set # <<>>
    BY <2>1, NoOldest DEF Inv
  <2>3. PICK r \in PollResults : SignalLost(r[1])
    BY <1>2 DEF WaitShutdown
  <2>4. ~open
    BY <2>2, <2>3, LostMeansClosed DEF Inv, ScanInv, PhaseInv
  <2>5. State = "closing" /\ State' = "down"
    BY <2>1, <2>2, <2>4 DEF State
  <2>6. \E S \in SUBSET Clients : Abs!Expire(S)
    BY <1>0, <1>a, <2>1, Freed
  <2> QED BY <2>5, <2>6 DEF AbsStep, Abs!Next, Abs!Advance
<1>3. CASE BoxShutdown
  <2>1. /\ UNCHANGED <<set, got>> /\ main = "Up" /\ open' = FALSE /\ alive' = alive \ Elems(box)
    BY <1>3 DEF BoxShutdown, Free
  <2>2. open /\ set # <<>>
    BY <2>1 DEF Inv, ScanInv, PhaseInv
  <2>3. State = "up" /\ State' = "closing"
    BY <2>1, <2>2 DEF State
  <2>4. \E S \in SUBSET Clients : Abs!Expire(S)
    BY <1>0, <1>b, <2>1, Freed
  <2> QED BY <2>3, <2>4 DEF AbsStep, Abs!Next, Abs!Advance
<1>4. CASE TryDirect
  <2>1. /\ UNCHANGED <<got, open>> /\ main = "Try" /\ set' = <<>>
        /\ alive' = alive \ Elems(set)
    BY <1>4 DEF TryDirect, Shutdown_Internal, ClearSet, Free
  <2>2. ~open
    BY <2>1 DEF Inv, ScanInv, PhaseInv
  <2>3. State \in {"closing", "down"} /\ State' = "down"
    BY <2>1, <2>2 DEF State
  <2>4. \E S \in SUBSET Clients : Abs!Expire(S)
    BY <1>0, <1>a, <2>1, Freed
  <2> QED BY <2>3, <2>4 DEF AbsStep, Abs!Next, Abs!Advance
<1> QED BY <1>1, <1>2, <1>3, <1>4

\* The other steps are not seen.
LEMMA QuietRefines ==
  ASSUME Inv,
         \/ \E c \in Callers : \/ Seize(c) \/ ListenError(c) \/ NoAccept(c) \/ ClientStays(c)
                             \/ WaitQuiet(c) \/ WaitSignal(c) \/ WaitFails(c) \/ FetchEnds(c)
                             \/ Fetch(c)
         \/ \E s \in Socks : Arrives(s) \/ Fails(s)
         \/ \E e \in Extra : Add_Listening(e) \/ AddServer(e)
         \/ CloseSignal \/ TryBusy \/ WaitEmpty \/ WaitEmptyExpires
         \/ UNCHANGED vars
  PROVE  AbsStep
<1> USE DEF setVars, getVars, boxVars, shutVars
<1>1. CASE \/ \E c \in Callers : \/ Seize(c) \/ ListenError(c) \/ NoAccept(c) \/ ClientStays(c)
                               \/ WaitQuiet(c) \/ WaitSignal(c) \/ WaitFails(c) \/ FetchEnds(c)
           \/ \E s \in Socks : Arrives(s) \/ Fails(s)
           \/ \E e \in Extra : AddServer(e)
           \/ CloseSignal \/ TryBusy \/ WaitEmpty \/ WaitEmptyExpires
           \/ UNCHANGED vars
  <2>1. UNCHANGED <<got, open, set, alive>>
    BY <1>1 DEF Seize, ListenError, NoAccept, ClientStays, WaitQuiet, WaitSignal, WaitFails, FetchEnds,
       Arrives, Fails, AddServer, CloseSignal, TryBusy, WaitEmpty, WaitEmptyExpires, vars
  <2> QED BY <2>1, Unseen DEF AbsStep
<1>2. ASSUME NEW c \in Callers, Fetch(c) PROVE AbsStep
  <2>1. /\ UNCHANGED <<got, open, alive>> /\ pc[c] = "Fetch" /\ box # <<>>
        /\ set' = set \/ (set' = Append(set, Head(box)) /\ Head(box) # None)
    BY <1>2 DEF Fetch
  <2>2. set # <<>>
    BY <2>1, NoOldest DEF Inv
  <2>3. set' # <<>>
    <3>1. Head(box) \in Socks \cup {None}
      BY <2>1, HeadTailProperties DEF Inv, BoxInv, BoxType
    <3> QED BY <2>1, <2>2, <3>1, AppendProperties DEF Inv, ScanInv, SetType
  <2> QED BY <2>1, <2>2, <2>3, Unseen DEF AbsStep
<1>3. ASSUME NEW e \in Extra, Add_Listening(e) PROVE AbsStep
  <2>1. UNCHANGED <<got, open, set>> /\ alive' = alive \cup {e}
    BY <1>3 DEF Add_Listening, BoxAdd
  <2>2. e \notin Clients
    BY SocketAssumption DEF Listeners
  <2> QED BY <2>1, <2>2, Unseen DEF AbsStep
<1> QED BY <1>1, <1>2, <1>3

LEMMA RefinesNext == Inv /\ [Next]_vars => [Abs!Next]_<<Where, State>>
<1> SUFFICES ASSUME Inv, [Next]_vars PROVE AbsStep
  BY DEF AbsStep
<1>1. CASE UNCHANGED vars
  BY <1>1, QuietRefines
<1>2. CASE \E c \in Callers : CallerStep(c) \/ WaitFails(c)
  BY <1>2, QuietRefines, TakeRefines, TaskRefines, FreeRefines DEF CallerStep, GetStep, WaitStep
<1>3. CASE \/ \E s \in Socks : Arrives(s) \/ Fails(s)
           \/ \E e \in Extra : Add_Listening(e) \/ AddServer(e)
           \/ BoxShutdown \/ MainStep
  BY <1>3, QuietRefines, FreeRefines DEF MainStep
<1> QED BY <1>1, <1>2, <1>3 DEF Next

\* The acceptor with its poll set, box, signalling pair and To_Close lists is
\* an implementation of AcceptorAbs: a connection goes from the acceptor to
\* one task and back, Give_Back fails from the moment Shutdown is called, and
\* nothing is accepted or handed out once the shutdown is made.
THEOREM AcceptorImplements == Spec => Implements
BY RefinesInit, RefinesNext, OwnInvariance, PTL DEF Spec, Implements, Abs!Spec
=============================================================================
