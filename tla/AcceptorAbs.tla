---------------------------- MODULE AcceptorAbs ----------------------------
(***************************************************************************)
(* What AWS.Net.Acceptors promises to the tasks that share an acceptor: it *)
(* owns the connections nobody serves, hands each one to exactly one task, *)
(* takes it back until Shutdown is called, and closes what it owns.  This  *)
(* is the acceptor as module Server sees it.                               *)
(***************************************************************************)
CONSTANTS
  Clients  \* connection socket objects

VARIABLES
  where,  \* who owns each connection: nobody, the acceptor or a task
  state   \* "up"; "closing": Shutdown was called; "down": nothing is left

Init ==
  /\ where = [s \in Clients |-> "free"]
  /\ state = "up"

\* A connection is accepted; a listening socket may outlive the call of
\* Shutdown for a while.
Connect(s) ==
  /\ state # "down"
  /\ where[s] = "free"
  /\ where' = [where EXCEPT ![s] = "acceptor"]
  /\ UNCHANGED state

\* Get returns the connection.
Get(s) ==
  /\ state # "down"
  /\ where[s] = "acceptor"
  /\ where' = [where EXCEPT ![s] = "task"]
  /\ UNCHANGED state

\* Give_Back succeeds: never once Shutdown was called.
Give_Back(s) ==
  /\ state = "up"
  /\ where[s] = "task"
  /\ where' = [where EXCEPT ![s] = "acceptor"]
  /\ UNCHANGED state

\* The task closes its connection.
Close(s) ==
  /\ where[s] = "task"
  /\ where' = [where EXCEPT ![s] = "free"]
  /\ UNCHANGED state

\* Connections the acceptor closes: time-out, error or shutdown.
Expire(S) ==
  /\ \A s \in S : where[s] = "acceptor"
  /\ where' = [s \in Clients |-> IF s \in S THEN "free" ELSE where[s]]

\* Shutdown goes one way.
Advance ==
  \/ state' = state
  \/ state = "up" /\ state' = "closing"
  \/ state = "closing" /\ state' = "down"

Next ==
  \/ \E s \in Clients : Connect(s) \/ Get(s) \/ Give_Back(s) \/ Close(s)
  \/ \E S \in SUBSET Clients : Expire(S) /\ Advance

Spec == Init /\ [][Next]_<<where, state>>
=============================================================================
