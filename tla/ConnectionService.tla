-------------------------- MODULE ConnectionService --------------------------
(***************************************************************************)
(* What a TCP server promises its clients: while it accepts, a waiting     *)
(* client is admitted sooner or later; a connection ends when its client   *)
(* has hung up, and then it does end, unless the client holds up what is   *)
(* being written to it. The server may stop accepting for good and serve   *)
(* out its open connections, and it may go down.                           *)
(***************************************************************************)
CONSTANT Conns

VARIABLES
  client,  \* what became of each client
  gone,    \* the clients that hung up
  stalled, \* the clients that take nothing that is written to them
  service  \* "accepting", "draining" or "down"

vars == <<client, gone, stalled, service>>

Init ==
  /\ client = [k \in Conns |-> "absent"]
  /\ gone = {}
  /\ stalled = {}
  /\ service = "accepting"

Connect(k) ==
  /\ client[k] = "absent"
  /\ client' = [client EXCEPT ![k] = "waiting"]
  /\ UNCHANGED <<gone, stalled, service>>

HangUp(k) ==
  /\ client[k] # "absent"
  /\ gone' = gone \union {k}
  /\ stalled' \in {stalled, stalled \ {k}}
  /\ UNCHANGED <<client, service>>

\* The client stops taking what it is sent, or takes it again.
Stall(k) ==
  /\ stalled' \in {stalled \union {k}, stalled \ {k}}
  /\ UNCHANGED <<client, gone, service>>

Admit(k) ==
  /\ service = "accepting"
  /\ client[k] = "waiting"
  /\ client' = [client EXCEPT ![k] = "open"]
  /\ UNCHANGED <<gone, stalled, service>>

\* Only the connection of a client that hung up is closed.
Finish(k) ==
  /\ service # "down"
  /\ client[k] = "open"
  /\ k \in gone
  /\ client' = [client EXCEPT ![k] = "closed"]
  /\ UNCHANGED <<gone, stalled, service>>

StopAccepting ==
  /\ service = "accepting"
  /\ service' = "draining"
  /\ UNCHANGED <<client, gone, stalled>>

GoDown ==
  /\ service # "down"
  /\ service' = "down"
  /\ UNCHANGED <<client, gone, stalled>>

Next ==
  \/ \E k \in Conns : Connect(k) \/ HangUp(k) \/ Stall(k) \/ Admit(k) \/ Finish(k)
  \/ StopAccepting
  \/ GoDown

Fairness ==
  /\ WF_vars(\E k \in Conns : Admit(k))
  /\ \A k \in Conns : WF_vars(k \notin stalled /\ Finish(k))

Spec == Init /\ [][Next]_vars /\ Fairness
=============================================================================
