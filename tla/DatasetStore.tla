----------------------------- MODULE DatasetStore -----------------------------
(***************************************************************************)
(* What a dataset service promises to clients that keep out of each        *)
(* other's way: every call takes effect at one moment. A dataset being     *)
(* uploaded, or whose upload failed, is broken: it can be neither read nor *)
(* listed, and makes the whole listing fail.                               *)
(***************************************************************************)
CONSTANTS Names, Tables, Calls, None, Broken, Ok, Error

VARIABLES
  store,    \* the table of each dataset, None or Broken
  request,  \* what each call asks for: [op, name, table], or None
  answer    \* what each call was answered, or None

vars == <<store, request, answer>>

Init ==
  /\ store = [n \in Names |-> None]
  /\ request = [c \in Calls |-> None]
  /\ answer = [c \in Calls |-> None]

Requests ==
  [op : {"put"}, name : Names, table : Tables]
    \union [op : {"get", "info", "drop"}, name : Names, table : {None}]
    \union [op : {"list"}, name : {None}, table : {None}]

Ask(c) ==
  /\ request[c] = None
  /\ \E r \in Requests : request' = [request EXCEPT ![c] = r]
  /\ UNCHANGED <<store, answer>>

Open(c, op) == request[c] # None /\ answer[c] = None /\ request[c].op = op
Give(c, a) == answer' = [answer EXCEPT ![c] = a] /\ UNCHANGED request
Set(n, v) == store' = [store EXCEPT ![n] = v]

\* An upload breaks the dataset first; it then stores its table or fails.
StartPut(c) ==
  /\ Open(c, "put")
  /\ Set(request[c].name, Broken)
  /\ UNCHANGED <<request, answer>>

FinishPut(c) ==
  /\ Open(c, "put")
  /\ store[request[c].name] = Broken
  /\ Set(request[c].name, request[c].table)
  /\ Give(c, Ok)

FailPut(c) ==
  /\ Open(c, "put")
  /\ Give(c, Error)
  /\ UNCHANGED store

Get(c, op) ==
  /\ Open(c, op)
  /\ LET v == store[request[c].name]
     IN Give(c, IF v \in Tables THEN v ELSE Error)
  /\ UNCHANGED store

List(c) ==
  /\ Open(c, "list")
  /\ LET there == {n \in Names : store[n] # None}
     IN Give(c, IF \A n \in there : store[n] # Broken
                THEN {<<n, store[n]>> : n \in there}
                ELSE Error)
  /\ UNCHANGED store

Drop(c) ==
  /\ Open(c, "drop")
  /\ LET n == request[c].name
     IN IF store[n] = None
        THEN Give(c, Error) /\ UNCHANGED store
        ELSE Give(c, Ok) /\ Set(n, None)

Next ==
  \E c \in Calls :
    \/ Ask(c) \/ StartPut(c) \/ FinishPut(c) \/ FailPut(c)
    \/ Get(c, "get") \/ Get(c, "info") \/ List(c) \/ Drop(c)

\* Every call is answered, but an upload may wait for its client for ever.
Spec ==
  /\ Init /\ [][Next]_vars
  /\ \A c \in Calls : (request[c] # None /\ request[c].op # "put") ~> answer[c] # None
=============================================================================
