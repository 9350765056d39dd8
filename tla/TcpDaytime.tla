------------------------------ MODULE TcpDaytime ------------------------------
(***************************************************************************)
(* The TCP daytime servers of asio/tests and their client: test_tcp_server *)
(* accepts, writes and closes in a loop; test_async_tcp_server, and the    *)
(* TCP half of test_async_tcp_udp_server, do it with callbacks. Each keeps *)
(* a socket (in a tcp_connection, or on the stack) to accept into, here    *)
(* the object Spare; accepting makes it the object of the client.          *)
(*                                                                         *)
(* test_tcp_client writes "hello" before each read, and no server reads    *)
(* it. Closing a socket with unread data resets the connection, and so     *)
(* does data that arrives later; a reset may overtake the daytime.         *)
(***************************************************************************)
EXTENDS FiniteSets, Naturals

CONSTANTS
  Clients,
  NoClient,  \* names the object of an accept that failed
  Spare      \* names the object to accept into

ASSUME DaytimeAssumption ==
  NoClient \notin Clients /\ Spare \notin Clients /\ NoClient # Spare

VARIABLES
  program,  \* which server runs; it never changes
  server,   \* where its only thread is
  serving,  \* whom handle_accept, or the loop body, is executed for
  objects,  \* the connection objects that exist
  queue,    \* writes whose handler has not run
  client,   \* where each client is
  printed,  \* how often it printed the daytime
  backlog,  \* connections not accepted
  unread,   \* connections with a hello the server has not read
  daytime,  \* connections with the daytime on its way
  fin,      \* connections the server closed in good order
  rst       \* connections that were reset

vars == <<program, server, serving, objects, queue, client, printed, backlog, unread,
          daytime, fin, rst>>
serverVars == <<program, server, serving, objects, queue>>
clientVars == <<client, printed>>

Async == program # "test_tcp_server"
TcpPrograms == {"test_tcp_server", "test_async_tcp_server", "test_async_tcp_udp_server"}

TypeOK ==
  /\ server \in {"accepting", "accepted", "served", "down"}
  /\ serving \in Clients \union {NoClient}
  /\ objects \in SUBSET (Clients \union {NoClient, Spare})
  /\ client \in [Clients -> {"start", "write", "read", "clean", "error", "refused"}]
  /\ printed \in [Clients -> 0 .. 1]
  /\ \A s \in {queue, backlog, unread, daytime, fin, rst} : s \in SUBSET Clients

TcpStarts ==
  /\ server = "accepting" /\ serving = NoClient /\ objects = {Spare}
  /\ client = [k \in Clients |-> "start"]
  /\ printed = [k \in Clients |-> 0]
  /\ queue = {} /\ backlog = {} /\ unread = {} /\ daytime = {} /\ fin = {} /\ rst = {}

Init == program \in TcpPrograms /\ TcpStarts

-----------------------------------------------------------------------------
(* The server.                                                             *)

\* The spare object becomes the one of the connection k, or of a failure.
Accepted(k) ==
  /\ server = "accepting"
  /\ Spare \in objects
  /\ server' = "accepted"
  /\ serving' = k
  /\ objects' = (objects \ {Spare}) \union {k}

\* The accept handler is called, or accept() returns.
AcceptDone(k) ==
  /\ k \in backlog
  /\ backlog' = backlog \ {k}
  /\ Accepted(k)
  /\ UNCHANGED <<program, queue, clientVars, unread, daytime, fin, rst>>

\* handle_accept(ec); the synchronous accept() throws and ends the program, and
\* the kernel resets what was not accepted.
AcceptFails ==
  \/ /\ Async
     /\ Accepted(NoClient)
     /\ UNCHANGED <<program, queue, clientVars, backlog, unread, daytime, fin, rst>>
  \/ /\ ~Async
     /\ server = "accepting"
     /\ server' = "down"
     /\ objects' = {}
     /\ backlog' = {}
     /\ rst' = rst \union backlog
     /\ UNCHANGED <<program, serving, queue, clientVars, unread, daytime, fin>>

\* A variant with a bug: the next accept is started only after a success.
ServeStops ==
  /\ server = "accepted"
  /\ server' = "served"
  /\ IF serving = NoClient
     THEN UNCHANGED <<objects, queue, daytime>>
     ELSE /\ daytime' = daytime \union {serving}
          /\ queue' = IF Async THEN queue \union {serving} ELSE queue
          /\ objects' = IF Async THEN objects \union {Spare} ELSE objects
  /\ UNCHANGED <<program, serving, clientVars, backlog, unread, fin, rst>>

\* The daytime fits the empty send buffer of a new connection, so the kernel has
\* it when async_write or write returns. handle_accept starts the next accept
\* whatever the result of this one.
Serve ==
  /\ server = "accepted"
  /\ server' = "served"
  /\ IF serving = NoClient
     THEN UNCHANGED <<queue, daytime>>
     ELSE /\ daytime' = daytime \union {serving}
          /\ queue' = IF Async THEN queue \union {serving} ELSE queue
  /\ objects' = IF Async THEN objects \union {Spare} ELSE objects
  /\ UNCHANGED <<program, serving, clientVars, backlog, unread, fin, rst>>

\* Nobody but handle_accept's caller holds the shared_ptr: when it returns the
\* object is destroyed and its socket closed, as at the end of the loop body.
\* A hello that is there makes it a reset, one on its way is answered with one.
Release ==
  /\ server = "served"
  /\ server' = "accepting"
  /\ serving' = NoClient
  /\ objects' = IF Async THEN objects \ {serving} ELSE {Spare}
  /\ \/ serving = NoClient /\ UNCHANGED <<fin, rst>>
     \/ serving \in Clients \ unread /\ fin' = fin \union {serving} /\ UNCHANGED rst
     \/ serving \in unread /\ rst' = rst \union {serving} /\ UNCHANGED fin
     \/ serving \in unread /\ rst' = rst \union {serving} /\ fin' = fin \union {serving}
  /\ UNCHANGED <<program, queue, clientVars, backlog, unread, daytime>>

\* The event loop calls the handler of a write: this->handle_write().
HandleWrite(k) ==
  /\ server = "accepting"
  /\ k \in queue
  /\ queue' = queue \ {k}
  /\ UNCHANGED <<program, server, serving, objects, clientVars, backlog, unread,
                 daytime, fin, rst>>

-----------------------------------------------------------------------------
(* The clients: test_tcp_client.                                           *)

\* connect() waits in the backlog of the server, or throws without one.
Connect(k) ==
  /\ client[k] = "start"
  /\ IF server = "down"
     THEN client' = [client EXCEPT ![k] = "refused"] /\ UNCHANGED backlog
     ELSE client' = [client EXCEPT ![k] = "write"] /\ backlog' = backlog \union {k}
  /\ UNCHANGED <<serverVars, printed, unread, daytime, fin, rst>>

\* write_some("hello", ec), its error is overwritten by that of the read.
WriteHello(k) ==
  /\ client[k] = "write"
  /\ client' = [client EXCEPT ![k] = "read"]
  /\ IF k \in fin \union rst
     THEN rst' = rst \union {k} /\ UNCHANGED unread
     ELSE unread' = unread \union {k} /\ UNCHANGED rst
  /\ UNCHANGED <<serverVars, printed, backlog, daytime, fin>>

\* read_some returns the daytime, which the client prints.
ReadDaytime(k) ==
  /\ client[k] = "read"
  /\ k \in daytime
  /\ daytime' = daytime \ {k}
  /\ printed' = [printed EXCEPT ![k] = @ + 1]
  /\ client' = [client EXCEPT ![k] = "write"]
  /\ UNCHANGED <<serverVars, backlog, unread, fin, rst>>

\* A variant with a bug: an error counts as the end of the connection.
ReadEofAny(k) ==
  /\ client[k] = "read"
  /\ k \in fin \union rst
  /\ client' = [client EXCEPT ![k] = "clean"]
  /\ UNCHANGED <<serverVars, printed, backlog, unread, daytime, fin, rst>>

\* return 0
ReadEof(k) ==
  /\ client[k] = "read"
  /\ k \in fin \ daytime
  /\ client' = [client EXCEPT ![k] = "clean"]
  /\ UNCHANGED <<serverVars, printed, backlog, unread, daytime, fin, rst>>

\* return 2; the reset may have discarded the daytime.
ReadError(k) ==
  /\ client[k] = "read"
  /\ k \in rst
  /\ client' = [client EXCEPT ![k] = "error"]
  /\ daytime' = daytime \ {k}
  /\ UNCHANGED <<serverVars, printed, backlog, unread, fin, rst>>

-----------------------------------------------------------------------------
ClientStep(k) == WriteHello(k) \/ ReadDaytime(k) \/ ReadEof(k) \/ ReadError(k)

Next ==
  \/ AcceptFails \/ Serve \/ Release
  \/ \E k \in Clients : AcceptDone(k) \/ HandleWrite(k) \/ Connect(k) \/ ClientStep(k)

\* Threads run; the backlog is served in its order, and an accept that is tried
\* again and again succeeds. Whether a client connects is up to it.
Spec ==
  /\ Init /\ [][Next]_vars
  /\ WF_vars(Serve) /\ WF_vars(Release)
  /\ \A k \in Clients : /\ SF_vars(AcceptDone(k))
                        /\ WF_vars(HandleWrite(k))
                        /\ WF_vars(ClientStep(k))

-----------------------------------------------------------------------------
(* Properties.                                                             *)

\* A client that ends with 0 has printed the daytime, whatever the order of the
\* server's write and close and the client's hello.
CleanMeansPrinted ==
  \A k \in Clients : client[k] = "clean" => printed[k] = 1

\* Every client that connected is served and ends, also when accepts fail.
ClientsEnd ==
  \A k \in Clients :
    client[k] = "write" ~> client[k] \in {"clean", "error"}

\* The callback of a write is executed on a connection that still exists.
CallbackOnLiveObject ==
  [][\A k \in queue \ queue' : k \in objects]_vars
=============================================================================
