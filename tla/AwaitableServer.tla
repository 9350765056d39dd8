--------------------------- MODULE AwaitableServer ---------------------------
(***************************************************************************)
(* asio/benchmark/benchmark_st.cpp and asio/tests/test_cpp20_coroutine.cpp: *)
(* the same accept loop on asio::awaitable, one thread and one io_context. *)
(* The first program answers every read with one response, the second      *)
(* echoes what it read. An error is an exception: co_spawn(..., detached)  *)
(* swallows it, so a coroutine that throws just ends. Nothing guards the   *)
(* context: run(), and main with it, returns when no operation is left.    *)
(*                                                                         *)
(* Between two co_awaits no other coroutine runs: a resumption up to the   *)
(* next co_await is one action, except where the client can act meanwhile. *)
(***************************************************************************)
EXTENDS Integers, FiniteSets

CONSTANTS
  Conns,    \* bound: client connections
  MaxSent,  \* bound: units of data a client sends
  MaxFd     \* bound: the largest fd_limit

ASSUME AwaitableAssumption ==
  IsFiniteSet(Conns) /\ MaxSent \in Nat /\ MaxFd \in Nat \ {0}

VARIABLES
  program,   \* which of the two programs this is; it never changes
  fd_limit,  \* sockets the process can have open at once; it never changes
  listener,  \* the listen() coroutine
  main,      \* "setup", "run" or "returned"
  conn,      \* the process() or echo() of each connection
  nread,     \* what its last read returned
  peer,      \* the client's end of the connection
  stalled,   \* clients that do not read, so that a write to them waits
  unread,    \* sent by the client, not read
  sent,      \* history: sent by the client
  received   \* history: written back to the client

awaitableVars == <<program, fd_limit, listener, main, conn, nread, peer, stalled, unread,
                   sent, received>>
serverVars == <<program, fd_limit, listener, main>>
peerVars == <<peer, stalled, unread, sent>>

AwaitableTypeOK ==
  /\ program \in {"benchmark_st", "test_cpp20_coroutine"}
  /\ fd_limit \in 1 .. MaxFd
  /\ listener \in {"spawned", "accepting", "accepted", "throwing", "ended"}
  /\ main \in {"setup", "run", "returned"}
  /\ conn \in [Conns -> {"absent", "backlog", "accepted", "spawned", "reading",
                         "writing", "closed"}]
  /\ nread \in [Conns -> 0 .. MaxSent]
  /\ peer \in [Conns -> {"up", "fin", "reset"}]
  /\ stalled \in SUBSET Conns
  /\ unread \in [Conns -> 0 .. MaxSent]
  /\ sent \in [Conns -> 0 .. MaxSent]
  /\ received \in [Conns -> Nat]

AwaitableInit ==
  /\ program \in {"benchmark_st", "test_cpp20_coroutine"}
  /\ fd_limit \in 1 .. MaxFd
  /\ listener = "spawned"
  /\ main = "setup"
  /\ conn = [k \in Conns |-> "absent"]
  /\ nread = [k \in Conns |-> 0]
  /\ peer = [k \in Conns |-> "up"]
  /\ stalled = {}
  /\ unread = [k \in Conns |-> 0]
  /\ sent = [k \in Conns |-> 0]
  /\ received = [k \in Conns |-> 0]

-----------------------------------------------------------------------------
OpenSockets == {k \in Conns : conn[k] \in {"accepted", "spawned", "reading", "writing"}}
Backlog == {k \in Conns : conn[k] = "backlog"}

\* The acceptor listens since the constructor; io_context.run() comes next.
StartRun ==
  /\ main = "setup"
  /\ main' = "run"
  /\ UNCHANGED <<program, fd_limit, listener, conn, nread, peerVars, received>>

\* co_spawn has queued listen(): it runs to its first async_accept.
ListenStarts ==
  /\ main = "run"
  /\ listener = "spawned"
  /\ listener' = "accepting"
  /\ UNCHANGED <<program, fd_limit, main, conn, nread, peerVars, received>>

\* async_accept succeeds.
AcceptDone(k) ==
  /\ main = "run"
  /\ listener = "accepting"
  /\ k \in Backlog
  /\ Cardinality(OpenSockets) < fd_limit
  /\ conn' = [conn EXCEPT ![k] = "accepted"]
  /\ listener' = "accepted"
  /\ UNCHANGED <<program, fd_limit, main, nread, peerVars, received>>

\* A variant with a bug: listen() does not accept again.
SpawnProcessOnce(k) ==
  /\ conn[k] = "accepted"
  /\ peer[k] # "reset"
  /\ conn' = [conn EXCEPT ![k] = "spawned"]
  /\ UNCHANGED <<serverVars, nread, peerVars, received>>

\* remote_endpoint, co_spawn of the connection's coroutine, next async_accept.
SpawnProcess(k) ==
  /\ conn[k] = "accepted"
  /\ peer[k] # "reset"
  /\ conn' = [conn EXCEPT ![k] = "spawned"]
  /\ listener' = "accepting"
  /\ UNCHANGED <<program, fd_limit, main, nread, peerVars, received>>

\* remote_endpoint throws on a connection reset meanwhile: the socket goes, and
\* listen() with it.
RemoteEndpointThrows(k) ==
  /\ conn[k] = "accepted"
  /\ peer[k] = "reset"
  /\ conn' = [conn EXCEPT ![k] = "closed"]
  /\ listener' = "throwing"
  /\ UNCHANGED <<program, fd_limit, main, nread, peerVars, received>>

\* The detached completion of listen() drops the exception.
ListenEnds ==
  /\ listener = "throwing"
  /\ listener' = "ended"
  /\ UNCHANGED <<program, fd_limit, main, conn, nread, peerVars, received>>

\* async_accept throws when the process is out of file descriptors.
AcceptThrows ==
  /\ main = "run"
  /\ listener = "accepting"
  /\ Backlog # {}
  /\ Cardinality(OpenSockets) >= fd_limit
  /\ listener' = "throwing"
  /\ UNCHANGED <<program, fd_limit, main, conn, nread, peerVars, received>>

\* The spawned coroutine runs to its first read.
ProcessStarts(k) ==
  /\ main = "run"
  /\ conn[k] = "spawned"
  /\ conn' = [conn EXCEPT ![k] = "reading"]
  /\ UNCHANGED <<serverVars, nread, peerVars, received>>

\* The read completes (as_tuple: an error is a value) and the write is started.
ReadDone(k) ==
  /\ main = "run"
  /\ conn[k] = "reading"
  /\ peer[k] # "reset"
  /\ \E n \in 1 .. unread[k] : /\ unread' = [unread EXCEPT ![k] = @ - n]
                               /\ nread' = [nread EXCEPT ![k] = n]
  /\ conn' = [conn EXCEPT ![k] = "writing"]
  /\ UNCHANGED <<serverVars, peer, stalled, sent, received>>

\* A variant with a bug: the error is ignored and the read repeated.
ReadFailsUnchecked(k) ==
  /\ main = "run"
  /\ conn[k] = "reading"
  /\ peer[k] = "reset" \/ (peer[k] = "fin" /\ unread[k] = 0)
  /\ UNCHANGED awaitableVars

\* if (ec) co_return
ReadFails(k) ==
  /\ main = "run"
  /\ conn[k] = "reading"
  /\ peer[k] = "reset" \/ (peer[k] = "fin" /\ unread[k] = 0)
  /\ conn' = [conn EXCEPT ![k] = "closed"]
  /\ UNCHANGED <<serverVars, nread, peerVars, received>>

\* A variant with a bug: the whole buffer is echoed rather than what was read, and
\* the response is written twice.
WriteDoneBuffer(k) ==
  /\ main = "run"
  /\ conn[k] = "writing"
  /\ peer[k] # "reset"
  /\ conn' = [conn EXCEPT ![k] = "reading"]
  /\ received' = [received EXCEPT ![k] =
                    @ + IF program = "benchmark_st" THEN nread[k] + 1 ELSE MaxSent]
  /\ nread' = [nread EXCEPT ![k] = 0]
  /\ UNCHANGED <<serverVars, peerVars>>

\* async_write writes everything before the next read starts, as soon as the
\* client lets it fit in the buffers.
WriteDone(k) ==
  /\ main = "run"
  /\ conn[k] = "writing"
  /\ peer[k] # "reset"
  /\ k \notin stalled
  /\ conn' = [conn EXCEPT ![k] = "reading"]
  /\ received' = [received EXCEPT ![k] =
                    @ + IF program = "benchmark_st" THEN 1 ELSE nread[k]]
  /\ nread' = [nread EXCEPT ![k] = 0]
  /\ UNCHANGED <<serverVars, peerVars>>

\* The write throws: the coroutine ends, the exception is swallowed.
WriteThrows(k) ==
  /\ main = "run"
  /\ conn[k] = "writing"
  /\ peer[k] = "reset"
  /\ conn' = [conn EXCEPT ![k] = "closed"]
  /\ UNCHANGED <<serverVars, nread, peerVars, received>>

\* run() returns when listen() and all connections have ended; main returns.
RunReturns ==
  /\ main = "run"
  /\ listener = "ended"
  /\ OpenSockets = {}
  /\ main' = "returned"
  /\ UNCHANGED <<program, fd_limit, listener, conn, nread, peerVars, received>>

-----------------------------------------------------------------------------
(* Clients.                                                                *)

Connect(k) ==
  /\ main # "returned"
  /\ conn[k] = "absent"
  /\ conn' = [conn EXCEPT ![k] = "backlog"]
  /\ UNCHANGED <<serverVars, nread, peerVars, received>>

Send(k) ==
  /\ conn[k] # "absent"
  /\ peer[k] = "up"
  /\ sent[k] < MaxSent
  /\ sent' = [sent EXCEPT ![k] = @ + 1]
  /\ unread' = [unread EXCEPT ![k] = @ + 1]
  /\ UNCHANGED <<serverVars, conn, nread, peer, stalled, received>>

HangUp(k) ==
  /\ conn[k] # "absent"
  /\ peer[k] = "up"
  /\ \E how \in {"fin", "reset"} :
       /\ peer' = [peer EXCEPT ![k] = how]
       /\ stalled' = IF how = "reset" THEN stalled \ {k} ELSE stalled
  /\ UNCHANGED <<serverVars, conn, nread, unread, sent, received>>

\* The client does not read, and a response does not fit in the buffers, until it
\* reads again.
Stall(k) ==
  /\ conn[k] = "writing"
  /\ peer[k] # "reset"
  /\ stalled' = IF k \in stalled THEN stalled \ {k} ELSE stalled \union {k}
  /\ UNCHANGED <<serverVars, conn, nread, peer, unread, sent, received>>

Listen ==
  \/ ListenStarts \/ AcceptThrows \/ ListenEnds
  \/ \E k \in Conns : AcceptDone(k) \/ SpawnProcess(k) \/ RemoteEndpointThrows(k)
Process(k) ==
  ProcessStarts(k) \/ ReadDone(k) \/ ReadFails(k) \/ WriteDone(k) \/ WriteThrows(k)

AwaitableNext ==
  \/ StartRun \/ Listen \/ RunReturns
  \/ \E k \in Conns : Process(k) \/ Connect(k) \/ Send(k) \/ HangUp(k) \/ Stall(k)

\* The event loop executes what is ready, in the order it became ready: an
\* operation that can complete stays so, except a write whose client stops
\* reading again. Nothing is assumed of clients.
AwaitableSpec ==
  /\ AwaitableInit /\ [][AwaitableNext]_awaitableVars
  /\ WF_awaitableVars(StartRun) /\ WF_awaitableVars(Listen) /\ WF_awaitableVars(RunReturns)
  /\ \A k \in Conns : WF_awaitableVars(Process(k)) /\ SF_awaitableVars(WriteDone(k))

-----------------------------------------------------------------------------
(* Properties.                                                             *)

\* The echo server returns every unit once and in turn: what came back, what is
\* being written and what is unread is what the client sent.
EchoConserves ==
  program = "test_cpp20_coroutine" =>
    \A k \in Conns :
      received[k] + nread[k] + unread[k] = sent[k]

\* Unlike benchmark_mt, a server that cannot accept any more exits in the end:
\* once its clients have hung up, of which none leaves an answer unread for ever.
ExitsAfterListenEnds ==
  (\A k \in Conns : []<>(k \notin stalled)) =>
    ((listener = "ended" /\ \A k \in OpenSockets : peer[k] # "up") ~>
       (main = "returned" \/ \E k \in OpenSockets : peer[k] = "up"))

\* The server implements the abstract service: a detached exception ends the
\* accept loop for good but no connection of another client.
Clients == INSTANCE ConnectionService WITH
  Conns <- Conns,
  client <- [k \in Conns |->
               CASE conn[k] \in {"absent", "closed"} -> conn[k]
                 [] conn[k] = "backlog" -> "waiting"
                 [] OTHER -> "open"],
  gone <- {k \in Conns : peer[k] # "up"},
  stalled <- stalled,
  service <- IF main = "returned" THEN "down"
             ELSE IF listener = "ended" THEN "draining" ELSE "accepting"
ServerRefinement == Clients!Spec
=============================================================================
