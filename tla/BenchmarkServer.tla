--------------------------- MODULE BenchmarkServer ---------------------------
(***************************************************************************)
(* asio/benchmark/benchmark_mt.cpp: the multi-threaded HTTP benchmark      *)
(* server on an IOContextPool. main makes the pool and the server, whose   *)
(* constructor starts the listen() coroutine; then run() blocks. listen()  *)
(* takes the context of the next connection before it accepts it, and      *)
(* spawns a process() coroutine that reads and answers until a read fails. *)
(*                                                                         *)
(* Every operation is one of the pool's pending operations (IOContextPool  *)
(* counts them); a coroutine runs on the thread whose handler resumed it,  *)
(* and process() starts on the acceptor's thread but continues on its own. *)
(***************************************************************************)
EXTENDS IOContextPool

CONSTANTS
  Conns,    \* bound: client connections
  NoConn,
  MaxSent,  \* bound: buffers a client fills with requests
  MaxFd     \* bound: the largest fd_limit

ASSUME ServerAssumption ==
  /\ IsFiniteSet(Conns)
  /\ NoConn \notin Conns
  /\ MaxSent \in Nat
  /\ MaxFd \in Nat \ {0}
  /\ MaxOps > Cardinality(Conns)
  /\ MaxDispatch > Cardinality(Conns) + 1

VARIABLES
  listener,   \* where listen() is
  socket_ctx, \* the context of the socket it accepts into
  newest,     \* the connection it accepted last
  conn,       \* where the process() of each connection is
  home,       \* the context of its socket
  peer,       \* the client's end of the connection
  stalled,    \* clients that do not read, so that a write to them waits
  unread,     \* what it sent and process() has not read
  sent,       \* history: what it ever sent
  responses,  \* history: responses written to it
  crashed,    \* std::terminate was called
  fd_limit    \* sockets the process can have open at once (RLIMIT_NOFILE)

connVars == <<conn, home, responses>>
peerVars == <<peer, stalled, unread, sent>>
listenVars == <<listener, socket_ctx, newest>>
serverVars == <<poolVars, listenVars, connVars, peerVars, crashed, fd_limit>>

\* listen() runs, rather than waits in async_accept or is not there.
ListenerRuns == listener \in {"loop", "socket", "accepted", "failed", "spawning",
                              "unwinding"}

ServerTypeOK ==
  /\ TypeOK
  /\ listener \in {"none", "loop", "socket", "accepting", "accepted", "failed",
                   "spawning", "unwinding", "dead"}
  /\ socket_ctx \in Contexts
  /\ newest \in Conns \union {NoConn}
  /\ conn \in [Conns -> {"absent", "backlog", "accepted", "reading", "read", "eof",
                         "writing", "written", "closed"}]
  /\ home \in [Conns -> Contexts]
  /\ peer \in [Conns -> {"up", "fin", "reset"}]
  /\ stalled \in SUBSET Conns
  /\ unread \in [Conns -> 0 .. MaxSent]
  /\ sent \in [Conns -> 0 .. MaxSent]
  /\ responses \in [Conns -> Nat]
  /\ crashed \in BOOLEAN
  /\ fd_limit \in 1 .. MaxFd

ServerInit ==
  /\ Init
  /\ listener = "none"
  /\ socket_ctx = 0
  /\ newest = NoConn
  /\ conn = [k \in Conns |-> "absent"]
  /\ home = [k \in Conns |-> 0]
  /\ peer = [k \in Conns |-> "up"]
  /\ stalled = {}
  /\ unread = [k \in Conns |-> 0]
  /\ sent = [k \in Conns |-> 0]
  /\ responses = [k \in Conns |-> 0]
  /\ crashed = FALSE
  /\ fd_limit \in 1 .. MaxFd

-----------------------------------------------------------------------------
(* main() and the listen() coroutine.                                      *)

\* listen() is run by main, in the constructor of tcp_server, until its first
\* async_accept, and then by the thread of the acceptor's context.
ListenThread == IF main = "setup" THEN Main ELSE AcceptorContext

\* tcp_server: the acceptor, bound and listening, on the first context; spawn(listen()).
MakeServer ==
  /\ listener = "none"
  /\ GetIoContext(Main)
  /\ listener' = "loop"
  /\ UNCHANGED <<socket_ctx, newest, connVars, peerVars, crashed, fd_limit>>

\* A variant with a bug: run() does not wait for the constructor's spawn.
RunPoolEarly ==
  /\ listener # "none"
  /\ StartRun
  /\ UNCHANGED <<listenVars, connVars, peerVars, crashed, fd_limit>>

\* pool.run(), once spawn has returned.
RunPool ==
  /\ listener = "accepting"
  /\ StartRun
  /\ UNCHANGED <<listenVars, connVars, peerVars, crashed, fd_limit>>

\* A variant with a bug: the socket is made on the acceptor's context.
TakeAcceptorContext ==
  /\ listener = "loop"
  /\ GetIoContext(ListenThread)
  /\ socket_ctx' = AcceptorContext
  /\ listener' = "socket"
  /\ UNCHANGED <<newest, connVars, peerVars, crashed, fd_limit>>

\* The socket of the connection to come gets its context first.
TakeContext ==
  /\ listener = "loop"
  /\ GetIoContext(ListenThread)
  /\ socket_ctx' = next_io_context
  /\ listener' = "socket"
  /\ UNCHANGED <<newest, connVars, peerVars, crashed, fd_limit>>

\* co_await async_accept(acceptor_, socket).
StartAccept ==
  /\ listener = "socket"
  /\ PostOp(ListenThread, AcceptorContext)
  /\ listener' = "accepting"
  /\ UNCHANGED <<socket_ctx, newest, connVars, peerVars, crashed, fd_limit>>

OpenSockets == {k \in Conns : conn[k] \notin {"absent", "backlog", "closed"}}

\* The accept completes with the connection of k, and resumes listen().
AcceptDone(k) ==
  /\ listener = "accepting"
  /\ conn[k] = "backlog"
  /\ Cardinality(OpenSockets) < fd_limit
  /\ BeginHandler(AcceptorContext)
  /\ conn' = [conn EXCEPT ![k] = "accepted"]
  /\ home' = [home EXCEPT ![k] = socket_ctx]
  /\ newest' = k
  /\ listener' = "accepted"
  /\ UNCHANGED <<socket_ctx, responses, peerVars, crashed, fd_limit>>

\* Out of file descriptors: the accept of a waiting connection fails.
AcceptFails ==
  /\ listener = "accepting"
  /\ \E k \in Conns : conn[k] = "backlog"
  /\ Cardinality(OpenSockets) >= fd_limit
  /\ BeginHandler(AcceptorContext)
  /\ listener' = "failed"
  /\ UNCHANGED <<socket_ctx, newest, connVars, peerVars, crashed, fd_limit>>

\* if (ec) co_return: the frame destroys itself, nobody accepts any more.
ListenReturns ==
  /\ listener = "failed"
  /\ listener' = "dead"
  /\ UNCHANGED <<poolVars, socket_ctx, newest, connVars, peerVars, crashed, fd_limit>>

\* socket.remote_endpoint() throws on a connection that was reset meanwhile, and
\* TaskPromiseBase::unhandled_exception terminates the process; otherwise
\* listen() calls spawn(process(std::move(socket))).
RemoteEndpoint ==
  /\ listener = "accepted"
  /\ IF peer[newest] = "reset"
     THEN crashed' = TRUE /\ UNCHANGED listener
     ELSE listener' = "spawning" /\ UNCHANGED crashed
  /\ UNCHANGED <<poolVars, socket_ctx, newest, connVars, peerVars, fd_limit>>

\* A variant with a bug: the read is not started.
FirstReadForgotten ==
  /\ listener = "spawning"
  /\ conn' = [conn EXCEPT ![newest] = "reading"]
  /\ listener' = "unwinding"
  /\ UNCHANGED <<poolVars, socket_ctx, newest, home, responses, peerVars, crashed, fd_limit>>

\* The first async_read_some of process() is started by listen()'s thread on the
\* context of the connection, whose thread may continue process() at once, while
\* this one still returns from it.
FirstRead ==
  /\ listener = "spawning"
  /\ PostOp(AcceptorContext, home[newest])
  /\ conn' = [conn EXCEPT ![newest] = "reading"]
  /\ listener' = "unwinding"
  /\ UNCHANGED <<socket_ctx, newest, home, responses, peerVars, crashed, fd_limit>>

\* spawn returns to the loop of listen().
SpawnReturns ==
  /\ listener = "unwinding"
  /\ listener' = "loop"
  /\ UNCHANGED <<poolVars, socket_ctx, newest, connVars, peerVars, crashed, fd_limit>>

-----------------------------------------------------------------------------
(* The process() coroutine of connection k, on the thread of its context.  *)

\* A read returns some of what was sent, one buffer or several small ones.
ReadDone(k) ==
  /\ conn[k] = "reading"
  /\ peer[k] # "reset"
  /\ BeginHandler(home[k])
  /\ \E n \in 1 .. unread[k] : unread' = [unread EXCEPT ![k] = @ - n]
  /\ conn' = [conn EXCEPT ![k] = "read"]
  /\ UNCHANGED <<listenVars, home, responses, peer, stalled, sent, crashed, fd_limit>>

\* A variant with a bug: the error is not checked, process() answers it.
ReadFailsUnchecked(k) ==
  /\ conn[k] = "reading"
  /\ peer[k] = "reset" \/ (peer[k] = "fin" /\ unread[k] = 0)
  /\ responses[k] <= MaxSent
  /\ BeginHandler(home[k])
  /\ conn' = [conn EXCEPT ![k] = "read"]
  /\ UNCHANGED <<listenVars, home, responses, peerVars, crashed, fd_limit>>

\* End of file, or the connection was reset.
ReadFails(k) ==
  /\ conn[k] = "reading"
  /\ peer[k] = "reset" \/ (peer[k] = "fin" /\ unread[k] = 0)
  /\ BeginHandler(home[k])
  /\ conn' = [conn EXCEPT ![k] = "eof"]
  /\ UNCHANGED <<listenVars, home, responses, peerVars, crashed, fd_limit>>

\* if (ec) co_return: the frame and the socket in it are destroyed.
ProcessReturns(k) ==
  /\ conn[k] = "eof"
  /\ conn' = [conn EXCEPT ![k] = "closed"]
  /\ UNCHANGED <<poolVars, listenVars, home, responses, peerVars, crashed, fd_limit>>

StartWrite(k) ==
  /\ conn[k] = "read"
  /\ PostOp(home[k], home[k])
  /\ conn' = [conn EXCEPT ![k] = "writing"]
  /\ UNCHANGED <<listenVars, home, responses, peerVars, crashed, fd_limit>>

\* async_write completes once the response fits in the buffers, however long the
\* client leaves them full, or the connection is reset; its result is ignored.
WriteDone(k) ==
  /\ conn[k] = "writing"
  /\ k \notin stalled
  /\ BeginHandler(home[k])
  /\ conn' = [conn EXCEPT ![k] = "written"]
  /\ responses' = [responses EXCEPT ![k] = IF peer[k] = "reset" THEN @ ELSE @ + 1]
  /\ UNCHANGED <<listenVars, home, peerVars, crashed, fd_limit>>

NextRead(k) ==
  /\ conn[k] = "written"
  /\ PostOp(home[k], home[k])
  /\ conn' = [conn EXCEPT ![k] = "reading"]
  /\ UNCHANGED <<listenVars, home, responses, peerVars, crashed, fd_limit>>

\* A handler returns once the coroutines it resumed are suspended or gone.
HandlerReturns(c) ==
  /\ c = AcceptorContext => ~ListenerRuns
  /\ \A k \in Conns : home[k] = c => conn[k] \notin {"read", "eof", "written"}
  /\ EndHandler(c)
  /\ UNCHANGED <<listenVars, connVars, peerVars, crashed, fd_limit>>

-----------------------------------------------------------------------------
(* The pool's own steps, and the clients.                                  *)

PoolStep ==
  /\ \/ Construct \/ SpawnThread \/ JoinThread
     \/ \E c \in Contexts : EnterRun(c) \/ LeaveRun(c)
  /\ UNCHANGED <<listenVars, connVars, peerVars, crashed, fd_limit>>

Connect(k) ==
  /\ listener # "none"
  /\ conn[k] = "absent"
  /\ conn' = [conn EXCEPT ![k] = "backlog"]
  /\ UNCHANGED <<poolVars, listenVars, home, responses, peerVars, crashed, fd_limit>>

\* The client sends what fills a buffer of process(), or less.
Send(k) ==
  /\ conn[k] # "absent"
  /\ peer[k] = "up"
  /\ sent[k] < MaxSent
  /\ sent' = [sent EXCEPT ![k] = @ + 1]
  /\ unread' = [unread EXCEPT ![k] = @ + 1]
  /\ UNCHANGED <<poolVars, listenVars, connVars, peer, stalled, crashed, fd_limit>>

\* The client shuts down its side of the connection, and may still owe it the
\* reading of responses, or resets it.
HangUp(k) ==
  /\ conn[k] # "absent"
  /\ peer[k] = "up"
  /\ \E how \in {"fin", "reset"} :
       /\ peer' = [peer EXCEPT ![k] = how]
       /\ stalled' = IF how = "reset" THEN stalled \ {k} ELSE stalled
  /\ UNCHANGED <<poolVars, listenVars, connVars, unread, sent, crashed, fd_limit>>

\* The client does not read, and a response does not fit in the buffers, until it
\* reads again.
Stall(k) ==
  /\ conn[k] = "writing"
  /\ peer[k] # "reset"
  /\ stalled' = IF k \in stalled THEN stalled \ {k} ELSE stalled \union {k}
  /\ UNCHANGED <<poolVars, listenVars, connVars, peer, unread, sent, crashed, fd_limit>>

Listen ==
  \/ MakeServer \/ RunPool \/ TakeContext \/ StartAccept \/ ListenReturns
  \/ RemoteEndpoint \/ FirstRead \/ SpawnReturns
Accept == AcceptFails \/ \E k \in Conns : AcceptDone(k)
Process(k) == ProcessReturns(k) \/ StartWrite(k) \/ NextRead(k)
Completion(k) == ReadDone(k) \/ ReadFails(k) \/ WriteDone(k)

ServerNext ==
  /\ ~crashed
  /\ \/ Listen \/ Accept \/ PoolStep
     \/ \E k \in Conns : \/ Process(k) \/ Completion(k)
                        \/ Connect(k) \/ Send(k) \/ HangUp(k) \/ Stall(k)
     \/ \E c \in Contexts : HandlerReturns(c)

\* Threads run, and a context executes what is ready in the order it became
\* ready: an operation that can complete again and again does. Clients are free:
\* they need not send, read, or hang up.
ServerFairness ==
  /\ WF_serverVars(~crashed /\ Listen)
  /\ WF_serverVars(~crashed /\ PoolStep)
  /\ SF_serverVars(~crashed /\ Accept)
  /\ \A k \in Conns : /\ WF_serverVars(~crashed /\ Process(k))
                      /\ SF_serverVars(~crashed /\ Completion(k))
  /\ \A c \in Contexts : WF_serverVars(~crashed /\ HandlerReturns(c))

ServerSpec == ServerInit /\ [][ServerNext]_serverVars
FairServerSpec == ServerSpec /\ ServerFairness

-----------------------------------------------------------------------------
(* Properties.                                                             *)

\* No operation is lost or started twice: what is pending on a context is the
\* accept of a listener that waits for it, and one read or write for every
\* connection that waits for one.
OpsAccounted ==
  \A c \in Contexts :
    ops[c] = Cardinality({k \in Conns : home[k] = c /\ conn[k] \in {"reading", "writing"}})
             + IF c = AcceptorContext /\ listener = "accepting" THEN 1 ELSE 0

\* get_io_context is not locked: the listener that calls it runs on main before
\* run(), and afterwards inside a handler of the acceptor's context.
OneCallerOfGetIoContext ==
  ListenerRuns => main = "setup" \/ (main \in {"spawn", "join"} /\ busy[AcceptorContext])

\* Connections are dealt out evenly, although the acceptor took a turn of its own
\* and contexts are taken before the accept (listen): no context has been given
\* more than one connection more than another. Closed ones count; nothing
\* balances those that are open.
Spread ==
  \A c, d \in Contexts :
    LET On(x) == {k \in Conns : conn[k] \notin {"absent", "backlog"} /\ home[k] = x}
    IN Cardinality(On(c)) <= Cardinality(On(d)) + 1

\* process() never stops reading: what a client sent is read to the last buffer,
\* unless the connection was reset (the result of the write is not looked at), or
\* the client leaves a response unread for ever, for which async_write waits.
RequestsAreRead ==
  \A k \in Conns :
    []<>(k \notin stalled) =>
      ((conn[k] = "reading" /\ unread[k] > 0) ~> (unread[k] = 0 \/ peer[k] = "reset" \/ crashed))

\* The server implements the abstract service: it admits waiting clients until
\* an accept fails, closes the connections of clients that hung up, unless they
\* stall, and of no others, and goes down only through std::terminate.
Clients == INSTANCE ConnectionService WITH
  Conns <- Conns,
  client <- [k \in Conns |->
               CASE conn[k] \in {"absent", "closed"} -> conn[k]
                 [] conn[k] = "backlog" -> "waiting"
                 [] OTHER -> "open"],
  gone <- {k \in Conns : peer[k] # "up"},
  stalled <- stalled,
  service <- IF crashed THEN "down"
             ELSE IF listener \in {"failed", "dead"} THEN "draining" ELSE "accepting"
ServerRefinement == Clients!Spec
=============================================================================
