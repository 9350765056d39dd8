------------------------------ MODULE EchoRpc ------------------------------
(***************************************************************************)
(* The brpc echo programs.  echo/client.cpp calls Echo once a second, with *)
(* a timeout and retries, http_client.cpp once; the server is server.cpp,  *)
(* coroutine_server.cpp, whose Echo sleeps before it answers, or           *)
(* http_server.cpp.  brpc is external: a call is made in tries, a try      *)
(* whose connection fails or that a stopping server refuses is followed by *)
(* another, a timeout ends the call, and what answers an earlier try is    *)
(* dropped.  Requests and answers may be delayed and overtake each other;  *)
(* a failing connection loses those of its client.                         *)
(***************************************************************************)
EXTENDS Integers, FiniteSets

CONSTANTS
    Clients,
    max_retry,      \* of a channel, not counting the first try (3 in the code)
    MaxCalls,       \* bound: calls of a client
    MaxBreaks       \* bound: how often a connection breaks while the server runs

ASSUME RpcAssumption ==
    max_retry \in Nat /\ MaxCalls \in Nat \ {0} /\ MaxBreaks \in Nat

Programs == {"server", "coroutine_server", "http_server"}

VARIABLES
    program,        \* which server runs; http_server is called by http_client
    client,         \* where each client is, its call, the try and the result
    asked,          \* the processes asked to quit
    server,         \* where the server's main() is
    requests,       \* tries on their way to the server
    handlers,       \* calls of Echo, or their coroutines, with their response
    after,          \* tries whose done has run and whose messages still exist
    answers,        \* answers on their way to the clients
    breaks,
    accepted, answered  \* history: tries given to Echo, tries whose done has run

network == <<requests, answers>>
service == <<handlers, after, accepted, answered>>
vars == <<program, client, asked, server, network, service, breaks>>

-----------------------------------------------------------------------------

Try(c) == [c |-> c, id |-> client[c].id, try |-> client[c].try]
Message(t) == <<t.c, t.id>>
Empty == <<>>           \* the result of a call that failed
Unset == <<"unset">>    \* a response nobody has filled

Init ==
    /\ program \in Programs
    /\ client = [c \in Clients |-> [at |-> "init", id |-> 0, try |-> 0, result |-> Empty]]
    /\ asked = {} /\ server = "init"
    /\ requests = {} /\ answers = {}
    /\ handlers = {} /\ after = {}
    /\ accepted = {} /\ answered = {}
    /\ breaks = 0

TypeOK ==
    /\ \A c \in Clients :
         /\ client[c].at \in {"init", "loop", "calling", "returned", "end"}
         /\ client[c].id \in 0..MaxCalls /\ client[c].try \in 0..max_retry
    /\ asked \subseteq Clients \cup {"server"}
    /\ server \in {"init", "running", "stopping", "gone"}
    /\ \A h \in handlers : h.at \in {"Echo", "usleep", "return"} /\ h.try \in accepted
    /\ \A t \in requests \cup accepted : t.c \in Clients /\ t.id \in 1..MaxCalls
    /\ after \subseteq answered /\ answered \subseteq accepted
    /\ breaks \in 0..MaxBreaks

AskToQuit(p) ==
    /\ p \notin asked
    /\ asked' = asked \cup {p}
    /\ UNCHANGED <<program, client, server, network, service, breaks>>

-----------------------------------------------------------------------------
(* The clients.                                                            *)

Goto(c, place) == client' = [client EXCEPT ![c].at = place]

InitChannel(c, ok) ==
    /\ client[c].at = "init"
    /\ Goto(c, IF ok THEN "loop" ELSE "end")
    /\ UNCHANGED <<program, asked, server, network, service, breaks>>

\* A variant with a bug: the client does not look whether it should quit.
MayCallAlways(c) == TRUE

MayCall(c) == c \notin asked \/ program = "http_server"

Call(c) ==
    /\ client[c].at = "loop" /\ MayCall(c) /\ client[c].id < MaxCalls
    /\ client' = [client EXCEPT ![c] = [at |-> "calling", id |-> @.id + 1, try |-> 0,
                                        result |-> Empty]]
    /\ requests' = requests \cup {Try(c)'}
    /\ UNCHANGED <<program, asked, server, answers, service, breaks>>

Quit(c) ==
    /\ client[c].at = "loop" /\ ~MayCall(c)
    /\ Goto(c, "end")
    /\ UNCHANGED <<program, asked, server, network, service, breaks>>

\* The call returns: the client logs the answer or the error.
Return(c, result) ==
    client' = [client EXCEPT ![c].at = "returned", ![c].result = result]

Retry(c) ==
    IF client[c].try < max_retry THEN client' = [client EXCEPT ![c].try = @ + 1]
    ELSE Return(c, Empty)

NewTries(c) == IF client'[c].at = "calling" THEN {Try(c)'} ELSE {}

\* A variant with a bug: a call that times out is tried again.
TimeOutRetries(c) ==
    /\ client[c].at = "calling"
    /\ Retry(c)
    /\ requests' = requests \cup NewTries(c)
    /\ UNCHANGED <<program, asked, server, answers, service, breaks>>

TimeOut(c) ==
    /\ client[c].at = "calling"
    /\ Return(c, Empty)
    /\ UNCHANGED <<program, asked, server, network, service, breaks>>

\* An answer is for the try it names; one to an earlier try or call is dropped.
Receive(c) ==
    /\ \E a \in answers :
         /\ a.try.c = c
         /\ answers' = answers \ {a}
         /\ IF client[c].at = "calling" /\ a.try = Try(c)
            THEN IF a.refused THEN Retry(c) ELSE Return(c, a.message)
            ELSE UNCHANGED client
         /\ requests' = IF client'[c] # client[c] THEN requests \cup NewTries(c) ELSE requests
    /\ UNCHANGED <<program, asked, server, service, breaks>>

\* The connection breaks, or there is no server to connect to.
Disconnect(c) ==
    /\ client[c].at # "end"
    /\ IF server \in {"running", "stopping"} THEN breaks < MaxBreaks /\ breaks' = breaks + 1
       ELSE client[c].at = "calling" /\ UNCHANGED breaks
    /\ IF client[c].at = "calling" THEN Retry(c) ELSE UNCHANGED client
    /\ requests' = {t \in requests : t.c # c} \cup NewTries(c)
    /\ answers' = {a \in answers : a.try.c # c}
    /\ UNCHANGED <<program, asked, server, service>>

Sleep(c) ==
    /\ client[c].at = "returned"
    /\ Goto(c, IF program = "http_server" THEN "end" ELSE "loop")
    /\ UNCHANGED <<program, asked, server, network, service, breaks>>

-----------------------------------------------------------------------------
(* The server.                                                             *)

StartServer(ok) ==
    /\ server = "init"
    /\ server' = IF ok THEN "running" ELSE "gone"
    /\ UNCHANGED <<program, client, asked, network, service, breaks>>

Answer(t, message, refused) == [try |-> t, message |-> message, refused |-> refused]

\* A server that is stopping refuses new requests.
Accept(t) ==
    /\ server \in {"running", "stopping"} /\ t \in requests
    /\ requests' = requests \ {t}
    /\ IF server = "running"
       THEN /\ handlers' = handlers \cup {[try |-> t, at |-> "Echo", message |-> Unset]}
            /\ accepted' = accepted \cup {t}
            /\ UNCHANGED answers
       ELSE /\ answers' = answers \cup {Answer(t, Empty, TRUE)}
            /\ UNCHANGED <<handlers, accepted>>
    /\ UNCHANGED <<program, client, asked, server, after, answered, breaks>>

Becomes(h, new) ==
    /\ handlers' = (handlers \ {h}) \cup {new}
    /\ UNCHANGED <<program, client, asked, server, network, after, accepted, answered, breaks>>

SetMessage(h) ==
    Becomes(h, [try |-> h.try, at |-> "return", message |-> Message(h.try)])

\* A variant with a bug: Echo has a ClosureGuard too, which runs done at the first
\* co_await of the coroutine.
EchoGuards(h) ==
    /\ h.at = "Echo"
    /\ IF program = "coroutine_server"
       THEN /\ handlers' = (handlers \ {h}) \cup {[h EXCEPT !.at = "usleep"]}
            /\ answers' = answers \cup {Answer(h.try, h.message, FALSE)}
            /\ answered' = answered \cup {h.try}
            /\ UNCHANGED <<program, client, asked, server, requests, after, accepted, breaks>>
       ELSE SetMessage(h)

\* coroutine_server: Echo returns where its coroutine sleeps, with done in its frame.
Echo(h) ==
    /\ h.at = "Echo"
    /\ IF program = "coroutine_server" THEN Becomes(h, [h EXCEPT !.at = "usleep"])
       ELSE SetMessage(h)

\* How long it sleeps and how long a client waits are flags of two programs: the
\* call may be over by then, or not.
EchoAsync(h) ==
    /\ h.at = "usleep"
    /\ SetMessage(h)

\* A variant with a bug: there is no ClosureGuard.
ReturnWithoutDone(h) ==
    /\ h.at = "return"
    /\ handlers' = handlers \ {h}
    /\ UNCHANGED <<program, client, asked, server, network, after, accepted, answered, breaks>>

\* The ClosureGuard goes out of scope: done sends the response, then the callback is
\* called, if one was set, and the request and the response are destroyed.
RunDone(h) ==
    /\ h.at = "return"
    /\ handlers' = handlers \ {h}
    /\ answers' = answers \cup {Answer(h.try, h.message, FALSE)}
    /\ answered' = answered \cup {h.try}
    /\ after' = IF program = "coroutine_server" THEN after ELSE after \cup {h.try}
    /\ UNCHANGED <<program, client, asked, server, requests, accepted, breaks>>

CallAfterRpc(t) ==
    /\ t \in after
    /\ after' = after \ {t}
    /\ UNCHANGED <<program, client, asked, server, network, handlers, accepted, answered,
                   breaks>>

\* RunUntilAskedToQuit: Stop() and Join(), then main() returns.
Stop ==
    /\ server = "running" /\ "server" \in asked
    /\ server' = "stopping"
    /\ UNCHANGED <<program, client, asked, network, service, breaks>>

\* Join() counts the requests whose done has not run, not the calls of Echo: what goes
\* on after done it does not wait for.
Join ==
    /\ server = "stopping" /\ answered = accepted /\ after = {}
    /\ server' = "gone"
    /\ UNCHANGED <<program, client, asked, network, service, breaks>>

-----------------------------------------------------------------------------

ClientStep(c) ==
    \/ \E ok \in BOOLEAN : InitChannel(c, ok)
    \/ Call(c) \/ Quit(c) \/ TimeOut(c) \/ Sleep(c)

ServiceStep ==
    \/ \E h \in handlers : Echo(h) \/ EchoAsync(h) \/ RunDone(h)
    \/ \E t \in after : CallAfterRpc(t)

Next ==
    \/ \E p \in Clients \cup {"server"} : AskToQuit(p)
    \/ \E c \in Clients : ClientStep(c) \/ Receive(c) \/ Disconnect(c)
    \/ \E ok \in BOOLEAN : StartServer(ok)
    \/ \E t \in requests : Accept(t)
    \/ ServiceStep \/ Stop \/ Join

Spec == Init /\ [][Next]_vars

\* Threads are scheduled and timers expire.  Nothing is assumed of the network.
FairSpec ==
    /\ Spec
    /\ \A c \in Clients : WF_vars(ClientStep(c))
    /\ WF_vars(ServiceStep) /\ WF_vars(Stop) /\ WF_vars(Join)

-----------------------------------------------------------------------------
(* Properties.                                                             *)

\* client.cpp:65-71, server.cpp:56, coroutine_server.cpp:48-50: what a call returns is
\* the message of that very call, set before done has run, though answers to its earlier
\* tries and to calls that have timed out may still arrive.
AnswersAreOwn ==
    \A c \in Clients : client[c].result \in {Empty, <<c, client[c].id>>}

\* server.cpp:33, coroutine_server.cpp:37, 48, 92: a call of Echo, or the coroutine that
\* outlives it, is under way exactly while done has not run for its request. None still
\* uses a request or a response that done has destroyed, or a service that is gone, and
\* none ends and leaves its client and Join() waiting.
DoneEndsEcho ==
    /\ {h.try : h \in handlers} = accepted \ answered
    /\ server = "gone" => handlers = {}

\* client.cpp:33-34: a call reaches Echo again only after its connection has broken.  One
\* that times out while Echo is slow is not repeated.
RepeatedOnlyAfterBreak ==
    \A c \in Clients : \A id \in 1..MaxCalls :
      LET tries == {t \in accepted : t.c = c /\ t.id = id}
      IN Cardinality(tries) <= 1 + breaks /\ Cardinality(tries) <= 1 + max_retry

\* client.cpp:49-79, server.cpp:124: a process that is asked to quit ends, also while a
\* call is out, whatever the network and the others do.
AskedMeansQuit ==
    /\ \A c \in Clients : c \in asked ~> client[c].at = "end"
    /\ "server" \in asked ~> server \in {"init", "gone"}
=============================================================================
