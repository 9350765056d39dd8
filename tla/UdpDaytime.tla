------------------------------ MODULE UdpDaytime ------------------------------
(***************************************************************************)
(* The UDP daytime servers of asio/tests and their client: test_udp_server *)
(* receives and answers in a loop; test_async_udp_server, and the UDP half *)
(* of test_async_tcp_udp_server, do it with callbacks that share one       *)
(* receive buffer and one remote_endpoint_. test_udp_client sends one      *)
(* datagram and waits for an answer. The network loses, reorders and       *)
(* duplicates datagrams.                                                   *)
(***************************************************************************)
EXTENDS Naturals, Sequences, FiniteSets

CONSTANTS
  Clients,
  MaxCopies,  \* bound: copies of a client's datagram that arrive
  InboxSize   \* datagrams (at least one) the receive buffer of the server's socket holds

VARIABLES
  program,          \* which server runs; it never changes
  server,           \* where its only thread is
  remote_endpoint,  \* remote_endpoint_: whom the last datagram came from
  inbox,            \* datagrams in the server's socket, by sender
  unsent,           \* answers that wait for the send buffer, by receiver
  answers,          \* answers in the network: receiver and text
  client,           \* where each client is
  arrived,          \* history: copies of a client's datagram that arrived
  asked,            \* history: datagrams received from a client
  given             \* history: answers given to the network, or refused by it

vars == <<program, server, remote_endpoint, inbox, unsent, answers, client, arrived,
          asked, given>>

Async == program # "test_udp_server"
UdpPrograms == {"test_udp_server", "test_async_udp_server", "test_async_tcp_udp_server"}

TypeOK ==
  /\ server \in {"receiving", "received", "failed", "down"}
  /\ remote_endpoint \in Clients
  /\ inbox \in Seq(Clients) /\ Len(inbox) <= InboxSize
  /\ unsent \in Seq(Clients)
  /\ answers \in SUBSET (Clients \X {"daytime", "garbage"})
  /\ client \in [Clients -> {"start", "waiting", "daytime", "garbage"}]
  /\ arrived \in [Clients -> 0 .. MaxCopies]
  /\ asked \in [Clients -> 0 .. MaxCopies]
  /\ given \in [Clients -> 0 .. MaxCopies]

\* remote_endpoint is not read before the first receive has set it.
UdpStarts ==
  /\ server = "receiving" /\ remote_endpoint \in Clients
  /\ inbox = <<>> /\ unsent = <<>> /\ answers = {}
  /\ client = [k \in Clients |-> "start"]
  /\ arrived = [k \in Clients |-> 0]
  /\ asked = [k \in Clients |-> 0]
  /\ given = [k \in Clients |-> 0]

Init == program \in UdpPrograms /\ UdpStarts

-----------------------------------------------------------------------------
(* The server.                                                             *)

\* receive_from returns, or handle_receive is called without an error.
Receive ==
  /\ server = "receiving"
  /\ inbox # <<>>
  /\ remote_endpoint' = Head(inbox)
  /\ inbox' = Tail(inbox)
  /\ asked' = [asked EXCEPT ![Head(inbox)] = @ + 1]
  /\ server' = "received"
  /\ UNCHANGED <<program, unsent, answers, client, arrived, given>>

\* receive_from throws, which ends test_udp_server; handle_receive gets an error.
ReceiveFails ==
  /\ server = "receiving"
  /\ server' = IF Async THEN "failed" ELSE "down"
  /\ UNCHANGED <<program, remote_endpoint, inbox, unsent, answers, client, arrived,
                 asked, given>>

\* A variant with a bug: no receive is started after an error.
ReceiveAgainNever ==
  /\ server = "failed"
  /\ server' = "down"
  /\ UNCHANGED <<program, remote_endpoint, inbox, unsent, answers, client, arrived,
                 asked, given>>

\* handle_receive with an error: only the next receive is started.
ReceiveAgain ==
  /\ server = "failed"
  /\ server' = "receiving"
  /\ UNCHANGED <<program, remote_endpoint, inbox, unsent, answers, client, arrived,
                 asked, given>>

\* A text goes to the network, which may lose it.
Give(k, texts) ==
  /\ given' = [given EXCEPT ![k] = @ + 1]
  /\ \E lost \in BOOLEAN, text \in texts :
       answers' = IF lost THEN answers ELSE answers \union {<<k, text>>}

\* The answer is handed to the network, or refused with an error nobody looks at.
\* Then the next receive is started.
Answer ==
  /\ server = "received"
  /\ unsent = <<>>
  /\ Give(remote_endpoint, {"daytime"})
  /\ server' = "receiving"
  /\ UNCHANGED <<program, remote_endpoint, inbox, unsent, client, arrived, asked>>

\* The send buffer is full, or others wait: asio keeps the destination by value
\* and of the text a pointer into a string that is destroyed with the statement.
AnswerLater ==
  /\ Async
  /\ server = "received"
  /\ unsent' = Append(unsent, remote_endpoint)
  /\ server' = "receiving"
  /\ UNCHANGED <<program, remote_endpoint, inbox, answers, client, arrived, asked,
                 given>>

\* A variant with a bug: the destination is the remote_endpoint_ of this moment.
FlushToLast ==
  /\ server = "receiving"
  /\ unsent # <<>>
  /\ Give(remote_endpoint, {"daytime", "garbage"})
  /\ unsent' = Tail(unsent)
  /\ UNCHANGED <<program, server, remote_endpoint, inbox, client, arrived, asked>>

\* The socket takes a waiting answer: what has become of the text is undefined.
Flush ==
  /\ server = "receiving"
  /\ unsent # <<>>
  /\ Give(Head(unsent), {"daytime", "garbage"})
  /\ unsent' = Tail(unsent)
  /\ UNCHANGED <<program, server, remote_endpoint, inbox, client, arrived, asked>>

-----------------------------------------------------------------------------
(* The network and the clients.                                            *)

\* send_to, then receive_from blocks.
Ask(k) ==
  /\ client[k] = "start"
  /\ client' = [client EXCEPT ![k] = "waiting"]
  /\ UNCHANGED <<program, server, remote_endpoint, inbox, unsent, answers, arrived,
                 asked, given>>

\* A copy arrives, unless the socket is full; a loss is a copy that never does.
Arrive(k) ==
  /\ client[k] # "start"
  /\ arrived[k] < MaxCopies
  /\ arrived' = [arrived EXCEPT ![k] = @ + 1]
  /\ inbox' = IF Len(inbox) < InboxSize THEN Append(inbox, k) ELSE inbox
  /\ UNCHANGED <<program, server, remote_endpoint, unsent, answers, client, asked,
                 given>>

\* The first answer is printed; later ones find no client.
GetAnswer(k, text) ==
  /\ client[k] = "waiting"
  /\ <<k, text>> \in answers
  /\ client' = [client EXCEPT ![k] = text]
  /\ UNCHANGED <<program, server, remote_endpoint, inbox, unsent, answers, arrived,
                 asked, given>>

-----------------------------------------------------------------------------
Serve == Receive \/ ReceiveAgain \/ Answer \/ AnswerLater \/ Flush

Next ==
  \/ Serve \/ ReceiveFails
  \/ \E k \in Clients : Ask(k) \/ Arrive(k)
  \/ \E k \in Clients, text \in {"daytime", "garbage"} : GetAnswer(k, text)

\* The event loop executes what is ready in its order: a receive and a send that
\* can complete again and again do. Nothing is assumed of clients and network.
Spec ==
  /\ Init /\ [][Next]_vars
  /\ SF_vars(Receive) /\ SF_vars(Flush)
  /\ WF_vars(ReceiveAgain) /\ WF_vars(Answer \/ AnswerLater)

-----------------------------------------------------------------------------
(* Properties.                                                             *)

\* How often x is in the sequence s.
Count(s, x) == Cardinality({i \in 1 .. Len(s) : s[i] = x})

Waiting(k) ==
  Count(unsent, k)
  + IF server = "received" /\ remote_endpoint = k THEN 1 ELSE 0

\* Every datagram received is answered once and to its sender, though all
\* receives share remote_endpoint_ and answers may wait across many of them.
AnsweredOnceToSender ==
  \A k \in Clients : asked[k] = given[k] + Waiting(k)

\* Receive errors and late answers never stop the callbacks from receiving: what
\* is in the socket is received and answered. The loop of test_udp_server ends
\* with its first error.
EveryDatagramAnswered ==
  \A k \in Clients, n \in 0 .. MaxCopies :
    (Count(inbox, k) > 0 /\ given[k] = n) ~> (server = "down" /\ ~Async) \/ given[k] > n
=============================================================================
