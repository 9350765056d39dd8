---------------------------- MODULE DaytimeServers ----------------------------
(***************************************************************************)
(* The daytime servers of asio/tests, of which one is started on port 13:  *)
(* over TCP (TcpDaytime), over UDP (UdpDaytime) or, in                     *)
(* test_async_tcp_udp_server, both on one io_context that a single thread  *)
(* runs. The two share no data, only that thread: a handler of one is over *)
(* before a handler of the other begins.                                   *)
(***************************************************************************)
EXTENDS TcpDaytime

CONSTANTS
  MaxCopies, InboxSize,
  BothClients   \* bound: the clients of the combined server

ASSUME BothAssumption ==
  /\ BothClients \subseteq Clients
  /\ MaxCopies \in Nat /\ InboxSize \in Nat \ {0}

VARIABLES udp_server, remote_endpoint, inbox, unsent, answers, udp_client, arrived,
          asked, given

Udp == INSTANCE UdpDaytime WITH server <- udp_server, client <- udp_client

tcpVars == <<server, serving, objects, queue, client, printed, backlog, unread,
             daytime, fin, rst>>
udpVars == <<udp_server, remote_endpoint, inbox, unsent, answers, udp_client, arrived,
             asked, given>>
bothVars == <<program, tcpVars, udpVars>>

BothInit ==
  /\ program \in TcpPrograms \union Udp!UdpPrograms
  /\ TcpStarts
  /\ Udp!UdpStarts

BothTypeOK == program \in TcpPrograms \union Udp!UdpPrograms /\ TypeOK /\ Udp!TypeOK

TcpRuns == program \in TcpPrograms
UdpRuns == program \in Udp!UdpPrograms

\* The thread is not in a handler of the other server.
TcpTurn == TcpRuns /\ udp_server \notin {"received", "failed"} /\ UNCHANGED udpVars
UdpTurn == UdpRuns /\ server \notin {"accepted", "served"} /\ UNCHANGED tcpVars

\* Who may be a client: the instance with both servers has fewer.
ClientsNow == IF TcpRuns /\ UdpRuns THEN BothClients ELSE Clients

TcpClients ==
  /\ TcpRuns /\ UNCHANGED udpVars
  /\ \E k \in ClientsNow : Connect(k) \/ ClientStep(k)

\* The clients of the UDP server, and the network.
UdpClients ==
  /\ UdpRuns /\ UNCHANGED tcpVars
  /\ \E k \in ClientsNow :
       \/ Udp!Ask(k) \/ Udp!Arrive(k)
       \/ \E text \in {"daytime", "garbage"} : Udp!GetAnswer(k, text)

BothNext ==
  \/ TcpTurn /\ (AcceptFails \/ Serve \/ Release)
  \/ TcpTurn /\ \E k \in Clients : AcceptDone(k) \/ HandleWrite(k)
  \/ TcpClients
  \/ UdpTurn /\ (Udp!Serve \/ Udp!ReceiveFails)
  \/ UdpClients

\* A handler that began goes on; the loop executes what is ready in its order, so
\* that neither server keeps the other from its turn for ever.
BothSpec ==
  /\ BothInit /\ [][BothNext]_bothVars
  /\ WF_bothVars(TcpTurn /\ Serve) /\ WF_bothVars(TcpTurn /\ Release)
  /\ \A k \in Clients : /\ SF_bothVars(TcpTurn /\ AcceptDone(k))
                        /\ SF_bothVars(TcpTurn /\ HandleWrite(k))
                        /\ WF_bothVars(UNCHANGED udpVars /\ ClientStep(k))
  /\ SF_bothVars(UdpTurn /\ Udp!Receive) /\ SF_bothVars(UdpTurn /\ Udp!Flush)
  /\ WF_bothVars(UdpTurn /\ Udp!ReceiveAgain)
  /\ WF_bothVars(UdpTurn /\ (Udp!Answer \/ Udp!AnswerLater))

-----------------------------------------------------------------------------
(* Properties: those of the UDP server, in any of its programs.            *)

\* Every datagram received is answered once and to its sender, though all
\* receives share remote_endpoint_ and answers may wait across many of them.
AnsweredOnceToSender == Udp!AnsweredOnceToSender

\* Receive errors, late answers and the TCP handlers on the same thread never stop
\* the chain of receives.
EveryDatagramAnswered == Udp!EveryDatagramAnswered
=============================================================================
