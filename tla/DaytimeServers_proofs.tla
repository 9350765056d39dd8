------------------------ MODULE DaytimeServers_proofs ------------------------
(***************************************************************************)
(* Theorems about the daytime servers of asio/tests, whichever of them is  *)
(* started, for any number of clients and any size of the buffers: a TCP   *)
(* client that ends well has its daytime, and every UDP datagram is        *)
(* answered once and to its sender.                                        *)
(***************************************************************************)
EXTENDS DaytimeServers, FunctionTheorems, FiniteSetTheorems, SequenceTheorems, TLAPS

\* A connection the server has written nothing to.
Unserved(k) ==
  \/ client[k] \in {"start", "refused"}
  \/ k \in backlog
  \/ server = "accepted" /\ serving = k

\* What became of the daytime written to k.
DaytimeFate(k) == k \in daytime \/ printed[k] = 1 \/ client[k] = "error"

\* A connection is made once, accepted once and served once.
OnceInv ==
  /\ \A k \in backlog : ~(server \in {"accepted", "served"} /\ serving = k)
  /\ \A k \in Clients : k \in backlog \/ (server \in {"accepted", "served"} /\ serving = k)
       => client[k] \notin {"start", "refused"}
  /\ \A k \in Clients : Unserved(k) => printed[k] = 0 /\ k \notin daytime /\ k \notin fin

\* The daytime is written before the connection is closed, and read once.
DaytimeInv ==
  /\ \A k \in daytime : printed[k] = 0
  /\ \A k \in Clients : k \in fin \/ (server = "served" /\ serving = k) => DaytimeFate(k)

TcpInv == TypeOK /\ OnceInv /\ DaytimeInv /\ CleanMeansPrinted

\* A datagram received was in the inbox, one in the inbox arrived.
ArrivedInv ==
  \A k \in Clients : asked[k] + Udp!Count(inbox, k) <= arrived[k]

UdpInv == Udp!TypeOK /\ ArrivedInv /\ AnsweredOnceToSender

IInv == program \in TcpPrograms \union Udp!UdpPrograms /\ TcpInv /\ UdpInv

-----------------------------------------------------------------------------
(* Counting in sequences.                                                  *)

LEMMA CountDef ==
  ASSUME NEW s, NEW x
  PROVE  Udp!Count(s, x) = Cardinality({i \in 1 .. Len(s) : s[i] = x})
<1>1. ASSUME NEW S PROVE Udp!Cardinality(S) = Cardinality(S)
  BY DEF Udp!Cardinality, Cardinality
<1> QED BY <1>1 DEF Udp!Count

LEMMA CountType ==
  ASSUME NEW S, NEW s \in Seq(S), NEW x
  PROVE  /\ IsFiniteSet({i \in 1 .. Len(s) : s[i] = x}) /\ Udp!Count(s, x) \in Nat
<1>1. Len(s) \in Nat BY LenProperties
<1>2. IsFiniteSet(1 .. Len(s)) BY <1>1, FS_Interval
<1>3. IsFiniteSet({i \in 1 .. Len(s) : s[i] = x}) BY <1>2, FS_Subset
<1> QED BY <1>3, CountDef, FS_CardinalityType

LEMMA CountEmpty ==
  ASSUME NEW x
  PROVE  Udp!Count(<<>>, x) = 0
<1>1. {i \in 1 .. Len(<<>>) : <<>>[i] = x} = {} BY EmptySeq
<1> QED BY <1>1, CountDef, FS_EmptySet

LEMMA CountAppend ==
  ASSUME NEW S, NEW s \in Seq(S), NEW y \in S, NEW x
  PROVE  Udp!Count(Append(s, y), x) = Udp!Count(s, x) + IF y = x THEN 1 ELSE 0
<1>1. PICK a : a = Append(s, y) OBVIOUS
<1>2. Len(s) \in Nat BY LenProperties
<1>3. /\ Len(a) = Len(s) + 1 /\ a[Len(s) + 1] = y
      /\ \A i \in 1 .. Len(s) : a[i] = s[i]
  BY <1>1, AppendProperties
<1> DEFINE C == {i \in 1 .. Len(s) : s[i] = x}
           D == {i \in 1 .. Len(a) : a[i] = x}
<1>4. 1 .. Len(a) = (1 .. Len(s)) \union {Len(s) + 1} BY <1>2, <1>3
<1>5. IsFiniteSet(C) /\ Cardinality(C) \in Nat BY CountType, CountDef
<1>6. Len(s) + 1 \notin C BY <1>2
<1>7. CASE y = x
  <2>1. D = C \union {Len(s) + 1} BY <1>3, <1>4, <1>7
  <2>2. Cardinality(D) = Cardinality(C) + 1 BY <1>5, <1>6, <2>1, FS_AddElement
  <2> QED BY <1>1, <1>7, <2>2, CountDef
<1>8. CASE y # x
  <2>1. D = C BY <1>3, <1>4, <1>8
  <2>2. Cardinality(D) = Cardinality(C) BY <2>1
  <2>3. Udp!Count(a, x) = Cardinality(D) /\ Udp!Count(s, x) = Cardinality(C) BY CountDef
  <2> HIDE DEF C, D
  <2> QED BY <1>1, <1>5, <1>8, <2>2, <2>3
<1> QED BY <1>7, <1>8

LEMMA CountTail ==
  ASSUME NEW S, NEW s \in Seq(S), s # <<>>, NEW x
  PROVE  Udp!Count(s, x) = Udp!Count(Tail(s), x) + IF Head(s) = x THEN 1 ELSE 0
<1>1. PICK r : r = Tail(s) OBVIOUS
<1>2. Len(s) \in Nat \ {0} BY EmptySeq
<1>3. /\ r \in Seq(S) /\ Len(r) = Len(s) - 1 /\ Head(s) = s[1]
      /\ \A i \in 1 .. Len(r) : r[i] = s[i + 1]
  BY <1>1, HeadTailProperties
<1> DEFINE C == {i \in 1 .. Len(r) : r[i] = x}
           D == {i \in 1 .. Len(s) : s[i] = x}
           f == [i \in C |-> i + 1]
<1>4. IsFiniteSet(C) /\ Cardinality(C) \in Nat BY <1>3, CountType, CountDef
<1>5. f \in Bijection(C, D \ {1})
  <2>1. f \in [C -> D \ {1}] BY <1>2, <1>3
  <2>2. \A i, j \in C : f[i] = f[j] => i = j OBVIOUS
  <2>3. ASSUME NEW j \in D \ {1} PROVE \E i \in C : f[i] = j
    <3>1. j - 1 \in 1 .. Len(r) /\ j - 1 + 1 = j BY <1>2, <1>3
    <3>2. j - 1 \in C BY <1>3, <3>1
    <3> QED BY <3>1, <3>2
  <2> QED BY <2>1, <2>2, <2>3, Fun_IsBij
<1>6. /\ IsFiniteSet(D \ {1}) /\ Cardinality(D \ {1}) = Cardinality(C)
  BY <1>4, <1>5, FS_Bijection DEF ExistsBijection
<1> HIDE DEF f
<1>7. CASE s[1] = x
  <2>1. D = (D \ {1}) \union {1} BY <1>2, <1>7
  <2>2. Cardinality(D) = Cardinality(D \ {1}) + 1 BY <1>6, <2>1, FS_AddElement
  <2> QED BY <1>1, <1>3, <1>6, <1>7, <2>2, CountDef
<1>8. CASE s[1] # x
  <2>1. D = D \ {1} BY <1>8
  <2>2. Cardinality(D) = Cardinality(C) BY <1>6, <2>1
  <2>3. Udp!Count(s, x) = Cardinality(D) /\ Udp!Count(r, x) = Cardinality(C) BY CountDef
  <2> HIDE DEF C, D
  <2> QED BY <1>1, <1>3, <1>4, <1>8, <2>2, <2>3
<1> QED BY <1>7, <1>8

-----------------------------------------------------------------------------
(* The steps of the TCP server and its clients.                            *)

LEMMA InitIInv == BothInit => IInv
<1> SUFFICES ASSUME BothInit PROVE IInv OBVIOUS
<1>1. TypeOK BY DEF BothInit, TcpStarts, TypeOK
<1>2. OnceInv BY DEF BothInit, TcpStarts, OnceInv
<1>3. DaytimeInv /\ CleanMeansPrinted
  BY DEF BothInit, TcpStarts, DaytimeInv, CleanMeansPrinted
<1>4. /\ inbox = <<>> /\ unsent = <<>> /\ udp_server = "receiving"
      /\ \A k \in Clients : asked[k] = 0 /\ given[k] = 0 /\ arrived[k] = 0
  BY DEF BothInit, Udp!UdpStarts
<1>5. <<>> \in Seq(Clients) /\ Len(<<>>) = 0 BY EmptySeq
<1>6. Udp!TypeOK
  BY <1>4, <1>5, BothAssumption DEF BothInit, Udp!UdpStarts, Udp!TypeOK
<1>7. ArrivedInv BY <1>4, CountEmpty DEF ArrivedInv
<1>8. AnsweredOnceToSender
  BY <1>4, CountEmpty DEF AnsweredOnceToSender, Udp!AnsweredOnceToSender, Udp!Waiting
<1> QED BY <1>1, <1>2, <1>3, <1>6, <1>7, <1>8 DEF BothInit, IInv, TcpInv, UdpInv

\* The server accepts a connection, or fails to.
LEMMA AcceptStep ==
  ASSUME TcpInv, AcceptFails \/ \E k \in Clients : AcceptDone(k)
  PROVE  TcpInv'
<1> USE DaytimeAssumption DEF TcpInv, clientVars, serverVars
<1>1. CASE AcceptFails
  <2>1. TypeOK' BY <1>1 DEF AcceptFails, Accepted, TypeOK
  <2>2. OnceInv' BY <1>1 DEF AcceptFails, Accepted, TypeOK, OnceInv, Unserved
  <2>3. DaytimeInv' /\ CleanMeansPrinted'
    BY <1>1 DEF AcceptFails, Accepted, TypeOK, DaytimeInv, DaytimeFate, CleanMeansPrinted
  <2> QED BY <2>1, <2>2, <2>3
<1>2. ASSUME NEW k \in Clients, AcceptDone(k) PROVE TcpInv'
  <2>1. /\ server = "accepting" /\ server' = "accepted" /\ serving' = k
        /\ k \in backlog /\ backlog' = backlog \ {k}
        /\ objects' = (objects \ {Spare}) \union {k}
        /\ UNCHANGED <<program, queue, client, printed, unread, daytime, fin, rst>>
    BY <1>2 DEF AcceptDone, Accepted
  <2>2. TypeOK' BY <2>1 DEF TypeOK
  <2>3. OnceInv' BY <2>1 DEF TypeOK, OnceInv, Unserved
  <2>4. DaytimeInv' /\ CleanMeansPrinted'
    BY <2>1 DEF TypeOK, DaytimeInv, DaytimeFate, CleanMeansPrinted
  <2> QED BY <2>2, <2>3, <2>4
<1> QED BY <1>1, <1>2

\* The server writes the daytime, closes the connection, or learns that it was written.
LEMMA ServeStep ==
  ASSUME TcpInv, Serve \/ Release \/ \E k \in Clients : HandleWrite(k)
  PROVE  TcpInv'
<1> USE DaytimeAssumption DEF TcpInv, clientVars, serverVars
<1>1. CASE Serve
  <2>1. /\ server = "accepted" /\ server' = "served"
        /\ UNCHANGED <<program, serving, client, printed, backlog, unread, fin, rst>>
        /\ \/ serving = NoClient /\ UNCHANGED <<queue, daytime>>
           \/ serving # NoClient /\ daytime' = daytime \union {serving}
    BY <1>1 DEF Serve
  <2>2. TypeOK' BY <1>1 DEF Serve, TypeOK
  <2>3. OnceInv' BY <2>1 DEF TypeOK, OnceInv, Unserved
  <2>4. DaytimeInv' BY <2>1 DEF TypeOK, OnceInv, Unserved, DaytimeInv, DaytimeFate
  <2>5. CleanMeansPrinted' BY <2>1 DEF CleanMeansPrinted
  <2> QED BY <2>2, <2>3, <2>4, <2>5
<1>2. CASE Release
  <2>1. /\ server = "served" /\ server' = "accepting" /\ serving' = NoClient
        /\ fin' = fin \/ (serving \in Clients /\ fin' = fin \union {serving})
        /\ UNCHANGED <<program, queue, client, printed, backlog, unread, daytime>>
    BY <1>2 DEF Release, TypeOK
  <2>2. TypeOK' BY <1>2 DEF Release, TypeOK
  <2>3. OnceInv' BY <2>1 DEF TypeOK, OnceInv, Unserved
  <2>4. DaytimeInv' BY <2>1 DEF TypeOK, DaytimeInv, DaytimeFate
  <2>5. CleanMeansPrinted' BY <2>1 DEF CleanMeansPrinted
  <2> QED BY <2>2, <2>3, <2>4, <2>5
<1>3. ASSUME NEW k \in Clients, HandleWrite(k) PROVE TcpInv'
  BY <1>3 DEF HandleWrite, TypeOK, OnceInv, Unserved, DaytimeInv, DaytimeFate,
              CleanMeansPrinted
<1> QED BY <1>1, <1>2, <1>3

\* A client connects, writes, or reads: the daytime, the end of the connection or an error.
LEMMA ClientsStep ==
  ASSUME TcpInv, NEW k \in Clients, Connect(k) \/ ClientStep(k)
  PROVE  TcpInv'
<1> USE DaytimeAssumption DEF TcpInv, clientVars, serverVars
<1>1. CASE Connect(k)
  <2>1. PICK to \in {"refused", "write"} :
          /\ client[k] = "start" /\ client' = [client EXCEPT ![k] = to]
          /\ \/ to = "refused" /\ backlog' = backlog
             \/ to = "write" /\ backlog' = backlog \union {k}
          /\ UNCHANGED <<program, server, serving, objects, queue, printed, unread, daytime,
                         fin, rst>>
    BY <1>1 DEF Connect
  <2>2. TypeOK' BY <2>1 DEF TypeOK
  <2>3. OnceInv' BY <2>1 DEF TypeOK, OnceInv, Unserved
  <2>4. DaytimeInv' BY <2>1 DEF TypeOK, DaytimeInv, DaytimeFate
  <2>5. CleanMeansPrinted' BY <2>1 DEF TypeOK, CleanMeansPrinted
  <2> QED BY <2>2, <2>3, <2>4, <2>5
<1>2. CASE WriteHello(k)
  <2>1. /\ client[k] = "write" /\ client' = [client EXCEPT ![k] = "read"]
        /\ UNCHANGED <<program, server, serving, objects, queue, printed, backlog, daytime,
                       fin>>
    BY <1>2 DEF WriteHello
  <2>2. TypeOK' BY <1>2 DEF WriteHello, TypeOK
  <2>3. OnceInv' BY <2>1 DEF TypeOK, OnceInv, Unserved
  <2>4. DaytimeInv' BY <2>1 DEF TypeOK, DaytimeInv, DaytimeFate
  <2>5. CleanMeansPrinted' BY <2>1 DEF TypeOK, CleanMeansPrinted
  <2> QED BY <2>2, <2>3, <2>4, <2>5
<1>3. CASE ReadDaytime(k)
  <2>1. /\ client[k] = "read" /\ client' = [client EXCEPT ![k] = "write"]
        /\ k \in daytime /\ daytime' = daytime \ {k}
        /\ printed' = [printed EXCEPT ![k] = @ + 1]
        /\ UNCHANGED <<program, server, serving, objects, queue, backlog, unread, fin, rst>>
    BY <1>3 DEF ReadDaytime
  <2>2. printed[k] = 0 /\ printed' = [printed EXCEPT ![k] = 1]
    <3>1. printed[k] = 0 BY <2>1 DEF DaytimeInv
    <3>2. printed[k] + 1 = 1 BY <3>1
    <3> QED BY <2>1, <3>1, <3>2
  <2>3. TypeOK' BY <2>1, <2>2 DEF TypeOK
  <2>4. OnceInv' BY <2>1, <2>2 DEF TypeOK, OnceInv, Unserved
  <2>5. DaytimeInv' BY <2>1, <2>2 DEF TypeOK, DaytimeInv, DaytimeFate
  <2>6. CleanMeansPrinted' BY <2>1, <2>2 DEF TypeOK, CleanMeansPrinted
  <2> QED BY <2>3, <2>4, <2>5, <2>6
<1>4. CASE ReadEof(k)
  <2>1. /\ client[k] = "read" /\ client' = [client EXCEPT ![k] = "clean"]
        /\ k \in fin /\ k \notin daytime
        /\ UNCHANGED <<program, server, serving, objects, queue, printed, backlog, unread,
                       daytime, fin, rst>>
    BY <1>4 DEF ReadEof
  <2>2. TypeOK' BY <2>1 DEF TypeOK
  <2>3. OnceInv' BY <2>1 DEF TypeOK, OnceInv, Unserved
  <2>4. DaytimeInv' BY <2>1 DEF TypeOK, DaytimeInv, DaytimeFate
  <2>5. CleanMeansPrinted' BY <2>1 DEF TypeOK, DaytimeInv, DaytimeFate, CleanMeansPrinted
  <2> QED BY <2>2, <2>3, <2>4, <2>5
<1>5. CASE ReadError(k)
  <2>1. /\ client[k] = "read" /\ client' = [client EXCEPT ![k] = "error"]
        /\ daytime' = daytime \ {k}
        /\ UNCHANGED <<program, server, serving, objects, queue, printed, backlog, unread,
                       fin, rst>>
    BY <1>5 DEF ReadError
  <2>2. TypeOK' BY <2>1 DEF TypeOK
  <2>3. OnceInv' BY <2>1 DEF TypeOK, OnceInv, Unserved
  <2>4. DaytimeInv' BY <2>1 DEF TypeOK, DaytimeInv, DaytimeFate
  <2>5. CleanMeansPrinted' BY <2>1 DEF TypeOK, CleanMeansPrinted
  <2> QED BY <2>2, <2>3, <2>4, <2>5
<1> QED BY <1>1, <1>2, <1>3, <1>4, <1>5 DEF ClientStep

-----------------------------------------------------------------------------
(* The steps of the UDP server, its clients and the network.               *)

\* How many answers to a client wait in the handler.
Held(k) == IF udp_server = "received" /\ remote_endpoint = k THEN 1 ELSE 0

\* UdpInv, without the bounds on the histories that follow from its other parts.
LEMMA UdpInvFrom ==
  ASSUME UdpInv,
         udp_server' \in {"receiving", "received", "failed", "down"},
         remote_endpoint' \in Clients,
         inbox' \in Seq(Clients), Len(inbox') <= InboxSize,
         unsent' \in Seq(Clients),
         answers' \in SUBSET (Clients \X {"daytime", "garbage"}),
         udp_client' \in [Clients -> {"start", "waiting", "daytime", "garbage"}],
         arrived' \in [Clients -> 0 .. MaxCopies],
         asked' \in [Clients -> Nat],
         given' \in [Clients -> Nat],
         \A k \in Clients : asked'[k] + Udp!Count(inbox', k) <= arrived'[k],
         \A k \in Clients : asked'[k] = given'[k] + (Udp!Count(unsent', k) + Held(k)')
  PROVE  UdpInv'
<1>1. ArrivedInv' BY DEF ArrivedInv
<1>2. AnsweredOnceToSender'
  BY DEF AnsweredOnceToSender, Udp!AnsweredOnceToSender, Udp!Waiting, Held
<1>3. ASSUME NEW k \in Clients PROVE asked'[k] \in 0 .. MaxCopies /\ given'[k] \in 0 .. MaxCopies
  <2>1. Udp!Count(inbox', k) \in Nat /\ Udp!Count(unsent', k) \in Nat BY CountType
  <2>2. Held(k)' \in Nat BY DEF Held
  <2>3. MaxCopies \in Nat BY BothAssumption
  <2>4. arrived'[k] \in Nat /\ arrived'[k] <= MaxCopies BY <2>3
  <2>5. asked'[k] \in Nat /\ given'[k] \in Nat OBVIOUS
  <2>6. asked'[k] <= arrived'[k] BY <2>1, <2>4, <2>5
  <2>7. given'[k] <= asked'[k] BY <2>1, <2>2, <2>5
  <2> QED BY <2>3, <2>4, <2>5, <2>6, <2>7
<1>4. Udp!TypeOK' BY <1>3 DEF Udp!TypeOK
<1> QED BY <1>1, <1>2, <1>4 DEF UdpInv

\* What UdpInv says of each client.
LEMMA UdpFacts ==
  ASSUME UdpInv
  PROVE  /\ udp_server \in {"receiving", "received", "failed", "down"}
         /\ remote_endpoint \in Clients
         /\ inbox \in Seq(Clients) /\ Len(inbox) <= InboxSize
         /\ unsent \in Seq(Clients)
         /\ answers \in SUBSET (Clients \X {"daytime", "garbage"})
         /\ udp_client \in [Clients -> {"start", "waiting", "daytime", "garbage"}]
         /\ arrived \in [Clients -> 0 .. MaxCopies]
         /\ asked \in [Clients -> Nat]
         /\ given \in [Clients -> Nat]
         /\ \A k \in Clients :
              /\ Udp!Count(inbox, k) \in Nat /\ Udp!Count(unsent, k) \in Nat
              /\ asked[k] + Udp!Count(inbox, k) <= arrived[k]
              /\ asked[k] = given[k] + (Udp!Count(unsent, k) + Held(k))
<1>1. Udp!TypeOK BY DEF UdpInv
<1>2. asked \in [Clients -> Nat] /\ given \in [Clients -> Nat] BY <1>1 DEF Udp!TypeOK
<1>3. \A k \in Clients : Udp!Count(inbox, k) \in Nat /\ Udp!Count(unsent, k) \in Nat
  BY <1>1, CountType DEF Udp!TypeOK
<1>4. \A k \in Clients : asked[k] + Udp!Count(inbox, k) <= arrived[k]
  BY DEF UdpInv, ArrivedInv
<1>5. \A k \in Clients : asked[k] = given[k] + (Udp!Count(unsent, k) + Held(k))
  BY DEF UdpInv, AnsweredOnceToSender, Udp!AnsweredOnceToSender, Udp!Waiting, Held
<1> QED BY <1>1, <1>2, <1>3, <1>4, <1>5 DEF Udp!TypeOK

LEMMA ReceiveStep ==
  ASSUME UdpInv, Udp!Receive
  PROVE  UdpInv'
<1>1. /\ udp_server = "receiving" /\ udp_server' = "received" /\ inbox # <<>>
      /\ remote_endpoint' = Head(inbox) /\ inbox' = Tail(inbox)
      /\ asked' = [asked EXCEPT ![Head(inbox)] = @ + 1]
      /\ UNCHANGED <<unsent, answers, udp_client, arrived, given>>
  BY DEF Udp!Receive
<1>2. /\ Head(inbox) \in Clients /\ inbox' \in Seq(Clients) /\ Len(inbox') <= InboxSize
  <2>1. Len(inbox) \in Nat BY UdpFacts, LenProperties
  <2>2. Head(inbox) \in Clients /\ Tail(inbox) \in Seq(Clients) /\ Len(Tail(inbox)) = Len(inbox) - 1
    BY <1>1, UdpFacts, HeadTailProperties
  <2>3. InboxSize \in Nat BY BothAssumption
  <2> QED BY <1>1, <2>1, <2>2, <2>3, UdpFacts
<1>3. asked' \in [Clients -> Nat]
      /\ \A k \in Clients : asked'[k] = asked[k] + IF Head(inbox) = k THEN 1 ELSE 0
  <2>1. asked \in [Clients -> Nat] BY UdpFacts
  <2> QED BY <1>1, <1>2, <2>1
<1>4. ASSUME NEW k \in Clients
      PROVE  /\ asked'[k] + Udp!Count(inbox', k) <= arrived'[k]
             /\ asked'[k] = given'[k] + (Udp!Count(unsent', k) + Held(k)')
  <2>1. PICK one \in {0, 1} : one = IF Head(inbox) = k THEN 1 ELSE 0 OBVIOUS
  <2>2. Udp!Count(inbox, k) = Udp!Count(inbox', k) + one
    BY <1>1, <2>1, UdpFacts, CountTail
  <2>3. asked'[k] = asked[k] + one BY <1>3, <2>1
  <2>4. Held(k) = 0 /\ Held(k)' = one BY <1>1, <2>1 DEF Held
  <2>5. Udp!Count(inbox', k) \in Nat /\ Udp!Count(unsent, k) \in Nat
    BY <1>2, CountType, UdpFacts
  <2>6. asked[k] \in Nat /\ given[k] \in Nat /\ arrived[k] \in Nat
    <3>1. /\ arrived \in [Clients -> 0 .. MaxCopies] /\ asked \in [Clients -> Nat]
          /\ given \in [Clients -> Nat]
      BY UdpFacts
    <3> QED BY <3>1, BothAssumption
  <2>7. /\ asked[k] + (Udp!Count(inbox', k) + one) <= arrived[k]
        /\ asked[k] = given[k] + (Udp!Count(unsent, k) + 0)
    BY <2>2, <2>4, UdpFacts
  <2>8. /\ (asked[k] + one) + Udp!Count(inbox', k) <= arrived[k]
        /\ asked[k] + one = given[k] + (Udp!Count(unsent, k) + one)
    BY <2>5, <2>6, <2>7
  <2> QED BY <1>1, <2>3, <2>4, <2>8
<1> QED BY <1>1, <1>2, <1>3, <1>4, UdpFacts, UdpInvFrom

\* An answer goes to the network, which may lose it, or is refused.
LEMMA GiveProps ==
  ASSUME UdpInv, NEW k \in Clients, NEW texts \in SUBSET {"daytime", "garbage"},
         Udp!Give(k, texts)
  PROVE  /\ answers' \in SUBSET (Clients \X {"daytime", "garbage"})
         /\ given' \in [Clients -> Nat]
         /\ \A j \in Clients : given'[j] = given[j] + IF k = j THEN 1 ELSE 0
<1>1. /\ answers \in SUBSET (Clients \X {"daytime", "garbage"})
      /\ given \in [Clients -> Nat]
  BY UdpFacts
<1>2. given' = [given EXCEPT ![k] = @ + 1] BY DEF Udp!Give
<1>3. PICK lost \in BOOLEAN, text \in texts :
        answers' = IF lost THEN answers ELSE answers \union {<<k, text>>}
  BY DEF Udp!Give
<1>4. answers' \in SUBSET (Clients \X {"daytime", "garbage"}) BY <1>1, <1>3
<1>5. \A j \in Clients : given'[j] = given[j] + IF k = j THEN 1 ELSE 0
  <2> TAKE j \in Clients
  <2>1. given[j] \in Nat BY <1>1
  <2> QED BY <1>1, <1>2, <2>1
<1> QED BY <1>1, <1>2, <1>4, <1>5

LEMMA AnswerStep ==
  ASSUME UdpInv, Udp!Answer \/ Udp!AnswerLater
  PROVE  UdpInv'
<1>1. /\ udp_server = "received" /\ udp_server' = "receiving"
      /\ remote_endpoint \in Clients
      /\ UNCHANGED <<remote_endpoint, inbox, udp_client, arrived, asked>>
  BY UdpFacts DEF Udp!Answer, Udp!AnswerLater
<1>2. /\ unsent' \in Seq(Clients)
      /\ answers' \in SUBSET (Clients \X {"daytime", "garbage"})
      /\ given' \in [Clients -> Nat]
      /\ \A k \in Clients :
           given'[k] + Udp!Count(unsent', k)
             = given[k] + (Udp!Count(unsent, k) + IF remote_endpoint = k THEN 1 ELSE 0)
  <2>1. /\ answers \in SUBSET (Clients \X {"daytime", "garbage"})
        /\ given \in [Clients -> Nat] /\ unsent \in Seq(Clients)
        /\ \A k \in Clients : Udp!Count(unsent, k) \in Nat
    BY UdpFacts
  <2>2. CASE Udp!Answer
    <3>1. Udp!Give(remote_endpoint, {"daytime"}) /\ unsent' = unsent BY <2>2 DEF Udp!Answer
    <3>2. /\ answers' \in SUBSET (Clients \X {"daytime", "garbage"})
          /\ given' \in [Clients -> Nat]
          /\ \A k \in Clients : given'[k] = given[k] + IF remote_endpoint = k THEN 1 ELSE 0
      BY <1>1, <3>1, GiveProps
    <3> QED BY <2>1, <3>1, <3>2
  <2>3. CASE Udp!AnswerLater
    <3>1. unsent' = Append(unsent, remote_endpoint) /\ UNCHANGED <<answers, given>>
      BY <2>3 DEF Udp!AnswerLater
    <3>2. unsent' \in Seq(Clients) BY <1>1, <2>1, <3>1, AppendProperties
    <3>3. \A k \in Clients :
            Udp!Count(unsent', k) = Udp!Count(unsent, k) + IF remote_endpoint = k THEN 1 ELSE 0
      BY <1>1, <2>1, <3>1, CountAppend
    <3> QED BY <2>1, <3>1, <3>2, <3>3
  <2> QED BY <2>2, <2>3
<1>3. ASSUME NEW k \in Clients
      PROVE  /\ asked'[k] + Udp!Count(inbox', k) <= arrived'[k]
             /\ asked'[k] = given'[k] + (Udp!Count(unsent', k) + Held(k)')
  <2>1. Held(k)' = 0 /\ Held(k) = IF remote_endpoint = k THEN 1 ELSE 0 BY <1>1 DEF Held
  <2>2. given'[k] \in Nat /\ Udp!Count(unsent', k) \in Nat BY <1>2, CountType
  <2>3. asked[k] = given'[k] + Udp!Count(unsent', k) BY <1>2, <2>1, UdpFacts
  <2>4. asked[k] = given'[k] + (Udp!Count(unsent', k) + 0) BY <2>2, <2>3
  <2>5. asked[k] + Udp!Count(inbox, k) <= arrived[k] BY UdpFacts
  <2> QED BY <1>1, <2>1, <2>4, <2>5
<1>4. /\ inbox' \in Seq(Clients) /\ Len(inbox') <= InboxSize
      /\ udp_client' \in [Clients -> {"start", "waiting", "daytime", "garbage"}]
      /\ arrived' \in [Clients -> 0 .. MaxCopies] /\ asked' \in [Clients -> Nat]
  BY <1>1, UdpFacts
<1> QED BY <1>1, <1>2, <1>3, <1>4, UdpInvFrom

LEMMA FlushStep ==
  ASSUME UdpInv, Udp!Flush
  PROVE  UdpInv'
<1>1. /\ udp_server = "receiving" /\ unsent # <<>>
      /\ Udp!Give(Head(unsent), {"daytime", "garbage"}) /\ unsent' = Tail(unsent)
      /\ UNCHANGED <<udp_server, remote_endpoint, inbox, udp_client, arrived, asked>>
  BY DEF Udp!Flush
<1>2. unsent \in Seq(Clients) BY UdpFacts
<1>3. Head(unsent) \in Clients /\ unsent' \in Seq(Clients) BY <1>1, <1>2, HeadTailProperties
<1>4. /\ answers' \in SUBSET (Clients \X {"daytime", "garbage"})
      /\ given' \in [Clients -> Nat]
      /\ \A k \in Clients : given'[k] = given[k] + IF Head(unsent) = k THEN 1 ELSE 0
  BY <1>1, <1>3, GiveProps
<1>5. ASSUME NEW k \in Clients
      PROVE  /\ asked'[k] + Udp!Count(inbox', k) <= arrived'[k]
             /\ asked'[k] = given'[k] + (Udp!Count(unsent', k) + Held(k)')
  <2>1. PICK one \in {0, 1} : one = IF Head(unsent) = k THEN 1 ELSE 0 OBVIOUS
  <2>2. given'[k] = given[k] + one BY <1>4, <2>1
  <2>3. Udp!Count(unsent, k) = Udp!Count(unsent', k) + one BY <1>1, <1>2, <2>1, CountTail
  <2>4. Udp!Count(unsent', k) \in Nat BY <1>3, CountType
  <2>5. given[k] \in Nat
    <3>1. given \in [Clients -> Nat] BY UdpFacts
    <3> QED BY <3>1
  <2>6. Held(k) = 0 /\ Held(k)' = 0 BY <1>1 DEF Held
  <2>7. asked[k] = given[k] + (Udp!Count(unsent, k) + 0) BY <2>6, UdpFacts
  <2>8. asked[k] = given'[k] + (Udp!Count(unsent', k) + 0) BY <2>2, <2>3, <2>4, <2>5, <2>7
  <2>9. asked[k] + Udp!Count(inbox, k) <= arrived[k] BY UdpFacts
  <2> QED BY <1>1, <2>6, <2>8, <2>9
<1>6. /\ udp_server' \in {"receiving", "received", "failed", "down"}
      /\ remote_endpoint' \in Clients
      /\ inbox' \in Seq(Clients) /\ Len(inbox') <= InboxSize
      /\ udp_client' \in [Clients -> {"start", "waiting", "daytime", "garbage"}]
      /\ arrived' \in [Clients -> 0 .. MaxCopies] /\ asked' \in [Clients -> Nat]
  BY <1>1, UdpFacts
<1> QED BY <1>3, <1>4, <1>5, <1>6, UdpInvFrom

\* An error, a question that is sent and an answer that is read move no datagram.
LEMMA QuietStep ==
  ASSUME UdpInv,
         \/ Udp!ReceiveFails \/ Udp!ReceiveAgain
         \/ \E k \in Clients : Udp!Ask(k)
         \/ \E k \in Clients, text \in {"daytime", "garbage"} : Udp!GetAnswer(k, text)
         \/ UNCHANGED udpVars
  PROVE  UdpInv'
<1>1. /\ UNCHANGED <<remote_endpoint, inbox, unsent, answers, arrived, asked, given>>
      /\ udp_server' = udp_server \/ (udp_server # "received" /\ udp_server' # "received")
  BY DEF Udp!ReceiveFails, Udp!ReceiveAgain, Udp!Ask, Udp!GetAnswer, udpVars
<1>2. udp_server' \in {"receiving", "received", "failed", "down"}
  BY UdpFacts DEF Udp!ReceiveFails, Udp!ReceiveAgain, Udp!Ask, Udp!GetAnswer, udpVars
<1>3. udp_client' \in [Clients -> {"start", "waiting", "daytime", "garbage"}]
  <2>1. udp_client \in [Clients -> {"start", "waiting", "daytime", "garbage"}] BY UdpFacts
  <2> QED BY <2>1 DEF Udp!ReceiveFails, Udp!ReceiveAgain, Udp!Ask, Udp!GetAnswer, udpVars
<1>4. \A k \in Clients : Held(k)' = Held(k) BY <1>1 DEF Held
<1>5. /\ \A k \in Clients : asked'[k] + Udp!Count(inbox', k) <= arrived'[k]
      /\ \A k \in Clients : asked'[k] = given'[k] + (Udp!Count(unsent', k) + Held(k)')
  BY <1>1, <1>4, UdpFacts
<1>6. /\ remote_endpoint' \in Clients
      /\ inbox' \in Seq(Clients) /\ Len(inbox') <= InboxSize
      /\ unsent' \in Seq(Clients)
      /\ answers' \in SUBSET (Clients \X {"daytime", "garbage"})
      /\ arrived' \in [Clients -> 0 .. MaxCopies]
      /\ asked' \in [Clients -> Nat] /\ given' \in [Clients -> Nat]
  BY <1>1, UdpFacts
<1> QED BY <1>2, <1>3, <1>5, <1>6, UdpInvFrom

\* The network delivers a copy of a datagram, which a full socket drops.
LEMMA ArriveStep ==
  ASSUME UdpInv, NEW k \in Clients, Udp!Arrive(k)
  PROVE  UdpInv'
<1>1. /\ arrived[k] < MaxCopies /\ arrived' = [arrived EXCEPT ![k] = @ + 1]
      /\ inbox' = IF Len(inbox) < InboxSize THEN Append(inbox, k) ELSE inbox
      /\ UNCHANGED <<udp_server, remote_endpoint, unsent, answers, udp_client, asked, given>>
  BY DEF Udp!Arrive
<1>2. /\ inbox \in Seq(Clients) /\ arrived \in [Clients -> 0 .. MaxCopies]
      /\ Len(inbox) \in Nat /\ Len(inbox) <= InboxSize
      /\ InboxSize \in Nat /\ MaxCopies \in Nat
  BY UdpFacts, LenProperties, BothAssumption
<1>3. /\ arrived' \in [Clients -> 0 .. MaxCopies]
      /\ arrived'[k] = arrived[k] + 1
      /\ \A j \in Clients : j # k => arrived'[j] = arrived[j]
  BY <1>1, <1>2
<1>4. /\ inbox' \in Seq(Clients) /\ Len(inbox') <= InboxSize
      /\ \A j \in Clients : \/ Udp!Count(inbox', j) = Udp!Count(inbox, j)
                            \/ j = k /\ Udp!Count(inbox', j) = Udp!Count(inbox, j) + 1
  <2>1. CASE Len(inbox) < InboxSize
    <3>1. inbox' = Append(inbox, k) BY <1>1, <2>1
    <3>2. inbox' \in Seq(Clients) /\ Len(inbox') = Len(inbox) + 1
      BY <1>2, <3>1, AppendProperties
    <3>3. \A j \in Clients :
            Udp!Count(inbox', j) = Udp!Count(inbox, j) + IF k = j THEN 1 ELSE 0
      BY <1>2, <3>1, CountAppend
    <3>4. \A j \in Clients : Udp!Count(inbox, j) \in Nat BY UdpFacts
    <3> QED BY <1>2, <2>1, <3>2, <3>3, <3>4
  <2>2. CASE ~(Len(inbox) < InboxSize) BY <1>1, <1>2, <2>2
  <2> QED BY <2>1, <2>2
<1>5. ASSUME NEW j \in Clients
      PROVE  /\ asked'[j] + Udp!Count(inbox', j) <= arrived'[j]
             /\ asked'[j] = given'[j] + (Udp!Count(unsent', j) + Held(j)')
  <2>1. Udp!Count(inbox, j) \in Nat /\ asked[j] \in Nat /\ arrived[j] \in Nat
    <3>1. asked \in [Clients -> Nat] BY UdpFacts
    <3> QED BY <1>2, <3>1, UdpFacts
  <2>2. asked[j] + Udp!Count(inbox, j) <= arrived[j] BY UdpFacts
  <2>3. asked[j] + Udp!Count(inbox', j) <= arrived'[j] BY <1>3, <1>4, <2>1, <2>2
  <2>4. Held(j)' = Held(j) BY <1>1 DEF Held
  <2>5. asked[j] = given[j] + (Udp!Count(unsent, j) + Held(j)) BY UdpFacts
  <2> QED BY <1>1, <2>3, <2>4, <2>5
<1>6. /\ udp_server' \in {"receiving", "received", "failed", "down"}
      /\ remote_endpoint' \in Clients /\ unsent' \in Seq(Clients)
      /\ answers' \in SUBSET (Clients \X {"daytime", "garbage"})
      /\ udp_client' \in [Clients -> {"start", "waiting", "daytime", "garbage"}]
      /\ asked' \in [Clients -> Nat] /\ given' \in [Clients -> Nat]
  BY <1>1, UdpFacts
<1> QED BY <1>3, <1>4, <1>5, <1>6, UdpInvFrom

-----------------------------------------------------------------------------
(* The theorems.                                                           *)

LEMMA IInvStep == IInv /\ [BothNext]_bothVars => IInv'
<1> SUFFICES ASSUME IInv, [BothNext]_bothVars PROVE IInv' OBVIOUS
<1>1. TcpInv /\ UdpInv BY DEF IInv
<1>2. ASSUME UNCHANGED tcpVars PROVE TcpInv'
  BY <1>1, <1>2 DEF tcpVars, TcpInv, TypeOK, OnceInv, Unserved, DaytimeInv, DaytimeFate,
                    CleanMeansPrinted
<1>3. ASSUME UNCHANGED udpVars PROVE UdpInv' BY <1>1, <1>3, QuietStep
<1>4. ASSUME program' = program, TcpInv', UdpInv' PROVE IInv' BY <1>4 DEF IInv
<1>5. CASE TcpTurn /\ (AcceptFails \/ Serve \/ Release)
  <2>1. program' = program BY <1>5 DEF AcceptFails, Serve, Release
  <2> QED BY <1>1, <1>3, <1>4, <1>5, <2>1, AcceptStep, ServeStep DEF TcpTurn
<1>6. CASE TcpTurn /\ \E k \in Clients : AcceptDone(k) \/ HandleWrite(k)
  <2>1. program' = program BY <1>6 DEF AcceptDone, HandleWrite
  <2> QED BY <1>1, <1>3, <1>4, <1>6, <2>1, AcceptStep, ServeStep DEF TcpTurn
<1>7. CASE TcpClients
  <2>1. PICK k \in Clients : Connect(k) \/ ClientStep(k)
    BY <1>7, BothAssumption DEF TcpClients, ClientsNow
  <2>2. program' = program
    BY <2>1 DEF Connect, ClientStep, WriteHello, ReadDaytime, ReadEof, ReadError, serverVars
  <2> QED BY <1>1, <1>3, <1>4, <1>7, <2>1, <2>2, ClientsStep DEF TcpClients
<1>8. CASE UdpTurn /\ (Udp!Serve \/ Udp!ReceiveFails)
  <2>1. program' = program
    BY <1>8 DEF Udp!Serve, Udp!Receive, Udp!ReceiveAgain, Udp!Answer, Udp!AnswerLater,
                Udp!Flush, Udp!ReceiveFails
  <2>2. UdpInv'
    BY <1>1, <1>8, ReceiveStep, AnswerStep, FlushStep, QuietStep DEF Udp!Serve
  <2> QED BY <1>2, <1>4, <1>8, <2>1, <2>2 DEF UdpTurn
<1>9. CASE UdpClients
  <2>1. PICK k \in Clients :
          \/ Udp!Ask(k) \/ Udp!Arrive(k)
          \/ \E text \in {"daytime", "garbage"} : Udp!GetAnswer(k, text)
    BY <1>9, BothAssumption DEF UdpClients, ClientsNow
  <2>2. program' = program BY <2>1 DEF Udp!Ask, Udp!Arrive, Udp!GetAnswer
  <2>3. UdpInv' BY <1>1, <2>1, QuietStep, ArriveStep
  <2> QED BY <1>2, <1>4, <1>9, <2>2, <2>3 DEF UdpClients
<1>10. CASE UNCHANGED bothVars
  <2>1. program' = program /\ UNCHANGED tcpVars /\ UNCHANGED udpVars BY <1>10 DEF bothVars
  <2> QED BY <1>2, <1>3, <1>4, <2>1
<1> QED BY <1>5, <1>6, <1>7, <1>8, <1>9, <1>10 DEF BothNext

\* What holds between the servers, their connections and the network in every reachable
\* state of any of the programs.
THEOREM IInvHolds == BothSpec => []IInv
<1>1. BothInit => IInv BY InitIInv
<1>2. IInv /\ [BothNext]_bothVars => IInv' BY IInvStep
<1> QED BY <1>1, <1>2, PTL DEF BothSpec

\* Every variable of both servers keeps its type: a client prints one daytime at most, and
\* no datagram is received or answered more often than copies of it arrived.
THEOREM TypeCorrect == BothSpec => []BothTypeOK
<1>1. IInv => BothTypeOK BY DEF IInv, TcpInv, UdpInv, BothTypeOK
<1> QED BY <1>1, IInvHolds, PTL

\* A test_tcp_client that returns 0 has printed the daytime: read_some reports the end of
\* the stream only after what was written before the close.
THEOREM CleanMeansPrintedCorrect == BothSpec => []CleanMeansPrinted
<1>1. IInv => CleanMeansPrinted BY DEF IInv, TcpInv
<1> QED BY <1>1, IInvHolds, PTL

\* Every datagram received is answered once and to its sender, although all receives
\* share remote_endpoint_ and an answer may wait across many of them.
THEOREM AnsweredOnceToSenderCorrect == BothSpec => []AnsweredOnceToSender
<1>1. IInv => AnsweredOnceToSender BY DEF IInv, UdpInv
<1> QED BY <1>1, IInvHolds, PTL
=============================================================================
