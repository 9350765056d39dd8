---------------------------- MODULE EchoRpc_proofs ----------------------------
(***************************************************************************)
(* Theorems about the RPC programs, for any number of clients, calls,      *)
(* retries and broken connections: a call returns its own answer, the      *)
(* service outlives everything that uses it, and a request is repeated only *)
(* after a connection broke.                                               *)
(***************************************************************************)
EXTENDS EchoRpc, FunctionTheorems, FiniteSetTheorems, TLAPS

\* Each request whose closure has not run is one call of Echo's; none is left when the
\* server is gone, nor there before it runs.
ClosureInv ==
    /\ {h.try : h \in handlers} = accepted \ answered
    /\ answered \subseteq accepted
    /\ \A g, h \in handlers : g.try = h.try => g = h
    /\ server \in {"init", "gone"} => handlers = {} /\ after = {}

\* The message of a response, set by the time done runs, is that of its request, and so
\* is what a client has been given for its call.
MessageInv ==
    /\ \A h \in handlers :
         /\ h = [try |-> h.try, at |-> h.at, message |-> h.message]
         /\ h.at = "return" => h.message = Message(h.try)
    /\ \A a \in answers : a.message \in {Empty, Message(a.try)}

ResultInv ==
    /\ client = [c \in Clients |-> client[c]]
    /\ \A c \in Clients :
         /\ client[c] = [at |-> client[c].at, id |-> client[c].id, try |-> client[c].try,
                         result |-> client[c].result]
         /\ client[c].result \in {Empty, <<c, client[c].id>>}
         /\ client[c].at = "calling" => client[c].result = Empty

\* Where clients, server and calls of Echo may be.
PlaceInv ==
    /\ \A c \in Clients :
         /\ client[c].at \in {"init", "loop", "calling", "returned", "end"}
         /\ client[c].at = "calling" => client[c].id # 0
    /\ asked \subseteq Clients \cup {"server"}
    /\ server \in {"init", "running", "stopping", "gone"}
    /\ \A h \in handlers : h.at \in {"Echo", "usleep", "return"}
    /\ after \subseteq answered

Refused == {a.try : a \in {b \in answers : b.refused}}
Known == requests \cup accepted \cup {a.try : a \in answers}

\* The tries of a call that have reached Echo, may still reach it, or were refused and
\* will be made up for by another; and those that have.
Sent(c, id) == {t \in requests \cup accepted \cup Refused : t.c = c /\ t.id = id}
Reached(c, id) == {t \in accepted : t.c = c /\ t.id = id}

\* No try is ahead of its client.
TryInv ==
    /\ \A c \in Clients : client[c].id \in 0..MaxCalls /\ client[c].try \in 0..max_retry
    /\ \A t \in Known :
         /\ t = [c |-> t.c, id |-> t.id, try |-> t.try]
         /\ t.c \in Clients /\ t.id \in 1..client[t.c].id /\ t.try \in 0..max_retry
         /\ t.id = client[t.c].id => t.try <= client[t.c].try
    /\ \A a \in answers :
         /\ a = [try |-> a.try, message |-> a.message, refused |-> a.refused]
         /\ a.refused \in BOOLEAN /\ (a.refused => a.message = Empty)

\* A try is on its way, given to Echo or refused, once.
SentInv ==
    /\ requests \cap accepted = {} /\ Refused \cap (requests \cup accepted) = {}
    /\ server = "init" => accepted = {}

\* Only a connection that breaks adds to the tries of a call.
CountInv ==
    /\ breaks \in 0..MaxBreaks
    /\ \A c \in Clients : \A id \in 1..MaxCalls :
         /\ server # "gone" => Cardinality(Sent(c, id)) <= 1 + breaks
         /\ Cardinality(Reached(c, id)) <= 1 + breaks

RetryInv == TryInv /\ SentInv /\ CountInv

IInv == ClosureInv /\ MessageInv /\ ResultInv /\ PlaceInv /\ RetryInv

-----------------------------------------------------------------------------

\* Nothing has been called or accepted.
LEMMA InitIInv == Init => IInv
<1> SUFFICES ASSUME Init PROVE IInv OBVIOUS
<1>1. ClosureInv BY DEF Init, ClosureInv
<1>2. MessageInv BY DEF Init, MessageInv
<1>3. ResultInv BY DEF Init, ResultInv
<1>4. PlaceInv BY DEF Init, PlaceInv
<1>5. TryInv BY <1>1, RpcAssumption DEF Init, TryInv, Known
<1>6. SentInv BY DEF Init, SentInv, Refused
<1>7. \A c, id : Sent(c, id) = {} /\ Reached(c, id) = {}
  BY DEF Init, Sent, Reached, Refused
<1>8. CountInv BY <1>7, FS_EmptySet, RpcAssumption DEF Init, CountInv
<1> QED BY <1>1, <1>2, <1>3, <1>4, <1>5, <1>6, <1>8 DEF IInv, RetryInv

\* A call of Echo goes on to its coroutine, or sets its message and returns.
LEMMA EchoBecomes ==
    ASSUME MessageInv, NEW h \in handlers, Echo(h) \/ EchoAsync(h)
    PROVE  \E new : /\ Becomes(h, new)
                    /\ new = [try |-> new.try, at |-> new.at, message |-> new.message]
                    /\ new.try = h.try
                    /\ new.at = "return" => new.message = Message(h.try)
<1>0. h = [try |-> h.try, at |-> h.at, message |-> h.message] BY DEF MessageInv
<1>1. CASE SetMessage(h)
  <2> DEFINE new == [try |-> h.try, at |-> "return", message |-> Message(h.try)]
  <2>1. Becomes(h, new) BY <1>1 DEF SetMessage
  <2> QED BY <2>1
<1>2. CASE Becomes(h, [h EXCEPT !.at = "usleep"])
  <2> DEFINE new == [try |-> h.try, at |-> "usleep", message |-> h.message]
  <2>1. [h EXCEPT !.at = "usleep"] = new BY <1>0
  <2>2. Becomes(h, new) BY <1>2, <2>1
  <2> QED BY <2>2
<1> QED BY <1>1, <1>2 DEF Echo, EchoAsync

\* RunDone ends a call of Echo and answers its request; Join waits for all to be answered.
LEMMA ClosureStep == IInv /\ [Next]_vars => ClosureInv'
<1> SUFFICES ASSUME IInv, [Next]_vars PROVE ClosureInv' OBVIOUS
<1> USE DEF IInv, ClosureInv, network, service
<1>1. CASE UNCHANGED vars BY <1>1 DEF vars
<1>2. ASSUME NEW p \in Clients \cup {"server"}, AskToQuit(p) PROVE ClosureInv'
  BY <1>2 DEF AskToQuit
<1>3. ASSUME NEW c \in Clients, NEW ok \in BOOLEAN, InitChannel(c, ok) PROVE ClosureInv'
  BY <1>3 DEF InitChannel, Goto
<1>4. ASSUME NEW c \in Clients, Call(c) PROVE ClosureInv' BY <1>4 DEF Call, Try
<1>5. ASSUME NEW c \in Clients, Quit(c) PROVE ClosureInv' BY <1>5 DEF Quit, Goto
<1>6. ASSUME NEW c \in Clients, TimeOut(c) PROVE ClosureInv'
  BY <1>6 DEF TimeOut, Return
<1>7. ASSUME NEW c \in Clients, Sleep(c) PROVE ClosureInv' BY <1>7 DEF Sleep, Goto
<1>8. ASSUME NEW c \in Clients, Receive(c) PROVE ClosureInv'
  BY <1>8 DEF Receive, Retry, Return, Try
<1>9. ASSUME NEW c \in Clients, Disconnect(c) PROVE ClosureInv'
  BY <1>9 DEF Disconnect, Retry, Return
<1>10. ASSUME NEW ok \in BOOLEAN, StartServer(ok) PROVE ClosureInv'
  BY <1>10 DEF StartServer
<1>11. ASSUME NEW t \in requests, Accept(t) PROVE ClosureInv'
  <2>1. CASE server = "running"
    <3> DEFINE new == [try |-> t, at |-> "Echo", message |-> Unset]
    <3>1. handlers' = handlers \cup {new} /\ accepted' = accepted \cup {t}
      BY <1>11, <2>1 DEF Accept
    <3>2. new.try = t OBVIOUS
    <3>3. {h.try : h \in handlers'} = {h.try : h \in handlers} \cup {t}
      <4> HIDE DEF new
      <4> QED BY <3>1, <3>2
    <3>4. UNCHANGED <<server, after, answered>> BY <1>11 DEF Accept
    <3>5. t \notin accepted BY DEF RetryInv, SentInv
    <3>6. \A h \in handlers : h.try # t BY <3>5
    <3>7. \A g, h \in handlers' : g.try = h.try => g = h
      <4> HIDE DEF new
      <4> QED BY <3>1, <3>2, <3>6
    <3>8. {h.try : h \in handlers'} = accepted' \ answered'
      BY <3>1, <3>3, <3>4, <3>5
    <3> QED BY <2>1, <3>1, <3>4, <3>7, <3>8
  <2>2. CASE server # "running" BY <1>11, <2>2 DEF Accept
  <2> QED BY <2>1, <2>2
<1>12. ASSUME NEW h \in handlers, Echo(h) PROVE ClosureInv'
  <2>1. PICK new : Becomes(h, new) /\ new.try = h.try BY <1>12, EchoBecomes
  <2>2. {g.try : g \in handlers'} = {g.try : g \in handlers} BY <2>1 DEF Becomes
  <2>3. UNCHANGED <<accepted, answered, server, after>> BY <2>1 DEF Becomes
  <2>4. server \notin {"init", "gone"} OBVIOUS
  <2>5. \A f, g \in handlers' : f.try = g.try => f = g BY <2>1 DEF Becomes
  <2> QED BY <2>2, <2>3, <2>4, <2>5
<1>13. ASSUME NEW h \in handlers, EchoAsync(h) PROVE ClosureInv'
  <2>1. PICK new : Becomes(h, new) /\ new.try = h.try BY <1>13, EchoBecomes
  <2>2. {g.try : g \in handlers'} = {g.try : g \in handlers} BY <2>1 DEF Becomes
  <2>3. UNCHANGED <<accepted, answered, server, after>> BY <2>1 DEF Becomes
  <2>4. server \notin {"init", "gone"} OBVIOUS
  <2>5. \A f, g \in handlers' : f.try = g.try => f = g BY <2>1 DEF Becomes
  <2> QED BY <2>2, <2>3, <2>4, <2>5
<1>14. ASSUME NEW h \in handlers, RunDone(h) PROVE ClosureInv'
  <2>1. /\ handlers' = handlers \ {h} /\ answered' = answered \cup {h.try}
        /\ UNCHANGED <<accepted, server>>
    BY <1>14 DEF RunDone
  <2>2. {g.try : g \in handlers'} = {g.try : g \in handlers} \ {h.try} BY <2>1
  <2>3. server \notin {"init", "gone"} OBVIOUS
  <2> QED BY <2>1, <2>2, <2>3
<1>15. ASSUME NEW t \in after, CallAfterRpc(t) PROVE ClosureInv'
  BY <1>15 DEF CallAfterRpc
<1>16. CASE Stop BY <1>16 DEF Stop
<1>17. CASE Join
  <2>1. answered = accepted /\ after = {} /\ UNCHANGED <<handlers, accepted, answered, after>>
    BY <1>17 DEF Join
  <2>2. handlers = {} BY <2>1
  <2> QED BY <2>1, <2>2
<1> QED BY <1>1, <1>2, <1>3, <1>4, <1>5, <1>6, <1>7, <1>8, <1>9, <1>10, <1>11, <1>12,
           <1>13, <1>14, <1>15, <1>16, <1>17
        DEF Next, ClientStep, ServiceStep

\* A message is set by Echo or its coroutine, from the request they were given.
LEMMA MessageStep == IInv /\ [Next]_vars => MessageInv'
<1> SUFFICES ASSUME IInv, [Next]_vars PROVE MessageInv' OBVIOUS
<1> USE DEF IInv, MessageInv, network, service
<1>1. CASE UNCHANGED vars BY <1>1 DEF vars
<1>2. ASSUME NEW p \in Clients \cup {"server"}, AskToQuit(p) PROVE MessageInv'
  BY <1>2 DEF AskToQuit
<1>3. ASSUME NEW c \in Clients, NEW ok \in BOOLEAN, InitChannel(c, ok) PROVE MessageInv'
  BY <1>3 DEF InitChannel, Goto
<1>4. ASSUME NEW c \in Clients, Call(c) PROVE MessageInv' BY <1>4 DEF Call, Try
<1>5. ASSUME NEW c \in Clients, Quit(c) PROVE MessageInv' BY <1>5 DEF Quit, Goto
<1>6. ASSUME NEW c \in Clients, TimeOut(c) PROVE MessageInv'
  BY <1>6 DEF TimeOut, Return
<1>7. ASSUME NEW c \in Clients, Sleep(c) PROVE MessageInv' BY <1>7 DEF Sleep, Goto
<1>8. ASSUME NEW c \in Clients, Receive(c) PROVE MessageInv'
  BY <1>8 DEF Receive, Retry, Return, Try
<1>9. ASSUME NEW c \in Clients, Disconnect(c) PROVE MessageInv'
  BY <1>9 DEF Disconnect, Retry, Return
<1>10. ASSUME NEW ok \in BOOLEAN, StartServer(ok) PROVE MessageInv'
  BY <1>10 DEF StartServer
<1>11. ASSUME NEW t \in requests, Accept(t) PROVE MessageInv'
  BY <1>11 DEF Accept, Answer
<1>12. ASSUME NEW h \in handlers, Echo(h) PROVE MessageInv'
  <2>1. PICK new : /\ Becomes(h, new)
                   /\ new = [try |-> new.try, at |-> new.at, message |-> new.message]
                   /\ new.try = h.try
                   /\ new.at = "return" => new.message = Message(h.try)
    BY <1>12, EchoBecomes
  <2> QED BY <2>1 DEF Becomes, Message
<1>13. ASSUME NEW h \in handlers, EchoAsync(h) PROVE MessageInv'
  <2>1. PICK new : /\ Becomes(h, new)
                   /\ new = [try |-> new.try, at |-> new.at, message |-> new.message]
                   /\ new.try = h.try
                   /\ new.at = "return" => new.message = Message(h.try)
    BY <1>13, EchoBecomes
  <2> QED BY <2>1 DEF Becomes, Message
<1>14. ASSUME NEW h \in handlers, RunDone(h) PROVE MessageInv'
  BY <1>14 DEF RunDone, Answer
<1>15. ASSUME NEW t \in after, CallAfterRpc(t) PROVE MessageInv'
  BY <1>15 DEF CallAfterRpc
<1>16. CASE Stop BY <1>16 DEF Stop
<1>17. CASE Join BY <1>17 DEF Join
<1> QED BY <1>1, <1>2, <1>3, <1>4, <1>5, <1>6, <1>7, <1>8, <1>9, <1>10, <1>11, <1>12,
           <1>13, <1>14, <1>15, <1>16, <1>17
        DEF Next, ClientStep, ServiceStep

\* A client takes an answer only for the try it is waiting for.
LEMMA ResultStep == IInv /\ [Next]_vars => ResultInv'
<1> SUFFICES ASSUME IInv, [Next]_vars PROVE ResultInv' OBVIOUS
<1> USE DEF IInv, ResultInv, network, service
<1>1. CASE UNCHANGED vars BY <1>1 DEF vars
<1>2. ASSUME NEW p \in Clients \cup {"server"}, AskToQuit(p) PROVE ResultInv'
  BY <1>2 DEF AskToQuit
<1>3. ASSUME NEW c \in Clients, NEW ok \in BOOLEAN, InitChannel(c, ok) PROVE ResultInv'
  BY <1>3 DEF InitChannel, Goto
<1>4. ASSUME NEW c \in Clients, Call(c) PROVE ResultInv' BY <1>4 DEF Call, Try
<1>5. ASSUME NEW c \in Clients, Quit(c) PROVE ResultInv' BY <1>5 DEF Quit, Goto
<1>6. ASSUME NEW c \in Clients, TimeOut(c) PROVE ResultInv'
  BY <1>6 DEF TimeOut, Return
<1>7. ASSUME NEW c \in Clients, Sleep(c) PROVE ResultInv' BY <1>7 DEF Sleep, Goto
<1>8. ASSUME NEW c \in Clients, Receive(c) PROVE ResultInv'
  BY <1>8 DEF Receive, Retry, Return, Try
<1>9. ASSUME NEW c \in Clients, Disconnect(c) PROVE ResultInv'
  BY <1>9 DEF Disconnect, Retry, Return
<1>10. ASSUME NEW ok \in BOOLEAN, StartServer(ok) PROVE ResultInv'
  BY <1>10 DEF StartServer
<1>11. ASSUME NEW t \in requests, Accept(t) PROVE ResultInv'
  BY <1>11 DEF Accept, Answer
<1>12. ASSUME NEW h \in handlers, Echo(h) PROVE ResultInv'
  BY <1>12 DEF Echo, SetMessage, Becomes
<1>13. ASSUME NEW h \in handlers, EchoAsync(h) PROVE ResultInv'
  BY <1>13 DEF EchoAsync, SetMessage, Becomes
<1>14. ASSUME NEW h \in handlers, RunDone(h) PROVE ResultInv'
  BY <1>14 DEF RunDone, Answer
<1>15. ASSUME NEW t \in after, CallAfterRpc(t) PROVE ResultInv'
  BY <1>15 DEF CallAfterRpc
<1>16. CASE Stop BY <1>16 DEF Stop
<1>17. CASE Join BY <1>17 DEF Join
<1> QED BY <1>1, <1>2, <1>3, <1>4, <1>5, <1>6, <1>7, <1>8, <1>9, <1>10, <1>11, <1>12,
           <1>13, <1>14, <1>15, <1>16, <1>17
        DEF Next, ClientStep, ServiceStep

-----------------------------------------------------------------------------
(* How often a call reaches Echo.                                          *)

AreTries(S, c, id) ==
    \A t \in S : /\ t = [c |-> t.c, id |-> t.id, try |-> t.try]
                 /\ t.c = c /\ t.id = id /\ t.try \in 0..max_retry

\* A call has max_retry + 1 tries.
LEMMA TriesBound ==
    ASSUME NEW c, NEW id, NEW S, AreTries(S, c, id)
    PROVE  IsFiniteSet(S) /\ Cardinality(S) \in Nat /\ Cardinality(S) <= 1 + max_retry
<1> DEFINE I == 0..max_retry
           f == [n \in I |-> [c |-> c, id |-> id, try |-> n]]
           K == {f[n] : n \in I}
<1>1. max_retry \in Nat BY RpcAssumption
<1>2. IsFiniteSet(I) /\ Cardinality(I) = 1 + max_retry
  <2>1. 0 \in Int /\ max_retry \in Int /\ ~(0 > max_retry) BY <1>1
  <2>2. IsFiniteSet(0..max_retry) /\ Cardinality(0..max_retry) = max_retry - 0 + 1
    BY <2>1, FS_Interval
  <2> QED BY <1>1, <2>2
<1>3. f \in Surjection(I, K) BY DEF Surjection
<1>4. IsFiniteSet(K) /\ Cardinality(K) <= 1 + max_retry BY <1>2, <1>3, FS_Surjection
<1>5. S \in SUBSET K
  <2> SUFFICES ASSUME NEW t \in S PROVE t \in K OBVIOUS
  <2>1. t.try \in I /\ t = f[t.try] BY DEF AreTries
  <2> QED BY <2>1
<1> HIDE DEF K, I, f
<1>6. IsFiniteSet(S) /\ Cardinality(S) <= Cardinality(K) BY <1>4, <1>5, FS_Subset
<1>7. Cardinality(S) \in Nat /\ Cardinality(K) \in Nat BY <1>4, <1>6, FS_CardinalityType
<1> QED BY <1>1, <1>4, <1>6, <1>7

LEMMA SentBound ==
    ASSUME TryInv, NEW c, NEW id
    PROVE  /\ IsFiniteSet(Sent(c, id)) /\ Cardinality(Sent(c, id)) \in Nat
           /\ IsFiniteSet(Reached(c, id)) /\ Cardinality(Reached(c, id)) \in Nat
           /\ Cardinality(Reached(c, id)) <= 1 + max_retry
<1>1. PICK S : S = Sent(c, id) OBVIOUS
<1>2. PICK R : R = Reached(c, id) OBVIOUS
<1>3. AreTries(S, c, id) BY <1>1 DEF TryInv, AreTries, Sent, Known, Refused
<1>4. AreTries(R, c, id) BY <1>2 DEF TryInv, AreTries, Reached, Known
<1>5. IsFiniteSet(S) /\ Cardinality(S) \in Nat BY <1>3, TriesBound
<1>6. IsFiniteSet(R) /\ Cardinality(R) \in Nat /\ Cardinality(R) <= 1 + max_retry
  BY <1>4, TriesBound
<1> QED BY <1>1, <1>2, <1>5, <1>6

\* Steps after which no try is there that was not there before.
OnlyDone ==
    \/ answers' \subseteq answers
    \/ \E h \in handlers : answers' = answers \cup {Answer(h.try, h.message, FALSE)}

Shrinks ==
    /\ requests' \subseteq requests /\ accepted' = accepted /\ OnlyDone
    /\ \A c \in Clients : client'[c].id = client[c].id /\ client'[c].try = client[c].try
    /\ breaks' \in 0..MaxBreaks /\ breaks' >= breaks
    /\ server' = "gone" \/ server' = server \/ (server \in {"init", "running"} /\ server' # "init")

LEMMA ShrinkStep ==
    ASSUME RetryInv, ClosureInv, Shrinks
    PROVE  RetryInv'
<1> USE DEF RetryInv
<1>1. Refused' \subseteq Refused /\ Known' \subseteq Known
  <2>1. \A h \in handlers : h.try \in accepted BY DEF ClosureInv
  <2>2. CASE answers' \subseteq answers BY <2>2 DEF Shrinks, Refused, Known
  <2>3. CASE \E h \in handlers : answers' = answers \cup {Answer(h.try, h.message, FALSE)}
    BY <2>1, <2>3 DEF Shrinks, Refused, Known, Answer
  <2> QED BY <2>2, <2>3 DEF Shrinks, OnlyDone
<1>2. TryInv'
  <2>1. \A t \in Known' :
          /\ t = [c |-> t.c, id |-> t.id, try |-> t.try]
          /\ t.c \in Clients /\ t.id \in 1..client'[t.c].id /\ t.try \in 0..max_retry
          /\ t.id = client'[t.c].id => t.try <= client'[t.c].try
    BY <1>1 DEF TryInv, Shrinks
  <2>2. ASSUME NEW a \in answers'
        PROVE  /\ a = [try |-> a.try, message |-> a.message, refused |-> a.refused]
               /\ a.refused \in BOOLEAN /\ (a.refused => a.message = Empty)
    <3>1. CASE a \in answers BY <3>1 DEF TryInv
    <3>2. ASSUME NEW h \in handlers, a = [try |-> h.try, message |-> h.message, refused |-> FALSE]
          PROVE  /\ a = [try |-> a.try, message |-> a.message, refused |-> a.refused]
                 /\ a.refused \in BOOLEAN /\ ~a.refused
      BY <3>2
    <3>3. a \in answers \/ \E h \in handlers : a = Answer(h.try, h.message, FALSE)
      BY DEF Shrinks, OnlyDone
    <3> QED BY <3>1, <3>2, <3>3 DEF Answer
  <2> QED BY <2>1, <2>2 DEF TryInv, Shrinks
<1>3. SentInv' BY <1>1 DEF SentInv, Shrinks
<1>4. CountInv'
  <2> SUFFICES ASSUME NEW c \in Clients, NEW id \in 1..MaxCalls
               PROVE  /\ server' # "gone" => Cardinality(Sent(c, id)') <= 1 + breaks'
                      /\ Cardinality(Reached(c, id)') <= 1 + breaks'
    BY DEF CountInv, Shrinks
  <2>1. breaks \in Nat /\ breaks' \in Nat /\ breaks' >= breaks
    BY RpcAssumption DEF CountInv, Shrinks
  <2>2. Reached(c, id)' = Reached(c, id) BY DEF Reached, Shrinks
  <2>3. Sent(c, id)' \subseteq Sent(c, id) BY <1>1 DEF Sent, Shrinks
  <2>4. /\ Cardinality(Sent(c, id)') <= Cardinality(Sent(c, id))
        /\ Cardinality(Sent(c, id)') \in Nat /\ Cardinality(Sent(c, id)) \in Nat
        /\ Cardinality(Reached(c, id)) \in Nat
    BY <2>3, SentBound, FS_Subset, FS_CardinalityType
  <2>5. server' # "gone" => server # "gone" BY DEF Shrinks, OnlyDone
  <2> QED BY <2>1, <2>2, <2>4, <2>5 DEF CountInv
<1> QED BY <1>2, <1>3, <1>4

\* Removing, adding and replacing an element.
LEMMA AtMostOne == ASSUME NEW t, NEW T \in SUBSET {t} PROVE Cardinality(T) <= 1
<1>1. IsFiniteSet({t}) /\ Cardinality({t}) = 1 BY FS_Singleton
<1>2. Cardinality(T) <= Cardinality({t}) /\ Cardinality(T) \in Nat
  BY <1>1, FS_Subset, FS_CardinalityType
<1> QED BY <1>1, <1>2

LEMMA OneMore ==
    ASSUME NEW S, IsFiniteSet(S), NEW t, NEW T \in SUBSET (S \cup {t})
    PROVE  Cardinality(T) <= Cardinality(S) + 1
<1>1. IsFiniteSet(S \cup {t}) /\ Cardinality(S \cup {t}) <= Cardinality(S) + 1
  <2>1. Cardinality(S) \in Nat BY FS_CardinalityType
  <2>2. /\ IsFiniteSet(S \cup {t})
        /\ Cardinality(S \cup {t}) = Cardinality(S)
             \/ Cardinality(S \cup {t}) = Cardinality(S) + 1
    BY FS_AddElement
  <2> QED BY <2>1, <2>2
<1>2. Cardinality(T) <= Cardinality(S \cup {t}) BY <1>1, FS_Subset
<1>3. Cardinality(T) \in Nat /\ Cardinality(S \cup {t}) \in Nat /\ Cardinality(S) \in Nat
  BY <1>1, FS_Subset, FS_CardinalityType
<1> QED BY <1>1, <1>2, <1>3

LEMMA Replaced ==
    ASSUME NEW S, IsFiniteSet(S), NEW r \in S, NEW t, NEW T \in SUBSET ((S \ {r}) \cup {t})
    PROVE  Cardinality(T) <= Cardinality(S)
<1>1. IsFiniteSet(S \ {r}) /\ Cardinality(S \ {r}) = Cardinality(S) - 1
  BY FS_RemoveElement
<1>2. Cardinality(T) <= Cardinality(S \ {r}) + 1 BY <1>1, OneMore
<1>3. Cardinality(S) \in Nat BY FS_CardinalityType
<1>4. IsFiniteSet((S \ {r}) \cup {t}) BY <1>1, FS_AddElement
<1>5. Cardinality(T) \in Nat BY <1>4, FS_Subset, FS_CardinalityType
<1> QED BY <1>1, <1>2, <1>3, <1>5

\* Steps in which a client makes a try, its first or the next one.
Renews(c, t) ==
    /\ t = [c |-> c, id |-> client'[c].id, try |-> client'[c].try]
    /\ t.id \in 1..MaxCalls /\ t.try \in 0..max_retry
    /\ \/ t.id = client[c].id + 1 /\ t.try = 0
       \/ t.id = client[c].id /\ t.try = client[c].try + 1
    /\ \A d \in Clients \ {c} :
         client'[d].id = client[d].id /\ client'[d].try = client[d].try
    /\ requests' \subseteq requests \cup {t} /\ accepted' = accepted
    /\ answers' \subseteq answers /\ server' = server
    /\ breaks' \in 0..MaxBreaks /\ breaks' >= breaks

\* The try is new.
LEMMA NewTry ==
    ASSUME TryInv, NEW c \in Clients, NEW t, Renews(c, t)
    PROVE  t \notin Known
<1> SUFFICES ASSUME t \in Known PROVE FALSE OBVIOUS
<1>1. t.c = c BY DEF Renews
<1>2. t.id \in 1..client[c].id /\ (t.id = client[c].id => t.try <= client[c].try)
  BY <1>1 DEF TryInv
<1>3. client[c].id \in Nat /\ client[c].try \in Nat BY DEF TryInv
<1> QED BY <1>2, <1>3 DEF Renews

LEMMA RenewStep ==
    ASSUME RetryInv, NEW c \in Clients, NEW t, Renews(c, t),
           server # "gone" => Cardinality(Sent(c, t.id)') <= 1 + breaks'
    PROVE  RetryInv'
<1> USE DEF RetryInv
<1>1. t \notin Known BY NewTry
<1>2. Refused' \subseteq Refused /\ Known' \subseteq Known \cup {t}
  BY DEF Renews, Refused, Known
<1>3. TryInv'
  <2>1. \A d \in Clients : client'[d].id \in 0..MaxCalls /\ client'[d].try \in 0..max_retry
    BY DEF TryInv, Renews
  <2>2. ASSUME NEW u \in Known'
        PROVE  /\ u = [c |-> u.c, id |-> u.id, try |-> u.try]
               /\ u.c \in Clients /\ u.id \in 1..client'[u.c].id /\ u.try \in 0..max_retry
               /\ u.id = client'[u.c].id => u.try <= client'[u.c].try
    <3>1. CASE u = t
      <4>1. u = [c |-> c, id |-> u.id, try |-> u.try]
        BY <3>1 DEF Renews
      <4>2. u.c = c /\ u.id = client'[c].id /\ u.try = client'[c].try BY <3>1 DEF Renews
      <4>3. u.id \in 1..MaxCalls /\ u.try \in 0..max_retry BY <3>1 DEF Renews
      <4>4. u.id \in 1..u.id /\ u.try <= u.try BY <4>3, RpcAssumption
      <4> QED BY <4>1, <4>2, <4>3, <4>4
    <3>2. CASE u \in Known
      <4>1. /\ u = [c |-> u.c, id |-> u.id, try |-> u.try]
            /\ u.c \in Clients /\ u.id \in 1..client[u.c].id /\ u.try \in 0..max_retry
            /\ u.id = client[u.c].id => u.try <= client[u.c].try
        BY <3>2 DEF TryInv
      <4>2. CASE u.c = c
        <5>1. client[c].id \in Nat /\ client[c].try \in Nat BY DEF TryInv
        <5>2. \/ client'[c].id = client[c].id + 1
              \/ client'[c].id = client[c].id /\ client'[c].try = client[c].try + 1
          BY DEF Renews
        <5> QED BY <4>1, <4>2, <5>1, <5>2
      <4>3. CASE u.c # c BY <4>1, <4>3 DEF Renews
      <4> QED BY <4>2, <4>3
    <3> QED BY <1>2, <3>1, <3>2
  <2>3. \A a \in answers' :
          /\ a = [try |-> a.try, message |-> a.message, refused |-> a.refused]
          /\ a.refused \in BOOLEAN /\ (a.refused => a.message = Empty)
    BY DEF TryInv, Renews
  <2> QED BY <2>1, <2>2, <2>3 DEF TryInv
<1>4. SentInv' BY <1>1, <1>2 DEF SentInv, Renews, Known, Refused
<1>5. CountInv'
  <2> SUFFICES ASSUME NEW d \in Clients, NEW id \in 1..MaxCalls
               PROVE  /\ server' # "gone" => Cardinality(Sent(d, id)') <= 1 + breaks'
                      /\ Cardinality(Reached(d, id)') <= 1 + breaks'
    BY DEF CountInv, Renews
  <2>1. breaks \in Nat /\ breaks' \in Nat /\ breaks' >= breaks
    BY RpcAssumption DEF CountInv, Renews
  <2>2. Reached(d, id)' = Reached(d, id) BY DEF Reached, Renews
  <2>3. /\ Cardinality(Reached(d, id)) \in Nat /\ Cardinality(Sent(d, id)) \in Nat
        /\ IsFiniteSet(Sent(d, id))
    BY SentBound
  <2>4. CASE d = c /\ id = t.id
    <3>1. server' # "gone" => Cardinality(Sent(d, id)') <= 1 + breaks' BY <2>4 DEF Renews
    <3> QED BY <2>1, <2>2, <2>3, <3>1 DEF CountInv
  <2>5. CASE ~(d = c /\ id = t.id)
    <3>1. t.c = c BY DEF Renews
    <3>2. Sent(d, id)' \subseteq Sent(d, id) BY <1>2, <2>5, <3>1 DEF Sent, Renews
    <3>3. /\ Cardinality(Sent(d, id)') <= Cardinality(Sent(d, id))
          /\ Cardinality(Sent(d, id)') \in Nat
      BY <2>3, <3>2, FS_Subset, FS_CardinalityType
    <3> QED BY <2>1, <2>2, <2>3, <3>3 DEF CountInv, Renews
  <2> QED BY <2>4, <2>5
<1> QED BY <1>3, <1>4, <1>5

\* A try that is given to Echo, or refused, is counted already.
LEMMA AcceptStep ==
    ASSUME RetryInv, NEW t \in requests, Accept(t)
    PROVE  RetryInv'
<1> USE DEF RetryInv
<1>1. UNCHANGED <<client, server, breaks>> /\ requests' = requests \ {t} BY DEF Accept
<1>2. \/ server = "running" /\ accepted' = accepted \cup {t} /\ answers' = answers
      \/ /\ accepted' = accepted /\ server = "stopping"
         /\ answers' = answers \cup {Answer(t, Empty, TRUE)}
  BY DEF Accept
<1>3. Refused' \subseteq Refused \cup ({t} \ accepted') /\ Known' \subseteq Known
  <2>1. t \notin accepted BY DEF SentInv
  <2>2. CASE answers' = answers BY <1>1, <1>2, <2>2 DEF Refused, Known
  <2>3. CASE accepted' = accepted /\ answers' = answers \cup {Answer(t, Empty, TRUE)}
    <3>1. Answer(t, Empty, TRUE).try = t BY DEF Answer
    <3>2. Refused' \subseteq Refused \cup {t} BY <2>3, <3>1 DEF Refused
    <3>3. Known' \subseteq Known BY <1>1, <2>3, <3>1 DEF Known
    <3> QED BY <2>1, <2>3, <3>2, <3>3
  <2> QED BY <1>2, <2>2, <2>3
<1>4. TryInv'
  <2>1. ASSUME NEW a \in answers'
        PROVE  /\ a = [try |-> a.try, message |-> a.message, refused |-> a.refused]
               /\ a.refused \in BOOLEAN /\ (a.refused => a.message = Empty)
    <3>1. CASE a \in answers BY <3>1 DEF TryInv
    <3>2. CASE a = Answer(t, Empty, TRUE) BY <3>2 DEF Answer
    <3> QED BY <1>2, <3>1, <3>2
  <2> QED BY <1>1, <1>3, <2>1 DEF TryInv
<1>5. SentInv' BY <1>1, <1>2, <1>3 DEF SentInv
<1>6. CountInv'
  <2> SUFFICES ASSUME NEW c \in Clients, NEW id \in 1..MaxCalls
               PROVE  /\ server' # "gone" => Cardinality(Sent(c, id)') <= 1 + breaks'
                      /\ Cardinality(Reached(c, id)') <= 1 + breaks'
    BY <1>1 DEF CountInv
  <2>1. breaks \in Nat BY RpcAssumption DEF CountInv
  <2>2. Sent(c, id)' \subseteq Sent(c, id) BY <1>1, <1>2, <1>3 DEF Sent
  <2>3. Reached(c, id)' \subseteq Sent(c, id) BY <1>2 DEF Sent, Reached
  <2>4. IsFiniteSet(Sent(c, id)) /\ Cardinality(Sent(c, id)) \in Nat BY SentBound
  <2>5. /\ Cardinality(Sent(c, id)') <= Cardinality(Sent(c, id))
        /\ Cardinality(Sent(c, id)') \in Nat
    BY <2>2, <2>4, FS_Subset, FS_CardinalityType
  <2>6. /\ Cardinality(Reached(c, id)') <= Cardinality(Sent(c, id))
        /\ Cardinality(Reached(c, id)') \in Nat
    BY <2>3, <2>4, FS_Subset, FS_CardinalityType
  <2>7. Cardinality(Sent(c, id)) <= 1 + breaks BY <1>2 DEF CountInv
  <2> QED BY <1>1, <2>1, <2>4, <2>5, <2>6, <2>7
<1> QED BY <1>4, <1>5, <1>6

\* Retry makes the next try of the call, or ends it.
LEMMA RetryEffect ==
    ASSUME ResultInv, NEW c \in Clients, client[c].at = "calling", Retry(c)
    PROVE  /\ \A d \in Clients \ {c} : client'[d] = client[d]
           /\ client'[c].id = client[c].id
           /\ \/ /\ client[c].try < max_retry /\ client'[c].try = client[c].try + 1
                 /\ client'[c].at = "calling"
              \/ client'[c].try = client[c].try /\ client'[c].at = "returned"
<1>1. client = [d \in Clients |-> client[d]] BY DEF ResultInv
<1>2. client[c] = [at |-> client[c].at, id |-> client[c].id, try |-> client[c].try,
                   result |-> client[c].result]
  BY DEF ResultInv
<1>3. CASE client[c].try < max_retry /\ client' = [client EXCEPT ![c].try = @ + 1]
  <2>1. client'[c] = [at |-> client[c].at, id |-> client[c].id, try |-> client[c].try + 1,
                      result |-> client[c].result]
    BY <1>1, <1>2, <1>3
  <2>2. \A d \in Clients \ {c} : client'[d] = client[d] BY <1>1, <1>3
  <2> QED BY <1>3, <2>1, <2>2
<1>4. CASE client' = [client EXCEPT ![c].at = "returned", ![c].result = Empty]
  <2>1. client'[c] = [at |-> "returned", id |-> client[c].id, try |-> client[c].try,
                      result |-> Empty]
    BY <1>1, <1>2, <1>4
  <2>2. \A d \in Clients \ {c} : client'[d] = client[d] BY <1>1, <1>4
  <2> QED BY <2>1, <2>2
<1> QED BY <1>3, <1>4 DEF Retry, Return

\* Clients, server and calls of Echo are at places of their programs, and a call has a
\* number.
LEMMA PlaceStep == IInv /\ [Next]_vars => PlaceInv'
<1> SUFFICES ASSUME IInv, [Next]_vars PROVE PlaceInv' OBVIOUS
<1> USE DEF IInv, PlaceInv, network, service
<1>n. \A d \in Clients : client[d].id \in Nat BY DEF RetryInv, TryInv
<1>f. ResultInv OBVIOUS
<1>1. CASE UNCHANGED vars BY <1>1 DEF vars
<1>2. ASSUME NEW p \in Clients \cup {"server"}, AskToQuit(p) PROVE PlaceInv'
  BY <1>2 DEF AskToQuit
<1>3. ASSUME NEW c \in Clients, NEW ok \in BOOLEAN, InitChannel(c, ok) PROVE PlaceInv'
  BY <1>3 DEF InitChannel, Goto, ResultInv
<1>4. ASSUME NEW c \in Clients, Call(c) PROVE PlaceInv'
  BY <1>4, <1>n DEF Call, ResultInv
<1>5. ASSUME NEW c \in Clients, Quit(c) PROVE PlaceInv'
  BY <1>5 DEF Quit, Goto, ResultInv
<1>6. ASSUME NEW c \in Clients, TimeOut(c) PROVE PlaceInv'
  BY <1>6 DEF TimeOut, Return, ResultInv
<1>7. ASSUME NEW c \in Clients, Sleep(c) PROVE PlaceInv'
  BY <1>7 DEF Sleep, Goto, ResultInv
<1>8. ASSUME NEW c \in Clients, Receive(c) PROVE PlaceInv'
  <2>1. UNCHANGED <<asked, server, handlers, after, answered>> BY <1>8 DEF Receive
  <2>2. \/ UNCHANGED client
        \/ client[c].at = "calling" /\ Retry(c)
        \/ client[c].at = "calling" /\ \E m : Return(c, m)
    BY <1>8 DEF Receive
  <2>3. CASE client[c].at = "calling" /\ Retry(c) BY <2>1, <2>3, RetryEffect
  <2>4. CASE client[c].at = "calling" /\ \E m : Return(c, m)
    BY <2>1, <2>4 DEF Return, ResultInv
  <2> QED BY <2>1, <2>2, <2>3, <2>4
<1>9. ASSUME NEW c \in Clients, Disconnect(c) PROVE PlaceInv'
  <2>1. UNCHANGED <<asked, server, handlers, after, answered>> BY <1>9 DEF Disconnect
  <2>2. UNCHANGED client \/ (client[c].at = "calling" /\ Retry(c)) BY <1>9 DEF Disconnect
  <2> QED BY <2>1, <2>2, RetryEffect
<1>10. ASSUME NEW ok \in BOOLEAN, StartServer(ok) PROVE PlaceInv'
  BY <1>10 DEF StartServer
<1>11. ASSUME NEW t \in requests, Accept(t) PROVE PlaceInv'
  <2>1. UNCHANGED <<client, asked, server, after, answered>> BY <1>11 DEF Accept
  <2>2. ASSUME NEW h \in handlers' PROVE h.at \in {"Echo", "usleep", "return"}
    <3>1. h \in handlers \/ h = [try |-> t, at |-> "Echo", message |-> Unset]
      BY <1>11 DEF Accept
    <3> QED BY <3>1
  <2> QED BY <2>1, <2>2
<1>12. ASSUME NEW h \in handlers, Echo(h) PROVE PlaceInv'
  BY <1>12 DEF Echo, SetMessage, Becomes, MessageInv
<1>13. ASSUME NEW h \in handlers, EchoAsync(h) PROVE PlaceInv'
  BY <1>13 DEF EchoAsync, SetMessage, Becomes
<1>14. ASSUME NEW h \in handlers, RunDone(h) PROVE PlaceInv' BY <1>14 DEF RunDone
<1>15. ASSUME NEW t \in after, CallAfterRpc(t) PROVE PlaceInv' BY <1>15 DEF CallAfterRpc
<1>16. CASE Stop BY <1>16 DEF Stop
<1>17. CASE Join BY <1>17 DEF Join
<1> QED BY <1>1, <1>2, <1>3, <1>4, <1>5, <1>6, <1>7, <1>8, <1>9, <1>10, <1>11, <1>12,
           <1>13, <1>14, <1>15, <1>16, <1>17
        DEF Next, ClientStep, ServiceStep

\* A refused try is replaced by the next one.
LEMMA ReceiveStep ==
    ASSUME IInv, NEW c \in Clients, Receive(c)
    PROVE  RetryInv'
<1> USE DEF IInv, network, service
<1>0. breaks \in 0..MaxBreaks /\ breaks \in Nat BY RpcAssumption DEF RetryInv, CountInv
<1>1. PICK a \in answers :
        /\ a.try.c = c
        /\ answers' = answers \ {a}
        /\ IF client[c].at = "calling" /\ a.try = Try(c)
           THEN IF a.refused THEN Retry(c) ELSE Return(c, a.message)
           ELSE UNCHANGED client
        /\ requests' = IF client'[c] # client[c] THEN requests \cup NewTries(c)
                       ELSE requests
  BY DEF Receive
<1>2. UNCHANGED <<server, accepted, breaks>> BY DEF Receive
<1>3. CASE ~(client[c].at = "calling" /\ a.try = Try(c))
  <2>1. UNCHANGED client BY <1>1, <1>3
  <2>2. requests' = requests /\ answers' \subseteq answers BY <1>1, <2>1
  <2>3. OnlyDone BY <2>2 DEF OnlyDone
  <2>9. Shrinks BY <1>0, <1>2, <2>1, <2>2, <2>3 DEF Shrinks
  <2> QED BY <2>9, ShrinkStep
<1>4. CASE client[c].at = "calling" /\ a.try = Try(c) /\ ~a.refused
  <2>1. client' = [client EXCEPT ![c].at = "returned", ![c].result = a.message]
    BY <1>1, <1>4 DEF Return
  <2>2. client'[c].at = "returned" /\ client'[c].id = client[c].id
          /\ client'[c].try = client[c].try
    BY <2>1 DEF ResultInv
  <2>3. \A d \in Clients \ {c} : client'[d] = client[d] BY <2>1 DEF ResultInv
  <2>4. requests' = requests BY <1>1, <2>2 DEF NewTries
  <2>5. answers' \subseteq answers BY <1>1
  <2>6. \A d \in Clients : client'[d].id = client[d].id /\ client'[d].try = client[d].try
    BY <2>2, <2>3
  <2>7. OnlyDone BY <2>5 DEF OnlyDone
  <2>9. Shrinks BY <1>0, <1>2, <2>4, <2>6, <2>7 DEF Shrinks
  <2> QED BY <2>9, ShrinkStep
<1>5. CASE client[c].at = "calling" /\ a.try = Try(c) /\ a.refused
  <2>1. Retry(c) BY <1>1, <1>5
  <2>2. /\ \A d \in Clients \ {c} : client'[d] = client[d]
        /\ client'[c].id = client[c].id
        /\ \/ /\ client[c].try < max_retry /\ client'[c].try = client[c].try + 1
              /\ client'[c].at = "calling"
           \/ client'[c].try = client[c].try /\ client'[c].at = "returned"
    BY <1>5, <2>1, RetryEffect
  <2>3. CASE client'[c].at = "returned"
    <3>1. requests' = requests BY <1>1, <2>3 DEF NewTries
    <3>2. client'[c].try = client[c].try BY <2>2, <2>3
    <3>3. answers' \subseteq answers BY <1>1
    <3>4. \A d \in Clients : client'[d].id = client[d].id /\ client'[d].try = client[d].try
      BY <2>2, <3>2
    <3>5. OnlyDone BY <3>3 DEF OnlyDone
    <3>9. Shrinks BY <1>0, <1>2, <3>1, <3>4, <3>5 DEF Shrinks
    <3> QED BY <3>9, ShrinkStep
  <2>4. CASE client'[c].at = "calling"
    <3>1. PICK t : t = Try(c)' OBVIOUS
    <3>2. t = [c |-> c, id |-> client'[c].id, try |-> client'[c].try] BY <3>1 DEF Try
    <3>3. requests' \subseteq requests \cup {t} BY <1>1, <2>4, <3>1 DEF NewTries
    <3>4. client[c].id \in Nat /\ client[c].try \in Nat /\ client[c].id \in 0..MaxCalls
      BY RpcAssumption DEF RetryInv, TryInv
    <3>5. a.try \in Known /\ a.try.id = client[c].id BY <1>5 DEF Known, Try
    <3>6. client[c].id \in 1..MaxCalls
      <4>1. a.try.id \in 1..client[a.try.c].id BY <3>5 DEF RetryInv, TryInv
      <4> QED BY <3>4, <3>5, <4>1
    <3>7. t.id \in 1..MaxCalls /\ t.try \in 0..max_retry
      BY <2>2, <2>4, <3>2, <3>4, <3>6, RpcAssumption
    <3>8. Renews(c, t)
      BY <1>0, <1>1, <1>2, <2>2, <2>4, <3>2, <3>3, <3>7 DEF Renews
    <3>9. server # "gone" => Cardinality(Sent(c, t.id)') <= 1 + breaks'
      <4> DEFINE r == a.try
      <4>1. r.c = c /\ r.id = t.id BY <1>1, <2>2, <3>2, <3>5
      <4>2. r \in Refused BY <1>5 DEF Refused
      <4>3. r \in Sent(c, t.id) BY <4>1, <4>2 DEF Sent
      <4>4. r \notin Refused'
        <5>1. \A b \in answers : b.refused /\ b.try = r => b = a
          BY <1>5 DEF RetryInv, TryInv
        <5> QED BY <1>1, <5>1 DEF Refused
      <4>5. r \notin requests /\ r \notin accepted BY <4>2 DEF RetryInv, SentInv
      <4>6. Refused' \subseteq Refused BY <1>1 DEF Refused
      <4>7. Sent(c, t.id)' \subseteq (Sent(c, t.id) \ {r}) \cup {t}
        BY <1>2, <3>3, <4>4, <4>5, <4>6 DEF Sent
      <4>8. IsFiniteSet(Sent(c, t.id)) BY SentBound DEF RetryInv
      <4>9. Cardinality(Sent(c, t.id)') <= Cardinality(Sent(c, t.id))
        <5> HIDE DEF r
        <5> QED BY <4>3, <4>7, <4>8, Replaced
      <4>10. Cardinality(Sent(c, t.id)) \in Nat BY <4>8, FS_CardinalityType
      <4>11. Cardinality(Sent(c, t.id)') \in Nat
        <5> HIDE DEF r
        <5>1. IsFiniteSet((Sent(c, t.id) \ {r}) \cup {t})
          BY <4>3, <4>8, FS_RemoveElement, FS_AddElement
        <5> QED BY <4>7, <5>1, FS_Subset, FS_CardinalityType
      <4>12. server # "gone" => Cardinality(Sent(c, t.id)) <= 1 + breaks
        BY <3>7 DEF RetryInv, CountInv
      <4> QED BY <1>0, <1>2, <4>9, <4>10, <4>11, <4>12
    <3> QED BY <3>8, <3>9, RenewStep
  <2> QED BY <2>2, <2>3, <2>4
<1> QED BY <1>3, <1>4, <1>5

\* A connection that breaks allows for one more try; without a server there is none that
\* could reach Echo.
LEMMA DisconnectStep ==
    ASSUME IInv, NEW c \in Clients, Disconnect(c)
    PROVE  RetryInv'
<1> USE DEF IInv, network, service
<1>0. breaks \in 0..MaxBreaks /\ breaks \in Nat BY RpcAssumption DEF RetryInv, CountInv
<1>1. /\ UNCHANGED <<server, accepted>>
      /\ requests' = {t \in requests : t.c # c} \cup NewTries(c)
      /\ answers' = {a \in answers : a.try.c # c}
      /\ IF client[c].at = "calling" THEN Retry(c) ELSE UNCHANGED client
  BY DEF Disconnect
<1>2. /\ breaks' \in 0..MaxBreaks /\ breaks' \in Nat /\ breaks' >= breaks
      /\ server \in {"running", "stopping"} => breaks' = breaks + 1
  BY <1>0, RpcAssumption DEF Disconnect
<1>3. CASE client[c].at # "calling"
  <2>1. UNCHANGED client BY <1>1, <1>3
  <2>2. requests' \subseteq requests BY <1>1, <1>3, <2>1 DEF NewTries
  <2> QED BY <1>1, <1>2, <2>1, <2>2, ShrinkStep DEF Shrinks, OnlyDone
<1>4. CASE client[c].at = "calling"
  <2>1. Retry(c) BY <1>1, <1>4
  <2>2. /\ \A d \in Clients \ {c} : client'[d] = client[d]
        /\ client'[c].id = client[c].id
        /\ \/ /\ client[c].try < max_retry /\ client'[c].try = client[c].try + 1
              /\ client'[c].at = "calling"
           \/ client'[c].try = client[c].try /\ client'[c].at = "returned"
    BY <1>4, <2>1, RetryEffect
  <2>3. CASE client'[c].at = "returned"
    <3>1. requests' \subseteq requests BY <1>1, <2>3 DEF NewTries
    <3>2. client'[c].try = client[c].try BY <2>2, <2>3
    <3> QED BY <1>1, <1>2, <2>2, <3>1, <3>2, ShrinkStep DEF Shrinks, OnlyDone
  <2>4. CASE client'[c].at = "calling"
    <3>1. PICK t : t = Try(c)' OBVIOUS
    <3>2. t = [c |-> c, id |-> client'[c].id, try |-> client'[c].try] BY <3>1 DEF Try
    <3>3. requests' = {u \in requests : u.c # c} \cup {t}
      BY <1>1, <2>4, <3>1 DEF NewTries
    <3>4. client[c].id \in Nat /\ client[c].try \in Nat /\ client[c].id \in 0..MaxCalls
      BY RpcAssumption DEF RetryInv, TryInv
    <3>5. client[c].id # 0 BY <1>4 DEF PlaceInv
    <3>6. t.id \in 1..MaxCalls /\ t.try \in 0..max_retry
      BY <2>2, <2>4, <3>2, <3>4, <3>5, RpcAssumption
    <3>7. Renews(c, t)
      BY <1>1, <1>2, <2>2, <2>4, <3>2, <3>3, <3>6 DEF Renews
    <3>8. IsFiniteSet(Sent(c, t.id)) /\ Cardinality(Sent(c, t.id)) \in Nat
      BY SentBound DEF RetryInv
    <3>9. Refused' \subseteq {u \in Refused : u.c # c} BY <1>1 DEF Refused
    <3>10. server # "gone" => Cardinality(Sent(c, t.id)') <= 1 + breaks'
      <4>1. CASE server \in {"running", "stopping"}
        <5>1. Sent(c, t.id)' \subseteq Sent(c, t.id) \cup {t}
          BY <1>1, <3>3, <3>9 DEF Sent
        <5>2. Cardinality(Sent(c, t.id)') <= Cardinality(Sent(c, t.id)) + 1
          BY <3>8, <5>1, OneMore
        <5>3. Cardinality(Sent(c, t.id)') \in Nat
          BY <3>8, <5>1, FS_AddElement, FS_Subset, FS_CardinalityType
        <5>4. Cardinality(Sent(c, t.id)) <= 1 + breaks
          BY <3>6, <4>1 DEF RetryInv, CountInv
        <5> QED BY <1>0, <1>2, <3>8, <4>1, <5>2, <5>3, <5>4
      <4>2. CASE server = "init"
        <5>1. accepted' = {} BY <1>1, <4>2 DEF RetryInv, SentInv
        <5>2. Sent(c, t.id)' \subseteq {t} BY <3>3, <3>9, <5>1 DEF Sent
        <5>3. Cardinality(Sent(c, t.id)') <= 1 /\ Cardinality(Sent(c, t.id)') \in Nat
          BY <5>2, AtMostOne, FS_Singleton, FS_Subset, FS_CardinalityType
        <5> QED BY <1>2, <5>3
      <4> QED BY <4>1, <4>2 DEF PlaceInv
    <3> QED BY <3>7, <3>10, RenewStep
  <2> QED BY <2>2, <2>3, <2>4
<1> QED BY <1>3, <1>4

\* What the network and the server do adds no try of a call, except where a client makes
\* its next one: and then a connection has broken, or the try before it was refused.
LEMMA RetryStep == IInv /\ [Next]_vars => RetryInv'
<1> SUFFICES ASSUME IInv, [Next]_vars PROVE RetryInv' OBVIOUS
<1> USE DEF IInv, network, service
<1>0. breaks \in 0..MaxBreaks /\ breaks \in Nat BY RpcAssumption DEF RetryInv, CountInv
<1>s. Shrinks => RetryInv' BY ShrinkStep
<1>r. \A d \in Clients : client[d] = [at |-> client[d].at, id |-> client[d].id,
                                      try |-> client[d].try, result |-> client[d].result]
  BY DEF ResultInv
<1>f. client = [d \in Clients |-> client[d]] BY DEF ResultInv
<1>n. \A d \in Clients : client[d].id \in 0..MaxCalls /\ client[d].try \in 0..max_retry
                           /\ client[d].id \in Nat /\ client[d].try \in Nat
  BY RpcAssumption DEF RetryInv, TryInv
<1>1. CASE UNCHANGED vars BY <1>0, <1>1, <1>s DEF vars, Shrinks, OnlyDone
<1>2. ASSUME NEW p \in Clients \cup {"server"}, AskToQuit(p) PROVE RetryInv'
  BY <1>0, <1>2, <1>s DEF AskToQuit, Shrinks, OnlyDone
<1>3. ASSUME NEW c \in Clients, NEW ok \in BOOLEAN, InitChannel(c, ok) PROVE RetryInv'
  BY <1>0, <1>3, <1>s, <1>f, <1>r DEF InitChannel, Goto, Shrinks, OnlyDone
<1>4. ASSUME NEW c \in Clients, Call(c) PROVE RetryInv'
  <2>1. PICK t : t = Try(c)' OBVIOUS
  <2>2. client' = [client EXCEPT ![c] = [at |-> "calling", id |-> client[c].id + 1,
                                         try |-> 0, result |-> Empty]]
    BY <1>4 DEF Call
  <2>3. client'[c].id = client[c].id + 1 /\ client'[c].try = 0 BY <1>f, <2>2
  <2>4. \A d \in Clients \ {c} : client'[d] = client[d] BY <1>f, <2>2
  <2>5. /\ UNCHANGED <<server, answers, accepted, breaks>>
        /\ requests' = requests \cup {t} /\ client[c].id < MaxCalls
    BY <1>4, <2>1 DEF Call
  <2>6. t = [c |-> c, id |-> client'[c].id, try |-> client'[c].try] BY <2>1 DEF Try
  <2>7. t.id \in 1..MaxCalls /\ t.try \in 0..max_retry
    BY <1>n, <2>3, <2>5, <2>6, RpcAssumption
  <2>8. Renews(c, t) BY <1>0, <2>3, <2>4, <2>5, <2>6, <2>7 DEF Renews
  <2>9. Sent(c, t.id)' \subseteq {t}
    <3>1. Sent(c, t.id)' \subseteq Sent(c, t.id) \cup {t} BY <2>5 DEF Sent, Refused
    <3>2. ASSUME NEW u \in Sent(c, t.id) PROVE FALSE
      <4>1. u.id \in 1..client[c].id BY DEF RetryInv, TryInv, Known, Sent, Refused
      <4>2. u.id = client[c].id + 1 BY <2>3, <2>6 DEF Sent
      <4> QED BY <1>n, <4>1, <4>2
    <3> QED BY <3>1, <3>2
  <2>10. Cardinality(Sent(c, t.id)') <= 1 /\ Cardinality(Sent(c, t.id)') \in Nat
    BY <2>9, AtMostOne, FS_Singleton, FS_Subset, FS_CardinalityType
  <2>11. Cardinality(Sent(c, t.id)') <= 1 + breaks' BY <1>0, <2>5, <2>10
  <2> QED BY <2>8, <2>11, RenewStep
<1>5. ASSUME NEW c \in Clients, Quit(c) PROVE RetryInv'
  BY <1>0, <1>5, <1>s, <1>f, <1>r DEF Quit, Goto, Shrinks, OnlyDone
<1>6. ASSUME NEW c \in Clients, TimeOut(c) PROVE RetryInv'
  BY <1>0, <1>6, <1>s, <1>f, <1>r DEF TimeOut, Return, Shrinks, OnlyDone
<1>7. ASSUME NEW c \in Clients, Sleep(c) PROVE RetryInv'
  BY <1>0, <1>7, <1>s, <1>f, <1>r DEF Sleep, Goto, Shrinks, OnlyDone
<1>8. ASSUME NEW c \in Clients, Receive(c) PROVE RetryInv' BY <1>8, ReceiveStep
<1>9. ASSUME NEW c \in Clients, Disconnect(c) PROVE RetryInv' BY <1>9, DisconnectStep
<1>10. ASSUME NEW ok \in BOOLEAN, StartServer(ok) PROVE RetryInv'
  BY <1>0, <1>10, <1>s DEF StartServer, Shrinks, OnlyDone
<1>11. ASSUME NEW t \in requests, Accept(t) PROVE RetryInv' BY <1>11, AcceptStep
<1>12. ASSUME NEW h \in handlers, Echo(h) PROVE RetryInv'
  <2>1. UNCHANGED <<client, server, requests, answers, accepted, breaks>>
    BY <1>12, EchoBecomes DEF Becomes
  <2> QED BY <1>0, <1>s, <2>1 DEF Shrinks, OnlyDone
<1>13. ASSUME NEW h \in handlers, EchoAsync(h) PROVE RetryInv'
  BY <1>0, <1>13, <1>s DEF EchoAsync, SetMessage, Becomes, Shrinks, OnlyDone
<1>14. ASSUME NEW h \in handlers, RunDone(h) PROVE RetryInv'
  <2>1. UNCHANGED <<client, server, requests, accepted, breaks>>
    BY <1>14 DEF RunDone
  <2>2. answers' = answers \cup {Answer(h.try, h.message, FALSE)} BY <1>14 DEF RunDone
  <2>3. OnlyDone BY <2>2 DEF OnlyDone
  <2>4. Shrinks BY <1>0, <2>1, <2>3 DEF Shrinks
  <2> QED BY <1>s, <2>4
<1>15. ASSUME NEW t \in after, CallAfterRpc(t) PROVE RetryInv'
  BY <1>0, <1>15, <1>s DEF CallAfterRpc, Shrinks, OnlyDone
<1>16. CASE Stop BY <1>0, <1>16, <1>s DEF Stop, Shrinks, OnlyDone
<1>17. CASE Join BY <1>0, <1>17, <1>s DEF Join, Shrinks, OnlyDone
<1> QED BY <1>1, <1>2, <1>3, <1>4, <1>5, <1>6, <1>7, <1>8, <1>9, <1>10, <1>11, <1>12,
           <1>13, <1>14, <1>15, <1>16, <1>17
        DEF Next, ClientStep, ServiceStep

-----------------------------------------------------------------------------

\* The invariant holds in every reachable state.
LEMMA IInvHolds == Spec => []IInv
<1>1. IInv /\ [Next]_vars => IInv'
  BY ClosureStep, MessageStep, ResultStep, PlaceStep, RetryStep DEF IInv
<1> QED BY InitIInv, <1>1, PTL DEF Spec

\* client.cpp:49-79, server.cpp:46-79: types, the ranges of the calls and tries of a
\* client included, and which tries are where.
THEOREM TypeCorrect == Spec => []TypeOK
<1>1. IInv => TypeOK
  <2> SUFFICES ASSUME IInv PROVE TypeOK OBVIOUS
  <2>1. \A t \in requests \cup accepted : t.c \in Clients /\ t.id \in 1..MaxCalls
    BY RpcAssumption DEF IInv, RetryInv, TryInv, Known
  <2>2. answered \subseteq accepted /\ \A h \in handlers : h.try \in accepted
    BY DEF IInv, ClosureInv
  <2> QED BY <2>1, <2>2 DEF IInv, PlaceInv, RetryInv, TryInv, CountInv, TypeOK
<1> QED BY <1>1, IInvHolds, PTL

\* client.cpp:65-71, coroutine_server.cpp:48-50: a call that returns a message returns
\* that of its own request, set before done sent it, however late its or other answers are.
THEOREM AnswersAreOwnCorrect == Spec => []AnswersAreOwn
<1>1. IInv => AnswersAreOwn BY DEF IInv, ResultInv, AnswersAreOwn
<1> QED BY <1>1, IInvHolds, PTL

\* server.cpp:33, 124, coroutine_server.cpp:37, 48, 92: done runs once for every request,
\* when Echo or its coroutine is over with its messages, and the service outlives both.
THEOREM DoneEndsEchoCorrect == Spec => []DoneEndsEcho
<1>1. IInv => DoneEndsEcho BY DEF IInv, ClosureInv, DoneEndsEcho
<1> QED BY <1>1, IInvHolds, PTL

\* client.cpp:33-34, 65: whatever the network does, and however often calls time out, a
\* call is given to Echo again at most as often as the connection broke, and at most
\* max_retry times.
THEOREM RepeatedOnlyAfterBreakCorrect == Spec => []RepeatedOnlyAfterBreak
<1>1. IInv => RepeatedOnlyAfterBreak
  <2> SUFFICES ASSUME IInv, NEW c \in Clients, NEW id \in 1..MaxCalls
               PROVE  /\ Cardinality(Reached(c, id)) <= 1 + breaks
                      /\ Cardinality(Reached(c, id)) <= 1 + max_retry
    BY DEF RepeatedOnlyAfterBreak, Reached
  <2> QED BY SentBound DEF IInv, RetryInv, CountInv
<1> QED BY <1>1, IInvHolds, PTL
=============================================================================
