------------------------ MODULE ConnectionHandlerProofs ------------------------
(***************************************************************************)
(* Theorems about ConnectionHandler, for every number of requests and      *)
(* every size of the socket's buffer.                                      *)
(***************************************************************************)
EXTENDS ConnectionHandler, SequenceTheorems, TLAPS
LOCAL INSTANCE SequencesExt

\* Every reply answers a request that was sent.
AnswersRequests ==
    \A i \in DOMAIN replies : replies[i].to \in DOMAIN requests

\* The client's first message is CONNECT, and while there is no session it is
\* the next to be read.
ConnectsFirst ==
    requests # <<>> =>
        /\ requests[1].type = "CONNECT"
        /\ session_ = NoSession => to_server # <<>> /\ to_server[1] = <<1, "head">>

\* The session is that of the CONNECT which reply c, the last CONN_ACK,
\* answers, and it is logged in because that CONNECT asked for no login or
\* because of an AUTH that was accepted since.
LoggedInSince(c, i) ==
    \E j \in c+1..i : replies[j].type = "AUTH_ACK" /\ replies[j].ok
MadeBy(c) ==
    /\ replies[c].type = "CONN_ACK"
    /\ requests[replies[c].to].type = "CONNECT"
    /\ session_.noauth = requests[replies[c].to].noauth
    /\ \A j \in c+1..Len(replies) : replies[j].type # "CONN_ACK"
    /\ session_.authenticated => session_.noauth \/ LoggedInSince(c, Len(replies))
SessionMade == session_ # NoSession => \E c \in DOMAIN replies : MadeBy(c)

\* The inductive invariant.
ConnectionInv ==
    /\ TypeOK /\ AnswersRequests /\ ConnectsFirst
    /\ SessionMade /\ LoginRequired /\ RepliesInOrder
USE SendBufferAssumption, BoundAssumption, NoSessionAssumption

-----------------------------------------------------------------------------
(* Sequences.                                                              *)

\* What one recv takes from a stream, and what it leaves, are the stream.
LEMMA RecvSplits ==
    ASSUME NEW S, NEW s \in Seq(S), NEW k \in DOMAIN s
    PROVE  /\ UpTo(s, k) \in Seq(S) /\ UpTo(s, k) # <<>>
           /\ UpTo(s, k)[1] = s[1] /\ s[1] \in S
           /\ From(s, k) \in Seq(S) /\ Len(From(s, k)) = Len(s) - k
           /\ UpTo(s, k) \o From(s, k) = s
<1>1. Len(s) \in Nat /\ DOMAIN s = 1..Len(s) /\ k \in 1..Len(s)
      /\ \A i \in 1..Len(s) : s[i] \in S
  BY LenProperties, ElementOfSeq
<1>2. From(s, k) \in Seq(S) /\ Len(From(s, k)) = Len(s) - k
  <2>1. \A i \in (k + 1)..Len(s) : s[i] \in S
    BY <1>1
  <2>2. /\ SubSeq(s, k + 1, Len(s)) \in Seq(S)
        /\ Len(SubSeq(s, k + 1, Len(s)))
           = IF k + 1 <= Len(s) THEN Len(s) - (k + 1) + 1 ELSE 0
    BY <1>1, <2>1, SubSeqProperties
  <2> QED
    BY <1>1, <2>2 DEF From
<1>3. CASE k < Len(s)
  <2>1. \A i \in 1..k : s[i] \in S
    BY <1>1
  <2>2. /\ SubSeq(s, 1, k) \in Seq(S)
        /\ Len(SubSeq(s, 1, k)) = IF 1 <= k THEN k - 1 + 1 ELSE 0
        /\ \A i \in 1..(k - 1 + 1) : SubSeq(s, 1, k)[i] = s[1 + i - 1]
    BY <1>1, <2>1, SubSeqProperties
  <2>3. UpTo(s, k) = SubSeq(s, 1, k)
    BY <1>3 DEF UpTo
  <2>4. SubSeq(s, 1, k)[1] = s[1] /\ Len(SubSeq(s, 1, k)) = k
    BY <1>1, <2>2
  <2>5. SubSeq(s, 1, k) # <<>>
    <3>1. Len(<<>>) = 0 /\ Len(SubSeq(s, 1, k)) # 0
      BY <1>1, <2>4
    <3> QED
      BY <3>1
  <2>6. SubSeq(s, 1, k) \o SubSeq(s, k + 1, Len(s)) = SubSeq(s, 1, Len(s))
    <3>1. 1 \in 1..(Len(s) + 1) /\ k \in (1 - 1)..Len(s) /\ Len(s) \in k..Len(s)
      BY <1>1
    <3> QED
      BY <3>1, ConcatAdjacentSubSeq
  <2>7. SubSeq(s, 1, k) \o SubSeq(s, k + 1, Len(s)) = s
    BY <2>6, SubSeqFull
  <2>8. UpTo(s, k) \o From(s, k) = s
    BY <2>3, <2>7 DEF From
  <2>9. 1 \in 1..Len(s)
    BY <1>1
  <2> QED
    BY <1>1, <1>2, <2>2, <2>3, <2>4, <2>5, <2>8, <2>9
<1>4. CASE ~(k < Len(s))
  <2>1. UpTo(s, k) = s
    BY <1>4 DEF UpTo
  <2>2. k = Len(s)
    BY <1>1, <1>4
  <2>3. From(s, k) = <<>>
    BY <1>1, <2>2, SubSeqEmpty DEF From
  <2>4. s \o <<>> = s
    BY ConcatEmptySeq
  <2>5. s # <<>>
    <3>1. Len(<<>>) = 0 /\ Len(s) # 0
      BY <1>1
    <3> QED
      BY <3>1
  <2> QED
    BY <1>1, <1>2, <2>1, <2>3, <2>4, <2>5
<1> QED
  BY <1>3, <1>4

\* Three parts of a stream are the stream however they are taken together.
LEMMA ThreeParts ==
    ASSUME NEW S, NEW a \in Seq(S), NEW b \in Seq(S), NEW c \in Seq(S)
    PROVE  (a \o b) \o c = a \o (b \o c)
  BY ConcatAssociative

\* The part of a message that is sent: head and body, or the head alone.
Parts(i) == {<<<<i, "head">>>>, <<<<i, "head">>, <<i, "body">>>>}

\* A message has a head, and as much of it is sent as there is room for.
LEMMA UnitsOf ==
    ASSUME NEW m, NEW S, NEW i \in S, NEW room \in Nat
    PROVE  /\ Units(m, i) \in Seq(S \X {"head", "body"})
           /\ Units(m, i) \in Parts(i)
           /\ IF room = 0 THEN UpTo(Units(m, i), room) = <<>>
              ELSE /\ UpTo(Units(m, i), room) \in Parts(i)
                   /\ UpTo(Units(m, i), room) \in Seq(S \X {"head", "body"})
                   /\ Len(UpTo(Units(m, i), room)) <= room
<1> DEFINE one == <<<<i, "head">>>>
           two == <<<<i, "head">>, <<i, "body">>>>
           u == Units(m, i)
<1>1. /\ one \in Seq(S \X {"head", "body"}) /\ Len(one) = 1
      /\ two \in Seq(S \X {"head", "body"}) /\ Len(two) = 2
  OBVIOUS
<1>2. u = one \/ u = two
  BY DEF Units
<1>3. SubSeq(two, 1, 1) = one
  <2>1. SubSeq(two, 1, 1) = <<two[1]>> \o SubSeq(two, 2, 1)
    BY <1>1, SubSeqRecursiveFirst
  <2>2. SubSeq(two, 2, 1) = <<>>
    BY SubSeqEmpty
  <2>3. one \o <<>> = one
    BY <1>1, ConcatEmptySeq
  <2> QED
    BY <2>1, <2>2, <2>3
<1>4. u \in Seq(S \X {"head", "body"}) /\ u \in Parts(i)
  <2>1. u \in Seq(S \X {"head", "body"})
    BY <1>1, <1>2
  <2>2. u \in Parts(i)
    BY <1>2 DEF Parts
  <2> QED
    BY <2>1, <2>2
<1> HIDE DEF u
<1>5. ASSUME room = 0 PROVE UpTo(u, room) = <<>>
  <2>1. 0 < Len(u)
    BY <1>1, <1>2
  <2>2. UpTo(u, 0) = SubSeq(u, 1, 0)
    BY <2>1 DEF UpTo
  <2>3. SubSeq(u, 1, 0) = <<>>
    BY SubSeqEmpty
  <2> QED
    BY <1>5, <2>2, <2>3
<1>6. ASSUME room # 0
      PROVE  \E v \in {one, two} : UpTo(u, room) = v /\ Len(v) <= room
  <2>1. CASE u = two /\ room = 1
    <3>1. room < Len(u)
      BY <1>1, <2>1
    <3>2. UpTo(u, room) = SubSeq(two, 1, 1)
      BY <2>1, <3>1 DEF UpTo
    <3> QED
      BY <1>1, <1>3, <2>1, <3>2
  <2>2. CASE u = one \/ room # 1
    <3>1. Len(u) <= room
      <4>1. Len(u) = 1 \/ (Len(u) = 2 /\ u # one)
        BY <1>1, <1>2
      <4>2. room \in Nat /\ room # 0
        BY <1>6
      <4>3. CASE Len(u) = 1
        BY <4>2, <4>3
      <4>4. CASE Len(u) = 2 /\ u # one
        <5>1. room # 1
          BY <2>2, <4>4
        <5> QED
          BY <4>2, <4>4, <5>1
      <4> QED
        BY <4>1, <4>3, <4>4
    <3>2. UpTo(u, room) = u
      <4>1. ~(room < Len(u))
        BY <1>1, <1>2, <3>1
      <4> QED
        BY <4>1 DEF UpTo
    <3> QED
      BY <1>2, <3>1, <3>2
  <2> QED
    BY <1>2, <2>1, <2>2
<1>7. ASSUME room # 0
      PROVE  /\ UpTo(u, room) \in Parts(i)
             /\ UpTo(u, room) \in Seq(S \X {"head", "body"})
             /\ Len(UpTo(u, room)) <= room
  <2>1. PICK v \in {one, two} : UpTo(u, room) = v /\ Len(v) <= room
    BY <1>6, <1>7
  <2>2. v \in Seq(S \X {"head", "body"})
    BY <1>1
  <2>3. v \in Parts(i)
    BY DEF Parts
  <2> QED
    BY <2>1, <2>2, <2>3
<1> QED
  BY <1>4, <1>5, <1>7 DEF u

-----------------------------------------------------------------------------
(* What the server's handlers do.                                          *)

ReplyTypes == {"CONN_ACK", "AUTH_ACK", "QUERY_RESULT", "ERROR",
               "KEY_EXCHANGE_ACK"}

\* There is one reply more.
Says(n, type, ok) ==
    /\ replies' \in Seq(Reply)
    /\ Len(replies') = Len(replies) + 1
    /\ \A i \in 1..Len(replies) : replies'[i] = replies[i]
    /\ replies'[Len(replies) + 1].to = n
    /\ replies'[Len(replies) + 1].type = type
    /\ replies'[Len(replies) + 1].ok = ok

\* Reply i waits behind others, waits alone or goes nowhere, or is sent.
Queues(i) == /\ write_queue_ # <<>> /\ write_queue_' = Append(write_queue_, i)
             /\ to_client' = to_client
Holds(i) == /\ write_queue_' \in {<<>>, <<i>>}
            /\ to_client' = to_client
Passes(i) == /\ write_queue_' = <<>>
             /\ \E u \in Parts(i) : /\ to_client' = to_client \o u
                                    /\ Len(to_client) + Len(u) <= SendBuffer

\* SendMessage makes the reply, with a key if the session has one by then, and
\* sends as much of it as there is room for.
LEMMA AnswerDoes ==
    ASSUME TypeOK, session_' \in Session \cup {NoSession},
           NEW n \in 1..MaxRequests, NEW type \in ReplyTypes, NEW ok \in BOOLEAN,
           Answer(n, type, ok)
    PROVE  /\ Says(n, type, ok)
           /\ \/ Queues(Len(replies) + 1)
              \/ Holds(Len(replies) + 1)
              \/ Passes(Len(replies) + 1)
           /\ closed_' \in BOOLEAN
<1> DEFINE m == [to |-> n, type |-> type, ok |-> ok, key |-> NoKey]
           e == Encrypted(m)
           i == Len(replies) + 1
<1>1. /\ replies \in Seq(Reply) /\ Len(replies) \in Nat
      /\ to_client \in Seq((DOMAIN replies) \X {"head", "body"})
      /\ Len(to_client) <= SendBuffer /\ Len(to_client) \in Nat
      /\ closed_ \in BOOLEAN
  BY LenProperties DEF TypeOK
<1>2. SendMessage(m)
  BY DEF Answer
<1>3. e \in Reply /\ e.to = n /\ e.type = type /\ e.ok = ok
  <2>1. AES(session_') /\ m.type # "KEY_EXCHANGE_ACK"
            => session_'.key \in 0..MaxRequests
    BY DEF AES, Session
  <2>2. e = [m EXCEPT !.key = e.key] /\ e.key \in 0..MaxRequests
    BY <2>1 DEF Encrypted, NoKey
  <2> QED
    BY <2>2 DEF Reply, ReplyTypes
<1> HIDE DEF m, e
<1>4. replies' = Append(replies, e)
  BY <1>2 DEF SendMessage, e
<1>5. Says(n, type, ok)
  <2>1. /\ Append(replies, e) \in Seq(Reply)
        /\ Len(Append(replies, e)) = Len(replies) + 1
        /\ \A j \in 1..Len(replies) : Append(replies, e)[j] = replies[j]
        /\ Append(replies, e)[Len(replies) + 1] = e
    BY <1>1, <1>3, AppendProperties
  <2> QED
    BY <1>3, <1>4, <2>1 DEF Says
<1>6. CASE write_queue_ # <<>>
  <2>1. Queues(i) /\ closed_' = closed_
    BY <1>2, <1>6 DEF SendMessage, Queues
  <2> QED
    BY <1>1, <1>5, <2>1
<1>7. CASE write_queue_ = <<>> /\ client_off
  <2>1. closed_' \in BOOLEAN
    BY <1>2, <1>7 DEF SendMessage
  <2>2. write_queue_' \in {<<>>, <<i>>} /\ to_client' = to_client
    BY <1>2, <1>7 DEF SendMessage
  <2> QED
    BY <1>5, <2>1, <2>2 DEF Holds
<1>8. CASE write_queue_ = <<>> /\ ~client_off
  <2> DEFINE room == SendBuffer - Len(to_client)
             u == UpTo(Units(e, i), room)
  <2>1. room \in Nat
    BY <1>1
  <2>2. /\ to_client' = to_client \o u
        /\ write_queue_' = IF room = 0 THEN <<i>> ELSE <<>>
        /\ closed_' = closed_
    BY <1>2, <1>8 DEF SendMessage, e
  <2>3. i \in Nat
    BY <1>1
  <2>4. IF room = 0 THEN u = <<>> ELSE u \in Parts(i) /\ Len(u) <= room
    <3> HIDE DEF room, i
    <3> QED
      BY <2>1, <2>3, UnitsOf
  <2>5. CASE room = 0
    <3>1. u = <<>>
      BY <2>4, <2>5
    <3>2. to_client \o <<>> = to_client
      BY <1>1, ConcatEmptySeq
    <3>3. Holds(i)
      BY <2>2, <2>5, <3>1, <3>2 DEF Holds
    <3> QED
      BY <1>1, <1>5, <2>2, <3>3
  <2>6. CASE room # 0
    <3>1. u \in Parts(i) /\ Len(u) <= room
      BY <2>4, <2>6
    <3>2. Len(u) \in Nat
      BY <3>1 DEF Parts
    <3>3. Len(to_client) + Len(u) <= SendBuffer
      <4> HIDE DEF u
      <4> QED
        BY <1>1, <3>1, <3>2
    <3>4. Passes(i)
      <4> HIDE DEF u
      <4> QED
        BY <2>2, <2>6, <3>1, <3>3 DEF Passes
    <3> QED
      BY <1>1, <1>5, <2>2, <3>4
  <2> QED
    BY <2>5, <2>6
<1> QED
  BY <1>6, <1>7, <1>8

\* The ways in which a read changes the session and answers request n.
Ignored == Silently /\ session_' = session_
Refused(n) == session_' = session_ /\ Answer(n, "ERROR", FALSE)
Connected(n) ==
    /\ requests[n].type = "CONNECT"
    /\ session_' = [authenticated |-> requests[n].noauth,
                    noauth |-> requests[n].noauth,
                    plain |-> requests[n].plain, key |-> NoKey]
    /\ Answer(n, "CONN_ACK", TRUE)
LoggedIn(n) ==
    /\ session_' = [session_ EXCEPT !.authenticated = @ \/ requests[n].good]
    /\ Answer(n, "AUTH_ACK", requests[n].good)
Resulted(n) ==
    /\ session_.noauth \/ session_.authenticated
    /\ session_' = session_
    /\ \E ok \in BOOLEAN : Answer(n, "QUERY_RESULT", ok)
KeyGiven(n) ==
    /\ session_' = [session_ EXCEPT !.key = n]
    /\ Answer(n, "KEY_EXCHANGE_ACK", TRUE)

\* A read with no session is that of CONNECT, and what is processed otherwise
\* finds a session: HandleAuthMessage need not check for one.
LEMMA ReadKinds ==
    ASSUME TypeOK, ConnectsFirst, NEW k \in DOMAIN to_server, HandleRead(k)
    PROVE  \E n \in DOMAIN requests :
               \/ Connected(n)
               \/ /\ session_ \in Session
                  /\ \/ Ignored \/ Refused(n) \/ Resulted(n) \/ KeyGiven(n)
                     \/ requests[n].type = "AUTH" /\ LoggedIn(n)
<1> DEFINE chunk == UpTo(to_server, k)
           n == chunk[1][1]
           r == requests[n]
<1>1. /\ to_server \in Seq((DOMAIN requests) \X {"head", "body"})
      /\ chunk[1] = to_server[1] /\ n \in DOMAIN requests
  <2>1. to_server \in Seq((DOMAIN requests) \X {"head", "body"})
    BY DEF TypeOK
  <2>2. /\ chunk[1] = to_server[1]
        /\ to_server[1] \in (DOMAIN requests) \X {"head", "body"}
    BY <2>1, RecvSplits
  <2> QED
    BY <2>1, <2>2
<1>2. ProcessMessage(chunk) /\ session_ \in Session \cup {NoSession}
  BY DEF HandleRead, TypeOK
<1>3. CASE session_ = NoSession
  <2>1. n = 1 /\ chunk[1][2] = "head" /\ r.type = "CONNECT"
    <3>1. requests # <<>>
      BY <1>1
    <3> QED
      BY <1>1, <1>3, <3>1 DEF ConnectsFirst
  <2>2. HandleConnectMessage(n)
    <3> HIDE DEF chunk
    <3> QED
      BY <1>2, <1>3, <2>1 DEF ProcessMessage, AES
  <2> QED
    BY <1>1, <2>1, <2>2 DEF HandleConnectMessage, Connected
<1>4. CASE session_ # NoSession
  <2>1. session_ \in Session
    BY <1>2, <1>4
  <2> DEFINE whole == IsPrefix(Units(r, n), chunk)
             readable == r.key \in {NoKey, IF AES(session_) THEN session_.key ELSE NoKey}
  <2>2. \/ Ignored
        \/ Refused(n)
        \/ r.type = "CONNECT" /\ HandleConnectMessage(n)
        \/ r.type = "AUTH" /\ HandleAuthMessage(n, whole, readable)
        \/ r.type = "QUERY" /\ HandleQueryMessage(n, whole, readable)
        \/ r.type = "KEY_EXCHANGE" /\ HandleKeyExchangeMessage(n)
    <3>1. CASE chunk[1][2] = "body"
      BY <1>2, <3>1 DEF ProcessMessage, Ignored
    <3>2. CASE /\ chunk[1][2] # "body"
               /\ AES(session_) /\ r.type # "KEY_EXCHANGE" /\ r.key # NoKey
               /\ ~(whole /\ readable)
      BY <1>2, <3>2 DEF ProcessMessage, Refused
    <3>3. CASE /\ chunk[1][2] # "body"
               /\ ~(/\ AES(session_) /\ r.type # "KEY_EXCHANGE" /\ r.key # NoKey
                    /\ ~(whole /\ readable))
      BY <1>2, <3>3 DEF ProcessMessage
    <3> QED
      BY <3>1, <3>2, <3>3
  <2>3. r.type = "CONNECT" /\ HandleConnectMessage(n) => Connected(n)
    BY DEF HandleConnectMessage, Connected
  <2>4. ASSUME r.type = "AUTH", HandleAuthMessage(n, whole, readable)
        PROVE  Ignored \/ (r.type = "AUTH" /\ LoggedIn(n))
    <3>1. CASE ~whole \/ ~readable
      BY <2>4, <3>1 DEF HandleAuthMessage, Ignored
    <3>2. CASE ~(~whole \/ ~readable)
      BY <2>4, <3>2 DEF HandleAuthMessage, LoggedIn
    <3> QED
      BY <3>1, <3>2
  <2>5. ASSUME HandleQueryMessage(n, whole, readable)
        PROVE  Refused(n) \/ Resulted(n)
    <3>1. session_' = session_
      BY <2>5 DEF HandleQueryMessage
    <3>2. CASE ~session_.noauth /\ ~session_.authenticated
      BY <1>4, <2>5, <3>2 DEF HandleQueryMessage, Refused
    <3>3. CASE ~whole
      BY <1>4, <2>5, <3>3 DEF HandleQueryMessage, Refused
    <3>4. CASE whole /\ ~(~session_.noauth /\ ~session_.authenticated)
      <4>1. Answer(n, "QUERY_RESULT", readable)
        BY <1>4, <2>5, <3>4 DEF HandleQueryMessage
      <4>2. \E ok \in BOOLEAN : Answer(n, "QUERY_RESULT", ok)
        <5>1. readable \in BOOLEAN
          OBVIOUS
        <5> QED
          BY <4>1, <5>1, Zenon
      <4> QED
        BY <3>1, <3>4, <4>2 DEF Resulted
    <3> QED
      BY <3>2, <3>3, <3>4
  <2>6. HandleKeyExchangeMessage(n) => KeyGiven(n)
    BY <1>4 DEF HandleKeyExchangeMessage, KeyGiven
  <2> QED
    <3> HIDE DEF n, whole, readable
    <3> QED
      BY <1>1, <2>1, <2>2, <2>3, <2>4, <2>5, <2>6
<1> QED
  BY <1>3, <1>4

\* What the login depends on, of the session and the reply.
Welcomed(n) ==
    /\ requests[n].type = "CONNECT" /\ Says(n, "CONN_ACK", TRUE)
    /\ session_'.noauth = requests[n].noauth
    /\ session_'.authenticated = requests[n].noauth
Admitted(n) ==
    /\ session_ \in Session
    /\ Says(n, "AUTH_ACK", requests[n].good)
    /\ session_'.noauth = session_.noauth
    /\ session_'.authenticated => session_.authenticated \/ requests[n].good
Served(n) ==
    /\ session_ \in Session
    /\ session_'.noauth = session_.noauth
    /\ session_'.authenticated = session_.authenticated
    /\ \E type \in ReplyTypes \ {"CONN_ACK"}, ok \in BOOLEAN :
           /\ Says(n, type, ok)
           /\ type = "QUERY_RESULT" => session_.noauth \/ session_.authenticated

\* A read leaves all as it is, or is answered by one message.
LEMMA ReadDoes ==
    ASSUME TypeOK, ConnectsFirst, NEW k \in DOMAIN to_server, HandleRead(k)
    PROVE  /\ session_' \in Session /\ closed_' \in BOOLEAN
           /\ \/ /\ session_' = session_
                 /\ UNCHANGED <<replies, write_queue_, to_client>>
              \/ /\ \/ Queues(Len(replies) + 1)
                    \/ Holds(Len(replies) + 1)
                    \/ Passes(Len(replies) + 1)
                 /\ \E n \in DOMAIN requests :
                        Welcomed(n) \/ Admitted(n) \/ Served(n)
<1> DEFINE Goes == \/ Queues(Len(replies) + 1)
                   \/ Holds(Len(replies) + 1)
                   \/ Passes(Len(replies) + 1)
<1>1. PICK n \in DOMAIN requests :
          \/ Connected(n)
          \/ /\ session_ \in Session
             /\ \/ Ignored \/ Refused(n) \/ Resulted(n) \/ KeyGiven(n)
                \/ requests[n].type = "AUTH" /\ LoggedIn(n)
  BY ReadKinds
<1>2. n \in 1..MaxRequests /\ requests[n] \in Request
  <2>1. /\ requests \in Seq(Request) /\ Len(requests) <= MaxRequests
        /\ Len(requests) \in Nat /\ DOMAIN requests = 1..Len(requests)
    BY LenProperties DEF TypeOK
  <2> QED
    BY <2>1, ElementOfSeq
<1>3. ASSUME session_' \in Session, NEW type \in ReplyTypes,
             NEW ok \in BOOLEAN, Answer(n, type, ok)
      PROVE  Says(n, type, ok) /\ Goes /\ closed_' \in BOOLEAN
  BY <1>2, <1>3, AnswerDoes
<1> HIDE DEF Goes
<1>4. CASE Connected(n)
  <2>1. requests[n].noauth \in BOOLEAN /\ requests[n].plain \in BOOLEAN
    BY <1>2, <1>4 DEF Connected, Request
  <2>2. session_' \in Session
    BY <1>4, <2>1 DEF Connected, Session, NoKey
  <2>3. Answer(n, "CONN_ACK", TRUE)
    BY <1>4 DEF Connected
  <2>4. Says(n, "CONN_ACK", TRUE) /\ Goes /\ closed_' \in BOOLEAN
    BY <1>3, <2>2, <2>3 DEF ReplyTypes
  <2>5. Welcomed(n)
    BY <1>4, <2>4 DEF Connected, Welcomed
  <2> QED
    BY <2>2, <2>4, <2>5 DEF Goes
<1>5. CASE session_ \in Session /\ Ignored
  BY <1>5 DEF Ignored, Silently, TypeOK
<1>6. CASE session_ \in Session /\ Refused(n)
  <2>1. Says(n, "ERROR", FALSE) /\ Goes /\ closed_' \in BOOLEAN
    BY <1>3, <1>6 DEF Refused, ReplyTypes
  <2>2. Served(n)
    <3>1. "ERROR" \in ReplyTypes \ {"CONN_ACK"}
      BY DEF ReplyTypes
    <3>2. "ERROR" # "QUERY_RESULT" /\ FALSE \in BOOLEAN
      OBVIOUS
    <3>3. session_' = session_
      BY <1>6 DEF Refused
    <3> QED
      BY <1>6, <2>1, <3>1, <3>2, <3>3, Zenon DEF Served
  <2> QED
    BY <1>6, <2>1, <2>2 DEF Refused, Goes
<1>7. CASE session_ \in Session /\ Resulted(n)
  <2>1. PICK ok \in BOOLEAN : Answer(n, "QUERY_RESULT", ok)
    BY <1>7 DEF Resulted
  <2>2. Says(n, "QUERY_RESULT", ok) /\ Goes /\ closed_' \in BOOLEAN
    BY <1>3, <1>7, <2>1 DEF Resulted, ReplyTypes
  <2>3. Served(n)
    BY <1>7, <2>2 DEF Served, Resulted, ReplyTypes
  <2> QED
    BY <1>7, <2>2, <2>3 DEF Resulted, Goes
<1>8. CASE session_ \in Session /\ KeyGiven(n)
  <2>1. /\ session_' \in Session /\ session_'.noauth = session_.noauth
        /\ session_'.authenticated = session_.authenticated
    BY <1>2, <1>8 DEF KeyGiven, Session
  <2>2. Says(n, "KEY_EXCHANGE_ACK", TRUE) /\ Goes /\ closed_' \in BOOLEAN
    BY <1>3, <1>8, <2>1 DEF KeyGiven, ReplyTypes
  <2>3. Served(n)
    <3>1. "KEY_EXCHANGE_ACK" \in ReplyTypes \ {"CONN_ACK"}
      BY DEF ReplyTypes
    <3>2. "KEY_EXCHANGE_ACK" # "QUERY_RESULT" /\ TRUE \in BOOLEAN
      OBVIOUS
    <3> QED
      BY <1>8, <2>1, <2>2, <3>1, <3>2, Zenon DEF Served
  <2> QED
    BY <2>1, <2>2, <2>3 DEF Goes
<1>9. CASE session_ \in Session /\ requests[n].type = "AUTH" /\ LoggedIn(n)
  <2>1. requests[n].good \in BOOLEAN
    BY <1>2, <1>9 DEF Request
  <2>2. /\ session_' \in Session /\ session_'.noauth = session_.noauth
        /\ session_'.authenticated => session_.authenticated \/ requests[n].good
    <3>1. (session_.authenticated \/ requests[n].good) \in BOOLEAN
      OBVIOUS
    <3> QED
      BY <1>9, <3>1 DEF LoggedIn, Session
  <2>3. Says(n, "AUTH_ACK", requests[n].good) /\ Goes /\ closed_' \in BOOLEAN
    BY <1>3, <1>9, <2>1, <2>2 DEF LoggedIn, ReplyTypes
  <2>4. Admitted(n)
    BY <1>9, <2>2, <2>3 DEF Admitted
  <2> QED
    BY <2>2, <2>3, <2>4 DEF Goes
<1> QED
  BY <1>1, <1>4, <1>5, <1>6, <1>7, <1>8, <1>9

-----------------------------------------------------------------------------
(* Types.                                                                  *)

\* The messages that the client sends are requests.
LEMMA StepIs ==
    ASSUME TypeOK, [Next]_vars
    PROVE  \/ \E r \in Request : SendRequest(r)
           \/ \E k \in DOMAIN to_server : HandleRead(k)
           \/ \E k \in DOMAIN to_client : ReceiveResponse(k)
           \/ HandleHangup
           \/ Disconnect
           \/ UNCHANGED vars
<1>1. client_key \in Int
  BY DEF TypeOK
<1>2. ASSUME Asks PROVE \E r \in Request : SendRequest(r)
  <2>1. \A plain, noauth \in BOOLEAN :
            [type |-> "CONNECT", plain |-> plain, noauth |-> noauth,
             key |-> client_key] \in Request
    BY <1>1 DEF Request
  <2>2. \A good \in BOOLEAN :
            [type |-> "AUTH", good |-> good, key |-> client_key] \in Request
    BY <1>1 DEF Request
  <2>3. \A type \in {"QUERY", "KEY_EXCHANGE"} :
            [type |-> type, key |-> client_key] \in Request
    BY <1>1 DEF Request
  <2> QED
    BY <1>2, <2>1, <2>2, <2>3, Zenon DEF Asks
<1> QED
  BY <1>2 DEF Next, Reads, Receives

\* A reply more, wherever it goes, keeps the types of what holds replies.
LEMMA RepliesGrow ==
    ASSUME TypeOK, replies' \in Seq(Reply), Len(replies') = Len(replies) + 1,
           \/ Queues(Len(replies) + 1)
           \/ Holds(Len(replies) + 1)
           \/ Passes(Len(replies) + 1)
    PROVE  /\ write_queue_' \in Seq(DOMAIN replies')
           /\ to_client' \in Seq((DOMAIN replies') \X {"head", "body"})
           /\ received \in Seq((DOMAIN replies') \X {"head", "body"})
           /\ Len(to_client') <= SendBuffer
<1> DEFINE D == DOMAIN replies'
           i == Len(replies) + 1
<1>1. /\ DOMAIN replies = 1..Len(replies) /\ Len(replies) \in Nat
      /\ D = 1..i /\ i \in D
  <2>1. replies \in Seq(Reply)
    BY DEF TypeOK
  <2> QED
    BY <2>1, LenProperties
<1> HIDE DEF D, i
<1>2. /\ write_queue_ \in Seq(D)
      /\ to_client \in Seq(D \X {"head", "body"})
      /\ received \in Seq(D \X {"head", "body"})
      /\ Len(to_client) <= SendBuffer
  <2>1. DOMAIN replies \subseteq D
    BY <1>1 DEF i
  <2>2. (DOMAIN replies) \X {"head", "body"} \subseteq D \X {"head", "body"}
    BY <2>1
  <2> QED
    <3>1. /\ write_queue_ \in Seq(DOMAIN replies)
          /\ to_client \in Seq((DOMAIN replies) \X {"head", "body"})
          /\ received \in Seq((DOMAIN replies) \X {"head", "body"})
          /\ Len(to_client) <= SendBuffer
      BY DEF TypeOK
    <3>2. write_queue_ \in Seq(D)
      BY <2>1, <3>1, SeqMonotonic
    <3>3. /\ to_client \in Seq(D \X {"head", "body"})
          /\ received \in Seq(D \X {"head", "body"})
      BY <2>2, <3>1, SeqMonotonic
    <3> QED
      BY <3>1, <3>2, <3>3
<1>3. CASE Queues(i)
  <2>1. Append(write_queue_, i) \in Seq(D)
    BY <1>1, <1>2, AppendProperties
  <2> QED
    BY <1>2, <1>3, <2>1 DEF Queues, D
<1>4. CASE Holds(i)
  <2>1. <<>> \in Seq(D) /\ <<i>> \in Seq(D)
    BY <1>1
  <2> QED
    BY <1>2, <1>4, <2>1 DEF Holds, D
<1>5. CASE Passes(i)
  <2>1. PICK u \in Parts(i) : /\ to_client' = to_client \o u
                              /\ Len(to_client) + Len(u) <= SendBuffer
    BY <1>5 DEF Passes
  <2>2. u \in Seq(D \X {"head", "body"})
    <3>1. i \in D
      BY <1>1
    <3>2. /\ <<<<i, "head">>>> \in Seq(D \X {"head", "body"})
          /\ <<<<i, "head">>, <<i, "body">>>> \in Seq(D \X {"head", "body"})
      BY <3>1
    <3> QED
      BY <3>2 DEF Parts
  <2>3. /\ to_client \o u \in Seq(D \X {"head", "body"})
        /\ Len(to_client \o u) = Len(to_client) + Len(u)
    BY <1>2, <2>2, ConcatProperties
  <2>4. write_queue_' = <<>> /\ <<>> \in Seq(D)
    BY <1>5 DEF Passes
  <2> QED
    BY <1>2, <2>1, <2>3, <2>4 DEF D
<1> QED
  BY <1>3, <1>4, <1>5 DEF i

\* A read keeps the types.
LEMMA ReadTypes ==
    ASSUME TypeOK, ConnectsFirst, NEW k \in DOMAIN to_server, HandleRead(k)
    PROVE  TypeOK'
<1>1. /\ torn' \in BOOLEAN /\ UNCHANGED <<client, requests, received>>
      /\ to_server' = From(to_server, k)
  BY DEF HandleRead
<1>2. to_server' \in Seq((DOMAIN requests) \X {"head", "body"})
  <2>1. to_server \in Seq((DOMAIN requests) \X {"head", "body"})
    BY DEF TypeOK
  <2>2. From(to_server, k) \in Seq((DOMAIN requests) \X {"head", "body"})
    BY <2>1, RecvSplits
  <2> QED
    BY <1>1, <2>2
<1>3. /\ session_' \in Session /\ closed_' \in BOOLEAN
      /\ \/ UNCHANGED <<replies, write_queue_, to_client>>
         \/ /\ replies' \in Seq(Reply) /\ Len(replies') = Len(replies) + 1
            /\ \/ Queues(Len(replies) + 1)
               \/ Holds(Len(replies) + 1)
               \/ Passes(Len(replies) + 1)
  BY ReadDoes DEF Welcomed, Admitted, Served, Says
<1>4. /\ replies' \in Seq(Reply)
      /\ write_queue_' \in Seq(DOMAIN replies')
      /\ to_client' \in Seq((DOMAIN replies') \X {"head", "body"})
      /\ received \in Seq((DOMAIN replies') \X {"head", "body"})
      /\ Len(to_client') <= SendBuffer
  <2>1. CASE UNCHANGED <<replies, write_queue_, to_client>>
    BY <2>1 DEF TypeOK
  <2>2. CASE ~UNCHANGED <<replies, write_queue_, to_client>>
    BY <1>3, <2>2, RepliesGrow
  <2> QED
    BY <2>1, <2>2
<1>5. /\ requests' \in Seq(Request) /\ Len(requests') <= MaxRequests
      /\ waits' \in {0} \cup DOMAIN requests' /\ client_key' \in -MaxRequests..0
      /\ client_off' \in BOOLEAN
  BY <1>1 DEF TypeOK, client
<1> QED
  BY <1>1, <1>2, <1>3, <1>4, <1>5 DEF TypeOK

\* A request more keeps the types.
LEMMA RequestTypes ==
    ASSUME TypeOK, NEW r \in Request, SendRequest(r)
    PROVE  /\ TypeOK'
           /\ Len(requests') = Len(requests) + 1 /\ Len(requests) \in Nat
           /\ \A i \in 1..Len(requests) : requests'[i] = requests[i]
           /\ requests'[Len(requests) + 1] = r
<1> DEFINE n == Len(requests) + 1
           D == DOMAIN requests'
<1>1. /\ requests \in Seq(Request) /\ Len(requests) \in Nat
      /\ DOMAIN requests = 1..Len(requests)
  BY LenProperties DEF TypeOK
<1>2. /\ requests' = Append(requests, r) /\ n <= MaxRequests
      /\ to_server' = to_server \o Units(r, n)
      /\ waits' \in {0, n}
      /\ UNCHANGED <<server, to_client, client_key, client_off, replies,
                     received, torn>>
  BY DEF SendRequest
<1>3. /\ requests' \in Seq(Request) /\ Len(requests') = n
      /\ \A i \in 1..Len(requests) : requests'[i] = requests[i]
      /\ requests'[n] = r
  BY <1>1, <1>2, AppendProperties
<1>4. D = 1..n /\ n \in D /\ DOMAIN requests \subseteq D
  BY <1>1, <1>3, LenProperties
<1> HIDE DEF D
<1>5. to_server' \in Seq(D \X {"head", "body"})
  <2>1. (DOMAIN requests) \X {"head", "body"} \subseteq D \X {"head", "body"}
    BY <1>4
  <2>2. to_server \in Seq(D \X {"head", "body"})
    BY <2>1, SeqMonotonic DEF TypeOK
  <2>3. Units(r, n) \in Seq(D \X {"head", "body"})
    <3>1. 0 \in Nat
      OBVIOUS
    <3> QED
      BY <1>4, <3>1, UnitsOf
  <2>4. to_server \o Units(r, n) \in Seq(D \X {"head", "body"})
    BY <2>2, <2>3, ConcatProperties
  <2> QED
    BY <1>2, <2>4
<1>6. TypeOK'
  <2>1. waits' \in {0} \cup D
    BY <1>2, <1>4
  <2> QED
    BY <1>2, <1>3, <1>5, <2>1 DEF TypeOK, server, D
<1> QED
  BY <1>1, <1>3, <1>6

\* What the client receives keeps the types.
LEMMA ReceiveTypes ==
    ASSUME TypeOK, NEW k \in DOMAIN to_client, ReceiveResponse(k)
    PROVE  TypeOK' /\ (received \o to_client)' = received \o to_client
<1> DEFINE D == (DOMAIN replies) \X {"head", "body"}
           all == UpTo(to_client, k)
           rest == From(to_client, k)
<1>1. /\ to_client \in Seq(D) /\ received \in Seq(D)
      /\ Len(to_client) \in Nat /\ DOMAIN to_client = 1..Len(to_client)
      /\ Len(to_client) <= SendBuffer
      /\ waits \in {0} \cup DOMAIN requests
      /\ DOMAIN requests = 1..Len(requests) /\ Len(requests) <= MaxRequests
      /\ Len(requests) \in Nat
  BY LenProperties DEF TypeOK
<1>2. /\ all \in Seq(D) /\ rest \in Seq(D) /\ Len(rest) = Len(to_client) - k
      /\ all \o rest = to_client
  BY <1>1, RecvSplits
<1>3. /\ received' = received \o all /\ to_client' = rest
      /\ waits' = 0 /\ client_key' \in {-waits, client_key}
      /\ client_off' \in BOOLEAN /\ torn' \in BOOLEAN
      /\ UNCHANGED <<server, to_server, requests, replies>>
  BY DEF ReceiveResponse
<1> HIDE DEF all, rest, D
<1>4. received \o all \in Seq(D)
  BY <1>1, <1>2, ConcatProperties
<1>5. (received \o all) \o rest = received \o to_client
  <2>1. /\ received \in Seq(D) /\ all \in Seq(D) /\ rest \in Seq(D)
        /\ all \o rest = to_client
    BY <1>1, <1>2
  <2>2. \A a, b, c \in Seq(D) : (a \o b) \o c = a \o (b \o c)
    BY ThreeParts
  <2>3. (received \o all) \o rest = received \o (all \o rest)
    BY <2>1, <2>2, Zenon
  <2> QED
    BY <2>1, <2>3
<1>6. TypeOK'
  <2>1. /\ to_client' \in Seq(D) /\ received' \in Seq(D)
        /\ Len(to_client') <= SendBuffer
    BY <1>1, <1>2, <1>3, <1>4
  <2>2. client_key' \in -MaxRequests..0
    BY <1>1, <1>3 DEF TypeOK
  <2> QED
    BY <1>3, <2>1, <2>2 DEF TypeOK, server, D
<1> QED
  BY <1>3, <1>5, <1>6

\* Every step keeps the types.
LEMMA TypeStep ==
    ASSUME TypeOK, ConnectsFirst, [Next]_vars
    PROVE  TypeOK'
<1>1. CASE \E r \in Request : SendRequest(r)
  BY <1>1, RequestTypes
<1>2. CASE \E k \in DOMAIN to_server : HandleRead(k)
  BY <1>2, ReadTypes
<1>3. CASE \E k \in DOMAIN to_client : ReceiveResponse(k)
  BY <1>3, ReceiveTypes
<1>4. CASE HandleHangup
  BY <1>4, Zenon DEF HandleHangup, TypeOK, client
<1>5. CASE Disconnect
  BY <1>5 DEF Disconnect, TypeOK, server
<1>6. CASE UNCHANGED vars
  BY <1>6 DEF TypeOK, vars, server, client
<1> QED
  BY <1>1, <1>2, <1>3, <1>4, <1>5, <1>6, StepIs

-----------------------------------------------------------------------------
(* Requests and their answers.                                             *)

\* Every reply is still one to a request that was sent.
LEMMA AnswersStep ==
    ASSUME TypeOK, ConnectsFirst, AnswersRequests, [Next]_vars
    PROVE  AnswersRequests'
<1>1. /\ DOMAIN replies = 1..Len(replies) /\ Len(replies) \in Nat
      /\ DOMAIN requests = 1..Len(requests) /\ Len(requests) \in Nat
  <2>1. replies \in Seq(Reply) /\ requests \in Seq(Request)
    BY DEF TypeOK
  <2> QED
    BY <2>1, LenProperties
<1>2. CASE \E r \in Request : SendRequest(r)
  <2>1. PICK r \in Request : SendRequest(r)
    BY <1>2
  <2>2. requests' \in Seq(Request) /\ Len(requests') = Len(requests) + 1
    BY <2>1, RequestTypes DEF TypeOK
  <2>3. DOMAIN requests' = 1..(Len(requests) + 1)
    BY <2>2, LenProperties
  <2>4. replies' = replies
    BY <2>1 DEF SendRequest
  <2> QED
    BY <1>1, <2>3, <2>4 DEF AnswersRequests
<1>3. CASE \E k \in DOMAIN to_server : HandleRead(k)
  <2>1. PICK k \in DOMAIN to_server : HandleRead(k)
    BY <1>3
  <2>2. requests' = requests
    BY <2>1 DEF HandleRead
  <2>3. CASE replies' = replies
    BY <2>2, <2>3 DEF AnswersRequests
  <2>4. CASE \E n \in DOMAIN requests, type \in ReplyTypes, ok \in BOOLEAN :
                 Says(n, type, ok)
    <3>1. PICK n \in DOMAIN requests, type \in ReplyTypes, ok \in BOOLEAN :
              Says(n, type, ok)
      BY <2>4
    <3>2. /\ replies' \in Seq(Reply) /\ Len(replies') = Len(replies) + 1
          /\ \A i \in 1..Len(replies) : replies'[i] = replies[i]
          /\ replies'[Len(replies) + 1].to = n
      BY <3>1 DEF Says
    <3>3. DOMAIN replies' = 1..(Len(replies) + 1)
      BY <3>2, LenProperties
    <3>4. ASSUME NEW i \in DOMAIN replies' PROVE replies'[i].to \in DOMAIN requests
      <4>1. CASE i \in 1..Len(replies)
        BY <1>1, <3>2, <4>1 DEF AnswersRequests
      <4>2. CASE i = Len(replies) + 1
        BY <3>2, <4>2
      <4> QED
        BY <1>1, <3>3, <4>1, <4>2
    <3> QED
      BY <2>2, <3>4 DEF AnswersRequests
  <2>5. \/ replies' = replies
        \/ \E n \in DOMAIN requests, type \in ReplyTypes, ok \in BOOLEAN :
               Says(n, type, ok)
    <3>1. \A n \in DOMAIN requests :
              Welcomed(n) => Says(n, "CONN_ACK", TRUE) /\ TRUE \in BOOLEAN
      BY DEF Welcomed
    <3>2. \A n \in DOMAIN requests :
              Admitted(n) => \E ok \in BOOLEAN : Says(n, "AUTH_ACK", ok)
      <4>1. ASSUME NEW n \in DOMAIN requests, Admitted(n)
            PROVE  \E ok \in BOOLEAN : Says(n, "AUTH_ACK", ok)
        <5>1. /\ Says(n, "AUTH_ACK", requests[n].good)
              /\ Len(replies') = Len(replies) + 1 /\ replies' \in Seq(Reply)
              /\ replies'[Len(replies) + 1].ok = requests[n].good
          BY <4>1 DEF Admitted, Says
        <5>2. replies'[Len(replies) + 1] \in Reply
          <6>1. Len(replies) + 1 \in 1..Len(replies')
            BY <1>1, <5>1
          <6> QED
            BY <5>1, <6>1, ElementOfSeq
        <5>3. requests[n].good \in BOOLEAN
          BY <5>1, <5>2 DEF Reply
        <5> QED
          BY <5>1, <5>3, Zenon
      <4> QED
        BY <4>1
    <3>3. \A n \in DOMAIN requests : Served(n) =>
              \E type \in ReplyTypes, ok \in BOOLEAN : Says(n, type, ok)
      BY DEF Served
    <3>4. {"CONN_ACK", "AUTH_ACK"} \subseteq ReplyTypes
      BY DEF ReplyTypes
    <3>5. \/ replies' = replies
          \/ \E n \in DOMAIN requests : Welcomed(n) \/ Admitted(n) \/ Served(n)
      BY <2>1, ReadDoes
    <3> QED
      BY <3>1, <3>2, <3>3, <3>4, <3>5, Zenon
  <2> QED
    BY <2>3, <2>4, <2>5
<1>4. CASE \E k \in DOMAIN to_client : ReceiveResponse(k)
  BY <1>4 DEF ReceiveResponse, AnswersRequests
<1>5. CASE HandleHangup \/ Disconnect \/ UNCHANGED vars
  BY <1>5 DEF HandleHangup, Disconnect, vars, AnswersRequests
<1> QED
  BY <1>2, <1>3, <1>4, <1>5, StepIs

\* The first message is CONNECT, and reading it makes a session for good.
LEMMA ConnectsStep ==
    ASSUME TypeOK, ConnectsFirst, [Next]_vars
    PROVE  ConnectsFirst'
<1>1. /\ requests \in Seq(Request) /\ Len(requests) \in Nat
      /\ DOMAIN requests = 1..Len(requests)
      /\ to_server \in Seq((DOMAIN requests) \X {"head", "body"})
  BY LenProperties DEF TypeOK
<1>2. CASE \E r \in Request : SendRequest(r)
  <2>1. PICK r \in Request : SendRequest(r)
    BY <1>2
  <2> DEFINE n == Len(requests) + 1
             S == (1..n) \X {"head", "body"}
  <2>2. /\ Len(requests') = n /\ Len(requests) \in Nat
        /\ \A i \in 1..Len(requests) : requests'[i] = requests[i]
        /\ requests'[n] = r
    BY <2>1, RequestTypes
  <2>3. /\ n = 1 => r.type = "CONNECT"
        /\ to_server' = to_server \o Units(r, n)
        /\ session_' = session_
    BY <2>1 DEF SendRequest, server
  <2>4. /\ Units(r, n) \in Seq(S) /\ Units(r, n) \in Parts(n)
    <3>1. n \in 1..n /\ 0 \in Nat
      BY <1>1
    <3> HIDE DEF n
    <3> QED
      BY <3>1, UnitsOf
  <2>5. to_server \in Seq(S)
    <3>1. (DOMAIN requests) \X {"head", "body"} \subseteq S
      BY <1>1
    <3> QED
      BY <1>1, <3>1, SeqMonotonic
  <2>6. CASE requests = <<>>
    <3>1. n = 1
      BY <2>2, <2>6
    <3>2. to_server = <<>>
      <4>1. Len(to_server) = 0
        <5>1. Len(to_server) \in Nat
              /\ \A i \in 1..Len(to_server) :
                     to_server[i] \in (DOMAIN requests) \X {"head", "body"}
          BY <1>1, LenProperties, ElementOfSeq
        <5>2. DOMAIN requests = {}
          BY <1>1, <2>6
        <5>3. ~(1 \in 1..Len(to_server))
          BY <5>1, <5>2
        <5> QED
          BY <5>1, <5>3
      <4> QED
        BY <1>1, <4>1, EmptySeq
    <3>3. to_server' = Units(r, n)
      BY <2>3, <2>4, <3>2, ConcatEmptySeq
    <3>4. to_server' # <<>> /\ to_server'[1] = <<n, "head">>
      BY <2>4, <3>3 DEF Parts
    <3> QED
      BY <2>2, <2>3, <3>1, <3>4 DEF ConnectsFirst
  <2>7. CASE requests # <<>>
    <3>1. 1 \in 1..Len(requests)
      BY <1>1, <2>7, EmptySeq
    <3>2. requests'[1].type = "CONNECT"
      BY <2>2, <2>7, <3>1 DEF ConnectsFirst
    <3>3. ASSUME session_ = NoSession
          PROVE  to_server' # <<>> /\ to_server'[1] = <<1, "head">>
      <4>1. to_server # <<>> /\ to_server[1] = <<1, "head">>
        BY <2>7, <3>3 DEF ConnectsFirst
      <4>2. Len(to_server) \in Nat /\ Len(to_server) # 0
        BY <2>5, <4>1, EmptySeq, LenProperties
      <4>3. Len(Units(r, n)) \in Nat
        BY <2>4, LenProperties
      <4>4. /\ Len(to_server') = Len(to_server) + Len(Units(r, n))
            /\ to_server'[1] = to_server[1]
        <5>1. /\ Len(to_server \o Units(r, n)) = Len(to_server) + Len(Units(r, n))
              /\ \A i \in 1..(Len(to_server) + Len(Units(r, n))) :
                     (to_server \o Units(r, n))[i]
                     = IF i <= Len(to_server) THEN to_server[i]
                       ELSE Units(r, n)[i - Len(to_server)]
          BY <2>4, <2>5, ConcatProperties
        <5>2. 1 \in 1..(Len(to_server) + Len(Units(r, n))) /\ 1 <= Len(to_server)
          BY <4>2, <4>3
        <5> QED
          BY <2>3, <5>1, <5>2
      <4>5. Len(<<>>) = 0 /\ Len(to_server') # 0
        BY <4>2, <4>3, <4>4
      <4> QED
        BY <4>1, <4>4, <4>5
    <3> QED
      BY <2>3, <3>2, <3>3 DEF ConnectsFirst
  <2> QED
    BY <2>6, <2>7
<1>3. CASE \E k \in DOMAIN to_server : HandleRead(k)
  <2>1. PICK k \in DOMAIN to_server : HandleRead(k)
    BY <1>3
  <2>2. requests' = requests
    BY <2>1 DEF HandleRead
  <2>3. session_' \in Session
    BY <2>1, ReadDoes
  <2> QED
    BY <2>2, <2>3 DEF ConnectsFirst
<1>4. CASE \E k \in DOMAIN to_client : ReceiveResponse(k)
  BY <1>4 DEF ReceiveResponse, server, ConnectsFirst
<1>5. CASE HandleHangup \/ Disconnect \/ UNCHANGED vars
  BY <1>5 DEF HandleHangup, Disconnect, vars, server, ConnectsFirst
<1> QED
  BY <1>2, <1>3, <1>4, <1>5, StepIs

-----------------------------------------------------------------------------
(* The login.                                                              *)

\* The messages that were sent stay what they are.
MessagesKept ==
    /\ \A i \in DOMAIN replies : i \in DOMAIN replies' /\ replies'[i] = replies[i]
    /\ \A n \in DOMAIN requests : n \in DOMAIN requests' /\ requests'[n] = requests[n]

\* The positions of replies and requests are numbers.
LEMMA Domains ==
    ASSUME TypeOK
    PROVE  /\ DOMAIN replies = 1..Len(replies) /\ Len(replies) \in Nat
           /\ DOMAIN requests = 1..Len(requests) /\ Len(requests) \in Nat
<1>1. replies \in Seq(Reply) /\ requests \in Seq(Request)
  BY DEF TypeOK
<1> QED
  BY <1>1, LenProperties

\* What a read that is answered does to the replies.
LEMMA RepliesAfter ==
    ASSUME TypeOK, NEW n, NEW type, NEW ok, Says(n, type, ok)
    PROVE  /\ DOMAIN replies' = 1..(Len(replies) + 1)
           /\ \A i \in 1..Len(replies) : replies'[i] = replies[i]
           /\ replies'[Len(replies) + 1].to = n
           /\ replies'[Len(replies) + 1].type = type
           /\ replies'[Len(replies) + 1].ok = ok
<1>1. replies' \in Seq(Reply) /\ Len(replies') = Len(replies) + 1
  BY DEF Says
<1>2. DOMAIN replies' = 1..(Len(replies) + 1)
  BY <1>1, LenProperties
<1> QED
  BY <1>2 DEF Says

\* No step changes a message that was sent.
LEMMA MessagesStep ==
    ASSUME TypeOK, ConnectsFirst, [Next]_vars
    PROVE  MessagesKept
<1>1. CASE \E r \in Request : SendRequest(r)
  <2>1. PICK r \in Request : SendRequest(r)
    BY <1>1
  <2>2. /\ requests' \in Seq(Request) /\ Len(requests') = Len(requests) + 1
        /\ \A i \in 1..Len(requests) : requests'[i] = requests[i]
    BY <2>1, RequestTypes DEF TypeOK
  <2>3. DOMAIN requests' = 1..(Len(requests) + 1)
    BY <2>2, LenProperties
  <2>4. replies' = replies
    BY <2>1 DEF SendRequest
  <2> QED
    BY <2>2, <2>3, <2>4, Domains DEF MessagesKept
<1>2. CASE \E k \in DOMAIN to_server : HandleRead(k)
  <2>1. PICK k \in DOMAIN to_server : HandleRead(k)
    BY <1>2
  <2>2. requests' = requests
    BY <2>1 DEF HandleRead
  <2>3. CASE replies' = replies
    BY <2>2, <2>3 DEF MessagesKept
  <2>4. CASE \E n, type, ok : Says(n, type, ok)
    BY <2>2, <2>4, RepliesAfter, Domains DEF MessagesKept
  <2>5. replies' = replies \/ \E n, type, ok : Says(n, type, ok)
    BY <2>1, ReadDoes DEF Welcomed, Admitted, Served
  <2> QED
    BY <2>3, <2>4, <2>5
<1>3. CASE \E k \in DOMAIN to_client : ReceiveResponse(k)
  BY <1>3 DEF ReceiveResponse, MessagesKept
<1>4. CASE HandleHangup \/ Disconnect \/ UNCHANGED vars
  BY <1>4 DEF HandleHangup, Disconnect, vars, MessagesKept
<1> QED
  BY <1>1, <1>2, <1>3, <1>4, StepIs

\* At reply i, the CONNECT that reply c answers was the last, and it asked for
\* no login or there was one since.
Entitled(c, i) ==
    /\ replies[c].type = "CONN_ACK"
    /\ \A j \in c+1..i : replies[j].type # "CONN_ACK"
    /\ requests[replies[c].to].noauth \/ LoggedInSince(c, i)

\* LoginRequired in terms of the reply that entitles to a result.
LEMMA LoginIs ==
    LoginRequired <=>
        \A i \in DOMAIN replies : replies[i].type = "QUERY_RESULT" =>
            \E c \in 1..(i - 1) : Entitled(c, i)
  BY DEF LoginRequired, Entitled, LoggedInSince

\* What is past stays so.
LEMMA EntitledKept ==
    ASSUME TypeOK, AnswersRequests, MessagesKept,
           NEW i \in DOMAIN replies, NEW c \in 1..(i - 1), Entitled(c, i)
    PROVE  Entitled(c, i)'
<1>1. /\ DOMAIN replies = 1..Len(replies) /\ Len(replies) \in Nat
  BY Domains
<1>2. /\ c \in DOMAIN replies /\ \A j \in c+1..i : j \in DOMAIN replies
  BY <1>1
<1>3. /\ replies'[c] = replies[c] /\ \A j \in c+1..i : replies'[j] = replies[j]
  BY <1>2 DEF MessagesKept
<1>4. requests'[replies[c].to] = requests[replies[c].to]
  BY <1>2 DEF AnswersRequests, MessagesKept
<1> QED
  BY <1>3, <1>4 DEF Entitled, LoggedInSince

\* The session's CONNECT stays the last one, and what it entitles to stays,
\* while the replies are no CONN_ACK.
LEMMA MadeByKept ==
    ASSUME TypeOK, AnswersRequests, MessagesKept, NEW c \in DOMAIN replies,
           MadeBy(c), session_'.noauth = session_.noauth,
           \/ replies' = replies
           \/ /\ DOMAIN replies' = 1..(Len(replies) + 1)
              /\ Len(replies') = Len(replies) + 1
              /\ replies'[Len(replies) + 1].type # "CONN_ACK",
           session_'.authenticated =>
               \/ session_.authenticated
               \/ /\ Len(replies') = Len(replies) + 1
                  /\ replies'[Len(replies) + 1].type = "AUTH_ACK"
                  /\ replies'[Len(replies) + 1].ok
    PROVE  MadeBy(c)'
<1>1. /\ DOMAIN replies = 1..Len(replies) /\ Len(replies) \in Nat
  BY Domains
<1>2. /\ replies'[c] = replies[c]
      /\ \A j \in c+1..Len(replies) : replies'[j] = replies[j]
  BY <1>1 DEF MessagesKept
<1>3. requests'[replies[c].to] = requests[replies[c].to]
  BY DEF AnswersRequests, MessagesKept
<1>4. Len(replies') \in {Len(replies), Len(replies) + 1}
  OBVIOUS
<1>5. \A j \in c+1..Len(replies') : replies'[j].type # "CONN_ACK"
  <2>1. ASSUME NEW j \in c+1..Len(replies') PROVE replies'[j].type # "CONN_ACK"
    <3>1. CASE j \in c+1..Len(replies)
      BY <1>2, <3>1 DEF MadeBy
    <3>2. CASE j = Len(replies) + 1 /\ Len(replies') = Len(replies) + 1
      <4>1. replies' # replies
        BY <1>1, <3>2
      <4> QED
        BY <3>2, <4>1
    <3> QED
      BY <1>1, <1>4, <3>1, <3>2
  <2> QED
    BY <2>1
<1>6. session_'.authenticated => session_'.noauth \/ LoggedInSince(c, Len(replies))'
  <2>1. CASE session_.authenticated
    <3>1. session_.noauth \/ LoggedInSince(c, Len(replies))
      BY <2>1 DEF MadeBy
    <3>2. CASE LoggedInSince(c, Len(replies))
      <4>1. PICK j \in c+1..Len(replies) :
                replies[j].type = "AUTH_ACK" /\ replies[j].ok
        BY <3>2 DEF LoggedInSince
      <4>2. j \in c+1..Len(replies')
        BY <1>1, <1>4
      <4> QED
        BY <1>2, <4>1, <4>2 DEF LoggedInSince
    <3> QED
      BY <3>1, <3>2
  <2>2. CASE /\ Len(replies') = Len(replies) + 1
             /\ replies'[Len(replies) + 1].type = "AUTH_ACK"
             /\ replies'[Len(replies) + 1].ok
    <3>1. Len(replies) + 1 \in c+1..Len(replies')
      BY <1>1, <2>2
    <3> QED
      BY <2>2, <3>1 DEF LoggedInSince
  <2> QED
    BY <2>1, <2>2
<1> QED
  BY <1>2, <1>3, <1>5, <1>6 DEF MadeBy

\* The session is always that of the last CONNECT.
LEMMA SessionStep ==
    ASSUME TypeOK, ConnectsFirst, AnswersRequests, SessionMade, [Next]_vars
    PROVE  SessionMade'
<1>1. MessagesKept
  BY MessagesStep
<1>2. ASSUME session_' = session_, replies' = replies PROVE SessionMade'
  <2>1. ASSUME session_ # NoSession PROVE \E c \in DOMAIN replies : MadeBy(c)'
    <3>1. PICK c \in DOMAIN replies : MadeBy(c)
      BY <2>1 DEF SessionMade
    <3>2. MadeBy(c)'
      BY <1>1, <1>2, <3>1, MadeByKept
    <3> QED
      BY <3>2
  <2> QED
    BY <1>2, <2>1 DEF SessionMade
<1>3. CASE \E k \in DOMAIN to_server : HandleRead(k)
  <2>1. PICK k \in DOMAIN to_server : HandleRead(k)
    BY <1>3
  <2>2. requests' = requests
    BY <2>1 DEF HandleRead
  <2>3. ASSUME NEW n \in DOMAIN requests, Welcomed(n) PROVE SessionMade'
    <3>0. PICK c \in Nat : c = Len(replies) + 1
      BY Domains
    <3>1. /\ DOMAIN replies' = 1..c /\ Len(replies') = c
          /\ replies'[c].to = n /\ replies'[c].type = "CONN_ACK"
      BY <2>3, <3>0, RepliesAfter DEF Welcomed, Says
    <3>2. c \in DOMAIN replies' /\ \A j \in c+1..Len(replies') : FALSE
      BY <3>0, <3>1, Domains
    <3>3. MadeBy(c)'
      BY <2>2, <2>3, <3>1, <3>2 DEF MadeBy, Welcomed
    <3> QED
      BY <3>2, <3>3 DEF SessionMade
  <2>4. ASSUME NEW type, NEW ok, NEW n \in DOMAIN requests, Says(n, type, ok),
               type # "CONN_ACK",
               session_ \in Session, session_'.noauth = session_.noauth,
               session_'.authenticated =>
                   session_.authenticated \/ (type = "AUTH_ACK" /\ ok)
        PROVE  SessionMade'
    <3>1. PICK c \in DOMAIN replies : MadeBy(c)
      BY <2>4 DEF SessionMade
    <3>2. /\ DOMAIN replies' = 1..(Len(replies) + 1)
          /\ Len(replies') = Len(replies) + 1
          /\ replies'[Len(replies) + 1].type = type
          /\ replies'[Len(replies) + 1].ok = ok
      BY <2>4, RepliesAfter DEF Says
    <3>3. MadeBy(c)'
      BY <1>1, <2>4, <3>1, <3>2, MadeByKept
    <3>4. c \in DOMAIN replies'
      BY <1>1 DEF MessagesKept
    <3> QED
      BY <3>3, <3>4 DEF SessionMade
  <2>5. ASSUME NEW n \in DOMAIN requests, Admitted(n) PROVE SessionMade'
    <3>1. /\ Says(n, "AUTH_ACK", requests[n].good) /\ session_ \in Session
          /\ session_'.noauth = session_.noauth
          /\ session_'.authenticated => session_.authenticated \/ requests[n].good
      BY <2>5 DEF Admitted
    <3> QED
      BY <2>4, <3>1
  <2>6. ASSUME NEW n \in DOMAIN requests, Served(n) PROVE SessionMade'
    <3>1. /\ session_ \in Session /\ session_'.noauth = session_.noauth
          /\ session_'.authenticated = session_.authenticated
      BY <2>6 DEF Served
    <3>2. PICK type \in ReplyTypes \ {"CONN_ACK"}, ok \in BOOLEAN :
              Says(n, type, ok)
      BY <2>6 DEF Served
    <3> QED
      BY <2>4, <3>1, <3>2
  <2>7. \/ session_' = session_ /\ replies' = replies
        \/ \E n \in DOMAIN requests : Welcomed(n) \/ Admitted(n) \/ Served(n)
    BY <2>1, ReadDoes
  <2> QED
    BY <1>2, <2>3, <2>5, <2>6, <2>7
<1>4. CASE \E r \in Request : SendRequest(r)
  BY <1>2, <1>4 DEF SendRequest, server
<1>5. CASE \E k \in DOMAIN to_client : ReceiveResponse(k)
  BY <1>2, <1>5 DEF ReceiveResponse, server
<1>6. CASE HandleHangup \/ Disconnect \/ UNCHANGED vars
  BY <1>2, <1>6 DEF HandleHangup, Disconnect, vars, server
<1> QED
  BY <1>3, <1>4, <1>5, <1>6, StepIs

\* A result is given only by a session that was entitled to it.
LEMMA LoginStep ==
    ASSUME TypeOK, ConnectsFirst, AnswersRequests, SessionMade, LoginRequired,
           [Next]_vars
    PROVE  LoginRequired'
<1>1. MessagesKept
  BY MessagesStep
<1> DEFINE Right(i) == replies'[i].type = "QUERY_RESULT" =>
                           \E c \in 1..(i - 1) : Entitled(c, i)'
<1>2. ASSUME NEW i \in DOMAIN replies PROVE Right(i)
  <2>1. CASE replies'[i].type = "QUERY_RESULT"
    <3>1. replies[i].type = "QUERY_RESULT"
      BY <1>1, <2>1 DEF MessagesKept
    <3>2. PICK c \in 1..(i - 1) : Entitled(c, i)
      BY <3>1, LoginIs
    <3>3. Entitled(c, i)'
      BY <1>1, <3>2, EntitledKept
    <3> QED
      BY <3>3
  <2> QED
    BY <2>1
<1>3. ASSUME \A i \in DOMAIN replies' : Right(i) PROVE LoginRequired'
  BY <1>3 DEF LoginRequired, Entitled, LoggedInSince
<1>4. ASSUME replies' = replies PROVE LoginRequired'
  BY <1>2, <1>3, <1>4
<1>5. CASE \E k \in DOMAIN to_server : HandleRead(k)
  <2>1. PICK k \in DOMAIN to_server : HandleRead(k)
    BY <1>5
  <2>2. ASSUME NEW n, NEW type, NEW ok, Says(n, type, ok),
               type = "QUERY_RESULT" =>
                   /\ session_ \in Session
                   /\ session_.noauth \/ session_.authenticated
        PROVE  LoginRequired'
    <3>0. PICK l \in Nat : l = Len(replies) + 1
      BY Domains
    <3>1. /\ DOMAIN replies' = 1..l /\ replies'[l].type = type
          /\ DOMAIN replies = 1..Len(replies) /\ Len(replies) \in Nat
          /\ l = Len(replies) + 1
      BY <2>2, <3>0, RepliesAfter, Domains
    <3>2. Right(l)
      <4>1. CASE type = "QUERY_RESULT"
        <5>1. PICK c \in DOMAIN replies : MadeBy(c)
          BY <2>2, <4>1 DEF SessionMade
        <5>2. requests[replies[c].to].noauth \/ LoggedInSince(c, Len(replies))
          BY <2>2, <4>1, <5>1 DEF MadeBy
        <5>3. /\ replies'[c] = replies[c]
              /\ \A j \in c+1..Len(replies) : replies'[j] = replies[j]
              /\ requests'[replies[c].to] = requests[replies[c].to]
          BY <1>1, <3>1 DEF MessagesKept, AnswersRequests
        <5>4. \A j \in c+1..l : j \in c+1..Len(replies) \/ j = l
          BY <3>1
        <5>5. \A j \in c+1..l : replies'[j].type # "CONN_ACK"
          BY <3>1, <4>1, <5>1, <5>3, <5>4 DEF MadeBy
        <5>6. LoggedInSince(c, Len(replies)) =>
                  \E j \in c+1..l : replies'[j].type = "AUTH_ACK" /\ replies'[j].ok
          <6>1. c+1..Len(replies) \subseteq c+1..l
            BY <3>1
          <6> QED
            BY <5>3, <6>1 DEF LoggedInSince
        <5>7. /\ replies'[c].type = "CONN_ACK"
              /\ \/ requests'[replies'[c].to].noauth
                 \/ \E j \in c+1..l : replies'[j].type = "AUTH_ACK" /\ replies'[j].ok
          BY <5>1, <5>2, <5>3, <5>6 DEF MadeBy
        <5>8. c \in 1..(l - 1)
          BY <3>1
        <5>9. \E d \in 1..(l - 1) :
                  /\ replies'[d].type = "CONN_ACK"
                  /\ \A j \in d+1..l : replies'[j].type # "CONN_ACK"
                  /\ \/ requests'[replies'[d].to].noauth
                     \/ \E j \in d+1..l : replies'[j].type = "AUTH_ACK" /\ replies'[j].ok
          BY <5>5, <5>7, <5>8
        <5> QED
          BY <5>9 DEF Entitled, LoggedInSince
      <4>2. CASE type # "QUERY_RESULT"
        BY <3>1, <4>2
      <4> QED
        BY <4>1, <4>2
    <3>3. \A i \in DOMAIN replies' : i \in DOMAIN replies \/ i = l
      BY <3>1
    <3> QED
      <4> HIDE DEF Right
      <4> QED
        BY <1>2, <1>3, <3>2, <3>3
  <2>3. \/ replies' = replies
        \/ \E n \in DOMAIN requests : Welcomed(n) \/ Admitted(n) \/ Served(n)
    BY <2>1, ReadDoes
  <2>4. ASSUME NEW n \in DOMAIN requests, Welcomed(n) PROVE LoginRequired'
    BY <2>2, <2>4 DEF Welcomed
  <2>5. ASSUME NEW n \in DOMAIN requests, Admitted(n) PROVE LoginRequired'
    BY <2>2, <2>5 DEF Admitted
  <2>6. ASSUME NEW n \in DOMAIN requests, Served(n) PROVE LoginRequired'
    BY <2>2, <2>6 DEF Served
  <2> QED
    BY <1>4, <2>3, <2>4, <2>5, <2>6
<1>6. CASE \E r \in Request : SendRequest(r)
  BY <1>4, <1>6 DEF SendRequest
<1>7. CASE \E k \in DOMAIN to_client : ReceiveResponse(k)
  BY <1>4, <1>7 DEF ReceiveResponse
<1>8. CASE HandleHangup \/ Disconnect \/ UNCHANGED vars
  BY <1>4, <1>8 DEF HandleHangup, Disconnect, vars
<1> QED
  BY <1>5, <1>6, <1>7, <1>8, StepIs

-----------------------------------------------------------------------------
(* The order of the replies.                                               *)

\* The parts of replies are in the order of the replies, none twice.
InOrder(s) ==
    \A a, b \in DOMAIN s : a < b =>
        \/ s[a][1] < s[b][1]
        \/ s[a][1] = s[b][1] /\ s[a][2] = "head" /\ s[b][2] = "body"
\* What is in the queue comes after them.
Behind(q, s) == \A x \in DOMAIN q, a \in DOMAIN s : s[a][1] < q[x]

\* Behind without the set of the queue's elements.
LEMMA BehindIs ==
    ASSUME NEW q, NEW s
    PROVE  (\A x \in ToSet(q), a \in DOMAIN s : s[a][1] < x) <=> Behind(q, s)
<1>1. ASSUME \A x \in ToSet(q), a \in DOMAIN s : s[a][1] < x PROVE Behind(q, s)
  <2>1. \A i \in DOMAIN q : q[i] \in ToSet(q)
    BY DEF ToSet
  <2> QED
    BY <1>1, <2>1 DEF Behind
<1>2. ASSUME Behind(q, s), NEW x \in ToSet(q), NEW a \in DOMAIN s
      PROVE  s[a][1] < x
  <2>1. PICK i \in DOMAIN q : x = q[i]
    BY DEF ToSet
  <2> QED
    BY <1>2, <2>1 DEF Behind
<1> QED
  BY <1>1, <1>2

\* RepliesInOrder in terms of InOrder and Behind.
LEMMA OrderIs ==
    RepliesInOrder <=> /\ InOrder(received \o to_client)
                       /\ Behind(write_queue_, received \o to_client)
  BY BehindIs DEF RepliesInOrder, InOrder

\* The next reply comes after all that were sent.
LEMMA NextInOrder ==
    ASSUME NEW l \in Nat, NEW s \in Seq((1..l) \X {"head", "body"}), InOrder(s),
           NEW u \in Parts(l + 1)
    PROVE  InOrder(s \o u)
<1> DEFINE n == Len(s)
           all == s \o u
<1>1. /\ n \in Nat /\ DOMAIN s = 1..n
      /\ \A a \in 1..n : s[a][1] \in 1..l
  <2>1. n \in Nat /\ DOMAIN s = 1..n
    BY LenProperties
  <2>2. \A a \in 1..n : s[a] \in (1..l) \X {"head", "body"}
    BY <2>1, ElementOfSeq
  <2> QED
    BY <2>1, <2>2
<1>2. /\ u \in Seq({l + 1} \X {"head", "body"}) /\ Len(u) \in {1, 2}
      /\ u[1] = <<l + 1, "head">>
      /\ Len(u) = 2 => u[2] = <<l + 1, "body">>
  <2>1. CASE u = <<<<l + 1, "head">>>>
    BY <2>1
  <2>2. CASE u = <<<<l + 1, "head">>, <<l + 1, "body">>>>
    BY <2>2
  <2> QED
    BY <2>1, <2>2 DEF Parts
<1>3. /\ Len(all) = n + Len(u) /\ DOMAIN all = 1..(n + Len(u))
      /\ \A a \in 1..n : all[a] = s[a]
      /\ all[n + 1] = <<l + 1, "head">>
      /\ Len(u) = 2 => all[n + 2] = <<l + 1, "body">>
  <2> DEFINE E == (1..(l + 1)) \X {"head", "body"}
  <2>1. s \in Seq(E) /\ u \in Seq(E)
    <3>1. /\ (1..l) \X {"head", "body"} \subseteq E
          /\ {l + 1} \X {"head", "body"} \subseteq E
      OBVIOUS
    <3> HIDE DEF E
    <3> QED
      BY <1>2, <3>1, SeqMonotonic
  <2> HIDE DEF E
  <2>2. /\ all \in Seq(E) /\ Len(all) = n + Len(u)
        /\ \A a \in 1..(n + Len(u)) :
               all[a] = IF a <= n THEN s[a] ELSE u[a - n]
    BY <2>1, ConcatProperties
  <2>3. DOMAIN all = 1..(n + Len(u))
    BY <2>2, LenProperties
  <2> HIDE DEF all, n
  <2>4. \A a \in 1..n : all[a] = s[a]
    BY <1>1, <1>2, <2>2
  <2>5. all[n + 1] = u[1]
    <3>1. n + 1 \in 1..(n + Len(u)) /\ ~(n + 1 <= n) /\ (n + 1) - n = 1
      BY <1>1, <1>2
    <3> QED
      BY <2>2, <3>1
  <2>6. ASSUME Len(u) = 2 PROVE all[n + 2] = u[2]
    <3>1. n + 2 \in 1..(n + Len(u)) /\ ~(n + 2 <= n) /\ (n + 2) - n = 2
      BY <1>1, <2>6
    <3> QED
      BY <2>2, <3>1
  <2> QED
    BY <1>2, <2>2, <2>3, <2>4, <2>5, <2>6
<1> HIDE DEF all, n
<1>4. SUFFICES ASSUME NEW a \in DOMAIN all, NEW b \in DOMAIN all, a < b
               PROVE  \/ all[a][1] < all[b][1]
                      \/ /\ all[a][1] = all[b][1]
                         /\ all[a][2] = "head" /\ all[b][2] = "body"
  BY DEF InOrder, all
<1>5. \A c \in DOMAIN all : \/ c \in 1..n
                            \/ c = n + 1
                            \/ c = n + 2 /\ Len(u) = 2
  <2>1. CASE Len(u) = 1
    <3>1. DOMAIN all = 1..(n + 1)
      BY <1>3, <2>1
    <3> QED
      BY <1>1, <3>1
  <2>2. CASE Len(u) = 2
    <3>1. DOMAIN all = 1..(n + 2)
      BY <1>3, <2>2
    <3>2. n \in Nat
      BY <1>1
    <3>3. \A c \in 1..(n + 2) : c \in 1..n \/ c = n + 1 \/ c = n + 2
      BY <3>2
    <3> QED
      BY <2>2, <3>1, <3>3
  <2> QED
    BY <1>2, <2>1, <2>2
<1>6. CASE a \in 1..n /\ b \in 1..n
  BY <1>1, <1>3, <1>4, <1>6 DEF InOrder
<1>7. CASE a \in 1..n /\ b \notin 1..n
  <2>1. all[b][1] = l + 1
    BY <1>3, <1>5, <1>7
  <2>2. all[a][1] \in 1..l
    BY <1>1, <1>3, <1>7
  <2> QED
    BY <2>1, <2>2
<1>8. CASE a \notin 1..n
  <2>1. a = n + 1 /\ b = n + 2 /\ Len(u) = 2
    BY <1>1, <1>4, <1>5, <1>8
  <2> QED
    BY <1>3, <2>1
<1> QED
  BY <1>6, <1>7, <1>8

\* No step breaks the order.
LEMMA OrderStep ==
    ASSUME TypeOK, ConnectsFirst, RepliesInOrder, [Next]_vars
    PROVE  RepliesInOrder'
<1> DEFINE sent == received \o to_client
           l == Len(replies)
           S == (1..l) \X {"head", "body"}
<1>1. /\ l \in Nat /\ received \in Seq(S) /\ to_client \in Seq(S)
      /\ write_queue_ \in Seq(1..l)
  <2>1. DOMAIN replies = 1..l /\ l \in Nat
    BY Domains
  <2>2. /\ write_queue_ \in Seq(DOMAIN replies)
        /\ to_client \in Seq((DOMAIN replies) \X {"head", "body"})
        /\ received \in Seq((DOMAIN replies) \X {"head", "body"})
    BY DEF TypeOK
  <2> HIDE DEF l
  <2> QED
    BY <2>1, <2>2, Zenon
<1>2. InOrder(sent) /\ Behind(write_queue_, sent)
  BY OrderIs
<1>3. /\ sent \in Seq(S) /\ DOMAIN sent = 1..Len(sent)
      /\ \A a \in DOMAIN sent : sent[a][1] \in 1..l
  <2>1. sent \in Seq(S)
    <3> HIDE DEF S
    <3> QED
      BY <1>1, ConcatProperties
  <2>2. DOMAIN sent = 1..Len(sent)
    BY <2>1, LenProperties
  <2>3. \A a \in DOMAIN sent : sent[a] \in S
    BY <2>1, <2>2, ElementOfSeq
  <2> HIDE DEF sent
  <2> QED
    BY <2>1, <2>2, <2>3
<1>4. ASSUME InOrder(sent'), Behind(write_queue_', sent') PROVE RepliesInOrder'
  <2>1. /\ InOrder((received \o to_client)')
        /\ Behind(write_queue_', (received \o to_client)')
    BY <1>4
  <2> QED
    BY <2>1, BehindIs DEF RepliesInOrder, InOrder
<1>5. ASSUME UNCHANGED <<received, to_client, write_queue_>> PROVE RepliesInOrder'
  BY <1>2, <1>4, <1>5
<1>6. CASE \E k \in DOMAIN to_server : HandleRead(k)
  <2>1. PICK k \in DOMAIN to_server : HandleRead(k)
    BY <1>6
  <2>2. received' = received
    BY <2>1 DEF HandleRead
  <2>3. \/ UNCHANGED <<write_queue_, to_client>>
        \/ Queues(l + 1) \/ Holds(l + 1) \/ Passes(l + 1)
    BY <2>1, ReadDoes
  <2>4. CASE Queues(l + 1)
    <3>1. sent' = sent
      BY <2>2, <2>4 DEF Queues
    <3>2. write_queue_' = Append(write_queue_, l + 1)
      BY <2>4 DEF Queues
    <3>3. Behind(write_queue_', sent)
      <4>1. write_queue_ \in Seq(1..(l + 1)) /\ l + 1 \in 1..(l + 1)
        <5>1. 1..l \subseteq 1..(l + 1) /\ l + 1 \in 1..(l + 1)
          BY <1>1
        <5> QED
          BY <1>1, <5>1, SeqMonotonic
      <4>2. /\ write_queue_' \in Seq(1..(l + 1))
            /\ Len(write_queue_') = Len(write_queue_) + 1
            /\ \A x \in 1..Len(write_queue_) : write_queue_'[x] = write_queue_[x]
            /\ write_queue_'[Len(write_queue_) + 1] = l + 1
        BY <3>2, <4>1, AppendProperties
      <4>3. /\ DOMAIN write_queue_' = 1..(Len(write_queue_) + 1)
            /\ DOMAIN write_queue_ = 1..Len(write_queue_)
            /\ Len(write_queue_) \in Nat
        BY <4>1, <4>2, LenProperties
      <4> HIDE DEF sent, l
      <4>4. ASSUME NEW x \in DOMAIN write_queue_', NEW a \in DOMAIN sent
            PROVE  sent[a][1] < write_queue_'[x]
        <5>1. CASE x \in 1..Len(write_queue_)
          BY <1>2, <4>2, <4>3, <5>1 DEF Behind
        <5>2. CASE x = Len(write_queue_) + 1
          BY <1>1, <1>3, <4>2, <5>2
        <5> QED
          BY <4>3, <5>1, <5>2
      <4> QED
        BY <4>4 DEF Behind
    <3> QED
      BY <1>2, <1>4, <3>1, <3>3
  <2>5. CASE Holds(l + 1)
    <3>1. sent' = sent
      BY <2>2, <2>5 DEF Holds
    <3>2. write_queue_' \in {<<>>, <<l + 1>>}
      BY <2>5 DEF Holds
    <3>3. Behind(write_queue_', sent)
      <4> HIDE DEF sent, l
      <4> QED
        BY <1>1, <1>3, <3>2 DEF Behind
    <3> QED
      BY <1>2, <1>4, <3>1, <3>3
  <2>6. CASE Passes(l + 1)
    <3>1. PICK u \in Parts(l + 1) : to_client' = to_client \o u
      BY <2>6 DEF Passes
    <3> DEFINE E == (1..(l + 1)) \X {"head", "body"}
    <3>2. sent' = sent \o u
      <4>1. received \in Seq(E) /\ to_client \in Seq(E) /\ u \in Seq(E)
        <5>1. S \subseteq E
          BY <1>1
        <5>2. l + 1 \in 1..(l + 1)
          BY <1>1
        <5>3. u \in Seq(E)
          <6>1. <<l + 1, "head">> \in E /\ <<l + 1, "body">> \in E
            BY <5>2
          <6> HIDE DEF E
          <6>2. /\ <<<<l + 1, "head">>>> \in Seq(E)
                /\ <<<<l + 1, "head">>, <<l + 1, "body">>>> \in Seq(E)
            BY <6>1
          <6> QED
            BY <6>2 DEF Parts
        <5> HIDE DEF S, E
        <5> QED
          BY <1>1, <5>1, <5>3, SeqMonotonic
      <4>2. (received \o to_client) \o u = received \o (to_client \o u)
        <5> HIDE DEF E, sent, l, S
        <5> QED
          BY <4>1, ThreeParts
      <4> QED
        BY <2>2, <3>1, <4>2
    <3>3. InOrder(sent \o u)
      <4> HIDE DEF sent, l
      <4> QED
        BY <1>1, <1>2, <1>3, NextInOrder
    <3>4. Behind(write_queue_', sent')
      BY <2>6 DEF Passes, Behind
    <3> QED
      BY <1>4, <3>2, <3>3, <3>4
  <2> QED
    BY <1>5, <2>2, <2>3, <2>4, <2>5, <2>6
<1>7. CASE \E k \in DOMAIN to_client : ReceiveResponse(k)
  <2>1. PICK k \in DOMAIN to_client : ReceiveResponse(k)
    BY <1>7
  <2>2. sent' = sent
    BY <2>1, ReceiveTypes
  <2>3. write_queue_' = write_queue_
    BY <2>1 DEF ReceiveResponse, server
  <2> QED
    BY <1>2, <1>4, <2>2, <2>3
<1>8. CASE \E r \in Request : SendRequest(r)
  BY <1>5, <1>8 DEF SendRequest, server
<1>9. CASE HandleHangup \/ Disconnect \/ UNCHANGED vars
  BY <1>5, <1>9 DEF HandleHangup, Disconnect, vars, server
<1> QED
  BY <1>6, <1>7, <1>8, <1>9, StepIs

-----------------------------------------------------------------------------
(* Theorems.                                                               *)

\* Before anything is sent everything is empty.
LEMMA InitConnection == Init => ConnectionInv
<1> SUFFICES ASSUME Init PROVE ConnectionInv
  OBVIOUS
<1>1. \A S : <<>> \in Seq(S)
  OBVIOUS
<1>2. Len(<<>>) = 0 /\ DOMAIN <<>> = {} /\ <<>> \o <<>> = <<>>
  OBVIOUS
<1>3. 0 \in -MaxRequests..0
  OBVIOUS
<1>4. TypeOK
  <2>1. /\ Len(<<>>) <= MaxRequests /\ Len(<<>>) <= SendBuffer
        /\ NoKey \in -MaxRequests..0
    BY <1>2, <1>3 DEF NoKey
  <2> QED
    BY <1>1, <2>1 DEF Init, TypeOK
<1>5. AnswersRequests /\ ConnectsFirst /\ SessionMade /\ LoginRequired
  BY <1>2 DEF Init, AnswersRequests, ConnectsFirst, SessionMade, LoginRequired
<1>6. RepliesInOrder
  BY <1>2, OrderIs DEF Init, InOrder, Behind
<1> QED
  BY <1>4, <1>5, <1>6 DEF ConnectionInv

\* The inductive invariant holds in every state: of the session, its CONNECT
\* and login; of the replies, their places and where they went.
THEOREM ConnectionInvariant == Spec => []ConnectionInv
<1>1. ConnectionInv /\ [Next]_vars => ConnectionInv'
  BY TypeStep, AnswersStep, ConnectsStep, SessionStep, LoginStep, OrderStep
     DEF ConnectionInv
<1> QED
  BY InitConnection, <1>1, PTL DEF Spec

\* The server's session, queue and socket and the client's state keep their
\* types, and no more is in the socket than its buffer holds.
THEOREM ConnectionTypes == Spec => []TypeOK
<1>1. ConnectionInv => TypeOK
  BY DEF ConnectionInv
<1> QED
  BY ConnectionInvariant, <1>1, PTL

\* HandleQueryMessage gives a result only if the last CONNECT asked for no
\* login, or an AUTH with the right password followed it.
THEOREM ResultsNeedLogin == Spec => []LoginRequired
<1>1. ConnectionInv => LoginRequired
  BY DEF ConnectionInv
<1> QED
  BY ConnectionInvariant, <1>1, PTL

\* SendMessage sends the replies in the order in which they were made.
THEOREM RepliesKeepOrder == Spec => []RepliesInOrder
<1>1. ConnectionInv => RepliesInOrder
  BY DEF ConnectionInv
<1> QED
  BY ConnectionInvariant, <1>1, PTL

================================================================================
