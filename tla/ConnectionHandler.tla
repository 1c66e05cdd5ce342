-------------------------- MODULE ConnectionHandler --------------------------
(***************************************************************************)
(* src/network/network.cpp: one connection, with the handler at the        *)
(* server's end and a client that uses ClientNetworkManager at the other.  *)
(*                                                                         *)
(* Between them are two byte streams.  TCP delivers any prefix of what was *)
(* sent, so a recv may return a part of a message, or several.  A message  *)
(* has two units, head and body, or the head alone if its length is 0; a   *)
(* head is never split.  The code takes what one recv returns for one      *)
(* message.  A key is a number: the server's for the exchange that request *)
(* n asked for is n, and the client's, which it draws itself, is -n.       *)
(* TLS is left out, and so is the client's 4096 byte limit.                *)
(***************************************************************************)
EXTENDS Integers, Sequences
LOCAL INSTANCE SequencesExt

CONSTANTS SendBuffer,   \* units the kernel takes for a client that reads none
          NoSession,    \* session_ is null
          MaxRequests   \* bound: messages the client sends

ASSUME SendBufferAssumption == SendBuffer \in Nat \ {0}
ASSUME BoundAssumption == MaxRequests \in Nat

VARIABLES session_,      \* the connection's session
          closed_,
          write_queue_   \* replies, by their place in `replies`

VARIABLES to_server, to_client,  \* units on their way
          waits,                 \* the request the client waits for, or 0
          client_key,            \* key of the client's aes_encryptor_, or 0
          client_off             \* the client has closed its socket

VARIABLES requests,   \* history: the client's messages
          replies,    \* history: the server's messages
          received,   \* history: the units the client has received
          torn        \* history: a recv did not return one whole message, or
                      \* the kernel had no room for one

server == <<session_, closed_, write_queue_>>
client == <<waits, client_key, client_off>>
vars == <<server, to_server, to_client, client, requests, replies, received,
          torn>>

NoKey == 0

\* flags are those of CONNECT; good tells whether AUTH has the right password.
Request == [type : {"CONNECT"}, plain : BOOLEAN, noauth : BOOLEAN, key : Int]
           \cup [type : {"AUTH"}, good : BOOLEAN, key : Int]
           \cup [type : {"QUERY", "KEY_EXCHANGE"}, key : Int]
Reply == [to : 1..MaxRequests, ok : BOOLEAN, key : 0..MaxRequests,
          type : {"CONN_ACK", "AUTH_ACK", "QUERY_RESULT", "ERROR",
                  "KEY_EXCHANGE_ACK"}]
Session == [authenticated : BOOLEAN, noauth : BOOLEAN, plain : BOOLEAN,
            key : 0..MaxRequests]
ASSUME NoSessionAssumption == NoSession \notin Session

AES(s) == s # NoSession /\ s.key # NoKey /\ ~s.plain   \* IsAESEncryptionEnabled

\* A message without content has a body all the same once it is encrypted.
HasBody(m) == m.key # NoKey
              \/ m.type \notin {"CONNECT", "KEY_EXCHANGE", "CONN_ACK", "AUTH_ACK"}
Units(m, i) == IF HasBody(m) THEN <<<<i, "head">>, <<i, "body">>>>
               ELSE <<<<i, "head">>>>
From(s, k) == SubSeq(s, k + 1, Len(s))
UpTo(s, k) == IF k < Len(s) THEN SubSeq(s, 1, k) ELSE s

Init ==
    /\ session_ = NoSession /\ closed_ = FALSE /\ write_queue_ = <<>>
    /\ to_server = <<>> /\ to_client = <<>>
    /\ waits = 0 /\ client_key = NoKey /\ client_off = FALSE
    /\ requests = <<>> /\ replies = <<>> /\ received = <<>> /\ torn = FALSE

-----------------------------------------------------------------------------
(* Sending replies.                                                        *)

\* The message for reply m: encrypted if the session encrypts by now, except
\* for the one that tells the client so.
Encrypted(m) ==
    [m EXCEPT !.key = IF AES(session_') /\ m.type # "KEY_EXCHANGE_ACK"
                      THEN session_'.key ELSE NoKey]

\* Fault: the reply passes the queue, and a full socket is not noticed.
SendAtOnce(m) ==
    LET i == Len(replies) + 1
    IN  /\ replies' = Append(replies, Encrypted(m))
        /\ to_client' = to_client \o Units(Encrypted(m), i)
        /\ UNCHANGED <<write_queue_, closed_>>

\* Fault: the reply does not wait behind those in the queue.
SendPastQueue(m) ==
    LET i == Len(replies) + 1
        room == SendBuffer - Len(to_client)
    IN  /\ replies' = Append(replies, Encrypted(m))
        /\ to_client' = to_client \o UpTo(Units(Encrypted(m), i), room)
        /\ write_queue_' = IF room = 0 THEN Append(write_queue_, i)
                          ELSE write_queue_
        /\ UNCHANGED closed_

\* Fault: the reply is left to an event that says the socket is writable.
SendLater(m) ==
    /\ replies' = Append(replies, Encrypted(m))
    /\ write_queue_' = Append(write_queue_, Len(replies) + 1)
    /\ UNCHANGED <<to_client, closed_>>

\* SendMessage with HandleWrite.  Only a reply that finds the queue empty is
\* sent, as far as there is room: a part counts for the whole, and with no
\* room at all it stays queued, for an event that is never asked for.  To a
\* client that is gone the send succeeds in vain, or the connection ends.
SendMessage(m) ==
    LET i == Len(replies) + 1
        units == Units(Encrypted(m), i)
        room == SendBuffer - Len(to_client)
    IN  /\ replies' = Append(replies, Encrypted(m))
        /\ IF write_queue_ # <<>>
           THEN /\ write_queue_' = Append(write_queue_, i)
                /\ UNCHANGED <<to_client, closed_>>
           ELSE IF client_off
           THEN /\ closed_' \in BOOLEAN
                /\ write_queue_' = IF closed_' THEN <<i>> ELSE <<>>
                /\ UNCHANGED to_client
           ELSE /\ to_client' = to_client \o UpTo(units, room)
                /\ write_queue_' = IF room = 0 THEN <<i>> ELSE <<>>
                /\ UNCHANGED closed_

Answer(n, type, ok) ==
    SendMessage([to |-> n, type |-> type, ok |-> ok, key |-> NoKey])

Silently == UNCHANGED <<write_queue_, closed_, to_client, replies>>

-----------------------------------------------------------------------------
(* The messages, each processed from one recv.  `whole` tells whether that *)
(* recv had all of the message.                                            *)

\* Fault: a second CONNECT goes on with the session there is.
ConnectAgain(n) ==
    LET r == requests[n]
    IN  /\ session_' = IF session_ = NoSession
                       THEN [authenticated |-> r.noauth, noauth |-> r.noauth,
                             plain |-> r.plain, key |-> NoKey]
                       ELSE session_
        /\ Answer(n, "CONN_ACK", TRUE)

\* A new session every time, which the old one leaves no trace in.
HandleConnectMessage(n) ==
    LET r == requests[n]
    IN  /\ session_' = [authenticated |-> r.noauth, noauth |-> r.noauth,
                        plain |-> r.plain, key |-> NoKey]
        /\ Answer(n, "CONN_ACK", TRUE)

\* A body that is not all there, or not readable, has the wrong length and
\* is dropped without an answer.  Wrong credentials do not end a login.
HandleAuthMessage(n, whole, readable) ==
    IF ~whole \/ ~readable
    THEN Silently /\ UNCHANGED session_
    ELSE LET good == requests[n].good
         IN  /\ session_' = [session_ EXCEPT !.authenticated = @ \/ good]
             /\ Answer(n, "AUTH_ACK", good)

\* The result echoes the query, as it was read.
HandleQueryMessage(n, whole, readable) ==
    /\ UNCHANGED session_
    /\ IF session_ = NoSession
       THEN Answer(n, "ERROR", FALSE)
       ELSE IF ~session_.noauth /\ ~session_.authenticated
       THEN Answer(n, "ERROR", FALSE)
       ELSE IF ~whole
       THEN Answer(n, "ERROR", FALSE)
       ELSE Answer(n, "QUERY_RESULT", readable)

\* The answer has the initialization vector and not the key.
HandleKeyExchangeMessage(n) ==
    IF session_ = NoSession
    THEN UNCHANGED session_ /\ Answer(n, "ERROR", FALSE)
    ELSE /\ session_' = [session_ EXCEPT !.key = n]
         /\ Answer(n, "KEY_EXCHANGE_ACK", TRUE)

\* What begins with a body has no magic number.  With encryption on, what was
\* encrypted under another key, or is not complete, fails the HMAC.
ProcessMessage(chunk) ==
    LET n == chunk[1][1]
        r == requests[n]
        whole == IsPrefix(Units(r, n), chunk)
        readable == r.key \in {NoKey, IF AES(session_) THEN session_.key ELSE NoKey}
    IN  IF chunk[1][2] = "body"
        THEN Silently /\ UNCHANGED session_
        ELSE IF /\ AES(session_) /\ r.type # "KEY_EXCHANGE" /\ r.key # NoKey
                /\ ~(whole /\ readable)
        THEN UNCHANGED session_ /\ Answer(n, "ERROR", FALSE)
        ELSE \/ r.type = "CONNECT" /\ HandleConnectMessage(n)
             \/ r.type = "AUTH" /\ HandleAuthMessage(n, whole, readable)
             \/ r.type = "QUERY" /\ HandleQueryMessage(n, whole, readable)
             \/ r.type = "KEY_EXCHANGE" /\ HandleKeyExchangeMessage(n)

\* A read event: k units have arrived.
HandleRead(k) ==
    LET chunk == UpTo(to_server, k)
        n == chunk[1][1]
    IN  /\ ~closed_
        /\ to_server' = From(to_server, k)
        /\ ProcessMessage(chunk)
        /\ torn' = \/ torn
                   \/ chunk # Units(requests[n], n)
                   \/ /\ replies' # replies
                      /\ Len(Units(Last(replies'), 0)) > SendBuffer - Len(to_client)
        /\ UNCHANGED <<client, requests, received>>

\* The end of the client's stream, or the error its closing may cause first.
HandleHangup ==
    /\ client_off /\ ~closed_
    /\ closed_' = TRUE
    /\ UNCHANGED <<session_, write_queue_, to_server, to_client, client,
                   requests, replies, received, torn>>

-----------------------------------------------------------------------------
(* The client.                                                             *)

\* SendRequest.  The first message is CONNECT, and the client programs wait
\* for the answer to anything but a query before they send more.
SendRequest(r) ==
    LET n == Len(requests) + 1
    IN  /\ ~client_off /\ waits = 0
        /\ n <= MaxRequests
        /\ n = 1 => r.type = "CONNECT"
        /\ requests' = Append(requests, r)
        /\ to_server' = to_server \o Units(r, n)
        /\ waits' = IF r.type = "QUERY" THEN 0 ELSE n
        /\ UNCHANGED <<server, to_client, client_key, client_off, replies,
                       received, torn>>

\* Whether the head of reply m is what a client waiting for r goes on with.
Expected(r, m) ==
    \/ r.type = "CONNECT" /\ m.type = "CONN_ACK"
    \/ r.type = "AUTH" /\ m.type = "AUTH_ACK" /\ m.ok
    \/ r.type = "KEY_EXCHANGE" /\ m.type = "KEY_EXCHANGE_ACK"

\* ReceiveResponse takes what there is for one message, and a client that
\* waits for another one gives up.  After a key exchange the client encrypts
\* with a key of its own, the server's it has not been told.
ReceiveResponse(k) ==
    LET unit == to_client[1]
        goes_on == \/ waits = 0
                   \/ unit[2] = "head" /\ Expected(requests[waits], replies[unit[1]])
        exchanged == waits # 0 /\ goes_on /\ requests[waits].type = "KEY_EXCHANGE"
    IN  /\ ~client_off
        /\ received' = received \o UpTo(to_client, k)
        /\ to_client' = From(to_client, k)
        /\ waits' = 0
        /\ client_key' = IF exchanged THEN -waits ELSE client_key
        /\ client_off' = ~goes_on
        /\ torn' = (torn \/ UpTo(to_client, k)
                            # Units(replies[unit[1]], unit[1]))
        /\ UNCHANGED <<server, to_server, requests, replies>>

Disconnect ==
    /\ ~client_off /\ waits = 0
    /\ client_off' = TRUE
    /\ UNCHANGED <<server, to_server, to_client, waits, client_key, requests,
                   replies, received, torn>>

Asks ==
    \/ \E plain, noauth \in BOOLEAN :
           SendRequest([type |-> "CONNECT", plain |-> plain, noauth |-> noauth,
                        key |-> client_key])
    \/ \E good \in BOOLEAN :
           SendRequest([type |-> "AUTH", good |-> good, key |-> client_key])
    \/ \E type \in {"QUERY", "KEY_EXCHANGE"} :
           SendRequest([type |-> type, key |-> client_key])

Reads == \E k \in DOMAIN to_server : HandleRead(k)
Receives == \E k \in DOMAIN to_client : ReceiveResponse(k)

Next == Asks \/ Reads \/ HandleHangup \/ Receives \/ Disconnect

\* The server's loop serves every readable socket, and the client reads.
Spec == Init /\ [][Next]_vars /\ WF_vars(Reads) /\ WF_vars(Receives)

-----------------------------------------------------------------------------
(* Properties.                                                             *)

\* Every variable has its type.  The replies on their way fit in the kernel's
\* buffer: a sender that finds it full keeps the reply.
TypeOK ==
    /\ session_ \in Session \cup {NoSession}
    /\ closed_ \in BOOLEAN /\ client_off \in BOOLEAN /\ torn \in BOOLEAN
    /\ write_queue_ \in Seq(DOMAIN replies)
    /\ requests \in Seq(Request) /\ Len(requests) <= MaxRequests
    /\ replies \in Seq(Reply)
    /\ to_server \in Seq((DOMAIN requests) \X {"head", "body"})
    /\ to_client \in Seq((DOMAIN replies) \X {"head", "body"})
    /\ received \in Seq((DOMAIN replies) \X {"head", "body"})
    /\ Len(to_client) <= SendBuffer
    /\ waits \in {0} \cup DOMAIN requests /\ client_key \in -MaxRequests..0

\* Replies reach the client in the order in which the requests were processed,
\* none of their parts twice, and none overtakes one that SendMessage left in
\* the queue, which the handler's later replies must not pass.
RepliesInOrder ==
    LET sent == received \o to_client
    IN  /\ \A a, b \in DOMAIN sent : a < b =>
               \/ sent[a][1] < sent[b][1]
               \/ sent[a][1] = sent[b][1] /\ sent[a][2] = "head" /\ sent[b][2] = "body"
        /\ \A q \in ToSet(write_queue_), a \in DOMAIN sent : sent[a][1] < q

\* A query is answered with a result only if since the CONNECT that made its
\* session there was a login with the right password, or that CONNECT asked for
\* none: HandleQueryMessage's check must not see an earlier session's login.
LoginRequired ==
    \A i \in DOMAIN replies : replies[i].type = "QUERY_RESULT" =>
        \E c \in 1..(i - 1) :
            /\ replies[c].type = "CONN_ACK"
            /\ \A j \in c+1..i : replies[j].type # "CONN_ACK"
            /\ \/ requests[replies[c].to].noauth
               \/ \E j \in c+1..i : replies[j].type = "AUTH_ACK" /\ replies[j].ok

\* Where no message is torn, every request sent in the clear is answered and
\* the whole answer arrives, as long as the client stays: SendMessage must not
\* leave a reply for an EPOLLOUT event that ProcessEvents never asks for.
Answered(n) ==
    \E i \in DOMAIN replies :
        replies[i].to = n /\ ToSet(Units(replies[i], i)) \subseteq ToSet(received)
EveryRequestAnswered ==
    \A n \in 1..MaxRequests :
        (n \in DOMAIN requests /\ requests[n].key = NoKey)
            ~> (Answered(n) \/ torn \/ client_off)
=============================================================================
