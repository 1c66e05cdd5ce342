------------------------- MODULE ServerNetworkManager -------------------------
(***************************************************************************)
(* src/network/network.cpp: ServerNetworkManager, its loop over epoll as   *)
(* sqlcc_server/server_main.cpp runs it, and the SessionManager that all   *)
(* connections share.  What one connection does with its messages is the   *)
(* module ConnectionHandler; here a message only makes or changes a        *)
(* session.                                                                *)
(*                                                                         *)
(* One thread runs the loop.  Stop is called by the signal handler, so it  *)
(* comes between any two of the loop's system calls.  Start may follow     *)
(* once the loop is between two calls of ProcessEvents.                    *)
(*                                                                         *)
(* A connection is made once, so it names its handler as well.  nullptr is *)
(* the pointer that epoll has for the listening socket, and no pointer.    *)
(***************************************************************************)
EXTENDS Integers, FiniteSets, SequencesExt

CONSTANTS Clients, nullptr,
          MaxFd,        \* the process may have the descriptors 0..MaxFd
          MaxEvents,    \* events that one epoll_wait returns (64)
          MaxMessages,  \* bound: messages of one client
          MaxStarts     \* bound: calls of Start

ASSUME NullAssumption == nullptr \notin Clients
ASSUME ClientsAssumption == Clients \cap {"free", "listen", "epoll"} = {}
ASSUME MaxFdAssumption == MaxFd \in Nat
ASSUME MaxEventsAssumption == MaxEvents \in Nat \ {0}
ASSUME BoundsAssumption == MaxMessages \in Nat /\ MaxStarts \in Nat

VARIABLES running_, listen_fd_, epoll_fd_, tls_enabled_,
          connections_,      \* by descriptor, nullptr where there is none
          handler,           \* each client's ConnectionHandler, while it exists
          sessions_,         \* whose session an id was given to
          next_session_id_,
          authenticated      \* clients whose present session is logged in

VARIABLES at,       \* where the loop is: idle, events, and in the course of
                    \* AcceptConnection handshake, register, insert
          batch     \* the events that epoll_wait returned, not yet handled

VARIABLES files,    \* what each descriptor is
          backlog,  \* connections that wait for accept
          interest, \* pointers epoll watches; the longest unserved first
          peer,     \* the other end: new, up, left
          inbox     \* the message that waits in each connection's socket

VARIABLES proven,   \* history: clients that need no login, or have logged in
          watched,  \* history: the call of Start whose epoll was given each
                    \* client's handler, 0 where there is no such handler
          sent, starts   \* counters that MaxMessages and MaxStarts bound

server == <<running_, listen_fd_, epoll_fd_, tls_enabled_>>
sessions == <<sessions_, next_session_id_, authenticated, proven>>
loop == <<at, batch>>
vars == <<server, connections_, handler, sessions, loop, files, backlog,
          interest, peer, inbox, watched, sent, starts>>

Fds == 0..MaxFd
NoHandler == [fd |-> -1, session |-> 0]
Messages == {"CONNECT", "CONNECT_NOAUTH", "AUTH", "AUTH_WRONG"}
Free == {fd \in Fds : files[fd] = "free"}
\* The descriptor that the system gives out next, of the set S.
Lowest(fd, S) == fd \in S /\ \A x \in S : fd <= x

Init ==
    /\ running_ = FALSE /\ listen_fd_ = -1 /\ epoll_fd_ = -1
    /\ tls_enabled_ \in BOOLEAN
    /\ connections_ = [fd \in Fds |-> nullptr]
    /\ handler = [c \in Clients |-> NoHandler]
    /\ sessions_ = <<>> /\ next_session_id_ = 1 /\ authenticated = {}
    /\ at = "idle" /\ batch = <<>>
    /\ files = [fd \in Fds |-> "free"]
    /\ backlog = <<>> /\ interest = <<>>
    /\ peer = [c \in Clients |-> "new"]
    /\ inbox = [c \in Clients |-> "none"]
    /\ proven = {} /\ watched = [c \in Clients |-> 0]
    /\ sent = [c \in Clients |-> 0] /\ starts = 0

-----------------------------------------------------------------------------
(* Starting and stopping.                                                  *)

\* Where a call of Start fails it closes what it opened, and nothing changes.
Start ==
    /\ at = "idle" /\ ~running_ /\ starts < MaxStarts
    /\ \E l, e \in Fds :
           /\ Lowest(l, Free) /\ Lowest(e, Free \ {l})
           /\ listen_fd_' = l /\ epoll_fd_' = e
           /\ files' = [files EXCEPT ![l] = "listen", ![e] = "epoll"]
    /\ interest' = <<nullptr>>
    /\ running_' = TRUE
    /\ starts' = starts + 1
    /\ UNCHANGED <<tls_enabled_, connections_, handler, sessions, loop, backlog,
                   peer, inbox, watched, sent>>

\* Closes the two descriptors and not the connections.  With the listening
\* socket go the connections that nobody has accepted.
Stop ==
    /\ running_
    /\ running_' = FALSE /\ listen_fd_' = -1 /\ epoll_fd_' = -1
    /\ files' = [files EXCEPT ![listen_fd_] = "free", ![epoll_fd_] = "free"]
    /\ interest' = <<>> /\ backlog' = <<>>
    /\ peer' = [c \in Clients |->
                    IF c \in ToSet(backlog) THEN "left" ELSE peer[c]]
    /\ UNCHANGED <<tls_enabled_, connections_, handler, sessions, loop, inbox,
                   watched, sent, starts>>

-----------------------------------------------------------------------------
(* The loop.                                                               *)

Proceed ==
    /\ batch' = Tail(batch)
    /\ at' = IF Len(batch) = 1 THEN "idle" ELSE "events"

Readable(p) == IF p = nullptr THEN backlog # <<>>
               ELSE inbox[p] # "none" \/ peer[p] = "left"

\* epoll_wait: of the pointers that are ready it returns the first ones, at
\* most MaxEvents, and puts them at the end of its list; otherwise the list
\* keeps its order.  n is how many it returns, and f[i] the place that the
\* pointer at place i of the list had before.
Serves(n, f) ==
    LET all == DOMAIN interest
        returned == (Len(interest) - n + 1)..Len(interest)
        taken == {f[i] : i \in returned}
        ready == {i \in all : Readable(interest[i])}
    IN  /\ \A i, j \in all :
               i < j /\ (i \in returned <=> j \in returned) => f[i] < f[j]
        /\ taken \subseteq ready
        /\ \A i \in ready \ taken : n = MaxEvents /\ \A j \in taken : j < i

\* ProcessEvents up to its loop.  epoll is level-triggered: a pointer that is
\* not served comes again.
ProcessEvents ==
    /\ at = "idle" /\ running_
    /\ \E n \in 1..Len(interest), f \in Bijection(DOMAIN interest, DOMAIN interest) :
           /\ n <= MaxEvents /\ Serves(n, f)
           /\ interest' = [i \in DOMAIN interest |-> interest[f[i]]]
           /\ batch' = SubSeq(interest', Len(interest) - n + 1, Len(interest))
    /\ at' = "events"
    /\ UNCHANGED <<server, connections_, handler, sessions, files, backlog, peer,
                   inbox, watched, sent, starts>>

\* accept4 fails after Stop, and when the process has no descriptor left.
AcceptFails ==
    /\ at = "events" /\ Head(batch) = nullptr
    /\ listen_fd_ = -1 \/ backlog = <<>> \/ Free = {}
    /\ Proceed
    /\ UNCHANGED <<server, connections_, handler, sessions, files, backlog,
                   interest, peer, inbox, watched, sent, starts>>

\* AcceptConnection up to the handshake or epoll_ctl; the new handler is the
\* one whose connection is at the head of the backlog.
AcceptConnection ==
    /\ at = "events" /\ Head(batch) = nullptr
    /\ listen_fd_ # -1 /\ backlog # <<>>
    /\ LET c == Head(backlog)
       IN  \E fd \in Fds :
               /\ Lowest(fd, Free)
               /\ files' = [files EXCEPT ![fd] = c]
               /\ handler' = [handler EXCEPT ![c] = [fd |-> fd, session |-> 0]]
    /\ backlog' = Tail(backlog)
    /\ at' = IF tls_enabled_ THEN "handshake" ELSE "register"
    /\ UNCHANGED <<server, connections_, sessions, batch, interest, peer, inbox,
                   watched, sent, starts>>

\* The handler being accepted: the one that is not in the map yet.
Accepted(c) ==
    /\ at \in {"handshake", "register", "insert"}
    /\ handler[c].fd \in Fds /\ connections_[handler[c].fd] # c

\* delete handler, and close of its descriptor.
Discard(c) ==
    /\ handler' = [handler EXCEPT ![c] = NoHandler]
    /\ files' = [files EXCEPT ![handler[c].fd] = "free"]
    /\ watched' = [watched EXCEPT ![c] = 0]

\* SSL_accept, on a socket that blocks: the whole loop waits for this client.
Handshake(c) ==
    /\ at = "handshake" /\ Accepted(c)
    /\ \/ /\ peer[c] = "up"
          /\ at' = "register"
          /\ UNCHANGED <<handler, files, watched, batch, peer>>
       \/ /\ Discard(c)
          /\ peer' = [peer EXCEPT ![c] = "left"]
          /\ Proceed
    /\ UNCHANGED <<server, connections_, sessions, backlog, interest, inbox,
                   sent, starts>>

\* epoll_ctl is given the handler.
Watch(c) ==
    /\ interest' = Append(interest, c)
    /\ watched' = [watched EXCEPT ![c] = starts]

\* connections_[client_fd] = handler.
Keep(c) == connections_' = [connections_ EXCEPT ![handler[c].fd] = c]

\* Fault: the handler is put into the map before epoll_ctl is asked.
RegisterFirst(c) ==
    /\ at = "register" /\ Accepted(c)
    /\ Keep(c)
    /\ IF epoll_fd_ = -1 THEN UNCHANGED <<interest, watched>> ELSE Watch(c)
    /\ Proceed
    /\ UNCHANGED <<server, handler, sessions, files, backlog, peer, inbox, sent,
                   starts>>

\* epoll_ctl, which fails if Stop came in between.
Register(c) ==
    /\ at = "register" /\ Accepted(c)
    /\ \/ /\ epoll_fd_ = -1
          /\ Discard(c)
          /\ peer' = [peer EXCEPT ![c] = "left"]
          /\ Proceed
          /\ UNCHANGED interest
       \/ /\ epoll_fd_ # -1
          /\ Watch(c)
          /\ at' = "insert"
          /\ UNCHANGED <<handler, files, batch, peer>>
    /\ UNCHANGED <<server, connections_, sessions, backlog, inbox, sent, starts>>

\* The end of AcceptConnection, even if Stop came after epoll_ctl.
Insert(c) ==
    /\ at = "insert" /\ Accepted(c)
    /\ Keep(c)
    /\ Proceed
    /\ UNCHANGED <<server, handler, sessions, files, backlog, interest, peer, inbox,
                   watched, sent, starts>>

-----------------------------------------------------------------------------
(* Sessions.                                                               *)

\* Fault: ids are given again once their sessions are gone.
CreateFromCount(c) ==
    LET live == {d \in Clients \ {c} : handler[d].session # 0}
        id == Cardinality(live) + 1
    IN  /\ sessions_' = [i \in DOMAIN sessions_ \cup {id} |->
                             IF i = id THEN c ELSE sessions_[i]]
        /\ next_session_id_' = next_session_id_ + 1
        /\ handler' = [handler EXCEPT ![c].session = id]

\* No entry of sessions_ is ever erased; it holds its session only weakly.
CreateSession(c) ==
    /\ sessions_' = Append(sessions_, c)
    /\ next_session_id_' = next_session_id_ + 1
    /\ handler' = [handler EXCEPT ![c].session = next_session_id_]

\* GetSession, with the client in the place of the session it holds.
GetSession(id) ==
    {c \in Clients : sessions_[id] = c /\ handler[c].session = id}

\* ProcessMessage for client c, in what it does to sessions.
ProcessMessage(c, m) ==
    \/ /\ m \in {"CONNECT", "CONNECT_NOAUTH"}
       /\ CreateSession(c)
       /\ LET open == IF m = "CONNECT_NOAUTH" THEN {c} ELSE {}
          IN  /\ authenticated' = (authenticated \ {c}) \cup open
              /\ proven' = (proven \ {c}) \cup open
    \/ /\ m = "AUTH"
       /\ authenticated' = authenticated \cup GetSession(handler[c].session)
       /\ proven' = proven \cup {c}
       /\ UNCHANGED <<sessions_, next_session_id_, handler>>
    \/ /\ m = "AUTH_WRONG"
       /\ UNCHANGED <<sessions, handler>>

\* A recv that has a message, after which the connection is still open.
HandleMessage(c) ==
    /\ at = "events" /\ Head(batch) = c
    /\ inbox[c] # "none"
    /\ ProcessMessage(c, inbox[c])
    /\ inbox' = [inbox EXCEPT ![c] = "none"]
    /\ Proceed
    /\ UNCHANGED <<server, connections_, files, backlog, interest, peer, watched,
                   sent, starts>>

\* Fault: connections that are found dead on the way are deleted as well.
SweepDead(c) ==
    LET dead == {d \in Clients : /\ handler[d] # NoHandler
                                 /\ connections_[handler[d].fd] = d
                                 /\ peer[d] = "left"}
    IN  /\ handler' = [d \in Clients |-> IF d \in dead THEN NoHandler ELSE handler[d]]
        /\ watched' = [d \in Clients |-> IF d \in dead THEN 0 ELSE watched[d]]
        /\ files' = [fd \in Fds |-> IF files[fd] \in dead THEN "free" ELSE files[fd]]
        /\ connections_' = [fd \in Fds |-> IF connections_[fd] \in dead
                                           THEN nullptr ELSE connections_[fd]]
        /\ interest' = SelectSeq(interest, LAMBDA p : p \notin dead)

\* Fault: the handler is closed and stays.
CloseOnly(c) ==
    /\ files' = [files EXCEPT ![handler[c].fd] = "free"]
    /\ interest' = RemoveFirst(interest, c)
    /\ UNCHANGED <<connections_, handler, watched>>

\* Fault: the handler is deleted and its entry in the map stays.
DeleteOnly(c) ==
    /\ Discard(c)
    /\ interest' = RemoveFirst(interest, c)
    /\ UNCHANGED connections_

\* Close, which takes the descriptor from epoll, then erase and delete.
RemoveHandler(c) ==
    /\ Discard(c)
    /\ interest' = RemoveFirst(interest, c)
    /\ connections_' = [connections_ EXCEPT ![handler[c].fd] = nullptr]

\* The event of a connection whose client has left: recv returns 0 or an
\* error, or the reply to its last message fails.  A session that this message
\* made goes with the handler.
HandleHangup(c) ==
    /\ at = "events" /\ Head(batch) = c
    /\ peer[c] = "left"
    /\ RemoveHandler(c)
    /\ Proceed
    /\ sessions_' \in {sessions_} \cup
           (IF inbox[c] \in {"CONNECT", "CONNECT_NOAUTH"}
            THEN {Append(sessions_, c)} ELSE {})
    /\ next_session_id_' = Len(sessions_') + 1
    /\ authenticated' = authenticated \ {c} /\ proven' = proven \ {c}
    /\ inbox' = [inbox EXCEPT ![c] = "none"]
    /\ UNCHANGED <<server, backlog, peer, sent, starts>>

-----------------------------------------------------------------------------
(* The clients.                                                            *)

Connect(c) ==
    /\ peer[c] = "new" /\ running_
    /\ peer' = [peer EXCEPT ![c] = "up"]
    /\ backlog' = Append(backlog, c)
    /\ UNCHANGED <<server, connections_, handler, sessions, loop, files,
                   interest, inbox, watched, sent, starts>>

\* The first message is CONNECT, as in client_main.cpp.
Send(c, m) ==
    /\ peer[c] = "up" /\ inbox[c] = "none"
    /\ sent[c] < MaxMessages
    /\ sent[c] = 0 => m \in {"CONNECT", "CONNECT_NOAUTH"}
    /\ inbox' = [inbox EXCEPT ![c] = m]
    /\ sent' = [sent EXCEPT ![c] = @ + 1]
    /\ UNCHANGED <<server, connections_, handler, sessions, loop, files, backlog,
                   interest, peer, watched, starts>>

Leave(c) ==
    /\ peer[c] = "up"
    /\ peer' = [peer EXCEPT ![c] = "left"]
    /\ UNCHANGED <<server, connections_, handler, sessions, loop, files, backlog,
                   interest, inbox, watched, sent, starts>>

\* What the loop does without waiting for a client.
Loop ==
    \/ ProcessEvents \/ AcceptFails \/ AcceptConnection
    \/ \E c \in Clients :
           Register(c) \/ Insert(c) \/ HandleMessage(c) \/ HandleHangup(c)

Next ==
    \/ Start \/ Stop \/ Loop
    \/ \E c \in Clients :
           \/ Handshake(c) \/ Connect(c) \/ Leave(c)
           \/ \E m \in Messages : Send(c, m)

\* The loop never ends, so its next step comes unless it waits in a handshake.
Spec == Init /\ [][Next]_vars /\ WF_vars(Loop)

-----------------------------------------------------------------------------
(* Properties.                                                             *)

TypeOK ==
    /\ running_ \in BOOLEAN /\ tls_enabled_ \in BOOLEAN
    /\ {listen_fd_, epoll_fd_} \subseteq Fds \cup {-1}
    /\ connections_ \in [Fds -> Clients \cup {nullptr}]
    /\ handler \in [Clients -> [fd : Fds \cup {-1}, session : Nat]]
    /\ sessions_ \in Seq(Clients) /\ next_session_id_ = Len(sessions_) + 1
    /\ authenticated \subseteq Clients /\ proven \subseteq Clients
    /\ at \in {"idle", "events", "handshake", "register", "insert"}
    /\ batch \in Seq(Clients \cup {nullptr}) /\ (batch = <<>> <=> at = "idle")
    /\ DOMAIN files = Fds
    /\ \A fd \in Fds : files[fd] \in {"free", "listen", "epoll"} \/ files[fd] \in Clients
    /\ backlog \in Seq(Clients) /\ interest \in Seq(Clients \cup {nullptr})
    /\ peer \in [Clients -> {"new", "up", "left"}]
    /\ inbox \in [Clients -> Messages \cup {"none"}]
    /\ watched \in [Clients -> 0..MaxStarts]
    /\ sent \in [Clients -> 0..MaxMessages] /\ starts \in 0..MaxStarts

\* ProcessEvents casts every pointer of a batch, and epoll keeps others: each
\* of them must be to a handler that has not been deleted, and none comes
\* twice in a batch, or its second event would find the handler deleted.
PointersLive ==
    /\ \A p \in ToSet(batch) \cup ToSet(interest) :
           p = nullptr \/ handler[p] # NoHandler
    /\ IsInjective(batch) /\ IsInjective(interest)

\* Descriptors are reused as soon as they are closed: still, connections_ has
\* exactly the open connections, each under its own descriptor, and a handler
\* that is not in the map is just being accepted.  So no connection's close or
\* erase hits another one.
DescriptorsAgree ==
    /\ \A fd \in Fds, c \in Clients :
           /\ files[fd] = c <=> handler[c].fd = fd
           /\ connections_[fd] = c => files[fd] = c
           /\ files[fd] = c /\ connections_[fd] # c => Accepted(c)
    /\ \A fd \in Fds : /\ files[fd] = "listen" <=> fd = listen_fd_
                       /\ files[fd] = "epoll" <=> fd = epoll_fd_

\* A session is logged in exactly if its own client gave the right password
\* since its last CONNECT, or asked for no login: SessionManager finds sessions
\* by number, and never lets a client log another one in.
LoginIsOwn == authenticated = proven

\* Wherever Stop cuts into AcceptConnection, and however often the server is
\* started again: every connection in the map was once given to epoll, and is
\* read from exactly as long as the server that accepted it runs.  None is kept
\* unread by a running server but those that an earlier Stop has left behind.
ServedByItsServer ==
    \A fd \in Fds, c \in Clients : connections_[fd] = c =>
        /\ watched[c] # 0
        /\ c \in ToSet(interest) <=> running_ /\ watched[c] = starts

\* As long as the server runs and no client keeps it in a TLS handshake, each
\* waiting connection is accepted unless the descriptors run out, each message
\* is read, and a client that leaves gives its handler and descriptor back.
EveryoneServed ==
    []<>(at # "handshake") =>
        \A c \in Clients :
            /\ c \in ToSet(backlog) ~> c \notin ToSet(backlog) \/ Free = {}
            /\ c \in ToSet(interest) /\ inbox[c] # "none"
                   ~> inbox[c] = "none" \/ ~running_
            /\ c \in ToSet(interest) /\ peer[c] = "left"
                   ~> handler[c] = NoHandler \/ ~running_
=============================================================================
