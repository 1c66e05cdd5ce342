----------------------- MODULE ServerNetworkManagerProofs -----------------------
(***************************************************************************)
(* Theorems about ServerNetworkManager, for every set of clients and every *)
(* number of descriptors, events, messages and starts.                     *)
(***************************************************************************)
EXTENDS ServerNetworkManager, SequenceTheorems, TLAPS

Kinds == {"free", "listen", "epoll"}

\* The types of the variables that the descriptors depend on.
Types ==
    /\ running_ \in BOOLEAN
    /\ listen_fd_ \in Fds \cup {-1} /\ epoll_fd_ \in Fds \cup {-1}
    /\ connections_ \in [Fds -> Clients \cup {nullptr}]
    /\ handler \in [Clients -> [fd : Fds \cup {-1}, session : Nat]]
    /\ files \in [Fds -> Kinds \cup Clients]
    /\ backlog \in Seq(Clients)
    /\ peer \in [Clients -> {"new", "up", "left"}]
    /\ sessions_ \in Seq(Clients) /\ next_session_id_ \in Nat
    /\ at \in {"idle", "events", "handshake", "register", "insert"}

\* The server has its two descriptors exactly while it runs.
Running ==
    /\ running_ <=> listen_fd_ # -1
    /\ running_ <=> epoll_fd_ # -1

\* A client that has not connected, or waits to be accepted, has no descriptor,
\* and waits only once.
Waiting ==
    /\ \A c \in Clients : peer[c] = "new" => handler[c].fd = -1
    /\ \A i \in DOMAIN backlog : /\ handler[backlog[i]].fd = -1
                                 /\ peer[backlog[i]] # "new"
    /\ \A i, j \in DOMAIN backlog : backlog[i] = backlog[j] => i = j

\* Between accept and the map there is one connection at a time.
OneAccepted == \A c, d \in Clients : Accepted(c) /\ Accepted(d) => c = d

\* The inductive invariant.
DescriptorsInv == Types /\ Running /\ Waiting /\ OneAccepted /\ DescriptorsAgree

USE NullAssumption, ClientsAssumption, MaxFdAssumption

\* Before Start there is no descriptor and no connection.
LEMMA InitDescriptors == Init => DescriptorsInv
<1> SUFFICES ASSUME Init PROVE DescriptorsInv
    OBVIOUS
<1> USE DEF Init, Fds, NoHandler
<1>1. Types
  BY DEF Types, Kinds
<1>2. Running /\ Waiting
  BY DEF Running, Waiting
<1>3. OneAccepted /\ DescriptorsAgree
  BY DEF OneAccepted, Accepted, DescriptorsAgree
<1> QED
  BY <1>1, <1>2, <1>3 DEF DescriptorsInv

\* Deleting a handler keeps the types of what it changes.
LEMMA DiscardTypes ==
    ASSUME Types, NEW c \in Clients, Discard(c)
    PROVE  /\ handler' \in [Clients -> [fd : Fds \cup {-1}, session : Nat]]
           /\ files' \in [Fds -> Kinds \cup Clients]
<1>1. NoHandler \in [fd : Fds \cup {-1}, session : Nat]
  BY DEF NoHandler
<1>2. handler' \in [Clients -> [fd : Fds \cup {-1}, session : Nat]]
  BY <1>1 DEF Types, Discard
<1>3. files' \in [Fds -> Kinds \cup Clients]
  BY DEF Types, Discard, Kinds
<1> QED
  BY <1>2, <1>3

\* No action takes these variables out of their types.
LEMMA TypesStep == DescriptorsInv /\ [Next]_vars => Types'
<1> SUFFICES ASSUME DescriptorsInv, [Next]_vars PROVE Types'
    OBVIOUS
<1> USE DEF DescriptorsInv, Types, Kinds
<1>1. CASE Start
  BY <1>1 DEF Start, loop, sessions
<1>2. CASE Stop
  <2>1. files' \in [Fds -> Kinds \cup Clients]
    BY <1>2 DEF Stop
  <2>2. peer' \in [Clients -> {"new", "up", "left"}]
    BY <1>2 DEF Stop
  <2>3. backlog' \in Seq(Clients)
    BY <1>2 DEF Stop
  <2> QED
    BY <1>2, <2>1, <2>2, <2>3 DEF Stop, loop, sessions
<1>3. CASE ProcessEvents
  BY <1>3 DEF ProcessEvents, server, sessions
<1>4. CASE AcceptFails
  BY <1>4 DEF AcceptFails, Proceed, server, sessions
<1>5. CASE AcceptConnection
  BY <1>5 DEF AcceptConnection, server, sessions
<1>6. ASSUME NEW c \in Clients, Handshake(c) PROVE Types'
  <2>1. /\ handler' \in [Clients -> [fd : Fds \cup {-1}, session : Nat]]
        /\ files' \in [Fds -> Kinds \cup Clients]
    BY <1>6, DiscardTypes DEF Handshake
  <2>2. at' \in {"idle", "events", "handshake", "register", "insert"}
    BY <1>6 DEF Handshake, Proceed
  <2>3. peer' \in [Clients -> {"new", "up", "left"}]
    BY <1>6 DEF Handshake
  <2> QED
    BY <1>6, <2>1, <2>2, <2>3 DEF Handshake, server, sessions
<1>7. ASSUME NEW c \in Clients, Register(c) PROVE Types'
  <2>1. /\ handler' \in [Clients -> [fd : Fds \cup {-1}, session : Nat]]
        /\ files' \in [Fds -> Kinds \cup Clients]
    BY <1>7, DiscardTypes DEF Register
  <2>2. at' \in {"idle", "events", "handshake", "register", "insert"}
    BY <1>7 DEF Register, Proceed
  <2>3. peer' \in [Clients -> {"new", "up", "left"}]
    BY <1>7 DEF Register
  <2> QED
    BY <1>7, <2>1, <2>2, <2>3 DEF Register, server, sessions
<1>14. ASSUME NEW c \in Clients, Insert(c) PROVE Types'
  <2>1. connections_' \in [Fds -> Clients \cup {nullptr}]
    BY <1>14 DEF Insert, Keep
  <2>2. at' \in {"idle", "events", "handshake", "register", "insert"}
    BY <1>14 DEF Insert, Proceed
  <2> QED
    BY <1>14, <2>1, <2>2 DEF Insert, server, sessions
<1>8. ASSUME NEW c \in Clients, HandleMessage(c) PROVE Types'
  <2>1. /\ handler' \in [Clients -> [fd : Fds \cup {-1}, session : Nat]]
        /\ sessions_' \in Seq(Clients) /\ next_session_id_' \in Nat
    <3>1. CASE CreateSession(c)
      <4>1. [handler[c] EXCEPT !.session = next_session_id_]
                \in [fd : Fds \cup {-1}, session : Nat]
        OBVIOUS
      <4>2. handler' \in [Clients -> [fd : Fds \cup {-1}, session : Nat]]
        BY <3>1, <4>1 DEF CreateSession
      <4>3. Append(sessions_, c) \in Seq(Clients)
        OBVIOUS
      <4> QED
        BY <3>1, <4>2, <4>3 DEF CreateSession
    <3>2. CASE UNCHANGED <<sessions_, next_session_id_, handler>>
      BY <3>2
    <3>3. ProcessMessage(c, inbox[c])
      BY <1>8 DEF HandleMessage
    <3> QED
      BY <3>1, <3>2, <3>3 DEF ProcessMessage, sessions
  <2>2. at' \in {"idle", "events", "handshake", "register", "insert"}
    BY <1>8 DEF HandleMessage, Proceed
  <2> QED
    BY <1>8, <2>1, <2>2 DEF HandleMessage, server
<1>9. ASSUME NEW c \in Clients, HandleHangup(c) PROVE Types'
  <2>1. /\ handler' \in [Clients -> [fd : Fds \cup {-1}, session : Nat]]
        /\ files' \in [Fds -> Kinds \cup Clients]
    BY <1>9, DiscardTypes DEF HandleHangup, RemoveHandler
  <2>2. connections_' \in [Fds -> Clients \cup {nullptr}]
    BY <1>9 DEF HandleHangup, RemoveHandler
  <2>3. sessions_' \in Seq(Clients) /\ next_session_id_' \in Nat
    <3>1. sessions_' = sessions_ \/ sessions_' = Append(sessions_, c)
      BY <1>9 DEF HandleHangup
    <3>2. sessions_' \in Seq(Clients)
      <4>1. Append(sessions_, c) \in Seq(Clients)
        OBVIOUS
      <4> QED
        BY <3>1, <4>1
    <3>3. next_session_id_' = Len(sessions_') + 1
      BY <1>9 DEF HandleHangup
    <3> QED
      BY <3>2, <3>3
  <2>4. at' \in {"idle", "events", "handshake", "register", "insert"}
    BY <1>9 DEF HandleHangup, Proceed
  <2> QED
    BY <1>9, <2>1, <2>2, <2>3, <2>4 DEF HandleHangup, server
<1>10. ASSUME NEW c \in Clients, Connect(c) PROVE Types'
  BY <1>10 DEF Connect, server, sessions, loop
<1>11. ASSUME NEW c \in Clients, NEW m \in Messages, Send(c, m) PROVE Types'
  BY <1>11 DEF Send, server, sessions, loop
<1>12. ASSUME NEW c \in Clients, Leave(c) PROVE Types'
  BY <1>12 DEF Leave, server, sessions, loop
<1>13. CASE UNCHANGED vars
  BY <1>13 DEF vars, server, sessions, loop
<1> QED
  BY <1>1, <1>2, <1>3, <1>4, <1>5, <1>6, <1>7, <1>8, <1>9, <1>10, <1>11, <1>12,
     <1>13, <1>14 DEF Next, Loop

-----------------------------------------------------------------------------
\* Deleting the handler of c, when it is in no queue, leaves the descriptors of
\* the others as they are.
LEMMA DiscardStep ==
    ASSUME DescriptorsInv, NEW c \in Clients, Discard(c)
    PROVE  \A fd \in Fds, d \in Clients :
               /\ files'[fd] = d <=> files[fd] = d /\ d # c
               /\ handler'[d].fd = fd <=> handler[d].fd = fd /\ d # c
               /\ files'[fd] = "listen" <=> files[fd] = "listen"
               /\ files'[fd] = "epoll" <=> files[fd] = "epoll"
<1> USE DEF DescriptorsInv, Types, Kinds, DescriptorsAgree
<1>1. NoHandler.fd \notin Fds
  BY DEF NoHandler, Fds
<1> SUFFICES ASSUME NEW fd \in Fds, NEW d \in Clients
             PROVE  /\ files'[fd] = d <=> files[fd] = d /\ d # c
                    /\ handler'[d].fd = fd <=> handler[d].fd = fd /\ d # c
                    /\ files'[fd] = "listen" <=> files[fd] = "listen"
                    /\ files'[fd] = "epoll" <=> files[fd] = "epoll"
    OBVIOUS
<1>2. handler'[d].fd = fd <=> handler[d].fd = fd /\ d # c
  BY <1>1 DEF Discard
<1>3. CASE handler[c].fd = fd
  <2>1. files[fd] = c /\ files'[fd] = "free"
    BY <1>3 DEF Discard
  <2> QED
    BY <1>2, <2>1
<1>4. CASE handler[c].fd # fd
  <2>1. files[fd] # c /\ files'[fd] = files[fd]
    BY <1>4 DEF Discard
  <2> QED
    BY <1>2, <2>1
<1> QED
  BY <1>3, <1>4

Shape == Running /\ Waiting /\ OneAccepted /\ DescriptorsAgree

\* A step that changes neither descriptors nor queues, nor where the loop is.
LEMMA QuietStep ==
    ASSUME DescriptorsInv,
           UNCHANGED <<running_, listen_fd_, epoll_fd_, connections_, files,
                       backlog>>,
           \A c \in Clients : handler'[c].fd = handler[c].fd,
           \A c \in Clients : peer'[c] = "new" => peer[c] = "new",
           at' = at \/ {at, at'} \subseteq {"idle", "events"}
    PROVE  Shape'
<1> USE DEF DescriptorsInv, Types
<1>1. \A c \in Clients : Accepted(c)' => Accepted(c)
  BY DEF Accepted
<1>2. \A c \in Clients : Accepted(c) => Accepted(c)'
  BY DEF Accepted
<1>3. Running'
  BY DEF Running
<1>4. Waiting'
  BY DEF Waiting
<1>5. OneAccepted'
  BY <1>1 DEF OneAccepted
<1>6. DescriptorsAgree'
  BY <1>2 DEF DescriptorsAgree
<1> QED
  BY <1>3, <1>4, <1>5, <1>6 DEF Shape

\* Start takes two descriptors that are free.
LEMMA StartStep == DescriptorsInv /\ Start => Shape'
<1> SUFFICES ASSUME DescriptorsInv, Start PROVE Shape'
    OBVIOUS
<1> USE DEF DescriptorsInv, Types, Kinds
<1>1. PICK l \in Fds, e \in Fds :
          /\ l \in Free /\ e \in Free \ {l}
          /\ listen_fd_' = l /\ epoll_fd_' = e
          /\ files' = [files EXCEPT ![l] = "listen", ![e] = "epoll"]
  BY DEF Start, Lowest
<1>2. l # -1 /\ e # -1 /\ l # e /\ files[l] = "free" /\ files[e] = "free"
  BY <1>1 DEF Fds, Free
<1>3. listen_fd_ = -1 /\ epoll_fd_ = -1
  BY DEF Start, Running
<1>4. UNCHANGED <<connections_, handler, at, peer, backlog>> /\ running_'
  BY DEF Start, loop
<1>5. Running'
  BY <1>1, <1>2, <1>4 DEF Running
<1>6. Waiting'
  BY <1>4 DEF Waiting
<1>7. OneAccepted'
  BY <1>4 DEF OneAccepted, Accepted
<1>8. DescriptorsAgree'
  <2>1. \A fd \in Fds, c \in Clients : files'[fd] = c <=> files[fd] = c
    BY <1>1, <1>2
  <2>2. \A fd \in Fds : /\ files'[fd] = "listen" <=> fd = l
                        /\ files'[fd] = "epoll" <=> fd = e
    BY <1>1, <1>2, <1>3 DEF DescriptorsAgree, Fds
  <2> QED
    BY <1>1, <1>4, <2>1, <2>2 DEF DescriptorsAgree, Accepted
<1> QED
  BY <1>5, <1>6, <1>7, <1>8 DEF Shape

\* Stop gives its two descriptors back, and no others.
LEMMA StopStep == DescriptorsInv /\ Stop => Shape'
<1> SUFFICES ASSUME DescriptorsInv, Stop PROVE Shape'
    OBVIOUS
<1> USE DEF DescriptorsInv, Types, Kinds
<1>1. /\ UNCHANGED <<connections_, handler, at>> /\ ~running_'
      /\ listen_fd_' = -1 /\ epoll_fd_' = -1 /\ backlog' = <<>>
      /\ files' = [files EXCEPT ![listen_fd_] = "free", ![epoll_fd_] = "free"]
      /\ \A c \in Clients : peer'[c] = "new" => peer[c] = "new"
  BY DEF Stop, loop
<1>2. listen_fd_ \in Fds /\ epoll_fd_ \in Fds
  BY DEF Stop, Running
<1>3. files[listen_fd_] = "listen" /\ files[epoll_fd_] = "epoll"
  BY <1>2 DEF DescriptorsAgree
<1>4. Running'
  BY <1>1 DEF Running
<1>5. Waiting'
  BY <1>1 DEF Waiting
<1>6. OneAccepted'
  BY <1>1 DEF OneAccepted, Accepted
<1>7. DescriptorsAgree'
  <2>1. \A fd \in Fds, c \in Clients : files'[fd] = c <=> files[fd] = c
    BY <1>1, <1>2, <1>3
  <2>2. \A fd \in Fds : files'[fd] # "listen" /\ files'[fd] # "epoll"
    BY <1>1, <1>2 DEF DescriptorsAgree
  <2> QED
    BY <1>1, <2>1, <2>2 DEF DescriptorsAgree, Accepted, Fds
<1> QED
  BY <1>4, <1>5, <1>6, <1>7 DEF Shape

\* accept gives a free descriptor to a client that has none.
LEMMA AcceptStep == DescriptorsInv /\ AcceptConnection => Shape'
<1> SUFFICES ASSUME DescriptorsInv, AcceptConnection PROVE Shape'
    OBVIOUS
<1> USE DEF DescriptorsInv, Types, Kinds
<1> DEFINE c == Head(backlog)
<1>1. /\ backlog # <<>> /\ backlog' = Tail(backlog)
      /\ at = "events" /\ at' \in {"handshake", "register"}
      /\ UNCHANGED <<running_, listen_fd_, epoll_fd_, connections_, peer>>
  BY DEF AcceptConnection, server
<1>2. PICK f \in Fds :
          /\ f \in Free
          /\ files' = [files EXCEPT ![f] = c]
          /\ handler' = [handler EXCEPT ![c] = [fd |-> f, session |-> 0]]
  BY DEF AcceptConnection, Lowest
<1>3. c \in Clients /\ c = backlog[1] /\ 1 \in DOMAIN backlog
  BY <1>1
<1>4. handler[c].fd = -1 /\ peer[c] # "new" /\ files[f] = "free"
  BY <1>2, <1>3 DEF Waiting, Free
<1>5. /\ \A fd \in Fds : files[fd] # c
      /\ handler'[c].fd = f
      /\ \A d \in Clients \ {c} : handler'[d] = handler[d]
      /\ files'[f] = c
      /\ \A fd \in Fds \ {f} : files'[fd] = files[fd]
  BY <1>2, <1>3, <1>4 DEF DescriptorsAgree, Fds
<1>6. connections_[f] # c
  BY <1>2, <1>3, <1>5 DEF DescriptorsAgree
<1>7. \A d \in Clients : ~Accepted(d)
  BY <1>1 DEF Accepted
<1>8. \A d \in Clients \ {c}, fd \in Fds : files[fd] = d => connections_[fd] = d
  BY <1>7 DEF DescriptorsAgree
<1>9. \A d \in Clients : Accepted(d)' <=> d = c
  BY <1>1, <1>3, <1>5, <1>6, <1>8 DEF Accepted, DescriptorsAgree
<1>10. Running'
  BY <1>1 DEF Running
<1>11. Waiting'
  <2>1. \A i \in DOMAIN backlog' : /\ i + 1 \in DOMAIN backlog /\ i + 1 # 1
                                   /\ backlog'[i] = backlog[i + 1]
    BY <1>1
  <2>2. \A i \in DOMAIN backlog' : backlog'[i] \in Clients \ {c}
    BY <1>3, <2>1 DEF Waiting
  <2>3. \A i \in DOMAIN backlog' : /\ handler'[backlog'[i]].fd = -1
                                   /\ peer'[backlog'[i]] # "new"
    BY <1>1, <1>5, <2>1, <2>2 DEF Waiting
  <2>4. \A i, j \in DOMAIN backlog' : backlog'[i] = backlog'[j] => i = j
    <3> SUFFICES ASSUME NEW i \in DOMAIN backlog', NEW j \in DOMAIN backlog',
                        backlog'[i] = backlog'[j]
                 PROVE  i = j
        OBVIOUS
    <3>1. i + 1 = j + 1
      BY <2>1 DEF Waiting
    <3>2. i \in Int /\ j \in Int
      BY <1>1
    <3> QED
      BY <3>1, <3>2
  <2>5. ASSUME NEW d \in Clients, peer'[d] = "new" PROVE handler'[d].fd = -1
    <3>1. peer[d] = "new" /\ d # c
      BY <1>1, <1>4, <2>5
    <3>2. handler'[d] = handler[d]
      BY <1>5, <3>1
    <3> QED
      BY <3>1, <3>2 DEF Waiting
  <2> QED
    BY <2>3, <2>4, <2>5 DEF Waiting
<1>12. OneAccepted'
  BY <1>9 DEF OneAccepted
<1>13. DescriptorsAgree'
  <2>1. \A fd \in Fds, d \in Clients : files'[fd] = d <=> handler'[d].fd = fd
    BY <1>2, <1>3, <1>4, <1>5 DEF DescriptorsAgree
  <2>2. \A fd \in Fds, d \in Clients : connections_'[fd] = d => files'[fd] = d
    BY <1>1, <1>4, <1>5 DEF DescriptorsAgree
  <2>3. \A fd \in Fds, d \in Clients :
            files'[fd] = d /\ connections_'[fd] # d => Accepted(d)'
    BY <1>1, <1>3, <1>5, <1>8, <1>9
  <2>4. \A fd \in Fds : /\ files'[fd] = "listen" <=> fd = listen_fd_'
                        /\ files'[fd] = "epoll" <=> fd = epoll_fd_'
    BY <1>1, <1>3, <1>4, <1>5 DEF DescriptorsAgree
  <2> QED
    BY <2>1, <2>2, <2>3, <2>4 DEF DescriptorsAgree
<1> QED
  BY <1>10, <1>11, <1>12, <1>13 DEF Shape

\* The connection that was being accepted is given up.
LEMMA GiveUpStep ==
    ASSUME DescriptorsInv, NEW c \in Clients, Accepted(c), Discard(c),
           UNCHANGED <<running_, listen_fd_, epoll_fd_, connections_, backlog>>,
           peer' = [peer EXCEPT ![c] = "left"],
           at' \in {"idle", "events"}
    PROVE  Shape'
<1> USE DEF DescriptorsInv, Types
<1>1. \A d \in Clients \ {c} : handler'[d] = handler[d]
  BY DEF Discard
<1>2. handler'[c].fd = -1 /\ handler[c].fd \in Fds
  BY DEF Discard, NoHandler, Accepted
<1>3. \A d \in Clients \ {c} : ~Accepted(d)
  BY DEF OneAccepted
<1>4. \A d \in Clients : ~Accepted(d)'
  BY DEF Accepted
<1>5. Running'
  BY DEF Running
<1>6. Waiting'
  BY <1>1, <1>2 DEF Waiting
<1>7. OneAccepted'
  BY <1>4 DEF OneAccepted
<1>8. DescriptorsAgree'
  <2>1. \A fd \in Fds, d \in Clients : files'[fd] = d <=> handler'[d].fd = fd
    BY DiscardStep DEF DescriptorsAgree
  <2>2. \A fd \in Fds : connections_[fd] # c
    BY <1>2 DEF Accepted, DescriptorsAgree
  <2>3. \A fd \in Fds, d \in Clients : connections_'[fd] = d => files'[fd] = d
    BY <2>2, DiscardStep DEF DescriptorsAgree
  <2>4. \A fd \in Fds, d \in Clients : files'[fd] = d => connections_'[fd] = d
    BY <1>3, DiscardStep DEF DescriptorsAgree
  <2>5. \A fd \in Fds : /\ files'[fd] = "listen" <=> fd = listen_fd_'
                        /\ files'[fd] = "epoll" <=> fd = epoll_fd_'
    BY DiscardStep DEF DescriptorsAgree
  <2>6. \A fd \in Fds, d \in Clients :
            /\ files'[fd] = d <=> handler'[d].fd = fd
            /\ connections_'[fd] = d => files'[fd] = d
            /\ files'[fd] = d /\ connections_'[fd] # d => Accepted(d)'
    BY <2>1, <2>3, <2>4
  <2> QED
    BY <2>5, <2>6 DEF DescriptorsAgree
<1> QED
  BY <1>5, <1>6, <1>7, <1>8 DEF Shape

\* A handshake ends with the connection given up, or changes no descriptor.
LEMMA HandshakeStep ==
    ASSUME DescriptorsInv, NEW c \in Clients, Handshake(c) PROVE Shape'
<1>1. CASE Discard(c)
  <2>1. /\ Accepted(c)
        /\ UNCHANGED <<running_, listen_fd_, epoll_fd_, connections_, backlog>>
    BY DEF Handshake, server
  <2>2. handler' # handler
    BY <1>1, <2>1 DEF Discard, NoHandler, Accepted, DescriptorsInv, Types, Fds
  <2>3. peer' = [peer EXCEPT ![c] = "left"] /\ Proceed
    BY <2>2 DEF Handshake
  <2>4. at' \in {"idle", "events"}
    BY <2>3 DEF Proceed
  <2> QED
    BY <1>1, <2>1, <2>3, <2>4, GiveUpStep
<1>2. CASE at' = "register" /\ UNCHANGED <<handler, files, peer>>
  <2> USE DEF DescriptorsInv, Types
  <2>1. at = "handshake" /\ UNCHANGED <<running_, listen_fd_, epoll_fd_,
                                         connections_, backlog>>
    BY DEF Handshake, server
  <2>2. \A d \in Clients : Accepted(d)' <=> Accepted(d)
    BY <1>2, <2>1 DEF Accepted
  <2>3. Running' /\ Waiting'
    BY <1>2, <2>1 DEF Running, Waiting
  <2>4. OneAccepted'
    BY <2>2 DEF OneAccepted
  <2>5. DescriptorsAgree'
    BY <1>2, <2>1, <2>2 DEF DescriptorsAgree
  <2> QED
    BY <2>3, <2>4, <2>5 DEF Shape
<1> QED
  BY <1>1, <1>2 DEF Handshake

\* epoll_ctl fails and the connection is given up, or it changes no descriptor.
LEMMA RegisterStep ==
    ASSUME DescriptorsInv, NEW c \in Clients, Register(c) PROVE Shape'
<1>1. /\ Accepted(c) /\ at = "register"
      /\ UNCHANGED <<running_, listen_fd_, epoll_fd_, connections_, backlog>>
  BY DEF Register, server
<1>2. CASE /\ Discard(c) /\ peer' = [peer EXCEPT ![c] = "left"] /\ Proceed
  <2>1. at' \in {"idle", "events"}
    BY <1>2 DEF Proceed
  <2> QED
    BY <1>1, <1>2, <2>1, GiveUpStep
<1>3. CASE at' = "insert" /\ UNCHANGED <<handler, files, peer>>
  <2> USE DEF DescriptorsInv, Types
  <2>1. \A d \in Clients : Accepted(d)' <=> Accepted(d)
    BY <1>1, <1>3 DEF Accepted
  <2>2. Running' /\ Waiting'
    BY <1>1, <1>3 DEF Running, Waiting
  <2>3. OneAccepted'
    BY <2>1 DEF OneAccepted
  <2>4. DescriptorsAgree'
    BY <1>1, <1>3, <2>1 DEF DescriptorsAgree
  <2> QED
    BY <2>2, <2>3, <2>4 DEF Shape
<1> QED
  BY <1>2, <1>3 DEF Register

\* The accepted handler goes into the map under its own descriptor.
LEMMA InsertStep ==
    ASSUME DescriptorsInv, NEW c \in Clients, Insert(c) PROVE Shape'
<1> USE DEF DescriptorsInv, Types
<1>1. /\ Accepted(c) /\ at' \in {"idle", "events"}
      /\ connections_' = [connections_ EXCEPT ![handler[c].fd] = c]
      /\ UNCHANGED <<running_, listen_fd_, epoll_fd_, handler, files, backlog, peer>>
  BY DEF Insert, Keep, Proceed, server
<1>2. handler[c].fd \in Fds /\ files[handler[c].fd] = c
  BY <1>1 DEF Accepted, DescriptorsAgree
<1>3. \A d \in Clients : ~Accepted(d)'
  BY <1>1 DEF Accepted
<1>4. \A d \in Clients \ {c} : ~Accepted(d)
  BY <1>1 DEF OneAccepted
<1>5. Running' /\ Waiting'
  BY <1>1 DEF Running, Waiting
<1>6. OneAccepted'
  BY <1>3 DEF OneAccepted
<1>7. \A fd \in Fds, d \in Clients : connections_'[fd] = d => files'[fd] = d
  BY <1>1, <1>2 DEF DescriptorsAgree
<1>8. \A fd \in Fds, d \in Clients : files'[fd] = d => connections_'[fd] = d
  <2> SUFFICES ASSUME NEW fd \in Fds, NEW d \in Clients, files[fd] = d
               PROVE  connections_'[fd] = d
      BY <1>1
  <2>1. CASE d = c
    BY <2>1, <1>1, <1>2 DEF DescriptorsAgree
  <2>2. CASE d # c
    BY <2>2, <1>1, <1>2, <1>4 DEF DescriptorsAgree
  <2> QED
    BY <2>1, <2>2
<1>9. DescriptorsAgree'
  BY <1>1, <1>7, <1>8 DEF DescriptorsAgree
<1> QED
  BY <1>5, <1>6, <1>9 DEF Shape

\* What is closed, erased and deleted belongs to one client.
LEMMA HangupStep ==
    ASSUME DescriptorsInv, NEW c \in Clients, HandleHangup(c) PROVE Shape'
<1> USE DEF DescriptorsInv, Types
<1>1. /\ Discard(c) /\ at = "events" /\ at' \in {"idle", "events"}
      /\ connections_' = [connections_ EXCEPT ![handler[c].fd] = nullptr]
      /\ UNCHANGED <<running_, listen_fd_, epoll_fd_, backlog, peer>>
  BY DEF HandleHangup, RemoveHandler, Proceed, server
<1>2. \A d \in Clients : ~Accepted(d) /\ ~Accepted(d)'
  BY <1>1 DEF Accepted
<1>3. /\ handler'[c].fd = -1
      /\ \A d \in Clients \ {c} : handler'[d] = handler[d]
  BY <1>1 DEF Discard, NoHandler
<1>4. Running'
  BY <1>1 DEF Running
<1>5. Waiting'
  <2>1. \A d \in Clients : handler[d].fd = -1 => handler'[d].fd = -1
    BY <1>3
  <2>2. \A i \in DOMAIN backlog : backlog[i] \in Clients
    OBVIOUS
  <2> QED
    BY <1>1, <2>1, <2>2 DEF Waiting
<1>6. OneAccepted'
  BY <1>2 DEF OneAccepted
<1>7. DescriptorsAgree'
  <2>1. \A fd \in Fds, d \in Clients : files'[fd] = d <=> handler'[d].fd = fd
    BY <1>1, DiscardStep DEF DescriptorsAgree
  <2>2. \A fd \in Fds, d \in Clients :
            connections_'[fd] = d <=> connections_[fd] = d /\ d # c
    <3> SUFFICES ASSUME NEW fd \in Fds, NEW d \in Clients
                 PROVE  connections_'[fd] = d <=> connections_[fd] = d /\ d # c
        OBVIOUS
    <3>1. CASE fd = handler[c].fd
      BY <1>1, <1>2, <3>1 DEF DescriptorsAgree
    <3>2. CASE fd # handler[c].fd
      BY <1>1, <3>2 DEF DescriptorsAgree
    <3> QED
      BY <3>1, <3>2
  <2>3. \A fd \in Fds, d \in Clients : connections_'[fd] = d <=> files'[fd] = d
    BY <1>1, <1>2, <2>2, DiscardStep DEF DescriptorsAgree
  <2>4. \A fd \in Fds : /\ files'[fd] = "listen" <=> fd = listen_fd_'
                        /\ files'[fd] = "epoll" <=> fd = epoll_fd_'
    BY <1>1, DiscardStep DEF DescriptorsAgree
  <2> QED
    BY <2>1, <2>3, <2>4 DEF DescriptorsAgree
<1> QED
  BY <1>4, <1>5, <1>6, <1>7 DEF Shape

\* A client waits for accept once, and has no descriptor until then.
LEMMA ConnectStep ==
    ASSUME DescriptorsInv, NEW c \in Clients, Connect(c) PROVE Shape'
<1> USE DEF DescriptorsInv, Types
<1>1. /\ peer[c] = "new" /\ peer' = [peer EXCEPT ![c] = "up"]
      /\ backlog' = Append(backlog, c)
      /\ UNCHANGED <<running_, listen_fd_, epoll_fd_, connections_, handler,
                     files, at>>
  BY DEF Connect, server, loop
<1>2. \A i \in DOMAIN backlog : backlog[i] # c
  BY <1>1 DEF Waiting
<1>3. handler[c].fd = -1
  BY <1>1 DEF Waiting
<1>4. /\ Len(backlog) \in Nat
      /\ DOMAIN backlog' = 1..(Len(backlog) + 1)
      /\ DOMAIN backlog = 1..Len(backlog)
      /\ backlog'[Len(backlog) + 1] = c
      /\ \A i \in 1..Len(backlog) : backlog'[i] = backlog[i]
  BY <1>1
<1>5. Waiting'
  <2>1. \A i \in DOMAIN backlog' : /\ handler'[backlog'[i]].fd = -1
                                   /\ peer'[backlog'[i]] # "new"
    BY <1>1, <1>2, <1>3, <1>4 DEF Waiting
  <2>2. \A i, j \in DOMAIN backlog' : backlog'[i] = backlog'[j] => i = j
    <3> SUFFICES ASSUME NEW i \in DOMAIN backlog', NEW j \in DOMAIN backlog',
                        backlog'[i] = backlog'[j]
                 PROVE  i = j
        OBVIOUS
    <3>1. \A k \in DOMAIN backlog' : backlog'[k] = c => k = Len(backlog) + 1
      <4>1. \A k \in 1..(Len(backlog) + 1) : k # Len(backlog) + 1
                                                 => k \in 1..Len(backlog)
        BY <1>4
      <4> QED
        BY <1>2, <1>4, <4>1
    <3>2. CASE i \in 1..Len(backlog) /\ j \in 1..Len(backlog)
      <4>1. backlog[i] = backlog[j]
        BY <1>4, <3>2
      <4> QED
        BY <1>4, <3>2, <4>1 DEF Waiting
    <3>3. CASE i = Len(backlog) + 1 \/ j = Len(backlog) + 1
      BY <1>4, <3>1, <3>3
    <3> QED
      BY <1>4, <3>2, <3>3
  <2>3. \A d \in Clients : peer'[d] = "new" => handler'[d].fd = -1
    BY <1>1 DEF Waiting
  <2> QED
    BY <2>1, <2>2, <2>3 DEF Waiting
<1>6. Running' /\ OneAccepted' /\ DescriptorsAgree'
  BY <1>1 DEF Running, OneAccepted, Accepted, DescriptorsAgree
<1> QED
  BY <1>5, <1>6 DEF Shape

-----------------------------------------------------------------------------
\* Every action keeps the parts of the invariant that are not types.
LEMMA ShapeStep == DescriptorsInv /\ [Next]_vars => Shape'
<1> SUFFICES ASSUME DescriptorsInv, [Next]_vars PROVE Shape'
    OBVIOUS
<1>1. CASE Start
  BY <1>1, StartStep
<1>2. CASE Stop
  BY <1>2, StopStep
<1>3. CASE ProcessEvents
  BY <1>3, QuietStep DEF ProcessEvents, server, sessions
<1>4. CASE AcceptFails
  BY <1>4, QuietStep DEF AcceptFails, Proceed, server, sessions
<1>5. CASE AcceptConnection
  BY <1>5, AcceptStep
<1>6. ASSUME NEW c \in Clients, Handshake(c) PROVE Shape'
  BY <1>6, HandshakeStep
<1>7. ASSUME NEW c \in Clients, Register(c) PROVE Shape'
  BY <1>7, RegisterStep
<1>14. ASSUME NEW c \in Clients, Insert(c) PROVE Shape'
  BY <1>14, InsertStep
<1>8. ASSUME NEW c \in Clients, HandleMessage(c) PROVE Shape'
  <2>1. /\ UNCHANGED <<running_, listen_fd_, epoll_fd_, connections_, files,
                       backlog, peer>>
        /\ {at, at'} \subseteq {"idle", "events"}
    BY <1>8 DEF HandleMessage, Proceed, server
  <2>2. CreateSession(c) \/ UNCHANGED handler
    <3>1. ProcessMessage(c, inbox[c])
      BY <1>8 DEF HandleMessage
    <3> QED
      BY <3>1, Zenon DEF ProcessMessage
  <2>3. \A d \in Clients : handler'[d].fd = handler[d].fd
    <3> USE DEF DescriptorsInv, Types
    <3>1. CASE CreateSession(c)
      <4>1. [handler[c] EXCEPT !.session = next_session_id_].fd = handler[c].fd
        OBVIOUS
      <4> QED
        BY <3>1, <4>1 DEF CreateSession
    <3> QED
      BY <2>2, <3>1
  <2> QED
    BY <2>1, <2>3, QuietStep
<1>9. ASSUME NEW c \in Clients, HandleHangup(c) PROVE Shape'
  BY <1>9, HangupStep
<1>10. ASSUME NEW c \in Clients, Connect(c) PROVE Shape'
  BY <1>10, ConnectStep
<1>11. ASSUME NEW c \in Clients, NEW m \in Messages, Send(c, m) PROVE Shape'
  BY <1>11, QuietStep DEF Send, server, sessions, loop
<1>12. ASSUME NEW c \in Clients, Leave(c) PROVE Shape'
  BY <1>12, QuietStep DEF Leave, server, sessions, loop, DescriptorsInv, Types
<1>13. CASE UNCHANGED vars
  BY <1>13, QuietStep DEF vars, server, sessions, loop
<1> QED
  BY <1>1, <1>2, <1>3, <1>4, <1>5, <1>6, <1>7, <1>8, <1>9, <1>10, <1>11, <1>12,
     <1>13, <1>14 DEF Next, Loop

\* The invariant holds throughout, for both theorems below.
THEOREM DescriptorsInvariant == Spec => []DescriptorsInv
<1>1. DescriptorsInv /\ [Next]_vars => DescriptorsInv'
  BY TypesStep, ShapeStep DEF DescriptorsInv, Shape
<1> QED
  BY <1>1, InitDescriptors, PTL DEF Spec

\* Whatever is closed and reused, no descriptor is taken for another.
THEOREM DescriptorsAlwaysAgree == Spec => []DescriptorsAgree
<1>1. DescriptorsInv => DescriptorsAgree
  BY DEF DescriptorsInv
<1> QED
  BY <1>1, DescriptorsInvariant, PTL

-----------------------------------------------------------------------------
(* The lists that hold pointers to handlers: epoll's, and the loop's.      *)

Pointers == Clients \cup {nullptr}

\* List l has members of S only, and none of them twice.
Lined(l, S) ==
    /\ l \in Seq(Pointers)
    /\ \A i \in 1..Len(l) : l[i] \in S
    /\ \A i, j \in 1..Len(l) : l[i] = l[j] => i = j

\* A list may be said to have more than it has.
LEMMA LinedMore ==
    ASSUME NEW l, NEW S, NEW T, Lined(l, S), S \subseteq T
    PROVE  Lined(l, T)
  BY DEF Lined

\* An empty list has nothing.
LEMMA LinedNone ==
    ASSUME NEW S
    PROVE  Lined(<<>>, S)
<1>1. <<>> \in Seq(Pointers) /\ Len(<<>>) = 0
  BY EmptySeq
<1> QED
  BY <1>1 DEF Lined

\* The head is not in the tail.
LEMMA LinedTail ==
    ASSUME NEW l, NEW S, Lined(l, S), l # <<>>
    PROVE  Head(l) \in S /\ Lined(Tail(l), S \ {Head(l)})
<1>1. l \in Seq(Pointers)
  BY DEF Lined
<1>2. Len(l) \in Nat \ {0} /\ Head(l) = l[1]
  BY <1>1, EmptySeq
<1>3. /\ Tail(l) \in Seq(Pointers) /\ Len(Tail(l)) = Len(l) - 1
      /\ \A i \in 1..Len(Tail(l)) : Tail(l)[i] = l[i + 1]
  BY <1>1, HeadTailProperties
<1> DEFINE n == Len(l)
           t == Tail(l)
<1>4. /\ \A i \in 1..n : l[i] \in S
      /\ \A i, j \in 1..n : l[i] = l[j] => i = j
  BY DEF Lined
<1> HIDE DEF n, t
<1>5. n \in Nat \ {0} /\ 1 \in 1..n /\ Len(t) = n - 1
  BY <1>2, <1>3 DEF n, t
<1>6. \A i \in 1..Len(t) : i + 1 \in 1..n /\ i + 1 # 1 /\ t[i] = l[i + 1]
  BY <1>3, <1>5 DEF t
<1>7. \A i \in 1..Len(t) : t[i] \in S \ {l[1]}
  BY <1>4, <1>5, <1>6
<1>8. ASSUME NEW i \in 1..Len(t), NEW j \in 1..Len(t), t[i] = t[j] PROVE i = j
  <2>1. i + 1 = j + 1
    BY <1>4, <1>6, <1>8
  <2>2. i \in Int /\ j \in Int
    BY <1>5
  <2> QED
    BY <2>1, <2>2
<1> QED
  BY <1>2, <1>3, <1>4, <1>5, <1>7, <1>8 DEF Lined, t

\* A new pointer at the end.
LEMMA LinedAppend ==
    ASSUME NEW l, NEW S, Lined(l, S), NEW p \in Pointers, p \notin S
    PROVE  Lined(Append(l, p), S \cup {p})
<1> DEFINE n == Len(l)
           a == Append(l, p)
<1>1. l \in Seq(Pointers) /\ n \in Nat
  BY LenProperties DEF Lined
<1>2. /\ a \in Seq(Pointers) /\ Len(a) = n + 1 /\ a[n + 1] = p
      /\ \A i \in 1..n : a[i] = l[i]
  BY <1>1, AppendProperties
<1>3. /\ \A i \in 1..n : l[i] \in S
      /\ \A i, j \in 1..n : l[i] = l[j] => i = j
  BY DEF Lined
<1> HIDE DEF n, a
<1>4. \A i \in 1..Len(a) : i \in 1..n \/ i = n + 1
  BY <1>1, <1>2
<1>5. \A i \in 1..Len(a) : a[i] \in S \cup {p}
  BY <1>2, <1>3, <1>4
<1>6. ASSUME NEW i \in 1..Len(a), NEW j \in 1..Len(a), a[i] = a[j] PROVE i = j
  <2>1. CASE i \in 1..n /\ j \in 1..n
    BY <1>2, <1>3, <1>6, <2>1
  <2>2. CASE i = n + 1 \/ j = n + 1
    BY <1>2, <1>3, <1>4, <1>6, <2>2
  <2> QED
    BY <1>4, <2>1, <2>2
<1> QED
  BY <1>2, <1>5, <1>6 DEF Lined, a

\* RemoveFirst takes out the only place of a pointer.
LEMMA RemoveFirstIs ==
    ASSUME NEW l, NEW i \in 1..Len(l),
           \A j \in 1..Len(l) : l[j] = l[i] => j = i
    PROVE  RemoveFirst(l, l[i]) = SubSeq(l, 1, i - 1) \o SubSeq(l, i + 1, Len(l))
<1> DEFINE I == {j \in 1..Len(l) : l[j] = l[i]}
<1>1. I = {i}
  OBVIOUS
<1>2. Min(I) = i
  <2>1. Min({i}) = i
    BY DEF Min
  <2> QED
    BY <1>1, <2>1
<1>3. RemoveFirst(l, l[i]) = RemoveAt(l, Min(I))
  <2>1. \E j \in 1..Len(l) : l[j] = l[i]
    OBVIOUS
  <2>2. I # {}
    BY <1>1
  <2> QED
    BY <2>1, <2>2, Zenon DEF RemoveFirst, SelectInSeq
<1> QED
  BY <1>2, <1>3 DEF RemoveAt

\* RemoveFirst of a pointer that is not there.
LEMMA RemoveFirstNone ==
    ASSUME NEW l, NEW p, \A j \in 1..Len(l) : l[j] # p
    PROVE  RemoveFirst(l, p) = l
<1>1. ~ \E j \in 1..Len(l) : l[j] = p
  OBVIOUS
<1> QED
  BY <1>1, Zenon DEF RemoveFirst

\* What is left of a sequence behind its place m.
LEMMA RestOf ==
    ASSUME NEW S, NEW s, NEW m \in Nat, NEW n \in Nat, m <= n,
           \A i \in (m + 1)..n : s[i] \in S
    PROVE  /\ SubSeq(s, m + 1, n) \in Seq(S) /\ Len(SubSeq(s, m + 1, n)) = n - m
           /\ \A i \in 1..(n - m) : SubSeq(s, m + 1, n)[i] = s[m + i]
<1> DEFINE b == SubSeq(s, m + 1, n)
<1>1. m + 1 \in Int /\ n \in Int
  OBVIOUS
<1>2. /\ b \in Seq(S) /\ Len(b) = IF m + 1 <= n THEN n - (m + 1) + 1 ELSE 0
      /\ \A i \in 1..(n - (m + 1) + 1) : b[i] = s[(m + 1) + i - 1]
  BY <1>1, SubSeqProperties
<1> HIDE DEF b
<1>3. Len(b) = n - m
  BY <1>2
<1>4. ASSUME NEW i \in 1..(n - m) PROVE b[i] = s[m + i]
  <2>1. i \in 1..(n - (m + 1) + 1) /\ (m + 1) + i - 1 = m + i
    OBVIOUS
  <2> QED
    BY <1>2, <2>1
<1> QED
  BY <1>2, <1>3, <1>4 DEF b

\* A pointer that is taken off, if it is there.
LEMMA LinedRemove ==
    ASSUME NEW l, NEW S, Lined(l, S), NEW p
    PROVE  Lined(RemoveFirst(l, p), S \ {p})
<1> DEFINE m == RemoveFirst(l, p)
           n == Len(l)
<1>1. l \in Seq(Pointers) /\ n \in Nat /\ \A k \in 1..n : l[k] \in Pointers
  BY LenProperties, ElementOfSeq DEF Lined
<1>2. /\ \A k \in 1..n : l[k] \in S
      /\ \A j, k \in 1..n : l[j] = l[k] => j = k
  BY DEF Lined
<1>3. CASE \A k \in 1..n : l[k] # p
  <2>1. m = l
    BY <1>3, RemoveFirstNone
  <2> HIDE DEF m
  <2> QED
    BY <1>1, <1>2, <1>3, <2>1 DEF Lined, m
<1>4. ASSUME NEW i \in 1..n, l[i] = p PROVE Lined(m, S \ {p})
  <2> DEFINE a == SubSeq(l, 1, i - 1)
             b == SubSeq(l, i + 1, n)
  <2>1. m = a \o b
    <3>1. \A j \in 1..Len(l) : l[j] = l[i] => j = i
      BY <1>2
    <3> QED
      BY <1>4, <3>1, RemoveFirstIs
  <2>2. /\ a \in Seq(Pointers) /\ Len(a) = i - 1
        /\ \A k \in 1..(i - 1) : a[k] = l[k]
    <3>1. \A k \in 1..(i - 1) : l[k] \in Pointers
      BY <1>1
    <3>2. /\ a \in Seq(Pointers)
          /\ Len(a) = IF 1 <= i - 1 THEN (i - 1) - 1 + 1 ELSE 0
          /\ \A k \in 1..((i - 1) - 1 + 1) : a[k] = l[1 + k - 1]
      BY <3>1, SubSeqProperties
    <3> HIDE DEF a
    <3> QED
      BY <3>2
  <2>3. /\ b \in Seq(Pointers) /\ Len(b) = n - i
        /\ \A k \in 1..(n - i) : b[k] = l[i + k]
    <3>1. i \in Nat /\ n \in Nat /\ i <= n /\ \A k \in (i + 1)..n : l[k] \in Pointers
      BY <1>1
    <3> HIDE DEF n
    <3> QED
      BY <3>1, RestOf
  <2> HIDE DEF a, b, m, n
  <2>4. /\ m \in Seq(Pointers) /\ Len(m) = n - 1
        /\ \A k \in 1..(n - 1) :
               m[k] = IF k <= i - 1 THEN a[k] ELSE b[k - (i - 1)]
    <3>1. /\ a \o b \in Seq(Pointers) /\ Len(a \o b) = Len(a) + Len(b)
          /\ \A k \in 1..(Len(a) + Len(b)) :
                 (a \o b)[k] = IF k <= Len(a) THEN a[k] ELSE b[k - Len(a)]
      BY <2>2, <2>3, ConcatProperties
    <3>2. Len(a) + Len(b) = n - 1 /\ Len(a) = i - 1
      BY <1>1, <2>2, <2>3
    <3> QED
      BY <2>1, <3>1, <3>2
  \* The place in l of what is at place k of m.
  <2> DEFINE At(k) == IF k < i THEN k ELSE k + 1
  <2>5. ASSUME NEW k \in 1..(n - 1)
        PROVE  At(k) \in (1..n) \ {i} /\ m[k] = l[At(k)]
    <3>1. CASE k < i
      <4>1. k <= i - 1 /\ k \in 1..(i - 1) /\ k \in (1..n) \ {i}
        BY <1>1, <3>1
      <4> QED
        BY <2>2, <2>4, <3>1, <4>1
    <3>2. CASE ~(k < i)
      <4>1. /\ ~(k <= i - 1) /\ k - (i - 1) \in 1..(n - i)
            /\ i + (k - (i - 1)) = k + 1 /\ k + 1 \in (1..n) \ {i}
        BY <1>1, <3>2
      <4> QED
        BY <2>3, <2>4, <3>2, <4>1
    <3> QED
      BY <3>1, <3>2
  <2>6. ASSUME NEW k \in 1..Len(m) PROVE m[k] \in S \ {p}
    <3>1. At(k) \in (1..n) \ {i} /\ m[k] = l[At(k)]
      BY <2>4, <2>5
    <3> HIDE DEF At
    <3>2. l[At(k)] # l[i]
      BY <1>2, <3>1
    <3> QED
      BY <1>2, <1>4, <3>1, <3>2
  <2>7. ASSUME NEW j \in 1..Len(m), NEW k \in 1..Len(m), m[j] = m[k] PROVE j = k
    <3>1. j \in 1..(n - 1) /\ k \in 1..(n - 1)
      BY <2>4
    <3>2. At(j) = At(k)
      <4>1. /\ At(j) \in 1..n /\ m[j] = l[At(j)]
            /\ At(k) \in 1..n /\ m[k] = l[At(k)]
        BY <2>5, <3>1
      <4> HIDE DEF At
      <4> QED
        BY <1>2, <2>7, <4>1
    <3> QED
      BY <1>1, <3>1, <3>2
  <2> QED
    BY <2>4, <2>6, <2>7 DEF Lined
<1> QED
  BY <1>3, <1>4

\* What else a list holds, it still holds without p.
LEMMA RemoveFirstKeeps ==
    ASSUME NEW l, NEW S, Lined(l, S), NEW p, NEW i \in 1..Len(l), l[i] # p
    PROVE  \E k \in 1..Len(RemoveFirst(l, p)) : RemoveFirst(l, p)[k] = l[i]
<1> DEFINE n == Len(l)
<1>1. l \in Seq(Pointers) /\ n \in Nat /\ \A k \in 1..n : l[k] \in Pointers
  BY LenProperties, ElementOfSeq DEF Lined
<1>2. CASE \A k \in 1..n : l[k] # p
  BY <1>2, RemoveFirstNone
<1>3. ASSUME NEW j \in 1..n, l[j] = p
      PROVE  \E k \in 1..Len(RemoveFirst(l, p)) : RemoveFirst(l, p)[k] = l[i]
  <2> DEFINE a == SubSeq(l, 1, j - 1)
             b == SubSeq(l, j + 1, n)
  <2>1. RemoveFirst(l, p) = a \o b
    <3>1. \A k \in 1..Len(l) : l[k] = l[j] => k = j
      BY DEF Lined
    <3> QED
      BY <1>3, <3>1, RemoveFirstIs
  <2>2. /\ a \in Seq(Pointers) /\ Len(a) = j - 1
        /\ \A k \in 1..(j - 1) : a[k] = l[k]
    <3>1. \A k \in 1..(j - 1) : l[k] \in Pointers
      BY <1>1
    <3>2. /\ a \in Seq(Pointers)
          /\ Len(a) = IF 1 <= j - 1 THEN (j - 1) - 1 + 1 ELSE 0
          /\ \A k \in 1..((j - 1) - 1 + 1) : a[k] = l[1 + k - 1]
      BY <3>1, SubSeqProperties
    <3> HIDE DEF a
    <3> QED
      BY <3>2
  <2>3. /\ b \in Seq(Pointers) /\ Len(b) = n - j
        /\ \A k \in 1..(n - j) : b[k] = l[j + k]
    <3>1. /\ j \in Nat /\ n \in Nat /\ j <= n
          /\ \A k \in (j + 1)..n : l[k] \in Pointers
      BY <1>1
    <3> HIDE DEF n
    <3> QED
      BY <3>1, RestOf
  <2> HIDE DEF a, b
  <2>4. /\ Len(a \o b) = Len(a) + Len(b)
        /\ \A k \in 1..(Len(a) + Len(b)) :
               (a \o b)[k] = IF k <= Len(a) THEN a[k] ELSE b[k - Len(a)]
    <3>1. a \in Seq(Pointers) /\ b \in Seq(Pointers)
      BY <2>2, <2>3
    <3> QED
      BY <3>1, ConcatProperties
  <2>5. CASE i < j
    <3>1. i \in 1..(j - 1) /\ i \in 1..(Len(a) + Len(b)) /\ i <= Len(a)
      BY <1>1, <2>2, <2>3, <2>5
    <3>2. (a \o b)[i] = l[i]
      BY <2>2, <2>4, <3>1
    <3> QED
      BY <2>1, <2>4, <3>1, <3>2
  <2>6. CASE i > j
    <3> DEFINE k == i - 1
    <3>1. /\ k \in 1..(Len(a) + Len(b)) /\ ~(k <= Len(a))
          /\ k - Len(a) = i - j /\ i - j \in 1..(n - j) /\ j + (i - j) = i
      BY <1>1, <2>2, <2>3, <2>6
    <3> HIDE DEF k
    <3>2. b[i - j] = l[i]
      BY <2>3, <3>1
    <3>3. (a \o b)[k] = l[i]
      BY <2>4, <3>1, <3>2
    <3> QED
      BY <2>1, <2>4, <3>1, <3>3
  <2>7. i # j /\ i \in Int /\ j \in Int
    BY <1>3
  <2> QED
    BY <2>5, <2>6, <2>7
<1> QED
  BY <1>2, <1>3

-----------------------------------------------------------------------------
(* The invariant for the pointers, the sessions and the remaining types.   *)

\* The handler is in the map.
Registered(c) == handler[c].fd \in Fds /\ connections_[handler[c].fd] = c

Live == {nullptr} \cup {c \in Clients : Registered(c)}

\* What the epoll of the present Start was given.
Watching == {c \in Clients : running_ /\ watched[c] = starts}

\* epoll was given exactly the handlers that are in the map or come into it
\* next, by a call of Start that there has been.
Watches ==
    /\ starts \in Nat /\ watched \in [Clients -> Nat]
    /\ \A c \in Clients : watched[c] <= starts
    /\ running_ => starts # 0
    /\ \A c \in Clients : watched[c] # 0
                               <=> Registered(c) \/ (at = "insert" /\ Accepted(c))

Holds(l, S) == \A p \in S : \E i \in 1..Len(l) : l[i] = p

\* Events are for the listening socket and for handlers in the map; epoll has
\* the listening socket and what it was given; the loop is between two calls of
\* ProcessEvents when its events are handled.
Queues ==
    /\ Lined(batch, Live)
    /\ Lined(interest, {nullptr} \cup Watching) /\ Holds(interest, Watching)
    /\ batch = <<>> <=> at = "idle"

\* A handler in the map is the only one under its descriptor.
LEMMA OneRegistered ==
    ASSUME DescriptorsAgree, NEW c \in Clients, NEW d \in Clients,
           Registered(c), handler[c].fd = handler[d].fd
    PROVE  c = d
  BY DEF DescriptorsAgree, Registered

\* A step that leaves the lists alone, and takes no handler out of the map.
LEMMA QueuesKept ==
    ASSUME Queues, UNCHANGED <<batch, interest, running_, watched, starts>>,
           Live \subseteq Live', at' = "idle" <=> at = "idle"
    PROVE  Queues'
<1>1. Lined(batch, Live') /\ Watching' = Watching
  BY LinedMore DEF Queues, Watching
<1> QED
  BY <1>1 DEF Queues, Lined, Holds

\* The loop goes on to the next event.
LEMMA ProceedStep ==
    ASSUME Queues, at # "idle", Proceed
    PROVE  /\ Head(batch) \in Live /\ Lined(batch', Live \ {Head(batch)})
           /\ batch' = <<>> <=> at' = "idle"
<1>1. batch # <<>> /\ batch \in Seq(Pointers)
  BY DEF Queues, Lined
<1>2. Len(batch) \in Nat \ {0} /\ Len(Tail(batch)) = Len(batch) - 1
      /\ Tail(batch) \in Seq(Pointers)
  BY <1>1, EmptySeq, HeadTailProperties
<1>3. Tail(batch) = <<>> <=> Len(batch) = 1
  <2>1. Tail(batch) # <<>> => Len(Tail(batch)) \in Nat \ {0}
    BY <1>2, EmptySeq
  <2>2. Tail(batch) = <<>> => Len(Tail(batch)) = 0
    BY EmptySeq
  <2> QED
    BY <1>2, <2>1, <2>2
<1>4. batch' = Tail(batch) /\ (at' = "idle" <=> Len(batch) = 1)
  BY DEF Proceed
<1>5. Head(batch) \in Live /\ Lined(Tail(batch), Live \ {Head(batch)})
  BY <1>1, LinedTail DEF Queues
<1> QED
  BY <1>3, <1>4, <1>5

\* What epoll_wait returns is a part of its list, which it only reorders.
LEMMA ProcessEventsQueues ==
    ASSUME Queues, Watches, ProcessEvents
    PROVE  /\ Lined(batch', Live) /\ batch' # <<>>
           /\ Lined(interest', {nullptr} \cup Watching)
           /\ Holds(interest', Watching)
<1> DEFINE last == Len(interest)
           W == {nullptr} \cup Watching
<1>1. /\ interest \in Seq(Pointers) /\ last \in Nat /\ DOMAIN interest = 1..last
      /\ interest \in [1..last -> Pointers]
      /\ \A i \in 1..last : interest[i] \in W
      /\ \A i, j \in 1..last : interest[i] = interest[j] => i = j
  <2>1. Lined(interest, W)
    BY DEF Queues
  <2> HIDE DEF W
  <2> QED
    BY <2>1, LenProperties DEF Lined
<1>2. PICK n \in 1..last, f \in Bijection(1..last, 1..last) :
          /\ interest' = [i \in 1..last |-> interest[f[i]]]
          /\ batch' = SubSeq(interest', last - n + 1, last)
  <2>1. DOMAIN interest = 1..last
    BY <1>1
  <2>2. \E n \in 1..last, f \in Bijection(DOMAIN interest, DOMAIN interest) :
            /\ interest' = [i \in DOMAIN interest |-> interest[f[i]]]
            /\ batch' = SubSeq(interest', last - n + 1, last)
    BY Zenon DEF ProcessEvents
  <2> QED
    BY <2>1, <2>2
<1>3. /\ f \in [1..last -> 1..last]
      /\ \A i, j \in 1..last : f[i] = f[j] => i = j
      /\ \A j \in 1..last : \E i \in 1..last : f[i] = j
  BY DEF Bijection, Injection, Surjection, IsInjective
<1>12. W \subseteq Live
  BY DEF Watches, Watching, ProcessEvents, Live
<1> HIDE DEF last, W
<1>4. \A i \in 1..last : f[i] \in 1..last /\ interest'[i] = interest[f[i]]
  BY <1>2, <1>3
<1>5. interest' \in [1..last -> Pointers]
  BY <1>1, <1>2, <1>4
<1>6. interest' \in Seq(Pointers) /\ Len(interest') = last
  BY <1>1, <1>5
<1>7. Lined(interest', W)
  <2>1. \A i \in 1..last : interest'[i] \in W
    BY <1>1, <1>4
  <2>2. \A i, j \in 1..last : interest'[i] = interest'[j] => i = j
    BY <1>1, <1>3, <1>4
  <2> QED
    BY <1>6, <2>1, <2>2 DEF Lined
<1> DEFINE k == last - n
<1>8. k \in Nat /\ last = k + n /\ n \in Nat \ {0}
  BY <1>1
<1>9. /\ batch' \in Seq(Pointers) /\ Len(batch') = n
      /\ \A i \in 1..n : i + k \in 1..last /\ batch'[i] = interest'[i + k]
  <2>1. \A i \in (k + 1)..last : interest'[i] \in Pointers
    BY <1>5, <1>8
  <2>2. /\ SubSeq(interest', k + 1, last) \in Seq(Pointers)
        /\ Len(SubSeq(interest', k + 1, last))
               = IF k + 1 <= last THEN last - (k + 1) + 1 ELSE 0
        /\ \A i \in 1..(last - (k + 1) + 1) :
               SubSeq(interest', k + 1, last)[i] = interest'[(k + 1) + i - 1]
    <3>1. k + 1 \in Int /\ last \in Int
      BY <1>1, <1>8
    <3> HIDE DEF k
    <3> QED
      BY <2>1, <3>1, SubSeqProperties
  <2>3. batch' = SubSeq(interest', k + 1, last)
    BY <1>2
  <2> HIDE DEF k
  <2>4. last - (k + 1) + 1 = n /\ k + 1 <= last
    BY <1>8
  <2>5. \A i \in 1..n : i + k \in 1..last /\ (k + 1) + i - 1 = i + k
    BY <1>8
  <2> QED
    BY <2>2, <2>3, <2>4, <2>5
<1> HIDE DEF k
<1>10. Lined(batch', Live)
  <2>1. \A i \in 1..n : batch'[i] \in Live
    BY <1>6, <1>7, <1>9, <1>12 DEF Lined
  <2>2. ASSUME NEW i \in 1..n, NEW j \in 1..n, batch'[i] = batch'[j] PROVE i = j
    <3>1. i + k = j + k
      BY <1>6, <1>7, <1>9, <2>2 DEF Lined
    <3> QED
      BY <1>8, <3>1
  <2> QED
    BY <1>9, <2>1, <2>2 DEF Lined
<1>11. batch' # <<>>
  <2>1. Len(<<>>) = 0
    BY EmptySeq
  <2> QED
    BY <1>8, <1>9, <2>1
<1>13. Holds(interest', Watching)
  <2> SUFFICES ASSUME NEW p \in Watching
               PROVE  \E i \in 1..last : interest'[i] = p
      BY <1>6 DEF Holds
  <2>1. PICK j \in 1..last : interest[j] = p
    BY DEF Queues, Holds, last
  <2>2. PICK i \in 1..last : f[i] = j
    BY <1>3
  <2> QED
    BY <1>4, <2>1, <2>2
<1> QED
  BY <1>7, <1>10, <1>11, <1>13 DEF W
-----------------------------------------------------------------------------
\* The types of the variables that DescriptorsInv does not speak of.
MoreTypes ==
    /\ tls_enabled_ \in BOOLEAN
    /\ next_session_id_ = Len(sessions_) + 1
    /\ authenticated \subseteq Clients /\ proven \subseteq Clients
    /\ inbox \in [Clients -> Messages \cup {"none"}]
    /\ sent \in [Clients -> 0..MaxMessages] /\ starts \in 0..MaxStarts

\* The number a handler has is that of a session made for its client, and only
\* a handler in the map has one.
SessionsOwn ==
    \A c \in Clients : handler[c].session # 0 =>
        /\ Registered(c)
        /\ handler[c].session \in 1..Len(sessions_)
        /\ sessions_[handler[c].session] = c

\* A client logs in after its CONNECT has been served.
ConnectsFirst ==
    \A c \in Clients :
        /\ peer[c] = "new" => sent[c] = 0
        /\ inbox[c] \in {"AUTH", "AUTH_WRONG"} => handler[c].session # 0
        /\ peer[c] = "up" /\ sent[c] > 0 /\ inbox[c] = "none"
               => handler[c].session # 0

\* The inductive invariant, beside DescriptorsInv.
SessionsInv ==
    MoreTypes /\ Watches /\ Queues /\ SessionsOwn /\ ConnectsFirst /\ LoginIsOwn

\* Before Start there is nothing to point to, and no session.
LEMMA InitSessions == Init => SessionsInv
<1> SUFFICES ASSUME Init PROVE SessionsInv
    OBVIOUS
<1>1. MoreTypes
  BY BoundsAssumption, EmptySeq DEF Init, MoreTypes
<1>2. Queues
  <2>1. Lined(batch, Live) /\ Lined(interest, {nullptr} \cup Watching)
    BY LinedNone DEF Init
  <2>2. Watching = {}
    BY DEF Init, Watching
  <2> QED
    BY <2>1, <2>2 DEF Init, Queues, Holds
<1>4. Watches
  BY DEF Init, Watches, Registered, NoHandler, Fds
<1>3. SessionsOwn /\ ConnectsFirst /\ LoginIsOwn
  BY DEF Init, SessionsOwn, ConnectsFirst, LoginIsOwn, NoHandler
<1> QED
  BY <1>1, <1>2, <1>3, <1>4 DEF SessionsInv

\* Deleting a handler that is not in the map hits no other.
LEMMA DiscardLive ==
    ASSUME DescriptorsInv, NEW c \in Clients, Accepted(c), Discard(c),
           UNCHANGED connections_
    PROVE  Live \subseteq Live' /\ c \notin Live
<1>1. ~Registered(c)
  BY DEF Accepted, Registered
<1>2. c # nullptr
  OBVIOUS
<1>3. \A d \in Clients : Registered(d) => Registered(d)'
  BY <1>1 DEF Discard, Registered, DescriptorsInv, Types
<1> QED
  BY <1>1, <1>2, <1>3 DEF Live

\* Deleting a handler takes it out of the map, and no other.
LEMMA RemoveLive ==
    ASSUME DescriptorsInv, NEW c \in Clients, RemoveHandler(c)
    PROVE  Live \ {c} \subseteq Live'
<1>1. ASSUME NEW d \in Clients \ {c}, Registered(d) PROVE Registered(d)'
  <2>1. handler'[d] = handler[d]
    BY DEF RemoveHandler, Discard, DescriptorsInv, Types
  <2>2. handler[c].fd # handler[d].fd
    BY <1>1, OneRegistered DEF DescriptorsInv
  <2>3. connections_'[handler[d].fd] = d
    BY <1>1, <2>2 DEF RemoveHandler, Registered, DescriptorsInv, Types
  <2> QED
    BY <1>1, <2>1, <2>3 DEF Registered
<1> QED
  BY <1>1 DEF Live

\* The accepted handler comes into the map, and hits no other.
LEMMA RegisterLive ==
    ASSUME DescriptorsInv, NEW c \in Clients, Accepted(c), UNCHANGED handler,
           connections_' = [connections_ EXCEPT ![handler[c].fd] = c]
    PROVE  Live \cup {c} \subseteq Live' /\ c \notin Live
<1>1. ~Registered(c) /\ handler[c].fd \in Fds
  BY DEF Accepted, Registered
<1>2. Registered(c)'
  BY <1>1 DEF Registered, DescriptorsInv, Types
<1>3. ASSUME NEW d \in Clients, Registered(d) PROVE Registered(d)'
  <2>1. CASE d = c
    BY <1>2, <2>1
  <2>2. CASE d # c
    <3>1. handler[c].fd # handler[d].fd
      BY <1>3, <2>2, OneRegistered DEF DescriptorsInv
    <3> QED
      BY <1>3, <3>1 DEF Registered, DescriptorsInv, Types
  <2> QED
    BY <2>1, <2>2
<1>4. c # nullptr
  OBVIOUS
<1> QED
  BY <1>1, <1>2, <1>3, <1>4 DEF Live

\* A step that changes no descriptor of a handler, nor the map.
LEMMA SameLive ==
    ASSUME UNCHANGED connections_, \A d \in Clients : handler'[d].fd = handler[d].fd
    PROVE  Live' = Live
  BY DEF Live, Registered

\* The loop comes to the next event, and no live handler is lost.
LEMMA NextEvent ==
    ASSUME Queues, at # "idle", Proceed, Live \subseteq Live',
           UNCHANGED <<interest, running_, watched, starts>>
    PROVE  Queues'
<1>1. Lined(batch', Live \ {Head(batch)}) /\ (batch' = <<>> <=> at' = "idle")
  BY ProceedStep
<1>2. Lined(batch', Live') /\ Watching' = Watching
  BY <1>1, LinedMore DEF Watching
<1> QED
  BY <1>1, <1>2 DEF Queues, Lined, Holds

\* A handler that is given up before epoll_ctl has never been watched.
LEMMA GiveUpUnwatched ==
    ASSUME DescriptorsInv, Watches, NEW c \in Clients, Accepted(c), Discard(c),
           at # "insert"
    PROVE  UNCHANGED watched
<1>1. watched[c] = 0
  BY DEF Watches, Accepted, Registered
<1> QED
  BY <1>1 DEF Discard, Watches

\* Every action keeps the lists in order.
LEMMA QueuesStep ==
    ASSUME DescriptorsInv, Watches, Queues, [Next]_vars
    PROVE  Queues'
<1>1. CASE Start
  <2>1. Lined(<<nullptr>>, {nullptr})
    <3>1. /\ <<nullptr>> \in Seq(Pointers) /\ Len(<<nullptr>>) = 1
          /\ <<nullptr>>[1] = nullptr
      BY DEF Pointers
    <3> QED
      BY <3>1 DEF Lined
  <2>2. /\ UNCHANGED <<batch, at, handler, connections_, watched>>
        /\ interest' = <<nullptr>> /\ starts' = starts + 1
    BY <1>1 DEF Start, loop
  <2>3. Live' = Live
    BY <2>2, SameLive
  <2>4. Watching' = {}
    BY <2>2 DEF Watching, Watches
  <2>5. Lined(interest', {nullptr} \cup Watching')
    BY <2>1, <2>2, <2>4
  <2> QED
    BY <2>2, <2>3, <2>4, <2>5 DEF Queues, Lined, Holds
<1>2. CASE Stop
  <2>1. /\ UNCHANGED <<batch, at, handler, connections_>> /\ interest' = <<>>
        /\ ~running_'
    BY <1>2 DEF Stop, loop
  <2>2. Live' = Live
    BY <2>1, SameLive
  <2>3. Watching' = {} /\ Lined(interest', {nullptr} \cup Watching')
    BY <2>1, LinedNone DEF Watching
  <2> QED
    BY <2>1, <2>2, <2>3 DEF Queues, Lined, Holds
<1>3. CASE ProcessEvents
  <2>1. Live' = Live
    BY <1>3, SameLive DEF ProcessEvents
  <2>2. /\ Lined(batch', Live) /\ batch' # <<>>
        /\ Lined(interest', {nullptr} \cup Watching)
        /\ Holds(interest', Watching)
    BY <1>3, ProcessEventsQueues
  <2>3. at' # "idle" /\ Watching' = Watching
    BY <1>3 DEF ProcessEvents, Watching, server
  <2> QED
    BY <2>1, <2>2, <2>3 DEF Queues, Lined, Holds
<1>4. CASE AcceptFails
  <2>1. Live \subseteq Live'
    BY <1>4, SameLive DEF AcceptFails
  <2> QED
    BY <1>4, <2>1, NextEvent DEF AcceptFails, server
<1>5. CASE AcceptConnection
  <2> DEFINE c == Head(backlog)
  <2>1. /\ backlog # <<>> /\ at = "events" /\ at' \in {"handshake", "register"}
        /\ UNCHANGED <<connections_, batch, interest, running_, watched, starts>>
    BY <1>5 DEF AcceptConnection, server
  <2>2. PICK f \in Fds : handler' = [handler EXCEPT ![c] = [fd |-> f, session |-> 0]]
    BY <1>5 DEF AcceptConnection
  <2>3. c \in Clients /\ c = backlog[1] /\ 1 \in DOMAIN backlog
    BY <2>1 DEF DescriptorsInv, Types
  <2>4. handler[c].fd = -1
    BY <2>3 DEF DescriptorsInv, Waiting
  <2>5. ~Registered(c)
    BY <2>4 DEF Registered, Fds
  <2>6. \A d \in Clients \ {c} : handler'[d] = handler[d]
    BY <2>2 DEF DescriptorsInv, Types
  <2>7. Live \subseteq Live'
    <3> HIDE DEF c
    <3> QED
      BY <2>1, <2>5, <2>6 DEF Live, Registered
  <2> QED
    BY <2>1, <2>7, QueuesKept
<1>6. ASSUME NEW c \in Clients, Handshake(c) PROVE Queues'
  <2>1. /\ Accepted(c) /\ at = "handshake"
        /\ UNCHANGED <<connections_, interest, running_, starts>>
    BY <1>6 DEF Handshake, server
  <2>2. CASE at' = "register" /\ UNCHANGED <<handler, batch, watched>>
    <3>1. Live' = Live
      BY <2>1, <2>2, SameLive
    <3> QED
      BY <2>1, <2>2, <3>1, QueuesKept
  <2>3. CASE Discard(c) /\ Proceed
    <3>1. Live \subseteq Live' /\ UNCHANGED watched
      BY <2>1, <2>3, DiscardLive, GiveUpUnwatched
    <3> QED
      BY <2>1, <2>3, <3>1, NextEvent
  <2> QED
    BY <1>6, <2>2, <2>3 DEF Handshake
<1>7. ASSUME NEW c \in Clients, Register(c) PROVE Queues'
  <2>1. /\ Accepted(c) /\ at = "register"
        /\ UNCHANGED <<connections_, running_, starts>>
    BY <1>7 DEF Register, server
  <2>2. CASE Discard(c) /\ Proceed /\ UNCHANGED interest
    <3>1. Live \subseteq Live' /\ UNCHANGED watched
      BY <2>1, <2>2, DiscardLive, GiveUpUnwatched
    <3> QED
      BY <2>1, <2>2, <3>1, NextEvent
  <2>3. CASE epoll_fd_ # -1 /\ Watch(c) /\ at' = "insert" /\ UNCHANGED <<handler, batch>>
    <3>1. /\ interest' = Append(interest, c)
          /\ watched' = [watched EXCEPT ![c] = starts]
      BY <2>3 DEF Watch
    <3>2. watched[c] = 0 /\ running_ /\ starts # 0
      BY <2>1, <2>3 DEF Watches, Accepted, Registered, DescriptorsInv, Running
    <3>3. Watching' = Watching \cup {c} /\ c \notin Watching
      BY <2>1, <3>1, <3>2 DEF Watching, Watches
    <3>4. Lined(interest', {nullptr} \cup Watching')
      <4>1. c \in Pointers /\ c \notin {nullptr} \cup Watching
        BY <3>3 DEF Pointers
      <4>2. Lined(interest', ({nullptr} \cup Watching) \cup {c})
        BY <3>1, <4>1, LinedAppend DEF Queues
      <4>3. ({nullptr} \cup Watching) \cup {c} = {nullptr} \cup Watching'
        BY <3>3
      <4> QED
        BY <4>2, <4>3
    <3>5. Holds(interest', Watching')
      <4>1. interest \in Seq(Pointers) /\ c \in Pointers
        BY DEF Queues, Lined, Pointers
      <4>2. /\ Len(interest) \in Nat /\ Len(interest') = Len(interest) + 1
            /\ interest'[Len(interest) + 1] = c
            /\ \A i \in 1..Len(interest) : interest'[i] = interest[i]
        BY <3>1, <4>1, AppendProperties, LenProperties
      <4>3. ASSUME NEW p \in Watching PROVE \E i \in 1..Len(interest') : interest'[i] = p
        <5>1. PICK i \in 1..Len(interest) : interest[i] = p
          BY DEF Queues, Holds
        <5>2. i \in 1..Len(interest') /\ interest'[i] = p
          BY <4>2, <5>1
        <5> QED
          BY <5>2
      <4>4. \E i \in 1..Len(interest') : interest'[i] = c
        <5>1. Len(interest) + 1 \in 1..Len(interest')
          BY <4>2
        <5> QED
          BY <4>2, <5>1
      <4> QED
        BY <3>3, <4>3, <4>4 DEF Holds
    <3>6. Live' = Live
      BY <2>1, <2>3, SameLive
    <3> QED
      BY <2>1, <2>3, <3>4, <3>5, <3>6 DEF Queues, Lined
  <2> QED
    BY <1>7, <2>2, <2>3 DEF Register
<1>13. ASSUME NEW c \in Clients, Insert(c) PROVE Queues'
  <2>1. /\ Accepted(c) /\ at = "insert" /\ Proceed
        /\ connections_' = [connections_ EXCEPT ![handler[c].fd] = c]
        /\ UNCHANGED <<handler, interest, running_, watched, starts>>
    BY <1>13 DEF Insert, Keep, server
  <2>2. Live \subseteq Live'
    BY <2>1, RegisterLive
  <2> QED
    BY <2>1, <2>2, NextEvent
<1>8. ASSUME NEW c \in Clients, HandleMessage(c) PROVE Queues'
  <2>1. /\ at = "events" /\ Proceed
        /\ UNCHANGED <<connections_, interest, running_, watched, starts>>
    BY <1>8 DEF HandleMessage, server
  <2>2. \A d \in Clients : handler'[d].fd = handler[d].fd
    <3>1. CreateSession(c) \/ UNCHANGED handler
      <4>1. ProcessMessage(c, inbox[c])
        BY <1>8 DEF HandleMessage
      <4> QED
        BY <4>1, Zenon DEF ProcessMessage
    <3>2. CASE CreateSession(c)
      <4>1. [handler[c] EXCEPT !.session = next_session_id_].fd = handler[c].fd
        BY DEF DescriptorsInv, Types
      <4> QED
        BY <3>2, <4>1 DEF CreateSession, DescriptorsInv, Types
    <3> QED
      BY <3>1, <3>2
  <2>3. Live \subseteq Live'
    BY <2>1, <2>2, SameLive
  <2> QED
    BY <2>1, <2>3, NextEvent
<1>9. ASSUME NEW c \in Clients, HandleHangup(c) PROVE Queues'
  <2>1. /\ at = "events" /\ Head(batch) = c /\ Proceed /\ RemoveHandler(c)
        /\ interest' = RemoveFirst(interest, c) /\ UNCHANGED <<running_, starts>>
        /\ watched' = [watched EXCEPT ![c] = 0]
    BY <1>9 DEF HandleHangup, RemoveHandler, Discard, server
  <2>2. Live \ {c} \subseteq Live'
    BY <2>1, RemoveLive
  <2>3. /\ Lined(batch', Live \ {c})
        /\ batch' = <<>> <=> at' = "idle"
    BY <2>1, ProceedStep
  <2>4. Lined(interest', ({nullptr} \cup Watching) \ {c})
    BY <2>1, LinedRemove DEF Queues
  <2>5. Watching' = Watching \ {c}
    <3>1. watched'[c] = 0 /\ \A d \in Clients \ {c} : watched'[d] = watched[d]
      BY <2>1 DEF Watches
    <3> QED
      BY <2>1, <3>1 DEF Watching, Watches
  <2>6. Lined(batch', Live') /\ Lined(interest', {nullptr} \cup Watching')
    <3>1. ({nullptr} \cup Watching) \ {c} \subseteq {nullptr} \cup Watching'
      BY <2>5
    <3> QED
      BY <2>2, <2>3, <2>4, <3>1, LinedMore
  <2>7. Holds(interest', Watching')
    <3> SUFFICES ASSUME NEW p \in Watching, p # c
                 PROVE  \E i \in 1..Len(interest') : interest'[i] = p
        BY <2>5 DEF Holds
    <3>1. PICK i \in 1..Len(interest) : interest[i] = p
      BY DEF Queues, Holds
    <3> QED
      BY <2>1, <3>1, RemoveFirstKeeps DEF Queues
  <2> QED
    BY <2>3, <2>6, <2>7 DEF Queues, Lined
<1>10. CASE UNCHANGED <<handler, connections_, loop, interest, running_, watched,
                         starts>>
  <2>1. Live' = Live
    BY <1>10, SameLive
  <2> QED
    BY <1>10, <2>1, QueuesKept DEF loop
<1>11. ASSUME NEW c \in Clients, NEW m \in Messages,
              Connect(c) \/ Send(c, m) \/ Leave(c)
       PROVE  Queues'
  BY <1>10, <1>11 DEF Connect, Send, Leave, server
<1>12. CASE UNCHANGED vars
  BY <1>10, <1>12 DEF vars, server
<1> QED
  BY <1>1, <1>2, <1>3, <1>4, <1>5, <1>6, <1>7, <1>8, <1>9, <1>11, <1>12, <1>13
  DEF Next, Loop, Messages

\* The remaining variables keep their types.
LEMMA MoreTypesStep ==
    ASSUME DescriptorsInv, MoreTypes, [Next]_vars
    PROVE  MoreTypes'
<1> USE BoundsAssumption DEF MoreTypes
<1>1. sessions_ \in Seq(Clients)
  BY DEF DescriptorsInv, Types
<1>2. CASE Start
  BY <1>2 DEF Start, sessions
<1>3. ASSUME NEW c \in Clients, HandleMessage(c) PROVE MoreTypes'
  <2>1. ProcessMessage(c, inbox[c])
    BY <1>3 DEF HandleMessage
  <2>2. CASE CreateSession(c)
    <3>1. next_session_id_' = Len(sessions_') + 1
      <4>1. Len(Append(sessions_, c)) = Len(sessions_) + 1
        BY <1>1, AppendProperties
      <4> QED
        BY <2>2, <4>1 DEF CreateSession
    <3>2. authenticated' \subseteq Clients /\ proven' \subseteq Clients
      BY <2>1 DEF ProcessMessage, GetSession, sessions
    <3> QED
      BY <1>3, <3>1, <3>2 DEF HandleMessage, server
  <2>3. CASE UNCHANGED <<sessions_, next_session_id_>>
    <3>1. authenticated' \subseteq Clients /\ proven' \subseteq Clients
      BY <2>1 DEF ProcessMessage, GetSession, sessions
    <3> QED
      BY <1>3, <2>3, <3>1 DEF HandleMessage, server
  <2> QED
    BY <2>1, <2>2, <2>3 DEF ProcessMessage, sessions
<1>4. ASSUME NEW c \in Clients, HandleHangup(c) PROVE MoreTypes'
  BY <1>4 DEF HandleHangup, server
<1>5. ASSUME NEW c \in Clients, NEW m \in Messages, Send(c, m) PROVE MoreTypes'
  <2>1. sent' \in [Clients -> 0..MaxMessages]
    <3>1. sent[c] + 1 \in 0..MaxMessages
      BY <1>5 DEF Send
    <3> QED
      BY <1>5, <3>1 DEF Send
  <2>2. inbox' \in [Clients -> Messages \cup {"none"}]
    BY <1>5 DEF Send
  <2> QED
    BY <1>5, <2>1, <2>2 DEF Send, server, sessions
<1>6. CASE UNCHANGED <<tls_enabled_, sessions, inbox, sent, starts>>
  BY <1>6 DEF sessions
<1>7. \/ Stop \/ ProcessEvents \/ AcceptFails \/ AcceptConnection
      \/ \E c \in Clients : \/ Register(c) \/ Insert(c) \/ Handshake(c)
                            \/ Connect(c) \/ Leave(c)
      \/ UNCHANGED vars
      => UNCHANGED <<tls_enabled_, sessions, inbox, sent, starts>>
  BY DEF Stop, ProcessEvents, AcceptFails, AcceptConnection, Register, Insert,
         Handshake, Connect, Leave, vars, server
<1> QED
  BY <1>2, <1>3, <1>4, <1>5, <1>6, <1>7 DEF Next, Loop

\* A step that changes no session and no number of a handler, and takes no
\* handler out of the map.
LEMMA SessionsQuiet ==
    ASSUME SessionsOwn, UNCHANGED sessions_, Live \subseteq Live',
           \A c \in Clients : handler'[c].session \in {handler[c].session, 0}
    PROVE  SessionsOwn'
<1>1. \A c \in Clients : Registered(c) => Registered(c)'
  <2>1. \A c \in Clients : c # nullptr
    OBVIOUS
  <2> QED
    BY <2>1 DEF Live
<1> QED
  BY <1>1 DEF SessionsOwn

\* The head of the loop's events is in the map, unless it is nullptr.
LEMMA HeadRegistered ==
    ASSUME Queues, at = "events", NEW c \in Clients, Head(batch) = c
    PROVE  Registered(c)
<1>1. batch # <<>>
  BY DEF Queues
<1>2. c \in Live /\ c # nullptr
  BY <1>1, LinedTail DEF Queues
<1> QED
  BY <1>2 DEF Live

\* Every number belongs to its client: a new one is the next, and no entry is
\* changed.
LEMMA SessionsOwnStep ==
    ASSUME DescriptorsInv, MoreTypes, Queues, SessionsOwn, [Next]_vars
    PROVE  SessionsOwn'
<1> USE DEF DescriptorsInv, Types
<1>1. CASE UNCHANGED <<sessions_, handler, connections_>>
  BY <1>1 DEF SessionsOwn, Registered
<1>2. CASE AcceptConnection
  <2> DEFINE c == Head(backlog)
  <2>1. /\ backlog # <<>> /\ UNCHANGED <<connections_, sessions_>>
    BY <1>2 DEF AcceptConnection, sessions
  <2>2. PICK f \in Fds : handler' = [handler EXCEPT ![c] = [fd |-> f, session |-> 0]]
    BY <1>2 DEF AcceptConnection
  <2>3. c \in Clients
    BY <2>1
  <2>4. /\ \A d \in Clients \ {c} : handler'[d] = handler[d]
        /\ handler'[c].session = 0
    BY <2>2, <2>3
  <2> HIDE DEF c
  <2> QED
    BY <2>1, <2>4 DEF SessionsOwn, Registered
<1>3. ASSUME NEW c \in Clients, Handshake(c) PROVE SessionsOwn'
  <2>1. Accepted(c) /\ UNCHANGED <<connections_, sessions_>>
    BY <1>3 DEF Handshake, sessions
  <2>2. CASE UNCHANGED handler
    BY <1>1, <2>1, <2>2
  <2>3. CASE Discard(c)
    <3>1. Live \subseteq Live'
      BY <2>1, <2>3, DiscardLive
    <3>2. \A d \in Clients : handler'[d].session \in {handler[d].session, 0}
      BY <2>3 DEF Discard, NoHandler
    <3> QED
      BY <2>1, <3>1, <3>2, SessionsQuiet
  <2> QED
    BY <1>3, <2>2, <2>3 DEF Handshake
<1>4. ASSUME NEW c \in Clients, Register(c) PROVE SessionsOwn'
  <2>1. Accepted(c) /\ UNCHANGED <<connections_, sessions_>>
    BY <1>4 DEF Register, sessions
  <2>2. CASE UNCHANGED handler
    BY <1>1, <2>1, <2>2
  <2>3. CASE Discard(c)
    <3>1. Live \subseteq Live'
      BY <2>1, <2>3, DiscardLive
    <3>2. \A d \in Clients : handler'[d].session \in {handler[d].session, 0}
      BY <2>3 DEF Discard, NoHandler
    <3> QED
      BY <2>1, <3>1, <3>2, SessionsQuiet
  <2> QED
    BY <1>4, <2>2, <2>3 DEF Register
<1>8. ASSUME NEW c \in Clients, Insert(c) PROVE SessionsOwn'
  <2>1. /\ Accepted(c) /\ UNCHANGED <<handler, sessions_>>
        /\ connections_' = [connections_ EXCEPT ![handler[c].fd] = c]
    BY <1>8 DEF Insert, Keep, sessions
  <2>2. Live \subseteq Live'
    BY <2>1, RegisterLive
  <2> QED
    BY <2>1, <2>2, SessionsQuiet
<1>5. ASSUME NEW c \in Clients, HandleMessage(c) PROVE SessionsOwn'
  <2>1. UNCHANGED connections_ /\ Registered(c)
    BY <1>5, HeadRegistered DEF HandleMessage
  <2>2. CASE UNCHANGED <<sessions_, handler>>
    BY <1>1, <2>1, <2>2
  <2>3. CASE CreateSession(c)
    <3> DEFINE n == Len(sessions_)
    <3>1. /\ n \in Nat /\ next_session_id_ = n + 1
          /\ sessions_' = Append(sessions_, c)
          /\ handler' = [handler EXCEPT ![c].session = n + 1]
      BY <2>3, LenProperties DEF CreateSession, MoreTypes
    <3>2. /\ Len(sessions_') = n + 1 /\ sessions_'[n + 1] = c
          /\ \A i \in 1..n : sessions_'[i] = sessions_[i]
      BY <3>1, AppendProperties
    <3>3. /\ handler'[c].session = n + 1 /\ handler'[c].fd = handler[c].fd
          /\ \A d \in Clients \ {c} : handler'[d] = handler[d]
      BY <3>1
    <3> HIDE DEF n
    <3>4. n + 1 \in 1..(n + 1) /\ 1..n \subseteq 1..(n + 1)
      BY <3>1
    <3>5. Registered(c)' /\ \A d \in Clients : Registered(d) => Registered(d)'
      BY <2>1, <3>3 DEF Registered
    <3>6. ASSUME NEW d \in Clients, handler'[d].session # 0
          PROVE  /\ Registered(d)'
                 /\ handler'[d].session \in 1..Len(sessions_')
                 /\ sessions_'[handler'[d].session] = d
      <4>1. CASE d = c
        BY <3>2, <3>3, <3>4, <3>5, <4>1
      <4>2. CASE d # c
        <5>1. /\ Registered(d) /\ handler[d].session \in 1..n
              /\ sessions_[handler[d].session] = d
              /\ handler'[d].session = handler[d].session
          BY <3>3, <3>6, <4>2 DEF SessionsOwn, n
        <5> QED
          BY <3>2, <3>4, <3>5, <5>1
      <4> QED
        BY <4>1, <4>2
    <3> QED
      BY <3>6 DEF SessionsOwn
  <2>4. ProcessMessage(c, inbox[c])
    BY <1>5 DEF HandleMessage
  <2> QED
    BY <2>2, <2>3, <2>4 DEF ProcessMessage, sessions
<1>6. ASSUME NEW c \in Clients, HandleHangup(c) PROVE SessionsOwn'
  <2>1. RemoveHandler(c) /\ sessions_' \in {sessions_, Append(sessions_, c)}
    BY <1>6 DEF HandleHangup
  <2>2. /\ handler'[c].session = 0
        /\ \A d \in Clients \ {c} : handler'[d] = handler[d]
    BY <2>1 DEF RemoveHandler, Discard, NoHandler
  <2>3. \A d \in Clients \ {c} : Registered(d) => Registered(d)'
    <3>1. Live \ {c} \subseteq Live'
      BY <2>1, RemoveLive
    <3>2. \A d \in Clients : d # nullptr
      OBVIOUS
    <3> QED
      BY <3>1, <3>2 DEF Live
  <2>4. \A i \in 1..Len(sessions_) : i \in 1..Len(sessions_')
                                     /\ sessions_'[i] = sessions_[i]
    <3>1. Len(sessions_) \in Nat
      BY LenProperties
    <3>2. CASE sessions_' = Append(sessions_, c)
      <4>1. /\ Len(sessions_') = Len(sessions_) + 1
            /\ \A i \in 1..Len(sessions_) : sessions_'[i] = sessions_[i]
        BY <3>2, AppendProperties
      <4> QED
        BY <3>1, <4>1
    <3> QED
      BY <2>1, <3>2
  <2>5. ASSUME NEW d \in Clients, handler'[d].session # 0
        PROVE  /\ Registered(d)'
               /\ handler'[d].session \in 1..Len(sessions_')
               /\ sessions_'[handler'[d].session] = d
    <3>1. d # c /\ handler'[d] = handler[d]
      BY <2>2, <2>5
    <3>2. /\ Registered(d) /\ handler[d].session \in 1..Len(sessions_)
          /\ sessions_[handler[d].session] = d
      BY <2>5, <3>1 DEF SessionsOwn
    <3> QED
      BY <2>3, <2>4, <3>1, <3>2
  <2> QED
    BY <2>5 DEF SessionsOwn
<1>7. \/ Start \/ Stop \/ ProcessEvents \/ AcceptFails
      \/ \E c \in Clients, m \in Messages : Connect(c) \/ Leave(c) \/ Send(c, m)
      \/ UNCHANGED vars
      => UNCHANGED <<sessions_, handler, connections_>>
  BY DEF Start, Stop, ProcessEvents, AcceptFails, Connect, Leave, Send, vars,
         sessions
<1> QED
  BY <1>1, <1>2, <1>3, <1>4, <1>5, <1>6, <1>7, <1>8 DEF Next, Loop, Messages

\* A client that has been served its CONNECT keeps a session for as long as it
\* can send.
LEMMA ConnectsFirstStep ==
    ASSUME DescriptorsInv, MoreTypes, Queues, SessionsOwn, ConnectsFirst,
           [Next]_vars
    PROVE  ConnectsFirst'
<1> USE DEF DescriptorsInv, Types, MoreTypes
<1>1. ASSUME UNCHANGED <<inbox, sent>>,
             \A c \in Clients : /\ peer'[c] \in {peer[c], "left"}
                                /\ handler'[c].session = handler[c].session
      PROVE  ConnectsFirst'
  BY <1>1 DEF ConnectsFirst
\* A handler that is being accepted has no session yet.
<1>2. ASSUME NEW c \in Clients, Accepted(c), Discard(c), UNCHANGED <<inbox, sent>>,
             peer' = [peer EXCEPT ![c] = "left"]
      PROVE  ConnectsFirst'
  <2>1. handler[c].session = 0
    BY <1>2 DEF SessionsOwn, Registered, Accepted
  <2>2. \A d \in Clients : /\ peer'[d] \in {peer[d], "left"}
                           /\ handler'[d].session = handler[d].session
    BY <1>2, <2>1 DEF Discard, NoHandler
  <2> QED
    BY <1>1, <1>2, <2>2
<1>3. CASE AcceptConnection
  <2> DEFINE c == Head(backlog)
  <2>1. backlog # <<>> /\ UNCHANGED <<inbox, sent, peer>>
    BY <1>3 DEF AcceptConnection
  <2>2. PICK f \in Fds : handler' = [handler EXCEPT ![c] = [fd |-> f, session |-> 0]]
    BY <1>3 DEF AcceptConnection
  <2>3. c \in Clients /\ c = backlog[1] /\ 1 \in DOMAIN backlog
    BY <2>1
  <2>4. handler[c].session = 0
    <3>1. handler[c].fd = -1
      BY <2>3 DEF Waiting
    <3> QED
      BY <2>3, <3>1 DEF SessionsOwn, Registered, Fds
  <2>5. \A d \in Clients : handler'[d].session = handler[d].session
    <3> HIDE DEF c
    <3> QED
      BY <2>2, <2>3, <2>4
  <2> QED
    BY <1>1, <2>1, <2>5
<1>4. ASSUME NEW c \in Clients, Handshake(c) PROVE ConnectsFirst'
  <2>1. Accepted(c) /\ UNCHANGED <<inbox, sent>>
    BY <1>4 DEF Handshake
  <2>2. CASE UNCHANGED <<handler, peer>>
    BY <1>1, <2>1, <2>2
  <2>3. CASE Discard(c) /\ peer' = [peer EXCEPT ![c] = "left"]
    BY <1>2, <2>1, <2>3
  <2> QED
    BY <1>4, <2>2, <2>3 DEF Handshake
<1>5. ASSUME NEW c \in Clients, Register(c) PROVE ConnectsFirst'
  <2>1. Accepted(c) /\ UNCHANGED <<inbox, sent>>
    BY <1>5 DEF Register
  <2>2. CASE UNCHANGED <<handler, peer>>
    BY <1>1, <2>1, <2>2
  <2>3. CASE Discard(c) /\ peer' = [peer EXCEPT ![c] = "left"]
    BY <1>2, <2>1, <2>3
  <2> QED
    BY <1>5, <2>2, <2>3 DEF Register
<1>6. ASSUME NEW c \in Clients, HandleMessage(c) PROVE ConnectsFirst'
  <2>1. /\ inbox[c] # "none" /\ inbox' = [inbox EXCEPT ![c] = "none"]
        /\ ProcessMessage(c, inbox[c]) /\ UNCHANGED <<peer, sent>>
    BY <1>6 DEF HandleMessage
  <2>2. \A d \in Clients \ {c} : handler'[d] = handler[d] /\ inbox'[d] = inbox[d]
    BY <2>1, Zenon DEF ProcessMessage, CreateSession
  <2>3. inbox'[c] = "none"
    BY <2>1
  <2>4. handler'[c].session # 0
    <3>1. CASE inbox[c] \in {"CONNECT", "CONNECT_NOAUTH"}
      <4>1. CreateSession(c)
        BY <2>1, <3>1 DEF ProcessMessage
      <4>2. handler'[c].session = next_session_id_
        BY <4>1 DEF CreateSession
      <4>3. Len(sessions_) \in Nat
        BY LenProperties
      <4> QED
        BY <4>2, <4>3
    <3>2. CASE inbox[c] \in {"AUTH", "AUTH_WRONG"}
      <4>1. UNCHANGED handler
        BY <2>1, <3>2 DEF ProcessMessage
      <4> QED
        BY <3>2, <4>1 DEF ConnectsFirst
    <3> QED
      BY <2>1, <3>1, <3>2 DEF Messages
  <2> QED
    BY <2>1, <2>2, <2>3, <2>4 DEF ConnectsFirst
<1>7. ASSUME NEW c \in Clients, HandleHangup(c) PROVE ConnectsFirst'
  <2>1. /\ peer[c] = "left" /\ inbox' = [inbox EXCEPT ![c] = "none"]
        /\ handler' = [handler EXCEPT ![c] = NoHandler] /\ UNCHANGED <<peer, sent>>
    BY <1>7 DEF HandleHangup, RemoveHandler, Discard
  <2>2. inbox'[c] = "none"
    BY <2>1
  <2>3. \A d \in Clients \ {c} : handler'[d] = handler[d] /\ inbox'[d] = inbox[d]
    BY <2>1
  <2> QED
    BY <2>1, <2>2, <2>3 DEF ConnectsFirst
<1>8. ASSUME NEW c \in Clients, Connect(c) PROVE ConnectsFirst'
  BY <1>8 DEF Connect, ConnectsFirst
<1>9. ASSUME NEW c \in Clients, NEW m \in Messages, Send(c, m)
      PROVE  ConnectsFirst'
  <2>1. /\ peer[c] = "up" /\ inbox[c] = "none" /\ UNCHANGED <<peer, handler>>
        /\ sent[c] = 0 => m \in {"CONNECT", "CONNECT_NOAUTH"}
        /\ inbox' = [inbox EXCEPT ![c] = m]
        /\ \A d \in Clients \ {c} : sent'[d] = sent[d]
    BY <1>9 DEF Send
  <2>2. /\ inbox'[c] = m /\ m # "none"
        /\ \A d \in Clients \ {c} : inbox'[d] = inbox[d]
    BY <2>1 DEF Messages
  <2>3. m \in {"AUTH", "AUTH_WRONG"} => handler[c].session # 0
    <3>1. sent[c] = 0 \/ sent[c] > 0
      BY BoundsAssumption
    <3> QED
      BY <2>1, <3>1 DEF ConnectsFirst
  <2> QED
    BY <2>1, <2>2, <2>3 DEF ConnectsFirst
<1>10. ASSUME NEW c \in Clients, Leave(c) PROVE ConnectsFirst'
  BY <1>1, <1>10 DEF Leave
<1>11. CASE Stop
  <2>1. \A c \in Clients : peer'[c] \in {peer[c], "left"}
    BY <1>11 DEF Stop
  <2> QED
    BY <1>1, <1>11, <2>1 DEF Stop
<1>13. ASSUME NEW c \in Clients, Insert(c) PROVE ConnectsFirst'
  BY <1>1, <1>13 DEF Insert
<1>12. Start \/ ProcessEvents \/ AcceptFails \/ UNCHANGED vars => ConnectsFirst'
  <2>1. Start \/ ProcessEvents \/ AcceptFails \/ UNCHANGED vars
            => UNCHANGED <<inbox, sent, peer, handler>>
    BY DEF Start, ProcessEvents, AcceptFails, vars
  <2> QED
    BY <1>1, <2>1
<1> QED
  BY <1>3, <1>4, <1>5, <1>6, <1>7, <1>8, <1>9, <1>10, <1>11, <1>12, <1>13
  DEF Next, Loop

\* A password logs its own client's session in, since that is what
\* SessionManager finds under the number.
LEMMA LoginStep ==
    ASSUME DescriptorsInv, SessionsOwn, ConnectsFirst, LoginIsOwn, [Next]_vars
    PROVE  LoginIsOwn'
<1> USE DEF LoginIsOwn
<1>1. ASSUME NEW c \in Clients, HandleMessage(c) PROVE LoginIsOwn'
  <2>1. ProcessMessage(c, inbox[c])
    BY <1>1 DEF HandleMessage
  <2>2. CASE inbox[c] \in {"CONNECT", "CONNECT_NOAUTH"}
    BY <2>1, <2>2 DEF ProcessMessage
  <2>3. CASE inbox[c] = "AUTH"
    <3> DEFINE id == handler[c].session
    <3>1. id # 0
      BY <2>3 DEF ConnectsFirst
    <3>2. sessions_[id] = c
      BY <3>1 DEF SessionsOwn
    <3>3. GetSession(id) = {c}
      BY <3>2 DEF GetSession
    <3> QED
      BY <2>1, <2>3, <3>3 DEF ProcessMessage
  <2>4. CASE inbox[c] = "AUTH_WRONG"
    BY <2>1, <2>4 DEF ProcessMessage, sessions
  <2> QED
    BY <2>1, <2>2, <2>3, <2>4 DEF ProcessMessage
<1>2. ASSUME NEW c \in Clients, HandleHangup(c) PROVE LoginIsOwn'
  BY <1>2 DEF HandleHangup
<1>3. CASE UNCHANGED sessions
  BY <1>3 DEF sessions
<1>4. \/ UNCHANGED sessions
      \/ \E c \in Clients : HandleMessage(c) \/ HandleHangup(c)
  BY DEF Next, Loop, Start, Stop, ProcessEvents, AcceptFails, AcceptConnection,
         Handshake, Register, Insert, Connect, Send, Leave, vars
<1> QED
  BY <1>1, <1>2, <1>3, <1>4

-----------------------------------------------------------------------------
\* epoll keeps what it was given until the handler is deleted.
LEMMA WatchesStep ==
    ASSUME DescriptorsInv, Watches, Queues, [Next]_vars
    PROVE  Watches'
<1> USE DEF DescriptorsInv, Types, Watches
<1>1. ASSUME UNCHANGED <<connections_, watched>>, running_' => running_,
             starts' = starts,
             \A d \in Clients : handler'[d].fd = handler[d].fd,
             at' = at \/ (at # "insert" /\ at' # "insert")
      PROVE  Watches'
  <2>1. \A d \in Clients : /\ Registered(d)' <=> Registered(d)
                           /\ (at = "insert" /\ Accepted(d))'
                                  <=> at = "insert" /\ Accepted(d)
    BY <1>1 DEF Registered, Accepted
  <2> QED
    BY <1>1, <2>1
<1>2. CASE Start
  <2>1. /\ UNCHANGED <<connections_, handler, watched>> /\ starts' = starts + 1
        /\ at = "idle" /\ at' = at
    BY <1>2 DEF Start, loop
  <2>2. \A d \in Clients : Registered(d)' <=> Registered(d)
    BY <2>1 DEF Registered
  <2> QED
    BY <2>1, <2>2
<1>3. CASE Stop
  BY <1>1, <1>3 DEF Stop, loop
<1>4. CASE ProcessEvents
  BY <1>1, <1>4 DEF ProcessEvents, server
<1>5. CASE AcceptFails
  BY <1>1, <1>5 DEF AcceptFails, Proceed, server
<1>6. CASE AcceptConnection
  <2> DEFINE c == Head(backlog)
  <2>1. /\ backlog # <<>> /\ at = "events" /\ at' # "insert"
        /\ UNCHANGED <<connections_, watched, starts, running_>>
    BY <1>6 DEF AcceptConnection, server
  <2>2. PICK f \in Fds :
            /\ f \in Free
            /\ handler' = [handler EXCEPT ![c] = [fd |-> f, session |-> 0]]
    BY <1>6 DEF AcceptConnection, Lowest
  <2>3. c \in Clients /\ c = backlog[1] /\ 1 \in DOMAIN backlog
    BY <2>1
  <2>4. handler[c].fd = -1
    BY <2>3 DEF Waiting
  <2>5. connections_[f] # c
    BY <2>2, <2>3 DEF Free, DescriptorsAgree
  <2>6. \A d \in Clients : Registered(d)' <=> Registered(d)
    <3>1. handler'[c].fd = f /\ \A d \in Clients \ {c} : handler'[d] = handler[d]
      BY <2>2, <2>3
    <3> HIDE DEF c, DescriptorsInv, Types, Watches
    <3>2. \A d \in Clients : d = c => ~Registered(d) /\ ~Registered(d)'
      BY <2>1, <2>4, <2>5, <3>1 DEF Registered, Fds
    <3>3. \A d \in Clients \ {c} : Registered(d)' <=> Registered(d)
      BY <2>1, <3>1, Zenon DEF Registered
    <3> QED
      BY <3>2, <3>3
  <2> QED
    BY <2>1, <2>6
<1>7. ASSUME NEW c \in Clients, Accepted(c), Discard(c), at # "insert",
             at' # "insert", UNCHANGED <<connections_, starts, running_>>
      PROVE  Watches'
  <2>1. UNCHANGED watched
    BY <1>7, GiveUpUnwatched
  <2>2. \A d \in Clients : Registered(d)' <=> Registered(d)
    <3>1. ~Registered(c)
      BY <1>7 DEF Accepted, Registered
    <3>2. handler'[c].fd = -1 /\ \A d \in Clients \ {c} : handler'[d] = handler[d]
      BY <1>7 DEF Discard, NoHandler
    <3> HIDE DEF DescriptorsInv, Types, Watches
    <3>3. ~Registered(c)'
      BY <3>2 DEF Registered, Fds
    <3>4. \A d \in Clients \ {c} : Registered(d)' <=> Registered(d)
      BY <1>7, <3>2, Zenon DEF Registered
    <3> QED
      BY <3>1, <3>3, <3>4
  <2> QED
    BY <1>7, <2>1, <2>2
<1>8. ASSUME NEW c \in Clients, Handshake(c) PROVE Watches'
  <2>1. /\ Accepted(c) /\ at = "handshake"
        /\ UNCHANGED <<connections_, starts, running_>>
    BY <1>8 DEF Handshake, server
  <2>2. CASE at' = "register" /\ UNCHANGED <<handler, watched>>
    BY <1>1, <2>1, <2>2
  <2>3. CASE Discard(c) /\ Proceed
    BY <1>7, <2>1, <2>3 DEF Proceed
  <2> QED
    BY <1>8, <2>2, <2>3 DEF Handshake
<1>9. ASSUME NEW c \in Clients, Register(c) PROVE Watches'
  <2>1. /\ Accepted(c) /\ at = "register"
        /\ UNCHANGED <<connections_, starts, running_>>
    BY <1>9 DEF Register, server
  <2>2. CASE Discard(c) /\ Proceed
    BY <1>7, <2>1, <2>2 DEF Proceed
  <2>3. CASE epoll_fd_ # -1 /\ Watch(c) /\ at' = "insert" /\ UNCHANGED handler
    <3>1. watched' = [watched EXCEPT ![c] = starts]
      BY <2>3 DEF Watch
    <3>2. starts # 0
      BY <2>3 DEF Running
    <3>3. \A d \in Clients : /\ Registered(d)' <=> Registered(d)
                             /\ Accepted(d)' <=> d = c
      BY <2>1, <2>3 DEF Registered, Accepted, OneAccepted
    <3>4. \A d \in Clients \ {c} : watched'[d] = watched[d]
      BY <3>1
    <3>5. watched'[c] = starts
      BY <3>1
    <3>6. \A d \in Clients : watched'[d] # 0 <=> Registered(d)' \/ d = c
      BY <2>1, <3>2, <3>3, <3>4, <3>5
    <3> QED
      BY <2>1, <2>3, <3>1, <3>2, <3>3, <3>4, <3>5, <3>6
  <2> QED
    BY <1>9, <2>2, <2>3 DEF Register
<1>10. ASSUME NEW c \in Clients, Insert(c) PROVE Watches'
  <2>1. /\ Accepted(c) /\ at = "insert" /\ at' # "insert"
        /\ connections_' = [connections_ EXCEPT ![handler[c].fd] = c]
        /\ UNCHANGED <<handler, watched, starts, running_>>
    BY <1>10 DEF Insert, Keep, Proceed, server
  <2>2. \A d \in Clients : Accepted(d) <=> d = c
    BY <2>1 DEF OneAccepted
  <2>3. \A d \in Clients : Registered(d) => Registered(d)'
    <3>1. Live \cup {c} \subseteq Live'
      BY <2>1, RegisterLive
    <3>2. \A d \in Clients : d # nullptr
      OBVIOUS
    <3> QED
      BY <3>1, <3>2 DEF Live
  <2>4. Registered(c)' /\ \A d \in Clients \ {c} : Registered(d)' => Registered(d)
    BY <2>1 DEF Registered, Accepted
  <2> QED
    BY <2>1, <2>2, <2>3, <2>4
<1>11. ASSUME NEW c \in Clients, HandleMessage(c) PROVE Watches'
  <2>1. /\ at = "events" /\ at' # "insert"
        /\ UNCHANGED <<connections_, watched, starts, running_>>
    BY <1>11 DEF HandleMessage, Proceed, server
  <2>2. \A d \in Clients : handler'[d].fd = handler[d].fd
    <3>1. CreateSession(c) \/ UNCHANGED handler
      <4>1. ProcessMessage(c, inbox[c])
        BY <1>11 DEF HandleMessage
      <4> QED
        BY <4>1, Zenon DEF ProcessMessage
    <3>2. CASE CreateSession(c)
      <4>1. [handler[c] EXCEPT !.session = next_session_id_].fd = handler[c].fd
        OBVIOUS
      <4> QED
        BY <3>2, <4>1 DEF CreateSession
    <3> QED
      BY <3>1, <3>2
  <2> QED
    BY <1>1, <2>1, <2>2
<1>12. ASSUME NEW c \in Clients, HandleHangup(c) PROVE Watches'
  <2>1. /\ at = "events" /\ at' # "insert" /\ RemoveHandler(c)
        /\ UNCHANGED <<starts, running_>>
        /\ watched' = [watched EXCEPT ![c] = 0]
        /\ connections_' = [connections_ EXCEPT ![handler[c].fd] = nullptr]
    BY <1>12 DEF HandleHangup, RemoveHandler, Discard, Proceed, server
  <2>2. /\ handler'[c].fd = -1
        /\ \A d \in Clients \ {c} : handler'[d] = handler[d]
    BY <2>1 DEF RemoveHandler, Discard, NoHandler
  <2>3. ~Registered(c)'
    BY <2>2 DEF Registered, Fds
  <2>4. \A d \in Clients \ {c} : Registered(d) => Registered(d)'
    <3>1. Live \ {c} \subseteq Live'
      BY <2>1, RemoveLive
    <3>2. \A d \in Clients : d # nullptr
      OBVIOUS
    <3> QED
      BY <3>1, <3>2 DEF Live
  <2>5. \A d \in Clients \ {c} : Registered(d)' => Registered(d)
    BY <2>1, <2>2 DEF Registered
  <2>6. /\ watched'[c] = 0 /\ \A d \in Clients \ {c} : watched'[d] = watched[d]
    BY <2>1
  <2> QED
    BY <2>1, <2>3, <2>4, <2>5, <2>6
<1>13. ASSUME NEW c \in Clients, NEW m \in Messages,
              Connect(c) \/ Send(c, m) \/ Leave(c)
       PROVE  Watches'
  BY <1>1, <1>13 DEF Connect, Send, Leave, server, loop
<1>14. CASE UNCHANGED vars
  BY <1>1, <1>14 DEF vars, server, loop
<1> QED
  BY <1>2, <1>3, <1>4, <1>5, <1>6, <1>8, <1>9, <1>10, <1>11, <1>12, <1>13, <1>14
  DEF Next, Loop, Messages

\* The invariant of the pointers and the sessions, for the theorems below.
THEOREM SessionsInvariant == Spec => [](DescriptorsInv /\ SessionsInv)
<1>1. DescriptorsInv /\ SessionsInv /\ [Next]_vars => SessionsInv'
  BY MoreTypesStep, WatchesStep, QueuesStep, SessionsOwnStep, ConnectsFirstStep, LoginStep
  DEF SessionsInv
<1> QED
  BY <1>1, InitSessions, DescriptorsInvariant, PTL DEF Spec

\* Every variable of the server keeps its type.
THEOREM ServerTypes == Spec => []TypeOK
<1>1. DescriptorsInv /\ SessionsInv => TypeOK
  <2> SUFFICES ASSUME DescriptorsInv, SessionsInv PROVE TypeOK
      OBVIOUS
  <2>1. /\ batch \in Seq(Clients \cup {nullptr})
        /\ interest \in Seq(Clients \cup {nullptr})
        /\ batch = <<>> <=> at = "idle"
    BY DEF SessionsInv, Queues, Lined, Pointers
  <2>2. /\ DOMAIN files = Fds
        /\ \A fd \in Fds : files[fd] \in {"free", "listen", "epoll"}
                           \/ files[fd] \in Clients
    BY DEF DescriptorsInv, Types, Kinds
  <2> QED
    <3>1. watched \in [Clients -> 0..MaxStarts]
      BY BoundsAssumption DEF SessionsInv, MoreTypes, Watches
    <3> QED
      BY <2>1, <2>2, <3>1 DEF TypeOK, DescriptorsInv, Types, SessionsInv, MoreTypes
<1> QED
  BY <1>1, SessionsInvariant, PTL

\* Whatever was accepted, closed, stopped and started: epoll and the loop only
\* hold pointers to handlers that exist, and none of them twice.
THEOREM PointersStayLive == Spec => []PointersLive
<1>1. DescriptorsInv /\ SessionsInv => PointersLive
  <2> SUFFICES ASSUME DescriptorsInv, SessionsInv PROVE PointersLive
      OBVIOUS
  <2>1. ASSUME NEW l, NEW S, Lined(l, S),
               \A p \in S : p = nullptr \/ handler[p] # NoHandler
        PROVE  /\ IsInjective(l)
               /\ \A p \in ToSet(l) : p = nullptr \/ handler[p] # NoHandler
    <3>1. DOMAIN l = 1..Len(l)
      BY <2>1, LenProperties DEF Lined
    <3>2. IsInjective(l)
      BY <2>1, <3>1 DEF Lined, IsInjective
    <3>3. \A p \in ToSet(l) : p \in S
      BY <2>1, <3>1 DEF Lined, ToSet
    <3> QED
      BY <2>1, <3>2, <3>3
  <2>2. \A p \in Live : p = nullptr \/ handler[p] # NoHandler
    BY DEF Live, Registered, NoHandler, Fds
  <2>3. \A p \in {nullptr} \cup Watching : p = nullptr \/ handler[p] # NoHandler
    <3> SUFFICES ASSUME NEW p \in Watching PROVE handler[p] # NoHandler
        OBVIOUS
    <3>1. p \in Clients /\ watched[p] # 0
      BY DEF Watching, SessionsInv, Watches
    <3>2. handler[p].fd \in Fds
      BY <3>1 DEF SessionsInv, Watches, Registered, Accepted
    <3> QED
      BY <3>2 DEF NoHandler, Fds
  <2>4. Lined(batch, Live) /\ Lined(interest, {nullptr} \cup Watching)
    BY DEF SessionsInv, Queues
  <2> QED
    BY <2>1, <2>2, <2>3, <2>4 DEF PointersLive
<1> QED
  BY <1>1, SessionsInvariant, PTL

\* Between epoll_ctl and the map, and between Stop and the next Start: what is
\* in the map was given to epoll, and is read from while that server runs.
THEOREM ConnectionsServed == Spec => []ServedByItsServer
<1>1. DescriptorsInv /\ SessionsInv => ServedByItsServer
  <2> SUFFICES ASSUME DescriptorsInv, SessionsInv, NEW fd \in Fds,
                      NEW c \in Clients, connections_[fd] = c
               PROVE  /\ watched[c] # 0
                      /\ c \in ToSet(interest) <=> c \in Watching
      BY DEF ServedByItsServer, Watching
  <2>1. watched[c] # 0
    <3>1. Registered(c)
      BY DEF DescriptorsInv, DescriptorsAgree, Registered
    <3> QED
      BY <3>1 DEF SessionsInv, Watches
  <2>2. DOMAIN interest = 1..Len(interest)
    BY LenProperties DEF SessionsInv, Queues, Lined
  <2>3. ASSUME c \in ToSet(interest) PROVE c \in Watching
    <3>1. PICK i \in 1..Len(interest) : interest[i] = c
      BY <2>2, <2>3 DEF ToSet
    <3>2. c # nullptr
      OBVIOUS
    <3> QED
      BY <3>1, <3>2 DEF SessionsInv, Queues, Lined
  <2>4. ASSUME c \in Watching PROVE c \in ToSet(interest)
    BY <2>2, <2>4 DEF SessionsInv, Queues, Holds, ToSet
  <2> QED
    BY <2>1, <2>3, <2>4
<1> QED
  BY <1>1, SessionsInvariant, PTL

\* No session is ever logged in by another client than its own, although they
\* are found by number and handlers come and go.
THEOREM LoginsAreOwn == Spec => []LoginIsOwn
<1>1. SessionsInv => LoginIsOwn
  BY DEF SessionsInv
<1> QED
  BY <1>1, SessionsInvariant, PTL

================================================================================
