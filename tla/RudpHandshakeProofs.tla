------------------------ MODULE RudpHandshakeProofs ------------------------
(***************************************************************************)
(* Proofs about RudpHandshake, for any clients and number of sockets: the  *)
(* types, that no end is connected alone, and that a pair of sockets is    *)
(* left in the state that RudpTransfer starts from.                        *)
(***************************************************************************)
EXTENDS RudpHandshake, TLAPS

(* What a socket of the server is, and who talks to whom: a packet is on   *)
(* its way between a client and a socket that accept() has made for it, or *)
(* it is a SYN to the listening socket; and who sends an ACK has a SYN.    *)
RouteInv ==
  /\ \A s \in Sockets : step[s] # "none" => receiverAddress[s] \in Clients
  /\ \A c \in Clients : receiverAddress[c] # Server => receiverAddress[c] \in SocketsOf(c)
  /\ \A p \in packets :
       /\ p.from \in Clients => p.to = Server \/ p.to \in SocketsOf(p.from)
       /\ p.from \in Sockets => p.to \in Clients /\ p.from \in SocketsOf(p.to)
       /\ p.type = "ACK" => p.to # Server /\ firstPacketSequenceNumber[p.from] = 2

(* A socket with a dictionary of its own.                                  *)
Alone(x) ==
  \/ /\ step[x] \in {"none", "sent"} /\ windowSize[x] = 1
     /\ ~isConnected[x] /\ Process(x) \notin waiting
  \/ /\ step[x] = "open" /\ windowSize[x] = 1
     /\ ~isConnected[x] /\ Process(x) \in waiting
  \/ /\ step[x] = "open" /\ windowSize[x] = 2
     /\ isConnected[x] /\ Process(x) \notin waiting

OthersUnused(s) == \A t \in Sockets \ {s} : step[t] = "none"

WindowInv ==
  /\ \A c \in Clients : Alone(c) /\ (isConnected[c] => receiverAddress[c] # Server)
  /\ \A s \in Sockets : step[s] = "none" => ~isConnected[s]
  /\ \A s \in Sockets : OthersUnused(s) => Alone(s)

HandshakeInv == TypeOK /\ RouteInv /\ WindowInv /\ ConnectedMeansAnswered

(* Clients, sockets and the listening address are different ends. *)
LEMMA Distinct ==
  /\ Sockets \cap Clients = {} /\ Server \notin Ends
  /\ Ends \subseteq Addresses /\ Server \in Addresses
  /\ \A s \in Sockets : s \in Nat
  /\ \A c \in Clients : Process(c) = c
  /\ \A s \in Sockets : Process(s) = Server
BY ClientsAssumption, SizesAssumption DEF Sockets, Ends, Addresses, Server, Process

(* The initial state has the invariant. *)
LEMMA InitHandshake == Init => HandshakeInv
<1> SUFFICES ASSUME Init PROVE HandshakeInv
  OBVIOUS
<1>1. TypeOK
  BY Distinct, SizesAssumption DEF Init, TypeOK, ConnectSteps, Server
<1>2. RouteInv
  BY Distinct DEF Init, RouteInv, Ends
<1>3. WindowInv
  BY Distinct DEF Init, WindowInv, Alone, Ends
<1>4. ConnectedMeansAnswered
  BY DEF Init, ConnectedMeansAnswered
<1> QED BY <1>1, <1>2, <1>3, <1>4 DEF HandshakeInv

(* The first half of connect(), for either side. *)
LEMMA SynType ==
  ASSUME NEW x \in Ends, NEW address \in Addresses
  PROVE  /\ SYN(x, address) \in Packets /\ ACK(x, address) \in Packets
         /\ SYN(x, address).type = "SYN" /\ SYN(x, address).from = x /\ SYN(x, address).to = address
         /\ ACK(x, address).type = "ACK" /\ ACK(x, address).from = x /\ ACK(x, address).to = address
BY DEF SYN, ACK, Packets

(* A client's connect() sends its SYN. *)
LEMMA ConnectStep == ASSUME NEW c \in Clients, HandshakeInv, connect(c) PROVE HandshakeInv'
<1> DEFINE syn == SYN(c, Server)
<1>1. c \in Ends /\ Server \in Addresses
  BY Distinct DEF Ends
<1>2. syn \in Packets /\ syn.type = "SYN" /\ syn.from = c /\ syn.to = Server
  BY <1>1, SynType
<1> HIDE DEF syn
<1>3. /\ step[c] = "none" /\ step' = [step EXCEPT ![c] = "sent"]
      /\ receiverAddress' = [receiverAddress EXCEPT ![c] = Server]
      /\ packets' = packets \union {syn}
      /\ UNCHANGED <<firstPacketSequenceNumber, windowSize, isConnected, waiting, session>>
  BY DEF connect, sendSyn, syn
<1>4. TypeOK'
  BY <1>1, <1>2, <1>3 DEF HandshakeInv, TypeOK, ConnectSteps
<1>5. \A s \in Sockets : step'[s] = step[s] /\ receiverAddress'[s] = receiverAddress[s]
  BY <1>3, Distinct DEF HandshakeInv, TypeOK, Ends
<1>6. \A d \in Clients : SocketsOf(d)' = SocketsOf(d)
  BY <1>5 DEF SocketsOf
<1>7. RouteInv'
  BY <1>1, <1>2, <1>3, <1>5, <1>6, Distinct DEF HandshakeInv, RouteInv, TypeOK, Ends
<1>8. WindowInv'
  BY <1>1, <1>3, <1>5, Distinct DEF HandshakeInv, WindowInv, Alone, OthersUnused, TypeOK, Ends
<1>9. ConnectedMeansAnswered'
  BY <1>3, <1>5, <1>6, Distinct DEF HandshakeInv, ConnectedMeansAnswered, Ends
<1> QED BY <1>4, <1>7, <1>8, <1>9 DEF HandshakeInv

(* accept() takes a SYN and sends one of its own. *)
LEMMA AcceptStep ==
  ASSUME NEW s \in Sockets, NEW p \in packets, HandshakeInv, accept(s, p) PROVE HandshakeInv'
<1> DEFINE c == p.from
           syn == SYN(s, c)
<1>1. p \in Packets /\ c \in Clients /\ s \in Ends /\ c \in Addresses
  BY Distinct DEF HandshakeInv, TypeOK, RouteInv, accept, Packets, Ends, Addresses
<1>2. syn \in Packets /\ syn.type = "SYN" /\ syn.from = s /\ syn.to = c
  BY <1>1, SynType
<1>3. /\ step[s] = "none" /\ step' = [step EXCEPT ![s] = "sent"]
      /\ receiverAddress' = [receiverAddress EXCEPT ![s] = c]
      /\ packets' = (packets \ {p}) \union {syn}
      /\ \A t \in Sockets : IF t < s THEN step[t] = "open" ELSE step[t] = "none"
      /\ UNCHANGED <<firstPacketSequenceNumber, windowSize, isConnected, waiting, session>>
  BY DEF accept, sendSyn
<1> HIDE DEF syn, c
<1>4. TypeOK'
  BY <1>1, <1>2, <1>3 DEF HandshakeInv, TypeOK, ConnectSteps
<1>5. /\ \A x \in Ends : x # s => step'[x] = step[x] /\ receiverAddress'[x] = receiverAddress[x]
      /\ step'[s] = "sent" /\ receiverAddress'[s] = c
  BY <1>1, <1>3 DEF HandshakeInv, TypeOK
<1>6. \A d \in Clients : SocketsOf(d) \subseteq SocketsOf(d)'
  BY <1>3, <1>5, Distinct DEF SocketsOf, Ends
<1>7. s \in SocketsOf(c)'
  BY <1>5 DEF SocketsOf
<1>8. RouteInv'
  BY <1>1, <1>2, <1>3, <1>5, <1>6, <1>7, Distinct DEF HandshakeInv, RouteInv, TypeOK, Ends
<1>9. WindowInv'
  <2>1. \A t \in Sockets : step'[t] = "none" => ~isConnected'[t]
    BY <1>3, <1>5, Distinct DEF HandshakeInv, WindowInv, Ends
  <2>2. \A d \in Clients : Alone(d)' /\ (isConnected'[d] => receiverAddress'[d] # Server)
    BY <1>3, <1>5, Distinct DEF HandshakeInv, WindowInv, Alone, Ends
  <2>3. ASSUME NEW t \in Sockets, OthersUnused(t)' PROVE Alone(t)'
    <3>1. t = s
      BY <1>5, <2>3 DEF OthersUnused
    <3>2. OthersUnused(s)
      BY <1>5, <2>3, <3>1, Distinct DEF OthersUnused, Ends
    <3> QED BY <1>3, <1>5, <3>1, <3>2 DEF HandshakeInv, WindowInv, Alone
  <2> QED BY <2>1, <2>2, <2>3 DEF WindowInv
<1>10. ConnectedMeansAnswered'
  BY <1>3, <1>5, <1>6, Distinct DEF HandshakeInv, WindowInv, ConnectedMeansAnswered, Ends
<1> QED BY <1>4, <1>8, <1>9, <1>10 DEF HandshakeInv

(* The second half of connect(): the SYN waits for its ACK. *)
LEMMA RegisterStep == ASSUME NEW x \in Ends, HandshakeInv, register(x) PROVE HandshakeInv'
<1>1. /\ step[x] = "sent" /\ step' = [step EXCEPT ![x] = "open"]
      /\ waiting' = waiting \union {Process(x)}
      /\ UNCHANGED <<receiverAddress, firstPacketSequenceNumber, windowSize, isConnected, packets>>
  BY DEF register
<1>2. TypeOK'
  <2>1. Process(x) \in Processes
    BY DEF Process, Processes
  <2>2. session' \in [Clients -> Sockets \union {0}]
    BY DEF register, HandshakeInv, TypeOK
  <2> QED BY <1>1, <2>1, <2>2 DEF HandshakeInv, TypeOK, ConnectSteps
<1>3. \A y \in Ends : step'[y] = IF y = x THEN "open" ELSE step[y]
  BY <1>1 DEF HandshakeInv, TypeOK
<1>4. \A c \in Clients : SocketsOf(c)' = SocketsOf(c)
  BY <1>1, <1>3 DEF SocketsOf, Ends
<1>5. RouteInv'
  BY <1>1, <1>3, <1>4 DEF HandshakeInv, RouteInv, Ends, TypeOK, Packets
<1>6. WindowInv'
  <2>1. \A t \in Sockets : step'[t] = "none" => ~isConnected'[t]
    BY <1>1, <1>3 DEF HandshakeInv, WindowInv, Ends
  <2>2. \A d \in Clients : Alone(d)' /\ (isConnected'[d] => receiverAddress'[d] # Server)
    BY <1>1, <1>3, Distinct DEF HandshakeInv, WindowInv, Alone, Ends
  <2>3. ASSUME NEW t \in Sockets, OthersUnused(t)' PROVE Alone(t)'
    <3>1. OthersUnused(t)
      BY <1>1, <1>3, <2>3 DEF OthersUnused, Ends
    <3>2. x = t \/ x \in Clients
      BY <1>3, <2>3 DEF OthersUnused, Ends
    <3> QED BY <1>1, <1>3, <3>1, <3>2, Distinct DEF HandshakeInv, WindowInv, Alone, Ends
  <2> QED BY <2>1, <2>2, <2>3 DEF WindowInv
<1>7. ConnectedMeansAnswered'
  BY <1>1, <1>4 DEF HandshakeInv, ConnectedMeansAnswered
<1> QED BY <1>2, <1>5, <1>6, <1>7 DEF HandshakeInv

(* A SYN is sent again. *)
LEMMA RetransmitStep == ASSUME NEW x \in Ends, HandshakeInv, retransmit(x) PROVE HandshakeInv'
<1> DEFINE syn == SYN(x, receiverAddress[x])
<1>1. receiverAddress[x] \in Addresses
  BY DEF HandshakeInv, TypeOK
<1>2. syn \in Packets /\ syn.type = "SYN" /\ syn.from = x /\ syn.to = receiverAddress[x]
  BY <1>1, SynType
<1>3. /\ step[x] = "open" /\ packets' = packets \union {syn}
      /\ UNCHANGED <<step, receiverAddress, firstPacketSequenceNumber, windowSize,
                     isConnected, waiting, session>>
  BY DEF retransmit
<1> HIDE DEF syn
<1>4. TypeOK'
  BY <1>2, <1>3 DEF HandshakeInv, TypeOK
<1>5. \A c \in Clients : SocketsOf(c)' = SocketsOf(c)
  BY <1>3 DEF SocketsOf
<1>6. RouteInv'
  <2>1. x \in Sockets => x \in SocketsOf(receiverAddress[x])
    BY <1>3 DEF SocketsOf
  <2> QED BY <1>2, <1>3, <1>5, <2>1, Distinct DEF HandshakeInv, RouteInv, Ends
<1>7. WindowInv' /\ ConnectedMeansAnswered'
  BY <1>3, <1>5 DEF HandshakeInv, WindowInv, Alone, OthersUnused, ConnectedMeansAnswered
<1> QED BY <1>4, <1>6, <1>7 DEF HandshakeInv

(* Who sends a packet to x is its receiver already, or x is a client and   *)
(* the sender one of its sockets.                                          *)
LEMMA ReceiveFrom ==
  ASSUME NEW x \in Ends, NEW p \in packets, HandshakeInv, Receive(x, p)
  PROVE  /\ p \in Packets /\ p.from \in Ends
         /\ x \in Sockets => p.from \in Clients /\ receiverAddress' = receiverAddress
         /\ x \in Clients => p.from \in SocketsOf(x)
         /\ \A c \in Clients : SocketsOf(c)' = SocketsOf(c) \/ step' # step
         /\ step' = step =>
              /\ \A s \in Sockets : step'[s] # "none" => receiverAddress'[s] \in Clients
              /\ \A c \in Clients :
                   receiverAddress'[c] # Server => receiverAddress'[c] \in SocketsOf(c)'
<1>1. p \in Packets /\ p.from \in Ends
  BY DEF HandshakeInv, TypeOK, Packets
<1>2. ASSUME x \in Sockets PROVE p.from \in Clients /\ receiverAddress' = receiverAddress
  BY <1>1, <1>2, Distinct DEF Receive, HandshakeInv, RouteInv, TypeOK, SocketsOf, Ends
<1>3. ASSUME x \in Clients PROVE p.from \in SocketsOf(x)
  BY <1>1, <1>3, Distinct DEF Receive, HandshakeInv, RouteInv, Ends, SocketsOf
<1>4. \A s \in Sockets : receiverAddress'[s] = receiverAddress[s]
  BY <1>2, Distinct DEF Receive, HandshakeInv, TypeOK, Ends
<1>5. step' = step => \A c \in Clients : SocketsOf(c)' = SocketsOf(c)
  BY <1>4 DEF SocketsOf
<1>6. \A c \in Clients : receiverAddress'[c] = receiverAddress[c] \/ (c = x /\ receiverAddress'[c] = p.from)
  BY DEF Receive, HandshakeInv, TypeOK, Ends
<1> QED BY <1>1, <1>2, <1>3, <1>4, <1>5, <1>6 DEF HandshakeInv, RouteInv

(* A SYN is answered. *)
LEMMA SynStep ==
  ASSUME NEW x \in Ends, NEW p \in packets, HandshakeInv, receiveSYN(x, p) PROVE HandshakeInv'
<1> DEFINE ack == ACK(x, p.from)
<1>1. /\ Receive(x, p) /\ step' = step
      /\ receiverAddress' = [receiverAddress EXCEPT ![x] = p.from]
      /\ packets' = (packets \ {p}) \union {ack}
      /\ firstPacketSequenceNumber' = [firstPacketSequenceNumber EXCEPT ![x] = 2]
      /\ UNCHANGED <<windowSize, isConnected, waiting, session>>
  BY DEF receiveSYN, Receive
<1>2. /\ p \in Packets /\ p.from \in Ends
      /\ x \in Sockets => p.from \in Clients /\ receiverAddress' = receiverAddress
      /\ x \in Clients => p.from \in SocketsOf(x)
      /\ \A c \in Clients : SocketsOf(c)' = SocketsOf(c)
      /\ \A s \in Sockets : step'[s] # "none" => receiverAddress'[s] \in Clients
      /\ \A c \in Clients : receiverAddress'[c] # Server => receiverAddress'[c] \in SocketsOf(c)'
  BY <1>1, ReceiveFrom
<1>3. ack \in Packets /\ ack.type = "ACK" /\ ack.from = x /\ ack.to = p.from
  BY <1>2, SynType, Distinct
<1> HIDE DEF ack
<1>4. TypeOK'
  BY <1>1, <1>2, <1>3, Distinct DEF HandshakeInv, TypeOK
<1>5. \A y \in Ends : /\ firstPacketSequenceNumber[y] = 2 => firstPacketSequenceNumber'[y] = 2
                      /\ firstPacketSequenceNumber'[x] = 2
  BY <1>1 DEF HandshakeInv, TypeOK
<1>6. RouteInv'
  <2>1. x \in Sockets => x \in SocketsOf(p.from)
    BY <1>1, <1>2 DEF Receive, HandshakeInv, TypeOK, SocketsOf
  <2>2. p.from # Server
    BY <1>2, Distinct
  <2>3. ASSUME NEW q \in packets'
        PROVE /\ q.from \in Clients => q.to = Server \/ q.to \in SocketsOf(q.from)'
              /\ q.from \in Sockets => q.to \in Clients /\ q.from \in SocketsOf(q.to)'
              /\ q.type = "ACK" => q.to # Server /\ firstPacketSequenceNumber'[q.from] = 2
    <3>1. CASE q = ack
      BY <1>2, <1>3, <1>5, <2>1, <2>2, <3>1, Distinct DEF Ends
    <3>2. CASE q \in packets
      BY <1>2, <1>5, <3>2 DEF HandshakeInv, RouteInv, TypeOK, Packets
    <3> QED BY <1>1, <2>3, <3>1, <3>2
  <2> QED BY <1>2, <2>3 DEF RouteInv
<1>7. WindowInv'
  <2>1. \A c \in Clients : receiverAddress[c] # Server => receiverAddress'[c] # Server
    BY <1>1, <1>2, Distinct DEF HandshakeInv, TypeOK, Ends
  <2> QED BY <1>1, <2>1 DEF HandshakeInv, WindowInv, Alone, OthersUnused
<1>8. ConnectedMeansAnswered'
  BY <1>1, <1>2, <1>5, Distinct
     DEF HandshakeInv, WindowInv, RouteInv, ConnectedMeansAnswered, Ends, SocketsOf
<1> QED BY <1>4, <1>6, <1>7, <1>8 DEF HandshakeInv

(* The ACK that makes an end connected comes from one that has its SYN.    *)
LEMMA AckStep ==
  ASSUME NEW x \in Ends, NEW p \in packets, HandshakeInv, receiveACK(x, p) PROVE HandshakeInv'
<1>1. /\ Receive(x, p) /\ p.type = "ACK" /\ step' = step /\ step[x] = "open"
      /\ receiverAddress' = [receiverAddress EXCEPT ![x] = p.from]
      /\ packets' = packets \ {p}
      /\ UNCHANGED <<firstPacketSequenceNumber, session>>
  BY DEF receiveACK, Receive
<1>2. /\ p \in Packets /\ p.from \in Ends
      /\ x \in Sockets => p.from \in Clients /\ receiverAddress' = receiverAddress
      /\ x \in Clients => p.from \in SocketsOf(x)
      /\ \A c \in Clients : SocketsOf(c)' = SocketsOf(c)
      /\ \A s \in Sockets : step'[s] # "none" => receiverAddress'[s] \in Clients
      /\ \A c \in Clients : receiverAddress'[c] # Server => receiverAddress'[c] \in SocketsOf(c)'
  BY <1>1, ReceiveFrom
<1>3. firstPacketSequenceNumber[p.from] = 2
  BY <1>1 DEF HandshakeInv, RouteInv
<1>4. \A w \in 1..MAX_WINDOW_SIZE : Grown(w) \in 1..MAX_WINDOW_SIZE /\ Grown(1) = 2
  BY SizesAssumption DEF Grown
<1> HIDE DEF Grown
<1>5. TypeOK'
  <2>1. /\ windowSize' \in [Ends -> 1..MAX_WINDOW_SIZE] /\ isConnected' \in [Ends -> BOOLEAN]
        /\ waiting' \subseteq Processes
    <3>1. windowSize[x] \in 1..MAX_WINDOW_SIZE
      BY DEF HandshakeInv, TypeOK
    <3>2. Grown(windowSize[x]) \in 1..MAX_WINDOW_SIZE
      BY <1>4, <3>1
    <3>3. windowSize' \in {windowSize, [windowSize EXCEPT ![x] = Grown(windowSize[x])]}
      BY DEF receiveACK
    <3>4. isConnected' \in [Ends -> BOOLEAN] /\ waiting' \subseteq Processes
      BY DEF receiveACK, HandshakeInv, TypeOK
    <3> QED BY <3>2, <3>3, <3>4 DEF HandshakeInv, TypeOK
  <2>2. receiverAddress' \in [Ends -> Addresses]
    BY <1>1, <1>2, Distinct DEF HandshakeInv, TypeOK
  <2> QED BY <1>1, <2>1, <2>2 DEF HandshakeInv, TypeOK
<1>6. RouteInv'
  BY <1>1, <1>2 DEF HandshakeInv, RouteInv
<1>7. p.from # Server /\ (x \in Clients => receiverAddress'[x] = p.from)
  BY <1>1, <1>2, Distinct DEF HandshakeInv, TypeOK
<1>8. \A y \in Ends : y # x =>
        /\ receiverAddress'[y] = receiverAddress[y]
        /\ isConnected'[y] = isConnected[y] /\ windowSize'[y] = windowSize[y]
  BY <1>1 DEF receiveACK, HandshakeInv, TypeOK
<1>9. WindowInv'
  <2>1. \A s \in Sockets : step'[s] = "none" => ~isConnected'[s]
    BY <1>1, <1>8 DEF HandshakeInv, WindowInv, Ends
  <2>2. ASSUME Alone(x) PROVE Alone(x)'
    <3>1. CASE Process(x) \in waiting
      BY <1>1, <1>4, <2>2, <3>1, SizesAssumption DEF receiveACK, HandshakeInv, TypeOK, Alone
    <3>2. CASE Process(x) \notin waiting
      BY <1>1, <2>2, <3>2 DEF receiveACK, Alone
    <3> QED BY <3>1, <3>2
  <2>3. ASSUME NEW c \in Clients PROVE Alone(c)'
    <3>1. CASE c = x
      BY <2>2, <3>1 DEF HandshakeInv, WindowInv
    <3>2. CASE c # x
      <4>1. c \in waiting' <=> c \in waiting
        <5>1. Process(x) # c
          BY <3>2, Distinct DEF Ends
        <5> QED BY <5>1 DEF receiveACK
      <4> QED BY <1>1, <1>8, <3>2, <4>1, Distinct DEF HandshakeInv, WindowInv, Alone, Ends
    <3> QED BY <3>1, <3>2
  <2>4. \A c \in Clients : isConnected'[c] => receiverAddress'[c] # Server
    BY <1>7, <1>8, Distinct DEF HandshakeInv, WindowInv, Ends
  <2>5. ASSUME NEW s \in Sockets, OthersUnused(s)' PROVE Alone(s)'
    <3>1. OthersUnused(s) /\ Alone(s)
      BY <1>1, <2>5 DEF OthersUnused, HandshakeInv, WindowInv
    <3>2. CASE s = x
      BY <2>2, <3>1, <3>2
    <3>3. CASE s # x
      <4>1. x \in Clients
        BY <1>1, <3>1, <3>3 DEF OthersUnused, Ends
      <4>2. Server \in waiting' <=> Server \in waiting
        BY <4>1, Distinct DEF receiveACK, Ends
      <4> QED BY <1>1, <1>8, <3>1, <3>3, <4>2, Distinct DEF Alone, Ends
    <3> QED BY <3>2, <3>3
  <2> QED BY <2>1, <2>3, <2>4, <2>5 DEF WindowInv
<1>10. ConnectedMeansAnswered'
  <2> SUFFICES ASSUME NEW y \in Ends, isConnected'[y]
               PROVE IF y \in Clients
                       THEN \E s \in SocketsOf(y)' : firstPacketSequenceNumber[s] = 2
                       ELSE /\ receiverAddress'[y] \in Clients
                            /\ firstPacketSequenceNumber[receiverAddress'[y]] = 2
    BY <1>1 DEF ConnectedMeansAnswered
  <2>1. CASE y = x
    <3>1. CASE x \in Clients
      BY <1>2, <1>3, <2>1, <3>1
    <3>2. CASE x \notin Clients
      <4>1. x \in Sockets /\ receiverAddress'[x] = p.from
        BY <1>1, <3>2 DEF Ends, HandshakeInv, TypeOK
      <4> QED BY <1>2, <1>3, <2>1, <3>2, <4>1
    <3> QED BY <3>1, <3>2
  <2>2. CASE y # x
    BY <1>2, <1>8, <2>2 DEF HandshakeInv, ConnectedMeansAnswered
  <2> QED BY <2>1, <2>2
<1> QED BY <1>5, <1>6, <1>9, <1>10 DEF HandshakeInv

(* A packet is lost. *)
LEMMA LoseStep == ASSUME NEW p \in packets, HandshakeInv, lose(p) PROVE HandshakeInv'
<1>1. \A c \in Clients : SocketsOf(c)' = SocketsOf(c)
  BY DEF lose, SocketsOf
<1> QED BY <1>1 DEF lose, HandshakeInv, TypeOK, RouteInv, WindowInv, Alone, OthersUnused,
            ConnectedMeansAnswered

(* The invariant is inductive. *)
LEMMA NextHandshake == HandshakeInv /\ [Next]_vars => HandshakeInv'
<1> SUFFICES ASSUME HandshakeInv, [Next]_vars PROVE HandshakeInv'
  OBVIOUS
<1>1. CASE UNCHANGED vars
  <2>1. \A c \in Clients : SocketsOf(c)' = SocketsOf(c)
    BY <1>1 DEF vars, SocketsOf
  <2> QED BY <1>1, <2>1 DEF vars, HandshakeInv, TypeOK, RouteInv, WindowInv, Alone,
              OthersUnused, ConnectedMeansAnswered
<1>2. CASE Next
  BY <1>2, ConnectStep, AcceptStep, RegisterStep, RetransmitStep, SynStep, AckStep, LoseStep
     DEF Next, Accept, ReceiveSYN, ReceiveACK
<1> QED BY <1>1, <1>2

(* The invariant holds always. *)
THEOREM HandshakeInvariant == Spec => []HandshakeInv
BY InitHandshake, NextHandshake, PTL DEF Spec

(* Every variable keeps its type. *)
THEOREM TypeCorrect == Spec => []TypeOK
<1>1. HandshakeInv => TypeOK
  BY DEF HandshakeInv
<1> QED BY <1>1, HandshakeInvariant, PTL

(* No end is connected before the other one has its SYN. *)
THEOREM NoEndConnectedAlone == Spec => []ConnectedMeansAnswered
<1>1. HandshakeInv => ConnectedMeansAnswered
  BY DEF HandshakeInv
<1> QED BY <1>1, HandshakeInvariant, PTL

(* A connected pair is in the state that RudpTransfer starts from. *)
THEOREM TransfersCanStart == Spec => []TransferCanStart
<1>1. ASSUME HandshakeInv, NEW c \in Clients, NEW s \in Sockets,
             SocketsOf(c) = {s}, isConnected[c], isConnected[s]
      PROVE  /\ receiverAddress[c] = s
             /\ firstPacketSequenceNumber[c] = 2 /\ firstPacketSequenceNumber[s] = 2
             /\ windowSize[c] = 2 /\ c \notin waiting
             /\ OthersUnused(s) => windowSize[s] = 2 /\ Server \notin waiting
  <2>1. receiverAddress[c] = s
    BY <1>1 DEF HandshakeInv, RouteInv, WindowInv
  <2>2. firstPacketSequenceNumber[s] = 2
    BY <1>1 DEF HandshakeInv, ConnectedMeansAnswered, Ends
  <2>3. firstPacketSequenceNumber[c] = 2
    <3>1. receiverAddress[s] = c
      BY <1>1 DEF SocketsOf
    <3> QED BY <1>1, <3>1, Distinct DEF HandshakeInv, ConnectedMeansAnswered, Ends
  <2>4. windowSize[c] = 2 /\ c \notin waiting
    BY <1>1, Distinct DEF HandshakeInv, WindowInv, Alone
  <2>5. OthersUnused(s) => windowSize[s] = 2 /\ Server \notin waiting
    BY <1>1, Distinct DEF HandshakeInv, WindowInv, Alone
  <2> QED BY <2>1, <2>2, <2>3, <2>4, <2>5
<1>2. HandshakeInv => TransferCanStart
  BY <1>1 DEF TransferCanStart, OthersUnused
<1> QED BY <1>2, HandshakeInvariant, PTL

-----------------------------------------------------------------------------
(* When a client does reach its session.                                   *)

OneSocket(c) == \A s, t \in SocketsOf(c) : s = t

(* The session of a client reads one of the sockets that were made for it. *)
SessionInv == \A c \in Clients : session[c] # 0 => session[c] \in SocketsOf(c)

(* Only accept() makes a socket for a client, and none is taken from it.   *)
LEMMA SocketsStay ==
  ASSUME HandshakeInv, [Next]_vars, NEW c \in Clients
  PROVE  /\ SocketsOf(c) \subseteq SocketsOf(c)'
         /\ SocketsOf(c)' = SocketsOf(c) \/ Accept
<1>1. CASE UNCHANGED vars
  BY <1>1 DEF vars, SocketsOf
<1>2. ASSUME NEW d \in Clients, connect(d)
      PROVE  SocketsOf(c)' = SocketsOf(c)
  BY <1>2, Distinct DEF connect, sendSyn, SocketsOf, HandshakeInv, TypeOK, Ends
<1>3. ASSUME NEW s \in Sockets, NEW p \in packets, accept(s, p)
      PROVE  SocketsOf(c) \subseteq SocketsOf(c)'
  BY <1>3 DEF accept, sendSyn, SocketsOf, HandshakeInv, TypeOK, Ends
<1>4. ASSUME NEW x \in Ends, register(x)
      PROVE  SocketsOf(c)' = SocketsOf(c)
  BY <1>4 DEF register, SocketsOf, HandshakeInv, TypeOK, Ends
<1>5. ASSUME NEW x \in Ends, retransmit(x)
      PROVE  SocketsOf(c)' = SocketsOf(c)
  BY <1>5 DEF retransmit, SocketsOf
<1>6. ASSUME NEW x \in Ends, NEW p \in packets, receiveSYN(x, p) \/ receiveACK(x, p)
      PROVE  SocketsOf(c)' = SocketsOf(c)
  BY <1>6, ReceiveFrom DEF receiveSYN, receiveACK
<1>7. ASSUME NEW p \in packets, lose(p)
      PROVE  SocketsOf(c)' = SocketsOf(c)
  BY <1>7 DEF lose, SocketsOf
<1> QED BY <1>1, <1>2, <1>3, <1>4, <1>5, <1>6, <1>7 DEF Next, Accept, ReceiveSYN, ReceiveACK

(* A session gets its socket when the second half of connect() is over.    *)
LEMMA SessionStep == HandshakeInv /\ SessionInv /\ [Next]_vars => SessionInv'
<1> SUFFICES ASSUME HandshakeInv, SessionInv, [Next]_vars,
                    NEW c \in Clients, session'[c] # 0
             PROVE  session'[c] \in SocketsOf(c)'
  BY DEF SessionInv
<1>1. SocketsOf(c) \subseteq SocketsOf(c)'
  BY SocketsStay
<1>2. CASE session' = session
  BY <1>1, <1>2 DEF SessionInv
<1>3. ASSUME NEW x \in Ends, register(x), session' # session
      PROVE  session'[c] \in SocketsOf(c)'
  <2>1. /\ x \in Sockets /\ step[x] = "sent"
        /\ session' = [session EXCEPT ![receiverAddress[x]] = x]
    BY <1>3 DEF register
  <2>2. x \in SocketsOf(receiverAddress[x])
    BY <2>1 DEF SocketsOf
  <2>3. CASE c = receiverAddress[x]
    BY <1>1, <2>1, <2>2, <2>3 DEF HandshakeInv, TypeOK
  <2>4. CASE c # receiverAddress[x]
    BY <1>1, <2>1, <2>4 DEF HandshakeInv, TypeOK, SessionInv
  <2> QED BY <2>3, <2>4
<1>4. session' = session \/ \E x \in Ends : register(x)
  BY DEF Next, vars, connect, Accept, accept, sendSyn, retransmit, ReceiveSYN, receiveSYN,
     ReceiveACK, receiveACK, lose
<1> QED BY <1>2, <1>3, <1>4

LEMMA SessionInvariant == Spec => [](HandshakeInv /\ SessionInv)
<1>1. Init => HandshakeInv /\ SessionInv
  BY InitHandshake DEF Init, SessionInv
<1> QED BY <1>1, NextHandshake, SessionStep, PTL DEF Spec

(* A connected client for which there is one socket talks to the one its   *)
(* session reads: what CommandsReachSession asks for, client by client.    *)
LEMMA OneSocketReached ==
  ASSUME HandshakeInv, SessionInv, \A c \in Clients : OneSocket(c)
  PROVE  CommandsReachSession
<1> SUFFICES ASSUME NEW c \in Clients, isConnected[c], session[c] # 0
             PROVE  receiverAddress[c] = session[c]
  BY DEF CommandsReachSession
<1>1. session[c] \in SocketsOf(c)
  BY DEF SessionInv
<1>2. receiverAddress[c] \in SocketsOf(c)
  BY DEF HandshakeInv, WindowInv, RouteInv
<1> QED BY <1>1, <1>2 DEF OneSocket

(* Commands miss their session only where a client has got two sockets.    *)
THEOREM OneSocketIsEnough ==
  Spec => []((\A c \in Clients : OneSocket(c)) => CommandsReachSession)
<1>1. HandshakeInv /\ SessionInv
        => ((\A c \in Clients : OneSocket(c)) => CommandsReachSession)
  BY OneSocketReached
<1> QED BY <1>1, SessionInvariant, PTL

(* No client has its SYN to the listening socket sent a second time: an    *)
(* answer comes before the first round of its retransmission thread.       *)
Repeats == \E c \in Clients : step[c] # "none" /\ SYN(c, Server) \in packets' \ packets
SynIsNotRepeated == [][~Repeats]_vars

(* Then the SYN of a client is on its way or has got its one socket.       *)
Once(c) ==
  /\ step[c] = "none" \/ SYN(c, Server) \in packets => SocketsOf(c) = {}
  /\ SYN(c, Server) \in packets => step[c] # "none"
  /\ OneSocket(c)

OnceInv == \A c \in Clients : Once(c)

(* What comes to the listening socket is the SYN of a client.              *)
LEMMA ToServer ==
  ASSUME HandshakeInv, NEW p \in packets, p.to = Server
  PROVE  p.from \in Clients /\ p = SYN(p.from, Server)
<1>1. p \in Packets /\ p.type = "SYN"
  BY DEF HandshakeInv, TypeOK, RouteInv, Packets
<1>2. p.from \in Clients
  BY <1>1, Distinct DEF HandshakeInv, RouteInv, Packets, Ends, Addresses
<1> QED BY <1>1, <1>2 DEF Packets, SYN

(* Where no SYN of the client and no socket comes in, Once stays.          *)
LEMMA OnceKept ==
  ASSUME NEW c \in Clients, Once(c), SocketsOf(c)' = SocketsOf(c),
         step'[c] = step[c] \/ (step[c] # "none" /\ step'[c] # "none"),
         SYN(c, Server) \in packets' => SYN(c, Server) \in packets
  PROVE  Once(c)'
<1>1. SYN(c, Server)' = SYN(c, Server)
  BY DEF SYN
<1> QED BY <1>1 DEF Once, OneSocket

(* Each step keeps Once: a client's SYN is sent once and taken once.       *)
LEMMA OnceStep == HandshakeInv /\ OnceInv /\ [Next]_vars /\ [~Repeats]_vars => OnceInv'
<1> SUFFICES ASSUME HandshakeInv, OnceInv, [Next]_vars, [~Repeats]_vars,
                    NEW c \in Clients
             PROVE  Once(c)'
  BY DEF OnceInv
<1> DEFINE syn == SYN(c, Server)
<1>1. Once(c) /\ SYN(c, Server)' = syn
  BY DEF OnceInv, SYN
<1>2. syn \in Packets /\ syn.type = "SYN" /\ syn.from = c /\ syn.to = Server
  BY SynType, Distinct DEF Ends
<1> HIDE DEF syn
<1>3. ASSUME UNCHANGED vars \/ \E p \in packets : lose(p)
      PROVE  Once(c)'
  <2>1. step' = step /\ SocketsOf(c)' = SocketsOf(c) /\ packets' \subseteq packets
    BY <1>3 DEF vars, lose, SocketsOf
  <2> QED BY <1>1, <2>1, OnceKept
<1>4. ASSUME NEW d \in Clients, connect(d)
      PROVE  Once(c)'
  <2>1. /\ step[d] = "none" /\ step' = [step EXCEPT ![d] = "sent"]
        /\ packets' = packets \union {SYN(d, Server)}
    BY <1>4 DEF connect, sendSyn
  <2>2. SocketsOf(c)' = SocketsOf(c)
    BY <1>4, Distinct DEF connect, sendSyn, SocketsOf, HandshakeInv, TypeOK, Ends
  <2>3. CASE d = c
    BY <1>1, <2>1, <2>2, <2>3 DEF Once, OneSocket, HandshakeInv, TypeOK, Ends
  <2>4. CASE d # c
    <3>1. SYN(d, Server) # syn
      BY <1>2, <2>4 DEF SYN
    <3>2. step'[c] = step[c]
      BY <2>1, <2>4 DEF HandshakeInv, TypeOK, Ends
    <3> QED BY <1>1, <2>1, <2>2, <3>1, <3>2, OnceKept DEF syn
  <2> QED BY <2>3, <2>4
<1>5. ASSUME NEW s \in Sockets, NEW p \in packets, accept(s, p)
      PROVE  Once(c)'
  <2>1. p.from \in Clients /\ p = SYN(p.from, Server)
    BY <1>5, ToServer DEF accept
  <2>2. /\ step[s] = "none" /\ step' = [step EXCEPT ![s] = "sent"]
        /\ receiverAddress' = [receiverAddress EXCEPT ![s] = p.from]
        /\ packets' = (packets \ {p}) \union {SYN(s, p.from)}
    BY <1>5 DEF accept, sendSyn
  <2>3. SYN(s, p.from) # syn
    <3>1. s # c
      BY Distinct
    <3> QED BY <1>2, <3>1 DEF SYN
  <2>4. step'[c] = step[c]
    BY <2>2, Distinct DEF HandshakeInv, TypeOK, Ends
  <2>5. CASE p.from = c
    <3>1. SocketsOf(c) = {} /\ p = syn /\ step[c] # "none"
      BY <1>1, <2>1, <2>5 DEF Once, syn
    <3>2. SocketsOf(c)' = {s}
      BY <2>2, <2>5, <3>1 DEF SocketsOf, HandshakeInv, TypeOK, Ends
    <3>3. syn \notin packets'
      BY <2>2, <2>3, <3>1
    <3> QED BY <1>1, <2>4, <3>1, <3>2, <3>3 DEF Once, OneSocket
  <2>6. CASE p.from # c
    <3>1. SocketsOf(c)' = SocketsOf(c)
      BY <2>2, <2>6 DEF SocketsOf, HandshakeInv, TypeOK, Ends
    <3> QED BY <1>1, <2>2, <2>3, <2>4, <3>1, OnceKept DEF syn
  <2> QED BY <2>5, <2>6
<1>6. ASSUME NEW x \in Ends, register(x)
      PROVE  Once(c)'
  <2>1. SocketsOf(c)' = SocketsOf(c)
    BY <1>6 DEF register, SocketsOf, HandshakeInv, TypeOK, Ends
  <2>2. step'[c] = step[c] \/ (step[c] # "none" /\ step'[c] # "none")
    BY <1>6 DEF register, HandshakeInv, TypeOK, Ends
  <2> QED BY <1>1, <1>6, <2>1, <2>2, OnceKept DEF register
<1>7. ASSUME NEW x \in Ends, retransmit(x), ~ UNCHANGED vars
      PROVE  Once(c)'
  <2>1. step' = step /\ SocketsOf(c)' = SocketsOf(c)
    BY <1>7 DEF retransmit, SocketsOf
  <2>2. packets' = packets \union {SYN(x, receiverAddress[x])} /\ step[x] = "open"
    BY <1>7 DEF retransmit
  <2>3. syn \in packets' => syn \in packets
    <3>1. CASE step[c] = "none"
      <4>1. x # c
        BY <2>2, <3>1
      <4>2. SYN(x, receiverAddress[x]) # syn
        BY <1>2, <4>1 DEF SYN
      <4> QED BY <2>2, <4>2
    <3>2. CASE step[c] # "none"
      BY <1>7, <3>2 DEF Repeats, syn
    <3> QED BY <3>1, <3>2
  <2> QED BY <1>1, <2>1, <2>3, OnceKept DEF syn
<1>8. ASSUME NEW x \in Ends, NEW p \in packets, receiveSYN(x, p) \/ receiveACK(x, p)
      PROVE  Once(c)'
  <2>1. SocketsOf(c)' = SocketsOf(c) /\ step' = step
    BY <1>8, ReceiveFrom DEF receiveSYN, receiveACK
  <2>2. packets' \subseteq packets \union {ACK(x, p.from)}
    BY <1>8 DEF receiveSYN, receiveACK
  <2>3. ACK(x, p.from) # syn
    BY <1>2 DEF ACK
  <2> QED BY <1>1, <2>1, <2>2, <2>3, OnceKept DEF syn
<1> QED BY <1>3, <1>4, <1>5, <1>6, <1>7, <1>8 DEF Next, Accept, ReceiveSYN, ReceiveACK

(* As long as no SYN is repeated, a connected client talks to the socket   *)
(* that its session reads, for any number of clients, sockets and losses:  *)
(* repeated SYNs are the one cause of what handshake_session shows.        *)
THEOREM SessionsAreReachedWithoutRepetition ==
  Spec /\ SynIsNotRepeated => []CommandsReachSession
<1>1. Init => OnceInv
  BY DEF Init, OnceInv, Once, OneSocket, SocketsOf, Ends
<1>2. Spec /\ SynIsNotRepeated => []OnceInv
  BY <1>1, HandshakeInvariant, OnceStep, PTL DEF Spec, SynIsNotRepeated
<1>3. OnceInv => \A c \in Clients : OneSocket(c)
  BY DEF OnceInv, Once
<1>4. HandshakeInv /\ SessionInv /\ OnceInv => CommandsReachSession
  BY <1>3, OneSocketReached
<1> QED BY <1>2, <1>4, SessionInvariant, PTL
=============================================================================
