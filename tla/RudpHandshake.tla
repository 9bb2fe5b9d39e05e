--------------------------- MODULE RudpHandshake ---------------------------
(***************************************************************************)
(* How RUDPSockets (Code/rudp_socket.py) become connected: the control     *)
(* connections of the clients, each in a process of its own, with the FTP  *)
(* server, whose listening socket gives every client a new socket and a    *)
(* port of its own.  RudpTransfer takes over where this module ends.       *)
(*                                                                         *)
(* Until then each socket has sent one packet that waits for its ACK, its  *)
(* SYN, and the number of that is always 1.  So the dictionary             *)
(* waitingForAcknowledge, which all sockets of a process share, is empty   *)
(* or has the one key 1, under which the SYN of one socket replaces that   *)
(* of another; the packets are the same.                                   *)
(*                                                                         *)
(* The network loses and reorders packets.  Of two equal packets on their  *)
(* way one is enough: the network could lose the other.                    *)
(***************************************************************************)
EXTENDS Naturals, FiniteSets

CONSTANTS
  Clients,
  MAX_WINDOW_SIZE,
  MaxSockets       (* bound: sockets that accept() creates                 *)

ASSUME ClientsAssumption == Clients \cap Nat = {}
ASSUME SizesAssumption == MAX_WINDOW_SIZE \in Nat \ {0, 1} /\ MaxSockets \in Nat

(* A socket stands for its address too: clients have one each, the server  *)
(* has 0, which listens, and the accepted ones, numbered from 1.           *)
Server == 0
Sockets == 1..MaxSockets
Ends == Clients \union Sockets
Addresses == Ends \union {Server}

(* The process a socket belongs to. *)
Process(x) == IF x \in Clients THEN x ELSE Server
Processes == Clients \union {Server}

VARIABLES
  step,                 (* of connect(): see ConnectSteps                  *)
  receiverAddress,
  firstPacketSequenceNumber,
  windowSize,
  isConnected,
  waiting,              (* the processes with 1 in waitingForAcknowledge   *)
  session,              (* the socket that the session of a client reads   *)
  packets               (* SYN and ACK packets on their way                *)

vars == <<step, receiverAddress, firstPacketSequenceNumber, windowSize,
          isConnected, waiting, session, packets>>

(* "sent": the SYN is sent and not yet in the dictionary; "open": both     *)
(* threads of the socket run.                                              *)
ConnectSteps == {"none", "sent", "open"}

Packets == [type : {"SYN", "ACK"}, from : Ends, to : Addresses]

TypeOK ==
  /\ step \in [Ends -> ConnectSteps]
  /\ receiverAddress \in [Ends -> Addresses]
  /\ firstPacketSequenceNumber \in [Ends -> {0, 2}]
  /\ windowSize \in [Ends -> 1..MAX_WINDOW_SIZE]
  /\ isConnected \in [Ends -> BOOLEAN]
  /\ waiting \subseteq Processes
  /\ session \in [Clients -> Sockets \union {0}]
  /\ packets \subseteq Packets

Init ==
  /\ step = [x \in Ends |-> "none"]
  /\ receiverAddress = [x \in Ends |-> Server]
  /\ firstPacketSequenceNumber = [x \in Ends |-> 0]
  /\ windowSize = [x \in Ends |-> 1]
  /\ isConnected = [x \in Ends |-> FALSE]
  /\ waiting = {}
  /\ session = [c \in Clients |-> 0]
  /\ packets = {}
-----------------------------------------------------------------------------
(* connect() and accept().                                                 *)

SYN(x, address) == [type |-> "SYN", from |-> x, to |-> address]
ACK(x, address) == [type |-> "ACK", from |-> x, to |-> address]

(* The first half of connect(): a socket, a port, and a SYN sent off.      *)
sendSyn(x, address, others) ==
  /\ step[x] = "none"
  /\ step' = [step EXCEPT ![x] = "sent"]
  /\ receiverAddress' = [receiverAddress EXCEPT ![x] = address]
  /\ packets' = others \union {SYN(x, address)}
  /\ UNCHANGED <<firstPacketSequenceNumber, windowSize, isConnected, waiting, session>>

connect(c) == sendSyn(c, Server, packets)

(* accept() takes any packet for a SYN, even a client's second one, and    *)
(* connects a new socket with its sender.  One thread of the server calls  *)
(* it, and is in connect() until the threads of the last socket run.       *)
accept(s, p) ==
  /\ p \in packets /\ p.to = Server
  /\ \A t \in Sockets : IF t < s THEN step[t] = "open" ELSE step[t] = "none"
  /\ sendSyn(s, p.from, packets \ {p})

\* Mutant: the SYN is sent and never entered.
registerNothing(x) ==
  /\ step[x] = "sent"
  /\ step' = [step EXCEPT ![x] = "open"]
  /\ session' = IF x \in Sockets /\ session[receiverAddress[x]] = 0
                  THEN [session EXCEPT ![receiverAddress[x]] = x] ELSE session
  /\ UNCHANGED <<receiverAddress, firstPacketSequenceNumber, windowSize,
                 isConnected, waiting, packets>>

(* The second half: the entry in the dictionary, and the two threads.      *)
(* Then accept() returns, and serverListener() makes a session of the      *)
(* first socket with an address; it drops another one, which lives on.     *)
register(x) ==
  /\ step[x] = "sent"
  /\ step' = [step EXCEPT ![x] = "open"]
  /\ waiting' = waiting \union {Process(x)}
  /\ session' = IF x \in Sockets /\ session[receiverAddress[x]] = 0
                  THEN [session EXCEPT ![receiverAddress[x]] = x] ELSE session
  /\ UNCHANGED <<receiverAddress, firstPacketSequenceNumber, windowSize,
                 isConnected, packets>>
-----------------------------------------------------------------------------
(* The threads of an open socket.                                          *)

(* A round of retransmitWaitingPackets(), the first one at once: it sends  *)
(* whatever waits in the process to the receiver of this socket.           *)
retransmit(x) ==
  /\ step[x] = "open" /\ Process(x) \in waiting
  /\ packets' = packets \union {SYN(x, receiverAddress[x])}
  /\ UNCHANGED <<step, receiverAddress, firstPacketSequenceNumber, windowSize,
                 isConnected, waiting, session>>

(* handleControlPackets() reads a packet, and its sender is the receiver   *)
(* from now on.                                                            *)
Receive(x, p) ==
  /\ step[x] = "open"
  /\ p \in packets /\ p.to = x
  /\ receiverAddress' = [receiverAddress EXCEPT ![x] = p.from]

\* Mutant: the first packet is expected with the number of the SYN itself.
receiveSYNSameNumber(x, p) ==
  /\ Receive(x, p) /\ p.type = "SYN"
  /\ firstPacketSequenceNumber' = [firstPacketSequenceNumber EXCEPT ![x] = 1]
  /\ packets' = (packets \ {p}) \union {ACK(x, p.from)}
  /\ UNCHANGED <<step, windowSize, isConnected, waiting, session>>

\* Mutant: who has got a SYN is connected.
receiveSYNConnects(x, p) ==
  /\ Receive(x, p) /\ p.type = "SYN"
  /\ firstPacketSequenceNumber' = [firstPacketSequenceNumber EXCEPT ![x] = 2]
  /\ isConnected' = [isConnected EXCEPT ![x] = TRUE]
  /\ packets' = (packets \ {p}) \union {ACK(x, p.from)}
  /\ UNCHANGED <<step, windowSize, waiting, session>>

\* Mutant: a SYN that is repeated is not acknowledged again.
receiveSYNOnce(x, p) ==
  /\ Receive(x, p) /\ p.type = "SYN"
  /\ firstPacketSequenceNumber' = [firstPacketSequenceNumber EXCEPT ![x] = 2]
  /\ packets' = IF firstPacketSequenceNumber[x] = 2 THEN packets \ {p}
                   ELSE (packets \ {p}) \union {ACK(x, p.from)}
  /\ UNCHANGED <<step, windowSize, isConnected, waiting, session>>

receiveSYN(x, p) ==
  /\ Receive(x, p) /\ p.type = "SYN"
  /\ firstPacketSequenceNumber' = [firstPacketSequenceNumber EXCEPT ![x] = 2]
  /\ packets' = (packets \ {p}) \union {ACK(x, p.from)}
  /\ UNCHANGED <<step, windowSize, isConnected, waiting, session>>

Grown(size) == IF size < MAX_WINDOW_SIZE THEN size + 1 ELSE size

\* Mutant: every ACK enlarges the window.
receiveACKAlwaysGrows(x, p) ==
  /\ Receive(x, p) /\ p.type = "ACK"
  /\ packets' = packets \ {p}
  /\ windowSize' = [windowSize EXCEPT ![x] = Grown(@)]
  /\ isConnected' = [isConnected EXCEPT ![x] = @ \/ Process(x) \in waiting]
  /\ waiting' = waiting \ {Process(x)}
  /\ UNCHANGED <<step, firstPacketSequenceNumber, session>>

(* An ACK takes the SYN out of the dictionary, whosever it is; the socket  *)
(* that got the ACK is connected.  If there is none the ACK is ignored.    *)
receiveACK(x, p) ==
  /\ Receive(x, p) /\ p.type = "ACK"
  /\ packets' = packets \ {p}
  /\ IF Process(x) \in waiting
       THEN /\ windowSize' = [windowSize EXCEPT ![x] = Grown(@)]
            /\ isConnected' = [isConnected EXCEPT ![x] = TRUE]
            /\ waiting' = waiting \ {Process(x)}
       ELSE UNCHANGED <<windowSize, isConnected, waiting>>
  /\ UNCHANGED <<step, firstPacketSequenceNumber, session>>

lose(p) ==
  /\ packets' = packets \ {p}
  /\ UNCHANGED <<step, receiverAddress, firstPacketSequenceNumber, windowSize,
                 isConnected, waiting, session>>
-----------------------------------------------------------------------------
Accept == \E s \in Sockets, p \in packets : accept(s, p)
ReceiveSYN(x) == \E p \in packets : receiveSYN(x, p)
ReceiveACK(x) == \E p \in packets : receiveACK(x, p)

Next ==
  \/ \E c \in Clients : connect(c)
  \/ Accept
  \/ \E x \in Ends : register(x) \/ retransmit(x) \/ ReceiveSYN(x) \/ ReceiveACK(x)
  \/ \E p \in packets : lose(p)

Spec == Init /\ [][Next]_vars

(* All threads are scheduled, and the network does not lose every packet   *)
(* of a kind that is sent to a socket again and again.                     *)
FairSpec ==
  /\ Spec
  /\ SF_vars(Accept)
  /\ WF_vars(\E x \in Ends : register(x))
  /\ \A x \in Ends :
       WF_vars(retransmit(x)) /\ SF_vars(ReceiveSYN(x)) /\ SF_vars(ReceiveACK(x))
-----------------------------------------------------------------------------
(* Properties.                                                             *)

SocketsOf(c) == {s \in Sockets : step[s] # "none" /\ receiverAddress[s] = c}

(* No end is connected alone: the other one has its SYN, and with it the   *)
(* number its first packet will have, although accept() answers no SYN     *)
(* and one socket may be connected by the SYN that another one waits for.  *)
ConnectedMeansAnswered ==
  \A x \in Ends : isConnected[x] =>
    IF x \in Clients
      THEN \E s \in SocketsOf(x) : firstPacketSequenceNumber[s] = 2
      ELSE /\ receiverAddress[x] \in Clients
           /\ firstPacketSequenceNumber[receiverAddress[x]] = 2

(* When both ends of a pair are connected they are as RudpTransfer begins: *)
(* each expects packet 2 of the other, and nothing waits any more.  The    *)
(* client must not have got a second socket; and while the server has only *)
(* this one its window and its dictionary are right too.                   *)
TransferCanStart ==
  \A c \in Clients, s \in Sockets :
    SocketsOf(c) = {s} /\ isConnected[c] /\ isConnected[s] =>
      /\ receiverAddress[c] = s
      /\ firstPacketSequenceNumber[c] = 2 /\ firstPacketSequenceNumber[s] = 2
      /\ windowSize[c] = 2 /\ c \notin waiting
      /\ (\A t \in Sockets \ {s} : step[t] = "none")
           => windowSize[s] = 2 /\ Server \notin waiting

(* A client gets connected in the end, whatever is lost on the way and     *)
(* however many sockets the server makes for it.  (With other clients the  *)
(* ACK of one of them may end the retransmission of the SYN to this one;   *)
(* then it takes a socket more, and the bound on sockets is in the way.)   *)
ClientConnects == \A c \in Clients : step[c] = "sent" ~> isConnected[c]

(* The dictionary of the server does not keep a SYN for ever.              *)
NothingWaitsForever == Server \in waiting ~> Server \notin waiting
-----------------------------------------------------------------------------
(* What the source says of the server and the code does not keep.          *)

(* "once a client connects, it creates a new FtpServerProtocol thread, and *)
(* start it so it can handle the client requests" (ftp_server.py:983): a   *)
(* connected client talks to the socket that its session reads.            *)
CommandsReachSession ==
  \A c \in Clients : isConnected[c] /\ session[c] # 0 => receiverAddress[c] = session[c]
=============================================================================
