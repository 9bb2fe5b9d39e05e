---------------------------- MODULE PassiveMode ----------------------------
(***************************************************************************)
(* The data connections of the FTP server: the passive ports all sessions  *)
(* share (Code/utils.py) and the handlers of Code/ftp_server.py that take, *)
(* listen on, close and return them.  Each session is one thread running   *)
(* FtpServerProtocol.run, so it executes one command at a time; the steps  *)
(* of different sessions interleave, and the only thing that is atomic     *)
(* across them is a call under portNumberLock.                             *)
(*                                                                         *)
(* A command that moves data (LIST, RETR, STOR) is modelled by what it     *)
(* does to its sockets: it opens the data connection, moves the data and   *)
(* runs closeSocket, on success as on an exception.  File contents and     *)
(* replies are not represented here.  The sockets are the TCP ones of      *)
(* Code/tcpip_socket.py (isTCPIP is True in server and client); the RUDP   *)
(* ones are the subject of RudpTransfer.                                   *)
(***************************************************************************)
EXTENDS Naturals

CONSTANTS
  Sessions,   (* command sessions, one server thread each                  *)
  Ports,      (* the port numbers portsDictionary starts with              *)
  NoPort,     (* Python's None, returned when no port is free              *)
  Nobody      (* owner of a free port in the abstract specification        *)

ASSUME PortsAssumption == Ports \subseteq Nat /\ NoPort \notin Ports
ASSUME NobodyAssumption == Nobody \notin Sessions

VARIABLES
  portsDictionary, (* utils.py: state of each key; None is absent at first *)
  authenticated,   (* per session: PASS has accepted the password          *)
  pasv_mode,       (* per session: the next data connection is passive     *)
  passiveSocket,   (* per session: state of the listening socket           *)
  passivePort,     (* per session: the port last taken from the pool       *)
  dataSocket,      (* per session: state of the data connection            *)
  pc               (* per session: the next step of the running handler    *)

vars == <<portsDictionary, authenticated, pasv_mode, passiveSocket,
          passivePort, dataSocket, pc>>

Keys == Ports \union {NoPort}

(* Steps of a handler: "idle" waits for a command in run(); "bind" is PASV *)
(* between getPortFromPool and listen; "open" is the call of openSocket;   *)
(* "transfer" moves data; "close" and "return" are the two halves of       *)
(* closeSocket.                                                            *)
Steps == {"idle", "bind", "open", "transfer", "close", "return"}

TypeOK ==
  /\ portsDictionary \in [Keys -> {"free", "occupied", "absent"}]
  /\ \A p \in Ports : portsDictionary[p] # "absent"
  /\ authenticated \in [Sessions -> BOOLEAN]
  /\ pasv_mode \in [Sessions -> BOOLEAN]
  /\ passiveSocket \in [Sessions -> {"None", "unbound", "listening", "closed"}]
  /\ passivePort \in [Sessions -> Keys]
  /\ dataSocket \in [Sessions -> {"None", "unconnected", "connected", "closed"}]
  /\ pc \in [Sessions -> Steps]

(* passivePort is -1 in the code until PASV assigns it; nothing reads it   *)
(* before.                                                                 *)
Init ==
  /\ portsDictionary = [k \in Keys |-> IF k = NoPort THEN "absent" ELSE "free"]
  /\ authenticated = [s \in Sessions |-> FALSE]
  /\ pasv_mode = [s \in Sessions |-> FALSE]
  /\ passiveSocket = [s \in Sessions |-> "None"]
  /\ passivePort = [s \in Sessions |-> NoPort]
  /\ dataSocket = [s \in Sessions |-> "None"]
  /\ pc = [s \in Sessions |-> "idle"]

Goto(s, step) == pc' = [pc EXCEPT ![s] = step]

(* The session is between commands and isUserAuthenticated does not raise. *)
Ready(s) == pc[s] = "idle" /\ authenticated[s]
-----------------------------------------------------------------------------
(* The pool.  The dictionary is scanned in the order of its keys, which is *)
(* ascending, under portNumberLock.                                        *)

IsFirstFree(k) ==
  \/ /\ k \in Ports
     /\ portsDictionary[k] = "free"
     /\ \A q \in Ports : portsDictionary[q] = "free" => k <= q
  \/ /\ k = NoPort
     /\ \A q \in Ports : portsDictionary[q] # "free"

\* Mutant: the port is handed out and stays marked free.
getPortFromPoolUnmarked(s) ==
  \E k \in Keys :
    /\ IsFirstFree(k)
    /\ passivePort' = [passivePort EXCEPT ![s] = k]
    /\ UNCHANGED portsDictionary

(* When no port is free the scan returns None; a None key that an earlier  *)
(* return left in the dictionary is marked like a port.                    *)
getPortFromPool(s) ==
  \E k \in Keys :
    /\ IsFirstFree(k)
    /\ passivePort' = [passivePort EXCEPT ![s] = k]
    /\ portsDictionary' =
         [portsDictionary EXCEPT ![k] = IF @ = "free" THEN "occupied" ELSE @]

\* Mutant: closeSocket forgets to give the port back.
returnPortToPoolLost(s) == UNCHANGED portsDictionary

\* Mutant: the returned key is deleted instead of marked free.
returnPortToPoolDeleted(s) ==
  portsDictionary' = [portsDictionary EXCEPT ![passivePort[s]] = "absent"]

returnPortToPool(s) ==
  portsDictionary' = [portsDictionary EXCEPT ![passivePort[s]] = "free"]
-----------------------------------------------------------------------------
(* Commands: the first step of each handler.                               *)

(* The accepted password; USER and a rejected PASS change nothing here.    *)
PASS(s) ==
  /\ pc[s] = "idle"
  /\ authenticated' = [authenticated EXCEPT ![s] = TRUE]
  /\ UNCHANGED <<portsDictionary, pasv_mode, passiveSocket, passivePort,
                 dataSocket, pc>>

\* Mutant: PASV without the call of isUserAuthenticated.
PASVUnauthenticated(s) ==
  /\ pc[s] = "idle"
  /\ pasv_mode' = [pasv_mode EXCEPT ![s] = TRUE]
  /\ passiveSocket' = [passiveSocket EXCEPT ![s] = "unbound"]
  /\ getPortFromPool(s)
  /\ Goto(s, "bind")
  /\ UNCHANGED <<authenticated, dataSocket>>

(* A new TCPIPSocket replaces self.passiveSocket, which closes a listening *)
(* one that was never used; the port of the old one is not returned.       *)
PASV(s) ==
  /\ Ready(s)
  /\ pasv_mode' = [pasv_mode EXCEPT ![s] = TRUE]
  /\ passiveSocket' = [passiveSocket EXCEPT ![s] = "unbound"]
  /\ getPortFromPool(s)
  /\ Goto(s, "bind")
  /\ UNCHANGED <<authenticated, dataSocket>>

PortInUse(p) == \E s \in Sessions : passiveSocket[s] = "listening" /\ passivePort[s] = p

(* TCPIPSocket.listen inside PASV.  bind() raises for None and for a port  *)
(* that is listened on, and may be refused by the system at any time       *)
(* (TIME_WAIT, another program); PASV then answers 500 and keeps the port. *)
listen(s) ==
  /\ pc[s] = "bind"
  /\ \/ /\ passivePort[s] \in Ports
        /\ ~PortInUse(passivePort[s])
        /\ passiveSocket' = [passiveSocket EXCEPT ![s] = "listening"]
     \/ UNCHANGED passiveSocket
  /\ Goto(s, "idle")
  /\ UNCHANGED <<portsDictionary, authenticated, pasv_mode, passivePort, dataSocket>>

\* Mutant: PORT leaves passive mode without closing the listening socket.
PORTKeepsListening(s) ==
  /\ Ready(s)
  /\ pasv_mode' = [pasv_mode EXCEPT ![s] = FALSE]
  /\ UNCHANGED <<portsDictionary, authenticated, passiveSocket, passivePort,
                 dataSocket, pc>>

(* Leaves passive mode before the arguments are parsed, so an argument     *)
(* that cannot be parsed ends in the same state.                           *)
PORT(s) ==
  /\ Ready(s)
  /\ pasv_mode[s]
  /\ passiveSocket' = [passiveSocket EXCEPT ![s] = "closed"]
  /\ pasv_mode' = [pasv_mode EXCEPT ![s] = FALSE]
  /\ UNCHANGED <<portsDictionary, authenticated, passivePort, dataSocket, pc>>

(* A path that does not exist is answered with 550 and changes nothing.    *)
LIST(s) ==
  /\ Ready(s)
  /\ Goto(s, "open")
  /\ UNCHANGED <<portsDictionary, authenticated, pasv_mode, passiveSocket,
                 passivePort, dataSocket>>

(* No file name, or a file that is not there, is answered with 500 and     *)
(* changes nothing; an open() that raises goes straight to closeSocket.    *)
RETR(s) ==
  /\ Ready(s)
  /\ Goto(s, "open") \/ Goto(s, "close")
  /\ UNCHANGED <<portsDictionary, authenticated, pasv_mode, passiveSocket,
                 passivePort, dataSocket>>

(* Also APPE, which sets a flag and calls STOR.                            *)
STOR(s) ==
  /\ Ready(s)
  /\ Goto(s, "open") \/ Goto(s, "close")
  /\ UNCHANGED <<portsDictionary, authenticated, pasv_mode, passiveSocket,
                 passivePort, dataSocket>>

(* Needs no login.  The thread goes on reading commands afterwards.  A     *)
(* reply that cannot be sent after a transfer runs closeSocket once more,  *)
(* by the handler's except clause: the same step from the same state.      *)
QUIT(s) ==
  /\ pc[s] = "idle"
  /\ Goto(s, "close")
  /\ UNCHANGED <<portsDictionary, authenticated, pasv_mode, passiveSocket,
                 passivePort, dataSocket>>
-----------------------------------------------------------------------------
(* The later steps of the handlers.                                        *)

(* Passive mode waits in accept() for the client, without a timeout; it    *)
(* raises at once on a socket that does not listen, and may do so on one   *)
(* that does (no descriptor left).  In active mode connect() succeeds or   *)
(* raises, leaving a socket that is not connected.                         *)
openSocket(s) ==
  /\ pc[s] = "open"
  /\ \/ /\ ~pasv_mode[s] \/ passiveSocket[s] = "listening"
        /\ dataSocket' = [dataSocket EXCEPT ![s] = "connected"]
        /\ Goto(s, "transfer")
     \/ /\ ~pasv_mode[s]
        /\ dataSocket' = [dataSocket EXCEPT ![s] = "unconnected"]
        /\ Goto(s, "close")
     \/ /\ pasv_mode[s]
        /\ UNCHANGED dataSocket
        /\ Goto(s, "close")
  /\ UNCHANGED <<portsDictionary, authenticated, pasv_mode, passiveSocket, passivePort>>

(* All the data is moved; closeSocket, and 226.                            *)
transfer(s) ==
  /\ pc[s] = "transfer"
  /\ Goto(s, "close")
  /\ UNCHANGED <<portsDictionary, authenticated, pasv_mode, passiveSocket,
                 passivePort, dataSocket>>

\* Mutant: the except clause answers 500 and closes nothing.
transferFailsOpen(s) ==
  /\ pc[s] = "transfer"
  /\ Goto(s, "idle")
  /\ UNCHANGED <<portsDictionary, authenticated, pasv_mode, passiveSocket,
                 passivePort, dataSocket>>

(* An exception ends the transfer; the except clause runs closeSocket too, *)
(* and answers 500.                                                        *)
transferFails(s) ==
  /\ pc[s] = "transfer"
  /\ Goto(s, "close")
  /\ UNCHANGED <<portsDictionary, authenticated, pasv_mode, passiveSocket,
                 passivePort, dataSocket>>

(* Closes what is there.  Neither reference is reset to None, so from the  *)
(* first PASV on every call goes on to return passivePort.                 *)
closeSocket(s) ==
  /\ pc[s] = "close"
  /\ dataSocket' = [dataSocket EXCEPT ![s] = IF @ = "None" THEN @ ELSE "closed"]
  /\ passiveSocket' = [passiveSocket EXCEPT ![s] = IF @ = "None" THEN @ ELSE "closed"]
  /\ Goto(s, IF passiveSocket[s] = "None" THEN "idle" ELSE "return")
  /\ UNCHANGED <<portsDictionary, authenticated, pasv_mode, passivePort>>

closeSocketReturnPort(s) ==
  /\ pc[s] = "return"
  /\ returnPortToPool(s)
  /\ Goto(s, "idle")
  /\ UNCHANGED <<authenticated, pasv_mode, passiveSocket, passivePort, dataSocket>>
-----------------------------------------------------------------------------
Command(s) == \/ PASS(s) \/ PASV(s) \/ PORT(s)
              \/ LIST(s) \/ RETR(s) \/ STOR(s) \/ QUIT(s)

Handler(s) == \/ listen(s) \/ openSocket(s) \/ transfer(s) \/ transferFails(s)
              \/ closeSocket(s) \/ closeSocketReturnPort(s)

Next == \E s \in Sessions : Command(s) \/ Handler(s)

Spec == Init /\ [][Next]_vars
-----------------------------------------------------------------------------
(* A client that uses passive mode the way the pool expects: it asks for   *)
(* one port, uses it for one transfer (or quits instead), and asks for the *)
(* next one; it does not mix PORT in, and its control connection stays up. *)
(* A client that never sends PASV is not restricted.                       *)
CyclesPorts(s) ==
  /\ passiveSocket[s] # "closed"
  /\ LIST(s) \/ RETR(s) \/ STOR(s) \/ QUIT(s)

CyclicCommand(s) ==
  \/ PASS(s)
  \/ passiveSocket[s] \in {"None", "closed"} /\ PASV(s)
  \/ CyclesPorts(s)

CyclicNext == \E s \in Sessions : CyclicCommand(s) \/ Handler(s)

CyclicSpec == Init /\ [][CyclicNext]_vars

(* The session can only go on when its client does something: send a       *)
(* command, connect to the passive port, take or send the data.  None of   *)
(* these has an end in passive mode: accept() and the socket it returns    *)
(* have no timeout.                                                        *)
WaitsForClient(s) ==
  \/ pc[s] = "idle"
  \/ pc[s] = "open" /\ pasv_mode[s] /\ passiveSocket[s] = "listening"
  \/ pc[s] = "transfer"

(* The server's threads are scheduled fairly.  Nothing is assumed of the   *)
(* clients: each may fall silent for ever, at any point.                   *)
FairCyclicSpec ==
  /\ CyclicSpec
  /\ \A s \in Sessions : WF_vars(~WaitsForClient(s) /\ Handler(s))
-----------------------------------------------------------------------------
(* Safety properties of every client.                                      *)

(* Between two commands of a session no data connection is left open,      *)
(* whichever way the last transfer ended (closeSocket on every path).      *)
QuietBetweenCommands ==
  \A s \in Sessions :
    pc[s] \in {"idle", "bind", "return"} => dataSocket[s] \in {"None", "closed"}

(* A client that has not logged in never makes the server open a socket or *)
(* take a port (isUserAuthenticated in every handler but QUIT, and QUIT    *)
(* then finds nothing to close).                                           *)
NothingBeforeLogin ==
  \A s \in Sessions :
    ~authenticated[s] =>
      /\ passiveSocket[s] = "None" /\ dataSocket[s] = "None"
      /\ pc[s] \in {"idle", "close"}

(* accept() is never called on a missing socket, and a session in active   *)
(* mode has no socket a client could still connect to (PORT closes it).    *)
ModeMatchesSocket ==
  \A s \in Sessions :
    IF pasv_mode[s] THEN passiveSocket[s] # "None"
                    ELSE passiveSocket[s] \in {"None", "closed"}

(* "so each client can have a unique port number" (PASV): a port is not    *)
(* given to a session while the passive socket of another one is on it.    *)
UniquePort ==
  \A s, t \in Sessions :
    /\ passiveSocket[s] \in {"unbound", "listening"}
    /\ passiveSocket[t] \in {"unbound", "listening"}
    /\ passivePort[s] = passivePort[t]
    /\ passivePort[s] \in Ports
    => s = t

(* The session has taken passivePort and has yet to return it. *)
Holds(s) ==
  \/ passiveSocket[s] \in {"unbound", "listening"}
  \/ pc[s] = "return"

(* The dictionary tells the truth: a port is marked occupied exactly while *)
(* a session holds it, so none is handed out twice and none is lost.       *)
PoolAgreesWithSessions ==
  \A p \in Ports :
    portsDictionary[p] = "occupied" <=>
      \E s \in Sessions : Holds(s) /\ passivePort[s] = p

(* A port that is taken comes back to the pool, or else the very session   *)
(* that took it waits for its client for ever: no failed bind, accept or   *)
(* transfer and no other session keeps it away.                            *)
PortsRecycled ==
  \A p \in Ports :
    \/ portsDictionary[p] = "occupied" ~> portsDictionary[p] = "free"
    \/ \E s \in Sessions :
         <>[](Holds(s) /\ passivePort[s] = p /\ WaitsForClient(s))

(* The pool as an allocator: p is owned by the session that holds it. *)
ownerOf == [p \in Ports |->
  IF \E s \in Sessions : Holds(s) /\ passivePort[s] = p
  THEN CHOOSE s \in Sessions : Holds(s) /\ passivePort[s] = p
  ELSE Nobody]

Allocator == INSTANCE PortAllocator WITH owner <- ownerOf

(* Every step of the sessions is a take, a release or neither. *)
ImplementsAllocator == Allocator!Spec
=============================================================================
