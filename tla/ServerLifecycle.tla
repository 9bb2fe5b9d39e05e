-------------------------- MODULE ServerLifecycle --------------------------
(***************************************************************************)
(* The threads of Code/ftp_server.py and how they end: the main thread,    *)
(* which waits for the administrator's q and then for the sessions, the    *)
(* listener thread, and one session thread for each client.  They share    *)
(* isListening, allThreads, allConnectedClients and mainServerSocket.      *)
(*                                                                         *)
(* A client is its "ip:port".  allConnectedClients is never emptied, so a  *)
(* client has at most one session, and a session the name of its client.   *)
(* Commands are left to FtpSession; here a command ends, does not end, or  *)
(* ends the thread.                                                        *)
(***************************************************************************)
EXTENDS FiniteSets

CONSTANT Clients

VARIABLES
  isListening,
  listener,            (* step of serverListener(), see ListenerSteps       *)
  mainServerSocket,    (* see SocketStates                                  *)
  allConnectedClients,
  main,                (* step of the main thread, see MainSteps            *)
  allThreads,          (* the sessions with a name in the dictionary        *)
  session,             (* step of each session thread, see SessionSteps     *)
  queue,               (* connections that accept() has still to return     *)
  here,                (* clients whose first connection is not at its end  *)
  goodbye              (* history: the sessions that went through QUIT      *)

listenerVars == <<listener, mainServerSocket, allConnectedClients>>
clientVars == <<queue, here>>
vars == <<isListening, listenerVars, main, allThreads, session, clientVars, goodbye>>

(* "listening": the socket listens, the flag is not yet set; "starting":   *)
(* the new session has its name in allThreads and is about to be started.  *)
ListenerSteps == {"init", "listening", "accept", "starting", "ended"}

(* close() does not wake a thread that waits in accept() on Linux: the     *)
(* socket is "held" until that call has returned one more connection.      *)
SocketStates == {"None", "listening", "failed", "held", "closed"}

(* "gone": the administrator typed something else, and the thread is over. *)
MainSteps == {"input", "waiting", "closing", "exited", "gone"}

(* "blocked" is the accept() of a data connection, which has no timeout;   *)
(* "QUIT" and "lastQUIT" have still to take the name out of allThreads.    *)
SessionSteps ==
  {"none", "new", "welcome", "loop", "receive", "blocked", "QUIT", "lastQUIT", "ended"}

TypeOK ==
  /\ isListening \in BOOLEAN
  /\ listener \in ListenerSteps
  /\ mainServerSocket \in SocketStates
  /\ main \in MainSteps
  /\ session \in [Clients -> SessionSteps]
  /\ allThreads \subseteq Clients /\ goodbye \subseteq Clients
  /\ allConnectedClients \subseteq Clients
  /\ queue \subseteq Clients /\ here \subseteq Clients

Init ==
  /\ isListening = FALSE
  /\ listener = "init" /\ mainServerSocket = "None"
  /\ main = "input"
  /\ session = [c \in Clients |-> "none"]
  /\ allThreads = {} /\ allConnectedClients = {}
  /\ queue = {} /\ here = {} /\ goodbye = {}
-----------------------------------------------------------------------------
(* serverListener().                                                       *)

(* bind and listen, which may fail; accept() then fails at once.           *)
listen ==
  /\ listener = "init"
  /\ \/ mainServerSocket' = "listening" /\ listener' = "listening"
     \/ mainServerSocket' = "failed" /\ listener' = "accept"
  /\ UNCHANGED <<isListening, allConnectedClients, main, allThreads, session,
                 clientVars, goodbye>>

\* Mutant: the flag is only set once the loop has accepted its first client.
setListeningLate ==
  /\ listener = "listening"
  /\ isListening' \in {isListening, TRUE}
  /\ listener' = "accept"
  /\ UNCHANGED <<mainServerSocket, allConnectedClients, main, allThreads,
                 session, clientVars, goodbye>>

setListening ==
  /\ listener = "listening"
  /\ isListening' = TRUE
  /\ listener' = "accept"
  /\ UNCHANGED <<mainServerSocket, allConnectedClients, main, allThreads,
                 session, clientVars, goodbye>>

Open == mainServerSocket \in {"listening", "held"}
AfterAccept == IF mainServerSocket = "held" THEN "closed" ELSE mainServerSocket

\* Mutant: a session enters its name itself, when its thread runs.
acceptUnregistered(c) ==
  /\ listener = "accept" /\ c \in queue /\ Open
  /\ queue' = queue \ {c}
  /\ mainServerSocket' = AfterAccept
  /\ IF c \in allConnectedClients
       THEN UNCHANGED <<listener, allConnectedClients, allThreads, session>>
       ELSE /\ allConnectedClients' = allConnectedClients \union {c}
            /\ session' = [session EXCEPT ![c] = "new"]
            /\ listener' = "starting"
            /\ UNCHANGED allThreads
  /\ UNCHANGED <<isListening, main, here, goodbye>>

(* accept() returns.  An address seen before is dropped without a word;    *)
(* for a new one __init__ enters the name of the session, here still in    *)
(* the listener's thread.                                                  *)
accept(c) ==
  /\ listener = "accept" /\ c \in queue /\ Open
  /\ queue' = queue \ {c}
  /\ mainServerSocket' = AfterAccept
  /\ IF c \in allConnectedClients
       THEN UNCHANGED <<listener, allConnectedClients, allThreads, session>>
       ELSE /\ allConnectedClients' = allConnectedClients \union {c}
            /\ allThreads' = allThreads \union {c}
            /\ session' = [session EXCEPT ![c] = "new"]
            /\ listener' = "starting"
  /\ UNCHANGED <<isListening, main, here, goodbye>>

(* start(), which raises when the system has no thread left; the except    *)
(* clause of the loop looks at the flag and goes on or ends.               *)
startSession(c) ==
  /\ listener = "starting" /\ session[c] = "new"
  /\ \/ session' = [session EXCEPT ![c] = "welcome"] /\ listener' = "accept"
     \/ /\ session' = [session EXCEPT ![c] = "ended"]
        /\ listener' = IF isListening THEN "accept" ELSE "ended"
  /\ UNCHANGED <<isListening, mainServerSocket, allConnectedClients, main,
                 allThreads, clientVars, goodbye>>

\* Mutant: the loop ends with the first exception.
acceptFailsForGood ==
  /\ listener = "accept"
  /\ listener' = "ended"
  /\ UNCHANGED <<isListening, mainServerSocket, allConnectedClients, main,
                 allThreads, session, clientVars, goodbye>>

(* accept() raises: at any time for want of descriptors, and always when   *)
(* the socket failed or is closed.  With the flag set the loop goes on.    *)
acceptFails ==
  /\ listener = "accept"
  /\ ~isListening
  /\ listener' = "ended"
  /\ UNCHANGED <<isListening, mainServerSocket, allConnectedClients, main,
                 allThreads, session, clientVars, goodbye>>
-----------------------------------------------------------------------------
(* The main thread.                                                        *)

input ==
  /\ main = "input"
  /\ \/ main' = "waiting" /\ isListening' = FALSE
     \/ main' = "gone" /\ UNCHANGED isListening
  /\ UNCHANGED <<listenerVars, allThreads, session, clientVars, goodbye>>

(* A look at allThreads that finds it empty; otherwise the loop sleeps on. *)
allGone ==
  /\ main = "waiting"
  /\ allThreads = {}
  /\ main' = "closing"
  /\ UNCHANGED <<isListening, listenerVars, allThreads, session, clientVars, goodbye>>

(* Without a socket close() raises, and the thread ends all the same.      *)
closeAndExit ==
  /\ main = "closing"
  /\ \/ mainServerSocket' = IF mainServerSocket = "None" THEN "None" ELSE "closed"
     \/ mainServerSocket = "listening" /\ listener = "accept" /\ mainServerSocket' = "held"
  /\ main' = "exited"
  /\ UNCHANGED <<isListening, listener, allConnectedClients, allThreads,
                 session, clientVars, goodbye>>
-----------------------------------------------------------------------------
(* The sessions.                                                           *)

Step(c, from, to) == session[c] = from /\ session' = [session EXCEPT ![c] = to]

sharedVars == <<isListening, listenerVars, main, allThreads, clientVars, goodbye>>

(* Outside of every try: a client that is gone ends the thread.            *)
sendWelcome(c) ==
  /\ Step(c, "welcome", "loop") \/ Step(c, "welcome", "ended")
  /\ UNCHANGED sharedVars


checkListening(c) ==
  /\ Step(c, "loop", IF isListening THEN "receive" ELSE "lastQUIT")
  /\ UNCHANGED sharedVars

(* The time is over, the client has closed, the command is over: again.    *)
receiveOther(c) == Step(c, "receive", "loop") /\ UNCHANGED sharedVars

(* Four blanks before a command, bytes that are not UTF-8, a connection    *)
(* "forcibly closed": the thread is over and its name stays.               *)
receiveBreaks(c) ==
  /\ c \in here
  /\ Step(c, "receive", "ended")
  /\ UNCHANGED sharedVars

(* LIST, RETR or STOR in passive mode, until the client connects.          *)
receiveTransfer(c) ==
  /\ c \in here
  /\ Step(c, "receive", "blocked")
  /\ UNCHANGED sharedVars

dataConnection(c) == c \in here /\ Step(c, "blocked", "loop") /\ UNCHANGED sharedVars

receiveQUIT(c) == c \in here /\ Step(c, "receive", "QUIT") /\ UNCHANGED sharedVars

\* Mutant: the last QUIT leaves the thread in a step of its own.
QUITLeaves(c) ==
  /\ Step(c, "QUIT", "loop") \/ Step(c, "lastQUIT", "left")
  /\ allThreads' = allThreads \ {c}
  /\ goodbye' = goodbye \union {c}
  /\ UNCHANGED <<isListening, listenerVars, main, clientVars>>

(* The 221 is sent or fails, and finally the name is taken out; a second   *)
(* time pop() raises.  In the client's QUIT run() catches whatever is      *)
(* raised and the session goes on; the last QUIT ends it either way.       *)
QUIT(c) ==
  /\ Step(c, "QUIT", "loop") \/ Step(c, "lastQUIT", "ended")
  /\ allThreads' = allThreads \ {c}
  /\ goodbye' = goodbye \union {c}
  /\ UNCHANGED <<isListening, listenerVars, main, clientVars>>
-----------------------------------------------------------------------------
(* The clients: connect, leave, and come back from the same port.          *)

connect(c) ==
  /\ Open
  /\ c \notin queue \union here
  /\ queue' = queue \union {c}
  /\ here' = IF c \in allConnectedClients THEN here ELSE here \union {c}
  /\ UNCHANGED <<isListening, listenerVars, main, allThreads, session, goodbye>>

leave(c) ==
  /\ c \in here
  /\ here' = here \ {c}
  /\ UNCHANGED <<isListening, listenerVars, main, allThreads, session, queue, goodbye>>
-----------------------------------------------------------------------------
Starting == \E c \in Clients : startSession(c)

Session(c) ==
  \/ sendWelcome(c) \/ checkListening(c) \/ QUIT(c)
  \/ receiveOther(c) \/ receiveBreaks(c) \/ receiveTransfer(c) \/ receiveQUIT(c)

Next ==
  \/ listen \/ setListening \/ Starting \/ acceptFails
  \/ input \/ allGone \/ closeAndExit
  \/ \E c \in Clients :
       accept(c) \/ Session(c) \/ dataConnection(c) \/ connect(c) \/ leave(c)

Spec == Init /\ [][Next]_vars

Accept == \E c \in Clients : accept(c)

(* accept() can do nothing else here. *)
acceptMustFail == acceptFails /\ mainServerSocket \in {"failed", "closed"}

(* The threads of the server are scheduled, and receive() has a timeout.   *)
(* The accept() of the listener returns when a connection is waiting, that *)
(* of a transfer when the client connects, which it need not do.           *)
FairSpec ==
  /\ Spec
  /\ WF_vars(listen) /\ WF_vars(setListening) /\ WF_vars(Starting)
  /\ WF_vars(Accept) /\ WF_vars(acceptMustFail)
  /\ WF_vars(allGone) /\ WF_vars(closeAndExit)
  /\ \A c \in Clients : WF_vars(Session(c))
-----------------------------------------------------------------------------
(* Properties.                                                             *)

(* The listener gives up only in a shutdown, or when it never listened;    *)
(* after it nobody accepts clients, so the flag must be down for good.     *)
ListenerStays ==
  listener = "ended" =>
    /\ ~isListening
    /\ main \in {"input", "gone"} => mainServerSocket = "failed"

(* The main thread closes the server only when each session there is has   *)
(* gone through QUIT, even one the listener has created this very moment.  *)
GoodbyeBeforeClose ==
  [][main = "waiting" /\ main' = "closing" =>
       \A c \in Clients : session[c] # "none" => c \in goodbye]_vars

(* The process has ended: sys.exit() waits for every thread, as none is a  *)
(* daemon.                                                                 *)
Ended ==
  /\ main = "exited" /\ listener = "ended"
  /\ \A c \in Clients : session[c] \in {"none", "ended"}


(* Stopping the server is a graceful shutdown: the refinement mapping      *)
(* forgets the threads, the flag and allThreads.                           *)
Asked == main \in {"waiting", "closing", "exited"}
Closed == main \in {"closing", "exited"}
Served == {c \in Clients : session[c] # "none"}
Dismissed == {c \in Clients : session[c] = "lastQUIT"}

Shutdown == INSTANCE GracefulShutdown
              WITH asked <- Asked, closed <- Closed, served <- Served,
                   dismissed <- Dismissed, parted <- goodbye

(* Threads, flag and names together do no more than GracefulShutdown       *)
(* allows: nobody is dismissed unasked, or dropped without a goodbye.      *)
ImplementsShutdown == Shutdown!Spec
=============================================================================
