----------------------- MODULE ServerLifecycleProofs -----------------------
(***************************************************************************)
(* Proofs about ServerLifecycle, for any set of clients: its types, that   *)
(* no session leaves before a shutdown, that the listener gives up only in *)
(* one, and that the server is closed only after every session's QUIT.     *)
(***************************************************************************)
EXTENDS ServerLifecycle, TLAPS

(* No administrator has stopped the server. *)
Running == main \in {"input", "gone"}

(* The flag is up from the end of listen() to the shutdown.                *)
FlagInv ==
  Running /\ listener \in {"accept", "starting", "ended"} /\ mainServerSocket # "failed"
    => isListening

(* Where there is a connection or a session, the listener has listened.    *)
OpenInv ==
  /\ listener = "init" => mainServerSocket = "None"
  /\ listener = "listening" => mainServerSocket # "failed"
  /\ queue # {} => mainServerSocket \notin {"None", "failed"}
  /\ \A c \in Clients : session[c] # "none" =>
       listener \notin {"init", "listening"} /\ (Running => mainServerSocket # "failed")

(* A session has its name in allThreads until QUIT takes it out.           *)
NameInv == \A c \in Clients : session[c] # "none" => c \in allThreads \union goodbye

(* No session takes its leave by itself before the administrator asked for *)
(* it: the flag is set before the first client is accepted.                *)
NoEarlyGoodbye ==
  \A c \in Clients : session[c] = "lastQUIT" => main \notin {"input", "gone"}

(* The address of a session is never accepted again.                       *)
KnownInv == \A c \in Clients : session[c] # "none" => c \in allConnectedClients

LifeInv ==
  /\ TypeOK /\ FlagInv /\ OpenInv /\ NameInv /\ KnownInv
  /\ NoEarlyGoodbye /\ ListenerStays

(* The initial state has the invariant.                                    *)
LEMMA InitLife == Init => LifeInv
BY DEF Init, LifeInv, TypeOK, FlagInv, OpenInv, NameInv, KnownInv, NoEarlyGoodbye, ListenerStays,
       Running, SocketStates, ListenerSteps, MainSteps, SessionSteps

(* What a step of serverListener() keeps.                                  *)
LEMMA ListenerStep ==
  ASSUME LifeInv,
         listen \/ setListening \/ Starting \/ acceptFails
           \/ \E c \in Clients : accept(c)
  PROVE  LifeInv'
<1> USE DEF LifeInv, TypeOK, FlagInv, OpenInv, NameInv, KnownInv, NoEarlyGoodbye, ListenerStays,
            Running, SocketStates, ListenerSteps, MainSteps, SessionSteps, clientVars
<1>1. CASE listen
  BY <1>1 DEF listen
<1>2. CASE setListening
  BY <1>2 DEF setListening
<1>3. ASSUME NEW c \in Clients, startSession(c)
      PROVE  LifeInv'
  BY <1>3 DEF startSession
<1>4. CASE acceptFails
  BY <1>4 DEF acceptFails
<1>5. ASSUME NEW c \in Clients, accept(c)
      PROVE  LifeInv'
  BY <1>5 DEF accept, Open, AfterAccept
<1> QED BY <1>1, <1>2, <1>3, <1>4, <1>5 DEF Starting

(* What a step of the main thread keeps.                                   *)
LEMMA MainStep ==
  ASSUME LifeInv, input \/ allGone \/ closeAndExit
  PROVE  LifeInv'
<1> USE DEF LifeInv, TypeOK, FlagInv, OpenInv, NameInv, KnownInv, NoEarlyGoodbye, ListenerStays,
            Running, SocketStates, ListenerSteps, MainSteps, SessionSteps, clientVars,
            listenerVars
<1>1. CASE input
  <2>1. CASE main' = "waiting" /\ isListening' = FALSE
    BY <1>1, <2>1 DEF input
  <2>2. CASE main' = "gone" /\ UNCHANGED isListening
    BY <1>1, <2>2 DEF input
  <2> QED BY <1>1, <2>1, <2>2 DEF input
<1>2. CASE allGone
  BY <1>2 DEF allGone
<1>3. CASE closeAndExit
  BY <1>3 DEF closeAndExit
<1> QED BY <1>1, <1>2, <1>3

(* What a step of a session keeps: it changes its own place, and its name  *)
(* only as QUIT does.                                                      *)
LEMMA SessionStep ==
  ASSUME LifeInv, NEW c \in Clients, Session(c) \/ dataConnection(c)
  PROVE  LifeInv'
<1> USE DEF LifeInv, TypeOK, FlagInv, OpenInv, NameInv, KnownInv, NoEarlyGoodbye, ListenerStays,
            Running, SocketStates, ListenerSteps, MainSteps, SessionSteps, clientVars,
            listenerVars, sharedVars, Step
<1>1. CASE sendWelcome(c)
  BY <1>1 DEF sendWelcome
<1>2. CASE checkListening(c)
  BY <1>2 DEF checkListening
<1>3. CASE QUIT(c)
  BY <1>3 DEF QUIT
<1>4. CASE receiveOther(c) \/ receiveBreaks(c) \/ receiveTransfer(c) \/ receiveQUIT(c)
  BY <1>4 DEF receiveOther, receiveBreaks, receiveTransfer, receiveQUIT
<1>5. CASE dataConnection(c)
  BY <1>5 DEF dataConnection
<1> QED BY <1>1, <1>2, <1>3, <1>4, <1>5 DEF Session

(* What the clients keep.                                                  *)
LEMMA ClientStep ==
  ASSUME LifeInv, NEW c \in Clients, connect(c) \/ leave(c)
  PROVE  LifeInv'
BY DEF LifeInv, TypeOK, FlagInv, OpenInv, NameInv, KnownInv, NoEarlyGoodbye, ListenerStays,
       Running, listenerVars, connect, leave, Open

(* The invariant is inductive.                                             *)
LEMMA NextLife == LifeInv /\ [Next]_vars => LifeInv'
<1> SUFFICES ASSUME LifeInv, [Next]_vars PROVE LifeInv'
  OBVIOUS
<1>1. CASE UNCHANGED vars
  BY <1>1 DEF LifeInv, TypeOK, FlagInv, OpenInv, NameInv, KnownInv, NoEarlyGoodbye, ListenerStays,
              Running, vars, listenerVars, clientVars
<1>2. CASE Next
  BY <1>2, ListenerStep, MainStep, SessionStep, ClientStep DEF Next
<1> QED BY <1>1, <1>2

(* The invariant holds always.                                             *)
THEOREM LifeInvariant == Spec => []LifeInv
BY InitLife, NextLife, PTL DEF Spec

(* Every variable keeps its type.                                          *)
THEOREM TypeCorrect == Spec => []TypeOK
<1>1. LifeInv => TypeOK
  BY DEF LifeInv
<1> QED BY <1>1, LifeInvariant, PTL

(* No session takes its leave by itself while the server is not shut down. *)
THEOREM NobodyLeavesEarly == Spec => []NoEarlyGoodbye
<1>1. LifeInv => NoEarlyGoodbye
  BY DEF LifeInv
<1> QED BY <1>1, LifeInvariant, PTL

(* The listener gives up only in a shutdown, or when it never listened.    *)
THEOREM TheListenerStays == Spec => []ListenerStays
<1>1. LifeInv => ListenerStays
  BY DEF LifeInv
<1> QED BY <1>1, LifeInvariant, PTL

(* The main thread closes the server only after every session's QUIT.      *)
THEOREM ClosedAfterGoodbye == Spec => GoodbyeBeforeClose
<1> DEFINE Closes == main = "waiting" /\ main' = "closing"
<1>1. ASSUME LifeInv, [Next]_vars, Closes, NEW c \in Clients, session[c] # "none"
      PROVE  c \in goodbye
  <2>1. allGone
    BY <1>1 DEF Next, vars, listen, setListening, Starting, startSession, acceptFails,
       input, allGone, closeAndExit, accept, Session, sendWelcome, checkListening, QUIT,
       receiveOther, receiveBreaks, receiveTransfer, receiveQUIT, dataConnection,
       connect, leave, sharedVars, LifeInv, TypeOK
  <2> QED BY <1>1, <2>1 DEF allGone, LifeInv, NameInv
<1>2. LifeInv /\ [Next]_vars =>
        [Closes => \A c \in Clients : session[c] # "none" => c \in goodbye]_vars
  BY <1>1
<1> QED BY <1>2, LifeInvariant, PTL DEF Spec, GoodbyeBeforeClose

-----------------------------------------------------------------------------
(* The server implements GracefulShutdown.                                 *)

AbstractVars == <<Asked, Closed, Served, Dismissed, goodbye>>

(* A step that moves no session to or from "none" and "lastQUIT", nor the  *)
(* main thread, is none of GracefulShutdown's.                             *)
LEMMA UnseenStep ==
  ASSUME UNCHANGED <<main, goodbye>>,
         \A c \in Clients :
           /\ session'[c] = "none" <=> session[c] = "none"
           /\ session'[c] = "lastQUIT" <=> session[c] = "lastQUIT"
  PROVE  UNCHANGED AbstractVars
<1>1. Served' = Served /\ Dismissed' = Dismissed
  BY DEF Served, Dismissed
<1> QED BY <1>1 DEF AbstractVars, Asked, Closed

(* The listener's steps: accept serves a client it has not seen.           *)
LEMMA ListenerRefines ==
  ASSUME LifeInv,
         listen \/ setListening \/ Starting \/ acceptFails
           \/ \E c \in Clients : accept(c)
  PROVE  [Shutdown!Next]_AbstractVars
<1> USE DEF LifeInv, TypeOK
<1>1. CASE listen \/ setListening \/ acceptFails
  BY <1>1, UnseenStep DEF listen, setListening, acceptFails, AbstractVars
<1>2. ASSUME NEW c \in Clients, startSession(c)
      PROVE  UNCHANGED AbstractVars
  BY <1>2, UnseenStep DEF startSession
<1>3. ASSUME NEW c \in Clients, accept(c)
      PROVE  [Shutdown!Next]_AbstractVars
  <2>1. CASE c \in allConnectedClients
    BY <1>3, <2>1 DEF accept, AbstractVars, Asked, Closed, Served, Dismissed
  <2>2. CASE c \notin allConnectedClients
    <3>1. session[c] = "none" /\ session' = [session EXCEPT ![c] = "new"]
      BY <1>3, <2>2 DEF accept, KnownInv
    <3>2. c \notin Served /\ Served' = Served \union {c} /\ Dismissed' = Dismissed
      BY <3>1 DEF Served, Dismissed, SessionSteps
    <3>3. Shutdown!Serve(c)
      BY <1>3, <3>2 DEF accept, Shutdown!Serve, Asked, Closed
    <3> QED BY <3>3 DEF Shutdown!Next
  <2> QED BY <2>1, <2>2
<1> QED BY <1>1, <1>2, <1>3 DEF Starting

(* The main thread's: the q is Ask, and the look that finds no names is    *)
(* Close, because a session without a name has had its goodbye.            *)
LEMMA MainRefines ==
  ASSUME LifeInv, input \/ allGone \/ closeAndExit
  PROVE  [Shutdown!Next]_AbstractVars
<1>1. UNCHANGED <<Served, Dismissed, goodbye>>
  BY DEF input, allGone, closeAndExit, Served, Dismissed
<1>2. CASE input
  <2>1. CASE main' = "waiting"
    <3>1. Shutdown!Ask
      BY <1>1, <1>2, <2>1 DEF input, Shutdown!Ask, Asked, Closed
    <3> QED BY <3>1 DEF Shutdown!Next
  <2>2. CASE main' = "gone"
    BY <1>1, <1>2, <2>2 DEF input, AbstractVars, Asked, Closed
  <2> QED BY <1>2, <2>1, <2>2 DEF input
<1>3. CASE allGone
  <2>1. Served \subseteq goodbye
    BY <1>3 DEF allGone, Served, LifeInv, NameInv
  <2>2. Shutdown!Close
    BY <1>1, <1>3, <2>1 DEF allGone, Shutdown!Close, Asked, Closed
  <2> QED BY <2>2 DEF Shutdown!Next
<1>4. CASE closeAndExit
  BY <1>1, <1>4 DEF closeAndExit, AbstractVars, Asked, Closed
<1> QED BY <1>2, <1>3, <1>4

(* A session's: it is dismissed when it finds the flag down, which it does *)
(* only in a shutdown, and QUIT is the goodbye.                            *)
LEMMA SessionRefines ==
  ASSUME LifeInv, LifeInv', NEW c \in Clients, Session(c) \/ dataConnection(c)
  PROVE  [Shutdown!Next]_AbstractVars
<1> USE DEF LifeInv, TypeOK, Step
<1>1. CASE QUIT(c)
  <2>1. /\ c \in Served /\ Served' = Served
        /\ Dismissed' = Dismissed \ {c}
    BY <1>1 DEF QUIT, Served, Dismissed, SessionSteps
  <2>2. Shutdown!Part(c)
    BY <1>1, <2>1 DEF QUIT, Shutdown!Part, Asked, Closed
  <2> QED BY <2>2 DEF Shutdown!Next
<1>2. CASE checkListening(c) /\ ~isListening
  <2>1. /\ c \in Served \ Dismissed /\ Served' = Served
        /\ Dismissed' = Dismissed \union {c}
    BY <1>2 DEF checkListening, Served, Dismissed, SessionSteps
  <2>2. main' \notin {"input", "gone"} /\ UNCHANGED <<main, goodbye>>
    BY <1>2 DEF checkListening, NoEarlyGoodbye, sharedVars
  <2>3. Shutdown!Dismiss(c)
    BY <2>1, <2>2 DEF Shutdown!Dismiss, Asked, Closed, MainSteps
  <2> QED BY <2>3 DEF Shutdown!Next
<1>3. CASE \/ checkListening(c) /\ isListening
           \/ sendWelcome(c) \/ dataConnection(c)
           \/ receiveOther(c) \/ receiveBreaks(c) \/ receiveTransfer(c) \/ receiveQUIT(c)
  BY <1>3, UnseenStep DEF checkListening, sendWelcome, dataConnection, receiveOther,
     receiveBreaks, receiveTransfer, receiveQUIT, sharedVars
<1> QED BY <1>1, <1>2, <1>3 DEF Session

(* Every step is one of GracefulShutdown or none at all.                   *)
LEMMA NextRefines == LifeInv /\ LifeInv' /\ [Next]_vars => [Shutdown!Next]_AbstractVars
<1> SUFFICES ASSUME LifeInv, LifeInv', [Next]_vars PROVE [Shutdown!Next]_AbstractVars
  OBVIOUS
<1>1. CASE UNCHANGED vars
  BY <1>1 DEF vars, AbstractVars, Asked, Closed, Served, Dismissed
<1>2. ASSUME NEW c \in Clients, connect(c) \/ leave(c)
      PROVE  UNCHANGED AbstractVars
  BY <1>2, UnseenStep DEF connect, leave
<1>3. CASE Next
  BY <1>2, <1>3, ListenerRefines, MainRefines, SessionRefines DEF Next
<1> QED BY <1>1, <1>3

(* The server stops as GracefulShutdown says, for any set of clients:      *)
(* nobody is dismissed unasked, or dropped without a goodbye.              *)
THEOREM ServerImplementsShutdown == Spec => ImplementsShutdown
<1>1. Init => Shutdown!Init
  BY DEF Init, Shutdown!Init, Asked, Closed, Served, Dismissed
<1>2. UNCHANGED AbstractVars <=> UNCHANGED <<Asked, Closed, Served, Dismissed, goodbye>>
  BY DEF AbstractVars
<1>3. LifeInv /\ LifeInv' /\ [Next]_vars
        => [Shutdown!Next]_<<Asked, Closed, Served, Dismissed, goodbye>>
  BY <1>2, NextRefines
<1> QED BY <1>1, <1>3, LifeInvariant, PTL DEF Spec, ImplementsShutdown, Shutdown!Spec
=============================================================================
