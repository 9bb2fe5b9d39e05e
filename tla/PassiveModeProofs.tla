------------------------- MODULE PassiveModeProofs -------------------------
(***************************************************************************)
(* Proofs about PassiveMode, for any number of sessions and any set of     *)
(* ports.  The first part holds of every client, the second of clients     *)
(* that cycle through ports one at a time (CyclicSpec).                    *)
(***************************************************************************)
EXTENDS PassiveMode, TLAPS

(* Every step of the program keeps every variable in its type.             *)
LEMMA TypeStep == TypeOK /\ [Next]_vars => TypeOK'
<1> SUFFICES ASSUME TypeOK, [Next]_vars PROVE TypeOK'
  OBVIOUS
<1> USE DEF TypeOK, Goto, Steps, Ready
<1>1. ASSUME NEW s \in Sessions, PASS(s) PROVE TypeOK'
  BY <1>1 DEF PASS
<1>2. ASSUME NEW s \in Sessions, PASV(s) PROVE TypeOK'
  <2>1. PICK k \in Keys :
          /\ passivePort' = [passivePort EXCEPT ![s] = k]
          /\ portsDictionary' =
               [portsDictionary EXCEPT ![k] = IF @ = "free" THEN "occupied" ELSE @]
    BY <1>2 DEF PASV, getPortFromPool
  <2> QED BY <1>2, <2>1 DEF PASV
<1>3. ASSUME NEW s \in Sessions, listen(s) PROVE TypeOK'
  BY <1>3 DEF listen
<1>4. ASSUME NEW s \in Sessions, PORT(s) PROVE TypeOK'
  BY <1>4 DEF PORT
<1>5. ASSUME NEW s \in Sessions, LIST(s) \/ RETR(s) \/ STOR(s) \/ QUIT(s)
      PROVE  TypeOK'
  BY <1>5 DEF LIST, RETR, STOR, QUIT
<1>6. ASSUME NEW s \in Sessions, openSocket(s) PROVE TypeOK'
  BY <1>6 DEF openSocket
<1>7. ASSUME NEW s \in Sessions, transfer(s) \/ transferFails(s) PROVE TypeOK'
  BY <1>7 DEF transfer, transferFails
<1>8. ASSUME NEW s \in Sessions, closeSocket(s) PROVE TypeOK'
  BY <1>8 DEF closeSocket
<1>9. ASSUME NEW s \in Sessions, closeSocketReturnPort(s) PROVE TypeOK'
  BY <1>9 DEF closeSocketReturnPort, returnPortToPool
<1>10. CASE UNCHANGED vars
  BY <1>10 DEF vars
<1> QED
  BY <1>1, <1>2, <1>3, <1>4, <1>5, <1>6, <1>7, <1>8, <1>9, <1>10
     DEF Next, Command, Handler

LEMMA TypeInit == Init => TypeOK
  BY PortsAssumption DEF Init, TypeOK, Keys, Steps

(* TypeOK is an invariant of every client.                                 *)
THEOREM TypeCorrect == Spec => []TypeOK
  BY TypeInit, TypeStep, PTL DEF Spec
-----------------------------------------------------------------------------
(* Between get and listen, PASV has already set passive mode.              *)
BindIsPassive ==
  \A s \in Sessions : pc[s] = "bind" => pasv_mode[s] /\ passiveSocket[s] = "unbound"

SessionInv ==
  /\ QuietBetweenCommands
  /\ NothingBeforeLogin
  /\ ModeMatchesSocket
  /\ BindIsPassive

LEMMA SessionStep == TypeOK /\ SessionInv /\ [Next]_vars => SessionInv'
<1> SUFFICES ASSUME TypeOK, SessionInv, [Next]_vars PROVE SessionInv'
  OBVIOUS
<1> USE DEF TypeOK, Goto, Steps, Ready, SessionInv, QuietBetweenCommands,
            NothingBeforeLogin, ModeMatchesSocket, BindIsPassive
<1>1. ASSUME NEW s \in Sessions, PASS(s) PROVE SessionInv'
  BY <1>1 DEF PASS
<1>2. ASSUME NEW s \in Sessions, PASV(s) PROVE SessionInv'
  BY <1>2 DEF PASV
<1>3. ASSUME NEW s \in Sessions, listen(s) PROVE SessionInv'
  BY <1>3 DEF listen
<1>4. ASSUME NEW s \in Sessions, PORT(s) PROVE SessionInv'
  BY <1>4 DEF PORT
<1>5. ASSUME NEW s \in Sessions, LIST(s) \/ RETR(s) \/ STOR(s) \/ QUIT(s)
      PROVE  SessionInv'
  BY <1>5 DEF LIST, RETR, STOR, QUIT
<1>6. ASSUME NEW s \in Sessions, openSocket(s) PROVE SessionInv'
  BY <1>6 DEF openSocket
<1>7. ASSUME NEW s \in Sessions, transfer(s) \/ transferFails(s) PROVE SessionInv'
  BY <1>7 DEF transfer, transferFails
<1>8. ASSUME NEW s \in Sessions, closeSocket(s) PROVE SessionInv'
  BY <1>8 DEF closeSocket
<1>9. ASSUME NEW s \in Sessions, closeSocketReturnPort(s) PROVE SessionInv'
  BY <1>9 DEF closeSocketReturnPort
<1>10. CASE UNCHANGED vars
  BY <1>10 DEF vars
<1> QED
  BY <1>1, <1>2, <1>3, <1>4, <1>5, <1>6, <1>7, <1>8, <1>9, <1>10
     DEF Next, Command, Handler

(* Whatever its client sends, a session leaves no data connection open     *)
(* between commands, gives an anonymous client no socket and no port, and  *)
(* accepts only on a socket that is there (ftp_server.py, openSocket,      *)
(* closeSocket, PORT, PASV).                                               *)
THEOREM SessionCorrect ==
  Spec => [](QuietBetweenCommands /\ NothingBeforeLogin /\ ModeMatchesSocket)
<1>1. Init => SessionInv
  BY DEF Init, SessionInv, QuietBetweenCommands, NothingBeforeLogin,
         ModeMatchesSocket, BindIsPassive
<1>2. SessionInv => QuietBetweenCommands /\ NothingBeforeLogin /\ ModeMatchesSocket
  BY DEF SessionInv
<1> QED
  BY <1>1, <1>2, SessionStep, TypeCorrect, PTL DEF Spec

(* Without a login there is no socket and no port (isUserAuthenticated).   *)
THEOREM AnonymousHoldsNothing == Spec => []NothingBeforeLogin
BY SessionCorrect, PTL

(* accept() is called on a socket, and active mode leaves none listening.  *)
THEOREM ModeAgreesWithSocket == Spec => []ModeMatchesSocket
BY SessionCorrect, PTL
-----------------------------------------------------------------------------
(* Clients that cycle through ports.  The two step conditions tie the      *)
(* running handler to the socket it finds; with them the port a session    *)
(* returns is always one it still holds.                                   *)
StepsMatchSocket ==
  \A s \in Sessions :
    /\ pc[s] = "bind" => passiveSocket[s] = "unbound"
    /\ pc[s] \in {"open", "transfer", "close"} => passiveSocket[s] # "closed"
    /\ pc[s] = "return" => passiveSocket[s] = "closed"

HoldersDiffer ==
  \A s, t \in Sessions :
    Holds(s) /\ Holds(t) /\ passivePort[s] = passivePort[t] /\ passivePort[s] \in Ports
      => s = t

CyclicInv ==
  /\ TypeOK
  /\ StepsMatchSocket
  /\ HoldersDiffer
  /\ PoolAgreesWithSessions

LEMMA CyclicIsNext == [CyclicNext]_vars => [Next]_vars
  BY DEF CyclicNext, CyclicCommand, CyclesPorts, Next, Command

LEMMA CyclicInit == Init => CyclicInv
<1> SUFFICES ASSUME Init PROVE CyclicInv
  OBVIOUS
<1>1. TypeOK
  BY TypeInit
<1>2. \A s \in Sessions : ~Holds(s)
  BY DEF Init, Holds
<1>3. \A p \in Ports : portsDictionary[p] = "free"
  BY PortsAssumption DEF Init, Keys
<1> QED
  BY <1>1, <1>2, <1>3
     DEF CyclicInv, StepsMatchSocket, HoldersDiffer, PoolAgreesWithSessions, Init

(* A step that neither takes nor returns a port, and changes no holder.    *)
LEMMA HoldingUnchanged ==
  ASSUME CyclicInv,
         UNCHANGED <<portsDictionary, passivePort>>,
         \A s \in Sessions : Holds(s)' <=> Holds(s)
  PROVE  HoldersDiffer' /\ PoolAgreesWithSessions'
  BY DEF CyclicInv, HoldersDiffer, PoolAgreesWithSessions

(* PASV takes a free port, or none, for a session that held nothing.       *)
LEMMA CyclicPASV ==
  ASSUME CyclicInv, NEW s \in Sessions, PASV(s),
         passiveSocket[s] \in {"None", "closed"}
  PROVE  CyclicInv'
<1>1. PICK k \in Keys :
        /\ IsFirstFree(k)
        /\ passivePort' = [passivePort EXCEPT ![s] = k]
        /\ portsDictionary' =
             [portsDictionary EXCEPT ![k] = IF @ = "free" THEN "occupied" ELSE @]
  BY DEF PASV, getPortFromPool
<1>2. TypeOK'
  BY TypeStep DEF CyclicInv, Next, Command
<1>3. ~Holds(s) /\ Holds(s)' /\ passivePort'[s] = k
  BY <1>1 DEF CyclicInv, TypeOK, Holds, PASV, Ready
<1>4. \A t \in Sessions \ {s} :
        (Holds(t)' <=> Holds(t)) /\ passivePort'[t] = passivePort[t]
  BY <1>1 DEF CyclicInv, TypeOK, Holds, PASV, Goto
<1>5. StepsMatchSocket'
  BY DEF CyclicInv, StepsMatchSocket, TypeOK, PASV, Goto, Ready
<1>6. CASE k \in Ports
  <2>1. portsDictionary[k] = "free" /\ portsDictionary'[k] = "occupied"
    BY <1>1, <1>6, PortsAssumption DEF IsFirstFree, CyclicInv, TypeOK
  <2>2. \A t \in Sessions : ~(Holds(t) /\ passivePort[t] = k)
    BY <2>1, <1>6 DEF CyclicInv, PoolAgreesWithSessions
  <2>3. \A p \in Ports \ {k} : portsDictionary'[p] = portsDictionary[p]
    BY <1>1 DEF CyclicInv, TypeOK, Keys
  <2>4. HoldersDiffer'
    BY <1>3, <1>4, <2>2 DEF CyclicInv, HoldersDiffer
  <2>5. PoolAgreesWithSessions'
    <3> SUFFICES ASSUME NEW p \in Ports
                 PROVE  portsDictionary'[p] = "occupied" <=>
                          \E t \in Sessions : Holds(t)' /\ passivePort'[t] = p
      BY DEF PoolAgreesWithSessions
    <3>1. CASE p = k
      BY <3>1, <2>1, <1>3
    <3>2. CASE p # k
      BY <3>2, <2>3, <1>3, <1>4 DEF CyclicInv, PoolAgreesWithSessions
    <3> QED BY <3>1, <3>2
  <2> QED BY <1>2, <1>5, <2>4, <2>5 DEF CyclicInv
<1>7. CASE k \notin Ports
  <2>1. \A p \in Ports : portsDictionary'[p] = portsDictionary[p]
    BY <1>1, <1>7 DEF CyclicInv, TypeOK, Keys
  <2>2. HoldersDiffer'
    BY <1>3, <1>4, <1>7 DEF CyclicInv, HoldersDiffer
  <2>3. PoolAgreesWithSessions'
    BY <1>3, <1>4, <1>7, <2>1 DEF CyclicInv, PoolAgreesWithSessions
  <2> QED BY <1>2, <1>5, <2>2, <2>3 DEF CyclicInv
<1> QED BY <1>6, <1>7

(* The second half of closeSocket returns a port the session holds.        *)
LEMMA CyclicReturn ==
  ASSUME CyclicInv, NEW s \in Sessions, closeSocketReturnPort(s)
  PROVE  CyclicInv'
<1> DEFINE k == passivePort[s]
<1>1. TypeOK'
  BY TypeStep DEF CyclicInv, Next, Handler
<1>2. Holds(s) /\ ~Holds(s)'
  BY DEF CyclicInv, TypeOK, StepsMatchSocket, Holds, closeSocketReturnPort, Goto
<1>3. \A t \in Sessions \ {s} : Holds(t)' <=> Holds(t)
  BY DEF CyclicInv, TypeOK, Holds, closeSocketReturnPort, Goto
<1>4. /\ k \in Keys /\ portsDictionary'[k] = "free"
      /\ \A p \in Keys \ {k} : portsDictionary'[p] = portsDictionary[p]
      /\ passivePort' = passivePort
  BY DEF CyclicInv, TypeOK, closeSocketReturnPort, returnPortToPool
<1>5. StepsMatchSocket'
  BY DEF CyclicInv, StepsMatchSocket, TypeOK, closeSocketReturnPort, Goto
<1>6. HoldersDiffer'
  BY <1>2, <1>3, <1>4 DEF CyclicInv, HoldersDiffer
<1>7. PoolAgreesWithSessions'
  <2> SUFFICES ASSUME NEW p \in Ports
               PROVE  portsDictionary'[p] = "occupied" <=>
                        \E t \in Sessions : Holds(t)' /\ passivePort'[t] = p
    BY DEF PoolAgreesWithSessions
  <2>1. CASE p = k
    BY <2>1, <1>2, <1>3, <1>4 DEF CyclicInv, HoldersDiffer
  <2>2. CASE p # k
    BY <2>2, <1>2, <1>3, <1>4 DEF CyclicInv, PoolAgreesWithSessions, Keys
  <2> QED BY <2>1, <2>2
<1> QED BY <1>1, <1>5, <1>6, <1>7 DEF CyclicInv

(* What the other steps leave alone. *)
PortsStay ==
  /\ StepsMatchSocket'
  /\ UNCHANGED <<portsDictionary, passivePort>>
  /\ \A s \in Sessions : Holds(s)' <=> Holds(s)

(* A step hands out a port, takes one back, or does neither. *)
LEMMA CyclicCases ==
  ASSUME CyclicInv, [CyclicNext]_vars
  PROVE  \/ \E s \in Sessions : PASV(s) /\ passiveSocket[s] \in {"None", "closed"}
         \/ \E s \in Sessions : closeSocketReturnPort(s)
         \/ PortsStay
<1>1. ASSUME NEW s \in Sessions, PASS(s) PROVE PortsStay
  BY <1>1 DEF PASS, PortsStay, CyclicInv, StepsMatchSocket, Holds
<1>2. ASSUME NEW s \in Sessions, CyclesPorts(s) PROVE PortsStay
  BY <1>2 DEF CyclesPorts, LIST, RETR, STOR, QUIT, PortsStay, CyclicInv, TypeOK,
              StepsMatchSocket, Holds, Ready, Goto
<1>3. ASSUME NEW s \in Sessions, listen(s) PROVE PortsStay
  BY <1>3 DEF listen, PortsStay, CyclicInv, TypeOK, StepsMatchSocket, Holds, Goto
<1>4. ASSUME NEW s \in Sessions, openSocket(s) PROVE PortsStay
  BY <1>4 DEF openSocket, PortsStay, CyclicInv, TypeOK, StepsMatchSocket, Holds, Goto
<1>5. ASSUME NEW s \in Sessions, transfer(s) \/ transferFails(s) PROVE PortsStay
  BY <1>5 DEF transfer, transferFails, PortsStay, CyclicInv, TypeOK, StepsMatchSocket, Holds, Goto
<1>6. ASSUME NEW s \in Sessions, closeSocket(s) PROVE PortsStay
  BY <1>6 DEF closeSocket, PortsStay, CyclicInv, TypeOK, StepsMatchSocket, Holds, Goto
<1>7. CASE UNCHANGED vars
  BY <1>7 DEF vars, CyclicInv, StepsMatchSocket, PortsStay, Holds
<1> QED
  BY <1>1, <1>2, <1>3, <1>4, <1>5, <1>6, <1>7 DEF CyclicNext, CyclicCommand, Handler

LEMMA CyclicStep == CyclicInv /\ [CyclicNext]_vars => CyclicInv'
<1> SUFFICES ASSUME CyclicInv, [CyclicNext]_vars PROVE CyclicInv'
  OBVIOUS
<1>1. CASE PortsStay
  BY <1>1, TypeStep, CyclicIsNext, HoldingUnchanged DEF CyclicInv, PortsStay
<1> QED BY <1>1, CyclicCases, CyclicPASV, CyclicReturn

LEMMA CyclicInvariant == CyclicSpec => []CyclicInv
  BY CyclicInit, CyclicStep, PTL DEF CyclicSpec

(* A client that cycles through ports never shares one: no two sessions    *)
(* have a passive socket on the same port (the comment in PASV).           *)
THEOREM PortsAreUnique == CyclicSpec => []UniquePort
<1>1. CyclicInv => UniquePort
  BY DEF CyclicInv, HoldersDiffer, UniquePort, Holds
<1> QED BY <1>1, CyclicInvariant, PTL

(* ... and portsDictionary marks exactly the ports that sessions hold, so  *)
(* no port is lost either.                                                 *)
THEOREM PoolIsExact == CyclicSpec => []PoolAgreesWithSessions
<1>1. CyclicInv => PoolAgreesWithSessions
  BY DEF CyclicInv
<1> QED BY <1>1, CyclicInvariant, PTL
-----------------------------------------------------------------------------
(* The refinement.  In a state of CyclicInv a port has at most one holder, *)
(* so ownerOf is a function of who holds what.                             *)
OwnerExact ==
  \A p \in Ports :
    /\ \A s \in Sessions : (Holds(s) /\ passivePort[s] = p) <=> ownerOf[p] = s
    /\ ownerOf[p] \in Sessions \union {Nobody}

LEMMA OwnerIsExact == HoldersDiffer => OwnerExact
<1> SUFFICES ASSUME HoldersDiffer, NEW p \in Ports
             PROVE  /\ \A s \in Sessions :
                         (Holds(s) /\ passivePort[s] = p) <=> ownerOf[p] = s
                    /\ ownerOf[p] \in Sessions \union {Nobody}
  BY DEF OwnerExact
<1> DEFINE H(s) == Holds(s) /\ passivePort[s] = p
<1>1. ownerOf[p] = IF \E s \in Sessions : H(s) THEN CHOOSE s \in Sessions : H(s) ELSE Nobody
  BY DEF ownerOf
<1>2. \A s, t \in Sessions : H(s) /\ H(t) => s = t
  BY DEF HoldersDiffer
<1> HIDE DEF H
<1>3. CASE \E s \in Sessions : H(s)
  <2>1. PICK s \in Sessions : H(s)
    BY <1>3
  <2>2. ownerOf[p] \in Sessions /\ H(ownerOf[p])
    BY <1>1, <1>3
  <2> QED BY <2>1, <2>2, <1>2 DEF H
<1>4. CASE ~\E s \in Sessions : H(s)
  BY <1>1, <1>4, NobodyAssumption DEF H
<1> QED BY <1>3, <1>4

(* A step after which the same sessions hold the same ports.               *)
LEMMA OwnerUnchanged ==
  ASSUME OwnerExact, OwnerExact',
         passivePort' = passivePort,
         \A s \in Sessions : Holds(s)' <=> Holds(s)
  PROVE  ownerOf' = ownerOf
<1>1. ASSUME NEW p \in Ports PROVE ownerOf'[p] = ownerOf[p]
  BY <1>1 DEF OwnerExact
<1>2. ownerOf = [p \in Ports |-> ownerOf[p]] /\ ownerOf' = [p \in Ports |-> ownerOf'[p]]
  BY DEF ownerOf
<1> QED BY <1>1, <1>2

LEMMA OwnerIsExactNext == HoldersDiffer' => OwnerExact'
  BY OwnerIsExact, PTL

LEMMA AllocatorStep ==
  ASSUME CyclicInv, CyclicInv', [CyclicNext]_vars
  PROVE  [Allocator!Next]_ownerOf
<1>1. OwnerExact /\ OwnerExact'
  BY OwnerIsExact, OwnerIsExactNext DEF CyclicInv
<1>2. /\ ownerOf = [p \in Ports |-> ownerOf[p]]
      /\ ownerOf' = [p \in Ports |-> ownerOf'[p]]
  BY DEF ownerOf
<1>3. ASSUME NEW s \in Sessions, PASV(s), passiveSocket[s] \in {"None", "closed"}
      PROVE  [Allocator!Next]_ownerOf
  <2>1. PICK k \in Keys :
          IsFirstFree(k) /\ passivePort' = [passivePort EXCEPT ![s] = k]
    BY <1>3 DEF PASV, getPortFromPool
  <2>2. ~Holds(s) /\ Holds(s)' /\ passivePort'[s] = k
    BY <1>3, <2>1 DEF CyclicInv, TypeOK, Holds, PASV, Ready
  <2>3. \A t \in Sessions \ {s} :
          (Holds(t)' <=> Holds(t)) /\ passivePort'[t] = passivePort[t]
    BY <1>3, <2>1 DEF CyclicInv, TypeOK, Holds, PASV, Goto
  <2>4. \A p \in Ports \ {k} : ownerOf'[p] = ownerOf[p]
    BY <1>1, <2>2, <2>3, NobodyAssumption DEF OwnerExact
  <2>5. CASE k \in Ports
    <3>1. portsDictionary[k] = "free"
      BY <2>1, <2>5, PortsAssumption DEF IsFirstFree
    <3>2. ownerOf[k] = Nobody
      BY <1>1, <2>5, <3>1 DEF OwnerExact, CyclicInv, PoolAgreesWithSessions
    <3>3. \A p \in Ports : ownerOf[p] # s
      BY <1>1, <2>2 DEF OwnerExact
    <3>4. ownerOf'[k] = s
      BY <1>1, <2>2, <2>5 DEF OwnerExact
    <3>5. ownerOf' = [ownerOf EXCEPT ![k] = s]
      BY <1>2, <2>4, <2>5, <3>4
    <3> QED
      BY <2>5, <3>2, <3>3, <3>5
         DEF Allocator!Next, Allocator!Take, Allocator!OwnsNothing
  <2>6. CASE k \notin Ports
    BY <1>2, <2>4, <2>6
  <2> QED BY <2>5, <2>6
<1>4. ASSUME NEW s \in Sessions, closeSocketReturnPort(s)
      PROVE  [Allocator!Next]_ownerOf
  <2> DEFINE k == passivePort[s]
  <2>1. Holds(s) /\ ~Holds(s)' /\ passivePort' = passivePort
    BY <1>4 DEF CyclicInv, TypeOK, StepsMatchSocket, Holds, closeSocketReturnPort, Goto
  <2>2. \A t \in Sessions \ {s} : Holds(t)' <=> Holds(t)
    BY <1>4 DEF CyclicInv, TypeOK, Holds, closeSocketReturnPort, Goto
  <2>3. \A p \in Ports \ {k} : ownerOf'[p] = ownerOf[p]
    BY <1>1, <2>1, <2>2, NobodyAssumption DEF OwnerExact
  <2>4. CASE k \in Ports
    <3>1. ownerOf[k] = s
      BY <1>1, <2>1, <2>4 DEF OwnerExact
    <3>2. \A t \in Sessions : ownerOf'[k] # t
      BY <1>1, <2>1, <2>2, <2>4, <3>1 DEF OwnerExact
    <3>3. ownerOf'[k] = Nobody
      BY <1>1, <2>4, <3>2 DEF OwnerExact
    <3>4. ownerOf' = [ownerOf EXCEPT ![k] = Nobody]
      BY <1>2, <2>3, <2>4, <3>3
    <3> QED
      BY <2>4, <3>1, <3>4 DEF Allocator!Next, Allocator!Release
  <2>5. CASE k \notin Ports
    BY <1>2, <2>3, <2>5
  <2> QED BY <2>4, <2>5
<1>5. CASE PortsStay
  BY <1>1, <1>5, OwnerUnchanged DEF PortsStay
<1> QED BY <1>3, <1>4, <1>5, CyclicCases

(* With clients that cycle through ports, the sessions and portsDictionary *)
(* together implement an allocator: a port goes from nobody to the session *)
(* that asked and back, never straight from one session to another.        *)
THEOREM PoolImplementsAllocator == CyclicSpec => ImplementsAllocator
<1>1. Init => Allocator!Init
  BY DEF Init, Allocator!Init, ownerOf, Holds
<1>2. CyclicInv /\ CyclicInv' /\ [CyclicNext]_vars => [Allocator!Next]_ownerOf
  BY AllocatorStep
<1> QED
  BY <1>1, <1>2, CyclicInvariant, PTL DEF CyclicSpec, ImplementsAllocator, Allocator!Spec

=============================================================================
