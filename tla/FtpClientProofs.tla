-------------------------- MODULE FtpClientProofs --------------------------
(***************************************************************************)
(* Proofs about FtpClient, for any first port, any ports the user types    *)
(* and any number of commands and timeouts: its types, by how many answers *)
(* the client is behind, and that there is one to come when it waits.      *)
(***************************************************************************)
EXTENDS FtpClient, SequenceTheorems, TLAPS

(* One port for each "dir", whose LIST can still be sent.                  *)
PortsInv ==
  /\ RETURN_PORT <= FirstPort + sent
  /\ dirStep => main # "input" /\ sent < MaxCommands

(* While a command is on its way there is one answer more.                 *)
LagInv == Owed <= extras + timeouts + (IF main = "input" THEN 0 ELSE 1)

ClientInv == TypeOK /\ PortsInv /\ LagInv
-----------------------------------------------------------------------------
(* What most steps need of the bounds.                                     *)
LEMMA BoundsAreNumbers == FirstPort \in Nat /\ MaxCommands \in Nat /\ MaxTimeouts \in Nat
BY BoundsAssumption

(* The two bytes of a port make the port.                                  *)
LEMMA PortIsCoded ==
  ASSUME NEW p \in Nat, p < 65536
  PROVE  /\ PORT(p) \in Commands
         /\ PORT(p).name = "PORT"
         /\ PORT(p).high * 256 + PORT(p).low = p
<1>r. p % 256 = p - 256 * (p \div 256)
  OBVIOUS
<1>0. p \div 256 \in Int /\ p % 256 \in 0..255
  OBVIOUS
<1>q. p \div 256 \in 0..255
  BY <1>0, <1>r
<1>m. \A x \in 0..255 : x % 256 = x
  OBVIOUS
<1>s. (p \div 256) * 256 + (p % 256) = p
  BY <1>0, <1>r
<1>1. /\ (p \div 256) % 256 \in Bytes
      /\ p % 256 \in Bytes
      /\ ((p \div 256) % 256) * 256 + (p % 256) = p
  BY <1>0, <1>q, <1>m, <1>s DEF Bytes
<1> DEFINE high == (p \div 256) % 256
           low == p % 256
<1>2. PORT(p) = [name |-> "PORT", high |-> high, low |-> low]
  BY DEF PORT
<1>3. high \in Bytes /\ low \in Bytes /\ high * 256 + low = p
  BY <1>1
<1> HIDE DEF high, low
<1>4. PORT(p) \in [name : {"PORT"}, high : Bytes, low : Bytes]
  BY <1>2, <1>3
<1> QED BY <1>2, <1>3, <1>4 DEF Commands

(* Every port there can be has two bytes.                                  *)
LEMMA PortsAreSmall == \A p \in Ports : p \in Nat /\ p < 65536
<1> SUFFICES ASSUME NEW p \in Ports PROVE p \in Nat /\ p < 65536
  OBVIOUS
<1>1. p \in Int /\ p >= FirstPort /\ p <= FirstPort + MaxCommands
  BY BoundsAssumption DEF Ports
<1> QED BY <1>1, BoundsAssumption

(* The initial state has the invariant.                                    *)
LEMMA InitClient == Init => ClientInv
<1> SUFFICES ASSUME Init PROVE ClientInv
  OBVIOUS
<1>1. FirstPort \in Ports
  BY BoundsAreNumbers DEF Ports
<1>e. << >> \in Seq(Commands)
  OBVIOUS
<1>f. /\ thread \in [Ports -> ThreadSteps] /\ port \in [Ports -> Ports]
      /\ backlog \in [Ports -> Nat]
  BY <1>1 DEF Init, ThreadSteps
<1>g. /\ main \in MainSteps /\ dirStep \in BOOLEAN /\ serving \in ServingSteps
      /\ passive \in PassiveStates
      /\ RETURN_PORT \in Ports /\ commands \in Seq(Commands)
  BY <1>1, <1>e DEF Init, MainSteps, ServingSteps, PassiveStates
<1>h. /\ answers \in Nat /\ extras \in Nat /\ dataSocketPort \in Nat
      /\ sent \in 0..MaxCommands /\ timeouts \in 0..MaxTimeouts
  BY BoundsAreNumbers DEF Init
<1>2. TypeOK
  BY <1>f, <1>g, <1>h DEF TypeOK
<1>3. PortsInv
  BY BoundsAreNumbers DEF Init, PortsInv
<1>4. LagInv
  BY DEF Init, LagInv, Owed
<1> QED BY <1>2, <1>3, <1>4 DEF ClientInv
-----------------------------------------------------------------------------
(* A command that is sent, alone or after others.                          *)
LEMMA Sent ==
  ASSUME NEW s \in Seq(Commands), NEW c \in Commands
  PROVE  Append(s, c) \in Seq(Commands) /\ Append(s, c) # << >>
BY AppendProperties

(* Whatever the user can type is a command.                                *)
LEMMA TypedAreCommands == TypedCommands \subseteq Commands
<1> SUFFICES ASSUME NEW c \in TypedCommands PROVE c \in Commands
  OBVIOUS
<1>1. CASE c \in [name : Words]
  BY <1>1 DEF Commands
<1>2. ASSUME NEW p \in TypedPorts, c = PORT(p) PROVE c \in Commands
  BY <1>2, BoundsAssumption, PortIsCoded
<1> QED BY <1>1, <1>2 DEF TypedCommands
-----------------------------------------------------------------------------
(* What a command that the user types keeps.                               *)
LEMMA TypeStep ==
  ASSUME ClientInv, NEW c \in TypedCommands, type(c)
  PROVE  ClientInv'
<1>1. c \in Commands
  BY TypedAreCommands
<1>2. main = "input" /\ sent < MaxCommands /\ commands' = Append(commands, c)
        /\ sent' = sent + 1 /\ main' = "asleep"
  BY DEF type, Send
<1>3. commands' \in Seq(Commands) /\ commands' # << >>
  BY <1>1, <1>2, Sent DEF ClientInv, TypeOK
<1>4. TypeOK'
  BY <1>2, <1>3, BoundsAreNumbers
     DEF type, ClientInv, TypeOK, threadVars, serverVars, MainSteps
<1>5. PortsInv'
  BY <1>2, BoundsAreNumbers DEF type, ClientInv, TypeOK, PortsInv, Ports
<1>6. LagInv'
  BY <1>2, <1>3 DEF type, ClientInv, TypeOK, LagInv, Owed, serverVars
<1> QED BY <1>4, <1>5, <1>6 DEF ClientInv

(* What the PORT of a "dir" keeps.                                         *)
LEMMA DirStep ==
  ASSUME ClientInv, dir
  PROVE  ClientInv'
<1> DEFINE c == PORT(RETURN_PORT')
<1>0. /\ main = "input" /\ sent + 1 < MaxCommands /\ RETURN_PORT' = RETURN_PORT + 1
      /\ RETURN_PORT' \in Ports /\ dirStep' = TRUE
  BY BoundsAreNumbers DEF dir, ClientInv, TypeOK, PortsInv, Ports
<1>1. c \in Commands
  BY <1>0, PortsAreSmall, PortIsCoded
<1>2. commands' = Append(commands, c) /\ sent' = sent + 1 /\ main' = "asleep"
  BY DEF dir, Send
<1> HIDE DEF c
<1>3. commands' \in Seq(Commands) /\ commands' # << >>
  BY <1>1, <1>2, Sent DEF ClientInv, TypeOK
<1>4. TypeOK'
  BY <1>0, <1>2, <1>3, BoundsAreNumbers
     DEF dir, ClientInv, TypeOK, threadVars, serverVars, MainSteps
<1>5. PortsInv'
  BY <1>0, <1>2, BoundsAreNumbers DEF dir, ClientInv, TypeOK, PortsInv, Ports
<1>6. LagInv'
  BY <1>0, <1>2, <1>3 DEF dir, ClientInv, TypeOK, LagInv, Owed, serverVars
<1> QED BY <1>4, <1>5, <1>6 DEF ClientInv

(* One command more, where there may have been some already.               *)
LEMMA OneMore ==
  ASSUME NEW s \in Int, NEW c \in Int, NEW n \in Int, NEW e \in Nat, NEW u \in Nat,
         s + c <= e + u, c >= 0, n <= 1
  PROVE  s + n <= e + u + 1
OBVIOUS

(* What is left when the client has read, or has waited in vain.           *)
LEMMA Fewer ==
  ASSUME NEW a \in Nat, NEW o \in Int, NEW r \in Int, NEW e \in Nat,
         NEW t \in Nat, NEW u \in Nat,
         o = a + r, o <= e + t + 1, a + u > t
  PROVE  r <= e + u
OBVIOUS

(* What Returned does: the LIST of a "dir" is sent, or the client is at    *)
(* the prompt.                                                             *)
LEMMA ReturnedStep ==
  ASSUME ClientInv, main = "receive", Returned,
         UNCHANGED <<RETURN_PORT, port, backlog, serverVars>>,
         answers' = 0, timeouts' \in 0..MaxTimeouts,
         answers + timeouts' > timeouts
  PROVE  ClientInv'
<1>0. /\ RETURN_PORT' = RETURN_PORT /\ port' = port /\ backlog' = backlog
      /\ serving' = serving /\ passive' = passive /\ dataSocketPort' = dataSocketPort
      /\ extras' = extras
      /\ timeouts' \in 0..MaxTimeouts
  BY BoundsAreNumbers DEF serverVars, ClientInv, TypeOK
<1>n. /\ answers \in Nat /\ extras \in Nat /\ timeouts \in Nat /\ timeouts' \in Nat
      /\ RETURN_PORT \in Ports
  BY <1>0, BoundsAreNumbers DEF ClientInv, TypeOK
<1> DEFINE srv == IF serving = "idle" THEN 0 ELSE 1
           cmd == IF commands = << >> THEN 0 ELSE 1
           new == IF commands' = << >> THEN 0 ELSE 1
<1>a. srv \in 0..1 /\ cmd \in 0..1 /\ new \in 0..1
  OBVIOUS
<1>b. Owed = answers + srv + cmd /\ Owed' = srv + new
  BY <1>0, <1>a DEF Owed
<1>d. commands' = commands => new = cmd
  OBVIOUS
<1>e. Owed <= extras + timeouts + 1
  BY DEF ClientInv, LagInv
<1>f. cmd >= 0 /\ new <= 1
  OBVIOUS
<1> HIDE DEF srv, cmd, new
<1>i. srv \in Int /\ cmd \in Int /\ new \in Int /\ srv + cmd \in Int
  BY <1>a
<1>j. Owed = answers + (srv + cmd)
  BY <1>b, <1>n, <1>i
<1>k. Owed \in Int
  BY <1>j, <1>n, <1>i
<1>l. srv + cmd <= extras + timeouts'
  BY <1>e, <1>i, <1>j, <1>k, <1>n, Fewer
<1>1. CASE dirStep
  <2> DEFINE c == [name |-> "transfer"]
  <2>1. c \in Commands
    BY DEF Commands, Words
  <2>2. /\ thread' = [thread EXCEPT ![RETURN_PORT] = "new"] /\ dirStep' = FALSE
        /\ commands' = Append(commands, c) /\ sent' = sent + 1 /\ main' = "asleep"
    BY <1>1 DEF Returned, Send
  <2> HIDE DEF c
  <2>3. commands' \in Seq(Commands) /\ commands' # << >>
    BY <2>1, <2>2, Sent DEF ClientInv, TypeOK
  <2>4. thread' \in [Ports -> ThreadSteps] /\ sent' \in 0..MaxCommands
    BY <1>1, <1>n, <2>2, BoundsAreNumbers DEF ClientInv, TypeOK, PortsInv, ThreadSteps
  <2>5. TypeOK'
    BY <1>0, <2>2, <2>3, <2>4 DEF ClientInv, TypeOK, MainSteps
  <2>6. PortsInv'
    BY <1>0, <2>2, BoundsAreNumbers DEF ClientInv, TypeOK, PortsInv, Ports
  <2>7. LagInv'
    <3>t. srv + new <= extras + timeouts' + 1
      BY <1>f, <1>i, <1>l, <1>n, OneMore
    <3>1. Owed' <= extras' + timeouts' + 1
      BY <3>t, <1>0, <1>b
    <3>2. main' # "input"
      BY <2>2
    <3> QED BY <3>1, <3>2 DEF LagInv
  <2> QED BY <2>5, <2>6, <2>7 DEF ClientInv
<1>2. CASE ~dirStep
  <2>1. main' = "input" /\ UNCHANGED <<dirStep, thread, commands, sent>>
    BY <1>2 DEF Returned
  <2>2. TypeOK' /\ PortsInv'
    BY <1>0, <1>2, <2>1 DEF ClientInv, TypeOK, PortsInv, MainSteps
  <2>3. LagInv'
    <3>1. Owed' <= extras' + timeouts'
      BY <1>0, <1>b, <1>d, <1>i, <1>l, <1>n, <2>1
    <3> QED BY <1>0, <1>n, <2>1, <3>1 DEF LagInv
  <2> QED BY <2>2, <2>3 DEF ClientInv
<1> QED BY <1>1, <1>2

(* What a read of the client keeps, with or without an answer.             *)
LEMMA ReceiveStep ==
  ASSUME ClientInv, receive \/ receiveTimesOut
  PROVE  ClientInv'
<1>1. CASE receive
  BY <1>1, ReturnedStep DEF receive, ClientInv, TypeOK
<1>2. CASE receiveTimesOut
  BY <1>2, ReturnedStep, BoundsAreNumbers DEF receiveTimesOut, ClientInv, TypeOK
<1> QED BY <1>1, <1>2

(* What waking up keeps.                                                   *)
LEMMA WakeStep ==
  ASSUME ClientInv, wake
  PROVE  ClientInv'
BY DEF wake, ClientInv, TypeOK, PortsInv, LagInv, Owed, MainSteps, threadVars, serverVars

(* What a thread of the client keeps.                                      *)
LEMMA ThreadStep ==
  ASSUME ClientInv, NEW t \in Ports, Thread(t)
  PROVE  ClientInv'
<1>1. /\ UNCHANGED <<clientVars, commands, answers, serverVars>>
      /\ thread' \in [Ports -> ThreadSteps] /\ port' \in [Ports -> Ports]
      /\ backlog' \in [Ports -> Nat]
  <2>1. CASE listen(t)
    BY <2>1 DEF listen, ClientInv, TypeOK, ThreadSteps
  <2>2. CASE accept(t)
    BY <2>2 DEF accept, ClientInv, TypeOK, ThreadSteps
  <2>3. CASE readTimesOut(t)
    BY <2>3 DEF readTimesOut, ClientInv, TypeOK, ThreadSteps
  <2> QED BY <2>1, <2>2, <2>3 DEF Thread
<1> QED BY <1>1 DEF ClientInv, TypeOK, PortsInv, LagInv, Owed, clientVars, serverVars
-----------------------------------------------------------------------------
(* What the session keeps.                                                 *)

(* The port of a PORT is a number.                                         *)
LEMMA ReadPORTStep ==
  ASSUME ClientInv, readPORT
  PROVE  ClientInv'
<1> DEFINE c == Head(commands)
<1>1. /\ commands # << >> /\ commands' = << >> /\ c \in Commands
      /\ UNCHANGED <<clientVars, threadVars, backlog, serving, extras>>
      /\ passive' = "off" /\ answers' = answers + 1
      /\ dataSocketPort' = IF c.name = "PORT" /\ Len(commands) = 1
                             THEN c.high * 256 + c.low ELSE dataSocketPort
  BY DEF readPORT, Read, Answer, ClientInv, TypeOK
<1> HIDE DEF c
<1>2. dataSocketPort' \in Nat
  <2>1. CASE c.name = "PORT"
    <3>0. c \in [name : {"PORT"}, high : Bytes, low : Bytes]
      <4>1. c \in [name : Words] => c.name \in Words
        OBVIOUS
      <4> QED BY <1>1, <2>1, <4>1 DEF Commands, Words
    <3>1. c.high \in Bytes /\ c.low \in Bytes
      BY <3>0
    <3>2. c.high * 256 + c.low \in Nat
      <4>1. \A h, l \in 0..255 : h * 256 + l \in Nat
        OBVIOUS
      <4> QED BY <3>1, <4>1, Zenon DEF Bytes
    <3> QED BY <1>1, <3>2 DEF ClientInv, TypeOK
  <2>2. CASE c.name # "PORT"
    BY <1>1, <2>2 DEF ClientInv, TypeOK
  <2> QED BY <2>1, <2>2
<1>3. TypeOK'
  BY <1>1, <1>2 DEF ClientInv, TypeOK, PassiveStates, clientVars, threadVars
<1>4. PortsInv'
  BY <1>1 DEF ClientInv, PortsInv, clientVars
<1>5. LagInv'
  BY <1>1 DEF ClientInv, TypeOK, LagInv, Owed, clientVars
<1> QED BY <1>3, <1>4, <1>5 DEF ClientInv

(* A second answer is an extra one.                                        *)
LEMMA ReadTwofoldStep ==
  ASSUME ClientInv, readTwofold
  PROVE  ClientInv'
<1>1. PICK n \in {0, 1} : answers' = answers + 1 + n /\ extras' = extras + n
  BY DEF readTwofold
<1>2. /\ commands # << >> /\ commands' = << >>
      /\ UNCHANGED <<clientVars, threadVars, backlog, serving, dataSocketPort>>
  BY DEF readTwofold, Read
<1>3. passive' \in PassiveStates
  BY DEF readTwofold, MayClosePassive, ClientInv, TypeOK, PassiveStates
<1>4. TypeOK'
  BY <1>1, <1>2, <1>3 DEF ClientInv, TypeOK, clientVars, threadVars
<1>5. PortsInv'
  BY <1>2 DEF ClientInv, PortsInv, clientVars
<1>6. LagInv'
  BY <1>1, <1>2 DEF ClientInv, TypeOK, LagInv, Owed, clientVars
<1> QED BY <1>4, <1>5, <1>6 DEF ClientInv

(* What each step of the session keeps.                                    *)
LEMMA SessionStep ==
  ASSUME ClientInv, Session
  PROVE  ClientInv'
<1> USE DEF ClientInv, TypeOK, PortsInv, LagInv, Owed, Answer, Read, MayClosePassive,
            clientVars, threadVars, serverVars, ServingSteps, PassiveStates
<1>1. CASE readOther
  BY <1>1 DEF readOther
<1>2. CASE readTwofold
  BY <1>2, ReadTwofoldStep
<1>3. CASE readPORT
  BY <1>3, ReadPORTStep
<1>4. CASE readPASV
  BY <1>4 DEF readPASV
<1>5. CASE readTransfer
  BY <1>5 DEF readTransfer
<1>6. CASE connectPassive
  BY <1>6 DEF connectPassive
<1>7. CASE connect
  BY <1>7 DEF connect
<1>8. CASE close
  <2>1. thread' \in [Ports -> ThreadSteps]
    BY <1>8 DEF close, ThreadSteps
  <2> QED BY <1>8, <2>1 DEF close
<1> QED BY <1>1, <1>2, <1>3, <1>4, <1>5, <1>6, <1>7, <1>8 DEF Session
-----------------------------------------------------------------------------
(* The invariant is inductive.                                             *)
LEMMA NextClient == ClientInv /\ [Next]_vars => ClientInv'
<1> SUFFICES ASSUME ClientInv, [Next]_vars PROVE ClientInv'
  OBVIOUS
<1>1. CASE UNCHANGED vars
  BY <1>1 DEF ClientInv, TypeOK, PortsInv, LagInv, Owed, vars,
     clientVars, threadVars, serverVars
<1>2. CASE Next
  BY <1>2, TypeStep, DirStep, ReceiveStep, WakeStep, ThreadStep, SessionStep
     DEF Next, User, Main
<1> QED BY <1>1, <1>2

(* The invariant holds always.                                             *)
THEOREM ClientInvariant == Spec => []ClientInv
BY InitClient, NextClient, PTL DEF Spec

(* Every variable keeps its type.                                          *)
THEOREM TypeCorrect == Spec => []TypeOK
<1>1. ClientInv => TypeOK
  BY DEF ClientInv
<1> QED BY <1>1, ClientInvariant, PTL

(* At the prompt the client is behind by no more answers than there were   *)
(* second answers and timeouts.                                            *)
THEOREM LagIsBounded == Spec => []LagBounded
<1>1. ClientInv => LagBounded
  BY DEF ClientInv, TypeOK, LagInv, LagBounded
<1> QED BY <1>1, ClientInvariant, PTL
-----------------------------------------------------------------------------
(* Who waits for an answer is owed one: it has been read by nobody, or the *)
(* session is at work, or has not read the command.                        *)
AnswerToCome == main # "input" => Owed > 0

(* A command that is sent, and an answer that is given, are owed.          *)
LEMMA OwedIsPositive ==
  ASSUME TypeOK
  PROVE  Owed > 0 <=> answers # 0 \/ serving # "idle" \/ commands # << >>
BY DEF Owed, TypeOK

(* No step of anyone leaves who waits without an answer to come.           *)
LEMMA AnswerStep == ClientInv /\ AnswerToCome /\ [Next]_vars => AnswerToCome'
<1> SUFFICES ASSUME ClientInv, AnswerToCome, [Next]_vars, main' # "input"
             PROVE  Owed' > 0
  BY DEF AnswerToCome
<1>1. TypeOK /\ TypeOK'
  BY NextClient DEF ClientInv
<1>2. main # "input" => answers # 0 \/ serving # "idle" \/ commands # << >>
  BY <1>1, OwedIsPositive DEF AnswerToCome
<1>d. answers' # 0 \/ serving' # "idle" \/ commands' # << >> => Owed' > 0
  <2>1. answers' \in Nat
    BY <1>1 DEF TypeOK
  <2> DEFINE srv == IF serving' = "idle" THEN 0 ELSE 1
             cmd == IF commands' = << >> THEN 0 ELSE 1
  <2>2. /\ srv \in Nat /\ cmd \in Nat
        /\ serving' # "idle" => srv = 1
        /\ commands' # << >> => cmd = 1
    OBVIOUS
  <2>3. Owed' = answers' + srv + cmd
    BY DEF Owed
  <2> HIDE DEF srv, cmd
  <2>4. \A a, b, c \in Nat : a # 0 \/ b = 1 \/ c = 1 => a + b + c > 0
    OBVIOUS
  <2>5. answers' # 0 \/ srv = 1 \/ cmd = 1 => answers' + srv + cmd > 0
    BY <2>1, <2>2, <2>4
  <2> QED BY <2>2, <2>3, <2>5
(* Send puts a command where the session will find it. *)
<1>s. ASSUME NEW c \in Commands, commands' = Append(commands, c) PROVE commands' # << >>
  BY <1>s, <1>1, Sent DEF TypeOK
<1>3. ASSUME NEW c \in TypedCommands, type(c) PROVE commands' # << >>
  BY <1>3, <1>s, TypedAreCommands DEF type, Send
<1>4. ASSUME dir PROVE commands' # << >>
  <2>1. PORT(RETURN_PORT') \in Commands
    BY <1>1, PortsAreSmall, PortIsCoded DEF TypeOK
  <2> QED BY <1>4, <1>s, <2>1 DEF dir, Send
<1>5. ASSUME receive \/ receiveTimesOut PROVE commands' # << >>
  <2>1. dirStep /\ commands' = Append(commands, [name |-> "transfer"])
    BY <1>5 DEF receive, receiveTimesOut, Returned, Send
  <2>2. [name |-> "transfer"] \in Commands
    BY DEF Commands, Words
  <2> QED BY <1>s, <2>1, <2>2
<1>6. ASSUME wake PROVE answers' # 0 \/ serving' # "idle" \/ commands' # << >>
  BY <1>2, <1>6 DEF wake, serverVars
<1>7. ASSUME NEW t \in Ports, Thread(t)
      PROVE  answers' # 0 \/ serving' # "idle" \/ commands' # << >>
  BY <1>2, <1>7 DEF Thread, listen, accept, readTimesOut, clientVars, serverVars
<1>8. ASSUME Session PROVE answers' # 0 \/ serving' # "idle"
  <2>1. answers \in Nat
    BY <1>1 DEF TypeOK
  <2>2. CASE readOther \/ readPORT \/ readPASV \/ readTransfer
    BY <2>1, <2>2 DEF readOther, readPORT, readPASV, readTransfer, Answer
  <2>3. CASE readTwofold
    BY <2>1, <2>3 DEF readTwofold
  <2>4. CASE connectPassive \/ connect \/ close
    BY <2>1, <2>4 DEF connectPassive, connect, close, Answer
  <2> QED BY <1>8, <2>2, <2>3, <2>4 DEF Session
<1>9. ASSUME UNCHANGED vars PROVE answers' # 0 \/ serving' # "idle" \/ commands' # << >>
  BY <1>2, <1>9 DEF vars, clientVars, serverVars
<1> QED
  BY <1>d, <1>3, <1>4, <1>5, <1>6, <1>7, <1>8, <1>9 DEF Next, User, Main

(* However many commands the session takes for one, and whatever was read  *)
(* before, who waits for an answer is owed one: what PromptReturns rests   *)
(* on, for any number of commands and timeouts.                            *)
THEOREM AnswersAreToCome == Spec => []AnswerToCome
<1>1. Init => AnswerToCome
  BY DEF Init, AnswerToCome
<1> QED BY <1>1, AnswerStep, ClientInvariant, PTL DEF Spec
=============================================================================
