----------------------------- MODULE FtpClient -----------------------------
(***************************************************************************)
(* The command line client (Code/ftp_client.py) and the session that       *)
(* serves it (Code/ftp_server.py), once it is logged in, over TCP.         *)
(*                                                                         *)
(* The main thread sends a command, sleeps, and reads once.  What it reads *)
(* are all the answers there are: none of this command yet, or the rest of *)
(* an earlier one.  Some commands have two answers.  The session too reads *)
(* all there is and takes it for one command, as nothing ends a command.   *)
(* For each "dir" a thread is started that listens for the listing.  What  *)
(* else the user types is sent as it is, a PORT or a PASV too; but the     *)
(* client never connects to a port that PASV has named.                    *)
(*                                                                         *)
(* Left out: the dialogue of "open", the end of the session, lines of      *)
(* blanks and leading blanks, words of fewer than three letters.           *)
(***************************************************************************)
EXTENDS Naturals, Sequences

CONSTANTS
  FirstPort,     (* RETURN_PORT when the model starts, 30084 at first      *)
  TypedPorts,    (* the ports that a PORT typed by the user can name       *)
  MaxCommands,   (* bound: commands that are sent                          *)
  MaxTimeouts    (* bound: receive() calls of the client that time out     *)

ASSUME BoundsAssumption ==
  /\ FirstPort \in Nat /\ MaxCommands \in Nat /\ MaxTimeouts \in Nat
  /\ FirstPort + MaxCommands < 65536
  /\ TypedPorts \subseteq Nat /\ \A p \in TypedPorts : p < 65536

VARIABLES
  (* the client *)
  main,            (* step of sendCommandToServer(), see MainSteps         *)
  dirStep,         (* this command is the PORT of a "dir"                  *)
  RETURN_PORT,
  thread,          (* receiveFromServer() started for a port: see          *)
                   (* ThreadSteps                                          *)
  port,            (* the port on which that thread listens                *)
  (* the connections *)
  commands,        (* sent and not read by the session                     *)
  answers,         (* number of answers that the client has still to read  *)
  backlog,         (* data connections to a port that nobody accepted      *)
  (* the session *)
  serving,         (* step of a transfer, see ServingSteps                 *)
  passive,         (* pasv_mode and its socket, see PassiveStates          *)
  dataSocketPort,
  (* bounds and history *)
  sent, timeouts,
  extras           (* answers that were the second one to their command    *)

clientVars == <<main, dirStep, RETURN_PORT, sent, timeouts>>
threadVars == <<thread, port>>
serverVars == <<serving, passive, dataSocketPort, extras>>
vars == <<clientVars, threadVars, commands, answers, backlog, serverVars>>

MainSteps == {"input", "asleep", "receive"}

(* "reading": the data connection is open; "spinning": it is closed, and   *)
(* receive() returns no bytes, again and again, while the socket that      *)
(* listens stays open.                                                     *)
ThreadSteps == {"none", "new", "listening", "reading", "spinning", "ended"}

(* "connect": 150 is sent; "accept": the session waits for the client to   *)
(* connect to its passive socket; "data": the data connection is open.     *)
ServingSteps == {"idle", "connect", "accept", "data"}

(* "closed": pasv_mode is set, but the socket does not listen (any more). *)
PassiveStates == {"off", "listening", "closed"}

Ports == FirstPort..(FirstPort + MaxCommands)
Bytes == 0..255

(* "twofold": USER without a name (501 and 331), QUIT with an argument,    *)
(* which after the first time has a 500 too; "EPRT": a PORT or EPRT whose  *)
(* argument is not six numbers; "other": a command with one answer that    *)
(* touches no socket, or none that the session knows.                      *)
Words == {"other", "twofold", "transfer", "PASV", "EPRT"}
Commands == [name : Words] \union [name : {"PORT"}, high : Bytes, low : Bytes]

TypeOK ==
  /\ main \in MainSteps /\ dirStep \in BOOLEAN
  /\ RETURN_PORT \in Ports
  /\ thread \in [Ports -> ThreadSteps] /\ port \in [Ports -> Ports]
  /\ commands \in Seq(Commands)
  /\ answers \in Nat
  /\ backlog \in [Ports -> Nat]
  /\ serving \in ServingSteps /\ passive \in PassiveStates /\ dataSocketPort \in Nat
  /\ sent \in 0..MaxCommands /\ timeouts \in 0..MaxTimeouts /\ extras \in Nat

Init ==
  /\ main = "input" /\ dirStep = FALSE
  /\ RETURN_PORT = FirstPort
  /\ thread = [p \in Ports |-> "none"] /\ port = [p \in Ports |-> FirstPort]
  /\ commands = << >> /\ answers = 0
  /\ backlog = [p \in Ports |-> 0]
  /\ serving = "idle" /\ passive = "off" /\ dataSocketPort = FirstPort
  /\ sent = 0 /\ timeouts = 0 /\ extras = 0
-----------------------------------------------------------------------------
(* The main thread.                                                        *)

Send(command) ==
  /\ commands' = Append(commands, command)
  /\ sent' = sent + 1
  /\ main' = "asleep"

\* Mutant: the low byte is not masked.
PORTUnmasked(p) == [name |-> "PORT", high |-> (p \div 256) % 256, low |-> p]

PORT(p) == [name |-> "PORT", high |-> (p \div 256) % 256, low |-> p % 256]

(* What the user types is sent as it is. *)
type(command) ==
  /\ main = "input" /\ sent < MaxCommands
  /\ Send(command)
  /\ UNCHANGED <<dirStep, RETURN_PORT, timeouts, threadVars, answers, backlog, serverVars>>

(* "dir": the next port, and its PORT; when that is done, see Returned.    *)
dir ==
  /\ main = "input" /\ sent + 1 < MaxCommands
  /\ RETURN_PORT' = RETURN_PORT + 1
  /\ Send(PORT(RETURN_PORT'))
  /\ dirStep' = TRUE
  /\ UNCHANGED <<timeouts, threadVars, answers, backlog, serverVars>>

wake ==
  /\ main = "asleep"
  /\ main' = "receive"
  /\ UNCHANGED <<dirStep, RETURN_PORT, sent, timeouts, threadVars, commands,
                 answers, backlog, serverVars>>

(* sendCommandToServer() is over.  If it was the PORT of a "dir" the       *)
(* thread is started, and LIST is sent.                                    *)
Returned ==
  IF dirStep
    THEN /\ thread' = [thread EXCEPT ![RETURN_PORT] = "new"]
         /\ Send([name |-> "transfer"])
         /\ dirStep' = FALSE
    ELSE /\ main' = "input"
         /\ UNCHANGED <<dirStep, thread, commands, sent>>

\* Mutant: the answer is not awaited but read the next time.
receiveIfAny ==
  /\ main = "receive"
  /\ answers' = 0
  /\ Returned
  /\ UNCHANGED <<RETURN_PORT, timeouts, port, backlog, serverVars>>

receive ==
  /\ main = "receive"
  /\ answers > 0 /\ answers' = 0
  /\ Returned
  /\ UNCHANGED <<RETURN_PORT, timeouts, port, backlog, serverVars>>

(* The exception is shown, and the client goes on in the same way. *)
receiveTimesOut ==
  /\ main = "receive"
  /\ answers = 0 /\ timeouts < MaxTimeouts
  /\ timeouts' = timeouts + 1
  /\ Returned
  /\ UNCHANGED <<RETURN_PORT, port, answers, backlog, serverVars>>
-----------------------------------------------------------------------------
(* The threads of the client, receiveFromServer().                         *)

Open(p) == \E t \in Ports : port[t] = p /\ thread[t] \in {"listening", "reading", "spinning"}

(* The port is what RETURN_PORT is by now.  bind() raises where another    *)
(* thread listens, or where the system holds the port; then the thread is  *)
(* over.                                                                   *)
listen(t) ==
  /\ thread[t] = "new"
  /\ \/ thread' = [thread EXCEPT ![t] = "ended"] /\ UNCHANGED port
     \/ /\ ~Open(RETURN_PORT)
        /\ thread' = [thread EXCEPT ![t] = "listening"]
        /\ port' = [port EXCEPT ![t] = RETURN_PORT]
  /\ UNCHANGED <<clientVars, commands, answers, backlog, serverVars>>

(* The first connection; only the last one can still be open.              *)
accept(t) ==
  /\ thread[t] = "listening" /\ backlog[port[t]] > 0
  /\ backlog' = [backlog EXCEPT ![port[t]] = @ - 1]
  /\ thread' = [thread EXCEPT ![t] =
       IF serving = "data" /\ dataSocketPort = port[t] /\ backlog[port[t]] = 1
         THEN "reading" ELSE "spinning"]
  /\ UNCHANGED <<clientVars, port, commands, answers, serverVars>>

(* Five seconds without data: both sockets are closed, with whatever still *)
(* waits to be accepted.                                                   *)
readTimesOut(t) ==
  /\ thread[t] = "reading"
  /\ thread' = [thread EXCEPT ![t] = "ended"]
  /\ backlog' = [backlog EXCEPT ![port[t]] = 0]
  /\ UNCHANGED <<clientVars, port, commands, answers, serverVars>>
-----------------------------------------------------------------------------
(* The session.                                                            *)

Answer == answers' = answers + 1

(* All there is: the first four letters name the command, whatever         *)
(* follows.  (A name of three letters is none with the next command        *)
(* attached to it: still one answer.)                                      *)
Read(name) ==
  /\ serving = "idle" /\ commands # << >>
  /\ name = Head(commands).name
  /\ commands' = << >>

readOther ==
  /\ Read("other")
  /\ Answer
  /\ UNCHANGED <<clientVars, threadVars, backlog, serverVars>>

(* closeSocket() closes the passive socket, too; the mode stays.           *)
MayClosePassive ==
  passive' \in IF passive = "listening" THEN {"listening", "closed"} ELSE {passive}

(* The second answer depends on what follows, and on earlier QUITs.        *)
readTwofold ==
  /\ Read("twofold")
  /\ \E n \in {0, 1} : answers' = answers + 1 + n /\ extras' = extras + n
  /\ MayClosePassive
  /\ UNCHANGED <<clientVars, threadVars, backlog, serving, dataSocketPort>>

(* The mode is left in any case; with another command attached the         *)
(* argument cannot be read.                                                *)
readPORT ==
  /\ Read("PORT") \/ Read("EPRT")
  /\ passive' = "off"
  /\ dataSocketPort' =
       LET c == Head(commands)
       IN  IF c.name = "PORT" /\ Len(commands) = 1 THEN c.high * 256 + c.low
                                                   ELSE dataSocketPort
  /\ Answer
  /\ UNCHANGED <<clientVars, threadVars, backlog, serving, extras>>

(* No port may be left, or bind() may raise: the mode is on all the same.  *)
readPASV ==
  /\ Read("PASV")
  /\ passive' \in {"listening", "closed"}
  /\ Answer
  /\ UNCHANGED <<clientVars, threadVars, backlog, serving, dataSocketPort, extras>>

\* Mutant: a transfer that cannot be served has no answer.
readTransferQuiet ==
  /\ Read("transfer")
  /\ \/ serving' = "connect" /\ extras' = extras + 1 /\ Answer /\ UNCHANGED passive
     \/ UNCHANGED <<serving, extras, answers>> /\ MayClosePassive
  /\ UNCHANGED <<clientVars, threadVars, backlog, dataSocketPort>>

(* The 150; without such a file or directory there is only a 550 or 500.   *)
readTransfer ==
  /\ Read("transfer")
  /\ Answer
  /\ \/ serving' = "connect" /\ extras' = extras + 1 /\ UNCHANGED passive
     \/ UNCHANGED <<serving, extras>> /\ MayClosePassive
  /\ UNCHANGED <<clientVars, threadVars, backlog, dataSocketPort>>

(* openSocket in passive mode: accept() waits for a connection, and nobody *)
(* connects; it raises when the socket is closed.                          *)
connectPassive ==
  /\ serving = "connect"
  /\ \/ passive = "listening" /\ serving' = "accept" /\ UNCHANGED answers
     \/ passive = "closed" /\ serving' = "idle" /\ Answer
  /\ UNCHANGED <<clientVars, threadVars, commands, backlog, passive, dataSocketPort, extras>>

(* openSocket in active mode.  The system accepts for a thread that        *)
(* listens or has listened; at a port the client has never used another    *)
(* program may accept.  Otherwise connect() raises, and a 500 is the       *)
(* second answer.                                                          *)
connect ==
  /\ serving = "connect" /\ passive = "off"
  /\ \/ /\ Open(dataSocketPort)
        /\ backlog' = [backlog EXCEPT ![dataSocketPort] = @ + 1]
        /\ serving' = "data"
        /\ UNCHANGED answers
     \/ /\ dataSocketPort \notin Ports \ {FirstPort}
        /\ serving' = "data"
        /\ UNCHANGED <<answers, backlog>>
     \/ /\ ~Open(dataSocketPort)
        /\ serving' = "idle"
        /\ Answer
        /\ UNCHANGED backlog
  /\ UNCHANGED <<clientVars, threadVars, commands, passive, dataSocketPort, extras>>

(* The data is sent, or sending it fails; 226 or 500.                      *)
close ==
  /\ serving = "data"
  /\ serving' = "idle"
  /\ Answer
  /\ thread' = [t \in Ports |-> IF thread[t] = "reading" THEN "spinning" ELSE thread[t]]
  /\ UNCHANGED <<clientVars, port, commands, backlog, passive, dataSocketPort, extras>>
-----------------------------------------------------------------------------
TypedCommands == [name : Words] \union {PORT(p) : p \in TypedPorts}

User == dir \/ \E command \in TypedCommands : type(command)
Main == wake \/ receive
Thread(t) == listen(t) \/ accept(t) \/ readTimesOut(t)
Session ==
  \/ readOther \/ readTwofold \/ readPORT \/ readPASV \/ readTransfer
  \/ connectPassive \/ connect \/ close

Next == User \/ Main \/ receiveTimesOut \/ Session \/ \E t \in Ports : Thread(t)

Spec == Init /\ [][Next]_vars

(* The main thread of the client and the session are scheduled; nothing    *)
(* says when the threads for the listings are.                             *)
FairSpec == Spec /\ WF_vars(Main) /\ WF_vars(Session)
-----------------------------------------------------------------------------
(* Properties.                                                             *)

(* The answers that are still to be read, now or later.                    *)
Owed ==
  answers + (IF serving = "idle" THEN 0 ELSE 1) + (IF commands = << >> THEN 0 ELSE 1)

(* At the prompt the client is behind by no more answers than there were   *)
(* second answers and timeouts; with neither, each answer that it shows is *)
(* that of the command it was sent for.                                    *)
LagBounded == main = "input" => Owed <= extras + timeouts

(* However far the client is behind, and though the session may take many  *)
(* commands for one, there is always an answer to come for who waits, and  *)
(* only a transfer in passive mode may keep the session from giving it.    *)
PromptReturns == main # "input" ~> main = "input" \/ serving = "accept"
=============================================================================
