-------------------------------- MODULE Dns --------------------------------
(***************************************************************************)
(* The DNS server (Code/dnsserver.py) and clients (Code/clientdns.py), all *)
(* on one host.  The server sniffs every packet of port 53 on the loopback *)
(* device and answers each, its own answers included: it never looks at    *)
(* qr.  What ends this is sniff(count=3): after three packets the sniffer  *)
(* is closed with what it has captured and not handed over, and only then  *)
(* opened again.                                                           *)
(***************************************************************************)
EXTENDS Naturals, Sequences

CONSTANTS
  Askers,      (* the clients; each asks for a name of its own             *)
  Foreign,     (* those whose name the server has to look up               *)
  MaxAsked     (* bound: queries sent                                      *)

Batch == 3     (* count=3 *)

VARIABLES
  sniffer,     (* the server: "off" until getipfordns() is over, then      *)
               (* "closed" or "open"; "dead" after an exception            *)
  handled,     (* packets handed over since the sniffer was opened         *)
  buffer,      (* packets captured and not handed over                     *)
  asker,       (* "idle", "sent", "sniffing", or "done"                    *)
  (* history *)
  asked, answered

serverVars == <<sniffer, handled, buffer>>
clientVars == <<asker, asked, answered>>
vars == <<serverVars, clientVars>>

Packets == [qr : {0, 1}, name : Askers]

TypeOK ==
  /\ sniffer \in {"off", "closed", "open", "dead"}
  /\ handled \in 0..Batch
  /\ buffer \in Seq(Packets)
  /\ asker \in [Askers -> {"idle", "sent", "sniffing", "done"}]
  /\ asked \in Nat /\ answered \in Nat

Init ==
  /\ sniffer = "off" /\ handled = 0 /\ buffer = << >>
  /\ asker = [a \in Askers |-> "idle"]
  /\ asked = 0 /\ answered = 0
-----------------------------------------------------------------------------
(* A packet that is sent passes the sniffer, if it is open, once on its    *)
(* way out and perhaps again on its way in; in a lookup the question and   *)
(* the answer of the system's resolver pass it before.                     *)
Pass(rest, lookup, p) ==
  buffer' \in IF sniffer = "open"
               THEN {rest \o lookup \o <<p>>, rest \o lookup \o <<p, p>>}
               ELSE {rest}

(* A client's sniff() is over with the first packet, printed if it is an   *)
(* answer; dnsresponse keeps nothing.                                      *)
Heard(clients) ==
  asker' = [a \in Askers |->
    IF a \in clients THEN "sent" ELSE IF asker[a] = "sniffing" THEN "done" ELSE asker[a]]

(* getipfordns: without an address tupleip[0] raises, and the server is    *)
(* over before it has begun.                                               *)
getipfordns(hasAddress) ==
  /\ sniffer = "off"
  /\ sniffer' = IF hasAddress THEN "closed" ELSE "dead"
  /\ UNCHANGED <<handled, buffer, clientVars>>

(* The server's program is stopped, to be started again.                   *)
stopServer ==
  /\ sniffer' = "off" /\ buffer' = << >> /\ handled' = 0
  /\ UNCHANGED clientVars

openSniffer ==
  /\ sniffer = "closed"
  /\ sniffer' = "open" /\ handled' = 0
  /\ UNCHANGED <<buffer, clientVars>>

Lookup(name) ==
  IF name \in Foreign THEN <<[qr |-> 0, name |-> name], [qr |-> 1, name |-> name]>>
                      ELSE << >>

\* Mutant: the sniffer is closed one packet too late.
dnssnifferOneMore ==
  /\ sniffer = "open" /\ handled <= Batch
  /\ buffer # << >>
  /\ LET name == Head(buffer).name
     IN  Pass(Tail(buffer), Lookup(name), [qr |-> 1, name |-> name])
  /\ Heard({})
  /\ handled' = handled + 1
  /\ answered' = answered + 1
  /\ UNCHANGED <<sniffer, asked>>

(* dnssniffer: the answer carries the name of the packet, whatever it is.  *)
dnssniffer ==
  /\ sniffer = "open" /\ handled < Batch
  /\ buffer # << >>
  /\ LET name == Head(buffer).name
     IN  Pass(Tail(buffer), Lookup(name), [qr |-> 1, name |-> name])
  /\ Heard({})
  /\ handled' = handled + 1
  /\ answered' = answered + 1
  /\ UNCHANGED <<sniffer, asked>>

(* gethostbyname raises for a name it cannot find, and nobody catches it.  *)
dnssnifferRaises ==
  /\ sniffer = "open" /\ handled < Batch
  /\ buffer # << >> /\ Head(buffer).name \in Foreign
  /\ sniffer' = "dead" /\ buffer' = << >>
  /\ UNCHANGED <<handled, clientVars>>

\* Mutant: what was captured is kept for the next sniff().
closeSnifferKeeps ==
  /\ sniffer = "open" /\ handled = Batch
  /\ sniffer' = "closed"
  /\ UNCHANGED <<buffer, handled, clientVars>>

closeSniffer ==
  /\ sniffer = "open" /\ handled = Batch
  /\ sniffer' = "closed" /\ buffer' = << >>
  /\ UNCHANGED <<handled, clientVars>>
-----------------------------------------------------------------------------
(* A client: one query, then one sniff(), then it is over.                 *)

sendQuery(a) ==
  /\ asker[a] = "idle" /\ asked < MaxAsked
  /\ Pass(buffer, << >>, [qr |-> 0, name |-> a])
  /\ Heard({a})
  /\ asked' = asked + 1
  /\ UNCHANGED <<sniffer, handled, answered>>

startSniff(a) ==
  /\ asker[a] = "sent"
  /\ asker' = [asker EXCEPT ![a] = "sniffing"]
  /\ UNCHANGED <<serverVars, asked, answered>>

(* The program is started again.  *)
restart(a) ==
  /\ asker[a] # "idle"
  /\ asker' = [asker EXCEPT ![a] = "idle"]
  /\ UNCHANGED <<serverVars, asked, answered>>
-----------------------------------------------------------------------------
Server == openSniffer \/ dnssniffer \/ dnssnifferRaises \/ closeSniffer

Asker(a) == sendQuery(a) \/ startSniff(a) \/ restart(a)

Next ==
  \/ \E hasAddress \in BOOLEAN : getipfordns(hasAddress)
  \/ stopServer
  \/ Server
  \/ \E a \in Askers : Asker(a)

Spec == Init /\ [][Next]_vars
-----------------------------------------------------------------------------
(* Properties.                                                             *)

(* The server answers its own answers, but not for ever: what it does for  *)
(* a query stops after three answers, whatever is asked meanwhile.         *)
AnswersBounded == answered <= Batch * asked
=============================================================================
