-------------------------------- MODULE Dhcp --------------------------------
(***************************************************************************)
(* The DHCP server (Code/dhcp.py) and its clients (Code/clientdhcp.py).    *)
(*                                                                         *)
(* The server handles one captured packet after the other.  It sniffs on   *)
(* the loopback device, where a client's packet is captured on its way out *)
(* and may be captured a second time on its way in.  Its answers leave on  *)
(* the default device, and each client that is sniffing there hears them:  *)
(* all clients have the same address and none looks whom a packet is for.  *)
(* Nothing measures time: srp1's timeout and the server's sleep may each   *)
(* be over before or after the other.                                      *)
(***************************************************************************)
EXTENDS Naturals, Sequences

CONSTANTS
  Clients,
  Addresses,   (* the keys x of ipdictionary, for 100.100.100.x           *)
  None,        (* None, and 0.0.0.0 where scapy puts it into a packet     *)
  MaxRuns      (* bound: times that clients call getip()                  *)

ASSUME AddressesAssumption ==
  Addresses \subseteq Nat /\ Addresses # {} /\ None \notin Addresses
ASSUME RunsAssumption == MaxRuns \in Nat

VARIABLES
  (* the server *)
  ipdictionary,
  currentip,
  dnsip,         (* dnsrequest is 0 as long as this is None              *)
  answering,     (* the offer that waits for the end of the sleep        *)
  captured,      (* message types the sniffer has still to hand over     *)
  (* the clients *)
  pc,            (* see Steps                                            *)
  heard,         (* first packet that the running sniff() has captured   *)
  ips,
  runs,
  (* history *)
  acked          (* addresses the server has acknowledged                *)

serverVars == <<ipdictionary, currentip, dnsip, answering, acked>>
clientVars == <<pc, heard, ips, runs>>
vars == <<serverVars, captured, clientVars>>

(* "discover" and "request": the packet is sent and no sniff() runs yet;   *)
(* "offer" and "ack": sniff() waits for a packet, whatever it is.          *)
Steps == {"off", "discover", "offer", "request", "ack", "done"}

Optional(S) == S \union {None}
Answers == [type : {"offer", "ack"}, yiaddr : Optional(Addresses), dns : Optional(Addresses)]
Leases == [yiaddr : Optional(Addresses), dns : Optional(Addresses)]

TypeOK ==
  /\ ipdictionary \in [Addresses -> {"free", "occupied"}]
  /\ currentip \in Optional(Addresses) /\ dnsip \in Optional(Addresses)
  /\ answering \in Optional(Answers)
  /\ captured \in Seq({"discover", "request"})
  /\ pc \in [Clients -> Steps]
  /\ heard \in [Clients -> Optional(Answers)]
  /\ ips \in [Clients -> Optional(Leases)]
  /\ runs \in 0..MaxRuns
  /\ acked \subseteq Addresses

Init ==
  /\ ipdictionary = [a \in Addresses |-> "free"]
  /\ currentip = None /\ dnsip = None /\ answering = None
  /\ captured = << >>
  /\ pc = [c \in Clients |-> "off"]
  /\ heard = [c \in Clients |-> None] /\ ips = [c \in Clients |-> None]
  /\ runs = 0
  /\ acked = {}
-----------------------------------------------------------------------------
(* The server.                                                             *)

Free == {a \in Addresses : ipdictionary[a] = "free"}
FirstFree(a) == a \in Free /\ \A b \in Free : a <= b

Captured(type) ==
  /\ answering = None
  /\ captured # << >> /\ Head(captured) = type
  /\ captured' = Tail(captured)

(* sendp: only who sniffs hears it, and keeps the first packet.            *)
Send(answer) ==
  heard' = [c \in Clients |->
    IF pc[c] \in {"offer", "ack"} /\ heard[c] = None THEN answer ELSE heard[c]]

\* Mutant: each DISCOVER takes an address from the pool.
discoverAlwaysTakes ==
  /\ Captured("discover")
  /\ IF Free = {}
       THEN UNCHANGED <<ipdictionary, currentip>>
       ELSE \E a \in Addresses :
              /\ FirstFree(a)
              /\ ipdictionary' = [ipdictionary EXCEPT ![a] = "occupied"]
              /\ currentip' = a
  /\ dnsip' = IF dnsip = None THEN currentip' ELSE dnsip
  /\ answering' = [type |-> "offer", yiaddr |-> currentip', dns |-> dnsip']
  /\ UNCHANGED <<clientVars, acked>>

(* A DISCOVER gets the address that is on offer, or the next one of the    *)
(* pool; the first address of all is named as the DNS server's.            *)
discover ==
  /\ Captured("discover")
  /\ IF currentip # None \/ Free = {}
       THEN UNCHANGED <<ipdictionary, currentip>>
       ELSE \E a \in Addresses :
              /\ FirstFree(a)
              /\ ipdictionary' = [ipdictionary EXCEPT ![a] = "occupied"]
              /\ currentip' = a
  /\ dnsip' = IF dnsip = None THEN currentip' ELSE dnsip
  /\ answering' = [type |-> "offer", yiaddr |-> currentip', dns |-> dnsip']
  /\ UNCHANGED <<clientVars, acked>>

(* The sleep is over. *)
sendOffer ==
  /\ answering # None
  /\ Send(answering)
  /\ answering' = None
  /\ UNCHANGED <<ipdictionary, currentip, dnsip, acked, captured, pc, ips, runs>>

Ack == [type |-> "ack", yiaddr |-> currentip, dns |-> dnsip]

\* Mutant: the address stays on offer after it is acknowledged.
requestKeepsOffer ==
  /\ Captured("request")
  /\ Send(Ack)
  /\ acked' = acked \union ({currentip} \ {None})
  /\ UNCHANGED <<ipdictionary, currentip, dnsip, answering, pc, ips, runs>>

(* A REQUEST is acknowledged with the address on offer, if there still is  *)
(* one, whatever address was requested.                                    *)
request ==
  /\ Captured("request")
  /\ Send(Ack)
  /\ currentip' = None
  /\ acked' = acked \union ({currentip} \ {None})
  /\ UNCHANGED <<ipdictionary, dnsip, answering, pc, ips, runs>>
-----------------------------------------------------------------------------
(* The clients.                                                            *)

Goto(c, step) == pc' = [pc EXCEPT ![c] = step]

(* The server's sniffer captures the packet once or twice. *)
Transmit(type) == captured' \in {captured \o <<type>>, captured \o <<type, type>>}

getip(c) ==
  /\ pc[c] = "off" /\ runs < MaxRuns
  /\ runs' = runs + 1
  /\ Transmit("discover")
  /\ Goto(c, "discover")
  /\ UNCHANGED <<serverVars, heard, ips>>

(* srp1 gives up, or has an answer that nobody looks at; sniff() starts.   *)
sniffFor(c) ==
  /\ \/ pc[c] = "discover" /\ Goto(c, "offer")
     \/ pc[c] = "request" /\ Goto(c, "ack")
  /\ UNCHANGED <<serverVars, captured, heard, ips, runs>>

(* The first packet.  If it is not an offer, getip() is over without one.  *)
resquest(c) ==
  /\ pc[c] = "offer" /\ heard[c] # None
  /\ heard' = [heard EXCEPT ![c] = None]
  /\ IF heard[c].type = "offer"
       THEN Transmit("request") /\ Goto(c, "request")
       ELSE Goto(c, "done") /\ UNCHANGED captured
  /\ UNCHANGED <<serverVars, ips, runs>>

\* Mutant: any packet is taken for the acknowledgement.
ackAny(c) ==
  /\ pc[c] = "ack" /\ heard[c] # None
  /\ heard' = [heard EXCEPT ![c] = None]
  /\ ips' = [ips EXCEPT ![c] = [yiaddr |-> heard[c].yiaddr, dns |-> heard[c].dns]]
  /\ Goto(c, "done")
  /\ UNCHANGED <<serverVars, captured, runs>>

(* The first packet.  If it is not an acknowledgement sniff() has to start *)
(* again, and what is sent before it does is missed.                       *)
ack(c) ==
  /\ pc[c] = "ack" /\ heard[c] # None
  /\ heard' = [heard EXCEPT ![c] = None]
  /\ IF heard[c].type = "ack"
       THEN /\ ips' = [ips EXCEPT ![c] = [yiaddr |-> heard[c].yiaddr, dns |-> heard[c].dns]]
            /\ Goto(c, "done")
       ELSE Goto(c, "request") /\ UNCHANGED ips
  /\ UNCHANGED <<serverVars, captured, runs>>

(* The user stops the program, which may wait for ever, to start it again. *)
interrupt(c) ==
  /\ pc[c] # "off"
  /\ Goto(c, "off")
  /\ heard' = [heard EXCEPT ![c] = None]
  /\ ips' = [ips EXCEPT ![c] = None]
  /\ UNCHANGED <<serverVars, captured, runs>>
-----------------------------------------------------------------------------
Server == discover \/ sendOffer \/ request

Client(c) == getip(c) \/ sniffFor(c) \/ resquest(c) \/ ack(c)

Next == Server \/ \E c \in Clients : Client(c) \/ interrupt(c)

Spec == Init /\ [][Next]_vars
-----------------------------------------------------------------------------
(* Properties.                                                             *)

(* No address is lost and none given without trace: the pool is without    *)
(* exactly those that were acknowledged and the one that is on offer, and  *)
(* that one is not also somebody's.                                        *)
PoolExact ==
  /\ {a \in Addresses : ipdictionary[a] = "occupied"} = acked \union ({currentip} \ {None})
  /\ currentip \notin acked

(* An address is acknowledged once, however often a REQUEST is repeated.   *)
AckedOnce ==
  [][\A c \in Clients :
       heard[c] = None /\ heard'[c] # None /\ heard'[c].type = "ack"
         => heard'[c].yiaddr \notin acked]_vars

(* Who has an address was acknowledged it, and was told the DNS server     *)
(* that everybody is told.                                                 *)
LeaseIsGenuine ==
  \A c \in Clients : ips[c] # None =>
    /\ ips[c].yiaddr \in Optional(acked)
    /\ ips[c].dns = dnsip
    /\ dnsip # None
=============================================================================
