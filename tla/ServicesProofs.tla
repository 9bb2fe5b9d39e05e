--------------------------- MODULE ServicesProofs ---------------------------
(***************************************************************************)
(* Proofs about Services and the two parts it is made of.                  *)
(*                                                                         *)
(* First Dhcp by itself, for any clients, pool and number of runs: the     *)
(* types, that the pool accounts for every address, that an address is     *)
(* acknowledged once, and where the lease of a client comes from.  Then    *)
(* the composition: each of its behaviours is one of Dhcp and one of Dns,  *)
(* so that what is proved of these, here and in DnsProofs, holds of it,    *)
(* and the DNS server serves only while its program has a lease.           *)
(***************************************************************************)
EXTENDS Services, TLAPS

(* What DnsProofs proves, of the DNS server of Services. *)
DnsTheorems == INSTANCE DnsProofs
-----------------------------------------------------------------------------
(* Dhcp.                                                                   *)


Types == {"discover", "request"}

(* An answer names the DNS server that everybody is told, and an           *)
(* acknowledgement an address that was acknowledged.                       *)
Genuine(answer) ==
  /\ answer.dns = dnsip /\ dnsip # None
  /\ answer.type = "ack" => answer.yiaddr \in Optional(acked)

Requested == \E i \in 1..Len(captured) : captured[i] = "request"

(* The answers under way are genuine; as long as no DNS server is named    *)
(* nothing was taken from the pool, and nobody had anything to request.    *)
NamedInv ==
  /\ answering # None => answering.type = "offer" /\ Genuine(answering)
  /\ \A c \in Clients : heard[c] # None => Genuine(heard[c])
  /\ Requested => dnsip # None
  /\ dnsip = None => Free = Addresses

DhcpInv == TypeOK /\ PoolExact /\ NamedInv /\ LeaseIsGenuine

(* The initial state has the invariant. *)
LEMMA InitDhcp == Init => DhcpInv
<1> SUFFICES ASSUME Init PROVE DhcpInv
  OBVIOUS
<1>1. TypeOK
  BY RunsAssumption DEF Init, TypeOK, Optional, Steps
<1>2. PoolExact
  BY AddressesAssumption DEF Init, PoolExact
<1>3. NamedInv /\ LeaseIsGenuine
  BY DEF Init, NamedInv, LeaseIsGenuine, Requested, Free
<1> QED BY <1>1, <1>2, <1>3 DEF DhcpInv

(* What the sniffer captures. *)
LEMMA TransmitType ==
  ASSUME captured \in Seq(Types), NEW type \in Types, Transmit(type)
  PROVE  /\ captured' \in Seq(Types)
         /\ Requested' => Requested \/ type = "request"
<1>1. captured \o <<type>> \in Seq(Types) /\ captured \o <<type, type>> \in Seq(Types)
  <2>1. <<type>> \in Seq(Types) /\ <<type, type>> \in Seq(Types)
    BY DEF Types
  <2> QED BY <2>1
<1>2. captured' \in Seq(Types)
  BY <1>1 DEF Transmit
<1>3. Len(captured) \in Nat /\ \A i \in 1..Len(captured') : captured'[i] = type \/ (i \in 1..Len(captured) /\ captured'[i] = captured[i])
  <2>1. CASE captured' = captured \o <<type>>
    BY <2>1
  <2>2. CASE captured' = captured \o <<type, type>>
    <3>1. Len(captured') = Len(captured) + 2 /\ Len(captured) \in Nat
      BY <2>2
    <3>2. \A i \in 1..Len(captured) : captured'[i] = captured[i]
      BY <2>2
    <3>3. captured'[Len(captured) + 1] = type /\ captured'[Len(captured) + 2] = type
      BY <2>2
    <3> QED BY <3>1, <3>2, <3>3
  <2> QED BY <2>1, <2>2 DEF Transmit
<1> QED BY <1>2, <1>3 DEF Requested

(* What the sniffer hands over was captured. *)
LEMMA CapturedType ==
  ASSUME captured \in Seq(Types), NEW type \in Types, Captured(type)
  PROVE  /\ captured' \in Seq(Types)
         /\ Requested' => Requested
         /\ type = "request" => Requested
BY DEF Captured, Requested, Types

(* What a client hears. *)
LEMMA SendType ==
  ASSUME TypeOK, NEW answer \in Answers, Send(answer)
  PROVE  /\ heard' \in [Clients -> Optional(Answers)]
         /\ \A c \in Clients : heard'[c] = heard[c] \/ (heard[c] = None /\ heard'[c] = answer)
BY DEF TypeOK, Send, Optional

(* The address that a DISCOVER gets. *)
LEMMA DiscoverStep == DhcpInv /\ discover => DhcpInv'
<1> SUFFICES ASSUME DhcpInv, discover PROVE DhcpInv'
  OBVIOUS
<1>1. captured' \in Seq(Types) /\ (Requested' => Requested)
  BY CapturedType DEF discover, DhcpInv, TypeOK, Types
<1>2. /\ currentip' \in Optional(Addresses) /\ dnsip' \in Optional(Addresses)
      /\ ipdictionary' \in [Addresses -> {"free", "occupied"}]
  BY DEF discover, DhcpInv, TypeOK, Optional
<1>3. dnsip' # None /\ (dnsip # None => dnsip' = dnsip)
  <2>1. CASE dnsip # None
    BY <2>1 DEF discover
  <2>2. CASE dnsip = None
    <3>1. Free # {}
      BY <2>2, AddressesAssumption DEF DhcpInv, NamedInv
    <3>2. currentip' # None
      BY <3>1, AddressesAssumption DEF discover
    <3> QED BY <2>2, <3>2 DEF discover
  <2> QED BY <2>1, <2>2
<1>4. answering' \in Answers /\ answering'.type = "offer" /\ answering'.dns = dnsip'
  BY <1>2 DEF discover, Answers, Optional
<1>5. TypeOK'
  BY <1>1, <1>2, <1>4 DEF discover, DhcpInv, TypeOK, Optional, Types, clientVars
<1>6. PoolExact'
  <2>1. CASE UNCHANGED <<ipdictionary, currentip>>
    BY <2>1 DEF discover, DhcpInv, PoolExact
  <2>2. CASE currentip = None /\ Free # {}
    <3>1. PICK a \in Addresses :
             FirstFree(a) /\ ipdictionary' = [ipdictionary EXCEPT ![a] = "occupied"] /\ currentip' = a
      BY <2>2 DEF discover
    <3>2. {b \in Addresses : ipdictionary[b] = "occupied"} = acked
      BY <2>2 DEF DhcpInv, PoolExact
    <3>3. a \notin acked /\ a # None
      BY <3>1, <3>2, AddressesAssumption DEF FirstFree, Free
    <3>4. {b \in Addresses : ipdictionary'[b] = "occupied"} = acked \union {a}
      BY <3>1, <3>2 DEF DhcpInv, TypeOK
    <3> QED BY <3>1, <3>3, <3>4 DEF discover, PoolExact
  <2> QED BY <2>1, <2>2 DEF discover
<1>7. NamedInv'
  BY <1>1, <1>3, <1>4 DEF discover, DhcpInv, NamedInv, Genuine, clientVars
<1>8. LeaseIsGenuine'
  BY <1>3 DEF discover, DhcpInv, LeaseIsGenuine, clientVars
<1> QED BY <1>5, <1>6, <1>7, <1>8 DEF DhcpInv

(* The offer is sent after the sleep. *)
LEMMA OfferStep == DhcpInv /\ sendOffer => DhcpInv'
<1> SUFFICES ASSUME DhcpInv, sendOffer PROVE DhcpInv'
  OBVIOUS
<1>1. answering \in Answers
  BY DEF sendOffer, DhcpInv, TypeOK, Optional
<1>2. /\ heard' \in [Clients -> Optional(Answers)]
      /\ \A c \in Clients : heard'[c] = heard[c] \/ heard'[c] = answering
  BY <1>1, SendType DEF sendOffer, DhcpInv
<1>3. TypeOK'
  BY <1>2 DEF sendOffer, DhcpInv, TypeOK, Optional
<1>4. NamedInv'
  BY <1>2 DEF sendOffer, DhcpInv, NamedInv, Genuine, Requested, Free
<1> QED BY <1>3, <1>4 DEF sendOffer, DhcpInv, PoolExact, LeaseIsGenuine

(* The acknowledgement that REQUEST sends. *)
LEMMA AckType == TypeOK => Ack \in Answers /\ Ack.type = "ack" /\ Ack.dns = dnsip /\ Ack.yiaddr = currentip
BY DEF TypeOK, Ack, Answers

(* A REQUEST settles the offer in progress. *)
LEMMA RequestStep == DhcpInv /\ request => DhcpInv'
<1> SUFFICES ASSUME DhcpInv, request PROVE DhcpInv'
  OBVIOUS
<1>1. captured' \in Seq(Types) /\ (Requested' => Requested) /\ Requested
  BY CapturedType DEF request, DhcpInv, TypeOK, Types
<1>2. Ack \in Answers /\ Ack.type = "ack" /\ Ack.dns = dnsip /\ Ack.yiaddr = currentip
  BY AckType DEF DhcpInv
<1> HIDE DEF Ack
<1>3. /\ heard' \in [Clients -> Optional(Answers)]
      /\ \A c \in Clients : heard'[c] = heard[c] \/ heard'[c] = Ack
  BY <1>2, SendType DEF request, DhcpInv
<1>4. TypeOK'
  BY <1>1, <1>3 DEF request, DhcpInv, TypeOK, Optional, Types
<1>5. PoolExact'
  BY AddressesAssumption DEF request, DhcpInv, TypeOK, PoolExact
<1>6. NamedInv'
  BY <1>1, <1>2, <1>3
     DEF request, DhcpInv, TypeOK, NamedInv, Genuine, Optional, Free, Captured
<1>7. LeaseIsGenuine'
  BY DEF request, DhcpInv, LeaseIsGenuine, Optional
<1> QED BY <1>4, <1>5, <1>6, <1>7 DEF DhcpInv

(* What the clients do: only acknowledgements become leases.               *)
LEMMA ClientStep == ASSUME NEW c \in Clients, DhcpInv, Client(c) \/ interrupt(c) PROVE DhcpInv'
<1> USE DEF serverVars, Goto
<1>1. CASE getip(c)
  <2>1. captured' \in Seq(Types) /\ (Requested' => Requested)
    BY <1>1, TransmitType DEF getip, DhcpInv, TypeOK, Types
  <2>2. TypeOK'
    BY <1>1, <2>1, RunsAssumption DEF getip, DhcpInv, TypeOK, Types, Steps
  <2>3. PoolExact' /\ NamedInv' /\ LeaseIsGenuine'
    BY <1>1, <2>1 DEF getip, DhcpInv, PoolExact, NamedInv, LeaseIsGenuine, Genuine, Free
  <2> QED BY <2>2, <2>3 DEF DhcpInv
<1>2. CASE sniffFor(c)
  <2>1. TypeOK'
    BY <1>2 DEF sniffFor, DhcpInv, TypeOK, Steps
  <2> QED
    BY <1>2, <2>1 DEF sniffFor, DhcpInv, PoolExact, NamedInv, LeaseIsGenuine, Genuine, Free, Requested
<1>3. CASE resquest(c)
  <2>1. captured' \in Seq(Types) /\ dnsip # None
    BY <1>3, TransmitType DEF resquest, DhcpInv, TypeOK, Types, NamedInv, Genuine
  <2>2. heard' \in [Clients -> Optional(Answers)] /\ \A d \in Clients : heard'[d] \in {heard[d], None}
    BY <1>3 DEF resquest, DhcpInv, TypeOK, Optional
  <2>3. TypeOK'
    BY <1>3, <2>1, <2>2 DEF resquest, DhcpInv, TypeOK, Types, Steps
  <2>4. NamedInv'
    BY <1>3, <2>1, <2>2 DEF resquest, DhcpInv, NamedInv, Genuine, Free
  <2> QED BY <1>3, <2>3, <2>4 DEF resquest, DhcpInv, PoolExact, LeaseIsGenuine
<1>4. CASE ack(c)
  <2>1. heard[c] \in Answers /\ Genuine(heard[c])
    BY <1>4 DEF ack, DhcpInv, TypeOK, Optional, NamedInv
  <2>2. heard' \in [Clients -> Optional(Answers)] /\ \A d \in Clients : heard'[d] \in {heard[d], None}
    BY <1>4 DEF ack, DhcpInv, TypeOK, Optional
  <2> DEFINE lease == [yiaddr |-> heard[c].yiaddr, dns |-> heard[c].dns]
  <2>3. lease \in Leases /\ lease.yiaddr = heard[c].yiaddr /\ lease.dns = heard[c].dns
    BY <2>1 DEF Leases, Answers
  <2> HIDE DEF lease
  <2>4. \/ ips' = ips
        \/ heard[c].type = "ack" /\ ips' = [ips EXCEPT ![c] = lease]
    BY <1>4 DEF ack, lease
  <2>5. TypeOK'
    BY <1>4, <2>2, <2>3, <2>4 DEF ack, DhcpInv, TypeOK, Optional, Steps
  <2>6. LeaseIsGenuine'
    BY <1>4, <2>1, <2>3, <2>4 DEF ack, DhcpInv, TypeOK, LeaseIsGenuine, Genuine
  <2>7. NamedInv'
    BY <1>4, <2>2 DEF ack, DhcpInv, NamedInv, Genuine, Free, Requested
  <2> QED BY <1>4, <2>5, <2>6, <2>7 DEF ack, DhcpInv, PoolExact
<1>5. CASE interrupt(c)
  <2>1. heard' \in [Clients -> Optional(Answers)] /\ \A d \in Clients : heard'[d] \in {heard[d], None}
    BY <1>5 DEF interrupt, DhcpInv, TypeOK, Optional
  <2>2. TypeOK'
    BY <1>5, <2>1 DEF interrupt, DhcpInv, TypeOK, Optional, Steps
  <2>3. LeaseIsGenuine'
    BY <1>5 DEF interrupt, DhcpInv, TypeOK, LeaseIsGenuine
  <2>4. NamedInv'
    BY <1>5, <2>1 DEF interrupt, DhcpInv, NamedInv, Genuine, Free, Requested
  <2> QED BY <1>5, <2>2, <2>3, <2>4 DEF interrupt, DhcpInv, PoolExact
<1> QED BY <1>1, <1>2, <1>3, <1>4, <1>5 DEF Client

(* The invariant is inductive. *)
LEMMA NextDhcp == DhcpInv /\ [Next]_vars => DhcpInv'
<1> SUFFICES ASSUME DhcpInv, [Next]_vars PROVE DhcpInv'
  OBVIOUS
<1>1. CASE UNCHANGED vars
  <2>1. TypeOK'
    BY <1>1 DEF vars, serverVars, clientVars, DhcpInv, TypeOK
  <2> QED
    BY <1>1, <2>1 DEF vars, serverVars, clientVars, DhcpInv, PoolExact, NamedInv,
       LeaseIsGenuine, Genuine, Free, Requested
<1>2. CASE Next
  BY <1>2, DiscoverStep, OfferStep, RequestStep, ClientStep DEF Next, Server
<1> QED BY <1>1, <1>2

(* The invariant holds always. *)
THEOREM DhcpInvariant == Spec => []DhcpInv
BY InitDhcp, NextDhcp, PTL DEF Spec

(* Every variable keeps its type. *)
THEOREM TypeCorrect == Spec => []TypeOK
<1>1. DhcpInv => TypeOK
  BY DEF DhcpInv
<1> QED BY <1>1, DhcpInvariant, PTL

(* The pool is without exactly the addresses acknowledged or on offer.     *)
THEOREM PoolIsExact == Spec => []PoolExact
<1>1. DhcpInv => PoolExact
  BY DEF DhcpInv
<1> QED BY <1>1, DhcpInvariant, PTL

(* Each lease was acknowledged, and names the one DNS server.              *)
THEOREM LeasesAreGenuine == Spec => []LeaseIsGenuine
<1>1. DhcpInv => LeaseIsGenuine
  BY DEF DhcpInv
<1> QED BY <1>1, DhcpInvariant, PTL

(* No address is acknowledged twice. *)
THEOREM AddressesAckedOnce == Spec => AckedOnce
<1> DEFINE Fresh(c) == heard[c] = None /\ heard'[c] # None /\ heard'[c].type = "ack"
<1>1. ASSUME DhcpInv, [Next]_vars, NEW c \in Clients, Fresh(c)
      PROVE  heard'[c].yiaddr \notin acked
  <2>1. CASE sendOffer
    <3>1. answering \in Answers /\ answering.type = "offer"
      BY <1>1, <2>1 DEF sendOffer, DhcpInv, TypeOK, Optional, NamedInv
    <3>2. heard'[c] = heard[c] \/ heard'[c] = answering
      BY <1>1, <2>1, <3>1, SendType DEF sendOffer, DhcpInv
    <3> QED BY <1>1, <3>1, <3>2
  <2>2. CASE request
    <3>1. Ack \in Answers /\ Ack.yiaddr = currentip
      BY <1>1, AckType DEF DhcpInv
    <3>2. heard'[c] = heard[c] \/ heard'[c] = Ack
      BY <1>1, <2>2, <3>1, SendType DEF request, DhcpInv
    <3> QED BY <1>1, <3>1, <3>2 DEF DhcpInv, PoolExact
  <2>3. ASSUME NEW d \in Clients, Client(d) \/ interrupt(d)
        PROVE  heard'[c] \in {heard[c], None}
    BY <1>1, <2>3 DEF Client, interrupt, getip, sniffFor, resquest, ack, DhcpInv, TypeOK
  <2>4. CASE discover \/ UNCHANGED vars
    BY <1>1, <2>4 DEF discover, clientVars, vars
  <2> QED BY <1>1, <2>1, <2>2, <2>3, <2>4 DEF Next, Server
<1>2. DhcpInv /\ [Next]_vars =>
        [\A c \in Clients : Fresh(c) => heard'[c].yiaddr \notin acked]_vars
  BY <1>1
<1> QED BY <1>2, DhcpInvariant, PTL DEF Spec, AckedOnce
-----------------------------------------------------------------------------
(* The composition.                                                        *)

(* A step of Services is a step of Dhcp, or leaves it alone. *)
LEMMA DhcpPart == [ServicesNext]_<<vars, dnsVars>> => [Next]_vars
BY DEF ServicesNext, DhcpStep, DnsStep, startDns, interruptHost, Next

(* The two instances of Dns have the same steps. *)
LEMMA SameDns == DnsService!Next <=> DnsTheorems!Next
BY Zenon DEF
  DnsService!Next, DnsTheorems!Next, DnsService!Server, DnsTheorems!Server,
  DnsService!Asker, DnsTheorems!Asker, DnsService!getipfordns, DnsTheorems!getipfordns,
  DnsService!stopServer, DnsTheorems!stopServer,
  DnsService!openSniffer, DnsTheorems!openSniffer,
  DnsService!dnssniffer, DnsTheorems!dnssniffer,
  DnsService!dnssnifferRaises, DnsTheorems!dnssnifferRaises,
  DnsService!closeSniffer, DnsTheorems!closeSniffer,
  DnsService!sendQuery, DnsTheorems!sendQuery, DnsService!startSniff, DnsTheorems!startSniff,
  DnsService!restart, DnsTheorems!restart, DnsService!Pass, DnsTheorems!Pass,
  DnsService!Heard, DnsTheorems!Heard, DnsService!Lookup, DnsTheorems!Lookup,
  DnsService!Batch, DnsTheorems!Batch, DnsService!serverVars, DnsTheorems!serverVars,
  DnsService!clientVars, DnsTheorems!clientVars

(* A step of Services is a step of Dns, or leaves it alone. *)
LEMMA DnsPart == [ServicesNext]_<<vars, dnsVars>> => [DnsService!Next]_dnsVars
<1> SUFFICES ASSUME ServicesNext PROVE DnsService!Next \/ UNCHANGED dnsVars
  OBVIOUS
<1>1. CASE DhcpStep
  BY <1>1 DEF DhcpStep
<1>2. CASE DnsStep
  BY <1>2 DEF DnsStep, DnsService!Next
<1>3. CASE startDns
  BY <1>3 DEF startDns, DnsService!Next
<1>4. ASSUME NEW c \in Clients, interruptHost(c)
      PROVE  DnsService!Next \/ UNCHANGED dnsVars
  BY <1>4 DEF interruptHost, DnsService!Next
<1> QED BY <1>1, <1>2, <1>3, <1>4 DEF ServicesNext

(* To add the DNS server changes nothing that DHCP does. *)
THEOREM ServicesImplementDhcp == ServicesSpec => Spec
<1>1. ServicesInit => Init
  BY DEF ServicesInit
<1> QED BY <1>1, DhcpPart, PTL DEF ServicesSpec, Spec

(* Seen alone, the DNS server is one that starts at some time, with an     *)
(* address or without, and may be stopped.                                 *)
THEOREM ServicesImplementDns == ServicesSpec => DnsService!Spec
<1>1. ServicesInit => DnsService!Init
  BY DEF ServicesInit
<1>2. [DnsService!Next]_dnsVars => [DnsService!Next]_(DnsService!vars)
  BY DEF dnsVars, DnsService!vars, DnsService!serverVars, DnsService!clientVars
<1> QED BY <1>1, <1>2, DnsPart, PTL DEF ServicesSpec, DnsService!Spec

(* The invariant of DnsProofs holds in Services. *)
LEMMA DnsInvariant == ServicesSpec => []DnsTheorems!DnsInv
<1>1. ServicesInit => DnsTheorems!Init
  BY DEF ServicesInit, DnsService!Init, DnsTheorems!Init
<1>2. [ServicesNext]_<<vars, dnsVars>> => [DnsTheorems!Next]_dnsVars
  BY DnsPart, SameDns
<1>3. DnsTheorems!DnsInv /\ [DnsTheorems!Next]_dnsVars => DnsTheorems!DnsInv'
  BY DnsTheorems!NextDns DEF dnsVars, DnsTheorems!vars, DnsTheorems!serverVars, DnsTheorems!clientVars
<1> QED BY <1>1, <1>2, <1>3, DnsTheorems!InitDns, PTL DEF ServicesSpec

(* Every variable of both parts keeps its type. *)
THEOREM ServicesTypeCorrect == ServicesSpec => []ServicesTypeOK
<1>1. DnsTheorems!DnsInv => DnsService!TypeOK
  BY DEF DnsTheorems!DnsInv, DnsTheorems!TypeOK, DnsService!TypeOK, DnsTheorems!Packets, DnsService!Packets,
         DnsTheorems!Batch, DnsService!Batch
<1> QED
  BY <1>1, DnsInvariant, ServicesImplementDhcp, TypeCorrect, PTL DEF ServicesTypeOK

(* The DNS server sends at most three answers for each query, also when    *)
(* its program is stopped and started again.                               *)
THEOREM ServicesAnswersBounded == ServicesSpec => []AnswersBounded
<1>1. DnsTheorems!DnsInv => AnswersBounded
  BY DEF DnsTheorems!DnsInv, DnsTheorems!BatchInv, AnswersBounded, DnsService!AnswersBounded,
         DnsTheorems!Batch, DnsService!Batch
<1> QED BY <1>1, DnsInvariant, PTL

(* What is proved of DHCP holds next to the DNS server. *)
THEOREM ServicesKeepDhcp ==
  ServicesSpec => [](PoolExact /\ LeaseIsGenuine) /\ AckedOnce
BY ServicesImplementDhcp, PoolIsExact, LeasesAreGenuine, AddressesAckedOnce, PTL

(* As long as the program of the DNS server is past getipfordns() its      *)
(* getip() is over, and unless that raised it has brought a lease.         *)
HostInv ==
  sniffer # "off" =>
    /\ pc[DnsHost] = "done"
    /\ sniffer # "dead" => ips[DnsHost] # None

(* A client that is done stays so, with its lease, until it is stopped. *)
LEMMA DoneStays ==
  ASSUME TypeOK, NEW c \in Clients, pc[c] = "done", Server \/ \E d \in Clients : Client(d)
  PROVE  pc'[c] = "done" /\ ips'[c] = ips[c]
<1>1. CASE Server
  BY <1>1 DEF Server, discover, sendOffer, request, clientVars
<1>2. ASSUME NEW d \in Clients, Client(d)
      PROVE  pc'[c] = "done" /\ ips'[c] = ips[c]
  <2>1. d # c
    BY <1>2 DEF Client, getip, sniffFor, resquest, ack
  <2> QED BY <1>2, <2>1 DEF TypeOK, Client, getip, sniffFor, resquest, ack, Goto
<1> QED BY <1>1, <1>2

(* The DNS server is on only while its host is done. *)
LEMMA HostStep ==
  TypeOK /\ HostInv /\ [ServicesNext]_<<vars, dnsVars>> => HostInv'
<1> SUFFICES ASSUME TypeOK, HostInv, [ServicesNext]_<<vars, dnsVars>> PROVE HostInv'
  OBVIOUS
<1> USE HostAssumption
<1>1. CASE DhcpStep
  BY <1>1, DoneStays DEF DhcpStep, HostInv, dnsVars
<1>2. CASE DnsStep
  <2>1. UNCHANGED <<pc, ips>>
    BY <1>2 DEF DnsStep, vars, clientVars
  <2>2. sniffer' # "off" => sniffer # "off" /\ (sniffer' # "dead" => sniffer # "dead")
    BY <1>2 DEF DnsStep, DnsService!Server, DnsService!Asker, DnsService!openSniffer,
       DnsService!dnssniffer, DnsService!dnssnifferRaises, DnsService!closeSniffer,
       DnsService!sendQuery, DnsService!startSniff, DnsService!restart, DnsService!serverVars
  <2> QED BY <2>1, <2>2 DEF HostInv
<1>3. CASE startDns
  BY <1>3 DEF startDns, DnsService!getipfordns, vars, clientVars, HostInv
<1>4. ASSUME NEW c \in Clients, interruptHost(c)
      PROVE  HostInv'
  BY <1>4 DEF interruptHost, interrupt, Goto, DnsService!stopServer, dnsVars, TypeOK, HostInv
<1>5. CASE UNCHANGED <<vars, dnsVars>>
  BY <1>5 DEF vars, clientVars, dnsVars, HostInv
<1> QED BY <1>1, <1>2, <1>3, <1>4, <1>5 DEF ServicesNext

(* The DNS server serves only with a lease, of this run of its program.    *)
THEOREM ServesOnlyWithLease == ServicesSpec => []ServesWithLease
<1>1. ServicesInit => HostInv
  BY DEF ServicesInit, DnsService!Init, HostInv
<1>2. HostInv => ServesWithLease
  BY DEF HostInv, ServesWithLease
<1> QED
  BY <1>1, <1>2, HostStep, ServicesImplementDhcp, TypeCorrect, PTL DEF ServicesSpec
=============================================================================
