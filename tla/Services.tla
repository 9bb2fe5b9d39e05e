------------------------------ MODULE Services ------------------------------
(***************************************************************************)
(* The DHCP server, its clients, the DNS server and its clients together.  *)
(* One of the DHCP clients, DnsHost, is the program of the DNS server: it  *)
(* imports clientdhcp, asks for an address, and only then answers queries. *)
(***************************************************************************)
EXTENDS Dhcp

CONSTANTS DnsHost, Askers, Foreign, MaxAsked

ASSUME HostAssumption == DnsHost \in Clients

VARIABLES sniffer, handled, buffer, asker, asked, answered

DnsService == INSTANCE Dns

dnsVars == <<sniffer, handled, buffer, asker, asked, answered>>

ServicesInit == Init /\ DnsService!Init

\* Mutant: the answer of getip() is not looked at.
startDnsAnyway ==
  /\ pc[DnsHost] = "done"
  /\ DnsService!getipfordns(TRUE)
  /\ UNCHANGED vars

(* getip(), which getipfordns() calls, has returned, None for some runs.   *)
startDns ==
  /\ pc[DnsHost] = "done"
  /\ DnsService!getipfordns(ips[DnsHost] # None)
  /\ UNCHANGED vars

(* To stop DnsHost is to stop the DNS server. *)
interruptHost(c) ==
  /\ interrupt(c)
  /\ IF c = DnsHost THEN DnsService!stopServer ELSE UNCHANGED dnsVars

DhcpStep == (Server \/ \E c \in Clients : Client(c)) /\ UNCHANGED dnsVars

DnsStep ==
  /\ DnsService!Server \/ \E a \in Askers : DnsService!Asker(a)
  /\ UNCHANGED vars

ServicesNext ==
  \/ DhcpStep \/ DnsStep \/ startDns
  \/ \E c \in Clients : interruptHost(c)

ServicesSpec == ServicesInit /\ [][ServicesNext]_<<vars, dnsVars>>
-----------------------------------------------------------------------------
(* Properties.                                                             *)

ServicesTypeOK == TypeOK /\ DnsService!TypeOK

AnswersBounded == DnsService!AnswersBounded

(* The DNS server answers queries only when DHCP has answered it, and in   *)
(* the same run of its program.                                            *)
ServesWithLease == sniffer \in {"closed", "open"} => ips[DnsHost] # None
=============================================================================
