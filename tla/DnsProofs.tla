----------------------------- MODULE DnsProofs -----------------------------
(***************************************************************************)
(* Proofs about Dns, for any clients and any number of queries: the types, *)
(* and that the server stops answering itself.                             *)
(***************************************************************************)
EXTENDS Dns, TLAPS

(* There is no room in a batch for its own start: what a sniffer that has  *)
(* just been opened captures first is a client's query.                    *)
Fresh == sniffer = "open" /\ handled = 0 /\ buffer # << >>

(* Answers of the batches that are over, and of the one that is not, count *)
(* at most three for each query that began a batch; a query that waits in  *)
(* a new sniffer has begun none yet.                                       *)
BatchInv ==
  /\ sniffer \in {"off", "closed", "dead"} => buffer = << >>
  /\ sniffer = "off" => handled = 0
  /\ sniffer = "open" /\ handled > 0 =>
       (answered - handled) + Batch <= Batch * asked
  /\ Fresh => answered + Batch <= Batch * asked
  /\ answered <= Batch * asked

DnsInv == TypeOK /\ BatchInv

USE DEF Batch

(* The initial state has the invariant. *)
LEMMA InitDns == Init => DnsInv
BY DEF Init, DnsInv, TypeOK, BatchInv, Fresh, Packets

(* What is captured are packets, in any case something.                    *)
LEMMA PassType ==
  ASSUME NEW rest \in Seq(Packets), NEW lookup \in Seq(Packets), NEW p \in Packets,
         Pass(rest, lookup, p)
  PROVE  /\ buffer' \in Seq(Packets)
         /\ sniffer # "open" => buffer' = rest
<1>1. <<p>> \in Seq(Packets) /\ <<p, p>> \in Seq(Packets)
  OBVIOUS
<1>2. rest \o lookup \in Seq(Packets)
  OBVIOUS
<1>3. (rest \o lookup) \o <<p>> \in Seq(Packets) /\ (rest \o lookup) \o <<p, p>> \in Seq(Packets)
  BY <1>1, <1>2
<1> QED BY <1>3 DEF Pass

(* The questions of the server's resolver. *)
LEMMA LookupType == ASSUME NEW name \in Askers PROVE Lookup(name) \in Seq(Packets)
<1> DEFINE q == [qr |-> 0, name |-> name]
           r == [qr |-> 1, name |-> name]
<1>1. q \in Packets /\ r \in Packets
  BY DEF Packets
<1> HIDE DEF q, r
<1>2. <<q, r>> \in Seq(Packets) /\ << >> \in Seq(Packets)
  BY <1>1
<1> QED BY <1>2 DEF Lookup, q, r

(* Which clients hear an answer. *)
LEMMA HeardType ==
  ASSUME TypeOK, NEW S, Heard(S)
  PROVE  asker' \in [Askers -> {"idle", "sent", "sniffing", "done"}]
BY DEF TypeOK, Heard

(* An answer of the sniffer belongs to its batch. *)
LEMMA AnswerStep == DnsInv /\ dnssniffer => DnsInv'
<1> SUFFICES ASSUME DnsInv, dnssniffer PROVE DnsInv'
  OBVIOUS
<1> DEFINE name == Head(buffer).name
<1>1. Head(buffer) \in Packets /\ Tail(buffer) \in Seq(Packets) /\ name \in Askers
  <2>1. Head(buffer) \in Packets /\ Tail(buffer) \in Seq(Packets)
    BY DEF DnsInv, TypeOK, dnssniffer
  <2> QED BY <2>1 DEF Packets
<1>2. [qr |-> 1, name |-> name] \in Packets /\ Lookup(name) \in Seq(Packets)
  <2>1. Lookup(name) \in Seq(Packets)
    BY <1>1, LookupType
  <2>2. [qr |-> 1, name |-> name] \in Packets
    BY <1>1 DEF Packets
  <2> QED BY <2>1, <2>2
<1>3. buffer' \in Seq(Packets)
  BY <1>1, <1>2, PassType DEF dnssniffer
<1>4. asker' \in [Askers -> {"idle", "sent", "sniffing", "done"}]
  BY HeardType DEF DnsInv, dnssniffer
<1>5. handled' \in 0..Batch /\ answered' \in Nat
  BY DEF DnsInv, TypeOK, dnssniffer
<1>6. TypeOK'
  BY <1>3, <1>4, <1>5 DEF DnsInv, TypeOK, dnssniffer
<1>7. answered + Batch - handled <= Batch * asked
  BY DEF DnsInv, TypeOK, BatchInv, Fresh, dnssniffer
<1>8. BatchInv'
  BY <1>7 DEF DnsInv, TypeOK, BatchInv, Fresh, dnssniffer
<1> QED BY <1>6, <1>8 DEF DnsInv

(* A query pays for three answers. *)
LEMMA QueryStep == ASSUME NEW a \in Askers, DnsInv, sendQuery(a) PROVE DnsInv'
<1>1. [qr |-> 0, name |-> a] \in Packets /\ << >> \in Seq(Packets) /\ buffer \in Seq(Packets)
  BY DEF DnsInv, TypeOK, Packets
<1>2. buffer' \in Seq(Packets) /\ (sniffer # "open" => buffer' = buffer)
  BY <1>1, PassType DEF sendQuery
<1>3. asker' \in [Askers -> {"idle", "sent", "sniffing", "done"}]
  BY HeardType DEF DnsInv, sendQuery
<1>4. TypeOK'
  BY <1>2, <1>3 DEF DnsInv, TypeOK, sendQuery
<1>5. BatchInv'
  BY <1>2 DEF DnsInv, TypeOK, BatchInv, Fresh, sendQuery
<1> QED BY <1>4, <1>5 DEF DnsInv

(* The steps that open, close or end the sniffer, and those of a client    *)
(* that send nothing.                                                      *)
LEMMA OtherStep ==
  ASSUME DnsInv,
         \/ \E hasAddress \in BOOLEAN : getipfordns(hasAddress)
         \/ stopServer \/ openSniffer \/ dnssnifferRaises \/ closeSniffer
         \/ \E a \in Askers : startSniff(a) \/ restart(a)
         \/ UNCHANGED vars
  PROVE  DnsInv'
<1> USE DEF DnsInv, TypeOK, BatchInv, Fresh, serverVars, clientVars
<1>1. ASSUME NEW hasAddress \in BOOLEAN, getipfordns(hasAddress) PROVE DnsInv'
  BY <1>1 DEF getipfordns
<1>2. CASE stopServer
  BY <1>2 DEF stopServer
<1>3. CASE openSniffer
  BY <1>3 DEF openSniffer
<1>4. CASE dnssnifferRaises
  BY <1>4 DEF dnssnifferRaises
<1>5. CASE closeSniffer
  BY <1>5 DEF closeSniffer
<1>6. ASSUME NEW a \in Askers, startSniff(a) \/ restart(a) PROVE DnsInv'
  BY <1>6 DEF startSniff, restart
<1>7. CASE UNCHANGED vars
  BY <1>7 DEF vars
<1> QED BY <1>1, <1>2, <1>3, <1>4, <1>5, <1>6, <1>7

(* The invariant is inductive. *)
LEMMA NextDns == DnsInv /\ [Next]_vars => DnsInv'
BY AnswerStep, QueryStep, OtherStep DEF Next, Server, Asker

(* Every variable keeps its type. *)
THEOREM TypeCorrect == Spec => []TypeOK
<1>1. DnsInv => TypeOK
  BY DEF DnsInv
<1> QED BY <1>1, InitDns, NextDns, PTL DEF Spec

(* The server answers its own answers, but at most three for each query.   *)
THEOREM AnswersAreBounded == Spec => []AnswersBounded
<1>1. DnsInv => AnswersBounded
  BY DEF DnsInv, BatchInv, AnswersBounded
<1> QED BY <1>1, InitDns, NextDns, PTL DEF Spec
=============================================================================
