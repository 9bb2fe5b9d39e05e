------------------------- MODULE RudpTransferProofs -------------------------
(***************************************************************************)
(* Proofs about RudpTransfer: the types, what the return of send()         *)
(* guarantees, the lock, and the window, for all sizes, message lengths,   *)
(* faults and retransmissions.                                             *)
(***************************************************************************)
EXTENDS RudpTransfer, FiniteSetTheorems, WellFoundedInduction, TLAPS

(* What a fault does to a wire carries nothing new. *)
LEMMA FaultyWire ==
  ASSUME NEW S, NEW wire \in Seq(S), NEW wire2, Faulty(wire, wire2)
  PROVE  wire2 \in Seq(S)
<1>1. PICK i \in 1..Len(wire) :
        \/ wire2 = RemoveAt(wire, i)
        \/ wire2 = Append(wire, wire[i])
        \/ wire2 = Append(RemoveAt(wire, i), wire[i])
  BY DEF Faulty
<1>2. wire[i] \in S
  OBVIOUS
<1>3. SubSeq(wire, 1, i - 1) \in Seq(S) /\ SubSeq(wire, i + 1, Len(wire)) \in Seq(S)
  OBVIOUS
<1>4. RemoveAt(wire, i) \in Seq(S)
  BY <1>3 DEF RemoveAt
<1>5. \A w \in Seq(S), x \in S : Append(w, x) \in Seq(S)
  OBVIOUS
<1> QED BY <1>1, <1>2, <1>4, <1>5

-----------------------------------------------------------------------------
(* Numbers and sequences.                                                  *)

(* A set of numbers has a least one.                                       *)
LEMMA LeastNumber ==
  ASSUME NEW T \in SUBSET Nat, T # {}
  PROVE  \E x \in T : \A y \in T : x <= y
<1> DEFINE R == {ss \in Nat \X Nat : ss[1] < ss[2]}
<1>1. IsWellFoundedOn(R, Nat)
  BY NatLessThanWellFounded DEF OpToRel
<1>2. \A x, y \in Nat : <<x, y>> \in R <=> x < y
  OBVIOUS
<1> HIDE DEF R
<1>3. PICK x \in T : \A y \in T : ~ (<<y, x>> \in R)
  BY <1>1, WFMin
<1>4. ASSUME NEW y \in T PROVE x <= y
  <2>1. x \in Nat /\ y \in Nat
    OBVIOUS
  <2>2. ~(y < x)
    BY <1>2, <1>3, <2>1
  <2> QED BY <2>1, <2>2
<1> QED BY <1>4

(* Induction over the natural numbers, for a set.                          *)
LEMMA SetInduction ==
  ASSUME NEW S, 0 \in S, \A n \in Nat : n \in S => n + 1 \in S
  PROVE  Nat \subseteq S
<1> SUFFICES ASSUME Nat \ S # {} PROVE FALSE
  OBVIOUS
<1>1. PICK x \in Nat \ S : \A y \in Nat \ S : x <= y
  BY LeastNumber
<1>2. x \in Nat /\ x - 1 \in Nat /\ (x - 1) + 1 = x /\ ~(x <= x - 1)
  OBVIOUS
<1>3. x - 1 \in S
  BY <1>1, <1>2
<1> QED BY <1>2, <1>3

(* What FlattenSeq defines by recursion: f[i] is the first i sequences of s *)
(* one after the other, for i up to n.                                     *)
Joins(f, s, n) ==
  f = [i \in 1..n |-> IF i = 1 THEN s[i] ELSE f[i - 1] \o s[i]]

(* The recursion has a solution.                                           *)
LEMMA JoinExists ==
  ASSUME NEW S, NEW s \in Seq(Seq(S)), NEW n \in Nat, n <= Len(s)
  PROVE  \E f : Joins(f, s, n)
<1> DEFINE Good == {k \in Nat : k <= Len(s) => \E f : Joins(f, s, k)}
<1>1. 0 \in Good
  <2> DEFINE f == [i \in 1..0 |-> << >>]
  <2>1. Joins(f, s, 0)
    BY DEF Joins
  <2> QED BY <2>1
<1>2. ASSUME NEW k \in Nat, k \in Good PROVE k + 1 \in Good
  <2> SUFFICES ASSUME k + 1 <= Len(s) PROVE \E f : Joins(f, s, k + 1)
    OBVIOUS
  <2>1. PICK f : Joins(f, s, k)
    <3>1. k <= Len(s)
      BY <1>2
    <3> QED BY <1>2, <3>1
  <2> DEFINE last == IF k + 1 = 1 THEN s[1] ELSE f[k] \o s[k + 1]
             g == [i \in 1..(k + 1) |-> IF i = k + 1 THEN last ELSE f[i]]
             h == [i \in 1..(k + 1) |-> IF i = 1 THEN s[i] ELSE g[i - 1] \o s[i]]
  <2>2. ASSUME NEW i \in 1..(k + 1) PROVE g[i] = h[i]
    <3>1. CASE i = k + 1
      <4>1. CASE k = 0
        BY <3>1, <4>1
      <4>2. CASE k # 0
        <5>1. k \in 1..(k + 1) /\ k # k + 1 /\ i - 1 = k /\ i # 1
          BY <3>1, <4>2
        <5>2. g[k] = f[k]
          BY <5>1
        <5> QED BY <3>1, <5>1, <5>2
      <4> QED BY <4>1, <4>2
    <3>2. CASE i # k + 1
      <4>1. i \in 1..k /\ g[i] = f[i]
        BY <3>2
      <4>2. CASE i = 1
        BY <2>1, <4>1, <4>2 DEF Joins
      <4>3. CASE i # 1
        <5>1. i - 1 \in 1..k /\ i - 1 \in 1..(k + 1) /\ i - 1 # k + 1
          BY <4>1, <4>3
        <5>2. g[i - 1] = f[i - 1]
          BY <5>1
        <5>3. f[i] = f[i - 1] \o s[i]
          BY <2>1, <4>1, <4>3 DEF Joins
        <5> QED BY <4>1, <4>3, <5>2, <5>3
      <4> QED BY <4>2, <4>3
    <3> QED BY <3>1, <3>2
  <2>3. g = h
    BY <2>2
  <2> HIDE DEF g
  <2>4. Joins(g, s, k + 1)
    BY <2>3 DEF Joins
  <2> QED BY <2>4
<1>4. n \in Good
  <2> HIDE DEF Good
  <2> QED BY <1>1, <1>2, SetInduction
<1> QED BY <1>4

(* Sequences over S, joined, are a sequence over S. *)
LEMMA FlattenType ==
  ASSUME NEW S, NEW s \in Seq(Seq(S)), Len(s) # 0
  PROVE  FlattenSeq(s) \in Seq(S)
<1> DEFINE join == CHOOSE f : Joins(f, s, Len(s))
           Good == {k \in Nat : k \in 1..Len(s) => join[k] \in Seq(S)}
<1>1. Len(s) \in Nat /\ \A i \in 1..Len(s) : s[i] \in Seq(S)
  OBVIOUS
<1>2. \E f : Joins(f, s, Len(s))
  BY <1>1, JoinExists
<1>3. Joins(join, s, Len(s))
  BY <1>2
<1> HIDE DEF join
<1>4. 0 \in Good
  OBVIOUS
<1>5. ASSUME NEW k \in Nat, k \in Good, k + 1 \in 1..Len(s) PROVE join[k + 1] \in Seq(S)
  <2>1. CASE k = 0
    BY <1>1, <1>3, <1>5, <2>1 DEF Joins
  <2>2. CASE k # 0
    <3>1. k \in 1..Len(s) /\ (k + 1) - 1 = k /\ k + 1 # 1
      BY <1>1, <1>5, <2>2
    <3>2. join[k + 1] = join[k] \o s[k + 1]
      BY <1>3, <1>5, <3>1 DEF Joins
    <3>3. join[k] \in Seq(S) /\ s[k + 1] \in Seq(S)
      BY <1>1, <1>5, <3>1
    <3> QED BY <3>2, <3>3
  <2> QED BY <2>1, <2>2
<1>6. \A k \in Nat : k \in Good => k + 1 \in Good
  BY <1>5
<1> HIDE DEF Good
<1>7. Len(s) \in Good
  BY <1>1, <1>4, <1>6, SetInduction
<1>8. join[Len(s)] \in Seq(S)
  BY <1>1, <1>7 DEF Good
<1> QED BY <1>8 DEF FlattenSeq, join, Joins

(* A slice that does not begin before a sequence nor go behind it.         *)
LEMMA SliceType ==
  ASSUME NEW S, NEW s \in Seq(S), NEW m \in Nat \ {0}, NEW n \in Nat, n <= Len(s)
  PROVE  SubSeq(s, m, n) \in Seq(S)
OBVIOUS

-----------------------------------------------------------------------------
(* Types.                                                                  *)

(* While send() runs there is a message, and there are never too many.     *)
TypeInv ==
  /\ TypeOK
  /\ Len(sent) <= MaxMessages
  /\ pc # "idle" => Len(sent) # 0

(* The packet that send() makes of the next bytes of its message. *)
LEMMA DataPacketType ==
  ASSUME TypeInv, pc # "idle"
  PROVE  /\ DataPacket \in DataPackets
         /\ DataPacket.seq = sequenceNumber
         /\ \A n \in SeqNumbers : [DataPacket EXCEPT !.seq = n] \in DataPackets
<1> DEFINE m == Len(sent)
           data == Message(m, sent[m])
           last == IF MTU < Len(data) THEN MTU ELSE Len(data)
<1>1. m \in 1..MaxMessages /\ sent[m] \in Nat
  <2>1. sent \in Seq(MessageLengths) /\ m # 0 /\ m <= MaxMessages
    BY DEF TypeInv, TypeOK
  <2>2. m \in Nat /\ m \in 1..Len(sent)
    BY <2>1
  <2>3. m \in 1..MaxMessages
    BY <2>1, <2>2, BoundsAssumption
  <2>4. sent[m] \in MessageLengths
    BY <2>1, <2>2
  <2> QED BY <2>3, <2>4, BoundsAssumption
<1>2. data \in Bytes /\ Len(data) \in Nat
  <2>1. \A i \in 1..sent[m] : <<m, i>> \in (1..MaxMessages) \X (Nat \ {0})
    BY <1>1
  <2> QED BY <1>1, <2>1 DEF Message, Bytes
<1>3. last \in Nat /\ last <= Len(data)
  BY <1>2, SizesAssumption
<1>4. totalBytesSent + 1 \in Nat \ {0}
  BY DEF TypeInv, TypeOK
<1> HIDE DEF m, last
<1>5. SubSeq(data, totalBytesSent + 1, last) \in Bytes
  BY <1>2, <1>3, <1>4, SliceType DEF Bytes
<1>6. nextDataChunkToSend \in Bytes
  BY <1>5 DEF nextDataChunkToSend, m, last
<1> HIDE DEF data
<1>7. sequenceNumber \in SeqNumbers
  BY DEF TypeInv, TypeOK
<1> QED BY <1>6, <1>7 DEF DataPacket, DataPackets

(* The next number is a number. *)
LEMMA NextNumberType ==
  sequenceNumber \in SeqNumbers => getNextSequenceNumber \in SeqNumbers
BY SizesAssumption DEF SeqNumbers, getNextSequenceNumber

(* What arrives; DATA comes with bytes.                                    *)
LEMMA ArrivingType ==
  ASSUME TypeInv, NEW type, Arriving(type)
  PROVE  /\ packets' \in Seq(DataPackets \union ControlPackets)
         /\ Head(packets).seq \in SeqNumbers
         /\ type = "DATA" => Head(packets).data \in Bytes
<1>1. Head(packets) \in DataPackets \union ControlPackets /\ Head(packets).type = type
  BY DEF Arriving, TypeInv, TypeOK
<1>2. packets' \in Seq(DataPackets \union ControlPackets)
  BY DEF Arriving, TypeInv, TypeOK
<1> QED BY <1>1, <1>2 DEF DataPackets, ControlPackets

(* The slots of the array, joined. *)
LEMMA JoinedType == TypeInv => Joined \in Bytes
<1> SUFFICES ASSUME TypeInv PROVE Joined \in Bytes
  OBVIOUS
<1> DEFINE s == [j \in 1..Slots |-> receivedDataArray[j - 1]]
<1>1. Slots \in Nat \ {0} /\ receivedDataArray \in [0..(Slots - 1) -> Bytes]
  BY SizesAssumption DEF TypeInv, TypeOK
<1>2. \A j \in 1..Slots : j - 1 \in 0..(Slots - 1)
  BY <1>1
<1>3. s \in Seq(Bytes) /\ Len(s) = Slots
  BY <1>1, <1>2
<1> HIDE DEF s
<1>4. FlattenSeq(s) \in Seq((1..MaxMessages) \X (Nat \ {0}))
  BY <1>1, <1>3, FlattenType DEF Bytes
<1> QED BY <1>4 DEF Joined, s, Bytes

(* No step makes a flag anything but TRUE or FALSE. *)
LEMMA FlagsStep == FlagsOK /\ [Next]_vars => FlagsOK'
<1> SUFFICES ASSUME FlagsOK, [Next]_vars PROVE FlagsOK'
  OBVIOUS
<1> USE DEF FlagsOK, lockVars, sender, bufferVars, receiver
<1>1. ASSUME NEW length \in MessageLengths, send(length) PROVE FlagsOK'
  BY <1>1, Zenon DEF send
<1>2. CASE close \/ retry \/ giveUp \/ raiseFailed
  BY <1>2, Zenon DEF close, retry, giveUp, raiseFailed
<1>3. CASE sendDataPacket \/ registerDataPacket \/ sendENDPacket \/ sendDone
  BY <1>3, Zenon DEF sendDataPacket, registerDataPacket, sendENDPacket, sendDone
<1>4. CASE handleACK
  <2>1. growing' \in BOOLEAN
    BY <1>4, Zenon DEF handleACK
  <2> QED BY <1>4, <2>1, Zenon DEF handleACK
<1>5. CASE increaseWindowSize \/ retransmitWaitingPackets \/ retransmitPacket
  BY <1>5, Zenon DEF increaseWindowSize, retransmitWaitingPackets, retransmitPacket
<1>6. CASE handleDATA
  BY <1>6, Zenon DEF handleDATA
<1>7. CASE handleEND \/ signalDataReady \/ handleRST
  BY <1>7, Zenon DEF handleEND, signalDataReady, handleRST
<1>8. CASE Receiving
  BY <1>8, Zenon DEF Receiving, receive, receiveWakes, receiveTakes, receiveResets, receiveReturns
<1>9. CASE networkFault \/ UNCHANGED vars
  BY <1>9, Zenon DEF networkFault, vars
<1> QED
  BY <1>1, <1>2, <1>3, <1>4, <1>5, <1>6, <1>7, <1>8, <1>9
     DEF Next, Sending, Retransmission, ReceiverListener

(* The steps of send() and close(). *)
LEMMA SenderType ==
  ASSUME TypeInv, FlagsOK', Sending \/ close \/ \E length \in MessageLengths : send(length)
  PROVE  TypeInv'
<1> USE DEF callVars, lockVars, arrayVars, bufferVars, receiver, network, boundVars,
            TypeInv, TypeOK, Steps
<1>1. ASSUME NEW length \in MessageLengths, send(length) PROVE TypeInv'
  <2>1. sent' \in Seq(MessageLengths) /\ Len(sent') = Len(sent) + 1 /\ Len(sent) \in Nat
    BY <1>1 DEF send
  <2>2. Len(sent') <= MaxMessages /\ Len(sent') # 0
    BY <1>1, <2>1, BoundsAssumption DEF send
  <2> QED BY <1>1, <2>1, <2>2, SizesAssumption DEF send
<1>2. CASE close
  <2>1. packets' \in Seq(DataPackets \union ControlPackets)
    BY <1>2, NextNumberType DEF close, ControlPackets
  <2> QED BY <1>2, <2>1, NextNumberType DEF close
<1>3. CASE retry
  BY <1>3, SizesAssumption DEF retry
<1>4. CASE giveUp \/ sendDone
  BY <1>4 DEF giveUp, sendDone
<1>5. CASE raiseFailed
  <2>1. Len(sent) \in Nat
    OBVIOUS
  <2>2. failed' = failed \union {Len(sent)}
    BY <1>5 DEF raiseFailed
  <2>3. failed' \subseteq Nat
    BY <2>1, <2>2
  <2> QED BY <1>5, <2>3 DEF raiseFailed
<1>6. CASE sendDataPacket
  <2> DEFINE p == [DataPacket EXCEPT !.seq = getNextSequenceNumber]
  <2>1. p \in DataPackets /\ getNextSequenceNumber \in SeqNumbers
    BY <1>6, DataPacketType, NextNumberType DEF sendDataPacket
  <2> HIDE DEF p
  <2>2. packets' = Append(packets, p)
    BY <1>6 DEF sendDataPacket, p
  <2>3. packets' \in Seq(DataPackets \union ControlPackets)
    BY <2>1, <2>2
  <2>4. windowSize' \in 1..MAX_WINDOW_SIZE
    BY <1>6, SizesAssumption DEF sendDataPacket
  <2> QED BY <1>6, <2>1, <2>3, <2>4 DEF sendDataPacket
<1>7. CASE registerDataPacket
  <2>1. DataPacket \in DataPackets
    BY <1>7, DataPacketType DEF registerDataPacket
  <2> HIDE DEF DataPacket
  <2>2. waitingForAcknowledge' \subseteq DataPackets
    BY <1>7, <2>1 DEF registerDataPacket
  <2> QED BY <1>7, <2>2, SizesAssumption DEF registerDataPacket
<1>8. CASE sendENDPacket
  <2>1. packets' \in Seq(DataPackets \union ControlPackets)
    BY <1>8, NextNumberType DEF sendENDPacket, ControlPackets
  <2> QED BY <1>8, <2>1, NextNumberType, SizesAssumption DEF sendENDPacket
<1> QED BY <1>1, <1>2, <1>3, <1>4, <1>5, <1>6, <1>7, <1>8 DEF Sending

(* The listener and the retransmission thread of the sending side, and the *)
(* network.                                                                *)
LEMMA ThreadsType ==
  ASSUME TypeInv, FlagsOK', handleACK \/ increaseWindowSize \/ Retransmission \/ networkFault
  PROVE  TypeInv'
<1> USE DEF callVars, lockVars, arrayVars, bufferVars, receiver, network, boundVars,
            TypeInv, TypeOK
<1>1. CASE handleACK
  BY <1>1 DEF handleACK
<1>2. CASE increaseWindowSize
  BY <1>2, SizesAssumption DEF increaseWindowSize
<1>3. CASE retransmitWaitingPackets
  BY <1>3, BoundsAssumption DEF retransmitWaitingPackets
<1>4. CASE retransmitPacket
  <2>1. packets' \in Seq(DataPackets \union ControlPackets)
    BY <1>4 DEF retransmitPacket
  <2> QED BY <1>4, <2>1 DEF retransmitPacket
<1>5. CASE networkFault
  <2>1. packets' \in Seq(DataPackets \union ControlPackets) /\ acks' \in Seq(SeqNumbers)
    BY <1>5, FaultyWire DEF networkFault
  <2>2. faults' \in 0..MaxFaults
    BY <1>5, BoundsAssumption DEF networkFault
  <2> QED BY <1>5, <2>1, <2>2 DEF networkFault, sender
<1> QED BY <1>1, <1>2, <1>3, <1>4, <1>5 DEF Retransmission

(* The receiving side. *)
LEMMA ReceiverType ==
  ASSUME TypeInv, FlagsOK', ReceiverListener \/ Receiving
  PROVE  TypeInv'
<1> USE DEF callVars, lockVars, sender, arrayVars, bufferVars, network, boundVars,
            TypeInv, TypeOK, ReadSteps
<1>1. CASE handleDATA
  <2> DEFINE seq == Head(packets).seq
             data == Head(packets).data
             last == IF MTU - HEADER_LENGTH < Len(data) THEN MTU - HEADER_LENGTH ELSE Len(data)
  <2>1. packets' \in Seq(DataPackets \union ControlPackets) /\ seq \in SeqNumbers /\ data \in Bytes
    BY <1>1, ArrivingType DEF handleDATA
  <2>2. Len(data) \in Nat /\ last \in Nat /\ last <= Len(data)
    BY <2>1, SizesAssumption DEF Bytes
  <2> HIDE DEF data, last
  <2>3. SubSeq(data, 1, last) \in Bytes
    BY <2>1, <2>2, SliceType DEF Bytes
  <2>4. receivedData \in Bytes
    BY <2>3 DEF receivedData, data, last
  <2> HIDE DEF receivedData
  <2>5. \/ UNCHANGED <<receivedDataArray, stored, acks>>
        \/ /\ receivedDataArray' = [receivedDataArray EXCEPT ![SlotOf(seq)] = receivedData]
           /\ stored' = stored \union {seq} /\ acks' = Append(acks, seq)
    BY <1>1 DEF handleDATA
  <2> HIDE DEF seq
  <2>6. /\ receivedDataArray' \in [0..(Slots - 1) -> Bytes]
        /\ stored' \subseteq SeqNumbers /\ acks' \in Seq(SeqNumbers)
    <3>1. CASE UNCHANGED <<receivedDataArray, stored, acks>>
      BY <3>1
    <3>2. CASE /\ receivedDataArray' = [receivedDataArray EXCEPT ![SlotOf(seq)] = receivedData]
               /\ stored' = stored \union {seq} /\ acks' = Append(acks, seq)
      <4>1. receivedDataArray' \in [0..(Slots - 1) -> Bytes]
        BY <2>4, <3>2
      <4>2. stored' \subseteq SeqNumbers /\ acks' \in Seq(SeqNumbers)
        BY <2>1, <3>2
      <4> QED BY <4>1, <4>2
    <3> QED BY <2>5, <3>1, <3>2
  <2> QED BY <1>1, <2>1, <2>6 DEF handleDATA
<1>2. CASE handleEND
  <2>1. packets' \in Seq(DataPackets \union ControlPackets) /\ Head(packets).seq \in SeqNumbers
    BY <1>2, ArrivingType DEF handleEND
  <2>2. EmptyArray \in [0..(Slots - 1) -> Bytes]
    BY DEF EmptyArray, Bytes
  <2>3. Head(packets).seq + 1 \in 0..(MaxSequenceNumber + 1)
    BY <2>1, SizesAssumption DEF SeqNumbers
  <2> HIDE DEF Joined
  <2> QED BY <1>2, <2>1, <2>2, <2>3, JoinedType DEF handleEND
<1>3. CASE signalDataReady
  BY <1>3 DEF signalDataReady
<1>4. CASE handleRST
  <2>1. packets' \in Seq(DataPackets \union ControlPackets)
    BY <1>4, ArrivingType DEF handleRST
  <2> QED BY <1>4, <2>1 DEF handleRST
<1>5. CASE receive \/ receiveReturns
  BY <1>5 DEF receive, receiveReturns
<1>8. CASE receiveTakes
  <2>1. delivered' \in Seq(Bytes)
    BY <1>8 DEF receiveTakes
  <2> QED BY <1>8, <2>1 DEF receiveTakes
<1>6. CASE receiveWakes
  BY <1>6, BoundsAssumption DEF receiveWakes
<1>7. CASE receiveResets
  <2>1. << >> \in Bytes
    BY DEF Bytes
  <2> QED BY <1>7, <2>1 DEF receiveResets
<1> QED BY <1>1, <1>2, <1>3, <1>4, <1>5, <1>6, <1>7, <1>8 DEF ReceiverListener, Receiving

(* The initial state is of the right type. *)
LEMMA TypeInit == Init => TypeInv
<1> SUFFICES ASSUME Init PROVE TypeInv
  OBVIOUS
<1>1. EmptyArray \in [0..(Slots - 1) -> Bytes] /\ << >> \in Bytes
  BY DEF EmptyArray, Bytes
<1>2. sequenceNumber \in SeqNumbers /\ sequenceNumber + 1 \in 0..(MaxSequenceNumber + 1)
  BY SizesAssumption DEF Init, SeqNumbers
<1>3. FlagsOK
  BY Zenon DEF Init, FlagsOK
<1> HIDE DEF EmptyArray
<1> QED
  BY <1>1, <1>2, <1>3, SizesAssumption, BoundsAssumption DEF Init, TypeInv, TypeOK, Steps, ReadSteps

(* Every step keeps the types. *)
LEMMA TypeStep == TypeInv /\ [Next]_vars => TypeInv'
<1> SUFFICES ASSUME TypeInv, [Next]_vars PROVE TypeInv'
  OBVIOUS
<1>1. FlagsOK'
  BY FlagsStep DEF TypeInv, TypeOK
<1>2. CASE UNCHANGED vars
  BY <1>1, <1>2
     DEF vars, sender, callVars, lockVars, receiver, arrayVars, bufferVars, network, boundVars,
         TypeInv, TypeOK
<1> QED BY <1>1, <1>2, SenderType, ThreadsType, ReceiverType DEF Next

(* The invariant holds always. *)
LEMMA TypeInvariant == Spec => []TypeInv
BY TypeInit, TypeStep, PTL DEF Spec

(* Every variable keeps its type; in particular what receive() returns is  *)
(* made of bytes of messages, whatever slots the packets were put in       *)
(* (rudp_socket.py, handleControlPackets).                                 *)
THEOREM TypeCorrect == Spec => []TypeOK
<1>1. TypeInv => TypeOK
  BY DEF TypeInv
<1> QED BY <1>1, TypeInvariant, PTL
-----------------------------------------------------------------------------
(* Acknowledgements.                                                       *)

(* An ACK on its way is for a packet that is stored; a DATA packet of the  *)
(* message is stored, waits for its ACK, or is about to.                   *)
AckInv ==
  /\ acks \in Seq(stored)
  /\ pc # "idle" =>
       messageSeqs \subseteq
         stored \union {p.seq : p \in waitingForAcknowledge}
                \union {q \in {sequenceNumber} : pc = "register"}
  /\ OkMeansStored

(* The initial state has the invariant.                                    *)
LEMMA AckInit == Init => AckInv
  BY DEF Init, AckInv, OkMeansStored

(* Each step keeps it.                                                     *)
LEMMA AckStep == AckInv /\ [Next]_vars => AckInv'
<1> SUFFICES ASSUME AckInv, [Next]_vars PROVE AckInv'
  OBVIOUS
<1> USE DEF AckInv, OkMeansStored
<1>1. ASSUME NEW length \in MessageLengths, send(length) PROVE AckInv'
  BY <1>1 DEF send, receiver, network, lockVars, arrayVars
<1>2. CASE close
  BY <1>2 DEF close, receiver, callVars, lockVars, arrayVars
<1>3. CASE retry
  BY <1>3 DEF retry, receiver, network, lockVars, arrayVars
<1>4. CASE giveUp
  BY <1>4 DEF giveUp, receiver, network, callVars, lockVars, arrayVars
<1>5. CASE raiseFailed
  BY <1>5 DEF raiseFailed, receiver, network, arrayVars
<1>6. CASE sendDataPacket
  BY <1>6 DEF sendDataPacket, receiver, lockVars, arrayVars
<1>7. CASE registerDataPacket
  <2>1. DataPacket.seq = sequenceNumber
    BY DEF DataPacket
  <2>2. {p.seq : p \in waitingForAcknowledge} \union {sequenceNumber}
          \subseteq {p.seq : p \in waitingForAcknowledge'}
    BY <1>7, <2>1 DEF registerDataPacket
  <2> QED BY <1>7, <2>2 DEF registerDataPacket, receiver, network, arrayVars
<1>8. CASE sendENDPacket
  BY <1>8 DEF sendENDPacket, receiver, lockVars, arrayVars
<1>9. CASE sendDone
  BY <1>9 DEF sendDone, receiver, network, callVars, lockVars, arrayVars
<1>10. CASE handleACK
  <2>1. Head(acks) \in stored /\ acks' \in Seq(stored)
    BY <1>10 DEF handleACK
  <2>2. {p.seq : p \in waitingForAcknowledge}
          \subseteq {p.seq : p \in waitingForAcknowledge'} \union {Head(acks)}
    BY <1>10 DEF handleACK
  <2> QED BY <1>10, <2>1, <2>2 DEF handleACK, receiver, callVars, arrayVars
<1>11. CASE increaseWindowSize
  BY <1>11 DEF increaseWindowSize, receiver, network, callVars, arrayVars
<1>12. CASE Retransmission
  BY <1>12 DEF Retransmission, retransmitWaitingPackets, retransmitPacket,
               receiver, network, callVars, arrayVars
<1>13. CASE handleDATA
  <2>1. stored \subseteq stored' /\ acks' \in Seq(stored')
    BY <1>13 DEF handleDATA
  <2> QED BY <1>13, <2>1 DEF handleDATA, sender, callVars, lockVars
<1>14. CASE handleEND \/ signalDataReady \/ handleRST
  BY <1>14 DEF handleEND, signalDataReady, handleRST, sender, callVars, lockVars,
               network, arrayVars
<1>15. CASE Receiving
  BY <1>15 DEF Receiving, receive, receiveWakes, receiveTakes, receiveResets, receiveReturns,
               sender, callVars, lockVars, network, arrayVars
<1>16. CASE networkFault
  <2>1. acks' \in Seq(stored)
    BY <1>16, FaultyWire DEF networkFault
  <2> QED BY <1>16, <2>1 DEF networkFault, sender, receiver, callVars, lockVars, arrayVars
<1>17. CASE UNCHANGED vars
  BY <1>17 DEF vars, sender, receiver, network, callVars, lockVars, arrayVars
<1> QED
  BY <1>1, <1>2, <1>3, <1>4, <1>5, <1>6, <1>7, <1>8, <1>9, <1>10, <1>11, <1>12,
     <1>13, <1>14, <1>15, <1>16, <1>17
     DEF Next, Sending, ReceiverListener

(* Every DATA packet of a message is stored by the receiver when send()    *)
(* returns without raising (rudp_socket.py, send and the DATA and ACK      *)
(* branches of handleControlPackets).                                      *)
THEOREM SendOkMeansStored == Spec => []OkMeansStored
<1>1. AckInv => OkMeansStored
  BY DEF AckInv
<1> QED BY <1>1, AckInit, AckStep, PTL DEF Spec
-----------------------------------------------------------------------------
(* The window.                                                             *)

WindowInv ==
  /\ windowSize \in 1..MAX_WINDOW_SIZE
  /\ IsFiniteSet(waitingForAcknowledge)
  /\ WindowRespected

(* A step that neither enters a packet nor shrinks the window.             *)
LEMMA WindowKept ==
  ASSUME WindowInv,
         waitingForAcknowledge' \subseteq waitingForAcknowledge,
         pc' = "register" => pc = "register",
         windowSize' \in windowSize..MAX_WINDOW_SIZE
  PROVE  WindowInv'
<1>1. IsFiniteSet(waitingForAcknowledge')
  BY FS_Subset DEF WindowInv
<1>2. Cardinality(waitingForAcknowledge') <= Cardinality(waitingForAcknowledge)
  BY FS_Subset DEF WindowInv
<1>3. Cardinality(waitingForAcknowledge) \in Nat /\ Cardinality(waitingForAcknowledge') \in Nat
  BY <1>1, FS_CardinalityType DEF WindowInv
<1>4. InFlight' <= InFlight /\ InFlight \in Nat /\ InFlight' \in Nat
  BY <1>2, <1>3 DEF InFlight
<1>5. windowSize \in Nat /\ windowSize' \in 1..MAX_WINDOW_SIZE /\ windowSize <= windowSize'
  BY SizesAssumption DEF WindowInv
<1>6. WindowRespected'
  <2>1. InFlight <= MAX_WINDOW_SIZE /\ InFlight <= windowSize + 1
    BY DEF WindowInv, WindowRespected
  <2>2. \A x, y, w, v, m \in Nat :
          y <= x /\ x <= m /\ x <= w + 1 /\ w <= v => y <= m /\ y <= v + 1
    OBVIOUS
  <2>3. windowSize' \in Nat /\ MAX_WINDOW_SIZE \in Nat
    BY <1>5, SizesAssumption
  <2>4. InFlight' <= MAX_WINDOW_SIZE /\ InFlight' <= windowSize' + 1
    BY <1>4, <1>5, <2>1, <2>2, <2>3
  <2> QED BY <2>4 DEF WindowRespected
<1> QED BY <1>1, <1>5, <1>6 DEF WindowInv

(* The initial state has the invariant.                                    *)
LEMMA WindowInit == Init => WindowInv
  BY FS_EmptySet, SizesAssumption DEF Init, WindowInv, WindowRespected, InFlight

(* Each step keeps it.                                                     *)
LEMMA WindowStep == WindowInv /\ [Next]_vars => WindowInv'
<1> SUFFICES ASSUME WindowInv, [Next]_vars PROVE WindowInv'
  OBVIOUS
<1>C. Cardinality(waitingForAcknowledge) \in Nat
  BY FS_CardinalityType DEF WindowInv
<1>W. windowSize \in windowSize..MAX_WINDOW_SIZE
  BY SizesAssumption DEF WindowInv
<1>1. ASSUME NEW length \in MessageLengths, send(length) PROVE WindowInv'
  BY <1>1, <1>W, WindowKept DEF send, lockVars
<1>2. CASE close \/ retry \/ giveUp \/ sendENDPacket \/ sendDone
  BY <1>2, <1>W, WindowKept
     DEF close, retry, giveUp, sendENDPacket, sendDone, lockVars
<1>3. CASE raiseFailed
  BY <1>3, <1>W, WindowKept DEF raiseFailed
<1>4. CASE sendDataPacket
  <2>1. /\ Cardinality(waitingForAcknowledge) < windowSize
        /\ windowSize' \in (windowSize - 1)..windowSize /\ windowSize' \in 1..MAX_WINDOW_SIZE
        /\ waitingForAcknowledge' = waitingForAcknowledge /\ pc' = "register"
    BY <1>4, <1>C, SizesAssumption DEF sendDataPacket, WindowFull, WindowInv, lockVars
  <2>2. InFlight' = Cardinality(waitingForAcknowledge) + 1
    BY <2>1 DEF InFlight
  <2> QED
    BY <1>C, <2>1, <2>2, SizesAssumption DEF WindowInv, WindowRespected
<1>5. CASE registerDataPacket
  <2> DEFINE kept == {p \in waitingForAcknowledge : p.seq # sequenceNumber}
  <2>1. /\ waitingForAcknowledge' = kept \union {DataPacket}
        /\ windowSize' = windowSize /\ pc = "register" /\ pc' # "register"
    BY <1>5 DEF registerDataPacket
  <2>2. IsFiniteSet(kept) /\ Cardinality(kept) <= Cardinality(waitingForAcknowledge)
    BY FS_Subset DEF WindowInv
  <2> HIDE DEF kept
  <2>3. Cardinality(kept) \in Nat
    BY <2>2, FS_CardinalityType
  <2>4. /\ IsFiniteSet(kept \union {DataPacket})
        /\ Cardinality(kept \union {DataPacket}) \in Nat
        /\ Cardinality(kept \union {DataPacket}) <= Cardinality(kept) + 1
    BY <2>2, <2>3, FS_AddElement
  <2>5. /\ InFlight = Cardinality(waitingForAcknowledge) + 1
        /\ InFlight' = Cardinality(kept \union {DataPacket})
    BY <2>1, <2>4 DEF InFlight
  <2> QED
    BY <1>C, <2>1, <2>2, <2>3, <2>4, <2>5, SizesAssumption DEF WindowInv, WindowRespected
<1>6. CASE handleACK
  BY <1>6, <1>W, WindowKept DEF handleACK
<1>7. CASE increaseWindowSize
  <2>1. windowSize' \in windowSize..MAX_WINDOW_SIZE
    BY <1>7, SizesAssumption DEF increaseWindowSize, WindowInv
  <2> QED BY <1>7, <2>1, WindowKept DEF increaseWindowSize
<1>8. CASE Retransmission
  BY <1>8, <1>W, WindowKept DEF Retransmission, retransmitWaitingPackets, retransmitPacket
<1>9. CASE ReceiverListener \/ Receiving \/ networkFault
  BY <1>9, <1>W, WindowKept
     DEF ReceiverListener, handleDATA, handleEND, signalDataReady, handleRST,
         Receiving, receive, receiveWakes, receiveTakes, receiveResets, receiveReturns,
         networkFault, sender, lockVars
<1>10. CASE UNCHANGED vars
  BY <1>10, <1>W, WindowKept DEF vars, sender, lockVars
<1> QED
  BY <1>1, <1>2, <1>3, <1>4, <1>5, <1>6, <1>7, <1>8, <1>9, <1>10 DEF Next, Sending

(* Never more unacknowledged packets than MAX_WINDOW_SIZE, nor than one    *)
(* more than the window (rudp_socket.py, the window loop of send, reduce-  *)
(* and increaseWindowSize), in every interleaving of sender and listener.  *)
THEOREM WindowIsRespected == Spec => []WindowRespected
<1>1. WindowInv => WindowRespected
  BY DEF WindowInv
<1> QED BY <1>1, WindowInit, WindowStep, PTL DEF Spec
-----------------------------------------------------------------------------
(* What the window has grown by.                                           *)

Numbers(ps) == {p.seq : p \in ps}

(* The packets that may still be acknowledged for the first time.          *)
Pending == Numbers(waitingForAcknowledge) \union {q \in {sequenceNumber} : pc = "register"}

(* A DATA packet gets a number that no packet has which is stored or still *)
(* waits.  Sequence numbers repeat after 65536 packets, so that a          *)
(* connection may break this, but only then (NumbersAreNewBeforeTheyWrap). *)
NumberIsNew ==
  pc = "window" /\ pc' = "register" =>
    sequenceNumber' \notin stored \union Numbers(waitingForAcknowledge)

NumbersAreNew == [][NumberIsNew]_vars

(* The step by which the listener, with the lock, will open the window.    *)
Due == IF growing THEN 1 ELSE 0

(* What the window has grown by, the step that is due included, is paid    *)
(* for by packets that are stored and no longer pending.                   *)
EarnedInv ==
  /\ IsFiniteSet(stored)
  /\ windowSize \in Nat
  /\ windowSize + Due <= 2 + Cardinality(stored \ Pending)
  /\ pc = "register" => sequenceNumber \notin Numbers(waitingForAcknowledge)

(* At most one growth of the window is due, and a step that leaves the     *)
(* listener alone leaves it so.                                            *)
LEMMA DueType ==
  /\ Due \in {0, 1} /\ Due' \in {0, 1}
  /\ (growing => Due = 1) /\ (~growing => Due = 0)
  /\ (growing' => Due' = 1) /\ (~growing' => Due' = 0)
  /\ growing' = growing => Due' = Due
<1>1. (growing => Due = 1) /\ (~growing => Due = 0)
  BY DEF Due
<1>2. (growing' => Due' = 1) /\ (~growing' => Due' = 0)
  BY DEF Due
<1>3. Due \in {0, 1}
  BY <1>1
<1>4. Due' \in {0, 1}
  BY <1>2
<1>5. ASSUME growing' = growing PROVE Due' = Due
  BY <1>5, Zenon DEF Due
<1> QED BY <1>1, <1>2, <1>3, <1>4, <1>5

(* So it can be added to the window.                                       *)
LEMMA DueIsNat == Due \in Nat /\ Due' \in Nat
<1>1. Due \in {0, 1} /\ Due' \in {0, 1}
  BY DueType
<1> QED BY <1>1

(* A step that opens the window no further, stores no less and leaves      *)
(* nothing new pending.                                                    *)
LEMMA EarnedKept ==
  ASSUME EarnedInv, stored \subseteq stored', IsFiniteSet(stored'),
         windowSize' \in Nat,
         windowSize' + Due' <= windowSize + Due,
         stored \cap Pending' \subseteq Pending,
         pc' = "register" => sequenceNumber' \notin Numbers(waitingForAcknowledge')
  PROVE  EarnedInv'
<1>1. stored \ Pending \subseteq stored' \ Pending'
  OBVIOUS
<1>2. IsFiniteSet(stored' \ Pending') /\ IsFiniteSet(stored \ Pending)
  BY FS_Subset DEF EarnedInv
<1>3. Cardinality(stored \ Pending) <= Cardinality(stored' \ Pending')
  BY <1>1, <1>2, FS_Subset
<1>4. Cardinality(stored \ Pending) \in Nat /\ Cardinality(stored' \ Pending') \in Nat
  BY <1>2, FS_CardinalityType
<1>5. \A a, b, x, y \in Nat : a <= b /\ b <= 2 + x /\ x <= y => a <= 2 + y
  OBVIOUS
<1> DEFINE grown == windowSize + Due
           grown2 == windowSize' + Due'
<1>6. grown \in Nat /\ grown2 \in Nat /\ grown2 <= grown /\ grown <= 2 + Cardinality(stored \ Pending)
  <2>1. \A w, d \in Nat : w + d \in Nat
    OBVIOUS
  <2>2. windowSize \in Nat
    BY DEF EarnedInv
  <2>3. grown \in Nat /\ grown2 \in Nat
    BY <2>1, <2>2, DueIsNat
  <2> QED BY <2>3 DEF EarnedInv
<1>7. grown2 <= 2 + Cardinality(stored' \ Pending')
  <2> HIDE DEF grown, grown2, Pending
  <2> QED BY <1>3, <1>4, <1>5, <1>6
<1> QED BY <1>7 DEF EarnedInv

(* The ACK of a packet that waits: what it adds to the window was not      *)
(* counted before, since the packet was pending.                           *)
LEMMA EarnedByACK ==
  ASSUME EarnedInv, AckInv, handleACK
  PROVE  EarnedInv'
<1> DEFINE n == Head(acks)
           earned == stored \ Pending
<1>1. n \in stored
  BY DEF AckInv, handleACK
<1>2. /\ Numbers(waitingForAcknowledge') = Numbers(waitingForAcknowledge) \ {n}
      /\ Due = 0 /\ (n \in Numbers(waitingForAcknowledge) => Due' = 1)
      /\ n \notin Numbers(waitingForAcknowledge) => Due' = 0
  <2>1. Numbers(waitingForAcknowledge') = Numbers(waitingForAcknowledge) \ {n}
    BY DEF handleACK, Numbers
  <2>2. ~growing /\ (growing' <=> n \in Numbers(waitingForAcknowledge))
    BY Zenon DEF handleACK, Numbers, LockFree
  <2> QED BY <2>1, <2>2, DueType
<1>3. UNCHANGED <<stored, windowSize, pc, sequenceNumber>>
  BY DEF handleACK, receiver, arrayVars
<1>4. Pending' \subseteq Pending
  BY <1>2, <1>3 DEF Pending
<1>5. CASE n \notin Numbers(waitingForAcknowledge)
  <2>1. stored \cap Pending' \subseteq Pending
    BY <1>4
  <2>2. windowSize' \in Nat
    BY <1>3 DEF EarnedInv
  <2>3. windowSize' + Due' <= windowSize + Due
    BY <1>2, <1>3, <1>5, <2>2 DEF EarnedInv
  <2> QED BY <1>2, <1>3, <2>1, <2>2, <2>3, EarnedKept DEF EarnedInv
<1>6. CASE n \in Numbers(waitingForAcknowledge)
  <2>1. n \in Pending /\ n \notin Pending'
    BY <1>2, <1>3, <1>6 DEF Pending, EarnedInv
  <2>2. n \notin earned /\ earned \union {n} \subseteq stored' \ Pending'
    BY <1>1, <1>3, <1>4, <2>1
  <2>3. IsFiniteSet(earned) /\ IsFiniteSet(stored' \ Pending')
    BY <1>3, FS_Subset DEF EarnedInv
  <2>4. IsFiniteSet(earned \union {n}) /\ Cardinality(earned \union {n}) = Cardinality(earned) + 1
    <3> HIDE DEF earned, n
    <3> QED BY <2>2, <2>3, FS_AddElement
  <2>5. Cardinality(earned) + 1 <= Cardinality(stored' \ Pending')
    <3> HIDE DEF earned, n
    <3> QED BY <2>2, <2>3, <2>4, FS_Subset
  <2>6. Cardinality(earned) \in Nat /\ Cardinality(stored' \ Pending') \in Nat
    BY <2>3, FS_CardinalityType
  <2>7. windowSize \in Nat /\ windowSize <= 2 + Cardinality(earned)
    BY <1>2 DEF EarnedInv
  <2>8. windowSize' + 1 <= 2 + Cardinality(stored' \ Pending')
    <3>1. \A w, x, y \in Nat : w <= 2 + x /\ x + 1 <= y => w + 1 <= 2 + y
      OBVIOUS
    <3> HIDE DEF earned, Pending
    <3> QED BY <1>3, <2>5, <2>6, <2>7, <3>1
  <2>9. windowSize' + Due' <= 2 + Cardinality(stored' \ Pending')
    BY <1>2, <1>6, <2>8
  <2> QED BY <1>2, <1>3, <2>9 DEF EarnedInv
<1> QED BY <1>5, <1>6

(* The initial state. *)
LEMMA EarnedInit == Init => EarnedInv
<1> SUFFICES ASSUME Init PROVE EarnedInv
  OBVIOUS
<1>1. stored \ Pending = {} /\ stored = {} /\ windowSize = 2 /\ ~growing /\ pc = "idle"
  BY DEF Init
<1>2. Due = 0
  BY <1>1, DueType
<1>3. windowSize + Due = 2
  BY <1>1, <1>2
<1> QED BY <1>1, <1>3, FS_EmptySet DEF EarnedInv

(* One case per kind of step. *)
LEMMA EarnedStep ==
  TypeInv /\ AckInv /\ EarnedInv /\ [Next]_vars /\ [NumberIsNew]_vars => EarnedInv'
<1> SUFFICES ASSUME TypeInv, AckInv, EarnedInv, [Next]_vars, [NumberIsNew]_vars
             PROVE  EarnedInv'
  OBVIOUS
<1> USE DEF callVars, lockVars, arrayVars, bufferVars, receiver, sender
<1>W. windowSize \in Nat
  BY DEF EarnedInv
<1>1. ASSUME UNCHANGED <<stored, windowSize, growing, waitingForAcknowledge>>,
             pc' = "register" => pc = "register" /\ sequenceNumber' = sequenceNumber
      PROVE  EarnedInv'
  <2>1. Pending' \subseteq Pending
    BY <1>1 DEF Pending, Numbers
  <2>2. Numbers(waitingForAcknowledge') = Numbers(waitingForAcknowledge)
    BY <1>1
  <2>3. Due' = Due
    BY <1>1, DueType
  <2>4. windowSize' + Due' <= windowSize + Due
    <3> HIDE DEF Due
    <3> QED BY <1>1, <1>W, <2>3, DueIsNat
  <2>5. stored \cap Pending' \subseteq Pending /\ stored \subseteq stored' /\ IsFiniteSet(stored')
    BY <1>1, <2>1 DEF EarnedInv
  <2>6. pc' = "register" => sequenceNumber' \notin Numbers(waitingForAcknowledge')
    BY <1>1, <2>2 DEF EarnedInv
  <2> QED BY <1>1, <1>W, <2>4, <2>5, <2>6, EarnedKept
<1>2. ASSUME NEW length \in MessageLengths, send(length) PROVE EarnedInv'
  BY <1>1, <1>2 DEF send
<1>3. CASE close
  BY <1>1, <1>3 DEF close
<1>4. CASE retry \/ giveUp \/ sendENDPacket \/ sendDone
  BY <1>1, <1>4 DEF retry, giveUp, sendENDPacket, sendDone
<1>5. CASE raiseFailed
  <2>1. Pending' = {} /\ UNCHANGED <<stored, windowSize, growing>> /\ pc' # "register"
    BY <1>5 DEF raiseFailed, Pending, Numbers
  <2>2. Due' = Due
    BY <2>1, DueType
  <2>3. windowSize' + Due' <= windowSize + Due
    BY <1>W, <2>1, <2>2, DueIsNat
  <2> QED BY <1>W, <2>1, <2>3, EarnedKept DEF EarnedInv
<1>6. CASE sendDataPacket
  <2>1. /\ pc = "window" /\ pc' = "register"
        /\ UNCHANGED <<stored, growing, waitingForAcknowledge>>
    BY <1>6 DEF sendDataPacket
  <2>2. sequenceNumber' \notin stored \union Numbers(waitingForAcknowledge)
    BY <2>1 DEF NumberIsNew, vars
  <2>3. stored \cap Pending' \subseteq Pending /\ sequenceNumber' \notin Numbers(waitingForAcknowledge')
    BY <2>1, <2>2 DEF Pending
  <2>4. windowSize' \in Nat /\ windowSize' <= windowSize
    BY <1>6, <1>W DEF sendDataPacket
  <2>5. windowSize' + Due' <= windowSize + Due
    <3>1. Due' = Due
      BY <2>1, DueType
    <3>2. \A v, w, d \in Nat : v <= w => v + d <= w + d
      OBVIOUS
    <3> QED BY <1>W, <2>4, <3>1, <3>2, DueIsNat
  <2> QED BY <2>1, <2>3, <2>4, <2>5, EarnedKept DEF EarnedInv
<1>7. CASE registerDataPacket
  <2>1. DataPacket.seq = sequenceNumber
    BY DEF DataPacket
  <2>2. /\ Numbers(waitingForAcknowledge') \subseteq Numbers(waitingForAcknowledge) \union {sequenceNumber}
        /\ UNCHANGED <<stored, growing, windowSize>> /\ pc = "register" /\ pc' # "register"
    BY <1>7, <2>1 DEF registerDataPacket, Numbers
  <2>3. Pending' \subseteq Pending
    BY <2>2 DEF Pending
  <2>4. Due' = Due
    BY <2>2, DueType
  <2>5. windowSize' + Due' <= windowSize + Due
    BY <1>W, <2>2, <2>4, DueIsNat
  <2> QED BY <1>W, <2>2, <2>3, <2>5, EarnedKept DEF EarnedInv
<1>8. CASE handleACK
  BY <1>8, EarnedByACK
<1>9. CASE increaseWindowSize
  <2>1. growing /\ ~growing' /\ windowSize' \in Nat /\ windowSize' <= windowSize + 1
    BY <1>9, <1>W DEF increaseWindowSize
  <2>2. windowSize' + Due' <= windowSize + Due
    <3>1. Due = 1 /\ Due' = 0
      BY <2>1, DueType
    <3>2. windowSize' \in Nat /\ windowSize' <= windowSize + 1
      BY <2>1
    <3>3. \A v, w \in Nat : v <= w + 1 => v + 0 <= w + 1
      OBVIOUS
    <3> QED BY <1>W, <3>1, <3>2, <3>3
  <2>3. UNCHANGED <<stored, waitingForAcknowledge, pc, sequenceNumber>>
    BY <1>9 DEF increaseWindowSize
  <2>4. Pending' = Pending /\ Numbers(waitingForAcknowledge') = Numbers(waitingForAcknowledge)
    BY <2>3 DEF Pending
  <2> QED BY <2>1, <2>2, <2>3, <2>4, EarnedKept DEF EarnedInv
<1>10. CASE Retransmission
  BY <1>1, <1>10 DEF Retransmission, retransmitWaitingPackets, retransmitPacket
<1>11. CASE handleDATA
  <2>1. stored' = stored \/ stored' = stored \union {Head(packets).seq}
    BY <1>11 DEF handleDATA
  <2>2. stored \subseteq stored' /\ IsFiniteSet(stored')
    BY <2>1, FS_AddElement DEF EarnedInv
  <2>3. UNCHANGED <<windowSize, growing, waitingForAcknowledge, pc, sequenceNumber>>
    BY <1>11 DEF handleDATA
  <2>4. Pending' = Pending /\ Numbers(waitingForAcknowledge') = Numbers(waitingForAcknowledge)
    BY <2>3 DEF Pending
  <2>5. Due' = Due
    BY <2>3, DueType
  <2>6. windowSize' + Due' <= windowSize + Due
    BY <1>W, <2>3, <2>5, DueIsNat
  <2> QED BY <1>W, <2>2, <2>3, <2>4, <2>6, EarnedKept DEF EarnedInv
<1>12. CASE handleEND \/ signalDataReady \/ handleRST
  BY <1>1, <1>12 DEF handleEND, signalDataReady, handleRST
<1>13. CASE Receiving
  BY <1>1, <1>13 DEF Receiving, receive, receiveWakes, receiveTakes, receiveResets, receiveReturns
<1>14. CASE networkFault \/ UNCHANGED vars
  BY <1>1, <1>14 DEF networkFault, vars
<1> QED
  BY <1>2, <1>3, <1>4, <1>5, <1>6, <1>7, <1>8, <1>9, <1>10, <1>11, <1>12, <1>13, <1>14
     DEF Next, Sending, ReceiverListener

(* As long as sequence numbers do not repeat the window grows at most once *)
(* for each packet the receiver has stored: a repeated or late ACK finds   *)
(* no packet that waits (rudp_socket.py, the ACK branch of                 *)
(* handleControlPackets and increaseWindowSize).                           *)
THEOREM WindowIsEarned == Spec /\ NumbersAreNew => []WindowEarned
<1>1. EarnedInv => WindowEarned
  <2> SUFFICES ASSUME EarnedInv PROVE WindowEarned
    OBVIOUS
  <2>1. IsFiniteSet(stored) /\ Cardinality(stored \ Pending) <= Cardinality(stored)
    BY FS_Subset DEF EarnedInv
  <2>2. Cardinality(stored \ Pending) \in Nat /\ Cardinality(stored) \in Nat
    BY FS_Subset, FS_CardinalityType DEF EarnedInv
  <2>3. \A w, x, y \in Nat : w <= 2 + x /\ x <= y => w <= 2 + y
    OBVIOUS
  <2>4. windowSize \in Nat /\ windowSize <= 2 + Cardinality(stored \ Pending)
    <3>1. \A w, d, c \in Nat : w + d <= 2 + c => w <= 2 + c
      OBVIOUS
    <3> HIDE DEF Pending
    <3> QED BY <2>2, <3>1, DueIsNat DEF EarnedInv
  <2> HIDE DEF Pending
  <2>5. windowSize <= 2 + Cardinality(stored)
    BY <2>1, <2>2, <2>3, <2>4
  <2> QED BY <2>5 DEF WindowEarned
<1> QED
  BY <1>1, EarnedInit, EarnedStep, TypeInvariant, AckInit, AckStep, PTL DEF Spec, NumbersAreNew

(* Packets that have one of the numbers given out so far, if those grow. *)
Known == {p \in DataPackets \union ControlPackets : p.seq <= sequenceNumber}

(* Before the numbers wrap no packet is ahead of sequenceNumber.           *)
KnownInv ==
  /\ packets \in Seq(Known)
  /\ waitingForAcknowledge \subseteq Known /\ retransmitting \subseteq Known
  /\ \A n \in stored : n <= sequenceNumber

(* A higher number makes more packets known. *)
LEMMA KnownGrows ==
  ASSUME TypeInv, TypeInv', sequenceNumber <= sequenceNumber'
  PROVE  Known \subseteq Known' /\ \A w : w \in Seq(Known) => w \in Seq(Known')
<1>1. sequenceNumber \in Nat /\ sequenceNumber' \in Nat
  BY SizesAssumption DEF TypeInv, TypeOK, SeqNumbers
<1>2. \A p \in DataPackets \union ControlPackets : p.seq \in Nat
  BY SizesAssumption DEF DataPackets, ControlPackets, SeqNumbers
<1>3. \A a, b, c \in Nat : a <= b /\ b <= c => a <= c
  OBVIOUS
<1>4. Known \subseteq Known'
  BY <1>1, <1>2, <1>3 DEF Known
<1> QED BY <1>4

(* Steps that add no packet but known ones. *)
LEMMA KnownKept ==
  ASSUME TypeInv, TypeInv', KnownInv, sequenceNumber <= sequenceNumber',
         packets' \in Seq(Known'),
         waitingForAcknowledge' \subseteq Known', retransmitting' \subseteq Known',
         \A n \in stored' : n \in stored \/ n <= sequenceNumber
  PROVE  KnownInv'
<1>1. sequenceNumber \in Nat /\ sequenceNumber' \in Nat /\ stored' \subseteq Nat
  BY SizesAssumption DEF TypeInv, TypeOK, SeqNumbers
<1>2. \A n \in stored' : n <= sequenceNumber
  BY DEF KnownInv
<1>3. \A a, b, c \in Nat : a <= b /\ b <= c => a <= c
  OBVIOUS
<1> QED BY <1>1, <1>2, <1>3 DEF KnownInv

(* A number that does not wrap is the next one. *)
LEMMA NextNumberGrows ==
  ASSUME TypeInv, sequenceNumber <= getNextSequenceNumber
  PROVE  getNextSequenceNumber = sequenceNumber + 1 /\ sequenceNumber \in Nat
<1>1. sequenceNumber \in Nat /\ MaxSequenceNumber \in Nat \ {0}
  BY SizesAssumption DEF TypeInv, TypeOK, SeqNumbers
<1> QED BY <1>1 DEF getNextSequenceNumber

(* The initial state. *)
LEMMA KnownInit == Init => KnownInv
BY DEF Init, KnownInv

(* One case per kind of step. *)
LEMMA KnownStep ==
  TypeInv /\ TypeInv' /\ KnownInv /\ [Next]_vars /\ [sequenceNumber <= sequenceNumber']_vars
    => KnownInv'
<1> SUFFICES ASSUME TypeInv, TypeInv', KnownInv, [Next]_vars,
                    [sequenceNumber <= sequenceNumber']_vars
             PROVE  KnownInv'
  OBVIOUS
<1> USE DEF callVars, lockVars, arrayVars, bufferVars, receiver, sender, network
<1>G. sequenceNumber <= sequenceNumber'
  BY SizesAssumption DEF TypeInv, TypeOK, SeqNumbers, vars
<1>K. Known \subseteq Known' /\ \A w : w \in Seq(Known) => w \in Seq(Known')
  BY <1>G, KnownGrows
<1>A. ASSUME NEW p \in Known', packets' = Append(packets, p) PROVE packets' \in Seq(Known')
  BY <1>A, <1>K DEF KnownInv
<1>1. ASSUME UNCHANGED <<waitingForAcknowledge, retransmitting, stored>>, packets' \in Seq(Known')
      PROVE  KnownInv'
  BY <1>1, <1>G, <1>K, KnownKept DEF KnownInv
<1>2. ASSUME UNCHANGED packets PROVE packets' \in Seq(Known')
  BY <1>2, <1>K DEF KnownInv
<1>3. ASSUME NEW length \in MessageLengths, send(length) PROVE KnownInv'
  BY <1>1, <1>2, <1>3 DEF send
<1>4. CASE close
  <2> DEFINE p == [type |-> "RST", seq |-> getNextSequenceNumber]
  <2>1. p \in Known'
    BY <1>4, NextNumberType DEF close, Known, ControlPackets, TypeInv, TypeOK, SeqNumbers
  <2> QED BY <1>1, <1>4, <1>A, <2>1 DEF close
<1>5. CASE retry \/ giveUp \/ sendDone
  BY <1>1, <1>2, <1>5 DEF retry, giveUp, sendDone
<1>6. CASE raiseFailed
  BY <1>2, <1>6, <1>G, <1>K, KnownKept DEF raiseFailed, KnownInv
<1>7. CASE sendDataPacket
  <2> DEFINE p == [DataPacket EXCEPT !.seq = getNextSequenceNumber]
  <2>1. p \in DataPackets /\ p.seq = sequenceNumber' /\ packets' = Append(packets, p)
    <3>1. p \in DataPackets
      BY <1>7, DataPacketType, NextNumberType DEF sendDataPacket, TypeInv, TypeOK
    <3>2. p.seq = getNextSequenceNumber
      BY DEF DataPacket
    <3> QED BY <1>7, <3>1, <3>2 DEF sendDataPacket
  <2> HIDE DEF p
  <2>2. sequenceNumber' \in Nat
    BY SizesAssumption DEF TypeInv, TypeOK, SeqNumbers
  <2>3. p \in Known'
    BY <2>1, <2>2 DEF Known
  <2>4. packets' \in Seq(Known')
    BY <1>A, <2>1, <2>3
  <2> QED BY <1>1, <1>7, <2>4 DEF sendDataPacket
<1>8. CASE registerDataPacket
  <2>1. DataPacket \in DataPackets /\ DataPacket.seq = sequenceNumber
    BY <1>8, DataPacketType DEF registerDataPacket
  <2> HIDE DEF DataPacket
  <2>2. sequenceNumber \in Nat
    BY SizesAssumption DEF TypeInv, TypeOK, SeqNumbers
  <2>3. DataPacket \in Known
    BY <2>1, <2>2 DEF Known
  <2>4. waitingForAcknowledge' \subseteq Known'
    BY <1>8, <1>K, <2>3 DEF registerDataPacket, KnownInv
  <2> QED BY <1>2, <1>8, <1>G, <1>K, <2>4, KnownKept DEF registerDataPacket, KnownInv
<1>9. CASE sendENDPacket
  <2> DEFINE p == [type |-> "END", seq |-> getNextSequenceNumber]
  <2>1. p \in Known'
    BY <1>9, NextNumberType DEF sendENDPacket, Known, ControlPackets, TypeInv, TypeOK, SeqNumbers
  <2> QED BY <1>1, <1>9, <1>A, <2>1 DEF sendENDPacket
<1>10. CASE handleACK
  BY <1>2, <1>10, <1>G, <1>K, KnownKept DEF handleACK, KnownInv
<1>11. CASE increaseWindowSize
  BY <1>1, <1>2, <1>11 DEF increaseWindowSize
<1>12. CASE retransmitWaitingPackets
  BY <1>2, <1>12, <1>G, <1>K, KnownKept DEF retransmitWaitingPackets, KnownInv
<1>13. CASE retransmitPacket
  <2>1. PICK p \in retransmitting :
           packets' = Append(packets, p) /\ retransmitting' = retransmitting \ {p}
    BY <1>13 DEF retransmitPacket
  <2>2. p \in Known'
    BY <1>K, <2>1 DEF KnownInv
  <2>3. packets' \in Seq(Known')
    BY <1>A, <2>1, <2>2
  <2> QED BY <1>13, <1>G, <1>K, <2>1, <2>3, KnownKept DEF retransmitPacket, KnownInv
<1>14. ASSUME NEW type, Arriving(type) PROVE packets' \in Seq(Known') /\ Head(packets) \in Known
  BY <1>14, <1>K DEF Arriving, KnownInv
<1>15. CASE handleDATA
  <2>1. Arriving("DATA") /\ \A n \in stored' : n \in stored \/ n = Head(packets).seq
    BY <1>15 DEF handleDATA
  <2>2. packets' \in Seq(Known') /\ Head(packets) \in Known
    BY <1>14, <2>1
  <2>3. \A n \in stored' : n \in stored \/ n <= sequenceNumber
    BY <2>1, <2>2 DEF Known
  <2> QED BY <1>15, <1>G, <1>K, <2>2, <2>3, KnownKept DEF handleDATA, KnownInv
<1>16. CASE handleEND
  BY <1>1, <1>14, <1>16 DEF handleEND
<1>17. CASE signalDataReady
  BY <1>1, <1>2, <1>17 DEF signalDataReady
<1>18. CASE handleRST
  BY <1>1, <1>14, <1>18 DEF handleRST
<1>19. CASE Receiving
  BY <1>1, <1>2, <1>19 DEF Receiving, receive, receiveWakes, receiveTakes, receiveResets, receiveReturns
<1>20. CASE networkFault
  <2>1. packets' \in Seq(Known)
    BY <1>20, FaultyWire DEF networkFault, KnownInv
  <2> QED BY <1>1, <1>20, <1>K, <2>1 DEF networkFault
<1>21. CASE UNCHANGED vars
  BY <1>1, <1>2, <1>21 DEF vars
<1> QED
  BY <1>3, <1>4, <1>5, <1>6, <1>7, <1>8, <1>9, <1>10, <1>11, <1>12, <1>13, <1>15, <1>16,
     <1>17, <1>18, <1>19, <1>20, <1>21
     DEF Next, Sending, Retransmission, ReceiverListener

(* Until the sequence numbers wrap each DATA packet has a new one, which   *)
(* is what WindowIsEarned asks for (rudp_socket.py, getNextSequenceNumber).*)
THEOREM NumbersAreNewBeforeTheyWrap ==
  Spec /\ [][sequenceNumber <= sequenceNumber']_vars => NumbersAreNew
<1>1. ASSUME TypeInv, KnownInv, [Next]_vars, [sequenceNumber <= sequenceNumber']_vars
      PROVE  [NumberIsNew]_vars
  <2> SUFFICES ASSUME pc = "window", pc' = "register"
               PROVE  sequenceNumber' \notin stored \union Numbers(waitingForAcknowledge)
    BY DEF NumberIsNew
  <2>1. sendDataPacket
    BY <1>1 DEF Next, send, close, Sending, retry, giveUp, raiseFailed, registerDataPacket,
       sendENDPacket, sendDone, handleACK, increaseWindowSize, Retransmission, retransmitWaitingPackets,
       retransmitPacket, ReceiverListener, handleDATA, handleEND, signalDataReady, handleRST,
       Receiving, receive, receiveWakes, receiveTakes, receiveResets, receiveReturns, networkFault,
       sender, vars
  <2>2. sequenceNumber <= getNextSequenceNumber /\ sequenceNumber' = getNextSequenceNumber
    BY <1>1, <2>1 DEF sendDataPacket, vars, sender
  <2>3. sequenceNumber \in Nat /\ sequenceNumber' = sequenceNumber + 1
    BY <1>1, <2>2, NextNumberGrows
  <2>4. \A n \in stored \union Numbers(waitingForAcknowledge) : n <= sequenceNumber
    BY <1>1 DEF KnownInv, Known, Numbers
  <2> QED BY <2>3, <2>4
<1>2. TypeInv /\ KnownInv /\ [Next]_vars /\ [sequenceNumber <= sequenceNumber']_vars => [NumberIsNew]_vars
  BY <1>1
<1> QED
  BY <1>2, TypeInvariant, KnownInit, KnownStep, PTL DEF Spec, NumbersAreNew
-----------------------------------------------------------------------------
(* waitingForAcknowledgeLock keeps the dictionary as it is while the       *)
(* retransmission thread walks through it.                                 *)
THEOREM RoundsAreStable == Spec => RoundIsStable
<1>1. [Next]_vars => [retransmitting # {} => waitingForAcknowledge' = waitingForAcknowledge]_vars
  <2> SUFFICES ASSUME [Next]_vars, retransmitting # {}
               PROVE  waitingForAcknowledge' = waitingForAcknowledge
    OBVIOUS
  <2> USE DEF lockVars, sender
  <2>1. ASSUME NEW length \in MessageLengths, send(length)
        PROVE  waitingForAcknowledge' = waitingForAcknowledge
    BY <2>1 DEF send
  <2>2. CASE raiseFailed \/ registerDataPacket \/ handleACK
    BY <2>2 DEF raiseFailed, registerDataPacket, handleACK, LockFree
  <2>3. CASE close \/ retry \/ giveUp \/ sendDataPacket \/ sendENDPacket \/ sendDone
    BY <2>3 DEF close, retry, giveUp, sendDataPacket, sendENDPacket, sendDone
  <2>4. CASE increaseWindowSize \/ Retransmission
    BY <2>4 DEF increaseWindowSize, Retransmission, retransmitWaitingPackets,
                retransmitPacket
  <2>5. CASE ReceiverListener \/ Receiving \/ networkFault
    BY <2>5 DEF ReceiverListener, handleDATA, handleEND, signalDataReady, handleRST,
                Receiving, receive, receiveWakes, receiveTakes, receiveResets,
                receiveReturns, networkFault
  <2>6. CASE UNCHANGED vars
    BY <2>6 DEF vars
  <2> QED BY <2>1, <2>2, <2>3, <2>4, <2>5, <2>6 DEF Next, Sending
<1> QED BY <1>1, PTL DEF Spec, RoundIsStable

-----------------------------------------------------------------------------
(* send() comes to its end: what can be said without fairness.             *)

(* Before a chunk is sent, and until it is registered, there are bytes     *)
(* left; this is why the loop of send() goes by them.                      *)
BytesInv == pc \in {"window", "register"} => totalBytesSent < sent[Len(sent)]

AdvanceInv == TypeInv /\ BytesInv

progressVars == <<pc, sent, totalBytesSent, numberOfRetries>>

(* The length of the message in progress is a number.                      *)
LEMMA LengthType ==
  ASSUME TypeInv, Len(sent) # 0
  PROVE  sent[Len(sent)] \in Nat
<1>1. sent \in Seq(MessageLengths)
  BY DEF TypeInv, TypeOK
<1>2. Len(sent) \in Nat
  BY <1>1
<1>3. Len(sent) \in 1..Len(sent)
  BY <1>2
<1>4. sent[Len(sent)] \in MessageLengths
  BY <1>1, <1>3
<1> QED BY <1>4, BoundsAssumption

(* In the initial state nothing is sent.                                   *)
LEMMA AdvanceInit == Init => AdvanceInv
BY TypeInit DEF Init, AdvanceInv, BytesInv

(* The other threads leave the progress of send() alone.                   *)
LEMMA OthersStand ==
  ASSUME [Next]_vars, ~Sending, pc # "idle"
  PROVE  UNCHANGED progressVars
<1> USE DEF progressVars, sender, callVars, vars
<1>1. CASE UNCHANGED vars
  BY <1>1
<1>2. CASE handleACK \/ increaseWindowSize \/ Retransmission
  BY <1>2 DEF handleACK, increaseWindowSize, Retransmission, retransmitWaitingPackets,
     retransmitPacket
<1>3. CASE ReceiverListener
  BY <1>3 DEF ReceiverListener, handleDATA, handleEND, signalDataReady, handleRST
<1>4. CASE Receiving \/ networkFault
  BY <1>4 DEF Receiving, receive, receiveWakes, receiveTakes, receiveResets,
     receiveReturns, networkFault
<1>5. ~ \E length \in MessageLengths : send(length)
  BY DEF send
<1>6. ~close
  BY DEF close
<1> QED BY <1>1, <1>2, <1>3, <1>4, <1>5, <1>6 DEF Next

(* Each step of send() brings it nearer to its end, and the loop is left   *)
(* when the bytes are used up.                                             *)
LEMMA SendingAdvances ==
  ASSUME AdvanceInv, Sending
  PROVE  NearerTheEnd /\ BytesInv'
<1> DEFINE length == sent[Len(sent)]
<1>1. /\ numberOfRetries \in Nat /\ totalBytesSent \in Nat /\ pc \in Steps
      /\ MAX_SEND_RETRIES \in Nat /\ MTU \in Nat /\ MTU > 0
  BY SizesAssumption DEF AdvanceInv, TypeInv, TypeOK
<1>2. sent' = sent /\ pc # "idle"
  BY DEF Sending, retry, giveUp, raiseFailed, sendDataPacket, registerDataPacket,
     sendENDPacket, sendDone, callVars
<1>3. length \in Nat
  BY <1>2, LengthType DEF AdvanceInv, TypeInv
<1>4. pc \in {"window", "register"} => totalBytesSent < length
  BY DEF AdvanceInv, BytesInv
<1> HIDE DEF length
<1>5. /\ BytesLeft = IF pc \in {"window", "register"} THEN length - totalBytesSent ELSE 0
      /\ BytesLeft' = IF pc' \in {"window", "register"} THEN length - totalBytesSent' ELSE 0
      /\ BytesInv' <=> (pc' \in {"window", "register"} => totalBytesSent' < length)
  BY <1>2 DEF BytesLeft, BytesInv, length
<1> USE DEF NearerTheEnd, StepsLeft, RetriesLeft
<1>6. CASE retry
  BY <1>1, <1>3, <1>4, <1>5, <1>6 DEF retry
<1>7. CASE giveUp
  BY <1>1, <1>3, <1>4, <1>5, <1>7 DEF giveUp
<1>8. CASE raiseFailed \/ sendDone
  BY <1>1, <1>5, <1>8 DEF raiseFailed, sendDone
<1>9. CASE sendDataPacket
  BY <1>1, <1>3, <1>4, <1>5, <1>9 DEF sendDataPacket
<1>10. CASE registerDataPacket
  BY <1>1, <1>3, <1>4, <1>5, <1>10 DEF registerDataPacket, length
<1>11. CASE sendENDPacket
  BY <1>1, <1>5, <1>11 DEF sendENDPacket
<1> QED BY <1>6, <1>7, <1>8, <1>9, <1>10, <1>11 DEF Sending

(* The invariant is inductive.                                             *)
LEMMA AdvanceStep == AdvanceInv /\ [Next]_vars => AdvanceInv'
<1> SUFFICES ASSUME AdvanceInv, [Next]_vars PROVE AdvanceInv'
  OBVIOUS
<1>1. TypeInv'
  BY TypeStep DEF AdvanceInv
<1>2. BytesInv'
  <2>1. CASE Sending
    BY <2>1, SendingAdvances
  <2>2. CASE ~Sending /\ pc # "idle"
    BY <2>2, OthersStand DEF AdvanceInv, BytesInv, progressVars
  <2>3. ASSUME NEW length \in MessageLengths, send(length)
        PROVE  BytesInv'
    <3>1. sent \in Seq(MessageLengths) /\ length \in Nat
      BY BoundsAssumption DEF AdvanceInv, TypeInv, TypeOK
    <3>2. sent'[Len(sent')] = length
      BY <2>3, <3>1 DEF send
    <3> QED BY <2>3, <3>1, <3>2 DEF send, BytesInv
  <2>4. CASE pc = "idle" /\ ~ \E length \in MessageLengths : send(length)
    <3>1. pc' = "idle"
      BY <2>4 DEF Next, vars, sender, close, Sending, retry, giveUp, raiseFailed,
         sendDataPacket, registerDataPacket, sendENDPacket, sendDone, handleACK,
         increaseWindowSize, Retransmission, retransmitWaitingPackets, retransmitPacket,
         ReceiverListener, handleDATA, handleEND, signalDataReady, handleRST, Receiving,
         receive, receiveWakes, receiveTakes, receiveResets, receiveReturns, networkFault
    <3> QED BY <3>1 DEF BytesInv
  <2> QED BY <2>1, <2>2, <2>3, <2>4
<1> QED BY <1>1, <1>2 DEF AdvanceInv

(* The invariant holds always.                                             *)
LEMMA AdvanceInvariant == Spec => []AdvanceInv
BY AdvanceInit, AdvanceStep, PTL DEF Spec

(* Whatever its length and the number of retries, each step of send() goes *)
(* down a well-founded order and no step of another thread goes up: send() *)
(* takes only so many steps.                                               *)
THEOREM SendAlwaysAdvances == Spec => SendAdvances
<1> DEFINE Moves == pc # "idle" => NearerTheEnd \/ UNCHANGED progressVars
<1>1. AdvanceInv /\ [Next]_vars => [Moves]_vars
  <2>1. ASSUME AdvanceInv, [Next]_vars, pc # "idle"
        PROVE  NearerTheEnd \/ UNCHANGED progressVars
    BY <2>1, SendingAdvances, OthersStand
  <2> QED BY <2>1
<1>2. [][Moves]_vars => SendAdvances
  BY DEF SendAdvances, progressVars
<1> QED BY <1>1, <1>2, AdvanceInvariant, PTL DEF Spec

(* send() can take its next step: its loops, END and the return wait for   *)
(* nobody; to register a packet and to raise it needs the lock.            *)
SendCanGo == pc \in {"window", "end", "drain"} \/ LockFree

(* The thread that holds the lock can take its next step: the listener can *)
(* open the window, the retransmission thread has a packet that is next.   *)
HolderCanGo ==
  growing \/ \E p \in retransmitting : \A q \in retransmitting : p.seq <= q.seq

(* send() is never stuck: either it can go on, or the one it waits for can. *)
THEOREM SendIsNeverStuck == Spec => [](SendCanGo \/ HolderCanGo)
<1>1. TypeInv => SendCanGo \/ HolderCanGo
  <2> SUFFICES ASSUME TypeInv, retransmitting # {} PROVE HolderCanGo
    BY DEF SendCanGo, HolderCanGo, LockFree
  <2> DEFINE T == {p.seq : p \in retransmitting}
  <2>1. \A p \in retransmitting : p.seq \in Nat
    BY DEF TypeInv, TypeOK, DataPackets, SeqNumbers
  <2>2. T \in SUBSET Nat /\ T # {}
    BY <2>1
  <2>3. PICK x \in T : \A y \in T : x <= y
    BY <2>2, LeastNumber
  <2>4. PICK p \in retransmitting : p.seq = x
    BY <2>3
  <2>5. \A q \in retransmitting : q.seq \in T
    OBVIOUS
  <2> QED BY <2>3, <2>4, <2>5 DEF HolderCanGo
<1> QED BY <1>1, TypeInvariant, PTL
=============================================================================
