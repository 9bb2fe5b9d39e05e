---------------------------- MODULE RudpTransfer ----------------------------
(***************************************************************************)
(* One direction of a connected pair of RUDPSockets (Code/rudp_socket.py), *)
(* each the only one of its process, from the end of the handshake on: the *)
(* events and waitingForAcknowledge are class attributes, and with several *)
(* sockets in a process (RudpHandshake) they are shared.                   *)
(*                                                                         *)
(* Five threads take part: on the sending side the application in send()   *)
(* and close(), the listener (handleControlPackets, here its ACK branch)   *)
(* and the retransmission thread; on the receiving side the listener (its  *)
(* DATA, END and RST branches) and the application in receive().  Between  *)
(* the two, UDP: packets are delivered in order unless a fault loses,      *)
(* duplicates or delays one.                                               *)
(*                                                                         *)
(* Nothing measures time here.  A loop that sleeps and counts retries may  *)
(* run out at any moment, and so may a wait with a timeout; the bounds     *)
(* below say how often.                                                    *)
(***************************************************************************)
EXTENDS Naturals, FiniteSets, SequencesExt

CONSTANTS
  MTU,               (* most bytes of a packet that recvfrom returns       *)
  HEADER_LENGTH,     (* bytes of a packet that are not payload             *)
  Slots,             (* length of receivedDataArray, round(5000/1012) = 5  *)
  MAX_WINDOW_SIZE,
  MAX_SEND_RETRIES,
  MaxSequenceNumber, (* 65535                                              *)
  StartNumbers,      (* last sequence number used before the model starts  *)
  (* bounds *)
  MessageLengths,    (* lengths of the byte strings given to send()        *)
  MaxMessages,       (* calls of send()                                    *)
  MaxFaults,         (* packets the network loses, duplicates or delays    *)
  MaxRounds,         (* rounds of the retransmission thread                *)
  MaxTimeouts        (* receive() calls that give up waiting               *)

ASSUME SizesAssumption ==
  /\ HEADER_LENGTH \in Nat /\ MTU \in Nat /\ HEADER_LENGTH < MTU
  /\ Slots \in Nat \ {0}
  /\ MAX_WINDOW_SIZE \in Nat \ {0, 1}
  /\ MAX_SEND_RETRIES \in Nat
  /\ MaxSequenceNumber \in Nat \ {0}
  /\ StartNumbers \subseteq 0..MaxSequenceNumber
ASSUME BoundsAssumption ==
  /\ MessageLengths \subseteq Nat
  /\ MaxMessages \in Nat /\ MaxFaults \in Nat
  /\ MaxRounds \in Nat /\ MaxTimeouts \in Nat

VARIABLES
  (* the sending socket *)
  pc,                    (* step of send(): see Steps                      *)
  sent,                  (* lengths of the messages given to send() so far *)
  totalBytesSent,
  numberOfRetries,
  sequenceNumber,
  windowSize,
  waitingForAcknowledge, (* DATA packets sent and not acknowledged         *)
  growing,               (* the listener is between pop and increase       *)
  retransmitting,        (* packets left in the round of the retransmitter *)
  senderClosed,
  (* the receiving socket *)
  receivedDataArray,     (* slot -> data of the packet that was put there  *)
  firstPacketSequenceNumber,
  receivedDataBuffer,
  isDataReady,
  isDataReadyEvent,
  signalling,            (* the listener is between END's data and event   *)
  reading,               (* step of receive(): see ReadSteps               *)
  receiverClosed,
  (* the network *)
  packets,               (* DATA, END and RST packets on their way         *)
  acks,                  (* sequence numbers of ACK packets on their way   *)
  (* bounds and history, for the properties only *)
  faults, rounds, timeouts,
  failed,                (* messages whose send() raised                   *)
  messageSeqs,           (* sequence numbers of the DATA of this message   *)
  stored,                (* sequence numbers the receiver has stored       *)
  delivered              (* what the calls of receive() returned           *)

callVars == <<sent, totalBytesSent, numberOfRetries, failed, messageSeqs>>
lockVars == <<waitingForAcknowledge, growing, retransmitting>>
sender == <<pc, callVars, lockVars, windowSize, sequenceNumber, senderClosed>>
arrayVars == <<receivedDataArray, firstPacketSequenceNumber, stored>>
bufferVars == <<receivedDataBuffer, isDataReady, isDataReadyEvent, signalling,
                reading, receiverClosed, delivered>>
receiver == <<arrayVars, bufferVars>>
network == <<packets, acks>>
boundVars == <<faults, rounds, timeouts>>
vars == <<sender, receiver, network, boundVars>>

(* send(): "window" tests the window before a packet, "register" is the    *)
(* point between sendto and the entry in waitingForAcknowledge, "end"      *)
(* sends END, "drain" waits for the last ACKs, "raise" is about to take    *)
(* the lock and raise.                                                     *)
Steps == {"idle", "window", "register", "end", "drain", "raise"}

(* receive(): "wait" is in isDataReadyEvent.wait, "take" is about to copy  *)
(* the buffer, "reset" has copied it and has yet to clear the buffer, and  *)
(* "unready" has yet to clear the flag too.                                *)
ReadSteps == {"idle", "wait", "take", "reset", "unready"}

(* Byte i of message m is <<m, i>>. *)
Message(m, length) == [i \in 1..length |-> <<m, i>>]

Bytes == Seq((1..MaxMessages) \X (Nat \ {0}))
SeqNumbers == 0..MaxSequenceNumber
DataPackets == [type : {"DATA"}, seq : SeqNumbers, data : Bytes]
ControlPackets == [type : {"END", "RST"}, seq : SeqNumbers]

FlagsOK ==
  {growing, senderClosed, isDataReady, isDataReadyEvent, signalling, receiverClosed}
    \subseteq BOOLEAN

TypeOK ==
  /\ FlagsOK
  /\ pc \in Steps
  /\ sent \in Seq(MessageLengths)
  /\ totalBytesSent \in Nat
  /\ numberOfRetries \in 0..MAX_SEND_RETRIES
  /\ sequenceNumber \in SeqNumbers
  /\ windowSize \in 1..MAX_WINDOW_SIZE
  /\ waitingForAcknowledge \subseteq DataPackets
  /\ retransmitting \subseteq DataPackets
  /\ receivedDataArray \in [0..(Slots - 1) -> Bytes]
  /\ firstPacketSequenceNumber \in 0..(MaxSequenceNumber + 1)
  /\ receivedDataBuffer \in Bytes
  /\ reading \in ReadSteps
  /\ packets \in Seq(DataPackets \union ControlPackets)
  /\ acks \in Seq(SeqNumbers)
  /\ faults \in 0..MaxFaults /\ rounds \in 0..MaxRounds /\ timeouts \in 0..MaxTimeouts
  /\ failed \subseteq Nat
  /\ messageSeqs \subseteq SeqNumbers /\ stored \subseteq SeqNumbers
  /\ delivered \in Seq(Bytes)

EmptyArray == [j \in 0..(Slots - 1) |-> << >>]

(* After the handshake each side's SYN had sequence number 1 and its ACK   *)
(* has grown the window from 1 to 2.  A higher start number is a           *)
(* connection whose earlier messages are all received, with a window that  *)
(* has shrunk to 2 again.                                                  *)
Init ==
  /\ pc = "idle" /\ sent = << >> /\ totalBytesSent = 0 /\ numberOfRetries = 0
  /\ sequenceNumber \in StartNumbers /\ windowSize = 2
  /\ waitingForAcknowledge = {} /\ retransmitting = {}
  /\ growing = FALSE /\ senderClosed = FALSE
  /\ receivedDataArray = EmptyArray
  /\ firstPacketSequenceNumber = sequenceNumber + 1
  /\ receivedDataBuffer = << >> /\ isDataReady = FALSE /\ isDataReadyEvent = FALSE
  /\ signalling = FALSE /\ reading = "idle" /\ receiverClosed = FALSE
  /\ packets = << >> /\ acks = << >>
  /\ faults = 0 /\ rounds = 0 /\ timeouts = 0
  /\ failed = {} /\ messageSeqs = {} /\ stored = {} /\ delivered = << >>
-----------------------------------------------------------------------------
(* The sending application.                                                *)

getNextSequenceNumber ==
  IF sequenceNumber < MaxSequenceNumber THEN sequenceNumber + 1 ELSE 0

\* Mutant: the retransmission thread walks through the dictionary without the lock.
LockFreeUnlessGrowing == ~growing

(* waitingForAcknowledgeLock is not held by another thread. *)
LockFree == ~growing /\ retransmitting = {}

\* Mutant: a packet that had to wait is sent although the window is still full.
WindowFullOnce == numberOfRetries = 0 /\ Cardinality(waitingForAcknowledge) >= windowSize

WindowFull == Cardinality(waitingForAcknowledge) >= windowSize

(* Entry of send(); a message without bytes goes straight to END. *)
send(length) ==
  /\ pc = "idle" /\ ~senderClosed
  /\ Len(sent) < MaxMessages
  /\ sent' = Append(sent, length)
  /\ totalBytesSent' = 0 /\ numberOfRetries' = 0
  /\ messageSeqs' = {}
  /\ pc' = IF length > 0 THEN "window" ELSE "end"
  /\ UNCHANGED <<receiver, network, lockVars, boundVars, failed, windowSize,
                 sequenceNumber, senderClosed>>

\* Mutant: the retries are never counted.
retryUncounted ==
  /\ \/ pc = "window" /\ WindowFull
     \/ pc = "drain" /\ waitingForAcknowledge # {}
  /\ numberOfRetries < MAX_SEND_RETRIES
  /\ UNCHANGED vars

(* One turn of either waiting loop that finds it must go on waiting. *)
retry ==
  /\ \/ pc = "window" /\ WindowFull
     \/ pc = "drain" /\ waitingForAcknowledge # {}
  /\ numberOfRetries < MAX_SEND_RETRIES
  /\ numberOfRetries' = numberOfRetries + 1
  /\ UNCHANGED <<receiver, network, lockVars, boundVars, pc, sent,
                 totalBytesSent, failed, messageSeqs, windowSize,
                 sequenceNumber, senderClosed>>

(* The retries are used up. *)
giveUp ==
  /\ \/ pc = "window" /\ WindowFull
     \/ pc = "drain" /\ waitingForAcknowledge # {}
  /\ numberOfRetries >= MAX_SEND_RETRIES
  /\ pc' = "raise"
  /\ UNCHANGED <<receiver, network, callVars, lockVars, boundVars, windowSize,
                 sequenceNumber, senderClosed>>

(* With the lock, send() forgets what is still not acknowledged and raises. *)
raiseFailed ==
  /\ pc = "raise"
  /\ LockFree
  /\ waitingForAcknowledge' = {}
  /\ failed' = failed \union {Len(sent)}
  /\ pc' = "idle"
  /\ UNCHANGED <<receiver, network, boundVars, sent, totalBytesSent,
                 numberOfRetries, messageSeqs, growing, retransmitting,
                 windowSize, sequenceNumber, senderClosed>>

(* The slice of the source: Python's dataToSend[totalBytesSent:MTU]. *)
nextDataChunkToSend ==
  LET data == Message(Len(sent), sent[Len(sent)])
  IN  SubSeq(data, totalBytesSent + 1, IF MTU < Len(data) THEN MTU ELSE Len(data))

DataPacket == [type |-> "DATA", seq |-> sequenceNumber, data |-> nextDataChunkToSend]

(* There is room in the window.  If there was not at first, the window     *)
(* shrinks by one before the packet is sent.                               *)
sendDataPacket ==
  /\ pc = "window"
  /\ ~WindowFull
  /\ windowSize' = IF numberOfRetries > 0 /\ windowSize > 1
                     THEN windowSize - 1 ELSE windowSize
  /\ sequenceNumber' = getNextSequenceNumber
  /\ packets' = Append(packets, [DataPacket EXCEPT !.seq = getNextSequenceNumber])
  /\ messageSeqs' = messageSeqs \union {getNextSequenceNumber}
  /\ pc' = "register"
  /\ UNCHANGED <<receiver, lockVars, boundVars, sent, totalBytesSent,
                 numberOfRetries, failed, senderClosed, acks>>

\* Mutant: a chunk that had to wait for the window is sent once more.
registerDataPacketAgain ==
  /\ pc = "register"
  /\ LockFree
  /\ waitingForAcknowledge' =
       {p \in waitingForAcknowledge : p.seq # sequenceNumber} \union {DataPacket}
  /\ totalBytesSent' = IF numberOfRetries > 0 THEN totalBytesSent ELSE totalBytesSent + MTU
  /\ numberOfRetries' = 0
  /\ pc' = IF totalBytesSent' < sent[Len(sent)] THEN "window" ELSE "end"
  /\ UNCHANGED <<receiver, network, boundVars, sent, failed, messageSeqs,
                 growing, retransmitting, windowSize, sequenceNumber,
                 senderClosed>>

(* Only now does the packet become one that waits for an ACK.  Then the    *)
(* loop goes on to the next chunk, or to END.                              *)
registerDataPacket ==
  /\ pc = "register"
  /\ LockFree
  /\ waitingForAcknowledge' =
       {p \in waitingForAcknowledge : p.seq # sequenceNumber} \union {DataPacket}
  /\ totalBytesSent' = totalBytesSent + MTU
  /\ numberOfRetries' = 0
  /\ pc' = IF totalBytesSent' < sent[Len(sent)] THEN "window" ELSE "end"
  /\ UNCHANGED <<receiver, network, boundVars, sent, failed, messageSeqs,
                 growing, retransmitting, windowSize, sequenceNumber,
                 senderClosed>>

sendENDPacket ==
  /\ pc = "end"
  /\ sequenceNumber' = getNextSequenceNumber
  /\ packets' = Append(packets, [type |-> "END", seq |-> getNextSequenceNumber])
  /\ numberOfRetries' = 0
  /\ pc' = "drain"
  /\ UNCHANGED <<receiver, lockVars, boundVars, sent, totalBytesSent, failed,
                 messageSeqs, windowSize, senderClosed, acks>>

(* send() returns. *)
sendDone ==
  /\ pc = "drain"
  /\ waitingForAcknowledge = {}
  /\ pc' = "idle"
  /\ UNCHANGED <<receiver, network, callVars, lockVars, boundVars, windowSize,
                 sequenceNumber, senderClosed>>

(* close() by the application that sends; the other threads stop. *)
close ==
  /\ pc = "idle" /\ ~senderClosed
  /\ senderClosed' = TRUE
  /\ sequenceNumber' = getNextSequenceNumber
  /\ packets' = Append(packets, [type |-> "RST", seq |-> getNextSequenceNumber])
  /\ UNCHANGED <<receiver, callVars, lockVars, boundVars, pc, windowSize,
                 acks>>
-----------------------------------------------------------------------------
(* The listener and the retransmission thread of the sending side.         *)

\* Mutant: every ACK opens the window, one for a packet that does not wait too.
handleACKGrowsAlways ==
  /\ acks # << >> /\ ~senderClosed
  /\ LockFree
  /\ acks' = Tail(acks)
  /\ waitingForAcknowledge' = {p \in waitingForAcknowledge : p.seq # Head(acks)}
  /\ growing' = TRUE
  /\ UNCHANGED <<receiver, callVars, boundVars, pc, retransmitting, windowSize,
                 sequenceNumber, senderClosed, packets>>

(* An ACK: its packet stops waiting, and the lock is kept until the window *)
(* has grown.  For a number that is not waiting pop() raises KeyError,     *)
(* which the loop ignores.                                                 *)
handleACK ==
  /\ acks # << >> /\ ~senderClosed
  /\ LockFree
  /\ acks' = Tail(acks)
  /\ waitingForAcknowledge' = {p \in waitingForAcknowledge : p.seq # Head(acks)}
  /\ growing' = (\E p \in waitingForAcknowledge : p.seq = Head(acks))
  /\ UNCHANGED <<receiver, callVars, boundVars, pc, retransmitting, windowSize,
                 sequenceNumber, senderClosed, packets>>

\* Mutant: the window has no upper limit.
increaseWindowSizeUnbounded ==
  /\ growing
  /\ growing' = FALSE
  /\ windowSize' = windowSize + 1
  /\ UNCHANGED <<receiver, network, callVars, boundVars, pc, waitingForAcknowledge,
                 retransmitting, sequenceNumber, senderClosed>>

increaseWindowSize ==
  /\ growing
  /\ growing' = FALSE
  /\ windowSize' = IF windowSize < MAX_WINDOW_SIZE THEN windowSize + 1 ELSE windowSize
  /\ UNCHANGED <<receiver, network, callVars, boundVars, pc,
                 waitingForAcknowledge, retransmitting, sequenceNumber,
                 senderClosed>>

(* A round begins: the lock is taken and held until every packet is sent.  *)
(* A round that finds nothing to send changes nothing.                     *)
retransmitWaitingPackets ==
  /\ LockFree /\ ~senderClosed
  /\ waitingForAcknowledge # {}
  /\ rounds < MaxRounds
  /\ rounds' = rounds + 1
  /\ retransmitting' = waitingForAcknowledge
  /\ UNCHANGED <<receiver, network, callVars, pc, waitingForAcknowledge,
                 growing, windowSize, sequenceNumber, senderClosed, faults,
                 timeouts>>

(* Packets are sent in the order they were entered. *)
retransmitPacket ==
  \E p \in retransmitting :
    /\ \A q \in retransmitting : p.seq <= q.seq
    /\ packets' = Append(packets, p)
    /\ retransmitting' = retransmitting \ {p}
    /\ UNCHANGED <<receiver, callVars, boundVars, pc, waitingForAcknowledge,
                   growing, windowSize, sequenceNumber, senderClosed, acks>>
-----------------------------------------------------------------------------
(* The listener of the receiving side.                                     *)

Arriving(type) ==
  /\ packets # << >> /\ ~receiverClosed /\ ~signalling
  /\ Head(packets).type = type
  /\ packets' = Tail(packets)

(* recvfrom(MTU) cuts a longer packet off. *)
receivedData ==
  LET data == Head(packets).data
  IN  SubSeq(data, 1, IF MTU - HEADER_LENGTH < Len(data) THEN MTU - HEADER_LENGTH
                                                         ELSE Len(data))

(* Python's receivedDataArray[seq - first]: an index below 0 counts from   *)
(* the end of the list, one outside -Slots..Slots-1 raises IndexError.     *)
SlotOf(seq) ==
  IF seq >= firstPacketSequenceNumber THEN seq - firstPacketSequenceNumber
                                      ELSE (seq + Slots) - firstPacketSequenceNumber

HasSlot(seq) ==
  /\ seq + Slots >= firstPacketSequenceNumber
  /\ seq < firstPacketSequenceNumber + Slots

\* Mutant: DATA is acknowledged whether it is stored or dropped.
handleDATAAcksAlways ==
  /\ Arriving("DATA")
  /\ acks' = Append(acks, Head(packets).seq)
  /\ LET seq == Head(packets).seq
     IN  IF ~isDataReady /\ HasSlot(seq)
         THEN /\ receivedDataArray' =
                   [receivedDataArray EXCEPT ![SlotOf(seq)] = receivedData]
              /\ stored' = stored \union {seq}
         ELSE UNCHANGED <<receivedDataArray, stored>>
  /\ UNCHANGED <<sender, bufferVars, boundVars, firstPacketSequenceNumber>>

(* Stored, then acknowledged; or, without a slot, the IndexError is        *)
(* ignored; or dropped while an earlier message waits to be received.      *)
handleDATA ==
  /\ Arriving("DATA")
  /\ LET seq == Head(packets).seq
     IN  IF ~isDataReady /\ HasSlot(seq)
         THEN /\ receivedDataArray' =
                   [receivedDataArray EXCEPT ![SlotOf(seq)] = receivedData]
              /\ stored' = stored \union {seq}
              /\ acks' = Append(acks, seq)
         ELSE UNCHANGED <<receivedDataArray, stored, acks>>
  /\ UNCHANGED <<sender, bufferVars, boundVars, firstPacketSequenceNumber>>

(* The data of all slots, in order.                                        *)
Joined == FlattenSeq([j \in 1..Slots |-> receivedDataArray[j - 1]])

handleEND ==
  /\ Arriving("END")
  /\ receivedDataBuffer' = Joined
  /\ receivedDataArray' = EmptyArray
  /\ firstPacketSequenceNumber' = Head(packets).seq + 1
  /\ signalling' = TRUE
  /\ UNCHANGED <<sender, boundVars, stored, isDataReady, isDataReadyEvent,
                 reading, receiverClosed, delivered, acks>>

signalDataReady ==
  /\ signalling
  /\ signalling' = FALSE
  /\ isDataReady' = TRUE /\ isDataReadyEvent' = TRUE
  /\ UNCHANGED <<sender, network, arrayVars, boundVars, receivedDataBuffer,
                 reading, receiverClosed, delivered>>

handleRST ==
  /\ Arriving("RST")
  /\ receiverClosed' = TRUE
  /\ UNCHANGED <<sender, arrayVars, boundVars, receivedDataBuffer, isDataReady,
                 isDataReadyEvent, signalling, reading, delivered, acks>>
-----------------------------------------------------------------------------
(* The receiving application.                                              *)

(* On a closed socket receive() returns None at once. *)
receive ==
  /\ reading = "idle" /\ ~receiverClosed
  /\ reading' = IF isDataReady THEN "take" ELSE "wait"
  /\ UNCHANGED <<sender, network, arrayVars, boundVars, receivedDataBuffer,
                 isDataReady, isDataReadyEvent, signalling, receiverClosed,
                 delivered>>

(* The wait ends with the event, or without it; either way the event is    *)
(* cleared and what is in the buffer is taken.                             *)
receiveWakes ==
  /\ reading = "wait"
  /\ \/ isDataReadyEvent /\ UNCHANGED timeouts
     \/ timeouts < MaxTimeouts /\ timeouts' = timeouts + 1
  /\ isDataReadyEvent' = FALSE
  /\ reading' = "take"
  /\ UNCHANGED <<sender, network, arrayVars, receivedDataBuffer, isDataReady,
                 signalling, receiverClosed, delivered, faults, rounds>>

receiveTakes ==
  /\ reading = "take"
  /\ delivered' = Append(delivered, receivedDataBuffer)
  /\ reading' = "reset"
  /\ UNCHANGED <<sender, network, arrayVars, boundVars, receivedDataBuffer,
                 isDataReady, isDataReadyEvent, signalling, receiverClosed>>

receiveResets ==
  /\ reading = "reset"
  /\ receivedDataBuffer' = << >>
  /\ reading' = "unready"
  /\ UNCHANGED <<sender, network, arrayVars, boundVars, isDataReady,
                 isDataReadyEvent, signalling, receiverClosed, delivered>>

receiveReturns ==
  /\ reading = "unready"
  /\ isDataReady' = FALSE
  /\ reading' = "idle"
  /\ UNCHANGED <<sender, network, arrayVars, boundVars, receivedDataBuffer,
                 isDataReadyEvent, signalling, receiverClosed, delivered>>
-----------------------------------------------------------------------------
(* UDP may lose, duplicate or delay a packet. *)

Faulty(wire, wire2) ==
  \E i \in 1..Len(wire) :
    \/ wire2 = RemoveAt(wire, i)
    \/ wire2 = Append(wire, wire[i])
    \/ wire2 = Append(RemoveAt(wire, i), wire[i])

networkFault ==
  /\ faults < MaxFaults
  /\ faults' = faults + 1
  /\ \/ Faulty(packets, packets') /\ UNCHANGED acks
     \/ Faulty(acks, acks') /\ UNCHANGED packets
  /\ UNCHANGED <<sender, receiver, rounds, timeouts>>
-----------------------------------------------------------------------------
(* send() once it is called. *)
Sending == \/ retry \/ giveUp \/ raiseFailed \/ sendDataPacket \/ registerDataPacket
           \/ sendENDPacket \/ sendDone

Retransmission == retransmitWaitingPackets \/ retransmitPacket

ReceiverListener == handleDATA \/ handleEND \/ signalDataReady \/ handleRST

Receiving == \/ receive \/ receiveWakes \/ receiveTakes
             \/ receiveResets \/ receiveReturns

Next ==
  \/ \E length \in MessageLengths : send(length)
  \/ close
  \/ Sending
  \/ handleACK \/ increaseWindowSize
  \/ Retransmission
  \/ ReceiverListener
  \/ Receiving
  \/ networkFault

Spec == Init /\ [][Next]_vars

(* The sending process schedules its threads; the network, the receiver    *)
(* and the retransmission thread may do nothing at all.                    *)
FairSpec ==
  /\ Spec
  /\ WF_vars(Sending) /\ WF_vars(increaseWindowSize) /\ WF_vars(retransmitPacket)

(* Commands and replies take turns: the next message is sent, or the       *)
(* connection closed, only when the receiver has taken the last message.   *)
Answered ==
  /\ Len(sent) = Cardinality({i \in DOMAIN delivered : delivered[i] # << >>})
  /\ reading \in {"idle", "wait"}

TurnNext ==
  \/ Answered /\ ((\E length \in MessageLengths : send(length)) \/ close)
  \/ Sending
  \/ handleACK \/ increaseWindowSize
  \/ Retransmission
  \/ ReceiverListener
  \/ Receiving

TurnSpec == Init /\ [][TurnNext]_vars
-----------------------------------------------------------------------------
(* Properties.                                                             *)

(* When send() returns without raising, the receiver has stored every DATA *)
(* packet of the message (send waits for the ACKs, and a packet is         *)
(* acknowledged only after it is stored), whatever the network did.        *)
OkMeansStored ==
  pc = "idle" /\ Len(sent) \notin failed => messageSeqs \subseteq stored

(* Packets sent and not acknowledged, the one being entered included. *)
InFlight == Cardinality(waitingForAcknowledge) + (IF pc = "register" THEN 1 ELSE 0)

(* Flow control: never more unacknowledged packets than MAX_WINDOW_SIZE,   *)
(* and at most one more than the present window, which may shrink just     *)
(* before a packet is sent.                                                *)
WindowRespected == InFlight <= MAX_WINDOW_SIZE /\ InFlight <= windowSize + 1

(* The window grows at most once for every packet the receiver has stored: *)
(* an ACK that comes twice, or late, does not open it further.             *)
WindowEarned == windowSize <= 2 + Cardinality(stored)

(* While the retransmission thread walks through waitingForAcknowledge no  *)
(* other thread changes the dictionary (Python would raise RuntimeError).  *)
RoundIsStable ==
  [][retransmitting # {} => waitingForAcknowledge' = waitingForAcknowledge]_vars

(* How far send() still has to go: bytes before steps before retries.      *)
BytesLeft == IF pc \in {"window", "register"} THEN sent[Len(sent)] - totalBytesSent ELSE 0

StepsLeft ==
  CASE pc = "idle" -> 0 [] pc = "raise" -> 1 [] pc = "drain" -> 2
    [] pc = "end" -> 3 [] pc = "register" -> 4 [] pc = "window" -> 5

RetriesLeft == MAX_SEND_RETRIES - numberOfRetries

NearerTheEnd ==
  \/ BytesLeft' < BytesLeft
  \/ BytesLeft' = BytesLeft /\ StepsLeft' < StepsLeft
  \/ BytesLeft' = BytesLeft /\ StepsLeft' = StepsLeft /\ RetriesLeft' < RetriesLeft

(* A step of send() always brings it nearer to its end, so it can take     *)
(* only so many; and no step of another thread, nor an ACK that comes in   *)
(* the middle of a wait, sets it back.                                     *)
SendAdvances ==
  [][pc # "idle" =>
       NearerTheEnd \/ UNCHANGED <<pc, sent, totalBytesSent, numberOfRetries>>]_vars

(* send() returns or raises, whatever the network and the receiver do.     *)
SendTerminates == pc # "idle" ~> pc = "idle"
-----------------------------------------------------------------------------
(* What the source says of the transfer and the code does not keep.        *)

(* "accumulate the DATA packets in correct order into a full byte data     *)
(* buffer": what receive() returns, if anything, is one message, whole.    *)
WholeMessages ==
  \A i \in DOMAIN delivered :
    \/ delivered[i] = << >>
    \/ \E m \in DOMAIN sent : delivered[i] = Message(m, sent[m])

(* No packet is on its way and nothing more can be received. *)
Quiescent ==
  /\ pc = "idle" /\ packets = << >> /\ ~signalling
  /\ IF receiverClosed THEN reading = "idle"
                       ELSE ~isDataReady /\ reading \in {"idle", "wait"}

(* "Resends lost packets" / "return data buffer to caller": every message  *)
(* whose send() returned is received in the end.                           *)
AllDelivered ==
  Quiescent =>
    \A m \in DOMAIN sent \ failed :
      \E i \in DOMAIN delivered : <<m, 1>> \in Range(delivered[i])
=============================================================================
