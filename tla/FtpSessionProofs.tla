-------------------------- MODULE FtpSessionProofs --------------------------
(***************************************************************************)
(* Proofs about FtpSession, for any sessions, paths, positions and uploads *)
(* of any length: what a client that has not logged in cannot do, that     *)
(* names never share a file, and that transfers are exact.                 *)
(***************************************************************************)
EXTENDS FtpSession, SequenceTheorems, TLAPS

(* What WriteAt returns, and that at the end of a file it appends.         *)
LEMMA WriteAtType ==
  ASSUME NEW blocks \in Seq(Blocks), NEW offset \in Nat, NEW block \in Blocks
  PROVE  WriteAt(blocks, offset, block) \in Seq(Blocks)
<1>1. Hole \in Blocks
  BY BoundsAssumption DEF Hole, Blocks
<1> DEFINE n == IF Len(blocks) > offset THEN Len(blocks) ELSE offset + 1
<1>2. n \in Nat
  OBVIOUS
<1>3. \A i \in 1..n : WriteAt(blocks, offset, block)[i] \in Blocks
  BY <1>1 DEF WriteAt
<1>4. WriteAt(blocks, offset, block) \in [1..n -> Blocks]
  BY <1>3 DEF WriteAt
<1> QED BY <1>2, <1>4, IsASeq

LEMMA WriteAtEnd ==
  ASSUME NEW blocks \in Seq(Blocks), NEW block \in Blocks
  PROVE  WriteAt(blocks, Len(blocks), block) = Append(blocks, block)
<1> DEFINE w == WriteAt(blocks, Len(blocks), block)
           a == Append(blocks, block)
<1>1. w \in Seq(Blocks) /\ a \in Seq(Blocks)
  BY WriteAtType
<1>2. w = [i \in 1..(Len(blocks) + 1) |->
             IF i = Len(blocks) + 1 THEN block
             ELSE IF i <= Len(blocks) THEN blocks[i] ELSE Hole]
  BY DEF WriteAt
<1>3. DOMAIN w = 1..(Len(blocks) + 1)
  BY <1>2
<1>4. Len(w) = Len(a)
  BY <1>1, <1>3, LenProperties, AppendProperties
<1>5. \A i \in 1..Len(w) : w[i] = a[i]
  BY <1>1, <1>2, <1>4, AppendProperties
<1> HIDE DEF w, a
<1>6. w = a
  BY <1>1, <1>4, <1>5, SeqEqual
<1> QED BY <1>6 DEF w, a

LEMMA AppendAfter ==
  ASSUME NEW old \in Seq(Blocks), NEW new \in Seq(Blocks), NEW block \in Blocks
  PROVE  Append(old \o new, block) = old \o Append(new, block)
<1>1. old \o new \in Seq(Blocks) /\ <<block>> \in Seq(Blocks)
  BY ConcatProperties
<1>2. Append(old \o new, block) = (old \o new) \o <<block>>
  BY <1>1, AppendIsConcat
<1>3. Append(new, block) = new \o <<block>>
  BY AppendIsConcat
<1> QED BY <1>1, <1>2, <1>3, ConcatAssociative
-----------------------------------------------------------------------------
(* Types.  The record of a transfer is there while the transfer is.        *)

TransfersAreThere ==
  \A s \in Sessions :
    /\ Transferring(s) => transfer[s] \in Transfers
    /\ pc[s] \in {"stor", "receiving"} => transfer[s].command # "RETR"
    /\ pc[s] \in {"retr", "sending"} => transfer[s].command = "RETR"

TypeInv == TypeOK /\ TransfersAreThere

(* A transfer that has moved on is a transfer, of the same file.           *)
MovedOn(t, offset, data) == [t EXCEPT !.offset = offset, !.data = data]

LEMMA Moved ==
  ASSUME NEW t \in Transfers, NEW o \in Nat, NEW d \in Seq(Blocks)
  PROVE  /\ MovedOn(t, o, d) \in Transfers
         /\ MovedOn(t, o, d).command = t.command
         /\ MovedOn(t, o, d).data = d
         /\ MovedOn(t, o, d).file = t.file
         /\ MovedOn(t, o, d).offset = o
         /\ MovedOn(t, o, d).appending = t.appending
         /\ MovedOn(t, o, d).before = t.before
         /\ MovedOn(t, o, d).disturbed = t.disturbed
  BY DEF Transfers, MovedOn

LEMMA Positioned ==
  ASSUME NEW t \in Transfers, NEW o \in Nat, NEW t2, t2 = [t EXCEPT !.offset = o]
  PROVE  t2 \in Transfers /\ t2.command = t.command
  BY DEF Transfers

LEMMA PositionType ==
  ASSUME TypeOK, NEW s \in Sessions
  PROVE  startingPosition[s] \in Int
<1>1. startingPosition \in [Sessions -> Positions \union {0}]
  BY DEF TypeOK
<1>2. startingPosition[s] \in Positions \/ startingPosition[s] = 0
  BY <1>1
<1>3. \A position \in Positions : position \in Int
  BY PositionsAssumption
<1> QED BY <1>2, <1>3

(* The parts of a transfer under way, and of its file.                     *)
LEMMA TransferType ==
  ASSUME TypeInv, NEW s \in Sessions, Transferring(s)
  PROVE  /\ transfer[s] \in Transfers
         /\ transfer[s].file \in Files /\ transfer[s].upload \in 0..MaxUploads
         /\ transfer[s].offset \in Nat /\ transfer[s].data \in Seq(Blocks)
         /\ transfer[s].before \in Seq(Blocks)
         /\ content[transfer[s].file] \in Seq(Blocks)
<1>1. transfer[s] \in Transfers
  BY DEF TypeInv, TransfersAreThere
<1>2. content \in [Files -> Seq(Blocks)]
  BY DEF TypeInv, TypeOK
<1>3. /\ transfer[s].file \in Files /\ transfer[s].upload \in 0..MaxUploads
      /\ transfer[s].offset \in Nat /\ transfer[s].data \in Seq(Blocks)
      /\ transfer[s].before \in Seq(Blocks)
  BY <1>1 DEF Transfers
<1> QED BY <1>1, <1>2, <1>3

LEMMA DisturbKeepsTypes ==
  ASSUME TypeInv, NEW s \in Sessions, NEW f, NEW mine \in Transfers,
         Disturb(s, f, mine)
  PROVE  /\ transfer' \in [Sessions -> Transfers \union {Nothing}]
         /\ transfer'[s] = mine
         /\ \A t \in Sessions \ {s} :
              Transferring(t) =>
                /\ transfer'[t] \in Transfers
                /\ transfer'[t].command = transfer[t].command
<1>1. \A t \in Sessions : Transferring(t) =>
        /\ [transfer[t] EXCEPT !.disturbed = TRUE] \in Transfers
        /\ [transfer[t] EXCEPT !.disturbed = TRUE].command = transfer[t].command
  BY DEF TypeInv, TransfersAreThere, Transfers
<1> QED BY <1>1 DEF Disturb, TypeInv, TypeOK, TransfersAreThere

(* The same for a step that changes the session's own transfer only.       *)
LEMMA OwnKeepsTypes ==
  ASSUME TypeInv, NEW s \in Sessions, NEW mine \in Transfers \union {Nothing},
         transfer' = [transfer EXCEPT ![s] = mine]
  PROVE  /\ transfer' \in [Sessions -> Transfers \union {Nothing}]
         /\ transfer'[s] = mine
         /\ \A t \in Sessions \ {s} :
              Transferring(t) =>
                /\ transfer'[t] \in Transfers
                /\ transfer'[t].command = transfer[t].command
  BY DEF TypeInv, TypeOK, TransfersAreThere

(* Where the session goes decides what its transfer must be.               *)
LEMMA StepKeepsTransfers ==
  ASSUME TypeInv, NEW s \in Sessions, NEW step \in Steps,
         pc' = [pc EXCEPT ![s] = step],
         step \in {"stor", "receiving", "retr", "sending"} => transfer'[s] \in Transfers,
         step \in {"stor", "receiving"} => transfer'[s].command # "RETR",
         step \in {"retr", "sending"} => transfer'[s].command = "RETR",
         \A t \in Sessions \ {s} :
           Transferring(t) =>
             /\ transfer'[t] \in Transfers
             /\ transfer'[t].command = transfer[t].command
  PROVE  TransfersAreThere' /\ pc' \in [Sessions -> Steps]
  BY DEF TypeInv, TypeOK, TransfersAreThere, Transferring

LEMMA TypeInit == Init => TypeInv
<1> SUFFICES ASSUME Init PROVE TypeInv
  OBVIOUS
<1>1. <<0, 1>> \in Blocks /\ <<0, 2>> \in Blocks
  BY BoundsAssumption DEF Blocks
<1>2. << <<0, 1>>, <<0, 2>> >> \in Seq(Blocks) /\ << >> \in Seq(Blocks)
  BY <1>1
<1>3. content \in [Files -> Seq(Blocks)]
  BY <1>2 DEF Init
<1>4. TypeOK
  BY <1>3, NamesAssumption, BoundsAssumption DEF Init, TypeOK, Files, Logins, Steps
<1>5. TransfersAreThere
  BY DEF Init, TransfersAreThere, Transferring
<1> QED BY <1>4, <1>5 DEF TypeInv

LEMMA EndTransferType ==
  ASSUME TypeInv, NEW s \in Sessions, EndTransfer(s)
  PROVE  /\ TransfersAreThere' /\ pc' \in [Sessions -> Steps]
         /\ transfer' \in [Sessions -> Transfers \union {Nothing}]
  BY DEF EndTransfer, Goto, TypeInv, TypeOK, TransfersAreThere, Transferring, Steps

LEMMA SeekType ==
  ASSUME TypeInv, NEW s \in Sessions, seek(s)
  PROVE  TypeInv'
<1>1. Transferring(s) /\ transfer[s].command = "RETR"
  BY DEF seek, Transferring, TypeInv, TransfersAreThere
<1>2. UNCHANGED <<names, content, uploads, login, isAppend, fileRenameFrom,
                  fileRenameTo>>
  BY DEF seek, fileSystem, renaming
<1>3. CASE startingPosition[s] >= 0
  <2> DEFINE mine == [transfer[s] EXCEPT !.offset = startingPosition[s]]
  <2>1. startingPosition[s] \in Nat
    BY <1>3, PositionType DEF TypeInv
  <2>2. mine \in Transfers /\ mine.command = "RETR"
    BY <1>1, <2>1, TransferType, Positioned
  <2>3. /\ transfer' = [transfer EXCEPT ![s] = mine]
        /\ pc' = [pc EXCEPT ![s] = "sending"]
        /\ startingPosition' = [startingPosition EXCEPT ![s] = 0]
    BY <1>3 DEF seek, Goto
  <2> HIDE DEF mine
  <2>4. /\ TransfersAreThere' /\ pc' \in [Sessions -> Steps]
        /\ transfer' \in [Sessions -> Transfers \union {Nothing}]
    BY <2>2, <2>3, OwnKeepsTypes, StepKeepsTransfers DEF Steps
  <2>5. startingPosition' \in [Sessions -> Positions \union {0}]
    BY <2>3 DEF TypeInv, TypeOK
  <2> QED BY <1>2, <2>4, <2>5 DEF TypeInv, TypeOK
<1>4. CASE ~(startingPosition[s] >= 0)
  <2>1. EndTransfer(s) /\ UNCHANGED startingPosition
    BY <1>4 DEF seek
  <2>2. /\ TransfersAreThere' /\ pc' \in [Sessions -> Steps]
        /\ transfer' \in [Sessions -> Transfers \union {Nothing}]
    BY <2>1, EndTransferType
  <2> QED BY <1>2, <2>1, <2>2 DEF TypeInv, TypeOK
<1> QED BY <1>3, <1>4

LEMMA SendBlockType ==
  ASSUME TypeInv, NEW s \in Sessions, sendBlock(s)
  PROVE  TypeInv'
<1> DEFINE t == transfer[s]
           d == Append(t.data, content[t.file][t.offset + 1])
           t2 == [t EXCEPT !.offset = t.offset + 1, !.data = d]
<1>1. Transferring(s) /\ t.command = "RETR"
  BY DEF sendBlock, Transferring, TypeInv, TransfersAreThere
<1>2. /\ t \in Transfers /\ t.offset \in Nat /\ t.data \in Seq(Blocks)
      /\ content[t.file] \in Seq(Blocks)
  BY <1>1, TransferType
<1>3. t.offset + 1 \in 1..Len(content[t.file])
  BY <1>2 DEF sendBlock, AtEnd
<1>4. content[t.file][t.offset + 1] \in Blocks
  BY <1>2, <1>3
<1>5. d \in Seq(Blocks) /\ t.offset + 1 \in Nat
  BY <1>2, <1>4
<1>6. /\ transfer' = [transfer EXCEPT ![s] = t2] /\ pc' = [pc EXCEPT ![s] = "sending"]
      /\ UNCHANGED <<names, content, uploads, login, isAppend, startingPosition,
                     fileRenameFrom, fileRenameTo>>
  BY DEF sendBlock, fileSystem, renaming, TypeInv, TypeOK
<1>7. t2 = MovedOn(t, t.offset + 1, d)
  BY DEF MovedOn
<1> HIDE DEF d, t2
<1>8. t2 \in Transfers /\ t2.command = "RETR"
  BY <1>1, <1>2, <1>5, <1>7, Moved
<1>9. /\ TransfersAreThere' /\ pc' \in [Sessions -> Steps]
      /\ transfer' \in [Sessions -> Transfers \union {Nothing}]
  BY <1>6, <1>8, OwnKeepsTypes, StepKeepsTransfers DEF Steps
<1> QED BY <1>6, <1>9 DEF TypeInv, TypeOK

LEMMA ReceiveBlockType ==
  ASSUME TypeInv, NEW s \in Sessions, receiveBlock(s)
  PROVE  TypeInv'
<1> DEFINE t == transfer[s]
           block == <<t.upload, Len(t.data) + 1>>
           d == Append(t.data, block)
           t2 == [t EXCEPT !.offset = t.offset + 1, !.data = d]
           c == IF t.appending THEN Append(content[t.file], block)
                               ELSE WriteAt(content[t.file], t.offset, block)
<1>1. Transferring(s) /\ t.command # "RETR"
  BY DEF receiveBlock, Transferring, TypeInv, TransfersAreThere
<1>2. /\ t \in Transfers /\ t.file \in Files /\ t.offset \in Nat
      /\ t.data \in Seq(Blocks) /\ t.upload \in 0..MaxUploads
      /\ content[t.file] \in Seq(Blocks)
  BY <1>1, TransferType
<1>3. block \in Blocks
  BY <1>2 DEF Blocks
<1>4. d \in Seq(Blocks) /\ t.offset + 1 \in Nat
  BY <1>2, <1>3
<1>5. c \in Seq(Blocks)
  <2>1. Append(content[t.file], block) \in Seq(Blocks)
    BY <1>2, <1>3
  <2>2. WriteAt(content[t.file], t.offset, block) \in Seq(Blocks)
    <3> HIDE DEF block, t
    <3> QED BY <1>2, <1>3, WriteAtType
  <2> QED BY <2>1, <2>2
<1>6. /\ content' = [content EXCEPT ![t.file] = c] /\ Disturb(s, t.file, t2)
      /\ pc' = [pc EXCEPT ![s] = "receiving"]
  BY DEF receiveBlock, TypeInv, TypeOK
<1>7. UNCHANGED <<names, uploads, login, isAppend, startingPosition,
                  fileRenameFrom, fileRenameTo>>
  BY DEF receiveBlock, renaming
<1>0. t2 = MovedOn(t, t.offset + 1, d)
  BY DEF MovedOn
<1> HIDE DEF d, c, t2, block
<1>8. t2 \in Transfers /\ t2.command = t.command
  BY <1>2, <1>4, <1>0, Moved
<1>9. /\ TransfersAreThere' /\ pc' \in [Sessions -> Steps]
      /\ transfer' \in [Sessions -> Transfers \union {Nothing}]
  <2>1. /\ transfer' \in [Sessions -> Transfers \union {Nothing}]
        /\ transfer'[s] = t2
        /\ \A r \in Sessions \ {s} :
             Transferring(r) =>
               transfer'[r] \in Transfers /\ transfer'[r].command = transfer[r].command
    BY <1>6, <1>8, DisturbKeepsTypes
  <2>2. t2.command # "RETR"
    BY <1>1, <1>8
  <2> HIDE DEF t
  <2> QED BY <1>6, <1>8, <2>1, <2>2, StepKeepsTransfers DEF Steps
<1>10. content' \in [Files -> Seq(Blocks)]
  BY <1>2, <1>5, <1>6 DEF TypeInv, TypeOK
<1> QED BY <1>7, <1>9, <1>10 DEF TypeInv, TypeOK

LEMMA TypeStep == TypeInv /\ [Next]_vars => TypeInv'
<1> SUFFICES ASSUME TypeInv, [Next]_vars PROVE TypeInv'
  OBVIOUS
<1> USE DEF TypeInv, TypeOK, TransfersAreThere, Transferring, Goto, Steps, Ready,
            fileSystem, renaming
<1>1. ASSUME NEW s \in Sessions, NEW b \in BOOLEAN, USER(s, b) \/ PASS(s, b)
      PROVE  TypeInv'
  BY <1>1 DEF USER, PASS, Logins
<1>2. ASSUME NEW s \in Sessions, NEW n \in Names, DELE(s, n) PROVE TypeInv'
  BY <1>2 DEF DELE
<1>3. ASSUME NEW s \in Sessions, NEW n \in Names, RNFR(s, n) \/ RNTO(s, n)
      PROVE  TypeInv'
  BY <1>3 DEF RNFR, RNTO
<1>4. ASSUME NEW s \in Sessions, rename(s) PROVE TypeInv'
  <2>1. names' \in [Names -> Files \union {Nothing}]
    BY <1>4 DEF rename
  <2> QED BY <1>4, <2>1 DEF rename
<1>5. ASSUME NEW s \in Sessions, NEW position \in Positions, REST(s, position)
      PROVE  TypeInv'
  BY <1>5 DEF REST
<1>6. ASSUME NEW s \in Sessions, NEW n \in Names, RETR(s, n) PROVE TypeInv'
  <2> DEFINE mine ==
        [command |-> "RETR", file |-> names[n], upload |-> 0, offset |-> 0,
         appending |-> FALSE, before |-> content[names[n]], data |-> << >>,
         from |-> startingPosition[s], disturbed |-> FALSE]
  <2>1. mine \in Transfers /\ mine.command = "RETR"
    BY <1>6, PositionsAssumption, BoundsAssumption DEF RETR, Transfers
  <2>2. transfer' = [transfer EXCEPT ![s] = mine] /\ pc' = [pc EXCEPT ![s] = "retr"]
    BY <1>6 DEF RETR
  <2> HIDE DEF mine
  <2>3. /\ TransfersAreThere' /\ pc' \in [Sessions -> Steps]
        /\ transfer' \in [Sessions -> Transfers \union {Nothing}]
    BY <2>1, <2>2, OwnKeepsTypes, StepKeepsTransfers
  <2> QED BY <1>6, <2>3 DEF RETR
<1>7. ASSUME NEW s \in Sessions, seek(s) PROVE TypeInv'
  BY <1>7, SeekType
<1>8. ASSUME NEW s \in Sessions, sendBlock(s) PROVE TypeInv'
  BY <1>8, SendBlockType
<1>9. ASSUME NEW s \in Sessions, sendDone(s) \/ receiveDone(s) \/ transferFails(s)
      PROVE  TypeInv'
  BY <1>9, EndTransferType DEF sendDone, receiveDone, transferFails
<1>10. ASSUME NEW s \in Sessions, APPERefused(s) \/ openSocket(s) PROVE TypeInv'
  BY <1>10 DEF APPERefused, openSocket
<1>11. ASSUME NEW s \in Sessions, NEW n \in Names, NEW command \in {"STOR", "APPE"},
              STOR(s, command, n)
       PROVE  TypeInv'
  <2> DEFINE append == isAppend[s] \/ command = "APPE"
             u == uploads + 1
             f == IF names[n] = Nothing THEN u ELSE names[n]
             old == IF append THEN content[f] ELSE << >>
             mine == [command |-> command, file |-> f, upload |-> u, offset |-> 0,
                      appending |-> append, before |-> old, data |-> << >>, from |-> 0,
                      disturbed |-> FALSE]
  <2>1. u \in 1..MaxUploads
    BY <1>11, BoundsAssumption DEF STOR
  <2>2. f \in Files
    BY <2>1 DEF Files
  <2>3. old \in Seq(Blocks)
    BY <2>2
  <2>4. mine \in Transfers /\ mine.command = command
    BY <2>1, <2>2, <2>3 DEF Transfers
  <2>5. /\ uploads' = u /\ names' = [names EXCEPT ![n] = f]
        /\ content' = [content EXCEPT ![f] = old] /\ Disturb(s, f, mine)
    BY <1>11 DEF STOR
  <2> HIDE DEF u, f, old, mine
  <2>6. /\ transfer' \in [Sessions -> Transfers \union {Nothing}]
        /\ transfer'[s] = mine
        /\ \A t \in Sessions \ {s} :
             Transferring(t) =>
               transfer'[t] \in Transfers /\ transfer'[t].command = transfer[t].command
    BY <2>4, <2>5, DisturbKeepsTypes
  <2>7. /\ names' \in [Names -> Files \union {Nothing}]
        /\ content' \in [Files -> Seq(Blocks)] /\ uploads' \in 0..MaxUploads
    BY <2>1, <2>2, <2>3, <2>5
  <2> QED BY <1>11, <2>4, <2>6, <2>7 DEF STOR
<1>12. ASSUME NEW s \in Sessions, receiveBlock(s) PROVE TypeInv'
  BY <1>12, ReceiveBlockType
<1>13. CASE UNCHANGED vars
  BY <1>13 DEF vars
<1> QED
  BY <1>1, <1>2, <1>3, <1>4, <1>5, <1>6, <1>7, <1>8, <1>9, <1>10, <1>11, <1>12, <1>13
     DEF Next, Command, Handler

LEMMA TypeInvariant == Spec => []TypeInv
  BY TypeInit, TypeStep, PTL DEF Spec

(* Every variable keeps its type.                                          *)
THEOREM TypeCorrect == Spec => []TypeOK
<1>1. TypeInv => TypeOK
  BY DEF TypeInv
<1> QED BY <1>1, TypeInvariant, PTL
-----------------------------------------------------------------------------
(* Login.                                                                  *)

(* A session that has not logged in is between commands and has named no   *)
(* file; a handler that runs therefore belongs to one that has.            *)
LoginInv ==
  /\ \A s \in Sessions :
       login[s] # "authenticated" => pc[s] = "idle" /\ fileRenameFrom[s] = Nothing
  /\ (\A s \in Sessions : login[s] # "authenticated") =>
       uploads = 0 /\ names = [n \in Names |-> IF n \in Existing THEN n ELSE Nothing]

LEMMA LoginStep == TypeInv /\ LoginInv /\ [Next]_vars => LoginInv'
<1> SUFFICES ASSUME TypeInv, LoginInv, [Next]_vars PROVE LoginInv'
  OBVIOUS
<1>T. /\ pc \in [Sessions -> Steps] /\ login \in [Sessions -> Logins]
      /\ fileRenameFrom \in [Sessions -> Names \union {Nothing}]
  BY DEF TypeInv, TypeOK
<1> USE DEF Goto, Ready, EndTransfer, fileSystem, renaming
<1>1. ASSUME NEW s \in Sessions, NEW b \in BOOLEAN, USER(s, b) \/ PASS(s, b)
      PROVE  LoginInv'
  BY <1>1, <1>T DEF USER, PASS, LoginInv, Logins
<1>2. ASSUME NEW s \in Sessions, Ready(s) \/ pc[s] # "idle", UNCHANGED login,
             \A r \in Sessions \ {s} : pc'[r] = pc[r] /\ fileRenameFrom'[r] = fileRenameFrom[r]
      PROVE  LoginInv'
  BY <1>2, <1>T DEF LoginInv
<1>3. ASSUME NEW s \in Sessions, NEW n \in Names,
             DELE(s, n) \/ RNFR(s, n) \/ RNTO(s, n) \/ RETR(s, n)
      PROVE  LoginInv'
  BY <1>2, <1>3, <1>T DEF DELE, RNFR, RNTO, RETR
<1>4. ASSUME NEW s \in Sessions, NEW position \in Positions, REST(s, position)
      PROVE  LoginInv'
  BY <1>2, <1>4, <1>T DEF REST
<1>5. ASSUME NEW s \in Sessions, NEW n \in Names, NEW command \in {"STOR", "APPE"},
             STOR(s, command, n)
      PROVE  LoginInv'
  BY <1>2, <1>5, <1>T DEF STOR
<1>6. ASSUME NEW s \in Sessions, APPERefused(s) PROVE LoginInv'
  BY <1>6 DEF APPERefused, LoginInv
<1>7. ASSUME NEW s \in Sessions, Handler(s) PROVE LoginInv'
  BY <1>2, <1>7, <1>T DEF Handler, rename, seek, sendBlock, sendDone, openSocket,
                          receiveBlock, receiveDone, transferFails
<1>8. CASE UNCHANGED vars
  BY <1>8 DEF vars, LoginInv
<1> QED BY <1>1, <1>3, <1>4, <1>5, <1>6, <1>7, <1>8 DEF Next, Command

(* As long as nobody has logged in, the file system is the one the server  *)
(* started with.                                                           *)
THEOREM NothingWithoutLogin == Spec => []NobodyNothing
<1>1. Init => LoginInv
  BY DEF Init, LoginInv
<1>2. LoginInv => NobodyNothing
  BY DEF LoginInv, NobodyNothing
<1> QED BY <1>1, <1>2, LoginStep, TypeInvariant, PTL DEF Spec
-----------------------------------------------------------------------------
(* Names.                                                                  *)

(* The name that an RNTO has found free is still free, or somebody else is *)
(* there who may have taken it.                                            *)
TestHolds ==
  \A s \in Sessions : pc[s] = "rename" =>
    \/ names[fileRenameTo[s]] = Nothing
    \/ \E t \in Sessions \ {s} : login[t] = "authenticated"

LEMMA TestStep == TypeInv /\ LoginInv /\ TestHolds /\ [Next]_vars => TestHolds'
<1> SUFFICES ASSUME TypeInv, LoginInv, TestHolds, [Next]_vars PROVE TestHolds'
  OBVIOUS
<1>T. /\ pc \in [Sessions -> Steps] /\ login \in [Sessions -> Logins]
      /\ fileRenameTo \in [Sessions -> Names \union {Nothing}]
  BY DEF TypeInv, TypeOK
<1> USE DEF Goto, EndTransfer, fileSystem, renaming, Ready
\* A session that changes the file system has logged in.
<1>1. ASSUME NEW s \in Sessions, login[s] = "authenticated", UNCHANGED login,
             pc'[s] = "rename" => names'[fileRenameTo'[s]] = Nothing,
             \A r \in Sessions \ {s} : pc'[r] = pc[r]
      PROVE  TestHolds'
  <2> SUFFICES ASSUME NEW r \in Sessions, pc'[r] = "rename"
               PROVE  \/ names'[fileRenameTo'[r]] = Nothing
                      \/ \E t \in Sessions \ {r} : login'[t] = "authenticated"
    BY DEF TestHolds
  <2>1. CASE r = s
    BY <1>1, <2>1
  <2>2. CASE r # s
    BY <1>1, <2>2
  <2> QED BY <2>1, <2>2
\* A login ends none.
<1>2. ASSUME NEW s \in Sessions, NEW b \in BOOLEAN, USER(s, b) \/ PASS(s, b)
      PROVE  TestHolds'
  <2>1. UNCHANGED <<pc, names, fileRenameTo>>
    BY <1>2 DEF USER, PASS
  <2>2. \A t \in Sessions : login[t] = "authenticated" => login'[t] = "authenticated"
    BY <1>2, <1>T DEF USER, PASS
  <2> QED BY <2>1, <2>2 DEF TestHolds
<1>3. ASSUME NEW s \in Sessions, APPERefused(s) PROVE TestHolds'
  BY <1>3 DEF APPERefused, TestHolds
<1>4. ASSUME NEW s \in Sessions, NEW n \in Names,
             DELE(s, n) \/ RNFR(s, n) \/ RNTO(s, n) \/ RETR(s, n)
      PROVE  TestHolds'
  BY <1>1, <1>4, <1>T DEF DELE, RNFR, RNTO, RETR
<1>5. ASSUME NEW s \in Sessions, NEW position \in Positions, REST(s, position)
      PROVE  TestHolds'
  BY <1>1, <1>5, <1>T DEF REST
<1>6. ASSUME NEW s \in Sessions, NEW n \in Names, NEW command \in {"STOR", "APPE"},
             STOR(s, command, n)
      PROVE  TestHolds'
  <2>1. /\ pc[s] = "idle" /\ login[s] = "authenticated" /\ UNCHANGED login
        /\ pc' = [pc EXCEPT ![s] = "stor"]
    BY <1>6 DEF STOR
  <2> QED BY <1>1, <2>1, <1>T
<1>7. ASSUME NEW s \in Sessions, Handler(s) PROVE TestHolds'
  <2>1. pc[s] # "idle" /\ UNCHANGED login /\ pc'[s] # "rename"
    BY <1>7, <1>T DEF Handler, rename, seek, sendBlock, sendDone, openSocket,
                      receiveBlock, receiveDone, transferFails
  <2>2. \A r \in Sessions \ {s} : pc'[r] = pc[r]
    BY <1>7, <1>T DEF Handler, rename, seek, sendBlock, sendDone, openSocket,
                      receiveBlock, receiveDone, transferFails
  <2> QED BY <1>1, <2>1, <2>2 DEF LoginInv
<1>8. CASE UNCHANGED vars
  BY <1>8 DEF vars, TestHolds
<1> QED BY <1>2, <1>3, <1>4, <1>5, <1>6, <1>7, <1>8 DEF Next, Command

(* A step gives a name another file only in the rename of an RNTO whose    *)
(* test no longer holds.                                                   *)
LEMMA ReplacedByRename ==
  ASSUME TypeInv, LoginInv, TestHolds, [Next]_vars, Alone, NEW n \in Names,
         names[n] # Nothing
  PROVE  names'[n] \in {names[n], Nothing}
<1>T. names \in [Names -> Files \union {Nothing}]
  BY DEF TypeInv, TypeOK
<1> USE DEF fileSystem
<1>1. ASSUME NEW s \in Sessions, NEW m \in Names, DELE(s, m)
      PROVE  names'[n] \in {names[n], Nothing}
  BY <1>1, <1>T DEF DELE
<1>2. ASSUME NEW s \in Sessions, rename(s) PROVE names'[n] \in {names[n], Nothing}
  <2>1. pc[s] = "rename" /\ login[s] = "authenticated"
    BY <1>2 DEF rename, LoginInv
  <2>2. n # fileRenameTo[s]
    BY <2>1 DEF TestHolds, Alone
  <2> QED BY <1>2, <1>T, <2>2 DEF rename
<1>3. ASSUME NEW s \in Sessions, NEW m \in Names, NEW command \in {"STOR", "APPE"},
             STOR(s, command, m)
      PROVE  names'[n] \in {names[n], Nothing}
  BY <1>3, <1>T DEF STOR
<1>4. ASSUME NEW s \in Sessions, Handler(s) PROVE names'[n] \in {names[n], Nothing}
  BY <1>4, <1>2 DEF Handler, seek, sendBlock, sendDone, openSocket,
                    receiveBlock, receiveDone, transferFails
<1>5. ASSUME NEW s \in Sessions, Command(s) PROVE names'[n] \in {names[n], Nothing}
  BY <1>5, <1>1, <1>3 DEF Command, USER, PASS, RNFR, RNTO, RETR, REST, APPERefused
<1> QED BY <1>4, <1>5 DEF Next, vars

(* RNTO keeps its word as long as a single session has logged in: what     *)
(* lets it replace a file is another session between its test and its      *)
(* rename, and no sequence of commands of its own.                         *)
THEOREM AloneRenameReplacesNothing == Spec => AloneReplacesNothing
<1>1. Init => TestHolds /\ LoginInv
  BY DEF Init, TestHolds, LoginInv
<1>2. TypeInv /\ LoginInv /\ TestHolds /\ [Next]_vars =>
        [Alone => \A n \in Names : names[n] # Nothing => names'[n] \in {names[n], Nothing}]_vars
  BY ReplacedByRename
<1> QED BY <1>1, <1>2, LoginStep, TestStep, TypeInvariant, PTL
        DEF Spec, AloneReplacesNothing
-----------------------------------------------------------------------------
(* Contents.                                                               *)

(* Whoever is not disturbed by a change of file f uses another file.       *)
LEMMA OthersUndisturbed ==
  ASSUME TypeInv, NEW s \in Sessions, NEW f \in Files, NEW c, NEW mine,
         Disturb(s, f, mine), content' = [content EXCEPT ![f] = c],
         NEW r \in Sessions, r # s, Transferring(r), ~transfer'[r].disturbed
  PROVE  /\ transfer'[r] = transfer[r]
         /\ content'[transfer[r].file] = content[transfer[r].file]
<1>1. transfer[r] \in Transfers /\ transfer[r].file \in Files
  BY TransferType
<1>2. [transfer[r] EXCEPT !.disturbed = TRUE].disturbed = TRUE
  BY <1>1 DEF Transfers
<1>3. transfer[r].file # f /\ transfer'[r] = transfer[r]
  BY <1>2 DEF Disturb
<1>4. content \in [Files -> Seq(Blocks)]
  BY DEF TypeInv, TypeOK
<1> QED BY <1>1, <1>3, <1>4

(* Without the append flag the file was emptied, and the position of the   *)
(* file object is its end.                                                 *)
UploadOf(s) ==
  pc[s] \in {"stor", "receiving"} /\ ~transfer[s].disturbed =>
    /\ content[transfer[s].file] = transfer[s].before \o transfer[s].data
    /\ ~transfer[s].appending =>
         transfer[s].before = << >> /\ transfer[s].offset = Len(transfer[s].data)

UploadInv == \A s \in Sessions : UploadOf(s)

(* A step that changes no content changes at most the transfer of its      *)
(* session, whose handler it ends or which is a download.                  *)
LEMMA UploadKept ==
  ASSUME TypeInv, UploadInv, UNCHANGED content, NEW s \in Sessions,
         pc'[s] \in {"stor", "receiving"} =>
           pc[s] \in {"stor", "receiving"} /\ transfer'[s] = transfer[s],
         \A r \in Sessions \ {s} : pc'[r] = pc[r] /\ transfer'[r] = transfer[r]
  PROVE  UploadInv'
  BY DEF UploadInv, UploadOf

LEMMA UploadStoring ==
  ASSUME TypeInv, TypeInv', UploadInv, NEW s \in Sessions, NEW n \in Names,
         NEW command \in {"STOR", "APPE"}, STOR(s, command, n)
  PROVE  UploadInv'
<1> DEFINE append == isAppend[s] \/ command = "APPE"
           u == uploads + 1
           f == IF names[n] = Nothing THEN u ELSE names[n]
           old == IF append THEN content[f] ELSE << >>
           mine == [command |-> command, file |-> f, upload |-> u, offset |-> 0,
                    appending |-> append, before |-> old, data |-> << >>, from |-> 0,
                    disturbed |-> FALSE]
<1>1. /\ content' = [content EXCEPT ![f] = old] /\ Disturb(s, f, mine)
      /\ names' = [names EXCEPT ![n] = f] /\ pc' = [pc EXCEPT ![s] = "stor"]
  BY DEF STOR, Goto
<1>2. f \in Files /\ content \in [Files -> Seq(Blocks)] /\ pc \in [Sessions -> Steps]
  <2>1. names' \in [Names -> Files \union {Nothing}] /\ names'[n] = f
    BY <1>1 DEF TypeInv, TypeOK
  <2>2. f # Nothing
    BY NothingAssumption, BoundsAssumption DEF TypeInv, TypeOK
  <2> QED BY <2>1, <2>2 DEF TypeInv, TypeOK
<1>3. old \in Seq(Blocks)
  BY <1>2
<1>4. /\ mine.file = f /\ mine.before = old /\ mine.data = << >> /\ mine.offset = 0
      /\ mine.appending = append
  OBVIOUS
<1>5. ~append => old = << >>
  OBVIOUS
<1> HIDE DEF mine, f, old, append
<1>6. transfer'[s] = mine /\ content'[f] = old
  BY <1>1, <1>2 DEF Disturb
<1>7. UploadOf(s)'
  <2>1. old = old \o << >>
    BY <1>3, ConcatEmptySeq
  <2>2. content'[mine.file] = mine.before \o mine.data
    BY <1>4, <1>6, <2>1
  <2>3. ~mine.appending => mine.before = << >> /\ mine.offset = Len(mine.data)
    BY <1>4, <1>5
  <2> QED BY <1>6, <2>2, <2>3 DEF UploadOf
<1>8. ASSUME NEW r \in Sessions, r # s PROVE UploadOf(r)'
  <2>1. pc'[r] = pc[r]
    BY <1>1, <1>2, <1>8
  <2> SUFFICES ASSUME pc[r] \in {"stor", "receiving"}, ~transfer'[r].disturbed
               PROVE  UploadOf(r)'
    BY <2>1 DEF UploadOf
  <2>2. Transferring(r)
    BY DEF Transferring
  <2>3. /\ transfer'[r] = transfer[r]
        /\ content'[transfer[r].file] = content[transfer[r].file]
    BY <1>1, <1>2, <1>8, <2>2, OthersUndisturbed
  <2> QED BY <1>8, <2>1, <2>3 DEF UploadInv, UploadOf
<1> QED BY <1>7, <1>8 DEF UploadInv

LEMMA UploadReceiving ==
  ASSUME TypeInv, UploadInv, NEW s \in Sessions, receiveBlock(s)
  PROVE  UploadInv'
<1> DEFINE t == transfer[s]
           block == <<t.upload, Len(t.data) + 1>>
           d == Append(t.data, block)
           t2 == [t EXCEPT !.offset = t.offset + 1, !.data = d]
           c == IF t.appending THEN Append(content[t.file], block)
                               ELSE WriteAt(content[t.file], t.offset, block)
<1>1. Transferring(s)
  BY DEF receiveBlock, Transferring
<1>2. /\ t \in Transfers /\ t.file \in Files /\ t.offset \in Nat
      /\ t.data \in Seq(Blocks) /\ t.before \in Seq(Blocks)
      /\ t.upload \in 0..MaxUploads /\ content[t.file] \in Seq(Blocks)
  BY <1>1, TransferType
<1>3. block \in Blocks
  BY <1>2 DEF Blocks
<1>4. d \in Seq(Blocks) /\ t.offset + 1 \in Nat /\ Len(d) = Len(t.data) + 1
  BY <1>2, <1>3
<1>5. /\ content' = [content EXCEPT ![t.file] = c] /\ Disturb(s, t.file, t2)
      /\ UNCHANGED pc /\ pc[s] = "receiving"
  BY DEF receiveBlock, TypeInv, TypeOK
<1>6. t2 = MovedOn(t, t.offset + 1, d)
  BY DEF MovedOn
<1> HIDE DEF c, d, t2
<1>7. /\ t2.data = d /\ t2.file = t.file /\ t2.offset = t.offset + 1
      /\ t2.appending = t.appending /\ t2.before = t.before
      /\ t2.disturbed = t.disturbed
  <2> DEFINE o == t.offset + 1
  <2>1. t \in Transfers /\ o \in Nat /\ d \in Seq(Blocks) /\ t2 = MovedOn(t, o, d)
    BY <1>2, <1>4, <1>6
  <2> HIDE DEF t, o
  <2>2. t2.data = d /\ t2.file = t.file /\ t2.offset = o
    BY <2>1, Moved
  <2>3. t2.appending = t.appending /\ t2.before = t.before
    BY <2>1, Moved
  <2>4. t2.disturbed = t.disturbed
    BY <2>1, Moved
  <2> QED BY <2>2, <2>3, <2>4 DEF o
<1>8. transfer'[s] = t2
  BY <1>5 DEF Disturb
<1>9. content'[t.file] = c
  BY <1>2, <1>5 DEF TypeInv, TypeOK
<1>10. UploadOf(s)'
  <2> SUFFICES ASSUME ~t.disturbed
               PROVE  /\ c = t.before \o d
                      /\ ~t.appending => t.before = << >> /\ t.offset + 1 = Len(d)
    BY <1>7, <1>8, <1>9 DEF UploadOf
  <2>1. /\ content[t.file] = t.before \o t.data
        /\ ~t.appending => t.before = << >> /\ t.offset = Len(t.data)
    BY <1>5 DEF UploadInv, UploadOf
  <2>2. Append(content[t.file], block) = t.before \o d
    <3> DEFINE old == t.before
               new == t.data
    <3>1. old \in Seq(Blocks) /\ new \in Seq(Blocks) /\ block \in Blocks
      BY <1>2, <1>3
    <3>2. content[t.file] = old \o new /\ d = Append(new, block)
      BY <2>1 DEF d
    <3> HIDE DEF old, new, block
    <3>3. Append(old \o new, block) = old \o Append(new, block)
      BY <3>1, AppendAfter
    <3>4. Append(content[t.file], block) = old \o d
      BY <3>2, <3>3, Zenon
    <3> QED BY <3>4 DEF old
  <2>3. CASE t.appending
    BY <2>2, <2>3 DEF c
  <2>4. CASE ~t.appending
    <3>1. content[t.file] = t.data
      BY <1>2, <2>1, <2>4, ConcatEmptySeq
    <3>2. t.offset = Len(content[t.file])
      BY <2>1, <2>4, <3>1
    <3>3. WriteAt(content[t.file], t.offset, block) = Append(content[t.file], block)
      <4> HIDE DEF block, t
      <4> QED BY <1>2, <1>3, <3>2, WriteAtEnd
    <3> QED BY <1>4, <2>1, <2>2, <2>4, <3>3 DEF c
  <2> QED BY <2>3, <2>4
<1>11. ASSUME NEW r \in Sessions, r # s PROVE UploadOf(r)'
  <2> SUFFICES ASSUME pc[r] \in {"stor", "receiving"}, ~transfer'[r].disturbed
               PROVE  UploadOf(r)'
    BY <1>5 DEF UploadOf
  <2>1. Transferring(r)
    BY DEF Transferring
  <2>2. /\ transfer'[r] = transfer[r]
        /\ content'[transfer[r].file] = content[transfer[r].file]
    BY <1>2, <1>5, <1>11, <2>1, OthersUndisturbed
  <2> QED BY <1>5, <1>11, <2>2 DEF UploadInv, UploadOf
<1> QED BY <1>10, <1>11 DEF UploadInv

LEMMA UploadStep == TypeInv /\ TypeInv' /\ UploadInv /\ [Next]_vars => UploadInv'
<1> SUFFICES ASSUME TypeInv, TypeInv', UploadInv, [Next]_vars PROVE UploadInv'
  OBVIOUS
<1>T. /\ pc \in [Sessions -> Steps]
      /\ transfer \in [Sessions -> Transfers \union {Nothing}]
  BY DEF TypeInv, TypeOK
<1> USE DEF Goto, EndTransfer, fileSystem
<1>1. ASSUME NEW s \in Sessions, Command(s) PROVE UploadInv'
  BY <1>1, <1>T, UploadKept, UploadStoring
     DEF Command, USER, PASS, DELE, RNFR, RNTO, RETR, REST, APPERefused
<1>2. ASSUME NEW s \in Sessions, Handler(s) PROVE UploadInv'
  BY <1>2, <1>T, UploadKept, UploadReceiving
     DEF Handler, rename, seek, sendBlock, sendDone, openSocket, receiveDone,
         transferFails
<1>3. CASE UNCHANGED vars
  BY <1>3 DEF vars, UploadInv, UploadOf
<1> QED BY <1>1, <1>2, <1>3 DEF Next

(* An upload of any length that no other session disturbs leaves in the    *)
(* file what it found there, followed by what it was sent.                 *)
THEOREM UploadsAreExact == Spec => []UploadIsExact
<1>1. Init => UploadInv
  BY DEF Init, UploadInv, UploadOf
<1>2. TypeInv /\ UploadInv => UploadIsExact
  BY DEF TypeInv, TransfersAreThere, UploadInv, UploadOf, UploadIsExact, Transferring
<1> QED BY <1>1, <1>2, UploadStep, TypeInvariant, PTL DEF Spec

(* A download has sent what lies between the position of REST and the      *)
(* position of its file object.                                            *)
SentFrom(data, before, from) ==
  \A i \in DOMAIN data : from + i \in DOMAIN before /\ data[i] = before[from + i]

DownloadOf(s) ==
  pc[s] \in {"retr", "sending"} /\ ~transfer[s].disturbed =>
    /\ content[transfer[s].file] = transfer[s].before
    /\ SentFrom(transfer[s].data, transfer[s].before, transfer[s].from)
    /\ pc[s] = "retr" =>
         transfer[s].data = << >> /\ transfer[s].from = startingPosition[s]
    /\ pc[s] = "sending" =>
         /\ transfer[s].from \in Nat
         /\ transfer[s].offset = transfer[s].from + Len(transfer[s].data)

DownloadInv == \A s \in Sessions : DownloadOf(s)

LEMMA SentGrows ==
  ASSUME NEW seq \in Seq(Blocks), NEW data \in Seq(Blocks), NEW from \in Nat,
         SentFrom(data, seq, from), from + Len(data) + 1 <= Len(seq)
  PROVE  SentFrom(Append(data, seq[from + Len(data) + 1]), seq, from)
<1> DEFINE k == Len(data)
           b == seq[from + k + 1]
           d == Append(data, b)
<1>1. k \in Nat /\ DOMAIN data = 1..k /\ DOMAIN seq = 1..Len(seq) /\ b \in Blocks
  OBVIOUS
<1>2. /\ DOMAIN d = 1..(k + 1) /\ d[k + 1] = b
      /\ \A i \in 1..k : d[i] = data[i]
  BY <1>1, AppendProperties
<1> HIDE DEF d
<1>3. \A i \in 1..k : from + i \in DOMAIN seq /\ d[i] = seq[from + i]
  BY <1>1, <1>2 DEF SentFrom
<1>4. from + (k + 1) \in DOMAIN seq /\ d[k + 1] = seq[from + (k + 1)]
  BY <1>1, <1>2
<1>5. \A i \in 1..(k + 1) : i \in 1..k \/ i = k + 1
  BY <1>1
<1>6. SentFrom(d, seq, from)
  <2> HIDE DEF k, b
  <2> QED BY <1>2, <1>3, <1>4, <1>5 DEF SentFrom
<1> QED BY <1>6 DEF d

(* Sessions other than s, which does not change the file system.           *)
LEMMA DownloadKept ==
  ASSUME TypeInv, DownloadInv, UNCHANGED content, NEW s \in Sessions,
         DownloadOf(s)',
         \A r \in Sessions \ {s} :
           /\ pc'[r] = pc[r] /\ transfer'[r] = transfer[r]
           /\ startingPosition'[r] = startingPosition[r]
  PROVE  DownloadInv'
  BY DEF DownloadInv, DownloadOf

LEMMA DownloadStarts ==
  ASSUME TypeInv, DownloadInv, NEW s \in Sessions, NEW n \in Names, RETR(s, n)
  PROVE  DownloadInv'
<1> DEFINE mine ==
      [command |-> "RETR", file |-> names[n], upload |-> 0, offset |-> 0,
       appending |-> FALSE, before |-> content[names[n]], data |-> << >>,
       from |-> startingPosition[s], disturbed |-> FALSE]
<1>1. /\ transfer' = [transfer EXCEPT ![s] = mine] /\ pc' = [pc EXCEPT ![s] = "retr"]
      /\ UNCHANGED <<content, startingPosition>>
  BY DEF RETR, Goto, fileSystem
<1>2. /\ mine.file = names[n] /\ mine.before = content[names[n]]
      /\ mine.data = << >> /\ mine.from = startingPosition[s]
  OBVIOUS
<1> HIDE DEF mine
<1>3. /\ transfer'[s] = mine /\ pc'[s] = "retr"
      /\ \A r \in Sessions \ {s} : pc'[r] = pc[r] /\ transfer'[r] = transfer[r]
  BY <1>1 DEF TypeInv, TypeOK
<1>4. SentFrom(mine.data, mine.before, mine.from)
  BY <1>2 DEF SentFrom
<1>5. DownloadOf(s)'
  BY <1>1, <1>2, <1>3, <1>4 DEF DownloadOf
<1> QED BY <1>1, <1>3, <1>5, DownloadKept

LEMMA DownloadSeeks ==
  ASSUME TypeInv, DownloadInv, NEW s \in Sessions, seek(s)
  PROVE  DownloadInv'
<1>1. /\ UNCHANGED content
      /\ \A r \in Sessions \ {s} :
           /\ pc'[r] = pc[r] /\ transfer'[r] = transfer[r]
           /\ startingPosition'[r] = startingPosition[r]
  BY DEF seek, EndTransfer, Goto, fileSystem, TypeInv, TypeOK
<1>2. CASE startingPosition[s] >= 0
  <2> DEFINE t == transfer[s]
             mine == [t EXCEPT !.offset = startingPosition[s]]
  <2>1. transfer'[s] = mine /\ pc'[s] = "sending" /\ pc[s] = "retr"
    BY <1>2 DEF seek, Goto, TypeInv, TypeOK
  <2>2. t \in Transfers
    BY <2>1, TransferType DEF Transferring
  <2>3. startingPosition[s] \in Nat
    BY <1>2, PositionType DEF TypeInv
  <2>4. /\ mine.offset = startingPosition[s] /\ mine.data = t.data
        /\ mine.file = t.file /\ mine.before = t.before /\ mine.from = t.from
        /\ mine.disturbed = t.disturbed
    <3> HIDE DEF t
    <3> QED BY <2>2 DEF Transfers
  <2> HIDE DEF mine
  <2>5. ~t.disturbed =>
          /\ content[t.file] = t.before
          /\ SentFrom(t.data, t.before, t.from)
          /\ t.data = << >> /\ t.from = startingPosition[s]
    BY <2>1 DEF DownloadInv, DownloadOf
  <2>6. ~t.disturbed =>
          t.from \in Nat /\ startingPosition[s] = t.from + Len(t.data)
    BY <2>3, <2>5
  <2>7. DownloadOf(s)'
    BY <1>1, <2>1, <2>4, <2>5, <2>6 DEF DownloadOf
  <2> QED BY <1>1, <2>7, DownloadKept
<1>3. CASE ~(startingPosition[s] >= 0)
  <2>1. pc'[s] = "idle"
    BY <1>3 DEF seek, EndTransfer, Goto, TypeInv, TypeOK
  <2> QED BY <1>1, <2>1, DownloadKept DEF DownloadOf
<1> QED BY <1>2, <1>3

LEMMA DownloadSends ==
  ASSUME TypeInv, DownloadInv, NEW s \in Sessions, sendBlock(s)
  PROVE  DownloadInv'
<1> DEFINE t == transfer[s]
           d == Append(t.data, content[t.file][t.offset + 1])
           t2 == [t EXCEPT !.offset = t.offset + 1, !.data = d]
<1>1. Transferring(s) /\ pc[s] = "sending"
  BY DEF sendBlock, Transferring
<1>2. /\ t \in Transfers /\ t.offset \in Nat /\ t.data \in Seq(Blocks)
      /\ t.before \in Seq(Blocks) /\ content[t.file] \in Seq(Blocks)
  BY <1>1, TransferType
<1>3. t.offset + 1 <= Len(content[t.file])
  BY <1>2 DEF sendBlock, AtEnd
<1>4. /\ transfer'[s] = t2 /\ UNCHANGED <<content, pc, startingPosition>>
      /\ \A r \in Sessions \ {s} : transfer'[r] = transfer[r]
  BY DEF sendBlock, fileSystem, TypeInv, TypeOK
<1>5. /\ t2.offset = t.offset + 1 /\ t2.data = d /\ t2.file = t.file
      /\ t2.before = t.before /\ t2.from = t.from /\ t2.disturbed = t.disturbed
  <2> HIDE DEF t, d
  <2> QED BY <1>2 DEF Transfers
<1> HIDE DEF t2
<1>6. ASSUME ~t.disturbed
      PROVE  /\ content[t.file] = t.before
             /\ SentFrom(d, t.before, t.from)
             /\ t.from \in Nat /\ t.offset + 1 = t.from + Len(d)
  <2>1. /\ content[t.file] = t.before
        /\ SentFrom(t.data, t.before, t.from)
        /\ t.from \in Nat /\ t.offset = t.from + Len(t.data)
    BY <1>1, <1>6 DEF DownloadInv, DownloadOf
  <2> DEFINE k == Len(t.data)
  <2>2. k \in Nat /\ t.from + k + 1 <= Len(t.before) /\ t.offset + 1 = t.from + k + 1
    BY <1>2, <1>3, <2>1
  <2>3. content[t.file][t.offset + 1] \in Blocks
    BY <1>2, <1>3
  <2>4. Len(d) = k + 1
    BY <1>2, <2>3
  <2>5. SentFrom(d, t.before, t.from)
    <3>1. d = Append(t.data, t.before[t.from + Len(t.data) + 1])
      BY <2>1, <2>2
    <3> HIDE DEF t, d
    <3> QED BY <1>2, <2>1, <2>2, <3>1, SentGrows DEF k
  <2>6. t.from + Len(d) = t.from + k + 1
    <3> HIDE DEF t, d, k
    <3> QED BY <2>1, <2>2, <2>4
  <2> HIDE DEF d, k
  <2> QED BY <2>1, <2>2, <2>5, <2>6
<1> HIDE DEF d
<1>7. DownloadOf(s)'
  BY <1>1, <1>4, <1>5, <1>6 DEF DownloadOf
<1> QED BY <1>4, <1>7, DownloadKept

(* An upload does not end the download of another session undisturbed if   *)
(* it has changed the file.                                                *)
LEMMA DownloadAmongUploads ==
  ASSUME TypeInv, DownloadInv, NEW s \in Sessions, NEW f \in Files, NEW c, NEW mine,
         Disturb(s, f, mine), content' = [content EXCEPT ![f] = c],
         pc'[s] \notin {"retr", "sending"}, UNCHANGED startingPosition,
         \A r \in Sessions \ {s} : pc'[r] = pc[r]
  PROVE  DownloadInv'
<1> SUFFICES ASSUME NEW r \in Sessions, r # s, pc[r] \in {"retr", "sending"},
                    ~transfer'[r].disturbed
             PROVE  DownloadOf(r)'
  BY DEF DownloadInv, DownloadOf
<1>1. Transferring(r)
  BY DEF Transferring
<1>2. /\ transfer'[r] = transfer[r]
      /\ content'[transfer[r].file] = content[transfer[r].file]
  BY <1>1, OthersUndisturbed
<1> QED BY <1>2 DEF DownloadInv, DownloadOf

(* The file of a STOR, and the one that a block is written to.             *)
LEMMA StorChanges ==
  ASSUME TypeInv, TypeInv', NEW s \in Sessions, NEW n \in Names,
         NEW command \in {"STOR", "APPE"}, STOR(s, command, n)
  PROVE  \E f \in Files : \E c, mine :
           content' = [content EXCEPT ![f] = c] /\ Disturb(s, f, mine)
<1> DEFINE f == IF names[n] = Nothing THEN uploads + 1 ELSE names[n]
<1>1. /\ names' = [names EXCEPT ![n] = f]
      /\ \E c, mine : content' = [content EXCEPT ![f] = c] /\ Disturb(s, f, mine)
  BY DEF STOR
<1>2. f \in Files
  <2>1. names' \in [Names -> Files \union {Nothing}] /\ names'[n] = f
    BY <1>1 DEF TypeInv, TypeOK
  <2>2. f # Nothing
    BY NothingAssumption, BoundsAssumption DEF TypeInv, TypeOK
  <2> QED BY <2>1, <2>2
<1> HIDE DEF f
<1> QED BY <1>1, <1>2

LEMMA BlockChanges ==
  ASSUME TypeInv, NEW s \in Sessions, receiveBlock(s)
  PROVE  \E f \in Files : \E c, mine :
           content' = [content EXCEPT ![f] = c] /\ Disturb(s, f, mine)
<1>1. Transferring(s)
  BY DEF receiveBlock, Transferring
<1>2. transfer[s].file \in Files
  BY <1>1, TransferType
<1> QED BY <1>2 DEF receiveBlock

LEMMA DownloadStep == TypeInv /\ TypeInv' /\ DownloadInv /\ [Next]_vars => DownloadInv'
<1> SUFFICES ASSUME TypeInv, TypeInv', DownloadInv, [Next]_vars PROVE DownloadInv'
  OBVIOUS
<1>T. /\ pc \in [Sessions -> Steps]
      /\ transfer \in [Sessions -> Transfers \union {Nothing}]
      /\ startingPosition \in [Sessions -> Positions \union {0}]
  BY DEF TypeInv, TypeOK
<1> USE DEF Goto, EndTransfer, fileSystem
(* Steps of a session that then has no download under way. *)
<1>I. ASSUME NEW s \in Sessions, UNCHANGED content, pc'[s] \notin {"retr", "sending"},
             \A r \in Sessions \ {s} :
               /\ pc'[r] = pc[r] /\ transfer'[r] = transfer[r]
               /\ startingPosition'[r] = startingPosition[r]
      PROVE  DownloadInv'
  BY <1>I, DownloadKept DEF DownloadOf
<1>1. ASSUME NEW s \in Sessions, NEW b \in BOOLEAN, USER(s, b) \/ PASS(s, b)
      PROVE  DownloadInv'
  BY <1>1, <1>I DEF USER, PASS
<1>2. ASSUME NEW s \in Sessions, NEW n \in Names, DELE(s, n) \/ RNFR(s, n) \/ RNTO(s, n)
      PROVE  DownloadInv'
  BY <1>2, <1>I, <1>T DEF DELE, RNFR, RNTO, Ready
<1>3. ASSUME NEW s \in Sessions, NEW position \in Positions, REST(s, position)
      PROVE  DownloadInv'
  BY <1>3, <1>I, <1>T DEF REST, Ready
<1>4. ASSUME NEW s \in Sessions, NEW n \in Names, NEW command \in {"STOR", "APPE"},
             STOR(s, command, n)
      PROVE  DownloadInv'
  <2>1. /\ pc'[s] = "stor" /\ UNCHANGED startingPosition
        /\ \A r \in Sessions \ {s} : pc'[r] = pc[r]
    BY <1>4, <1>T DEF STOR
  <2> QED BY <1>4, <2>1, StorChanges, DownloadAmongUploads
<1>5. ASSUME NEW s \in Sessions, receiveBlock(s) PROVE DownloadInv'
  <2>1. pc'[s] = "receiving" /\ UNCHANGED <<pc, startingPosition>>
    BY <1>5 DEF receiveBlock
  <2> QED BY <1>5, <2>1, BlockChanges, DownloadAmongUploads
<1>6. ASSUME NEW s \in Sessions, APPERefused(s) \/ openSocket(s) PROVE DownloadInv'
  BY <1>6, <1>I, <1>T DEF APPERefused, openSocket
<1>7. ASSUME NEW s \in Sessions,
             rename(s) \/ sendDone(s) \/ receiveDone(s) \/ transferFails(s)
      PROVE  DownloadInv'
  BY <1>7, <1>I, <1>T DEF rename, sendDone, receiveDone, transferFails
<1>8. CASE UNCHANGED vars
  BY <1>8 DEF vars, DownloadInv, DownloadOf
<1> QED
  BY <1>1, <1>2, <1>3, <1>4, <1>5, <1>6, <1>7, <1>8,
     DownloadStarts, DownloadSeeks, DownloadSends
     DEF Next, Command, Handler

(* A position is used up by the download that seeks to it: no command is   *)
(* taken while the file is sent.                                           *)
PositionInv == \A s \in Sessions : pc[s] = "sending" => startingPosition[s] = 0

LEMMA PositionStep == TypeInv /\ PositionInv /\ [Next]_vars => PositionInv'
<1> SUFFICES ASSUME TypeInv, PositionInv, [Next]_vars PROVE PositionInv'
  OBVIOUS
<1>T. pc \in [Sessions -> Steps] /\ startingPosition \in [Sessions -> Positions \union {0}]
  BY DEF TypeInv, TypeOK
<1> USE <1>T DEF PositionInv, Goto, EndTransfer, fileSystem, Ready
<1>1. ASSUME NEW s \in Sessions, NEW b \in BOOLEAN, USER(s, b) \/ PASS(s, b)
      PROVE  PositionInv'
  BY <1>1 DEF USER, PASS
<1>2. ASSUME NEW s \in Sessions, NEW n \in Names,
             DELE(s, n) \/ RNFR(s, n) \/ RNTO(s, n) \/ RETR(s, n)
      PROVE  PositionInv'
  BY <1>2 DEF DELE, RNFR, RNTO, RETR
<1>3. ASSUME NEW s \in Sessions, NEW position \in Positions, REST(s, position)
      PROVE  PositionInv'
  BY <1>3 DEF REST
<1>4. ASSUME NEW s \in Sessions, NEW n \in Names, NEW command \in {"STOR", "APPE"},
             STOR(s, command, n)
      PROVE  PositionInv'
  BY <1>4 DEF STOR
<1>5. ASSUME NEW s \in Sessions, seek(s) PROVE PositionInv'
  BY <1>5 DEF seek
<1>6. ASSUME NEW s \in Sessions, APPERefused(s) \/ openSocket(s) \/ rename(s) PROVE PositionInv'
  BY <1>6 DEF APPERefused, openSocket, rename
<1>7. ASSUME NEW s \in Sessions, sendBlock(s) \/ sendDone(s) \/ receiveBlock(s)
      PROVE  PositionInv'
  BY <1>7 DEF sendBlock, sendDone, receiveBlock
<1>8. ASSUME NEW s \in Sessions, receiveDone(s) \/ transferFails(s)
      PROVE  PositionInv'
  BY <1>8 DEF receiveDone, transferFails
<1>9. CASE UNCHANGED vars
  BY <1>9 DEF vars
<1> QED
  BY <1>1, <1>2, <1>3, <1>4, <1>5, <1>6, <1>7, <1>8, <1>9 DEF Next, Command, Handler

(* A download of any length from any position that no session disturbs     *)
(* sends the file, block by block, from the position of the last REST on,  *)
(* and no later download starts from that position.                        *)
THEOREM DownloadsAreExact == Spec => []DownloadIsExact
<1>1. Init => DownloadInv
  BY DEF Init, DownloadInv, DownloadOf
<1>2. Init => PositionInv
  BY DEF Init, PositionInv
<1>3. TypeInv /\ DownloadInv /\ PositionInv => DownloadIsExact
  BY DEF TypeInv, TransfersAreThere, DownloadInv, DownloadOf, PositionInv, DownloadIsExact,
         SentFrom, Transferring
<1> QED BY <1>1, <1>2, <1>3, DownloadStep, PositionStep, TypeInvariant, PTL DEF Spec
=============================================================================
