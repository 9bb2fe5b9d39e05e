----------------------------- MODULE FtpSession -----------------------------
(***************************************************************************)
(* The command sessions of the FTP server (Code/ftp_server.py) and the     *)
(* file system they share: login, the state one command leaves for a later *)
(* one (REST, APPE, RNFR), and transfers that interleave with the commands *)
(* of other sessions.  Each session is one thread; a handler is cut where  *)
(* it reads or changes the file system.                                    *)
(*                                                                         *)
(* The file system is the one of Linux: a name refers to a file, an open   *)
(* file stays what it is when its name is deleted or given away, and       *)
(* os.rename replaces a file of the new name.  A file is a sequence of     *)
(* blocks, a block being what the buffer of a file object moves at once: a *)
(* write() reaches the file when the buffer is full or the file is closed. *)
(* The conversion of ASCII mode is left out.  Names are absolute and all   *)
(* in one directory.  Sockets are not represented (PassiveMode has them):  *)
(* a data connection opens or does not, and breaks at any point.           *)
(***************************************************************************)
EXTENDS Integers, Sequences

CONSTANTS
  Sessions,    (* command sessions, one server thread each                 *)
  Names,       (* absolute paths                                           *)
  Existing,    (* the paths at which there is a file at first              *)
  Nothing,     (* Python's None; also where a path leads when no file is   *)
  Positions,   (* arguments of REST                                        *)
  (* bounds *)
  MaxUploads,  (* STOR and APPE commands that open their file              *)
  MaxBlocks    (* blocks of one upload                                     *)

ASSUME NamesAssumption == Existing \subseteq Names /\ Names \cap Nat = {}
ASSUME NothingAssumption == Nothing \notin Names \union Nat
ASSUME PositionsAssumption == Positions \subseteq Int
ASSUME BoundsAssumption == MaxUploads \in Nat /\ MaxBlocks \in Nat

VARIABLES
  names,           (* path -> the file it refers to, or Nothing            *)
  content,         (* file -> its blocks                                   *)
  uploads,         (* uploads opened so far; each one's blocks are its own *)
  login,           (* per session: username and authenticated, see Logins  *)
  isAppend,
  startingPosition,
  fileRenameFrom,
  fileRenameTo,    (* argument of the RNTO that is being carried out       *)
  pc,              (* per session: the next step of the running handler    *)
  transfer         (* per session: the transfer under way, see Transfers   *)

renaming == <<fileRenameFrom, fileRenameTo>>
fileSystem == <<names, content, uploads>>
vars == <<fileSystem, login, isAppend, startingPosition, renaming, pc, transfer>>

(* "stor" and "retr" have opened the file and call openSocket next,        *)
(* "receiving" and "sending" move data, "rename" has found the new name    *)
(* free.                                                                   *)
Steps == {"idle", "stor", "receiving", "retr", "sending", "rename"}

(* "named": USER has named DEFAULT_USER.  Nothing undoes a login, and the  *)
(* name does not matter after it.                                          *)
Logins == {"none", "named", "authenticated"}

(* Files are numbered by the upload that created them; those that exist at *)
(* first are told apart by their paths.                                    *)
Files == Names \union (1..MaxUploads)

(* Block i of upload u is <<u, i>>; 0 stands for the files of the start.   *)
Blocks == (0..MaxUploads) \X Nat
Hole == <<0, 0>>

(* offset is the position of the file object; appending, that it writes at *)
(* the end of the file ("ab").  The other fields are history: before is    *)
(* what the file held when it was opened, data the blocks moved so far,    *)
(* from the position RETR was to start at, and disturbed that another      *)
(* session has changed the file since.                                     *)
Transfers ==
  [command : {"STOR", "APPE", "RETR"}, file : Files, upload : 0..MaxUploads,
   offset : Nat, appending : BOOLEAN, before : Seq(Blocks), data : Seq(Blocks),
   from : Int, disturbed : BOOLEAN]

TypeOK ==
  /\ names \in [Names -> Files \union {Nothing}]
  /\ content \in [Files -> Seq(Blocks)]
  /\ uploads \in 0..MaxUploads
  /\ login \in [Sessions -> Logins]
  /\ isAppend \in [Sessions -> BOOLEAN]
  /\ startingPosition \in [Sessions -> Positions \union {0}]
  /\ fileRenameFrom \in [Sessions -> Names \union {Nothing}]
  /\ fileRenameTo \in [Sessions -> Names \union {Nothing}]
  /\ pc \in [Sessions -> Steps]
  /\ transfer \in [Sessions -> Transfers \union {Nothing}]

Init ==
  /\ names = [n \in Names |-> IF n \in Existing THEN n ELSE Nothing]
  /\ content = [f \in Files |-> IF f \in Existing THEN << <<0, 1>>, <<0, 2>> >> ELSE << >>]
  /\ uploads = 0
  /\ login = [s \in Sessions |-> "none"]
  /\ isAppend = [s \in Sessions |-> FALSE]
  /\ startingPosition = [s \in Sessions |-> 0]
  /\ fileRenameFrom = [s \in Sessions |-> Nothing]
  /\ fileRenameTo = [s \in Sessions |-> Nothing]
  /\ pc = [s \in Sessions |-> "idle"]
  /\ transfer = [s \in Sessions |-> Nothing]

(* Between commands, and isUserAuthenticated does not raise. *)
Ready(s) == pc[s] = "idle" /\ login[s] = "authenticated"

Goto(s, step) == pc' = [pc EXCEPT ![s] = step]

(* The handler is over.                                                    *)
EndTransfer(s) ==
  /\ Goto(s, "idle")
  /\ transfer' = [transfer EXCEPT ![s] = Nothing]

Transferring(s) == pc[s] \in {"stor", "receiving", "retr", "sending"}

(* Session s, whose transfer becomes mine, changes file f: whoever else    *)
(* uses the file is disturbed.                                             *)
Disturb(s, f, mine) ==
  transfer' = [t \in Sessions |->
    IF t = s THEN mine
    ELSE IF Transferring(t) /\ transfer[t].file = f
         THEN [transfer[t] EXCEPT !.disturbed = TRUE]
         ELSE transfer[t]]
-----------------------------------------------------------------------------
(* Login.                                                                  *)

(* Only the default user is remembered; no name at all changes nothing.    *)
USER(s, isDefault) ==
  /\ pc[s] = "idle"
  /\ login[s] # "authenticated"
  /\ login' = [login EXCEPT ![s] = IF isDefault THEN "named" ELSE "none"]
  /\ UNCHANGED <<fileSystem, isAppend, startingPosition, renaming, pc, transfer>>

(* A wrong attempt forgets the name, but not an earlier login.             *)
PASS(s, isCorrect) ==
  /\ pc[s] = "idle"
  /\ login[s] # "authenticated"
  /\ login' = [login EXCEPT ![s] =
       IF isCorrect /\ @ = "named" THEN "authenticated" ELSE "none"]
  /\ UNCHANGED <<fileSystem, isAppend, startingPosition, renaming, pc, transfer>>
-----------------------------------------------------------------------------
(* Names.                                                                  *)

(* A path without a file is answered with 550, as it is when the file goes *)
(* between the test and os.remove (then with 500).                         *)
DELE(s, n) ==
  /\ Ready(s)
  /\ names[n] # Nothing
  /\ names' = [names EXCEPT ![n] = Nothing]
  /\ UNCHANGED <<content, uploads, login, isAppend, startingPosition,
                 renaming, pc, transfer>>

RNFR(s, n) ==
  /\ Ready(s)
  /\ names[n] # Nothing
  /\ fileRenameFrom' = [fileRenameFrom EXCEPT ![s] = n]
  /\ UNCHANGED <<fileSystem, login, isAppend, startingPosition, fileRenameTo, pc,
                 transfer>>

\* Mutant: RNTO without the call of isUserAuthenticated.
RNTOUnauthenticated(s, n) ==
  /\ pc[s] = "idle"
  /\ names[n] = Nothing
  /\ fileRenameTo' = [fileRenameTo EXCEPT ![s] = n]
  /\ Goto(s, "rename")
  /\ UNCHANGED <<fileSystem, login, isAppend, startingPosition, fileRenameFrom,
                 transfer>>

\* Mutant: the new name is not tested.
RNTOUntested(s, n) ==
  /\ Ready(s)
  /\ fileRenameTo' = [fileRenameTo EXCEPT ![s] = n]
  /\ Goto(s, "rename")
  /\ UNCHANGED <<fileSystem, login, isAppend, startingPosition, fileRenameFrom,
                 transfer>>

(* The test of the new name; if there is a file the answer is 550.         *)
RNTO(s, n) ==
  /\ Ready(s)
  /\ names[n] = Nothing
  /\ fileRenameTo' = [fileRenameTo EXCEPT ![s] = n]
  /\ Goto(s, "rename")
  /\ UNCHANGED <<fileSystem, login, isAppend, startingPosition, fileRenameFrom,
                 transfer>>

(* os.rename, which raises when there is no old name or no file with it.   *)
(* fileRenameFrom stays, for this session's next RNTO.                     *)
rename(s) ==
  /\ pc[s] = "rename"
  /\ LET from == fileRenameFrom[s]
         to == fileRenameTo[s]
     IN  IF from \in Names /\ names[from] # Nothing
         THEN names' = [names EXCEPT ![from] = Nothing, ![to] = names[from]]
         ELSE UNCHANGED names
  /\ fileRenameTo' = [fileRenameTo EXCEPT ![s] = Nothing]
  /\ Goto(s, "idle")
  /\ UNCHANGED <<content, uploads, login, isAppend, startingPosition,
                 fileRenameFrom, transfer>>
-----------------------------------------------------------------------------
(* Downloads.                                                              *)

\* Mutant: the argument is kept without int() and is no number.
RESTUnconverted(s, position) ==
  /\ Ready(s)
  /\ startingPosition' = [startingPosition EXCEPT ![s] = Nothing]
  /\ UNCHANGED <<fileSystem, login, isAppend, renaming, pc, transfer>>

(* int() accepts negative positions too.                                   *)
REST(s, position) ==
  /\ Ready(s)
  /\ startingPosition' = [startingPosition EXCEPT ![s] = position]
  /\ UNCHANGED <<fileSystem, login, isAppend, renaming, pc, transfer>>

(* The file is there and is opened; otherwise the answer is 500 and        *)
(* nothing has changed.                                                    *)
RETR(s, n) ==
  /\ Ready(s)
  /\ names[n] # Nothing
  /\ transfer' = [transfer EXCEPT ![s] =
       [command |-> "RETR", file |-> names[n], upload |-> 0, offset |-> 0,
        appending |-> FALSE, before |-> content[names[n]], data |-> << >>,
        from |-> startingPosition[s], disturbed |-> FALSE]]
  /\ Goto(s, "retr")
  /\ UNCHANGED <<fileSystem, login, isAppend, startingPosition, renaming>>

\* Mutant: the position is reset before it is used.
seekAfterReset(s) ==
  /\ pc[s] = "retr"
  /\ transfer' = [transfer EXCEPT ![s].offset = 0]
  /\ startingPosition' = [startingPosition EXCEPT ![s] = 0]
  /\ Goto(s, "sending")
  /\ UNCHANGED <<fileSystem, login, isAppend, renaming>>

(* The data connection is open; seek() raises for a negative position,     *)
(* which stays, and else the next download starts from 0 again.            *)
seek(s) ==
  /\ pc[s] = "retr"
  /\ IF startingPosition[s] >= 0
     THEN /\ transfer' = [transfer EXCEPT ![s].offset = startingPosition[s]]
          /\ startingPosition' = [startingPosition EXCEPT ![s] = 0]
          /\ Goto(s, "sending")
     ELSE EndTransfer(s) /\ UNCHANGED startingPosition
  /\ UNCHANGED <<fileSystem, login, isAppend, renaming>>

AtEnd(s) == transfer[s].offset >= Len(content[transfer[s].file])

(* A buffer is read from the file and sent.                                *)
sendBlock(s) ==
  /\ pc[s] = "sending"
  /\ ~AtEnd(s)
  /\ LET t == transfer[s]
     IN  transfer' = [transfer EXCEPT
           ![s].offset = t.offset + 1,
           ![s].data = Append(t.data, content[t.file][t.offset + 1])]
  /\ UNCHANGED <<fileSystem, login, isAppend, startingPosition, renaming, pc>>

sendDone(s) ==
  /\ pc[s] = "sending"
  /\ AtEnd(s)
  /\ EndTransfer(s)
  /\ UNCHANGED <<fileSystem, login, isAppend, startingPosition, renaming>>
-----------------------------------------------------------------------------
(* Uploads.                                                                *)

(* APPE sets the flag before STOR finds that nobody has logged in, that no *)
(* name is given or that the file cannot be opened.  (A STOR that stops    *)
(* there changes nothing.)                                                 *)
APPERefused(s) ==
  /\ pc[s] = "idle"
  /\ isAppend' = [isAppend EXCEPT ![s] = TRUE]
  /\ UNCHANGED <<fileSystem, login, startingPosition, renaming, pc, transfer>>

(* STOR, and APPE, which sets the flag first: the file is opened, which    *)
(* creates it or, without the flag, empties it.                            *)
STOR(s, command, n) ==
  LET append == isAppend[s] \/ command = "APPE"
      u == uploads + 1
      f == IF names[n] = Nothing THEN u ELSE names[n]
      old == IF append THEN content[f] ELSE << >>
  IN  /\ Ready(s)
      /\ uploads < MaxUploads
      /\ uploads' = u
      /\ names' = [names EXCEPT ![n] = f]
      /\ content' = [content EXCEPT ![f] = old]
      /\ isAppend' = [isAppend EXCEPT ![s] = FALSE]
      /\ Disturb(s, f,
           [command |-> command, file |-> f, upload |-> u, offset |-> 0,
            appending |-> append, before |-> old, data |-> << >>, from |-> 0,
            disturbed |-> FALSE])
      /\ Goto(s, "stor")
      /\ UNCHANGED <<login, startingPosition, renaming>>

(* The data connection is open. *)
openSocket(s) ==
  /\ pc[s] = "stor"
  /\ Goto(s, "receiving")
  /\ UNCHANGED <<fileSystem, login, isAppend, startingPosition, renaming, transfer>>

(* A write at an offset behind the end, which another session has cut off, *)
(* leaves a hole.                                                          *)
WriteAt(blocks, offset, block) ==
  [i \in 1..(IF Len(blocks) > offset THEN Len(blocks) ELSE offset + 1) |->
     IF i = offset + 1 THEN block
     ELSE IF i <= Len(blocks) THEN blocks[i] ELSE Hole]

\* Mutant: every block is written at the beginning of the file.
receiveBlockAtStart(s) ==
  /\ pc[s] = "receiving"
  /\ LET t == transfer[s]
         block == <<t.upload, Len(t.data) + 1>>
     IN  /\ Len(t.data) < MaxBlocks
         /\ content' = [content EXCEPT ![t.file] =
              IF t.appending THEN Append(@, block) ELSE WriteAt(@, 0, block)]
         /\ Disturb(s, t.file, [t EXCEPT !.data = Append(t.data, block)])
  /\ UNCHANGED <<names, uploads, login, isAppend, startingPosition,
                 renaming, pc>>

(* Reads from the socket until the buffer is full, or the last write,      *)
(* which close() makes.                                                    *)
receiveBlock(s) ==
  /\ pc[s] = "receiving"
  /\ LET t == transfer[s]
         block == <<t.upload, Len(t.data) + 1>>
     IN  /\ Len(t.data) < MaxBlocks
         /\ content' = [content EXCEPT ![t.file] =
              IF t.appending THEN Append(@, block) ELSE WriteAt(@, t.offset, block)]
         /\ Disturb(s, t.file, [t EXCEPT !.offset = t.offset + 1,
                                         !.data = Append(t.data, block)])
  /\ UNCHANGED <<names, uploads, login, isAppend, startingPosition,
                 renaming, pc>>

(* The client closes the data connection, whether it has sent everything   *)
(* or has gone away.                                                       *)
receiveDone(s) ==
  /\ pc[s] = "receiving"
  /\ EndTransfer(s)
  /\ UNCHANGED <<fileSystem, login, isAppend, startingPosition, renaming>>

(* openSocket, the file or the data connection raises.                     *)
transferFails(s) ==
  /\ pc[s] \in {"retr", "sending", "stor", "receiving"}
  /\ EndTransfer(s)
  /\ UNCHANGED <<fileSystem, login, isAppend, startingPosition, renaming>>
-----------------------------------------------------------------------------
Command(s) ==
  \/ \E b \in BOOLEAN : USER(s, b) \/ PASS(s, b)
  \/ \E n \in Names : DELE(s, n) \/ RNFR(s, n) \/ RNTO(s, n) \/ RETR(s, n)
  \/ \E position \in Positions : REST(s, position)
  \/ \E n \in Names, command \in {"STOR", "APPE"} : STOR(s, command, n)
  \/ APPERefused(s)

Handler(s) ==
  \/ rename(s)
  \/ seek(s) \/ sendBlock(s) \/ sendDone(s)
  \/ openSocket(s) \/ receiveBlock(s) \/ receiveDone(s)
  \/ transferFails(s)

Next == \E s \in Sessions : Command(s) \/ Handler(s)

Spec == Init /\ [][Next]_vars
-----------------------------------------------------------------------------
(* Properties.                                                             *)

(* As long as nobody has logged in the names in the file system stay as    *)
(* they were, nothing is uploaded, no handler runs and none has named a    *)
(* file to rename, whatever the sessions send (isUserAuthenticated in      *)
(* every handler).                                                         *)
NobodyNothing ==
  (\A s \in Sessions : login[s] # "authenticated") =>
    /\ uploads = 0
    /\ \A n \in Names : names[n] = IF n \in Existing THEN n ELSE Nothing
    /\ \A s \in Sessions : pc[s] = "idle" /\ fileRenameFrom[s] = Nothing

(* "if the file/dir that we try to rename exist then return error message"  *)
(* (RNTO): no step gives a name that leads to a file another file, unless  *)
(* two sessions have logged in; then one may store a file at the new name  *)
(* between the test of the other's RNTO and its os.rename, which replaces  *)
(* it.  No sequence of commands of a single session does.                  *)
Alone ==
  \A s, t \in Sessions :
    login[s] = "authenticated" /\ login[t] = "authenticated" => s = t

AloneReplacesNothing ==
  [][Alone => \A n \in Names : names[n] # Nothing => names'[n] \in {names[n], Nothing}]_vars

(* An upload leaves in its file what it found there and, after it, what    *)
(* it was sent, as long as no other session writes to the file; renaming   *)
(* or deleting it meanwhile does no harm.                                  *)
UploadIsExact ==
  \A s \in Sessions :
    LET t == transfer[s]
    IN  Transferring(s) /\ t.command # "RETR" /\ ~t.disturbed =>
          content[t.file] = t.before \o t.data

(* A download sends the file from the position of the last REST on, as     *)
(* long as no session writes to it; and "so next download will start from  *)
(* the beginning of the file" (RETR) the position serves it alone.         *)
DownloadIsExact ==
  \A s \in Sessions :
    LET t == transfer[s]
    IN  Transferring(s) /\ t.command = "RETR" =>
          /\ pc[s] = "sending" => startingPosition[s] = 0
          /\ ~t.disturbed =>
               /\ content[t.file] = t.before
               /\ \A i \in DOMAIN t.data :
                    t.from + i \in DOMAIN t.before /\ t.data[i] = t.before[t.from + i]
=============================================================================
