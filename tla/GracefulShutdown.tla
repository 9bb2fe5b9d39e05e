-------------------------- MODULE GracefulShutdown --------------------------
(***************************************************************************)
(* What the server in Code/ftp_server.py promises when it is stopped: a    *)
(* session is dismissed only after the administrator has asked for the     *)
(* end, and the server closes when every client it has taken on has had    *)
(* its goodbye.  The module knows no threads, no flag and no list of       *)
(* names; ServerLifecycle implements it.                                   *)
(***************************************************************************)
CONSTANT Clients

VARIABLES
  asked,      (* the administrator has asked for the end      *)
  closed,     (* the server has made up its mind to close     *)
  served,     (* the clients the server has taken on          *)
  dismissed,  (* those it sends away, who wait for a goodbye  *)
  parted      (* those who have had a goodbye                 *)

Init ==
  /\ asked = FALSE /\ closed = FALSE
  /\ served = {} /\ dismissed = {} /\ parted = {}

(* A client is taken on, perhaps one who was at the door when it closed.   *)
Serve(c) ==
  /\ c \notin served
  /\ served' = served \union {c}
  /\ UNCHANGED <<asked, closed, dismissed, parted>>

Ask ==
  /\ ~asked /\ asked' = TRUE
  /\ UNCHANGED <<closed, served, dismissed, parted>>

Dismiss(c) ==
  /\ asked
  /\ c \in served \ dismissed
  /\ dismissed' = dismissed \union {c}
  /\ UNCHANGED <<asked, closed, served, parted>>

(* The goodbye, to a client who asked for it or was dismissed.             *)
Part(c) ==
  /\ c \in served
  /\ dismissed' = dismissed \ {c}
  /\ parted' = parted \union {c}
  /\ UNCHANGED <<asked, closed, served>>

Close ==
  /\ asked /\ ~closed /\ closed' = TRUE
  /\ served \subseteq parted
  /\ UNCHANGED <<asked, served, dismissed, parted>>

Next == Ask \/ Close \/ \E c \in Clients : Serve(c) \/ Dismiss(c) \/ Part(c)

Spec == Init /\ [][Next]_<<asked, closed, served, dismissed, parted>>

TypeOK ==
  /\ asked \in BOOLEAN /\ closed \in BOOLEAN
  /\ served \subseteq Clients /\ dismissed \subseteq served /\ parted \subseteq served
=============================================================================
