--------------------------- MODULE PortAllocator ---------------------------
(***************************************************************************)
(* What the pool of passive ports in Code/utils.py promises its callers:   *)
(* a port has at most one owner, and a session owns at most one port.  The *)
(* module says nothing of how the pool is kept; PassiveMode implements it  *)
(* for the clients described there.                                        *)
(***************************************************************************)
CONSTANTS
  Sessions,   (* the command sessions that ask for ports *)
  Ports,      (* the ports of the pool                   *)
  Nobody      (* owner of a port in the pool; no session *)

VARIABLE owner   (* owner[p] is the session that was given p, or Nobody *)

OwnsNothing(s) == \A p \in Ports : owner[p] # s

Init == owner = [p \in Ports |-> Nobody]

(* getPortFromPool: hand out a port nobody owns. *)
Take(s, p) ==
  /\ owner[p] = Nobody
  /\ OwnsNothing(s)
  /\ owner' = [owner EXCEPT ![p] = s]

(* returnPortToPool: the owner, and nobody else, gives its port back. *)
Release(s, p) ==
  /\ owner[p] = s
  /\ owner' = [owner EXCEPT ![p] = Nobody]

Next == \E s \in Sessions, p \in Ports : Take(s, p) \/ Release(s, p)

Spec == Init /\ [][Next]_owner

TypeOK == owner \in [Ports -> Sessions \union {Nobody}]
=============================================================================
