--------------------------- MODULE MCAccounts ---------------------------
(***************************************************************************)
(* Small instances of the account of a seller: what it pays (Billing) and   *)
(* whom it lets in (StoreAccess).  The two share no row, so a behaviour is  *)
(* one of either: part says which.                                         *)
(***************************************************************************)
EXTENDS Billing, StoreAccess, TLC

CONSTANTS r1, r2, both, e1, e2

VARIABLE part

Symmetry == Permutations({r1, r2}) \cup Permutations({e1, e2})

MCInit ==
  /\ Init /\ AccessInit
  /\ \/ part = "billing" /\ users = {}
     \/ part = "access"

MCNext ==
  /\ UNCHANGED part
  /\ \/ part = "billing" /\ Next /\ UNCHANGED accessVars
     \/ part = "access" /\ AccessNext /\ UNCHANGED vars

MCSpec == MCInit /\ [][MCNext]_<<vars, accessVars, part>>
=============================================================================
