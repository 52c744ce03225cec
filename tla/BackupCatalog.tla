---------------------------- MODULE BackupCatalog ----------------------------
(***************************************************************************)
(* What the local backups promise: a catalog that names at most one file   *)
(* per key.  A file appears under a free key and is never replaced; a      *)
(* deletion takes one file away and touches no other.  A restart may show  *)
(* files whose creation or deletion nobody was told of.                    *)
(***************************************************************************)
CONSTANTS Keys, Files, NoFile

VARIABLE catalog

Init == catalog = [k \in Keys |-> NoFile]

Appear ==
    /\ catalog' \in [Keys -> Files \cup {NoFile}]
    /\ \A k \in Keys : catalog[k] # NoFile => catalog'[k] = catalog[k]

Delete ==
    \E k \in Keys : catalog[k] # NoFile /\ catalog' = [catalog EXCEPT ![k] = NoFile]

Next == Appear \/ Delete

Spec == Init /\ [][Next]_catalog
=============================================================================
