---------------------------- MODULE MCRecordAuth ----------------------------
(* The instance of RecordAuth that TLC explores.                           *)
EXTENDS RecordAuth, TLC

Sym == Permutations(Requests) \cup Permutations(Pws) \cup Permutations(Keys)
       \cup Permutations(Emails)
=============================================================================
