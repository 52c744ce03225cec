---------------------------- MODULE MCRecordApi ----------------------------
(* RecordApi with interchangeable tasks and users. *)
EXTENDS RecordApi, TLC

(* Anyone signs up, users manage themselves, posts belong to their author, *)
(* only superusers delete a user.                                          *)
Sets == {[users |-> [create |-> "public", update |-> "owner", delete |-> "superusers",
                     view |-> "public", manage |-> "owner"],
          posts |-> [create |-> "owner", update |-> "owner", delete |-> "owner",
                     view |-> "owner", manage |-> "superusers"]]}

Sym == Permutations(Tasks) \cup Permutations(Users)
=============================================================================
