----------------------------- MODULE MCSession -----------------------------
(***************************************************************************)
(* Session with small sets: the users begin as administrators.             *)
(***************************************************************************)
EXTENDS Session, TLC

Administrator(u) == [password |-> CHOOSE p \in Passwords : TRUE, role |-> "admin",
                     active |-> TRUE]

\* Neither users nor tabs differ.
UsersAndTabs == Permutations(Users) \cup Permutations(Tabs)
=============================================================================
