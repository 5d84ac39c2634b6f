---------------------------- MODULE MCUserService ----------------------------
(***************************************************************************)
(* Instances of UserService for TLC.                                       *)
(***************************************************************************)
EXTENDS UserService, TLC

\* Requests, persons and emails are interchangeable.
Interchangeable ==
    Permutations(Request) \union Permutations(Person) \union Permutations(Email)

=============================================================================
