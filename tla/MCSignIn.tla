------------------------------ MODULE MCSignIn ------------------------------
(* A legacy user and two new ones, two Google identities, two callbacks.    *)
EXTENDS SignIn, TLC

Symmetry == Permutations(Callbacks) \cup Permutations(Attempts) \cup Permutations(Subjects)
            \cup Permutations(Users \ Legacy)
=============================================================================
