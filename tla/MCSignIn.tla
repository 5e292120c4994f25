------------------------------- MODULE MCSignIn -------------------------------
(* SignIn on small instances: two people, one of them with a second factor.    *)
EXTENDS SignIn, TLC

CONSTANTS alice, bob, a1, a2

Tabs == Permutations(Tab)

\* One attempt whose hint names Bob, and one for anybody.
OneHinted == a1 :> bob @@ a2 :> None
Anybody == [a \in Attempt |-> None]
=============================================================================
