---------------------------- MODULE MCTokenRequests ----------------------------
(* TokenRequests on small instances: two requests of one console session, one  *)
(* of another and two direct requests; or direct requests alone.               *)
EXTENDS TokenRequests, TLC

CONSTANTS c1, c2, c3, s1, s2

TwoTabsAndAnother == c1 :> s1 @@ c2 :> s1 @@ c3 :> s2
NoCalls == [c \in {} |-> None]
=============================================================================
