-------------------------------- MODULE Logins --------------------------------
(* What signing in promises, apart from how submissions are handled: a factor  *)
(* is passed by a person in an attempt, a code counts for a later time step    *)
(* than any code of that person before it, and an attempt is granted one       *)
(* session, for somebody who passed in it every factor the session states and  *)
(* every factor they owe.                                                      *)
EXTENDS Naturals, Sequences

CONSTANTS Attempt, Person, Factor, Owed(_)

VARIABLES
    passed,   \* who passed which factor in each attempt
    spent,    \* the time step of each person's last code
    session   \* the sessions granted, in order

vars == <<passed, spent, session>>

Init ==
    /\ passed = [a \in Attempt |-> {}]
    /\ spent = [p \in Person |-> 0]
    /\ session = <<>>

\* Nobody else's codes are touched, and the one just used is a later one.
UseCode(p) ==
    /\ spent' \in [Person -> Nat]
    /\ spent'[p] > spent[p]
    /\ \A q \in Person \ {p} : spent'[q] = spent[q]

PassFactor(a, p, f) ==
    /\ passed' = [passed EXCEPT ![a] = @ \union {<<p, f>>}]
    /\ IF f = "otp" THEN UseCode(p) ELSE UNCHANGED spent
    /\ UNCHANGED session

Grant(a, p, amr) ==
    /\ \A i \in DOMAIN session : session[i].attempt # a
    /\ Owed(p) \subseteq amr
    /\ \A f \in amr : <<p, f>> \in passed[a]
    /\ session' = Append(session, [attempt |-> a, subject |-> p, amr |-> amr])
    /\ UNCHANGED <<passed, spent>>

Next ==
    \E a \in Attempt, p \in Person :
        \/ \E f \in Factor : PassFactor(a, p, f)
        \/ \E amr \in SUBSET Factor : Grant(a, p, amr)

Spec == Init /\ [][Next]_vars
=============================================================================
