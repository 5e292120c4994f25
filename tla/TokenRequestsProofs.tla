-------------------------- MODULE TokenRequestsProofs --------------------------
(* Proofs about token requests, for any number of requests, assertions, console *)
(* sessions and connections.                                                   *)
EXTENDS TokenRequests, FiniteSetTheorems, TLAPS

-----------------------------------------------------------------------------
(* An assertion is used once *)

\* The part of the type invariant the argument needs.
JtiShape ==
    /\ pc \in [Processes -> Stages]
    /\ bearing \in [Direct -> Assertions \union {None}]
    /\ verifiedAt \in [Direct -> Nat]
    /\ spent \subseteq Assertions
    /\ uses \in [Assertions -> Nat]
    /\ served \in [Assertions -> Nat]
    /\ unspent \in [Assertions -> Nat]
    /\ waiting \in Seq(Calls)
    /\ now \in Nat

\* A request past its arrival bears an assertion.
Borne ==
    \A d \in Direct :
        pc[d] \in {"claim", "verified"} \union Working => bearing[d] \in Assertions

\* A request between verification and lookup verified its assertion in time, and
\* not long ago.
Timely ==
    \A d \in Direct : pc[d] = "verified" =>
        /\ verifiedAt[d] < Ttl
        /\ now <= verifiedAt[d] + MaxLookupTicks

InUse(a) == \E d \in Direct : bearing[d] = a /\ pc[d] \in Working

\* The advisory lock: one request at a time works under an assertion.
OneUser ==
    \A d, e \in Direct :
        /\ pc[d] \in Working
        /\ pc[e] \in Working
        /\ bearing[d] = bearing[e]
        => d = e

\* Every use of an assertion but one has ended unspent.  The one that has not is
\* still running, and then the assertion has served nobody; or it is recorded by
\* a row that retention deletes only after the last tick at which the assertion
\* can be looked up.
Ledger ==
    \A a \in Assertions :
        /\ InUse(a) => uses[a] <= 1 + unspent[a] /\ served[a] = 0
        /\ ~InUse(a) => \/ uses[a] <= unspent[a] /\ served[a] = 0
                        \/ uses[a] <= 1 + unspent[a] /\ served[a] <= 1 /\ (a \in spent \/ now > Ttl)

\* What the ledger rests on: a lookup at most one tick after the verification.
PromptLookup == MaxLookupTicks <= 1

JtiInv == JtiShape /\ Borne /\ OneUser /\ Timely /\ (PromptLookup => Ledger)

LEMMA InitJtiInv == Init => JtiInv
<1> SUFFICES ASSUME Init PROVE JtiInv
  OBVIOUS
<1>1. JtiShape
  BY DEF Init, JtiShape, Stages
<1>2. Borne /\ OneUser /\ Timely /\ \A a \in Assertions : ~InUse(a)
  BY DEF Init, Borne, OneUser, Timely, InUse, Working, Processes
<1>3. Ledger
  BY <1>2 DEF Init, Ledger
<1>4. QED
  BY <1>1, <1>2, <1>3 DEF JtiInv

\* A step that changes no direct request and no jti leaves the argument as it was.
LEMMA ElsewhereKeepsJtiInv ==
    ASSUME JtiInv, JtiShape', UNCHANGED <<jtis, now>>, \A d \in Direct : pc'[d] = pc[d]
    PROVE  JtiInv'
<1>1. Borne' /\ OneUser' /\ Timely'
  BY DEF JtiInv, Borne, OneUser, Timely, jtis
<1>2. \A a \in Assertions : InUse(a)' <=> InUse(a)
  BY DEF InUse, jtis
<1>3. PromptLookup => Ledger'
  BY <1>2 DEF JtiInv, Ledger, jtis
<1>4. QED
  BY <1>1, <1>3 DEF JtiInv

LEMMA LandKeepsDirect ==
    ASSUME JtiInv, NEW c \in Calls, NEW n, Land(c, n)
    PROVE  /\ pc' \in [Processes -> Stages]
           /\ waiting' \in Seq(Calls)
           /\ \A d \in Direct : pc'[d] = pc[d]
<1>1. waiting # <<>> => Head(waiting) \in Calls /\ Tail(waiting) \in Seq(Calls)
  BY DEF JtiInv, JtiShape
<1>2. waiting' \in Seq(Calls)
  BY <1>1 DEF Land, JtiInv, JtiShape
<1> DEFINE handed == IF waiting = <<>> THEN {} ELSE {Head(waiting)}
           answered == {c} \union {d \in Calls : pc[d] = "joined" /\ ConsoleOf[d] = ConsoleOf[c]}
<1>3. handed \subseteq Calls /\ answered \subseteq Calls
  BY <1>1
<1>4. pc' = [p \in Processes |-> IF p \in answered THEN "done"
                                 ELSE IF p \in handed THEN "lock" ELSE pc[p]]
  BY DEF Land
<1> HIDE DEF handed, answered
<1>5. pc' \in [Processes -> Stages]
  BY <1>4 DEF JtiInv, JtiShape, Stages
<1>6. \A d \in Direct : pc'[d] = pc[d]
  BY <1>3, <1>4, CallersAssumption DEF Processes
<1>7. QED
  BY <1>2, <1>5, <1>6

LEMMA ConsoleKeepsJtiInv ==
    ASSUME JtiInv, NEW c \in Calls, Call(c) \/ ConsoleStep(c) \/ Fault(c)
    PROVE  JtiInv'
<1> USE DEF Processes
<1>1. c \notin Direct /\ c \in Processes
  BY CallersAssumption
<1>2. CASE \E where \in Stages : Goto(c, where) /\ UNCHANGED <<jtis, now, waiting>>
  <2>1. PICK where \in Stages : Goto(c, where) /\ UNCHANGED <<jtis, now, waiting>>
    BY <1>2
  <2>2. pc' \in [Processes -> Stages] /\ \A d \in Direct : pc'[d] = pc[d]
    BY <1>1, <2>1 DEF Goto, JtiInv, JtiShape
  <2>3. JtiShape'
    BY <2>1, <2>2 DEF JtiInv, JtiShape, jtis
  <2>4. QED
    BY <2>1, <2>2, <2>3, ElsewhereKeepsJtiInv
<1>3. CASE (\E n : Land(c, n)) /\ UNCHANGED <<jtis, now>>
  <2>1. PICK n : Land(c, n)
    BY <1>3
  <2>2. /\ pc' \in [Processes -> Stages]
        /\ waiting' \in Seq(Calls)
        /\ \A d \in Direct : pc'[d] = pc[d]
    BY <2>1, LandKeepsDirect
  <2>3. JtiShape'
    BY <1>3, <2>2 DEF JtiInv, JtiShape, jtis
  <2>4. QED
    BY <1>3, <2>2, <2>3, ElsewhereKeepsJtiInv
<1>4. CASE TakeOff(c) /\ waiting' = Append(waiting, c)
  <2>1. Goto(c, "slot") \/ Goto(c, "lock")
    BY <1>4 DEF TakeOff
  <2>2. pc' \in [Processes -> Stages] /\ \A d \in Direct : pc'[d] = pc[d]
    BY <1>1, <2>1 DEF Goto, JtiInv, JtiShape, Stages
  <2>3. waiting' \in Seq(Calls)
    BY <1>4 DEF JtiInv, JtiShape
  <2>4. UNCHANGED <<jtis, now>>
    BY <1>4 DEF TakeOff
  <2>5. JtiShape'
    BY <2>2, <2>3, <2>4 DEF JtiInv, JtiShape, jtis
  <2>6. QED
    BY <2>2, <2>4, <2>5, ElsewhereKeepsJtiInv
<1>5. CASE Call(c)
  BY <1>2, <1>5 DEF Call, Stages, gateway
<1>6. CASE ConsoleStep(c)
  <2>1. CASE ResolveAnswers(c)
    BY <1>2, <2>1 DEF ResolveAnswers, Stages, gateway
  <2>2. CASE ResolveStale(c)
    BY <1>2, <2>2 DEF ResolveStale, Stages
  <2>3. CASE ResolveLogout(c)
    BY <1>2, <2>3 DEF ResolveLogout, Stages, gateway
  <2>4. CASE Join(c)
    BY <1>2, <2>4 DEF Join, Stages, gateway
  <2>5. CASE TakeOff(c)
    <3>1. CASE waiting' = Append(waiting, c)
      BY <1>4, <2>5, <3>1
    <3>2. CASE UNCHANGED waiting
      BY <1>2, <2>5, <3>2 DEF TakeOff, Stages
    <3>3. QED
      BY <2>5, <3>1, <3>2 DEF TakeOff
  <2>6. CASE LockAnswers(c) \/ Store(c) \/ EndRow(c)
    BY <1>3, <2>6 DEF LockAnswers, Store, EndRow
  <2>7. CASE LockStale(c)
    BY <1>2, <2>7 DEF LockStale, Stages, Locking
  <2>8. CASE Present(c)
    BY <1>2, <2>8 DEF Present, Stages, Locking, gateway
  <2>9. CASE RotateConsole(c)
    BY <1>2, <2>9 DEF RotateConsole, Stages, Locking
  <2>10. CASE TakeBegins(c)
    BY <1>2, <2>10 DEF TakeBegins, Stages, gateway
  <2>11. CASE Take(c)
    BY <1>2, <2>11 DEF Take, Stages
  <2>12. CASE TakeNothing(c)
    BY <1>2, <2>12 DEF TakeNothing, Stages, gateway
  <2>13. CASE Revoke(c)
    BY <1>2, <2>13 DEF Revoke, Stages
  <2>14. QED
    BY <1>6, <2>1, <2>2, <2>3, <2>4, <2>5, <2>6, <2>7, <2>8, <2>9, <2>10, <2>11, <2>12, <2>13
       DEF ConsoleStep
<1>7. CASE Fault(c)
  <2>1. CASE PresentFails(c) \/ MintFails(c) \/ MintRefused(c) \/ LockTimesOut(c)
    BY <1>3, <2>1 DEF PresentFails, MintFails, MintRefused, LockTimesOut
  <2>2. CASE RevokeFails(c)
    BY <1>2, <2>2 DEF RevokeFails, Stages, gateway
  <2>3. QED
    BY <1>7, <2>1, <2>2 DEF Fault
<1>8. QED
  BY <1>5, <1>6, <1>7

\* Before a direct request works, and after, nothing about any assertion changes.
LEMMA IdleKeepsJtiInv ==
    ASSUME JtiInv, NEW d \in Direct,
           Arrive(d) \/ Refuse(d) \/ Verify(d) \/ RefuseReplay(d) \/ RotateDirect(d)
    PROVE  JtiInv'
<1> USE DEF Processes
<1>1. /\ d \in Processes
      /\ \/ pc[d] = "idle" /\ pc' = [pc EXCEPT ![d] = "claim"]
         \/ pc[d] \in {"claim", "verified"} /\ pc' = [pc EXCEPT ![d] = "done"]
         \/ pc[d] = "claim" /\ pc' = [pc EXCEPT ![d] = "verified"]
         \/ pc[d] = "rotate" /\ pc' = [pc EXCEPT ![d] = "settle"]
      /\ UNCHANGED <<spent, uses, served, unspent, waiting, now>>
  BY DEF Arrive, Refuse, Verify, RefuseReplay, RotateDirect, Goto, gateway, jtis
<1>2. \/ /\ pc[d] = "idle" /\ \E a \in Assertions : bearing' = [bearing EXCEPT ![d] = a]
      \/ pc[d] # "idle" /\ bearing' = bearing
  BY DEF Arrive, Refuse, Verify, RefuseReplay, RotateDirect, jtis
<1>3. \/ /\ Verify(d) /\ now < Ttl
         /\ verifiedAt' = [verifiedAt EXCEPT ![d] = now] /\ pc'[d] = "verified"
      \/ /\ pc'[d] # "verified"
         /\ verifiedAt' = [verifiedAt EXCEPT ![d] = 0] \/ verifiedAt' = verifiedAt
  BY BoundsAssumption
     DEF Arrive, Refuse, Verify, RefuseReplay, RotateDirect, Goto, jtis, Expired, JtiInv, JtiShape
<1>4. JtiShape'
  <2>1. pc' \in [Processes -> Stages]
    BY <1>1 DEF JtiInv, JtiShape, Stages, Working
  <2>2. bearing' \in [Direct -> Assertions \union {None}]
    BY <1>2 DEF JtiInv, JtiShape
  <2>3. verifiedAt' \in [Direct -> Nat]
    BY <1>3 DEF JtiInv, JtiShape
  <2>4. QED
    BY <1>1, <2>1, <2>2, <2>3 DEF JtiInv, JtiShape
<1>5. \A e \in Direct : pc'[e] \in Working <=> pc[e] \in Working
  BY <1>1 DEF JtiInv, JtiShape, Working
<1>6. \A e \in Direct : pc[e] \in Working => bearing'[e] = bearing[e]
  BY <1>2 DEF JtiInv, JtiShape, Working
<1>7. Borne'
  BY <1>1, <1>2 DEF JtiInv, JtiShape, Borne, Working
<1>8. OneUser'
  BY <1>5, <1>6 DEF JtiInv, OneUser
<1>9. Timely'
  <2>1. \A e \in Direct \ {d} : pc'[e] = pc[e] /\ verifiedAt'[e] = verifiedAt[e]
    BY <1>1, <1>3 DEF JtiInv, JtiShape
  <2>2. pc'[d] = "verified" => verifiedAt'[d] = now /\ now < Ttl
    BY <1>3 DEF JtiInv, JtiShape
  <2>3. QED
    BY <1>1, <2>1, <2>2, BoundsAssumption DEF JtiInv, JtiShape, Timely
<1>10. \A b \in Assertions : InUse(b)' <=> InUse(b)
  BY <1>5, <1>6 DEF InUse
<1>11. PromptLookup => Ledger'
  BY <1>1, <1>10 DEF JtiInv, Ledger
<1>12. QED
  BY <1>4, <1>7, <1>8, <1>9, <1>11 DEF JtiInv

LEMMA ClaimKeepsJtiInv ==
    ASSUME JtiInv, NEW d \in Direct, Claim(d)
    PROVE  JtiInv'
<1> USE DEF Processes
<1> DEFINE a == bearing[d]
<1>1. /\ pc[d] = "verified" /\ a \notin spent
      /\ \A e \in Direct \ {d} : ~(bearing[e] = a /\ pc[e] \in Working)
      /\ pc' = [pc EXCEPT ![d] = "rotate"] \/ pc' = [pc EXCEPT ![d] = "settle"]
      /\ uses' = [uses EXCEPT ![a] = @ + 1]
      /\ verifiedAt' = [verifiedAt EXCEPT ![d] = 0]
      /\ UNCHANGED <<bearing, spent, served, unspent, waiting, now>>
  BY DEF Claim, Locked, Goto, gateway
<1>2. a \in Assertions
  BY <1>1 DEF JtiInv, Borne
<1>3. JtiShape'
  <2>1. pc' \in [Processes -> Stages]
    BY <1>1 DEF JtiInv, JtiShape, Stages, Working
  <2>2. uses' \in [Assertions -> Nat]
    <3>1. uses \in [Assertions -> Nat] /\ uses[a] + 1 \in Nat
      BY <1>2 DEF JtiInv, JtiShape
    <3>2. QED
      BY <1>1, <3>1
  <2>3. QED
    BY <1>1, <2>1, <2>2 DEF JtiInv, JtiShape
<1>4. pc'[d] \in Working /\ \A e \in Direct \ {d} : pc'[e] = pc[e]
  BY <1>1 DEF JtiInv, JtiShape, Working
<1>5. Borne'
  BY <1>1, <1>2, <1>4 DEF JtiInv, Borne
<1>6. OneUser'
  BY <1>1, <1>4 DEF JtiInv, OneUser
<1>7. ~InUse(a)
  BY <1>1 DEF InUse, Working
<1>8. Timely'
  BY <1>1, <1>4 DEF JtiInv, JtiShape, Timely, Working
<1>9. ASSUME PromptLookup, NEW b \in Assertions
      PROVE  /\ InUse(b)' => uses'[b] <= 1 + unspent'[b] /\ served'[b] = 0
             /\ ~InUse(b)' => \/ uses'[b] <= unspent'[b] /\ served'[b] = 0
                              \/ /\ uses'[b] <= 1 + unspent'[b] /\ served'[b] <= 1
                                 /\ b \in spent' \/ now' > Ttl
  <2> now <= Ttl
    BY <1>1, <1>9, BoundsAssumption DEF JtiInv, JtiShape, Timely, PromptLookup
  <2> uses[a] <= unspent[a] /\ served[a] = 0
    BY <1>1, <1>2, <1>7, <1>9, BoundsAssumption DEF JtiInv, JtiShape, Ledger
  <2>1. CASE b = a
    <3>1. uses'[a] = uses[a] + 1 /\ unspent'[a] = unspent[a] /\ served'[a] = served[a]
      BY <1>1, <1>2 DEF JtiInv, JtiShape
    <3>2. InUse(a)'
      BY <1>1, <1>4 DEF InUse
    <3>3. uses[a] \in Nat /\ unspent[a] \in Nat
      BY <1>2 DEF JtiInv, JtiShape
    <3>4. QED
      BY <1>1, <2>1, <3>1, <3>2, <3>3
  <2>2. CASE b # a
    <3>1. uses'[b] = uses[b] /\ unspent'[b] = unspent[b] /\ served'[b] = served[b]
      BY <1>1, <2>2 DEF JtiInv, JtiShape
    <3>2. InUse(b)' <=> InUse(b)
      BY <1>1, <1>4, <2>2 DEF InUse
    <3>3. spent' = spent /\ now' = now
      BY <1>1
    <3>4. QED
      BY <1>9, <3>1, <3>2, <3>3 DEF JtiInv, Ledger
  <2>3. QED
    BY <2>1, <2>2
<1>10. PromptLookup => Ledger'
  BY <1>9 DEF Ledger
<1>11. QED
  BY <1>3, <1>5, <1>6, <1>8, <1>10 DEF JtiInv

\* A request at work ends: its assertion has a row, or the end is counted unspent.
LEMMA SettleKeepsJtiInv ==
    ASSUME JtiInv, NEW d \in Direct, Serve(d) \/ RefuseSpent(d) \/ LoseSpend(d)
    PROVE  JtiInv'
<1> USE DEF Processes
<1> DEFINE a == bearing[d]
<1>1. /\ pc[d] = "settle" /\ pc' = [pc EXCEPT ![d] = "done"]
      /\ UNCHANGED <<bearing, verifiedAt, uses, waiting, now>>
      /\ \/ /\ spent' = spent \union {a}
            /\ served' = [served EXCEPT ![a] = @ + 1] \/ served' = served
            /\ unspent' = unspent
         \/ /\ spent' = spent /\ served' = served
            /\ unspent' = [unspent EXCEPT ![a] = @ + 1]
  BY DEF Serve, RefuseSpent, LoseSpend, Goto, gateway
<1>2. a \in Assertions
  BY <1>1 DEF JtiInv, Borne, Working
<1>3. JtiShape'
  <2>1. pc' \in [Processes -> Stages] /\ spent' \subseteq Assertions
    BY <1>1, <1>2 DEF JtiInv, JtiShape, Stages
  <2>2. /\ served \in [Assertions -> Nat] /\ served[a] + 1 \in Nat
        /\ unspent \in [Assertions -> Nat] /\ unspent[a] + 1 \in Nat
    BY <1>2 DEF JtiInv, JtiShape
  <2>3. served' \in [Assertions -> Nat] /\ unspent' \in [Assertions -> Nat]
    BY <1>1, <2>2
  <2>4. QED
    BY <1>1, <2>1, <2>3 DEF JtiInv, JtiShape
<1>4. pc'[d] \notin Working /\ \A e \in Direct \ {d} : pc'[e] = pc[e]
  BY <1>1 DEF JtiInv, JtiShape, Working
<1>5. Borne'
  BY <1>1, <1>4 DEF JtiInv, JtiShape, Borne, Working
<1>6. OneUser'
  BY <1>1, <1>4 DEF JtiInv, OneUser
<1>7. InUse(a) /\ ~InUse(a)'
  BY <1>1, <1>4 DEF InUse, JtiInv, OneUser, Working
<1>8. Timely'
  BY <1>1, <1>4 DEF JtiInv, JtiShape, Timely
<1>9. ASSUME PromptLookup, NEW b \in Assertions
      PROVE  /\ InUse(b)' => uses'[b] <= 1 + unspent'[b] /\ served'[b] = 0
             /\ ~InUse(b)' => \/ uses'[b] <= unspent'[b] /\ served'[b] = 0
                              \/ /\ uses'[b] <= 1 + unspent'[b] /\ served'[b] <= 1
                                 /\ b \in spent' \/ now' > Ttl
  <2>0. uses[a] <= 1 + unspent[a] /\ served[a] = 0 /\ uses[a] \in Nat /\ unspent[a] \in Nat
    BY <1>2, <1>7, <1>9 DEF JtiInv, JtiShape, Ledger
  <2>1. CASE b = a
    <3>1. CASE spent' = spent \union {a} /\ unspent' = unspent
      <4>1. served'[a] <= 1
        BY <1>1, <1>2, <2>0, <3>1 DEF JtiInv, JtiShape
      <4>2. QED
        BY <1>1, <1>7, <2>0, <2>1, <3>1, <4>1
    <3>2. CASE served' = served /\ unspent' = [unspent EXCEPT ![a] = @ + 1]
      <4>1. unspent'[a] = unspent[a] + 1
        BY <1>2, <3>2 DEF JtiInv, JtiShape
      <4>2. QED
        BY <1>1, <1>7, <2>0, <2>1, <3>2, <4>1
    <3>3. QED
      BY <1>1, <3>1, <3>2
  <2>2. CASE b # a
    <3>1. /\ uses'[b] = uses[b] /\ unspent'[b] = unspent[b] /\ served'[b] = served[b]
          /\ b \in spent' <=> b \in spent
      BY <1>1, <2>2 DEF JtiInv, JtiShape
    <3>2. InUse(b)' <=> InUse(b)
      BY <1>1, <1>4, <2>2 DEF InUse
    <3>3. QED
      BY <1>1, <1>9, <3>1, <3>2 DEF JtiInv, Ledger
  <2>3. QED
    BY <2>1, <2>2
<1>10. PromptLookup => Ledger'
  BY <1>9 DEF Ledger
<1>11. QED
  BY <1>3, <1>5, <1>6, <1>8, <1>10 DEF JtiInv

LEMMA CrashKeepsJtiInv ==
    ASSUME JtiInv, Crash
    PROVE  JtiInv'
<1> USE DEF Processes
<1> DEFINE Users(a) == {d \in Direct : bearing[d] = a /\ pc[d] \in Working}
<1>1. /\ pc' = [p \in Processes |-> IF pc[p] = "idle" THEN "idle" ELSE "done"]
      /\ unspent' = [a \in Assertions |-> unspent[a] + Cardinality(Users(a))]
      /\ UNCHANGED <<bearing, spent, uses, served, now>>
      /\ waiting' = <<>>
      /\ verifiedAt' = [d \in Direct |-> 0]
  BY DEF Crash
<1>2. ASSUME NEW a \in Assertions
      PROVE  /\ InUse(a) => Cardinality(Users(a)) = 1
             /\ ~InUse(a) => Cardinality(Users(a)) = 0
  <2>1. CASE InUse(a)
    <3>1. PICK d \in Direct : bearing[d] = a /\ pc[d] \in Working
      BY <2>1 DEF InUse
    <3>2. Users(a) = {d}
      BY <3>1 DEF JtiInv, OneUser
    <3>3. QED
      BY <2>1, <3>2, FS_Singleton
  <2>2. CASE ~InUse(a)
    <3>1. Users(a) = {}
      BY <2>2 DEF InUse
    <3>2. QED
      BY <2>2, <3>1, FS_EmptySet
  <2>3. QED
    BY <2>1, <2>2
<1> HIDE DEF Users
<1>3. \A a \in Assertions : Cardinality(Users(a)) \in Nat
  BY <1>2
<1>4. JtiShape'
  <2>1. pc' \in [Processes -> Stages]
    BY <1>1 DEF Stages
  <2>2. ASSUME NEW a \in Assertions PROVE unspent[a] + Cardinality(Users(a)) \in Nat
    <3>1. unspent[a] \in Nat
      BY DEF JtiInv, JtiShape
    <3>2. QED
      BY <1>3, <3>1
  <2>3. unspent' \in [Assertions -> Nat]
    BY <1>1, <2>2
  <2>4. waiting' \in Seq(Calls)
    BY <1>1
  <2>5. QED
    BY <1>1, <2>1, <2>3, <2>4 DEF JtiInv, JtiShape
<1>5. \A d \in Direct : pc'[d] \in {"idle", "done"}
  BY <1>1
<1>6. Borne' /\ OneUser' /\ Timely' /\ \A a \in Assertions : ~InUse(a)'
  BY <1>5 DEF Borne, OneUser, Timely, InUse, Working
<1>7. ASSUME PromptLookup, NEW a \in Assertions
      PROVE  \/ uses'[a] <= unspent'[a] /\ served'[a] = 0
             \/ uses'[a] <= 1 + unspent'[a] /\ served'[a] <= 1 /\ (a \in spent' \/ now' > Ttl)
  <2>1. /\ unspent'[a] = unspent[a] + Cardinality(Users(a))
        /\ uses'[a] = uses[a] /\ served'[a] = served[a]
        /\ uses[a] \in Nat /\ unspent[a] \in Nat
    BY <1>1 DEF JtiInv, JtiShape
  <2>2. spent' = spent /\ now' = now
    BY <1>1
  <2>3. CASE InUse(a)
    <3>1. uses[a] <= 1 + unspent[a] /\ served[a] = 0
      BY <1>7, <2>3 DEF JtiInv, Ledger
    <3>2. QED
      BY <1>2, <2>1, <2>3, <3>1
  <2>4. CASE ~InUse(a)
    <3>1. \/ uses[a] <= unspent[a] /\ served[a] = 0
          \/ uses[a] <= 1 + unspent[a] /\ served[a] <= 1 /\ (a \in spent \/ now > Ttl)
      BY <1>7, <2>4 DEF JtiInv, Ledger
    <3>2. QED
      BY <1>2, <2>1, <2>2, <2>4, <3>1
  <2>5. QED
    BY <2>3, <2>4
<1>8. PromptLookup => Ledger'
  BY <1>6, <1>7 DEF Ledger
<1>9. QED
  BY <1>4, <1>6, <1>8 DEF JtiInv

LEMMA NextKeepsJtiInv == JtiInv /\ [Next]_vars => JtiInv'
<1> SUFFICES ASSUME JtiInv, [Next]_vars PROVE JtiInv'
  OBVIOUS
<1>1. CASE UNCHANGED vars
  BY <1>1, ElsewhereKeepsJtiInv DEF vars, jtis, gateway, JtiInv, JtiShape
<1>2. ASSUME NEW d \in Direct, Arrive(d) \/ DirectStep(d) \/ LoseSpend(d) PROVE JtiInv'
  BY <1>2, IdleKeepsJtiInv, ClaimKeepsJtiInv, SettleKeepsJtiInv DEF DirectStep
<1>3. ASSUME NEW c \in Calls, Call(c) \/ ConsoleStep(c) \/ Fault(c) PROVE JtiInv'
  BY <1>3, ConsoleKeepsJtiInv
<1>4. ASSUME NEW s \in Consoles, GoStale(s) \/ RevokeElsewhere(s) PROVE JtiInv'
  <2>1. UNCHANGED <<pc, jtis, waiting, now>>
    BY <1>4 DEF GoStale, RevokeElsewhere
  <2>2. JtiShape'
    BY <2>1 DEF JtiInv, JtiShape, jtis
  <2>3. QED
    BY <2>1, <2>2, ElsewhereKeepsJtiInv
<1>5. CASE Reap
  <2>1. /\ now > Ttl /\ spent' \subseteq spent
        /\ UNCHANGED <<pc, bearing, verifiedAt, uses, served, unspent, waiting, now>>
    BY <1>5 DEF Reap, gateway
  <2>2. JtiShape' /\ Borne' /\ OneUser' /\ Timely'
    BY <2>1 DEF JtiInv, JtiShape, Borne, OneUser, Timely
  <2>3. \A a \in Assertions : InUse(a)' <=> InUse(a)
    BY <2>1 DEF InUse
  <2>4. PromptLookup => Ledger'
    BY <2>1, <2>3 DEF JtiInv, Ledger
  <2>5. QED
    BY <2>2, <2>4 DEF JtiInv
<1>6. CASE Tick
  <2>1. /\ now' = now + 1
        /\ \A d \in Direct : pc[d] = "verified" => now < verifiedAt[d] + MaxLookupTicks
        /\ UNCHANGED <<pc, bearing, verifiedAt, spent, uses, served, unspent, waiting>>
    BY <1>6 DEF Tick, jtis, gateway
  <2>2. JtiShape' /\ Borne' /\ OneUser'
    BY <2>1 DEF JtiInv, JtiShape, Borne, OneUser
  <2>3. Timely'
    BY <2>1, BoundsAssumption DEF JtiInv, JtiShape, Timely
  <2>4. now > Ttl => now' > Ttl
    BY <2>1, BoundsAssumption DEF JtiInv, JtiShape
  <2>5. \A a \in Assertions : InUse(a)' <=> InUse(a)
    BY <2>1 DEF InUse
  <2>6. PromptLookup => Ledger'
    BY <2>1, <2>4, <2>5 DEF JtiInv, Ledger
  <2>7. QED
    BY <2>2, <2>3, <2>6 DEF JtiInv
<1>7. QED
  BY <1>1, <1>2, <1>3, <1>4, <1>5, <1>6, CrashKeepsJtiInv DEF Next

LEMMA JtiInvHolds == Spec => []JtiInv
  BY InitJtiInv, NextKeepsJtiInv, PTL DEF Spec

LEMMA JtiInvUses ==
    ASSUME PromptLookup, JtiInv
    PROVE  AssertionServesOnce /\ SpentWhateverBecomes
<1> SUFFICES ASSUME NEW a \in Assertions
             PROVE  served[a] <= 1 /\ uses[a] <= 1 + unspent[a]
  BY DEF AssertionServesOnce, SpentWhateverBecomes
<1>1. uses[a] \in Nat /\ unspent[a] \in Nat /\ served[a] \in Nat
  BY DEF JtiInv, JtiShape
<1>2. \/ uses[a] <= 1 + unspent[a] /\ served[a] = 0
      \/ uses[a] <= unspent[a] /\ served[a] = 0
      \/ uses[a] <= 1 + unspent[a] /\ served[a] <= 1
  BY DEF JtiInv, Ledger
<1>3. QED
  BY <1>1, <1>2

\* Where a lookup follows its verification by at most one tick, an assertion
\* serves at most one request, whatever requests bear it, fail, or die with their
\* process, and although retention deletes the rows that record it once it has
\* expired (authenticatePrivateKeyJwt's verification, lock, lookup and settle).
THEOREM OneServicePerAssertion ==
    ASSUME MaxLookupTicks <= 1
    PROVE  Spec => []AssertionServesOnce
<1>1. JtiInv => AssertionServesOnce
  BY JtiInvUses DEF PromptLookup
<1>2. QED
  BY <1>1, JtiInvHolds, PTL

\* Where a lookup follows its verification by at most one tick, an assertion that
\* authenticated a request authenticates no other, unless that request ended with
\* its row unwritten (settle, keepingSpend, unsettle).
THEOREM UsedAssertionIsSpent ==
    ASSUME MaxLookupTicks <= 1
    PROVE  Spec => []SpentWhateverBecomes
<1>1. JtiInv => SpentWhateverBecomes
  BY JtiInvUses DEF PromptLookup
<1>2. QED
  BY <1>1, JtiInvHolds, PTL

-----------------------------------------------------------------------------
(* The console presents a spent token only after an answer was lost *)

Rows == [live : BOOLEAN, gen : Nat, fresh : BOOLEAN]
Families == [current : Nat, revoked : BOOLEAN, reused : BOOLEAN, lost : BOOLEAN]

\* What a change to one session's family leaves as it was.
LEMMA FamilyChanges ==
    ASSUME family \in [Consoles -> Families], NEW s \in Consoles
    PROVE  /\ family' = [family EXCEPT ![s].current = @ + 1]
              => /\ family' \in [Consoles -> Families]
                 /\ family'[s].current = family[s].current + 1
                 /\ (family'[s].lost <=> family[s].lost) /\ (family'[s].reused <=> family[s].reused)
                 /\ \A t \in Consoles \ {s} : family'[t] = family[t]
           /\ family' = [family EXCEPT ![s].revoked = TRUE, ![s].reused = TRUE]
              => /\ family' \in [Consoles -> Families]
                 /\ family'[s].lost <=> family[s].lost
                 /\ \A t \in Consoles \ {s} : family'[t] = family[t]
           /\ family' = [family EXCEPT ![s].lost = TRUE]
              => /\ family' \in [Consoles -> Families]
                 /\ family'[s].lost
                 /\ \A t \in Consoles \ {s} : family'[t] = family[t]
           /\ family' = [family EXCEPT ![s].revoked = TRUE]
              => /\ family' \in [Consoles -> Families]
                 /\ \A t \in Consoles : /\ family'[t].current = family[t].current
                                        /\ family'[t].reused <=> family[t].reused
                                        /\ family'[t].lost <=> family[t].lost
<1>1. ASSUME family' = [family EXCEPT ![s].current = @ + 1]
      PROVE  /\ family' \in [Consoles -> Families]
             /\ family'[s].current = family[s].current + 1
             /\ (family'[s].lost <=> family[s].lost) /\ (family'[s].reused <=> family[s].reused)
             /\ \A t \in Consoles \ {s} : family'[t] = family[t]
  BY <1>1 DEF Families
<1>2. ASSUME family' = [family EXCEPT ![s].revoked = TRUE, ![s].reused = TRUE]
      PROVE  /\ family' \in [Consoles -> Families]
             /\ family'[s].lost <=> family[s].lost
             /\ \A t \in Consoles \ {s} : family'[t] = family[t]
  BY <1>2 DEF Families
<1>3. ASSUME family' = [family EXCEPT ![s].lost = TRUE]
      PROVE  /\ family' \in [Consoles -> Families]
             /\ family'[s].lost
             /\ \A t \in Consoles \ {s} : family'[t] = family[t]
  BY <1>3 DEF Families
<1>4. ASSUME family' = [family EXCEPT ![s].revoked = TRUE]
      PROVE  /\ family' \in [Consoles -> Families]
             /\ \A t \in Consoles : /\ family'[t].current = family[t].current
                                    /\ family'[t].reused <=> family[t].reused
                                    /\ family'[t].lost <=> family[t].lost
  <2>1. family' \in [Consoles -> Families] /\ \A t \in Consoles \ {s} : family'[t] = family[t]
    BY <1>4 DEF Families
  <2>2. /\ family'[s].current = family[s].current
        /\ family'[s].reused <=> family[s].reused
        /\ family'[s].lost <=> family[s].lost
    BY <1>4 DEF Families
  <2>3. ASSUME NEW t \in Consoles
        PROVE  /\ family'[t].current = family[t].current
               /\ family'[t].reused <=> family[t].reused
               /\ family'[t].lost <=> family[t].lost
    <3>1. CASE t = s
      BY <2>2, <3>1
    <3>2. CASE t # s
      BY <2>1, <3>2, Zenon
    <3>3. QED
      BY <3>1, <3>2
  <2>4. QED
    BY <2>1, <2>3
<1>5. QED
  BY <1>1, <1>2, <1>3, <1>4

FlightShape ==
    /\ pc \in [Processes -> Stages]
    /\ row \in [Consoles -> Rows]
    /\ seen \in [Calls -> Nat]
    /\ flight \in [Consoles -> Calls \union {None}]
    /\ waiting \in Seq(Calls)
    /\ family \in [Consoles -> Families]

\* The stages of a flight.
Aloft == {"slot", "lock"} \union Locking

\* Single-flight: a request in one of these stages is its session's flight.
OneFlight == \A c \in Calls : pc[c] \in Aloft => flight[ConsoleOf[c]] = c

\* Who waits for a slot waits once, and does nothing else.
WaitersWait ==
    \A i \in 1..Len(waiting) :
        /\ pc[waiting[i]] = "slot"
        /\ \A j \in 1..Len(waiting) : waiting[i] = waiting[j] => i = j

\* While no answer was lost, a row still there holds the family's current token
\* except between a rotation and its store, and a flight presents the current
\* token.
Faithful(s) ==
    /\ ~family[s].reused
    /\ row[s].live /\ (\A c \in Calls : ConsoleOf[c] = s => pc[c] # "mint")
       => row[s].gen = family[s].current
    /\ \A c \in Calls : ConsoleOf[c] = s =>
           /\ pc[c] \in {"present", "rotate"} => seen[c] = family[s].current
           /\ pc[c] = "mint" => seen[c] + 1 = family[s].current

ReuseInv ==
    /\ FlightShape
    /\ OneFlight
    /\ WaitersWait
    /\ \A s \in Consoles : family[s].lost \/ Faithful(s)

LEMMA InitReuseInv == Init => ReuseInv
<1> SUFFICES ASSUME Init PROVE ReuseInv
  OBVIOUS
<1>1. FlightShape
  BY DEF Init, FlightShape, Stages, Rows, Families
<1>2. \A c \in Calls : pc[c] = "idle"
  BY DEF Init, Processes
<1>3. OneFlight
  BY <1>2 DEF OneFlight, Aloft, Locking
<1>4. Len(waiting) = 0
  BY DEF Init
<1>5. WaitersWait
  BY <1>4 DEF WaitersWait
<1>6. \A s \in Consoles : Faithful(s)
  BY <1>2 DEF Init, Faithful
<1>7. QED
  BY <1>1, <1>3, <1>5, <1>6 DEF ReuseInv

\* A step in which no console request moves, and neither tokens, flights nor
\* what has become of the answers change.
LEMMA ElsewhereKeepsReuseInv ==
    ASSUME ReuseInv, FlightShape', UNCHANGED <<seen, flight, waiting>>,
           \A c \in Calls : pc'[c] = pc[c],
           \A s \in Consoles : /\ row'[s].gen = row[s].gen
                               /\ row'[s].live => row[s].live
                               /\ family'[s].current = family[s].current
                               /\ family'[s].reused <=> family[s].reused
                               /\ family'[s].lost <=> family[s].lost
    PROVE  ReuseInv'
<1>1. OneFlight'
  BY DEF ReuseInv, OneFlight
<1>2. WaitersWait'
  <2>1. \A i \in 1..Len(waiting) : waiting[i] \in Calls
    BY DEF ReuseInv, FlightShape
  <2>2. QED
    BY <2>1 DEF ReuseInv, WaitersWait
<1>3. ASSUME NEW s \in Consoles PROVE family'[s].lost \/ Faithful(s)'
  BY DEF ReuseInv, Faithful
<1>4. QED
  BY <1>1, <1>2, <1>3 DEF ReuseInv

\* A console request outside a flight moves, and stays outside.
LEMMA GroundKeepsReuseInv ==
    ASSUME ReuseInv, FlightShape', UNCHANGED <<flight, waiting>>,
           NEW c \in Calls, NEW w, Goto(c, w), w \notin Aloft, pc[c] \notin Aloft,
           \A d \in Calls \ {c} : seen'[d] = seen[d],
           \A s \in Consoles : /\ row'[s].gen = row[s].gen
                               /\ row'[s].live => row[s].live
                               /\ family'[s].current = family[s].current
                               /\ family'[s].reused <=> family[s].reused
                               /\ family'[s].lost <=> family[s].lost
    PROVE  ReuseInv'
<1>1. pc'[c] \notin Aloft /\ \A d \in Calls \ {c} : pc'[d] = pc[d]
  BY DEF Goto, ReuseInv, FlightShape, Processes
<1>2. OneFlight'
  BY <1>1 DEF ReuseInv, OneFlight
<1>3. WaitersWait'
  <2>1. \A i \in 1..Len(waiting) : waiting[i] \in Calls
    BY DEF ReuseInv, FlightShape
  <2>2. \A i \in 1..Len(waiting) : waiting[i] # c
    BY DEF ReuseInv, WaitersWait, Aloft
  <2>3. QED
    BY <1>1, <2>1, <2>2 DEF ReuseInv, WaitersWait
<1>4. ASSUME NEW s \in Consoles PROVE family'[s].lost \/ Faithful(s)'
  <2>1. CASE family[s].lost
    BY <2>1
  <2>2. CASE Faithful(s)
    <3>1. \A d \in Calls : pc'[d] \in {"present", "rotate", "mint"}
                           => d # c /\ pc'[d] = pc[d] /\ seen'[d] = seen[d]
      BY <1>1 DEF Aloft, Locking
    <3>2. \A d \in Calls : pc[d] = "mint" => pc'[d] = "mint"
      BY <1>1 DEF Aloft, Locking
    <3>3. QED
      BY <2>2, <3>1, <3>2 DEF Faithful
  <2>3. QED
    BY <2>1, <2>2 DEF ReuseInv
<1>5. QED
  BY <1>2, <1>3, <1>4 DEF ReuseInv

\* A flight starts, with a slot or to wait for one.
LEMMA TakeOffKeepsReuseInv ==
    ASSUME ReuseInv, NEW c \in Calls, TakeOff(c)
    PROVE  ReuseInv'
<1> DEFINE s == ConsoleOf[c]
<1>1. s \in Consoles /\ c \in Processes
  BY CallersAssumption DEF Processes
<1>2. /\ pc[c] = "refresh" /\ flight[s] = None
      /\ flight' = [flight EXCEPT ![s] = c]
      /\ \/ pc' = [pc EXCEPT ![c] = "lock"] /\ waiting' = waiting
         \/ pc' = [pc EXCEPT ![c] = "slot"] /\ waiting' = Append(waiting, c)
      /\ UNCHANGED <<row, seen, family>>
  BY DEF TakeOff, Goto
<1>3. waiting \in Seq(Calls) /\ \A i \in 1..Len(waiting) : waiting[i] \in Calls
  BY DEF ReuseInv, FlightShape
<1>4. FlightShape'
  <2>1. pc' \in [Processes -> Stages] /\ flight' \in [Consoles -> Calls \union {None}]
    BY <1>1, <1>2 DEF ReuseInv, FlightShape, Stages
  <2>2. waiting' \in Seq(Calls)
    BY <1>2, <1>3
  <2>3. QED
    BY <1>2, <2>1, <2>2 DEF ReuseInv, FlightShape
<1>5. pc'[c] \in {"slot", "lock"} /\ \A d \in Calls \ {c} : pc'[d] = pc[d]
  BY <1>1, <1>2 DEF ReuseInv, FlightShape, Processes
<1>6. OneFlight'
  <2>1. \A d \in Calls \ {c} : pc[d] \in Aloft => flight[ConsoleOf[d]] = d /\ d # None
    BY CallersAssumption DEF ReuseInv, OneFlight
  <2>2. \A d \in Calls \ {c} : pc'[d] \in Aloft => ConsoleOf[d] # s /\ flight'[ConsoleOf[d]] = d
    BY <1>2, <1>5, <2>1, CallersAssumption DEF ReuseInv, FlightShape
  <2>3. flight'[s] = c
    BY <1>1, <1>2 DEF ReuseInv, FlightShape
  <2>4. QED
    BY <2>2, <2>3 DEF OneFlight
<1>7. WaitersWait'
  <2>1. \A i \in 1..Len(waiting) : waiting[i] # c /\ pc'[waiting[i]] = "slot"
    BY <1>2, <1>3, <1>5 DEF ReuseInv, WaitersWait
  <2>2. CASE waiting' = waiting
    BY <2>1, <2>2 DEF ReuseInv, WaitersWait
  <2>3. CASE pc' = [pc EXCEPT ![c] = "slot"] /\ waiting' = Append(waiting, c)
    <3>1. /\ Len(waiting') = Len(waiting) + 1 /\ Len(waiting) \in Nat
          /\ \A i \in 1..Len(waiting) : waiting'[i] = waiting[i]
          /\ waiting'[Len(waiting) + 1] = c
      BY <1>3, <2>3
    <3>2. pc'[c] = "slot"
      BY <1>1, <2>3 DEF ReuseInv, FlightShape
    <3>3. \A i \in 1..Len(waiting') : pc'[waiting'[i]] = "slot"
      BY <2>1, <3>1, <3>2
    <3>4. \A i, j \in 1..Len(waiting') : waiting'[i] = waiting'[j] => i = j
      BY <2>1, <3>1 DEF ReuseInv, WaitersWait
    <3>5. QED
      BY <3>3, <3>4 DEF WaitersWait
  <2>4. QED
    BY <1>2, <2>2, <2>3
<1>8. ASSUME NEW t \in Consoles PROVE family'[t].lost \/ Faithful(t)'
  <2>1. \A d \in Calls : /\ pc'[d] \in {"present", "rotate", "mint"} => pc'[d] = pc[d]
                         /\ pc[d] = "mint" => pc'[d] = "mint"
    BY <1>2, <1>5
  <2>2. QED
    BY <1>2, <2>1 DEF ReuseInv, Faithful
<1>9. QED
  BY <1>4, <1>6, <1>7, <1>8 DEF ReuseInv

\* A flight moves on: from the row lock to the token request to its rotation.
LEMMA AloftKeepsReuseInv ==
    ASSUME ReuseInv, NEW c \in Calls, LockStale(c) \/ Present(c) \/ RotateConsole(c)
    PROVE  ReuseInv'
<1> DEFINE s == ConsoleOf[c]
<1>1. s \in Consoles /\ c \in Processes
  BY CallersAssumption DEF Processes
<1>2. pc[c] \in {"lock", "present", "rotate"} /\ UNCHANGED <<row, flight, waiting>>
  BY DEF LockStale, Present, RotateConsole, gateway
<1>3. PICK w \in Locking : pc' = [pc EXCEPT ![c] = w]
  BY DEF LockStale, Present, RotateConsole, Goto, Locking
<1>4. pc'[c] = w /\ \A d \in Calls \ {c} : pc'[d] = pc[d]
  BY <1>1, <1>3 DEF ReuseInv, FlightShape, Processes
<1>5. OneFlight'
  BY <1>2, <1>4 DEF ReuseInv, OneFlight, Aloft, Locking
<1>6. WaitersWait'
  <2>1. \A i \in 1..Len(waiting) : waiting[i] \in Calls /\ waiting[i] # c
    BY <1>2 DEF ReuseInv, FlightShape, WaitersWait
  <2>2. QED
    BY <1>2, <1>4, <2>1 DEF ReuseInv, WaitersWait
\* No other request is in a flight of this session.
<1>7. \A d \in Calls \ {c} : ConsoleOf[d] = s => pc[d] \notin Aloft /\ pc'[d] \notin Aloft
  BY <1>2, <1>4 DEF ReuseInv, OneFlight, Aloft, Locking
<1>8. pc' \in [Processes -> Stages]
  BY <1>1, <1>3 DEF ReuseInv, FlightShape, Stages
<1>9. CASE LockStale(c)
  <2>1. /\ pc[c] = "lock" /\ pc' = [pc EXCEPT ![c] = "present"] /\ row[s].live
        /\ seen' = [seen EXCEPT ![c] = row[s].gen] /\ family' = family
    BY <1>9 DEF LockStale, Goto
  <2>2. pc'[c] = "present" /\ seen'[c] = row[s].gen /\ \A d \in Calls \ {c} : seen'[d] = seen[d]
    BY <1>1, <2>1 DEF ReuseInv, FlightShape
  <2>3. FlightShape'
    <3>1. row[s].gen \in Nat
      BY <1>1 DEF ReuseInv, FlightShape, Rows
    <3>2. seen' \in [Calls -> Nat]
      BY <2>1, <3>1 DEF ReuseInv, FlightShape
    <3>3. QED
      BY <1>2, <1>8, <2>1, <3>2 DEF ReuseInv, FlightShape
  <2>4. ASSUME NEW t \in Consoles, Faithful(t) PROVE Faithful(t)'
    <3>1. CASE t = s
      <4>1. \A d \in Calls : ConsoleOf[d] = s => pc[d] # "mint" /\ pc'[d] # "mint"
        BY <1>7, <2>1, <2>2 DEF Aloft, Locking
      <4>2. row[s].gen = family[s].current
        BY <2>1, <2>4, <3>1, <4>1 DEF Faithful
      <4>3. QED
        BY <1>2, <1>7, <2>1, <2>2, <2>4, <3>1, <4>1, <4>2 DEF Faithful, Aloft, Locking
    <3>2. CASE t # s
      <4>1. \A d \in Calls : ConsoleOf[d] = t => pc'[d] = pc[d] /\ seen'[d] = seen[d]
        BY <1>4, <2>2, <3>2
      <4>2. QED
        BY <1>2, <2>1, <2>4, <4>1 DEF Faithful
    <3>3. QED
      BY <3>1, <3>2
  <2>5. QED
    BY <1>5, <1>6, <2>1, <2>3, <2>4 DEF ReuseInv
<1>10. CASE Present(c)
  <2>1. pc[c] = "present" /\ pc' = [pc EXCEPT ![c] = "rotate"] /\ UNCHANGED <<seen, family>>
    BY <1>10 DEF Present, Goto, gateway
  <2>2. pc'[c] = "rotate"
    BY <1>1, <2>1 DEF ReuseInv, FlightShape
  <2>3. FlightShape'
    BY <1>2, <1>8, <2>1 DEF ReuseInv, FlightShape
  <2>4. ASSUME NEW t \in Consoles, Faithful(t) PROVE Faithful(t)'
    BY <1>2, <1>4, <2>1, <2>2, <2>4 DEF Faithful
  <2>5. QED
    BY <1>5, <1>6, <2>1, <2>3, <2>4 DEF ReuseInv
<1>11. CASE RotateConsole(c)
  <2>1. pc[c] = "rotate" /\ seen' = seen
    BY <1>11 DEF RotateConsole
  <2>2. CASE /\ seen[c] = family[s].current
             /\ family' = [family EXCEPT ![s].current = @ + 1]
             /\ pc' = [pc EXCEPT ![c] = "mint"]
    <3>1. /\ family' \in [Consoles -> Families]
          /\ family'[s].current = family[s].current + 1
          /\ (family'[s].lost <=> family[s].lost) /\ (family'[s].reused <=> family[s].reused)
          /\ \A t \in Consoles \ {s} : family'[t] = family[t]
      BY <1>1, <2>2, FamilyChanges DEF ReuseInv, FlightShape
    <3>2. FlightShape'
      BY <1>2, <1>8, <2>1, <3>1 DEF ReuseInv, FlightShape
    <3>3. pc'[c] = "mint"
      BY <1>1, <2>2 DEF ReuseInv, FlightShape
    <3>4. ASSUME NEW t \in Consoles, Faithful(t) PROVE Faithful(t)'
      <4>1. CASE t = s
        <5>1. \A d \in Calls \ {c} : ConsoleOf[d] = s
                                     => pc'[d] \notin {"present", "rotate", "mint"}
          BY <1>7 DEF Aloft, Locking
        <5>2. ~family'[s].reused
          BY <3>1, <3>4, <4>1 DEF Faithful
        <5>3. QED
          BY <2>1, <2>2, <3>1, <3>3, <4>1, <5>1, <5>2 DEF Faithful
      <4>2. CASE t # s
        <5>1. \A d \in Calls : ConsoleOf[d] = t => pc'[d] = pc[d]
          BY <1>4, <4>2
        <5>2. QED
          BY <1>2, <2>1, <3>1, <3>4, <4>2, <5>1 DEF Faithful
      <4>3. QED
        BY <4>1, <4>2
    <3>5. \A t \in Consoles : family'[t].lost <=> family[t].lost
      BY <3>1
    <3>6. QED
      BY <1>5, <1>6, <3>2, <3>4, <3>5 DEF ReuseInv
  <2>3. CASE /\ seen[c] # family[s].current
             /\ family' = [family EXCEPT ![s].revoked = TRUE, ![s].reused = TRUE]
             /\ pc' = [pc EXCEPT ![c] = "end"]
    <3>1. /\ family' \in [Consoles -> Families]
          /\ family'[s].lost <=> family[s].lost
          /\ \A t \in Consoles \ {s} : family'[t] = family[t]
      BY <1>1, <2>3, FamilyChanges DEF ReuseInv, FlightShape
    <3>2. FlightShape'
      BY <1>2, <1>8, <2>1, <3>1 DEF ReuseInv, FlightShape
    <3>3. family[s].lost
      BY <1>1, <2>1, <2>3 DEF ReuseInv, Faithful
    <3>4. ASSUME NEW t \in Consoles, t # s, Faithful(t) PROVE Faithful(t)'
      <4>1. \A d \in Calls : ConsoleOf[d] = t => pc'[d] = pc[d]
        BY <1>4, <3>4
      <4>2. QED
        BY <1>2, <2>1, <3>1, <3>4, <4>1 DEF Faithful
    <3>5. \A t \in Consoles : family'[t].lost \/ Faithful(t)'
      BY <3>1, <3>3, <3>4 DEF ReuseInv
    <3>6. QED
      BY <1>5, <1>6, <3>2, <3>5 DEF ReuseInv
  <2>4. CASE family' = family /\ pc' = [pc EXCEPT ![c] = "end"]
    <3>1. FlightShape'
      BY <1>2, <1>8, <2>1, <2>4 DEF ReuseInv, FlightShape
    <3>2. pc'[c] = "end"
      BY <1>1, <2>4 DEF ReuseInv, FlightShape
    <3>3. ASSUME NEW t \in Consoles, Faithful(t) PROVE Faithful(t)'
      BY <1>2, <1>4, <2>1, <2>4, <3>2, <3>3 DEF Faithful
    <3>4. QED
      BY <1>5, <1>6, <2>4, <3>1, <3>3 DEF ReuseInv
  <2>5. QED
    BY <1>11, <2>2, <2>3, <2>4 DEF RotateConsole, Goto
<1>12. QED
  BY <1>9, <1>10, <1>11

\* A flight lands: its session is free of it, the slot goes on, and nobody else's
\* flight moves but the one that gets the slot.
LEMMA LandEndsFlight ==
    ASSUME ReuseInv, NEW c \in Calls, pc[c] \in Aloft \ {"slot"}, NEW n, Land(c, n)
    PROVE  /\ pc' \in [Processes -> Stages] /\ seen' \in [Calls -> Nat]
           /\ flight' \in [Consoles -> Calls \union {None}] /\ waiting' \in Seq(Calls)
           /\ OneFlight' /\ WaitersWait'
           /\ \A d \in Calls :
                /\ pc'[d] \in Locking => pc[d] = pc'[d] /\ seen'[d] = seen[d]
                                         /\ ConsoleOf[d] # ConsoleOf[c]
                /\ pc[d] = "mint" /\ d # c => pc'[d] = "mint"
<1> DEFINE s == ConsoleOf[c]
           handed == IF waiting = <<>> THEN {} ELSE {Head(waiting)}
           answered == {c} \union {d \in Calls : pc[d] = "joined" /\ ConsoleOf[d] = ConsoleOf[c]}
<1>1. s \in Consoles /\ c \in Processes /\ flight[s] = c
  BY CallersAssumption DEF Processes, ReuseInv, OneFlight
<1>2. waiting \in Seq(Calls) /\ seen \in [Calls -> Nat]
  BY DEF ReuseInv, FlightShape
<1>3. waiting # <<>> => /\ Len(waiting) \in Nat /\ Len(waiting) >= 1
                        /\ Head(waiting) = waiting[1] /\ Head(waiting) \in Calls
                        /\ Tail(waiting) \in Seq(Calls) /\ Len(Tail(waiting)) = Len(waiting) - 1
                        /\ \A i \in 1..Len(Tail(waiting)) : Tail(waiting)[i] = waiting[i + 1]
  BY <1>2
<1>4. waiting # <<>> => pc[Head(waiting)] = "slot"
  BY <1>3 DEF ReuseInv, WaitersWait
<1>5. /\ pc' = [p \in Processes |-> IF p \in answered THEN "done"
                                    ELSE IF p \in handed THEN "lock" ELSE pc[p]]
      /\ seen' = [d \in Calls |-> IF d \in answered THEN 0 ELSE seen[d]]
      /\ flight' = [flight EXCEPT ![s] = None]
      /\ waiting = <<>> => waiting' = <<>>
      /\ waiting # <<>> => waiting' = Tail(waiting)
  BY DEF Land
<1>6. /\ handed \subseteq Calls /\ answered \subseteq Calls /\ c \in answered
      /\ \A d \in handed : waiting # <<>> /\ d = Head(waiting) /\ pc[d] = "slot"
      /\ \A d \in answered : d = c \/ pc[d] = "joined"
  BY <1>3, <1>4
<1> HIDE DEF handed, answered
<1>7. \A d \in Calls : /\ d \in answered => pc'[d] = "done"
                       /\ d \notin answered /\ d \in handed => pc'[d] = "lock"
                       /\ d \notin answered /\ d \notin handed => pc'[d] = pc[d] /\ seen'[d] = seen[d]
  BY <1>5 DEF Processes
<1>8. pc' \in [Processes -> Stages] /\ seen' \in [Calls -> Nat]
  BY <1>2, <1>5 DEF ReuseInv, FlightShape, Stages
<1>9. flight' \in [Consoles -> Calls \union {None}]
  BY <1>1, <1>5 DEF ReuseInv, FlightShape
<1>10. waiting' \in Seq(Calls)
  BY <1>2, <1>3, <1>5
<1>11. \A d \in Calls : d # c /\ pc[d] \in Aloft => ConsoleOf[d] # s /\ d \notin answered
  BY <1>1, <1>6 DEF ReuseInv, OneFlight, Aloft, Locking
<1>12. OneFlight'
  <2>1. ASSUME NEW d \in Calls, pc'[d] \in Aloft PROVE flight'[ConsoleOf[d]] = d
    <3>1. d \notin answered
      BY <1>7, <2>1 DEF Aloft, Locking
    <3>2. d # c /\ pc[d] \in Aloft
      BY <1>6, <1>7, <2>1, <3>1 DEF Aloft
    <3>3. ConsoleOf[d] \in Consoles /\ ConsoleOf[d] # s /\ flight[ConsoleOf[d]] = d
      BY <1>11, <3>2, CallersAssumption DEF ReuseInv, OneFlight
    <3>4. QED
      BY <1>5, <3>3 DEF ReuseInv, FlightShape
  <2>2. QED
    BY <2>1 DEF OneFlight
<1>13. WaitersWait'
  <2>1. CASE waiting = <<>>
    <3>1. Len(waiting') = 0
      BY <1>5, <2>1
    <3>2. QED
      BY <3>1 DEF WaitersWait
  <2>2. CASE waiting # <<>>
    <3>1. /\ Len(waiting) \in Nat /\ Len(waiting') = Len(waiting) - 1
          /\ \A i \in 1..Len(waiting') : waiting'[i] = waiting[i + 1]
      BY <1>3, <1>5, <2>2
    <3>2. ASSUME NEW i \in 1..Len(waiting') PROVE pc'[waiting'[i]] = "slot"
      <4>1. i + 1 \in 1..Len(waiting) /\ 1 \in 1..Len(waiting) /\ i + 1 # 1
        BY <3>1
      <4>2. /\ waiting[i + 1] \in Calls /\ pc[waiting[i + 1]] = "slot"
            /\ waiting[i + 1] # waiting[1]
        BY <1>2, <4>1 DEF ReuseInv, WaitersWait
      <4>3. waiting[i + 1] \notin handed
        BY <1>3, <1>6, <4>2
      <4>4. waiting[i + 1] \notin answered
        BY <1>6, <4>2
      <4>5. QED
        BY <1>7, <3>1, <4>2, <4>3, <4>4
    <3>3. \A i, j \in 1..Len(waiting') : waiting'[i] = waiting'[j] => i = j
      <4>1. \A i \in 1..Len(waiting') : i + 1 \in 1..Len(waiting)
        BY <3>1
      <4>2. QED
        BY <3>1, <4>1 DEF ReuseInv, WaitersWait
    <3>4. QED
      BY <3>2, <3>3 DEF WaitersWait
  <2>3. QED
    BY <2>1, <2>2
<1>14. ASSUME NEW d \in Calls
       PROVE  /\ pc'[d] \in Locking => pc[d] = pc'[d] /\ seen'[d] = seen[d] /\ ConsoleOf[d] # s
              /\ pc[d] = "mint" /\ d # c => pc'[d] = "mint"
  <2>1. ASSUME pc'[d] \in Locking
        PROVE  pc[d] = pc'[d] /\ seen'[d] = seen[d] /\ ConsoleOf[d] # s
    <3>1. d \notin answered /\ d \notin handed
      BY <1>7, <2>1 DEF Locking
    <3>2. pc[d] = pc'[d] /\ seen'[d] = seen[d] /\ d # c
      BY <1>6, <1>7, <3>1
    <3>3. QED
      BY <1>11, <2>1, <3>2 DEF Aloft
  <2>2. ASSUME pc[d] = "mint", d # c PROVE pc'[d] = "mint"
    <3>1. d \notin answered /\ d \notin handed
      BY <1>6, <2>2
    <3>2. QED
      BY <1>7, <2>2, <3>1
  <2>3. QED
    BY <2>1, <2>2
<1>15. QED
  BY <1>8, <1>9, <1>10, <1>12, <1>13, <1>14

LEMMA LandingKeepsReuseInv ==
    ASSUME ReuseInv, NEW c \in Calls,
           \/ LockAnswers(c) \/ LockTimesOut(c) \/ PresentFails(c)
           \/ Store(c) \/ MintFails(c) \/ MintRefused(c) \/ EndRow(c)
    PROVE  ReuseInv'
<1> DEFINE s == ConsoleOf[c]
<1>1. s \in Consoles
  BY CallersAssumption
<1>2. pc[c] \in Aloft \ {"slot"} /\ \E n : Land(c, n)
  BY DEF LockAnswers, LockTimesOut, PresentFails, Store, MintFails, MintRefused, EndRow, Aloft,
         Locking
<1>3. /\ pc' \in [Processes -> Stages] /\ seen' \in [Calls -> Nat]
      /\ flight' \in [Consoles -> Calls \union {None}] /\ waiting' \in Seq(Calls)
      /\ OneFlight' /\ WaitersWait'
      /\ \A d \in Calls :
           /\ pc'[d] \in Locking => pc[d] = pc'[d] /\ seen'[d] = seen[d] /\ ConsoleOf[d] # s
           /\ pc[d] = "mint" /\ d # c => pc'[d] = "mint"
  BY <1>2, LandEndsFlight
<1>4. \A d \in Calls : ConsoleOf[d] = s => pc'[d] \notin {"present", "rotate", "mint"}
  BY <1>3 DEF Locking
\* Every other session is as it was.
<1>5. ASSUME NEW t \in Consoles \ {s}, Faithful(t), row'[t] = row[t], family'[t] = family[t]
      PROVE  Faithful(t)'
  <2>1. \A d \in Calls : ConsoleOf[d] = t =>
            /\ pc'[d] \in {"present", "rotate", "mint"} => pc[d] = pc'[d] /\ seen'[d] = seen[d]
            /\ pc[d] = "mint" => pc'[d] = "mint"
    BY <1>3, <1>5 DEF Locking
  <2>2. QED
    BY <1>5, <2>1 DEF Faithful
\* The session has no other flight, so its row is judged by this one alone.
<1>6. \A d \in Calls \ {c} : ConsoleOf[d] = s => pc[d] # "mint"
  BY <1>2 DEF ReuseInv, OneFlight, Aloft, Locking
<1>7. CASE MintFails(c)
  <2>1. family' = [family EXCEPT ![s].lost = TRUE] /\ row' = row
    BY <1>7 DEF MintFails
  <2>2. /\ family' \in [Consoles -> Families] /\ family'[s].lost
        /\ \A t \in Consoles \ {s} : family'[t] = family[t]
    BY <1>1, <2>1, FamilyChanges DEF ReuseInv, FlightShape
  <2>3. FlightShape'
    BY <1>3, <2>1, <2>2 DEF ReuseInv, FlightShape
  <2>4. \A t \in Consoles : family'[t].lost \/ Faithful(t)'
    BY <1>5, <2>1, <2>2 DEF ReuseInv
  <2>5. QED
    BY <1>3, <2>3, <2>4 DEF ReuseInv
<1>8. CASE Store(c)
  <2>1. /\ pc[c] = "mint" /\ family' = family
        /\ row' = [row EXCEPT ![s].gen = seen[c] + 1, ![s].fresh = TRUE]
    BY <1>8 DEF Store
  <2>2. ASSUME NEW z \in Consoles, NEW g \in Nat,
               row' = [row EXCEPT ![z].gen = g, ![z].fresh = TRUE]
        PROVE  /\ row' \in [Consoles -> Rows] /\ row'[z].gen = g
               /\ \A t \in Consoles \ {z} : row'[t] = row[t]
    BY <2>2 DEF ReuseInv, FlightShape, Rows
  <2>3. seen[c] + 1 \in Nat
    BY DEF ReuseInv, FlightShape
  <2>4. /\ row' \in [Consoles -> Rows] /\ row'[s].gen = seen[c] + 1
        /\ \A t \in Consoles \ {s} : row'[t] = row[t]
    BY <1>1, <2>1, <2>2, <2>3
  <2>5. FlightShape'
    BY <1>3, <2>1, <2>4 DEF ReuseInv, FlightShape
  <2>6. ASSUME Faithful(s) PROVE Faithful(s)'
    BY <1>4, <2>1, <2>4, <2>6 DEF Faithful
  <2>7. \A t \in Consoles : family'[t].lost \/ Faithful(t)'
    BY <1>5, <2>1, <2>4, <2>6 DEF ReuseInv
  <2>8. QED
    BY <1>3, <2>5, <2>7 DEF ReuseInv
<1>9. CASE LockAnswers(c) \/ LockTimesOut(c) \/ PresentFails(c) \/ MintRefused(c) \/ EndRow(c)
  <2>1. /\ family' = family
        /\ pc[c] # "mint" \/ row' = [row EXCEPT ![s].live = FALSE]
    BY <1>9 DEF LockAnswers, LockTimesOut, PresentFails, MintRefused, EndRow
  <2>2. row' = row \/ row' = [row EXCEPT ![s].live = FALSE]
    BY <1>9 DEF LockAnswers, LockTimesOut, PresentFails, MintRefused, EndRow
  <2>3. ASSUME NEW z \in Consoles, row' = row \/ row' = [row EXCEPT ![z].live = FALSE]
        PROVE  /\ row' \in [Consoles -> Rows] /\ row'[z].gen = row[z].gen
               /\ row'[z].live => row'[z] = row[z]
               /\ row' = [row EXCEPT ![z].live = FALSE] => ~row'[z].live
               /\ \A t \in Consoles \ {z} : row'[t] = row[t]
    <3>1. CASE row' = row
      BY <3>1 DEF ReuseInv, FlightShape, Rows
    <3>2. CASE row' = [row EXCEPT ![z].live = FALSE]
      BY <3>2 DEF ReuseInv, FlightShape, Rows
    <3>3. QED
      BY <2>3, <3>1, <3>2
  <2>4. /\ row' \in [Consoles -> Rows] /\ row'[s].gen = row[s].gen
        /\ row'[s].live => row'[s] = row[s] /\ pc[c] # "mint"
        /\ \A t \in Consoles \ {s} : row'[t] = row[t]
    BY <1>1, <2>1, <2>2, <2>3
  <2>5. FlightShape'
    BY <1>3, <2>1, <2>4 DEF ReuseInv, FlightShape
  <2>6. ASSUME Faithful(s) PROVE Faithful(s)'
    <3>1. CASE row'[s].live
      <4>1. row'[s] = row[s] /\ pc[c] # "mint"
        BY <2>4, <3>1
      <4>2. QED
        BY <1>4, <1>6, <2>1, <2>6, <3>1, <4>1 DEF Faithful
    <3>2. CASE ~row'[s].live
      BY <1>4, <2>1, <2>6, <3>2 DEF Faithful
    <3>3. QED
      BY <3>1, <3>2
  <2>7. \A t \in Consoles : family'[t].lost \/ Faithful(t)'
    BY <1>5, <2>1, <2>4, <2>6 DEF ReuseInv
  <2>8. QED
    BY <1>3, <2>5, <2>7 DEF ReuseInv
<1>10. QED
  BY <1>7, <1>8, <1>9

LEMMA CrashKeepsReuseInv ==
    ASSUME ReuseInv, Crash
    PROVE  ReuseInv'
<1> USE DEF Processes
<1>1. /\ pc' = [p \in Processes |-> IF pc[p] = "idle" THEN "idle" ELSE "done"]
      /\ family' = [s \in Consoles |->
             [family[s] EXCEPT !.lost =
                 @ \/ \E c \in Calls : ConsoleOf[c] = s /\ pc[c] = "mint"]]
      /\ flight' = [s \in Consoles |-> None]
      /\ waiting' = <<>> /\ seen' = [c \in Calls |-> 0] /\ row' = row
  BY DEF Crash
<1>2. ASSUME NEW s \in Consoles
      PROVE  /\ family'[s] \in Families
             /\ family'[s].current = family[s].current
             /\ family'[s].reused <=> family[s].reused
             /\ family'[s].lost
                <=> (family[s].lost \/ \E c \in Calls : ConsoleOf[c] = s /\ pc[c] = "mint")
  <2> DEFINE minted == \E c \in Calls : ConsoleOf[c] = s /\ pc[c] = "mint"
  <2>1. minted \in BOOLEAN
    OBVIOUS
  <2>2. family'[s] = [family[s] EXCEPT !.lost = @ \/ minted] /\ family[s] \in Families
    BY <1>1 DEF ReuseInv, FlightShape
  <2> HIDE DEF minted
  <2>3. /\ family'[s] \in Families
        /\ family'[s].current = family[s].current
        /\ family'[s].reused <=> family[s].reused
        /\ family'[s].lost <=> (family[s].lost \/ minted)
    BY <2>1, <2>2 DEF Families
  <2>4. QED
    BY <2>3 DEF minted
<1>3. FlightShape'
  <2>1. pc' \in [Processes -> Stages] /\ flight' \in [Consoles -> Calls \union {None}]
    BY <1>1 DEF Stages
  <2>2. waiting' \in Seq(Calls) /\ seen' \in [Calls -> Nat]
    BY <1>1
  <2>3. family' \in [Consoles -> Families]
    BY <1>1, <1>2
  <2>4. QED
    BY <1>1, <2>1, <2>2, <2>3 DEF ReuseInv, FlightShape
<1>4. \A c \in Calls : pc'[c] \in {"idle", "done"}
  BY <1>1
<1>5. OneFlight'
  BY <1>4 DEF OneFlight, Aloft, Locking
<1>6. Len(waiting') = 0
  BY <1>1
<1>7. WaitersWait'
  BY <1>6 DEF WaitersWait
<1>8. ASSUME NEW s \in Consoles PROVE family'[s].lost \/ Faithful(s)'
  <2>1. CASE family'[s].lost
    BY <2>1
  <2>2. CASE ~family'[s].lost
    <3>1. Faithful(s) /\ \A c \in Calls : ConsoleOf[c] = s => pc[c] # "mint"
      BY <1>2, <2>2 DEF ReuseInv
    <3>2. QED
      BY <1>1, <1>2, <1>4, <3>1 DEF Faithful
  <2>3. QED
    BY <2>1, <2>2
<1>9. QED
  BY <1>3, <1>5, <1>7, <1>8 DEF ReuseInv

LEMMA GroundStepsKeepReuseInv ==
    ASSUME ReuseInv, NEW c \in Calls,
           \/ Call(c) \/ ResolveAnswers(c) \/ ResolveStale(c) \/ ResolveLogout(c) \/ Join(c)
           \/ TakeBegins(c) \/ Take(c) \/ TakeNothing(c) \/ Revoke(c) \/ RevokeFails(c)
    PROVE  ReuseInv'
<1> DEFINE s == ConsoleOf[c]
<1>1. s \in Consoles /\ c \in Processes
  BY CallersAssumption DEF Processes
<1>2. UNCHANGED <<flight, waiting>> /\ pc[c] \notin Aloft
  BY DEF Call, ResolveAnswers, ResolveStale, ResolveLogout, Join, TakeBegins, Take, TakeNothing,
         Revoke, RevokeFails, gateway, Aloft, Locking
<1>3. PICK w \in Stages \ Aloft : Goto(c, w)
  BY DEF Call, ResolveAnswers, ResolveStale, ResolveLogout, Join, TakeBegins, Take, TakeNothing,
         Revoke, RevokeFails, Stages, Aloft, Locking
<1>4. pc' \in [Processes -> Stages]
  BY <1>1, <1>3 DEF Goto, ReuseInv, FlightShape
<1>5. seen' = seen \/ seen' = [seen EXCEPT ![c] = row[s].gen]
  BY DEF Call, ResolveAnswers, ResolveStale, ResolveLogout, Join, TakeBegins, Take, TakeNothing,
         Revoke, RevokeFails, gateway
<1>6. row[s].gen \in Nat
  BY <1>1 DEF ReuseInv, FlightShape, Rows
<1>7. seen' \in [Calls -> Nat] /\ \A d \in Calls \ {c} : seen'[d] = seen[d]
  BY <1>5, <1>6 DEF ReuseInv, FlightShape
<1>8. row' = row \/ row' = [row EXCEPT ![s].live = FALSE]
  BY DEF Call, ResolveAnswers, ResolveStale, ResolveLogout, Join, TakeBegins, Take, TakeNothing,
         Revoke, RevokeFails, gateway
<1>9. ASSUME NEW z \in Consoles, row' = row \/ row' = [row EXCEPT ![z].live = FALSE]
      PROVE  /\ row' \in [Consoles -> Rows]
             /\ \A t \in Consoles : row'[t].gen = row[t].gen /\ (row'[t].live => row[t].live)
  <2>1. CASE row' = row
    BY <2>1 DEF ReuseInv, FlightShape
  <2>2. CASE row' = [row EXCEPT ![z].live = FALSE]
    BY <2>2 DEF ReuseInv, FlightShape, Rows
  <2>3. QED
    BY <1>9, <2>1, <2>2
<1>10. family' = family \/ family' = [family EXCEPT ![s].revoked = TRUE]
  BY DEF Call, ResolveAnswers, ResolveStale, ResolveLogout, Join, TakeBegins, Take, TakeNothing,
         Revoke, RevokeFails, gateway
<1>11. /\ family' \in [Consoles -> Families]
       /\ \A t \in Consoles : /\ family'[t].current = family[t].current
                              /\ family'[t].reused <=> family[t].reused
                              /\ family'[t].lost <=> family[t].lost
  <2>1. CASE family' = family
    BY <2>1 DEF ReuseInv, FlightShape
  <2>2. CASE family' = [family EXCEPT ![s].revoked = TRUE]
    BY <1>1, <2>2, FamilyChanges DEF ReuseInv, FlightShape
  <2>3. QED
    BY <1>10, <2>1, <2>2
<1>12. FlightShape'
  BY <1>1, <1>2, <1>4, <1>7, <1>8, <1>9, <1>11 DEF ReuseInv, FlightShape
<1>13. QED
  BY <1>1, <1>2, <1>3, <1>7, <1>8, <1>9, <1>11, <1>12, GroundKeepsReuseInv

LEMMA NextKeepsReuseInv == ReuseInv /\ [Next]_vars => ReuseInv'
<1> SUFFICES ASSUME ReuseInv, [Next]_vars PROVE ReuseInv'
  OBVIOUS
<1>1. ASSUME \A c \in Calls : pc'[c] = pc[c], pc' \in [Processes -> Stages], UNCHANGED gateway
      PROVE  ReuseInv'
  <2>1. FlightShape'
    BY <1>1 DEF ReuseInv, FlightShape, gateway
  <2>2. QED
    BY <1>1, <2>1, ElsewhereKeepsReuseInv DEF gateway
<1>2. CASE UNCHANGED vars
  BY <1>1, <1>2 DEF vars, ReuseInv, FlightShape
<1>3. ASSUME NEW d \in Direct, Arrive(d) \/ DirectStep(d) \/ LoseSpend(d) PROVE ReuseInv'
  <2>1. UNCHANGED gateway
    BY <1>3 DEF Arrive, DirectStep, Refuse, Verify, RefuseReplay, Claim, RotateDirect, Serve,
                RefuseSpent, LoseSpend
  <2>2. \E w \in Stages : Goto(d, w)
    BY <1>3 DEF Arrive, DirectStep, Refuse, Verify, RefuseReplay, Claim, RotateDirect, Serve,
                RefuseSpent, LoseSpend, Stages, Working
  <2>3. pc' \in [Processes -> Stages] /\ \A c \in Calls : pc'[c] = pc[c]
    BY <2>2, CallersAssumption DEF Goto, ReuseInv, FlightShape, Processes
  <2>4. QED
    BY <1>1, <2>1, <2>3
<1>4. ASSUME NEW c \in Calls, Call(c) \/ ConsoleStep(c) \/ Fault(c) PROVE ReuseInv'
  BY <1>4, GroundStepsKeepReuseInv, TakeOffKeepsReuseInv, AloftKeepsReuseInv, LandingKeepsReuseInv
     DEF ConsoleStep, Fault
<1>5. ASSUME NEW s \in Consoles, GoStale(s) PROVE ReuseInv'
  <2>1. row' = [row EXCEPT ![s].fresh = FALSE] /\ UNCHANGED <<pc, seen, flight, waiting, family>>
    BY <1>5 DEF GoStale
  <2>2. /\ row' \in [Consoles -> Rows]
        /\ \A t \in Consoles : row'[t].gen = row[t].gen /\ (row'[t].live => row[t].live)
    BY <2>1 DEF ReuseInv, FlightShape, Rows
  <2>3. FlightShape'
    BY <2>1, <2>2 DEF ReuseInv, FlightShape
  <2>4. QED
    BY <2>1, <2>2, <2>3, ElsewhereKeepsReuseInv
<1>6. ASSUME NEW s \in Consoles, RevokeElsewhere(s) PROVE ReuseInv'
  <2>1. /\ family' = [family EXCEPT ![s].revoked = TRUE]
        /\ UNCHANGED <<pc, seen, flight, waiting, row>>
    BY <1>6 DEF RevokeElsewhere
  <2>2. /\ family' \in [Consoles -> Families]
        /\ \A t \in Consoles : /\ family'[t].current = family[t].current
                               /\ family'[t].reused <=> family[t].reused
                               /\ family'[t].lost <=> family[t].lost
    BY <2>1, FamilyChanges DEF ReuseInv, FlightShape
  <2>3. FlightShape'
    BY <2>1, <2>2 DEF ReuseInv, FlightShape
  <2>4. QED
    BY <2>1, <2>2, <2>3, ElsewhereKeepsReuseInv
<1>7. CASE Reap \/ Tick
  BY <1>1, <1>7 DEF Reap, Tick, ReuseInv, FlightShape
<1>8. QED
  BY <1>2, <1>3, <1>4, <1>5, <1>6, <1>7, CrashKeepsReuseInv DEF Next

\* Reuse detection revokes a console session's grant only after the answer to a
\* rotation that had committed was lost: never because two requests refreshed it
\* together, or because one worked from a row read before the other's refresh
\* (freshAccessToken's single flight, row lock and second read).
THEOREM ConsoleTripsNoReuse == Spec => []ReuseOnlyAfterLostAnswer
<1>1. Spec => []ReuseInv
  BY InitReuseInv, NextKeepsReuseInv, PTL DEF Spec
<1>2. ReuseInv => ReuseOnlyAfterLostAnswer
  BY DEF ReuseInv, Faithful, ReuseOnlyAfterLostAnswer
<1>3. QED
  BY <1>1, <1>2, PTL

-----------------------------------------------------------------------------
(* Connections and slots are accounted for *)

Holding == Working \union (Locking \union {"verified", "taking"})
Doubling == Locking \ {"present"}
Slotted == {"lock"} \union Locking

\* The connections a request holds at a stage, and the slots.
HeldAt(p, stage) ==
    (IF stage \in Holding THEN 1 ELSE 0) + (IF p \in Calls /\ stage \in Doubling THEN 1 ELSE 0)
SlotsAt(p, stage) == IF p \in Calls /\ stage \in Slotted THEN 1 ELSE 0

Accounts ==
    /\ free \in Nat
    /\ queue \in Seq(Processes)
    /\ faults \in Nat
    /\ NoConnectionLeaks
    /\ running = Cardinality(Flying)
    /\ FlightsWithinSlots

\* One request moves from one stage to another: how many are at some stages.
LEMMA CountMoves ==
    ASSUME NEW P, IsFiniteSet(P), NEW W, NEW p \in P,
           \A q \in P \ {p} : pc'[q] = pc[q]
    PROVE  /\ Cardinality({q \in P : pc[q] \in W}) \in Nat
           /\ Cardinality({q \in P : pc'[q] \in W}) =
                Cardinality({q \in P : pc[q] \in W})
                + (IF pc'[p] \in W THEN 1 ELSE 0) - (IF pc[p] \in W THEN 1 ELSE 0)
<1> DEFINE Old == {q \in P : pc[q] \in W}
           New == {q \in P : pc'[q] \in W}
<1>1. IsFiniteSet(Old) /\ Cardinality(Old) \in Nat
  <2>1. Old \in SUBSET P
    OBVIOUS
  <2> HIDE DEF Old
  <2>2. QED
    BY <2>1, FS_Subset, FS_CardinalityType
<1>2. CASE (pc'[p] \in W) <=> (pc[p] \in W)
  <2>1. \A q \in P : pc'[q] \in W <=> pc[q] \in W
    BY <1>2
  <2>2. New = Old
    BY <2>1
  <2> HIDE DEF Old, New
  <2>3. Cardinality(New) = Cardinality(Old) + (IF pc'[p] \in W THEN 1 ELSE 0)
                           - (IF pc[p] \in W THEN 1 ELSE 0)
    <3>1. CASE pc'[p] \in W /\ pc[p] \in W
      BY <1>1, <2>2, <3>1
    <3>2. CASE pc'[p] \notin W /\ pc[p] \notin W
      BY <1>1, <2>2, <3>2
    <3>3. QED
      BY <1>2, <3>1, <3>2
  <2>4. QED
    BY <1>1, <2>3 DEF Old, New
<1>3. CASE pc'[p] \in W /\ pc[p] \notin W
  <2>1. New = Old \union {p} /\ p \notin Old
    BY <1>3
  <2> HIDE DEF Old, New
  <2>2. Cardinality(New) = Cardinality(Old) + 1
    BY <1>1, <2>1, FS_AddElement
  <2>3. QED
    BY <1>1, <1>3, <2>2 DEF Old, New
<1>4. CASE pc'[p] \notin W /\ pc[p] \in W
  <2>1. New = Old \ {p} /\ p \in Old
    BY <1>4
  <2> HIDE DEF Old, New
  <2>2. Cardinality(New) = Cardinality(Old) - 1
    BY <1>1, <2>1, FS_RemoveElement
  <2>3. QED
    BY <1>1, <1>4, <2>2 DEF Old, New
<1>5. QED
  BY <1>2, <1>3, <1>4

LEMMA PopulationFinite == IsFiniteSet(Processes) /\ IsFiniteSet(Calls)
BY PopulationAssumption, FS_Union DEF Processes

LEMMA CountsAreNaturals ==
    /\ Cardinality(Holders) \in Nat
    /\ Cardinality(Doubles) \in Nat
    /\ Cardinality(Flying) \in Nat
<1>1. Holders \in SUBSET Processes /\ Doubles \in SUBSET Calls /\ Flying \in SUBSET Calls
  BY DEF Holders, Doubles, Flying
<1>2. QED
  BY <1>1, PopulationFinite, FS_Subset, FS_CardinalityType

LEMMA NextCountsAreNaturals ==
    /\ Cardinality(Holders') \in Nat
    /\ Cardinality(Doubles') \in Nat
    /\ Cardinality(Flying') \in Nat
<1>1. Holders' \in SUBSET Processes /\ Doubles' \in SUBSET Calls /\ Flying' \in SUBSET Calls
  BY DEF Holders, Doubles, Flying
<1>2. QED
  BY <1>1, PopulationFinite, FS_Subset, FS_CardinalityType

LEMMA MoveCounts ==
    ASSUME pc \in [Processes -> Stages], NEW p \in Processes, NEW w, Goto(p, w)
    PROVE  /\ Cardinality(Holders') + Cardinality(Doubles') =
                Cardinality(Holders) + Cardinality(Doubles) + HeldAt(p, w) - HeldAt(p, pc[p])
           /\ Cardinality(Flying') = Cardinality(Flying) + SlotsAt(p, w) - SlotsAt(p, pc[p])
<1>1. pc'[p] = w /\ \A q \in Processes \ {p} : pc'[q] = pc[q]
  BY DEF Goto
<1>2. Calls \subseteq Processes
  BY DEF Processes
<1>3. /\ Holders = {q \in Processes : pc[q] \in Holding}
      /\ Holders' = {q \in Processes : pc'[q] \in Holding}
      /\ Doubles = {q \in Calls : pc[q] \in Doubling}
      /\ Doubles' = {q \in Calls : pc'[q] \in Doubling}
      /\ Flying = {q \in Calls : pc[q] \in Slotted}
      /\ Flying' = {q \in Calls : pc'[q] \in Slotted}
  BY DEF Holders, Doubles, Flying, Holding, Doubling, Slotted
<1>4. Cardinality(Holders') =
        Cardinality(Holders) + (IF w \in Holding THEN 1 ELSE 0)
        - (IF pc[p] \in Holding THEN 1 ELSE 0)
  <2>1. Cardinality({q \in Processes : pc'[q] \in Holding}) =
          Cardinality({q \in Processes : pc[q] \in Holding})
          + (IF pc'[p] \in Holding THEN 1 ELSE 0) - (IF pc[p] \in Holding THEN 1 ELSE 0)
    BY <1>1, PopulationFinite, CountMoves
  <2>2. QED
    BY <1>1, <1>3, <2>1
<1>5. CASE p \in Calls
  <2>1. \A q \in Calls \ {p} : pc'[q] = pc[q]
    BY <1>1, <1>2
  <2>2. Cardinality(Doubles') =
          Cardinality(Doubles) + (IF w \in Doubling THEN 1 ELSE 0)
          - (IF pc[p] \in Doubling THEN 1 ELSE 0)
    <3>1. Cardinality({q \in Calls : pc'[q] \in Doubling}) =
            Cardinality({q \in Calls : pc[q] \in Doubling})
            + (IF pc'[p] \in Doubling THEN 1 ELSE 0) - (IF pc[p] \in Doubling THEN 1 ELSE 0)
      BY <1>5, <2>1, PopulationFinite, CountMoves
    <3>2. QED
      BY <1>1, <1>3, <3>1
  <2>3. Cardinality(Flying') =
          Cardinality(Flying) + (IF w \in Slotted THEN 1 ELSE 0)
          - (IF pc[p] \in Slotted THEN 1 ELSE 0)
    <3>1. Cardinality({q \in Calls : pc'[q] \in Slotted}) =
            Cardinality({q \in Calls : pc[q] \in Slotted})
            + (IF pc'[p] \in Slotted THEN 1 ELSE 0) - (IF pc[p] \in Slotted THEN 1 ELSE 0)
      BY <1>5, <2>1, PopulationFinite, CountMoves
    <3>2. QED
      BY <1>1, <1>3, <3>1
  <2>4. QED
    BY <1>4, <1>5, <2>2, <2>3, CountsAreNaturals DEF HeldAt, SlotsAt
<1>6. CASE p \notin Calls
  <2>1. Doubles' = Doubles /\ Flying' = Flying
    BY <1>1, <1>2, <1>3, <1>6
  <2>2. QED
    BY <1>4, <1>6, <2>1, CountsAreNaturals DEF HeldAt, SlotsAt
<1>7. QED
  BY <1>5, <1>6

\* A move keeps the accounts when the pool and the semaphore record what it does.
LEMMA MoveKeepsAccounts ==
    ASSUME Accounts, pc \in [Processes -> Stages], NEW p \in Processes, NEW w, Goto(p, w),
           queue' \in Seq(Processes), faults' \in Nat, free' \in Nat,
           free' = free + HeldAt(p, pc[p]) - HeldAt(p, w),
           running' = running + SlotsAt(p, w) - SlotsAt(p, pc[p]),
           running' <= RefreshConcurrency
    PROVE  Accounts'
<1>1. /\ Cardinality(Holders') + Cardinality(Doubles') =
           Cardinality(Holders) + Cardinality(Doubles) + HeldAt(p, w) - HeldAt(p, pc[p])
      /\ Cardinality(Flying') = Cardinality(Flying) + SlotsAt(p, w) - SlotsAt(p, pc[p])
  BY MoveCounts
<1>2. HeldAt(p, w) \in Nat /\ HeldAt(p, pc[p]) \in Nat /\ SlotsAt(p, w) \in Nat
      /\ SlotsAt(p, pc[p]) \in Nat
  BY DEF HeldAt, SlotsAt
<1>3. /\ Cardinality(Holders) \in Nat /\ Cardinality(Holders') \in Nat
      /\ Cardinality(Doubles) \in Nat /\ Cardinality(Doubles') \in Nat
      /\ Cardinality(Flying) \in Nat /\ Cardinality(Flying') \in Nat
  BY CountsAreNaturals, NextCountsAreNaturals
<1>4. free + Cardinality(Holders) + Cardinality(Doubles) = Pool /\ free \in Nat
  BY DEF Accounts, NoConnectionLeaks
<1>5. NoConnectionLeaks'
  <2>1. free' = free + HeldAt(p, pc[p]) - HeldAt(p, w)
    OBVIOUS
  <2>2. ASSUME NEW f \in Int, NEW h \in Int, NEW d \in Int, NEW i \in Int, NEW e \in Int,
               NEW a \in Int, NEW b \in Int, NEW g \in Int,
               f + h + d = Pool, i + e = h + d + b - a, g = f + a - b
        PROVE  g + i + e = Pool
    BY <2>2
  <2>3. PICK h, d, i, e, a, b :
          /\ h = Cardinality(Holders) /\ i = Cardinality(Holders')
          /\ d = Cardinality(Doubles) /\ e = Cardinality(Doubles')
          /\ a = HeldAt(p, pc[p]) /\ b = HeldAt(p, w)
    OBVIOUS
  <2>4. /\ h \in Nat /\ i \in Nat /\ d \in Nat /\ e \in Nat /\ a \in Nat /\ b \in Nat
        /\ free + h + d = Pool /\ i + e = h + d + b - a /\ free' = free + a - b
    BY <1>1, <1>2, <1>3, <1>4, <2>1, <2>3
  <2>5. free' + i + e = Pool
    BY <1>4, <2>2, <2>4
  <2>6. free' + Cardinality(Holders') + Cardinality(Doubles') = Pool
    BY <2>3, <2>5
  <2>7. QED
    BY <2>6 DEF NoConnectionLeaks
<1>6. running' = Cardinality(Flying') /\ Cardinality(Flying') <= RefreshConcurrency
  BY <1>1, <1>2, <1>3 DEF Accounts
<1>7. QED
  BY <1>5, <1>6 DEF Accounts, FlightsWithinSlots, RefreshConcurrency

LEMMA SlotsAreSome == RefreshConcurrency \in Nat \ {0}
<1> DEFINE k == IF Pool < 2 THEN 0 ELSE (Pool - 2) \div 3
           m == Min({2, k})
           n == Max({1, m})
<1>1. k \in Nat
  BY PoolAssumption
<1> HIDE DEF k
<1>2. m \in {2, k}
  <2>1. \E x \in {2, k} : \A y \in {2, k} : x =< y
    BY <1>1
  <2>2. QED
    BY <2>1 DEF Min
<1>3. m \in Nat
  BY <1>1, <1>2
<1> HIDE DEF m
<1>4. n \in {1, m} /\ \A y \in {1, m} : n >= y
  <2>1. \E x \in {1, m} : \A y \in {1, m} : x >= y
    BY <1>3
  <2>2. QED
    BY <2>1 DEF Max
<1>5. n \in Nat \ {0}
  BY <1>3, <1>4
<1>6. RefreshConcurrency = n
  BY DEF RefreshConcurrency, n, m, k
<1>7. QED
  BY <1>5, <1>6

\* What each way of using the pool makes of it.
LEMMA PoolMoves ==
    ASSUME Accounts, NEW p \in Processes
    PROVE  /\ Ask(p) => free' = free /\ queue' \in Seq(Processes)
           /\ GiveBack => free' = free + 1 /\ queue' \in Seq(Processes)
           /\ Served(p) /\ Pass => free' = free /\ queue' \in Seq(Processes)
           /\ Served(p) /\ Keep =>
                free' = free - 1 /\ free' \in Nat /\ queue' \in Seq(Processes)
           /\ Served(p) /\ KeepAndAsk(p) =>
                free' = free - 1 /\ free' \in Nat /\ queue' \in Seq(Processes)
<1>1. free \in Nat /\ queue \in Seq(Processes)
  BY DEF Accounts
<1>2. Served(p) => free > 0 /\ Tail(queue) \in Seq(Processes)
  BY <1>1 DEF Served, Waits
<1>3. Served(p) => free - 1 \in Nat
  BY <1>1, <1>2
<1>4. QED
  BY <1>1, <1>2, <1>3 DEF Ask, GiveBack, Pass, Keep, KeepAndAsk

LEMMA DirectKeepsAccounts ==
    ASSUME Accounts, JtiInv, NEW d \in Direct, Arrive(d) \/ DirectStep(d) \/ LoseSpend(d)
    PROVE  Accounts'
<1>1. d \in Processes /\ d \notin Calls
  BY CallersAssumption DEF Processes
<1>2. /\ pc \in [Processes -> Stages] /\ free \in Nat /\ faults \in Nat
      /\ running \in Nat /\ running <= RefreshConcurrency
  BY CountsAreNaturals DEF JtiInv, JtiShape, Accounts, FlightsWithinSlots
<1>3. UNCHANGED running /\ faults' \in Nat
  BY <1>2 DEF Arrive, DirectStep, LoseSpend, Refuse, Verify, RefuseReplay, Claim, RotateDirect,
              Serve, RefuseSpent, gateway
<1>4. ASSUME NEW w, Goto(d, w), queue' \in Seq(Processes), free' \in Nat,
             free' = free + HeldAt(d, pc[d]) - HeldAt(d, w)
      PROVE  Accounts'
  <2>1. running' = running + SlotsAt(d, w) - SlotsAt(d, pc[d]) /\ running' <= RefreshConcurrency
    BY <1>1, <1>2, <1>3 DEF SlotsAt
  <2>2. QED
    BY <1>1, <1>2, <1>3, <1>4, <2>1, MoveKeepsAccounts
<1>5. /\ \A w \in {"idle", "claim", "done"} : HeldAt(d, w) = 0
      /\ \A w \in {"verified", "rotate", "settle"} : HeldAt(d, w) = 1
  BY <1>1 DEF HeldAt, Holding, Working, Locking
<1>6. CASE Arrive(d)
  BY <1>1, <1>2, <1>4, <1>5, <1>6, PoolMoves DEF Arrive
<1>7. CASE Refuse(d)
  BY <1>1, <1>2, <1>4, <1>5, <1>7, PoolMoves DEF Refuse
<1>8. CASE Verify(d)
  <2>1. /\ free' = free - 1 /\ free' \in Nat /\ queue' \in Seq(Processes)
    BY <1>1, <1>8, PoolMoves DEF Verify
  <2>2. QED
    BY <1>2, <1>4, <1>5, <1>8, <2>1 DEF Verify
<1>9. CASE RefuseReplay(d)
  BY <1>1, <1>2, <1>4, <1>5, <1>9, PoolMoves DEF RefuseReplay
<1>10. CASE Claim(d)
  <2>1. free' = free /\ queue' \in Seq(Processes)
    BY <1>1, <1>10, PoolMoves DEF Claim, pools, Accounts
  <2>2. QED
    BY <1>2, <1>4, <1>5, <1>10, <2>1 DEF Claim
<1>11. CASE RotateDirect(d)
  BY <1>1, <1>2, <1>4, <1>5, <1>11, PoolMoves DEF RotateDirect
<1>12. CASE Serve(d) \/ RefuseSpent(d) \/ LoseSpend(d)
  <2>1. pc[d] = "settle" /\ Goto(d, "done") /\ GiveBack
    BY <1>12 DEF Serve, RefuseSpent, LoseSpend
  <2>2. QED
    BY <1>1, <1>2, <1>4, <1>5, <2>1, PoolMoves
<1>13. QED
  BY <1>6, <1>7, <1>8, <1>9, <1>10, <1>11, <1>12 DEF DirectStep

\* A console request moves on its own.
LEMMA CallKeepsAccounts ==
    ASSUME Accounts, JtiInv, NEW c \in Calls,
           \/ Call(c) \/ ResolveAnswers(c) \/ ResolveStale(c) \/ ResolveLogout(c) \/ Join(c)
           \/ TakeOff(c) \/ LockStale(c) \/ Present(c) \/ RotateConsole(c) \/ TakeBegins(c)
           \/ Take(c) \/ TakeNothing(c) \/ Revoke(c) \/ RevokeFails(c)
    PROVE  Accounts'
<1>1. c \in Processes
  BY DEF Processes
<1>2. /\ pc \in [Processes -> Stages] /\ free \in Nat /\ faults \in Nat
      /\ queue \in Seq(Processes)
      /\ running \in Nat /\ running <= RefreshConcurrency
  BY CountsAreNaturals DEF JtiInv, JtiShape, Accounts, FlightsWithinSlots
<1>3. faults' \in Nat
  BY <1>2 DEF Call, ResolveAnswers, ResolveStale, ResolveLogout, Join, TakeOff, LockStale,
              Present, RotateConsole, TakeBegins, Take, TakeNothing, Revoke, RevokeFails
<1>4. ASSUME NEW w, Goto(c, w), queue' \in Seq(Processes), free' \in Nat,
             free' = free + HeldAt(c, pc[c]) - HeldAt(c, w),
             running' = running + SlotsAt(c, w) - SlotsAt(c, pc[c]),
             running' <= RefreshConcurrency
      PROVE  Accounts'
  BY <1>1, <1>2, <1>3, <1>4, MoveKeepsAccounts
<1>5. ASSUME NEW w, Goto(c, w), queue' \in Seq(Processes), free' \in Nat, UNCHANGED running,
             free' = free + HeldAt(c, pc[c]) - HeldAt(c, w), SlotsAt(c, w) = SlotsAt(c, pc[c])
      PROVE  Accounts'
  <2>1. SlotsAt(c, w) \in Nat
    BY DEF SlotsAt
  <2>2. running' = running + SlotsAt(c, w) - SlotsAt(c, pc[c]) /\ running' <= RefreshConcurrency
    BY <1>2, <1>5, <2>1
  <2>3. QED
    BY <1>4, <1>5, <2>2
<1>6. /\ \A w \in {"idle", "resolve", "refresh", "joined", "slot", "lock", "take", "revoke",
                   "done"} : HeldAt(c, w) = 0
      /\ \A w \in {"present", "taking"} : HeldAt(c, w) = 1
      /\ \A w \in {"rotate", "mint", "end"} : HeldAt(c, w) = 2
  BY DEF HeldAt, Holding, Doubling, Working, Locking
<1>7. /\ \A w \in {"idle", "resolve", "refresh", "joined", "slot", "take", "taking", "revoke",
                   "done"} : SlotsAt(c, w) = 0
      /\ \A w \in {"lock", "present", "rotate", "mint", "end"} : SlotsAt(c, w) = 1
  BY DEF SlotsAt, Slotted, Locking
<1>8. CASE Call(c)
  <2>1. pc[c] = "idle" /\ Goto(c, "resolve") /\ Ask(c) /\ UNCHANGED running
    BY <1>8 DEF Call, gateway
  <2>2. QED
    BY <1>1, <1>2, <1>5, <1>6, <1>7, <2>1, PoolMoves
<1>9. CASE ResolveAnswers(c) \/ ResolveStale(c) \/ Revoke(c) \/ RevokeFails(c)
  <2>1. PICK w \in {"refresh", "done"} : Goto(c, w)
    BY <1>9 DEF ResolveAnswers, ResolveStale, Revoke, RevokeFails
  <2>2. pc[c] \in {"resolve", "revoke"} /\ Served(c) /\ Pass /\ UNCHANGED running
    BY <1>9 DEF ResolveAnswers, ResolveStale, Revoke, RevokeFails, gateway
  <2>3. free' = free /\ queue' \in Seq(Processes)
    BY <1>1, <2>2, PoolMoves
  <2>4. QED
    BY <1>2, <1>5, <1>6, <1>7, <2>1, <2>2, <2>3
<1>10. CASE ResolveLogout(c)
  <2>1. /\ pc[c] = "resolve" /\ Goto(c, "take") /\ Served(c) /\ UNCHANGED running
        /\ free' = free /\ queue' = Append(Tail(queue), c)
    BY <1>10 DEF ResolveLogout, gateway
  <2>2. queue' \in Seq(Processes)
    BY <1>1, <1>2, <2>1 DEF Served, Waits
  <2>3. QED
    BY <1>2, <1>5, <1>6, <1>7, <2>1, <2>2
<1>11. CASE Join(c)
  <2>1. pc[c] = "refresh" /\ Goto(c, "joined") /\ UNCHANGED <<free, queue, running>>
    BY <1>11 DEF Join, gateway, pools
  <2>2. QED
    BY <1>2, <1>5, <1>6, <1>7, <2>1
<1>12. CASE TakeOff(c)
  <2>1. pc[c] = "refresh"
    BY <1>12 DEF TakeOff
  <2>2. CASE running < RefreshConcurrency /\ running' = running + 1 /\ Goto(c, "lock") /\ Ask(c)
    <3>1. free' = free /\ queue' \in Seq(Processes)
      BY <1>1, <2>2, PoolMoves
    <3>2. running' <= RefreshConcurrency
      BY <1>2, <2>2, SlotsAreSome
    <3>3. QED
      BY <1>2, <1>4, <1>6, <1>7, <2>1, <2>2, <3>1, <3>2
  <2>3. CASE Goto(c, "slot") /\ UNCHANGED <<pools, running>>
    BY <1>2, <1>5, <1>6, <1>7, <2>1, <2>3 DEF pools
  <2>4. QED
    BY <1>12, <2>2, <2>3 DEF TakeOff
<1>13. CASE LockStale(c) \/ Present(c)
  <2>1. \/ pc[c] = "lock" /\ Goto(c, "present")
        \/ pc[c] = "present" /\ Goto(c, "rotate")
    BY <1>13 DEF LockStale, Present
  <2>2. Served(c) /\ KeepAndAsk(c) /\ UNCHANGED running
    BY <1>13 DEF LockStale, Present, gateway
  <2>3. free' = free - 1 /\ free' \in Nat /\ queue' \in Seq(Processes)
    BY <1>1, <2>2, PoolMoves
  <2>4. QED
    BY <1>2, <1>5, <1>6, <1>7, <2>1, <2>2, <2>3
<1>14. CASE RotateConsole(c)
  <2>1. PICK w \in {"mint", "end"} : Goto(c, w)
    BY <1>14 DEF RotateConsole
  <2>2. pc[c] = "rotate" /\ Served(c) /\ Pass /\ UNCHANGED running
    BY <1>14 DEF RotateConsole
  <2>3. free' = free /\ queue' \in Seq(Processes)
    BY <1>1, <2>2, PoolMoves
  <2>4. QED
    BY <1>2, <1>5, <1>6, <1>7, <2>1, <2>2, <2>3
<1>15. CASE TakeBegins(c)
  <2>1. pc[c] = "take" /\ Goto(c, "taking") /\ Served(c) /\ Keep /\ UNCHANGED running
    BY <1>15 DEF TakeBegins, gateway
  <2>2. free' = free - 1 /\ free' \in Nat /\ queue' \in Seq(Processes)
    BY <1>1, <2>1, PoolMoves
  <2>3. QED
    BY <1>2, <1>5, <1>6, <1>7, <2>1, <2>2
<1>16. CASE Take(c)
  <2>1. /\ pc[c] = "taking" /\ Goto(c, "revoke") /\ UNCHANGED running
        /\ free' = free + 1 /\ queue' = Append(queue, c)
    BY <1>16 DEF Take
  <2>2. queue' \in Seq(Processes)
    BY <1>1, <1>2, <2>1
  <2>3. QED
    BY <1>2, <1>5, <1>6, <1>7, <2>1, <2>2
<1>17. CASE TakeNothing(c)
  <2>1. pc[c] = "taking" /\ Goto(c, "done") /\ GiveBack /\ UNCHANGED running
    BY <1>17 DEF TakeNothing, gateway
  <2>2. QED
    BY <1>1, <1>2, <1>5, <1>6, <1>7, <2>1, PoolMoves
<1>18. QED
  BY <1>8, <1>9, <1>10, <1>11, <1>12, <1>13, <1>14, <1>15, <1>16, <1>17

\* A flight ends: its connections go back, and its slot to the next in line.
LEMMA LandKeepsAccounts ==
    ASSUME Accounts, ReuseInv, NEW c \in Calls, NEW n, Land(c, n), pc[c] \in Slotted,
           n = HeldAt(c, pc[c]), faults' \in Nat
    PROVE  Accounts'
<1> DEFINE handed == IF waiting = <<>> THEN {} ELSE {Head(waiting)}
           answered == {c} \union {d \in Calls : pc[d] = "joined" /\ ConsoleOf[d] = ConsoleOf[c]}
<1>1. /\ pc \in [Processes -> Stages] /\ free \in Nat /\ queue \in Seq(Processes)
      /\ running = Cardinality(Flying) /\ running <= RefreshConcurrency
      /\ waiting \in Seq(Calls) /\ c \in Processes /\ Calls \subseteq Processes
  BY DEF Accounts, FlightsWithinSlots, ReuseInv, FlightShape, Processes
<1>2. pc' = [p \in Processes |-> IF p \in answered THEN "done"
                                 ELSE IF p \in handed THEN "lock" ELSE pc[p]]
  BY DEF Land
<1>3. waiting # <<>> => Head(waiting) \in Calls /\ pc[Head(waiting)] = "slot"
  <2>1. SUFFICES ASSUME waiting # <<>> PROVE Head(waiting) \in Calls /\ pc[Head(waiting)] = "slot"
    OBVIOUS
  <2>2. 1 \in 1 .. Len(waiting) /\ Head(waiting) = waiting[1] /\ waiting[1] \in Calls
    BY <1>1, <2>1
  <2>3. QED
    BY <2>2 DEF ReuseInv, WaitersWait
<1>4. \A p \in handed : p \in Calls /\ pc[p] = "slot" /\ p # c
  BY <1>3 DEF Slotted, Locking
<1>5. \A p \in answered \ {c} : pc[p] = "joined"
  OBVIOUS
<1>6. c \in answered
  OBVIOUS
<1> HIDE DEF handed, answered
<1>7. pc'[c] = "done"
  BY <1>1, <1>2, <1>6
<1>8. ASSUME NEW p \in Processes, p # c
      PROVE  \/ pc'[p] = pc[p] /\ p \notin handed
             \/ pc[p] = "joined" /\ pc'[p] = "done" /\ p \notin handed
             \/ pc[p] = "slot" /\ pc'[p] = "lock" /\ p \in handed
  BY <1>2, <1>4, <1>5, <1>8
<1>9. Holders' = Holders \ {c}
  <2>1. \A p \in Processes : p # c =>
          (pc'[p] \in Working \union (Locking \union {"verified", "taking"})
             <=> pc[p] \in Working \union (Locking \union {"verified", "taking"}))
    BY <1>8 DEF Working, Locking
  <2>2. pc'[c] \notin Working \union (Locking \union {"verified", "taking"})
    BY <1>7 DEF Working, Locking
  <2>3. QED
    BY <2>1, <2>2 DEF Holders
<1>10. Doubles' = Doubles \ {c}
  <2>1. \A p \in Calls : p # c => (pc'[p] \in Locking \ {"present"} <=> pc[p] \in Locking \ {"present"})
    BY <1>1, <1>8 DEF Locking
  <2>2. pc'[c] \notin Locking \ {"present"}
    BY <1>7 DEF Locking
  <2>3. QED
    BY <2>1, <2>2 DEF Doubles
<1>11. Flying' = (Flying \ {c}) \union handed
  <2>1. \A p \in Calls : p # c =>
          (pc'[p] \in {"lock"} \union Locking
             <=> pc[p] \in {"lock"} \union Locking \/ p \in handed)
    BY <1>1, <1>8 DEF Locking
  <2>2. pc'[c] \notin {"lock"} \union Locking
    BY <1>7 DEF Locking
  <2>3. handed \subseteq Calls /\ c \notin handed
    BY <1>4
  <2>4. QED
    BY <2>1, <2>2, <2>3 DEF Flying
<1>12. IsFiniteSet(Holders) /\ IsFiniteSet(Doubles) /\ IsFiniteSet(Flying)
  <2>1. Holders \in SUBSET Processes /\ Doubles \in SUBSET Calls /\ Flying \in SUBSET Calls
    BY DEF Holders, Doubles, Flying
  <2>2. QED
    BY <2>1, PopulationFinite, FS_Subset
<1>13. free' = free + n /\ queue' \in Seq(Processes)
  <2>1. Waits(c) => Tail(queue) \in Seq(Processes)
    BY <1>1 DEF Waits
  <2>2. waiting # <<>> => <<Head(waiting)>> \in Seq(Processes)
    BY <1>1, <1>3
  <2>3. PICK q \in Seq(Processes), r \in Seq(Processes) : queue' = q \o r
    <3>1. queue' = (IF Waits(c) THEN Tail(queue) ELSE queue)
                   \o (IF waiting = <<>> THEN <<>> ELSE <<Head(waiting)>>)
      BY DEF Land
    <3>2. (IF Waits(c) THEN Tail(queue) ELSE queue) \in Seq(Processes)
      BY <1>1, <2>1
    <3>3. (IF waiting = <<>> THEN <<>> ELSE <<Head(waiting)>>) \in Seq(Processes)
      BY <2>2
    <3>4. QED
      BY <3>1, <3>2, <3>3
  <2>4. queue' \in Seq(Processes)
    BY <2>3
  <2>5. free' = free + n
    BY DEF Land
  <2>6. QED
    BY <2>4, <2>5
<1>14. NoConnectionLeaks'
  <2>1. Cardinality(Holders') = Cardinality(Holders) - (IF pc[c] \in Holding THEN 1 ELSE 0)
    <3>1. c \in Holders <=> pc[c] \in Holding
      BY <1>1 DEF Holders, Holding
    <3>2. Cardinality(Holders \ {c}) = IF c \in Holders THEN Cardinality(Holders) - 1
                                       ELSE Cardinality(Holders)
      BY <1>12, FS_RemoveElement
    <3>3. QED
      BY <1>9, <3>1, <3>2, CountsAreNaturals
  <2>2. Cardinality(Doubles') = Cardinality(Doubles) - (IF pc[c] \in Doubling THEN 1 ELSE 0)
    <3>1. c \in Doubles <=> pc[c] \in Doubling
      BY <1>1 DEF Doubles, Doubling
    <3>2. Cardinality(Doubles \ {c}) = IF c \in Doubles THEN Cardinality(Doubles) - 1
                                       ELSE Cardinality(Doubles)
      BY <1>12, FS_RemoveElement
    <3>3. QED
      BY <1>10, <3>1, <3>2, CountsAreNaturals
  <2>3. n = (IF pc[c] \in Holding THEN 1 ELSE 0) + (IF pc[c] \in Doubling THEN 1 ELSE 0)
    BY DEF HeldAt
  <2>4. free + Cardinality(Holders) + Cardinality(Doubles) = Pool
    BY DEF Accounts, NoConnectionLeaks
  <2>5. PICK h, d, i, e :
          /\ h = Cardinality(Holders) /\ i = Cardinality(Holders')
          /\ d = Cardinality(Doubles) /\ e = Cardinality(Doubles')
    OBVIOUS
  <2>6. h \in Nat /\ d \in Nat
    BY <2>5, CountsAreNaturals
  <2>7. PICK x \in {0, 1}, y \in {0, 1} :
          /\ x = (IF pc[c] \in Holding THEN 1 ELSE 0)
          /\ y = (IF pc[c] \in Doubling THEN 1 ELSE 0)
    OBVIOUS
  <2>8. i = h - x /\ e = d - y /\ n = x + y /\ free + h + d = Pool /\ free' = free + n
    BY <1>13, <2>1, <2>2, <2>3, <2>4, <2>5, <2>7
  <2>9. free' + i + e = Pool
    BY <1>1, <2>6, <2>8
  <2>10. QED
    BY <2>5, <2>9 DEF NoConnectionLeaks
<1>15. running' = Cardinality(Flying') /\ running' <= RefreshConcurrency
  <2>1. c \in Flying
    BY DEF Flying, Slotted
  <2>2. IsFiniteSet(Flying \ {c}) /\ Cardinality(Flying \ {c}) = running - 1 /\ running \in Nat
    BY <1>1, <1>12, <2>1, FS_RemoveElement, CountsAreNaturals
  <2>3. CASE waiting = <<>>
    <3>1. Flying' = Flying \ {c} /\ running' = running - 1
      BY <1>11, <2>3 DEF handed, Land
    <3>2. QED
      BY <1>1, <2>2, <3>1, SlotsAreSome
  <2>4. CASE waiting # <<>>
    <3>1. /\ Flying' = (Flying \ {c}) \union {Head(waiting)}
          /\ Head(waiting) \notin Flying \ {c}
          /\ running' = running
      BY <1>3, <1>11, <2>4 DEF handed, Land, Flying, Locking
    <3>2. Cardinality(Flying') = running - 1 + 1
      BY <2>2, <3>1, FS_AddElement
    <3>3. QED
      BY <1>1, <2>2, <3>1, <3>2
  <2>5. QED
    BY <2>3, <2>4
<1>16. free' \in Nat
  BY <1>1, <1>13 DEF HeldAt
<1>17. QED
  BY <1>13, <1>14, <1>15, <1>16 DEF Accounts, FlightsWithinSlots, RefreshConcurrency

LEMMA CrashKeepsAccounts ==
    ASSUME Accounts, Crash
    PROVE  Accounts'
<1>1. \A p \in Processes : pc'[p] \in {"idle", "done"}
  BY DEF Crash
<1>2. Holders' = {} /\ Doubles' = {} /\ Flying' = {}
  BY <1>1 DEF Holders, Doubles, Flying, Processes, Working, Locking
<1>3. Cardinality(Holders') = 0 /\ Cardinality(Doubles') = 0 /\ Cardinality(Flying') = 0
  BY <1>2, FS_EmptySet
<1>4. /\ free' = Pool /\ queue' = <<>> /\ running' = 0 /\ faults' \in Nat
  BY DEF Crash, Accounts
<1>5. NoConnectionLeaks'
  BY <1>3, <1>4, PoolAssumption DEF NoConnectionLeaks
<1>6. FlightsWithinSlots'
  BY <1>3, SlotsAreSome DEF FlightsWithinSlots, RefreshConcurrency
<1>7. QED
  BY <1>3, <1>4, <1>5, <1>6, PoolAssumption DEF Accounts

LEMMA ElsewhereKeepsAccounts ==
    ASSUME Accounts, UNCHANGED <<pc, free, queue, running>>, faults' \in Nat
    PROVE  Accounts'
<1>1. Holders' = Holders /\ Doubles' = Doubles /\ Flying' = Flying
  BY DEF Holders, Doubles, Flying
<1>2. QED
  BY <1>1 DEF Accounts, NoConnectionLeaks, FlightsWithinSlots, RefreshConcurrency

LEMMA NextKeepsAccounts == Accounts /\ JtiInv /\ ReuseInv /\ [Next]_vars => Accounts'
<1> SUFFICES ASSUME Accounts, JtiInv, ReuseInv, [Next]_vars PROVE Accounts'
  OBVIOUS
<1>1. faults \in Nat
  BY DEF Accounts
<1>2. ASSUME NEW c \in Calls,
             \/ LockAnswers(c) \/ LockTimesOut(c) \/ PresentFails(c) \/ Store(c)
             \/ MintFails(c) \/ MintRefused(c) \/ EndRow(c)
      PROVE  Accounts'
  <2>1. /\ HeldAt(c, "lock") = 0 /\ HeldAt(c, "present") = 1
        /\ HeldAt(c, "mint") = 2 /\ HeldAt(c, "end") = 2
    BY DEF HeldAt, Holding, Doubling, Working, Locking
  <2>2. pc[c] \in Slotted /\ faults' \in Nat
    BY <1>1, <1>2 DEF LockAnswers, LockTimesOut, PresentFails, Store, MintFails, MintRefused, EndRow,
                      Slotted, Locking
  <2>3. Land(c, HeldAt(c, pc[c]))
    BY <1>2, <2>1 DEF LockAnswers, LockTimesOut, PresentFails, Store, MintFails, MintRefused, EndRow
  <2>4. QED
    BY <2>2, <2>3, LandKeepsAccounts
<1>3. CASE \E d \in Direct : Arrive(d) \/ DirectStep(d) \/ LoseSpend(d)
  BY <1>3, DirectKeepsAccounts
<1>4. ASSUME NEW c \in Calls, Call(c) \/ ConsoleStep(c) \/ Fault(c) PROVE Accounts'
  BY <1>2, <1>4, CallKeepsAccounts DEF ConsoleStep, Fault
<1>5. CASE \E s \in Consoles : GoStale(s) \/ RevokeElsewhere(s)
  BY <1>1, <1>5, ElsewhereKeepsAccounts DEF GoStale, RevokeElsewhere, pools
<1>6. CASE Reap \/ Tick \/ UNCHANGED vars
  BY <1>1, <1>6, ElsewhereKeepsAccounts DEF Reap, Tick, vars, pools, gateway
<1>7. QED
  BY <1>3, <1>4, <1>5, <1>6, CrashKeepsAccounts DEF Next

LEMMA InitAccounts == Init => Accounts
<1> SUFFICES ASSUME Init PROVE Accounts
  OBVIOUS
<1>1. Holders = {} /\ Doubles = {} /\ Flying = {}
  BY DEF Init, Holders, Doubles, Flying, Processes, Working, Locking
<1>2. Cardinality(Holders) = 0 /\ Cardinality(Doubles) = 0 /\ Cardinality(Flying) = 0
  BY <1>1, FS_EmptySet
<1>3. QED
  BY <1>2, PoolAssumption, SlotsAreSome
     DEF Init, Accounts, NoConnectionLeaks, FlightsWithinSlots

LEMMA AccountsInvariant == Spec => [](Accounts /\ JtiInv /\ ReuseInv)
BY InitAccounts, InitJtiInv, InitReuseInv, NextKeepsAccounts, NextKeepsJtiInv,
   NextKeepsReuseInv, PTL DEF Spec

\* Every connection of the pool is idle or held by a request that is still to give
\* it back, however requests, flights and logouts overlap, fail and are cut short
\* (withTenant, the pool of createDatabase).
THEOREM ConnectionsNeverLeak == Spec => []NoConnectionLeaks
<1>1. Accounts => NoConnectionLeaks
  BY DEF Accounts
<1>2. QED
  BY <1>1, AccountsInvariant, PTL

\* No more flights hold or ask for connections than the semaphore has slots,
\* whatever the size of the pool (semaphore, refreshConcurrency).
THEOREM SemaphoreHolds == Spec => []FlightsWithinSlots
<1>1. Accounts => FlightsWithinSlots
  BY DEF Accounts
<1>2. QED
  BY <1>1, AccountsInvariant, PTL

\* Every variable keeps its type: the pool never lends what it does not have nor
\* takes back one connection too many, and the semaphore's count never goes below
\* zero (createDatabase's pool, semaphore).
THEOREM TypeCorrect == Spec => []TypeOK
<1>1. Accounts /\ JtiInv /\ ReuseInv => TypeOK
  <2> SUFFICES ASSUME Accounts, JtiInv, ReuseInv PROVE TypeOK
    OBVIOUS
  <2>1. free \in 0 .. Pool
    <3>1. PICK h, d : h = Cardinality(Holders) /\ d = Cardinality(Doubles)
      OBVIOUS
    <3>2. h \in Nat /\ d \in Nat /\ free \in Nat /\ free + h + d = Pool
      BY <3>1, CountsAreNaturals DEF Accounts, NoConnectionLeaks
    <3>3. QED
      BY <3>2, PoolAssumption
  <2>2. running \in Nat
    BY CountsAreNaturals DEF Accounts
  <2>3. QED
    BY <2>1, <2>2 DEF TypeOK, Accounts, JtiInv, JtiShape, ReuseInv, FlightShape, Rows, Families
<1>2. QED
  BY <1>1, AccountsInvariant, PTL
=============================================================================
