----------------------------- MODULE OutboxProofs -----------------------------
(* Proofs about the mail outbox, for any number of messages, passes and      *)
(* attempts, and whatever dies.                                              *)
EXTENDS Outbox, TLAPS

\* The part of the type invariant the arguments need; Scalars below is the rest.
Shape ==
    /\ st \in [Items -> {"none", "row", "gone"}]
    /\ attempts \in [Items -> 0..MaxAttempts]
    /\ pc \in [Passes -> Places]
    /\ claim \in [Passes -> [Items -> 0..MaxAttempts]]
    /\ cur \in [Passes -> Items \union {None}]
    /\ handed \in [Items -> [1..MaxAttempts -> Nat]]

\* A message not yet enqueued has no attempt behind it.
FreshUncounted == \A i \in Items : st[i] = "none" => attempts[i] = 0

\* The attempt a pass holds has been counted, and no other pass holds it.
ClaimsCounted == \A p \in Passes, i \in Items : claim[p][i] <= attempts[i]
ClaimsApart ==
    \A p, q \in Passes, i \in Items : claim[p][i] # 0 /\ claim[p][i] = claim[q][i] => p = q

\* Between the send and the record of its outcome.
Marking(p, i) == pc[p] \in {"accepted", "refused"} /\ cur[p] = i
MarkingHeld == \A p \in Passes : pc[p] \in {"accepted", "refused"} =>
                  cur[p] \in Items /\ claim[p][cur[p]] # 0

\* An attempt not yet counted was never handed over; one that is held was handed
\* over only if its pass is about to record the outcome.
UncountedUnsent ==
    \A i \in Items, k \in 1..MaxAttempts : k > attempts[i] => handed[i][k] = 0
HeldUnsent ==
    \A p \in Passes, i \in Items :
        claim[p][i] # 0 /\ ~Marking(p, i) => handed[i][claim[p][i]] = 0

\* The inductive invariant behind EachAttemptOnce.
IInv ==
    /\ Shape /\ FreshUncounted /\ ClaimsCounted /\ ClaimsApart /\ MarkingHeld
    /\ UncountedUnsent /\ HeldUnsent /\ EachAttemptOnce

LEMMA InitIInv == Init => IInv
<1> SUFFICES ASSUME Init PROVE IInv
  OBVIOUS
<1> USE QueueAssumption DEF Init, QueueInit, NoClaim
<1>1. Shape
  BY DEF Shape, Places
<1>2. FreshUncounted /\ ClaimsCounted /\ ClaimsApart /\ MarkingHeld
  BY DEF FreshUncounted, ClaimsCounted, ClaimsApart, MarkingHeld
<1>3. UncountedUnsent /\ HeldUnsent /\ EachAttemptOnce
  BY DEF UncountedUnsent, HeldUnsent, EachAttemptOnce
<1>4. QED
  BY <1>1, <1>2, <1>3 DEF IInv

\* The values Shape gives, one by one.
LEMMA Values ==
    ASSUME Shape
    PROVE  /\ MaxAttempts \in Nat /\ MaxAttempts > 0
           /\ \A i \in Items : attempts[i] \in Nat /\ attempts[i] <= MaxAttempts
           /\ \A p \in Passes, i \in Items : claim[p][i] \in Nat /\ claim[p][i] <= MaxAttempts
           /\ \A i \in Items, k \in 1..MaxAttempts : handed[i][k] \in Nat
<1>1. MaxAttempts \in Nat /\ MaxAttempts > 0
  BY QueueAssumption
<1>2. \A i \in Items : attempts[i] \in 0..MaxAttempts
  BY DEF Shape
<1>3. ASSUME NEW p \in Passes, NEW i \in Items PROVE claim[p][i] \in 0..MaxAttempts
  <2>1. claim[p] \in [Items -> 0..MaxAttempts]
    BY DEF Shape
  <2>2. QED
    BY <2>1
<1>4. ASSUME NEW i \in Items, NEW k \in 1..MaxAttempts PROVE handed[i][k] \in Nat
  <2>1. handed[i] \in [1..MaxAttempts -> Nat]
    BY DEF Shape
  <2>2. QED
    BY <2>1
<1>5. QED
  BY <1>1, <1>2, <1>3, <1>4

\* Whatever drops claims and sends nothing keeps the invariant.
LEMMA DroppingKeepsIInv ==
    ASSUME IInv, NEW p \in Passes,
           UNCHANGED <<st, attempts, handed>>,
           \/ Leave(p)
           \/ pc[p] \in {"accepted", "refused"} /\ NextMessage(p)
    PROVE  IInv'
<1>0. Shape
  BY DEF IInv
<1>1. PICK kept \in SUBSET Items :
        /\ claim' = [claim EXCEPT ![p] = [i \in Items |-> IF i \in kept THEN claim[p][i] ELSE 0]]
        /\ cur' = [cur EXCEPT ![p] = None]
        /\ pc' = [pc EXCEPT ![p] = IF kept = {} THEN "idle" ELSE "send"]
        /\ \A i \in kept : ~Marking(p, i)
  <2>1. CASE Leave(p)
    <3> DEFINE kept == {}
    <3>1. [i \in Items |-> 0] = [i \in Items |-> IF i \in kept THEN claim[p][i] ELSE 0]
      OBVIOUS
    <3>2. claim' = [claim EXCEPT ![p] = [i \in Items |-> IF i \in kept THEN claim[p][i] ELSE 0]]
      BY <2>1, <3>1 DEF Leave, NoClaim
    <3>3. /\ cur' = [cur EXCEPT ![p] = None]
          /\ pc' = [pc EXCEPT ![p] = IF kept = {} THEN "idle" ELSE "send"]
          /\ kept \in SUBSET Items /\ \A i \in kept : ~Marking(p, i)
      BY <2>1 DEF Leave
    <3> HIDE DEF kept
    <3>4. QED
      BY <3>2, <3>3
  <2>2. CASE pc[p] \in {"accepted", "refused"} /\ NextMessage(p) /\ ~Leave(p)
    <3> DEFINE kept == Items \ {cur[p]}
    <3>1. /\ \E i \in Items : i # cur[p] /\ claim[p][i] # 0
          /\ claim' = [claim EXCEPT ![p][cur[p]] = 0]
          /\ cur' = [cur EXCEPT ![p] = None]
          /\ pc' = [pc EXCEPT ![p] = "send"]
      BY <2>2 DEF NextMessage
    <3>2. claim[p] \in [Items -> 0..MaxAttempts]
      BY <1>0 DEF Shape
    <3>3. [claim[p] EXCEPT ![cur[p]] = 0] = [i \in Items |-> IF i \in kept THEN claim[p][i] ELSE 0]
      BY <3>2
    <3>4. claim' = [claim EXCEPT ![p] = [i \in Items |-> IF i \in kept THEN claim[p][i] ELSE 0]]
      BY <3>1, <3>3
    <3>5. kept \in SUBSET Items /\ kept # {} /\ \A i \in kept : ~Marking(p, i)
      BY <3>1 DEF Marking
    <3> HIDE DEF kept
    <3>6. QED
      BY <3>1, <3>4, <3>5
  <2>3. QED
    BY <2>1, <2>2
<1>2. Shape'
  <2>1. [i \in Items |-> IF i \in kept THEN claim[p][i] ELSE 0] \in [Items -> 0..MaxAttempts]
    BY <1>0, Values
  <2>2. QED
    BY <1>0, <1>1, <2>1 DEF Shape, Places
<1>3. /\ \A i \in Items : claim'[p][i] = IF i \in kept THEN claim[p][i] ELSE 0
      /\ \A q \in Passes \ {p} : claim'[q] = claim[q] /\ pc'[q] = pc[q] /\ cur'[q] = cur[q]
      /\ pc'[p] \in {"idle", "send"}
  BY <1>0, <1>1 DEF Shape
<1>4. FreshUncounted' /\ UncountedUnsent' /\ EachAttemptOnce'
  BY DEF IInv, FreshUncounted, UncountedUnsent, EachAttemptOnce
<1>5. ClaimsCounted' /\ ClaimsApart' /\ MarkingHeld'
  BY <1>0, <1>3, Values DEF IInv, ClaimsCounted, ClaimsApart, MarkingHeld
<1>6. HeldUnsent'
  BY <1>1, <1>3 DEF IInv, HeldUnsent, Marking
<1>7. QED
  BY <1>2, <1>4, <1>5, <1>6 DEF IInv

\* The claim raises the count past every attempt that was ever handed over.
LEMMA ClaimKeepsIInv ==
    ASSUME IInv, NEW p \in Passes, ClaimBatch(p)
    PROVE  IInv'
<1>0. Shape
  BY DEF IInv
<1>1. PICK b \in BatchesOf({i \in Items : Due(i, age[p])}) :
        /\ attempts' = [i \in Items |-> IF i \in b THEN attempts[i] + 1 ELSE attempts[i]]
        /\ claim' = [claim EXCEPT ![p] = [i \in Items |-> IF i \in b THEN attempts[i] + 1 ELSE 0]]
        /\ pc' = [pc EXCEPT ![p] = IF b = {} THEN "idle" ELSE "resolve"]
  BY DEF ClaimBatch, ClaimBatchAs
<1>2. UNCHANGED <<st, cur, handed>>
  BY DEF ClaimBatch, ClaimBatchAs
<1>3. b \subseteq Items /\ \A i \in b : st[i] = "row" /\ attempts[i] < MaxAttempts
  BY DEF Due, BatchesOf
<1>4. Shape'
  <2>1. /\ [i \in Items |-> IF i \in b THEN attempts[i] + 1 ELSE attempts[i]] \in [Items -> 0..MaxAttempts]
        /\ [i \in Items |-> IF i \in b THEN attempts[i] + 1 ELSE 0] \in [Items -> 0..MaxAttempts]
    BY <1>0, <1>3, Values
  <2>2. QED
    BY <1>0, <1>1, <1>2, <2>1 DEF Shape, Places
<1>5. /\ \A i \in Items : /\ claim'[p][i] = IF i \in b THEN attempts[i] + 1 ELSE 0
                          /\ attempts'[i] = IF i \in b THEN attempts[i] + 1 ELSE attempts[i]
      /\ \A q \in Passes \ {p} : claim'[q] = claim[q] /\ pc'[q] = pc[q]
      /\ pc'[p] \in {"idle", "resolve"}
  BY <1>0, <1>1 DEF Shape
<1>6. FreshUncounted' /\ MarkingHeld'
  BY <1>2, <1>3, <1>5 DEF IInv, FreshUncounted, MarkingHeld
<1>7. ClaimsCounted' /\ ClaimsApart'
  BY <1>0, <1>5, Values DEF IInv, ClaimsApart, ClaimsCounted
<1>8. UncountedUnsent' /\ EachAttemptOnce'
  <2>1. EachAttemptOnce'
    BY <1>2 DEF IInv, EachAttemptOnce
  <2>2. UncountedUnsent'
    BY <1>0, <1>2, <1>5, Values DEF IInv, UncountedUnsent
  <2>3. QED
    BY <2>1, <2>2
<1>9. HeldUnsent'
  <2> SUFFICES ASSUME NEW q \in Passes, NEW i \in Items, claim'[q][i] # 0, ~Marking(q, i)'
               PROVE  handed'[i][claim'[q][i]] = 0
    BY DEF HeldUnsent
  <2>1. CASE q = p
    <3>1. i \in b /\ claim'[q][i] = attempts[i] + 1
      BY <2>1, <1>5
    <3>2. attempts[i] + 1 \in 1..MaxAttempts /\ attempts[i] + 1 > attempts[i]
      BY <1>0, <3>1, <1>3, Values
    <3>3. QED
      BY <3>1, <3>2, <1>2 DEF IInv, UncountedUnsent
  <2>2. CASE q # p
    BY <2>2, <1>2, <1>5 DEF IInv, HeldUnsent, Marking
  <2>3. QED
    BY <2>1, <2>2
<1>10. QED
  BY <1>4, <1>6, <1>7, <1>8, <1>9 DEF IInv

\* A send hands over the attempt its pass alone holds, for the first time.
LEMMA SendKeepsIInv ==
    ASSUME IInv, NEW p \in Passes, NEW i \in Items, Send(p, i)
    PROVE  IInv'
<1>0. Shape
  BY DEF IInv
<1>1. PICK k \in 1..MaxAttempts : k = claim[p][i]
  BY <1>0, Values DEF Send
<1>2. /\ handed' = [handed EXCEPT ![i] = [handed[i] EXCEPT ![k] = handed[i][k] + 1]]
      /\ cur' = [cur EXCEPT ![p] = i]
      /\ UNCHANGED <<st, attempts, claim>>
      /\ \E answer \in {"accepted", "refused"} : pc' = [pc EXCEPT ![p] = answer]
  BY <1>1 DEF Send, rowVars
<1>3. pc[p] = "send" /\ claim[p][i] # 0
  BY DEF Send
<1>4. handed[i][k] = 0
  BY <1>1, <1>3 DEF IInv, HeldUnsent, Marking
<1>5. Shape'
  <2>1. handed[i] \in [1..MaxAttempts -> Nat]
    BY <1>0 DEF Shape
  <2>2. [handed[i] EXCEPT ![k] = handed[i][k] + 1] \in [1..MaxAttempts -> Nat]
    BY <1>4, <2>1
  <2>3. QED
    BY <1>0, <1>2, <2>2 DEF Shape, Places
<1>6. /\ \A q \in Passes \ {p} : cur'[q] = cur[q] /\ pc'[q] = pc[q]
      /\ cur'[p] = i /\ pc'[p] \in {"accepted", "refused"}
  BY <1>0, <1>2 DEF Shape
<1>7. ASSUME NEW j \in Items, NEW l \in 1..MaxAttempts
      PROVE  handed'[j][l] = IF j = i /\ l = k THEN 1 ELSE handed[j][l]
  <2>1. handed[i] \in [1..MaxAttempts -> Nat] /\ handed \in [Items -> [1..MaxAttempts -> Nat]]
    BY <1>0 DEF Shape
  <2>2. CASE j = i
    <3>1. handed'[i] = [handed[i] EXCEPT ![k] = 1]
      BY <1>2, <1>4, <2>1
    <3>2. QED
      BY <2>1, <2>2, <3>1
  <2>3. CASE j # i
    BY <1>2, <2>1, <2>3
  <2>4. QED
    BY <2>2, <2>3
<1>8. FreshUncounted' /\ ClaimsCounted' /\ ClaimsApart'
  BY <1>2 DEF IInv, FreshUncounted, ClaimsCounted, ClaimsApart
<1>9. MarkingHeld'
  BY <1>2, <1>3, <1>6 DEF IInv, MarkingHeld
<1>10. UncountedUnsent'
  <2>1. k <= attempts[i]
    BY <1>1 DEF IInv, ClaimsCounted
  <2>2. QED
    BY <1>0, <1>1, <1>2, <1>7, <2>1, Values DEF IInv, UncountedUnsent
<1>11. EachAttemptOnce'
  BY <1>0, <1>7, Values DEF IInv, EachAttemptOnce
<1>12. HeldUnsent'
  <2> SUFFICES ASSUME NEW q \in Passes, NEW j \in Items, claim[q][j] # 0, ~Marking(q, j)'
               PROVE  handed'[j][claim[q][j]] = 0
    BY <1>2 DEF HeldUnsent
  <2>1. claim[q][j] \in 1..MaxAttempts
    BY <1>0, Values
  <2>2. ~(j = i /\ claim[q][j] = k)
    BY <1>1, <1>3, <1>6 DEF IInv, ClaimsApart, Marking
  <2>3. ~Marking(q, j)
    BY <1>3, <1>6 DEF Marking
  <2>4. QED
    BY <1>7, <2>1, <2>2, <2>3 DEF IInv, HeldUnsent
<1>13. QED
  BY <1>5, <1>8, <1>9, <1>10, <1>11, <1>12 DEF IInv

\* Steps that touch neither the counts nor what was handed over.
LEMMA OtherStepsKeepIInv ==
    ASSUME IInv,
           UNCHANGED <<attempts, claim, cur, handed>>,
           \A i \in Items : st'[i] = "none" => st[i] = "none",
           st' \in [Items -> {"none", "row", "gone"}],
           pc' \in [Passes -> Places],
           \A q \in Passes : /\ pc'[q] \in {"accepted", "refused"} => pc'[q] = pc[q]
                             /\ pc[q] \in {"accepted", "refused"} => pc'[q] = pc[q]
    PROVE  IInv'
BY DEF IInv, Shape, FreshUncounted, ClaimsCounted, ClaimsApart, MarkingHeld, UncountedUnsent,
       HeldUnsent, EachAttemptOnce, Marking

LEMMA NextIInv == IInv /\ [Next]_vars => IInv'
<1> SUFFICES ASSUME IInv, [Next]_vars PROVE IInv'
  OBVIOUS
<1> USE QueueAssumption DEF IInv, Shape
<1>1. CASE UNCHANGED vars
  BY <1>1, OtherStepsKeepIInv DEF vars
<1>2. CASE Tick
  BY <1>2, OtherStepsKeepIInv DEF Tick, QueueTick
<1>3. ASSUME NEW i \in Items, Enqueue(i) PROVE IInv'
  <2>1. attempts' = attempts
    BY <1>3 DEF Enqueue, InsertRow, FreshUncounted
  <2>2. QED
    BY <1>3, <2>1, OtherStepsKeepIInv DEF Enqueue, InsertRow, passVars
<1>4. ASSUME NEW i \in Items, Reap(i) PROVE IInv'
  BY <1>4, OtherStepsKeepIInv DEF Reap, passVars
<1>5. ASSUME NEW p \in Passes, Start(p) \/ ResolveSender(p) PROVE IInv'
  BY <1>5, OtherStepsKeepIInv DEF Start, PassStart, ResolveSender, rowVars, Places
<1>6. ASSUME NEW p \in Passes, ClaimBatch(p) PROVE IInv'
  BY <1>6, ClaimKeepsIInv
<1>7. ASSUME NEW p \in Passes, SenderUnresolved(p) \/ Crash(p) PROVE IInv'
  BY <1>7, DroppingKeepsIInv DEF SenderUnresolved, Crash, rowVars
<1>8. ASSUME NEW p \in Passes, MarkSent(p) \/ MarkFailed(p) \/ MarkLost(p) PROVE IInv'
  BY <1>8, DroppingKeepsIInv DEF MarkSent, MarkFailed, MarkLost, rowVars
<1>9. ASSUME NEW p \in Passes, NEW i \in Items, Send(p, i) PROVE IInv'
  BY <1>9, SendKeepsIInv
<1>10. QED
  BY <1>1, <1>2, <1>3, <1>4, <1>5, <1>6, <1>7, <1>8, <1>9 DEF Next, PassStep

\* The outbox keeps its inductive invariant.
THEOREM OutboxInvariant == Spec => []IInv
  BY InitIInv, NextIInv, PTL DEF Spec

\* No attempt of a message reaches the transport twice: claimBatch counts it in
\* a committed transaction before sender.send.
THEOREM EachAttemptOnceAlways == Spec => []EachAttemptOnce
<1>1. IInv => EachAttemptOnce
  BY DEF IInv
<1>2. QED
  BY <1>1, OutboxInvariant, PTL

-----------------------------------------------------------------------------
(* The lease *)

\* A pass that holds nothing is one that has not claimed or has ended; one that
\* holds a message has the message leased from its own instant.
Ages == age \in [Passes -> 0..MaxPassTicks] /\ next = [i \in Items |-> next[i]]
IdleHoldsNothing ==
    \A p \in Passes : pc[p] \in {"idle", "claim"} => \A i \in Items : claim[p][i] = 0
LeaseRuns ==
    \A p \in Passes, i \in Items : claim[p][i] # 0 => next[i] = Lease - age[p]

\* The inductive invariant behind OneSenderPerMessage.
LeaseInv == Ages /\ IdleHoldsNothing /\ LeaseRuns /\ OneSenderPerMessage

LEMMA Bounds == /\ Lease \in Nat /\ MaxPassTicks \in Nat
                /\ \A a \in 0..MaxPassTicks : a \in Nat /\ a <= MaxPassTicks
  BY QueueAssumption

LEMMA InitLeaseInv == Init => LeaseInv
  BY Bounds DEF Init, QueueInit, NoClaim, LeaseInv, Ages, IdleHoldsNothing, LeaseRuns,
                OneSenderPerMessage

\* No other pass is offered a message that is held within its lease.
LEMMA HeldIsNotDue ==
    ASSUME MaxPassTicks < Lease, LeaseInv,
           NEW p \in Passes, NEW q \in Passes, NEW i \in Items, claim[q][i] # 0, Due(i, age[p])
    PROVE  FALSE
<1>1. age[p] \in Nat /\ age[q] \in Nat /\ age[q] <= MaxPassTicks
  BY Bounds DEF LeaseInv, Ages
<1>2. next[i] = Lease - age[q]
  BY DEF LeaseInv, LeaseRuns
<1>3. next[i] + age[p] <= 0
  BY DEF Due
<1>4. QED
  BY <1>1, <1>2, <1>3, Bounds

\* A step that adds no claim, and that moves the instants of no held message,
\* leaves the leases as they are.
LEMMA NoNewClaim ==
    ASSUME LeaseInv, Ages',
           \A q \in Passes, j \in Items : claim'[q][j] # 0 =>
               /\ claim'[q][j] = claim[q][j] /\ next'[j] = next[j] /\ age'[q] = age[q],
           \A q \in Passes : pc'[q] \in {"idle", "claim"} =>
               \/ pc[q] \in {"idle", "claim"}
               \/ \A j \in Items : claim'[q][j] = 0
    PROVE  LeaseInv'
<1>1. IdleHoldsNothing'
  BY DEF LeaseInv, IdleHoldsNothing
<1>2. LeaseRuns' /\ OneSenderPerMessage'
  BY DEF LeaseInv, LeaseRuns, OneSenderPerMessage
<1>3. QED
  BY <1>1, <1>2 DEF LeaseInv

\* The end of a batch or of one message of it.
LEMMA DroppingKeepsLease ==
    ASSUME IInv, LeaseInv, NEW p \in Passes,
           next' = [i \in Items |-> next'[i]],
           \/ Leave(p) /\ UNCHANGED next
           \/ /\ pc[p] \in {"accepted", "refused"} /\ NextMessage(p)
              /\ \A j \in Items : j # cur[p] => next'[j] = next[j]
    PROVE  LeaseInv'
<1>0. Shape /\ MarkingHeld
  BY DEF IInv
<1>1. CASE Leave(p)
  <2>1. /\ \A j \in Items : claim'[p][j] = 0
        /\ \A q \in Passes \ {p} : claim'[q] = claim[q] /\ pc'[q] = pc[q] /\ age'[q] = age[q]
        /\ Ages'
    BY <1>0, <1>1, Bounds DEF Leave, NoClaim, Shape, LeaseInv, Ages
  <2>2. ASSUME NEW q \in Passes, NEW j \in Items, claim'[q][j] # 0 PROVE next'[j] = next[j]
    <3>1. q # p /\ claim[q][j] # 0
      BY <2>1, <2>2
    <3>2. CASE UNCHANGED next
      BY <3>2
    <3>3. CASE pc[p] \in {"accepted", "refused"} /\ \A l \in Items : l # cur[p] => next'[l] = next[l]
      BY <1>0, <3>1, <3>3 DEF MarkingHeld, LeaseInv, OneSenderPerMessage
    <3>4. QED
      BY <3>2, <3>3
  <2>3. QED
    BY <2>1, <2>2, NoNewClaim
<1>2. CASE pc[p] \in {"accepted", "refused"} /\ NextMessage(p) /\ ~Leave(p)
  <2>1. /\ claim' = [claim EXCEPT ![p][cur[p]] = 0]
        /\ pc' = [pc EXCEPT ![p] = "send"]
        /\ age' = age
    BY <1>2 DEF NextMessage
  <2>2. cur[p] \in Items /\ claim[p][cur[p]] # 0
    BY <1>0, <1>2 DEF MarkingHeld
  <2>3. claim[p] \in [Items -> 0..MaxAttempts]
    BY <1>0 DEF Shape
  <2>4. /\ \A j \in Items : claim'[p][j] = IF j = cur[p] THEN 0 ELSE claim[p][j]
        /\ \A q \in Passes \ {p} : claim'[q] = claim[q] /\ pc'[q] = pc[q]
        /\ pc'[p] = "send"
    BY <1>0, <2>1, <2>2, <2>3 DEF Shape
  <2>5. Ages'
    BY <2>1 DEF LeaseInv, Ages
  <2>6. ASSUME NEW q \in Passes, NEW j \in Items, claim'[q][j] # 0
        PROVE  claim'[q][j] = claim[q][j] /\ next'[j] = next[j] /\ age'[q] = age[q]
    <3>1. claim'[q][j] = claim[q][j]
      BY <2>4, <2>6
    <3>2. j # cur[p]
      BY <2>2, <2>4, <2>6, <3>1 DEF LeaseInv, OneSenderPerMessage
    <3>3. next'[j] = next[j]
      BY <3>2
    <3>4. QED
      BY <2>1, <3>1, <3>3
  <2>7. QED
    BY <2>4, <2>5, <2>6, NoNewClaim
<1>3. QED
  BY <1>1, <1>2

\* A claim takes only what no pass holds.
LEMMA ClaimKeepsLease ==
    ASSUME MaxPassTicks < Lease, IInv, LeaseInv, NEW p \in Passes, ClaimBatch(p)
    PROVE  LeaseInv'
<1>0. Shape
  BY DEF IInv
<1>1. PICK b \in BatchesOf({i \in Items : Due(i, age[p])}) :
        /\ next' = [i \in Items |-> IF i \in b THEN Lease - age[p] ELSE next[i]]
        /\ claim' = [claim EXCEPT ![p] = [i \in Items |-> IF i \in b THEN attempts[i] + 1 ELSE 0]]
        /\ pc' = [pc EXCEPT ![p] = IF b = {} THEN "idle" ELSE "resolve"]
        /\ age' = [age EXCEPT ![p] = IF b = {} THEN 0 ELSE age[p]]
  BY DEF ClaimBatch, ClaimBatchAs
<1>2. b \subseteq Items /\ \A i \in b : Due(i, age[p])
  BY DEF BatchesOf
<1>3. \A i \in b, q \in Passes : claim[q][i] = 0
  BY <1>2, HeldIsNotDue
<1>4. /\ \A i \in Items : claim'[p][i] = IF i \in b THEN attempts[i] + 1 ELSE 0
      /\ \A q \in Passes \ {p} : claim'[q] = claim[q] /\ pc'[q] = pc[q] /\ age'[q] = age[q]
      /\ pc'[p] = (IF b = {} THEN "idle" ELSE "resolve") /\ (b # {} => age'[p] = age[p])
  BY <1>0, <1>1 DEF Shape, LeaseInv, Ages
<1>5. Ages'
  <2>1. (IF b = {} THEN 0 ELSE age[p]) \in 0..MaxPassTicks
    BY Bounds DEF LeaseInv, Ages
  <2>2. QED
    BY <1>1, <2>1 DEF LeaseInv, Ages
<1>6. IdleHoldsNothing'
  BY <1>4 DEF LeaseInv, IdleHoldsNothing
<1>7. LeaseRuns'
  BY <1>1, <1>3, <1>4 DEF LeaseInv, LeaseRuns
<1>8. OneSenderPerMessage'
  BY <1>3, <1>4 DEF LeaseInv, OneSenderPerMessage
<1>9. QED
  BY <1>5, <1>6, <1>7, <1>8 DEF LeaseInv

\* Time takes from a lease what it adds to the holder's age.
LEMMA TickKeepsLease ==
    ASSUME MaxPassTicks < Lease, IInv, LeaseInv, Tick
    PROVE  LeaseInv'
<1>1. /\ \A p \in Passes : pc[p] # "idle" => age[p] < MaxPassTicks
      /\ next' = [i \in Items |-> IF next[i] > -MaxPassTicks THEN next[i] - 1 ELSE next[i]]
      /\ age' = [p \in Passes |-> IF pc[p] # "idle" THEN age[p] + 1 ELSE 0]
      /\ UNCHANGED <<pc, claim>>
  BY DEF Tick, QueueTick
<1>2. \A p \in Passes : age[p] \in Nat /\ age[p] <= MaxPassTicks
  BY Bounds DEF LeaseInv, Ages
<1>3. Ages'
  BY <1>1, <1>2, Bounds DEF Ages
<1>4. LeaseRuns'
  <2> SUFFICES ASSUME NEW p \in Passes, NEW i \in Items, claim[p][i] # 0
               PROVE  next'[i] = Lease - age'[p]
    BY <1>1 DEF LeaseRuns
  <2>1. pc[p] # "idle" /\ next[i] = Lease - age[p]
    BY DEF LeaseInv, IdleHoldsNothing, LeaseRuns
  <2>2. Lease - age[p] > -MaxPassTicks
    BY <1>2, Bounds
  <2>3. QED
    BY <1>1, <1>2, <2>1, <2>2, Bounds
<1>5. IdleHoldsNothing' /\ OneSenderPerMessage'
  BY <1>1 DEF LeaseInv, IdleHoldsNothing, OneSenderPerMessage
<1>6. QED
  BY <1>3, <1>4, <1>5 DEF LeaseInv

LEMMA NextLeaseInv ==
    ASSUME MaxPassTicks < Lease
    PROVE  IInv /\ LeaseInv /\ [Next]_vars => LeaseInv'
<1> SUFFICES ASSUME IInv, LeaseInv, [Next]_vars PROVE LeaseInv'
  OBVIOUS
<1>0. Shape /\ Ages
  BY DEF IInv, LeaseInv
<1>1. CASE UNCHANGED vars
  BY <1>1 DEF vars, LeaseInv, Ages, IdleHoldsNothing, LeaseRuns, OneSenderPerMessage
<1>2. CASE Tick
  BY <1>2, TickKeepsLease
<1>3. ASSUME NEW i \in Items, Enqueue(i) PROVE LeaseInv'
  <2>1. \A q \in Passes : claim[q][i] = 0
    BY <1>0, <1>3, Values DEF Enqueue, IInv, FreshUncounted, ClaimsCounted
  <2>2. next' = [next EXCEPT ![i] = 0] /\ UNCHANGED <<pc, age, claim>>
    BY <1>3 DEF Enqueue, InsertRow, passVars
  <2>3. Ages'
    BY <1>0, <2>2 DEF Ages
  <2>4. \A j \in Items : j # i => next'[j] = next[j]
    BY <1>0, <2>2 DEF Ages
  <2>5. QED
    BY <2>1, <2>2, <2>3, <2>4, NoNewClaim
<1>4. ASSUME NEW i \in Items, Reap(i) PROVE LeaseInv'
  BY <1>0, <1>4, NoNewClaim DEF Reap, passVars, Ages
<1>5. ASSUME NEW p \in Passes, Start(p) PROVE LeaseInv'
  <2>1. pc[p] = "idle" /\ age' = [age EXCEPT ![p] = 0] /\ pc' = [pc EXCEPT ![p] = "claim"]
        /\ UNCHANGED <<next, claim>>
    BY <1>5 DEF Start, PassStart, rowVars
  <2>2. Ages'
    BY <1>0, <2>1, Bounds DEF Ages
  <2>3. \A j \in Items : claim[p][j] = 0
    BY <2>1 DEF LeaseInv, IdleHoldsNothing
  <2>4. \A q \in Passes : q # p => age'[q] = age[q] /\ pc'[q] = pc[q]
    BY <1>0, <2>1 DEF Ages, Shape
  <2>5. QED
    BY <2>1, <2>2, <2>3, <2>4, NoNewClaim
<1>6. ASSUME NEW p \in Passes, ClaimBatch(p) PROVE LeaseInv'
  BY <1>6, ClaimKeepsLease
<1>7. ASSUME NEW p \in Passes, ResolveSender(p) \/ \E i \in Items : Send(p, i) PROVE LeaseInv'
  <2>1. UNCHANGED <<next, age, claim>>
    BY <1>7 DEF ResolveSender, Send, rowVars
  <2>2. \E place \in {"send", "accepted", "refused"} : pc' = [pc EXCEPT ![p] = place]
    BY <1>7 DEF ResolveSender, Send
  <2>3. \A q \in Passes : pc'[q] \in {"idle", "claim"} => pc[q] \in {"idle", "claim"}
    BY <1>0, <2>2 DEF Shape
  <2>4. QED
    BY <1>0, <2>1, <2>3, NoNewClaim DEF Ages
<1>8. ASSUME NEW p \in Passes, SenderUnresolved(p) \/ Crash(p) PROVE LeaseInv'
  BY <1>0, <1>8, DroppingKeepsLease DEF SenderUnresolved, Crash, rowVars, Ages
<1>9. ASSUME NEW p \in Passes, MarkSent(p) \/ MarkLost(p) PROVE LeaseInv'
  <2>1. UNCHANGED next /\ pc[p] \in {"accepted", "refused"} /\ NextMessage(p)
    BY <1>9 DEF MarkSent, MarkLost, rowVars
  <2>2. QED
    BY <1>0, <2>1, DroppingKeepsLease DEF Ages
<1>10. ASSUME NEW p \in Passes, MarkFailed(p) PROVE LeaseInv'
  <2>1. /\ pc[p] \in {"accepted", "refused"} /\ NextMessage(p)
        /\ \/ UNCHANGED next
           \/ next' = [next EXCEPT ![cur[p]] = RetryDelay(claim[p][cur[p]]) - age[p]]
    BY <1>10 DEF MarkFailed
  <2>2. next' = [j \in Items |-> next'[j]] /\ \A j \in Items : j # cur[p] => next'[j] = next[j]
    BY <1>0, <2>1 DEF Ages
  <2>3. QED
    BY <2>1, <2>2, DroppingKeepsLease
<1>11. QED
  BY <1>1, <1>2, <1>3, <1>4, <1>5, <1>6, <1>7, <1>8, <1>9, <1>10 DEF Next, PassStep

\* Where a pass ends within the lease, counted from the instant it read at its
\* start, no two senders ever hold the same message.
THEOREM OneSenderWithinLease ==
    ASSUME MaxPassTicks < Lease
    PROVE  Spec => []OneSenderPerMessage
<1>1. Init => LeaseInv
  BY InitLeaseInv
<1>2. IInv /\ LeaseInv /\ [Next]_vars => LeaseInv'
  BY NextLeaseInv
<1>3. LeaseInv => OneSenderPerMessage
  BY DEF LeaseInv
<1>4. QED
  BY <1>1, <1>2, <1>3, OutboxInvariant, PTL DEF Spec

-----------------------------------------------------------------------------
(* Outcomes *)

\* The inductive invariant behind SentCarriesNoError.
OutcomeInv ==
    /\ finished \in [Items -> BOOLEAN] /\ error \in [Items -> BOOLEAN]
    /\ SentCarriesNoError

LEMMA NextOutcomeInv == OutcomeInv /\ [Next]_vars => OutcomeInv'
<1> SUFFICES ASSUME OutcomeInv, [Next]_vars PROVE OutcomeInv'
  OBVIOUS
<1> USE DEF OutcomeInv, SentCarriesNoError
<1>1. CASE UNCHANGED <<finished, error>>
  BY <1>1
<1>2. ASSUME NEW i \in Items, Enqueue(i) PROVE OutcomeInv'
  BY <1>2 DEF Enqueue, InsertRow
<1>3. ASSUME NEW p \in Passes, MarkSent(p) PROVE OutcomeInv'
  BY <1>1, <1>3 DEF MarkSent
<1>4. ASSUME NEW p \in Passes, MarkFailed(p) PROVE OutcomeInv'
  BY <1>1, <1>4 DEF MarkFailed, Unsent
<1>5. ASSUME NEW p \in Passes,
             \/ Start(p) \/ ClaimBatch(p) \/ ResolveSender(p) \/ SenderUnresolved(p)
             \/ MarkLost(p) \/ Crash(p) \/ \E i \in Items : Send(p, i)
      PROVE  UNCHANGED <<finished, error>>
  BY <1>5 DEF Start, ClaimBatch, ClaimBatchAs, ResolveSender, SenderUnresolved, MarkLost, Crash, Send,
              rowVars
<1>6. ASSUME Tick \/ UNCHANGED vars \/ \E i \in Items : Reap(i) PROVE UNCHANGED <<finished, error>>
  BY <1>6 DEF Tick, QueueTick, Reap, vars
<1>7. QED
  BY <1>1, <1>2, <1>3, <1>4, <1>5, <1>6 DEF Next, PassStep

\* A message recorded as sent carries no failure: markSent clears the error, and
\* neither write touches a row whose sent_at is set, so the refusal a pass that
\* lost its lease reports late is dropped.
THEOREM SentCarriesNoErrorAlways == Spec => []SentCarriesNoError
<1>1. Init => OutcomeInv
  BY DEF Init, QueueInit, OutcomeInv, SentCarriesNoError
<1>2. OutcomeInv => SentCarriesNoError
  BY DEF OutcomeInv
<1>3. QED
  BY <1>1, <1>2, NextOutcomeInv, PTL DEF Spec

-----------------------------------------------------------------------------
(* The type invariant *)

\* What Shape leaves of it.
Scalars ==
    /\ next \in [Items -> Int]
    /\ finished \in [Items -> BOOLEAN] /\ error \in [Items -> BOOLEAN]
    /\ age \in [Passes -> 0..MaxPassTicks]

LEMMA NextScalars == ASSUME IInv, Scalars, [Next]_vars PROVE Scalars'
<1>0. Lease \in Nat /\ Backoff \in Nat /\ MaxPassTicks \in Nat
  BY QueueAssumption
<1>1. ASSUME NEW p \in Passes, Leave(p) \/ NextMessage(p) PROVE age' \in [Passes -> 0..MaxPassTicks]
  BY <1>0, <1>1 DEF Leave, NextMessage, Scalars
<1>2. CASE Tick
  <2>1. next' \in [Items -> Int] BY <1>0, <1>2 DEF Tick, QueueTick, Scalars
  <2>2. age' \in [Passes -> 0..MaxPassTicks]
    <3>1. age' = [p \in Passes |-> IF pc[p] # "idle" THEN age[p] + 1 ELSE 0]
      BY <1>2 DEF Tick, QueueTick
    <3>2. ASSUME NEW p \in Passes PROVE (IF pc[p] # "idle" THEN age[p] + 1 ELSE 0) \in 0..MaxPassTicks
      <4>1. age[p] \in 0..MaxPassTicks BY DEF Scalars
      <4>2. pc[p] # "idle" => age[p] < MaxPassTicks BY <1>2 DEF Tick, QueueTick
      <4> QED BY <1>0, <4>1, <4>2
    <3> QED BY <3>1, <3>2
  <2> QED BY <1>2, <2>1, <2>2 DEF Tick, QueueTick, Scalars
<1>3. ASSUME NEW i \in Items, Enqueue(i) \/ Reap(i) PROVE Scalars'
  <2>1. Enqueue(i) => Scalars' BY DEF Enqueue, InsertRow, passVars, Scalars
  <2>2. Reap(i) => Scalars' BY DEF Reap, passVars, Scalars
  <2> QED BY <1>3, <2>1, <2>2
<1>4. ASSUME NEW p \in Passes, Start(p) PROVE Scalars'
  BY <1>0, <1>4 DEF Start, PassStart, rowVars, Scalars
<1>5. ASSUME NEW p \in Passes, ClaimBatch(p) PROVE Scalars'
  <2>0. age[p] \in 0..MaxPassTicks /\ age[p] \in Int BY <1>0 DEF Scalars
  <2>1. PICK b \in BatchesOf({i \in Items : Due(i, age[p])}) :
          /\ next' = [i \in Items |-> IF i \in b THEN Lease - age[p] ELSE next[i]]
          /\ age' = [age EXCEPT ![p] = IF b = {} THEN 0 ELSE age[p]]
    BY <1>5 DEF ClaimBatch, ClaimBatchAs
  <2>2. next' \in [Items -> Int] BY <1>0, <2>0, <2>1 DEF Scalars
  <2>3. age' \in [Passes -> 0..MaxPassTicks] BY <1>0, <2>0, <2>1 DEF Scalars
  <2> QED BY <1>5, <2>2, <2>3 DEF ClaimBatch, ClaimBatchAs, Scalars
<1>6. ASSUME NEW p \in Passes, ResolveSender(p) PROVE Scalars'
  BY <1>6 DEF ResolveSender, rowVars, Scalars
<1>7. ASSUME NEW p \in Passes, SenderUnresolved(p) \/ MarkLost(p) \/ Crash(p) PROVE Scalars'
  BY <1>1, <1>7 DEF SenderUnresolved, MarkLost, Crash, rowVars, Scalars
<1>8. ASSUME NEW p \in Passes, NEW i \in Items, Send(p, i) PROVE Scalars'
  BY <1>8 DEF Send, rowVars, Scalars
<1>9. ASSUME NEW p \in Passes, MarkSent(p) PROVE Scalars'
  <2>1. finished' \in [Items -> BOOLEAN] /\ error' \in [Items -> BOOLEAN] BY <1>9 DEF MarkSent, Scalars
  <2> QED BY <1>1, <1>9, <2>1 DEF MarkSent, Scalars
<1>10. ASSUME NEW p \in Passes, MarkFailed(p) PROVE Scalars'
  <2>1. cur[p] \in Items BY <1>10 DEF MarkFailed, IInv, MarkingHeld
  <2>2. claim[p][cur[p]] \in Nat BY <2>1, Values DEF IInv
  <2>3. RetryDelay(claim[p][cur[p]]) - age[p] \in Int
    <3>1. PICK k \in Nat : k = IF claim[p][cur[p]] > 1 THEN claim[p][cur[p]] - 1 ELSE 0 BY <2>2
    <3>2. 2 ^ k \in Int OBVIOUS
    <3>3. Backoff * 2 ^ k \in Int BY <1>0, <3>2
    <3>4. age[p] \in Int BY <1>0 DEF Scalars
    <3> QED BY <3>1, <3>3, <3>4 DEF RetryDelay
  <2>4. error' \in [Items -> BOOLEAN] /\ next' \in [Items -> Int]
    BY <1>10, <2>3 DEF MarkFailed, Scalars
  <2> QED BY <1>1, <1>10, <2>4 DEF MarkFailed, Scalars
<1>11. CASE UNCHANGED vars BY <1>11 DEF vars, Scalars
<1> QED BY <1>2, <1>3, <1>4, <1>5, <1>6, <1>7, <1>8, <1>9, <1>10, <1>11 DEF Next, PassStep

\* The outbox and the passes keep their types: an attempt is counted up to its
\* limit and no further, and an instant is one however far it is put off.
THEOREM TypeCorrect == Spec => []TypeOK
<1>1. Init => Scalars
  BY QueueAssumption DEF Init, QueueInit, Scalars
<1>2. IInv /\ Scalars /\ [Next]_vars => Scalars'
  BY NextScalars
<1>3. IInv /\ Scalars => TypeOK
  BY DEF IInv, Shape, Scalars, TypeOK
<1> QED BY <1>1, <1>2, <1>3, OutboxInvariant, PTL DEF Spec
=============================================================================
