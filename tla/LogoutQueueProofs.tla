--------------------------- MODULE LogoutQueueProofs ---------------------------
(* Proofs about the logout deliveries, for any number of deliveries, passes  *)
(* and attempts.                                                             *)
EXTENDS LogoutQueue, TLAPS

\* The part of the type invariant the arguments need.
Shape ==
    /\ st \in [Items -> {"none", "row", "gone"}]
    /\ attempts \in [Items -> 0..MaxAttempts]
    /\ pc \in [Passes -> Places]
    /\ held \in [Passes -> [Items -> Outcomes]]
    /\ posts \in [Items -> Nat]
    /\ failures \in Nat

\* A delivery held is a row with an attempt left, and its pass is sending.
HeldIsOffered ==
    \A p \in Passes, i \in Items :
        held[p][i] # "no" => st[i] = "row" /\ attempts[i] < MaxAttempts /\ pc[p] = "send"

\* The inductive invariant behind OnePassPerDelivery.
LockInv == Shape /\ HeldIsOffered /\ OnePassPerDelivery

LEMMA Values ==
    ASSUME Shape
    PROVE  /\ MaxAttempts \in Nat /\ MaxAttempts > 0
           /\ \A i \in Items : attempts[i] \in Nat /\ attempts[i] <= MaxAttempts /\ posts[i] \in Nat
           /\ failures \in Nat
           /\ \A p \in Passes, i \in Items : held[p][i] \in Outcomes
<1>1. MaxAttempts \in Nat /\ MaxAttempts > 0
  BY QueueAssumption
<1>2. failures \in Nat /\ \A i \in Items : attempts[i] \in 0..MaxAttempts /\ posts[i] \in Nat
  BY DEF Shape
<1>3. ASSUME NEW p \in Passes, NEW i \in Items PROVE held[p][i] \in Outcomes
  <2>1. held[p] \in [Items -> Outcomes]
    BY DEF Shape
  <2>2. QED
    BY <2>1
<1>4. QED
  BY <1>1, <1>2, <1>3

LEMMA InitLockInv == Init => LockInv
<1> SUFFICES ASSUME Init PROVE LockInv
  OBVIOUS
<1>1. MaxAttempts \in Nat
  BY QueueAssumption
<1>2. QED
  BY <1>1 DEF Init, QueueInit, LockInv, Shape, HeldIsOffered, OnePassPerDelivery, Places, Outcomes

\* What one step does to each delivery, for each kind of step.
LEMMA ClaimStep ==
    ASSUME LockInv, NEW p \in Passes, ClaimDue(p)
    PROVE  /\ UNCHANGED <<st, attempts, posts, failures>> /\ pc' = [pc EXCEPT ![p] = "send"]
           /\ \E b \in SUBSET Items :
                /\ held' = [held EXCEPT ![p] = [i \in Items |-> IF i \in b THEN "claimed" ELSE "no"]]
                /\ \A i \in b : Due(i, age[p]) /\ ~Locked(i)
<1>1. PICK b \in BatchesOf({i \in {j \in Items : ~Locked(j)} : Due(i, age[p])}) :
        held' = [held EXCEPT ![p] = [i \in Items |-> IF i \in b THEN "claimed" ELSE "no"]]
  BY DEF ClaimDue, ClaimAmong
<1>2. b \in SUBSET Items /\ \A i \in b : Due(i, age[p]) /\ ~Locked(i)
  BY DEF BatchesOf
<1>3. QED
  BY <1>1, <1>2 DEF ClaimDue, ClaimAmong, rowVars, histVars

LEMMA ClaimKeepsLockInv ==
    ASSUME LockInv, NEW p \in Passes, ClaimDue(p)
    PROVE  LockInv'
<1>0. Shape
  BY DEF LockInv
<1>1. PICK b \in SUBSET Items :
        /\ held' = [held EXCEPT ![p] = [i \in Items |-> IF i \in b THEN "claimed" ELSE "no"]]
        /\ \A i \in b : Due(i, age[p]) /\ ~Locked(i)
  BY ClaimStep
<1>2. UNCHANGED <<st, attempts, posts, failures>> /\ pc' = [pc EXCEPT ![p] = "send"]
  BY ClaimStep
<1>3. Shape'
  <2>1. [i \in Items |-> IF i \in b THEN "claimed" ELSE "no"] \in [Items -> Outcomes]
    BY DEF Outcomes
  <2>2. QED
    BY <1>0, <1>1, <1>2, <2>1 DEF Shape, Places
<1>4. /\ \A i \in Items : held'[p][i] = IF i \in b THEN "claimed" ELSE "no"
      /\ \A q \in Passes \ {p} : held'[q] = held[q] /\ pc'[q] = pc[q]
      /\ pc'[p] = "send"
  BY <1>0, <1>1, <1>2 DEF Shape
<1>5. \A i \in b : /\ st[i] = "row" /\ attempts[i] < MaxAttempts
                   /\ \A q \in Passes : held[q][i] = "no"
  BY <1>1 DEF Due, Locked
<1>6. HeldIsOffered' /\ OnePassPerDelivery'
  BY <1>2, <1>4, <1>5 DEF LockInv, HeldIsOffered, OnePassPerDelivery
<1>7. QED
  BY <1>3, <1>6 DEF LockInv

\* A POST changes what its pass holds the delivery as, and nothing of the row.
LEMMA DeliverStep ==
    ASSUME Shape, NEW p \in Passes, NEW i \in Items, DeliverOne(p, i)
    PROVE  /\ held[p][i] = "claimed" /\ pc[p] = "send"
           /\ UNCHANGED <<st, attempts, pc, failures>>
           /\ \A j \in Items : posts'[j] = IF j = i THEN posts[i] + 1 ELSE posts[j]
           /\ \A j \in Items \ {i} : held'[p][j] = held[p][j]
           /\ held'[p][i] \in {"delivered", "abandoned", "failed"}
           /\ \A q \in Passes \ {p} : held'[q] = held[q]
           /\ Shape'
<1>1. /\ held[p][i] = "claimed" /\ pc[p] = "send" /\ UNCHANGED <<st, attempts, pc, failures>>
      /\ posts' = [posts EXCEPT ![i] = posts[i] + 1]
  BY DEF DeliverOne, DeliverAs, rowVars, passVars
<1>2. PICK outcome \in {"delivered", "abandoned", "failed"} :
        held' = [held EXCEPT ![p] = [held[p] EXCEPT ![i] = outcome]]
  BY DEF DeliverOne, DeliverAs
<1>3. held[p] \in [Items -> Outcomes]
  BY DEF Shape
<1>4. [held[p] EXCEPT ![i] = outcome] \in [Items -> Outcomes]
  BY <1>3 DEF Outcomes
<1>5. Shape'
  BY <1>1, <1>2, <1>4 DEF Shape
<1>6. QED
  BY <1>1, <1>2, <1>3, <1>5 DEF Shape

\* A pass that ends, by commit or by rollback, holds nothing.
LEMMA EndingStep ==
    ASSUME Shape, NEW p \in Passes, Commit(p) \/ Abort(p)
    PROVE  /\ UNCHANGED <<st, posts>>
           /\ failures' \in Nat
           /\ Commit(p) => failures' = failures
           /\ Abort(p) => failures' = failures + 1
           /\ \A i \in Items : held'[p][i] = "no"
           /\ \A q \in Passes \ {p} : held'[q] = held[q] /\ pc'[q] = pc[q]
           /\ held' \in [Passes -> [Items -> Outcomes]]
           /\ pc' \in [Passes -> Places]
<1>1. /\ held' = [held EXCEPT ![p] = [i \in Items |-> "no"]]
      /\ pc' = [pc EXCEPT ![p] = "idle"]
      /\ UNCHANGED <<st, posts>>
  BY DEF Commit, Abort, rowVars, histVars
<1>2. [i \in Items |-> "no"] \in [Items -> Outcomes]
  BY DEF Outcomes
<1>3. /\ Commit(p) => failures' = failures
      /\ Abort(p) => failures' = failures + 1
  BY DEF Commit, Abort, histVars
<1>4. QED
  BY <1>1, <1>2, <1>3 DEF Shape, Places

\* A commit moves only the counts of what its pass held, each by one or to the
\* limit.
LEMMA CommitStep ==
    ASSUME LockInv, NEW p \in Passes, Commit(p)
    PROVE  /\ attempts' \in [Items -> 0..MaxAttempts]
           /\ \A i \in Items : held[p][i] = "no" => attempts'[i] = attempts[i]
           /\ \A i \in Items : held[p][i] # "no" => attempts'[i] >= attempts[i] + 1
<1>0. Shape
  BY DEF LockInv
<1>1. attempts' = [i \in Items |-> AttemptsAfter(i, held[p][i])]
  BY DEF Commit
<1>2. ASSUME NEW i \in Items
      PROVE  /\ AttemptsAfter(i, held[p][i]) \in 0..MaxAttempts
             /\ held[p][i] = "no" => AttemptsAfter(i, held[p][i]) = attempts[i]
             /\ held[p][i] # "no" => AttemptsAfter(i, held[p][i]) >= attempts[i] + 1
  <2>1. held[p][i] # "no" => attempts[i] < MaxAttempts
    BY DEF LockInv, HeldIsOffered
  <2>2. QED
    BY <1>0, <2>1, Values DEF AttemptsAfter
<1>3. QED
  BY <1>1, <1>2

\* A row nobody holds may come or go.
LEMMA UnheldStep ==
    ASSUME LockInv, NEW i \in Items, Enqueue(i) \/ Reap(i)
    PROVE  /\ \A p \in Passes : held[p][i] = "no"
           /\ UNCHANGED <<pc, held, failures>>
           /\ \A j \in Items \ {i} : st'[j] = st[j] /\ attempts'[j] = attempts[j] /\ posts'[j] = posts[j]
           /\ \/ attempts'[i] = 0 /\ posts'[i] = 0
              \/ attempts'[i] = attempts[i] /\ posts'[i] = posts[i]
           /\ Shape'
<1>0. Shape
  BY DEF LockInv
<1>1. \A p \in Passes : held[p][i] = "no"
  <2>1. CASE Enqueue(i)
    BY <2>1 DEF Enqueue, LockInv, HeldIsOffered
  <2>2. CASE Reap(i)
    BY <2>2 DEF Reap, Locked
  <2>3. QED
    BY <2>1, <2>2
<1>2. CASE Enqueue(i)
  <2>1. MaxAttempts \in Nat
    BY QueueAssumption
  <2>2. QED
    BY <1>0, <1>1, <1>2, <2>1 DEF Enqueue, InsertRow, passVars, Shape
<1>3. CASE Reap(i)
  BY <1>0, <1>1, <1>3 DEF Reap, passVars, histVars, Shape
<1>4. QED
  BY <1>2, <1>3

LEMMA NextLockInv == LockInv /\ [Next]_vars => LockInv'
<1> SUFFICES ASSUME LockInv, [Next]_vars PROVE LockInv'
  OBVIOUS
<1>0. Shape /\ HeldIsOffered /\ OnePassPerDelivery
  BY DEF LockInv
<1>1. CASE UNCHANGED vars \/ Tick
  BY <1>0, <1>1 DEF vars, Tick, QueueTick, histVars, LockInv, Shape, HeldIsOffered, OnePassPerDelivery
<1>2. ASSUME NEW i \in Items, Enqueue(i) \/ Reap(i) PROVE LockInv'
  <2>1. HeldIsOffered' /\ OnePassPerDelivery'
    BY <1>0, <1>2, UnheldStep DEF HeldIsOffered, OnePassPerDelivery
  <2>2. QED
    BY <1>2, <2>1, UnheldStep DEF LockInv
<1>3. ASSUME NEW p \in Passes, Start(p) PROVE LockInv'
  BY <1>0, <1>3 DEF Start, PassStart, rowVars, histVars, LockInv, Shape, HeldIsOffered, OnePassPerDelivery,
                    Places
<1>4. ASSUME NEW p \in Passes, ClaimDue(p) PROVE LockInv'
  BY <1>4, ClaimKeepsLockInv
<1>5. ASSUME NEW p \in Passes, NEW i \in Items, DeliverOne(p, i) PROVE LockInv'
  <2>1. HeldIsOffered' /\ OnePassPerDelivery'
    BY <1>0, <1>5, DeliverStep DEF HeldIsOffered, OnePassPerDelivery
  <2>2. QED
    BY <1>0, <1>5, <2>1, DeliverStep DEF LockInv
<1>6. ASSUME NEW p \in Passes, Commit(p) PROVE LockInv'
  <2>1. HeldIsOffered' /\ OnePassPerDelivery'
    BY <1>0, <1>6, EndingStep, CommitStep DEF HeldIsOffered, OnePassPerDelivery
  <2>2. Shape'
    BY <1>0, <1>6, EndingStep, CommitStep DEF Shape
  <2>3. QED
    BY <2>1, <2>2 DEF LockInv
<1>7. ASSUME NEW p \in Passes, Abort(p) PROVE LockInv'
  <2>1. UNCHANGED attempts
    BY <1>7 DEF Abort, rowVars
  <2>2. HeldIsOffered' /\ OnePassPerDelivery'
    BY <1>0, <1>7, <2>1, EndingStep DEF HeldIsOffered, OnePassPerDelivery
  <2>3. Shape'
    BY <1>0, <1>7, <2>1, EndingStep DEF Shape
  <2>4. QED
    BY <2>2, <2>3 DEF LockInv
<1>8. QED
  BY <1>1, <1>2, <1>3, <1>4, <1>5, <1>6, <1>7 DEF Next, PassStep

\* The deliveries keep the invariant of their locks.
THEOREM DeliveryLocks == Spec => []LockInv
  BY InitLockInv, NextLockInv, PTL DEF Spec

\* No two passes hold one delivery, however long they run and whatever fails:
\* claimDue skips locked rows and sendLogoutsAcrossTenants keeps the transaction
\* open to the end of the batch.
THEOREM OnePassPerDeliveryAlways == Spec => []OnePassPerDelivery
<1>1. LockInv => OnePassPerDelivery
  BY DEF LockInv
<1>2. QED
  BY <1>1, DeliveryLocks, PTL

-----------------------------------------------------------------------------
(* Attempts *)

\* A delivery has been posted as often as its attempts and the failed passes
\* say, and once more while a pass that posted it has not ended.
Posted == {"delivered", "failed", "abandoned"}
PostsCounted ==
    \A i \in Items :
        /\ posts[i] <= attempts[i] + failures + 1
        /\ posts[i] > attempts[i] + failures => \E p \in Passes : held[p][i] \in Posted

LEMMA NextPostsCounted == LockInv /\ PostsCounted /\ [Next]_vars => PostsCounted'
<1> SUFFICES ASSUME LockInv, PostsCounted, [Next]_vars PROVE PostsCounted'
  OBVIOUS
<1>0. Shape /\ HeldIsOffered /\ OnePassPerDelivery
  BY DEF LockInv
<1>1. CASE UNCHANGED vars \/ Tick
  BY <1>1 DEF vars, Tick, QueueTick, histVars, PostsCounted
<1>2. ASSUME NEW i \in Items, Enqueue(i) \/ Reap(i) PROVE PostsCounted'
  BY <1>0, <1>2, UnheldStep, Values DEF PostsCounted
<1>3. ASSUME NEW p \in Passes, Start(p) PROVE PostsCounted'
  BY <1>3 DEF Start, rowVars, histVars, PostsCounted
<1>4. ASSUME NEW p \in Passes, ClaimDue(p) PROVE PostsCounted'
  <2>1. \A i \in Items : held[p][i] = "no"
    BY <1>0, <1>4 DEF ClaimDue, ClaimAmong, HeldIsOffered
  <2>2. \A q \in Passes \ {p} : held'[q] = held[q]
    BY <1>0, <1>4, ClaimStep DEF Shape
  <2>3. UNCHANGED <<attempts, posts, failures>>
    BY <1>4, ClaimStep
  <2>4. QED
    BY <2>1, <2>2, <2>3 DEF PostsCounted, Posted
<1>5. ASSUME NEW p \in Passes, NEW i \in Items, DeliverOne(p, i) PROVE PostsCounted'
  <2>1. posts[i] <= attempts[i] + failures
    BY <1>0, <1>5, DeliverStep, Values DEF PostsCounted, OnePassPerDelivery, Posted
  <2>2. posts'[i] <= attempts'[i] + failures' + 1 /\ held'[p][i] \in Posted
    BY <1>0, <1>5, <2>1, DeliverStep, Values DEF Posted
  <2>3. ASSUME NEW j \in Items \ {i}, NEW q \in Passes PROVE held'[q][j] = held[q][j]
    BY <1>0, <1>5, DeliverStep
  <2>4. QED
    BY <1>0, <1>5, <2>2, <2>3, DeliverStep DEF PostsCounted
<1>6. ASSUME NEW p \in Passes, Commit(p) PROVE PostsCounted'
  <2> SUFFICES ASSUME NEW i \in Items
               PROVE  /\ posts'[i] <= attempts'[i] + failures' + 1
                      /\ posts'[i] > attempts'[i] + failures' => \E q \in Passes : held'[q][i] \in Posted
    BY DEF PostsCounted
  <2>1. CASE held[p][i] = "no"
    BY <1>0, <1>6, <2>1, EndingStep, CommitStep DEF PostsCounted, Posted
  <2>2. CASE held[p][i] # "no"
    <3>1. attempts'[i] >= attempts[i] + 1 /\ attempts'[i] \in 0..MaxAttempts /\ posts'[i] = posts[i]
      BY <1>0, <1>6, <2>2, EndingStep, CommitStep
    <3>2. /\ posts[i] <= attempts[i] + failures + 1 /\ failures' = failures
          /\ attempts[i] \in Nat /\ posts[i] \in Nat /\ failures \in Nat
      BY <1>0, <1>6, EndingStep, Values DEF PostsCounted
    <3>3. attempts'[i] \in Nat
      BY <1>0, <3>1, Values
    <3>4. QED
      BY <3>1, <3>2, <3>3
  <2>3. QED
    BY <2>1, <2>2
<1>7. ASSUME NEW p \in Passes, Abort(p) PROVE PostsCounted'
  <2>1. UNCHANGED <<attempts, posts>> /\ failures' = failures + 1
    BY <1>0, <1>7, EndingStep DEF Abort, rowVars
  <2>2. QED
    BY <1>0, <2>1, Values DEF PostsCounted
<1>8. QED
  BY <1>1, <1>2, <1>3, <1>4, <1>5, <1>6, <1>7 DEF Next, PassStep

\* No delivery is posted more often than it has attempts and passes have failed:
\* a row is claimed only with an attempt left, the commit counts it, and a pass
\* rolled back had posted it at most once.
THEOREM FailuresBoundPostsAlways == Spec => []FailuresBoundPosts
<1>1. Init => PostsCounted
  BY DEF Init, QueueInit, PostsCounted
<1>2. LockInv /\ PostsCounted /\ [Next]_vars => PostsCounted'
  BY NextPostsCounted
<1>3. LockInv /\ PostsCounted => FailuresBoundPosts
  <2> SUFFICES ASSUME LockInv, PostsCounted, NEW i \in Items
               PROVE  posts[i] <= MaxAttempts + failures
    BY DEF FailuresBoundPosts
  <2>0. Shape
    BY DEF LockInv
  <2>1. CASE posts[i] > attempts[i] + failures
    <3>1. attempts[i] < MaxAttempts
      BY <2>1 DEF PostsCounted, Posted, LockInv, HeldIsOffered
    <3>2. QED
      BY <2>0, <3>1, Values DEF PostsCounted
  <2>2. CASE ~(posts[i] > attempts[i] + failures)
    BY <2>0, <2>2, Values
  <2>3. QED
    BY <2>1, <2>2
<1>4. QED
  BY <1>1, <1>2, <1>3, DeliveryLocks, PTL DEF Spec

-----------------------------------------------------------------------------
(* Answers *)

\* A delivery answered for good is held by the pass that heard it, or the pass
\* has committed and left it so that Due no longer offers it.
Final == {"delivered", "abandoned"}
Closed(i) == st[i] # "row" \/ finished[i] \/ attempts[i] = MaxAttempts
AnsweredClosed ==
    \A i \in Items : answered[i] => Closed(i) \/ \E p \in Passes : held[p][i] \in Final

\* While a pass holds a delivery it is not yet recorded as done.
HeldUnfinished == \A p \in Passes, i \in Items : held[p][i] # "no" => ~finished[i]

\* The inductive invariant behind AnsweredIsFinal.
AnswerInv ==
    /\ finished \in [Items -> BOOLEAN] /\ answered \in [Items -> BOOLEAN]
    /\ HeldUnfinished /\ AnsweredClosed

\* A delivery about to be posted has had no final answer.
LEMMA ClaimedUnanswered ==
    ASSUME LockInv, AnswerInv, NEW p \in Passes, NEW i \in Items, held[p][i] = "claimed"
    PROVE  ~answered[i]
<1>1. st[i] = "row" /\ attempts[i] < MaxAttempts /\ ~finished[i]
  BY DEF LockInv, HeldIsOffered, AnswerInv, HeldUnfinished
<1>2. ~Closed(i)
  BY <1>1, Values DEF Closed, LockInv
<1>3. \A q \in Passes : held[q][i] \notin Final
  BY DEF LockInv, OnePassPerDelivery, Final
<1>4. QED
  BY <1>2, <1>3 DEF AnswerInv, AnsweredClosed

LEMMA NextAnswerInv == LockInv /\ AnswerInv /\ [Next]_vars => AnswerInv'
<1> SUFFICES ASSUME LockInv, AnswerInv, [Next]_vars PROVE AnswerInv'
  OBVIOUS
<1>0. Shape /\ HeldIsOffered /\ OnePassPerDelivery
  BY DEF LockInv
<1> USE DEF AnswerInv
<1>1. CASE UNCHANGED <<st, attempts, finished, answered, held>>
  BY <1>1 DEF HeldUnfinished, AnsweredClosed, Closed
<1>2. ASSUME NEW i \in Items, Enqueue(i) PROVE AnswerInv'
  <2>1. /\ answered' = [answered EXCEPT ![i] = FALSE] /\ finished' = [finished EXCEPT ![i] = FALSE]
        /\ UNCHANGED held
    BY <1>2 DEF Enqueue, InsertRow
  <2>2. \A j \in Items \ {i} : st'[j] = st[j] /\ attempts'[j] = attempts[j]
    BY <1>2, UnheldStep
  <2>3. QED
    BY <2>1, <2>2 DEF HeldUnfinished, AnsweredClosed, Closed
<1>3. ASSUME NEW i \in Items, Reap(i) PROVE AnswerInv'
  <2>1. UNCHANGED <<finished, answered, held, attempts>> /\ st' = [st EXCEPT ![i] = "gone"]
    BY <1>3 DEF Reap, histVars
  <2>2. QED
    BY <1>0, <2>1 DEF HeldUnfinished, AnsweredClosed, Closed, Shape
<1>4. ASSUME NEW p \in Passes, ClaimDue(p) PROVE AnswerInv'
  <2>1. PICK b \in SUBSET Items :
          /\ held' = [held EXCEPT ![p] = [i \in Items |-> IF i \in b THEN "claimed" ELSE "no"]]
          /\ \A i \in b : Due(i, age[p]) /\ ~Locked(i)
    BY <1>4, ClaimStep
  <2>2. UNCHANGED <<st, attempts, finished, answered>> /\ pc[p] = "claim"
    BY <1>4 DEF ClaimDue, ClaimAmong, rowVars, histVars
  <2>3. /\ \A i \in Items : held'[p][i] = IF i \in b THEN "claimed" ELSE "no"
        /\ \A q \in Passes \ {p} : held'[q] = held[q]
    BY <1>0, <2>1 DEF Shape
  <2>4. \A i \in Items : held[p][i] = "no"
    BY <1>0, <2>2 DEF HeldIsOffered
  <2>5. HeldUnfinished'
    BY <2>1, <2>2, <2>3 DEF HeldUnfinished, Due
  <2>6. AnsweredClosed'
    BY <2>2, <2>3, <2>4 DEF AnsweredClosed, Closed, Final
  <2>7. QED
    BY <2>2, <2>5, <2>6
<1>5. ASSUME NEW p \in Passes, NEW i \in Items, DeliverOne(p, i) PROVE AnswerInv'
  <2>1. /\ held[p][i] = "claimed" /\ UNCHANGED <<st, attempts, finished>>
        /\ \A q \in Passes, j \in Items : j # i => held'[q][j] = held[q][j]
        /\ \A q \in Passes, j \in Items : held'[q][j] # "no" => held[q][j] # "no"
    BY <1>0, <1>5, DeliverStep DEF DeliverOne, DeliverAs, rowVars
  <2>2. /\ answered' \in [Items -> BOOLEAN]
        /\ \A j \in Items : j # i => answered'[j] = answered[j]
        /\ answered'[i] => answered[i] \/ held'[p][i] \in Final
    <3>1. PICK answer \in {"2xx", "4xx", "other"} :
            /\ held' = [held EXCEPT ![p] = [held[p] EXCEPT ![i] =
                          CASE answer = "2xx" -> "delivered"
                            [] answer = "4xx" -> "abandoned"
                            [] answer = "other" -> "failed"]]
            /\ answered' = [answered EXCEPT ![i] = answered[i] \/ answer # "other"]
      BY <1>5 DEF DeliverOne, DeliverAs
    <3>2. held[p] \in [Items -> Outcomes] /\ held \in [Passes -> [Items -> Outcomes]]
      BY <1>0 DEF Shape
    <3>3. answer # "other" => held'[p][i] \in Final
      BY <3>1, <3>2 DEF Final
    <3>4. /\ answered' \in [Items -> BOOLEAN]
          /\ \A j \in Items : j # i => answered'[j] = answered[j]
          /\ answered'[i] = (answered[i] \/ answer # "other")
      BY <3>1
    <3>5. QED
      BY <3>3, <3>4
  <2>3. ~answered[i]
    BY <2>1, ClaimedUnanswered
  <2>4. HeldUnfinished'
    BY <2>1 DEF HeldUnfinished
  <2>5. AnsweredClosed'
    BY <2>1, <2>2, <2>3 DEF AnsweredClosed, Closed
  <2>6. QED
    BY <2>1, <2>2, <2>4, <2>5
<1>6. ASSUME NEW p \in Passes, Commit(p) PROVE AnswerInv'
  <2>1. /\ UNCHANGED <<st, answered>>
        /\ finished' = [i \in Items |-> finished[i] \/ held[p][i] = "delivered"]
        /\ attempts' = [i \in Items |-> AttemptsAfter(i, held[p][i])]
    BY <1>6 DEF Commit, histVars
  <2>2. /\ \A i \in Items : held'[p][i] = "no"
        /\ \A q \in Passes \ {p} : held'[q] = held[q]
    BY <1>0, <1>6, EndingStep
  <2>3. HeldUnfinished'
    BY <1>0, <2>1, <2>2 DEF HeldUnfinished, OnePassPerDelivery
  <2>4. ASSUME NEW i \in Items, answered[i]
        PROVE  Closed(i)' \/ \E q \in Passes : held'[q][i] \in Final
    <3>1. CASE held[p][i] \in Final
      <4>1. held[p][i] = "delivered" => finished'[i]
        BY <2>1
      <4>2. held[p][i] = "abandoned" => attempts'[i] = MaxAttempts
        BY <2>1 DEF AttemptsAfter
      <4>3. QED
        BY <3>1, <4>1, <4>2 DEF Final, Closed
    <3>2. CASE \E q \in Passes \ {p} : held[q][i] \in Final
      BY <3>2, <2>2
    <3>3. CASE Closed(i) /\ \A q \in Passes : held[q][i] \notin Final
      <4>1. held[p][i] = "no" \/ st[i] # "row" \/ finished[i]
        BY <1>0, <3>3, Values DEF HeldIsOffered, Closed
      <4>2. held[p][i] = "no" => attempts'[i] = attempts[i]
        BY <1>6, CommitStep
      <4>3. st'[i] = st[i] /\ (finished[i] => finished'[i])
        BY <2>1
      <4>4. QED
        BY <3>3, <4>1, <4>2, <4>3 DEF Closed
    <3>4. QED
      BY <2>4, <3>1, <3>2, <3>3 DEF AnsweredClosed
  <2>5. QED
    BY <2>1, <2>3, <2>4 DEF AnsweredClosed
<1>7. ASSUME NEW p \in Passes, Abort(p) PROVE AnswerInv'
  <2>1. /\ UNCHANGED <<st, attempts, finished>>
        /\ answered' = [i \in Items |-> answered[i] /\ held[p][i] = "no"]
    BY <1>7 DEF Abort, rowVars
  <2>2. /\ \A i \in Items : held'[p][i] = "no"
        /\ \A q \in Passes \ {p} : held'[q] = held[q]
    BY <1>0, <1>7, EndingStep
  <2>3. HeldUnfinished'
    BY <2>1, <2>2 DEF HeldUnfinished
  <2>4. AnsweredClosed'
    BY <2>1, <2>2 DEF AnsweredClosed, Closed, Final
  <2>5. QED
    BY <2>1, <2>3, <2>4
<1>8. ASSUME Tick \/ UNCHANGED vars \/ \E p \in Passes : Start(p)
      PROVE  UNCHANGED <<st, attempts, finished, answered, held>>
  BY <1>8 DEF Tick, QueueTick, Start, rowVars, histVars, vars
<1>9. QED
  BY <1>1, <1>2, <1>3, <1>4, <1>5, <1>6, <1>7, <1>8 DEF Next, PassStep

\* A relying party that took the token, or refused it for good, is not asked
\* again by a pass that begins later or runs beside the one that heard it: the
\* commit marks the row delivered or out of attempts before its lock is released.
THEOREM AnsweredIsFinalAlways == Spec => AnsweredIsFinal
<1>1. Init => AnswerInv
  BY DEF Init, QueueInit, AnswerInv, HeldUnfinished, AnsweredClosed
<1>2. LockInv /\ AnswerInv /\ [Next]_vars => AnswerInv'
  BY NextAnswerInv
<1>3. LockInv /\ AnswerInv /\ [Next]_vars
        => [\A i \in Items : answered[i] => posts'[i] \in {0, posts[i]}]_vars
  <2> SUFFICES ASSUME LockInv, AnswerInv, Next, NEW i \in Items, answered[i]
               PROVE  posts'[i] \in {0, posts[i]}
    OBVIOUS
  <2>0. Shape
    BY DEF LockInv
  <2>1. ASSUME NEW j \in Items, Enqueue(j) \/ Reap(j) PROVE posts'[i] \in {0, posts[i]}
    BY <2>1, UnheldStep
  <2>2. ASSUME NEW p \in Passes, NEW j \in Items, DeliverOne(p, j) PROVE posts'[i] = posts[i]
    BY <2>0, <2>2, DeliverStep, ClaimedUnanswered
  <2>3. ASSUME Tick \/ \E p \in Passes : Start(p) \/ ClaimDue(p) \/ Commit(p) \/ Abort(p)
        PROVE  posts' = posts
    BY <2>3 DEF Tick, Start, ClaimDue, ClaimAmong, Commit, Abort, histVars
  <2>4. QED
    BY <2>1, <2>2, <2>3 DEF Next, PassStep
<1>4. QED
  BY <1>1, <1>2, <1>3, DeliveryLocks, PTL DEF Spec, AnsweredIsFinal

-----------------------------------------------------------------------------
(* The type invariant *)

\* What Shape leaves of it.
Scalars ==
    /\ next \in [Items -> Int]
    /\ finished \in [Items -> BOOLEAN] /\ error \in [Items -> BOOLEAN]
    /\ age \in [Passes -> 0..MaxPassTicks]
    /\ answered \in [Items -> BOOLEAN]
    /\ failures \in 0..MaxFailures

LEMMA NextScalars == ASSUME Shape, Scalars, [Next]_vars PROVE Scalars'
<1>0. Lease \in Nat /\ Backoff \in Nat /\ MaxPassTicks \in Nat /\ MaxFailures \in Nat
  BY QueueAssumption, FailureAssumption
<1>1. ASSUME NEW p \in Passes, age' = [age EXCEPT ![p] = 0] PROVE age' \in [Passes -> 0..MaxPassTicks]
  BY <1>0, <1>1 DEF Scalars
<1>2. CASE Tick
  <2>1. next' \in [Items -> Int]
    BY <1>0, <1>2 DEF Tick, QueueTick, Scalars
  <2>2. age' \in [Passes -> 0..MaxPassTicks]
    <3>1. age' = [p \in Passes |-> IF pc[p] # "idle" THEN age[p] + 1 ELSE 0]
      BY <1>2 DEF Tick, QueueTick
    <3>2. ASSUME NEW p \in Passes PROVE (IF pc[p] # "idle" THEN age[p] + 1 ELSE 0) \in 0..MaxPassTicks
      <4>1. age[p] \in 0..MaxPassTicks BY DEF Scalars
      <4>2. pc[p] # "idle" => age[p] < MaxPassTicks BY <1>2 DEF Tick, QueueTick
      <4> QED BY <1>0, <4>1, <4>2
    <3> QED BY <3>1, <3>2
  <2> QED BY <1>2, <2>1, <2>2 DEF Tick, QueueTick, Scalars, histVars
<1>3. ASSUME NEW i \in Items, Enqueue(i) PROVE Scalars'
  BY <1>3 DEF Enqueue, InsertRow, passVars, Scalars
<1>4. ASSUME NEW i \in Items, Reap(i) PROVE Scalars'
  BY <1>4 DEF Reap, passVars, histVars, Scalars
<1>5. ASSUME NEW p \in Passes, Start(p) PROVE Scalars'
  BY <1>1, <1>5 DEF Start, PassStart, rowVars, histVars, Scalars
<1>6. ASSUME NEW p \in Passes, ClaimDue(p) PROVE Scalars'
  BY <1>6 DEF ClaimDue, ClaimAmong, rowVars, histVars, Scalars
<1>7. ASSUME NEW p \in Passes, NEW i \in Items, DeliverOne(p, i) PROVE Scalars'
  <2>1. \E told \in BOOLEAN : answered' = [answered EXCEPT ![i] = told]
    BY <1>7 DEF DeliverOne, DeliverAs, Scalars
  <2> QED BY <1>7, <2>1 DEF DeliverOne, DeliverAs, rowVars, passVars, Scalars
<1>8. ASSUME NEW p \in Passes, Commit(p) PROVE Scalars'
  <2>1. next' \in [Items -> Int]
    <3>1. ASSUME NEW i \in Items PROVE NextAfter(i, held[p][i], age[p]) \in Int
      <4>1. age[p] \in Int /\ next[i] \in Int BY <1>0 DEF Scalars
      <4> QED BY <1>0, <4>1 DEF NextAfter
    <3> QED BY <1>8, <3>1 DEF Commit
  <2>2. finished' \in [Items -> BOOLEAN] /\ error' \in [Items -> BOOLEAN]
    BY <1>8 DEF Commit, Scalars
  <2> QED BY <1>1, <1>8, <2>1, <2>2 DEF Commit, histVars, Scalars
<1>9. ASSUME NEW p \in Passes, Abort(p) PROVE Scalars'
  <2>1. failures' \in 0..MaxFailures BY <1>0, <1>9 DEF Abort, Scalars
  <2>2. answered' \in [Items -> BOOLEAN] BY <1>9 DEF Abort, Scalars
  <2> QED BY <1>1, <1>9, <2>1, <2>2 DEF Abort, rowVars, Scalars
<1>10. CASE UNCHANGED vars BY <1>10 DEF vars, Scalars
<1> QED BY <1>2, <1>3, <1>4, <1>5, <1>6, <1>7, <1>8, <1>9, <1>10 DEF Next, PassStep

\* The deliveries and the passes keep their types: no pass outlives its bound,
\* and no count passes its limit.
THEOREM TypeCorrect == Spec => []TypeOK
<1>1. Init => Scalars
  BY QueueAssumption, FailureAssumption DEF Init, QueueInit, Scalars
<1>2. LockInv /\ Scalars /\ [Next]_vars => Scalars'
  BY NextScalars DEF LockInv
<1>3. LockInv /\ Scalars => TypeOK
  BY DEF LockInv, Shape, Scalars, TypeOK
<1> QED BY <1>1, <1>2, <1>3, DeliveryLocks, PTL DEF Spec
=============================================================================
