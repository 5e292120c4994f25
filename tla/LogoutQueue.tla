------------------------------ MODULE LogoutQueue ------------------------------
(***************************************************************************)
(* Back-channel logout deliveries.  A pass over a tenant is one            *)
(* transaction: the claim, every POST and every outcome's write.  What it  *)
(* writes is seen when it commits, the rows it claimed stay locked until   *)
(* then, and a failure on the way rolls all of it back but the POSTs.      *)
(***************************************************************************)
EXTENDS LeaseQueue

CONSTANT MaxFailures  \* bound: passes that die or have a statement fail

ASSUME FailureAssumption == MaxFailures \in Nat

VARIABLES
    held,     \* held[p][i]: what pass p's transaction has made of delivery i
    posts,    \* history: POSTs of delivery i since it was enqueued
    answered, \* history: the relying party answered one of them for good, and
              \* the pass that heard it has not failed
    failures  \* how many passes have failed

histVars == <<posts, answered, failures>>
vars == <<st, attempts, next, finished, error, pc, age, held, posts, answered, failures>>

Places == {"idle", "claim", "send"}
Outcomes == {"no", "claimed", "delivered", "failed", "abandoned"}

Init ==
    /\ QueueInit
    /\ held = [p \in Passes |-> [i \in Items |-> "no"]]
    /\ posts = [i \in Items |-> 0]
    /\ answered = [i \in Items |-> FALSE]
    /\ failures = 0

Locked(i) == \E p \in Passes : held[p][i] # "no"

Tick == QueueTick /\ UNCHANGED <<held, histVars>>

\* endSession's enqueue for one session and client.  A row already there makes
\* it a no-op; once that is reaped the session's next ending inserts anew.
Enqueue(i) ==
    /\ st[i] # "row"
    /\ InsertRow(i)
    /\ posts' = [posts EXCEPT ![i] = 0]
    /\ answered' = [answered EXCEPT ![i] = FALSE]
    /\ UNCHANGED <<passVars, held, failures>>

Start(p) == PassStart(p) /\ UNCHANGED <<rowVars, held, histVars>>

\* claimDue among `offered`: the rows are locked and, in this transaction only,
\* counted and leased.
ClaimAmong(p, offered) ==
    /\ pc[p] = "claim"
    /\ \E b \in BatchesOf({i \in offered : Due(i, age[p])}) :
         held' = [held EXCEPT ![p] = [i \in Items |-> IF i \in b THEN "claimed" ELSE "no"]]
    /\ pc' = [pc EXCEPT ![p] = "send"]
    /\ UNCHANGED <<rowVars, age, histVars>>

\* Fault: a claim that reads past the locks of another.
ClaimDueUnlocked(p) == ClaimAmong(p, Items)

\* FOR UPDATE SKIP LOCKED.
ClaimDue(p) == ClaimAmong(p, {i \in Items : ~Locked(i)})

\* deliverOne: the POST and, by its answer, the mark.  A 2xx is a delivery, a
\* 4xx other than 429 a refusal for good, and anything else, an error, a
\* timeout or a token that could not be signed included, is tried again.
DeliverAs(p, i, onRefusal) ==
    /\ pc[p] = "send" /\ held[p][i] = "claimed"
    /\ posts' = [posts EXCEPT ![i] = @ + 1]
    /\ \E answer \in {"2xx", "4xx", "other"} :
         /\ held' = [held EXCEPT ![p][i] =
                       CASE answer = "2xx" -> "delivered"
                         [] answer = "4xx" -> onRefusal
                         [] answer = "other" -> "failed"]
         /\ answered' = [answered EXCEPT ![i] = @ \/ answer # "other"]
    /\ UNCHANGED <<rowVars, passVars, failures>>

\* Fault: a refusal is tried again like any failure.
DeliverOneRetrying(p, i) == DeliverAs(p, i, "failed")

DeliverOne(p, i) == DeliverAs(p, i, "abandoned")

\* Fault: a failed attempt is not counted.
AttemptsAfterForgiving(i, outcome) ==
    IF outcome = "abandoned" THEN MaxAttempts
    ELSE IF outcome = "delivered" THEN attempts[i] + 1 ELSE attempts[i]

\* Fault: a refusal spends one attempt more than there are.
AttemptsAfterPastLimit(i, outcome) ==
    IF outcome = "abandoned" THEN MaxAttempts + 1
    ELSE IF outcome = "no" THEN attempts[i] ELSE attempts[i] + 1

\* The attempts a committed pass leaves on delivery i.
AttemptsAfter(i, outcome) ==
    IF outcome = "abandoned" THEN MaxAttempts
    ELSE IF outcome = "no" THEN attempts[i] ELSE attempts[i] + 1

\* The instant it leaves: the claim's lease, a mark's backoff, or the pass's own.
NextAfter(i, outcome, a) ==
    CASE outcome = "delivered" -> Lease - a
      [] outcome = "failed" -> Backoff - a
      [] outcome = "abandoned" -> -a
      [] OTHER -> next[i]

\* The pass commits: what claimDue and the marks wrote, seen at once.
Commit(p) ==
    /\ pc[p] = "send" /\ \A i \in Items : held[p][i] # "claimed"
    /\ attempts' = [i \in Items |-> AttemptsAfter(i, held[p][i])]
    /\ next' = [i \in Items |-> NextAfter(i, held[p][i], age[p])]
    /\ finished' = [i \in Items |-> finished[i] \/ held[p][i] = "delivered"]
    /\ error' = [i \in Items |-> IF held[p][i] = "no" THEN error[i] ELSE held[p][i] # "delivered"]
    /\ held' = [held EXCEPT ![p] = [i \in Items |-> "no"]]
    /\ pc' = [pc EXCEPT ![p] = "idle"]
    /\ age' = [age EXCEPT ![p] = 0]
    /\ UNCHANGED <<st, histVars>>

\* The process dies or a statement fails: the marks' own catch runs into the
\* aborted transaction, and the claim goes with the rest.
Abort(p) ==
    /\ failures < MaxFailures /\ pc[p] = "send"
    /\ failures' = failures + 1
    /\ answered' = [i \in Items |-> answered[i] /\ held[p][i] = "no"]
    /\ held' = [held EXCEPT ![p] = [i \in Items |-> "no"]]
    /\ pc' = [pc EXCEPT ![p] = "idle"]
    /\ age' = [age EXCEPT ![p] = 0]
    /\ UNCHANGED <<rowVars, posts>>

\* The retention pass; its DELETE waits for a pass's lock and judges again.
Reap(i) ==
    /\ PastRetention(i) /\ ~Locked(i)
    /\ st' = [st EXCEPT ![i] = "gone"]
    /\ UNCHANGED <<attempts, next, finished, error, passVars, held, histVars>>

PassStep(p) == ClaimDue(p) \/ Commit(p) \/ \E i \in Items : DeliverOne(p, i)

Next ==
    \/ Tick
    \/ \E i \in Items : Enqueue(i) \/ Reap(i)
    \/ \E p \in Passes : Start(p) \/ PassStep(p) \/ Abort(p)

Spec == Init /\ [][Next]_vars

\* The clock runs, a pass that began goes on, and the scheduler begins another
\* after each.  Passes fail no more than MaxFailures times: one that always
\* failed would spend no attempt.
FairSpec ==
    /\ Spec
    /\ WF_vars(Tick)
    /\ \A p \in Passes : WF_vars(Start(p)) /\ WF_vars(PassStep(p))

-----------------------------------------------------------------------------
(* Properties *)

\* The type invariant of the deliveries and of the passes over them.
TypeOK ==
    /\ st \in [Items -> {"none", "row", "gone"}]
    /\ attempts \in [Items -> 0..MaxAttempts]
    /\ next \in [Items -> Int]
    /\ finished \in [Items -> BOOLEAN] /\ error \in [Items -> BOOLEAN]
    /\ pc \in [Passes -> Places] /\ age \in [Passes -> 0..MaxPassTicks]
    /\ held \in [Passes -> [Items -> Outcomes]]
    /\ posts \in [Items -> Nat] /\ answered \in [Items -> BOOLEAN]
    /\ failures \in 0..MaxFailures

\* Two passes over a tenant never post the same delivery side by side, however
\* long a pass outlives the lease it writes: the row's lock lasts as long as the
\* pass.
OnePassPerDelivery ==
    \A p, q \in Passes, i \in Items : held[p][i] # "no" /\ held[q][i] # "no" => p = q

\* A relying party that accepted the token, or refused it for good, is not asked
\* again, unless the pass that heard it fails or the session is ended anew.
AnsweredIsFinal == [][\A i \in Items : answered[i] => posts'[i] \in {0, posts[i]}]_vars

\* A failed pass costs a delivery at most one post beyond its attempts, however
\* many deliveries the pass had posted: it posts each once.
FailuresBoundPosts == \A i \in Items : posts[i] <= MaxAttempts + failures

\* What claimDue's comment says: the attempt is spent before the post, so a
\* delivery is posted no more often than it has attempts.  It does not hold: a
\* pass that fails after a post takes the claim back with it.
AttemptsBoundPosts == \A i \in Items : posts[i] <= MaxAttempts

\* Every delivery is in the end recorded, or out of attempts.
EveryDeliverySettles ==
    \A i \in Items : st[i] = "row" ~> finished[i] \/ attempts[i] = MaxAttempts
=============================================================================
