-------------------------------- MODULE Outbox --------------------------------
(***************************************************************************)
(* The mail outbox.  A pass claims in a transaction of its own, hands each *)
(* message to the transport with no transaction open, and records each     *)
(* outcome in a further transaction.  A process may die, and a write may   *)
(* fail, between any two of them.                                          *)
(***************************************************************************)
EXTENDS LeaseQueue

CONSTANT None

VARIABLES
    claim,   \* claim[p][i]: the attempt pass p holds message i for, 0 if it does not
    cur,     \* the message whose outcome pass p is about to record
    handed   \* history: handed[i][k], how often attempt k of i reached the transport

vars == <<st, attempts, next, finished, error, pc, age, claim, cur, handed>>

Places == {"idle", "claim", "resolve", "send", "accepted", "refused"}

NoClaim == [i \in Items |-> 0]

Init ==
    /\ QueueInit
    /\ claim = [p \in Passes |-> NoClaim]
    /\ cur = [p \in Passes |-> None]
    /\ handed = [i \in Items |-> [k \in 1..MaxAttempts |-> 0]]

Tick == QueueTick /\ UNCHANGED <<claim, cur, handed>>

\* enqueue, in the transaction that produced the mail.
Enqueue(i) ==
    /\ st[i] = "none"
    /\ InsertRow(i)
    /\ UNCHANGED <<passVars, claim, cur, handed>>

Start(p) == PassStart(p) /\ UNCHANGED <<rowVars, claim, cur, handed>>

\* The pass is over, or its process has died: what it held is held no more.
Leave(p) ==
    /\ pc' = [pc EXCEPT ![p] = "idle"]
    /\ age' = [age EXCEPT ![p] = 0]
    /\ claim' = [claim EXCEPT ![p] = NoClaim]
    /\ cur' = [cur EXCEPT ![p] = None]

\* claimBatch and its commit: each row's attempt is counted and the row leased
\* before anything is sent.
ClaimBatchAs(p, counted, lease) ==
    /\ pc[p] = "claim"
    /\ \E b \in BatchesOf({i \in Items : Due(i, age[p])}) :
         /\ attempts' = [i \in Items |-> IF i \in b THEN attempts[i] + counted ELSE attempts[i]]
         /\ next' = [i \in Items |-> IF i \in b THEN lease - age[p] ELSE next[i]]
         /\ claim' = [claim EXCEPT ![p] = [i \in Items |-> IF i \in b THEN attempts[i] + 1 ELSE 0]]
         /\ pc' = [pc EXCEPT ![p] = IF b = {} THEN "idle" ELSE "resolve"]
         /\ age' = [age EXCEPT ![p] = IF b = {} THEN 0 ELSE age[p]]
    /\ UNCHANGED <<st, finished, error, cur, handed>>

\* Fault: the attempt is left for the outcome to count.
ClaimBatchUncounted(p) == ClaimBatchAs(p, 0, Lease)

\* Fault: the row is not leased.
ClaimBatchUnleased(p) == ClaimBatchAs(p, 1, 0)

ClaimBatch(p) == ClaimBatchAs(p, 1, Lease)

\* resolveSender answers, once for the batch; or throws, which leaves the whole
\* batch to its lease.
ResolveSender(p) ==
    /\ pc[p] = "resolve"
    /\ pc' = [pc EXCEPT ![p] = "send"]
    /\ UNCHANGED <<rowVars, age, claim, cur, handed>>

SenderUnresolved(p) == pc[p] = "resolve" /\ Leave(p) /\ UNCHANGED <<rowVars, handed>>

\* sender.send, for the next message of the batch.
Send(p, i) ==
    /\ pc[p] = "send" /\ claim[p][i] # 0
    /\ handed' = [handed EXCEPT ![i][claim[p][i]] = @ + 1]
    /\ cur' = [cur EXCEPT ![p] = i]
    /\ \E answer \in {"accepted", "refused"} : pc' = [pc EXCEPT ![p] = answer]
    /\ UNCHANGED <<rowVars, age, claim>>

\* On to the next message, or to the end of the batch.
NextMessage(p) ==
    IF \E i \in Items : i # cur[p] /\ claim[p][i] # 0
    THEN /\ claim' = [claim EXCEPT ![p][cur[p]] = 0]
         /\ cur' = [cur EXCEPT ![p] = None]
         /\ pc' = [pc EXCEPT ![p] = "send"]
         /\ UNCHANGED age
    ELSE Leave(p)

\* The WHERE clause of both writes: sent_at IS NULL.
Unsent(i) == st[i] = "row" /\ ~finished[i]

MarkSent(p) ==
    /\ pc[p] = "accepted"
    /\ LET i == cur[p] IN
         IF Unsent(i)
         THEN /\ finished' = [finished EXCEPT ![i] = TRUE]
              /\ error' = [error EXCEPT ![i] = FALSE]
         ELSE UNCHANGED <<finished, error>>
    /\ NextMessage(p)
    /\ UNCHANGED <<st, attempts, next, handed>>

\* retryDelaySeconds: doubling from the first retry.
RetryDelay(k) == Backoff * 2 ^ (IF k > 1 THEN k - 1 ELSE 0)

\* Fault: an update by id alone.
MarkFailedById(p) ==
    /\ pc[p] = "refused"
    /\ error' = [error EXCEPT ![cur[p]] = st[cur[p]] = "row"]
    /\ next' = [next EXCEPT ![cur[p]] = RetryDelay(claim[p][cur[p]]) - age[p]]
    /\ NextMessage(p)
    /\ UNCHANGED <<st, attempts, finished, handed>>

MarkFailed(p) ==
    /\ pc[p] = "refused"
    /\ LET i == cur[p] IN
         IF Unsent(i)
         THEN /\ error' = [error EXCEPT ![i] = TRUE]
              /\ next' = [next EXCEPT ![i] = RetryDelay(claim[p][i]) - age[p]]
         ELSE UNCHANGED <<error, next>>
    /\ NextMessage(p)
    /\ UNCHANGED <<st, attempts, finished, handed>>

\* The write throws; the pass goes on with the rest of the batch.
MarkLost(p) ==
    /\ pc[p] \in {"accepted", "refused"}
    /\ NextMessage(p)
    /\ UNCHANGED <<rowVars, handed>>

\* The process dies with a batch in hand.
Crash(p) ==
    /\ pc[p] \in {"resolve", "send", "accepted", "refused"}
    /\ Leave(p)
    /\ UNCHANGED <<rowVars, handed>>

\* The retention pass, which waits for no sender.
Reap(i) ==
    /\ PastRetention(i)
    /\ st' = [st EXCEPT ![i] = "gone"]
    /\ UNCHANGED <<attempts, next, finished, error, passVars, claim, cur, handed>>

\* What a pass does next of its own accord.
PassStep(p) ==
    \/ ClaimBatch(p) \/ ResolveSender(p) \/ SenderUnresolved(p)
    \/ MarkSent(p) \/ MarkFailed(p) \/ MarkLost(p)
    \/ \E i \in Items : Send(p, i)

Next ==
    \/ Tick
    \/ \E i \in Items : Enqueue(i) \/ Reap(i)
    \/ \E p \in Passes : Start(p) \/ PassStep(p) \/ Crash(p)

Spec == Init /\ [][Next]_vars

\* The clock runs, a pass that began goes on, and the scheduler begins another
\* after each: it reschedules itself in a finally.  Nothing is assumed of what
\* the transport answers, nor that a pass lives to its end.
FairSpec ==
    /\ Spec
    /\ WF_vars(Tick)
    /\ \A p \in Passes : WF_vars(Start(p)) /\ WF_vars(PassStep(p))

-----------------------------------------------------------------------------
(* Properties *)

\* The type invariant of the outbox and of the passes over it.
TypeOK ==
    /\ st \in [Items -> {"none", "row", "gone"}]
    /\ attempts \in [Items -> 0..MaxAttempts]
    /\ next \in [Items -> Int]
    /\ finished \in [Items -> BOOLEAN] /\ error \in [Items -> BOOLEAN]
    /\ pc \in [Passes -> Places] /\ age \in [Passes -> 0..MaxPassTicks]
    /\ claim \in [Passes -> [Items -> 0..MaxAttempts]]
    /\ cur \in [Passes -> Items \union {None}]
    /\ handed \in [Items -> [1..MaxAttempts -> Nat]]

\* No attempt of a message reaches the transport twice, so a message is handed
\* over at most MaxAttempts times in all, whatever dies or overlaps: the claim's
\* commit counts the attempt before the send, and two passes that hold the same
\* message hold different attempts of it.
EachAttemptOnce == \A i \in Items, k \in 1..MaxAttempts : handed[i][k] <= 1

\* A message recorded as sent never carries a failure, also when a pass that
\* lost its lease reports a refusal after another's success.
SentCarriesNoError == \A i \in Items : finished[i] => ~error[i]

\* Two senders never hold the same message at once.  It needs passes that end
\* within the lease.
OneSenderPerMessage ==
    \A p, q \in Passes, i \in Items : claim[p][i] # 0 /\ claim[q][i] # 0 => p = q

\* Every message is in the end sent, or out of attempts: a death costs the lease
\* and one attempt, never the message.
EveryMessageSettles ==
    \A i \in Items : st[i] = "row" ~> finished[i] \/ attempts[i] = MaxAttempts
=============================================================================
