------------------------------ MODULE LeaseQueue ------------------------------
(***************************************************************************)
(* What the mail outbox and the back-channel logout deliveries share: a    *)
(* table whose rows count their attempts and say when the next one is due, *)
(* and passes that claim a batch of due rows by raising the count and      *)
(* leasing the row.  Passes run side by side, one per server process and   *)
(* any an operator starts; each reads the clock once, at its start.        *)
(*                                                                         *)
(* One tenant: a claim is confined to one tenant by row-level security.    *)
(* That a pass visits other tenants first is why its instant may be old    *)
(* by the time it claims.                                                  *)
(***************************************************************************)
EXTENDS Integers, FiniteSets

CONSTANTS
    Items,        \* rows
    Passes,       \* passes in progress at once
    MaxAttempts,  \* attempts beyond which a row is no longer offered
    Batch,        \* rows claimed per tenant and pass
    Lease,        \* ticks a claim hides a row, from the pass's instant
    Backoff,      \* ticks a failed row waits, from the pass's instant
    MaxPassTicks  \* bound: how long after its instant a pass may still run

ASSUME QueueAssumption ==
    /\ MaxAttempts \in Nat \ {0} /\ Batch \in Nat \ {0}
    /\ {Lease, Backoff, MaxPassTicks} \subseteq Nat

VARIABLES
    st,        \* "none", "row", or "gone" once deleted
    attempts,  \* attempts
    next,      \* next_attempt_at, counted from the present instant
    finished,  \* sent_at or delivered_at IS NOT NULL
    error,     \* last_error IS NOT NULL
    pc, age    \* each pass's place, and the ticks since it read the clock

rowVars == <<st, attempts, next, finished, error>>
passVars == <<pc, age>>

QueueInit ==
    /\ st = [i \in Items |-> "none"]
    /\ attempts = [i \in Items |-> 0]
    /\ next = [i \in Items |-> 0]
    /\ finished = [i \in Items |-> FALSE]
    /\ error = [i \in Items |-> FALSE]
    /\ pc = [p \in Passes |-> "idle"]
    /\ age = [p \in Passes |-> 0]

\* A row inserted now, due at once.
InsertRow(i) ==
    /\ st' = [st EXCEPT ![i] = "row"]
    /\ attempts' = [attempts EXCEPT ![i] = 0]
    /\ next' = [next EXCEPT ![i] = 0]
    /\ finished' = [finished EXCEPT ![i] = FALSE]
    /\ error' = [error EXCEPT ![i] = FALSE]

\* Fault: the last attempt is never offered.
DueOneShort(i, a) ==
    st[i] = "row" /\ ~finished[i] /\ attempts[i] < MaxAttempts - 1 /\ next[i] + a <= 0

\* Fault: the count is kept and never looked at.
DueUnlimited(i, a) == st[i] = "row" /\ ~finished[i] /\ next[i] + a <= 0

\* The claim's inner SELECT, for a pass that read the clock `a` ticks ago.
Due(i, a) ==
    st[i] = "row" /\ ~finished[i] /\ attempts[i] < MaxAttempts /\ next[i] + a <= 0

\* ORDER BY next_attempt_at LIMIT Batch.
BatchesOf(due) ==
    {b \in SUBSET due :
        /\ Cardinality(b) = IF Cardinality(due) < Batch THEN Cardinality(due) ELSE Batch
        /\ \A i \in b, j \in due \ b : next[i] <= next[j]}

\* The retention rule of either table, its windows at their shortest: a
\* finished row, or one that spent its attempts and says why.
PastRetention(i) ==
    /\ st[i] = "row"
    /\ finished[i] \/ (attempts[i] >= MaxAttempts /\ error[i] /\ next[i] < 0)

\* A pass begins: it reads the clock.
PassStart(p) ==
    /\ pc[p] = "idle"
    /\ pc' = [pc EXCEPT ![p] = "claim"]
    /\ age' = [age EXCEPT ![p] = 0]

\* Time passes.  An instant more than MaxPassTicks ago is due for every pass, so
\* how much more no longer matters.
QueueTick ==
    /\ \A p \in Passes : pc[p] # "idle" => age[p] < MaxPassTicks
    /\ next' = [i \in Items |-> IF next[i] > -MaxPassTicks THEN next[i] - 1 ELSE next[i]]
    /\ age' = [p \in Passes |-> IF pc[p] # "idle" THEN age[p] + 1 ELSE 0]
    /\ UNCHANGED <<st, attempts, finished, error, pc>>
=============================================================================
