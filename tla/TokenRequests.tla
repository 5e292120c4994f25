----------------------------- MODULE TokenRequests -----------------------------
(* The token endpoint of one server process as its two kinds of caller use it, *)
(* on the process's one connection pool.                                      *)
(*                                                                            *)
(* A direct request authenticates by private_key_jwt: the assertion's jti is  *)
(* locked by an advisory lock that is tried and never waited for, looked up   *)
(* under the lock, and spent in the request's own transaction whether the     *)
(* work is done or refused.  A refresh rotates its token in a transaction of  *)
(* its own, on a second connection, while it holds the first.                 *)
(*                                                                            *)
(* The console gateway keeps one refresh token per console session and        *)
(* refreshes it for the browser: one flight per session, a semaphore over the *)
(* flights, the session's row lock held on one connection while the in-process *)
(* token request takes a second and its rotation a third.                     *)
EXTENDS Naturals, Sequences, FiniteSets, FiniteSetsExt

CONSTANTS
    Direct,       \* direct token requests
    Refreshes,    \* those of them that may need a second connection for their work
    Assertions,   \* client assertions, each with one jti
    Ttl,          \* ticks an assertion is accepted for, the leeway included
    Calls,        \* requests of the console's browsers
    Logouts,      \* those of them that may be a logout
    Consoles,     \* console sessions
    ConsoleOf,    \* the session each console request carries
    None,
    Pool,         \* connections of the process
    MaxRotations, \* bound: rotations of one console session's refresh token
    MaxFaults,    \* bound: failures, crashes and revocations from elsewhere
    MaxLookupTicks, \* bound: ticks from an assertion's verification to its lookup
    MaxNow        \* bound: ticks

ASSUME PoolAssumption == Pool \in Nat \ {0}
ASSUME BoundsAssumption ==
    /\ Ttl \in Nat
    /\ MaxRotations \in Nat
    /\ MaxFaults \in Nat
    /\ MaxLookupTicks \in Nat
    /\ MaxNow \in Nat
ASSUME CallersAssumption ==
    /\ ConsoleOf \in [Calls -> Consoles]
    /\ Logouts \subseteq Calls
    /\ Refreshes \subseteq Direct
    /\ Direct \intersect Calls = {}
    /\ None \notin Direct \union Calls \union Assertions
ASSUME PopulationAssumption == IsFiniteSet(Direct) /\ IsFiniteSet(Calls)

Processes == Direct \union Calls

VARIABLES
    pc,       \* where each request is
    free,     \* idle connections
    queue,    \* requests waiting for a connection, in order
    bearing,  \* the assertion each direct request carries
    verifiedAt, \* when that assertion was verified, until it is looked up
    spent,    \* client_assertion_jti: the assertions with a row
    uses,     \* ghost: requests an assertion authenticated
    served,   \* ghost: of those, the ones whose transaction committed its work
    unspent,  \* ghost: of those, the ones that ended with no row written
    row,      \* console_sessions: each session's row
    seen,     \* the refresh token's generation each console request works from
    flight,   \* the request refreshing each session, if any
    running,  \* the semaphore's count
    waiting,  \* requests waiting for a slot of the semaphore, in order
    family,   \* the grant behind each console session, as the server keeps it
    now,
    faults

pools == <<free, queue>>
jtis == <<bearing, verifiedAt, spent, uses, served, unspent>>
gateway == <<row, seen, flight, running, waiting, family>>
vars == <<pc, pools, jtis, gateway, now, faults>>

-----------------------------------------------------------------------------
(* The pool *)

\* The pool's turn to serve a request that waits for a connection: the queue is
\* served in order and holds no request back while a connection is idle.
Waits(p) == queue # <<>> /\ Head(queue) = p
Served(p) == free > 0 /\ Waits(p)

\* The connection is kept, given back within the step, or one already held is
\* given back.
Keep == free' = free - 1 /\ queue' = Tail(queue)
Pass == free' = free /\ queue' = Tail(queue)
GiveBack == free' = free + 1 /\ queue' = queue

\* A request takes its place in the queue; with one connection in hand it keeps it.
Ask(p) == free' = free /\ queue' = Append(queue, p)
KeepAndAsk(p) == free' = free - 1 /\ queue' = Append(Tail(queue), p)

Goto(p, where) == pc' = [pc EXCEPT ![p] = where]

-----------------------------------------------------------------------------
(* Direct requests: client authentication by assertion *)

Expired == now >= Ttl

\* The stages at which a request holds its assertion's advisory lock.
Working == {"rotate", "settle"}

\* pg_try_advisory_xact_lock fails: another transaction is using this assertion.
Locked(d, a) == \E e \in Direct \ {d} : bearing[e] = a /\ pc[e] \in Working

\* A request to /token, /revoke or /introspect that carries an assertion.
Arrive(d) ==
    /\ pc[d] = "idle"
    /\ \E a \in Assertions : bearing' = [bearing EXCEPT ![d] = a]
    /\ Goto(d, "claim")
    /\ Ask(d)
    /\ UNCHANGED <<verifiedAt, spent, uses, served, unspent, gateway, now, faults>>

\* The assertion does not stand - its client, its keys, its signature, its
\* lifetime with the leeway counted: refused, and nothing spent.
Refuse(d) ==
    /\ pc[d] = "claim"
    /\ Served(d)
    /\ Goto(d, "done")
    /\ Pass
    /\ UNCHANGED <<jtis, gateway, now, faults>>

\* verifyJwtAgainstJwkSet: the signature verifies and the lifetime has not run
\* out.  The lookup is a query of its own, and the clock runs on before it.
Verify(d) ==
    /\ pc[d] = "claim"
    /\ Served(d)
    /\ ~Expired
    /\ verifiedAt' = [verifiedAt EXCEPT ![d] = now]
    /\ Goto(d, "verified")
    /\ Keep
    /\ UNCHANGED <<bearing, spent, uses, served, unspent, gateway, now, faults>>

\* The jti is in use by another request or has been spent: refused, and nothing
\* spent.
RefuseReplay(d) ==
    /\ pc[d] = "verified"
    /\ Locked(d, bearing[d]) \/ bearing[d] \in spent
    /\ verifiedAt' = [verifiedAt EXCEPT ![d] = 0]
    /\ Goto(d, "done")
    /\ GiveBack
    /\ UNCHANGED <<bearing, spent, uses, served, unspent, gateway, now, faults>>

\* The advisory lock is taken and no row spends the jti: the client is
\* authenticated and the work begins, a refresh by asking for the connection of
\* its rotation while it holds its own.
Claim(d) ==
    /\ pc[d] = "verified"
    /\ ~Locked(d, bearing[d])
    /\ bearing[d] \notin spent
    /\ uses' = [uses EXCEPT ![bearing[d]] = @ + 1]
    /\ verifiedAt' = [verifiedAt EXCEPT ![d] = 0]
    /\ \/ d \in Refreshes /\ Goto(d, "rotate") /\ Ask(d)
       \/ Goto(d, "settle") /\ UNCHANGED pools
    /\ UNCHANGED <<bearing, spent, served, unspent, gateway, now, faults>>

\* rotateRefreshToken, or the revocation after a code replay, in a transaction of
\* its own.
RotateDirect(d) ==
    /\ pc[d] = "rotate"
    /\ Served(d)
    /\ Goto(d, "settle")
    /\ Pass
    /\ UNCHANGED <<jtis, gateway, now, faults>>

\* settle, the work done: the jti's row commits with it.
Serve(d) ==
    /\ pc[d] = "settle"
    /\ spent' = spent \union {bearing[d]}
    /\ served' = [served EXCEPT ![bearing[d]] = @ + 1]
    /\ Goto(d, "done")
    /\ GiveBack
    /\ UNCHANGED <<bearing, verifiedAt, uses, unspent, gateway, now, faults>>

RefuseSpentRollsBack(d) ==
    /\ pc[d] = "settle"
    /\ Goto(d, "done")
    /\ GiveBack
    /\ UNCHANGED <<jtis, gateway, now, faults>>

\* settle, the work refused: its savepoint is rolled back and the row commits
\* alone.
RefuseSpent(d) ==
    /\ pc[d] = "settle"
    /\ spent' = spent \union {bearing[d]}
    /\ Goto(d, "done")
    /\ GiveBack
    /\ UNCHANGED <<bearing, verifiedAt, uses, served, unspent, gateway, now, faults>>

LoseSpendCommitsWork(d) ==
    /\ pc[d] = "settle"
    /\ faults < MaxFaults
    /\ faults' = faults + 1
    /\ unspent' = [unspent EXCEPT ![bearing[d]] = @ + 1]
    /\ served' = [served EXCEPT ![bearing[d]] = @ + 1]
    /\ Goto(d, "done")
    /\ GiveBack
    /\ UNCHANGED <<bearing, verifiedAt, spent, uses, gateway, now>>

\* The store refuses the jti's row, or the connection is lost before the commit:
\* what the request's own transaction did is rolled back and the advisory lock
\* goes with it, work that was refused stays refused, and a rotation, committed
\* on its own connection, stands.
LoseSpend(d) ==
    /\ pc[d] = "settle"
    /\ faults < MaxFaults
    /\ faults' = faults + 1
    /\ unspent' = [unspent EXCEPT ![bearing[d]] = @ + 1]
    /\ Goto(d, "done")
    /\ GiveBack
    /\ UNCHANGED <<bearing, verifiedAt, spent, uses, served, gateway, now>>

\* The retention pass: rows of assertions past their expiry.
Reap ==
    \E a \in spent :
        /\ now > Ttl
        /\ spent' = spent \ {a}
        /\ UNCHANGED <<pc, pools, bearing, verifiedAt, uses, served, unspent, gateway, now, faults>>

DirectStep(d) ==
    \/ Refuse(d)
    \/ Verify(d)
    \/ RefuseReplay(d)
    \/ Claim(d)
    \/ RotateDirect(d)
    \/ Serve(d)
    \/ RefuseSpent(d)

-----------------------------------------------------------------------------
(* The console gateway *)

RefreshConcurrencyForTwo == Max({1, Min({2, IF Pool < 2 THEN 0 ELSE Pool - 2})})

\* How many flights may run at once: each holds three connections, and two are
\* left free.
RefreshConcurrency == Max({1, Min({2, IF Pool < 2 THEN 0 ELSE (Pool - 2) \div 3})})

\* The stages at which a request holds its session's row lock.
Locking == {"present", "rotate", "mint", "end"}

RowLocked(s) == \E c \in Calls : ConsoleOf[c] = s /\ pc[c] \in Locking

\* A console request arrives and asks for the connection of resolveSession.
Call(c) ==
    /\ pc[c] = "idle"
    /\ Goto(c, "resolve")
    /\ Ask(c)
    /\ UNCHANGED <<jtis, gateway, now, faults>>

\* resolveSession finds no row; or the row, whose access token is still fresh.
\* Either way the request is answered without a refresh.
ResolveAnswers(c) ==
    /\ pc[c] = "resolve"
    /\ Served(c)
    /\ ~row[ConsoleOf[c]].live \/ row[ConsoleOf[c]].fresh
    /\ Goto(c, "done")
    /\ Pass
    /\ UNCHANGED <<jtis, gateway, now, faults>>

\* resolveSession finds a row whose access token needs a refresh.
ResolveStale(c) ==
    /\ pc[c] = "resolve"
    /\ Served(c)
    /\ row[ConsoleOf[c]].live
    /\ ~row[ConsoleOf[c]].fresh
    /\ seen' = [seen EXCEPT ![c] = row[ConsoleOf[c]].gen]
    /\ Goto(c, "refresh")
    /\ Pass
    /\ UNCHANGED <<jtis, row, flight, running, waiting, family, now, faults>>

\* freshAccessToken, a flight for the session under way: its answer is awaited.
Join(c) ==
    /\ pc[c] = "refresh"
    /\ flight[ConsoleOf[c]] # None
    /\ Goto(c, "joined")
    /\ UNCHANGED <<pools, jtis, gateway, now, faults>>

\* freshAccessToken, no flight under way: one starts, with a slot if one is free.
TakeOff(c) ==
    /\ pc[c] = "refresh"
    /\ flight[ConsoleOf[c]] = None
    /\ flight' = [flight EXCEPT ![ConsoleOf[c]] = c]
    /\ \/ /\ running < RefreshConcurrency
          /\ running' = running + 1
          /\ Goto(c, "lock")
          /\ Ask(c)
          /\ UNCHANGED waiting
       \/ /\ running >= RefreshConcurrency
          /\ waiting' = Append(waiting, c)
          /\ Goto(c, "slot")
          /\ UNCHANGED <<pools, running>>
    /\ UNCHANGED <<jtis, row, seen, family, now, faults>>

LandReleasesHandedSlot(c, held) ==
    LET handed == IF waiting = <<>> THEN {} ELSE {Head(waiting)}
        answered == {c} \union {d \in Calls : pc[d] = "joined" /\ ConsoleOf[d] = ConsoleOf[c]}
    IN  /\ pc' = [p \in Processes |-> IF p \in answered THEN "done"
                                      ELSE IF p \in handed THEN "lock" ELSE pc[p]]
        /\ flight' = [flight EXCEPT ![ConsoleOf[c]] = None]
        /\ seen' = [d \in Calls |-> IF d \in answered THEN 0 ELSE seen[d]]
        /\ free' = free + held
        /\ queue' = (IF Waits(c) THEN Tail(queue) ELSE queue)
                    \o (IF waiting = <<>> THEN <<>> ELSE <<Head(waiting)>>)
        /\ waiting' = IF waiting = <<>> THEN <<>> ELSE Tail(waiting)
        /\ running' = running - 1

\* What ends with a flight: the requests that joined it are answered, its slot
\* goes to the next that waits for one, the connections it holds go back.
Land(c, held) ==
    LET handed == IF waiting = <<>> THEN {} ELSE {Head(waiting)}
        answered == {c} \union {d \in Calls : pc[d] = "joined" /\ ConsoleOf[d] = ConsoleOf[c]}
    IN  /\ pc' = [p \in Processes |-> IF p \in answered THEN "done"
                                      ELSE IF p \in handed THEN "lock" ELSE pc[p]]
        /\ flight' = [flight EXCEPT ![ConsoleOf[c]] = None]
        /\ seen' = [d \in Calls |-> IF d \in answered THEN 0 ELSE seen[d]]
        /\ free' = free + held
        /\ queue' = (IF Waits(c) THEN Tail(queue) ELSE queue)
                    \o (IF waiting = <<>> THEN <<>> ELSE <<Head(waiting)>>)
        /\ IF waiting = <<>>
           THEN running' = running - 1 /\ UNCHANGED waiting
           ELSE waiting' = Tail(waiting) /\ UNCHANGED running

\* The flight's transaction has its connection and the row lock: the row is
\* gone, or another flight refreshed it since.
LockAnswers(c) ==
    /\ pc[c] = "lock"
    /\ Served(c)
    /\ ~row[ConsoleOf[c]].live \/ row[ConsoleOf[c]].fresh
    /\ Land(c, 0)
    /\ UNCHANGED <<jtis, row, family, now, faults>>

\* Another process holds the row past lock_timeout: unavailable, and the session
\* is kept.
LockTimesOut(c) ==
    /\ pc[c] = "lock"
    /\ Served(c)
    /\ faults < MaxFaults
    /\ faults' = faults + 1
    /\ Land(c, 0)
    /\ UNCHANGED <<jtis, row, family, now>>

LockStaleAsResolved(c) ==
    /\ pc[c] = "lock"
    /\ Served(c)
    /\ Goto(c, "present")
    /\ KeepAndAsk(c)
    /\ UNCHANGED <<jtis, gateway, now, faults>>

\* Under the row lock: what the row holds by now is what is presented, by a token
\* request that asks for a connection of its own.
LockStale(c) ==
    /\ pc[c] = "lock"
    /\ Served(c)
    /\ row[ConsoleOf[c]].live
    /\ ~row[ConsoleOf[c]].fresh
    /\ seen' = [seen EXCEPT ![c] = row[ConsoleOf[c]].gen]
    /\ Goto(c, "present")
    /\ KeepAndAsk(c)
    /\ UNCHANGED <<jtis, row, flight, running, waiting, family, now, faults>>

\* The token request authenticates by an assertion of its own and asks for the
\* connection of its rotation.
Present(c) ==
    /\ pc[c] = "present"
    /\ Served(c)
    /\ Goto(c, "rotate")
    /\ KeepAndAsk(c)
    /\ UNCHANGED <<jtis, gateway, now, faults>>

PresentFailsKeepsConnection(c) ==
    /\ pc[c] = "present"
    /\ Served(c)
    /\ faults < MaxFaults
    /\ faults' = faults + 1
    /\ Land(c, 0)
    /\ UNCHANGED <<jtis, row, family, now>>

\* failed, before the rotation: the row is kept, and its token still stands.
PresentFails(c) ==
    /\ pc[c] = "present"
    /\ Served(c)
    /\ faults < MaxFaults
    /\ faults' = faults + 1
    /\ Land(c, 1)
    /\ UNCHANGED <<jtis, row, family, now>>

\* rotateRefreshToken on the third connection: the current token is rotated, a
\* spent one revokes its family.
RotateConsole(c) ==
    LET s == ConsoleOf[c] IN
    /\ pc[c] = "rotate"
    /\ Served(c)
    /\ Pass
    /\ \/ /\ ~family[s].revoked
          /\ seen[c] = family[s].current
          /\ family' = [family EXCEPT ![s].current = @ + 1]
          /\ Goto(c, "mint")
       \/ /\ ~family[s].revoked
          /\ seen[c] # family[s].current
          /\ family' = [family EXCEPT ![s].revoked = TRUE, ![s].reused = TRUE]
          /\ Goto(c, "end")
       \/ /\ family[s].revoked
          /\ Goto(c, "end")
          /\ UNCHANGED family
    /\ UNCHANGED <<jtis, row, seen, flight, running, waiting, now, faults>>

\* refreshed: the token request commits and answers 200, and the row takes the
\* new tokens.
Store(c) ==
    /\ pc[c] = "mint"
    /\ row' = [row EXCEPT ![ConsoleOf[c]].gen = seen[c] + 1, ![ConsoleOf[c]].fresh = TRUE]
    /\ Land(c, 2)
    /\ UNCHANGED <<jtis, family, now, faults>>

\* failed, after the rotation committed: answered as the failure before it is,
\* and the row is kept with a token that is spent.
MintFails(c) ==
    /\ pc[c] = "mint"
    /\ faults < MaxFaults
    /\ faults' = faults + 1
    /\ family' = [family EXCEPT ![ConsoleOf[c]].lost = TRUE]
    /\ Land(c, 2)
    /\ UNCHANGED <<jtis, row, now>>

\* refused, after the rotation committed: invalid_grant from what follows it in
\* the token request, or a 200 whose body cannot be read.  The row is deleted.
MintRefused(c) ==
    /\ pc[c] = "mint"
    /\ faults < MaxFaults
    /\ faults' = faults + 1
    /\ row' = [row EXCEPT ![ConsoleOf[c]].live = FALSE]
    /\ Land(c, 2)
    /\ UNCHANGED <<jtis, family, now>>

\* refused, by invalid_grant: the row is deleted.
EndRow(c) ==
    /\ pc[c] = "end"
    /\ row' = [row EXCEPT ![ConsoleOf[c]].live = FALSE]
    /\ Land(c, 2)
    /\ UNCHANGED <<jtis, family, now, faults>>

\* logout: the session is resolved and its row is to be taken.
ResolveLogout(c) ==
    /\ c \in Logouts
    /\ pc[c] = "resolve"
    /\ Served(c)
    /\ row[ConsoleOf[c]].live
    /\ Goto(c, "take")
    /\ free' = free
    /\ queue' = Append(Tail(queue), c)
    /\ UNCHANGED <<jtis, gateway, now, faults>>

\* The transaction of the take has its connection, and waits for the row on it.
TakeBegins(c) ==
    /\ pc[c] = "take"
    /\ Served(c)
    /\ Goto(c, "taking")
    /\ Keep
    /\ UNCHANGED <<jtis, gateway, now, faults>>

\* take: the row is deleted as it stands once no refresh holds it, and the grant
\* behind it is to be revoked.
Take(c) ==
    /\ pc[c] = "taking"
    /\ ~RowLocked(ConsoleOf[c])
    /\ row[ConsoleOf[c]].live
    /\ row' = [row EXCEPT ![ConsoleOf[c]].live = FALSE]
    /\ Goto(c, "revoke")
    /\ free' = free + 1
    /\ queue' = Append(queue, c)
    /\ UNCHANGED <<jtis, seen, flight, running, waiting, family, now, faults>>

\* The row was gone, or a refresh held it past lock_timeout.
TakeNothing(c) ==
    /\ pc[c] = "taking"
    /\ RowLocked(ConsoleOf[c]) \/ ~row[ConsoleOf[c]].live
    /\ Goto(c, "done")
    /\ GiveBack
    /\ UNCHANGED <<jtis, gateway, now, faults>>

\* endGrant: revoking the refresh token ends its grant; a revoke that fails is
\* answered no differently.
Revoke(c) ==
    /\ pc[c] = "revoke"
    /\ Served(c)
    /\ family' = [family EXCEPT ![ConsoleOf[c]].revoked = TRUE]
    /\ Goto(c, "done")
    /\ Pass
    /\ UNCHANGED <<jtis, row, seen, flight, running, waiting, now, faults>>

RevokeFails(c) ==
    /\ pc[c] = "revoke"
    /\ Served(c)
    /\ faults < MaxFaults
    /\ faults' = faults + 1
    /\ Goto(c, "done")
    /\ Pass
    /\ UNCHANGED <<jtis, gateway, now>>

ConsoleStep(c) ==
    \/ ResolveAnswers(c)
    \/ ResolveStale(c)
    \/ ResolveLogout(c)
    \/ Join(c)
    \/ TakeOff(c)
    \/ LockAnswers(c)
    \/ LockStale(c)
    \/ Present(c)
    \/ RotateConsole(c)
    \/ Store(c)
    \/ EndRow(c)
    \/ TakeBegins(c)
    \/ Take(c)
    \/ TakeNothing(c)
    \/ Revoke(c)

-----------------------------------------------------------------------------
(* Time and failure *)

Tick ==
    /\ now < MaxNow
    /\ \A d \in Direct : pc[d] = "verified" => now < verifiedAt[d] + MaxLookupTicks
    /\ now' = now + 1
    /\ UNCHANGED <<pc, pools, jtis, gateway, faults>>

\* A session's access token comes within its refresh window.
GoStale(s) ==
    /\ row[s].live
    /\ row[s].fresh
    /\ row[s].gen <= MaxRotations
    /\ row' = [row EXCEPT ![s].fresh = FALSE]
    /\ UNCHANGED <<pc, pools, jtis, seen, flight, running, waiting, family, now, faults>>

\* The grant behind a session is ended by someone else: a logout at the server,
\* an administrator, a recovery.
RevokeElsewhere(s) ==
    /\ row[s].live
    /\ ~family[s].revoked
    /\ faults < MaxFaults
    /\ faults' = faults + 1
    /\ family' = [family EXCEPT ![s].revoked = TRUE]
    /\ UNCHANGED <<pc, pools, jtis, row, seen, flight, running, waiting, now>>

\* The process dies: its transactions are rolled back, its locks, its queues,
\* its flights and its semaphore go with it, and so does an answer that a
\* rotation has been committed for.
Crash ==
    /\ faults < MaxFaults
    /\ faults' = faults + 1
    /\ pc' = [p \in Processes |-> IF pc[p] = "idle" THEN "idle" ELSE "done"]
    /\ free' = Pool
    /\ queue' = <<>>
    /\ unspent' = [a \in Assertions |->
           unspent[a] + Cardinality({d \in Direct : bearing[d] = a /\ pc[d] \in Working})]
    /\ family' = [s \in Consoles |->
           [family[s] EXCEPT !.lost =
               @ \/ \E c \in Calls : ConsoleOf[c] = s /\ pc[c] = "mint"]]
    /\ flight' = [s \in Consoles |-> None]
    /\ running' = 0
    /\ waiting' = <<>>
    /\ seen' = [c \in Calls |-> 0]
    /\ verifiedAt' = [d \in Direct |-> 0]
    /\ UNCHANGED <<bearing, spent, uses, served, row, now>>

Init ==
    /\ pc = [p \in Processes |-> "idle"]
    /\ free = Pool
    /\ queue = <<>>
    /\ bearing = [d \in Direct |-> None]
    /\ verifiedAt = [d \in Direct |-> 0]
    /\ spent = {}
    /\ uses = [a \in Assertions |-> 0]
    /\ served = [a \in Assertions |-> 0]
    /\ unspent = [a \in Assertions |-> 0]
    /\ row = [s \in Consoles |-> [live |-> TRUE, gen |-> 1, fresh |-> FALSE]]
    /\ seen = [c \in Calls |-> 0]
    /\ flight = [s \in Consoles |-> None]
    /\ running = 0
    /\ waiting = <<>>
    /\ family = [s \in Consoles |->
           [current |-> 1, revoked |-> FALSE, reused |-> FALSE, lost |-> FALSE]]
    /\ now = 0
    /\ faults = 0

Fault(c) ==
    \/ PresentFails(c)
    \/ MintFails(c)
    \/ MintRefused(c)
    \/ LockTimesOut(c)
    \/ RevokeFails(c)

Next ==
    \/ \E d \in Direct : Arrive(d) \/ DirectStep(d) \/ LoseSpend(d)
    \/ \E c \in Calls : Call(c) \/ ConsoleStep(c) \/ Fault(c)
    \/ \E s \in Consoles : GoStale(s) \/ RevokeElsewhere(s)
    \/ Reap
    \/ Tick
    \/ Crash

Spec == Init /\ [][Next]_vars

\* The process runs the requests it has: while a query has been answered, or an
\* idle connection waits for the head of the queue, some request goes on.  Which
\* one is left open; a request takes finitely many steps, so that is enough.
Step == (\E d \in Direct : DirectStep(d)) \/ (\E c \in Calls : ConsoleStep(c))
Fairness == WF_vars(Step)

FairSpec == Spec /\ Fairness

-----------------------------------------------------------------------------
(* Properties *)

Stages ==
    {"idle", "done", "claim", "verified"} \union Working \union Locking
    \union {"resolve", "refresh", "joined", "slot", "lock", "take", "taking", "revoke"}

\* Every variable has its type: in particular the pool never hands out a
\* connection it does not have nor takes back one too many, and a slot of the
\* semaphore that was handed on is not released as well.
TypeOK ==
    /\ pc \in [Processes -> Stages]
    /\ free \in 0..Pool
    /\ queue \in Seq(Processes)
    /\ bearing \in [Direct -> Assertions \union {None}]
    /\ verifiedAt \in [Direct -> Nat]
    /\ spent \subseteq Assertions
    /\ uses \in [Assertions -> Nat]
    /\ served \in [Assertions -> Nat]
    /\ unspent \in [Assertions -> Nat]
    /\ row \in [Consoles -> [live : BOOLEAN, gen : Nat, fresh : BOOLEAN]]
    /\ seen \in [Calls -> Nat]
    /\ flight \in [Consoles -> Calls \union {None}]
    /\ running \in Nat
    /\ waiting \in Seq(Calls)
    /\ family \in [Consoles ->
           [current : Nat, revoked : BOOLEAN, reused : BOOLEAN, lost : BOOLEAN]]
    /\ now \in Nat
    /\ faults \in Nat

\* The requests that hold a connection, and those of the console that hold two.
Holders ==
    {p \in Processes : pc[p] \in Working \union (Locking \union {"verified", "taking"})}
Doubles == {c \in Calls : pc[c] \in Locking \ {"present"}}

\* No connection leaks: whichever way a request ends - served, refused, failed,
\* timed out or crashed - every connection is idle or in the hands of a request
\* that still needs it (withTenant, the pool of createDatabase).
NoConnectionLeaks == free + Cardinality(Holders) + Cardinality(Doubles) = Pool

\* The flights that have a slot.
Flying == {c \in Calls : pc[c] \in {"lock"} \union Locking}

\* The semaphore bounds the flights that ask for connections, although a slot is
\* handed on to the next in line and not released, and whatever a flight ends in
\* (semaphore, refreshConcurrency).
FlightsWithinSlots == Cardinality(Flying) <= RefreshConcurrency

\* An assertion serves one request, however its uses overlap, fail or are
\* retried.  It holds while the lookup of a jti follows its verification by at
\* most one tick (MaxLookupTicks <= 1): retention deletes the row the tick after
\* the assertion expires, and a request that verified it in time and looks it up
\* after that is served again (authenticatePrivateKeyJwt, reap).
AssertionServesOnce == \A a \in Assertions : served[a] <= 1

\* An assertion is spent whatever becomes of the request it authenticated: a
\* second authentication means that the store, the connection or the process
\* failed before the first one's commit.  It holds under the same assumption on
\* the lookup (settle, keepingSpend).
SpentWhateverBecomes == \A a \in Assertions : uses[a] <= 1 + unspent[a]

\* The console's own refreshes never trip reuse detection: a family is revoked
\* for reuse only after the answer to a committed rotation was lost
\* (freshAccessToken, lockById).
ReuseOnlyAfterLostAnswer == \A s \in Consoles : family[s].reused => family[s].lost

\* Waiting for a connection, a slot, a flight or a row never becomes waiting for
\* one another: every request that arrives is answered, and none is lost.  The
\* semaphore keeps the console's flights to that (RefreshConcurrency); nothing
\* keeps the direct refreshes to it, and it holds while fewer of them are in
\* flight than the flights leave connections,
\* Cardinality(Refreshes) + 2 * RefreshConcurrency < Pool
\* (createDatabase's pool, semaphore, singleFlight, lock_timeout).
EveryRequestAnswered == <>[](\A p \in Processes : pc[p] \in {"idle", "done"})
=============================================================================
