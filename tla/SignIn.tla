-------------------------------- MODULE SignIn --------------------------------
(* The sign-in of one browser: authentication attempts parked by /authorize,   *)
(* the submissions that advance them through a password and, for an enrolled   *)
(* account, a time-based code, the account lockout both count against, and the *)
(* completion that turns a finished attempt into a session and a code.         *)
(*                                                                            *)
(* A submission is a chain of transactions, none of which locks the attempt it *)
(* read: what a later one writes is decided from what an earlier one saw.      *)
(* Several tabs of the browser submit at once.                                 *)
EXTENDS Integers, Sequences, FiniteSets

CONSTANTS
    Tab,             \* submissions in flight at once
    Attempt,         \* authentication sessions
    Person,          \* accounts
    Enrolled,        \* those of them that hold a TOTP secret
    Administered,    \* those of them an administrator acts on
    Expected,        \* the person an attempt's id_token_hint names, or None
    Rivals,          \* whether two people's submissions overlap on one attempt
    None,
    MaxFailures,     \* the tenant's lockout policy, in ticks
    LockoutTicks,
    MaxLockoutTicks,
    ResetTicks,
    CasAttempts,     \* how often recordFailure tries
    Cap,             \* max_sessions_per_browser
    MaxSubmissions,  \* bound: submissions
    MaxNow           \* bound: ticks

ASSUME PeopleAssumption ==
    /\ Enrolled \subseteq Person
    /\ Administered \subseteq Person
    /\ None \notin Person
    /\ Expected \in [Attempt -> Person \union {None}]
    /\ Rivals \in BOOLEAN
ASSUME PolicyAssumption ==
    /\ MaxFailures \in Nat \ {0}
    /\ LockoutTicks \in Nat \ {0}
    /\ MaxLockoutTicks \in Nat
    /\ LockoutTicks =< MaxLockoutTicks
    /\ ResetTicks \in Nat \ {0}
    /\ CasAttempts \in Nat \ {0}
    /\ Cap \in Nat \ {0}
ASSUME BoundsAssumption == MaxSubmissions \in Nat /\ MaxNow \in Nat

VARIABLES
    auth,      \* authentication_sessions: each attempt's row
    failures,  \* login_failures: each account's row
    lastStep,  \* the last time step each TOTP secret validated
    disabled,  \* accounts disabled since
    session,   \* the browser's sessions, in the order they were created
    ended,     \* those of them that were evicted
    jar,       \* the sessions the browser's cookies prove
    sub,       \* the submission each tab has in flight
    sent,      \* submissions so far
    now,
    proven,    \* ghost: who passed which factor in each attempt
    counted,   \* ghost: failures recorded in each account's current run
    raced      \* ghost: accounts whose run a failure found broken overwrote

attempts == <<auth, proven>>
lockout == <<failures, counted, raced>>
browser == <<session, ended, jar>>
vars == <<auth, failures, lastStep, disabled, session, ended, jar, sub, sent,
          now, proven, counted, raced>>

-----------------------------------------------------------------------------
(* The flow: a password, then a code from whoever has enrolled.                *)

Factor == {"password", "otp"}

\* The steps a subject is asked for; nobody in particular has enrolled nothing.
Owed(p) == IF p \in Enrolled THEN Factor ELSE {"password"}

\* nextStep: the first step not yet satisfied.
NextStep(p, satisfied) ==
    IF "password" \notin satisfied THEN "password"
    ELSE IF "otp" \in Owed(p) \ satisfied THEN "otp"
    ELSE "complete"

Fresh == [subject |-> None, satisfied |-> {}, done |-> FALSE, consumed |-> FALSE]

\* A time step is one tick; a code verifies one step either side of the clock.
InWindow(step, at) == step \in 1 .. at + 1 /\ step >= at - 1

-----------------------------------------------------------------------------
(* The lockout.                                                                *)

NeverFailed == [count |-> 0, last |-> 0, until |-> 0]

\* forSubject reads a missing row as NeverFailed.
RunIsBroken(row, at) == row.count = 0 \/ at - row.last >= ResetTicks

NextCount(row, at) == IF RunIsBroken(row, at) THEN 1 ELSE row.count + 1

LockoutFor(count) ==
    LET doubled == LockoutTicks * 2 ^ (count - MaxFailures)
    IN  IF doubled < MaxLockoutTicks THEN doubled ELSE MaxLockoutTicks

NextLockout(row, at) ==
    LET count == NextCount(row, at)
    IN  [count |-> count,
         last |-> at,
         until |-> IF count < MaxFailures THEN 0 ELSE at + LockoutFor(count)]

\* The boundary is exclusive.
IsLockedOut(row, at) == row.until > at

-----------------------------------------------------------------------------
(* Submissions.                                                                *)

Idle == [pc |-> "idle"]

Nothing == [kind |-> "nothing", who |-> None]
Passwords == [kind : {"password"}, who : Person, right : BOOLEAN]

\* A code belongs to the secret of whoever computed it; 0 is a wrong guess.
Codes == [kind : {"code"}, who : Person, step : 0 .. MaxNow]

Inputs == {Nothing} \union Passwords \union Codes

InFlight(a) == {t \in Tab : sub[t].pc # "idle" /\ sub[t].attempt = a}

\* Whether a submission of this input may be in flight beside those there are.
\* The code forbids nothing of the kind: with Rivals false the overlap of two
\* people's submissions on one attempt is set aside, and one may still follow the
\* other.
MayOverlap(a, input) ==
    Rivals \/ input.who = None \/ \A t \in InFlight(a) : sub[t].who \in {None, input.who}

Live == DOMAIN session \ ended

\* advance begins: loadFlowContext reads the attempt, and nothing locks it.
Submit(t, a, input) ==
    /\ sub[t].pc = "idle"
    /\ sent < MaxSubmissions
    /\ MayOverlap(a, input)
    /\ input.kind = "code" => input.step =< now
    /\ sub' = [sub EXCEPT ![t] =
                 [pc |-> "loaded", attempt |-> a, who |-> input.who, input |-> input,
                  subject |-> auth[a].subject, satisfied |-> auth[a].satisfied,
                  at |-> now, header |-> jar]]
    /\ sent' = sent + 1
    /\ UNCHANGED <<attempts, lockout, lastStep, disabled, browser, now>>

\* The step the submission runs: the next one owed, or the first one again when
\* the attempt is complete and the submission carries a credential.  An attempt
\* bound to nobody has satisfied nothing, so it is never complete.
Finished(s) == s.subject # None /\ NextStep(s.subject, s.satisfied) = "complete"

StepOf(s) == IF NextStep(s.subject, s.satisfied) = "complete" THEN "password" ELSE NextStep(s.subject, s.satisfied)

\* What the step needs, for its answer to be more than the form again.
Answers(s) ==
    IF StepOf(s) = "password" THEN s.input.kind = "password" ELSE s.input.kind = "code"

\* A finished attempt with nothing submitted: a required action resumes it.
Resume(t) ==
    LET s == sub[t]
    IN  /\ s.pc = "loaded"
        /\ Finished(s)
        /\ s.input = Nothing
        /\ auth' = [auth EXCEPT ![s.attempt].done = TRUE]
        /\ sub' = [sub EXCEPT ![t] =
                     [pc |-> "passed", attempt |-> s.attempt, who |-> s.who,
                      subject |-> s.subject, amr |-> s.satisfied, header |-> s.header]]
        /\ UNCHANGED <<proven, lockout, lastStep, disabled, browser, sent, now>>

\* The step's form is offered, and the attempt is not finished.
Challenge(t) ==
    LET s == sub[t]
    IN  /\ s.pc = "loaded"
        /\ ~ Answers(s)
        /\ ~ (Finished(s) /\ s.input = Nothing)
        /\ auth' = [auth EXCEPT ![s.attempt].done = FALSE]
        /\ sub' = [sub EXCEPT ![t] = Idle]
        /\ UNCHANGED <<proven, lockout, lastStep, disabled, browser, sent, now>>

\* The account a submission is judged and counted against: the one its password
\* names, or the one the attempt is bound to.
Account(s) == IF StepOf(s) = "password" THEN s.input.who ELSE s.subject

Correct(s) ==
    IF StepOf(s) = "password" THEN s.input.right
    ELSE /\ s.input.who = s.subject
         /\ InWindow(s.input.step, s.at)
         /\ s.input.step > lastStep[s.subject]

Judged(s) == s.pc = "loaded" /\ Answers(s)

\* A right answer from an account the row read does not lock.
JudgeRight(t) ==
    LET s == sub[t]
    IN  /\ Judged(s)
        /\ Correct(s)
        /\ ~ IsLockedOut(failures[Account(s)], s.at)
        /\ sub' = [sub EXCEPT ![t].pc = "right"]
        /\ UNCHANGED <<attempts, lockout, lastStep, disabled, browser, sent, now>>

Failing(s) ==
    [pc |-> "failing", attempt |-> s.attempt, who |-> s.who, account |-> Account(s),
     at |-> s.at, tries |-> 0]

\* A wrong answer, or any answer from a locked account: it will be counted.
JudgeWrong(t) ==
    LET s == sub[t]
    IN  /\ Judged(s)
        /\ ~ Correct(s) \/ IsLockedOut(failures[Account(s)], s.at)
        /\ sub' = [sub EXCEPT ![t] = Failing(s)]
        /\ UNCHANGED <<attempts, lockout, lastStep, disabled, browser, sent, now>>

-----------------------------------------------------------------------------
(* recordFailure: read the row, then write it if the count is still the one    *)
(* read; an insert has no count to compare.                                    *)

ReadFailures(t) ==
    LET s == sub[t]
    IN  /\ s.pc = "failing"
        /\ sub' = [sub EXCEPT ![t] =
                     [pc |-> "counting", attempt |-> s.attempt, who |-> s.who,
                      account |-> s.account, at |-> s.at, tries |-> s.tries,
                      observed |-> failures[s.account]]]
        /\ UNCHANGED <<attempts, lockout, lastStep, disabled, browser, sent, now>>

MatchesAnyCount(row, observed) == TRUE

Matches(row, observed) == row.count = 0 \/ row.count = observed.count

\* A failure begins a run when the row it overwrites is missing or quiet for
\* ResetTicks; it overwrites the run of another when it read a row that was
\* broken, and the row is another by now with the same count.
BeginsRun(row, at) == RunIsBroken(row, at)
OverwritesRun(row, observed, at) ==
    observed.count > 0 /\ RunIsBroken(observed, at) /\ ~ RunIsBroken(row, at)

Record(t) ==
    LET s == sub[t]
        row == failures[s.account]
    IN  /\ s.pc = "counting"
        /\ Matches(row, s.observed)
        /\ failures' = [failures EXCEPT ![s.account] = NextLockout(s.observed, s.at)]
        /\ counted' = [counted EXCEPT ![s.account] = IF BeginsRun(row, s.at) THEN 1 ELSE @ + 1]
        /\ raced' = IF BeginsRun(row, s.at) THEN raced \ {s.account}
                    ELSE IF OverwritesRun(row, s.observed, s.at) THEN raced \union {s.account}
                    ELSE raced
        /\ sub' = [sub EXCEPT ![t] = Idle]
        /\ UNCHANGED <<attempts, lastStep, disabled, browser, sent, now>>

\* Another failure was counted in between: read again, or give up uncounted.
Contend(t) ==
    LET s == sub[t]
    IN  /\ s.pc = "counting"
        /\ ~ Matches(failures[s.account], s.observed)
        /\ sub' = [sub EXCEPT ![t] =
                     IF s.tries + 1 = CasAttempts THEN Idle
                     ELSE [pc |-> "failing", attempt |-> s.attempt, who |-> s.who,
                           account |-> s.account, at |-> s.at, tries |-> s.tries + 1]]
        /\ UNCHANGED <<attempts, lockout, lastStep, disabled, browser, sent, now>>

-----------------------------------------------------------------------------
(* The rest of advance: the subject guard, the code's single use, and the      *)
(* writes to the attempt, decided from the snapshot.                           *)

MismatchIgnored(s) == FALSE

\* One attempt answers for one person.
Mismatched(s) == s.subject # None /\ s.subject # Account(s)

RefuseMismatch(t) ==
    LET s == sub[t]
    IN  /\ s.pc = "right"
        /\ Mismatched(s)
        /\ sub' = [sub EXCEPT ![t] = Idle]
        /\ UNCHANGED <<attempts, lockout, lastStep, disabled, browser, sent, now>>

UnusedAsVerified(s) == TRUE

\* recordTotpUse: the step is above the last one used, still.
Unused(s) == StepOf(s) = "otp" => lastStep[s.subject] < s.input.step

\* A concurrent submission spent the code: this is its second use, and counts.
RefuseReplayed(t) ==
    LET s == sub[t]
    IN  /\ s.pc = "right"
        /\ ~ Unused(s)
        /\ sub' = [sub EXCEPT ![t] = Failing(s)]
        /\ UNCHANGED <<attempts, lockout, lastStep, disabled, browser, sent, now>>

SpendCode(s) ==
    lastStep' = IF StepOf(s) = "otp"
                THEN [lastStep EXCEPT ![s.subject] = s.input.step]
                ELSE lastStep

\* The factor passed: bindSubject, recordSatisfied, and either the next form or
\* a finished attempt, which ends the account's run of failures.
Pass(t) ==
    LET s == sub[t]
        p == Account(s)
        satisfied == s.satisfied \union {StepOf(s)}
        done == NextStep(p, satisfied) = "complete"
    IN  /\ s.pc = "right"
        /\ ~ Mismatched(s)
        /\ Unused(s)
        /\ SpendCode(s)
        /\ auth' = [auth EXCEPT ![s.attempt].subject = p,
                                ![s.attempt].satisfied = @ \union {StepOf(s)},
                                ![s.attempt].done = done]
        /\ proven' = [proven EXCEPT ![s.attempt] = @ \union {<<p, StepOf(s)>>}]
        /\ IF done
           THEN /\ failures' = [failures EXCEPT ![p] = NeverFailed]
                /\ counted' = [counted EXCEPT ![p] = 0]
                /\ raced' = raced \ {p}
           ELSE UNCHANGED lockout
        /\ sub' = [sub EXCEPT ![t] =
                     IF done
                     THEN [pc |-> "passed", attempt |-> s.attempt, who |-> s.who,
                           subject |-> p, amr |-> satisfied, header |-> s.header]
                     ELSE Idle]
        /\ UNCHANGED <<disabled, browser, sent, now>>

-----------------------------------------------------------------------------
(* handleLoginSubmission after a finished attempt, and the consent POST.       *)

\* A disabled account, or somebody other than the person the hint names: the
\* attempt goes back to how it started.
Unwelcome(s) ==
    \/ s.subject \in disabled
    \/ Expected[s.attempt] \notin {None, s.subject}

ResetSubjectOnly(a) ==
    auth' = [auth EXCEPT ![a].subject = None, ![a].done = FALSE]

ResetProgress(a) ==
    auth' = [auth EXCEPT ![a] = [Fresh EXCEPT !.consumed = auth[a].consumed]]

TurnAway(t) ==
    LET s == sub[t]
    IN  /\ s.pc = "passed"
        /\ Unwelcome(s)
        /\ ResetProgress(s.attempt)
        /\ sub' = [sub EXCEPT ![t] = Idle]
        /\ UNCHANGED <<proven, lockout, lastStep, disabled, browser, sent, now>>

\* An address to verify, a required action or a consent is owed: the attempt
\* stays as it is and another request completes it.  The address is asked for
\* before the hint is, so the attempt may stay bound to whom it does not name.
Park(t) ==
    /\ sub[t].pc = "passed"
    /\ sub[t].subject \notin disabled
    /\ sub' = [sub EXCEPT ![t] = Idle]
    /\ UNCHANGED <<attempts, lockout, lastStep, disabled, browser, sent, now>>

Proceed(t) ==
    /\ sub[t].pc = "passed"
    /\ ~ Unwelcome(sub[t])
    /\ sub' = [sub EXCEPT ![t].pc = "completing"]
    /\ UNCHANGED <<attempts, lockout, lastStep, disabled, browser, sent, now>>

\* authenticatedSession: the attempt is finished for the subject it is bound to,
\* under the flow as it stands.
Consent(t, a) ==
    /\ sub[t].pc = "idle"
    /\ sent < MaxSubmissions
    /\ auth[a].done
    /\ ~ auth[a].consumed
    /\ auth[a].subject # None
    /\ NextStep(auth[a].subject, auth[a].satisfied) = "complete"
    /\ sub' = [sub EXCEPT ![t] =
                 [pc |-> "consenting", attempt |-> a, who |-> None,
                  subject |-> auth[a].subject, amr |-> auth[a].satisfied, header |-> jar]]
    /\ sent' = sent + 1
    /\ UNCHANGED <<attempts, lockout, lastStep, disabled, browser, now>>

Completing(t) == sub[t].pc \in {"completing", "consenting"}

ConsumedNotAsked(a) == FALSE

\* consume's condition.
Consumed(a) == auth[a].consumed

\* completeLogin refuses: the account was disabled meanwhile, or the attempt was
\* consumed.  The login form puts the first back to its start, the consent POST
\* does not.
RefuseDisabled(t) ==
    LET s == sub[t]
    IN  /\ Completing(t)
        /\ s.subject \in disabled
        /\ IF s.pc = "completing" THEN ResetProgress(s.attempt) ELSE UNCHANGED auth
        /\ sub' = [sub EXCEPT ![t] = Idle]
        /\ UNCHANGED <<proven, lockout, lastStep, disabled, browser, sent, now>>

RefuseConsumed(t) ==
    /\ Completing(t)
    /\ sub[t].subject \notin disabled
    /\ Consumed(sub[t].attempt)
    /\ sub' = [sub EXCEPT ![t] = Idle]
    /\ UNCHANGED <<attempts, lockout, lastStep, disabled, browser, sent, now>>

EvictionsForThoseThere(live) ==
    LET surplus == Cardinality(live) - Cap
    IN  {i \in live : Cardinality({j \in live : j < i}) < surplus}

\* chooseEvictions: the least recently active of the sessions presented, as many
\* as one more would put over the cap.
Evictions(live) ==
    LET surplus == Cardinality(live) + 1 - Cap
    IN  {i \in live : Cardinality({j \in live : j < i}) < surplus}

\* consume, admitSession and the code, in one transaction.
Complete(t) ==
    LET s == sub[t]
    IN  /\ Completing(t)
        /\ s.subject \notin disabled
        /\ ~ Consumed(s.attempt)
        /\ auth' = [auth EXCEPT ![s.attempt].consumed = TRUE]
        /\ ended' = ended \union Evictions(s.header \intersect Live)
        /\ session' = Append(session, [attempt |-> s.attempt, subject |-> s.subject,
                                       amr |-> s.amr])
        /\ sub' = [sub EXCEPT ![t] =
                     [pc |-> "answering", attempt |-> s.attempt, who |-> s.who,
                      own |-> Len(session) + 1, header |-> s.header]]
        /\ UNCHANGED <<proven, lockout, lastStep, disabled, jar, sent, now>>

\* The browser takes the cookies of the answer: what it presented and is still
\* live, and the new session.
TakeCookies(t) ==
    /\ sub[t].pc = "answering"
    /\ jar' = (sub[t].header \intersect Live) \union {sub[t].own}
    /\ sub' = [sub EXCEPT ![t] = Idle]
    /\ UNCHANGED <<attempts, lockout, lastStep, disabled, session, ended, sent, now>>

-----------------------------------------------------------------------------

(* An administrator disables an account, or clears its lockout.                *)

Disable(p) ==
    /\ p \in Administered \ disabled
    /\ disabled' = disabled \union {p}
    /\ UNCHANGED <<attempts, lockout, lastStep, browser, sub, sent, now>>

ClearLockout(p) ==
    /\ p \in Administered
    /\ failures' = [failures EXCEPT ![p] = NeverFailed]
    /\ counted' = [counted EXCEPT ![p] = 0]
    /\ raced' = raced \ {p}
    /\ UNCHANGED <<attempts, lastStep, disabled, browser, sub, sent, now>>

Tick ==
    /\ now < MaxNow
    /\ now' = now + 1
    /\ UNCHANGED <<attempts, lockout, lastStep, disabled, browser, sub, sent>>

Init ==
    /\ auth = [a \in Attempt |-> Fresh]
    /\ failures = [p \in Person |-> NeverFailed]
    /\ lastStep = [p \in Person |-> 0]
    /\ disabled = {}
    /\ session = <<>>
    /\ ended = {}
    /\ jar = {}
    /\ sub = [t \in Tab |-> Idle]
    /\ sent = 0
    /\ now = 1
    /\ proven = [a \in Attempt |-> {}]
    /\ counted = [p \in Person |-> 0]
    /\ raced = {}

Advance(t) ==
    \/ Resume(t)
    \/ Challenge(t)
    \/ JudgeRight(t)
    \/ JudgeWrong(t)
    \/ ReadFailures(t)
    \/ Record(t)
    \/ Contend(t)
    \/ RefuseMismatch(t)
    \/ RefuseReplayed(t)
    \/ Pass(t)

Finish(t) ==
    \/ TurnAway(t)
    \/ Park(t)
    \/ Proceed(t)
    \/ RefuseDisabled(t)
    \/ RefuseConsumed(t)
    \/ Complete(t)
    \/ TakeCookies(t)

Next ==
    \/ \E t \in Tab, a \in Attempt : Consent(t, a) \/ \E input \in Inputs : Submit(t, a, input)
    \/ \E t \in Tab : Advance(t) \/ Finish(t)
    \/ \E p \in Person : Disable(p) \/ ClearLockout(p)
    \/ Tick

Spec == Init /\ [][Next]_vars

-----------------------------------------------------------------------------
(* Properties.                                                                 *)

AuthRow == [subject : Person \union {None}, satisfied : SUBSET Factor,
            done : BOOLEAN, consumed : BOOLEAN]
FailureRow == [count : Nat, last : Nat, until : Nat]
Session == [attempt : Attempt, subject : Person, amr : SUBSET Factor]

\* A tab before its step is judged or committed, and after every step passed.
LoadedSub ==
    [pc : {"loaded", "right"}, attempt : Attempt, who : Person \union {None},
     input : Inputs, subject : Person \union {None}, satisfied : SUBSET Factor,
     at : Nat, header : SUBSET Nat]
PassedSub ==
    [pc : {"passed", "completing", "consenting"}, attempt : Attempt,
     who : Person \union {None}, subject : Person, amr : SUBSET Factor,
     header : SUBSET Nat]

\* A tab whose failure is being counted, and one whose answer is on its way.
FailingSub ==
    [pc : {"failing"}, attempt : Attempt, who : Person \union {None},
     account : Person, at : Nat, tries : 0 .. CasAttempts - 1]
CountingSub ==
    [pc : {"counting"}, attempt : Attempt, who : Person \union {None},
     account : Person, at : Nat, tries : 0 .. CasAttempts - 1, observed : FailureRow]
AnsweringSub ==
    [pc : {"answering"}, attempt : Attempt, who : Person \union {None},
     own : Nat, header : SUBSET Nat]

\* Every variable has its type, and an attempt that satisfied a factor is bound
\* to a subject: "a satisfied factor with no subject is the state the subject
\* binding exists to rule out" (resetProgress).
TypeOK ==
    /\ auth \in [Attempt -> AuthRow]
    /\ failures \in [Person -> FailureRow]
    /\ lastStep \in [Person -> Nat]
    /\ disabled \subseteq Person
    /\ session \in Seq(Session)
    /\ ended \subseteq DOMAIN session
    /\ jar \subseteq DOMAIN session
    /\ sub \in [Tab -> {Idle} \union LoadedSub \union PassedSub \union FailingSub
                         \union CountingSub \union AnsweringSub]
    /\ sent \in 0 .. MaxSubmissions
    /\ now \in Nat
    /\ proven \in [Attempt -> SUBSET (Person \X Factor)]
    /\ counted \in [Person -> Nat]
    /\ raced \subseteq Person
    /\ \A a \in Attempt : auth[a].satisfied # {} => auth[a].subject # None

\* A submitted, resubmitted or resumed attempt becomes one session at most: the
\* conditional update of consume is the one thing between one login and two.
OneSessionPerAttempt ==
    \A i, j \in DOMAIN session : session[i].attempt = session[j].attempt => i = j

\* A session states factors its own subject passed in the attempt it came from,
\* and all of those the flow asks of them: whatever other submissions and resets
\* there were on the attempt, and whoever used it before.  It holds while no two
\* people's submissions are in flight on the attempt at once (Rivals false); of
\* those that are, OnePersonPerAttempt tells.
SessionEarned ==
    \A i \in DOMAIN session :
        /\ \A f \in session[i].amr : <<session[i].subject, f>> \in proven[session[i].attempt]
        /\ Owed(session[i].subject) \subseteq session[i].amr

\* Failures recorded at once are each counted, for a compare-and-swap on the count
\* lets one write through: a run's count is below the number of failures recorded
\* in it only if a failure that had read a broken run overwrote this one
\* (recordFailure).
CountedUnlessRaced ==
    \A p \in Person : counted[p] > failures[p].count => p \in raced

\* What recordFailure's comment says, that of two attempts that read the same count
\* "the second re-checks what the first committed and writes nothing rather than
\* replacing it with the same number": a run's count is never below the number of
\* failures recorded in it.  It does not hold where both read a broken run of one.
FailuresCounted == \A p \in Person : counted[p] =< failures[p].count

\* The sessions the browser's cookies prove never exceed the cap, although
\* concurrent logins each evict from the list their own request presented.
JarWithinCap == Cardinality(jar \intersect Live) =< Cap

Promise ==
    INSTANCE Logins WITH passed <- proven, spent <- lastStep

\* Submissions that overlap, are repeated, are put back to the start or resumed
\* keep the promise of Logins: no code is accepted twice although two tabs may
\* verify it at once, and an attempt is granted one session, earned in it.
ImplementsLogins == Promise!Spec

\* One attempt answers for one person: every factor an attempt has recorded was
\* passed by the subject it is bound to.
OnePersonPerAttempt ==
    \A a \in Attempt : \A f \in auth[a].satisfied : <<auth[a].subject, f>> \in proven[a]
=============================================================================
