----------------------------- MODULE SignInProofs -----------------------------
(* Proofs about signing in, for any number of tabs, attempts and people, any   *)
(* lockout policy and any cap.                                                 *)
EXTENDS SignIn, FiniteSetTheorems, WellFoundedInduction, TLAPS

-----------------------------------------------------------------------------
(* Shapes *)

Rows ==
    /\ auth \in [Attempt -> AuthRow]
    /\ failures = [p \in Person |-> failures[p]]
    /\ \A p \in Person : failures[p].count \in Nat
    /\ lastStep \in [Person -> Nat]
    /\ session \in Seq(Session)
    /\ jar \in SUBSET Nat
    /\ now \in Nat
    /\ proven \in [Attempt -> SUBSET (Person \X Factor)]
    /\ counted \in [Person -> Nat]
    /\ raced \subseteq Person

\* What one submission in flight carries, by where it is.
SubShape(s) ==
    /\ s.pc \in {"idle", "loaded", "right", "failing", "counting", "passed",
                 "completing", "consenting", "answering"}
    /\ s.pc \in {"loaded", "right"} => s \in LoadedSub /\ s.who = s.input.who
    /\ s.pc = "right" => Answers(s) /\ s.who \in Person /\ Account(s) = s.who
    /\ s.pc \in {"failing", "counting"} => s.attempt \in Attempt /\ s.account \in Person
    /\ s.pc = "counting" => s.observed.count \in Nat
    /\ s.pc \in {"passed", "completing", "consenting"} => s \in PassedSub
    /\ s.pc = "answering" => s.attempt \in Attempt /\ s.own \in Nat /\ s.header \in SUBSET Nat

Subs ==
    /\ sub = [t \in Tab |-> sub[t]]
    /\ \A t \in Tab : SubShape(sub[t])

Shapes == Rows /\ Subs

LEMMA StepOfFactor ==
    ASSUME NEW s
    PROVE  StepOf(s) \in Factor
BY DEF StepOf, NextStep, Factor

\* A judged submission names a person, who is the account it is counted against
\* when its answer is right.
LEMMA JudgedAccount ==
    ASSUME NEW s \in LoadedSub, s.who = s.input.who, Answers(s)
    PROVE  /\ Account(s) \in Person
           /\ s.input.who \in Person
           /\ Correct(s) => Account(s) = s.input.who
           /\ StepOf(s) = "otp" => s.input \in Codes /\ s.subject = Account(s)
<1>1. StepOf(s) \in {"password", "otp"}
  BY StepOfFactor DEF Factor
<1>2. CASE StepOf(s) = "password"
  <2>1. s.input.kind = "password"
    BY <1>2 DEF Answers
  <2>2. s.input \in Passwords
    BY <2>1 DEF LoadedSub, Inputs, Nothing, Codes, Passwords
  <2> QED
    BY <1>2, <2>2 DEF Account, Passwords
<1>3. CASE StepOf(s) = "otp"
  <2>1. s.input.kind = "code"
    BY <1>3 DEF Answers
  <2>2. s.input \in Codes
    BY <2>1 DEF LoadedSub, Inputs, Nothing, Codes, Passwords
  <2>3. NextStep(s.subject, s.satisfied) = "otp"
    BY <1>3 DEF StepOf
  <2>4. s.subject \in Enrolled
    BY <2>3 DEF NextStep, Owed
  <2>5. s.subject \in Person
    BY <2>4, PeopleAssumption
  <2> QED
    BY <1>3, <2>2, <2>5 DEF Account, Codes, Correct
<1> QED
  BY <1>1, <1>2, <1>3

\* A submission another one leaves alone keeps its shape.
LEMMA OneTabMoves ==
    ASSUME Subs, NEW t \in Tab, NEW s, SubShape(s), sub' = [sub EXCEPT ![t] = s]
    PROVE  Subs'
<1>1. sub' = [u \in Tab |-> IF u = t THEN s ELSE sub[u]]
  BY DEF Subs
<1>2. \A u \in Tab : SubShape(sub'[u])
  BY <1>1 DEF Subs
<1>3. \A u \in Tab : SubShape(sub[u])'
  BY <1>2 DEF SubShape, Answers, StepOf, Finished, Account
<1> QED
  BY <1>1, <1>3 DEF Subs

LEMMA IdleShape == SubShape(Idle)
BY DEF SubShape, Idle
LEMMA SubsStutter ==
    ASSUME Subs, sub' = sub
    PROVE  Subs'
BY DEF Subs, SubShape, Answers, StepOf, Finished, Account

LEMMA FailingShape ==
    ASSUME NEW s \in LoadedSub, s.who = s.input.who, Answers(s)
    PROVE  SubShape(Failing(s))
<1>1. Account(s) \in Person
  BY JudgedAccount
<1>2. s.attempt \in Attempt
  BY DEF LoadedSub
<1> QED
  BY <1>1, <1>2 DEF SubShape, Failing

\* The fields of an attempt's row, one at a time.
LEMMA AuthFields ==
    ASSUME auth \in [Attempt -> AuthRow], NEW a \in Attempt, NEW b \in BOOLEAN
    PROVE  /\ [auth EXCEPT ![a].done = b] \in [Attempt -> AuthRow]
           /\ [auth EXCEPT ![a].consumed = b] \in [Attempt -> AuthRow]
           /\ [auth EXCEPT ![a] = [Fresh EXCEPT !.consumed = auth[a].consumed]]
                \in [Attempt -> AuthRow]
<1>1. auth[a] \in AuthRow
  OBVIOUS
<1>2. [auth[a] EXCEPT !.done = b] \in AuthRow
  BY <1>1 DEF AuthRow
<1>3. [auth[a] EXCEPT !.consumed = b] \in AuthRow
  BY <1>1 DEF AuthRow
<1>4. [Fresh EXCEPT !.consumed = auth[a].consumed] \in AuthRow
  <2>1. auth[a].consumed \in BOOLEAN
    BY <1>1 DEF AuthRow
  <2>2. Fresh \in AuthRow
    BY DEF AuthRow, Fresh
  <2> QED
    BY <2>1, <2>2 DEF AuthRow
<1>5. ASSUME NEW r \in AuthRow PROVE [auth EXCEPT ![a] = r] \in [Attempt -> AuthRow]
  OBVIOUS
<1> QED
  BY <1>2, <1>3, <1>4, <1>5

LEMMA PassedFields ==
    ASSUME auth \in [Attempt -> AuthRow], NEW a \in Attempt, NEW b \in BOOLEAN,
           NEW p \in Person, NEW f \in Factor
    PROVE  [auth EXCEPT ![a].subject = p, ![a].satisfied = @ \union {f}, ![a].done = b]
             \in [Attempt -> AuthRow]
<1> DEFINE r == [auth[a] EXCEPT !.subject = p, !.satisfied = @ \union {f}, !.done = b]
<1>1. auth[a] \in AuthRow
  OBVIOUS
<1>2. r \in AuthRow
  BY <1>1 DEF AuthRow
<1>3. [auth EXCEPT ![a] = r] \in [Attempt -> AuthRow]
  BY <1>2
<1>4. [auth EXCEPT ![a].subject = p, ![a].satisfied = @ \union {f}, ![a].done = b]
        = [auth EXCEPT ![a] = r]
  BY <1>1 DEF AuthRow
<1> QED
  BY <1>3, <1>4

LEMMA ShapesInit == Init => Shapes
<1> SUFFICES ASSUME Init PROVE Shapes
  OBVIOUS
<1>1. Rows
  BY DEF Init, Rows, AuthRow, Fresh, NeverFailed, Factor
<1>2. Subs
  BY IdleShape DEF Init, Subs
<1> QED
  BY <1>1, <1>2 DEF Shapes

LEMMA RowsStep == Shapes /\ [Next]_vars => Rows'
<1> SUFFICES ASSUME Shapes, [Next]_vars PROVE Rows'
  OBVIOUS
<1> USE DEF Shapes
<1>1. ASSUME NEW t \in Tab, NEW a \in Attempt, NEW input \in Inputs, Submit(t, a, input)
      PROVE  Rows'
  BY <1>1 DEF Submit, Rows, attempts, lockout, browser
<1>2. ASSUME NEW t \in Tab, NEW a \in Attempt, Consent(t, a) PROVE Rows'
  BY <1>2 DEF Consent, Rows, attempts, lockout, browser
<1>3. ASSUME NEW t \in Tab, Resume(t) \/ Challenge(t) PROVE Rows'
  <2>1. sub[t].pc = "loaded" /\ sub[t] \in LoadedSub
    BY <1>3 DEF Resume, Challenge, Subs, SubShape
  <2>2. sub[t].attempt \in Attempt
    BY <2>1 DEF LoadedSub
  <2>3. /\ \/ auth' = [auth EXCEPT ![sub[t].attempt].done = TRUE]
           \/ auth' = [auth EXCEPT ![sub[t].attempt].done = FALSE]
        /\ UNCHANGED <<proven, failures, counted, raced, lastStep, session, jar, now>>
    BY <1>3 DEF Resume, Challenge, lockout, browser
  <2>4. PICK b \in BOOLEAN : auth' = [auth EXCEPT ![sub[t].attempt].done = b]
    BY <2>3
  <2>5. auth' \in [Attempt -> AuthRow]
    BY <2>2, <2>4, AuthFields DEF Rows
  <2> QED
    BY <2>3, <2>5 DEF Rows
<1>4. ASSUME NEW t \in Tab,
             \/ JudgeRight(t) \/ JudgeWrong(t) \/ ReadFailures(t) \/ Contend(t)
             \/ RefuseMismatch(t) \/ RefuseReplayed(t) \/ Park(t) \/ Proceed(t)
             \/ RefuseConsumed(t)
      PROVE  Rows'
  <2>1. UNCHANGED <<auth, proven, failures, counted, raced, lastStep, session, jar, now>>
    BY <1>4 DEF JudgeRight, JudgeWrong, ReadFailures, Contend, RefuseMismatch,
                RefuseReplayed, Park, Proceed, RefuseConsumed, attempts, lockout, browser
  <2> QED
    BY <2>1 DEF Rows
<1>5. ASSUME NEW t \in Tab, Record(t) PROVE Rows'
  <2> DEFINE s == sub[t]
             row == NextLockout(s.observed, s.at)
  <2>1. s.account \in Person /\ s.observed.count \in Nat
    BY <1>5 DEF Record, Subs, SubShape
  <2>2. NextCount(s.observed, s.at) \in Nat
    BY <2>1 DEF NextCount
  <2>3. row.count = NextCount(s.observed, s.at)
    BY DEF NextLockout
  <2>4. failures' = [failures EXCEPT ![s.account] = row]
    BY <1>5 DEF Record
  <2>5. failures' = [p \in Person |-> IF p = s.account THEN row ELSE failures[p]]
    <3> HIDE DEF row, s
    <3> QED
      BY <2>1, <2>4 DEF Rows
  <2>6. /\ failures' = [p \in Person |-> failures'[p]]
        /\ \A p \in Person : failures'[p].count \in Nat
    <3> HIDE DEF row, s
    <3> QED
      BY <2>2, <2>3, <2>5 DEF Rows
  <2>7. counted' \in [Person -> Nat]
    BY <1>5, <2>1 DEF Record, Rows
  <2>8. raced' \subseteq Person
    BY <1>5, <2>1 DEF Record, Rows
  <2>9. UNCHANGED <<auth, proven, lastStep, session, jar, now>>
    BY <1>5 DEF Record, attempts, browser
  <2> QED
    BY <2>6, <2>7, <2>8, <2>9 DEF Rows
<1>6. ASSUME NEW t \in Tab, Pass(t) PROVE Rows'
  <2> DEFINE s == sub[t]
             p == Account(s)
  <2>1. s \in LoadedSub /\ s.who = s.input.who /\ Answers(s)
    BY <1>6 DEF Pass, Subs, SubShape
  <2>2. s.attempt \in Attempt /\ StepOf(s) \in Factor /\ p \in Person
    BY <2>1, JudgedAccount, StepOfFactor DEF LoadedSub
  <2>3. auth' \in [Attempt -> AuthRow]
    <3>1. PICK done \in BOOLEAN :
            auth' = [auth EXCEPT ![s.attempt].subject = p,
                                 ![s.attempt].satisfied = @ \union {StepOf(s)},
                                 ![s.attempt].done = done]
      BY <1>6 DEF Pass
    <3> HIDE DEF p, s
    <3> QED
      BY <2>2, <3>1, PassedFields DEF Rows
  <2>4. proven' \in [Attempt -> SUBSET (Person \X Factor)]
    <3>1. proven' = [proven EXCEPT ![s.attempt] = @ \union {<<p, StepOf(s)>>}]
      BY <1>6 DEF Pass
    <3> HIDE DEF p, s
    <3> QED
      BY <2>2, <3>1 DEF Rows
  <2>5. /\ failures' = [q \in Person |-> failures'[q]]
        /\ \A q \in Person : failures'[q].count \in Nat
        /\ counted' \in [Person -> Nat]
        /\ raced' \subseteq Person
    <3>1. \/ /\ failures' = [failures EXCEPT ![p] = NeverFailed]
             /\ counted' = [counted EXCEPT ![p] = 0]
             /\ raced' = raced \ {p}
          \/ UNCHANGED <<failures, counted, raced>>
      BY <1>6 DEF Pass, lockout
    <3>2. NeverFailed.count = 0
      BY DEF NeverFailed
    <3> HIDE DEF p, s
    <3>3. CASE UNCHANGED <<failures, counted, raced>>
      BY <3>3 DEF Rows
    <3>4. CASE /\ failures' = [failures EXCEPT ![p] = NeverFailed]
               /\ counted' = [counted EXCEPT ![p] = 0]
               /\ raced' = raced \ {p}
      <4>1. failures' = [q \in Person |-> IF q = p THEN NeverFailed ELSE failures[q]]
        BY <2>2, <3>4 DEF Rows
      <4>2. counted' \in [Person -> Nat]
        BY <2>2, <3>4 DEF Rows
      <4>3. raced' \subseteq Person
        BY <3>4 DEF Rows
      <4> QED
        BY <3>2, <4>1, <4>2, <4>3 DEF Rows
    <3> QED
      BY <3>1, <3>3, <3>4
  <2>6. lastStep' \in [Person -> Nat]
    <3>1. StepOf(s) = "otp" => s.input.step \in Nat /\ s.subject \in Person
      BY <2>1, <2>2, JudgedAccount DEF Codes
    <3>2. lastStep' = IF StepOf(s) = "otp"
                      THEN [lastStep EXCEPT ![s.subject] = s.input.step] ELSE lastStep
      BY <1>6 DEF Pass, SpendCode
    <3> HIDE DEF p, s
    <3> QED
      BY <3>1, <3>2 DEF Rows
  <2>7. UNCHANGED <<session, jar, now>>
    BY <1>6 DEF Pass, browser
  <2> QED
    BY <2>3, <2>4, <2>5, <2>6, <2>7 DEF Rows
<1>7. ASSUME NEW t \in Tab, TurnAway(t) \/ RefuseDisabled(t) PROVE Rows'
  <2>1. sub[t] \in PassedSub
    BY <1>7 DEF TurnAway, RefuseDisabled, Completing, Subs, SubShape
  <2>2. sub[t].attempt \in Attempt
    BY <2>1 DEF PassedSub
  <2>3. /\ ResetProgress(sub[t].attempt) \/ UNCHANGED auth
        /\ UNCHANGED <<proven, failures, counted, raced, lastStep, session, jar, now>>
    BY <1>7 DEF TurnAway, RefuseDisabled, lockout, browser
  <2>4. auth' \in [Attempt -> AuthRow]
    BY <2>2, <2>3, AuthFields DEF Rows, ResetProgress
  <2> QED
    BY <2>3, <2>4 DEF Rows
<1>8. ASSUME NEW t \in Tab, Complete(t) PROVE Rows'
  <2>1. sub[t] \in PassedSub
    BY <1>8 DEF Complete, Completing, Subs, SubShape
  <2>2. /\ sub[t].attempt \in Attempt
        /\ [attempt |-> sub[t].attempt, subject |-> sub[t].subject, amr |-> sub[t].amr]
             \in Session
    BY <2>1 DEF PassedSub, Session
  <2>3. auth' \in [Attempt -> AuthRow]
    BY <1>8, <2>2, AuthFields DEF Complete, Rows
  <2>4. session' \in Seq(Session)
    BY <1>8, <2>2 DEF Complete, Rows
  <2>5. UNCHANGED <<proven, failures, counted, raced, lastStep, jar, now>>
    BY <1>8 DEF Complete, lockout
  <2> QED
    BY <2>3, <2>4, <2>5 DEF Rows
<1>9. ASSUME NEW t \in Tab, TakeCookies(t) PROVE Rows'
  <2>1. sub[t].own \in Nat /\ sub[t].header \in SUBSET Nat
    BY <1>9 DEF TakeCookies, Subs, SubShape
  <2> QED
    BY <1>9, <2>1 DEF TakeCookies, Rows, attempts, lockout
<1>10. ASSUME NEW p \in Person, Disable(p) \/ ClearLockout(p) PROVE Rows'
  <2>1. CASE Disable(p)
    BY <2>1 DEF Disable, Rows, attempts, lockout, browser
  <2>2. CASE ClearLockout(p)
    BY <2>2 DEF ClearLockout, Rows, attempts, browser, NeverFailed
  <2> QED
    BY <1>10, <2>1, <2>2
<1>11. CASE Tick
  BY <1>11 DEF Tick, Rows, attempts, lockout, browser
<1>12. CASE UNCHANGED vars
  BY <1>12 DEF vars, Rows
<1> QED
  BY <1>1, <1>2, <1>3, <1>4, <1>5, <1>6, <1>7, <1>8, <1>9, <1>10, <1>11, <1>12
     DEF Next, Advance, Finish
LEMMA SubsStep == Shapes /\ [Next]_vars => Subs'
<1> SUFFICES ASSUME Shapes, [Next]_vars PROVE Subs'
  OBVIOUS
<1> USE DEF Shapes
<1>1. ASSUME NEW t \in Tab, NEW a \in Attempt, NEW input \in Inputs, Submit(t, a, input)
      PROVE  Subs'
  <2> DEFINE s == [pc |-> "loaded", attempt |-> a, who |-> input.who, input |-> input,
                   subject |-> auth[a].subject, satisfied |-> auth[a].satisfied,
                   at |-> now, header |-> jar]
  <2>1. auth[a].subject \in Person \union {None} /\ auth[a].satisfied \in SUBSET Factor
    BY DEF Rows, AuthRow
  <2>2. input.who \in Person \union {None}
    BY DEF Inputs, Nothing, Passwords, Codes
  <2>3. now \in Nat /\ jar \in SUBSET Nat
    BY DEF Rows
  <2>4. s \in LoadedSub
    BY <2>1, <2>2, <2>3 DEF LoadedSub
  <2>5. SubShape(s)
    <3>1. s.pc = "loaded" /\ s.who = s.input.who
      OBVIOUS
    <3> HIDE DEF s
    <3> QED
      BY <2>4, <3>1 DEF SubShape
  <2>6. sub' = [sub EXCEPT ![t] = s]
    BY <1>1 DEF Submit
  <2> HIDE DEF s
  <2> QED
    BY <2>5, <2>6, OneTabMoves
<1>2. ASSUME NEW t \in Tab, NEW a \in Attempt, Consent(t, a) PROVE Subs'
  <2> DEFINE s == [pc |-> "consenting", attempt |-> a, who |-> None,
                   subject |-> auth[a].subject, amr |-> auth[a].satisfied, header |-> jar]
  <2>1. auth[a].subject \in Person \union {None} /\ auth[a].satisfied \in SUBSET Factor
    BY DEF Rows, AuthRow
  <2>2. auth[a].subject \in Person
    BY <1>2, <2>1 DEF Consent
  <2>3. jar \in SUBSET Nat
    BY DEF Rows
  <2>4. s \in PassedSub
    BY <2>1, <2>2, <2>3 DEF PassedSub
  <2>5. SubShape(s)
    <3>1. s.pc = "consenting"
      OBVIOUS
    <3> HIDE DEF s
    <3> QED
      BY <2>4, <3>1 DEF SubShape
  <2>6. sub' = [sub EXCEPT ![t] = s]
    BY <1>2 DEF Consent
  <2> HIDE DEF s
  <2> QED
    BY <2>5, <2>6, OneTabMoves
<1>3. ASSUME NEW t \in Tab, Resume(t) PROVE Subs'
  <2> DEFINE s == [pc |-> "passed", attempt |-> sub[t].attempt, who |-> sub[t].who,
                   subject |-> sub[t].subject, amr |-> sub[t].satisfied,
                   header |-> sub[t].header]
  <2>1. sub[t] \in LoadedSub
    BY <1>3 DEF Resume, Subs, SubShape
  <2>2. sub[t].subject \in Person
    BY <1>3, <2>1 DEF Resume, Finished, LoadedSub
  <2>4. s \in PassedSub
    BY <2>1, <2>2 DEF PassedSub, LoadedSub
  <2>5. SubShape(s)
    <3>1. s.pc = "passed"
      OBVIOUS
    <3> HIDE DEF s
    <3> QED
      BY <2>4, <3>1 DEF SubShape
  <2>6. sub' = [sub EXCEPT ![t] = s]
    BY <1>3 DEF Resume
  <2> HIDE DEF s
  <2> QED
    BY <2>5, <2>6, OneTabMoves
<1>4. ASSUME NEW t \in Tab,
             \/ Challenge(t) \/ Record(t) \/ RefuseMismatch(t) \/ TurnAway(t) \/ Park(t)
             \/ RefuseDisabled(t) \/ RefuseConsumed(t) \/ TakeCookies(t)
      PROVE  Subs'
  <2>1. sub' = [sub EXCEPT ![t] = Idle]
    BY <1>4 DEF Challenge, Record, RefuseMismatch, TurnAway, Park, RefuseDisabled,
                RefuseConsumed, TakeCookies
  <2> QED
    BY <2>1, OneTabMoves, IdleShape
<1>5. ASSUME NEW t \in Tab, JudgeRight(t) PROVE Subs'
  <2> DEFINE s == sub[t]
             r == [s EXCEPT !.pc = "right"]
  <2>1. s \in LoadedSub /\ s.who = s.input.who /\ Answers(s) /\ Correct(s)
    BY <1>5 DEF JudgeRight, Judged, Subs, SubShape
  <2>2. r \in LoadedSub /\ r.pc = "right"
    BY <2>1 DEF LoadedSub
  <2>3. /\ r.who = s.who /\ r.input = s.input /\ r.subject = s.subject
        /\ r.satisfied = s.satisfied
    BY <2>1 DEF LoadedSub
  <2>4. Answers(r) /\ Account(r) = Account(s)
    <3> HIDE DEF r, s
    <3> QED
      BY <2>1, <2>3 DEF Answers, Account, StepOf
  <2>5. Account(s) = s.who /\ s.who \in Person
    BY <2>1, JudgedAccount
  <2>6. SubShape(r)
    <3> HIDE DEF r, s
    <3> QED
      BY <2>1, <2>2, <2>3, <2>4, <2>5 DEF SubShape
  <2>7. sub' = [sub EXCEPT ![t] = r]
    BY <1>5 DEF JudgeRight
  <2> HIDE DEF r
  <2> QED
    BY <2>6, <2>7, OneTabMoves
<1>6. ASSUME NEW t \in Tab, JudgeWrong(t) \/ RefuseReplayed(t) PROVE Subs'
  <2>1. sub[t] \in LoadedSub /\ sub[t].who = sub[t].input.who /\ Answers(sub[t])
    BY <1>6 DEF JudgeWrong, RefuseReplayed, Judged, Subs, SubShape
  <2>2. sub' = [sub EXCEPT ![t] = Failing(sub[t])]
    BY <1>6 DEF JudgeWrong, RefuseReplayed
  <2> QED
    BY <2>1, <2>2, FailingShape, OneTabMoves
<1>7. ASSUME NEW t \in Tab, ReadFailures(t) PROVE Subs'
  <2> DEFINE s == [pc |-> "counting", attempt |-> sub[t].attempt, who |-> sub[t].who,
                   account |-> sub[t].account, at |-> sub[t].at, tries |-> sub[t].tries,
                   observed |-> failures[sub[t].account]]
  <2>1. sub[t].attempt \in Attempt /\ sub[t].account \in Person
    BY <1>7 DEF ReadFailures, Subs, SubShape
  <2>2. failures[sub[t].account].count \in Nat
    BY <2>1 DEF Rows
  <2>3. SubShape(s)
    BY <2>1, <2>2 DEF SubShape
  <2>4. sub' = [sub EXCEPT ![t] = s]
    BY <1>7 DEF ReadFailures
  <2> HIDE DEF s
  <2> QED
    BY <2>3, <2>4, OneTabMoves
<1>8. ASSUME NEW t \in Tab, Contend(t) PROVE Subs'
  <2> DEFINE s == [pc |-> "failing", attempt |-> sub[t].attempt, who |-> sub[t].who,
                   account |-> sub[t].account, at |-> sub[t].at, tries |-> sub[t].tries + 1]
  <2>1. sub[t].attempt \in Attempt /\ sub[t].account \in Person
    BY <1>8 DEF Contend, Subs, SubShape
  <2>2. SubShape(s)
    BY <2>1 DEF SubShape
  <2>3. sub' = [sub EXCEPT ![t] = s] \/ sub' = [sub EXCEPT ![t] = Idle]
    BY <1>8 DEF Contend
  <2> HIDE DEF s
  <2> QED
    BY <2>2, <2>3, IdleShape, OneTabMoves
<1>9. ASSUME NEW t \in Tab, Pass(t) PROVE Subs'
  <2> DEFINE p == Account(sub[t])
             s == [pc |-> "passed", attempt |-> sub[t].attempt, who |-> sub[t].who,
                   subject |-> p, amr |-> sub[t].satisfied \union {StepOf(sub[t])},
                   header |-> sub[t].header]
  <2>1. sub[t] \in LoadedSub /\ sub[t].who = sub[t].input.who /\ Answers(sub[t])
    BY <1>9 DEF Pass, Subs, SubShape
  <2>2. p \in Person /\ StepOf(sub[t]) \in Factor
    BY <2>1, JudgedAccount, StepOfFactor
  <2>3. s \in PassedSub
    <3> HIDE DEF p
    <3> QED
      BY <2>1, <2>2 DEF PassedSub, LoadedSub
  <2>4. SubShape(s)
    <3>1. s.pc = "passed"
      OBVIOUS
    <3> HIDE DEF s
    <3> QED
      BY <2>3, <3>1 DEF SubShape
  <2>5. sub' = [sub EXCEPT ![t] = s] \/ sub' = [sub EXCEPT ![t] = Idle]
    BY <1>9 DEF Pass
  <2> HIDE DEF s
  <2> QED
    BY <2>4, <2>5, IdleShape, OneTabMoves
<1>10. ASSUME NEW t \in Tab, Proceed(t) PROVE Subs'
  <2> DEFINE r == [sub[t] EXCEPT !.pc = "completing"]
  <2>1. sub[t] \in PassedSub
    BY <1>10 DEF Proceed, Subs, SubShape
  <2>2. r \in PassedSub /\ r.pc = "completing"
    BY <2>1 DEF PassedSub
  <2>3. sub' = [sub EXCEPT ![t] = r]
    BY <1>10 DEF Proceed
  <2> HIDE DEF r
  <2>4. SubShape(r)
    BY <2>2 DEF SubShape
  <2> QED
    BY <2>3, <2>4, OneTabMoves
<1>11. ASSUME NEW t \in Tab, Complete(t) PROVE Subs'
  <2> DEFINE s == [pc |-> "answering", attempt |-> sub[t].attempt, who |-> sub[t].who,
                   own |-> Len(session) + 1, header |-> sub[t].header]
  <2>1. sub[t] \in PassedSub
    BY <1>11 DEF Complete, Completing, Subs, SubShape
  <2>2. sub[t].attempt \in Attempt /\ sub[t].header \in SUBSET Nat /\ Len(session) + 1 \in Nat
    BY <2>1 DEF PassedSub, Rows
  <2>3. SubShape(s)
    BY <2>2 DEF SubShape
  <2>4. sub' = [sub EXCEPT ![t] = s]
    BY <1>11 DEF Complete
  <2> HIDE DEF s
  <2> QED
    BY <2>3, <2>4, OneTabMoves
<1>12. ASSUME NEW p \in Person, Disable(p) \/ ClearLockout(p) PROVE Subs'
  BY <1>12, SubsStutter DEF Disable, ClearLockout
<1>13. CASE Tick
  BY <1>13, SubsStutter DEF Tick
<1>14. CASE UNCHANGED vars
  BY <1>14, SubsStutter DEF vars
<1> QED
  BY <1>1, <1>2, <1>3, <1>4, <1>5, <1>6, <1>7, <1>8, <1>9, <1>10, <1>11, <1>12, <1>13, <1>14
     DEF Next, Advance, Finish

LEMMA ShapesInvariant == Spec => []Shapes
<1>1. Shapes /\ [Next]_vars => Shapes'
  BY RowsStep, SubsStep DEF Shapes
<1> QED
  BY <1>1, ShapesInit, PTL DEF Spec
-----------------------------------------------------------------------------
(* The lockout counts the failures it records *)

\* recordFailure's comparison decides: a write begins a run, adds one to the count
\* it finds, or was decided from a broken run and replaces another that has its
\* count.
LEMMA CountedStep == Shapes /\ CountedUnlessRaced /\ [Next]_vars => CountedUnlessRaced'
<1> SUFFICES ASSUME Shapes, CountedUnlessRaced, [Next]_vars PROVE CountedUnlessRaced'
  OBVIOUS
<1> USE DEF Shapes
<1>1. ASSUME NEW t \in Tab, Record(t) PROVE CountedUnlessRaced'
  <2> DEFINE s == sub[t]
             row == failures[s.account]
             next == NextLockout(s.observed, s.at)
             begins == BeginsRun(row, s.at)
             overwrites == OverwritesRun(row, s.observed, s.at)
             count == IF begins THEN 1 ELSE counted[s.account] + 1
  <2>1. s.account \in Person /\ s.observed.count \in Nat
    BY <1>1 DEF Record, Subs, SubShape
  <2>2. row.count = 0 \/ row.count = s.observed.count
    BY <1>1 DEF Record, Matches
  <2>3. /\ row.count \in Nat /\ counted[s.account] \in Nat
        /\ counted[s.account] > row.count => s.account \in raced
    BY <2>1 DEF Rows, CountedUnlessRaced
  <2>4. next.count = IF RunIsBroken(s.observed, s.at) THEN 1 ELSE s.observed.count + 1
    BY DEF NextLockout, NextCount
  <2>5. /\ failures' = [p \in Person |-> IF p = s.account THEN next ELSE failures[p]]
        /\ counted' = [p \in Person |-> IF p = s.account THEN count ELSE counted[p]]
        /\ raced' = IF begins THEN raced \ {s.account}
                    ELSE IF overwrites THEN raced \union {s.account} ELSE raced
    <3>1. /\ failures' = [failures EXCEPT ![s.account] = next]
          /\ counted' = [counted EXCEPT ![s.account] = count]
          /\ raced' = IF begins THEN raced \ {s.account}
                      ELSE IF overwrites THEN raced \union {s.account} ELSE raced
      BY <1>1 DEF Record
    <3> HIDE DEF next, row, s, begins, overwrites, count
    <3> QED
      BY <3>1 DEF Rows
  <2>6. count > next.count => s.account \in raced'
    <3>1. CASE begins
      <4>1. next.count >= 1
        BY <2>1, <2>4
      <4> HIDE DEF next, row, s, begins, overwrites
      <4> QED
        BY <2>1, <2>4, <3>1, <4>1
    <3>2. CASE ~ begins /\ overwrites
      <4> HIDE DEF next, row, s, begins, overwrites, count
      <4> QED
        BY <2>5, <3>2
    <3>3. CASE ~ begins /\ ~ overwrites
      <4>1. row.count # 0
        BY <3>3 DEF BeginsRun, RunIsBroken
      <4>2. s.observed.count > 0
        BY <2>1, <2>2, <4>1
      <4>3. ~ RunIsBroken(s.observed, s.at)
        BY <3>3, <4>2 DEF BeginsRun, OverwritesRun
      <4>4. next.count = row.count + 1
        BY <2>2, <2>4, <4>1, <4>3
      <4>5. raced' = raced /\ count = counted[s.account] + 1
        <5> HIDE DEF next, row, s, begins, overwrites
        <5> QED
          BY <2>5, <3>3
      <4> HIDE DEF next, row, s, begins, overwrites, count
      <4> QED
        BY <2>3, <4>4, <4>5
    <3> QED
      BY <3>1, <3>2, <3>3
  <2>7. \A p \in Person : p # s.account /\ p \in raced => p \in raced'
    <3> HIDE DEF next, row, s, begins, overwrites, count
    <3> QED
      BY <2>5
  <2> HIDE DEF next, row, s, begins, overwrites, count
  <2> QED
    BY <2>5, <2>6, <2>7 DEF CountedUnlessRaced
<1>2. ASSUME NEW p,
             /\ failures' = [failures EXCEPT ![p] = NeverFailed]
             /\ counted' = [counted EXCEPT ![p] = 0]
             /\ raced' = raced \ {p}
      PROVE  CountedUnlessRaced'
  <2>1. NeverFailed.count = 0
    BY DEF NeverFailed
  <2>2. /\ failures' = [q \in Person |-> IF q = p THEN NeverFailed ELSE failures[q]]
        /\ counted' = [q \in Person |-> IF q = p THEN 0 ELSE counted[q]]
    BY <1>2 DEF Rows
  <2> QED
    BY <1>2, <2>1, <2>2 DEF CountedUnlessRaced
<1>3. ASSUME UNCHANGED lockout PROVE CountedUnlessRaced'
  BY <1>3 DEF lockout, CountedUnlessRaced
<1>4. ASSUME NEW t \in Tab, Pass(t) PROVE CountedUnlessRaced'
  BY <1>2, <1>3, <1>4 DEF Pass
<1>5. ASSUME NEW p \in Person, ClearLockout(p) PROVE CountedUnlessRaced'
  BY <1>2, <1>5 DEF ClearLockout
<1>6. \/ \E t \in Tab : Record(t) \/ Pass(t)
      \/ \E p \in Person : ClearLockout(p)
      \/ UNCHANGED lockout
  BY DEF Next, Advance, Finish, Submit, Consent, Resume, Challenge, JudgeRight, JudgeWrong,
         ReadFailures, Contend, RefuseMismatch, RefuseReplayed, TurnAway, Park, Proceed,
         RefuseDisabled, RefuseConsumed, Complete, TakeCookies, Disable, Tick, vars, lockout
<1> QED
  BY <1>1, <1>3, <1>4, <1>5, <1>6

\* A run of failures is counted short only where a failure that had read a broken
\* run overwrote it, however many tabs fail at once: for every lockout policy and
\* every number of retries (recordFailure).
THEOREM EveryFailureCounts == Spec => []CountedUnlessRaced
<1>1. Init => CountedUnlessRaced
  BY DEF Init, CountedUnlessRaced, NeverFailed
<1> QED
  BY <1>1, CountedStep, ShapesInvariant, PTL DEF Spec

-----------------------------------------------------------------------------
(* An attempt is completed once *)

Spent == \A i \in DOMAIN session : auth[session[i].attempt].consumed

\* Nothing takes consumed_at back, resetProgress included.
LEMMA ConsumedStays ==
    ASSUME Shapes, [Next]_vars, NEW a \in Attempt, auth[a].consumed
    PROVE  auth'[a].consumed
<1> USE DEF Shapes
<1>1. auth \in [Attempt -> AuthRow] /\ auth[a] \in AuthRow
  BY DEF Rows
<1>2. ASSUME NEW b, ResetProgress(b) PROVE auth'[a].consumed
  <2>1. [Fresh EXCEPT !.consumed = auth[b].consumed].consumed = auth[b].consumed
    BY DEF Fresh
  <2> QED
    BY <1>1, <1>2, <2>1 DEF ResetProgress
<1>3. ASSUME NEW b, NEW v, auth' = [auth EXCEPT ![b].done = v] PROVE auth'[a].consumed
  BY <1>1, <1>3 DEF AuthRow
<1>4. ASSUME NEW t \in Tab, Pass(t) PROVE auth'[a].consumed
  <2>1. PICK b, p, f, v :
          auth' = [auth EXCEPT ![b].subject = p, ![b].satisfied = @ \union {f}, ![b].done = v]
    BY <1>4 DEF Pass
  <2> QED
    BY <1>1, <2>1 DEF AuthRow
<1>5. ASSUME NEW t \in Tab, Complete(t) PROVE auth'[a].consumed
  BY <1>1, <1>5 DEF Complete, AuthRow
<1>6. \/ \E t \in Tab : Pass(t) \/ Complete(t)
      \/ \E b : ResetProgress(b)
      \/ \E b, v : auth' = [auth EXCEPT ![b].done = v]
      \/ UNCHANGED auth
  BY DEF Next, Advance, Finish, Submit, Consent, Resume, Challenge, JudgeRight, JudgeWrong,
         ReadFailures, Record, Contend, RefuseMismatch, RefuseReplayed, TurnAway, Park,
         Proceed, RefuseDisabled, RefuseConsumed, TakeCookies, Disable, ClearLockout, Tick,
         vars, attempts
<1> QED
  BY <1>2, <1>3, <1>4, <1>5, <1>6

\* A completion appends one session; nothing else touches them.
LEMMA SessionStep ==
    ASSUME Shapes, [Next]_vars
    PROVE  \/ UNCHANGED session
           \/ \E t \in Tab : Complete(t)
BY DEF Next, Advance, Finish, Submit, Consent, Resume, Challenge, JudgeRight, JudgeWrong,
       ReadFailures, Record, Contend, RefuseMismatch, RefuseReplayed, Pass, TurnAway, Park,
       Proceed, RefuseDisabled, RefuseConsumed, TakeCookies, Disable, ClearLockout, Tick,
       vars, browser

\* The session a completion appends, and the ones before it.
LEMMA Appended ==
    ASSUME Shapes, NEW t \in Tab, Complete(t)
    PROVE  /\ sub[t] \in PassedSub
           /\ DOMAIN session' = DOMAIN session \union {Len(session) + 1}
           /\ Len(session) + 1 \notin DOMAIN session
           /\ \A i \in DOMAIN session : session'[i] = session[i]
           /\ session'[Len(session) + 1] =
                [attempt |-> sub[t].attempt, subject |-> sub[t].subject, amr |-> sub[t].amr]
           /\ ~ auth[sub[t].attempt].consumed
           /\ auth'[sub[t].attempt].consumed
<1> DEFINE e == [attempt |-> sub[t].attempt, subject |-> sub[t].subject, amr |-> sub[t].amr]
<1>1. sub[t] \in PassedSub
  BY DEF Complete, Completing, Shapes, Subs, SubShape
<1>2. sub[t].attempt \in Attempt /\ e \in Session
  BY <1>1 DEF PassedSub, Session
<1>3. session' = Append(session, e) /\ session \in Seq(Session)
  BY DEF Complete, Shapes, Rows
<1>4. ~ auth[sub[t].attempt].consumed /\ auth'[sub[t].attempt].consumed
  BY <1>2 DEF Complete, Consumed, Shapes, Rows, AuthRow
<1> HIDE DEF e
<1>5. /\ DOMAIN session' = DOMAIN session \union {Len(session) + 1}
      /\ Len(session) + 1 \notin DOMAIN session
      /\ \A i \in DOMAIN session : session'[i] = session[i]
      /\ session'[Len(session) + 1] = e
  BY <1>2, <1>3
<1> QED
  BY <1>1, <1>4, <1>5 DEF e

LEMMA SpentStep ==
    Shapes /\ Spent /\ OneSessionPerAttempt /\ [Next]_vars => Spent' /\ OneSessionPerAttempt'
<1> SUFFICES ASSUME Shapes, Spent, OneSessionPerAttempt, [Next]_vars
             PROVE  Spent' /\ OneSessionPerAttempt'
  OBVIOUS
<1>1. \A i \in DOMAIN session : session[i].attempt \in Attempt
  <2>1. \A i \in DOMAIN session : session[i] \in Session
    BY DEF Shapes, Rows
  <2> QED
    BY <2>1 DEF Session
<1>2. \A i \in DOMAIN session : auth'[session[i].attempt].consumed
  BY <1>1, ConsumedStays DEF Spent
<1>3. CASE UNCHANGED session
  BY <1>2, <1>3 DEF Spent, OneSessionPerAttempt
<1>4. ASSUME NEW t \in Tab, Complete(t) PROVE Spent' /\ OneSessionPerAttempt'
  <2> DEFINE n == Len(session) + 1
  <2>1. /\ DOMAIN session' = DOMAIN session \union {n}
        /\ \A i \in DOMAIN session : session'[i] = session[i]
        /\ session'[n].attempt = sub[t].attempt
        /\ ~ auth[sub[t].attempt].consumed
        /\ auth'[sub[t].attempt].consumed
    <3>1. session'[n] =
            [attempt |-> sub[t].attempt, subject |-> sub[t].subject, amr |-> sub[t].amr]
      BY <1>4, Appended
    <3>2. session'[n].attempt = sub[t].attempt
      BY <3>1
    <3> QED
      BY <1>4, <3>2, Appended
  <2> HIDE DEF n
  <2>2. \A i \in DOMAIN session : session[i].attempt # sub[t].attempt
    BY <2>1 DEF Spent
  <2>3. Spent'
    BY <1>2, <2>1 DEF Spent
  <2>4. OneSessionPerAttempt'
    BY <2>1, <2>2 DEF OneSessionPerAttempt
  <2> QED
    BY <2>3, <2>4
<1> QED
  BY <1>3, <1>4, SessionStep

LEMMA SpentInvariant == Spec => [](Spent /\ OneSessionPerAttempt)
<1>1. Init => Spent /\ OneSessionPerAttempt
  BY DEF Init, Spent, OneSessionPerAttempt
<1> QED
  BY <1>1, SpentStep, ShapesInvariant, PTL DEF Spec

\* However often an attempt is submitted, resumed or consented to, and from how
\* many tabs, it yields one session at most (consume, in completeLogin).
THEOREM AttemptCompletesOnce == Spec => []OneSessionPerAttempt
BY SpentInvariant, PTL
-----------------------------------------------------------------------------
(* One person per attempt, when people do not overlap on it *)

Bound(t) == sub[t].pc \in {"loaded", "right"}
Passing(t) == sub[t].pc \in {"passed", "completing", "consenting"}

\* Two submissions of an attempt that name somebody name the same person.
Together ==
    \A t, u \in Tab :
        /\ sub[t].pc # "idle"
        /\ sub[u].pc # "idle"
        /\ sub[t].attempt = sub[u].attempt
        /\ sub[t].who # None
        /\ sub[u].who # None
        => sub[t].who = sub[u].who

\* An attempt that went on since a submission read it went on with the person
\* that submission names.
Coherent ==
    \A t \in Tab :
        /\ Bound(t)
        /\ sub[t].who # None
        /\ auth[sub[t].attempt].satisfied # {}
        => auth[sub[t].attempt].subject \in {sub[t].subject, sub[t].who}

\* What a submission read or is about to state was passed by its subject.
ReadProven ==
    \A t \in Tab : Bound(t) =>
        \A f \in sub[t].satisfied : <<sub[t].subject, f>> \in proven[sub[t].attempt]
StatedProven ==
    \A t \in Tab : Passing(t) =>
        /\ \A f \in sub[t].amr : <<sub[t].subject, f>> \in proven[sub[t].attempt]
        /\ Owed(sub[t].subject) \subseteq sub[t].amr

PersonInv ==
    Together /\ Coherent /\ OnePersonPerAttempt /\ ReadProven /\ StatedProven /\ SessionEarned

\* Once asked for, a submission stays with its attempt and its person; and what
\* it read stays as it was read.
LEMMA Identity ==
    ASSUME Shapes, [Next]_vars, NEW t \in Tab, sub'[t].pc # "idle"
    PROVE  \/ /\ sub[t].pc # "idle"
              /\ sub'[t].attempt = sub[t].attempt
              /\ sub'[t].who = sub[t].who
              /\ sub'[t].pc \in {"loaded", "right"} =>
                   /\ Bound(t)
                   /\ sub'[t].subject = sub[t].subject
                   /\ sub'[t].satisfied = sub[t].satisfied
           \/ \E a \in Attempt : Consent(t, a) \/ \E input \in Inputs : Submit(t, a, input)
<1> SUFFICES ASSUME ~ \E a \in Attempt : Consent(t, a) \/ \E input \in Inputs : Submit(t, a, input)
             PROVE  /\ sub[t].pc # "idle"
                    /\ sub'[t].attempt = sub[t].attempt
                    /\ sub'[t].who = sub[t].who
                    /\ sub'[t].pc \in {"loaded", "right"} =>
                         /\ Bound(t)
                         /\ sub'[t].subject = sub[t].subject
                         /\ sub'[t].satisfied = sub[t].satisfied
  OBVIOUS
<1> USE DEF Bound
<1>0. sub = [u \in Tab |-> sub[u]]
  BY DEF Shapes, Subs
<1>1. CASE sub'[t] = sub[t]
  BY <1>1
<1>2. ASSUME NEW u \in Tab, u # t, NEW s, sub' = [sub EXCEPT ![u] = s] PROVE sub'[t] = sub[t]
  BY <1>0, <1>2
<1>3. ASSUME NEW s, sub' = [sub EXCEPT ![t] = s] PROVE sub'[t] = s
  BY <1>0, <1>3
<1>4. CASE \E u \in Tab \ {t} : \E s : sub' = [sub EXCEPT ![u] = s]
  BY <1>1, <1>2, <1>4
<1>5. CASE UNCHANGED sub
  BY <1>1, <1>5
<1>6. CASE sub' = [sub EXCEPT ![t] = Idle]
  BY <1>3, <1>6 DEF Idle
<1>7. CASE JudgeRight(t)
  <2>1. sub'[t] = [sub[t] EXCEPT !.pc = "right"] /\ sub[t].pc = "loaded"
    BY <1>0, <1>7 DEF JudgeRight, Judged
  <2>2. sub[t] \in LoadedSub
    BY <2>1 DEF Shapes, Subs, SubShape
  <2> QED
    BY <2>1, <2>2 DEF LoadedSub
<1>8. CASE Proceed(t)
  <2>1. sub'[t] = [sub[t] EXCEPT !.pc = "completing"] /\ sub[t].pc = "passed"
    BY <1>0, <1>8 DEF Proceed
  <2>2. sub[t] \in PassedSub
    BY <2>1 DEF Shapes, Subs, SubShape
  <2> QED
    BY <2>1, <2>2 DEF PassedSub
<1>9. CASE \/ JudgeWrong(t) \/ RefuseReplayed(t)
  BY <1>0, <1>9 DEF JudgeWrong, RefuseReplayed, Failing, Judged
<1>10. CASE ReadFailures(t) \/ Resume(t) \/ Complete(t)
  BY <1>0, <1>10 DEF ReadFailures, Resume, Complete, Completing
<1>11. CASE Contend(t)
  <2>1. \/ sub' = [sub EXCEPT ![t] = Idle]
        \/ sub'[t] = [pc |-> "failing", attempt |-> sub[t].attempt, who |-> sub[t].who,
                      account |-> sub[t].account, at |-> sub[t].at, tries |-> sub[t].tries + 1]
    BY <1>0, <1>11 DEF Contend
  <2>2. sub[t].pc = "counting"
    BY <1>11 DEF Contend
  <2> QED
    BY <1>6, <2>1, <2>2
<1>12. CASE Pass(t)
  <2>1. \/ sub' = [sub EXCEPT ![t] = Idle]
        \/ sub'[t] = [pc |-> "passed", attempt |-> sub[t].attempt, who |-> sub[t].who,
                      subject |-> Account(sub[t]),
                      amr |-> sub[t].satisfied \union {StepOf(sub[t])},
                      header |-> sub[t].header]
    BY <1>0, <1>12 DEF Pass
  <2>2. sub[t].pc = "right"
    BY <1>12 DEF Pass
  <2> QED
    BY <1>6, <2>1, <2>2
<1>13. \/ UNCHANGED sub
       \/ \E u \in Tab \ {t} : \E s : sub' = [sub EXCEPT ![u] = s]
       \/ sub' = [sub EXCEPT ![t] = Idle]
       \/ JudgeRight(t) \/ Proceed(t) \/ JudgeWrong(t) \/ RefuseReplayed(t)
       \/ ReadFailures(t) \/ Resume(t) \/ Complete(t) \/ Contend(t) \/ Pass(t)
  <2>1. ASSUME NEW u \in Tab,
               (\E a \in Attempt : Consent(u, a) \/ \E input \in Inputs : Submit(u, a, input))
                 \/ Advance(u) \/ Finish(u)
        PROVE  \E s : sub' = [sub EXCEPT ![u] = s]
    <3>1. ASSUME JudgeRight(u) \/ Proceed(u) PROVE \E s : sub' = [sub EXCEPT ![u] = s]
      <4>1. \/ sub' = [sub EXCEPT ![u] = [sub[u] EXCEPT !.pc = "right"]]
            \/ sub' = [sub EXCEPT ![u] = [sub[u] EXCEPT !.pc = "completing"]]
        BY <3>1 DEF JudgeRight, Proceed
      <4> QED
        BY <4>1
    <3> QED
      BY <2>1, <3>1
         DEF Advance, Finish, Submit, Consent, Resume, Challenge, JudgeWrong, ReadFailures,
             Record, Contend, RefuseMismatch, RefuseReplayed, Pass, TurnAway, Park,
             RefuseDisabled, RefuseConsumed, Complete, TakeCookies
  <2>2. ASSUME Advance(t) \/ Finish(t)
        PROVE  \/ sub' = [sub EXCEPT ![t] = Idle]
               \/ JudgeRight(t) \/ Proceed(t) \/ JudgeWrong(t) \/ RefuseReplayed(t)
               \/ ReadFailures(t) \/ Resume(t) \/ Complete(t) \/ Contend(t) \/ Pass(t)
    BY <2>2 DEF Advance, Finish, Challenge, Record, RefuseMismatch, TurnAway, Park,
                RefuseDisabled, RefuseConsumed, TakeCookies
  <2>3. ASSUME NEW p \in Person, Disable(p) \/ ClearLockout(p) PROVE UNCHANGED sub
    BY <2>3 DEF Disable, ClearLockout
  <2>4. CASE UNCHANGED vars
    BY <2>4 DEF vars
  <2>5. ASSUME Tick PROVE UNCHANGED sub
    BY <2>5 DEF Tick
  <2>6. CASE Next
    <3>1. \/ \E u \in Tab : (\E a \in Attempt : Consent(u, a) \/ \E input \in Inputs : Submit(u, a, input))
                             \/ Advance(u) \/ Finish(u)
          \/ UNCHANGED sub
      BY <2>3, <2>5, <2>6 DEF Next
    <3> QED
      BY <2>1, <2>2, <3>1
  <2> QED
    BY <2>4, <2>6
<1> QED
  BY <1>4, <1>5, <1>6, <1>7, <1>8, <1>9, <1>10, <1>11, <1>12, <1>13
\* A factor once passed stays passed.
LEMMA ProvenGrows ==
    ASSUME Shapes, [Next]_vars, NEW a \in Attempt
    PROVE  proven[a] \subseteq proven'[a]
<1>1. proven \in [Attempt -> SUBSET (Person \X Factor)]
  BY DEF Shapes, Rows
<1>2. ASSUME NEW t \in Tab, Pass(t) PROVE proven[a] \subseteq proven'[a]
  <2>1. PICK b, x : proven' = [proven EXCEPT ![b] = @ \union {x}]
    BY <1>2 DEF Pass
  <2> QED
    BY <1>1, <2>1
<1>3. (\E t \in Tab : Pass(t)) \/ UNCHANGED proven
  BY DEF Next, Advance, Finish, Submit, Consent, Resume, Challenge, JudgeRight, JudgeWrong,
         ReadFailures, Record, Contend, RefuseMismatch, RefuseReplayed, TurnAway, Park,
         Proceed, RefuseDisabled, RefuseConsumed, Complete, TakeCookies, Disable,
         ClearLockout, Tick, vars, attempts
<1> QED
  BY <1>2, <1>3

\* How a step leaves an attempt's subject and factors: as they were, at their
\* start, or with the factor a submission passed.
LEMMA AttemptStep ==
    ASSUME Shapes, [Next]_vars, NEW a \in Attempt
    PROVE  \/ auth'[a].subject = auth[a].subject /\ auth'[a].satisfied = auth[a].satisfied
           \/ auth'[a].satisfied = {}
           \/ \E t \in Tab : Pass(t) /\ sub[t].attempt = a
<1>1. auth \in [Attempt -> AuthRow] /\ auth[a] \in AuthRow
  BY DEF Shapes, Rows
<1>2. ASSUME NEW b, ResetProgress(b)
      PROVE  \/ auth'[a].satisfied = {}
             \/ auth'[a].subject = auth[a].subject /\ auth'[a].satisfied = auth[a].satisfied
  <2>1. [Fresh EXCEPT !.consumed = auth[b].consumed].satisfied = {}
    BY DEF Fresh
  <2> QED
    BY <1>1, <1>2, <2>1 DEF ResetProgress
<1>3. ASSUME NEW b, NEW v, \/ auth' = [auth EXCEPT ![b].done = v]
                           \/ auth' = [auth EXCEPT ![b].consumed = v]
      PROVE  auth'[a].subject = auth[a].subject /\ auth'[a].satisfied = auth[a].satisfied
  BY <1>1, <1>3 DEF AuthRow
<1>4. ASSUME NEW t \in Tab, Pass(t), sub[t].attempt # a
      PROVE  auth'[a].subject = auth[a].subject /\ auth'[a].satisfied = auth[a].satisfied
  <2>1. PICK p, f, v :
          auth' = [auth EXCEPT ![sub[t].attempt].subject = p,
                               ![sub[t].attempt].satisfied = @ \union {f},
                               ![sub[t].attempt].done = v]
    BY <1>4 DEF Pass
  <2> QED
    BY <1>1, <1>4, <2>1
<1>5. \/ \E t \in Tab : Pass(t)
      \/ \E b : ResetProgress(b)
      \/ \E b, v : \/ auth' = [auth EXCEPT ![b].done = v]
                   \/ auth' = [auth EXCEPT ![b].consumed = v]
      \/ UNCHANGED auth
  BY DEF Next, Advance, Finish, Submit, Consent, Resume, Challenge, JudgeRight, JudgeWrong,
         ReadFailures, Record, Contend, RefuseMismatch, RefuseReplayed, TurnAway, Park,
         Proceed, RefuseDisabled, RefuseConsumed, Complete, TakeCookies, Disable,
         ClearLockout, Tick, vars, attempts
<1> QED
  BY <1>2, <1>3, <1>4, <1>5

\* What a passed factor writes.
LEMMA PassWrites ==
    ASSUME Shapes, NEW t \in Tab, Pass(t)
    PROVE  /\ sub[t] \in LoadedSub /\ sub[t].pc = "right"
           /\ sub[t].attempt \in Attempt
           /\ sub[t].who \in Person
           /\ Account(sub[t]) = sub[t].who
           /\ sub[t].subject \in {None, sub[t].who}
           /\ StepOf(sub[t]) \in Factor
           /\ auth'[sub[t].attempt].subject = sub[t].who
           /\ auth'[sub[t].attempt].satisfied =
                auth[sub[t].attempt].satisfied \union {StepOf(sub[t])}
           /\ proven' = [proven EXCEPT ![sub[t].attempt] =
                           @ \union {<<sub[t].who, StepOf(sub[t])>>}]
           /\ \/ sub'[t] = Idle
              \/ /\ sub'[t] = [pc |-> "passed", attempt |-> sub[t].attempt, who |-> sub[t].who,
                               subject |-> sub[t].who,
                               amr |-> sub[t].satisfied \union {StepOf(sub[t])},
                               header |-> sub[t].header]
                 /\ NextStep(sub[t].who, sub[t].satisfied \union {StepOf(sub[t])}) = "complete"
<1> DEFINE s == sub[t]
<1>1. s \in LoadedSub /\ s.pc = "right" /\ s.who \in Person /\ Account(s) = s.who
  BY DEF Pass, Shapes, Subs, SubShape
<1>2. s.attempt \in Attempt /\ s.subject \in Person \union {None}
  BY <1>1 DEF LoadedSub
<1>3. s.subject \in {None, s.who}
  BY <1>1, <1>2 DEF Pass, Mismatched
<1>4. StepOf(s) \in Factor
  BY StepOfFactor
<1>5. PICK v :
        auth' = [auth EXCEPT ![s.attempt].subject = s.who,
                             ![s.attempt].satisfied = @ \union {StepOf(s)},
                             ![s.attempt].done = v]
  BY <1>1 DEF Pass
<1>6. auth \in [Attempt -> AuthRow] /\ auth[s.attempt] \in AuthRow
  BY <1>2 DEF Shapes, Rows
<1>7. /\ auth'[s.attempt].subject = s.who
      /\ auth'[s.attempt].satisfied = auth[s.attempt].satisfied \union {StepOf(s)}
  <2> HIDE DEF s
  <2> QED
    BY <1>2, <1>5, <1>6 DEF AuthRow
<1>8. proven' = [proven EXCEPT ![s.attempt] = @ \union {<<s.who, StepOf(s)>>}]
  BY <1>1 DEF Pass
<1>9. \/ sub'[t] = Idle
      \/ /\ sub'[t] = [pc |-> "passed", attempt |-> s.attempt, who |-> s.who,
                       subject |-> s.who, amr |-> s.satisfied \union {StepOf(s)},
                       header |-> s.header]
         /\ NextStep(s.who, s.satisfied \union {StepOf(s)}) = "complete"
  BY <1>1 DEF Pass, Shapes, Subs
<1> QED
  BY <1>1, <1>2, <1>3, <1>4, <1>7, <1>8, <1>9

\* A tab other than the one a passed factor belongs to stays as it is.
LEMMA OtherTabs ==
    ASSUME Shapes, NEW t \in Tab, Pass(t), NEW u \in Tab, u # t
    PROVE  sub'[u] = sub[u]
<1>1. sub = [v \in Tab |-> sub[v]]
  BY DEF Shapes, Subs
<1>2. PICK s : sub' = [sub EXCEPT ![t] = s]
  BY DEF Pass
<1> QED
  BY <1>1, <1>2

LEMMA CompleteOwed ==
    ASSUME NEW p, NEW satisfied, NextStep(p, satisfied) = "complete"
    PROVE  Owed(p) \subseteq satisfied
BY DEF NextStep, Owed, Factor

LEMMA TogetherStep ==
    Shapes /\ ~ Rivals /\ Together /\ [Next]_vars => Together'
<1> SUFFICES ASSUME Shapes, ~ Rivals, Together, [Next]_vars,
                    NEW t \in Tab, NEW u \in Tab,
                    sub'[t].pc # "idle", sub'[u].pc # "idle",
                    sub'[t].attempt = sub'[u].attempt,
                    sub'[t].who # None, sub'[u].who # None
             PROVE  sub'[t].who = sub'[u].who
  BY DEF Together
<1>1. ASSUME NEW v \in Tab, NEW w \in Tab, NEW a \in Attempt,
             sub'[v].pc # "idle", sub'[w].pc # "idle",
             sub'[v].attempt = sub'[w].attempt, sub'[v].who # None, sub'[w].who # None,
             Consent(v, a) \/ \E input \in Inputs : Submit(v, a, input)
      PROVE  sub'[v].who = sub'[w].who
  <2>0. sub = [x \in Tab |-> sub[x]]
    BY DEF Shapes, Subs
  <2>1. CASE v = w
    BY <2>1
  <2>2. CASE Consent(v, a)
    BY <1>1, <2>0, <2>2 DEF Consent
  <2>3. ASSUME v # w, NEW input \in Inputs, Submit(v, a, input)
        PROVE  sub'[v].who = sub'[w].who
    <3>1. sub'[w] = sub[w] /\ sub'[v].who = input.who /\ sub'[v].attempt = a
      BY <2>0, <2>3 DEF Submit
    <3>2. w \in InFlight(a)
      BY <1>1, <3>1 DEF InFlight
    <3>3. sub[w].who \in {None, input.who}
      BY <1>1, <2>3, <3>1, <3>2 DEF Submit, MayOverlap
    <3> QED
      BY <1>1, <3>1, <3>3
  <2> QED
    BY <1>1, <2>1, <2>2, <2>3
<1>2. CASE \E a \in Attempt : Consent(t, a) \/ \E input \in Inputs : Submit(t, a, input)
  BY <1>1, <1>2
<1>3. CASE \E a \in Attempt : Consent(u, a) \/ \E input \in Inputs : Submit(u, a, input)
  BY <1>1, <1>3
<1>4. CASE /\ sub[t].pc # "idle" /\ sub'[t].attempt = sub[t].attempt /\ sub'[t].who = sub[t].who
           /\ sub[u].pc # "idle" /\ sub'[u].attempt = sub[u].attempt /\ sub'[u].who = sub[u].who
  BY <1>4 DEF Together
<1> QED
  BY <1>2, <1>3, <1>4, Identity
LEMMA CoherentStep ==
    Shapes /\ Together /\ Coherent /\ [Next]_vars => Coherent'
<1> SUFFICES ASSUME Shapes, Together, Coherent, [Next]_vars, NEW t \in Tab,
                    sub'[t].pc \in {"loaded", "right"}, sub'[t].who # None,
                    auth'[sub'[t].attempt].satisfied # {}
             PROVE  auth'[sub'[t].attempt].subject \in {sub'[t].subject, sub'[t].who}
  BY DEF Coherent, Bound
<1>0. sub = [u \in Tab |-> sub[u]]
  BY DEF Shapes, Subs
<1>1. ASSUME NEW a \in Attempt, Consent(t, a) \/ \E input \in Inputs : Submit(t, a, input)
      PROVE  auth'[sub'[t].attempt].subject \in {sub'[t].subject, sub'[t].who}
  <2>1. CASE Consent(t, a)
    BY <1>0, <2>1 DEF Consent
  <2>2. ASSUME NEW input \in Inputs, Submit(t, a, input)
        PROVE  auth'[sub'[t].attempt].subject \in {sub'[t].subject, sub'[t].who}
    <3>1. sub'[t].attempt = a /\ sub'[t].subject = auth[a].subject /\ auth' = auth
      BY <1>0, <2>2 DEF Submit, attempts
    <3> QED
      BY <3>1
  <2> QED
    BY <1>1, <2>1, <2>2
<1>2. ASSUME sub[t].pc # "idle", sub'[t].attempt = sub[t].attempt, sub'[t].who = sub[t].who,
             Bound(t), sub'[t].subject = sub[t].subject
      PROVE  auth'[sub'[t].attempt].subject \in {sub'[t].subject, sub'[t].who}
  <2> DEFINE a == sub[t].attempt
  <2>1. a \in Attempt
    BY <1>2 DEF Bound, Shapes, Subs, SubShape, LoadedSub
  <2>2. CASE auth'[a].subject = auth[a].subject /\ auth'[a].satisfied = auth[a].satisfied
    BY <1>2, <2>2 DEF Coherent
  <2>3. CASE auth'[a].satisfied = {}
    BY <1>2, <2>3
  <2>4. ASSUME NEW u \in Tab, Pass(u), sub[u].attempt = a
        PROVE  auth'[sub'[t].attempt].subject \in {sub'[t].subject, sub'[t].who}
    <3>1. /\ sub[u].pc = "right" /\ sub[u].who \in Person
          /\ auth'[a].subject = sub[u].who
      BY <2>4, PassWrites
    <3>2. sub[u].who = sub[t].who
      BY <1>2, <2>4, <3>1, PeopleAssumption DEF Together
    <3> QED
      BY <1>2, <3>1, <3>2
  <2> QED
    BY <2>1, <2>2, <2>3, <2>4, AttemptStep
<1> QED
  BY <1>1, <1>2, Identity

LEMMA NobodyPassed ==
    ASSUME Shapes, NEW a \in Attempt, NEW f
    PROVE  <<None, f>> \notin proven[a]
<1>1. proven[a] \subseteq Person \X Factor
  BY DEF Shapes, Rows
<1> QED
  BY <1>1, PeopleAssumption

LEMMA OnePersonStep ==
    Shapes /\ Coherent /\ OnePersonPerAttempt /\ [Next]_vars => OnePersonPerAttempt'
<1> SUFFICES ASSUME Shapes, Coherent, OnePersonPerAttempt, [Next]_vars,
                    NEW a \in Attempt, NEW f \in auth'[a].satisfied
             PROVE  <<auth'[a].subject, f>> \in proven'[a]
  BY DEF OnePersonPerAttempt
<1>1. proven[a] \subseteq proven'[a]
  BY ProvenGrows
<1>2. CASE auth'[a].subject = auth[a].subject /\ auth'[a].satisfied = auth[a].satisfied
  BY <1>1, <1>2 DEF OnePersonPerAttempt
<1>3. CASE auth'[a].satisfied = {}
  BY <1>3
<1>4. ASSUME NEW t \in Tab, Pass(t), sub[t].attempt = a
      PROVE  <<auth'[a].subject, f>> \in proven'[a]
  <2>1. /\ sub[t].pc = "right" /\ sub[t].who \in Person
        /\ sub[t].subject \in {None, sub[t].who}
        /\ auth'[a].subject = sub[t].who
        /\ auth'[a].satisfied = auth[a].satisfied \union {StepOf(sub[t])}
        /\ proven' = [proven EXCEPT ![a] = @ \union {<<sub[t].who, StepOf(sub[t])>>}]
    BY <1>4, PassWrites
  <2>2. proven'[a] = proven[a] \union {<<sub[t].who, StepOf(sub[t])>>}
    BY <2>1 DEF Shapes, Rows
  <2>3. CASE f = StepOf(sub[t])
    BY <2>1, <2>2, <2>3
  <2>4. CASE f \in auth[a].satisfied
    <3>1. auth[a].subject \in {sub[t].subject, sub[t].who}
      BY <1>4, <2>1, <2>4, PeopleAssumption DEF Coherent, Bound
    <3>2. <<auth[a].subject, f>> \in proven[a]
      BY <2>4 DEF OnePersonPerAttempt
    <3>3. auth[a].subject # None
      BY <3>2, NobodyPassed
    <3> QED
      BY <1>1, <2>1, <3>1, <3>2, <3>3
  <2> QED
    BY <2>1, <2>3, <2>4
<1> QED
  BY <1>2, <1>3, <1>4, AttemptStep

LEMMA ReadStep ==
    Shapes /\ OnePersonPerAttempt /\ ReadProven /\ [Next]_vars => ReadProven'
<1> SUFFICES ASSUME Shapes, OnePersonPerAttempt, ReadProven, [Next]_vars, NEW t \in Tab,
                    sub'[t].pc \in {"loaded", "right"}, NEW f \in sub'[t].satisfied
             PROVE  <<sub'[t].subject, f>> \in proven'[sub'[t].attempt]
  BY DEF ReadProven, Bound
<1>0. sub = [u \in Tab |-> sub[u]]
  BY DEF Shapes, Subs
<1>1. ASSUME NEW a \in Attempt, Consent(t, a) \/ \E input \in Inputs : Submit(t, a, input)
      PROVE  <<sub'[t].subject, f>> \in proven'[sub'[t].attempt]
  <2>1. CASE Consent(t, a)
    BY <1>0, <2>1 DEF Consent
  <2>2. ASSUME NEW input \in Inputs, Submit(t, a, input)
        PROVE  <<sub'[t].subject, f>> \in proven'[sub'[t].attempt]
    <3>1. /\ sub'[t].attempt = a /\ sub'[t].subject = auth[a].subject
          /\ sub'[t].satisfied = auth[a].satisfied /\ proven' = proven
      BY <1>0, <2>2 DEF Submit, attempts
    <3> QED
      BY <3>1 DEF OnePersonPerAttempt
  <2> QED
    BY <1>1, <2>1, <2>2
<1>2. ASSUME sub'[t].attempt = sub[t].attempt, Bound(t), sub'[t].subject = sub[t].subject,
             sub'[t].satisfied = sub[t].satisfied
      PROVE  <<sub'[t].subject, f>> \in proven'[sub'[t].attempt]
  <2>1. sub[t].attempt \in Attempt
    BY <1>2 DEF Bound, Shapes, Subs, SubShape, LoadedSub
  <2> QED
    BY <1>2, <2>1, ProvenGrows DEF ReadProven
<1> QED
  BY <1>1, <1>2, Identity

\* Where the factors a submission is about to state come from.
LEMMA StatedFrom ==
    ASSUME Shapes, [Next]_vars, NEW t \in Tab,
           sub'[t].pc \in {"passed", "completing", "consenting"}
    PROVE  \/ /\ Passing(t)
              /\ sub'[t].attempt = sub[t].attempt
              /\ sub'[t].subject = sub[t].subject
              /\ sub'[t].amr = sub[t].amr
           \/ \E a \in Attempt : Consent(t, a)
           \/ Resume(t)
           \/ Pass(t)
<1> SUFFICES ASSUME ~ (\E a \in Attempt : Consent(t, a)), ~ Resume(t), ~ Pass(t)
             PROVE  /\ Passing(t)
                    /\ sub'[t].attempt = sub[t].attempt
                    /\ sub'[t].subject = sub[t].subject
                    /\ sub'[t].amr = sub[t].amr
  OBVIOUS
<1>0. sub = [u \in Tab |-> sub[u]]
  BY DEF Shapes, Subs
<1>1. CASE sub'[t] = sub[t]
  BY <1>1 DEF Passing
<1>2. ASSUME NEW u \in Tab, u # t, NEW s, sub' = [sub EXCEPT ![u] = s] PROVE sub'[t] = sub[t]
  BY <1>0, <1>2
<1>3. CASE Proceed(t)
  <2>1. sub'[t] = [sub[t] EXCEPT !.pc = "completing"] /\ sub[t].pc = "passed"
    BY <1>0, <1>3 DEF Proceed
  <2>2. sub[t] \in PassedSub
    BY <2>1 DEF Shapes, Subs, SubShape
  <2> QED
    BY <2>1, <2>2 DEF PassedSub, Passing
<1>4. ASSUME NEW u \in Tab,
             \/ \E a \in Attempt : Consent(u, a) \/ \E input \in Inputs : Submit(u, a, input)
             \/ Advance(u) \/ Finish(u)
      PROVE  \E s : sub' = [sub EXCEPT ![u] = s]
  <2>1. ASSUME JudgeRight(u) \/ Proceed(u) PROVE \E s : sub' = [sub EXCEPT ![u] = s]
    <3>1. \/ sub' = [sub EXCEPT ![u] = [sub[u] EXCEPT !.pc = "right"]]
          \/ sub' = [sub EXCEPT ![u] = [sub[u] EXCEPT !.pc = "completing"]]
      BY <2>1 DEF JudgeRight, Proceed
    <3> QED
      BY <3>1
  <2> QED
    BY <1>4, <2>1
       DEF Advance, Finish, Submit, Consent, Resume, Challenge, JudgeWrong, ReadFailures,
           Record, Contend, RefuseMismatch, RefuseReplayed, Pass, TurnAway, Park,
           RefuseDisabled, RefuseConsumed, Complete, TakeCookies
<1>5. ASSUME \/ \E a \in Attempt, input \in Inputs : Submit(t, a, input)
             \/ Challenge(t) \/ JudgeWrong(t) \/ ReadFailures(t) \/ Record(t) \/ Contend(t)
             \/ RefuseMismatch(t) \/ RefuseReplayed(t) \/ TurnAway(t) \/ Park(t)
             \/ RefuseDisabled(t) \/ RefuseConsumed(t) \/ Complete(t) \/ TakeCookies(t)
      PROVE  FALSE
  <2>1. sub'[t].pc \in {"loaded", "failing", "counting", "answering", "idle"}
    BY <1>0, <1>5 DEF Submit, Challenge, JudgeWrong, ReadFailures, Record, Contend,
       RefuseMismatch, RefuseReplayed, TurnAway, Park, RefuseDisabled, RefuseConsumed,
       Complete, TakeCookies, Idle, Failing
  <2> QED
    BY <2>1
<1>6. ASSUME JudgeRight(t) PROVE FALSE
  <2>1. sub'[t] = [sub[t] EXCEPT !.pc = "right"] /\ sub[t].pc = "loaded"
    BY <1>0, <1>6 DEF JudgeRight, Judged
  <2>2. sub[t] \in LoadedSub
    BY <2>1 DEF Shapes, Subs, SubShape
  <2>3. sub'[t].pc = "right"
    BY <2>1, <2>2 DEF LoadedSub
  <2> QED
    BY <2>3
<1>7. \/ UNCHANGED sub
      \/ \E u \in Tab : \/ \E a \in Attempt : Consent(u, a) \/ \E input \in Inputs : Submit(u, a, input)
                        \/ Advance(u) \/ Finish(u)
  <2>1. ASSUME NEW p \in Person, Disable(p) \/ ClearLockout(p) PROVE UNCHANGED sub
    BY <2>1 DEF Disable, ClearLockout
  <2>2. ASSUME UNCHANGED vars PROVE UNCHANGED sub
    BY <2>2 DEF vars
  <2>3. ASSUME Tick PROVE UNCHANGED sub
    BY <2>3 DEF Tick
  <2> QED
    BY <2>1, <2>2, <2>3 DEF Next
<1>8. CASE UNCHANGED sub
  BY <1>1, <1>8
<1>9. CASE \E u \in Tab \ {t} : \/ \E a \in Attempt : Consent(u, a) \/ \E input \in Inputs : Submit(u, a, input)
                                \/ Advance(u) \/ Finish(u)
  <2>1. sub'[t] = sub[t]
    BY <1>2, <1>4, <1>9
  <2> QED
    BY <1>1, <2>1
<1>10. CASE \/ \E a \in Attempt : Consent(t, a) \/ \E input \in Inputs : Submit(t, a, input)
            \/ Advance(t) \/ Finish(t)
  BY <1>3, <1>5, <1>6, <1>10 DEF Advance, Finish
<1> QED
  BY <1>7, <1>8, <1>9, <1>10

LEMMA StatedStep ==
    Shapes /\ OnePersonPerAttempt /\ ReadProven /\ StatedProven /\ [Next]_vars => StatedProven'
<1> SUFFICES ASSUME Shapes, OnePersonPerAttempt, ReadProven, StatedProven, [Next]_vars,
                    NEW t \in Tab, sub'[t].pc \in {"passed", "completing", "consenting"}
             PROVE  /\ \A f \in sub'[t].amr : <<sub'[t].subject, f>> \in proven'[sub'[t].attempt]
                    /\ Owed(sub'[t].subject) \subseteq sub'[t].amr
  BY DEF StatedProven, Passing, Owed
<1>0. sub = [u \in Tab |-> sub[u]]
  BY DEF Shapes, Subs
<1> DEFINE Good == /\ \A f \in sub'[t].amr : <<sub'[t].subject, f>> \in proven'[sub'[t].attempt]
                   /\ Owed(sub'[t].subject) \subseteq sub'[t].amr
<1>1. ASSUME Passing(t), sub'[t].attempt = sub[t].attempt, sub'[t].subject = sub[t].subject,
             sub'[t].amr = sub[t].amr
      PROVE  Good
  <2>1. sub[t].attempt \in Attempt
    BY <1>1 DEF Passing, Shapes, Subs, SubShape, PassedSub
  <2> QED
    BY <1>1, <2>1, ProvenGrows DEF StatedProven
<1>2. ASSUME NEW a \in Attempt, Consent(t, a) PROVE Good
  <2>1. /\ sub'[t].attempt = a /\ sub'[t].subject = auth[a].subject
        /\ sub'[t].amr = auth[a].satisfied /\ proven' = proven
        /\ NextStep(auth[a].subject, auth[a].satisfied) = "complete"
    BY <1>0, <1>2 DEF Consent, attempts
  <2>2. Owed(auth[a].subject) \subseteq auth[a].satisfied
    BY <2>1, CompleteOwed
  <2> QED
    BY <2>1, <2>2 DEF OnePersonPerAttempt
<1>3. ASSUME Resume(t) PROVE Good
  <2>1. /\ sub'[t].attempt = sub[t].attempt /\ sub'[t].subject = sub[t].subject
        /\ sub'[t].amr = sub[t].satisfied /\ proven' = proven
        /\ NextStep(sub[t].subject, sub[t].satisfied) = "complete"
        /\ sub[t].pc = "loaded"
    BY <1>0, <1>3 DEF Resume, Finished
  <2>2. Owed(sub[t].subject) \subseteq sub[t].satisfied
    BY <2>1, CompleteOwed
  <2> QED
    BY <2>1, <2>2 DEF ReadProven, Bound
<1>4. ASSUME Pass(t) PROVE Good
  <2> DEFINE s == sub[t]
             amr == s.satisfied \union {StepOf(s)}
  <2>1. /\ s.pc = "right" /\ s.attempt \in Attempt
        /\ s.subject \in {None, s.who}
        /\ proven' = [proven EXCEPT ![s.attempt] = @ \union {<<s.who, StepOf(s)>>}]
    BY <1>4, PassWrites
  <2>2. /\ sub'[t].attempt = s.attempt /\ sub'[t].subject = s.who /\ sub'[t].amr = amr
        /\ NextStep(s.who, amr) = "complete"
    <3>1. sub'[t] # Idle
      BY DEF Idle
    <3>2. /\ sub'[t] = [pc |-> "passed", attempt |-> sub[t].attempt, who |-> sub[t].who,
                        subject |-> sub[t].who,
                        amr |-> sub[t].satisfied \union {StepOf(sub[t])},
                        header |-> sub[t].header]
          /\ NextStep(sub[t].who, sub[t].satisfied \union {StepOf(sub[t])}) = "complete"
      BY <1>4, <3>1, PassWrites
    <3> QED
      BY <3>2
  <2>3. Owed(s.who) \subseteq amr
    <3> HIDE DEF amr, s
    <3> QED
      BY <2>2, CompleteOwed
  <2>4. proven'[s.attempt] = proven[s.attempt] \union {<<s.who, StepOf(s)>>}
    BY <2>1 DEF Shapes, Rows
  <2>5. \A f \in s.satisfied : <<s.who, f>> \in proven[s.attempt]
    BY <2>1, NobodyPassed DEF ReadProven, Bound
  <2> QED
    BY <2>2, <2>3, <2>4, <2>5
<1> QED
  BY <1>1, <1>2, <1>3, <1>4, StatedFrom

LEMMA EarnedStep ==
    Shapes /\ StatedProven /\ SessionEarned /\ [Next]_vars => SessionEarned'
<1> SUFFICES ASSUME Shapes, StatedProven, SessionEarned, [Next]_vars PROVE SessionEarned'
  OBVIOUS
<1>1. \A i \in DOMAIN session : session[i].attempt \in Attempt
  <2>1. \A i \in DOMAIN session : session[i] \in Session
    BY DEF Shapes, Rows
  <2> QED
    BY <2>1 DEF Session
<1>2. \A i \in DOMAIN session :
        /\ \A f \in session[i].amr : <<session[i].subject, f>> \in proven'[session[i].attempt]
        /\ Owed(session[i].subject) \subseteq session[i].amr
  BY <1>1, ProvenGrows DEF SessionEarned
<1>3. CASE UNCHANGED session
  BY <1>2, <1>3 DEF SessionEarned, Owed
<1>4. ASSUME NEW t \in Tab, Complete(t) PROVE SessionEarned'
  <2> DEFINE n == Len(session) + 1
             e == [attempt |-> sub[t].attempt, subject |-> sub[t].subject, amr |-> sub[t].amr]
  <2>1. /\ DOMAIN session' = DOMAIN session \union {n}
        /\ \A i \in DOMAIN session : session'[i] = session[i]
        /\ session'[n] = e
    BY <1>4, Appended
  <2>2. /\ \A f \in sub[t].amr : <<sub[t].subject, f>> \in proven[sub[t].attempt]
        /\ Owed(sub[t].subject) \subseteq sub[t].amr
    BY <1>4 DEF Complete, Completing, StatedProven, Passing
  <2>3. proven' = proven
    BY <1>4 DEF Complete
  <2>4. e.attempt = sub[t].attempt /\ e.subject = sub[t].subject /\ e.amr = sub[t].amr
    OBVIOUS
  <2> HIDE DEF n, e
  <2>5. /\ \A f \in e.amr : <<e.subject, f>> \in proven'[e.attempt]
        /\ Owed(e.subject) \subseteq e.amr
    BY <2>2, <2>3, <2>4
  <2>6. \A i \in DOMAIN session' :
          /\ \A f \in session'[i].amr : <<session'[i].subject, f>> \in proven'[session'[i].attempt]
          /\ Owed(session'[i].subject) \subseteq session'[i].amr
    BY <1>2, <2>1, <2>5
  <2> QED
    BY <2>6 DEF SessionEarned, Owed
<1> QED
  BY <1>3, <1>4, SessionStep

LEMMA PersonInit == Init => PersonInv
BY DEF Init, PersonInv, Together, Coherent, OnePersonPerAttempt, ReadProven, StatedProven,
       SessionEarned, Bound, Passing, Fresh, Idle

LEMMA PersonInvariant == ASSUME ~ Rivals PROVE Spec => []PersonInv
<1>1. Shapes /\ PersonInv /\ [Next]_vars => PersonInv'
  BY TogetherStep, CoherentStep, OnePersonStep, ReadStep, StatedStep, EarnedStep DEF PersonInv
<1> QED
  BY <1>1, PersonInit, ShapesInvariant, PTL DEF Spec

\* Where people do not overlap on an attempt, its factors were all passed by the
\* subject it is bound to (the subject guard of advance).
THEOREM OnePersonWithoutRivals == ASSUME ~ Rivals PROVE Spec => []OnePersonPerAttempt
<1>1. PersonInv => OnePersonPerAttempt
  BY DEF PersonInv
<1> QED
  BY <1>1, PersonInvariant, PTL

\* And a session states what its own subject passed in its attempt, all they owe.
THEOREM SessionsAreEarned == ASSUME ~ Rivals PROVE Spec => []SessionEarned
<1>1. PersonInv => SessionEarned
  BY DEF PersonInv
<1> QED
  BY <1>1, PersonInvariant, PTL
-----------------------------------------------------------------------------
(* SignIn implements Logins *)

\* A code that passes is of a later step than the last one of its account.
LEMMA LaterCode ==
    ASSUME Shapes, NEW t \in Tab, Pass(t)
    PROVE  IF StepOf(sub[t]) = "otp" THEN Promise!UseCode(sub[t].who) ELSE UNCHANGED lastStep
<1> DEFINE s == sub[t]
<1>1. s \in LoadedSub /\ s.who = s.input.who /\ Answers(s) /\ Account(s) = s.who
  BY DEF Pass, Shapes, Subs, SubShape
<1>2. StepOf(s) = "otp" => s.subject = s.who /\ s.who \in Person /\ s.input.step \in Nat
  BY <1>1, JudgedAccount DEF Codes
<1>3. StepOf(s) = "otp" => lastStep[s.subject] < s.input.step
  BY DEF Pass, Unused
<1>4. lastStep' = IF StepOf(s) = "otp"
                  THEN [lastStep EXCEPT ![s.subject] = s.input.step] ELSE lastStep
  BY DEF Pass, SpendCode
<1>5. lastStep \in [Person -> Nat]
  BY DEF Shapes, Rows
<1> HIDE DEF s
<1>6. CASE StepOf(s) = "otp"
  <2>1. lastStep' = [lastStep EXCEPT ![s.who] = s.input.step]
    BY <1>2, <1>4, <1>6
  <2>2. lastStep' \in [Person -> Nat] /\ lastStep'[s.who] = s.input.step
    BY <1>2, <1>5, <1>6, <2>1
  <2>3. \A q \in Person \ {s.who} : lastStep'[q] = lastStep[q]
    BY <1>5, <2>1
  <2>4. lastStep'[s.who] > lastStep[s.who]
    BY <1>2, <1>3, <1>5, <1>6, <2>2
  <2>5. Promise!UseCode(s.who)
    BY <2>2, <2>3, <2>4 DEF Promise!UseCode
  <2> QED
    BY <1>6, <2>5 DEF s
<1>7. CASE StepOf(s) # "otp"
  BY <1>4, <1>7 DEF s
<1> QED
  BY <1>6, <1>7

LEMMA PassPromised ==
    ASSUME Shapes, NEW t \in Tab, Pass(t)
    PROVE  Promise!Next
<1> DEFINE s == sub[t]
<1>1. /\ s.attempt \in Attempt /\ s.who \in Person /\ StepOf(s) \in Factor
      /\ proven' = [proven EXCEPT ![s.attempt] = @ \union {<<s.who, StepOf(s)>>}]
  BY PassWrites
<1>2. UNCHANGED session
  BY DEF Pass, browser
<1>3. IF StepOf(s) = "otp" THEN Promise!UseCode(s.who) ELSE UNCHANGED lastStep
  BY LaterCode
<1> HIDE DEF s
<1>4. Promise!PassFactor(s.attempt, s.who, StepOf(s))
  BY <1>1, <1>2, <1>3 DEF Promise!PassFactor
<1> QED
  BY <1>1, <1>4 DEF Promise!Next

LEMMA CompletePromised ==
    ASSUME Shapes, Spent, StatedProven, NEW t \in Tab, Complete(t)
    PROVE  Promise!Next
<1> DEFINE s == sub[t]
<1>1. s \in PassedSub /\ ~ auth[s.attempt].consumed
  BY Appended
<1>2. s.attempt \in Attempt /\ s.subject \in Person /\ s.amr \in SUBSET Factor
  BY <1>1 DEF PassedSub
<1>3. \A i \in DOMAIN session : session[i].attempt # s.attempt
  BY <1>1 DEF Spent
<1>4. /\ \A f \in s.amr : <<s.subject, f>> \in proven[s.attempt]
      /\ Owed(s.subject) \subseteq s.amr
  BY DEF Complete, Completing, StatedProven, Passing
<1>5. /\ session' = Append(session, [attempt |-> s.attempt, subject |-> s.subject,
                                     amr |-> s.amr])
      /\ UNCHANGED <<proven, lastStep>>
  BY DEF Complete
<1> HIDE DEF s
<1>6. Promise!Grant(s.attempt, s.subject, s.amr)
  BY <1>3, <1>4, <1>5 DEF Promise!Grant
<1> QED
  BY <1>2, <1>6 DEF Promise!Next

\* Every step but a passed factor and a completion leaves the promise's state.
LEMMA PromiseStutters ==
    ASSUME [Next]_vars
    PROVE  \/ \E t \in Tab : Pass(t) \/ Complete(t)
           \/ UNCHANGED <<proven, lastStep, session>>
BY DEF Next, Advance, Finish, Submit, Consent, Resume, Challenge, JudgeRight, JudgeWrong,
       ReadFailures, Record, Contend, RefuseMismatch, RefuseReplayed, TurnAway, Park,
       Proceed, RefuseDisabled, RefuseConsumed, TakeCookies, Disable, ClearLockout, Tick,
       vars, attempts, browser

\* Where people do not overlap on an attempt, signing in keeps the promise of
\* Logins: every step is a factor passed, a session granted, or no step at all.
THEOREM SignInImplementsLogins == ASSUME ~ Rivals PROVE Spec => ImplementsLogins
<1>1. Init => Promise!Init
  BY DEF Init, Promise!Init
<1>2. Shapes /\ Spent /\ PersonInv /\ [Next]_vars => [Promise!Next]_(Promise!vars)
  <2> SUFFICES ASSUME Shapes, Spent, PersonInv, [Next]_vars
               PROVE  Promise!Next \/ UNCHANGED Promise!vars
    BY DEF Promise!vars
  <2>1. UNCHANGED <<proven, lastStep, session>> => UNCHANGED Promise!vars
    BY DEF Promise!vars
  <2> QED
    BY <2>1, PassPromised, CompletePromised, PromiseStutters DEF PersonInv
<1> QED
  BY <1>1, <1>2, ShapesInvariant, SpentInvariant, PersonInvariant, PTL
     DEF Spec, ImplementsLogins, Promise!Spec

-----------------------------------------------------------------------------
(* The cap on the browser's sessions *)

\* The cookies a request in flight presents prove sessions that exist; one whose
\* session is committed leaves room for it among those it presented.
Presents(s) == s.pc \in {"loaded", "right", "passed", "completing", "consenting", "answering"}

Jars ==
    /\ ended \subseteq DOMAIN session
    /\ jar \subseteq DOMAIN session
    /\ \A t \in Tab : Presents(sub[t]) => sub[t].header \subseteq DOMAIN session

Roomy ==
    \A t \in Tab : sub[t].pc = "answering" =>
        /\ sub[t].own \in DOMAIN session
        /\ Cardinality(sub[t].header \intersect Live) =< Cap - 1

LEMMA LeastOf ==
    ASSUME NEW K \in SUBSET Nat, K # {}
    PROVE  \E m \in K : \A j \in K : m =< j
<1> DEFINE R == {ss \in Nat \X Nat : ss[1] < ss[2]}
<1>1. IsWellFoundedOn(R, Nat)
  BY NatLessThanWellFounded, Zenon DEF OpToRel
<1> HIDE DEF R
<1>2. PICK m \in K : \A j \in K : ~ (<<j, m>> \in R)
  BY <1>1, WFMin
<1>3. \A j \in K : ~ (j < m)
  BY <1>2 DEF R
<1> QED
  BY <1>3

\* What chooseEvictions leaves of the sessions presented is one short of the cap:
\* those before the first it keeps are as many as one more would put over it.
LEMMA EvictionsMakeRoom ==
    ASSUME NEW H \in SUBSET Nat, IsFiniteSet(H)
    PROVE  Cardinality(H \ Evictions(H)) =< Cap - 1
<1> DEFINE K == H \ Evictions(H)
           Before(i) == {j \in H : j < i}
           surplus == Cardinality(H) + 1 - Cap
<1>1. Cap \in Nat \ {0} /\ Cardinality(H) \in Nat
  BY PolicyAssumption, FS_CardinalityType
<1>2. IsFiniteSet(K) /\ Cardinality(K) \in Nat
  BY FS_Difference, FS_CardinalityType
<1>3. \A i \in K : ~ (Cardinality(Before(i)) < surplus)
  BY DEF Evictions
<1>4. CASE K = {}
  BY <1>1, <1>4, FS_EmptySet
<1>5. CASE K # {}
  <2>1. PICK m \in K : \A j \in K : m =< j
    <3>1. K \in SUBSET Nat
      OBVIOUS
    <3> HIDE DEF K
    <3> QED
      BY <1>5, <3>1, LeastOf
  <2>2. Before(m) \in SUBSET H /\ K \in SUBSET H /\ Before(m) \intersect K = {}
    <3>1. K \in SUBSET H
      OBVIOUS
    <3>2. ASSUME NEW j \in K, j \in Before(m) PROVE FALSE
      <4>1. j < m /\ m =< j
        BY <2>1, <3>2
      <4>2. j \in Nat /\ m \in Nat
        BY <3>1
      <4> QED
        BY <4>1, <4>2
    <3> HIDE DEF K
    <3> QED
      BY <3>1, <3>2
  <2>3. ~ (Cardinality(Before(m)) < surplus)
    BY <1>3
  <2> HIDE DEF K, Before
  <2>4. IsFiniteSet(Before(m)) /\ Cardinality(Before(m)) \in Nat
    BY <2>2, FS_Subset, FS_CardinalityType
  <2>5. Cardinality(Before(m) \union K) = Cardinality(Before(m)) + Cardinality(K)
    <3>1. Cardinality(Before(m) \union K)
            = Cardinality(Before(m)) + Cardinality(K) - Cardinality(Before(m) \intersect K)
      BY <1>2, <2>4, FS_Union
    <3>2. Cardinality(Before(m) \intersect K) = 0
      BY <2>2, FS_EmptySet
    <3> QED
      BY <1>2, <2>4, <3>1, <3>2
  <2>6. Cardinality(Before(m) \union K) =< Cardinality(H)
    <3>1. Before(m) \union K \in SUBSET H
      BY <2>2
    <3> QED
      BY <3>1, FS_Subset
  <2>7. Cardinality(K) =< Cap - 1
    BY <1>1, <1>2, <2>3, <2>4, <2>5, <2>6
  <2> QED
    BY <2>7 DEF K
<1> QED
  BY <1>4, <1>5

LEMMA SessionsFinite ==
    ASSUME Shapes
    PROVE  DOMAIN session \in SUBSET Nat /\ IsFiniteSet(DOMAIN session)
<1>1. DOMAIN session = 1 .. Len(session) /\ Len(session) \in Nat
  BY DEF Shapes, Rows
<1> QED
  BY <1>1, FS_Interval

\* Sessions are added and ended, never removed or revived.
LEMMA LiveShrinks ==
    ASSUME Shapes, [Next]_vars
    PROVE  /\ DOMAIN session \subseteq DOMAIN session'
           /\ ended \subseteq ended'
           /\ \A i \in DOMAIN session : i \in Live' => i \in Live
<1>1. CASE UNCHANGED session
  <2>1. ended \subseteq ended'
    <3>1. ASSUME NEW t \in Tab, Complete(t) PROVE ended \subseteq ended'
      BY <3>1 DEF Complete
    <3>2. (\E t \in Tab : Complete(t)) \/ UNCHANGED ended
      BY DEF Next, Advance, Finish, Submit, Consent, Resume, Challenge, JudgeRight, JudgeWrong,
             ReadFailures, Record, Contend, RefuseMismatch, RefuseReplayed, Pass, TurnAway,
             Park, Proceed, RefuseDisabled, RefuseConsumed, TakeCookies, Disable,
             ClearLockout, Tick, vars, browser
    <3> QED
      BY <3>1, <3>2
  <2> QED
    BY <1>1, <2>1 DEF Live
<1>2. ASSUME NEW t \in Tab, Complete(t)
      PROVE  /\ DOMAIN session \subseteq DOMAIN session'
             /\ ended \subseteq ended'
             /\ \A i \in DOMAIN session : i \in Live' => i \in Live
  <2>1. DOMAIN session \subseteq DOMAIN session'
    BY <1>2, Appended
  <2>2. ended \subseteq ended'
    BY <1>2 DEF Complete
  <2> QED
    BY <2>1, <2>2 DEF Live
<1> QED
  BY <1>1, <1>2, SessionStep

\* So what a set of cookies proves only ever dwindles.
LEMMA ProvesLess ==
    ASSUME Shapes, [Next]_vars, NEW S, S \subseteq DOMAIN session
    PROVE  /\ Cardinality(S \intersect Live) \in Nat
           /\ Cardinality(S \intersect Live') \in Nat
           /\ Cardinality(S \intersect Live') =< Cardinality(S \intersect Live)
<1>1. IsFiniteSet(S)
  BY SessionsFinite, FS_Subset
<1>2. S \intersect Live' \in SUBSET (S \intersect Live)
  BY LiveShrinks
<1>3. IsFiniteSet(S \intersect Live)
  BY <1>1, FS_Intersection
<1> QED
  BY <1>2, <1>3, FS_Subset, FS_CardinalityType

\* How the cookies a tab presents come about: taken from the jar as its request
\* begins, and carried to its end.
LEMMA Presented ==
    ASSUME Shapes, [Next]_vars, NEW t \in Tab
    PROVE  \/ sub'[t] = sub[t]
           \/ sub'[t].pc \in {"idle", "failing", "counting"}
           \/ /\ Presents(sub[t])
              /\ sub'[t].pc \in {"right", "passed", "completing"}
              /\ sub'[t].header = sub[t].header
           \/ sub'[t].pc \in {"loaded", "consenting"} /\ sub'[t].header = jar
           \/ Complete(t)
<1> DEFINE Goal == \/ sub'[t] = sub[t]
                   \/ sub'[t].pc \in {"idle", "failing", "counting"}
                   \/ /\ Presents(sub[t])
                      /\ sub'[t].pc \in {"right", "passed", "completing"}
                      /\ sub'[t].header = sub[t].header
                   \/ sub'[t].pc \in {"loaded", "consenting"} /\ sub'[t].header = jar
                   \/ Complete(t)
<1> SUFFICES Goal
  OBVIOUS
<1>0. sub = [v \in Tab |-> sub[v]]
  BY DEF Shapes, Subs
<1>1. ASSUME NEW u \in Tab, NEW s, sub' = [sub EXCEPT ![u] = s],
             \/ s.pc \in {"idle", "failing", "counting"}
             \/ s.pc \in {"loaded", "consenting"} /\ s.header = jar
             \/ /\ Presents(sub[u]) /\ s.header = sub[u].header
                /\ s.pc \in {"right", "passed", "completing"}
      PROVE  Goal
  <2>1. t = u => sub'[t] = s
    BY <1>0, <1>1
  <2>2. t # u => sub'[t] = sub[t]
    BY <1>0, <1>1
  <2> QED
    BY <1>1, <2>1, <2>2
<1>2. ASSUME NEW u \in Tab, NEW a \in Attempt, NEW input \in Inputs, Submit(u, a, input)
      PROVE  Goal
  <2>1. PICK s : s.pc = "loaded" /\ s.header = jar /\ sub' = [sub EXCEPT ![u] = s]
    BY <1>2 DEF Submit
  <2> QED
    BY <1>1, <2>1
<1>3. ASSUME NEW u \in Tab, NEW a \in Attempt, Consent(u, a) PROVE Goal
  <2>1. PICK s : s.pc = "consenting" /\ s.header = jar /\ sub' = [sub EXCEPT ![u] = s]
    BY <1>3 DEF Consent
  <2> QED
    BY <1>1, <2>1
<1>4. ASSUME NEW u \in Tab,
             \/ Challenge(u) \/ Record(u) \/ RefuseMismatch(u) \/ TurnAway(u) \/ Park(u)
             \/ RefuseDisabled(u) \/ RefuseConsumed(u) \/ TakeCookies(u)
      PROVE  Goal
  <2>1. sub' = [sub EXCEPT ![u] = Idle]
    BY <1>4 DEF Challenge, Record, RefuseMismatch, TurnAway, Park, RefuseDisabled,
                RefuseConsumed, TakeCookies
  <2>2. Idle.pc = "idle"
    BY DEF Idle
  <2> HIDE DEF Goal
  <2> QED
    BY <1>1, <2>1, <2>2
<1>5. ASSUME NEW u \in Tab, JudgeWrong(u) \/ RefuseReplayed(u) \/ ReadFailures(u) \/ Contend(u)
      PROVE  Goal
  <2> DEFINE f == [pc |-> "failing", attempt |-> sub[u].attempt, who |-> sub[u].who,
                   account |-> sub[u].account, at |-> sub[u].at,
                   tries |-> sub[u].tries + 1]
             c == [pc |-> "counting", attempt |-> sub[u].attempt, who |-> sub[u].who,
                   account |-> sub[u].account, at |-> sub[u].at, tries |-> sub[u].tries,
                   observed |-> failures[sub[u].account]]
  <2>1. \/ sub' = [sub EXCEPT ![u] = Failing(sub[u])]
        \/ sub' = [sub EXCEPT ![u] = c]
        \/ sub' = [sub EXCEPT ![u] = f]
        \/ sub' = [sub EXCEPT ![u] = Idle]
    BY <1>5 DEF JudgeWrong, RefuseReplayed, ReadFailures, Contend
  <2>2. /\ Failing(sub[u]).pc = "failing"
        /\ f.pc = "failing"
        /\ c.pc = "counting"
        /\ Idle.pc = "idle"
    BY DEF Failing, Idle
  <2> HIDE DEF Goal, f, c
  <2> QED
    BY <1>1, <2>1, <2>2
<1>6. ASSUME NEW u \in Tab, Resume(u) \/ Pass(u) PROVE Goal
  <2>1. Presents(sub[u])
    BY <1>6 DEF Resume, Pass, Presents
  <2> DEFINE s == [pc |-> "passed", attempt |-> sub[u].attempt, who |-> sub[u].who,
                   subject |-> sub[u].subject, amr |-> sub[u].satisfied,
                   header |-> sub[u].header]
             r == [pc |-> "passed", attempt |-> sub[u].attempt, who |-> sub[u].who,
                   subject |-> Account(sub[u]),
                   amr |-> sub[u].satisfied \union {StepOf(sub[u])},
                   header |-> sub[u].header]
  <2>2. \/ sub' = [sub EXCEPT ![u] = s]
        \/ sub' = [sub EXCEPT ![u] = r]
        \/ sub' = [sub EXCEPT ![u] = Idle]
    BY <1>6 DEF Resume, Pass
  <2>3. /\ s.pc = "passed" /\ s.header = sub[u].header
        /\ r.pc = "passed" /\ r.header = sub[u].header
        /\ Idle.pc = "idle"
    BY DEF Idle
  <2> HIDE DEF Goal, s, r
  <2> QED
    BY <1>1, <2>1, <2>2, <2>3
<1>7. ASSUME NEW u \in Tab, JudgeRight(u) \/ Proceed(u) PROVE Goal
  <2>1. sub[u] \in LoadedSub \/ sub[u] \in PassedSub
    BY <1>7 DEF JudgeRight, Judged, Proceed, Shapes, Subs, SubShape
  <2>2. Presents(sub[u])
    BY <1>7 DEF JudgeRight, Judged, Proceed, Presents
  <2>3. PICK v \in {"right", "completing"} : sub' = [sub EXCEPT ![u] = [sub[u] EXCEPT !.pc = v]]
    BY <1>7 DEF JudgeRight, Proceed
  <2>4. [sub[u] EXCEPT !.pc = v].pc = v /\ [sub[u] EXCEPT !.pc = v].header = sub[u].header
    BY <2>1 DEF LoadedSub, PassedSub
  <2> QED
    BY <1>1, <2>2, <2>3, <2>4
<1>8. ASSUME NEW u \in Tab, Complete(u) PROVE Goal
  <2>1. t # u => sub'[t] = sub[t]
    BY <1>0, <1>8 DEF Complete
  <2> QED
    BY <1>8, <2>1
<1>9. ASSUME UNCHANGED sub PROVE Goal
  BY <1>9
<1> HIDE DEF Goal
<1>10. CASE \E p \in Person : Disable(p) \/ ClearLockout(p)
  BY <1>9, <1>10 DEF Disable, ClearLockout
<1>11. CASE Tick \/ UNCHANGED vars
  BY <1>9, <1>11 DEF Tick, vars
<1>12. ASSUME NEW u \in Tab, Advance(u) PROVE Goal
  BY <1>4, <1>5, <1>6, <1>7, <1>12 DEF Advance
<1>13. ASSUME NEW u \in Tab, Finish(u) PROVE Goal
  BY <1>4, <1>7, <1>8, <1>13 DEF Finish
<1>14. CASE \E u \in Tab, a \in Attempt : Consent(u, a) \/ \E input \in Inputs : Submit(u, a, input)
  BY <1>2, <1>3, <1>14
<1>15. CASE \E u \in Tab : Advance(u) \/ Finish(u)
  BY <1>12, <1>13, <1>15
<1> QED
  BY <1>10, <1>11, <1>14, <1>15 DEF Next

\* The cookies of a set answer are those still live of the ones presented, and the
\* session's own.
LEMMA JarStep ==
    ASSUME Shapes, [Next]_vars
    PROVE  UNCHANGED jar \/ \E t \in Tab : TakeCookies(t)
BY DEF Next, Advance, Finish, Submit, Consent, Resume, Challenge, JudgeRight, JudgeWrong,
       ReadFailures, Record, Contend, RefuseMismatch, RefuseReplayed, Pass, TurnAway, Park,
       Proceed, RefuseDisabled, RefuseConsumed, Complete, Disable, ClearLockout, Tick,
       vars, browser

LEMMA JarsStep == Shapes /\ Jars /\ Roomy /\ [Next]_vars => Jars'
<1> SUFFICES ASSUME Shapes, Jars, Roomy, [Next]_vars PROVE Jars'
  OBVIOUS
<1>1. DOMAIN session \subseteq DOMAIN session'
  BY LiveShrinks
<1>2. jar' \subseteq DOMAIN session'
  <2>1. ASSUME NEW t \in Tab, TakeCookies(t) PROVE jar' \subseteq DOMAIN session
    <3>1. sub[t].own \in DOMAIN session
      BY <2>1 DEF TakeCookies, Roomy
    <3> QED
      BY <2>1, <3>1 DEF TakeCookies, Live
  <2> QED
    BY <1>1, <2>1, JarStep DEF Jars
<1>3. ended' \subseteq DOMAIN session'
  <2>1. ASSUME NEW t \in Tab, Complete(t) PROVE ended' \subseteq DOMAIN session
    BY <2>1 DEF Complete, Evictions, Live, Jars
  <2>2. (\E t \in Tab : Complete(t)) \/ UNCHANGED ended
    BY DEF Next, Advance, Finish, Submit, Consent, Resume, Challenge, JudgeRight, JudgeWrong,
           ReadFailures, Record, Contend, RefuseMismatch, RefuseReplayed, Pass, TurnAway,
           Park, Proceed, RefuseDisabled, RefuseConsumed, TakeCookies, Disable,
           ClearLockout, Tick, vars, browser
  <2> QED
    BY <1>1, <2>1, <2>2 DEF Jars
<1>4. ASSUME NEW t \in Tab, Presents(sub'[t]) PROVE sub'[t].header \subseteq DOMAIN session
  <2>1. ASSUME Complete(t) PROVE Presents(sub[t]) /\ sub'[t].header = sub[t].header
    <3>1. sub = [v \in Tab |-> sub[v]]
      BY DEF Shapes, Subs
    <3>2. sub'[t].header = sub[t].header
      BY <2>1, <3>1 DEF Complete
    <3> QED
      BY <2>1, <3>2 DEF Complete, Completing, Presents
  <2> QED
    BY <1>4, <2>1, Presented DEF Jars, Presents
<1>5. \A t \in Tab : Presents(sub[t])' => sub'[t].header \subseteq DOMAIN session'
  BY <1>1, <1>4 DEF Presents
<1> QED
  BY <1>2, <1>3, <1>5 DEF Jars

LEMMA RoomyStep == Shapes /\ Jars /\ Roomy /\ [Next]_vars => Roomy'
<1> SUFFICES ASSUME Shapes, Jars, Roomy, [Next]_vars, NEW t \in Tab, sub'[t].pc = "answering"
             PROVE  /\ sub'[t].own \in DOMAIN session'
                    /\ Cardinality(sub'[t].header \intersect Live') =< Cap - 1
  BY DEF Roomy
<1>1. CASE sub'[t] = sub[t]
  <2>1. /\ sub[t].own \in DOMAIN session
        /\ sub[t].header \subseteq DOMAIN session
        /\ Cardinality(sub[t].header \intersect Live) =< Cap - 1
    BY <1>1 DEF Roomy, Jars, Presents
  <2>2. sub[t].own \in DOMAIN session'
    BY <2>1, LiveShrinks
  <2>3. Cardinality(sub[t].header \intersect Live') =< Cap - 1
    <3>1. /\ Cardinality(sub[t].header \intersect Live) \in Nat
          /\ Cardinality(sub[t].header \intersect Live') \in Nat
          /\ Cardinality(sub[t].header \intersect Live')
               =< Cardinality(sub[t].header \intersect Live)
      BY <2>1, ProvesLess
    <3> QED
      BY <2>1, <3>1, PolicyAssumption
  <2> QED
    BY <1>1, <2>2, <2>3
<1>2. CASE Complete(t)
  <2> DEFINE H == sub[t].header \intersect Live
  <2>1. sub = [v \in Tab |-> sub[v]]
    BY DEF Shapes, Subs
  <2>2. sub'[t].own = Len(session) + 1 /\ sub'[t].header = sub[t].header
    BY <1>2, <2>1 DEF Complete
  <2>3. Len(session) + 1 \in DOMAIN session'
    BY <1>2, Appended
  <2>4. sub[t].header \subseteq DOMAIN session
    BY <1>2 DEF Complete, Completing, Jars, Presents
  <2>5. H \in SUBSET Nat /\ IsFiniteSet(H)
    BY <2>4, SessionsFinite, FS_Subset
  <2>6. sub[t].header \intersect Live' \in SUBSET (H \ Evictions(H))
    <3>1. ended' = ended \union Evictions(H)
      BY <1>2 DEF Complete
    <3>2. \A i \in sub[t].header : i \in Live' => i \in Live /\ i \notin Evictions(H)
      <4> HIDE DEF H
      <4> QED
        BY <2>4, <3>1, LiveShrinks DEF Live
    <3> QED
      BY <3>2
  <2> HIDE DEF H
  <2>7. Cardinality(H \ Evictions(H)) =< Cap - 1
    BY <2>5, EvictionsMakeRoom
  <2>8. IsFiniteSet(H \ Evictions(H)) /\ Cardinality(H \ Evictions(H)) \in Nat
    BY <2>5, FS_Difference, FS_CardinalityType
  <2>9. /\ Cardinality(sub[t].header \intersect Live') \in Nat
        /\ Cardinality(sub[t].header \intersect Live') =< Cardinality(H \ Evictions(H))
    BY <2>6, <2>8, FS_Subset, FS_CardinalityType
  <2>10. Cardinality(sub[t].header \intersect Live') =< Cap - 1
    BY <2>7, <2>8, <2>9, PolicyAssumption
  <2> QED
    BY <2>2, <2>3, <2>10
<1> QED
  BY <1>1, <1>2, Presented

LEMMA CapStep ==
    Shapes /\ Jars /\ Roomy /\ JarWithinCap /\ [Next]_vars => JarWithinCap'
<1> SUFFICES ASSUME Shapes, Jars, Roomy, JarWithinCap, [Next]_vars PROVE JarWithinCap'
  OBVIOUS
<1>0. Cap \in Nat \ {0}
  BY PolicyAssumption
<1>1. CASE UNCHANGED jar
  <2>1. /\ Cardinality(jar \intersect Live) \in Nat
        /\ Cardinality(jar \intersect Live') \in Nat
        /\ Cardinality(jar \intersect Live') =< Cardinality(jar \intersect Live)
    BY ProvesLess DEF Jars
  <2>2. Cardinality(jar \intersect Live') =< Cap
    BY <1>0, <2>1 DEF JarWithinCap
  <2> QED
    BY <1>1, <2>2 DEF JarWithinCap
<1>2. ASSUME NEW t \in Tab, TakeCookies(t) PROVE JarWithinCap'
  <2> DEFINE H == sub[t].header \intersect Live
  <2>1. sub[t].header \subseteq DOMAIN session /\ Cardinality(H) =< Cap - 1
    BY <1>2 DEF TakeCookies, Roomy, Jars, Presents
  <2>2. IsFiniteSet(H) /\ Cardinality(H) \in Nat
    <3>1. IsFiniteSet(sub[t].header)
      BY <2>1, SessionsFinite, FS_Subset
    <3> QED
      BY <3>1, FS_Intersection, FS_CardinalityType
  <2>3. jar' = H \union {sub[t].own}
    BY <1>2 DEF TakeCookies
  <2> HIDE DEF H
  <2>4. /\ IsFiniteSet(jar') /\ Cardinality(jar') \in Nat
        /\ Cardinality(jar') =< Cardinality(H) + 1
    <3>1. /\ IsFiniteSet(H \union {sub[t].own})
          /\ Cardinality(H \union {sub[t].own})
               = IF sub[t].own \in H THEN Cardinality(H) ELSE Cardinality(H) + 1
      BY <2>2, FS_AddElement
    <3>2. Cardinality(H \union {sub[t].own}) \in Nat
      BY <3>1, FS_CardinalityType
    <3>3. Cardinality(H \union {sub[t].own}) =< Cardinality(H) + 1
      BY <2>2, <3>1
    <3> QED
      BY <2>3, <3>1, <3>2, <3>3
  <2>5. Cardinality(jar' \intersect Live') =< Cardinality(jar')
    BY <2>4, FS_Intersection
  <2>6. Cardinality(jar' \intersect Live') \in Nat
    BY <2>4, FS_Intersection, FS_CardinalityType
  <2>7. Cardinality(jar' \intersect Live') =< Cap
    BY <1>0, <2>1, <2>2, <2>4, <2>5, <2>6
  <2> QED
    BY <2>7 DEF JarWithinCap
<1> QED
  BY <1>1, <1>2, JarStep

LEMMA CapInvariant == Spec => [](Jars /\ Roomy /\ JarWithinCap)
<1>1. Init => Jars /\ Roomy /\ JarWithinCap
  <2> SUFFICES ASSUME Init PROVE Jars /\ Roomy /\ JarWithinCap
    OBVIOUS
  <2>1. \A t \in Tab : sub[t].pc = "idle"
    BY DEF Init, Idle
  <2>2. Jars /\ Roomy
    BY <2>1 DEF Init, Jars, Roomy, Presents
  <2>3. jar \intersect Live = {}
    BY DEF Init
  <2> QED
    BY <2>2, <2>3, FS_EmptySet, PolicyAssumption DEF JarWithinCap
<1> QED
  BY <1>1, JarsStep, RoomyStep, CapStep, ShapesInvariant, PTL DEF Spec

\* With any number of tabs logging in at once, each evicting from the cookies its
\* own request presented, the browser never proves more live sessions than the
\* cap (admitSession, chooseEvictions).
THEOREM JarStaysWithinCap == Spec => []JarWithinCap
BY CapInvariant, PTL

-----------------------------------------------------------------------------
(* Types *)

\* A power of two counts the subsets of a set.
LEMMA PowerOfTwo ==
    ASSUME NEW k \in Nat
    PROVE  2 ^ k \in Nat
<1>1. IsFiniteSet(1 .. k) /\ Cardinality(1 .. k) = k
  BY FS_Interval
<1>2. IsFiniteSet(SUBSET (1 .. k)) /\ Cardinality(SUBSET (1 .. k)) = 2 ^ k
  BY <1>1, FS_SUBSET
<1> QED
  BY <1>2, FS_CardinalityType

LEMMA NextLockoutType ==
    ASSUME NEW row \in FailureRow, NEW at \in Nat
    PROVE  NextLockout(row, at) \in FailureRow
<1> DEFINE count == NextCount(row, at)
           until == IF count < MaxFailures THEN 0 ELSE at + LockoutFor(count)
<1>1. count \in Nat
  BY DEF NextCount, FailureRow
<1>2. ASSUME ~ (count < MaxFailures) PROVE LockoutFor(count) \in Nat
  <2> DEFINE power == 2 ^ (count - MaxFailures)
  <2>1. count - MaxFailures \in Nat
    BY <1>1, <1>2, PolicyAssumption
  <2>2. power \in Nat
    BY <2>1, PowerOfTwo
  <2>3. LockoutFor(count) = IF LockoutTicks * power < MaxLockoutTicks
                            THEN LockoutTicks * power ELSE MaxLockoutTicks
    BY DEF LockoutFor
  <2> HIDE DEF power, count
  <2>4. LockoutTicks * power \in Nat
    BY <2>2, PolicyAssumption
  <2> QED
    BY <2>3, <2>4, PolicyAssumption
<1>3. until \in Nat
  <2> HIDE DEF count
  <2> QED
    BY <1>2
<1>4. NextLockout(row, at) = [count |-> count, last |-> at, until |-> until]
  BY DEF NextLockout
<1> HIDE DEF count, until
<1> QED
  BY <1>1, <1>3, <1>4 DEF FailureRow

\* The rest of what a submission in flight carries.
CarriesAll(s) ==
    /\ s.pc = "idle" => s = Idle
    /\ s.pc = "failing" => s \in FailingSub
    /\ s.pc = "counting" => s \in CountingSub
    /\ s.pc = "answering" => s \in AnsweringSub

Carried ==
    /\ failures \in [Person -> FailureRow]
    /\ \A t \in Tab : CarriesAll(sub[t])

Counters ==
    /\ disabled \subseteq Person
    /\ sent \in 0 .. MaxSubmissions

\* A satisfied factor has its subject.
SubjectBound == \A a \in Attempt : auth[a].satisfied # {} => auth[a].subject # None

LEMMA FailuresTyped == Shapes /\ Carried /\ [Next]_vars => failures' \in [Person -> FailureRow]
<1> SUFFICES ASSUME Shapes, Carried, [Next]_vars PROVE failures' \in [Person -> FailureRow]
  OBVIOUS
<1>1. NeverFailed \in FailureRow
  BY DEF NeverFailed, FailureRow
<1>2. ASSUME NEW t \in Tab, Record(t) PROVE failures' \in [Person -> FailureRow]
  <2>1. sub[t] \in CountingSub
    BY <1>2 DEF Record, Carried, CarriesAll
  <2>2. sub[t].observed \in FailureRow /\ sub[t].at \in Nat
    BY <2>1 DEF CountingSub
  <2>3. NextLockout(sub[t].observed, sub[t].at) \in FailureRow
    BY <2>2, NextLockoutType
  <2> QED
    BY <1>2, <2>3 DEF Record, Carried
<1>3. ASSUME NEW t \in Tab, Pass(t) PROVE failures' \in [Person -> FailureRow]
  BY <1>1, <1>3 DEF Pass, lockout, Carried
<1>4. ASSUME NEW p \in Person, ClearLockout(p) PROVE failures' \in [Person -> FailureRow]
  BY <1>1, <1>4 DEF ClearLockout, Carried
<1>5. \/ \E t \in Tab : Record(t) \/ Pass(t)
      \/ \E p \in Person : ClearLockout(p)
      \/ UNCHANGED failures
  BY DEF Next, Advance, Finish, Submit, Consent, Resume, Challenge, JudgeRight, JudgeWrong,
         ReadFailures, Contend, RefuseMismatch, RefuseReplayed, TurnAway, Park, Proceed,
         RefuseDisabled, RefuseConsumed, Complete, TakeCookies, Disable, Tick, vars, lockout
<1> QED
  BY <1>2, <1>3, <1>4, <1>5 DEF Carried

LEMMA CarriedStep == Shapes /\ Carried /\ [Next]_vars => Carried'
<1> SUFFICES ASSUME Shapes, Carried, [Next]_vars, NEW t \in Tab PROVE CarriesAll(sub'[t])
  BY FailuresTyped DEF Carried, CarriesAll
<1> DEFINE Goal == CarriesAll(sub'[t])
<1> SUFFICES Goal
  OBVIOUS
<1>0. sub = [v \in Tab |-> sub[v]]
  BY DEF Shapes, Subs
<1>1. ASSUME NEW u \in Tab, NEW s, sub' = [sub EXCEPT ![u] = s],
             \/ s.pc \in {"loaded", "right", "passed", "completing", "consenting"}
             \/ s = Idle \/ s \in FailingSub \/ s \in CountingSub \/ s \in AnsweringSub
      PROVE  Goal
  <2>1. t = u => sub'[t] = s
    BY <1>0, <1>1
  <2>2. t # u => sub'[t] = sub[t]
    BY <1>0, <1>1
  <2>3. Idle.pc = "idle"
    BY DEF Idle
  <2>4. /\ s \in FailingSub => s.pc = "failing"
        /\ s \in CountingSub => s.pc = "counting"
        /\ s \in AnsweringSub => s.pc = "answering"
    BY DEF FailingSub, CountingSub, AnsweringSub
  <2>5. CarriesAll(s)
    BY <1>1, <2>3, <2>4 DEF CarriesAll
  <2> QED
    BY <2>1, <2>2, <2>5 DEF Carried
<1> HIDE DEF Goal
<1>2. ASSUME NEW u \in Tab, NEW a \in Attempt, NEW input \in Inputs, Submit(u, a, input)
      PROVE  Goal
  <2>1. PICK s : s.pc = "loaded" /\ sub' = [sub EXCEPT ![u] = s]
    BY <1>2 DEF Submit
  <2> QED
    BY <1>1, <2>1
<1>3. ASSUME NEW u \in Tab, NEW a \in Attempt, Consent(u, a) PROVE Goal
  <2>1. PICK s : s.pc = "consenting" /\ sub' = [sub EXCEPT ![u] = s]
    BY <1>3 DEF Consent
  <2> QED
    BY <1>1, <2>1
<1>4. ASSUME NEW u \in Tab,
             \/ Challenge(u) \/ Record(u) \/ RefuseMismatch(u) \/ TurnAway(u) \/ Park(u)
             \/ RefuseDisabled(u) \/ RefuseConsumed(u) \/ TakeCookies(u)
      PROVE  Goal
  <2>1. sub' = [sub EXCEPT ![u] = Idle]
    BY <1>4 DEF Challenge, Record, RefuseMismatch, TurnAway, Park, RefuseDisabled,
                RefuseConsumed, TakeCookies
  <2> QED
    BY <1>1, <2>1
<1>5. ASSUME NEW u \in Tab, JudgeWrong(u) \/ RefuseReplayed(u) PROVE Goal
  <2>1. sub[u] \in LoadedSub /\ sub[u].who = sub[u].input.who /\ Answers(sub[u])
    BY <1>5 DEF JudgeWrong, RefuseReplayed, Judged, Shapes, Subs, SubShape
  <2>2. Account(sub[u]) \in Person
    BY <2>1, JudgedAccount
  <2>3. 0 \in 0 .. CasAttempts - 1
    BY PolicyAssumption
  <2>4. Failing(sub[u]) \in FailingSub
    BY <2>1, <2>2, <2>3 DEF Failing, FailingSub, LoadedSub
  <2>5. sub' = [sub EXCEPT ![u] = Failing(sub[u])]
    BY <1>5 DEF JudgeWrong, RefuseReplayed
  <2> QED
    BY <1>1, <2>4, <2>5
<1>6. ASSUME NEW u \in Tab, ReadFailures(u) PROVE Goal
  <2> DEFINE c == [pc |-> "counting", attempt |-> sub[u].attempt, who |-> sub[u].who,
                   account |-> sub[u].account, at |-> sub[u].at, tries |-> sub[u].tries,
                   observed |-> failures[sub[u].account]]
  <2>1. sub[u] \in FailingSub
    BY <1>6 DEF ReadFailures, Carried, CarriesAll
  <2>2. failures[sub[u].account] \in FailureRow
    BY <2>1 DEF FailingSub, Carried
  <2>3. c \in CountingSub
    BY <2>1, <2>2 DEF FailingSub, CountingSub
  <2>4. sub' = [sub EXCEPT ![u] = c]
    BY <1>6 DEF ReadFailures
  <2> HIDE DEF c
  <2> QED
    BY <1>1, <2>3, <2>4
<1>7. ASSUME NEW u \in Tab, Contend(u) PROVE Goal
  <2> DEFINE f == [pc |-> "failing", attempt |-> sub[u].attempt, who |-> sub[u].who,
                   account |-> sub[u].account, at |-> sub[u].at,
                   tries |-> sub[u].tries + 1]
  <2>1. sub[u] \in CountingSub
    BY <1>7 DEF Contend, Carried, CarriesAll
  <2>2. \/ sub' = [sub EXCEPT ![u] = Idle]
        \/ sub[u].tries + 1 # CasAttempts /\ sub' = [sub EXCEPT ![u] = f]
    BY <1>7 DEF Contend
  <2>3. sub[u].tries + 1 # CasAttempts => sub[u].tries + 1 \in 0 .. CasAttempts - 1
    BY <2>1, PolicyAssumption DEF CountingSub
  <2>4. sub[u].tries + 1 # CasAttempts => f \in FailingSub
    BY <2>1, <2>3 DEF CountingSub, FailingSub
  <2> HIDE DEF f
  <2> QED
    BY <1>1, <2>2, <2>4
<1>8. ASSUME NEW u \in Tab, Resume(u) \/ Pass(u) PROVE Goal
  <2> DEFINE s == [pc |-> "passed", attempt |-> sub[u].attempt, who |-> sub[u].who,
                   subject |-> sub[u].subject, amr |-> sub[u].satisfied,
                   header |-> sub[u].header]
             r == [pc |-> "passed", attempt |-> sub[u].attempt, who |-> sub[u].who,
                   subject |-> Account(sub[u]),
                   amr |-> sub[u].satisfied \union {StepOf(sub[u])},
                   header |-> sub[u].header]
  <2>1. \/ sub' = [sub EXCEPT ![u] = s]
        \/ sub' = [sub EXCEPT ![u] = r]
        \/ sub' = [sub EXCEPT ![u] = Idle]
    BY <1>8 DEF Resume, Pass
  <2>2. s.pc = "passed" /\ r.pc = "passed"
    OBVIOUS
  <2> HIDE DEF s, r
  <2> QED
    BY <1>1, <2>1, <2>2
<1>9. ASSUME NEW u \in Tab, JudgeRight(u) \/ Proceed(u) PROVE Goal
  <2>1. sub[u] \in LoadedSub \/ sub[u] \in PassedSub
    BY <1>9 DEF JudgeRight, Judged, Proceed, Shapes, Subs, SubShape
  <2>2. PICK v \in {"right", "completing"} : sub' = [sub EXCEPT ![u] = [sub[u] EXCEPT !.pc = v]]
    BY <1>9 DEF JudgeRight, Proceed
  <2>3. [sub[u] EXCEPT !.pc = v].pc = v
    BY <2>1 DEF LoadedSub, PassedSub
  <2> QED
    BY <1>1, <2>2, <2>3
<1>10. ASSUME NEW u \in Tab, Complete(u) PROVE Goal
  <2> DEFINE s == [pc |-> "answering", attempt |-> sub[u].attempt, who |-> sub[u].who,
                   own |-> Len(session) + 1, header |-> sub[u].header]
  <2>1. sub[u] \in PassedSub
    BY <1>10, Appended
  <2>2. Len(session) + 1 \in Nat
    BY DEF Shapes, Rows
  <2>3. s \in AnsweringSub
    BY <2>1, <2>2 DEF PassedSub, AnsweringSub
  <2>4. sub' = [sub EXCEPT ![u] = s]
    BY <1>10 DEF Complete
  <2> HIDE DEF s
  <2> QED
    BY <1>1, <2>3, <2>4
<1>11. ASSUME UNCHANGED sub PROVE Goal
  BY <1>11 DEF Goal, Carried
<1>12. CASE \E p \in Person : Disable(p) \/ ClearLockout(p)
  BY <1>11, <1>12 DEF Disable, ClearLockout
<1>13. CASE Tick \/ UNCHANGED vars
  BY <1>11, <1>13 DEF Tick, vars
<1>14. ASSUME NEW u \in Tab, Advance(u) PROVE Goal
  BY <1>4, <1>5, <1>6, <1>7, <1>8, <1>9, <1>14 DEF Advance
<1>15. ASSUME NEW u \in Tab, Finish(u) PROVE Goal
  BY <1>4, <1>9, <1>10, <1>15 DEF Finish
<1>16. CASE \E u \in Tab, a \in Attempt : Consent(u, a) \/ \E input \in Inputs : Submit(u, a, input)
  BY <1>2, <1>3, <1>16
<1>17. CASE \E u \in Tab : Advance(u) \/ Finish(u)
  BY <1>14, <1>15, <1>17
<1> QED
  BY <1>12, <1>13, <1>16, <1>17 DEF Next

LEMMA CountersStep == Counters /\ [Next]_vars => Counters'
<1> SUFFICES ASSUME Counters, [Next]_vars PROVE Counters'
  OBVIOUS
<1>1. disabled' \subseteq Person
  <2>1. (\E p \in Person : disabled' = disabled \union {p}) \/ UNCHANGED disabled
    BY DEF Next, Advance, Finish, Submit, Consent, Resume, Challenge, JudgeRight, JudgeWrong,
           ReadFailures, Record, Contend, RefuseMismatch, RefuseReplayed, Pass, TurnAway,
           Park, Proceed, RefuseDisabled, RefuseConsumed, Complete, TakeCookies, Disable,
           ClearLockout, Tick, vars
  <2> QED
    BY <2>1 DEF Counters
<1>2. sent' \in 0 .. MaxSubmissions
  <2>1. (sent < MaxSubmissions /\ sent' = sent + 1) \/ UNCHANGED sent
    BY DEF Next, Advance, Finish, Submit, Consent, Resume, Challenge, JudgeRight, JudgeWrong,
           ReadFailures, Record, Contend, RefuseMismatch, RefuseReplayed, Pass, TurnAway,
           Park, Proceed, RefuseDisabled, RefuseConsumed, Complete, TakeCookies, Disable,
           ClearLockout, Tick, vars
  <2> QED
    BY <2>1, BoundsAssumption DEF Counters
<1> QED
  BY <1>1, <1>2 DEF Counters

\* A factor is recorded with the subject it binds, and both are put back at once.
LEMMA BoundStep == Shapes /\ SubjectBound /\ [Next]_vars => SubjectBound'
<1> SUFFICES ASSUME Shapes, SubjectBound, [Next]_vars, NEW a \in Attempt, auth'[a].satisfied # {}
             PROVE  auth'[a].subject # None
  BY DEF SubjectBound
<1> USE DEF Shapes
<1>1. auth \in [Attempt -> AuthRow] /\ auth[a] \in AuthRow
  BY DEF Rows
<1>2. ASSUME NEW b, ResetProgress(b) PROVE auth'[a].subject # None
  <2>1. [Fresh EXCEPT !.consumed = auth[b].consumed].satisfied = {}
    BY DEF Fresh
  <2>2. auth'[a] = auth[a]
    BY <1>1, <1>2, <2>1 DEF ResetProgress
  <2> QED
    BY <2>2 DEF SubjectBound
<1>3. ASSUME NEW b, NEW v, auth' = [auth EXCEPT ![b].done = v] PROVE auth'[a].subject # None
  <2>1. auth'[a].subject = auth[a].subject /\ auth'[a].satisfied = auth[a].satisfied
    BY <1>1, <1>3 DEF AuthRow
  <2> QED
    BY <2>1 DEF SubjectBound
<1>4. ASSUME NEW t \in Tab, Pass(t) PROVE auth'[a].subject # None
  <2> DEFINE p == Account(sub[t])
             b == sub[t].attempt
  <2>1. sub[t] \in LoadedSub /\ sub[t].who = sub[t].input.who /\ Answers(sub[t])
    BY <1>4 DEF Pass, Subs, SubShape
  <2>2. p \in Person
    BY <2>1, JudgedAccount
  <2>3. PICK f, v :
          auth' = [auth EXCEPT ![b].subject = p, ![b].satisfied = @ \union {f}, ![b].done = v]
    BY <1>4 DEF Pass
  <2> HIDE DEF p, b
  <2>4. CASE a = b
    <3>1. auth'[a].subject = p
      BY <1>1, <2>3, <2>4 DEF AuthRow
    <3> QED
      BY <2>2, <3>1, PeopleAssumption
  <2>5. CASE a # b
    <3>1. auth'[a] = auth[a]
      BY <1>1, <2>3, <2>5
    <3> QED
      BY <3>1 DEF SubjectBound
  <2> QED
    BY <2>4, <2>5
<1>5. ASSUME NEW t \in Tab, Complete(t) PROVE auth'[a].subject # None
  <2>1. auth'[a].subject = auth[a].subject /\ auth'[a].satisfied = auth[a].satisfied
    BY <1>1, <1>5 DEF Complete, AuthRow
  <2> QED
    BY <2>1 DEF SubjectBound
<1>6. \/ \E t \in Tab : Pass(t) \/ Complete(t)
      \/ \E b : ResetProgress(b)
      \/ \E b, v : auth' = [auth EXCEPT ![b].done = v]
      \/ UNCHANGED auth
  BY DEF Next, Advance, Finish, Submit, Consent, Resume, Challenge, JudgeRight, JudgeWrong,
         ReadFailures, Record, Contend, RefuseMismatch, RefuseReplayed, TurnAway, Park,
         Proceed, RefuseDisabled, RefuseConsumed, TakeCookies, Disable, ClearLockout, Tick,
         vars, attempts
<1> QED
  BY <1>2, <1>3, <1>4, <1>5, <1>6 DEF SubjectBound

LEMMA TypesTogether == Shapes /\ Carried /\ Counters /\ SubjectBound /\ Jars => TypeOK
<1> SUFFICES ASSUME Shapes, Carried, Counters, SubjectBound, Jars PROVE TypeOK
  OBVIOUS
<1>1. ASSUME NEW t \in Tab
      PROVE  sub[t] \in {Idle} \union LoadedSub \union PassedSub \union FailingSub
                          \union CountingSub \union AnsweringSub
  <2>1. SubShape(sub[t]) /\ CarriesAll(sub[t])
    BY DEF Shapes, Subs, Carried
  <2> QED
    BY <2>1 DEF SubShape, CarriesAll
<1>2. sub \in [Tab -> {Idle} \union LoadedSub \union PassedSub \union FailingSub
                        \union CountingSub \union AnsweringSub]
  <2>1. sub = [t \in Tab |-> sub[t]]
    BY DEF Shapes, Subs
  <2> QED
    BY <1>1, <2>1, Zenon
<1> QED
  BY <1>2 DEF TypeOK, Shapes, Rows, Carried, Counters, SubjectBound, Jars

\* Every variable keeps its type, for any number of tabs, attempts and people and
\* any policy, and no attempt holds a factor that nobody is bound to
\* (bindSubject, recordSatisfied, resetProgress).
THEOREM TypeCorrect == Spec => []TypeOK
<1>1. Init => Carried /\ Counters /\ SubjectBound
  <2> SUFFICES ASSUME Init PROVE Carried /\ Counters /\ SubjectBound
    OBVIOUS
  <2>1. CarriesAll(Idle)
    BY DEF CarriesAll, Idle
  <2>2. Carried
    BY <2>1 DEF Init, Carried, NeverFailed, FailureRow
  <2> QED
    BY <2>2, BoundsAssumption DEF Init, Counters, SubjectBound, Fresh
<1> QED
  BY <1>1, CarriedStep, CountersStep, BoundStep, TypesTogether, CapInvariant, ShapesInvariant,
     PTL DEF Spec
=============================================================================
