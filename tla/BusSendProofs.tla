--------------------------- MODULE BusSendProofs ---------------------------
(***************************************************************************)
(* send() keeps its word for any number of senders and any timeouts.       *)
(***************************************************************************)
EXTENDS BusSend, TLAPS

(* timeout / 250 grants a natural number of retries, none without a        *)
(* positive timeout (Bus::send).                                           *)
LEMMA RetriesFacts ==
    ASSUME NEW t \in Int
    PROVE  Retries(t) \in Nat /\ (t <= 0 => Retries(t) = 0)
BY DEF Retries

(* The initial state satisfies the inductive invariant.                    *)
LEMMA InitIInv == Init => IInv
<1> SUFFICES ASSUME Init PROVE IInv
    OBVIOUS
<1>1. TypeOK
    BY DEF Init, TypeOK, Frame, HalResult
<1>2. Retries(0) = 0
    BY RetriesFacts
<1> QED
    BY <1>1, <1>2 DEF Init, IInv, OutcomeIsTrue, SleepIsBounded, RetryAccount

(* Every step keeps the types: in particular the retry counter never goes  *)
(* below zero (while (retry--)).                                           *)
LEMMA TypeStep == IInv /\ [Next]_vars => TypeOK'
<1> SUFFICES ASSUME TypeOK, RetryAccount, [Next]_vars PROVE TypeOK'
    BY DEF IInv
<1>1. ASSUME NEW s \in Senders, NEW f \in Frame, NEW t \in Timeouts \cup {0}, SendCall(s, f, t)
      PROVE  TypeOK'
    <2>1. t \in Int
        BY SendAssumption DEF SendAssumption
    <2>2. Retries(t) \in Nat
        BY <2>1, RetriesFacts
    <2> QED
        BY <1>1, <2>2 DEF SendCall, TypeOK, env, HalResult
<1>2. ASSUME NEW s \in Senders, SenderStep(s) PROVE TypeOK'
    <2>1. CASE Pause(s)
        BY <2>1 DEF Pause, TypeOK, env, args
    <2>2. CASE AttemptOk(s)
        BY <2>2 DEF AttemptOk, Transmits, TypeOK, env, args
    <2>3. CASE AttemptRefused(s)
        BY <2>3 DEF AttemptRefused, GiveUpOrRetry, TypeOK, env, args
    <2>4. CASE AttemptFailed(s)
        BY <2>4 DEF AttemptFailed, Transmits, GiveUpOrRetry, TypeOK, env, args
    <2>5. CASE Backoff(s)
        <3>1. retry[s] \in Nat /\ retry[s] > 0
            BY <2>5 DEF Backoff, RetryAccount, TypeOK
        <3> QED
            BY <2>5, <3>1 DEF Backoff, TypeOK, env, args
    <2>6. CASE AttemptEscapes(s)
        BY <2>6 DEF AttemptEscapes, TypeOK, env, args
    <2> QED
        BY <1>2, <2>1, <2>2, <2>3, <2>4, <2>5, <2>6 DEF SenderStep
<1>3. CASE Toggle
    BY <1>3 DEF Toggle, TypeOK, args
<1>4. CASE UNCHANGED vars
    BY <1>4 DEF vars, env, args, TypeOK
<1>5. ASSUME NEW s \in Senders, PollCall(s) PROVE TypeOK'
    <2>1. PICK f \in {"direct", "broadcast"} : SendCall(s, f, 0)
        BY <1>5 DEF PollCall
    <2>2. f \in Frame
        BY DEF Frame
    <2> QED
        BY <1>1, <2>1, <2>2
<1> QED
    BY <1>1, <1>2, <1>3, <1>4, <1>5 DEF Next

(* The account of one sender, as one formula: what a step has to keep.     *)
Account(s) ==
    /\ pc[s] = "returned" => acks[s] = 1 /\ frame[s] # "empty"
    /\ pc[s] = "thrown" => acks[s] = 0 /\ (frame[s] # "empty" => tries[s] = Retries(timeout[s]) + 1)
    /\ tries[s] <= Retries(timeout[s]) + 1
    /\ pc[s] \in {"pause", "attempt", "backoff"} => acks[s] = 0
    /\ slept[s] <= Retries(timeout[s]) * 251 + 1
    /\ pc[s] \in {"pause", "attempt", "backoff"} =>
          /\ retry[s] <= Retries(timeout[s])
          /\ tries[s] = Retries(timeout[s]) - retry[s] + (IF pc[s] = "backoff" THEN 1 ELSE 0)
    /\ pc[s] = "pause" => timeout[s] > 0 /\ slept[s] = (Retries(timeout[s]) - retry[s]) * 251
    /\ pc[s] = "attempt" =>
          slept[s] = (Retries(timeout[s]) - retry[s]) * 251 + (IF timeout[s] > 0 THEN 1 ELSE 0)
    /\ pc[s] = "backoff" => /\ retry[s] > 0 /\ timeout[s] > 0
                            /\ slept[s] = (Retries(timeout[s]) - retry[s]) * 251 + 1

(* The invariant is the type invariant and every sender's account.         *)
LEMMA AccountIsInv == IInv <=> TypeOK /\ \A s \in Senders : Account(s)
BY DEF IInv, OutcomeIsTrue, SleepIsBounded, RetryAccount, Account

(* A sender's step keeps its own account.                                  *)
LEMMA OwnStep ==
    ASSUME TypeOK, NEW s \in Senders, Account(s),
           SenderStep(s) \/ \E f \in Frame, t \in Timeouts \cup {0} : SendCall(s, f, t)
    PROVE  Account(s)'
<1>1. /\ timeout[s] \in Int /\ retry[s] \in Nat /\ tries[s] \in Nat /\ slept[s] \in Nat
      /\ acks[s] \in Nat
    <2>1. timeout[s] \in Timeouts \cup {0} /\ retry[s] \in Nat /\ tries[s] \in Nat
        BY DEF TypeOK
    <2>2. slept[s] \in Nat /\ acks[s] \in Nat
        BY DEF TypeOK
    <2>3. \A t \in Timeouts \cup {0} : t \in Int
        BY SendAssumption DEF SendAssumption
    <2>4. timeout[s] \in Int
        BY <2>1, <2>3, Zenon
    <2> QED
        BY <2>1, <2>2, <2>4
<1>2. Retries(timeout[s]) \in Nat /\ (timeout[s] <= 0 => Retries(timeout[s]) = 0)
    BY <1>1, RetriesFacts
<1>3. CASE Pause(s)
    BY <1>1, <1>2, <1>3 DEF Pause, Account, TypeOK, env, args
<1>4. CASE AttemptOk(s)
    BY <1>1, <1>2, <1>4 DEF AttemptOk, Transmits, Account, TypeOK, env, args
<1>5. CASE AttemptRefused(s)
    BY <1>1, <1>2, <1>5 DEF AttemptRefused, GiveUpOrRetry, Account, TypeOK, env, args
<1>6. CASE AttemptFailed(s)
    BY <1>1, <1>2, <1>6 DEF AttemptFailed, Transmits, GiveUpOrRetry, Account, TypeOK, env, args
<1>7. CASE Backoff(s)
    BY <1>1, <1>2, <1>7 DEF Backoff, Account, TypeOK, env, args
<1>8. ASSUME NEW f \in Frame, NEW t \in Timeouts \cup {0}, SendCall(s, f, t)
      PROVE  Account(s)'
    <2>1. t \in Int
        BY SendAssumption DEF SendAssumption
    <2>2. Retries(t) \in Nat /\ (t <= 0 => Retries(t) = 0)
        BY <2>1, RetriesFacts
    <2>3. /\ timeout'[s] = t /\ retry'[s] = Retries(t) /\ tries'[s] = 0 /\ acks'[s] = 0
          /\ slept'[s] = 0 /\ pc'[s] = (IF t > 0 THEN "pause" ELSE "attempt")
        BY <1>8 DEF SendCall, TypeOK
    <2> QED
        BY <2>1, <2>2, <2>3 DEF Account
<1>9. CASE AttemptEscapes(s)
    BY <1>1, <1>2, <1>9 DEF AttemptEscapes, Account, TypeOK, env, args
<1> QED
    BY <1>3, <1>4, <1>5, <1>6, <1>7, <1>8, <1>9 DEF SenderStep

(* It leaves the accounts of the others alone: attempts are atomic and     *)
(* every counter is a local variable of its call.                          *)
LEMMA OtherStep ==
    ASSUME TypeOK, NEW s \in Senders, NEW x \in Senders, x # s, Account(x),
           SenderStep(s) \/ \E f \in Frame, t \in Timeouts \cup {0} : SendCall(s, f, t)
    PROVE  Account(x)'
<1>1. /\ pc'[x] = pc[x] /\ timeout'[x] = timeout[x] /\ retry'[x] = retry[x]
      /\ tries'[x] = tries[x] /\ acks'[x] = acks[x] /\ slept'[x] = slept[x]
      /\ frame'[x] = frame[x]
    BY DEF TypeOK, SenderStep, Pause, AttemptOk, AttemptRefused, AttemptFailed, AttemptEscapes,
           Backoff, Transmits, GiveUpOrRetry, SendCall, env, args
<1> QED
    BY <1>1 DEF Account

(* Every step keeps the inductive invariant.                               *)
LEMMA InvStep == IInv /\ [Next]_vars => IInv'
<1> SUFFICES ASSUME IInv, [Next]_vars PROVE \A x \in Senders : Account(x)'
    BY TypeStep DEF IInv, OutcomeIsTrue, SleepIsBounded, RetryAccount, Account
<1>1. TypeOK /\ \A x \in Senders : Account(x)
    BY AccountIsInv
<1>2. ASSUME NEW s \in Senders,
             SenderStep(s) \/ \E f \in Frame, t \in Timeouts \cup {0} : SendCall(s, f, t)
      PROVE  \A x \in Senders : Account(x)'
    BY <1>1, <1>2, OwnStep, OtherStep
<1>3. ASSUME NEW s \in Senders, PollCall(s) PROVE \A x \in Senders : Account(x)'
    <2>1. PICK f \in {"direct", "broadcast"} : SendCall(s, f, 0)
        BY <1>3 DEF PollCall
    <2>2. f \in Frame
        BY DEF Frame
    <2> QED
        BY <1>2, <2>1, <2>2
<1>4. CASE Toggle
    BY <1>1, <1>4 DEF Toggle, Account, args
<1>5. CASE UNCHANGED vars
    BY <1>1, <1>5 DEF vars, Account, args
<1> QED
    BY <1>2, <1>3, <1>4, <1>5 DEF Next

(* In every state of every behaviour of Bus::send the account is right.    *)
THEOREM Invariance == Spec => []IInv
<1>1. IInv /\ [Next]_vars => IInv'
    BY InvStep
<1> QED
    BY InitIInv, <1>1, PTL DEF Spec

(* Types are kept; the retry counter of Bus::send never becomes negative.  *)
THEOREM TypeCorrect == Spec => []TypeOK
<1>1. IInv => TypeOK
    BY DEF IInv
<1> QED
    BY Invariance, <1>1, PTL

(* Bus::send returns after exactly one attempt got through, and throws     *)
(* only when every attempt the timeout grants has failed or the frame is   *)
(* empty, in which case nothing was sent.                                  *)
THEOREM SendIsTruthful == Spec => []OutcomeIsTrue
<1>1. IInv => OutcomeIsTrue
    BY DEF IInv
<1> QED
    BY Invariance, <1>1, PTL

(* The sleeps of Bus::send never exceed 251 ms per granted retry, and one  *)
(* millisecond.                                                            *)
THEOREM SendSleepIsBounded == Spec => []SleepIsBounded
<1>1. IInv => SleepIsBounded
    BY DEF IInv
<1> QED
    BY Invariance, <1>1, PTL

(* The attempts Bus::send has made, its sleeps and the retries it has left *)
(* add up to what the timeout granted.                                     *)
THEOREM RetriesAddUp == Spec => []RetryAccount
<1>1. IInv => RetryAccount
    BY DEF IInv
<1> QED
    BY Invariance, <1>1, PTL
=============================================================================
