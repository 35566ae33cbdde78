-------------------------- MODULE ResilienceProofs --------------------------
(***************************************************************************)
(* The interceptor chain for every number of callers and every setting of  *)
(* the options: the breaker's probes, the slots of the bulkhead and the    *)
(* attempts of Retry are counted right.                                    *)
(***************************************************************************)
EXTENDS Resilience, FiniteSetTheorems, TLAPS

USE CallsAssumption, OptionsAssumption

-----------------------------------------------------------------------------
(* The inductive invariant *)

\* A closed breaker has not reached its threshold: it would have tripped.
ConsecInv == state = "closed" => consec < Threshold

\* Retry has an attempt left where it goes on, a handler ran at most once per
\* attempt, and an attempt that waits for the server has not been counted yet.
AttemptInv ==
    \A c \in Calls :
        /\ pc[c] \in {"attempt", "backoff"} => attempt[c] < MaxAttempts
        /\ pc[c] \in {"idle", "limited"} => attempt[c] = 0
        /\ runs[c] <= attempt[c]
        /\ pc[c] = "call" => runs[c] < attempt[c]

Inv == /\ TypeOK /\ SlotsExact /\ ConsecInv /\ AttemptInv /\ HalfOpenCovered

-----------------------------------------------------------------------------
(* Counting callers *)

\* Sets of callers are finite, and one caller more or less counts for one.
LEMMA Counting ==
    ASSUME NEW S, S \subseteq Calls
    PROVE  /\ IsFiniteSet(S) /\ Cardinality(S) \in Nat
           /\ \A c : c \notin S => Cardinality(S \union {c}) = Cardinality(S) + 1
           /\ \A c \in S : Cardinality(S \ {c}) = Cardinality(S) - 1
           /\ \A c \in S : Cardinality(S) >= 1
<1>1. IsFiniteSet(S) BY Zenon, FS_Subset
<1>2. Cardinality(S) \in Nat BY Zenon, <1>1, FS_CardinalityType
<1>3. \A c : c \notin S => Cardinality(S \union {c}) = Cardinality(S) + 1
  BY Zenon, <1>1, FS_AddElement
<1>4. ASSUME NEW c \in S
      PROVE  Cardinality(S \ {c}) = Cardinality(S) - 1 /\ Cardinality(S) >= 1
  <2>1. Cardinality(S \ {c}) = Cardinality(S) - 1 BY Zenon, <1>1, FS_RemoveElement
  <2>2. IsFiniteSet(S \ {c}) BY Zenon, <1>1, FS_RemoveElement
  <2>3. Cardinality(S \ {c}) \in Nat BY Zenon, <2>2, FS_CardinalityType
  <2> QED BY <1>2, <2>1, <2>3
<1> QED BY Zenon, <1>1, <1>2, <1>3, <1>4

\* The chain starts in the invariant.
LEMMA InitInv == Init => Inv
<1> SUFFICES ASSUME Init PROVE Inv BY Zenon
<1>1. TypeOK
  <2>1. /\ tokens \in 0..Burst /\ state \in {"closed", "open", "half-open"}
        /\ consec \in 0..Threshold /\ probes \in 0..MaxProbes
        /\ sem \in 0..MaxConcurrent
    BY DEF Init
  <2>4. cooled \in BOOLEAN /\ expired \subseteq Calls BY Zenon DEF Init
  <2>2. /\ attempt \in [Calls -> 0..MaxAttempts] /\ runs \in [Calls -> 0..MaxAttempts]
        /\ rounds \in [Calls -> 0..MaxRounds]
    BY DEF Init
  <2>3. /\ pc \in [Calls -> {"idle", "limited", "attempt", "call", "run", "back", "backoff",
                             "record"}]
        /\ code \in [Calls -> Codes]
    BY Zenon DEF Init, Codes
  <2> QED BY Zenon, <2>1, <2>2, <2>3, <2>4 DEF TypeOK
<1>2. SlotsExact
  <2>1. Holders = {} BY Zenon DEF Init, Holders
  <2> QED BY Zenon, <2>1, FS_EmptySet DEF Init, SlotsExact
<1>3. ConsecInv /\ AttemptInv /\ HalfOpenCovered
  BY DEF Init, ConsecInv, AttemptInv, HalfOpenCovered
<1> QED BY Zenon, <1>1, <1>2, <1>3 DEF Inv

-----------------------------------------------------------------------------
(* The steps *)

\* What a caller's steps leave to the others.
Others(c) ==
    \A d \in Calls \ {c} : /\ pc'[d] = pc[d] /\ attempt'[d] = attempt[d]
                           /\ runs'[d] = runs[d] /\ code'[d] = code[d]

\* Tokens, cooldowns and contexts concern nobody's call.
LEMMA TimeStep ==
    ASSUME Inv, Refill \/ Cooldown \/ (\E c \in Calls : Expire(c))
    PROVE  Inv'
<1>1. UNCHANGED <<state, consec, probes, sem, pc, attempt, code, runs, rounds>>
  BY Zenon DEF Refill, Cooldown, Expire, breakerVars
<1>2. tokens' \in 0..Burst
  BY DEF Inv, TypeOK, Refill, Cooldown, Expire
<1>3. cooled' \in BOOLEAN
  BY Zenon DEF Inv, TypeOK, Refill, Cooldown, Expire, breakerVars
<1>4. expired' \subseteq Calls
  BY DEF Inv, TypeOK, Refill, Cooldown, Expire
<1>5. TypeOK' BY Zenon, <1>1, <1>2, <1>3, <1>4 DEF Inv, TypeOK
<1>6. SlotsExact' /\ HalfOpenCovered'
  BY Zenon, <1>1 DEF Inv, SlotsExact, Holders, HalfOpenCovered, Outstanding
<1>7. ConsecInv' /\ AttemptInv'
  BY Zenon, <1>1 DEF Inv, ConsecInv, AttemptInv
<1> QED BY Zenon, <1>5, <1>6, <1>7 DEF Inv

\* A call takes a token, or is turned away.
LEMMA LimitStep ==
    ASSUME Inv, NEW c \in Calls, Limit(c)
    PROVE  Inv'
<1>1. UNCHANGED <<state, consec, probes, cooled, sem, attempt, code, expired, runs>>
  BY Zenon DEF Limit, breakerVars
<1>2. /\ pc[c] = "idle" /\ pc'[c] \in {"idle", "limited"}
      /\ \A d \in Calls \ {c} : pc'[d] = pc[d]
  BY Zenon DEF Limit, Goes, Inv, TypeOK
<1>3. TypeOK'
  <2>1. tokens' \in 0..Burst BY DEF Limit, Inv, TypeOK
  <2>2. rounds' \in [Calls -> 0..MaxRounds] BY DEF Limit, Inv, TypeOK
  <2>3. pc' \in [Calls -> {"idle", "limited", "attempt", "call", "run", "back", "backoff",
                           "record"}]
    BY Zenon DEF Limit, Goes, Inv, TypeOK
  <2> QED BY Zenon, <1>1, <2>1, <2>2, <2>3 DEF Inv, TypeOK
<1>4. Holders' = Holders /\ Outstanding' = Outstanding
  BY Zenon, <1>2 DEF Holders, Outstanding
<1>5. SlotsExact' /\ HalfOpenCovered' /\ ConsecInv'
  BY Zenon, <1>1, <1>4 DEF Inv, SlotsExact, HalfOpenCovered, ConsecInv
<1>6. AttemptInv' BY Zenon, <1>1, <1>2 DEF Inv, AttemptInv
<1> QED BY Zenon, <1>3, <1>5, <1>6 DEF Inv

\* A caller that returns has nothing on its account.
LEMMA ReturnsStep ==
    ASSUME Inv, NEW c \in Calls, Returns(c), sem' = sem, pc[c] \notin {"call", "run"}
    PROVE  /\ AttemptInv' /\ SlotsExact'
           /\ pc' \in [Calls -> {"idle", "limited", "attempt", "call", "run", "back", "backoff",
                               "record"}]
           /\ attempt' \in [Calls -> 0..MaxAttempts] /\ runs' \in [Calls -> 0..MaxAttempts]
           /\ code' \in [Calls -> Codes] /\ expired' \subseteq Calls
           /\ Outstanding' = Outstanding \ {c}
<1>1. Others(c) BY Zenon DEF Others, Returns, Goes, Inv, TypeOK
<1>2. pc'[c] = "idle" /\ attempt'[c] = 0 /\ runs'[c] = 0 BY Zenon DEF Returns, Goes, Inv, TypeOK
<1>3. AttemptInv' BY <1>1, <1>2 DEF Others, AttemptInv, Inv
<1>5. Holders' = Holders BY Zenon, <1>1, <1>2 DEF Others, Holders
<1>6. SlotsExact' BY Zenon, <1>5 DEF SlotsExact, Inv
<1>7. /\ pc' \in [Calls -> {"idle", "limited", "attempt", "call", "run", "back", "backoff",
                            "record"}]
      /\ attempt' \in [Calls -> 0..MaxAttempts] /\ runs' \in [Calls -> 0..MaxAttempts]
      /\ code' \in [Calls -> Codes] /\ expired' \subseteq Calls
  BY DEF Returns, Goes, Inv, TypeOK, Codes
<1>8. Outstanding' = Outstanding \ {c} BY Zenon, <1>1, <1>2 DEF Others, Outstanding
<1> QED BY Zenon, <1>3, <1>6, <1>7, <1>8

\* The breaker admits a call, as one more probe when it is half open, or denies it.
LEMMA AllowStep ==
    ASSUME Inv, NEW c \in Calls, Allow(c)
    PROVE  Inv'
<1>0. /\ pc[c] = "limited" /\ c \notin Outstanding /\ Outstanding \subseteq Calls
      /\ UNCHANGED <<tokens, sem, rounds>>
  BY Zenon DEF Allow, Outstanding
<1>1. ASSUME Admits, Goes(c, "attempt"), UNCHANGED <<attempt, code, expired, runs>>
      PROVE  Inv'
  <2>1. pc'[c] = "attempt" /\ \A d \in Calls \ {c} : pc'[d] = pc[d]
    BY Zenon, <1>1 DEF Goes, Inv, TypeOK
  <2>2. Outstanding' = Outstanding \union {c} BY Zenon, <2>1 DEF Outstanding
  <2>3. Holders' = Holders BY Zenon, <2>1, <1>0 DEF Holders
  <2>4. /\ Cardinality(Outstanding) \in Nat
        /\ Cardinality(Outstanding') = Cardinality(Outstanding) + 1
    BY Zenon, <1>0, <2>2, Counting
  <2>5. TypeOK'
    <3>1. /\ state' \in {"closed", "open", "half-open"} /\ consec' \in 0..Threshold
          /\ probes' \in 0..MaxProbes
      BY <1>1 DEF Admits, Inv, TypeOK, breakerVars
    <3>2. cooled' \in BOOLEAN BY Zenon, <1>1 DEF Admits, Inv, TypeOK, breakerVars
    <3>3. pc' \in [Calls -> {"idle", "limited", "attempt", "call", "run", "back", "backoff",
                             "record"}]
      BY Zenon, <1>1 DEF Goes, Inv, TypeOK
    <3> QED BY Zenon, <1>0, <1>1, <3>1, <3>2, <3>3 DEF Inv, TypeOK
  <2>6. SlotsExact' BY Zenon, <1>0, <2>3 DEF Inv, SlotsExact
  <2>7. ConsecInv' BY Zenon, <1>1 DEF Inv, ConsecInv, Admits, breakerVars
  <2>8. HalfOpenCovered'
    BY <1>1, <2>4 DEF Inv, TypeOK, HalfOpenCovered, Admits, breakerVars
  <2>9. attempt[c] = 0 /\ runs[c] <= attempt[c] /\ runs[c] \in Nat
    BY <1>0 DEF Inv, AttemptInv, TypeOK
  <2>10. AttemptInv' BY <1>1, <2>1, <2>9 DEF Inv, AttemptInv
  <2> QED BY Zenon, <2>5, <2>6, <2>7, <2>8, <2>10 DEF Inv
<1>2. ASSUME Returns(c), UNCHANGED breakerVars PROVE Inv'
  <2>1. Outstanding' = Outstanding BY Zenon, <1>0, <1>2, ReturnsStep
  <2>2. ConsecInv' /\ HalfOpenCovered'
    BY Zenon, <1>2, <2>1 DEF Inv, ConsecInv, HalfOpenCovered, breakerVars
  <2>3. AttemptInv' /\ SlotsExact' BY Zenon, <1>0, <1>2, ReturnsStep
  <2>4. TypeOK' BY Zenon, <1>0, <1>2, ReturnsStep DEF Inv, TypeOK, breakerVars
  <2> QED BY Zenon, <2>2, <2>3, <2>4 DEF Inv
<1> QED BY Zenon, <1>1, <1>2 DEF Allow

\* The breaker's record: it folds in whatever call ends, and stays covered.
LEMMA RecordStep ==
    ASSUME Inv, NEW c \in Calls, Record(c)
    PROVE  Inv'
<1>0. pc[c] = "record" /\ c \in Outstanding /\ Outstanding \subseteq Calls
  BY Zenon DEF Record, Outstanding
<1>1. Returns(c) /\ RecordOutcome(IsFailure(code[c])) /\ UNCHANGED <<tokens, sem, rounds>>
  BY Zenon DEF Record
<1>2. Outstanding' = Outstanding \ {c} BY Zenon, <1>0, <1>1, ReturnsStep
<1>3. /\ Cardinality(Outstanding) \in Nat
      /\ Cardinality(Outstanding') = Cardinality(Outstanding) - 1
  BY Zenon, <1>0, <1>2, Counting
<1>4. AttemptInv' /\ SlotsExact' BY Zenon, <1>0, <1>1, ReturnsStep
<1> DEFINE failed == IsFailure(code[c])
<1>5. failed \in BOOLEAN BY Zenon DEF IsFailure
<1> HIDE DEF failed
<1>6. ConsecInv' BY <1>1 DEF Inv, TypeOK, ConsecInv, RecordOutcome, Trip, breakerVars
<1>7. HalfOpenCovered'
  BY <1>1, <1>3 DEF Inv, TypeOK, HalfOpenCovered, RecordOutcome, Trip, breakerVars
<1>8. TypeOK'
  <2>1. state' \in {"closed", "open", "half-open"}
    BY Zenon, <1>1 DEF Inv, TypeOK, RecordOutcome, Trip, breakerVars
  <2>2. consec' \in 0..Threshold
    BY <1>1 DEF Inv, TypeOK, ConsecInv, RecordOutcome, Trip, breakerVars
  <2>3. probes' \in 0..MaxProbes
    BY <1>1 DEF Inv, TypeOK, HalfOpenCovered, RecordOutcome, Trip, breakerVars
  <2>4. cooled' \in BOOLEAN BY Zenon, <1>1 DEF Inv, TypeOK, RecordOutcome, Trip, breakerVars
  <2> QED BY Zenon, <1>0, <1>1, <2>1, <2>2, <2>3, <2>4, ReturnsStep DEF Inv, TypeOK
<1> QED BY Zenon, <1>4, <1>6, <1>7, <1>8 DEF Inv

\* An attempt takes a slot, or fails for want of one.
LEMMA AcquireStep ==
    ASSUME Inv, NEW c \in Calls, Acquire(c)
    PROVE  Inv'
<1>0. /\ pc[c] = "attempt" /\ c \notin Holders /\ Holders \subseteq Calls
      /\ UNCHANGED <<tokens, state, consec, probes, cooled, expired, runs, rounds>>
  BY Zenon DEF Acquire, Holders, breakerVars
<1>1. Others(c) /\ attempt'[c] = attempt[c] + 1 /\ pc'[c] \in {"call", "back"}
  BY Zenon DEF Acquire, Others, Goes, Inv, TypeOK
<1>2. attempt[c] < MaxAttempts /\ attempt[c] \in Nat /\ runs[c] \in Nat /\ runs[c] <= attempt[c]
  BY <1>0 DEF Inv, AttemptInv, TypeOK
<1>3. Outstanding' = Outstanding BY Zenon, <1>0, <1>1 DEF Others, Outstanding
<1>4. AttemptInv' BY <1>0, <1>1, <1>2 DEF Others, Inv, AttemptInv
<1>6. ConsecInv' /\ HalfOpenCovered' BY Zenon, <1>0, <1>3 DEF Inv, ConsecInv, HalfOpenCovered
<1>7. /\ Cardinality(Holders) \in Nat
      /\ Cardinality(Holders \union {c}) = Cardinality(Holders) + 1
  BY Zenon, <1>0, Counting
<1>8. CASE sem < MaxConcurrent /\ sem' = sem + 1 /\ Goes(c, "call") /\ UNCHANGED code
  <2>1. Holders' = Holders \union {c} BY Zenon, <1>1, <1>8 DEF Others, Holders, Goes, Inv, TypeOK
  <2>2. SlotsExact' BY Zenon, <1>7, <1>8, <2>1 DEF Inv, SlotsExact
  <2>3. TypeOK'
    <3>1. attempt' \in [Calls -> 0..MaxAttempts] BY <1>2 DEF Acquire, Inv, TypeOK
    <3>2. sem' \in 0..MaxConcurrent BY <1>8 DEF Inv, TypeOK
    <3>3. pc' \in [Calls -> {"idle", "limited", "attempt", "call", "run", "back", "backoff",
                             "record"}]
      BY Zenon, <1>8 DEF Goes, Inv, TypeOK
    <3> QED BY Zenon, <1>0, <1>8, <3>1, <3>2, <3>3 DEF Inv, TypeOK
  <2> QED BY Zenon, <1>4, <1>6, <2>2, <2>3 DEF Inv
<1>9. CASE /\ UNCHANGED sem /\ Goes(c, "back")
           /\ code' = [code EXCEPT ![c] = "ResourceExhausted"]
  <2>1. Holders' = Holders BY Zenon, <1>0, <1>1, <1>9 DEF Others, Holders, Goes, Inv, TypeOK
  <2>2. SlotsExact' BY Zenon, <1>9, <2>1 DEF Inv, SlotsExact
  <2>3. TypeOK'
    <3>1. attempt' \in [Calls -> 0..MaxAttempts] BY <1>2 DEF Acquire, Inv, TypeOK
    <3>2. code' \in [Calls -> Codes] BY Zenon, <1>9 DEF Inv, TypeOK, Codes
    <3>3. pc' \in [Calls -> {"idle", "limited", "attempt", "call", "run", "back", "backoff",
                             "record"}]
      BY Zenon, <1>9 DEF Goes, Inv, TypeOK
    <3> QED BY Zenon, <1>0, <1>9, <3>1, <3>2, <3>3 DEF Inv, TypeOK
  <2> QED BY Zenon, <1>4, <1>6, <2>2, <2>3 DEF Inv
<1> QED BY Zenon, <1>8, <1>9 DEF Acquire

\* The attempt ends, with whatever code, and gives its slot back.
LEMMA AnswerStep ==
    ASSUME Inv, NEW c \in Calls, Answer(c)
    PROVE  Inv'
<1>0. /\ pc[c] \in {"call", "run"} /\ c \in Holders /\ Holders \subseteq Calls
      /\ sem' = sem - 1 /\ Goes(c, "back")
      /\ UNCHANGED <<tokens, state, consec, probes, cooled, attempt, expired, runs, rounds>>
  BY Zenon DEF Answer, Holders, breakerVars
<1>1. PICK x \in Codes : code' = [code EXCEPT ![c] = x]
  BY Zenon DEF Answer, Codes
<1>2. Others(c) /\ pc'[c] = "back" BY Zenon, <1>0, <1>1 DEF Others, Goes, Inv, TypeOK
<1>3. Outstanding' = Outstanding BY Zenon, <1>0, <1>2 DEF Others, Outstanding
<1>4. Holders' = Holders \ {c} BY Zenon, <1>2 DEF Others, Holders
<1>5. /\ Cardinality(Holders) \in Nat /\ Cardinality(Holders) >= 1
      /\ Cardinality(Holders') = Cardinality(Holders) - 1
  BY Zenon, <1>0, <1>4, Counting
<1>6. SlotsExact' BY Zenon, <1>0, <1>5 DEF Inv, SlotsExact
<1>7. ConsecInv' /\ HalfOpenCovered' BY Zenon, <1>0, <1>3 DEF Inv, ConsecInv, HalfOpenCovered
<1>8. AttemptInv' BY Zenon, <1>0, <1>2 DEF Others, Inv, AttemptInv
<1>10. TypeOK'
  <2>1. sem' \in 0..MaxConcurrent BY <1>0, <1>5 DEF Inv, TypeOK, SlotsExact
  <2>2. code' \in [Calls -> Codes] BY Zenon, <1>1 DEF Inv, TypeOK
  <2>3. pc' \in [Calls -> {"idle", "limited", "attempt", "call", "run", "back", "backoff",
                           "record"}]
    BY Zenon, <1>0 DEF Goes, Inv, TypeOK
  <2> QED BY Zenon, <1>0, <2>1, <2>2, <2>3 DEF Inv, TypeOK
<1> QED BY Zenon, <1>6, <1>7, <1>8, <1>10 DEF Inv

\* The server runs the handler: once per attempt.
LEMMA RunStep ==
    ASSUME Inv, NEW c \in Calls, Run(c)
    PROVE  Inv'
<1>0. /\ pc[c] = "call" /\ Goes(c, "run") /\ runs' = [runs EXCEPT ![c] = @ + 1]
      /\ UNCHANGED <<tokens, state, consec, probes, cooled, sem, attempt, code, expired, rounds>>
  BY Zenon DEF Run, breakerVars
<1>1. Others(c) /\ pc'[c] = "run" /\ runs'[c] = runs[c] + 1
  BY Zenon, <1>0 DEF Others, Goes, Inv, TypeOK
<1>2. runs[c] < attempt[c] /\ runs[c] \in Nat /\ attempt[c] \in 0..MaxAttempts
  BY <1>0 DEF Inv, AttemptInv, TypeOK
<1>3. Outstanding' = Outstanding /\ Holders' = Holders
  BY Zenon, <1>0, <1>1 DEF Others, Outstanding, Holders
<1>4. SlotsExact' /\ ConsecInv' /\ HalfOpenCovered'
  BY Zenon, <1>0, <1>3 DEF Inv, SlotsExact, ConsecInv, HalfOpenCovered
<1>5. AttemptInv' BY <1>0, <1>1, <1>2 DEF Others, Inv, AttemptInv
<1>7. TypeOK'
  <2>1. runs' \in [Calls -> 0..MaxAttempts] BY <1>0, <1>2 DEF Inv, TypeOK
  <2>2. pc' \in [Calls -> {"idle", "limited", "attempt", "call", "run", "back", "backoff",
                           "record"}]
    BY Zenon, <1>0 DEF Goes, Inv, TypeOK
  <2> QED BY Zenon, <1>0, <2>1, <2>2 DEF Inv, TypeOK
<1> QED BY Zenon, <1>4, <1>5, <1>7 DEF Inv

\* Retry judges an attempt: it goes on only with an attempt left.
LEMMA RetryStep ==
    ASSUME Inv, NEW c \in Calls, Judge(c) \/ Backoff(c)
    PROVE  Inv'
<1>0. UNCHANGED <<tokens, state, consec, probes, cooled, sem, attempt, code, expired, runs,
                  rounds>>
  BY Zenon DEF Judge, Backoff, breakerVars
<1>1. /\ pc[c] \in {"back", "backoff"} /\ pc'[c] \in {"record", "backoff", "attempt"}
      /\ \A d \in Calls \ {c} : pc'[d] = pc[d]
      /\ pc' \in [Calls -> {"idle", "limited", "attempt", "call", "run", "back", "backoff",
                           "record"}]
  BY Zenon DEF Judge, Backoff, Goes, Inv, TypeOK
<1>2. pc'[c] # "record" => attempt[c] < MaxAttempts
  <2>1. CASE Judge(c) BY <2>1 DEF Judge, Goes, Inv, TypeOK
  <2>2. CASE Backoff(c) BY Zenon, <2>2 DEF Backoff, Inv, AttemptInv
  <2> QED BY Zenon, <2>1, <2>2
<1>3. Outstanding' = Outstanding /\ Holders' = Holders BY Zenon, <1>1 DEF Outstanding, Holders
<1>4. SlotsExact' /\ ConsecInv' /\ HalfOpenCovered'
  BY Zenon, <1>0, <1>3 DEF Inv, SlotsExact, ConsecInv, HalfOpenCovered
<1>5. AttemptInv' BY Zenon, <1>0, <1>1, <1>2 DEF Inv, AttemptInv
<1>7. TypeOK' BY Zenon, <1>0, <1>1 DEF Inv, TypeOK
<1> QED BY Zenon, <1>4, <1>5, <1>7 DEF Inv

\* The invariant holds in every state of the chain.
LEMMA InvCorrect == Spec => []Inv
<1>1. Inv /\ [Next]_vars => Inv'
  <2> SUFFICES ASSUME Inv, [Next]_vars PROVE Inv' BY Zenon
  <2>1. CASE UNCHANGED vars
    <3>1. TypeOK' BY Zenon, <2>1 DEF Inv, TypeOK, vars, breakerVars
    <3>2. SlotsExact' /\ HalfOpenCovered'
      BY Zenon, <2>1 DEF Inv, SlotsExact, Holders, HalfOpenCovered, Outstanding, vars,
         breakerVars
    <3>3. ConsecInv' /\ AttemptInv'
      BY Zenon, <2>1 DEF Inv, ConsecInv, AttemptInv, vars, breakerVars
    <3> QED BY Zenon, <3>1, <3>2, <3>3 DEF Inv
  <2>2. CASE Next
    BY Zenon, <2>2, TimeStep, LimitStep, AllowStep, RecordStep, AcquireStep,
       AnswerStep, RunStep, RetryStep DEF Next, CallStep
  <2> QED BY Zenon, <2>1, <2>2
<1> QED BY InitInv, <1>1, PTL DEF Spec

-----------------------------------------------------------------------------
(* The theorems *)

\* A half-open breaker always has a call outstanding whose record will move it on.
THEOREM HalfOpenCorrect == Spec => []HalfOpenCovered
<1>1. Inv => HalfOpenCovered BY Zenon DEF Inv
<1> QED BY InvCorrect, <1>1, PTL

\* The bulkhead's semaphore counts the attempts under way: no attempt, however it
\* ends, keeps its slot or gives it back twice, and MaxConcurrent is never exceeded.
THEOREM SlotsCorrect == Spec => [](SlotsExact /\ sem <= MaxConcurrent)
<1>1. Inv => SlotsExact /\ sem <= MaxConcurrent BY DEF Inv, TypeOK
<1> QED BY InvCorrect, <1>1, PTL

\* Retry makes at most MaxAttempts attempts, the handler runs at most once for
\* each of them, and the counters of breaker and bucket stay in their ranges.
THEOREM TypeCorrect == Spec => []TypeOK
<1>1. Inv => TypeOK BY Zenon DEF Inv
<1> QED BY InvCorrect, <1>1, PTL
=============================================================================
