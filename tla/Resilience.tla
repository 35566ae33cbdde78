----------------------------- MODULE Resilience -----------------------------
(***************************************************************************)
(* The interceptor chain of the resilience module in the order its         *)
(* documentation recommends, with a bulkhead around each attempt:          *)
(*                                                                         *)
(*    RateLimit -> CircuitBreaker -> Retry -> Bulkhead -> Timeout -> call  *)
(*                                                                         *)
(* Concurrent calls to one method share the bucket, the breaker and the    *)
(* semaphore.  The mutex of the bucket and of the breaker makes each of    *)
(* their operations one step; the call itself is not.  Time is abstract:   *)
(* a cooldown elapses, a token is refilled, a deadline passes.             *)
(***************************************************************************)
EXTENDS Integers, FiniteSets

CONSTANTS
    Calls,          \* concurrent callers
    Burst,          \* RateLimit: burst
    Threshold,      \* CircuitBreaker: threshold
    MaxProbes,      \* CircuitBreaker: maxProbes
    MaxAttempts,    \* Retry: maxAttempts
    MaxConcurrent,  \* Bulkhead: maxConcurrent
    MaxRounds       \* bound: calls each caller makes

ASSUME CallsAssumption == IsFiniteSet(Calls)
ASSUME OptionsAssumption ==
    /\ Burst \in Nat \ {0} /\ Threshold \in Nat \ {0} /\ MaxProbes \in Nat \ {0}
    /\ MaxAttempts \in Nat \ {0} /\ MaxConcurrent \in Nat \ {0} /\ MaxRounds \in Nat

Codes == {"OK", "Unavailable", "ResourceExhausted", "DeadlineExceeded", "Internal",
          "InvalidArgument"}

VARIABLES
    tokens,     \* tokenBucket.tokens, whole tokens
    state,      \* breaker.state
    consec,     \* breaker.consec
    probes,     \* breaker.probes
    cooled,     \* the cooldown has elapsed since the breaker was tripped
    sem,        \* slots taken in the bulkhead
    pc,         \* pc[c]
    attempt,    \* attempt[c]: attempts Retry has made
    code,       \* code[c]: the code of the last attempt
    expired,    \* callers whose context is done
    runs,       \* runs[c]: times the server ran the handler for this call
    rounds      \* rounds[c]: calls made so far

breakerVars == <<state, consec, probes, cooled>>
vars == <<tokens, breakerVars, sem, pc, attempt, code, expired, runs, rounds>>

TypeOK ==
    /\ tokens \in 0..Burst
    /\ state \in {"closed", "open", "half-open"}
    /\ consec \in 0..Threshold
    /\ probes \in 0..MaxProbes
    /\ cooled \in BOOLEAN
    /\ sem \in 0..MaxConcurrent
    /\ pc \in [Calls -> {"idle", "limited", "attempt", "call", "run", "back", "backoff",
                         "record"}]
    /\ attempt \in [Calls -> 0..MaxAttempts]
    /\ code \in [Calls -> Codes]
    /\ expired \subseteq Calls
    /\ runs \in [Calls -> 0..MaxAttempts]
    /\ rounds \in [Calls -> 0..MaxRounds]

Init ==
    /\ tokens = Burst
    /\ state = "closed" /\ consec = 0 /\ probes = 0 /\ cooled = FALSE
    /\ sem = 0
    /\ pc = [c \in Calls |-> "idle"]
    /\ attempt = [c \in Calls |-> 0]
    /\ code = [c \in Calls |-> "OK"]
    /\ expired = {}
    /\ runs = [c \in Calls |-> 0]
    /\ rounds = [c \in Calls |-> 0]

Goes(c, s) == pc' = [pc EXCEPT ![c] = s]

\* The call is over; the caller may make another.
Returns(c) ==
    /\ Goes(c, "idle")
    /\ attempt' = [attempt EXCEPT ![c] = 0]
    /\ code' = [code EXCEPT ![c] = "OK"]
    /\ expired' = expired \ {c}
    /\ runs' = [runs EXCEPT ![c] = 0]

-----------------------------------------------------------------------------
(* RateLimit *)

Refill ==
    /\ tokens < Burst
    /\ tokens' = tokens + 1
    /\ UNCHANGED <<breakerVars, sem, pc, attempt, code, expired, runs, rounds>>

Limit(c) ==
    /\ pc[c] = "idle" /\ rounds[c] < MaxRounds
    /\ rounds' = [rounds EXCEPT ![c] = @ + 1]
    /\ IF tokens >= 1 THEN tokens' = tokens - 1 /\ Goes(c, "limited")
                      ELSE UNCHANGED <<tokens, pc>>
    /\ UNCHANGED <<breakerVars, sem, attempt, code, expired, runs>>

-----------------------------------------------------------------------------
(* CircuitBreaker *)

Cooldown ==
    /\ state = "open" /\ ~cooled
    /\ cooled' = TRUE
    /\ UNCHANGED <<tokens, state, consec, probes, sem, pc, attempt, code, expired, runs,
                   rounds>>

\* A call is admitted: closed, the first probe after the cooldown, a further probe.
Admits ==
    \/ state = "closed" /\ UNCHANGED breakerVars
    \/ /\ state = "open" /\ cooled
       /\ state' = "half-open" /\ probes' = 1
       /\ UNCHANGED <<consec, cooled>>
    \/ /\ state = "half-open" /\ probes < MaxProbes
       /\ probes' = probes + 1
       /\ UNCHANGED <<state, consec, cooled>>

Denies ==
    \/ state = "open" /\ ~cooled
    \/ state = "half-open" /\ probes >= MaxProbes

\* Wrong: the call that finds the cooldown elapsed is turned away.
AllowNoProbe(c) ==
    /\ pc[c] = "limited"
    /\ IF state = "open" /\ cooled
       THEN /\ state' = "half-open" /\ probes' = 1
            /\ UNCHANGED <<consec, cooled>>
            /\ Returns(c)
       ELSE \/ Admits /\ Goes(c, "attempt") /\ UNCHANGED <<attempt, code, expired, runs>>
            \/ Denies /\ Returns(c) /\ UNCHANGED breakerVars
    /\ UNCHANGED <<tokens, sem, rounds>>

Allow(c) ==
    /\ pc[c] = "limited"
    /\ \/ Admits /\ Goes(c, "attempt") /\ UNCHANGED <<attempt, code, expired, runs>>
       \/ Denies /\ Returns(c) /\ UNCHANGED breakerVars
    /\ UNCHANGED <<tokens, sem, rounds>>

Trip ==
    /\ state' = "open"
    /\ cooled' = FALSE
    /\ probes' = 0

\* defaultIsFailure
IsFailure(x) == x \notin {"OK", "InvalidArgument"}

\* Wrong: a probe that succeeds is not counted down.
RecordOutcomeKeeps(failed) ==
    \/ /\ state = "closed" /\ failed
       /\ consec' = consec + 1
       /\ IF consec + 1 >= Threshold THEN Trip ELSE UNCHANGED <<state, cooled, probes>>
    \/ state = "closed" /\ ~failed /\ consec' = 0 /\ UNCHANGED <<state, probes, cooled>>
    \/ state = "half-open" /\ failed /\ Trip /\ UNCHANGED consec
    \/ /\ state = "half-open" /\ ~failed
       /\ IF probes <= 1 THEN state' = "closed" /\ consec' = 0 /\ probes' = 0
                         ELSE UNCHANGED <<state, consec, probes>>
       /\ UNCHANGED cooled
    \/ state = "open" /\ UNCHANGED breakerVars

\* record, whatever state the breaker was in when the call was admitted.
RecordOutcome(failed) ==
    \/ /\ state = "closed" /\ failed
       /\ consec' = consec + 1
       /\ IF consec + 1 >= Threshold THEN Trip ELSE UNCHANGED <<state, cooled, probes>>
    \/ state = "closed" /\ ~failed /\ consec' = 0 /\ UNCHANGED <<state, probes, cooled>>
    \/ state = "half-open" /\ failed /\ Trip /\ UNCHANGED consec
    \/ /\ state = "half-open" /\ ~failed
       /\ probes' = probes - 1
       /\ IF probes - 1 <= 0 THEN state' = "closed" /\ consec' = 0
                             ELSE UNCHANGED <<state, consec>>
       /\ UNCHANGED cooled
    \/ state = "open" /\ UNCHANGED breakerVars

Record(c) ==
    /\ pc[c] = "record"
    /\ RecordOutcome(IsFailure(code[c]))
    /\ Returns(c)
    /\ UNCHANGED <<tokens, sem, rounds>>

-----------------------------------------------------------------------------
(* Retry, Bulkhead, Timeout and the call *)

\* The context is done.  Only the waits for a slot and for the backoff look at it,
\* so it is marked when the caller is there.
Expire(c) ==
    /\ pc[c] \in {"attempt", "backoff"} /\ c \notin expired
    /\ expired' = expired \union {c}
    /\ UNCHANGED <<tokens, breakerVars, sem, pc, attempt, code, runs, rounds>>

\* Retry invokes the next attempt, which waits for a slot or for its context.
Acquire(c) ==
    /\ pc[c] = "attempt"
    /\ attempt' = [attempt EXCEPT ![c] = @ + 1]
    /\ \/ sem < MaxConcurrent /\ sem' = sem + 1 /\ Goes(c, "call") /\ UNCHANGED code
       \/ /\ c \in expired /\ UNCHANGED sem
          /\ Goes(c, "back") /\ code' = [code EXCEPT ![c] = "ResourceExhausted"]
    /\ UNCHANGED <<tokens, breakerVars, expired, runs, rounds>>

\* The server runs the handler.
Run(c) ==
    /\ pc[c] = "call"
    /\ runs' = [runs EXCEPT ![c] = @ + 1]
    /\ Goes(c, "run")
    /\ UNCHANGED <<tokens, breakerVars, sem, attempt, code, expired, rounds>>

\* Wrong: the slot is given back only after a call that went well.
AnswerKeepsSlot(c) ==
    /\ \/ pc[c] = "call" /\ code' \in {[code EXCEPT ![c] = x] :
              x \in {"Unavailable", "ResourceExhausted", "DeadlineExceeded"}}
       \/ pc[c] = "run" /\ code' \in {[code EXCEPT ![c] = x] : x \in Codes}
    /\ sem' = IF code'[c] = "OK" THEN sem - 1 ELSE sem
    /\ Goes(c, "back")
    /\ UNCHANGED <<tokens, breakerVars, attempt, expired, runs, rounds>>

\* The attempt ends and gives its slot back.  A handler that ran answers, with a
\* result or an error of any code (handlerErrCode passes its own on, Unavailable
\* and ResourceExhausted included), or its answer is lost with the connection
\* (ErrConnectionLost carries Unavailable) or comes after the deadline.  One that
\* did not run was refused by the server's cap, lost on the way, not sent for want
\* of a connection, or overtaken by the deadline.
Answer(c) ==
    /\ \/ pc[c] = "call" /\ code' \in {[code EXCEPT ![c] = x] :
              x \in {"Unavailable", "ResourceExhausted", "DeadlineExceeded"}}
       \/ pc[c] = "run" /\ code' \in {[code EXCEPT ![c] = x] : x \in Codes}
    /\ sem' = sem - 1
    /\ Goes(c, "back")
    /\ UNCHANGED <<tokens, breakerVars, attempt, expired, runs, rounds>>

\* defaultRetryable
Retryable(x) == x \in {"Unavailable", "ResourceExhausted"}

Judge(c) ==
    /\ pc[c] = "back"
    /\ Goes(c, IF attempt[c] >= MaxAttempts \/ ~Retryable(code[c]) THEN "record"
               ELSE "backoff")
    /\ UNCHANGED <<tokens, breakerVars, sem, attempt, code, expired, runs, rounds>>

\* The backoff elapses, or the context is done and the last result stands.
Backoff(c) ==
    /\ pc[c] = "backoff"
    /\ \/ Goes(c, "attempt")
       \/ c \in expired /\ Goes(c, "record")
    /\ UNCHANGED <<tokens, breakerVars, sem, attempt, code, expired, runs, rounds>>

-----------------------------------------------------------------------------
CallStep(c) ==
    \/ Allow(c) \/ Acquire(c) \/ Answer(c) \/ Judge(c) \/ Backoff(c) \/ Record(c)

Next ==
    \/ Refill \/ Cooldown
    \/ \E c \in Calls : Limit(c) \/ Expire(c) \/ Run(c) \/ CallStep(c)

Spec == Init /\ [][Next]_vars

\* As long as a caller can move, one does.  Every attempt ends, by the client's
\* timer if by nothing else.  Callers make MaxRounds calls each, so none is overtaken
\* for ever; beyond that bound, CallReturns rests on the runtime's queue of the
\* senders of a channel, which is first in, first out.
Fairness == WF_vars(\E c \in Calls : CallStep(c))

FairSpec == Spec /\ Fairness

-----------------------------------------------------------------------------
\* The callers whose attempt holds a slot of the bulkhead.
Holders == {c \in Calls : pc[c] \in {"call", "run"}}

(***************************************************************************)
(* The bulkhead's semaphore counts exactly the attempts under way: one     *)
(* that is refused, lost, overtaken by its deadline or tried again gives   *)
(* its slot back, once, and a caller that gave up waiting for a slot gives *)
(* none back.                                                              *)
(***************************************************************************)
SlotsExact == sem = Cardinality(Holders)

Outstanding == {c \in Calls : pc[c] \in {"attempt", "call", "run", "back", "backoff", "record"}}

(***************************************************************************)
(* A half-open breaker is waiting for someone: its probes are at least one *)
(* and no more than the calls still to be recorded.  Results of calls that *)
(* were admitted before the breaker opened are folded in as well, so this  *)
(* is not a count of probes; were it to exceed the calls outstanding, the  *)
(* breaker would refuse every call for good.                               *)
(***************************************************************************)
HalfOpenCovered ==
    state = "half-open" => 1 <= probes /\ probes <= Cardinality(Outstanding)

(***************************************************************************)
(* A half-open breaker closes or opens again.                              *)
(***************************************************************************)
HalfOpenResolves == state = "half-open" ~> state # "half-open"

(***************************************************************************)
(* Every call returns: retries end, and no caller waits for ever for a     *)
(* slot of the bulkhead that an earlier attempt failed to give back.       *)
(***************************************************************************)
CallReturns == \A c \in Calls : pc[c] # "idle" ~> pc[c] = "idle"
=============================================================================
