------------------------------- MODULE Health -------------------------------
(* Managed device sessions (src/src/service/health.rs): outage suppression  *)
(* by a cooldown, and reads that first try a short timeout learned from     *)
(* earlier successes.  Several callers share one ManagedDeviceSession; its  *)
(* HealthState is only touched under a mutex, but the mutex is released     *)
(* while an exchange is under way, so results are recorded in any order.    *)
(* The link below the session is external: it answers an exchange with any  *)
(* of its results, at times its own timeouts allow.                         *)
EXTENDS Integers, FiniteSets, SequencesExt

CONSTANTS
    Calls,          \* calls made on the session, each at most once
    Policy,         \* per call: RetryPolicy, what it executes and whether it probes
    Adaptive,       \* AdaptiveTiming, or NoAdaptive
    NoAdaptive,
    Threshold,      \* DeviceHealthOptions::failure_threshold
    Cooldown,       \* DeviceHealthOptions::cooldown; zero disables the waiting period
    DrainGuard,     \* the link answers a response timeout this late at most
    MaxRetryTime,   \* MAXIMUM_RETRY_DURATION
    MaxTime         \* bound of the modelled clock

AdaptiveValid ==
    /\ Adaptive.minimum \in 1..Adaptive.maximum
    /\ Adaptive.maximum <= MaxRetryTime
    /\ Adaptive.margin \in 0..MaxRetryTime

OptionsValid ==
    /\ Threshold \in Nat \ {0}
    /\ Cooldown \in 0..MaxRetryTime
    /\ Adaptive # NoAdaptive => AdaptiveValid

ASSUME HealthOptionsValid ==
    OptionsValid /\ \A c \in Calls : Policy[c].response > 0 /\ Policy[c].total > 0
ASSUME HealthTypes ==
    /\ IsFiniteSet(Calls) /\ MaxRetryTime \in Nat
    /\ Policy \in [Calls -> [read : BOOLEAN, probe : BOOLEAN, retries : Nat, busy : Nat,
                             polls : Nat, response : Nat, total : Nat]]
    /\ Adaptive # NoAdaptive => Adaptive \in [minimum : Nat, maximum : Nat, margin : Nat]

VARIABLES
    clock,      \* tokio's clock
    health,     \* HealthState
    call,       \* what each caller is doing
    recorded,   \* history: whether each result was an outage, in the order
                \*   in which record_* took the mutex
    recordedAt  \* history: when the last of them was recorded

healthVars == <<clock, health, call, recorded, recordedAt>>

None == -1
ReadOnly(c) == Policy[c].read           \* registered_read_only(command)

HealthInit ==
    /\ clock = 0
    /\ health = [successes |-> 0, failures |-> 0, consecutive |-> 0,
                 activations |-> 0, rejections |-> 0, until |-> None,
                 learned |-> None, attempts |-> 0, fallbacks |-> 0]
    /\ call = [c \in Calls |-> [at |-> "idle", tried |-> "none"]]
    /\ recorded = <<>> /\ recordedAt = None

Cooling == health.until > clock         \* None is below every time

-----------------------------------------------------------------------------
(* check_cooldown, and probe's refusal of anything but registered reads.    *)

Reject(c) ==
    /\ call[c].at = "idle"
    /\ \/ /\ Policy[c].probe /\ ~ReadOnly(c)
          /\ UNCHANGED health
       \/ /\ ~Policy[c].probe /\ Cooling
          /\ health' = [health EXCEPT !.rejections = @ + 1]
    /\ call' = [call EXCEPT ![c].at = "rejected"]
    /\ UNCHANGED <<clock, recorded, recordedAt>>

CheckCooldown(c) ==
    /\ call[c].at = "idle"
    /\ \/ Policy[c].probe /\ ReadOnly(c) /\ UNCHANGED health
       \/ ~Policy[c].probe /\ ~Cooling /\ health' = [health EXCEPT !.until = None]
    /\ call' = [call EXCEPT ![c] = [at |-> "checked", tried |-> "none", started |-> clock]]
    /\ UNCHANGED <<clock, recorded, recordedAt>>

-----------------------------------------------------------------------------
(* adaptive_timeout: the learned duration with its margin, clamped, and only *)
(* if that is shorter than what the caller asked for.                        *)

Clamp(x, low, high) == IF x < low THEN low ELSE IF x > high THEN high ELSE x

FastTimeout ==
    Clamp(health.learned + Adaptive.margin, Adaptive.minimum, Adaptive.maximum)

UsesFast(c) ==
    /\ Policy[c].retries > 0 /\ ReadOnly(c)
    /\ Adaptive # NoAdaptive /\ health.learned # None
    /\ FastTimeout < Policy[c].response

\* busy_retries and delayed_response_polls: every exchange of the call has them.
Repeats(c) == Policy[c].busy + Policy[c].polls

\* An exchange handed to the link, with the transmissions granted to the link
\* before: one, the transport retries it is given, and the repetitions.
Exchanging(c, tried, granted, retries, response, total) ==
    [at |-> "exchange", started |-> call[c].started, tried |-> tried, begun |-> clock,
     response |-> response, total |-> total,
     granted |-> granted + 1 + retries + Repeats(c)]

\* The learned value is read and the attempt counted under two acquisitions of
\* the mutex; nobody else's decision depends on the counter in between.
Launch(c) ==
    /\ call[c].at = "checked"
    /\ call' = [call EXCEPT ![c] =
                  IF UsesFast(c)
                  THEN Exchanging(c, "fast", 0, 0, FastTimeout, Policy[c].total)
                  ELSE Exchanging(c, "full", 0, Policy[c].retries, Policy[c].response,
                                  Policy[c].total)]
    /\ health' = IF UsesFast(c) THEN [health EXCEPT !.attempts = @ + 1] ELSE health
    /\ UNCHANGED <<clock, recorded, recordedAt>>

-----------------------------------------------------------------------------
(* Recording.  An outage is a response or send timeout, a channel error or a *)
(* stopped runner; a deadline and a device's answer are not.                 *)

Smoothed(sample) ==
    IF health.learned = None THEN sample ELSE (3 * health.learned + sample) \div 4

RecordedSuccess(c, elapsed) ==
    [health EXCEPT !.successes = @ + 1, !.consecutive = 0, !.until = None,
                   !.learned = IF ReadOnly(c) /\ Adaptive # NoAdaptive
                               THEN Smoothed(elapsed) ELSE @]

RecordedOutage ==
    LET n == health.consecutive + 1 IN
    [health EXCEPT !.failures = @ + 1, !.consecutive = n,
                   !.activations = IF n >= Threshold /\ ~Cooling THEN @ + 1 ELSE @,
                   !.until = IF n >= Threshold THEN clock + Cooldown ELSE @]

RejectionKeepsCooldown == [health EXCEPT !.failures = @ + 1, !.consecutive = 0]

RecordedRejection ==
    [health EXCEPT !.failures = @ + 1, !.consecutive = 0, !.until = None]

Finish(c, outage, next) ==
    /\ health' = next
    /\ call' = [call EXCEPT ![c] = [at |-> "ended", tried |-> @.tried]]
    /\ recorded' = Append(recorded, outage) /\ recordedAt' = clock
    /\ UNCHANGED clock

-----------------------------------------------------------------------------
(* What the link answers, and what execute_inner does with it.              *)

Waiting(c) == call[c].at = "exchange"
Remaining(c) == Policy[c].total - (clock - call[c].started)

Succeed(c) ==
    /\ Waiting(c) /\ clock <= call[c].begun + call[c].total
    /\ Finish(c, FALSE, RecordedSuccess(c, clock - call[c].begun))

\* The link may time out once one response timeout is over, and has said so
\* when its drain of late responses is over.
TimedOut(c) ==
    /\ Waiting(c)
    /\ clock >= call[c].begun + call[c].response
    /\ clock <= call[c].begun + call[c].total + DrainGuard

FinalTimeout(c) ==
    /\ TimedOut(c) /\ (call[c].tried = "fast" => Remaining(c) <= 0)
    /\ Finish(c, TRUE, RecordedOutage)

FallBack(c, retries) ==
    /\ TimedOut(c) /\ call[c].tried = "fast" /\ Remaining(c) > 0
    /\ health' = [health EXCEPT !.fallbacks = @ + 1]
    /\ call' = [call EXCEPT ![c] =
                  Exchanging(c, "fallback", @.granted, retries,
                             Clamp(Policy[c].response, 0, Remaining(c)), Remaining(c))]
    /\ UNCHANGED <<clock, recorded, recordedAt>>

\* Mutant of Fallback: the second attempt has all transport retries.
AllRetriesAgain(c) == FallBack(c, Policy[c].retries)

Fallback(c) == FallBack(c, Policy[c].retries - 1)

\* SendTimeout, Channel or RunnerStopped.
LinkOutage(c) == Waiting(c) /\ Finish(c, TRUE, RecordedOutage)

\* Deadline, a device's refusal, a reply that does not decode.
OtherError(c) == Waiting(c) /\ Finish(c, FALSE, RecordedRejection)

\* A call whose future is dropped while it waits records nothing.
Cancel(c) ==
    /\ Waiting(c)
    /\ call' = [call EXCEPT ![c] = [at |-> "dropped", tried |-> @.tried]]
    /\ UNCHANGED <<clock, health, recorded, recordedAt>>

\* snapshot() forgets a cooldown that is over.
Snapshot ==
    /\ health.until # None /\ ~Cooling
    /\ health' = [health EXCEPT !.until = None]
    /\ UNCHANGED <<clock, call, recorded, recordedAt>>

HealthTick ==
    /\ clock < MaxTime
    /\ clock' = clock + 1
    /\ UNCHANGED <<health, call, recorded, recordedAt>>

HealthNext ==
    \/ HealthTick \/ Snapshot
    \/ \E c \in Calls :
         \/ Reject(c) \/ CheckCooldown(c) \/ Launch(c)
         \/ Succeed(c) \/ FinalTimeout(c) \/ Fallback(c)
         \/ LinkOutage(c) \/ OtherError(c) \/ Cancel(c)

HealthSpec == HealthInit /\ [][HealthNext]_healthVars

-----------------------------------------------------------------------------
(* The number of outages at the end of the recorded results.                *)
OutageTail == CHOOSE n \in 0..Len(recorded) :
    /\ \A i \in Len(recorded) - n + 1 .. Len(recorded) : recorded[i]
    /\ n < Len(recorded) => ~recorded[Len(recorded) - n]

(* Ordinary calls are refused exactly while the last Threshold results, in   *)
(* the order in which they were recorded and whatever the order in which     *)
(* their calls began, are outages and the last of them is younger than the   *)
(* cooldown: no reader of the clock, no snapshot, no probe and no call that  *)
(* is dropped opens, prolongs or shortens a cooldown.                        *)
CooldownExact ==
    Cooling <=> OutageTail >= Threshold /\ clock < recordedAt + Cooldown

(* A read that times out on its short timeout and is answered on the         *)
(* fallback is one logical operation.  It is recorded once, and a refused or *)
(* dropped call not at all.  The short attempt consumes a transport retry    *)
(* and adds none: both attempts together are granted 1 + transport_retries   *)
(* transmissions, and beyond these only the answers to Busy and delayed      *)
(* responses, whose budgets the caller chose and each attempt has in full.   *)
(* No attempt waits longer for one response than the caller allowed, and the *)
(* link serves no fallback when the total timeout of the operation is over.  *)
AdaptiveIsOneCall ==
    /\ health.successes + health.failures = Cardinality({c \in Calls : call[c].at = "ended"})
    /\ health.fallbacks = Cardinality({c \in Calls : call[c].tried = "fallback"})
    /\ health.attempts = Cardinality({c \in Calls : call[c].tried \in {"fast", "fallback"}})
    /\ \A c \in Calls : Waiting(c) =>
        /\ call[c].granted <= 1 + Policy[c].retries + Repeats(c)
                              + (IF call[c].tried = "fallback" THEN Repeats(c) ELSE 0)
        /\ call[c].response \in 1..Policy[c].response
        /\ call[c].tried = "fallback" =>
              call[c].begun + call[c].total <= call[c].started + Policy[c].total
=============================================================================
