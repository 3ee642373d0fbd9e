----------------------------- MODULE SessionProofs -----------------------------
(***************************************************************************)
(* Proofs about what runs on top of a link, each for every value of its      *)
(* constants: managed device sessions (Health), and snapshots and plans       *)
(* (Procedures).                                                             *)
(***************************************************************************)
EXTENDS Health, Procedures, SequenceTheorems, FiniteSetTheorems, TLAPS

(* Health: cooldown and adaptive timeout of a managed session. *)

HealthField == {"successes", "failures", "consecutive", "activations", "rejections", "until",
                "learned", "attempts", "fallbacks"}

HealthType ==
    /\ clock \in Nat /\ recordedAt \in Int /\ recorded \in Seq(BOOLEAN)
    /\ health \in [HealthField -> Int] /\ DOMAIN call = Calls

(* The transmissions granted so far: a fallback is given the repetitions of   *)
(* its policy once more, and together with the short attempt the transport    *)
(* retries once.                                                              *)
Granted(c, tried) ==
    CASE tried = "fast" -> 1 + Repeats(c)
      [] tried = "full" -> 1 + Policy[c].retries + Repeats(c)
      [] OTHER -> 1 + Policy[c].retries + 2 * Repeats(c)

(* What an exchange may still cost, and what it was preceded by. *)
CallInv(c) ==
    /\ call[c].at = "idle" => call[c] = [at |-> "idle", tried |-> "none"]
    /\ call[c].at \in {"checked", "rejected"} => call[c].tried = "none"
    /\ call[c].at = "checked" => call[c].started \in Nat
    /\ Waiting(c) =>
         /\ call[c].started \in Nat /\ call[c].begun \in Nat /\ call[c].total \in Nat
         /\ call[c].tried \in {"fast", "full", "fallback"}
         /\ call[c].granted = Granted(c, call[c].tried)
         /\ call[c].response \in 1 .. Policy[c].response
         /\ call[c].tried = "fast" => Policy[c].retries > 0
         /\ call[c].tried = "fallback" =>
              call[c].begun + call[c].total <= call[c].started + Policy[c].total

Ended == {c \in Calls : call[c].at = "ended"}
Tried(attempts) == {c \in Calls : call[c].tried \in attempts}

CountInv ==
    /\ health.successes + health.failures = Cardinality(Ended)
    /\ health.fallbacks = Cardinality(Tried({"fallback"}))
    /\ health.attempts = Cardinality(Tried({"fast", "fallback"}))

(* The last n results are outages, and the one before is none. *)
OutagesAtEnd(s, n) ==
    /\ n \in 0 .. Len(s)
    /\ \A i \in Len(s) - n + 1 .. Len(s) : s[i]
    /\ n < Len(s) => ~s[Len(s) - n]

(* A waiting period that is set began with the last result, which made enough *)
(* outages in a row; one that is forgotten is over.                           *)
CoolInv ==
    /\ OutagesAtEnd(recorded, health.consecutive)
    /\ health.until # None => health.consecutive >= Threshold /\ health.until = recordedAt + Cooldown
    /\ health.until = None => health.consecutive < Threshold \/ clock >= recordedAt + Cooldown

HealthInv == HealthType /\ (\A c \in Calls : CallInv(c)) /\ CountInv /\ CoolInv

LEMMA OutagesUnique ==
    ASSUME NEW s \in Seq(BOOLEAN), NEW n, NEW m, OutagesAtEnd(s, n), OutagesAtEnd(s, m)
    PROVE  n = m
  <1>0. Len(s) \in Nat /\ n \in 0 .. Len(s) /\ m \in 0 .. Len(s)
    BY LenProperties DEF OutagesAtEnd
  <1>1. CASE n < m
    <2>1. Len(s) - n \in Len(s) - m + 1 .. Len(s) /\ n < Len(s)
      BY <1>0, <1>1
    <2> QED
      BY <2>1 DEF OutagesAtEnd
  <1>2. CASE m < n
    <2>1. Len(s) - m \in Len(s) - n + 1 .. Len(s) /\ m < Len(s)
      BY <1>0, <1>2
    <2> QED
      BY <2>1 DEF OutagesAtEnd
  <1> QED
    BY <1>0, <1>1, <1>2

(* One more result. *)
LEMMA OutagesNext ==
    ASSUME NEW s \in Seq(BOOLEAN), NEW n, OutagesAtEnd(s, n)
    PROVE  OutagesAtEnd(Append(s, TRUE), n + 1) /\ OutagesAtEnd(Append(s, FALSE), 0)
  <1>0. Len(s) \in Nat /\ n \in 0 .. Len(s)
    BY LenProperties DEF OutagesAtEnd
  <1>1. ASSUME NEW b \in BOOLEAN
        PROVE  /\ Len(Append(s, b)) = Len(s) + 1 /\ Append(s, b)[Len(s) + 1] = b
               /\ \A i \in 1 .. Len(s) : Append(s, b)[i] = s[i]
    BY AppendProperties
  <1>2. OutagesAtEnd(Append(s, FALSE), 0)
    BY <1>0, <1>1 DEF OutagesAtEnd
  <1>3. OutagesAtEnd(Append(s, TRUE), n + 1)
    <2> DEFINE t == Append(s, TRUE)
    <2>1. /\ Len(t) = Len(s) + 1 /\ t[Len(s) + 1] = TRUE
          /\ \A i \in 1 .. Len(s) : t[i] = s[i]
      BY <1>1
    <2> HIDE DEF t
    <2>2. n + 1 \in 0 .. Len(t)
      BY <1>0, <2>1
    <2>3. ASSUME NEW i \in Len(t) - (n + 1) + 1 .. Len(t) PROVE t[i]
      <3>1. CASE i = Len(s) + 1
        BY <2>1, <3>1
      <3>2. CASE i # Len(s) + 1
        <4>1. i \in Len(s) - n + 1 .. Len(s) /\ i \in 1 .. Len(s)
          BY <1>0, <2>1, <2>3, <3>2
        <4> QED
          BY <2>1, <4>1 DEF OutagesAtEnd
      <3> QED
        BY <3>1, <3>2
    <2>4. ASSUME n + 1 < Len(t) PROVE ~t[Len(t) - (n + 1)]
      <3>1. n < Len(s) /\ Len(t) - (n + 1) = Len(s) - n /\ Len(s) - n \in 1 .. Len(s)
        BY <1>0, <2>1, <2>4
      <3> QED
        BY <2>1, <3>1 DEF OutagesAtEnd
    <2>5. OutagesAtEnd(t, n + 1)
      BY <2>2, <2>3, <2>4 DEF OutagesAtEnd
    <2> QED
      BY <2>5 DEF t
  <1> QED
    BY <1>2, <1>3

LEMMA HealthInvInit == HealthInit => HealthInv
  <1> SUFFICES ASSUME HealthInit PROVE HealthInv
    OBVIOUS
  <1>1. /\ clock = 0 /\ recorded = <<>> /\ recordedAt = -1
        /\ health = [successes |-> 0, failures |-> 0, consecutive |-> 0, activations |-> 0,
                     rejections |-> 0, until |-> -1, learned |-> -1, attempts |-> 0, fallbacks |-> 0]
        /\ call = [c \in Calls |-> [at |-> "idle", tried |-> "none"]]
    BY DEF HealthInit, None
  <1>2. HealthType
    BY <1>1 DEF HealthType, HealthField
  <1>3. \A c \in Calls : CallInv(c)
    BY <1>1 DEF CallInv, Waiting
  <1>4. CountInv
    <2>1. Ended = {} /\ Tried({"fallback"}) = {} /\ Tried({"fast", "fallback"}) = {}
      BY <1>1 DEF Ended, Tried
    <2>2. Cardinality({}) = 0
      BY FS_EmptySet
    <2>3. health.successes + health.failures = 0 /\ health.fallbacks = 0 /\ health.attempts = 0
      BY <1>1
    <2> QED
      BY <2>1, <2>2, <2>3 DEF CountInv
  <1>5. CoolInv
    <2>1. OutagesAtEnd(<<>>, 0)
      BY DEF OutagesAtEnd
    <2>2. Threshold \in Nat \ {0}
      BY HealthOptionsValid DEF OptionsValid
    <2> QED
      BY <1>1, <2>1, <2>2 DEF CoolInv, None
  <1> QED
    BY <1>2, <1>3, <1>4, <1>5 DEF HealthInv

(* The call of one caller moves on. *)
LEMMA OneCall ==
    ASSUME HealthInv, NEW c \in Calls, NEW next, call' = [call EXCEPT ![c] = next]
    PROVE  /\ DOMAIN call' = Calls /\ call'[c] = next
           /\ \A d \in Calls \ {c} : call'[d] = call[d] /\ CallInv(d)'
  <1>0. DOMAIN call = Calls /\ \A d \in Calls : CallInv(d)
    BY DEF HealthInv, HealthType
  <1>1. DOMAIN call' = Calls /\ call'[c] = next /\ \A d \in Calls \ {c} : call'[d] = call[d]
    BY <1>0
  <1>2. ASSUME NEW d \in Calls \ {c} PROVE CallInv(d)'
    BY <1>0, <1>1 DEF CallInv, Waiting
  <1> QED
    BY <1>1, <1>2

(* Nothing is recorded, and the last result and its waiting period stay. *)
LEMMA QuietCool ==
    ASSUME HealthInv, UNCHANGED <<recorded, recordedAt>>, clock' \in {clock, clock + 1},
           health'.consecutive = health.consecutive,
           health'.until = health.until \/ (health'.until = None /\ ~Cooling)
    PROVE  CoolInv'
  <1>0. /\ clock \in Nat /\ recordedAt \in Int /\ health.until \in Int /\ Cooldown \in Int /\ CoolInv
        /\ health.consecutive \in Int /\ Threshold \in Int
    BY HealthOptionsValid, HealthTypes DEF HealthInv, HealthType, HealthField, OptionsValid
  <1>1. CASE health'.until = health.until
    BY <1>0, <1>1 DEF CoolInv, None
  <1>2. CASE health'.until = None /\ ~Cooling
    <2>1. health.consecutive < Threshold \/ clock >= recordedAt + Cooldown
      BY <1>0, <1>2 DEF CoolInv, Cooling, None
    <2> QED
      BY <1>0, <1>2, <2>1 DEF CoolInv, None
  <1> QED
    BY <1>1, <1>2

(* A call that was tried in the same ways as before, and has not ended. *)
LEMMA QuietCount ==
    ASSUME HealthInv, NEW c \in Calls, NEW next, call' = [call EXCEPT ![c] = next],
           call[c].at # "ended", next.at # "ended", next.tried = call[c].tried,
           health'.successes = health.successes, health'.failures = health.failures,
           health'.fallbacks = health.fallbacks, health'.attempts = health.attempts
    PROVE  CountInv'
  <1>1. Ended' = Ended /\ \A attempts : Tried(attempts)' = Tried(attempts)
    BY OneCall DEF Ended, Tried
  <1> QED
    BY <1>1 DEF HealthInv, CountInv

LEMMA Added ==
    ASSUME NEW S \in SUBSET Calls, NEW c \in Calls \ S
    PROVE  Cardinality(S \cup {c}) = Cardinality(S) + 1 /\ Cardinality(S) \in Nat
  <1>1. IsFiniteSet(S)
    BY HealthTypes, FS_Subset
  <1> QED
    BY <1>1, FS_AddElement, FS_CardinalityType

(* check_cooldown and the refusals; a dropped future. *)
LEMMA RefuseStep ==
    ASSUME HealthInv, NEW c \in Calls, Reject(c) \/ CheckCooldown(c) \/ Cancel(c)
    PROVE  HealthInv'
  <1>0. /\ clock \in Nat /\ health \in [HealthField -> Int] /\ HealthType /\ CallInv(c)
    BY DEF HealthInv, HealthType
  <1>1. UNCHANGED <<clock, recorded, recordedAt>>
    BY DEF Reject, CheckCooldown, Cancel
  <1>2. PICK next : /\ call' = [call EXCEPT ![c] = next] /\ next.tried = call[c].tried
                    /\ \/ call[c].at = "idle" /\ next = [at |-> "rejected", tried |-> "none"]
                       \/ call[c].at = "idle" /\ next = [at |-> "checked", tried |-> "none", started |-> clock]
                       \/ Waiting(c) /\ next = [at |-> "dropped", tried |-> call[c].tried]
    <2> DEFINE refused == [at |-> "rejected", tried |-> "none"]
                started == [at |-> "checked", tried |-> "none", started |-> clock]
                dropped == [at |-> "dropped", tried |-> call[c].tried]
    <2>0. refused.tried = "none" /\ started.tried = "none" /\ dropped.tried = call[c].tried
      OBVIOUS
    <2>1. CASE Reject(c)
      <3>1. call[c] = [at |-> "idle", tried |-> "none"] /\ call[c].at = "idle"
            /\ call' = [call EXCEPT ![c].at = "rejected"]
        BY <1>0, <2>1 DEF Reject, CallInv
      <3>2. [call[c] EXCEPT !.at = "rejected"] = refused /\ call[c].tried = "none"
        BY <3>1
      <3>3. call' = [call EXCEPT ![c] = refused]
        BY <3>1, <3>2
      <3> QED
        BY <2>0, <3>1, <3>2, <3>3, Zenon
    <2>2. CASE CheckCooldown(c)
      <3>1. call[c].at = "idle" /\ call[c].tried = "none" /\ call' = [call EXCEPT ![c] = started]
        BY <1>0, <2>2 DEF CheckCooldown, CallInv
      <3> QED
        BY <2>0, <3>1, Zenon
    <2>3. CASE Cancel(c)
      <3>1. Waiting(c) /\ call' = [call EXCEPT ![c] = dropped]
        BY <2>3 DEF Cancel
      <3> QED
        BY <2>0, <3>1, Zenon
    <2> QED
      BY <2>1, <2>2, <2>3
  <1>3. /\ health' \in [HealthField -> Int] /\ health'.consecutive = health.consecutive
        /\ health'.until = health.until \/ (health'.until = None /\ ~Cooling)
        /\ health'.successes = health.successes /\ health'.failures = health.failures
        /\ health'.fallbacks = health.fallbacks /\ health'.attempts = health.attempts
    <2>1. \/ health' = health \/ health' = [health EXCEPT !.rejections = @ + 1]
          \/ health' = [health EXCEPT !.until = -1] /\ ~Cooling
      BY DEF Reject, CheckCooldown, Cancel, None
    <2> QED
      BY <1>0, <2>1 DEF HealthField, None
  <1>4. CallInv(c)' /\ next.at # "ended" /\ call[c].at # "ended"
    <2>1. call'[c] = next
      BY Zenon, <1>2, OneCall
    <2> QED
      BY <1>0, <1>2, <2>1 DEF CallInv, Waiting
  <1>5. HealthType' /\ \A d \in Calls : CallInv(d)'
    <2>1. DOMAIN call' = Calls /\ \A d \in Calls \ {c} : CallInv(d)'
      BY Zenon, <1>2, OneCall
    <2>2. HealthType'
      BY <1>0, <1>1, <1>2, <1>3, <1>4, <2>1 DEF HealthType
    <2> QED
      BY <1>4, <2>1, <2>2
  <1>6. CountInv'
    BY <1>2, <1>3, <1>4, QuietCount
  <1>7. CoolInv'
    BY <1>1, <1>3, QuietCool
  <1> QED
    BY <1>5, <1>6, <1>7 DEF HealthInv

LEMMA QuietStep ==
    ASSUME HealthInv, Snapshot \/ HealthTick \/ UNCHANGED healthVars
    PROVE  HealthInv'
  <1>0. /\ clock \in Nat /\ health \in [HealthField -> Int] /\ HealthType
    BY DEF HealthInv, HealthType
  <1>1. UNCHANGED <<call, recorded, recordedAt>> /\ clock' \in {clock, clock + 1}
    BY DEF Snapshot, HealthTick, healthVars
  <1>2. health' = health \/ (health' = [health EXCEPT !.until = -1] /\ ~Cooling)
    BY DEF Snapshot, HealthTick, healthVars, None
  <1>3. /\ health' \in [HealthField -> Int] /\ health'.consecutive = health.consecutive
        /\ health'.until = health.until \/ (health'.until = None /\ ~Cooling)
        /\ health'.successes = health.successes /\ health'.failures = health.failures
        /\ health'.fallbacks = health.fallbacks /\ health'.attempts = health.attempts
    BY <1>0, <1>2 DEF HealthField, None
  <1>4. HealthType' /\ \A d \in Calls : CallInv(d)'
    BY <1>0, <1>1, <1>3 DEF HealthType, HealthInv, CallInv, Waiting
  <1>5. CountInv'
    BY <1>1, <1>3 DEF HealthInv, CountInv, Ended, Tried
  <1>6. CoolInv'
    BY <1>1, <1>3, QuietCool
  <1> QED
    BY <1>4, <1>5, <1>6 DEF HealthInv

(* A call is handed to the link, with the learned timeout or the caller's. *)
LEMMA LaunchStep ==
    ASSUME HealthInv, NEW c \in Calls, Launch(c)
    PROVE  HealthInv'
  <1>0. /\ clock \in Nat /\ health \in [HealthField -> Int] /\ HealthType /\ CallInv(c)
        /\ call[c].started \in Nat /\ call[c].at = "checked" /\ call[c].tried = "none"
    BY DEF HealthInv, HealthType, CallInv, Launch
  <1>1. /\ Policy[c].retries \in Nat /\ Policy[c].response \in Nat \ {0} /\ Policy[c].total \in Nat
        /\ Repeats(c) \in Nat
    BY HealthTypes, HealthOptionsValid DEF Repeats
  <1>2. UNCHANGED <<clock, recorded, recordedAt>>
    BY DEF Launch
  <1>3. CASE UsesFast(c)
    <2>0. FastTimeout \in 1 .. Policy[c].response /\ Policy[c].retries > 0
      <3>1. Adaptive.minimum \in Nat /\ Adaptive.maximum \in Nat /\ Adaptive.margin \in Nat
            /\ 1 <= Adaptive.minimum /\ Adaptive.minimum <= Adaptive.maximum
        BY <1>3, HealthTypes, HealthOptionsValid DEF UsesFast, OptionsValid, AdaptiveValid
      <3>2. health.learned \in Int
        BY <1>0 DEF HealthField
      <3> QED
        BY <1>1, <1>3, <3>1, <3>2 DEF UsesFast, FastTimeout, Clamp
    <2>1. PICK next : /\ call' = [call EXCEPT ![c] = next]
                      /\ next = Exchanging(c, "fast", 0, 0, FastTimeout, Policy[c].total)
      BY <1>3 DEF Launch
    <2>2. /\ next.at = "exchange" /\ next.started = call[c].started /\ next.tried = "fast"
          /\ next.begun = clock /\ next.response = FastTimeout /\ next.total = Policy[c].total
          /\ next.granted = 0 + 1 + 0 + Repeats(c)
      BY <2>1 DEF Exchanging
    <2>3. health' = [health EXCEPT !.attempts = @ + 1]
      BY <1>3 DEF Launch
    <2>4. /\ health' \in [HealthField -> Int] /\ health'.consecutive = health.consecutive
          /\ health'.until = health.until
          /\ health'.successes = health.successes /\ health'.failures = health.failures
          /\ health'.fallbacks = health.fallbacks /\ health'.attempts = health.attempts + 1
      BY <1>0, <2>3 DEF HealthField
    <2>5. CallInv(c)'
      <3>1. call'[c] = next
        BY <2>1, OneCall
      <3> QED
        BY <1>0, <1>1, <2>0, <2>2, <3>1 DEF CallInv, Waiting, Granted
    <2>6. HealthType' /\ \A d \in Calls : CallInv(d)'
      <3>1. DOMAIN call' = Calls /\ \A d \in Calls \ {c} : CallInv(d)'
        BY <2>1, OneCall
      <3>2. HealthType'
        BY <1>0, <1>2, <2>1, <2>4, <2>5, <3>1 DEF HealthType
      <3> QED
        BY <2>5, <3>1, <3>2
    <2>7. CountInv'
      <3>1. /\ Ended' = Ended /\ Tried({"fallback"})' = Tried({"fallback"})
            /\ Tried({"fast", "fallback"})' = Tried({"fast", "fallback"}) \cup {c}
            /\ c \notin Tried({"fast", "fallback"})
        BY <1>0, <2>1, <2>2, OneCall DEF Ended, Tried
      <3>2. Tried({"fast", "fallback"}) \in SUBSET Calls
        BY DEF Tried
      <3>3. Cardinality(Tried({"fast", "fallback"})') = Cardinality(Tried({"fast", "fallback"})) + 1
        BY <3>1, <3>2, Added
      <3> QED
        BY <2>4, <3>1, <3>3 DEF HealthInv, CountInv
    <2>8. CoolInv'
      BY <1>2, <2>4, QuietCool
    <2> QED
      BY <2>6, <2>7, <2>8 DEF HealthInv
  <1>4. CASE ~UsesFast(c)
    <2>1. PICK next : /\ call' = [call EXCEPT ![c] = next]
                      /\ next = Exchanging(c, "full", 0, Policy[c].retries, Policy[c].response,
                                           Policy[c].total)
      BY <1>4 DEF Launch
    <2>2. /\ next.at = "exchange" /\ next.started = call[c].started /\ next.tried = "full"
          /\ next.begun = clock /\ next.response = Policy[c].response
          /\ next.total = Policy[c].total /\ next.granted = 0 + 1 + Policy[c].retries + Repeats(c)
      BY <2>1 DEF Exchanging
    <2>3. health' = health
      BY <1>4 DEF Launch
    <2>4. CallInv(c)'
      <3>1. call'[c] = next
        BY <2>1, OneCall
      <3> QED
        BY <1>0, <1>1, <2>2, <3>1 DEF CallInv, Waiting, Granted
    <2>5. HealthType' /\ \A d \in Calls : CallInv(d)'
      <3>1. DOMAIN call' = Calls /\ \A d \in Calls \ {c} : CallInv(d)'
        BY Zenon, <2>1, OneCall
      <3>2. HealthType'
        BY <1>0, <1>2, <2>1, <2>3, <2>4, <3>1 DEF HealthType
      <3> QED
        BY <2>4, <3>1, <3>2
    <2>6. CountInv'
      <3>1. /\ Ended' = Ended /\ Tried({"fallback"})' = Tried({"fallback"})
            /\ Tried({"fast", "fallback"})' = Tried({"fast", "fallback"})
        BY Zenon, <1>0, <2>1, <2>2, OneCall DEF Ended, Tried
      <3> QED
        BY <2>3, <3>1 DEF HealthInv, CountInv
    <2>7. CoolInv'
      BY <1>2, <2>3, QuietCool
    <2> QED
      BY <2>5, <2>6, <2>7 DEF HealthInv
  <1> QED
    BY <1>3, <1>4

(* The short attempt timed out and the caller's time is not over. *)
LEMMA FallbackStep ==
    ASSUME HealthInv, NEW c \in Calls, Fallback(c)
    PROVE  HealthInv'
  <1>0. /\ clock \in Nat /\ health \in [HealthField -> Int] /\ HealthType /\ CallInv(c)
        /\ call[c].started \in Nat /\ call[c].at = "exchange" /\ call[c].tried = "fast"
        /\ call[c].granted = 1 + Repeats(c) /\ Policy[c].retries > 0
    BY DEF HealthInv, HealthType, CallInv, Fallback, FallBack, TimedOut, Waiting, Granted
  <1>1. /\ Policy[c].retries \in Nat /\ Policy[c].response \in Nat \ {0} /\ Policy[c].total \in Nat
        /\ Repeats(c) \in Nat
    BY HealthTypes, HealthOptionsValid DEF Repeats
  <1>2. UNCHANGED <<clock, recorded, recordedAt>> /\ Remaining(c) > 0
    BY DEF Fallback, FallBack
  <1>3. Remaining(c) \in Nat /\ clock + Remaining(c) = call[c].started + Policy[c].total
    BY <1>0, <1>1, <1>2 DEF Remaining
  <1>4. Clamp(Policy[c].response, 0, Remaining(c)) \in 1 .. Policy[c].response
    BY <1>1, <1>2, <1>3 DEF Clamp
  <1>5. PICK next : /\ call' = [call EXCEPT ![c] = next]
                    /\ next = Exchanging(c, "fallback", call[c].granted, Policy[c].retries - 1,
                                         Clamp(Policy[c].response, 0, Remaining(c)), Remaining(c))
    BY <1>0 DEF Fallback, FallBack, HealthType
  <1>6. /\ next.at = "exchange" /\ next.started = call[c].started /\ next.tried = "fallback"
        /\ next.begun = clock /\ next.response = Clamp(Policy[c].response, 0, Remaining(c))
        /\ next.total = Remaining(c)
        /\ next.granted = call[c].granted + 1 + (Policy[c].retries - 1) + Repeats(c)
    BY <1>5 DEF Exchanging
  <1>7. health' = [health EXCEPT !.fallbacks = @ + 1]
    BY DEF Fallback, FallBack
  <1>8. /\ health' \in [HealthField -> Int] /\ health'.consecutive = health.consecutive
        /\ health'.until = health.until
        /\ health'.successes = health.successes /\ health'.failures = health.failures
        /\ health'.fallbacks = health.fallbacks + 1 /\ health'.attempts = health.attempts
    BY <1>0, <1>7 DEF HealthField
  <1>9. CallInv(c)'
    <2>1. call'[c] = next
      BY <1>5, OneCall
    <2>2. next.granted = Granted(c, "fallback")
      BY <1>0, <1>1, <1>6 DEF Granted
    <2>3. next.begun + next.total <= next.started + Policy[c].total
      BY <1>0, <1>1, <1>3, <1>6
    <2> QED
      BY <1>0, <1>1, <1>3, <1>4, <1>6, <2>1, <2>2, <2>3 DEF CallInv, Waiting
  <1>10. HealthType' /\ \A d \in Calls : CallInv(d)'
    <2>1. DOMAIN call' = Calls /\ \A d \in Calls \ {c} : CallInv(d)'
      BY Zenon, <1>5, OneCall
    <2>2. HealthType'
      BY <1>0, <1>2, <1>5, <1>8, <1>9, <2>1 DEF HealthType
    <2> QED
      BY <1>9, <2>1, <2>2
  <1>11. CountInv'
    <2>1. /\ Ended' = Ended /\ Tried({"fallback"})' = Tried({"fallback"}) \cup {c}
          /\ Tried({"fast", "fallback"})' = Tried({"fast", "fallback"})
          /\ c \notin Tried({"fallback"})
      BY <1>0, <1>5, <1>6, OneCall DEF Ended, Tried
    <2>2. Tried({"fallback"}) \in SUBSET Calls
      BY DEF Tried
    <2>3. Cardinality(Tried({"fallback"})') = Cardinality(Tried({"fallback"})) + 1
      BY <2>1, <2>2, Added
    <2> QED
      BY <1>8, <2>1, <2>3 DEF HealthInv, CountInv
  <1>12. CoolInv'
    BY <1>2, <1>8, QuietCool
  <1> QED
    BY <1>10, <1>11, <1>12 DEF HealthInv

(* A result is recorded: one more of the two counters, and a waiting period *)
(* that follows from the results.                                           *)
LEMMA FinishStep ==
    ASSUME HealthInv, NEW c \in Calls, Waiting(c), NEW outage \in BOOLEAN, NEW next,
           Finish(c, outage, next), next \in [HealthField -> Int],
           next.successes + next.failures = health.successes + health.failures + 1,
           next.fallbacks = health.fallbacks, next.attempts = health.attempts,
           outage => /\ next.consecutive = health.consecutive + 1
                     /\ next.until = IF next.consecutive >= Threshold THEN clock + Cooldown
                                     ELSE health.until,
           ~outage => next.consecutive = 0 /\ next.until = None
    PROVE  HealthInv'
  <1>0. /\ clock \in Nat /\ health \in [HealthField -> Int] /\ HealthType /\ CallInv(c)
        /\ recorded \in Seq(BOOLEAN) /\ call[c].at = "exchange"
        /\ Threshold \in Nat \ {0} /\ Cooldown \in Nat
    <2>1. Threshold \in Nat \ {0} /\ Cooldown \in Nat
      BY HealthOptionsValid, HealthTypes DEF OptionsValid
    <2> QED
      BY <2>1 DEF HealthInv, HealthType, Waiting
  <1>1. /\ health' = next /\ recorded' = Append(recorded, outage) /\ recordedAt' = clock
        /\ clock' = clock
    BY DEF Finish
  <1>2. PICK end : /\ call' = [call EXCEPT ![c] = end]
                   /\ end = [at |-> "ended", tried |-> call[c].tried]
    BY Zenon, <1>0 DEF Finish, HealthType
  <1>3. call'[c] = end /\ end.at = "ended" /\ end.tried = call[c].tried
    BY Zenon, <1>2, OneCall
  <1>4. CallInv(c)'
    BY <1>3 DEF CallInv, Waiting
  <1>5. HealthType' /\ \A d \in Calls : CallInv(d)'
    <2>1. recorded' \in Seq(BOOLEAN)
      BY <1>0, <1>1, AppendProperties
    <2>2. DOMAIN call' = Calls /\ \A d \in Calls \ {c} : CallInv(d)'
      BY Zenon, <1>2, OneCall
    <2>3. HealthType'
      BY <1>0, <1>1, <2>1, <2>2 DEF HealthType
    <2> QED
      BY <1>4, <2>2, <2>3
  <1>6. CountInv'
    <2>1. /\ Ended' = Ended \cup {c} /\ c \notin Ended /\ Ended \in SUBSET Calls
          /\ \A attempts : Tried(attempts)' = Tried(attempts)
      BY <1>0, <1>2, <1>3, OneCall DEF Ended, Tried
    <2>2. Cardinality(Ended') = Cardinality(Ended) + 1
      BY <2>1, Added
    <2> QED
      BY <1>1, <2>1, <2>2 DEF HealthInv, CountInv
  <1>7. CoolInv'
    <2>0. CoolInv /\ health.consecutive \in Int /\ health.until \in Int
      BY <1>0 DEF HealthInv, HealthField
    <2>1. CASE outage
      <3>1. OutagesAtEnd(recorded', next.consecutive)
        BY <1>0, <1>1, <2>0, <2>1, OutagesNext DEF CoolInv
      <3>2. CASE next.consecutive >= Threshold
        <4>1. next.until = clock + Cooldown
          BY <2>1, <3>2
        <4>2. next.until # None
          BY <1>0, <4>1 DEF None
        <4> QED
          BY <1>1, <3>1, <3>2, <4>1, <4>2 DEF CoolInv
      <3>3. CASE ~(next.consecutive >= Threshold)
        <4>1. health.until = None /\ next.until = None
          BY <1>0, <2>0, <2>1, <3>3 DEF CoolInv
        <4>2. next.consecutive < Threshold
          BY <1>0, <2>0, <2>1, <3>3
        <4> QED
          BY <1>1, <3>1, <4>1, <4>2 DEF CoolInv
      <3> QED
        BY <3>2, <3>3
    <2>2. CASE ~outage
      <3>1. OutagesAtEnd(recorded', 0)
        BY <1>0, <1>1, <2>0, <2>2, OutagesNext DEF CoolInv
      <3>2. next.consecutive = 0 /\ next.until = None /\ 0 < Threshold
        BY <1>0, <2>2
      <3> QED
        BY <1>1, <3>1, <3>2 DEF CoolInv
    <2> QED
      BY <2>1, <2>2
  <1> QED
    BY <1>5, <1>6, <1>7 DEF HealthInv

LEMMA FieldSet ==
    ASSUME NEW h \in [HealthField -> Int], NEW f \in HealthField, NEW v \in Int
    PROVE  /\ [h EXCEPT ![f] = v] \in [HealthField -> Int] /\ [h EXCEPT ![f] = v][f] = v
           /\ \A g \in HealthField \ {f} : [h EXCEPT ![f] = v][g] = h[g]
  OBVIOUS

LEMMA ResultStep ==
    ASSUME HealthInv, NEW c \in Calls,
           Succeed(c) \/ FinalTimeout(c) \/ LinkOutage(c) \/ OtherError(c)
    PROVE  HealthInv'
  <1>0. /\ clock \in Nat /\ health \in [HealthField -> Int] /\ CallInv(c) /\ Waiting(c)
        /\ Threshold \in Int /\ Cooldown \in Int
    <2>1. Threshold \in Int /\ Cooldown \in Int
      BY HealthOptionsValid, HealthTypes DEF OptionsValid
    <2> QED
      BY <2>1 DEF HealthInv, HealthType, Succeed, FinalTimeout, TimedOut, LinkOutage, OtherError
  <1>1. CASE Succeed(c)
    <2>1. call[c].begun \in Nat /\ health.learned \in Int
      BY <1>0 DEF CallInv, HealthField
    <2>2. PICK learned \in Int :
            RecordedSuccess(c, clock - call[c].begun)
              = [health EXCEPT !.successes = @ + 1, !.consecutive = 0, !.until = None,
                               !.learned = learned]
      <3> DEFINE next == IF ReadOnly(c) /\ Adaptive # NoAdaptive
                         THEN Smoothed(clock - call[c].begun) ELSE health.learned
      <3>1. next \in Int
        BY <1>0, <2>1 DEF Smoothed
      <3>2. RecordedSuccess(c, clock - call[c].begun)
              = [health EXCEPT !.successes = @ + 1, !.consecutive = 0, !.until = None,
                               !.learned = next]
        BY Zenon DEF RecordedSuccess
      <3> HIDE DEF next
      <3> QED
        BY Zenon, <3>1, <3>2
    <2> DEFINE one == [health EXCEPT !.successes = @ + 1]
               two == [one EXCEPT !.consecutive = 0]
               three == [two EXCEPT !.until = -1]
               four == [three EXCEPT !.learned = learned]
    <2>3. RecordedSuccess(c, clock - call[c].begun) = four
      BY <2>2 DEF None
    <2>4. /\ four \in [HealthField -> Int] /\ four.successes = health.successes + 1
          /\ four.failures = health.failures /\ four.fallbacks = health.fallbacks
          /\ four.attempts = health.attempts /\ four.consecutive = 0 /\ four.until = -1
      <3>1. one \in [HealthField -> Int] /\ one.successes = health.successes + 1
            /\ \A g \in HealthField \ {"successes"} : one[g] = health[g]
        BY <1>0, FieldSet DEF HealthField
      <3> HIDE DEF one
      <3>2. two \in [HealthField -> Int] /\ two.consecutive = 0
            /\ \A g \in HealthField \ {"consecutive"} : two[g] = one[g]
        BY <3>1, FieldSet DEF HealthField
      <3> HIDE DEF two
      <3>3. three \in [HealthField -> Int] /\ three.until = -1
            /\ \A g \in HealthField \ {"until"} : three[g] = two[g]
        BY <3>2, FieldSet DEF HealthField
      <3> HIDE DEF three
      <3>4. four \in [HealthField -> Int] /\ four.learned = learned
            /\ \A g \in HealthField \ {"learned"} : four[g] = three[g]
        BY <3>3, FieldSet DEF HealthField
      <3> HIDE DEF four
      <3> QED
        BY <3>1, <3>2, <3>3, <3>4 DEF HealthField
    <2>5. health.successes \in Int /\ health.failures \in Int
      BY <1>0 DEF HealthField
    <2>6. Finish(c, FALSE, four)
      BY Zenon, <1>1, <2>3 DEF Succeed
    <2> HIDE DEF four
    <2>7. four.successes + four.failures = health.successes + health.failures + 1
      BY <2>4, <2>5
    <2> QED
      BY <1>0, <2>4, <2>6, <2>7, FinishStep DEF None
  <1>2. CASE FinalTimeout(c) \/ LinkOutage(c)
    <2>1. PICK n \in Int, activations \in Int, until \in Int :
            /\ n = health.consecutive + 1
            /\ until = IF n >= Threshold THEN clock + Cooldown ELSE health.until
            /\ RecordedOutage = [health EXCEPT !.failures = @ + 1, !.consecutive = n,
                                               !.activations = activations, !.until = until]
      <3> DEFINE n == health.consecutive + 1
                 activations == IF n >= Threshold /\ ~Cooling THEN health.activations + 1
                                ELSE health.activations
                 until == IF n >= Threshold THEN clock + Cooldown ELSE health.until
      <3>0. health.consecutive \in Int /\ health.activations \in Int /\ health.until \in Int
        BY <1>0 DEF HealthField
      <3>1. n \in Int /\ activations \in Int /\ until \in Int
        BY <1>0, <3>0
      <3>2. RecordedOutage = [health EXCEPT !.failures = @ + 1, !.consecutive = n,
                                            !.activations = activations, !.until = until]
        BY Zenon DEF RecordedOutage
      <3>3. n = health.consecutive + 1 /\ until = IF n >= Threshold THEN clock + Cooldown
                                                  ELSE health.until
        OBVIOUS
      <3> HIDE DEF n, activations, until
      <3> QED
        BY Zenon, <3>1, <3>2, <3>3
    <2> DEFINE one == [health EXCEPT !.failures = @ + 1]
               two == [one EXCEPT !.consecutive = n]
               three == [two EXCEPT !.activations = activations]
               four == [three EXCEPT !.until = until]
    <2>2. RecordedOutage = four
      BY <2>1
    <2>3. /\ four \in [HealthField -> Int] /\ four.failures = health.failures + 1
          /\ four.successes = health.successes /\ four.fallbacks = health.fallbacks
          /\ four.attempts = health.attempts /\ four.consecutive = n /\ four.until = until
      <3>1. one \in [HealthField -> Int] /\ one.failures = health.failures + 1
            /\ \A g \in HealthField \ {"failures"} : one[g] = health[g]
        BY <1>0, FieldSet DEF HealthField
      <3> HIDE DEF one
      <3>2. two \in [HealthField -> Int] /\ two.consecutive = n
            /\ \A g \in HealthField \ {"consecutive"} : two[g] = one[g]
        BY <3>1, FieldSet DEF HealthField
      <3> HIDE DEF two
      <3>3. three \in [HealthField -> Int] /\ three.activations = activations
            /\ \A g \in HealthField \ {"activations"} : three[g] = two[g]
        BY <3>2, FieldSet DEF HealthField
      <3> HIDE DEF three
      <3>4. four \in [HealthField -> Int] /\ four.until = until
            /\ \A g \in HealthField \ {"until"} : four[g] = three[g]
        BY <3>3, FieldSet DEF HealthField
      <3> HIDE DEF four
      <3> QED
        BY <3>1, <3>2, <3>3, <3>4 DEF HealthField
    <2>4. health.successes \in Int /\ health.failures \in Int
      BY <1>0 DEF HealthField
    <2>5. Finish(c, TRUE, four)
      BY Zenon, <1>2, <2>2 DEF FinalTimeout, LinkOutage
    <2> HIDE DEF four
    <2>6. four.successes + four.failures = health.successes + health.failures + 1
      BY <2>3, <2>4
    <2>7. four.consecutive = health.consecutive + 1
          /\ four.until = IF four.consecutive >= Threshold THEN clock + Cooldown ELSE health.until
      BY <2>1, <2>3
    <2> QED
      BY <1>0, <2>3, <2>5, <2>6, <2>7, FinishStep
  <1>3. CASE OtherError(c)
    <2> DEFINE one == [health EXCEPT !.failures = @ + 1]
               two == [one EXCEPT !.consecutive = 0]
               three == [two EXCEPT !.until = -1]
    <2>2. RecordedRejection = three
      BY DEF RecordedRejection, None
    <2>3. /\ three \in [HealthField -> Int] /\ three.failures = health.failures + 1
          /\ three.successes = health.successes /\ three.fallbacks = health.fallbacks
          /\ three.attempts = health.attempts /\ three.consecutive = 0 /\ three.until = -1
      <3>1. one \in [HealthField -> Int] /\ one.failures = health.failures + 1
            /\ \A g \in HealthField \ {"failures"} : one[g] = health[g]
        BY <1>0, FieldSet DEF HealthField
      <3> HIDE DEF one
      <3>2. two \in [HealthField -> Int] /\ two.consecutive = 0
            /\ \A g \in HealthField \ {"consecutive"} : two[g] = one[g]
        BY <3>1, FieldSet DEF HealthField
      <3> HIDE DEF two
      <3>3. three \in [HealthField -> Int] /\ three.until = -1
            /\ \A g \in HealthField \ {"until"} : three[g] = two[g]
        BY <3>2, FieldSet DEF HealthField
      <3> HIDE DEF three
      <3> QED
        BY <3>1, <3>2, <3>3 DEF HealthField
    <2>4. health.successes \in Int /\ health.failures \in Int
      BY <1>0 DEF HealthField
    <2>5. Finish(c, FALSE, three)
      BY Zenon, <1>3, <2>2 DEF OtherError
    <2> HIDE DEF three
    <2>6. three.successes + three.failures = health.successes + health.failures + 1
      BY <2>3, <2>4
    <2> QED
      BY <1>0, <2>3, <2>5, <2>6, FinishStep DEF None
  <1> QED
    BY <1>1, <1>2, <1>3

LEMMA HealthInvNext == HealthInv /\ [HealthNext]_healthVars => HealthInv'
  <1> SUFFICES ASSUME HealthInv, [HealthNext]_healthVars PROVE HealthInv'
    OBVIOUS
  <1>1. CASE Snapshot \/ HealthTick \/ UNCHANGED healthVars
    BY <1>1, QuietStep
  <1>2. ASSUME NEW c \in Calls, Reject(c) \/ CheckCooldown(c) \/ Cancel(c) PROVE HealthInv'
    BY <1>2, RefuseStep
  <1>3. ASSUME NEW c \in Calls, Launch(c) PROVE HealthInv'
    BY <1>3, LaunchStep
  <1>4. ASSUME NEW c \in Calls, Fallback(c) PROVE HealthInv'
    BY <1>4, FallbackStep
  <1>5. ASSUME NEW c \in Calls, Succeed(c) \/ FinalTimeout(c) \/ LinkOutage(c) \/ OtherError(c)
        PROVE HealthInv'
    BY <1>5, ResultStep
  <1> QED
    BY <1>1, <1>2, <1>3, <1>4, <1>5, Zenon DEF HealthNext

LEMMA HealthInvariants == HealthSpec => []HealthInv
  BY HealthInvInit, HealthInvNext, PTL DEF HealthSpec

(* Calls of a managed session are refused exactly while the last results    *)
(* that record_success and record_failure stored are enough outages and the *)
(* last is younger than the cooldown, for any number of callers, threshold  *)
(* and cooldown, whatever the order in which the mutex is taken.            *)
THEOREM HealthCooldownIsExact == HealthSpec => []CooldownExact
  <1>1. HealthInv => CooldownExact
    <2> SUFFICES ASSUME HealthInv PROVE CooldownExact
      OBVIOUS
    <2>0. /\ clock \in Nat /\ health.until \in Int /\ health.consecutive \in Int
          /\ recorded \in Seq(BOOLEAN) /\ CoolInv /\ recordedAt \in Int
      BY DEF HealthInv, HealthType, HealthField
    <2>1. OutagesAtEnd(recorded, OutageTail)
      <3>1. \E n \in 0 .. Len(recorded) : OutagesAtEnd(recorded, n)
        BY <2>0 DEF CoolInv, OutagesAtEnd
      <3>2. OutageTail = CHOOSE n \in 0 .. Len(recorded) : OutagesAtEnd(recorded, n)
        <4>1. ASSUME NEW n \in 0 .. Len(recorded)
              PROVE  OutagesAtEnd(recorded, n) <=>
                       /\ \A i \in Len(recorded) - n + 1 .. Len(recorded) : recorded[i]
                       /\ n < Len(recorded) => ~recorded[Len(recorded) - n]
          BY DEF OutagesAtEnd
        <4> QED
          BY <4>1, Zenon DEF OutageTail
      <3> QED
        BY <3>1, <3>2
    <2>2. OutageTail = health.consecutive
      BY <2>0, <2>1, OutagesUnique DEF CoolInv
    <2>3. Threshold \in Int /\ Cooldown \in Int
      BY HealthOptionsValid, HealthTypes DEF OptionsValid
    <2> QED
      BY <2>0, <2>2, <2>3 DEF CooldownExact, CoolInv, Cooling, None
  <1> QED
    BY <1>1, HealthInvariants, PTL

(* A read that first tries the learned timeout and then falls back is one   *)
(* operation for every retry policy and every learned value: execute_inner  *)
(* records it once, both attempts stay inside the caller's transport        *)
(* retries and time, and the busy retries and delayed-response polls, which *)
(* both copy from the caller's policy, are granted at most twice.           *)
THEOREM AdaptiveReadIsOneCall == HealthSpec => []AdaptiveIsOneCall
  <1>1. HealthInv => AdaptiveIsOneCall
    <2> SUFFICES ASSUME HealthInv PROVE AdaptiveIsOneCall
      OBVIOUS
    <2>1. ASSUME NEW c \in Calls, Waiting(c)
          PROVE  /\ call[c].granted <= 1 + Policy[c].retries + Repeats(c)
                      + (IF call[c].tried = "fallback" THEN Repeats(c) ELSE 0)
                 /\ call[c].response \in 1 .. Policy[c].response
                 /\ call[c].tried = "fallback" =>
                      call[c].begun + call[c].total <= call[c].started + Policy[c].total
      <3>1. CallInv(c) /\ Policy[c].retries \in Nat /\ Repeats(c) \in Nat
        BY HealthTypes DEF HealthInv, Repeats
      <3> QED
        BY <2>1, <3>1 DEF CallInv, Granted
    <2>2. Tried({"fallback"}) = {c \in Calls : call[c].tried = "fallback"}
      BY DEF Tried
    <2> QED
      BY <2>1, <2>2 DEF AdaptiveIsOneCall, HealthInv, CountInv, Ended, Tried
  <1> QED
    BY <1>1, HealthInvariants, PTL

-----------------------------------------------------------------------------
(* Procedures: several requests while devices are swapped. *)

Somebody == Devices \cup {Nobody}
TaskField == {"kind", "groups", "plan", "continuing", "known", "stopped", "swaps"}
State == {"NotRequested", "Unsupported", "Value", "Error"}
Status == {"Restored", "Replaced", "Unavailable"}
Collected == [state : State, from : Somebody] \cup [status : Status, from : Somebody]
             \cup [reply : Replies \cup {ExchangeFailed}, met : BOOLEAN]

ProcedureType ==
    /\ there \in [Polling -> Somebody]
    /\ DOMAIN task = TaskField /\ results \in Seq(Collected)
    /\ task.plan \in Seq({"Success", "Codes", "Prefix"})

(* A session talks to the unique address of the device it identified, and     *)
(* nothing is collected before.                                               *)
SessionInv ==
    /\ task.kind = "snapshot" /\ session = NoSession => results = <<>>
    /\ session # NoSession => session.device \in Devices /\ session.address = Unique(session.device)

(* A failed step is the last one, and it has stopped the plan. *)
Failing(i) == \/ results[i].reply = ExchangeFailed \/ results[i].reply.code >= 128
              \/ ~results[i].met
PlanInv ==
    task.kind = "plan" /\ ~task.continuing =>
        \A i \in DOMAIN results : Failing(i) => i = Len(results) /\ task.stopped

ProcedureInv == /\ ProcedureType /\ SessionInv /\ PlanInv
                /\ SnapshotOfOneDevice

(* Who answers at a unique address has that address. *)
LEMMA UniqueIsReached ==
    ASSUME ProcedureInv, NEW address, Reached(address) # Nobody
    PROVE  /\ Reached(address) \in Devices \/ address \notin Polling
           /\ address \in Polling => Reached(address) = there[address]
           /\ address \notin Polling => Reached(address) \in Devices /\ Unique(Reached(address)) = address
  <1>0. there \in [Polling -> Somebody]
    BY DEF ProcedureInv, ProcedureType
  <1>1. CASE address \in Polling
    BY <1>0, <1>1 DEF Reached, Somebody
  <1>2. CASE address \notin Polling
    <2> DEFINE present == {a \in Polling : there[a] # Nobody /\ Unique(there[a]) = address}
    <2>1. present # {} /\ Reached(address) = there[CHOOSE a \in present : TRUE]
      BY <1>2 DEF Reached
    <2>2. (CHOOSE a \in present : TRUE) \in present
      BY <2>1
    <2> QED
      BY <1>0, <1>2, <2>1, <2>2 DEF Somebody
  <1> QED
    BY <1>1, <1>2

LEMMA ProcedureInvInit == ProcedureInit => ProcedureInv
  <1> SUFFICES ASSUME ProcedureInit PROVE ProcedureInv
    OBVIOUS
  <1>1. results = <<>> /\ session = NoSession /\ there \in [Polling -> Somebody]
    BY DEF ProcedureInit, Somebody
  <1>2. PICK kind, groups, plan, continuing, known :
        /\ task = NewTask(kind, groups, plan, continuing, known)
        /\ plan \in Seq({"Success", "Codes", "Prefix"})
    <2>1. <<>> \in Seq({"Success", "Codes", "Prefix"})
      OBVIOUS
    <2>2. CASE \E g \in SnapshotGroups : task = NewTask("snapshot", g, <<>>, FALSE, <<>>)
      BY <2>1, <2>2, Zenon
    <2>3. CASE \E p \in Plans, c \in BOOLEAN : task = NewTask("plan", {}, p, c, <<>>)
      <3>1. PICK p \in Plans, c \in BOOLEAN : task = NewTask("plan", {}, p, c, <<>>)
        BY <2>3
      <3>2. p \in Seq({"Success", "Codes", "Prefix"})
        BY LineAssumption
      <3> QED
        BY <3>1, <3>2, Zenon
    <2>4. CASE \E a \in Polling : there[a] # Nobody /\
                 \E address \in {a, Unique(there[a])} :
                   task = NewTask("recovery", {}, <<>>, FALSE,
                                  <<[address |-> address, device |-> there[a]]>>)
      BY <2>1, <2>4, Zenon
    <2> QED
      BY <2>2, <2>3, <2>4, Zenon DEF ProcedureInit
  <1>3. DOMAIN task = TaskField /\ task.plan = plan
    BY <1>2 DEF NewTask, TaskField
  <1>4. results \in Seq(Collected) /\ DOMAIN results = {}
    BY <1>1
  <1>5. ProcedureType /\ SessionInv
    BY <1>1, <1>2, <1>3, <1>4 DEF ProcedureType, SessionInv
  <1>6. PlanInv /\ SnapshotOfOneDevice
    BY <1>4 DEF PlanInv, SnapshotOfOneDevice
  <1> QED
    BY <1>5, <1>6 DEF ProcedureInv

(* A step that collects one result e, for a task of another kind. *)
LEMMA Collects ==
    ASSUME ProcedureInv, NEW e \in Collected, results' = Append(results, e)
    PROVE  /\ results' \in Seq(Collected) /\ Len(results) \in Nat
           /\ DOMAIN results = 1 .. Len(results) /\ DOMAIN results' = 1 .. Len(results) + 1
           /\ Len(results') = Len(results) + 1 /\ results'[Len(results) + 1] = e
           /\ \A i \in 1 .. Len(results) : results'[i] = results[i]
  <1>1. results \in Seq(Collected)
    BY DEF ProcedureInv, ProcedureType
  <1>2. /\ Append(results, e) \in Seq(Collected)
        /\ Len(Append(results, e)) = Len(results) + 1
        /\ \A i \in 1 .. Len(results) : Append(results, e)[i] = results[i]
        /\ Append(results, e)[Len(results) + 1] = e
    BY <1>1, AppendProperties
  <1>3. Len(results) \in Nat /\ DOMAIN results = 1 .. Len(results)
        /\ DOMAIN Append(results, e) = 1 .. Len(Append(results, e))
    BY <1>1, <1>2, LenProperties
  <1> QED
    BY <1>2, <1>3

LEMMA SwapStep ==
    ASSUME ProcedureInv, NEW a \in Polling, NEW d \in Somebody, Swap(a, d)
    PROVE  ProcedureInv'
  <1>1. UNCHANGED <<session, results>> /\ there' = [there EXCEPT ![a] = d]
        /\ task' = [task EXCEPT !.swaps = @ + 1]
    BY DEF Swap
  <1>2. /\ DOMAIN task' = TaskField /\ task'.kind = task.kind /\ task'.groups = task.groups
        /\ task'.plan = task.plan /\ task'.continuing = task.continuing
        /\ task'.known = task.known /\ task'.stopped = task.stopped
    BY <1>1 DEF ProcedureInv, ProcedureType, TaskField
  <1>3. ProcedureType' /\ SessionInv'
    BY <1>1, <1>2 DEF ProcedureInv, ProcedureType, SessionInv, NoSession
  <1>4. PlanInv'
    BY <1>1, <1>2 DEF ProcedureInv, PlanInv, Failing
  <1>5. SnapshotOfOneDevice'
    BY <1>1, <1>2 DEF ProcedureInv, SnapshotOfOneDevice
  <1> QED
    BY <1>3, <1>4, <1>5 DEF ProcedureInv

LEMMA IdentifyStep ==
    ASSUME ProcedureInv, NEW a \in Polling, Identify(a)
    PROVE  ProcedureInv'
  <1>1. UNCHANGED <<there, task, results>> /\ task.kind = "snapshot" /\ results = <<>>
        /\ Reached(a) # Nobody /\ session' = FromIdentity(a, Reached(a))
    BY DEF Identify, ProcedureInv, SessionInv
  <1>2. Reached(a) \in Devices
    BY <1>1, UniqueIsReached
  <1>3. session' = [address |-> Unique(Reached(a)), device |-> Reached(a)]
    BY <1>1 DEF FromIdentity
  <1>4. SessionInv'
    BY <1>1, <1>2, <1>3 DEF SessionInv
  <1>5. ProcedureType' /\ PlanInv'
    BY <1>1 DEF ProcedureInv, ProcedureType, PlanInv, Failing
  <1>6. DOMAIN results' = {}
    BY <1>1
  <1>7. SnapshotOfOneDevice'
    BY <1>6 DEF SnapshotOfOneDevice
  <1> QED
    BY <1>4, <1>5, <1>7 DEF ProcedureInv

LEMMA CaptureStep ==
    ASSUME ProcedureInv, Capture
    PROVE  ProcedureInv'
  <1>0. /\ UNCHANGED <<there, task, session>> /\ task.kind = "snapshot" /\ session # NoSession
        /\ session.device \in Devices /\ session.address = Unique(session.device)
        /\ session.address \notin Polling
    BY LineAssumption DEF Capture, ProcedureInv, SessionInv
  <1>1. PICK e \in Collected :
        /\ results' = Append(results, e)
        /\ e.state = "Value" => Unique(e.from) = Unique(session.device)
    <2>1. \/ \E state \in {"NotRequested", "Unsupported", "Error"} :
               results' = Append(results, Field(state, Nobody))
          \/ /\ results' = Append(results, Field("Value", Reached(session.address)))
             /\ Reached(session.address) # Nobody
      BY DEF Capture
    <2>2. ASSUME NEW state \in State, NEW d \in Somebody
          PROVE  Field(state, d) \in Collected /\ Field(state, d).state = state /\ Field(state, d).from = d
      BY DEF Field, Collected
    <2>3. Nobody \in Somebody /\ {"NotRequested", "Unsupported", "Value", "Error"} \subseteq State
      BY DEF Somebody, State
    <2>4. Reached(session.address) # Nobody =>
            /\ Reached(session.address) \in Somebody
            /\ Unique(Reached(session.address)) = Unique(session.device)
      BY <1>0, UniqueIsReached DEF Somebody
    <2>5. CASE \E state \in {"NotRequested", "Unsupported", "Error"} :
                 results' = Append(results, Field(state, Nobody))
      BY <2>2, <2>3, <2>5
    <2>6. CASE /\ results' = Append(results, Field("Value", Reached(session.address)))
               /\ Reached(session.address) # Nobody
      BY <2>2, <2>3, <2>4, <2>6
    <2> QED
      BY <2>1, <2>5, <2>6
  <1>2. ProcedureType'
    BY <1>0, <1>1, Collects DEF ProcedureInv, ProcedureType
  <1>3. SessionInv' /\ PlanInv'
    BY <1>0 DEF ProcedureInv, SessionInv, PlanInv, NoSession
  <1>4. SnapshotOfOneDevice'
    <2> SUFFICES ASSUME NEW i \in DOMAIN results'
                 PROVE  results'[i].state = "Value" => Unique(results'[i].from) = Unique(session.device)
      BY <1>0 DEF SnapshotOfOneDevice
    <2>1. i \in 1 .. Len(results) \/ i = Len(results) + 1
      BY <1>1, Collects
    <2>2. CASE i \in 1 .. Len(results)
      <3>1. results'[i] = results[i] /\ i \in DOMAIN results
        BY <1>1, <2>2, Collects
      <3> QED
        BY <1>0, <3>1 DEF ProcedureInv, SnapshotOfOneDevice
    <2>3. CASE i = Len(results) + 1
      <3>1. results'[i] = e
        BY <1>1, <2>3, Collects
      <3> QED
        BY <1>1, <2>3, <3>1
    <2> QED
      BY <2>1, <2>2, <2>3
  <1> QED
    BY <1>2, <1>3, <1>4 DEF ProcedureInv

(* A reply that fails in any way meets no expectation. *)
LEMMA FailingIsNotMet ==
    ASSUME NEW expectation \in {"Success", "Codes", "Prefix"},
           NEW reply \in Replies \cup {ExchangeFailed},
           reply = ExchangeFailed \/ reply.code >= 128
    PROVE  ~Met(expectation, reply)
  <1>1. CASE reply = ExchangeFailed
    BY <1>1 DEF Met
  <1>2. CASE reply # ExchangeFailed
    <2>1. reply.code \in Int /\ reply.code >= 128
      BY <1>2 DEF Replies, ExpectedCodes
    <2>2. reply.code # 0 /\ ~(reply.code < 128)
      BY <2>1
    <2> QED
      BY <2>2 DEF Met
  <1> QED
    BY <1>1, <1>2

LEMMA RunStepStep ==
    ASSUME ProcedureInv, NEW reply \in Replies \cup {ExchangeFailed}, RunStep(reply)
    PROVE  ProcedureInv'
  <1> DEFINE n == Len(results) + 1
             met == Met(task.plan[n], reply)
             e == [reply |-> reply, met |-> met]
  <1>0. /\ UNCHANGED <<there, session>> /\ task.kind = "plan" /\ ~task.stopped
        /\ Len(results) < Len(task.plan) /\ results' = Append(results, e)
        /\ task' = [task EXCEPT !.stopped = ~GoesOn(reply)]
    BY DEF RunStep
  <1>1. /\ DOMAIN task' = TaskField /\ task'.kind = task.kind /\ task'.continuing = task.continuing
        /\ task'.plan = task.plan /\ task'.stopped = ~GoesOn(reply)
    BY <1>0 DEF ProcedureInv, ProcedureType, TaskField
  <1>2. met \in BOOLEAN
    BY DEF Met
  <1> HIDE DEF met
  <1>3. e \in Collected /\ e.reply = reply /\ e.met = met
    BY <1>2 DEF Collected
  <1> HIDE DEF e
  <1>4. ProcedureType'
    BY <1>0, <1>1, <1>3, Collects DEF ProcedureInv, ProcedureType
  <1>5. SessionInv' /\ SnapshotOfOneDevice'
    BY <1>0, <1>1 DEF ProcedureInv, SessionInv, SnapshotOfOneDevice, NoSession
  <1>6. PlanInv'
    <2> SUFFICES ASSUME ~task.continuing, NEW i \in DOMAIN results', Failing(i)'
                 PROVE  i = Len(results') /\ task'.stopped
      BY <1>1 DEF PlanInv
    <2>1. i \in 1 .. Len(results) \/ i = n
      BY <1>0, <1>3, Collects
    <2>2. CASE i \in 1 .. Len(results)
      <3>1. results'[i] = results[i] /\ i \in DOMAIN results
        BY <1>0, <1>3, <2>2, Collects
      <3>2. Failing(i)
        BY <3>1 DEF Failing
      <3> QED
        BY <1>0, <3>1, <3>2 DEF ProcedureInv, PlanInv
    <2>3. CASE i = n
      <3>1. results'[i] = e /\ Len(results') = n
        BY <1>0, <1>3, <2>3, Collects
      <3>2. reply = ExchangeFailed \/ reply.code >= 128 \/ ~met
        BY <1>3, <3>1 DEF Failing
      <3>3. task.plan[n] \in {"Success", "Codes", "Prefix"}
        <4>1. task.plan \in Seq({"Success", "Codes", "Prefix"}) /\ Len(results) \in Nat
          BY <1>0, <1>3, Collects DEF ProcedureInv, ProcedureType
        <4>2. n \in 1 .. Len(task.plan)
          BY <1>0, <4>1, LenProperties
        <4> QED
          BY <4>1, <4>2, ElementOfSeq
      <3>4. ~met
        BY <3>2, <3>3, FailingIsNotMet DEF met
      <3>5. ~GoesOn(reply)
        BY <3>4 DEF GoesOn, met
      <3> QED
        BY <1>1, <2>3, <3>1, <3>5
    <2> QED
      BY <2>1, <2>2, <2>3
  <1> QED
    BY <1>4, <1>5, <1>6 DEF ProcedureInv

LEMMA ReconcileStep ==
    ASSUME ProcedureInv, Reconcile
    PROVE  ProcedureInv'
  <1>0. UNCHANGED <<there, task, session>> /\ task.kind = "recovery"
    BY DEF Reconcile
  <1>1. PICK e \in Collected : results' = Append(results, e)
    <2> DEFINE k == task.known[Len(results) + 1]
               answer == Reached(k.address)
               e == [status |-> IF same_device(answer, k.device) THEN "Restored" ELSE "Replaced",
                     from |-> answer]
               f == [status |-> "Unavailable", from |-> Nobody]
    <2>1. (answer # Nobody /\ results' = Append(results, e)) \/ results' = Append(results, f)
      BY DEF Reconcile
    <2>2. answer # Nobody => answer \in Somebody
      BY UniqueIsReached DEF Somebody
    <2> HIDE DEF answer, k
    <2>3. answer # Nobody => e \in Collected
      <3>1. ASSUME answer # Nobody PROVE e \in [status : Status, from : Somebody]
        BY <2>2, <3>1 DEF Status
      <3> HIDE DEF e
      <3> QED
        BY <3>1, Zenon DEF Collected
    <2>4. f \in Collected
      <3>1. f \in [status : Status, from : Somebody]
        BY DEF Somebody, Status
      <3> HIDE DEF f
      <3> QED
        BY <3>1, Zenon DEF Collected
    <2> HIDE DEF e, f
    <2> QED
      BY <2>1, <2>3, <2>4
  <1>2. ProcedureType'
    BY <1>0, <1>1, Collects DEF ProcedureInv, ProcedureType
  <1>3. SessionInv' /\ PlanInv' /\ SnapshotOfOneDevice'
    BY <1>0 DEF ProcedureInv, SessionInv, PlanInv, SnapshotOfOneDevice, NoSession
  <1> QED
    BY <1>2, <1>3 DEF ProcedureInv

LEMMA ProcedureInvariants == ProcedureSpec => []ProcedureInv
  <1>1. ProcedureInv /\ [ProcedureNext]_procedureVars => ProcedureInv'
    <2> SUFFICES ASSUME ProcedureInv, [ProcedureNext]_procedureVars PROVE ProcedureInv'
      OBVIOUS
    <2>1. ASSUME NEW a \in Polling, NEW d \in Somebody, Swap(a, d) PROVE ProcedureInv'
      BY <2>1, SwapStep
    <2>2. ASSUME NEW a \in Polling, Identify(a) PROVE ProcedureInv'
      BY <2>2, IdentifyStep
    <2>3. ASSUME NEW reply \in Replies \cup {ExchangeFailed}, RunStep(reply) PROVE ProcedureInv'
      BY <2>3, RunStepStep
    <2>4. CASE Capture
      BY <2>4, CaptureStep
    <2>5. CASE Reconcile
      BY <2>5, ReconcileStep
    <2>6. CASE UNCHANGED procedureVars
      BY <2>6 DEF procedureVars, ProcedureInv, ProcedureType, SessionInv, PlanInv, Failing,
                  SnapshotOfOneDevice, NoSession
    <2> QED
      BY <2>1, <2>2, <2>3, <2>4, <2>5, <2>6, Zenon DEF ProcedureNext, Somebody
  <1> QED
    BY <1>1, ProcedureInvInit, PTL DEF ProcedureSpec

(* capture_snapshot: for any number of devices, addresses and changes of the  *)
(* line, the values of a snapshot are those of the device that from_identity  *)
(* was given.                                                                 *)
THEOREM SnapshotIsOfOneDevice == ProcedureSpec => []SnapshotOfOneDevice
  <1>1. ProcedureInv => SnapshotOfOneDevice
    BY DEF ProcedureInv
  <1> QED
    BY <1>1, ProcedureInvariants, PTL

(* Plan::execute without continue_on_failure: for every plan and every reply, *)
(* nothing follows a step that failed or missed its expectation.              *)
THEOREM PlanStopsAtFailure == ProcedureSpec => []PlanFailsFast
  <1>1. ProcedureInv => PlanFailsFast
    BY DEF ProcedureInv, PlanInv, PlanFailsFast, Failing
  <1> QED
    BY <1>1, ProcedureInvariants, PTL
=============================================================================
