------------------------------ MODULE BurstHub ------------------------------
(* The router of unsolicited messages (src/src/service/burst.rs): bounded    *)
(* subscriptions, suppression of repeated payloads and back pressure.  The   *)
(* hub's state is under one mutex, so publish, subscribe, reset and the drop *)
(* of a subscription are single steps; only receive runs without it.         *)
EXTENDS Integers, FiniteSets, SequencesExt, FiniteSetsExt

CONSTANTS
    Subscribers,        \* subscriptions ever made, numbered by next_id
    Keys,               \* BurstKey: an address and a command
    Payloads,           \* what a fingerprint is taken of
    Capacities,         \* capacities asked for by subscribers, zero among them
    MaxSubscriptions,   \* BurstConfig::maximum_subscriptions
    MaxDeliveries,      \* BurstConfig::maximum_buffered_deliveries
    MaxTracked,         \* BurstConfig::maximum_tracked_keys
    DuplicateWindow,             \* BurstConfig::duplicate_window; zero disables it
    MaxPublished,       \* bound: publications, invalid ones included
    MaxHubTime          \* bound: clock

MAXIMUM_BURST_SUBSCRIPTION_CAPACITY == 65536
MAXIMUM_BURST_SUBSCRIPTIONS == 65536
MAXIMUM_BURST_TRACKED_KEYS == 65536
MAXIMUM_BURST_BUFFERED_DELIVERIES == 1048576

HubConfigValid ==
    /\ MaxSubscriptions \in 1..MAXIMUM_BURST_SUBSCRIPTIONS
    /\ MaxDeliveries \in 1..MAXIMUM_BURST_BUFFERED_DELIVERIES
    /\ MaxTracked \in 1..MAXIMUM_BURST_TRACKED_KEYS

ASSUME BurstConfigValid == HubConfigValid

VARIABLES
    subs,           \* id -> its entry in the hub and its mpsc channel
    fingerprints,   \* key -> payload and last_delivered_at, for tracked keys
    order,          \* fingerprint_order, oldest first
    hub,            \* BurstSnapshot, but for its counters of drops and evictions
    hubClock,
    published       \* history: per key the last publication and the last offer

hubVars == <<subs, fingerprints, order, hub, hubClock, published>>

Nothing == "nothing"
Registered == {s \in Subscribers : subs[s].at = "registered"}
NextId == {s \in Subscribers : subs[s].at = "none"
                               /\ \A t \in Subscribers : subs[t].at = "none" => s <= t}

HubInit ==
    /\ subs = [s \in Subscribers |-> [at |-> "none"]]
    /\ fingerprints = [k \in {} |-> 0]
    /\ order = <<>>
    /\ hub = [reserved |-> 0, received |-> 0, duplicates |-> 0, invalid |-> 0]
    /\ hubClock = 0
    /\ published = [k \in Keys |-> [last |-> Nothing, offered |-> Nothing, at |-> 0]]

-----------------------------------------------------------------------------
(* try_subscribe, with its refusals, and the drop of a subscription.         *)

Subscribe(s, k, capacity) ==
    /\ s \in NextId
    /\ capacity \in 1..MAXIMUM_BURST_SUBSCRIPTION_CAPACITY
    /\ Cardinality(Registered) < MaxSubscriptions
    /\ hub.reserved + capacity <= MaxDeliveries
    /\ subs' = [subs EXCEPT ![s] = [at |-> "registered", key |-> k, capacity |-> capacity,
                                    queue |-> <<>>, latest |-> Nothing, missed |-> FALSE]]
    /\ hub' = [hub EXCEPT !.reserved = @ + capacity]
    /\ UNCHANGED <<fingerprints, order, hubClock, published>>

DropKeepsSlots(s) ==
    /\ s \in Registered
    /\ subs' = [subs EXCEPT ![s] = [at |-> "dropped"]]
    /\ UNCHANGED <<fingerprints, order, hub, hubClock, published>>

\* The entry goes before the receiver: publish never meets a closed channel.
DropSubscription(s) ==
    /\ s \in Registered
    /\ subs' = [subs EXCEPT ![s] = [at |-> "dropped"]]
    /\ hub' = [hub EXCEPT !.reserved = @ - subs[s].capacity]
    /\ UNCHANGED <<fingerprints, order, hubClock, published>>

\* receive and try_receive.
HubReceive(s) ==
    /\ s \in Registered /\ subs[s].queue # <<>>
    /\ subs' = [subs EXCEPT ![s].queue = Tail(@)]
    /\ UNCHANGED <<fingerprints, order, hub, hubClock, published>>

-----------------------------------------------------------------------------
(* try_publish.                                                              *)

IsDuplicate(k, v) ==
    /\ DuplicateWindow > 0 /\ k \in DOMAIN fingerprints
    /\ fingerprints[k].payload = v
    /\ hubClock - fingerprints[k].at < DuplicateWindow

\* A variant that takes every repetition for a delivery.
RefreshingSuppress(k, v) ==
    /\ IsDuplicate(k, v)
    /\ hub' = [hub EXCEPT !.received = @ + 1, !.duplicates = @ + 1]
    /\ published' = [published EXCEPT ![k].last = v]
    /\ fingerprints' = [fingerprints EXCEPT ![k].at = hubClock]
    /\ UNCHANGED <<subs, order, hubClock>>

Suppress(k, v) ==
    /\ IsDuplicate(k, v)
    /\ hub' = [hub EXCEPT !.received = @ + 1, !.duplicates = @ + 1]
    /\ published' = [published EXCEPT ![k].last = v]
    /\ UNCHANGED <<subs, fingerprints, order, hubClock>>

\* What is forgotten to make room for key k: the oldest key, if k is new.
Evicted(k) ==
    IF k \notin DOMAIN fingerprints /\ Cardinality(DOMAIN fingerprints) = MaxTracked
    THEN {Head(order)} ELSE {}

FirstFingerprint(k, v) ==
    [j \in (DOMAIN fingerprints \ Evicted(k)) \union {k} |->
        IF j \in DOMAIN fingerprints THEN fingerprints[j]
        ELSE [payload |-> v, at |-> hubClock]]

Remembered(k, v) ==
    [j \in (DOMAIN fingerprints \ Evicted(k)) \union {k} |->
        IF j = k THEN [payload |-> v, at |-> hubClock] ELSE fingerprints[j]]

Offer(k, v) ==
    LET matching == {s \in Registered : subs[s].key = k}
        full == {s \in matching : Len(subs[s].queue) = subs[s].capacity}
    IN
    /\ ~IsDuplicate(k, v)
    /\ fingerprints' = Remembered(k, v)
    /\ order' = Append(SelectSeq(order, LAMBDA j : j # k /\ j \notin Evicted(k)), k)
    /\ subs' = [s \in Subscribers |->
                  IF s \in full THEN [subs[s] EXCEPT !.missed = TRUE]
                  ELSE IF s \in matching
                       THEN [subs[s] EXCEPT !.queue = Append(@, v), !.latest = v,
                                            !.missed = FALSE]
                       ELSE subs[s]]
    /\ hub' = [hub EXCEPT !.received = @ + 1]
    /\ published' = [published EXCEPT ![k] = [last |-> v, offered |-> v, at |-> hubClock]]
    /\ UNCHANGED hubClock

\* Oversized data or expansion: counted, nothing else.
PublishInvalid ==
    /\ hub.received + hub.invalid < MaxPublished
    /\ hub' = [hub EXCEPT !.invalid = @ + 1]
    /\ UNCHANGED <<subs, fingerprints, order, hubClock, published>>

Publish(k, v) ==
    /\ hub.received + hub.invalid < MaxPublished
    /\ Suppress(k, v) \/ Offer(k, v)

-----------------------------------------------------------------------------
ResetKey(k) ==
    /\ fingerprints' = [j \in DOMAIN fingerprints \ {k} |-> fingerprints[j]]
    /\ order' = SelectSeq(order, LAMBDA j : j # k)
    /\ UNCHANGED <<subs, hub, hubClock, published>>

ResetAll ==
    /\ fingerprints' = [j \in {} |-> 0]
    /\ order' = <<>>
    /\ UNCHANGED <<subs, hub, hubClock, published>>

HubTick ==
    /\ hubClock < MaxHubTime
    /\ hubClock' = hubClock + 1
    /\ UNCHANGED <<subs, fingerprints, order, hub, published>>

HubNext ==
    \/ \E s \in Subscribers :
         \/ \E k \in Keys, c \in Capacities : Subscribe(s, k, c)
         \/ DropSubscription(s) \/ HubReceive(s)
    \/ \E k \in Keys, v \in Payloads : Publish(k, v)
    \/ PublishInvalid
    \/ \E k \in DOMAIN fingerprints : ResetKey(k)
    \/ ResetAll \/ HubTick

HubSpec == HubInit /\ [][HubNext]_hubVars

-----------------------------------------------------------------------------
(* A subscriber that has missed nothing since its last message holds the     *)
(* current value of its key: suppression by fingerprints, which are evicted, *)
(* reset and shared by all subscribers, never hides a change.                *)
CurrentView ==
    \A s \in Registered :
        subs[s].latest # Nothing /\ ~subs[s].missed
            => subs[s].latest = published[subs[s].key].last

(* A publication is withheld only while the same payload was offered to the  *)
(* subscribers, as the last payload of its key, less than a window ago: a    *)
(* device that repeats an unchanged value for ever still gets through once   *)
(* per window, also to a subscriber that was full at the first offer.        *)
SuppressedBriefly ==
    [][hub'.duplicates > hub.duplicates =>
         \E k \in Keys : /\ published'[k].last = published[k].offered
                         /\ published' = [published EXCEPT ![k].last = published[k].offered]
                         /\ hubClock - published[k].at < DuplicateWindow]_hubVars

(* The bookkeeping over several calls: the reserved slots are those of the   *)
(* live subscriptions and bound what can be buffered, and the eviction order *)
(* lists the tracked keys once each.                                         *)
HubBounded ==
    /\ hub.reserved = MapThenSumSet(LAMBDA s : subs[s].capacity, Registered)
    /\ MapThenSumSet(LAMBDA s : Len(subs[s].queue), Registered) <= MaxDeliveries
    /\ ToSet(order) = DOMAIN fingerprints /\ IsInjective(order)
    /\ Len(order) <= MaxTracked
=============================================================================
