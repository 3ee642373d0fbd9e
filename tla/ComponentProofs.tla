--------------------------- MODULE ComponentProofs ----------------------------
(***************************************************************************)
(* Proofs about components around the link, each for every value of its      *)
(* constants: the configuration of a link (LinkConfig), the hub of Burst     *)
(* publications (BurstHub), the HART-IP session (HartIp) and block transfer  *)
(* (Transfer).                                                               *)
(***************************************************************************)
EXTENDS LinkConfig, BurstHub, HartIp, Transfer, SequenceTheorems, TLAPS

(* LinkConfig: what create_link makes of a configuration. *)

(* The bounds of the decoder clamp are never crossed, whatever the preambles: *)
(* Ord::clamp would panic.                                                   *)
LEMMA DecoderBoundsOrdered ==
    ASSUME NEW preambles \in 0..255
    PROVE  /\ required_decoder_capacity(preambles) \in Nat
           /\ required_decoder_capacity(preambles) <= MAXIMUM_LINK_DECODER_BUFFER
  BY LimitsAssumption DEF required_decoder_capacity

(* create_link turns every configuration, however invalid, into one that     *)
(* LinkConfig::validate accepts, so the compatibility constructor never      *)
(* builds a link the strict one would refuse.                                *)
THEOREM NormalizedIsValid ==
    ASSUME NEW c \in Config
    PROVE  ConfigValid(Normalized(c)) /\ Normalized(c) \in Config
  <1> DEFINE preambles == Within(c.minimum_preambles, 1, 255)
             n == Normalized(c)
  <1>1. preambles \in 1..255
    BY DEF Config, Within
  <1>2. n.queue_capacity \in 1..MAXIMUM_QUEUE_CAPACITY
    BY LimitsAssumption DEF Config, Normalized, Within
  <1>3. n.read_buffer_size \in 64..MAXIMUM_LINK_READ_BUFFER
    BY LimitsAssumption DEF Config, Normalized, Within
  <1>4. n.buffer_capacity \in required_decoder_capacity(preambles)..MAXIMUM_LINK_DECODER_BUFFER
    <2>1. preambles \in 0..255 /\ c.buffer_capacity \in Int
      BY <1>1 DEF Config
    <2>2. /\ required_decoder_capacity(preambles) \in Int
          /\ required_decoder_capacity(preambles) <= MAXIMUM_LINK_DECODER_BUFFER
      BY <2>1, DecoderBoundsOrdered
    <2>3. n.buffer_capacity = Within(c.buffer_capacity, required_decoder_capacity(preambles),
                                     MAXIMUM_LINK_DECODER_BUFFER)
      BY DEF Normalized
    <2> QED
      BY <2>1, <2>2, <2>3, LimitsAssumption DEF Within
  <1>5. n.minimum_preambles = preambles /\ n.checksum_source_node \in -1..63
    BY DEF Normalized, Config
  <1>6. ConfigValid(n)
    BY <1>1, <1>2, <1>3, <1>4, <1>5, DecoderBoundsOrdered, LimitsAssumption DEF ConfigValid
  <1>7. n \in Config
    <2>1. required_decoder_capacity(preambles) \in Nat
      BY <1>1, DecoderBoundsOrdered
    <2>2. n = [queue_capacity |-> n.queue_capacity, read_buffer_size |-> n.read_buffer_size,
               buffer_capacity |-> n.buffer_capacity, minimum_preambles |-> n.minimum_preambles,
               checksum_source_node |-> n.checksum_source_node]
      BY DEF Normalized
    <2>3. /\ n.queue_capacity \in Nat /\ n.read_buffer_size \in Nat /\ n.buffer_capacity \in Nat
          /\ n.minimum_preambles \in 0..255 /\ n.checksum_source_node \in -1..255
      BY <1>1, <1>2, <1>3, <1>4, <1>5, <2>1, LimitsAssumption
    <2> HIDE DEF n
    <2> QED
      BY <2>2, <2>3 DEF Config
  <1> QED
    BY <1>6, <1>7

(* create_link leaves a configuration that is already valid alone, but for a *)
(* read buffer below 64 bytes, which validate accepts and the clamp raises.  *)
THEOREM ValidStaysAsItIs ==
    ASSUME NEW c \in Config, ConfigValid(c)
    PROVE  /\ Normalized(c) = [c EXCEPT !.read_buffer_size = Normalized(c).read_buffer_size]
           /\ c.read_buffer_size >= 64 => Normalized(c) = c
  <1> DEFINE n == Normalized(c)
  <1>1. c = [queue_capacity |-> c.queue_capacity, read_buffer_size |-> c.read_buffer_size,
             buffer_capacity |-> c.buffer_capacity, minimum_preambles |-> c.minimum_preambles,
             checksum_source_node |-> c.checksum_source_node]
    BY DEF Config
  <1>2. Within(c.minimum_preambles, 1, 255) = c.minimum_preambles
    BY DEF Config, ConfigValid, Within
  <1>3. n.queue_capacity = c.queue_capacity
    BY LimitsAssumption DEF Config, ConfigValid, Normalized, Within
  <1>4. n.buffer_capacity = c.buffer_capacity
    <2>1. c.buffer_capacity \in
            required_decoder_capacity(c.minimum_preambles)..MAXIMUM_LINK_DECODER_BUFFER
      BY DecoderBoundsOrdered, LimitsAssumption DEF Config, ConfigValid
    <2>2. n.buffer_capacity =
            Within(c.buffer_capacity, required_decoder_capacity(c.minimum_preambles),
                   MAXIMUM_LINK_DECODER_BUFFER)
      BY <1>2 DEF Normalized
    <2>3. required_decoder_capacity(c.minimum_preambles) \in Nat
      BY DecoderBoundsOrdered DEF Config
    <2> QED
      BY <2>1, <2>2, <2>3, LimitsAssumption DEF Within
  <1>5. n.minimum_preambles = c.minimum_preambles
    BY <1>2 DEF Normalized
  <1>6. n.checksum_source_node = c.checksum_source_node
    BY DEF Normalized, ConfigValid, Config
  <1>7. c.read_buffer_size >= 64 => n.read_buffer_size = c.read_buffer_size
    BY LimitsAssumption DEF Config, ConfigValid, Normalized, Within
  <1>8. n = [queue_capacity |-> n.queue_capacity, read_buffer_size |-> n.read_buffer_size,
             buffer_capacity |-> n.buffer_capacity, minimum_preambles |-> n.minimum_preambles,
             checksum_source_node |-> n.checksum_source_node]
    BY DEF Normalized
  <1> HIDE DEF n
  <1>9. n = [c EXCEPT !.read_buffer_size = n.read_buffer_size]
    BY <1>1, <1>3, <1>4, <1>5, <1>6, <1>8
  <1>10. c.read_buffer_size >= 64 => n = c
    BY <1>1, <1>3, <1>4, <1>5, <1>6, <1>7, <1>8
  <1> QED
    BY <1>9, <1>10 DEF n

-----------------------------------------------------------------------------
(* BurstHub: what a subscriber sees, and what is withheld from it. *)

Value == Payloads \cup {Nothing}
SubEntry == [at : {"registered"}, key : Keys, capacity : Nat, queue : Seq(Payloads),
             latest : Value, missed : BOOLEAN]

HubCounter == {"reserved", "received", "duplicates", "invalid"}

HubType ==
    /\ DOMAIN subs = Subscribers /\ \A s \in Registered : subs[s] \in SubEntry
    /\ DOMAIN fingerprints \subseteq Keys
    /\ hub \in [HubCounter -> Int]
    /\ published \in [Keys -> [last : Value, offered : Value, at : Nat]]
    /\ hubClock \in Nat

(* A fingerprint is the last payload of its key that was offered, with the    *)
(* time of the offer, and what is withheld is a repetition of that payload.   *)
FingerInv ==
    /\ \A k \in DOMAIN fingerprints :
         fingerprints[k] = [payload |-> published[k].offered, at |-> published[k].at]
    /\ \A k \in Keys : published[k].last = published[k].offered

HubInv == HubType /\ FingerInv /\ CurrentView

LEMMA HubInvInit == HubInit => HubInv
  <1> SUFFICES ASSUME HubInit PROVE HubInv
    OBVIOUS
  <1>1. HubType
    <2>1. hub \in [HubCounter -> Int]
      BY DEF HubInit, HubCounter
    <2>2. Registered = {} /\ DOMAIN subs = Subscribers
      BY DEF HubInit, Registered
    <2>3. published \in [Keys -> [last : Value, offered : Value, at : Nat]]
      BY DEF HubInit, Value
    <2> QED
      BY <2>1, <2>2, <2>3 DEF HubInit, HubType
  <1>2. FingerInv
    BY DEF HubInit, FingerInv
  <1>3. CurrentView
    BY DEF HubInit, CurrentView, Registered
  <1> QED
    BY <1>1, <1>2, <1>3 DEF HubInv

(* What is withheld repeats the payload of the last offer. *)
LEMMA SuppressRepeats ==
    ASSUME HubInv, NEW k \in Keys, NEW v \in Payloads, Suppress(k, v)
    PROVE  /\ v = published[k].offered /\ published' = published
           /\ hubClock - published[k].at < DuplicateWindow
           /\ UNCHANGED <<subs, fingerprints, hubClock>>
           /\ hub' = [hub EXCEPT !.received = @ + 1, !.duplicates = @ + 1]
  <1>0. /\ published \in [Keys -> [last : Value, offered : Value, at : Nat]]
        /\ published[k].last = published[k].offered
    BY DEF HubInv, HubType, FingerInv
  <1>1. /\ IsDuplicate(k, v) /\ published' = [published EXCEPT ![k].last = v]
        /\ UNCHANGED <<subs, fingerprints, hubClock>>
        /\ hub' = [hub EXCEPT !.received = @ + 1, !.duplicates = @ + 1]
    BY DEF Suppress
  <1>2. fingerprints[k] = [payload |-> published[k].offered, at |-> published[k].at]
    BY <1>1 DEF IsDuplicate, HubInv, FingerInv
  <1>3. v = published[k].offered /\ hubClock - published[k].at < DuplicateWindow
    BY <1>1, <1>2 DEF IsDuplicate
  <1>4. published' = published
    <2>1. [published[k] EXCEPT !.last = v] = published[k]
      BY <1>0, <1>3
    <2> QED
      BY <1>0, <1>1, <2>1
  <1> QED
    BY <1>1, <1>3, <1>4

(* A step that publishes nothing leaves every fingerprint it keeps as it is,  *)
(* and what the subscribers were last given.                                  *)
LEMMA QuietHubStep ==
    ASSUME HubInv, UNCHANGED <<published>>, DOMAIN fingerprints' \subseteq DOMAIN fingerprints,
           \A k \in DOMAIN fingerprints' : fingerprints'[k] = fingerprints[k],
           DOMAIN subs' = Subscribers, \A s \in Registered' : subs'[s] \in SubEntry,
           hub' \in [HubCounter -> Int], hubClock' \in Nat,
           \A s \in Subscribers : subs'[s].at = "registered" =>
             \/ subs'[s].latest = Nothing
             \/ /\ subs[s].at = "registered" /\ subs'[s].latest = subs[s].latest
                /\ subs'[s].key = subs[s].key /\ subs'[s].missed = subs[s].missed
    PROVE  HubInv'
  <1>1. HubType'
    BY DEF HubInv, HubType
  <1>2. FingerInv'
    BY DEF HubInv, FingerInv
  <1>3. CurrentView'
    BY DEF HubInv, CurrentView, Registered
  <1> QED
    BY <1>1, <1>2, <1>3 DEF HubInv

LEMMA OfferStep ==
    ASSUME HubInv, NEW k \in Keys, NEW v \in Payloads, Offer(k, v)
    PROVE  HubInv' /\ hub'.duplicates = hub.duplicates
  <1> DEFINE matching == {s \in Registered : subs[s].key = k}
             full == {s \in matching : Len(subs[s].queue) = subs[s].capacity}
  <1>0. /\ DOMAIN subs = Subscribers /\ \A s \in Registered : subs[s] \in SubEntry
        /\ DOMAIN fingerprints \subseteq Keys
        /\ hub \in [HubCounter -> Int]
        /\ published \in [Keys -> [last : Value, offered : Value, at : Nat]] /\ hubClock \in Nat
    BY DEF HubInv, HubType
  <1>1. /\ fingerprints' = Remembered(k, v) /\ hub' = [hub EXCEPT !.received = @ + 1]
        /\ published' = [published EXCEPT ![k] = [last |-> v, offered |-> v, at |-> hubClock]]
        /\ hubClock' = hubClock
        /\ subs' = [s \in Subscribers |->
                      IF s \in full THEN [subs[s] EXCEPT !.missed = TRUE]
                      ELSE IF s \in matching
                           THEN [subs[s] EXCEPT !.queue = Append(@, v), !.latest = v, !.missed = FALSE]
                           ELSE subs[s]]
    BY Zenon DEF Offer
  <1>2. \A s \in matching : s \in Subscribers /\ subs[s] \in SubEntry /\ subs[s].key = k
    BY <1>0 DEF Registered
  <1>3. \A s \in Subscribers : s \notin matching => subs'[s] = subs[s]
    BY Zenon, <1>1
  <1>4. \A s \in full : subs'[s] = [subs[s] EXCEPT !.missed = TRUE]
    BY Zenon, <1>1, <1>2
  <1>5. \A s \in matching \ full :
           subs'[s] = [subs[s] EXCEPT !.queue = Append(@, v), !.latest = v, !.missed = FALSE]
    BY Zenon, <1>1, <1>2
  <1>6. \A s \in full : subs'[s] \in SubEntry /\ subs'[s].key = k /\ subs'[s].missed
    BY Zenon, <1>2, <1>4 DEF SubEntry
  <1>7. \A s \in matching \ full : subs'[s] \in SubEntry /\ subs'[s].key = k /\ subs'[s].latest = v
    <2> SUFFICES ASSUME NEW s \in matching \ full
                 PROVE  subs'[s] \in SubEntry /\ subs'[s].key = k /\ subs'[s].latest = v
      OBVIOUS
    <2>1. Append(subs[s].queue, v) \in Seq(Payloads)
      BY <1>2 DEF SubEntry
    <2> DEFINE queued == [subs[s] EXCEPT !.queue = Append(@, v)]
               latest == [queued EXCEPT !.latest = v]
    <2>2. queued \in SubEntry /\ queued.key = k
      BY <1>2, <2>1 DEF SubEntry
    <2> HIDE DEF queued
    <2>3. latest \in SubEntry /\ latest.key = k /\ latest.latest = v
      BY <2>2 DEF SubEntry, Value
    <2>4. subs'[s] = [latest EXCEPT !.missed = FALSE]
      BY Zenon, <1>5 DEF queued
    <2> HIDE DEF latest
    <2> QED
      BY <2>3, <2>4 DEF SubEntry
  <1>8. /\ published' \in [Keys -> [last : Value, offered : Value, at : Nat]]
        /\ published'[k] = [last |-> v, offered |-> v, at |-> hubClock]
        /\ \A j \in Keys \ {k} : published'[j] = published[j]
    BY Zenon, <1>0, <1>1 DEF Value
  <1>9. /\ DOMAIN fingerprints' \subseteq DOMAIN fingerprints \cup {k}
        /\ \A j \in DOMAIN fingerprints' :
             fingerprints'[j] = IF j = k THEN [payload |-> v, at |-> hubClock] ELSE fingerprints[j]
    BY Zenon, <1>1 DEF Remembered
  <1>10. /\ hub' \in [HubCounter -> Int]
         /\ hub'.duplicates = hub.duplicates
    <2>1. hub \in [HubCounter -> Int] /\ hub' = [hub EXCEPT !.received = @ + 1]
      BY Zenon, <1>0, <1>1
    <2> QED
      BY <2>1 DEF HubCounter
  <1> HIDE DEF matching, full
  <1>11. DOMAIN subs' = Subscribers /\ full \subseteq matching
    BY Zenon, <1>1 DEF full
  <1>12. \A s \in Registered' : subs'[s] \in SubEntry
    BY <1>0, <1>3, <1>6, <1>7 DEF Registered
  <1>14. HubType'
    BY Zenon, <1>0, <1>1, <1>8, <1>9, <1>10, <1>11, <1>12 DEF HubType
  <1>15. FingerInv'
    <2>1. ASSUME NEW j \in DOMAIN fingerprints'
          PROVE  fingerprints'[j] = [payload |-> published'[j].offered, at |-> published'[j].at]
      <3>1. CASE j = k
        BY <1>8, <1>9, <3>1
      <3>2. CASE j # k
        <4>1. j \in DOMAIN fingerprints /\ j \in Keys /\ fingerprints'[j] = fingerprints[j]
          BY <1>0, <1>9, <3>2
        <4> QED
          BY <1>8, <3>2, <4>1 DEF HubInv, FingerInv
      <3> QED
        BY <3>1, <3>2
    <2>2. ASSUME NEW j \in Keys PROVE published'[j].last = published'[j].offered
      BY <1>8 DEF HubInv, FingerInv
    <2> QED
      BY <2>1, <2>2 DEF FingerInv
  <1>16. CurrentView'
    <2> SUFFICES ASSUME NEW s \in Subscribers, subs'[s].at = "registered", ~subs'[s].missed,
                        subs'[s].latest # Nothing
                 PROVE  subs'[s].latest = published'[subs'[s].key].last
      BY DEF CurrentView, Registered
    <2>1. CASE s \in matching
      <3>1. subs'[s].key = k /\ subs'[s].latest = v
        BY <1>6, <1>7, <2>1
      <3> QED
        BY <1>8, <3>1
    <2>2. CASE s \notin matching
      <3>1. subs'[s] = subs[s] /\ subs[s] \in SubEntry /\ s \in Registered
        BY <1>0, <1>3, <2>2 DEF Registered
      <3>2. subs[s].key \in Keys \ {k}
        BY <2>2, <3>1 DEF SubEntry, matching
      <3> QED
        BY <1>8, <3>1, <3>2 DEF HubInv, CurrentView
    <2> QED
      BY <2>1, <2>2
  <1> QED
    BY <1>10, <1>14, <1>15, <1>16 DEF HubInv

LEMMA HubInvNext ==
    ASSUME HubInv, [HubNext]_hubVars
    PROVE  /\ HubInv'
           /\ \/ hub'.duplicates = hub.duplicates
              \/ \E k \in Keys, v \in Payloads : Suppress(k, v)
  <1>0. /\ DOMAIN subs = Subscribers /\ \A s \in Registered : subs[s] \in SubEntry
        /\ hub \in [HubCounter -> Int]
        /\ hubClock \in Nat
    BY DEF HubInv, HubType
  <1>1. ASSUME NEW s \in Subscribers, NEW k \in Keys, NEW c \in Capacities, Subscribe(s, k, c)
        PROVE  HubInv' /\ hub'.duplicates = hub.duplicates
    <2> DEFINE entry == [at |-> "registered", key |-> k, capacity |-> c, queue |-> <<>>,
                         latest |-> Nothing, missed |-> FALSE]
    <2>1. /\ subs' = [subs EXCEPT ![s] = entry] /\ hub' = [hub EXCEPT !.reserved = @ + c]
          /\ c \in 1 .. MAXIMUM_BURST_SUBSCRIPTION_CAPACITY
          /\ UNCHANGED <<fingerprints, hubClock, published>>
      BY <1>1 DEF Subscribe
    <2>c. c \in Nat
      BY <2>1
    <2>2. entry \in SubEntry /\ entry.latest = Nothing
      BY <2>c DEF SubEntry, Value
    <2>3. hub' \in [HubCounter -> Int]
          /\ hub'.duplicates = hub.duplicates
      BY <1>0, <2>1, <2>c DEF HubCounter
    <2> HIDE DEF entry
    <2> QED
      BY <1>0, <2>1, <2>2, <2>3, QuietHubStep DEF Registered
  <1>2. ASSUME NEW s \in Subscribers, DropSubscription(s)
        PROVE  HubInv' /\ hub'.duplicates = hub.duplicates
    <2>1. /\ subs' = [subs EXCEPT ![s] = [at |-> "dropped"]] /\ s \in Registered
          /\ hub' = [hub EXCEPT !.reserved = @ - subs[s].capacity]
          /\ UNCHANGED <<fingerprints, hubClock, published>>
      BY <1>2 DEF DropSubscription
    <2>2. subs[s].capacity \in Int
      BY <1>0, <2>1 DEF SubEntry
    <2>3. hub' \in [HubCounter -> Int]
          /\ hub'.duplicates = hub.duplicates
      BY <1>0, <2>1, <2>2 DEF HubCounter
    <2> QED
      BY <1>0, <2>1, <2>3, QuietHubStep DEF Registered
  <1>3. ASSUME NEW s \in Subscribers, HubReceive(s)
        PROVE  HubInv' /\ hub'.duplicates = hub.duplicates
    <2>1. /\ subs' = [subs EXCEPT ![s].queue = Tail(@)] /\ s \in Registered /\ subs[s].queue # <<>>
          /\ UNCHANGED <<fingerprints, hub, hubClock, published>>
      BY <1>3 DEF HubReceive
    <2>2. subs[s] \in SubEntry /\ subs'[s] = [subs[s] EXCEPT !.queue = Tail(@)]
      BY <1>0, <2>1
    <2>3. Tail(subs[s].queue) \in Seq(Payloads)
      BY <2>1, <2>2 DEF SubEntry
    <2>4. /\ subs'[s] \in SubEntry /\ subs'[s].latest = subs[s].latest /\ subs'[s].key = subs[s].key
          /\ subs'[s].missed = subs[s].missed
      BY <2>2, <2>3 DEF SubEntry
    <2>5. \A t \in Subscribers \ {s} : subs'[t] = subs[t]
      BY <1>0, <2>1
    <2>6. DOMAIN subs' = Subscribers /\ \A t \in Registered' : subs'[t] \in SubEntry
      BY <1>0, <2>1, <2>4, <2>5 DEF Registered
    <2> QED
      BY <1>0, <2>1, <2>4, <2>5, <2>6, QuietHubStep DEF Registered
  <1>4. ASSUME NEW k \in Keys, NEW v \in Payloads, Publish(k, v)
        PROVE  HubInv' /\ (hub'.duplicates = hub.duplicates \/ Suppress(k, v))
    <2>1. CASE Suppress(k, v)
      <3>1. /\ UNCHANGED <<published, subs, fingerprints, hubClock>>
            /\ hub' = [hub EXCEPT !.received = @ + 1, !.duplicates = @ + 1]
        BY <2>1, SuppressRepeats
      <3>2. hub' \in [HubCounter -> Int]
        <4> DEFINE counted == [hub EXCEPT !.received = @ + 1]
        <4>1. counted \in [HubCounter -> Int] /\ counted.duplicates = hub.duplicates
          BY <1>0 DEF HubCounter
        <4>2. hub' = [counted EXCEPT !.duplicates = @ + 1]
          BY <3>1, <4>1
        <4> HIDE DEF counted
        <4> QED
          BY <4>1, <4>2 DEF HubCounter
      <3> QED
        BY <1>0, <2>1, <3>1, <3>2, QuietHubStep DEF Registered
    <2>2. CASE Offer(k, v)
      BY <2>2, OfferStep
    <2> QED
      BY <1>4, <2>1, <2>2 DEF Publish
  <1>5. CASE PublishInvalid
    <2>1. UNCHANGED <<subs, fingerprints, hubClock, published>> /\ hub' = [hub EXCEPT !.invalid = @ + 1]
      BY <1>5 DEF PublishInvalid
    <2>2. hub' \in [HubCounter -> Int]
          /\ hub'.duplicates = hub.duplicates
      BY <1>0, <2>1 DEF HubCounter
    <2> QED
      BY <1>0, <2>1, <2>2, QuietHubStep DEF Registered
  <1>6. CASE (\E k \in DOMAIN fingerprints : ResetKey(k)) \/ ResetAll
    <2>1. /\ UNCHANGED <<subs, hub, hubClock, published>>
          /\ DOMAIN fingerprints' \subseteq DOMAIN fingerprints
          /\ \A k \in DOMAIN fingerprints' : fingerprints'[k] = fingerprints[k]
      BY <1>6 DEF ResetKey, ResetAll
    <2> QED
      BY <1>0, <2>1, QuietHubStep DEF Registered
  <1>7. CASE HubTick \/ UNCHANGED hubVars
    <2>1. UNCHANGED <<subs, fingerprints, hub, published>> /\ hubClock' \in {hubClock, hubClock + 1}
      BY <1>7 DEF HubTick, hubVars
    <2> QED
      BY <1>0, <2>1, QuietHubStep DEF Registered
  <1> QED
    BY <1>1, <1>2, <1>3, <1>4, <1>5, <1>6, <1>7 DEF HubNext

LEMMA HubInvariants == HubSpec => []HubInv
  <1>1. HubInv /\ [HubNext]_hubVars => HubInv'
    BY HubInvNext
  <1> QED
    BY <1>1, HubInvInit, PTL DEF HubSpec

(* BurstHub: suppression by fingerprints, which are evicted, reset and shared *)
(* by all subscribers, never hides a change from a subscriber that has missed *)
(* nothing, for any keys, subscribers, capacities and window.                 *)
THEOREM HubViewIsCurrent == HubSpec => []CurrentView
  <1>1. HubInv => CurrentView
    BY DEF HubInv
  <1> QED
    BY <1>1, HubInvariants, PTL

(* try_publish: a publication is counted as a duplicate, and withheld, only   *)
(* if it repeats what was offered less than a window ago.                     *)
THEOREM HubSuppressesBriefly == HubSpec => SuppressedBriefly
  <1> DEFINE Brief == hub'.duplicates > hub.duplicates =>
                        \E k \in Keys : /\ published'[k].last = published[k].offered
                                        /\ published' = [published EXCEPT ![k].last = published[k].offered]
                                        /\ hubClock - published[k].at < DuplicateWindow
  <1>1. HubInv /\ [HubNext]_hubVars => Brief
    <2> SUFFICES ASSUME HubInv, [HubNext]_hubVars, hub'.duplicates > hub.duplicates PROVE Brief
      OBVIOUS
    <2>0. /\ hub.duplicates \in Int /\ published \in [Keys -> [last : Value, offered : Value, at : Nat]]
          /\ \A k \in Keys : published[k].last = published[k].offered
      BY DEF HubInv, HubType, FingerInv, HubCounter
    <2>1. PICK k \in Keys, v \in Payloads : Suppress(k, v)
      BY <2>0, HubInvNext
    <2>2. /\ published' = published /\ hubClock - published[k].at < DuplicateWindow
      BY <2>1, SuppressRepeats
    <2>3. published = [published EXCEPT ![k].last = published[k].offered]
      <3>1. [published[k] EXCEPT !.last = published[k].offered] = published[k]
        BY <2>0
      <3> QED
        BY <2>0, <3>1
    <2> QED
      BY <2>0, <2>2, <2>3
  <1> QED
    BY <1>1, HubInvariants, PTL DEF HubSpec, SuppressedBriefly

-----------------------------------------------------------------------------
(* HartIp: sequence numbers and the framing of the stream. *)

LEMMA ToSetFacts ==
    ASSUME NEW S, NEW q \in Seq(S)
    PROVE  /\ \A e \in S : ToSet(Append(q, e)) = ToSet(q) \cup {e}
           /\ q # <<>> => Head(q) \in ToSet(q) /\ ToSet(Tail(q)) \subseteq ToSet(q)
           /\ ToSet(q) \subseteq S
  <1>1. ToSet(q) \subseteq S
    BY DEF ToSet
  <1>2. ASSUME NEW e \in S PROVE ToSet(Append(q, e)) = ToSet(q) \cup {e}
    <2>1. /\ DOMAIN Append(q, e) = 1 .. Len(q) + 1 /\ DOMAIN q = 1 .. Len(q)
          /\ \A i \in 1 .. Len(q) : Append(q, e)[i] = q[i]
          /\ Append(q, e)[Len(q) + 1] = e /\ Len(q) \in Nat
      BY AppendProperties, LenProperties
    <2> QED
      BY <2>1 DEF ToSet
  <1>3. ASSUME q # <<>> PROVE Head(q) \in ToSet(q) /\ ToSet(Tail(q)) \subseteq ToSet(q)
    <2>1. /\ Head(q) = q[1] /\ 1 \in DOMAIN q
          /\ \A i \in DOMAIN Tail(q) : i + 1 \in DOMAIN q /\ Tail(q)[i] = q[i + 1]
      BY <1>3, HeadTailProperties, LenProperties
    <2> QED
      BY <2>1 DEF ToSet
  <1> QED
    BY <1>1, <1>2, <1>3

-----------------------------------------------------------------------------
(* Sequence numbers that a completed write has used up. *)
Used == IF ip.next = 0 THEN SequenceModulus - 1 ELSE ip.next - 1

(* What the server may still answer, and what it has answered. *)
Mail == {p \in ToSet(inbound) : p.kind # "publish"}

Operation == [at : {"write", "read"}, id : {"initiate", "close", "pdu"}, seq : Nat,
              unmatched : Nat, request : Nat]
PacketSet == [kind : {"response", "failure", "broken", "publish"}, seq : Nat,
              id : {"initiate", "close", "pdu", "publish"}, request : Nat,
              length : {1} \cup BodyLengths]
AskedSet == [seq : Nat, id : {"initiate", "close", "pdu"}, request : Nat]

OutcomeField == {"foreign", "dropped", "refused", "taken", "cut", "torn"}

IpType ==
    /\ DOMAIN ip = {"next", "open", "usable", "published"} /\ ip.next \in 0 .. SequenceModulus - 1
    /\ op = Idle \/ op \in Operation
    /\ inbound \in Seq(PacketSet)
    /\ DOMAIN server = {"asked", "requests", "publishes"}
    /\ server.asked \subseteq AskedSet /\ server.requests \in 0 .. MaxRequests
    /\ DOMAIN outcome = OutcomeField

(* Every request that was sent carries a sequence number that is used up, and *)
(* the operation under way is the only one with its number.                   *)
SequenceInv ==
    /\ Used <= server.requests
    /\ op.at = "write" => op.seq = ip.next /\ op.seq = Used + 1 /\ Used < server.requests
    /\ \A p \in server.asked \cup Mail : p.seq \in 1 .. Used
    /\ op.at = "read" =>
         /\ op.seq \in 1 .. Used
         /\ \A p \in server.asked \cup Mail : p.seq = op.seq => p.request = op.request

(* Only a packet that is being read has its header taken off the stream, and  *)
(* what leaves a packet cut ends the use of the stream.                       *)
FrameInv ==
    /\ op # Idle => ip.usable
    /\ ip.usable => ~outcome.cut
    /\ inHeader => op.at = "read" /\ inbound # <<>>

(* All of this until a future is dropped inside a packet. *)
IpInv == IpType /\ SequenceInv /\ FrameInv /\ outcome.foreign = 0
IpUntilTorn == DOMAIN outcome = OutcomeField /\ (~outcome.torn => IpInv)

LEMMA IpInvInit == IpInit => IpInv
  <1> SUFFICES ASSUME IpInit PROVE IpInv
    OBVIOUS
  <1>1. /\ ip = [next |-> 1, open |-> FALSE, usable |-> TRUE, published |-> <<>>]
        /\ op = Idle /\ inbound = <<>> /\ inHeader = FALSE
        /\ server = [asked |-> {}, requests |-> 0, publishes |-> 0]
        /\ outcome = [foreign |-> 0, dropped |-> 0, refused |-> 0, taken |-> 0,
                       cut |-> FALSE, torn |-> FALSE]
    BY DEF IpInit
  <1>2. IpType
    BY <1>1, IpLimits DEF IpType, OutcomeField
  <1>3. Used = 0 /\ Mail = {} /\ op.at = "idle"
    BY <1>1 DEF Used, Mail, ToSet, Idle
  <1>4. SequenceInv
    BY <1>1, <1>3 DEF SequenceInv
  <1>5. FrameInv /\ outcome.foreign = 0
    BY <1>1, <1>3 DEF FrameInv
  <1> QED
    BY <1>2, <1>4, <1>5 DEF IpInv

(* A step that sends nothing, takes nothing off the stream and ends no        *)
(* operation.                                                                 *)
LEMMA IpKeeps ==
    ASSUME IpInv, UNCHANGED <<op, inHeader>>,
           DOMAIN ip' = DOMAIN ip, ip'.next = ip.next, ip'.usable = ip.usable,
           inbound' \in Seq(PacketSet), inbound # <<>> => inbound' # <<>>,
           DOMAIN server' = DOMAIN server, server'.asked \subseteq server.asked,
           server'.requests = server.requests,
           \A p \in Mail' : \E m \in server.asked \cup Mail : p.seq = m.seq /\ p.request = m.request,
           DOMAIN outcome' = DOMAIN outcome, outcome'.cut = outcome.cut,
           outcome'.foreign = outcome.foreign
    PROVE  IpInv'
  <1>1. IpType'
    BY DEF IpInv, IpType
  <1>2. Used' = Used
    BY DEF Used
  <1>3. SequenceInv'
    BY <1>2 DEF IpInv, SequenceInv
  <1>4. FrameInv' /\ outcome'.foreign = 0
    BY DEF IpInv, FrameInv
  <1> QED
    BY <1>1, <1>3, <1>4 DEF IpInv

(* The server answers a request with its number, or publishes. *)
LEMMA ServerStep ==
    ASSUME IpInv,
           \/ \E r \in server.asked, k \in {"response", "failure", "broken"} : Answer(r, k)
           \/ \E n \in BodyLengths : PublishPacket(n)
    PROVE  IpInv'
  <1>0. /\ inbound \in Seq(PacketSet) /\ server.asked \subseteq AskedSet
        /\ DOMAIN server = {"asked", "requests", "publishes"}
    BY DEF IpInv, IpType
  <1>1. ASSUME NEW r \in server.asked, NEW k \in {"response", "failure", "broken"}, Answer(r, k)
        PROVE  IpInv'
    <2> DEFINE p == Packet(k, r.seq, r.id, r.request, 1)
    <2>1. /\ inbound' = Append(inbound, p) /\ server' = [server EXCEPT !.asked = @ \ {r}]
          /\ UNCHANGED <<ip, op, inHeader, outcome>>
      BY <1>1 DEF Answer
    <2>2. p \in PacketSet /\ p.seq = r.seq /\ p.request = r.request
      BY <1>0 DEF Packet, PacketSet, AskedSet
    <2> HIDE DEF p
    <2>3. inbound' \in Seq(PacketSet) /\ ToSet(inbound') = ToSet(inbound) \cup {p} /\ inbound' # <<>>
      BY <1>0, <2>1, <2>2, ToSetFacts, AppendProperties
    <2>4. \A m \in Mail' : m \in Mail \/ m = p
      BY <2>3 DEF Mail
    <2>5. /\ DOMAIN server' = DOMAIN server /\ server'.asked \subseteq server.asked
          /\ server'.requests = server.requests
      BY <1>0, <2>1
    <2> QED
      BY <2>1, <2>2, <2>3, <2>4, <2>5, IpKeeps
  <1>2. ASSUME NEW n \in BodyLengths, PublishPacket(n) PROVE IpInv'
    <2> DEFINE p == Packet("publish", 0, "publish", 0, n)
    <2>1. /\ inbound' = Append(inbound, p) /\ server' = [server EXCEPT !.publishes = @ + 1]
          /\ UNCHANGED <<ip, op, inHeader, outcome>>
      BY <1>2 DEF PublishPacket
    <2>2. p \in PacketSet /\ p.kind = "publish"
      BY DEF Packet, PacketSet
    <2> HIDE DEF p
    <2>3. inbound' \in Seq(PacketSet) /\ ToSet(inbound') = ToSet(inbound) \cup {p} /\ inbound' # <<>>
      BY <1>0, <2>1, <2>2, ToSetFacts, AppendProperties
    <2>4. \A m \in Mail' : m \in Mail
      BY <2>2, <2>3 DEF Mail
    <2>5. /\ DOMAIN server' = DOMAIN server /\ server'.asked = server.asked
          /\ server'.requests = server.requests
      BY <1>0, <2>1
    <2> QED
      BY <2>1, <2>3, <2>4, <2>5, IpKeeps
  <1> QED
    BY <1>1, <1>2

(* send: the operation takes the next number, which no earlier one has. *)
LEMMA BeginStep ==
    ASSUME IpInv, NEW id \in {"initiate", "close", "pdu"}, Begin(id)
    PROVE  IpInv'
  <1>0. /\ DOMAIN server = {"asked", "requests", "publishes"} /\ server.asked \subseteq AskedSet
        /\ server.requests \in 0 .. MaxRequests /\ ip.next \in 0 .. SequenceModulus - 1
    BY DEF IpInv, IpType
  <1>1. /\ op = Idle /\ ip.usable /\ server.requests < MaxRequests
        /\ op' = [at |-> "write", id |-> id, seq |-> ip.next, unmatched |-> 0,
                  request |-> server.requests + 1]
        /\ server' = [server EXCEPT !.requests = @ + 1]
        /\ UNCHANGED <<ip, inbound, inHeader, outcome>>
    BY DEF Begin
  <1>2. /\ DOMAIN server' = DOMAIN server /\ server'.asked = server.asked
        /\ server'.requests = server.requests + 1
    BY <1>0, <1>1
  <1>3. op' \in Operation /\ op'.at = "write" /\ op'.seq = ip.next
    BY <1>0, <1>1, IpLimits DEF Operation
  <1>4. IpType'
    BY <1>0, <1>1, <1>2, <1>3, IpLimits DEF IpInv, IpType
  <1>5. SequenceInv'
    <2>1. Used' = Used /\ Mail' = Mail /\ Used <= server.requests
      BY <1>1 DEF Used, Mail, IpInv, SequenceInv
    <2>2. ip.next = Used + 1 /\ Used < server'.requests
      BY <1>0, <1>1, <1>2, <2>1, IpLimits DEF Used
    <2>3. Used' <= server'.requests /\ Used' < server'.requests
      BY <1>0, <1>2, <2>1, <2>2, IpLimits DEF Used
    <2>4. \A p \in server'.asked \cup Mail' : p.seq \in 1 .. Used'
      BY <1>2, <2>1 DEF IpInv, SequenceInv
    <2> QED
      BY <1>1, <1>3, <2>1, <2>2, <2>3, <2>4 DEF SequenceInv
  <1>6. FrameInv' /\ outcome'.foreign = 0
    <2>1. op.at # "read" /\ op'.at # "read"
      BY <1>1, <1>3 DEF Idle
    <2> QED
      BY <1>1, <2>1 DEF IpInv, FrameInv
  <1> QED
    BY <1>4, <1>5, <1>6 DEF IpInv

LEMMA WriteStep ==
    ASSUME IpInv, Write
    PROVE  IpInv'
  <1>0. /\ DOMAIN server = {"asked", "requests", "publishes"} /\ server.asked \subseteq AskedSet
        /\ server.requests \in 0 .. MaxRequests /\ ip.next \in 0 .. SequenceModulus - 1
        /\ DOMAIN ip = {"next", "open", "usable", "published"}
    BY DEF IpInv, IpType
  <1>1. /\ op.at = "write" /\ op' = [op EXCEPT !.at = "read"]
        /\ ip' = [ip EXCEPT !.next = (@ + 1) % SequenceModulus]
        /\ server' = [server EXCEPT !.asked = @ \union {Asked}]
        /\ UNCHANGED <<inbound, inHeader, outcome>>
    BY DEF Write
  <1>2. op \in Operation
    BY <1>1 DEF IpInv, IpType, Idle
  <1>3. op' \in Operation /\ op'.at = "read" /\ op'.seq = op.seq /\ op'.request = op.request
    BY <1>1, <1>2 DEF Operation
  <1>4. Asked \in AskedSet /\ Asked.seq = op.seq /\ Asked.request = op.request
    BY <1>2 DEF Asked, AskedSet, Operation
  <1>5. /\ DOMAIN server' = DOMAIN server /\ server'.asked = server.asked \cup {Asked}
        /\ server'.requests = server.requests
    BY <1>0, <1>1
  <1>6. /\ DOMAIN ip' = DOMAIN ip /\ ip'.next = (ip.next + 1) % SequenceModulus
        /\ ip'.usable = ip.usable
    BY <1>0, <1>1
  <1>7. ip.next = Used + 1 /\ Used < server.requests /\ op.seq = Used + 1
    BY <1>1 DEF IpInv, SequenceInv
  <1>8. Used' = Used + 1 /\ Used \in Nat
    <2>1. Used \in Nat /\ ip.next # 0
      BY <1>0, <1>7, IpLimits DEF Used
    <2>2. CASE ip.next = SequenceModulus - 1
      <3>1. ip'.next = 0
        BY <1>6, <2>2, IpLimits
      <3> QED
        BY <1>7, <2>1, <2>2, <3>1, IpLimits DEF Used
    <2>3. CASE ip.next # SequenceModulus - 1
      <3>1. ip'.next = ip.next + 1 /\ ip'.next # 0
        BY <1>0, <1>6, <2>3, IpLimits
      <3> QED
        BY <1>7, <2>1, <3>1 DEF Used
    <2> QED
      BY <2>2, <2>3
  <1>9. ip'.next \in 0 .. SequenceModulus - 1
    BY <1>0, <1>6, IpLimits
  <1>10. IpType'
    BY <1>0, <1>1, <1>3, <1>4, <1>5, <1>6, <1>9 DEF IpInv, IpType
  <1>11. SequenceInv'
    <2>1. Mail' = Mail /\ \A p \in server.asked \cup Mail : p.seq \in 1 .. Used
      BY <1>1 DEF Mail, IpInv, SequenceInv
    <2>2. \A p \in server.asked \cup Mail : p.seq \in 1 .. Used' /\ p.seq # op.seq
      BY <1>7, <1>8, <2>1
    <2>3. op.seq \in 1 .. Used' /\ Used' <= server'.requests
      BY <1>0, <1>5, <1>7, <1>8
    <2> QED
      BY <1>3, <1>4, <1>5, <2>1, <2>2, <2>3 DEF SequenceInv
  <1>12. FrameInv' /\ outcome'.foreign = 0
    <2>1. op # Idle
      BY <1>1 DEF Idle
    <2> QED
      BY <1>1, <1>3, <1>6, <2>1 DEF IpInv, FrameInv
  <1> QED
    BY <1>10, <1>11, <1>12 DEF IpInv

(* An operation ends, however it does. *)
LEMMA OpEndKeeps ==
    ASSUME IpInv, op' = Idle, UNCHANGED server,
           DOMAIN ip' = DOMAIN ip, ip'.next = ip.next,
           inbound' \in Seq(PacketSet), Mail' \subseteq Mail, inHeader' = FALSE,
           DOMAIN outcome' = DOMAIN outcome, outcome'.foreign = outcome.foreign,
           ip'.usable => ~outcome'.cut
    PROVE  IpInv'
  <1>0. op'.at = "idle"
    BY DEF Idle
  <1>1. IpType'
    BY DEF IpInv, IpType
  <1>2. Used' = Used
    BY DEF Used
  <1>3. SequenceInv'
    BY <1>0, <1>2 DEF IpInv, SequenceInv
  <1>4. FrameInv' /\ outcome'.foreign = 0
    BY <1>0 DEF IpInv, FrameInv
  <1> QED
    BY <1>1, <1>3, <1>4 DEF IpInv

LEMMA RetainStep ==
    ASSUME IpInv, NEW packet, Retain(packet)
    PROVE  /\ DOMAIN ip' = DOMAIN ip /\ ip'.next = ip.next /\ ip'.usable = ip.usable
           /\ DOMAIN outcome' = DOMAIN outcome /\ outcome'.cut = outcome.cut
           /\ outcome'.foreign = outcome.foreign
  <1>0. /\ DOMAIN ip = {"next", "open", "usable", "published"}
        /\ DOMAIN outcome = OutcomeField
    BY DEF IpInv, IpType
  <1>1. /\ \/ ip' = ip
           \/ \E q : ip' = [ip EXCEPT !.published = q]
        /\ \E n : outcome' = [outcome EXCEPT !.dropped = n]
    BY DEF Retain
  <1> QED
    BY <1>0, <1>1 DEF OutcomeField

(* receive_unbounded takes a packet off the stream. *)
LEMMA ReadBodyStep ==
    ASSUME IpInv, ReadBody
    PROVE  IpInv'
  <1>0. /\ DOMAIN ip = {"next", "open", "usable", "published"} /\ inbound \in Seq(PacketSet)
        /\ DOMAIN outcome = OutcomeField
    BY DEF IpInv, IpType
  <1>2. op.at = "read" /\ inHeader /\ inHeader' = FALSE /\ inbound' = Tail(inbound) /\ UNCHANGED server
    BY DEF ReadBody
  <1>3. op \in Operation /\ op # Idle
    BY <1>2 DEF IpInv, IpType, Idle
  <1>4. ip.usable /\ ~outcome.cut /\ inbound # <<>>
    BY <1>2, <1>3 DEF IpInv, FrameInv
  <1>1. PICK packet : /\ packet = Head(inbound)
                      /\ \/ TakePublish(packet) \/ TakeUnmatched(packet)
                         \/ TakeFailure(packet) \/ TakeResponse(packet)
    BY <1>4 DEF ReadBody
  <1>5. inbound' \in Seq(PacketSet) /\ packet \in ToSet(inbound) /\ Mail' \subseteq Mail
    BY <1>0, <1>1, <1>2, <1>4, ToSetFacts, HeadTailProperties DEF Mail
  <1>a. ASSUME op' \in Operation, op'.at = "read", op'.seq = op.seq, op'.request = op.request,
               DOMAIN ip' = DOMAIN ip, ip'.next = ip.next, ip'.usable = ip.usable,
               DOMAIN outcome' = DOMAIN outcome, outcome'.cut = outcome.cut,
               outcome'.foreign = outcome.foreign
        PROVE  IpInv'
    <2>1. IpType'
      BY <1>2, <1>5, <1>a DEF IpInv, IpType
    <2>2. Used' = Used
      BY <1>a DEF Used
    <2>3. SequenceInv'
      BY <1>2, <1>5, <1>a, <2>2 DEF IpInv, SequenceInv
    <2>4. FrameInv' /\ outcome'.foreign = 0
      BY <1>2, <1>4, <1>a DEF IpInv, FrameInv
    <2> QED
      BY <2>1, <2>3, <2>4 DEF IpInv
  <1>6. CASE TakePublish(packet)
    <2>1. Retain(packet) /\ op' = op
      BY <1>6 DEF TakePublish
    <2> QED
      BY <1>2, <1>3, <1>a, <2>1, RetainStep
  <1>7. CASE TakeUnmatched(packet)
    <2>1. /\ UNCHANGED <<ip, outcome>>
          /\ op' = Idle \/ op' = [op EXCEPT !.unmatched = @ + 1]
      BY <1>7 DEF TakeUnmatched, OpEnds
    <2>2. CASE op' = Idle
      BY <1>2, <1>4, <1>5, <2>1, <2>2, OpEndKeeps
    <2>3. CASE op' = [op EXCEPT !.unmatched = @ + 1]
      <3>1. op' \in Operation /\ op'.at = "read" /\ op'.seq = op.seq /\ op'.request = op.request
        BY <1>2, <1>3, <2>3 DEF Operation
      <3> QED
        BY <1>a, <2>1, <3>1
    <2> QED
      BY <2>1, <2>2, <2>3
  <1>8. CASE TakeFailure(packet)
    <2>1. op' = Idle /\ UNCHANGED ip /\ \E n : outcome' = [outcome EXCEPT !.refused = n]
      BY <1>8 DEF TakeFailure, OpEnds
    <2>2. /\ DOMAIN outcome' = DOMAIN outcome /\ outcome'.cut = outcome.cut
          /\ outcome'.foreign = outcome.foreign
      BY <1>0, <2>1 DEF OutcomeField
    <2> QED
      BY <1>2, <1>4, <1>5, <2>1, <2>2, OpEndKeeps
  <1>9. CASE TakeResponse(packet)
    <2>1. packet \in Mail /\ packet.seq = op.seq
      BY <1>5, <1>9 DEF TakeResponse, Mail, Matches
    <2>2. packet.request = op.request
      BY <1>2, <2>1 DEF IpInv, SequenceInv
    <2>3. /\ op' = Idle
          /\ \E a, b : ip' = [ip EXCEPT !.open = a, !.published = b]
          /\ \E n : outcome' = [outcome EXCEPT !.foreign = outcome.foreign, !.taken = n]
      BY Zenon, <1>9, <2>2 DEF TakeResponse, OpEnds
    <2>4. DOMAIN ip' = DOMAIN ip /\ ip'.next = ip.next /\ ip'.usable = ip.usable
      BY <1>0, <2>3
    <2>5. /\ DOMAIN outcome' = DOMAIN outcome /\ outcome'.cut = outcome.cut
          /\ outcome'.foreign = outcome.foreign
      BY <1>0, <2>3 DEF OutcomeField
    <2> QED
      BY <1>2, <1>4, <1>5, <2>3, <2>4, <2>5, OpEndKeeps
  <1> QED
    BY <1>1, <1>6, <1>7, <1>8, <1>9

(* The future of an operation is dropped, but not inside a packet. *)
LEMMA CancelStep ==
    ASSUME IpInv, NEW sent \in {"nothing", "part", "all"}, CancelOp(sent), ~outcome'.torn
    PROVE  IpInv'
  <1>0. inbound \in Seq(PacketSet) /\ DOMAIN outcome = OutcomeField
    BY DEF IpInv, IpType
  <1>1. /\ op' = Idle /\ op # Idle /\ inHeader' = FALSE /\ (op.at = "read" => sent = "all")
        /\ UNCHANGED <<ip, inbound>>
        /\ outcome' = [outcome EXCEPT !.cut = @ \/ sent = "part" \/ inHeader,
                                      !.torn = @ \/ (InPacket /\ sent # "nothing")]
        /\ server' = IF op.at = "write" /\ sent = "all"
                     THEN [server EXCEPT !.asked = @ \union {Asked}] ELSE server
    BY DEF CancelOp, OpEnds
  <1>2. /\ DOMAIN outcome' = DOMAIN outcome /\ outcome'.foreign = outcome.foreign
        /\ outcome'.cut <=> outcome.cut \/ sent = "part" \/ inHeader
        /\ ~(InPacket /\ sent # "nothing")
    BY <1>0, <1>1 DEF OutcomeField
  <1>3. op.at \in {"write", "read"} /\ ip.usable /\ ~outcome.cut
    BY <1>1 DEF IpInv, IpType, FrameInv, Operation
  <1>4. ~inHeader /\ sent # "part" /\ server' = server
    <2>1. CASE op.at = "write"
      BY <1>1, <1>2, <2>1 DEF InPacket, IpInv, FrameInv
    <2>2. CASE op.at = "read"
      BY <1>1, <1>2, <2>2 DEF InPacket
    <2> QED
      BY <1>3, <2>1, <2>2
  <1>5. Mail' = Mail /\ ~outcome'.cut
    BY <1>1, <1>2, <1>3, <1>4 DEF Mail
  <1> QED
    BY <1>0, <1>1, <1>2, <1>4, <1>5, OpEndKeeps

(* The inductive step. *)
LEMMA IpInvNext ==
    ASSUME IpInv, [IpNext]_ipVars, ~outcome'.torn
    PROVE  IpInv'
  <1>0. /\ DOMAIN ip = {"next", "open", "usable", "published"} /\ inbound \in Seq(PacketSet)
        /\ DOMAIN outcome = OutcomeField
    BY DEF IpInv, IpType
  <1>1. CASE \/ \E r \in server.asked, k \in {"response", "failure", "broken"} : Answer(r, k)
             \/ \E n \in BodyLengths : PublishPacket(n)
    BY <1>1, ServerStep
  <1>2. CASE (\E id \in {"initiate", "close", "pdu"} : CallSession(id)) \/ ChannelSend
    <2>1. PICK id \in {"initiate", "close", "pdu"} : Begin(id)
      BY <1>2 DEF CallSession, ChannelSend
    <2> QED
      BY <2>1, BeginStep
  <1>3. CASE Write
    BY <1>3, WriteStep
  <1>4. CASE ReadHeader
    <2>1. /\ UNCHANGED <<ip, op, inbound, server, outcome>> /\ op.at = "read" /\ inbound # <<>>
      BY <1>4 DEF ReadHeader
    <2>2. IpType'
      BY <2>1 DEF IpInv, IpType
    <2>3. Used' = Used /\ Mail' = Mail
      BY <2>1 DEF Used, Mail
    <2>4. SequenceInv'
      BY <2>1, <2>3 DEF IpInv, SequenceInv
    <2>5. FrameInv' /\ outcome'.foreign = 0
      BY <2>1 DEF IpInv, FrameInv
    <2> QED
      BY <2>2, <2>4, <2>5 DEF IpInv
  <1>5. CASE ReadBody
    BY <1>5, ReadBodyStep
  <1>6. CASE FailStream
    <2>1. /\ op' = Idle /\ ip' = [ip EXCEPT !.usable = FALSE] /\ UNCHANGED <<inbound, server>>
          /\ inHeader' = FALSE /\ \E b : outcome' = [outcome EXCEPT !.cut = b]
      BY <1>6 DEF FailStream, OpEnds
    <2>2. DOMAIN ip' = DOMAIN ip /\ ip'.next = ip.next /\ ~ip'.usable
      BY <1>0, <2>1
    <2>3. DOMAIN outcome' = DOMAIN outcome /\ outcome'.foreign = outcome.foreign
      BY <1>0, <2>1 DEF OutcomeField
    <2>4. Mail' = Mail
      BY <2>1 DEF Mail
    <2> QED
      BY <1>0, <2>1, <2>2, <2>3, <2>4, OpEndKeeps
  <1>7. CASE \E sent \in {"nothing", "part", "all"} : CancelOp(sent)
    BY <1>7, CancelStep
  <1>8. CASE TakePublished
    <2>1. /\ UNCHANGED <<op, inbound, inHeader, server>> /\ \E q : ip' = [ip EXCEPT !.published = q]
          /\ \E n : outcome' = [outcome EXCEPT !.taken = n]
      BY <1>8 DEF TakePublished
    <2>2. DOMAIN ip' = DOMAIN ip /\ ip'.next = ip.next /\ ip'.usable = ip.usable
      BY <1>0, <2>1
    <2>3. /\ DOMAIN outcome' = DOMAIN outcome /\ outcome'.cut = outcome.cut
          /\ outcome'.foreign = outcome.foreign
      BY <1>0, <2>1 DEF OutcomeField
    <2>4. Mail' = Mail
      BY <2>1 DEF Mail
    <2> QED
      BY <1>0, <2>1, <2>2, <2>3, <2>4, IpKeeps
  <1>9. CASE \/ ChannelRefuses \/ ChannelClosed \/ ChannelIdle \/ UNCHANGED ipVars
             \/ \E n \in 1 .. Len(pending) :
                  ChannelIdleInput(n) \/ \E matched \in BOOLEAN : ChannelReceive(n, matched)
    <2>1. UNCHANGED <<ip, op, inbound, inHeader, server, outcome>>
      BY <1>9 DEF ChannelRefuses, ChannelClosed, ChannelIdle, ChannelIdleInput, ChannelReceive,
                  ipVars
    <2>2. Mail' = Mail
      BY <2>1 DEF Mail
    <2> QED
      BY <1>0, <2>1, <2>2, IpKeeps
  <1> QED
    BY <1>1, <1>2, <1>3, <1>4, <1>5, <1>6, <1>7, <1>8, <1>9 DEF IpNext

(* A session stays torn. *)
LEMMA TornStays ==
    ASSUME DOMAIN outcome = OutcomeField, [IpNext]_ipVars
    PROVE  DOMAIN outcome' = OutcomeField /\ (outcome.torn => outcome'.torn)
  <1>1. CASE UNCHANGED outcome
    BY <1>1
  <1>2. CASE \E field \in OutcomeField \ {"torn"} : \E v : outcome' = [outcome EXCEPT ![field] = v]
    BY <1>2 DEF OutcomeField
  <1>3. CASE \E v, w : outcome' = [outcome EXCEPT !.foreign = v, !.taken = w]
    BY <1>3 DEF OutcomeField
  <1>4. CASE \E v, w : outcome' = [outcome EXCEPT !.cut = v, !.torn = @ \/ w]
    BY <1>4 DEF OutcomeField
  <1>5. ASSUME NEW packet, \/ TakePublish(packet) \/ TakeUnmatched(packet)
                           \/ TakeFailure(packet) \/ TakeResponse(packet)
        PROVE  \/ UNCHANGED outcome
               \/ \E n : outcome' = [outcome EXCEPT !.dropped = n]
               \/ \E n : outcome' = [outcome EXCEPT !.refused = n]
               \/ \E v, w : outcome' = [outcome EXCEPT !.foreign = v, !.taken = w]
    <2>1. CASE TakePublish(packet)
      BY <2>1, Zenon DEF TakePublish, Retain
    <2>2. CASE TakeUnmatched(packet)
      BY <2>2 DEF TakeUnmatched
    <2>3. CASE TakeFailure(packet)
      BY <2>3, Zenon DEF TakeFailure
    <2>4. CASE TakeResponse(packet)
      BY <2>4, Zenon DEF TakeResponse
    <2> QED
      BY <1>5, <2>1, <2>2, <2>3, <2>4, Zenon
  <1>6. CASE ReadBody
    <2>1. PICK packet : \/ TakePublish(packet) \/ TakeUnmatched(packet)
                        \/ TakeFailure(packet) \/ TakeResponse(packet)
      BY <1>6, Zenon DEF ReadBody
    <2> QED
      BY <1>1, <1>2, <1>3, <1>5, <2>1, Zenon DEF OutcomeField
  <1>7. CASE FailStream
    BY <1>2, <1>7 DEF FailStream, OutcomeField
  <1>8. CASE \E sent \in {"nothing", "part", "all"} : CancelOp(sent)
    BY <1>4, <1>8, Zenon DEF CancelOp
  <1>9. CASE TakePublished
    BY <1>2, <1>9 DEF TakePublished, OutcomeField
  <1>10. CASE \/ \E r \in server.asked, k \in {"response", "failure", "broken"} : Answer(r, k)
              \/ \E n \in BodyLengths : PublishPacket(n)
              \/ \E id \in {"initiate", "close", "pdu"} : CallSession(id)
              \/ ChannelSend \/ Write \/ ReadHeader
    BY <1>1, <1>10 DEF Answer, PublishPacket, CallSession, ChannelSend, Begin, Write, ReadHeader
  <1>11. CASE \/ ChannelRefuses \/ ChannelClosed \/ ChannelIdle \/ UNCHANGED ipVars
              \/ \E n \in 1 .. Len(pending) :
                   ChannelIdleInput(n) \/ \E matched \in BOOLEAN : ChannelReceive(n, matched)
    BY <1>1, <1>11 DEF ChannelRefuses, ChannelClosed, ChannelIdle, ChannelIdleInput,
                       ChannelReceive, ipVars
  <1> QED
    BY <1>6, <1>7, <1>8, <1>9, <1>10, <1>11 DEF IpNext

LEMMA IpInvariants == IpSpec => []IpUntilTorn
  <1>1. IpInit => IpUntilTorn
    BY IpInvInit DEF IpUntilTorn, IpInv, IpType
  <1>2. IpUntilTorn /\ [IpNext]_ipVars => IpUntilTorn'
    BY IpInvNext, TornStays DEF IpUntilTorn
  <1> QED
    BY <1>1, <1>2, PTL DEF IpSpec

(* IpSession: until a future is dropped inside a packet, no request is        *)
(* answered with the response to another one, with late, foreign, broken and  *)
(* published packets in between and requests that end at any point of a       *)
(* packet, for any number of requests below the modulus of the sequence       *)
(* number and any limits.                                                     *)
THEOREM IpReplyIsOwn == IpSpec => []ReplyIsOwn
  <1>1. IpUntilTorn => ReplyIsOwn
    BY DEF IpUntilTorn, IpInv, ReplyIsOwn
  <1> QED
    BY <1>1, IpInvariants, PTL

-----------------------------------------------------------------------------
(* Transfer: a source in numbered blocks. *)

(* Where block n begins, and what it carries. *)
Cut(n) == n * sender.size
EndOf(n) == IF Cut(n) + sender.size > Len(source) THEN Len(source) ELSE Cut(n) + sender.size
BlockOf(n) == [sequence |-> n, last |-> EndOf(n) = Len(source),
               data |-> SubSeq(source, Cut(n) + 1, EndOf(n))]

(* The numbers of the blocks that were sent. *)
Sent == IF sender.complete THEN 0 .. sender.sequence ELSE 0 .. sender.sequence - 1

TransferType ==
    /\ source \in Seq(Byte)
    /\ sender \in [size : Nat \ {0}, offset : Nat, sequence : Nat, complete : BOOLEAN]
    /\ receiver \in [bytes : Seq(Byte), maximum : Nat, next : Nat, complete : BOOLEAN]

(* The numbers suffice; the sender stands at the beginning of a block, and    *)
(* what it sent are the blocks before, of which only the last says so.        *)
SenderInv ==
    /\ Len(source) <= SequenceSpace * sender.size
    /\ ~sender.complete => /\ sender.offset = Cut(sender.sequence)
                           /\ sender.offset <= Len(source)
    /\ \A n \in Sent : \E b \in carried : b.sequence = n
    /\ \A b \in carried :
         /\ b.sequence \in Sent /\ b = BlockOf(b.sequence)
         /\ b.last <=> sender.complete /\ b.sequence = sender.sequence

(* The receiver holds the blocks before the one it waits for. *)
ReceiverInv ==
    /\ Len(receiver.bytes) <= receiver.maximum
    /\ receiver.complete => receiver.bytes = source
    /\ ~receiver.complete =>
         /\ receiver.next \in 0 .. sender.sequence /\ Cut(receiver.next) <= Len(source)
         /\ receiver.bytes = SubSeq(source, 1, Cut(receiver.next))

TransferInv == TransferType /\ SenderInv /\ ReceiverInv

(* The cuts of a source are size bytes apart. *)
LEMMA Product ==
    ASSUME NEW n \in Nat, NEW k \in Nat
    PROVE  n * k \in Nat /\ (n + 1) * k = n * k + k /\ 0 * k = 0
  OBVIOUS

(* BlockSender::new refuses a source that needs more blocks than numbers. *)
LEMMA EnoughNumbers ==
    ASSUME NEW length \in Nat, NEW size \in Nat \ {0}, NEW space \in Nat,
           (length + size - 1) \div size <= space
    PROVE  length <= space * size
  <1> DEFINE q == (length + size - 1) \div size
  <1>1. q \in Int /\ length + size - 1 < (q + 1) * size
    OBVIOUS
  <1>2. q <= space
    OBVIOUS
  <1> HIDE DEF q
  <1>3. (q + 1) * size = q * size + size /\ q * size \in Int /\ space * size \in Int
    BY <1>1
  <1>4. q * size <= space * size
    BY <1>1, <1>2
  <1> QED
    BY <1>1, <1>3, <1>4

LEMMA TransferInvInit == TransferInit => TransferInv
  <1> SUFFICES ASSUME TransferInit PROVE TransferInv
    OBVIOUS
  <1>1. PICK s \in Sources, size \in BlockSizes, limit \in Limits :
        /\ NewSender(s, size) /\ source = s /\ carried = {}
        /\ sender = [size |-> size, offset |-> 0, sequence |-> 0, complete |-> FALSE]
        /\ receiver = [bytes |-> <<>>, maximum |-> ReceiverLimit(limit), next |-> 0, complete |-> FALSE]
    BY DEF TransferInit
  <1>2. size \in Nat \ {0} /\ s \in Seq(Byte) /\ Len(s) \in Nat /\ ReceiverLimit(limit) \in Nat
    BY <1>1, TransferTypes DEF NewSender, ReceiverLimit
  <1>3. TransferType
    BY <1>1, <1>2 DEF TransferType
  <1>4. Len(s) <= SequenceSpace * size
    <2> DEFINE length == IF Len(s) = 0 THEN 1 ELSE Len(s)
    <2>1. length \in Nat /\ Len(s) <= length /\ (length + size - 1) \div size <= SequenceSpace
      <3>1. (length + size - 1) \div size <= SequenceSpace
        BY <1>1, Zenon DEF NewSender
      <3>2. length \in Nat /\ Len(s) <= length
        BY <1>2
      <3> QED
        BY <3>1, <3>2
    <2> HIDE DEF length
    <2>2. length <= SequenceSpace * size /\ SequenceSpace * size \in Int
      BY <1>2, <2>1, TransferTypes, EnoughNumbers
    <2> QED
      BY <1>2, <2>1, <2>2
  <1>5. sender.sequence = 0 /\ ~sender.complete /\ sender.offset = 0 /\ sender.size = size
        /\ receiver.next = 0 /\ ~receiver.complete /\ receiver.bytes = <<>>
        /\ receiver.maximum = ReceiverLimit(limit)
    BY <1>1
  <1>6. Cut(0) = 0
    BY <1>2, <1>5 DEF Cut
  <1>7. SenderInv
    BY <1>1, <1>2, <1>4, <1>5, <1>6 DEF SenderInv, Sent
  <1>8. ReceiverInv
    <2>1. SubSeq(source, 1, 0) = <<>>
      BY SubSeqEmpty
    <2> QED
      BY <1>1, <1>2, <1>5, <1>6, <2>1 DEF ReceiverInv
  <1> QED
    BY <1>3, <1>7, <1>8 DEF TransferInv

LEMMA NextBlockStep ==
    ASSUME TransferInv, NextBlock
    PROVE  TransferInv'
  <1> DEFINE n == sender.sequence
             end == EndOf(n)
             last == end = Len(source)
  <1>0. /\ source \in Seq(Byte) /\ Len(source) \in Nat /\ sender.size \in Nat \ {0}
        /\ n \in Nat /\ ~sender.complete /\ sender.offset \in Nat
        /\ sender.offset = Cut(n) /\ sender.offset <= Len(source)
        /\ sender \in [size : Nat \ {0}, offset : Nat, sequence : Nat, complete : BOOLEAN]
        /\ SequenceSpace \in Nat
    BY TransferTypes DEF TransferInv, TransferType, SenderInv, NextBlock
  <1>1. Cut(n) \in Nat /\ Cut(n + 1) = Cut(n) + sender.size /\ end \in Cut(n) .. Len(source)
        /\ (~last => end = Cut(n + 1))
    <2>1. Cut(n) \in Nat /\ Cut(n + 1) = Cut(n) + sender.size
      BY <1>0, Product DEF Cut
    <2> QED
      BY <1>0, <2>1 DEF EndOf
  <1>2. ~(~last /\ n + 1 = SequenceSpace)
    <2> SUFFICES ASSUME ~last, n + 1 = SequenceSpace PROVE FALSE
      OBVIOUS
    <2>1. Len(source) <= Cut(n + 1)
      BY DEF TransferInv, SenderInv, Cut
    <2>2. Cut(n + 1) <= Len(source) /\ Cut(n + 1) # Len(source)
      BY <1>0, <1>1
    <2> QED
      BY <1>0, <1>1, <2>1, <2>2
  <1>3. /\ UNCHANGED <<source, receiver>>
        /\ sender' = [sender EXCEPT !.offset = end, !.complete = last,
                        !.sequence = IF last \/ n + 1 = SequenceSpace THEN n ELSE n + 1]
        /\ carried' = IF ~last /\ n + 1 = SequenceSpace THEN carried
                      ELSE carried \union {[sequence |-> n, last |-> last,
                                            data |-> SubSeq(source, sender.offset + 1, end)]}
    BY <1>0 DEF NextBlock, EndOf
  <1>4. carried' = carried \union {BlockOf(n)}
    BY <1>0, <1>2, <1>3 DEF BlockOf
  <1>5. /\ sender'.size = sender.size /\ sender'.offset = end /\ sender'.complete = last
        /\ sender'.sequence = IF last THEN n ELSE n + 1
        /\ sender' \in [size : Nat \ {0}, offset : Nat, sequence : Nat, complete : BOOLEAN]
    <2> DEFINE next == IF last \/ n + 1 = SequenceSpace THEN n ELSE n + 1
               one == [sender EXCEPT !.offset = end]
               two == [one EXCEPT !.complete = last]
               three == [two EXCEPT !.sequence = next]
    <2>1. sender' = three
      BY <1>3
    <2>2. next = IF last THEN n ELSE n + 1
      BY <1>2
    <2>3. next \in Nat /\ end \in Nat /\ last \in BOOLEAN
      BY <1>0, <1>1
    <2> HIDE DEF next, end, last
    <2>4. /\ three.size = sender.size /\ three.offset = end /\ three.complete = last
          /\ three.sequence = next
          /\ three \in [size : Nat \ {0}, offset : Nat, sequence : Nat, complete : BOOLEAN]
      BY <1>0, <2>3
    <2> QED
      BY <2>1, <2>2, <2>4 DEF last, end
  <1> HIDE DEF end, last
  <1>6. /\ \A m : Cut(m)' = Cut(m) /\ EndOf(m)' = EndOf(m) /\ BlockOf(m)' = BlockOf(m)
        /\ Len(source)' = Len(source)
    BY <1>3, <1>5 DEF Cut, EndOf, BlockOf
  <1>7. BlockOf(n).sequence = n /\ BlockOf(n).last = last
    BY DEF BlockOf, last, end
  <1>8. Sent' = Sent \cup {n} /\ Sent = 0 .. n - 1
    BY <1>0, <1>5 DEF Sent
  <1>9. TransferType'
    BY <1>3, <1>5 DEF TransferInv, TransferType
  <1>10. SenderInv'
    <2>1. (Len(source) <= SequenceSpace * sender.size)'
      BY <1>5, <1>6 DEF TransferInv, SenderInv
    <2>2. ASSUME ~sender'.complete
          PROVE  (sender.offset = Cut(sender.sequence) /\ sender.offset <= Len(source))'
      <3>1. ~last /\ sender'.sequence = n + 1 /\ sender'.offset = end
        BY <1>5, <2>2
      <3>2. Cut(sender.sequence)' = Cut(n + 1)
        BY <1>5, <3>1 DEF Cut
      <3>3. end = Cut(n + 1) /\ end <= Len(source)
        BY <1>0, <1>1, <3>1
      <3> QED
        BY <1>6, <3>1, <3>2, <3>3
    <2>3. (\A m \in Sent : \E b \in carried : b.sequence = m)'
      BY <1>4, <1>7, <1>8 DEF TransferInv, SenderInv
    <2>4. ASSUME NEW b \in carried'
          PROVE  /\ b.sequence \in Sent' /\ b = BlockOf(b.sequence)'
                 /\ b.last <=> sender'.complete /\ b.sequence = sender'.sequence
      <3>1. CASE b \in carried
        <4>1. b.sequence \in 0 .. n - 1 /\ b = BlockOf(b.sequence) /\ ~b.last
          BY <1>0, <1>8, <3>1 DEF TransferInv, SenderInv
        <4>2. sender'.complete => b.sequence # sender'.sequence
          BY <1>0, <1>5, <4>1
        <4> QED
          BY <1>6, <1>8, <4>1, <4>2
      <3>2. CASE b = BlockOf(n)
        <4>1. b.sequence = n /\ b.last = last
          BY <1>7, <3>2
        <4>2. (sender'.complete /\ n = sender'.sequence) <=> last
          BY <1>0, <1>5
        <4> QED
          BY <1>6, <1>8, <3>2, <4>1, <4>2
      <3> QED
        BY <1>4, <3>1, <3>2
    <2> QED
      BY <2>1, <2>2, <2>3, <2>4, Zenon DEF SenderInv
  <1>11. ReceiverInv'
    <2>1. 0 .. sender.sequence \subseteq 0 .. sender'.sequence
      BY <1>0, <1>5
    <2> QED
      BY <1>3, <1>6, <2>1 DEF TransferInv, ReceiverInv
  <1> QED
    BY <1>9, <1>10, <1>11 DEF TransferInv

LEMMA AcceptStep ==
    ASSUME TransferInv, NEW b \in carried, Accept(b)
    PROVE  TransferInv'
  <1> DEFINE n == receiver.next
             end == EndOf(n)
  <1>0. /\ source \in Seq(Byte) /\ Len(source) \in Nat /\ sender.size \in Nat \ {0}
        /\ n \in Nat /\ sender.sequence \in Nat /\ ~receiver.complete
        /\ receiver \in [bytes : Seq(Byte), maximum : Nat, next : Nat, complete : BOOLEAN]
        /\ SequenceSpace \in Nat
        /\ Cut(n) <= Len(source) /\ receiver.bytes = SubSeq(source, 1, Cut(n))
    BY TransferTypes DEF TransferInv, TransferType, ReceiverInv, Accept
  <1>1. /\ b.sequence = n /\ (b.last <=> end = Len(source))
        /\ b.data = SubSeq(source, Cut(n) + 1, end) /\ b.last \in BOOLEAN
        /\ n \in Sent /\ (b.last <=> sender.complete /\ n = sender.sequence)
    <2>1. /\ b.sequence = n /\ n \in Sent /\ b = BlockOf(n)
          /\ (b.last <=> sender.complete /\ n = sender.sequence)
      BY DEF Accept, TransferInv, SenderInv
    <2> QED
      BY <2>1 DEF BlockOf
  <1>2. Cut(n) \in Nat /\ Cut(n + 1) = Cut(n) + sender.size /\ end \in Cut(n) .. Len(source)
        /\ (end # Len(source) => end = Cut(n + 1))
    <2>1. Cut(n) \in Nat /\ Cut(n + 1) = Cut(n) + sender.size
      BY <1>0, Product DEF Cut
    <2> QED
      BY <1>0, <2>1 DEF EndOf
  <1>3. ~b.last => n + 1 # SequenceSpace
    <2> SUFFICES ASSUME ~b.last, n + 1 = SequenceSpace PROVE FALSE
      OBVIOUS
    <2>1. Len(source) <= Cut(n + 1)
      BY DEF TransferInv, SenderInv, Cut
    <2>2. Cut(n + 1) <= Len(source) /\ Cut(n + 1) # Len(source)
      BY <1>0, <1>1, <1>2
    <2> QED
      BY <1>0, <1>2, <2>1, <2>2
  <1>4. receiver.bytes \o b.data = SubSeq(source, 1, end)
    <2> HIDE DEF end
    <2>1. 1 \in 1 .. Len(source) + 1 /\ Cut(n) \in 1 - 1 .. Len(source) /\ end \in Cut(n) .. Len(source)
      BY <1>0, <1>2
    <2>2. SubSeq(source, 1, Cut(n)) \o SubSeq(source, Cut(n) + 1, end) = SubSeq(source, 1, end)
      BY <1>0, <2>1, ConcatAdjacentSubSeq
    <2> QED
      BY <1>0, <1>1, <2>2
  <1>5. SubSeq(source, 1, end) \in Seq(Byte) /\ b.last \in BOOLEAN
    <2>1. \A i \in 1 .. end : source[i] \in Byte
      BY <1>0, <1>2, ElementOfSeq
    <2>2. SubSeq(source, 1, end) \in Seq(Byte)
      BY <1>0, <1>2, <2>1, SubSeqProperties
    <2> QED
      BY <1>1, <2>2
  <1> HIDE DEF end
  <1>6. /\ receiver'.bytes = SubSeq(source, 1, end) /\ receiver'.complete = b.last
        /\ receiver'.next = IF b.last THEN n ELSE n + 1
        /\ receiver'.maximum = receiver.maximum
        /\ receiver' \in [bytes : Seq(Byte), maximum : Nat, next : Nat, complete : BOOLEAN]
    <2> DEFINE next == IF b.last \/ n + 1 = SequenceSpace THEN n ELSE n + 1
               all == receiver.bytes \o b.data
               one == [receiver EXCEPT !.bytes = all]
               two == [one EXCEPT !.complete = b.last]
               three == [two EXCEPT !.next = next]
    <2>1. receiver' = three
      BY DEF Accept
    <2>2. next = (IF b.last THEN n ELSE n + 1) /\ next \in Nat
      BY <1>0, <1>3
    <2>3. all = SubSeq(source, 1, end) /\ all \in Seq(Byte)
      BY <1>4, <1>5
    <2> HIDE DEF next, all
    <2>4. /\ three.bytes = all /\ three.complete = b.last /\ three.next = next
          /\ three.maximum = receiver.maximum
          /\ three \in [bytes : Seq(Byte), maximum : Nat, next : Nat, complete : BOOLEAN]
      BY <1>0, <1>5, <2>2, <2>3
    <2> QED
      BY <2>1, <2>2, <2>3, <2>4
  <1>7. UNCHANGED <<source, sender, carried>> /\ Len(receiver.bytes) + Len(b.data) <= receiver.maximum
    BY Zenon DEF Accept
  <1>8. TransferType'
    BY <1>6, <1>7 DEF TransferInv, TransferType
  <1>9. SenderInv'
    BY <1>7 DEF TransferInv, SenderInv, Sent, BlockOf, EndOf, Cut
  <1>10. ReceiverInv'
    <2>1. Len(receiver'.bytes) <= receiver'.maximum
      <3>1. Len(SubSeq(source, 1, end)) = end /\ Len(receiver.bytes) = Cut(n)
            /\ Len(b.data) = end - Cut(n)
        <4>1. \A i \in 1 .. end : source[i] \in Byte
          BY <1>0, <1>2, ElementOfSeq
        <4>2. /\ Len(SubSeq(source, 1, end)) = IF 1 <= end THEN end - 1 + 1 ELSE 0
              /\ Len(SubSeq(source, 1, Cut(n))) = IF 1 <= Cut(n) THEN Cut(n) - 1 + 1 ELSE 0
              /\ Len(SubSeq(source, Cut(n) + 1, end))
                   = IF Cut(n) + 1 <= end THEN end - (Cut(n) + 1) + 1 ELSE 0
          BY <1>0, <1>2, <4>1, SubSeqProperties
        <4>3. Len(SubSeq(source, 1, end)) = end /\ Len(SubSeq(source, 1, Cut(n))) = Cut(n)
              /\ Len(SubSeq(source, Cut(n) + 1, end)) = end - Cut(n)
          <5> DEFINE x == Len(SubSeq(source, 1, end))
                     y == Len(SubSeq(source, 1, Cut(n)))
                     z == Len(SubSeq(source, Cut(n) + 1, end))
          <5>1. /\ x = (IF 1 <= end THEN end - 1 + 1 ELSE 0)
                /\ y = (IF 1 <= Cut(n) THEN Cut(n) - 1 + 1 ELSE 0)
                /\ z = (IF Cut(n) + 1 <= end THEN end - (Cut(n) + 1) + 1 ELSE 0)
            BY Zenon, <4>2
          <5> HIDE DEF x, y, z
          <5>2. x = end /\ y = Cut(n) /\ z = end - Cut(n)
            BY <1>0, <1>2, <5>1
          <5> QED
            BY Zenon, <5>2 DEF x, y, z
        <4> QED
          BY <1>0, <1>1, <4>3
      <3> QED
        BY <1>2, <1>6, <1>7, <3>1
    <2>2. CASE b.last
      <3>1. SubSeq(source, 1, end) = source
        BY <1>0, <1>1, <2>2, SubSeqFull
      <3> QED
        BY <1>6, <1>7, <2>1, <2>2, <3>1 DEF ReceiverInv
    <2>3. CASE ~b.last
      <3>1. end = Cut(n + 1) /\ Cut(n + 1) <= Len(source)
        BY <1>0, <1>1, <1>2, <2>3
      <3>2. n + 1 \in 0 .. sender.sequence
        BY <1>0, <1>1, <2>3 DEF Sent
      <3>4. receiver'.next = n + 1 /\ ~receiver'.complete /\ receiver'.bytes = SubSeq(source, 1, Cut(n + 1))
        BY <1>6, <2>3, <3>1
      <3>5. Cut(receiver.next)' = Cut(n + 1)
        BY <1>7, <3>4 DEF Cut
      <3> QED
        BY <1>7, <2>1, <3>1, <3>2, <3>4, <3>5 DEF ReceiverInv
    <2> QED
      BY <2>2, <2>3
  <1> QED
    BY <1>8, <1>9, <1>10 DEF TransferInv

LEMMA TransferInvariants == TransferSpec => []TransferInv
  <1>1. TransferInv /\ [TransferNext]_transferVars => TransferInv'
    <2> SUFFICES ASSUME TransferInv, [TransferNext]_transferVars PROVE TransferInv'
      OBVIOUS
    <2>1. CASE NextBlock
      BY <2>1, NextBlockStep
    <2>2. ASSUME NEW b \in carried, Accept(b) PROVE TransferInv'
      BY <2>2, AcceptStep
    <2>3. CASE UNCHANGED transferVars
      BY <2>3 DEF transferVars, TransferInv, TransferType, SenderInv, ReceiverInv, Sent, BlockOf,
                  EndOf, Cut
    <2> QED
      BY <2>1, <2>2, <2>3 DEF TransferNext
  <1> QED
    BY <1>1, TransferInvInit, PTL DEF TransferSpec

(* BlockSender and BlockReceiver, for every source, block size and limit, up  *)
(* to the last number of the space: a complete transfer is exact, and the     *)
(* block the receiver waits for is never missing once the sender is done.     *)
THEOREM TransferIsExact == TransferSpec => []TransferExact
  <1>1. TransferInv => TransferExact
    <2> SUFFICES ASSUME TransferInv PROVE TransferExact
      OBVIOUS
    <2>0. source \in Seq(Byte) /\ Len(source) \in Nat /\ receiver.bytes \in Seq(Byte)
          /\ ReceiverInv /\ SenderInv /\ receiver.next \in Nat /\ sender.size \in Nat
      BY DEF TransferInv, TransferType
    <2>1. IsPrefix(receiver.bytes, source)
      <3>1. CASE receiver.complete
        BY <2>0, <3>1 DEF ReceiverInv, IsPrefix
      <3>2. CASE ~receiver.complete
        <4>1. PICK k \in 0 .. Len(source) : receiver.bytes = SubSeq(source, 1, k)
          BY <2>0, <3>2, Product DEF ReceiverInv, Cut
        <4>2. \A i \in 1 .. k : source[i] \in Byte
          BY <2>0, ElementOfSeq
        <4>3. Len(receiver.bytes) = IF 1 <= k THEN k - 1 + 1 ELSE 0
          BY <4>1, <4>2, SubSeqProperties
        <4>4. Len(receiver.bytes) = k
          BY <4>3
        <4>5. SubSeq(receiver.bytes, 1, Len(receiver.bytes)) = receiver.bytes
          BY <2>0, SubSeqFull
        <4> QED
          BY <2>0, <4>1, <4>4, <4>5 DEF IsPrefix
      <3> QED
        BY <3>1, <3>2
    <2>2. ASSUME ~receiver.complete, sender.complete
          PROVE  \E b \in carried : b.sequence = receiver.next
      BY <2>0, <2>2 DEF SenderInv, ReceiverInv, Sent
    <2> QED
      BY <2>0, <2>1, <2>2 DEF TransferExact, ReceiverInv
  <1> QED
    BY <1>1, TransferInvariants, PTL
===============================================================================
