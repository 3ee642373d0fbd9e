---------------------------- MODULE MCComponents ----------------------------
(* Instances of the components around the link and of its scheduler for TLC. *)
(* They share no state, so one run explores them side by side: `part` says   *)
(* which one moves, and the others keep one initial state.                   *)
EXTENDS Health, BurstHub, HartIp, Decoder, Discovery, Transfer, Procedures, Bench, Mesh,
        Admission, MCProfiles, MCScheduler, TLC

CONSTANTS Parts, read_call, write_call, read_probe, write_probe, p1, p2
VARIABLE part

(* Health: a read, a write, and a probe by a read and by a write. *)
HealthCalls == {read_call, write_call, read_probe, write_probe}
Call4(read, probing) ==
    [read |-> read, probe |-> probing, retries |-> 1, busy |-> 1, polls |-> 1,
     response |-> 2, total |-> 3]
CallPolicy == (read_call :> Call4(TRUE, FALSE)) @@ (write_call :> Call4(FALSE, FALSE))
              @@ (read_probe :> Call4(TRUE, TRUE)) @@ (write_probe :> Call4(FALSE, TRUE))
ShortTimeouts == [minimum |-> 1, maximum |-> 2, margin |-> 0]

(* Decoder: frames with short and long addresses, also torn, corrupted in    *)
(* the delimiter and in the address, and preambles that belong to nothing.   *)
Short(kind, node, payload) ==
    [preambles |-> 1, kind |-> kind, psk |-> FALSE,
     address |-> [long |-> FALSE, primary |-> TRUE, node |-> node],
     expansion |-> <<>>, command |-> 0, payload |-> payload, repair |-> "none"]
LongBurst ==
    [preambles |-> 1, kind |-> "Burst", psk |-> TRUE,
     address |-> [long |-> TRUE, primary |-> FALSE, type |-> 9729, id |-> 131074],
     expansion |-> <<1>>, command |-> 3, payload |-> <<>>, repair |-> "none"]
LineFrames == {Short("Request", 0, <<>>), Short("Response", 1, <<0, 2>>), LongBurst}
LineChunks == {Encode(f) : f \in LineFrames}
              \union {<<255>>, <<2>>, <<0>>, <<255, 2, 0, 0, 6>>, <<255, 18, 128, 0, 0, 130>>,
                      <<255, 2, 133, 0, 0, 130>>}
RepairPolicies == {[delimiter_bit |-> FALSE, source |-> -1], [delimiter_bit |-> TRUE, source |-> 0]}

(* Discovery: two modules, the second behind addresses of its own. *)
TwoModules == <<[module |-> 1, first |-> 0, last |-> 1, shift |-> 0],
                [module |-> 2, first |-> 0, last |-> 2, shift |-> 2]>>
PreambleHints == [a \in {0, 1} |-> IF a = 0 THEN 5 ELSE 30]
SlowAddress == [a \in {2} |-> 7]

(* Transfer: sources from empty to one that needs more numbers than exist. *)
TransferSources == {SubSeq(<<1, 2, 1, 1, 2>>, 1, n) : n \in 0..5}

(* Procedures: two devices differ in type only, two in serial only. *)
ThreeDevices ==
    {[manufacturer |-> 1, type |-> 1, serial |-> 1, revision |-> 5],
     [manufacturer |-> 1, type |-> 2, serial |-> 1, revision |-> 7],
     [manufacturer |-> 1, type |-> 1, serial |-> 2, revision |-> 7]}
TwoPlans == {<<"Codes", "Success">>, <<"Prefix", "Codes", "Success">>}

(* Bench: a fault of every kind, some of them together with an echo. *)
Faults(drop, corrupt, noise, echo, size) ==
    [drop |-> drop, corrupt |-> corrupt, noise |-> noise, echo |-> echo, size |-> size]
Faultless == Faults(FALSE, FALSE, 0, FALSE, 0)
SomeFaults == {Faults(TRUE, FALSE, 0, TRUE, 0), Faults(FALSE, TRUE, 0, FALSE, 0),
               Faults(FALSE, FALSE, 1, TRUE, 2), Faults(FALSE, FALSE, 0, TRUE, 1)}

TwoTraceLimits == {[maximum_records |-> 9, maximum_bytes |-> 9],
                   [maximum_records |-> 4, maximum_bytes |-> 4]}

(* Mesh: many joins of two devices, many links of three, many cells. *)
Bound(keys, joins, reports, cells, devices, counts) ==
    [keys |-> keys, joins |-> joins, reports |-> reports, cells |-> cells,
     devices |-> devices, counters |-> counts]
ThreeBounds ==
    {Bound(3, 4, 1, 0, {1, 2}, 0..3), Bound(3, 3, 3, 0, {1, 2, 3}, {0}),
     Bound(3, 1, 0, 3, {1, 2, 3}, {0})}

(* Admission: a command of each safety, expanded ones, lengths up to the     *)
(* limits; every combinator of policies; configurations at both sides of     *)
(* each limit.                                                               *)
Registry3 == [c \in {0, 6, 40} |->
                IF c = 0 THEN "ReadOnly" ELSE IF c = 6 THEN "IdempotentWrite" ELSE "Action"]
Asks(c, d, e, s) ==
    [command |-> c, data |-> d, first |-> 770, expansion |-> e, retry_safety |-> s]
SomeRequests ==
    {Asks(0, 0, 0, Unknown), Asks(6, 1, 0, "ReadOnly"), Asks(40, 4, 3, "ReadOnly"),
     Asks(768, 253, 0, "ReadOnly"), Asks(768, 254, 0, Unknown), Asks(130, 255, 4, Unknown),
     Asks(31, 1, 0, Unknown), Asks(31, 2, 0, Unknown)}
Leaf(k, c, q) == [kind |-> k, commands |-> c, queue |-> q]
Both(k, left1, right1) == [kind |-> k, left |-> left1, right |-> right1]
SomePolicies ==
    {Leaf("read-only", {}, "none"),
     Both("and", Leaf("retry-safe", {}, "none"), Leaf("deny-list", {6}, "none")),
     Both("or", Leaf("allow-list", {768}, "none"), Leaf("queue-allow-list", {40}, "urgent")),
     Leaf("allow-all", {}, "none")}
SomeRoutings == {[to |-> "urgent", commands |-> {0, 6}], [to |-> "nowhere", commands |-> {40}]}
SomeRetries == {[response_timeout |-> 1, total_timeout |-> 2, retry_delay |-> 0],
                [response_timeout |-> 0, total_timeout |-> 2, retry_delay |-> 0]}
OneConfig(q, size, b, m, n) ==
    [queue_capacity |-> q, read_buffer_size |-> size, buffer_capacity |-> b,
     minimum_preambles |-> m, checksum_source_node |-> n]
SomeConfigs ==
    {OneConfig(1, 64, 268, 5, -1), OneConfig(17, 64, 268, 255, -1), OneConfig(0, 64, 268, 0, 64),
     OneConfig(1, 0, 5000, 0, -1), OneConfig(2, 2000, 0, 255, 64)}

-----------------------------------------------------------------------------
componentVars == <<part, healthVars, hubVars, ipVars, decoderVars, scanVars, transferVars,
                   procedureVars, benchVars, meshVars, admissionVars, profileVars,
                   schedulerVars>>

Only(name, v, S) == part = name \/ v = CHOOSE x \in S : TRUE

Init ==
    /\ part \in Parts
    /\ HealthInit /\ HubInit /\ ScanInit /\ ProfilesInit /\ SchedulerInit
    /\ BenchInit /\ Only("bench", trace.limits, {WithLimits(l) : l \in TraceLimits})
    /\ IpInit /\ Only("ip", user.who, Users)
    /\ DecoderInit /\ Only("decoder", policy, Policies)
    /\ TransferInit /\ Only("transfer", <<source, sender.size, receiver.maximum>>,
                            {<<<<>>, 1, 1>>})
    /\ ProcedureInit /\ Only("procedures", there, {[a \in Polling |-> Nobody]})
                     /\ Only("procedures", task.kind, {"snapshot"})
                     /\ Only("procedures", task.groups, SnapshotGroups)
    /\ MeshInit /\ Only("mesh", left, MeshBounds)
    /\ AdmissionInit /\ Only("admission", settings.policy, LinkPolicies)
                     /\ Only("admission", settings.routing, Routings)
                     /\ Only("admission", settings.config, Configs)

(* Only the component `name` moves. *)
Moves(name) ==
    /\ part = name /\ UNCHANGED part
    /\ name # "health" => UNCHANGED healthVars
    /\ name # "hub" => UNCHANGED hubVars
    /\ name # "ip" => UNCHANGED ipVars
    /\ name # "decoder" => UNCHANGED decoderVars
    /\ name # "discovery" => UNCHANGED scanVars
    /\ name # "transfer" => UNCHANGED transferVars
    /\ name # "procedures" => UNCHANGED procedureVars
    /\ name # "bench" => UNCHANGED benchVars
    /\ name # "mesh" => UNCHANGED meshVars
    /\ name # "admission" => UNCHANGED admissionVars
    /\ name # "profiles" => UNCHANGED profileVars
    /\ name # "scheduler" => UNCHANGED schedulerVars

Next ==
    \/ Moves("health") /\ HealthNext
    \/ Moves("hub") /\ HubNext
    \/ Moves("ip") /\ IpNext
    \/ Moves("decoder") /\ DecoderNext
    \/ Moves("discovery") /\ ScanNext
    \/ Moves("transfer") /\ TransferNext
    \/ Moves("procedures") /\ ProcedureNext
    \/ Moves("bench") /\ BenchNext
    \/ Moves("mesh") /\ MeshNext
    \/ Moves("admission") /\ AdmissionNext
    \/ Moves("profiles") /\ ProfilesNext
    \/ Moves("scheduler") /\ SchedulerNext

Spec == Init /\ [][Next]_componentVars
=============================================================================
