----------------------------- MODULE Procedures -----------------------------
(* What runs several requests on one device or line: a session and its       *)
(* snapshot (src/src/service/session.rs, snapshot.rs), a plan (planner.rs)   *)
(* and the reconciliation of known devices after a reconnection              *)
(* (recovery.rs).  The line is external: devices come, go and are swapped    *)
(* between any two requests, and a request ends with the reply of the device *)
(* it reaches or with an error.                                              *)
EXTENDS Integers, FiniteSets, SequencesExt

CONSTANTS
    Devices,        \* records [manufacturer, type, serial, revision], no two with the
                    \* same type and serial; type is address_device_type
    Polling,        \* polling addresses
    Nobody,         \* no device
    SnapshotGroups, \* sets of groups a snapshot may ask for
    Plans,          \* sequences of expectations: "Success", "Codes", "Prefix"
    MaxSwaps        \* bound: changes of the line

VARIABLES
    there,      \* the device at each polling address
    task,       \* the procedure that runs
    session,    \* DeviceSession: [address, device], or none
    results     \* what the task has collected

procedureVars == <<there, task, session, results>>

NoSession == [address |-> Nobody, device |-> Nobody]

\* The unique address of a device.
Unique(d) == [type |-> d.type, serial |-> d.serial]

ASSUME LineAssumption ==
    /\ Nobody \notin Devices /\ \A d \in Devices : Unique(d) \notin Polling
    /\ Plans \subseteq Seq({"Success", "Codes", "Prefix"})

\* The device a request reaches: by polling address, or by its unique address
\* (type and serial), wherever it is.
Reached(address) ==
    IF address \in Polling THEN there[address]
    ELSE LET present == {a \in Polling : there[a] # Nobody /\ Unique(there[a]) = address}
         IN IF present = {} THEN Nobody ELSE there[CHOOSE a \in present : TRUE]

\* The line changes under the procedures.
Swap(a, d) ==
    /\ task.swaps < MaxSwaps
    /\ d \notin {there[b] : b \in Polling} \ {Nobody}
    /\ there' = [there EXCEPT ![a] = d]
    /\ task' = [task EXCEPT !.swaps = @ + 1]
    /\ UNCHANGED <<session, results>>

-----------------------------------------------------------------------------
(* A session talks to the unique address of the device it identified.        *)

FromPolling(address, d) == [address |-> address, device |-> d]

\* from_identity
FromIdentity(address, d) ==
    [address |-> IF address \in Polling THEN Unique(d) ELSE address, device |-> d]

Identify(a) ==
    /\ task.kind = "snapshot" /\ session = NoSession
    /\ Reached(a) # Nobody
    /\ session' = FromIdentity(a, Reached(a))
    /\ UNCHANGED <<there, task, results>>

\* capture_snapshot: one command after the other, each with its own result.
SnapshotCommands ==
    <<[command |-> 1, group |-> "process"], [command |-> 2, group |-> "process"],
      [command |-> 3, group |-> "process"], [command |-> 13, group |-> "tags"],
      [command |-> 20, group |-> "tags"], [command |-> 48, group |-> "diagnostics"]>>

Supported(c) == c.command # 20 \/ session.device.revision >= 6

Field(state, from) == [state |-> state, from |-> from]

Capture ==
    /\ task.kind = "snapshot" /\ session # NoSession
    /\ Len(results) < Len(SnapshotCommands)
    /\ LET c == SnapshotCommands[Len(results) + 1] IN
         IF c.group \notin task.groups THEN
             results' = Append(results, Field("NotRequested", Nobody))
         ELSE IF ~Supported(c) THEN results' = Append(results, Field("Unsupported", Nobody))
         ELSE \/ /\ Reached(session.address) # Nobody
                 /\ results' = Append(results, Field("Value", Reached(session.address)))
              \/ results' = Append(results, Field("Error", Nobody))
    /\ UNCHANGED <<there, task, session>>

-----------------------------------------------------------------------------
(* Plan::execute.  A reply has a response code, whose high bit marks a       *)
(* communication error, and may begin with the expected data.                *)

\* The response codes a step may list: nothing keeps it from listing one that
\* marks a communication error.
ExpectedCodes == {64, 192}
Replies == [code : {0, 8} \union ExpectedCodes, prefix : BOOLEAN]
ExchangeFailed == [code |-> -1, prefix |-> FALSE]

\* Mutant of Met: any listed code will do.
ListedIsMet(expectation, reply) ==
    /\ reply # ExchangeFailed
    /\ CASE expectation = "Success" -> reply.code = 0
         [] expectation = "Codes" -> reply.code \in ExpectedCodes
         [] expectation = "Prefix" -> reply.code = 0 /\ reply.prefix

Met(expectation, reply) ==
    /\ reply # ExchangeFailed
    /\ CASE expectation = "Success" -> reply.code = 0
         [] expectation = "Codes" -> reply.code < 128 /\ reply.code \in ExpectedCodes
         [] expectation = "Prefix" -> reply.code = 0 /\ reply.prefix

GoesOn(reply) == Met(task.plan[Len(results) + 1], reply) \/ task.continuing

RunStep(reply) ==
    /\ task.kind = "plan" /\ ~task.stopped /\ Len(results) < Len(task.plan)
    /\ results' = Append(results, [reply |-> reply,
                                   met |-> Met(task.plan[Len(results) + 1], reply)])
    /\ task' = [task EXCEPT !.stopped = ~GoesOn(reply)]
    /\ UNCHANGED <<there, session>>

-----------------------------------------------------------------------------
(* reconcile_devices: every known device is asked for its identity again.    *)

same_device(left, right) ==
    left.manufacturer = right.manufacturer /\ left.type = right.type /\ left.serial = right.serial

Reconcile ==
    /\ task.kind = "recovery" /\ Len(results) < Len(task.known)
    /\ LET k == task.known[Len(results) + 1]
           answer == Reached(k.address)
       IN \/ /\ answer # Nobody
             /\ results' = Append(results,
                  [status |-> IF same_device(answer, k.device) THEN "Restored" ELSE "Replaced",
                   from |-> answer])
          \/ results' = Append(results, [status |-> "Unavailable", from |-> Nobody])
    /\ UNCHANGED <<there, task, session>>

-----------------------------------------------------------------------------
NewTask(kind, groups, plan, continuing, known) ==
    [kind |-> kind, groups |-> groups, plan |-> plan, continuing |-> continuing,
     known |-> known, stopped |-> FALSE, swaps |-> 0]

ProcedureInit ==
    /\ there \in {t \in [Polling -> Devices \union {Nobody}] :
                    \A a, b \in Polling : t[a] = t[b] => a = b \/ t[a] = Nobody}
    /\ \/ \E g \in SnapshotGroups : task = NewTask("snapshot", g, <<>>, FALSE, <<>>)
       \/ \E p \in Plans, c \in BOOLEAN : task = NewTask("plan", {}, p, c, <<>>)
       \/ \E a \in Polling : there[a] # Nobody /\
            \E address \in {a, Unique(there[a])} :
              task = NewTask("recovery", {}, <<>>, FALSE,
                             <<[address |-> address, device |-> there[a]]>>)
    /\ session = NoSession
    /\ results = <<>>

ProcedureNext ==
    \/ \E a \in Polling, d \in Devices \union {Nobody} : Swap(a, d)
    \/ \E a \in Polling : Identify(a)
    \/ \E reply \in Replies \union {ExchangeFailed} : RunStep(reply)
    \/ Capture \/ Reconcile

ProcedureSpec == ProcedureInit /\ [][ProcedureNext]_procedureVars

-----------------------------------------------------------------------------
(* All values of a snapshot come from the device the session identified,     *)
(* whatever takes its place at its polling address while the snapshot is     *)
(* collected, and even if the device comes back at another one.              *)
SnapshotOfOneDevice ==
    task.kind = "snapshot" => \A i \in DOMAIN results :
        results[i].state = "Value" => Unique(results[i].from) = Unique(session.device)

(* A plan that does not continue after failure has sent no step after one    *)
(* that failed or missed its expectation: in particular no step after a      *)
(* reply with a communication error.                                         *)
PlanFailsFast ==
    task.kind = "plan" /\ ~task.continuing => \A i \in DOMAIN results :
        (results[i].reply = ExchangeFailed \/ results[i].reply.code >= 128 \/ ~results[i].met)
            => i = Len(results)
=============================================================================
