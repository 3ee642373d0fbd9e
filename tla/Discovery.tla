----------------------------- MODULE Discovery -----------------------------
(* Discovery of the devices on a line (src/src/service/discovery.rs) with    *)
(* the line profile it follows (profile.rs).  The link is external: each     *)
(* probe ends with an identity, with a reply that is none, with silence      *)
(* (ResponseTimeout or Deadline), or with another error.  The waits between  *)
(* probes are left out: nothing else happens in the scan while it sleeps.    *)
EXTENDS Integers, FiniteSets, SequencesExt

CONSTANTS
    Modules,            \* sequence of ModuleWindow: [module, first, last, shift]
    LastAddress,        \* 63
    Conservative,       \* discovery_preambles
    Hints,              \* DiscoveryHints: preambles by address, for some addresses
    AddressTimeouts,    \* AddressTimings: response timeout, for some addresses
    FirstResponse, SteadyResponse,
    Passes, TransportRetries,
    Waits, RetryDelay   \* busy_retries + delayed_response_polls, and their delay

VARIABLES
    scan,       \* where discover_validated stands
    probe,      \* the request handed to the link, or NoProbe
    report,     \* DiscoveryReport
    probed      \* history: [pass, address, preambles, retries, result] of each probe

scanVars == <<scan, probe, report, probed>>

NoProbe == [address |-> -1]

-----------------------------------------------------------------------------
(* The profile.                                                              *)

\* shifted_address, over the locals of a window that stay within the range.
Translated(m) ==
    SelectSeq([i \in 1..m.last - m.first + 1 |-> m.first + i - 1 + m.shift],
              LAMBDA a : a \in 0..LastAddress)

\* The addresses in the order of the scan, each with its module.
ScanOrder ==
    FoldLeft(\o, <<>>,
        [i \in DOMAIN Modules |->
            [j \in DOMAIN Translated(Modules[i]) |->
                [address |-> Translated(Modules[i])[j], module |-> Modules[i].module]]])

Targeted == Range(ScanOrder)
Addresses == {t.address : t \in Targeted}

TimingValid == FirstResponse > 0 /\ SteadyResponse > 0

LineProfileValid ==
    /\ Conservative \in 2..40 /\ TimingValid
    /\ Modules # <<>>
    /\ \A i \in DOMAIN Modules :
         /\ Modules[i].first <= Modules[i].last /\ Modules[i].last <= LastAddress
         /\ Translated(Modules[i]) # <<>>
         /\ \A j \in DOMAIN Modules : i # j => Modules[i].module # Modules[j].module
    /\ Cardinality(Addresses) = Len(ScanOrder)

HintsValid == \A a \in DOMAIN Hints : a \in 0..LastAddress /\ Hints[a] \in 2..40

AddressTimingsValid ==
    \A a \in DOMAIN AddressTimeouts : a \in 0..LastAddress /\ AddressTimeouts[a] > 0

ASSUME ProfileValid == LineProfileValid /\ HintsValid /\ AddressTimingsValid /\ Passes > 0

-----------------------------------------------------------------------------
(* One pass: the addresses one by one, each with one probe or two.           *)

ScanInit ==
    /\ scan = [pass |-> 0, todo |-> ScanOrder, visited |-> {}, wake |-> TRUE, at |-> "scanning"]
    /\ probe = NoProbe
    /\ report = [attempts |-> 0, hinted |-> 0, fallbacks |-> 0, passes |-> 0,
                 devices |-> {}, errors |-> 0]
    /\ probed = {}

Identified == {d.address : d \in report.devices}

\* The hint counts in the first pass, where it saves preambles.
Hinted(a) == scan.pass = 0 /\ a \in DOMAIN Hints /\ Hints[a] < Conservative

response_timeout(a, hinted) ==
    IF a \in DOMAIN AddressTimeouts THEN AddressTimeouts[a]
    ELSE IF hinted \/ report.devices # {} THEN SteadyResponse ELSE FirstResponse

\* discovery_retry: a hinted probe has no transport retries; the total covers
\* every attempt allowed.
Probe(target, hinted) ==
    LET retries == IF hinted THEN 0 ELSE TransportRetries
        timeout == response_timeout(target.address, hinted)
    IN [address |-> target.address, module |-> target.module, hinted |-> hinted,
        preambles |-> IF hinted THEN Hints[target.address] ELSE Conservative,
        retries |-> retries, timeout |-> timeout,
        total |-> timeout * (1 + retries + Waits) + RetryDelay * Waits, prefix |-> scan.wake]

SendProbe(target, hinted) ==
    /\ probe' = Probe(target, hinted)
    /\ report' = [report EXCEPT !.attempts = @ + 1, !.hinted = IF hinted THEN @ + 1 ELSE @]
    /\ scan' = [scan EXCEPT !.todo = SelectSeq(@, LAMBDA t : t.address # target.address),
                            !.visited = @ \union {target.address}, !.wake = FALSE]

\* An address identified in an earlier pass is passed over.
SkipIdentified ==
    /\ scan.at = "scanning" /\ probe = NoProbe /\ scan.todo # <<>>
    /\ Head(scan.todo).address \in Identified
    /\ scan' = [scan EXCEPT !.todo = Tail(@), !.visited = @ \union {Head(scan.todo).address}]
    /\ UNCHANGED <<probe, report, probed>>

ProbeNext ==
    /\ scan.at = "scanning" /\ probe = NoProbe /\ scan.todo # <<>>
    /\ Head(scan.todo).address \notin Identified
    /\ SendProbe(Head(scan.todo), Hinted(Head(scan.todo).address))
    /\ UNCHANGED probed

Record(result) ==
    probed' = probed \union
        {[pass |-> scan.pass, address |-> probe.address, preambles |-> probe.preambles,
          retries |-> probe.retries, prefix |-> probe.prefix, result |-> result,
          order |-> report.attempts]}

NoFallback ==
    /\ probe # NoProbe
    /\ Record("silence")
    /\ probe' = NoProbe
    /\ UNCHANGED <<scan, report>>

\* A hinted probe without an answer is repeated at once with the conservative
\* preambles; without one to a conservative probe the scan goes on.
ProbeSilent ==
    /\ probe # NoProbe
    /\ Record("silence")
    /\ IF probe.hinted
       THEN /\ probe' = Probe([address |-> probe.address, module |-> probe.module], FALSE)
            /\ report' = [report EXCEPT !.fallbacks = @ + 1, !.attempts = @ + 1]
            /\ UNCHANGED scan
       ELSE probe' = NoProbe /\ UNCHANGED <<scan, report>>

ProbeIdentified ==
    /\ probe # NoProbe
    /\ Record("identity")
    /\ report' = [report EXCEPT !.devices =
                    @ \union {[address |-> probe.address, module |-> probe.module]}]
    /\ probe' = NoProbe
    /\ UNCHANGED scan

\* An undecodable reply or another error is reported, and the scan goes on.
ProbeFailed(result) ==
    /\ probe # NoProbe
    /\ Record(result)
    /\ report' = [report EXCEPT !.errors = @ + 1]
    /\ probe' = NoProbe
    /\ UNCHANGED scan

EndPass ==
    /\ scan.at = "scanning" /\ probe = NoProbe /\ scan.todo = <<>>
    /\ report' = [report EXCEPT !.passes = scan.pass + 1]
    /\ scan' = IF \/ Cardinality(report.devices) >= Cardinality(scan.visited)
                  \/ scan.pass + 1 = Passes
               THEN [scan EXCEPT !.at = "done"]
               ELSE [scan EXCEPT !.pass = @ + 1, !.todo = ScanOrder, !.visited = {}]
    /\ UNCHANGED <<probe, probed>>

ScanNext ==
    \/ SkipIdentified \/ ProbeNext \/ ProbeSilent \/ ProbeIdentified \/ EndPass
    \/ \E result \in {"undecodable", "error"} : ProbeFailed(result)

-----------------------------------------------------------------------------
(* A finished scan has identified every address, or has asked each address   *)
(* left in every pass: with the conservative preambles and all retries, or   *)
(* with a hinted probe that something other than silence ended.  A hint and  *)
(* an earlier answer on the line never make an address go unasked.  The      *)
(* report adds up at any time: an identified device answered an identity at  *)
(* its own address, once, behind the module that leads there, and was not    *)
(* asked again; attempts are the probes made, a fallback follows each hinted *)
(* probe that met silence; the wake-up prefix went with the first one only.  *)
DiscoveryThorough ==
    LET under == IF probe = NoProbe THEN 0 ELSE 1
        Results(r) == {p \in probed : p.result = r}
    IN /\ report.attempts = Cardinality(probed) + under
       /\ report.devices = {t \in Targeted :
                              \E p \in Results("identity") : p.address = t.address}
       /\ \A p \in Results("identity") : \A q \in probed \ {p} :
             p.address = q.address => q.order < p.order
       /\ report.fallbacks = Cardinality({p \in Results("silence") : p.preambles < Conservative})
       /\ \A p \in probed : p.prefix <=> p.order = 1
       /\ scan.at = "done" => \A a \in Addresses \ Identified :
             /\ report.passes = Passes
             /\ \A pass \in 0..Passes - 1 : \E p \in probed :
                  /\ p.address = a /\ p.pass = pass
                  /\ \/ p.preambles = Conservative /\ p.retries = TransportRetries
                     \/ p.result # "silence"
=============================================================================
