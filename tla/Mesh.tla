-------------------------------- MODULE Mesh --------------------------------
(* The WirelessHART manager state (src/src/mesh): admission of devices with  *)
(* a replay window per key (manager.rs, security.rs), the neighbour graph    *)
(* and its routes, and the conflict-free schedule (topology.rs).  Keys and   *)
(* the verifier are external: a join request says whether it authenticates.  *)
EXTENDS Integers, FiniteSets, SequencesExt

CONSTANTS
    MeshDevices,        \* DeviceIds, as numbers: BTreeMap and ordered_pair use their order
    Nicknames,          \* 2^16: short addresses wrap to 0 here
    WindowWidth,             \* 64: width of the replay window
    Counters,           \* security counters of join requests
    Reliabilities,      \* of measured links, in percent
    SuperframeSize,
    MeshBounds          \* bounds: operations of each kind, devices and counters used

ASSUME MeshLimits ==
    /\ MeshDevices \subseteq Int /\ Counters \subseteq Nat /\ Reliabilities \subseteq 0..100
    /\ Nicknames \in Nat \ {0} /\ WindowWidth \in Nat \ {0} /\ SuperframeSize \in Nat \ {0}

VARIABLES
    mesh,       \* MeshManager: keys, replay, nodes, links, adjacency, cells, next_nickname
    accepted,   \* counters accepted from each device under its present key, in order
    left        \* operations the bounds still allow

meshVars == <<mesh, accepted, left>>

Fresh == [initialized |-> FALSE, highest |-> 0, seen |-> {}]

MeshInit ==
    /\ mesh = [keys |-> {}, replay |-> [d \in MeshDevices |-> Fresh],
               nodes |-> <<>>, links |-> <<>>, adjacency |-> <<>>,
               cells |-> <<>>, next_nickname |-> 1]
    /\ accepted = [d \in MeshDevices |-> <<>>]
    /\ left \in MeshBounds

Spend(kind) == left[kind] > 0 /\ left' = [left EXCEPT ![kind] = @ - 1]

-----------------------------------------------------------------------------
(* ReplayWindow::accept; `seen` is the set of the ages of the bits set       *)

AcceptedBy(w, counter) ==
    \/ ~w.initialized \/ counter > w.highest
    \/ w.highest - counter < WindowWidth /\ w.highest - counter \notin w.seen

ShiftAlways(w, counter) ==
    LET shift == IF w.initialized THEN counter - w.highest ELSE 0
    IN [initialized |-> TRUE, highest |-> counter, seen |-> {age + shift : age \in w.seen} \union {0}]

Advanced(w, counter) ==
    IF ~w.initialized THEN [initialized |-> TRUE, highest |-> counter, seen |-> {0}]
    ELSE IF counter > w.highest
    THEN [w EXCEPT !.highest = counter,
                   !.seen = {0} \union {age \in {a + counter - w.highest : a \in w.seen} :
                                          age < WindowWidth}]
    ELSE [w EXCEPT !.seen = @ \union {w.highest - counter}]

-----------------------------------------------------------------------------
(* MeshGraph                                                                 *)

Without(f, d) == [x \in DOMAIN f \ {d} |-> f[x]]
With(f, d, v) == [x \in DOMAIN f \union {d} |-> IF x = d THEN v ELSE f[x]]

upsert_node(g, d, nickname, active) ==
    [g EXCEPT !.nodes = With(@, d, [nickname |-> nickname, active |-> active]),
              !.adjacency = IF d \in DOMAIN @ THEN @ ELSE With(@, d, {})]

\* The removal that forgets the other side of each link.
RemoveOwnSide(g, d) ==
    [g EXCEPT !.nodes = Without(@, d), !.adjacency = Without(@, d),
              !.links = [p \in {q \in DOMAIN @ : d \notin {q[1], q[2]}} |-> @[p]]]

remove_node(g, d) ==
    LET peers == IF d \in DOMAIN g.adjacency THEN g.adjacency[d] ELSE {}
    IN [RemoveOwnSide(g, d) EXCEPT !.adjacency =
          [x \in DOMAIN @ |-> IF x \in peers THEN @[x] \ {d} ELSE @[x]]]

ordered_pair(a, b) == IF a <= b THEN <<a, b>> ELSE <<b, a>>

update_link(g, a, b, reliability) ==
    [g EXCEPT !.links = With(@, ordered_pair(a, b), reliability),
              !.adjacency = [@ EXCEPT ![a] = @ \union {b}, ![b] = @ \union {a}]]

active(g, d) == d \in DOMAIN g.nodes /\ g.nodes[d].active

DeviceOrder == SetToSortSeq(MeshDevices, LAMBDA a, b : a < b)

\* The neighbours reached from `d`, whether they are active or not.
AnyNeighbors(g, d, minimum) ==
    SelectSeq(DeviceOrder, LAMBDA x : /\ x \in g.adjacency[d]
                                      /\ g.links[ordered_pair(d, x)] >= minimum)

neighbors(g, d, minimum) ==
    SelectSeq(AnyNeighbors(g, d, minimum), LAMBDA x : active(g, x))

\* The breadth-first search of route: first in, first out.
RECURSIVE Search(_, _, _, _, _, _)
Search(g, source, destination, minimum, queue, previous) ==
    IF queue = <<>> THEN <<>>
    ELSE LET found == SelectSeq(neighbors(g, Head(queue), minimum),
                                LAMBDA x : x # source /\ x \notin DOMAIN previous)
             previous2 == [x \in DOMAIN previous \union ToSet(found) |->
                             IF x \in DOMAIN previous THEN previous[x] ELSE Head(queue)]
         IN IF destination \in ToSet(found) THEN previous2
            ELSE Search(g, source, destination, minimum, Tail(queue) \o found, previous2)

RECURSIVE reconstruct_route(_, _, _)
reconstruct_route(source, current, previous) ==
    IF current = source THEN <<source>>
    ELSE Append(reconstruct_route(source, previous[current], previous), current)

route(g, source, destination, minimum) ==
    IF ~active(g, source) \/ ~active(g, destination) THEN <<>>
    ELSE IF source = destination THEN <<source>>
    ELSE LET previous == Search(g, source, destination, minimum, <<source>>, <<>>)
         IN IF previous = <<>> THEN <<>> ELSE reconstruct_route(source, destination, previous)

-----------------------------------------------------------------------------
(* Schedule                                                                  *)

Ends(cell) == {cell.source, cell.destination}
SameRadio(a, b) == a.timeslot = b.timeslot /\ a.channel_offset = b.channel_offset

Conflicts(a, b) ==
    \/ a.timeslot = b.timeslot /\ Ends(a) \intersect Ends(b) # {}
    \/ SameRadio(a, b)

Earlier(a, b) ==
    \/ a.timeslot < b.timeslot
    \/ a.timeslot = b.timeslot /\ a.channel_offset < b.channel_offset

remove_device(cells, d) == SelectSeq(cells, LAMBDA c : d \notin Ends(c))

-----------------------------------------------------------------------------
(* MeshManager                                                               *)

\* What replacing or removing a key takes away.
Forget(m, d) ==
    [remove_node(m, d) EXCEPT !.replay[d] = Fresh, !.cells = remove_device(@, d)]

Allow(d) ==
    /\ Spend("keys")
    /\ mesh' = [IF d \in mesh.keys THEN Forget(mesh, d) ELSE mesh EXCEPT !.keys = @ \union {d}]
    /\ accepted' = IF d \in mesh.keys THEN [accepted EXCEPT ![d] = <<>>] ELSE accepted

Revoke(d) ==
    /\ Spend("keys")
    /\ mesh' = [Forget(mesh, d) EXCEPT !.keys = @ \ {d}]
    /\ accepted' = [accepted EXCEPT ![d] = <<>>]

\* The address after this one; 0 when there is none.
NextNickname(n) == IF n + 1 < Nicknames THEN n + 1 ELSE 0

\* join_authenticated and apply_join, for a request of this network that the
\* verifier accepts; every other one leaves the state alone.
Join(d, counter) ==
    /\ Spend("joins")
    /\ d \in mesh.keys
    /\ active(mesh, d) \/ mesh.next_nickname # 0
    /\ AcceptedBy(mesh.replay[d], counter)
    /\ LET m == [mesh EXCEPT !.replay[d] = Advanced(@, counter)] IN
         mesh' = IF active(mesh, d) THEN m
                 ELSE [upsert_node(m, d, m.next_nickname, TRUE)
                         EXCEPT !.next_nickname = NextNickname(@)]
    /\ accepted' = [accepted EXCEPT ![d] = Append(@, counter)]

\* graph_mut: neighbour reports, and a node set inactive or removed.  Nodes
\* with addresses of the application's own choice are left out.
ReportLink(a, b, reliability) ==
    /\ Spend("reports") /\ a # b
    /\ {a, b} \subseteq DOMAIN mesh.nodes
    /\ mesh' = update_link(mesh, a, b, reliability)
    /\ UNCHANGED accepted

Deactivate(d) ==
    /\ Spend("reports") /\ active(mesh, d)
    /\ mesh' = upsert_node(mesh, d, mesh.nodes[d].nickname, FALSE)
    /\ UNCHANGED accepted

RemoveNode(d) ==
    /\ Spend("reports") /\ d \in DOMAIN mesh.nodes
    /\ mesh' = remove_node(mesh, d)
    /\ UNCHANGED accepted

\* schedule_mut().insert: at the place binary_search gives.
InsertCell(cell) ==
    /\ Spend("cells")
    /\ cell.timeslot < SuperframeSize /\ cell.channel_offset <= 15
    /\ cell.source # cell.destination
    /\ \A c \in ToSet(mesh.cells) : ~Conflicts(c, cell)
    /\ LET n == Len(SelectSeq(mesh.cells, LAMBDA c : Earlier(c, cell)))
       IN mesh' = [mesh EXCEPT !.cells = InsertAt(@, n + 1, cell)]
    /\ UNCHANGED accepted

Cells == [timeslot : 0..SuperframeSize, channel_offset : {0, 1, 16},
          source : left.devices, destination : left.devices]

MeshNext ==
    \/ \E d \in left.devices : Allow(d) \/ Revoke(d) \/ Deactivate(d) \/ RemoveNode(d)
    \/ \E d \in left.devices, c \in left.counters : Join(d, c)
    \/ \E a, b \in left.devices, r \in Reliabilities : ReportLink(a, b, r)
    \/ \E cell \in Cells : InsertCell(cell)

-----------------------------------------------------------------------------
(* The bitmap of the replay window stands for the counters accepted under    *)
(* the device's present key: none was accepted twice, the bits are those of  *)
(* the accepted counters young enough, and every older one is refused.       *)
ReplayWindowExact ==
    \A d \in MeshDevices :
        LET w == mesh.replay[d]
            A == ToSet(accepted[d])
        IN /\ Cardinality(A) = Len(accepted[d])
           /\ w.initialized = (A # {})
           /\ w.initialized =>
                /\ w.highest \in A /\ \A c \in A : c <= w.highest
                /\ w.seen = {a \in 0..WindowWidth - 1 : w.highest - a \in A}

(* However keys are replaced, devices revoked, nodes removed and joined      *)
(* again, no two nodes share a short address and none has address 0, as long *)
(* as only joins give addresses (graph_mut would take any); each node lists  *)
(* as neighbours exactly the nodes it has a measured link with, and no link  *)
(* or neighbour outlives its node.  No device is busy twice in a timeslot,   *)
(* no radio cell is used twice, and cells stay in superframe order.          *)
MeshConsistent ==
    LET nodes == DOMAIN mesh.nodes IN
    /\ \A i, j \in DOMAIN mesh.cells : i < j =>
         /\ Earlier(mesh.cells[i], mesh.cells[j])
         /\ mesh.cells[i].timeslot = mesh.cells[j].timeslot =>
              Ends(mesh.cells[i]) \intersect Ends(mesh.cells[j]) = {}
    /\ \A a, b \in nodes : mesh.nodes[a].nickname = mesh.nodes[b].nickname => a = b
    /\ \A a \in nodes : mesh.nodes[a].nickname \in 1..Nicknames - 1
    /\ DOMAIN mesh.adjacency = nodes
    /\ \A a \in nodes :
         mesh.adjacency[a] = {b \in MeshDevices : ordered_pair(a, b) \in DOMAIN mesh.links}
    /\ \A p \in DOMAIN mesh.links : {p[1], p[2]} \subseteq nodes /\ p[1] < p[2]

(* A route that is found is a path of active nodes over links that meet the  *)
(* threshold, and it is as short as any; none is found only when the active  *)
(* nodes reached over such links do not hold the destination.                *)
RoutesMinimal ==
    \A s, d \in DOMAIN mesh.nodes, minimum \in Reliabilities :
        LET Hop(a, b) == /\ active(mesh, a) /\ active(mesh, b) /\ a # b
                         /\ ordered_pair(a, b) \in DOMAIN mesh.links
                         /\ mesh.links[ordered_pair(a, b)] >= minimum
            Within[k \in 0..Cardinality(MeshDevices)] ==
                IF k = 0 THEN {s} \intersect {x \in DOMAIN mesh.nodes : active(mesh, x)}
                ELSE Within[k - 1] \union
                     {b \in DOMAIN mesh.nodes : \E a \in Within[k - 1] : Hop(a, b)}
            r == route(mesh, s, d, minimum)
        IN IF r = <<>> THEN d \notin Within[Cardinality(MeshDevices)]
           ELSE /\ r[1] = s /\ Last(r) = d
                /\ \A i \in 1..Len(r) - 1 : Hop(r[i], r[i + 1])
                /\ Len(r) > 1 => d \notin Within[Len(r) - 2]
=============================================================================
