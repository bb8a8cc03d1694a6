# TEAOMDV in TLA+

A verification project for `src/teaomdv`: TEAOMDV, a trust-enhanced, on-demand,
multipath routing agent for ns-2, derived from AOMDV. Each node runs one agent; a
simulation runs the events of all agents one at a time, in an order the clock, the
radio channel and random jitter decide. What is hard in this program is what can
happen between the events: packets overtake each other, are lost, routes expire,
timers meet late answers, and trust is withdrawn while requests, replies, errors and
alarms are under way.

## 1. Inventory

| part | source | state | operations | interacts with |
|---|---|---|---|---|
| route entry | `teaomdv_rtable.cc/.h`, entry code in `teaomdv.cc` | `rt_seqno`, `rt_advertised_hops`, path list, flag, `rt_highest_seqno_heard`, `rt_error`, precursors | insert, delete, look up, purge paths; `rt_down` | every handler of the agent |
| routing agent | `teaomdv.cc/.h` | routing table, own `seqno` and `bid`, neighbours, id cache, buffer | `recv`, `rt_resolve`, `forward`, `sendRequest/Reply/Error/Pta`, `recvRequest/Reply/Error/Pta`, `rt_purge`, `handle_link_failure`, `nb_delete` | other agents by messages; the interface queue; the application |
| request pacing | `sendRequest` 1600 | `rt_req_timeout`, `rt_req_cnt`, `rt_req_last_ttl`, `rt_last_hop_count` | expanding ring, retries, giving up | buffer, route cache timer |
| broadcast id cache | 289-337, `TEAOMDVBroadcastID` | `bihead`, `count` | insert, get, purge | `recvRequest`, `recvReply` |
| neighbours | 1823-1996, 2085-2225 | `nbhead`, `nb_expire` | hello, probe, insert, delete, purge, RCOM | routing table, interface queue, trust |
| trust | `tap` 134, `set_trust` 2189, `recvRcom` 1925, `teaomdv_rtable.cc` 538-657 | per neighbour `TV`, its counters and two arrays of packets; per path `FPT`, `RPT` | count forwarded packets, combine, recommend | `forward`, `recvRequest`, `recvReply` |
| packet buffer | `teaomdv_rqueue.cc` | linked list of packets with timeouts, limit 64 | enque, deque, deque(dst), find, purge | `rt_resolve`, the flushes, `sendRequest`, `rt_purge` |
| formats, logging, Tcl commands, scripts in `datatest` | | | | not core logic |

The build is the one `teaomdv.h` configures: `TEAOMDV_PACKET_SALVAGING`,
`TEAOMDV_NODE_DISJOINT_PATHS` and `TEAOMDV_EXPANDING_RING_SEARCH` on;
`TEAOMDV_LINK_LAYER_DETECTION` and link-disjoint mode off, so `rt_ll_failed` only
drops its packet, `local_rt_repair` is never called and `RTF_IN_REPAIR` never set.
ns-2 is built with `NDEBUG`: an `assert` stops nothing. `INFINITY` is ns-2's 16383,
`INFINITY2` is 255.

What makes the parts correct:

- route entry: alternates are disjoint; no path is longer than what was advertised;
  the sequence number never goes back; a route that is up has a path.
- agent: the routes of all nodes never form a loop; alternates stay disjoint end to
  end; who loses a route tells those who use it; sequence numbers on loan from a
  destination never exceed what it issued; nothing is sent to a distrusted neighbour;
  no packet is duplicated; discovery ends.
- pacing: no packet waits longer than its searches take; a destination within reach is
  not given up because rings stop short of it; a count of failures does not outlive its
  search.
- id cache: forgetting an id early makes neither loops nor duplicates.
- neighbours: the silent leave in time, those just heard stay, all are reported.
- trust: who forwards is not distrusted, who stops is, each packet counts once.
- buffer: links, ends and length agree; the oldest packet makes room; loops end.

`PROJECT.json` lists the hazards line by line, with the properties that would catch
each.

## 2. Modules

    RtEntry ──────────┬── RouteEntry ──┬── MCRouteEntry
                      │                └── RouteEntryProofs
                      └── Agent ────── Teaomdv ─┬── MCTeaomdv ── MCLoop
                                                ├── TeaomdvRefinement ──> RouteEntry
                                                └── TeaomdvProofs

    MCTeaomdv + TeaomdvRefinement ────── MCRefinement
    TeaomdvProofs + TeaomdvRefinement ── RefinementProofs

    RQueue ──> PacketBuffer          RQueue ──── MCRQueue,    RQueueProofs
                                     Pacing ──── MCPacing,    PacingProofs
                                     Trust ───── MCTrust,     TrustProofs
                                     Neighbors ─ MCNeighbors, NeighborsProofs

(lines are EXTENDS, arrows are refinements; `FoldFacts`, instantiated once for each loop of the
code that is a fold, serves `TeaomdvProofs`, `RefinementProofs`, `PacingProofs` and
`NeighborsProofs`.) The network modules leave time, the limit of
the buffer and the computation of trust open, as choices; the four below take one of these
each and pin it down.

**Routes and the network**

- **`RtEntry`** — one `teaomdv_rt_entry` as a record and the operations on it: the
  path list (`path_insert` appends, `path_delete` removes the first path with that next
  hop), and the part of each handler that touches one entry (`Learn`, `Advertise`,
  `LinkFailure`, `ErrorReceived`, `PtaReceived`, `Purged`). `recvRequest` and `recvReply`
  learn by the same rule, so one `Learn` stands for both.
- **`RouteEntry`** — the abstract specification of an entry: one entry of one node,
  whatever the rest of the world does. Messages have any contents within the bounds, paths
  expire at any time, the trust in any number of next hops fails during a flush. Each action
  is the effect of a whole handler.
- **`Agent`** — one agent as a record, and the routines handlers share: `Forward`, `Flush`,
  `SendRequest`, `ReportErrors`, `LearnReply`. Each maps the agent to the agent after the call;
  what it hands to the link layer collects in the field `out`. The buffer is one queue for each
  destination, because `deque(dst)` and `find(dst)` are all that read it; `ForwardAll` is the
  loop of a flush, of the salvaging in `nb_delete` too, over a list of packets.
- **`Teaomdv`** — the network. One action per handler of a message (`RecvRequest`,
  `RecvReply`, `RecvError`, `RecvPta`, `RecvData`, `RecvHello`), of a timer (`RtPurge`,
  `IdPurge`, `NbPurge`, `SetTrust`) and of the application (`AppSend`), and `Lose`. The
  outcomes of `recvRequest` and `recvReply` are operators of their own, one for each way out
  of the handler.
- **`MCTeaomdv`**, **`MCLoop`**, **`MCRouteEntry`**, **`MCRefinement`** — the networks and bounds
  TLC runs.
- **`TeaomdvRefinement`** — `Teaomdv` implements `RouteEntry`: the mapping of the entry of node
  `self` for node `dest`, two constants that stand for any pair of nodes.

**The packet buffer**

- **`RQueue`** — `teaomdv_rqueue`: `head`, `tail`, `len`, `next` and `ts` are the members
  `head_`, `tail_`, `len_` and the packets' `next_` and `ts_`. The loops of
  `findAgedPacket` and `findPacketWithDst` take one step per packet, with the cursors `p` and
  `prev`; `purge` starts from the head again after each removal, as the code does. `queue` is a
  history variable: the sequence the list is meant to hold.
- **`PacketBuffer`** — what the agent relies on: a sequence from which aged packets vanish before
  `enque` and the `deque`s act, bounded by dropping the oldest. `find` alone does not purge.

**Time, trust, neighbours**

- **`Pacing`** — one source and its destinations: `rt` has the fields `sendRequest` reads, `wait`
  is what is left of `rt_req_timeout`, `answer` an answer under way. `AppSend` is `rt_resolve`,
  `RouteFound` a RREP or RREQ that brings a route up, `RouteLost` any way of losing one.
  Constants are those of `teaomdv.h`, in hundredths of a second.
- **`Trust`** — one node's view of its neighbours. A field of `stat[k]` counts what the code keeps
  in an array: `ok` packets heard being forwarded, `old` and `new` ones not heard yet, which
  `set_trust` will judge (older than 1.5 s) or keep. `set_TV`, `Rate` and the rest are the
  formulas of `teaomdv_rtable.cc`, in thousandths rounded down. `Late` marks the moment 1.5 s
  before `set_trust`. `due` says of which age a neighbour still has RREPs to forward; `balance`,
  `idle` and `crowded` are history variables the properties need.
- **`Neighbors`** — the list `nbhead`, the time each neighbour has left, the timer of `nb_purge`,
  and the loop of `set_trust` that fills RCOMs of `MAX_NB` entries. `Without` is the loop of
  `nb_delete`.

Operators named `X_Something` directly before `X` are deliberate faults of `X`; no
specification uses them. Each is a plausible slip in that code (a dropped test, an
off-by-one, a forgotten assignment) that one of the properties must notice.

### How the state of the network corresponds

`node[n].rt[d]` is the entry for `d` in `n`'s table; an entry not added yet is one
fresh from its constructor (a lookup that fails and an entry that is down take the same
branches). `heard` is `bihead`, `answered` the ids with `count = 1`, `asked` the
destinations with `rt_req_timeout` set, `nb` the neighbour table, `distrusted` the
neighbours with `TV` below the threshold, `pcs` the precursors. `net` is the set of
packets in interface queues and on the air; they arrive in any order, and a broadcast is
one packet per neighbour. Two identical packets in flight are one.

### What is abstracted, and why that is enough

- **Time in `Teaomdv`.** Timers may fire whenever their timeout could have passed; paths and
  broadcast ids may expire at any time; `rt_req_timeout` may or may not have passed. `rt_expire`
  is only ever assigned 0, so an `UP` entry always takes the first branch of `rt_purge`.
- **Trust in `Teaomdv`.** `forward`, `recvRequest` and `recvReply` only take minima and compare
  with the threshold, so a trust value is whether it reaches it. The 0.1 added for an unknown
  neighbour may or may not lift a RREQ over the threshold: both are allowed. Each `forward` of
  data reads the current value.
- **TTL and hop limits** of packets: one that runs out of hops is one that is lost; the networks
  are smaller than any TTL the code uses. `Pacing` has the TTLs of the searches.
- **Answers in `Pacing`.** A search is answered if its TTL reaches the destination, within
  `Latency`, unless it is lost; routes may also come up unasked.
- **Packets in `Trust`** are counts, by age. A data packet has a uid of its own, so hearing it marks
  its entry: one of some age. The RREPs relayed all have uid 0 (`Packet::alloc` at 1732 gives none,
  the assignment at 1753 is commented out), so `tap` (152-162) marks the first entry of
  `ptteaomdv_f`, the oldest, and stops there whether it was ok or not: `FirstHeard`. Frames sent
  again are heard again, so a RREP may be heard at any time. A window is the time between two
  `set_trust`; 1.5 s before its end the packets handed over so far become those it will judge.
- **Probes and opinions** are what the environment makes of them, within the bounds of
  `SurroundingsAssumption` (section 3).
- **The clock during a call** stands still, as in ns-2 it does during an event.
- **Addresses.** Data packets leave their source with `prev_hop_` 0, which `forward` inserts as
  a precursor: the constant `Zero`.
- **Undefined behaviour.** `recvPta` reads `path->lasthop` after the path was freed (2067): the
  value is the old one or `Junk`. `recvRcom` reads `direct_trust` before it was ever set: what is
  computed from it is `Wild`, a value about which nothing is known and which compares either way.
- **A null `path_find()`** that is dereferenced sets `crashed`, after which nothing happens.
- The drop of an untrusted RREP (1136-1143) never fires, because each hop sets both `rp_src` and
  `prev_hop_` to itself; the model has no such branch.

## 3. Runs

Every passing run finishes without error; every violation run finds its property violated.

| run | instance | checks |
|---|---|---|
| `route_entry` | one entry, 3 addresses, hop counts to 3, seqno to 3 | `TypeOK PathsDisjoint UpHasPath HopsWithinAdvertised SeqnoMonotone AdvertisedFinal` |
| `faults` | diamond; any two of losses, lost neighbours, expiries, revisions of trust; 3 packets | `TypeOK HopsWithinDiameter RouteOrder SeqnoIssued UpSeqnoEven NoDanglingRoute PrecursorsTold OneCopy ErrorsFit DistrustedAvoided` |
| `race` | triangle; two sources at once, any order, a broadcast id forgotten | `LoopFree AdvertisedFinal` |
| `discovery` | five nodes, ways that could cross; nothing lost, fair | `EndToEndDisjoint AllDelivered` |
| `refinement` | diamond; two of lost neighbours, expiries, revisions of trust | `InBounds EntryImplementsRouteEntry` |
| `buffer` | 4 packets for 2 destinations, limit 3, timeout 1, clock to 2; fair | `TypeOK ListRepresents OldestFirst ImplementsPacketBuffer CallsReturn` |
| `pacing` | the constants of `teaomdv.h` in quarters of a second; a destination that moves between 1 and 6 hops and one out of reach; limit 2; 3 lost answers | `TypeOK WaitBounded NoneWaitForUp ReachableNotGivenUp SearchesAfresh` |
| `trust` | 2 neighbours, 2 windows, 4 packets, 1 RCOM; arrays of 4 and 2 | `TypeOK HonestTrusted DropperDistrusted EachJudgedOnce` |
| `neighbors` | 3 neighbours, `HELLO_INTERVAL` of 4 steps, 2 to a RCOM | `TypeOK GoneInTime HeardIsKept AllReported` |
| `loop` | diamond; PTA after lost neighbours | `LoopFree` is violated |
| `request_crash` | chain; trust and loss | `NoCrash` is violated |
| `alarm_lost` | two relays in a row; trust | `PrecursorsTold` is violated |

What they show, in short: the core AOMDV machinery (learning, advertising, errors, expiry,
salvaging) keeps its order over lost, reordered and crossing messages; searches, windows of trust,
deadlines and the buffer do what they are for at their limits. The alarms added for trust do not fit
the sequence numbers: an alarm that raises the number of a route that stays up, and a flush that
downs a route its caller still uses, break rules the rest relies on.

**Conditions inside properties.** `Happened` is the set of kinds of events so far. `RouteOrder`,
`SeqnoIssued`, `UpSeqnoEven` and `HopsWithinDiameter` speak of behaviours without a revision of trust, because after a PTA
they are false (finding 1). `NoDanglingRoute` speaks of behaviours in which only neighbours were
lost: a lost RERR is not repeated, and nobody is told of an expiry. `PrecursorsTold` speaks of
behaviours with revisions of trust only. Each condition is met by many states of `faults`; its
mutants show it.

**Three properties of small networks only.** The theorems of section 6 hold for every value of the
constants. Three invariants do not, and the runs state them for the instances they name:
`PrecursorsTold` fails where an alarm has two hops to travel (`alarm_lost`, finding 3).
`NoDanglingRoute` fails in the diamond without `Calm`: a neighbour is lost while a RREP is on its
way, the RERR overtakes the RREP, and the RREP brings back a route nobody will report again (18
steps). `EndToEndDisjoint` fails without `Calm` in the network of `discovery` with a second flow and
one neighbour lost during the discovery (10 steps).

**Bounds.** `MaxBid` bounds the requests of a node, `MaxData` the packets, `MaxEvents` what the
environment does, `MaxSeqno` and `MaxHops` the contents of messages in `RouteEntry` (where
`SeqnoBound` stops the increments of `rt_purge` and `handle_link_failure`); in `refinement`, 4 and 1
are the least with which `InBounds` holds. Two requests per
source are enough for a fresh discovery to meet leftovers of an old one, two events for a fault
during the recovery from a fault, three paths fill an entry, and hop counts to 3 make paths both
within and beyond `LenDiff`. In `buffer` a limit of 3 gives a removal at the head, in the middle and
at the tail, and a fourth packet finds it full; the clock lets packets of three ages meet. In
`pacing` one destination is found by the first ring, once six hops away only by later ones; three
answers lost are one fewer than it takes to be given up, and two slots let one destination push out
the packets of the other. Time has no bound there: every counter returns. In `trust` the numbers
of packets a rate is computed from (5 and 2 in the code) are 2 and 2, so that counts are carried over
for being too few. Four packets are then two handed over early and two late in one window: enough for
the first to be idle, and the second too by what is carried into it, though nothing is handed to a
neighbour distrusted in between (`idle` reaches 2 with a `TV` that is a number). The arrays (1000 and
100) hold 4 and 2: RREPs find theirs full, and two of them share one. The proofs have no such bounds. In `neighbors`
three in RCOMs of two give a full and a partial one.

**Assumptions of `Trust`.** The weights of `set_TV` make `HonestTrusted` true only in tolerable
surroundings, and `SurroundingsAssumption` names them: the threshold 0.70; more than half of a
window's 10 to 12 probes are heard, at most all (`Delivery`); nobody recommends by more than 1; and
of an honest neighbour others report at least 0.8. 512 thousandths is the least delivery ratio for
which the theorem below holds, so probes lost to collisions alone can condemn an honest node.
`HonestTrusted` also excepts the `crowded`: given two RREPs while both are in `ptteaomdv_f`, an honest
neighbour has one of them judged as not forwarded (section 5). Without this exception the same run
violates it, in two windows; the run reaches neighbours with RREPs that are not crowded as well.

**`Calm`.** In runs over more events, the application and the timers act only when nothing is in
flight: the times between them (0.5 s to 2 s) are far longer than a packet's. Packets in flight
still arrive in every order, are lost one by one, and are caught in the interface queue by
`NbPurge`. `race` does without it.

**Deadlock** is not checked in the network runs: the traffic is finite and the network may fall
silent. The other runs check it.

**Symmetry** is used over the addresses of one entry, the relays of a diamond and the three
neighbours, which the configurations do not tell apart; never with liveness.

**Fairness.** `discovery`: weak fairness of `Receive(n)`, because ns-2 runs every event
it has scheduled, and of `RtPurge(n)`, because `TEAOMDVRouteCacheTimer` reschedules itself every
half second. Nothing is assumed of the application, of loss, or of which packet arrives first.
`buffer`: weak fairness of `Body`, the steps of a call under way, because a C++ function runs until
it returns; nothing is assumed of the callers.

**`loop`** is reached after a long history; `MCLoop` narrows TLC's search with an action
constraint. It only leaves behaviours out, so what it finds is a behaviour of `Teaomdv`.

## 4. Refinements

`TeaomdvRefinement` maps `node[self].rt[dest]` to the variable of `RouteEntry`, forgetting trust,
precursors and `rt_error` (`Bare`). A step of the network, with every call its handler makes (learn,
flush, advertise; fail, salvage), must be one step of the entry or a stutter:
`EntryImplementsRouteEntry`. That is what makes the atomic actions of `RouteEntry` honest. `RouteEntry`
bounds what messages carry, so the mapping holds while those in flight are `InBounds`. The run checks
that they are, and the refinement for one entry; `EntryRefined` proves it for any network, entry and
bounds, so that what `RouteEntryProofs` says of one entry holds of every entry of every agent.

`RQueue` implements `PacketBuffer` with `queue` as itself, `deadline` as `ts` and `answer` as
`result`: a removal of `purge` is an `Expire`, the last step of a call is the operation, the rounds of
the loops stutter. The run checks it on a small instance, `ListImplementsBuffer` proves it. It is
why `Pacing` may hold its waiting packets in a plain sequence, and `Agent`, which never reads across
destinations and has no limit, in one for each destination.

## 5. Findings

1. **A routing loop** (`loop`): `recvPta` 2055 sets `rt_seqno = rt_highest_seqno_heard` although
   other paths keep the route up. Their numbers are older than the entry now claims; with a
   neighbour's route lost at the old number, that neighbour accepts this node as fresher while it
   still routes through the neighbour. The same assignment can give a live route an odd number,
   left in `rt_highest_seqno_heard` by an earlier RERR, against the assertions at 478, 1007, 1385
   and 2046.
2. **A null dereference** (`request_crash`): a packet flushed inside `recvRequest` or `recvReply`
   may empty the route that 1100 or 1300 then dereferences.
3. **A lost alarm** (`alarm_lost`): the use after free at 2067. With the old value read, the
   precursors are told.

Seen while modelling, described here and not run:

- `forward` 1507-1511 downs a route without a new sequence number (the assignment is commented out),
  so a RREP at that number meets a `DOWN` entry, against the assertion at 1191, and its path is
  inserted in an entry that stays down.
- The flush loops (958-962, 1249-1253) dequeue packets after the route has gone down and neither
  forward nor drop them; the buffer's own purge frees packets without `drop()` as well.
- `rt_purge`'s branch for an `UP` route whose `rt_expire` has passed but whose paths have not (655)
  is dead, `rt_expire` being always 0.
- *Pacing.* The count is compared before it is incremented, so four network-wide searches pass
  (`rt_req_cnt > RREQ_RETRIES`), against the comments at 1625-1627 and `teaomdv.h` 146-149;
  `rt_last_hop_count` starts at 255, so the first search for a destination is network-wide and
  `TTL_START` is never used; after giving up, `rt_req_last_ttl` stays 30; no packet comes near the
  buffer's 30 s timeout (`WaitBounded` is 6 s); and a packet pushed out of the full buffer leaves
  `rt_req_cnt` behind, which `SearchesAfresh` excepts by `pushed`.
- *Buffer.* All packets get the same timeout, so the aged ones are a prefix (`OldestFirst`) and the
  branches of `purge` for the middle and the tail are never taken.
- *Trust.* `TV` can exceed 1 (1.05, `MaxTV`); a distrusted neighbour recovers after windows without
  traffic, because a rate of too few packets counts as 0.9; of the RREPs of an honest neighbour in
  `ptteaomdv_f` together, only the first is ever marked (`tap` 157, all having uid 0), the rest are
  judged as not forwarded by 597-599 of `teaomdv_rtable.cc`, and with few probes heard its `TV`
  falls below 0.70, against what the comment at 154 says of a packet heard; `direct_trust` is read uninitialised by a
  RCOM that arrives before the first `set_trust`, and what it spoils stays in `TV` (the exception
  `Wild`); `black_list` is never used; packets beyond the arrays are forwarded uncounted.
- *Neighbours.* A probe grants 2 s where a hello grants 9 (comment at `teaomdv_rtable.h` 56), and so
  shortens the life of a neighbour; the comment at 2170 says 1.5 `HELLO_INTERVAL` where the timer uses
  1; probes do not insert neighbours, and hellos are only sent with an active route; deleting and
  inserting a neighbour forgets its distrust; at exactly a multiple of `MAX_NB` neighbours `set_trust`
  leaks the RCOM it has begun.

## 6. Proofs

All with TLAPS, for every value of the constants that satisfies the named assumptions of the
modules (`RtEntryAssumption`, `RouteEntryAssumption`, `AgentAssumption`, `TeaomdvAssumption`,
`RQueueAssumption`, `PacingAssumption`, `NeighborsAssumption`, `TrustAssumption`,
`SurroundingsAssumption`).

**`RouteEntryProofs`** — every set of addresses, every `MaxPaths >= 1`, `LenDiff`, `MaxSeqno` and
`MaxHops < 255`:

| theorem | statement |
|---|---|
| `EntryHeld` | `Spec => []Held(rt)` |
| `TypeCorrect` | `Spec => []TypeOK` |
| `PathsStayDisjoint` | `Spec => []PathsDisjoint` |
| `UpAlwaysHasPath` | `Spec => []UpHasPath` |
| `AdvertisedBoundsHops` | `Spec => []HopsWithinAdvertised` |
| `SeqnoNeverGoesBack` | `Spec => SeqnoMonotone` |
| `AdvertisedIsFinal` | `Spec => AdvertisedFinal` |

*The invariant.* That a new path is within the advertised count follows from the guard only if the
advertised count is at least the maximum of the paths when it is set, which needs types and the
meaning of `INFINITY`; that `rt_down` restores `UpHasPath` needs the other conjuncts at the moment
between the deletion and the call. So `Held(e)` conjoins the type, the disjointness, the bound on the
hop counts and "up implies a path", and `Core(e)`, the same without the last conjunct, is what holds
in the middle of a handler. *The argument.* Lemmas about lists come first: appending a disjoint path,
removing one, dropping a prefix and keeping a subsequence all yield lists whose paths are among the
old ones, in order. `Later(e, r)` relates an entry to one a handler may leave: a larger sequence
number, or the same with the advertised count kept; it is transitive, so a handler that learns, loses
trust and advertises is the composition of three lemmas. `NextHeld` has one case per action.

**`RQueueProofs`** — any packets and addresses, any limit, timeout and length of time:
`ListHeld` (`[]IInv`), `TypeCorrect`, `ListAlwaysRepresents`, `OldestAlwaysFirst`, and
`ListImplementsBuffer` (`Spec => ImplementsPacketBuffer`).

*The invariant.* `ListRepresents` is not inductive alone: `prev` must precede `p` for `Unlink` to
relink the right packet. `Cursors` says that both are at some position `k` of the queue with nothing
the loop looks for before it, `Purged` that after the purge nothing aged is left, `Apart` that the
packet to be queued is not queued, `Ahead` that no deadline is later than that of a packet queued
now, which is what keeps `OldestFirst`. *The argument.* `RemovalKeepsList` does the list surgery
once, for `remove_head` and the three places `Unlink` may hit; each step lemma proves the invariant
and the matching step of `PacketBuffer` together.

**`TeaomdvProofs`, `RefinementProofs`** — any finite set of nodes, any links, any traffic within any bounds:

| theorem | statement |
|---|---|
| `InvHeld` | `Spec => []Inv` |
| `TypeCorrect` | `Spec => []TypeOK` |
| `EvenWhenUp` | `Spec => []UpSeqnoEven` |
| `NumberIssued` | `Spec => []SeqnoIssued` |
| `OrderAlongRoutes` | `Spec => []RouteOrder` |
| `NoLoop` | `Spec => [](NoAlarm => LoopFree)` |
| `FewHops` | `Spec => []HopsWithinDiameter` |
| `NoDataToDistrusted` | `Spec => DistrustedAvoided` |
| `OnePlace` | `Spec => []OneCopy` |
| `EntryRefined` | `Spec /\ []InBounds => EntryImplementsRouteEntry` |
| `ErrorsFitAlways` | `Spec => []ErrorsFit` |
| `AdvertisedStays` | `Spec /\ []InBounds => AdvertisedFinal` |

*The invariant* is `Inv == Typed /\ (NoAlarm => ClearNetwork)`. `NoAlarm`, no trust value revised so
far, is the condition finding 1 imposes: after a PTA the conclusions are false. `RouteOrder` is not
inductive alone, because a route is learned from a message, and what the message states was true of
its sender when it was sent. `ClearNetwork` therefore says the same of entries and of packets:
`Clear`, that an entry that is up carries an even number and no path longer than it advertises, and
one that is down an odd number (or 0) and no paths; `Ordered`, that each next hop is the destination
or `Ahead`: it has the number, or a newer one, with a smaller hop count advertised; and `Offer`, that
the sender of a RREQ or RREP in flight still is what the message says, or has become better. This
holds because an entry only ever gets better in that order: a route that goes down takes the next odd
number, which is ahead of the even one. *The argument.* The first part of `TeaomdvProofs` shows for each routine that
`Good` agents stay so, whoever calls it: `Follows(e, r, offers)` says how an entry may change (paths kept at
the same number, or taken from the offers), `Fares(n, w, v)` how an agent may. Both compose, so
`forward`, the flush loop, the salvaging loop and `sendRequest` are proved once, and each handler of
`Teaomdv` is a chain of them. `GoodStep` then shows that a handler that leaves a `Good` agent
preserves `Inv` for the whole network. `NoLoop` follows from `RouteOrder` in the present state: in a set
of nodes that would forward among themselves take the newest number, and of the nodes that have it
the smallest advertised count; a next hop of that node would be nearer still. `FewHops` needs a
count besides: `Ranked` says that a path of *h* hops is held only where *h* nodes are `Closer` to
the destination, so hop counts are bounded by the number of nodes. This is what makes the eight bits
of a hop count enough.

*`OnePlace`* has an invariant of its own, `Once`: no packet number is both buffered and in flight,
in two buffers, twice in one, or delivered and anywhere else. `OneCopy` counts packets and
speaks of no handler's middle, where a packet is out of the buffer and not yet on the link; so
`Single(w)` says of an agent that what it `Keeps` in the buffer and what it `Sends` are all
different, and `Conserves(w, v)` that a routine leaves a single agent single and makes up no packet.
Every routine conserves, and `OnceStep` composes what a handler conserves with what it receives. Here
alarms and revisions of trust are included: `OneCopy` has no condition.

*`EntryRefined`* (`RefinementProofs`): of each handler it must be shown not only what an entry may become but that one
action of `RouteEntry` does it. *The invariant* is `Inv /\ Regular`: no agent has a route to itself,
no route that is up and no RREQ or RREP has number 0, and every packet is buffered under its own
destination. Without it a RREP could be learned at a number `RouteEntry` excludes, a RREQ could teach
its own source a route, and a flush could touch two entries. *The argument.* The first lemmas show
that `Bare` commutes with the operators of `RtEntry`, lists of paths included. `Shed(b, j)` is an entry after
`forward` has given up *j* paths; shedding composes (`ShedsTwice`), so a whole flush, or the packets
salvaged by `nb_delete`, come to one `Shed` of one entry, whatever their number. `EntryStep` is the
disjunction of the actions of `RouteEntry` in these terms; `Conforms(n, w)` says that agent `w` is
neat and each entry one `EntryStep` from what it was, and `ConformStep` that this is all the network
needs. Each handler is then a chain of lemmas: `TakesIn` (a path learned and flushed along),
`Advertised`, `ReplyRelayedConforms` and so on. What is learned may be advertised only if a path is
left, which is the test of the null pointer (finding 2) turned into a disjunct. The lemmas `Same...`
say that the operators of the instance `Abstract` are those of `RtEntry`.

*`ErrorsFitAlways`* follows from `Regular`: no RERR names its sender, so it names fewer destinations
than there are nodes, and `TEAOMDV_MAX_ERRORS` entries are enough for 101 nodes. *`AdvertisedStays`*
follows from `EntryStep`: what a handler does to an entry, composed, leaves the advertised count. The
hypothesis `[]InBounds` comes with `EntryStep`; `MaxSeqno` is any number and
`MaxHops` any up to 254, the eight bits of a hop count.

**`PacingProofs`** — any destinations and reachabilities, any constants of `teaomdv.h` that satisfy
`PacingAssumption`: `InvHeld` (`[]Inv`), `TypeCorrect`, `NoneLeftBehind` (`[]NoneWaitForUp`),
`FreshSearches` (`[]SearchesAfresh`), `NotTooEarly` (`[]ReachableNotGivenUp`) and `NotTooLate`
(`[]WaitBounded`).

*The invariant.* A bound on the age of a packet must hold of every state of its search.
`Deadline(e, age, t)` says that there are *k* more periods of `rt_purge` and *j* more rings such
that the age, the time to the next period, the periods, the rings and the network-wide searches left
together stay within `MaxWait`; each step moves an amount from one term to another. `Entry` relates
timeout, TTL and count of a destination, and `Answered` an answer under way to the timeout it races
and the count to the answers lost, from which `NotTooEarly` follows. `OnClock` keeps all times on the
grid of the clock. The attempt to prove `WaitBounded` with the bound first used, 5.5 s, failed, and rightly: it held
only on the quarter-second clock of the run. The bound is now 6 s, for any clock.

**`NeighborsProofs`** — any number of neighbours, any `HELLO_INTERVAL`, `ALLOWED_HELLO_LOSS` and
`MAX_NB`: `ClocksAgree` (`[]Inv`), `GoneInTimeAlways`, `HeardIsAlwaysKept`, `ListedAlways`
(`[]Listed`), `TypeCorrect`, `AllAreReported` (`Spec => AllReported`).

*The invariants.* `InTime(e, s, t)` relates three clocks: a neighbour with time `e` left was heard at
most a grant ago; one with none left has been silent no longer than a grant and what has passed
since the last purge; and what is left plus the silence is at least one `HELLO_INTERVAL`, the
shortest grant. Every action preserves it for each neighbour on its own. `Listed` says that `nbhead`
names each neighbour with a deadline once; it needs that `Without`, the loop of `nb_delete`, keeps the
others in order. For the RCOMs, `Filled` is the invariant of the loop of `set_trust`: those sent and
the one being filled, joined, are the part of the list done, and no RCOM is empty or over `MAX_NB`.

**`FoldFacts`** — `FoldInvariant`: what holds before a loop and is preserved by each round holds
after it. The library states induction over data for an operator passed as a parameter, which the
installed provers cannot instantiate. Here the operation and the invariant are CONSTANTs of a module,
and each loop of the code (purge, flush, salvage, `sendRequest` for each destination, the RCOMs) is an
INSTANCE of it, with nothing left to instantiate. The module defines the recursive function behind
`FoldLeft` itself (`IsIteration`) and extends as little as it can: every instance repeats what it
extends, and each client shows that its loop is that function.

**`TrustProofs`** — any neighbours, arrays, packets, RCOMs and windows:
`HonestAlwaysTrusted`, `DropperAlwaysDistrusted`, `EachAlwaysJudgedOnce`, `TypeCorrect`.

*The invariant.* `HonestTrusted` depends on the last window's `TV`, on the recommendations collected
and on both arrays, so `Inv` has for each neighbour: `Told`, that the weighted mean of the opinions
is at most 1 and, for an honest one, at least 0.8; `Rated`, that `TV` is at most 1.05, at least 0.70
for an honest one, at most 0.751 after one idle window (`Sunk`) and below 0.70 after two; `Counted`,
that an honest one has every judged packet to its credit and that `balance` is what the array holds;
`Tracked`, of one that is not `crowded`, that it has at most one RREP in the array, still `due` unless
it is ok. The last is what makes `tap` mark the right entry; "honest" in the others means honest and
not `crowded`.
*The argument.* `RateRange` to `ActivityRange` bound the terms of `TV`; for an honest neighbour they
are at least 0.9, 0.8 and 0.4, with a delivery ratio of at least 0.512, which with weights 0.35, 0.1,
0.2, 0.225 and 0.125 gives 0.70 again from 0.70. For an idle one the direct trust is at most 0.2: one
window leaves at most 0.751 of 1.05, and the next less than 0.70. `WindowKept` puts a whole
`set_trust` together for one neighbour.

*Only model-checked:* `PrecursorsTold`, `NoDanglingRoute` and `EndToEndDisjoint`, which are not true
for every value of the constants (section 3); `InBounds` and `RouteEntry`'s bounds, which a run must
choose; and liveness (`AllDelivered`, `CallsReturn`), which is out of the prover's reach.

## 7. Not modelled

- Local repair, link-layer detection, link-disjoint mode and `forwardReply`: not in the build.
- Logging, Tcl commands, packet sizes, and `datatest`: output, set-up and inputs.
- Functions nothing calls (`path_delete_longest`, `path_findMinHop`, `pc_empty` and the like).
- Packet formats only as far as handlers read them.
- Crashes and restarts: an agent keeps nothing and ns-2 never restarts one.
- The array of an RERR: its destinations are a set, and `ErrorsFit` bounds their number. Networks of
  more than 101 nodes could exceed `TEAOMDV_MAX_ERRORS`; the code does not test `DestCount` (486).

## 8. Plan

Done: the entry, the network, both refinements, the buffer, pacing, trust, neighbours and the id
cache; proofs about each of them, the network and its refinement included. Left:

1. A form of `NoDanglingRoute` that is true without `Calm`: which routes a RREP in flight may still
   bring back, and until when.
2. The same for `EndToEndDisjoint`: what must not be lost during a discovery.
3. `PrecursorsTold` for chains of relays, with the use after free at 2067 repaired in the model.
4. A larger network for `NoDanglingRoute`, a chain of relays behind the diamond.
