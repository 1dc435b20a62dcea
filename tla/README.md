# parley, modelled in TLA+

parley pairs people by a code phrase into an end-to-end encrypted group session
that runs through an untrusted relay. This directory models the parts of it whose
correctness depends on the order in which goroutines, connections and messages
interleave, checks them with TLC on small instances, and proves the central
invariants of the relay, of its connections, of the key rotation and of the event
stream with TLAPS for every size of the system.

## The system

| part | source | state | operations |
|---|---|---|---|
| hub: one session on the relay | `relay/hub.go` | slots (`clients`: id, generation, held, out channel, timer), `nextID`, `host`, `evict`, inbox, `done` | join, leave, resume, grace expiry, route, claim host, close; fan-out and eviction inside each |
| connection handler | `relay/relay.go` | id and generation given by the hub, out channel, kick | hello (create, join, resume), read loop, teardown, writer |
| registry and sweeper | `relay/registry.go` | session id to hub, cap | create, get, remove, sweep |
| rate limiter, stats | `relay/ratelimit.go`, `relay/stats.go` | token buckets; counters | allow, evict; snapshot, merge |
| session client | `session/client.go`, `session/handshake.go` | group key, previous keys, pairwise keys, host id, role | handshake with the host, seal and open, rekey after a leave, reconnect, become host |
| mux and control service | `service/mux.go`, `service/ctl.go` | services, sequence numbers, roster, event channel | dispatch, announce, snapshot, elect and migrate, emit, shut down |
| chat | `service/chat/chat.go` | bounded history | say, receive, snapshot, restore |
| wire, crypto, phrase, dashboard | the other packages | none of their own | encoding, primitives, presentation |

A client dials the relay; its handler says hello to the hub of the session (through
the registry), which assigns a participant id. Everything after that travels as
commands into the hub's bounded inbox and as frames out of it through one bounded
channel per connection. Inside the frames the clients run their own protocol: the
host hands the group key to each joiner, rotates it when somebody leaves, and is
replaced by an elected survivor when it leaves itself.

### What is hard about it

- A hub is one goroutine, but everything around it is not: handlers, grace timers and
  the sweeper put commands into its inbox in any order, and each command may be stale
  by the time it is read. Generations on leaves and grace expiries tell a stale one.
- A dropped participant keeps its slot for a grace window. Its reconnect may overtake
  its own leave, race its expiry, or come while the slot is still live.
- Fan-out never blocks. A receiver that is full is evicted, its eviction is itself
  fanned out, and that may evict more.
- A session can end from four places while hellos, resumes, a sweep and a stats
  request are on their way to it.
- The group key is handed out and replaced through the same links that carry frames
  sealed under the old and the new key, while members join, leave, are evicted or are
  briefly away.
- A mux shuts its event stream down while other goroutines are in the middle of a send
  on it, and may be rebound to a new connection before the old routing goroutine is gone.
- When the host leaves, every survivor elects a successor alone, from its own copy of a
  roster only the host prunes, on two goroutines that see the same frames at different times.
- A late joiner gets history as a snapshot and as live lines, in either order, from a
  host that broadcasts a line before it records it.
- A connection has goroutines on two machines that must all end, also on a link that
  dies without a sign, and a kicked one must still deliver what was queued for it.

`PROJECT.json` lists these hazards one by one, each at the line where it bites.

## Modules

| module | models | state and actions against the code |
|---|---|---|
| `RelayHub` | `hub.run` and its handlers, `hello`, `readLoop`, teardown, grace timers | One action per command (`HandleJoin`, `HandleLeave`, `HandleGraceExpired`, `HandleResume`, `HandleClaimHost`, `Route`, `HandleClose`), each taking the head of `inbox`, and `DrainEvictions`, which runs before the next command. `clients`, `held`, `gen`, `conn` are the fields of `hub.clients`; a held slot has an out channel of its own (`Chan`), as `holdSlot` makes a fresh one. `HelloJoin`, `HelloResume`, `ReadToHub`, `ReadPing`, `HangUp`, `Write` are steps of a connection's handler, `TimerFires` and `TimerSends` the two steps of `time.AfterFunc`. |
| `HubGuarantees` | nothing new: what a session promises as a whole | the client's view of the membership, the refinement mapping, liveness, a documented promise the code does not keep |
| `Membership` | the abstract service of a session | ids unborn, live, away or gone; `RelayHub` implements it |
| `Registry` | `registry.go`, `snapshot` and `Stats` | Each critical section of `registry.mu` is a step; a hub is seen from outside: it reads, stops (closes `done`), then removes its entry. `sweep` and `Stats` come to one hub after the other, in the order of a map, and wait for each. |
| `GroupKeys` | `rekeyAfterLeave`, `handleRekey`, `pushPrevKeyLocked`, both sides of the handshake, seal and open | Links are FIFO queues `up` and `down`. `HandleLeft`, `SendRekey`, `SwapKey` are the three parts of `rekeyAfterLeave`; the host's read loop does nothing else meanwhile. `Seal` and `WriteSealed` are two steps, because the key may change in between. Keys are numbers in the order they were made. |
| `MuxEvents` | `emit`, `shutdown`, `run`, `Rebind`, `SetReconnectable` | Each critical section of `Mux.mu` is a step; the `select` of `emit` is `Send` or `Quit`. |
| `Migration` | `maybeMigrate`, `electSuccessor`, `BecomeHost`, `RotateForMigration`, `assumeHost`, `ClaimHost`, `RekeyWithNewHost`, the `handleRekeyPake*` | A client is its read loop (`ReadLeft` ... `ReadRekey`; `Swap` ends `rekeyAfterLeave`) and its mux goroutine, with `events` between them. `maybeMigrate` is one step per taking of a lock: `MemberLeft`, `RotateForMigration`, `AssumeHost`, `ClaimHost`, or `RekeyWithNewHost`. |
| `Services` | `chat.go`, names, endpoints, push key and snapshots of `ctl.go`, `seal`'s numbers, `handleFrame` | `Say`, `SayWrite`, `SayRecord`, `SayEmit` are the steps of `Service.Say`; one action per frame the mux handles, and `Restore` once for each line of a snapshot, because `record` takes the lock anew and lines of one's own may come in between. `queue` is what is routed to a participant and not handled. |
| `Connection` | `handle`, `readLoop`, `writer`, `drainAndCancel`; `pingLoop` and the client's `readLoop` | The handler's teardown is four steps; the writer's `select` takes any ready case. Time is a tick; a link that is up delays a frame by at most `MaxDelay`. |
| `RateLimit` | `ipLimiter.allow`, `evictLocked` | One action per way through `allow`; `ideal` is a bucket nobody evicts for being idle. |
| `MC*` | | the small sets TLC uses, and symmetry |
| `RelayHubProofs`, `HubGuaranteesProofs`, `ConnectionProofs`, `GroupKeysProofs`, `GroupKeysConverge`, `MuxEventsProofs`, `RegistryProofs`, `RateLimitProofs` | | proofs |

`GroupKeys` assumes of the relay what `RelayHub` establishes: everybody who stays hears
of every departure, in order with the other frames, and frames to somebody without a
slot go nowhere. `Migration` and `Services` assume the same, and one order of frames for
all receivers. What `Connection` calls the hub are the calls `RelayHub` makes into one
client: queue, evict, kick. `RelayHub`'s `Sweep` is the one command `Registry`'s `SweepTells` sends.

Operators such as `LeaveAppliesAnyGen` or `PushedUnbounded`, defined next to a
definition of nearly the same name, are plausible mistakes in that definition. They
are used nowhere; substituting one must break the property `PROJECT.json` names, which
shows that the property depends on what the code does there.

## Runs

State counts are distinct states. The type invariants of `RelayHub`, `Connection`,
`Registry`, `MuxEvents` and `RateLimit` are proved only (below), that of `GroupKeys` is
proved and checked, those of `Migration` and `Services` are checked.

| run | checks | instance | result |
|---|---|---|---|
| `hub_session` | `LiveConnOwnsSlot`, `NoOrphanSlot`, `HeldHasTimer`, `HelloLeads`, `MembershipViewExact`, `ImplementsMembership`, `HeldResolves`, `HelloAnsweredWhileOpen`, `HoldKept` | creator and 2 connections, 2 places, 3 ids, out channels of 2, inbox of 2, grace, with fairness | holds, 266k states |
| `hub_evictions` | `EvictionsPending`, `MembershipViewExact`, `OverMeansKicked` | 3 places, inbox of 1, no grace, one frame, ping, claim or sweep | holds, 976k |
| `registry_sessions` | `HubIsRegistered`, `AgedEnd`, `WaitersReturn` | 2 ids, 2 hubs, inboxes of 1, with fairness | holds, 102k |
| `keys_rotate` | `TypeOK`, `KeyOnItsWay` | 3 members, so up to 4 keys in a ring of 1 | holds, 634k |
| `keys_frames` | `FramesOpen`, `LeaverGetsNoNewKey`, `JoinEnds` | 2 members, one sealed frame, one outage, with fairness | holds, 367k |
| `mux_stream` | `SafeClose`, `OneRouter`, `StreamCloses` | 2 callers, 3 connections, channel of 2, with fairness | holds, 15k |
| `migrate_host` | `TypeOK`, `OneHost`, `PairwiseHaveKey`, `OnlyEarlyIsForgotten`, `HostReplaced`, `JoinServed` | host, observer, member and one who joins; 2 departures; with fairness | holds, 207k |
| `services_late` | `TypeOK`, `ShownOnce`, `CaughtUp`, `AttrsAgree`, `ChatGapIsCrossing` | host, member and one who joins; 2 lines or settings; histories of 1 and 2 | holds, 630k |
| `connection_life` | `HealthyStays`, `FlushedOnKick`, `ClosedDelivered`, `OverEnds` | channel of 2, ping every 2 ticks, deadlines of 5 and 4, latency 0 or 1, with fairness | holds, 176k |
| `rate_limit` | `Lossless`, `WithinRate` | 3 addresses in a map of 2, burst of 2, 8 ticks | holds, 1157k |
| `hub_hello_hangs` | `FindingHelloAnswered` | as `hub_session` | violated |
| `migrate_promoted` | `FindingPromoted` | as `migrate_host` | violated |

### What they show

- **Slots.** Whatever the order of leaves, expiries and resumes, a connection that is
  served owns its slot, a slot that is not held has somebody behind it, a held one has
  its expiry pending, and the end of a session reaches every handler. A hold lasts until
  its own timer has gone off or the participant is evicted: an expiry left over from an
  earlier outage ends nothing.
- **Membership.** What a client was sent and what is queued for it always add up to the
  participants that are there, through cascades of evictions. The two exceptions the
  property names are described below.
- **Registry.** An id leads to the one live hub of that session. Removing by id after
  `done` is closed is safe because the id stays taken until then. Sweeps and stats end.
- **Keys.** Whoever stays will read, from what is on its way to it, every key in turn up
  to the host's, each before the first frame the host sealed under it. What is read
  under a key the reader was given opens, within the reach of the ring. Nobody is given
  a key made after the host learnt of their departure.
- **Mux.** The stream is closed once, after the last sender, even if nobody reads it;
  one goroutine at a time calls services, through drops and rebinds.
- **Migration.** There are never two hosts, although nobody votes, with the exception
  described below. Whoever a host knows has its key or will read it next, however a
  rotation for a departure and one for a promotion cross. The only survivor a new host forgets is one whose request it read
  before it had rotated. If only the host leaves, everybody that has adopted a
  roster ends up following one successor, who is host; a joiner that was keyed and not yet
  announced when the host left has no roster and is left out (below). A joiner
  is served by the host it was told of, if that one stays.
- **Services.** A line of somebody else is shown once, live or from a snapshot, while
  it is in the history. A late joiner ends up with every line and everybody's
  attributes. Gaps in the chat's numbers among those present mean two lines at once.
- **Connections.** A silent but healthy connection is not given up by either end. What
  was queued before a kick is written, and a SessionClosed arrives as such. `handle`
  returns after a kick, both read loops return on a dead link, and the heartbeat ends
  after the client's read loop.
- **Rate limiter.** Dropping idle entries changes no answer as long as a bucket refills
  within `ipIdleTTL`, which the defaults guarantee. `Options` can set a burst and a rate
  for which it does not. Dropping an active entry forgives its address.

Two properties are violated. They are sentences of comments and docs, quoted in
`PROJECT.json`:

1. `FindingHelloAnswered`: `send` can report success for a command nobody will read, and
   the hello waits for ever.
2. `FindingPromoted`: a survivor elects somebody who is gone, and the session has no host.
   It happens in two ways, and TLC reports one of them. A member leaves, then the host,
   before the survivor has read a roster without the member: it elects the member. Or the
   host leaves, the survivor elects a successor, and that one leaves too before the survivor
   could read its announce: the roster still lists the former host, who is elected.

Other behaviour that may surprise, which properties above exempt or assume:

- The creator of a session need not be participant 1: a joiner may be handled first, and
  is then named as host (`MembershipViewExact` exempts the creator).
- A resume into an exactly full backlog drops its newest frame without an eviction
  (`MembershipViewExact` exempts it).
- The departure of the last other member does not rotate the key; the next joiner gets
  the key that member had.
- A rekey frame lost with a connection is not repeated; the resumed member has an old key
  (`Steady` in `KeyOnItsWay` and `FramesOpen`).
- A stream that ends before `SetReconnectable` is called closes the mux for good.
- A promoted host announces its roster under a key no survivor has yet; they drop it and
  keep the old roster until the next announce.
- A survivor whose second PAKE reaches the successor before it is ready is answered with
  the old key or not at all, and does not ask again (`early` in `OnlyEarlyIsForgotten`).
- A joiner that was told a departed host waits until its context ends (`JoinServed`).
- A joiner that was keyed by a host which leaves before announcing it has an empty roster.
  `electSuccessor` gives 0, `maybeMigrate` returns, and the joiner follows the departed host
  for ever (`HostReplaced` is about participants with a roster).
- `RotateForMigration` can run between the two halves of a `rekeyAfterLeave`, which then
  installs its own key over the new one (`straddled`). A survivor that was answered too
  early can so have the key of a host that has forgotten it, and its elections can differ
  from the others'. With five seated participants, two of them observers, and four
  departures that makes two hosts; `OneHost` exempts it. In `migrate_host` rotations
  straddle, but four participants are too few for the second host.
- A snapshot can miss a line the host has broadcast and not yet recorded (`overtaken` in
  `CaughtUp`), and a member cannot blank its endpoint (`AttrsAgree`).
- A sender's Direct frames use up numbers of their service, so the control service
  reports gaps where nothing was lost; `ChatGapIsCrossing` is about the chat only.

### Bounds

`MaxID`, `MaxTraffic`, `MaxSends`, `MaxOutages`, `Conns`, `Hubs`, `Runs`, `MaxLeaves`, `N`,
`MaxActs`, `MaxCap`, `MaxDelay`, `MaxData`, `MaxTime` bound what is otherwise unlimited. Three connections are the fewest with which a resume can
supersede a live slot while another participant watches. An out channel of 2 holds a
hello reply and one notice, so a second notice evicts, and the notice of that eviction
overflows the next. An inbox of 2 lets a resume overtake a leave; with an inbox of 1
senders still wait in any order. With 3 ids a slot's number is seen not to be reused.
Three members give two rotations with a survivor, which overflows a key ring of 1 (the
code's ring is longer; the argument is about its last place). Two emitting callers and
a routing goroutine fill a channel of 2 with one of them parked. In `GroupKeys` the host
makes at most one key per departure, so `MaxKey` bounds nothing the code could do.

The two hub runs split what no single small instance covers in minutes: outages with
two places, cascades and traffic with three. Together in one instance (3 places, inbox
of 2, grace, one frame) the hub has 15.5 million states, on which the invariants of both
runs also hold.

In `migrate_host` two departures are the fewest with which an election can be overtaken
by another departure, and one seated participant is an observer, who is passed over
while there is a member. In `services_late` two lines fill and overflow a history of 1,
and two of one sender can cross. In `connection_life` the deadlines are the shortest that
`ConnectionAssumption` allows for a latency of 1, so each is met with no tick to spare;
the code's proportions are wider. The client sends only pings, which is the hardest on
the deadlines. In `rate_limit` `IdleTTL` is exactly the time a bucket takes to refill, and
8 ticks let an entry be spent, go idle, be dropped and come back.

Deadlock is checked in `mux_stream`. In the others the system may stop: every
connection is used once, every member joins once, a session ends, and a relay whose
sessions are over is idle. That nobody waits for ever is what the liveness properties say.

### Fairness

- `RelayHub`: weak fairness of the hub goroutine, of the timers, and of the teardown
  after a kick (which cancels the handler's context). Clients owe nothing.
- `Registry`: weak fairness of hubs, of the sweeper's tick, of its and `Stats`' loops;
  strong fairness of a send that waits for room in an inbox, because Go queues blocked
  senders first come first served, so refills by others cannot starve one.
- `GroupKeys`: weak fairness of the read loops, of the relay and of the closing of an
  evicted connection. Nobody has to join, leave or send, and outages are exempt.
- `Migration`: weak fairness of the read loops, the mux goroutines and joiners. Nobody
  has to join or leave.
- `Connection`: weak fairness of time, of each goroutine and of the hub reading a leave;
  strong fairness of a ping that fails, because a connection nobody acknowledges does not
  take writes for ever (TCP gives up). Neither a kick nor a close has to happen.
- `Services` and `RateLimit` have safety properties only.
- `MuxEvents`: weak fairness of a goroutine inside `emit` or leaving `run`; nobody has
  to read events.

## Proofs

The theorems hold for every value of the constants that satisfies the assumption named
in the module: any number of connections, ids, hubs, members, addresses, emitters and
any capacity above 0.

| theorem | states | inductive invariant |
|---|---|---|
| `HubTypes` | `TypeOK` of `RelayHub` | `HubInv == TypeOK /\ SlotInv /\ EvictInv /\ ExpiryInv` |
| `StaleCommandsHarmless`, `SlotsAreBacked`, `HoldsExpire`, `EndKicksEveryone` | `LiveConnOwnsSlot`, `NoOrphanSlot`, `HeldHasTimer`, `OverMeansKicked` | `HubInv` |
| `EvictionsFindTheirSlot`, `OldTimersEndNothing` | `EvictionsPending`, `HoldKept` | `HubInv` |
| `RepliesLead` | `HelloLeads` | `HubInv /\ ReplyInv` |
| `ClientsAreToldRight` | `MembershipViewExact` | `HubInv /\ ViewInv` |
| `HubImplementsMembership` | `ImplementsMembership`: `RelayHub` refines `Membership` | `HubInv` |
| `ConnectionTypes`, `HealthyConnectionsStay`, `KickedClientsAreFlushed` | `TypeOK`, `HealthyStays`, `FlushedOnKick` of `Connection` | `ConnInv` |
| `LeaversAreShutOut` | `LeaverGetsNoNewKey` of `GroupKeys` | `IInv == Types /\ Minted /\ Gone /\ Sheltered` |
| `GroupKeyTypes` | `TypeOK` of `GroupKeys` | `Types /\ Gone /\ Links /\ HostKeys /\ Minted /\ Counted /\ Bounds` |
| `SurvivorsConverge`, `FramesCanBeOpened` | `KeyOnItsWay`, `FramesOpen` | `KeysInv == Types /\ Gone /\ Links /\ HostKeys /\ Converges /\ Rings` |
| `MuxTypes`, `StreamClosedSafely` | `TypeOK`, `SafeClose` of `MuxEvents` | `CloseInv`, which includes `TypeOK` |
| `OneGoroutineRoutes` | `OneRouter` | `TypeOK /\ RouteInv` |
| `RegistryTypes`, `SessionsAreFound` | `TypeOK`, `HubIsRegistered` | `TypeOK`; `TypeOK /\ HubIsRegistered` |
| `LimiterTypes`, `IdleEvictionIsLossless`, `RateIsKept` | `TypeOK`, `Lossless`, `WithinRate` of `RateLimit` | `IInv == TypeOK /\ Clocks /\ Lossless /\ Budget` |

*Slots.* None of the four properties is inductive alone, nor are they together.
`SlotInv` adds what the code relies on silently. A handler waiting for its hello has
no id yet and has at most one command in the inbox (`HelloUnattached`, `HelloPending`).
No handler has a generation beyond its slot's (`GenBound`), and no two connections
were ever given the same generation of the same id (`GenUnique`). A slot knows the
connection last attached to it, and has that one's generation unless it is held
(`SlotConn`). A leave in the inbox comes from a handler that has ended, with its id and
generation (`LeaveFromClosed`). With these, a leave that passes the guard of
`handleLeave` can only be that of the connection that owns the slot, so no other
connection loses anything; and the four properties follow from one another:
`OverMeansKicked` at a close, for instance, from `LiveConnOwnsSlot` just before it.
`EvictInv` says that the queue of evictions has no id twice and only ids with a slot.
`ExpiryInv` says that no expiry has a generation its slot has not reached, and that a timer
that is armed has not also fired: so an expiry that passes the guard of
`handleGraceExpired` is that of the hold it ends.
`RelayHubProofs` has one lemma per way a step treats the slots.

*What clients are told.* `ReplyInv` follows the hello reply: until it is written it leads
the out channel, because whoever waits for it is in no broadcast. `ViewInv` says of every
slot that is not about to be evicted that folding the frames written to its connection
and those queued for it gives the membership, and of a held one that its backlog changes
nothing for somebody who has just been given the membership. The fold is a recursive function; what it makes of a longer
sequence is proved by the least number principle (`LeastNumber`, `UpTo`), which the
library's well-foundedness theorem gives without an operator parameter. With the same
invariants every step of the hub maps to a step of `Membership` or leaves it alone.

*Connections.* A ping goes out every `PingEvery` ticks, through an out channel that may
drop the pong, over links with a delay. `ConnInv` relates every clock to the age of the
frames on the links and in the channel: some answer is on its way and arrives before
the deadline it has to meet. Of the writer it says that what was queued before a kick is
written or still in the channel.

*Mux.* `CloseInv` says that `pending` is the number of goroutines inside `emit` and that
the channel is closed exactly when the mux is closed and `pending` is 0. `RouteInv` says
that the right to route is in one place: a routing goroutine, a Closed event it is
sending or that is in the channel, or a consumer that has read it and not yet rebound.

*Registry.* `HubIsRegistered` is inductive given the types, because `create` refuses an
id whose hub has not removed itself yet.

*Leavers.* That a departed member holds nothing new is not inductive. `Gone` adds that a
departure in the host's queue is that of a member the relay has removed for good, and
that only the relay announces departures; so nothing is delivered to them any more.
`Minted` adds that no key is in any client, queue or hand before it was made; so all a
member has when the host handles its departure is old. `Types` is `TypeOK` without its
bounds. For those, `Counted` says that the host hears of every departure once and makes
at most one key for each, and `Bounds` that no client is ahead of the keys made.

*Survivors.* `Converges` is `KeyOnItsWay` for everybody the host has answered, and says of the
others that they will still be joining: reading all that is in its queue, and behind that
on the host's link, takes a member through every key in turn. It is about a fold over two
queues, again proved by `UpTo`: what a frame appended, delivered or read does to it
(`AfterBoth`, `AfterLast`, `AfterFirst`), and that a member which has missed a key does not
recover (`NoWayBack`), so that the next frame is in turn whenever the whole queue is.
`Links` says which kinds of frames a link carries and for whom, `HostKeys` that the key
the host hands out is its own or the next. `Rings` says that the ring of superseded keys
holds the keys just before a member's own, as many as fit since its first; with that
what the host sealed earlier still opens.

*Rate limiter.* `Lossless` compares the buckets of the map with buckets nobody evicts. It
needs `Clocks`: no time stamp is in the future, and an entry was seen no earlier than its
bucket was last changed, so that whatever has been idle for `ipIdleTTL` is full. `Budget`
says that what an address has spent and what its bucket holds add up to no more than a
full bucket and the time since; `WithinRate` follows. The theorems assume
`Full <= IdleTTL`, which is the condition above.

Only model-checked: all liveness (`HeldResolves`, `HelloAnsweredWhileOpen`, `AgedEnd`,
`WaitersReturn`, `JoinEnds`, `StreamCloses`, `HostReplaced`, `JoinServed`, `ClosedDelivered`,
`OverEnds`), because it needs fairness, which this prover cannot reason about; and all of
`Migration` and `Services`, whose inductive invariants have not been worked out yet.

## Not modelled

- Wire encoding and cryptographic primitives: frames are records and keys are numbers;
  that a PAKE or a seal does what it should is assumed.
- The dashboard and its polling of other nodes, and the sums of `MergeStats`: no state that
  several actors share.
- Role and successor policies other than the defaults; limits on the length of texts.
- The writer's `<-ctx.Done()`: only the writer itself, or `handle` after the writer, cancels
  that context, and the request's context above it ends when `handle` has returned.
- Dialling, and the mux's queue of local commands, which drops what does not fit.
- `Migration` has no outages and `Services` no departures. Their product, in which a
  setting sent to a departing host is lost, is out of reach.

## Plan

1. Proofs of `OneHost` and `PairwiseHaveKey` of `Migration`.
2. Proofs of `ShownOnce` and `AttrsAgree` of `Services`.
3. `Migration` with outages: a host that resumes while its successor is being elected.
