------------------------------ MODULE RelayHub ------------------------------
(***************************************************************************)
(* One relay session: the hub goroutine (relay/hub.go), the connection     *)
(* handlers around it (hello, readLoop in relay/relay.go) and the grace    *)
(* timers.  They share the hub's bounded inbox, one bounded out channel    *)
(* per connection, and the one-shot kick with which the hub sheds a        *)
(* connection.  A handler's writer goroutine is seen here only as the      *)
(* consumer of its out channel.                                            *)
(*                                                                         *)
(* A participant that drops unexpectedly keeps its slot for a grace window *)
(* (it is "held"); a later connection may resume it.  Generations tell a   *)
(* stale leave or a stale grace timer from a current one.                  *)
(***************************************************************************)
EXTENDS Integers, Sequences, FiniteSets, Functions

CONSTANTS
  Conns,            \* websocket connections, each used once
  Creator,          \* the connection whose hello is CreateSession
  MaxParticipants,  \* hub.max
  SendBuffer,       \* capacity of an out channel (sendBuffer = 64)
  InboxCap,         \* capacity of the inbox (16)
  Grace,            \* whether hub.grace > 0
  MaxID,            \* bound: participant ids issued
  MaxTraffic        \* bound: frames, pings, claims and sweeps sent to the hub

Ids   == 1..MaxID
Chans == Conns \cup Ids   \* out of a connection, or of a held slot

ASSUME HubAssumption ==
  /\ Creator \in Conns
  /\ Conns \cap Ids = {}
  /\ MaxParticipants \in Nat \ {0}
  /\ SendBuffer \in Nat \ {0}
  /\ InboxCap \in Nat \ {0}
  /\ Grace \in BOOLEAN
  /\ MaxID \in Nat \ {0}
  /\ MaxTraffic \in Nat

VARIABLES
  clients,    \* ids with a slot (keys of hub.clients)
  held,       \* ids whose slot is kept for grace
  gen,        \* client.gen
  conn,       \* the connection client.kick belongs to
  nextID,
  host,
  evict,      \* hub.evict: overflowed ids, torn down after the command
  done,       \* hub.done is closed
  inbox,
  timers,     \* armed grace timers
  fired,      \* timers that fired and whose goroutine has yet to send
  out,        \* the out channels
  kicked,     \* connections whose kick was called
  pc,         \* where a connection's handler is
  cid,        \* the id and
  cgen,       \*   generation the hub's reply gave the handler
  rx,         \* history: what was written to the socket so far
  lossy,      \* history: connections whose resume dropped buffered frames
  traffic     \* how much of MaxTraffic is used

slotVars == <<clients, held, gen, conn, nextID>>
hubVars  == <<slotVars, host, evict, done, timers>>
connVars == <<pc, cid, cgen>>
history  == <<rx, lossy>>
vars     == <<hubVars, inbox, fired, out, kicked, connVars, history, traffic>>

-----------------------------------------------------------------------------
(* Frames and commands.                                                    *)

\* A frame to a client: ids is its subject (the peers of a JoinResult, who
\* joined or left, who sent the data); hostID only matters in a JoinResult.
Kinds    == {"created", "result", "joined", "left", "closed", "data", "error", "pong"}
Frame    == [kind : Kinds, ids : SUBSET Ids, hostID : 0..MaxID]
Msg(k, S)      == [kind |-> k, ids |-> S, hostID |-> 0]
SessionCreated == Msg("created", {})
JoinResultWithSelf(i) == [kind |-> "result", ids |-> clients, hostID |-> host]
JoinResult(i)  == [kind |-> "result", ids |-> clients \ {i}, hostID |-> host]

Timer == [id : Ids, gen : Nat]

JoinCmd   == [op : {"join"}, conn : Conns]
ResumeCmd == [op : {"resume"}, id : Ids, token : BOOLEAN, conn : Conns]
LeaveCmd  == [op : {"leave"}, id : Ids, gen : Nat, unexpected : BOOLEAN]
GraceCmd  == [op : {"grace"}, id : Ids, gen : Nat]
FrameCmd  == [op : {"frame"}, from : Ids, to : 0..MaxID]   \* to = 0: Broadcast
ClaimCmd  == [op : {"claim"}, id : Ids]
CloseCmd  == [op : {"close"}]
Command   == JoinCmd \cup ResumeCmd \cup LeaveCmd \cup GraceCmd \cup FrameCmd \cup ClaimCmd \cup CloseCmd

\* What the client has been sent on one connection: the kind of the first
\* frame, and the peers the frames so far add up to.
Rx == [first : Kinds \cup {"none"}, view : SUBSET Ids]

\* Types, the capacities of the channels included: the hub never blocks on
\* a full out channel (queue, handleResume).
TypeOK ==
  /\ clients \subseteq Ids
  /\ held \subseteq clients
  /\ gen \in [Ids -> Nat]
  /\ conn \in [Ids -> Conns]
  /\ nextID \in 1..(MaxID + 1)
  /\ host \in Ids
  /\ evict \in Seq(Ids)
  /\ done \in BOOLEAN
  /\ inbox \in Seq(Command) /\ Len(inbox) <= InboxCap
  /\ timers \subseteq Timer
  /\ fired \subseteq Timer
  /\ out \in [Chans -> Seq(Frame)] /\ \A x \in Chans : Len(out[x]) <= SendBuffer
  /\ kicked \subseteq Conns
  /\ pc \in [Conns -> {"idle", "hello", "open", "closed"}]
  /\ cid \in [Conns -> 0..MaxID]
  /\ cgen \in [Conns -> Nat]
  /\ rx \in [Conns -> Rx]
  /\ lossy \subseteq Conns
  /\ traffic \in 0..MaxTraffic

\* newHub, just registered by the creator's handler, whose join is to come.
Init ==
  /\ clients = {} /\ held = {}
  /\ gen = [i \in Ids |-> 0]
  /\ conn = [i \in Ids |-> Creator]
  /\ nextID = 1 /\ host = 1
  /\ evict = <<>> /\ done = FALSE /\ inbox = <<>>
  /\ timers = {} /\ fired = {}
  /\ out = [x \in Chans |-> <<>>]
  /\ kicked = {}
  /\ pc = [c \in Conns |-> "idle"]
  /\ cid = [c \in Conns |-> 0]
  /\ cgen = [c \in Conns |-> 0]
  /\ rx = [c \in Conns |-> [first |-> "none", view |-> {}]]
  /\ lossy = {}
  /\ traffic = 0

-----------------------------------------------------------------------------
(* The hub's fan-out (queue, sendTo, broadcastFrame).                      *)

\* client.out: a held slot has a channel of its own.
Chan(i) == IF i \in held THEN i ELSE conn[i]

Full(x) == Len(out[x]) >= SendBuffer

OverflowTwice(R) == {i \in R : Full(Chan(i))}

\* The receivers in R whose buffer overflows on the next frame; one that is
\* already being evicted is skipped.
Overflow(R) == {i \in R \ Range(evict) : Full(Chan(i))}

\* The out channels once every other receiver in R has the frame f.
Queued(R, f) ==
  LET takers == {Chan(i) : i \in R \ (Range(evict) \cup Overflow(R))}
  IN  [x \in Chans |-> IF x \in takers THEN Append(out[x], f) ELSE out[x]]

\* Overflowed receivers are marked for eviction, in the order the map
\* iteration met them, and kicked now unless held.
Evict(R, pending, also) ==
  /\ \E n \in 0..MaxID : \E order \in Bijection(1..n, Overflow(R)) : evict' = pending \o order
  /\ kicked' = kicked \cup also \cup {conn[i] : i \in Overflow(R) \ held}

Broadcast(R, f, pending, also) == out' = Queued(R, f) /\ Evict(R, pending, also)

\* timer.Stop for one slot: a timer that already fired is not recalled.
Disarmed(i) == {t \in timers : t.id # i}

\* removeParticipant, and shutdown when that was the last participant.
RemoveParticipant(i, pending) ==
  LET rest == clients \ {i} IN
  /\ clients' = rest
  /\ held' = held \ {i}
  /\ timers' = Disarmed(i)
  /\ \/ /\ rest = {}
        /\ done' = TRUE
        /\ kicked' = kicked \cup {conn[i]}
        /\ evict' = pending
        /\ UNCHANGED out
     \/ /\ rest # {}
        /\ done' = FALSE
        /\ Broadcast(rest, Msg("left", {i}), pending, {conn[i]})
  /\ UNCHANGED <<gen, conn, nextID, host>>

-----------------------------------------------------------------------------
(* The hub's run loop: one action per command.                             *)

Receive(op) ==
  /\ ~done /\ evict = <<>>
  /\ inbox # <<>> /\ Head(inbox).op = op
  /\ inbox' = Tail(inbox)

\* The handler of connection c gets its reply and starts its writer.
Attach(c, i, g) ==
  /\ pc' = [pc EXCEPT ![c] = "open"]
  /\ cid' = [cid EXCEPT ![c] = i]
  /\ cgen' = [cgen EXCEPT ![c] = g]

RefuseSilently(c) == UNCHANGED connVars

\* The handler is refused: it writes the error frame and returns.
Refuse(c) ==
  /\ pc' = [pc EXCEPT ![c] = "closed"]
  /\ UNCHANGED <<cid, cgen>>

FullLate == Cardinality(clients) > MaxParticipants

SessionFull == Cardinality(clients) >= MaxParticipants

HandleJoinFull ==
  /\ Receive("join") /\ SessionFull
  /\ Refuse(Head(inbox).conn)
  /\ UNCHANGED <<hubVars, fired, out, kicked, history, traffic>>

HandleJoin ==
  LET c == Head(inbox).conn
      i == nextID
      reply == IF c = Creator THEN SessionCreated ELSE JoinResult(i)
  IN
  /\ Receive("join") /\ ~SessionFull
  /\ i \in Ids
  /\ nextID' = i + 1
  /\ clients' = clients \cup {i}
  /\ gen' = [gen EXCEPT ![i] = 1]
  /\ conn' = [conn EXCEPT ![i] = c]
  /\ out' = [Queued(clients, Msg("joined", {i})) EXCEPT ![c] = <<reply>>]
  /\ Evict(clients, evict, {})
  /\ Attach(c, i, 1)
  /\ UNCHANGED <<held, host, done, timers, fired, history, traffic>>

LeaveAppliesAnyGen(m) == m.id \in clients \ held

LeaveApplies(m) == m.id \in clients \ held /\ gen[m.id] = m.gen

HoldTimerOldGen(i) == [id |-> i, gen |-> gen[i]]

HoldTimer(i) == [id |-> i, gen |-> gen[i] + 1]

\* holdSlot: a fresh channel buffers what is routed to the slot meanwhile.
HoldSlot(i) ==
  /\ held' = held \cup {i}
  /\ gen' = [gen EXCEPT ![i] = @ + 1]
  /\ out' = [out EXCEPT ![i] = <<>>]
  /\ timers' = timers \cup {HoldTimer(i)}
  /\ UNCHANGED <<clients, conn, nextID, host, evict, done, kicked>>

HandleLeave ==
  LET m == Head(inbox) IN
  /\ Receive("leave")
  /\ \/ /\ ~LeaveApplies(m)
        /\ UNCHANGED <<hubVars, out, kicked>>
     \/ /\ LeaveApplies(m) /\ m.unexpected /\ Grace
        /\ HoldSlot(m.id)
     \/ /\ LeaveApplies(m) /\ ~(m.unexpected /\ Grace)
        /\ RemoveParticipant(m.id, evict)
  /\ UNCHANGED <<fired, connVars, history, traffic>>

GraceAppliesAnyGen(m) == m.id \in held

GraceApplies(m) == m.id \in held /\ gen[m.id] = m.gen

HandleGraceExpired ==
  LET m == Head(inbox) IN
  /\ Receive("grace")
  /\ \/ ~GraceApplies(m) /\ UNCHANGED <<hubVars, out, kicked>>
     \/ GraceApplies(m) /\ RemoveParticipant(m.id, evict)
  /\ UNCHANGED <<fired, connVars, history, traffic>>

BacklogFirst(i) ==
  IF i \in held THEN Append(SubSeq(out[i], 1, Len(out[i]) - 1), JoinResult(i)) ELSE <<JoinResult(i)>>

\* The reply leads; a held slot's backlog follows as far as it still fits.
ResumeOut(i) ==
  LET backlog == IF i \in held THEN out[i] ELSE <<>>
      all     == <<JoinResult(i)>> \o backlog
  IN  SubSeq(all, 1, IF Len(all) > SendBuffer THEN SendBuffer ELSE Len(all))

\* A slot that is still live has its old connection kicked.
Superseded(i) == IF i \in held THEN {} ELSE {conn[i]}

HandleResume ==
  LET m == Head(inbox)
      i == m.id
  IN
  /\ Receive("resume")
  /\ \/ /\ ~(i \in clients /\ m.token)
        /\ Refuse(m.conn)
        /\ UNCHANGED <<hubVars, out, kicked, lossy>>
     \/ /\ i \in clients /\ m.token
        /\ timers' = Disarmed(i)
        /\ out' = [out EXCEPT ![m.conn] = ResumeOut(i), ![i] = <<>>]
        /\ kicked' = kicked \cup Superseded(i)
        /\ lossy' = IF i \in held /\ Full(i) THEN lossy \cup {m.conn} ELSE lossy
        /\ held' = held \ {i}
        /\ gen' = [gen EXCEPT ![i] = @ + 1]
        /\ conn' = [conn EXCEPT ![i] = m.conn]
        /\ Attach(m.conn, i, gen[i] + 1)
        /\ UNCHANGED <<clients, nextID, host, evict, done>>
  /\ UNCHANGED <<fired, rx, traffic>>

HandleClaimHost ==
  LET i == Head(inbox).id IN
  /\ Receive("claim")
  /\ host' = IF i \in clients THEN i ELSE host
  /\ UNCHANGED <<slotVars, evict, done, timers, fired, out, kicked, connVars, history, traffic>>

\* route: a malformed body (any frame may have one) or a Direct to nobody is
\* answered with an error frame.  A sender that has lost its slot meanwhile
\* is not told, but its well-formed frame is routed.
Route ==
  LET m == Head(inbox)
      sender == {m.from} \cap clients
  IN
  /\ Receive("frame")
  /\ \/ /\ m.to = 0
        /\ Broadcast(clients \ {m.from}, Msg("data", {m.from}), evict, {})
     \/ /\ m.to \in clients
        /\ Broadcast({m.to}, Msg("data", {m.from}), evict, {})
     \/ Broadcast(sender, Msg("error", {}), evict, {})
  /\ UNCHANGED <<slotVars, host, done, timers, fired, connVars, history, traffic>>

EveryGuest == {conn[i] : i \in clients \ {host}}

\* shutdown: every slot's connection is kicked.
Everyone == {conn[i] : i \in clients}

\* handleClose, then shutdown.
HandleClose ==
  /\ Receive("close")
  /\ Broadcast(clients, Msg("closed", {}), evict, Everyone)
  /\ done' = TRUE
  /\ timers' = {}
  /\ UNCHANGED <<slotVars, host, fired, connVars, history, traffic>>

DrainSilently ==
  /\ ~done /\ evict # <<>>
  /\ clients' = clients \ {Head(evict)}
  /\ held' = held \ {Head(evict)}
  /\ evict' = Tail(evict)
  /\ UNCHANGED <<gen, conn, nextID, host, done, timers, out, kicked>>
  /\ UNCHANGED <<inbox, fired, connVars, history, traffic>>

\* One turn of drainEvictions' loop, which runs before the next command.  The
\* id still has its slot (EvictionsPending), so it is always torn down here.
DrainEvictions ==
  /\ ~done /\ evict # <<>>
  /\ RemoveParticipant(Head(evict), Tail(evict))
  /\ UNCHANGED <<inbox, fired, connVars, history, traffic>>

Hub ==
  \/ HandleJoinFull \/ HandleJoin \/ HandleLeave \/ HandleGraceExpired
  \/ HandleResume \/ HandleClaimHost \/ Route \/ HandleClose
  \/ DrainEvictions

-----------------------------------------------------------------------------
(* Connection handlers and grace timers: the senders to the inbox.         *)

\* hub.send: once done is closed either arm of its select may be taken.
Submit(m) == Len(inbox) < InboxCap /\ inbox' = Append(inbox, m)
Dropped   == done /\ UNCHANGED inbox

\* hello: create and join send a joinCmd, then wait for the reply.
HelloJoin(c) ==
  /\ pc[c] = "idle"
  /\ \/ Submit([op |-> "join", conn |-> c]) /\ pc' = [pc EXCEPT ![c] = "hello"]
     \/ Dropped /\ pc' = [pc EXCEPT ![c] = "closed"]
  /\ UNCHANGED <<hubVars, fired, out, kicked, cid, cgen, history, traffic>>

\* A client knows the token of id i once some connection of i was sent it.
KnowsToken(i) == \E d \in Conns : cid[d] = i /\ rx[d].first # "none"

HelloResume(c, i, token) ==
  /\ pc[c] = "idle" /\ c # Creator
  /\ token => KnowsToken(i)
  /\ \/ /\ Submit([op |-> "resume", id |-> i, token |-> token, conn |-> c])
        /\ pc' = [pc EXCEPT ![c] = "hello"]
     \/ Dropped /\ pc' = [pc EXCEPT ![c] = "closed"]
  /\ UNCHANGED <<hubVars, fired, out, kicked, cid, cgen, history, traffic>>

Spend == traffic < MaxTraffic /\ traffic' = traffic + 1

\* readLoop: session frames and host claims go to the hub, also for a while
\* after a kick (the context dies only once the writer has drained),
ReadToHub(c) ==
  /\ pc[c] = "open" /\ Spend
  /\ \E m \in [op : {"frame"}, from : {cid[c]}, to : 0..MaxID] \cup [op : {"claim"}, id : {cid[c]}] :
       Submit(m) \/ Dropped
  /\ UNCHANGED <<hubVars, fired, out, kicked, connVars, history>>

\* while a ping (or an unexpected type) is answered on out if there is room.
ReadPing(c) ==
  /\ pc[c] = "open" /\ Spend
  /\ out' = [out EXCEPT ![c] = IF Full(c) THEN @ ELSE Append(@, Msg("pong", {}))]
  /\ UNCHANGED <<hubVars, inbox, fired, kicked, connVars, history>>

LeaveOfFirstGen(c, lost) == [op |-> "leave", id |-> cid[c], gen |-> 1, unexpected |-> lost]

LeaveOf(c, lost) == [op |-> "leave", id |-> cid[c], gen |-> cgen[c], unexpected |-> lost]

\* The read fails, by a normal closure or otherwise, and handle tears down:
\* it tells the hub and kicks the writer.
HangUp(c, lost) ==
  /\ pc[c] = "open"
  /\ Submit(LeaveOf(c, lost)) \/ Dropped
  /\ pc' = [pc EXCEPT ![c] = "closed"]
  /\ kicked' = kicked \cup {c}
  /\ UNCHANGED <<hubVars, fired, out, cid, cgen, history, traffic>>

\* The peers a client knows after frame f on top of those it knew.
View(known, f) ==
  CASE f.kind \in {"created", "result"} -> f.ids
    [] f.kind = "joined" -> known \cup f.ids
    [] f.kind = "left"   -> known \ f.ids
    [] OTHER             -> known

\* The writer puts the next frame on the wire.
Write(c) ==
  /\ pc[c] = "open" /\ out[c] # <<>>
  /\ out' = [out EXCEPT ![c] = Tail(@)]
  /\ rx' = [rx EXCEPT ![c] =
              [first |-> IF @.first = "none" THEN Head(out[c]).kind ELSE @.first,
               view  |-> View(@.view, Head(out[c]))]]
  /\ UNCHANGED <<hubVars, inbox, fired, kicked, connVars, lossy, traffic>>

TimerNotStarted(t) == FALSE

\* A grace timer goes off; its goroutine sends to the hub, blocking while the
\* inbox is full.
TimerFires(t) ==
  /\ t \in timers
  /\ timers' = timers \ {t}
  /\ fired' = fired \cup {t}
  /\ UNCHANGED <<slotVars, host, evict, done, inbox, out, kicked, connVars, history, traffic>>

TimerSends(t) ==
  /\ t \in fired
  /\ fired' = fired \ {t}
  /\ Submit([op |-> "grace", id |-> t.id, gen |-> t.gen]) \/ Dropped
  /\ UNCHANGED <<hubVars, out, kicked, connVars, history, traffic>>

\* registry.sweep finds the session past its age cap.
Sweep ==
  /\ Spend
  /\ Submit([op |-> "close"]) \/ Dropped
  /\ UNCHANGED <<hubVars, fired, out, kicked, connVars, history>>

-----------------------------------------------------------------------------
Client(c) ==
  \/ HelloJoin(c)
  \/ \E i \in Ids, token \in BOOLEAN : HelloResume(c, i, token)
  \/ ReadToHub(c) \/ ReadPing(c)
  \/ \E lost \in BOOLEAN : HangUp(c, lost)

Timers == (\E t \in timers : TimerFires(t)) \/ (\E t \in fired : TimerSends(t))

Next ==
  \/ Hub
  \/ \E c \in Conns : Client(c) \/ Write(c)
  \/ Timers
  \/ Sweep

Spec == Init /\ [][Next]_vars

\* The hub goroutine and the timers run, and the handler of a kicked
\* connection ends; what a client does otherwise is its own choice.
Fairness ==
  /\ WF_vars(Hub)
  /\ WF_vars(Timers)
  /\ \A c \in Conns : WF_vars(c \in kicked /\ HangUp(c, TRUE))

FairSpec == Spec /\ Fairness

-----------------------------------------------------------------------------
(* Properties.                                                             *)

\* A connection that is being served and was not kicked owns its slot: no
\* stale leave, stale grace timer or foreign resume ever took it away or put
\* it on hold (the gen guard of handleLeave, the held guard of both handlers).
LiveConnOwnsSlot ==
  \A c \in Conns :
    pc[c] = "open" /\ c \notin kicked /\ ~done =>
      /\ cid[c] \in clients \ held
      /\ conn[cid[c]] = c
      /\ gen[cid[c]] = cgen[c]

\* A slot that is not held has a connection still being served, or the leave
\* of that very connection is on its way: a participant is never left in the
\* session with nobody behind it (handle's teardown against handleResume).
NoOrphanSlot ==
  ~done =>
    \A i \in clients \ held :
      \/ pc[conn[i]] = "open"
      \/ \E k \in DOMAIN inbox :
           inbox[k].op = "leave" /\ inbox[k].id = i /\ inbox[k].gen = gen[i]

\* A held slot has its own grace timer armed, going off, or in the inbox: it
\* can not be held for ever (holdSlot, handleResume's timer.Stop, send).
HeldHasTimer ==
  ~done =>
    \A i \in held :
      \/ [id |-> i, gen |-> gen[i]] \in timers \cup fired
      \/ \E k \in DOMAIN inbox :
           inbox[k].op = "grace" /\ inbox[k].id = i /\ inbox[k].gen = gen[i]

\* A held participant keeps its slot until its own window is over, unless it
\* is evicted: the timer of an earlier outage, which handleResume could not
\* stop any more, does not end a later one (the gen guard of handleGraceExpired).
HoldKept ==
  [][\A i \in held \ clients' : i \in Range(evict) \/ [id |-> i, gen |-> gen[i]] \notin timers]_vars

\* The ids queued for eviction still have their slot when their turn comes
\* (queue's evicting flag, drainEvictions).
EvictionsPending == ~done => Range(evict) \subseteq clients

\* The first frame on every connection is its hello reply, whatever was
\* broadcast meanwhile or buffered during an outage (handleJoin, handleResume).
HelloLeads ==
  \A c \in Conns :
    rx[c].first \in {"none", IF c = Creator THEN "created" ELSE "result"}

\* Once the session is over no handler is left running unkicked, whoever
\* held which slot when (shutdown, removeParticipant, handleResume).
OverMeansKicked == done => \A c \in Conns : pc[c] = "open" => c \in kicked
=============================================================================
