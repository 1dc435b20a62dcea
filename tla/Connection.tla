------------------------------ MODULE Connection ------------------------------
(***************************************************************************)
(* One connection between a client and the relay, from hello to the end    *)
(* of all goroutines around it.  On the relay: the handler's read loop,    *)
(* the writer that empties the out channel, the hub's kick, the teardown   *)
(* (relay/relay.go: handle, readLoop, writer, drainAndCancel, queueFrame). *)
(* On the client: the read loop with its deadline and the heartbeat        *)
(* (session/client.go: pingLoop; session/handshake.go: readLoop).  The     *)
(* client sends nothing but pings here, which is the hardest on timeouts.  *)
(*                                                                         *)
(* Time is a tick.  On a link that is up a frame takes at most MaxDelay    *)
(* ticks, and what a goroutine can do takes less than one.  The link may   *)
(* die without a sign: nothing passes any more, and a write succeeds or    *)
(* fails as the kernel's buffers and timeouts have it.  coder/websocket,   *)
(* as the code uses it: a Read whose context ends takes the connection     *)
(* down, and everything on it then fails.                                  *)
(***************************************************************************)
EXTENDS Integers, Sequences

CONSTANTS
  OutCap,        \* sendBuffer
  PingInterval, ReadTimeout, IdleTimeout,
  MaxDelay,      \* bound on the latency of a link that is up
  MaxData        \* bound: frames the hub queues

ASSUME ConnectionAssumption ==
  /\ {OutCap, PingInterval, MaxData} \subseteq Nat \ {0} /\ MaxDelay \in Nat
  /\ PingInterval + 2 * MaxDelay < ReadTimeout /\ ReadTimeout \in Nat
  /\ PingInterval + MaxDelay < IdleTimeout /\ IdleTimeout \in Nat

VARIABLES
  link,      \* up, or dead without a sign
  up, down,  \* frames in flight, with their age
  out,       \* the out channel
  hub,       \* serving, kicked (it has kicked this client), left (it has read the leave)
  told,      \* the hub has queued a SessionClosed
  data,      \* frames queued by the hub
  kicked,    \* the channel kicked is closed
  ctx,       \* the handler's context is cancelled
  rconn,     \* the relay's end of the connection: open, closed
  reader, idle,      \* the handler, and how long it has read nothing
  writer, writing,   \* the writer, and the frame in its hands
  cconn,     \* the client's end
  creader, silent,   \* the client's read loop, or how it ended (shut: by its own side),
                     \*   and how long it has read nothing
  pinger, sincePing  \* the client's heartbeat

netVars    == <<link, up, down>>
hubVars    == <<hub, told, data>>
readerVars == <<reader, idle>>
writerVars == <<writer, writing>>
clientVars == <<cconn, creader, silent, pinger, sincePing>>
vars == <<netVars, out, hubVars, kicked, ctx, rconn, readerVars, writerVars, clientVars>>

FromRelay  == {"data", "closed", "pong"}
FromClient == {"ping"}

\* Types; the out channel keeps its capacity.
TypeOK ==
  /\ link \in {"up", "dead"}
  /\ up \in Seq([kind : FromClient \cup {"bye", "eof"}, age : 0..MaxDelay])
  /\ down \in Seq([kind : FromRelay \cup {"eof"}, age : 0..MaxDelay])
  /\ out \in Seq(FromRelay) /\ Len(out) <= OutCap
  /\ hub \in {"serving", "kicked", "left"} /\ told \in BOOLEAN /\ data \in 0..MaxData
  /\ kicked \in BOOLEAN /\ ctx \in BOOLEAN
  /\ rconn \in {"open", "closed"} /\ cconn \in {"open", "closed"}
  /\ reader \in {"reading", "leaving", "stopping", "waiting", "done"} /\ idle \in 0..IdleTimeout
  /\ writer \in {"select", "write", "drain", "flush", "done"} /\ writing \in FromRelay \cup {"none"}
  /\ creader \in {"reading", "closed", "lost", "shut"} /\ silent \in 0..ReadTimeout
  /\ pinger \in {"running", "ended"} /\ sincePing \in 0..PingInterval

\* The hello is over; its reply is queued.
Init ==
  /\ link = "up" /\ up = <<>> /\ down = <<>>
  /\ out = <<"data">>
  /\ hub = "serving" /\ told = FALSE /\ data = 1
  /\ kicked = FALSE /\ ctx = FALSE /\ rconn = "open" /\ cconn = "open"
  /\ reader = "reading" /\ idle = 0 /\ writer = "select" /\ writing = "none"
  /\ creader = "reading" /\ silent = 0 /\ pinger = "running" /\ sincePing = 0

-----------------------------------------------------------------------------
(* The link.                                                               *)

Sent(q, k) == IF link = "up" THEN Append(q, [kind |-> k, age |-> 0]) ELSE q

\* An end is closed: the other end reads an eof after what was sent before.
RelayCloses  == rconn' = "closed" /\ down' = IF rconn = "open" THEN Sent(down, "eof") ELSE down
ClientEnds(k) == cconn' = "closed" /\ up' = IF cconn = "open" THEN Sent(up, k) ELSE up

\* Everything in flight is lost; neither end is told.
LinkDies ==
  /\ link = "up"
  /\ link' = "dead" /\ up' = <<>> /\ down' = <<>>
  /\ UNCHANGED <<out, hubVars, kicked, ctx, rconn, readerVars, writerVars, clientVars>>

Older(q)  == [i \in DOMAIN q |-> [q[i] EXCEPT !.age = @ + 1]]
Timely(q) == \A i \in DOMAIN q : q[i].age < MaxDelay

\* Nothing that happens in less than a tick is left to do.
Waiting ==
  /\ reader = "reading" => Timely(up) /\ idle < IdleTimeout /\ ~ctx
  /\ reader \notin {"leaving", "stopping"} /\ ~(reader = "waiting" /\ writer = "done")
  /\ writer = "select" => out = <<>> /\ ~kicked
  /\ writer # "drain" /\ ~(writer \in {"write", "flush"} /\ (link = "up" \/ rconn = "closed"))
  /\ creader = "reading" => Timely(down) /\ silent < ReadTimeout /\ cconn = "open"
  /\ pinger = "running" => sincePing < PingInterval

Tick ==
  /\ Waiting
  /\ idle' = IF reader = "reading" THEN idle + 1 ELSE idle
  /\ silent' = IF creader = "reading" THEN silent + 1 ELSE silent
  /\ sincePing' = IF pinger = "running" THEN sincePing + 1 ELSE sincePing
  /\ up' = IF reader = "reading" THEN Older(up) ELSE <<>>
  /\ down' = IF creader = "reading" THEN Older(down) ELSE <<>>
  /\ UNCHANGED <<link, out, hubVars, kicked, ctx, rconn, reader, writerVars, cconn, creader, pinger>>

-----------------------------------------------------------------------------
(* The hub, as its client sees it.                                         *)

Room == Len(out) < OutCap

\* trySend and queueFrame: what does not fit is dropped.
Queued(f) == IF Room THEN Append(out, f) ELSE out

\* queue: a full channel is an eviction.
HubQueues ==
  /\ hub = "serving" /\ data < MaxData
  /\ out' = Queued("data")
  /\ data' = data + 1
  /\ hub' = IF Room THEN hub ELSE "kicked"
  /\ kicked' = IF Room THEN kicked ELSE TRUE
  /\ UNCHANGED <<netVars, told, ctx, rconn, readerVars, writerVars, clientVars>>

\* The end of the session, or a resume that supersedes this connection: kick
\* closes a channel and leaves the context to the writer.
HubKicks ==
  /\ hub = "serving"
  /\ hub' = "kicked"
  /\ kicked' = TRUE
  /\ \/ out' = Queued("closed") /\ told' = Room
     \/ UNCHANGED <<out, told>>
  /\ UNCHANGED <<netVars, data, ctx, rconn, readerVars, writerVars, clientVars>>

\* handleLeave takes the slot, and queues nothing more for it.
HubReadsLeave ==
  /\ hub = "serving" /\ reader \notin {"reading", "leaving"}
  /\ hub' = "left"
  /\ UNCHANGED <<netVars, told, data, out, kicked, ctx, rconn, readerVars, writerVars, clientVars>>

-----------------------------------------------------------------------------
(* The handler.                                                            *)

NoPong == out

\* A ping is answered through the out channel, like everything.
Pong == Queued("pong")

ReadPing ==
  /\ reader = "reading" /\ ~ctx /\ rconn = "open"
  /\ up # <<>> /\ Head(up).kind = "ping"
  /\ up' = Tail(up) /\ idle' = 0
  /\ out' = Pong
  /\ UNCHANGED <<link, down, hubVars, kicked, ctx, rconn, reader, writerVars, clientVars>>

\* The client's close, the idle timeout, or the cancelled context.
ReadEnds ==
  /\ reader = "reading"
  /\ ctx \/ idle = IdleTimeout \/ (up # <<>> /\ Head(up).kind \in {"bye", "eof"})
  /\ reader' = "leaving"
  /\ RelayCloses
  /\ UNCHANGED <<link, up, out, hubVars, kicked, ctx, idle, writerVars, clientVars>>

\* handle after readLoop: leave, kick, wait for the writer, cancel, close.
SendLeave ==
  /\ reader = "leaving"
  /\ reader' = "stopping"
  /\ UNCHANGED <<netVars, out, hubVars, kicked, ctx, rconn, idle, writerVars, clientVars>>

\* handle's own kick.
StopWriter ==
  /\ reader = "stopping"
  /\ reader' = "waiting"
  /\ kicked' = TRUE
  /\ UNCHANGED <<netVars, out, hubVars, ctx, rconn, idle, writerVars, clientVars>>

\* writerDone.
Teardown ==
  /\ reader = "waiting" /\ writer = "done"
  /\ reader' = "done"
  /\ ctx' = TRUE
  /\ RelayCloses
  /\ UNCHANGED <<link, up, out, hubVars, kicked, idle, writerVars, clientVars>>

Handler == ReadPing \/ ReadEnds \/ SendLeave \/ StopWriter \/ Teardown

-----------------------------------------------------------------------------
(* The writer.                                                             *)

TakesUnlessKicked(from, to) ==
  /\ writer = from /\ out # <<>>
  /\ writer' = IF kicked /\ from = "select" THEN "drain" ELSE to
  /\ writing' = IF kicked /\ from = "select" THEN "none" ELSE Head(out)
  /\ out' = Tail(out)
  /\ UNCHANGED <<netVars, hubVars, kicked, ctx, rconn, readerVars, clientVars>>

\* The next frame, to write it.
Takes(from, to) ==
  /\ writer = from /\ out # <<>>
  /\ writer' = to /\ writing' = Head(out) /\ out' = Tail(out)
  /\ UNCHANGED <<netVars, hubVars, kicked, ctx, rconn, readerVars, clientVars>>

\* A write reaches the client if both ends and the link are there.  If not,
\* it fails at once on a closed connection, and otherwise sooner or later.
Writes(from, to) ==
  /\ writer = from /\ rconn = "open"
  /\ writer' = to /\ writing' = "none"
  /\ down' = IF cconn = "open" THEN Sent(down, writing) ELSE down
  /\ UNCHANGED <<link, up, out, hubVars, kicked, ctx, rconn, readerVars, clientVars>>

\* A failed write cancels the context, drained or not.
WriteFails ==
  /\ writer \in {"write", "flush"}
  /\ rconn = "closed" \/ link = "dead" \/ cconn = "closed"
  /\ writer' = "done" /\ writing' = "none"
  /\ ctx' = TRUE
  /\ UNCHANGED <<netVars, out, hubVars, kicked, rconn, readerVars, clientVars>>

DrainsNothing(w) == IF w = "select" THEN "done" ELSE w

\* On a kick the writer goes on to flush.
AfterKick(w) == IF w = "select" THEN "drain" ELSE w

\* A select with several ready cases takes any of them.
SeesKick ==
  /\ writer = "select" /\ kicked
  /\ writer' = AfterKick(writer)
  /\ ctx' = IF AfterKick(writer) = "done" THEN TRUE ELSE ctx
  /\ UNCHANGED <<netVars, out, hubVars, kicked, rconn, readerVars, writing, clientVars>>

\* drainAndCancel, when there is nothing left.
Drained ==
  /\ writer = "drain" /\ out = <<>>
  /\ writer' = "done"
  /\ ctx' = TRUE
  /\ UNCHANGED <<netVars, out, hubVars, kicked, rconn, readerVars, writing, clientVars>>

\* The select's third case, ctx.Done, is never ready here: only the writer on
\* its way out, and handle after writerDone, cancel the context, and the
\* request's own context, its parent, ends when handle has returned.
Writer ==
  \/ Takes("select", "write") \/ Writes("write", "select")
  \/ Takes("drain", "flush") \/ Writes("flush", "drain")
  \/ WriteFails \/ SeesKick \/ Drained

-----------------------------------------------------------------------------
(* The client.                                                             *)

\* pingLoop: a ping that is written, or swallowed by a dead link.
PingPasses ==
  /\ pinger = "running" /\ sincePing = PingInterval /\ cconn = "open"
  /\ sincePing' = 0
  /\ up' = IF rconn = "open" THEN Sent(up, "ping") ELSE up
  /\ UNCHANGED <<link, down, out, hubVars, kicked, ctx, rconn, readerVars, writerVars, cconn, creader, silent, pinger>>

\* pingLoop returns on the first error.  The failed write closes the connection under the read loop.
PingFails ==
  /\ pinger = "running" /\ sincePing = PingInterval
  /\ cconn = "closed" \/ link = "dead" \/ rconn = "closed"
  /\ sincePing' = 0
  /\ pinger' = "ended"
  /\ ClientEnds("eof")
  /\ UNCHANGED <<link, down, out, hubVars, kicked, ctx, rconn, readerVars, writerVars, creader, silent>>

\* readLoop and dispatchFrame: after a SessionClosed nothing is read.
ClientReads ==
  /\ creader = "reading" /\ cconn = "open" /\ down # <<>>
  /\ down' = Tail(down) /\ silent' = 0
  /\ CASE Head(down).kind = "eof"    -> creader' = "lost" /\ ClientEnds("eof")
       [] Head(down).kind = "closed" -> creader' = "closed" /\ UNCHANGED <<cconn, up>>
       [] OTHER                      -> UNCHANGED <<creader, cconn, up>>
  /\ UNCHANGED <<link, out, hubVars, kicked, ctx, rconn, readerVars, writerVars, pinger, sincePing>>

NoDeadline == FALSE

\* The deadline of a read.
Deadline == silent = ReadTimeout

\* readLoop: the deadline, or a connection that was closed under it.
ClientReadFails ==
  /\ creader = "reading" /\ (Deadline \/ cconn = "closed")
  /\ creader' = IF cconn = "closed" THEN "shut" ELSE "lost"
  /\ ClientEnds("eof")
  /\ UNCHANGED <<link, down, out, hubVars, kicked, ctx, rconn, readerVars, writerVars, silent, pinger, sincePing>>

\* Close says bye; CloseNow does not.
ClientCloses ==
  /\ cconn = "open"
  /\ \E k \in {"bye", "eof"} : ClientEnds(k)
  /\ UNCHANGED <<link, down, out, hubVars, kicked, ctx, rconn, readerVars, writerVars, creader, silent, pinger, sincePing>>

Pinger  == PingPasses \/ PingFails
CReader == ClientReads \/ ClientReadFails

-----------------------------------------------------------------------------
Next ==
  \/ LinkDies \/ Tick
  \/ HubQueues \/ HubKicks \/ HubReadsLeave
  \/ Handler \/ Writer
  \/ Pinger \/ CReader \/ ClientCloses

Spec == Init /\ [][Next]_vars

\* Goroutines run, time passes, and a connection nobody answers on does not
\* take writes for ever.
Fairness ==
  /\ WF_vars(Tick) /\ WF_vars(Handler) /\ WF_vars(Writer) /\ WF_vars(HubReadsLeave)
  /\ WF_vars(Pinger) /\ SF_vars(PingFails) /\ WF_vars(CReader)

FairSpec == Spec /\ Fairness

-----------------------------------------------------------------------------
(* Properties.                                                             *)

\* pingLoop against both deadlines: on a link that is up a connection on which
\* nobody says anything is given up by neither end, full out channel or not.
HealthyStays ==
  link = "up" /\ hub = "serving" /\ cconn = "open" => reader = "reading" /\ idle < IdleTimeout /\ silent < ReadTimeout

\* drainAndCancel: what the hub queued before it kicked a client that is still
\* there has been written when the writer is done.
FlushedOnKick ==
  hub = "kicked" /\ writer = "done" /\ link = "up" /\ cconn = "open" =>
    \A i \in DOMAIN out : out[i] = "pong"

\* kick does not cancel the context, because "coder/websocket tears down the
\* whole connection": a SessionClosed the hub queued reaches the client's read
\* loop as such, not as a lost connection, unless the link dies or the client's
\* own side shuts the connection first (Close, or a ping that fails).
ClosedDelivered ==
  told ~> creader \in {"closed", "shut"} \/ link = "dead"

\* handle of a kicked connection returns, on a dead link too.
KickEnds == kicked ~> reader = "done"

\* A link that dies without a sign is noticed by the read loops of both ends
\* (readTimeout, IdleTimeout) or the pinger, and the hub gets the leave.
DeadNoticed == link = "dead" ~> creader # "reading" /\ reader = "done" /\ hub # "serving"

\* pingLoop is told by nobody that the read loop has returned: it still ends.
PingerEnds == creader # "reading" ~> pinger = "ended"

\* A connection that is over does not linger: handle returns after a kick (and
\* so does the writer it waits for), both read loops return on a dead link and
\* the hub is told, and pingLoop ends after the client's readLoop.
OverEnds == KickEnds /\ DeadNoticed /\ PingerEnds
===============================================================================
