-------------------------- MODULE ConnectionProofs --------------------------
(*****************************************************************************)
(* Theorems about one connection, for any capacity of the out channel, any   *)
(* timeouts that allow for the latency of the link, and any latency.         *)
(*****************************************************************************)
EXTENDS Connection, TLAPS

-----------------------------------------------------------------------------
(* The inductive invariant.                                                *)

\* A frame the writer is about to write is one of the relay's.
HoldsFrame == writer \in {"write", "flush"} => writing \in FromRelay

\* A client that has not closed its end has sent nothing but pings.
OnlyPings == cconn = "open" => \A i \in DOMAIN up : up[i].kind = "ping"

\* Everything works: the hub serves the client, over a link that is up.
Healthy == link = "up" /\ hub = "serving" /\ cconn = "open"

\* Then nobody has a reason to stop,
AllRunning ==
  /\ reader = "reading" /\ rconn = "open" /\ ~ctx /\ ~kicked
  /\ writer \in {"select", "write"} /\ writing # "closed"
  /\ creader = "reading" /\ pinger = "running"
  /\ \A i \in DOMAIN out : out[i] # "closed"
  /\ \A i \in DOMAIN down : down[i].kind \in {"data", "pong"}

\* the handler has read a ping since the one before the oldest in flight,
PingsArrive == idle <= IF up = <<>> THEN sincePing ELSE up[1].age + PingInterval

\* and the client's read loop has read a frame since the ping before the one
\* whose answer, or a frame in place of it, is next to arrive.
AnswersArrive ==
  silent <= IF down # <<>> THEN down[1].age + MaxDelay + PingInterval
            ELSE IF out # <<>> \/ writer = "write" THEN MaxDelay + PingInterval
            ELSE IF up # <<>> THEN up[1].age + PingInterval
            ELSE sincePing

\* The hub has kicked the client, and the writer is not done: until it is the
\* handler reads on, and no time passes.
Flushing == link = "up" /\ hub = "kicked" /\ cconn = "open" /\ writer # "done"

NotGivenUp == reader = "reading" /\ rconn = "open" /\ ~ctx /\ kicked /\ idle < IdleTimeout

ConnInv ==
  /\ TypeOK
  /\ HoldsFrame
  /\ OnlyPings
  /\ Healthy => AllRunning /\ PingsArrive /\ AnswersArrive
  /\ Flushing => NotGivenUp
  /\ FlushedOnKick

-----------------------------------------------------------------------------
(* Sequences, the link and the out channel.                                *)

\* The elements of a sequence.
LEMMA ElementFacts ==
  ASSUME NEW S, NEW q \in Seq(S)
  PROVE  (\A i \in DOMAIN q : q[i] \in S) /\ (q # <<>> => 1 \in DOMAIN q)
OBVIOUS

\* What appending does to a sequence.
LEMMA AppendFacts ==
  ASSUME NEW S, NEW q \in Seq(S), NEW e \in S
  PROVE  /\ Append(q, e) \in Seq(S) /\ Append(q, e) # <<>>
         /\ Len(Append(q, e)) = Len(q) + 1 /\ Len(q) \in Nat
         /\ \A i \in DOMAIN Append(q, e) : (i \in DOMAIN q /\ Append(q, e)[i] = q[i]) \/ Append(q, e)[i] = e
         /\ Append(q, e)[1] = IF q = <<>> THEN e ELSE q[1]
<1> DEFINE r == Append(q, e)  n == Len(q)
<1>1. /\ n \in Nat /\ r \in Seq(S) /\ Len(r) = n + 1 /\ DOMAIN r = 1..(n + 1) /\ DOMAIN q = 1..n
      /\ r[n + 1] = e /\ \A i \in 1..n : r[i] = q[i]
  OBVIOUS
<1>2. r # <<>>
  BY <1>1
<1>3. \A i \in 1..(n + 1) : i \in 1..n \/ i = n + 1
  BY <1>1
<1>4. q = <<>> => n = 0
  OBVIOUS
<1>5. q # <<>> => 1 \in 1..n
  BY <1>1
<1> HIDE DEF r, n
<1> QED
  BY <1>1, <1>2, <1>3, <1>4, <1>5 DEF r, n

\* What taking the head off does to a sequence.
LEMMA TailFacts ==
  ASSUME NEW S, NEW q \in Seq(S), q # <<>>
  PROVE  /\ Head(q) \in S /\ Head(q) = q[1] /\ 1 \in DOMAIN q
         /\ Tail(q) \in Seq(S) /\ Len(Tail(q)) = Len(q) - 1 /\ Len(q) \in Nat \ {0}
         /\ \A i \in DOMAIN Tail(q) : i + 1 \in DOMAIN q /\ Tail(q)[i] = q[i + 1]
<1> DEFINE t == Tail(q)  n == Len(q)
<1>1. /\ n \in Nat \ {0} /\ DOMAIN q = 1..n /\ t \in Seq(S) /\ Len(t) = n - 1 /\ DOMAIN t = 1..(n - 1)
      /\ \A i \in 1..(n - 1) : t[i] = q[i + 1]
  OBVIOUS
<1>2. Head(q) = q[1] /\ Head(q) \in S
  OBVIOUS
<1> HIDE DEF t, n
<1>3. 1 \in 1..n /\ \A i \in 1..(n - 1) : i + 1 \in 1..n
  BY <1>1
<1> QED
  BY <1>1, <1>2, <1>3, Zenon DEF t, n

\* The frames of the link.
UpFrame   == [kind : FromClient \cup {"bye", "eof"}, age : 0..MaxDelay]
DownFrame == [kind : FromRelay \cup {"eof"}, age : 0..MaxDelay]

\* The constants are numbers.
LEMMA Numbers ==
  /\ OutCap \in Nat \ {0} /\ PingInterval \in Nat \ {0} /\ MaxData \in Nat \ {0}
  /\ MaxDelay \in Nat /\ ReadTimeout \in Nat /\ IdleTimeout \in Nat
  /\ PingInterval + 2 * MaxDelay < ReadTimeout /\ PingInterval + MaxDelay < IdleTimeout
BY ConnectionAssumption, Zenon

\* Sending adds a fresh frame at the end, or nothing.
LEMMA SentFacts ==
  ASSUME NEW K, NEW q \in Seq([kind : K, age : 0..MaxDelay]), NEW k \in K
  PROVE  /\ Sent(q, k) \in Seq([kind : K, age : 0..MaxDelay])
         /\ link = "up" => Sent(q, k) # <<>>
         /\ \A i \in DOMAIN Sent(q, k) :
              (i \in DOMAIN q /\ Sent(q, k)[i] = q[i]) \/ Sent(q, k)[i] = [kind |-> k, age |-> 0]
         /\ q # <<>> => Sent(q, k)[1] = q[1]
         /\ q = <<>> /\ link = "up" => Sent(q, k)[1].age = 0
<1> DEFINE S == [kind : K, age : 0..MaxDelay]  e == [kind |-> k, age |-> 0]
<1>1. e \in S
  BY Numbers
<1>2. e.age = 0
  BY Zenon
<1>3. CASE link = "up"
  <2>1. Sent(q, k) = Append(q, e)
    BY <1>3, Zenon DEF Sent
  <2> HIDE DEF S, e
  <2> QED
    BY <1>1, <1>2, <1>3, <2>1, AppendFacts DEF S, e
<1>4. CASE link # "up"
  BY <1>4, Zenon DEF Sent
<1> QED
  BY <1>3, <1>4, Zenon

\* A tick later every frame in flight is a tick older.
LEMMA OlderFacts ==
  ASSUME NEW K, NEW q \in Seq([kind : K, age : 0..MaxDelay]), Timely(q)
  PROVE  /\ Older(q) \in Seq([kind : K, age : 0..MaxDelay])
         /\ Older(q) = <<>> <=> q = <<>>
         /\ DOMAIN Older(q) = DOMAIN q
         /\ \A i \in DOMAIN q : Older(q)[i].kind = q[i].kind /\ Older(q)[i].age = q[i].age + 1
         /\ q # <<>> => 1 \in DOMAIN q
<1> DEFINE S == [kind : K, age : 0..MaxDelay]  r == Older(q)  n == Len(q)
<1>1. n \in Nat /\ DOMAIN q = 1..n /\ (q = <<>> <=> n = 0)
  OBVIOUS
<1>2. ASSUME NEW i \in 1..n
      PROVE  r[i] \in S /\ r[i].kind = q[i].kind /\ r[i].age = q[i].age + 1
  <2>0. q[i] \in S
    BY <1>1, ElementFacts, Zenon
  <2>1. q[i].age \in 0..MaxDelay /\ q[i].age < MaxDelay
    BY <1>1, <2>0, Zenon DEF Timely
  <2>2. r[i] = [q[i] EXCEPT !.age = @ + 1]
    BY <1>1, Zenon DEF Older
  <2>3. q[i].age + 1 \in 0..MaxDelay
    BY <2>1, Numbers
  <2> QED
    BY <2>0, <2>2, <2>3, Zenon
<1>3. DOMAIN r = 1..n /\ r = [i \in 1..n |-> r[i]]
  BY <1>1, Zenon DEF Older
<1> HIDE DEF r, S
<1>4. r \in Seq(S) /\ Len(r) = n
  BY <1>1, <1>2, <1>3
<1>5. r = <<>> <=> n = 0
  BY <1>4
<1> QED
  BY <1>1, <1>2, <1>3, <1>4, <1>5 DEF r, S

\* queueFrame and trySend keep the capacity of the out channel.
LEMMA QueuedFacts ==
  ASSUME out \in Seq(FromRelay), Len(out) <= OutCap, NEW f \in FromRelay
  PROVE  /\ Queued(f) \in Seq(FromRelay) /\ Len(Queued(f)) <= OutCap /\ Queued(f) # <<>>
         /\ \A i \in DOMAIN Queued(f) : (i \in DOMAIN out /\ Queued(f)[i] = out[i]) \/ Queued(f)[i] = f
<1>1. Len(out) \in Nat /\ (out = <<>> => Len(out) = 0)
  OBVIOUS
<1>2. CASE Room
  <2>1. Queued(f) = Append(out, f)
    BY <1>2, Zenon DEF Queued
  <2>2. Len(out) + 1 <= OutCap
    BY <1>1, <1>2, Numbers DEF Room
  <2> QED
    BY <2>1, <2>2, AppendFacts
<1>3. CASE ~Room
  <2>1. out # <<>>
    BY <1>1, <1>3, Numbers DEF Room
  <2> QED
    BY <1>3, <2>1, Zenon DEF Queued
<1> QED
  BY <1>2, <1>3, Zenon

-----------------------------------------------------------------------------
(* Types.                                                                  *)

\* The variables that are no sequences.
Scalars ==
  /\ link \in {"up", "dead"}
  /\ hub \in {"serving", "kicked", "left"} /\ told \in BOOLEAN /\ data \in 0..MaxData
  /\ kicked \in BOOLEAN /\ ctx \in BOOLEAN
  /\ rconn \in {"open", "closed"} /\ cconn \in {"open", "closed"}
  /\ reader \in {"reading", "leaving", "stopping", "waiting", "done"} /\ idle \in 0..IdleTimeout
  /\ writer \in {"select", "write", "drain", "flush", "done"} /\ writing \in FromRelay \cup {"none"}
  /\ creader \in {"reading", "closed", "lost", "shut"} /\ silent \in 0..ReadTimeout
  /\ pinger \in {"running", "ended"} /\ sincePing \in 0..PingInterval

\* The link in both directions, and the out channel.
Channels ==
  /\ up \in Seq(UpFrame) /\ down \in Seq(DownFrame)
  /\ out \in Seq(FromRelay) /\ Len(out) <= OutCap

\* TypeOK is the two together.
LEMMA TypeParts == TypeOK <=> Scalars /\ Channels
BY Zenon DEF TypeOK, Scalars, Channels, UpFrame, DownFrame

\* The same for what is sent up.
LEMMA SentUp ==
  ASSUME up \in Seq(UpFrame), NEW k \in {"ping", "bye", "eof"}
  PROVE  /\ Sent(up, k) \in Seq(UpFrame)
         /\ link = "up" => Sent(up, k) # <<>>
         /\ \A i \in DOMAIN Sent(up, k) :
              (i \in DOMAIN up /\ Sent(up, k)[i] = up[i]) \/ Sent(up, k)[i].kind = k
         /\ up # <<>> => Sent(up, k)[1] = up[1]
         /\ up = <<>> /\ link = "up" => Sent(up, k)[1].age = 0
<1> DEFINE K == FromClient \cup {"bye", "eof"}
<1>1. up \in Seq([kind : K, age : 0..MaxDelay]) /\ k \in K
  BY Zenon DEF UpFrame, FromClient
<1>2. [kind |-> k, age |-> 0].kind = k
  BY Zenon
<1> HIDE DEF K
<1>3. /\ Sent(up, k) \in Seq([kind : K, age : 0..MaxDelay])
      /\ link = "up" => Sent(up, k) # <<>>
      /\ \A i \in DOMAIN Sent(up, k) :
           (i \in DOMAIN up /\ Sent(up, k)[i] = up[i]) \/ Sent(up, k)[i] = [kind |-> k, age |-> 0]
      /\ up # <<>> => Sent(up, k)[1] = up[1]
      /\ up = <<>> /\ link = "up" => Sent(up, k)[1].age = 0
  BY <1>1, SentFacts, Zenon
<1>4. Sent(up, k) \in Seq(UpFrame)
  BY <1>3, Zenon DEF UpFrame, K
<1> QED
  BY <1>2, <1>3, <1>4, Zenon

\* And down.
LEMMA SentDown ==
  ASSUME down \in Seq(DownFrame), NEW k \in FromRelay \cup {"eof"}
  PROVE  /\ Sent(down, k) \in Seq(DownFrame)
         /\ link = "up" => Sent(down, k) # <<>>
         /\ \A i \in DOMAIN Sent(down, k) :
              (i \in DOMAIN down /\ Sent(down, k)[i] = down[i]) \/ Sent(down, k)[i].kind = k
         /\ down # <<>> => Sent(down, k)[1] = down[1]
         /\ down = <<>> /\ link = "up" => Sent(down, k)[1].age = 0
<1> DEFINE K == FromRelay \cup {"eof"}
<1>1. down \in Seq([kind : K, age : 0..MaxDelay]) /\ k \in K
  BY Zenon DEF DownFrame, FromClient
<1>2. [kind |-> k, age |-> 0].kind = k
  BY Zenon
<1> HIDE DEF K
<1>3. /\ Sent(down, k) \in Seq([kind : K, age : 0..MaxDelay])
      /\ link = "up" => Sent(down, k) # <<>>
      /\ \A i \in DOMAIN Sent(down, k) :
           (i \in DOMAIN down /\ Sent(down, k)[i] = down[i]) \/ Sent(down, k)[i] = [kind |-> k, age |-> 0]
      /\ down # <<>> => Sent(down, k)[1] = down[1]
      /\ down = <<>> /\ link = "up" => Sent(down, k)[1].age = 0
  BY <1>1, SentFacts, Zenon
<1>4. Sent(down, k) \in Seq(DownFrame)
  BY <1>3, Zenon DEF DownFrame, K
<1> QED
  BY <1>2, <1>3, <1>4, Zenon

\* A tick ages what is on its way up,
LEMMA OlderUp ==
  ASSUME up \in Seq(UpFrame), Timely(up)
  PROVE  /\ Older(up) \in Seq(UpFrame)
         /\ Older(up) = <<>> <=> up = <<>>
         /\ DOMAIN Older(up) = DOMAIN up
         /\ \A i \in DOMAIN up : Older(up)[i].kind = up[i].kind /\ Older(up)[i].age = up[i].age + 1
         /\ up # <<>> => 1 \in DOMAIN up
BY OlderFacts, Zenon DEF UpFrame

\* and what is on its way down.
LEMMA OlderDown ==
  ASSUME down \in Seq(DownFrame), Timely(down)
  PROVE  /\ Older(down) \in Seq(DownFrame)
         /\ Older(down) = <<>> <=> down = <<>>
         /\ DOMAIN Older(down) = DOMAIN down
         /\ \A i \in DOMAIN down : Older(down)[i].kind = down[i].kind /\ Older(down)[i].age = down[i].age + 1
         /\ down # <<>> => 1 \in DOMAIN down
BY OlderFacts, Zenon DEF DownFrame

\* Every step keeps the link, the out channel and the frame in the writer's hands well formed.
LEMMA ChannelStep ==
  ASSUME Scalars, Channels, HoldsFrame, [Next]_vars
  PROVE  Channels' /\ HoldsFrame'
<1> USE DEF Channels, HoldsFrame
<1> USE DEF netVars, hubVars, readerVars, writerVars, clientVars
<1>1. CASE LinkDies
  <2>1. <<>> \in Seq(UpFrame) /\ <<>> \in Seq(DownFrame)
    OBVIOUS
  <2> QED
    BY <1>1, <2>1, Zenon DEF LinkDies
<1>2. CASE Tick
  <2>1. Timely(up) => Older(up) \in Seq(UpFrame)
    BY OlderUp, Zenon
  <2>2. Timely(down) => Older(down) \in Seq(DownFrame)
    BY OlderDown, Zenon
  <2>3. <<>> \in Seq(UpFrame) /\ <<>> \in Seq(DownFrame)
    OBVIOUS
  <2>4. up' \in Seq(UpFrame) /\ down' \in Seq(DownFrame)
    BY <1>2, <2>1, <2>2, <2>3, Zenon DEF Tick, Waiting
  <2> QED
    BY <1>2, <2>4, Zenon DEF Tick
<1>3. CASE HubQueues
  BY <1>3, QueuedFacts, Zenon DEF HubQueues, FromRelay
<1>4. CASE HubKicks
  BY <1>4, QueuedFacts, Zenon DEF HubKicks, FromRelay
<1>5. CASE HubReadsLeave
  BY <1>5, Zenon DEF HubReadsLeave
<1>6. CASE ReadPing
  <2>1. Tail(up) \in Seq(UpFrame)
    BY <1>6, TailFacts, Zenon DEF ReadPing
  <2>2. Pong \in Seq(FromRelay) /\ Len(Pong) <= OutCap
    BY QueuedFacts, Zenon DEF Pong, FromRelay
  <2> QED
    BY <1>6, <2>1, <2>2, Zenon DEF ReadPing
<1>7. CASE ReadEnds
  BY <1>7, SentDown, Zenon DEF ReadEnds, RelayCloses
<1>8. CASE SendLeave
  BY <1>8, Zenon DEF SendLeave
<1>9. CASE StopWriter
  BY <1>9, Zenon DEF StopWriter
<1>10. CASE Teardown
  BY <1>10, SentDown, Zenon DEF Teardown, RelayCloses
<1>11. ASSUME NEW f \in {"select", "drain"}, NEW t \in {"write", "flush"}, Takes(f, t)
       PROVE  Channels' /\ HoldsFrame'
  <2>1. Head(out) \in FromRelay /\ Tail(out) \in Seq(FromRelay) /\ Len(Tail(out)) <= OutCap
    BY <1>11, TailFacts, Numbers DEF Takes
  <2> QED
    BY <1>11, <2>1, Zenon DEF Takes
<1>12. ASSUME NEW f \in {"write", "flush"}, NEW t \in {"select", "drain"}, Writes(f, t)
       PROVE  Channels' /\ HoldsFrame'
  <2>1. Sent(down, writing) \in Seq(DownFrame)
    BY <1>12, SentDown, Zenon DEF Writes
  <2> QED
    BY <1>12, <2>1, Zenon DEF Writes
<1>13. CASE WriteFails
  BY <1>13, Zenon DEF WriteFails
<1>14. CASE SeesKick
  BY <1>14, Zenon DEF SeesKick, AfterKick
<1>15. CASE Drained
  BY <1>15, Zenon DEF Drained
<1>16. CASE PingPasses
  BY <1>16, SentUp, Zenon DEF PingPasses
<1>17. CASE PingFails
  BY <1>17, SentUp, Zenon DEF PingFails, ClientEnds
<1>18. CASE ClientReads
  <2>1. Tail(down) \in Seq(DownFrame)
    BY <1>18, TailFacts, Zenon DEF ClientReads
  <2>2. up' \in Seq(UpFrame)
    BY <1>18, SentUp, Zenon DEF ClientReads, ClientEnds
  <2> QED
    BY <1>18, <2>1, <2>2, Zenon DEF ClientReads
<1>19. CASE ClientReadFails
  BY <1>19, SentUp, Zenon DEF ClientReadFails, ClientEnds
<1>20. CASE ClientCloses
  BY <1>20, SentUp, Zenon DEF ClientCloses, ClientEnds
<1>21. CASE UNCHANGED vars
  BY <1>21, Zenon DEF vars
<1> QED
  BY <1>1, <1>2, <1>3, <1>4, <1>5, <1>6, <1>7, <1>8, <1>9, <1>10, <1>11, <1>12, <1>13, <1>14, <1>15, <1>16,
     <1>17, <1>18, <1>19, <1>20, <1>21, Zenon DEF Next, Handler, Writer, Pinger, CReader

\* Every step keeps the other variables well formed.
LEMMA ScalarStep ==
  ASSUME Scalars, Channels, HoldsFrame, [Next]_vars
  PROVE  Scalars'
<1> USE DEF Scalars
<1> USE DEF netVars, hubVars, readerVars, writerVars, clientVars
<1>1. CASE LinkDies
  BY <1>1 DEF LinkDies
<1>2. CASE Tick
  <2>1. idle' \in 0..IdleTimeout /\ silent' \in 0..ReadTimeout /\ sincePing' \in 0..PingInterval
    BY <1>2, Numbers DEF Tick, Waiting
  <2> QED
    BY <1>2, <2>1 DEF Tick
<1>3. CASE HubQueues
  <2>1. data' \in 0..MaxData
    BY <1>3, Numbers DEF HubQueues
  <2>2. kicked' \in BOOLEAN
    BY <1>3, Zenon DEF HubQueues
  <2>3. hub' \in {"serving", "kicked", "left"}
    BY <1>3, Zenon DEF HubQueues
  <2>4. UNCHANGED <<link, told, ctx, rconn, reader, idle, writer, writing, clientVars>>
    BY <1>3, Zenon DEF HubQueues
  <2> QED
    BY <2>1, <2>2, <2>3, <2>4
<1>4. CASE HubKicks
  <2>1. Room \in BOOLEAN
    BY DEF Room
  <2>2. told' \in BOOLEAN
    BY <1>4, <2>1, Zenon DEF HubKicks
  <2>3. kicked' \in BOOLEAN
    BY <1>4, Zenon DEF HubKicks
  <2> QED
    BY <1>4, <2>2, <2>3 DEF HubKicks
<1>5. CASE HubReadsLeave
  BY <1>5 DEF HubReadsLeave
<1>6. CASE ReadPing
  BY <1>6, Numbers DEF ReadPing
<1>7. CASE ReadEnds
  BY <1>7 DEF ReadEnds, RelayCloses
<1>8. CASE SendLeave
  BY <1>8 DEF SendLeave
<1>9. CASE StopWriter
  BY <1>9 DEF StopWriter
<1>10. CASE Teardown
  BY <1>10 DEF Teardown, RelayCloses
<1>11. ASSUME NEW f \in {"select", "drain"}, NEW t \in {"write", "flush"}, Takes(f, t)
       PROVE  Scalars'
  <2>1. Head(out) \in FromRelay
    BY <1>11, TailFacts, Zenon DEF Takes, Channels
  <2> QED
    BY <1>11, <2>1 DEF Takes
<1>12. ASSUME NEW f \in {"write", "flush"}, NEW t \in {"select", "drain"}, Writes(f, t)
       PROVE  Scalars'
  BY <1>12 DEF Writes
<1>13. CASE WriteFails
  BY <1>13 DEF WriteFails
<1>14. CASE SeesKick
  BY <1>14 DEF SeesKick, AfterKick
<1>15. CASE Drained
  BY <1>15 DEF Drained
<1>16. CASE PingPasses
  BY <1>16, Numbers DEF PingPasses
<1>17. CASE PingFails
  BY <1>17, Numbers DEF PingFails, ClientEnds
<1>18. CASE ClientReads
  <2>1. creader' \in {creader, "lost", "closed"} /\ cconn' \in {cconn, "closed"}
    BY <1>18, Zenon DEF ClientReads, ClientEnds
  <2>2. silent' \in 0..ReadTimeout
    BY <1>18, Numbers DEF ClientReads
  <2> QED
    BY <1>18, <2>1, <2>2 DEF ClientReads
<1>19. CASE ClientReadFails
  BY <1>19 DEF ClientReadFails, ClientEnds
<1>20. CASE ClientCloses
  BY <1>20 DEF ClientCloses, ClientEnds
<1>21. CASE UNCHANGED vars
  BY <1>21 DEF vars
<1> QED
  BY <1>1, <1>2, <1>3, <1>4, <1>5, <1>6, <1>7, <1>8, <1>9, <1>10, <1>11, <1>12, <1>13, <1>14, <1>15, <1>16,
     <1>17, <1>18, <1>19, <1>20, <1>21, Zenon DEF Next, Handler, Writer, Pinger, CReader

-----------------------------------------------------------------------------
(* What never comes back, and what a client has sent.                      *)

\* A dead link, a connection its client has closed, a hub that has let go of
\* the client and a writer that has returned stay so.
LEMMA NeverBack ==
  ASSUME Scalars, [Next]_vars
  PROVE  /\ link' = "up" => link = "up"
         /\ cconn' = "open" => cconn = "open"
         /\ hub' = "serving" => hub = "serving"
         /\ hub' = "kicked" => hub \in {"serving", "kicked"}
         /\ writer = "done" => writer' = "done"
<1> USE DEF netVars, hubVars, readerVars, writerVars, clientVars
<1>1. CASE LinkDies \/ Tick
  BY <1>1, Zenon DEF LinkDies, Tick
<1>2. CASE HubQueues \/ HubKicks \/ HubReadsLeave
  BY <1>2, Zenon DEF HubQueues, HubKicks, HubReadsLeave
<1>3. CASE Handler
  BY <1>3, Zenon DEF Handler, ReadPing, ReadEnds, SendLeave, StopWriter, Teardown
<1>4. CASE Writer
  BY <1>4, Zenon DEF Writer, Takes, Writes, WriteFails, SeesKick, Drained
<1>5. CASE Pinger
  BY <1>5, Zenon DEF Pinger, PingPasses, PingFails, ClientEnds
<1>6. CASE CReader \/ ClientCloses
  <2>1. UNCHANGED <<link, hub, writer>> /\ cconn' \in {cconn, "closed"}
    BY <1>6, Zenon DEF CReader, ClientReads, ClientReadFails, ClientCloses, ClientEnds
  <2> QED
    BY <2>1, Zenon
<1>7. CASE UNCHANGED vars
  BY <1>7, Zenon DEF vars
<1> QED
  BY <1>1, <1>2, <1>3, <1>4, <1>5, <1>6, <1>7, Zenon DEF Next

\* An end that has not been closed by its client got nothing but pings.
LEMMA OnlyPingsStep ==
  ASSUME Scalars, Channels, OnlyPings, [Next]_vars
  PROVE  OnlyPings'
<1> SUFFICES ASSUME cconn' = "open" PROVE \A i \in DOMAIN up' : up'[i].kind = "ping"
  BY Zenon DEF OnlyPings
<1> DEFINE Pings(q) == \A i \in DOMAIN q : q[i].kind = "ping"
<1> USE DEF netVars, hubVars, readerVars, writerVars, clientVars
<1>1. Pings(up)
  BY NeverBack, Zenon DEF OnlyPings
<1>2. Pings(<<>>)
  OBVIOUS
<1>3. up # <<>> => Pings(Tail(up))
  BY <1>1, TailFacts DEF Channels
<1>4. Timely(up) => Pings(Older(up))
  BY <1>1, OlderUp, Zenon DEF Channels
<1>5. Pings(Sent(up, "ping"))
  BY <1>1, SentUp, Zenon DEF Channels
<1> HIDE DEF Pings
<1>6. CASE LinkDies
  BY <1>2, <1>6, Zenon DEF LinkDies, Pings
<1>7. CASE Tick
  BY <1>2, <1>4, <1>7, Zenon DEF Tick, Waiting, Pings
<1>8. CASE HubQueues \/ HubKicks \/ HubReadsLeave
  BY <1>1, <1>8, Zenon DEF HubQueues, HubKicks, HubReadsLeave, Pings
<1>9. CASE Handler
  BY <1>1, <1>3, <1>9, Zenon DEF Handler, ReadPing, ReadEnds, SendLeave, StopWriter, Teardown, Pings
<1>10. CASE Writer
  BY <1>1, <1>10, Zenon DEF Writer, Takes, Writes, WriteFails, SeesKick, Drained, Pings
<1>11. CASE Pinger
  BY <1>1, <1>5, <1>11, Zenon DEF Pinger, PingPasses, PingFails, ClientEnds, Pings
<1>12. CASE CReader
  <2>1. up' = up
    BY <1>12, Zenon DEF CReader, ClientReads, ClientReadFails, ClientEnds
  <2> QED
    BY <1>1, <2>1, Zenon DEF Pings
<1>13. CASE ClientCloses
  BY <1>13, Zenon DEF ClientCloses, ClientEnds
<1>14. CASE UNCHANGED vars
  BY <1>1, <1>14, Zenon DEF vars, Pings
<1> QED
  BY <1>6, <1>7, <1>8, <1>9, <1>10, <1>11, <1>12, <1>13, <1>14, Zenon DEF Next

-----------------------------------------------------------------------------
(* A healthy connection.                                                   *)

\* The ages of what is next to arrive.
LEMMA FirstAges ==
  ASSUME Channels
  PROVE  /\ up # <<>> => up[1].age \in 0..MaxDelay
         /\ down # <<>> => down[1].age \in 0..MaxDelay
<1>1. up # <<>> => up[1] \in UpFrame
  BY ElementFacts, Zenon DEF Channels
<1>2. down # <<>> => down[1] \in DownFrame
  BY ElementFacts, Zenon DEF Channels
<1> QED
  BY <1>1, <1>2, Zenon DEF UpFrame, DownFrame

\* While all is well neither deadline is reached.
LEMMA WithinDeadlines ==
  ASSUME Scalars, Channels, PingsArrive, AnswersArrive
  PROVE  /\ idle < IdleTimeout /\ silent < ReadTimeout
         /\ down = <<>> => silent <= MaxDelay + PingInterval
<1>1. idle \in Nat /\ silent \in Nat /\ sincePing \in Nat /\ sincePing <= PingInterval
  BY Numbers DEF Scalars
<1>2. idle < IdleTimeout
  <2>1. CASE up = <<>>
    BY <1>1, <2>1, Numbers DEF PingsArrive
  <2>2. CASE up # <<>>
    <3>1. up[1].age \in Nat /\ up[1].age <= MaxDelay /\ idle <= up[1].age + PingInterval
      BY <2>2, FirstAges, Numbers DEF PingsArrive
    <3> QED
      BY <1>1, <3>1, Numbers
  <2> QED
    BY <2>1, <2>2, Zenon
<1>3. down = <<>> => silent <= MaxDelay + PingInterval
  <2>1. CASE out # <<>> \/ writer = "write"
    BY <2>1, Zenon DEF AnswersArrive
  <2>2. CASE ~(out # <<>> \/ writer = "write") /\ up # <<>>
    <3>1. up[1].age \in Nat /\ up[1].age <= MaxDelay
      BY <2>2, FirstAges, Numbers
    <3> QED
      BY <1>1, <2>2, <3>1, Numbers DEF AnswersArrive
  <2>3. CASE ~(out # <<>> \/ writer = "write") /\ up = <<>>
    BY <1>1, <2>3, Numbers DEF AnswersArrive
  <2> QED
    BY <2>1, <2>2, <2>3, Zenon
<1>4. silent < ReadTimeout
  <2>1. CASE down = <<>>
    BY <1>1, <1>3, <2>1, Numbers
  <2>2. CASE down # <<>>
    <3>1. down[1].age \in Nat /\ down[1].age <= MaxDelay /\ silent <= down[1].age + MaxDelay + PingInterval
      BY <2>2, FirstAges, Numbers DEF AnswersArrive
    <3> QED
      BY <1>1, <3>1, Numbers
  <2> QED
    BY <2>1, <2>2, Zenon
<1> QED
  BY <1>2, <1>3, <1>4, Zenon

\* A step after which all is well is one from a state in which all was well,
\* and it leaves everyone running and both ends in touch.
LEMMA HealthyStep ==
  ASSUME ConnInv, Channels', [Next]_vars, Healthy'
  PROVE  AllRunning' /\ PingsArrive' /\ AnswersArrive'
<1> USE DEF netVars, hubVars, readerVars, writerVars, clientVars
<1>0. Scalars /\ Channels /\ HoldsFrame
  BY TypeParts, Zenon DEF ConnInv
<1>1. link = "up" /\ hub = "serving" /\ cconn = "open"
  BY <1>0, NeverBack, Zenon DEF Healthy
<1>2. AllRunning /\ PingsArrive /\ AnswersArrive
  BY <1>1, Zenon DEF ConnInv, Healthy
<1>3. idle < IdleTimeout /\ silent < ReadTimeout /\ (down = <<>> => silent <= MaxDelay + PingInterval)
  BY <1>0, <1>2, WithinDeadlines, Zenon
<1>4. /\ reader = "reading" /\ rconn = "open" /\ ~ctx /\ ~kicked
      /\ writer \in {"select", "write"} /\ writing # "closed"
      /\ creader = "reading" /\ pinger = "running"
      /\ \A i \in DOMAIN out : out[i] # "closed"
      /\ \A i \in DOMAIN down : down[i].kind \in {"data", "pong"}
  BY <1>2, Zenon DEF AllRunning
<1>5. /\ idle \in Nat /\ silent \in Nat /\ sincePing \in Nat /\ sincePing <= PingInterval
      /\ IdleTimeout \in Nat /\ ReadTimeout \in Nat /\ PingInterval \in Nat /\ MaxDelay \in Nat
      /\ sincePing # PingInterval => sincePing < PingInterval
  BY <1>0, Numbers DEF Scalars
<1>6. /\ up # <<>> => up[1].age \in Nat /\ up[1].age <= MaxDelay
      /\ down # <<>> => down[1].age \in Nat /\ down[1].age <= MaxDelay
  BY <1>0, FirstAges, Numbers
<1>7. CASE LinkDies \/ HubKicks \/ HubReadsLeave \/ ClientCloses
  BY <1>7, Zenon DEF LinkDies, HubKicks, HubReadsLeave, ClientCloses, ClientEnds, Healthy
<1>8. CASE Tick
  <2>1. /\ Timely(up) /\ Timely(down) /\ writer = "select" /\ out = <<>>
        /\ up' = Older(up) /\ down' = Older(down) /\ out' = out /\ writer' = writer
        /\ idle' = idle + 1 /\ silent' = silent + 1 /\ sincePing' = sincePing + 1
    BY <1>1, <1>4, <1>8, Zenon DEF Tick, Waiting
  <2>2. AllRunning'
    <3>1. \A i \in DOMAIN down' : down'[i].kind \in {"data", "pong"}
      BY <1>0, <1>4, <2>1, OlderDown, Zenon DEF Channels
    <3>2. UNCHANGED <<reader, rconn, ctx, kicked, writer, writing, creader, pinger, out>>
      BY <1>8, Zenon DEF Tick
    <3> QED
      BY <1>4, <3>1, <3>2, Zenon DEF AllRunning
  <2>3. (up' = <<>> <=> up = <<>>) /\ (up # <<>> => up'[1].age = up[1].age + 1)
    BY <1>0, <2>1, OlderUp, Zenon DEF Channels
  <2>4. (down' = <<>> <=> down = <<>>) /\ (down # <<>> => down'[1].age = down[1].age + 1)
    BY <1>0, <2>1, OlderDown, Zenon DEF Channels
  <2>5. PingsArrive'
    BY <1>2, <1>5, <1>6, <2>1, <2>3, SMTT(30) DEF PingsArrive
  <2>6. AnswersArrive'
    <3>1. CASE down # <<>>
      <4>1. silent <= down[1].age + MaxDelay + PingInterval
        BY <1>2, <3>1, Zenon DEF AnswersArrive
      <4>2. silent' <= down'[1].age + MaxDelay + PingInterval
        <5> DEFINE x == down[1].age  y == down'[1].age  z == silent'
        <5>1. x \in Nat /\ y = x + 1 /\ z = silent + 1 /\ silent <= x + MaxDelay + PingInterval
          BY <1>6, <2>1, <2>4, <3>1, <4>1, Zenon
        <5> HIDE DEF x, y, z
        <5>2. z <= y + MaxDelay + PingInterval
          BY <1>5, <5>1
        <5> QED
          BY <5>2, Zenon DEF y, z
      <4> QED
        BY <2>4, <3>1, <4>2, Zenon DEF AnswersArrive
    <3>2. CASE down = <<>>
      <4>1. silent <= IF up # <<>> THEN up[1].age + PingInterval ELSE sincePing
        BY <1>2, <2>1, <3>2, Zenon DEF AnswersArrive
      <4>2. silent' <= IF up' # <<>> THEN up'[1].age + PingInterval ELSE sincePing'
        BY <1>5, <1>6, <2>1, <2>3, <4>1, SMTT(30)
      <4> QED
        BY <2>1, <2>4, <3>2, <4>2, Zenon DEF AnswersArrive
    <3> QED
      BY <3>1, <3>2, Zenon
  <2> QED
    BY <2>2, <2>5, <2>6, Zenon
<1>9. CASE HubQueues
  <2>1. Room /\ out' = Queued("data") /\ kicked' = kicked
    BY <1>1, <1>9, Zenon DEF HubQueues, Healthy
  <2>2. UNCHANGED <<reader, rconn, ctx, writer, writing, creader, pinger, up, down, idle, silent, sincePing>>
    BY <1>9, Zenon DEF HubQueues
  <2>3. out' # <<>> /\ \A i \in DOMAIN out' : out'[i] # "closed"
    BY <1>0, <1>4, <2>1, QueuedFacts, Zenon DEF Channels, FromRelay
  <2>4. AllRunning'
    BY <1>4, <2>1, <2>2, <2>3, Zenon DEF AllRunning
  <2>5. PingsArrive'
    BY <1>2, <2>2, Zenon DEF PingsArrive
  <2>6. AnswersArrive'
    BY <1>2, <1>3, <2>2, <2>3, Zenon DEF AnswersArrive
  <2> QED
    BY <2>4, <2>5, <2>6, Zenon
<1>10. CASE ReadPing
  <2>1. UNCHANGED <<reader, rconn, ctx, kicked, writer, writing, creader, pinger, down, silent, sincePing>>
    BY <1>10, Zenon DEF ReadPing
  <2>2. out' # <<>> /\ \A i \in DOMAIN out' : out'[i] # "closed"
    <3>1. out' = Queued("pong")
      BY <1>10, Zenon DEF ReadPing, Pong
    <3> QED
      BY <1>0, <1>4, <3>1, QueuedFacts, Zenon DEF Channels, FromRelay
  <2>3. AllRunning'
    BY <1>4, <2>1, <2>2, Zenon DEF AllRunning
  <2>4. up' # <<>> => up'[1].age \in Nat
    <3>1. up' # <<>> => up'[1] \in UpFrame
      BY ElementFacts, Zenon DEF Channels
    <3> QED
      BY <3>1, Numbers DEF UpFrame
  <2>5. idle' = 0
    BY <1>10, Zenon DEF ReadPing
  <2>6. PingsArrive'
    BY <1>5, <2>1, <2>4, <2>5 DEF PingsArrive
  <2>7. AnswersArrive'
    BY <1>2, <1>3, <2>1, <2>2, Zenon DEF AnswersArrive
  <2> QED
    BY <2>3, <2>6, <2>7, Zenon
<1>11. ~ReadEnds
  <2>1. up # <<>> => Head(up).kind = "ping"
    BY <1>0, <1>1, TailFacts DEF ConnInv, OnlyPings, Channels
  <2> QED
    BY <1>3, <1>4, <1>5, <2>1 DEF ReadEnds
<1>12. ~SendLeave /\ ~StopWriter /\ ~Teardown
  BY <1>4, Zenon DEF SendLeave, StopWriter, Teardown
<1>13. CASE Takes("select", "write")
  <2>1. UNCHANGED <<reader, rconn, ctx, kicked, creader, pinger, up, down, idle, silent, sincePing>>
    BY <1>13, Zenon DEF Takes
  <2>2. writer' = "write" /\ writing' # "closed" /\ \A i \in DOMAIN out' : out'[i] # "closed"
    BY <1>0, <1>4, <1>13, TailFacts DEF Takes, Channels
  <2>3. AllRunning'
    BY <1>4, <2>1, <2>2, Zenon DEF AllRunning
  <2>4. PingsArrive'
    BY <1>2, <2>1, Zenon DEF PingsArrive
  <2>5. AnswersArrive'
    BY <1>2, <1>3, <2>1, <2>2, Zenon DEF AnswersArrive
  <2> QED
    BY <2>3, <2>4, <2>5, Zenon
<1>14. CASE Writes("write", "select")
  <2>1. UNCHANGED <<reader, rconn, ctx, kicked, creader, pinger, out, up, idle, silent, sincePing>>
    BY <1>14, Zenon DEF Writes
  <2>2. down' = Sent(down, writing) /\ writing \in {"data", "pong"} /\ writer' = "select" /\ writing' = "none"
    BY <1>0, <1>1, <1>4, <1>14, Zenon DEF Writes, HoldsFrame, FromRelay
  <2>3. /\ down' # <<>> /\ (down # <<>> => down'[1] = down[1]) /\ (down = <<>> => down'[1].age = 0)
        /\ \A i \in DOMAIN down' : (i \in DOMAIN down /\ down'[i] = down[i]) \/ down'[i].kind = writing
    BY <1>0, <1>1, <2>2, SentDown, Zenon DEF Channels, FromRelay
  <2>4. AllRunning'
    BY <1>4, <2>1, <2>2, <2>3, Zenon DEF AllRunning
  <2>5. PingsArrive'
    BY <1>2, <2>1, Zenon DEF PingsArrive
  <2>6. AnswersArrive'
    <3>1. CASE down # <<>>
      BY <1>2, <2>1, <2>3, <3>1, Zenon DEF AnswersArrive
    <3>2. CASE down = <<>>
      BY <1>3, <1>5, <2>1, <2>3, <3>2 DEF AnswersArrive
    <3> QED
      BY <3>1, <3>2, Zenon
  <2> QED
    BY <2>4, <2>5, <2>6, Zenon
<1>15. ~Takes("drain", "flush") /\ ~Writes("flush", "drain") /\ ~WriteFails /\ ~SeesKick /\ ~Drained
  BY <1>1, <1>4, Zenon DEF Takes, Writes, WriteFails, SeesKick, Drained
<1>16. CASE PingPasses
  <2>1. UNCHANGED <<reader, rconn, ctx, kicked, writer, writing, creader, pinger, out, down, idle, silent>>
    BY <1>16, Zenon DEF PingPasses
  <2>2. up' = Sent(up, "ping") /\ sincePing = PingInterval
    BY <1>4, <1>16, Zenon DEF PingPasses
  <2>3. up' # <<>> /\ (up # <<>> => up'[1] = up[1]) /\ (up = <<>> => up'[1].age = 0)
    BY <1>0, <1>1, <2>2, SentUp, Zenon DEF Channels
  <2>4. AllRunning'
    BY <1>4, <2>1, Zenon DEF AllRunning
  <2>5. PingsArrive'
    <3>1. idle <= IF up = <<>> THEN PingInterval ELSE up[1].age + PingInterval
      BY <1>2, <2>2, Zenon DEF PingsArrive
    <3>2. idle <= up'[1].age + PingInterval
      BY <1>5, <2>3, <3>1
    <3> QED
      BY <2>1, <2>3, <3>2, Zenon DEF PingsArrive
  <2>6. AnswersArrive'
    <3>1. CASE down # <<>> \/ out # <<>> \/ writer = "write"
      BY <1>2, <2>1, <3>1, Zenon DEF AnswersArrive
    <3>2. CASE down = <<>> /\ out = <<>> /\ writer # "write"
      <4>1. silent <= IF up # <<>> THEN up[1].age + PingInterval ELSE PingInterval
        BY <1>2, <2>2, <3>2, Zenon DEF AnswersArrive
      <4>2. silent <= up'[1].age + PingInterval
        BY <1>5, <2>3, <4>1
      <4> QED
        BY <2>1, <2>3, <3>2, <4>2, Zenon DEF AnswersArrive
    <3> QED
      BY <3>1, <3>2, Zenon
  <2> QED
    BY <2>4, <2>5, <2>6, Zenon
<1>17. ~PingFails
  BY <1>1, <1>4, Zenon DEF PingFails
<1>18. CASE ClientReads
  <2>1. Head(down).kind \in {"data", "pong"} /\ \A i \in DOMAIN Tail(down) : Tail(down)[i].kind \in {"data", "pong"}
    BY <1>0, <1>4, <1>18, TailFacts DEF ClientReads, Channels
  <2>2. Head(down).kind # "eof" /\ Head(down).kind # "closed"
    BY <2>1, Zenon
  <2>3. UNCHANGED <<creader, cconn, up>>
    BY <1>18, <2>2, Zenon DEF ClientReads
  <2>4. UNCHANGED <<reader, rconn, ctx, kicked, writer, writing, pinger, out, idle, sincePing>>
    BY <1>18, Zenon DEF ClientReads
  <2>5. down' = Tail(down) /\ silent' = 0
    BY <1>18, Zenon DEF ClientReads
  <2>6. AllRunning'
    BY <1>4, <2>1, <2>3, <2>4, <2>5, Zenon DEF AllRunning
  <2>7. PingsArrive'
    BY <1>2, <2>3, <2>4, Zenon DEF PingsArrive
  <2>8. down' # <<>> => down'[1].age \in Nat
    <3>1. down' # <<>> => down'[1] \in DownFrame
      BY ElementFacts, Zenon DEF Channels
    <3> QED
      BY <3>1, Numbers DEF DownFrame
  <2>9. AnswersArrive'
    BY <1>5, <1>6, <2>3, <2>4, <2>5, <2>8, SMTT(30) DEF AnswersArrive
  <2> QED
    BY <2>6, <2>7, <2>9, Zenon
<1>19. ~ClientReadFails
  BY <1>1, <1>3, <1>5 DEF ClientReadFails, Deadline
<1>20. CASE UNCHANGED vars
  <2>1. UNCHANGED <<reader, rconn, ctx, kicked, writer, writing, creader, pinger, out, up, down, idle, silent, sincePing>>
    BY <1>20, Zenon DEF vars
  <2> QED
    BY <1>2, <2>1, Zenon DEF AllRunning, PingsArrive, AnswersArrive
<1> QED
  BY <1>7, <1>8, <1>9, <1>10, <1>11, <1>12, <1>13, <1>14, <1>15, <1>16, <1>17, <1>18, <1>19, <1>20, Zenon
  DEF Next, Handler, Writer, Pinger, CReader

-----------------------------------------------------------------------------
(* A kicked connection.                                                    *)

\* Until the writer has flushed the channel the handler of a kicked client
\* neither stops reading nor closes the connection.
LEMMA FlushStep ==
  ASSUME ConnInv, [Next]_vars, Flushing'
  PROVE  NotGivenUp'
<1> USE DEF netVars, hubVars, readerVars, writerVars, clientVars
<1>0. Scalars /\ Channels /\ IdleTimeout \in Nat /\ 0 < IdleTimeout
  BY TypeParts, Numbers DEF ConnInv
<1>1. link = "up" /\ hub \in {"serving", "kicked"} /\ cconn = "open" /\ writer # "done"
  BY <1>0, NeverBack, Zenon DEF Flushing
<1>2. CASE hub = "serving"
  <2>1. AllRunning /\ PingsArrive /\ AnswersArrive
    BY <1>1, <1>2, Zenon DEF ConnInv, Healthy
  <2>2. idle < IdleTimeout
    BY <1>0, <2>1, WithinDeadlines, Zenon
  <2>3. HubQueues \/ HubKicks
    <3>1. hub' # hub
      BY <1>2, Zenon DEF Flushing
    <3>2. ~(LinkDies \/ Tick) /\ ~Handler
      BY <3>1, Zenon DEF LinkDies, Tick, Handler, ReadPing, ReadEnds, SendLeave, StopWriter, Teardown
    <3>3. ~Writer /\ ~Pinger
      BY <3>1, Zenon DEF Writer, Takes, Writes, WriteFails, SeesKick, Drained, Pinger, PingPasses, PingFails
    <3>4. ~CReader /\ ~ClientCloses
      BY <3>1, Zenon DEF CReader, ClientReads, ClientReadFails, ClientCloses
    <3>5. ~HubReadsLeave /\ ~UNCHANGED vars
      BY <3>1, Zenon DEF HubReadsLeave, vars, Flushing
    <3> QED
      BY <3>2, <3>3, <3>4, <3>5, Zenon DEF Next
  <2>4. UNCHANGED <<reader, rconn, ctx, idle>> /\ kicked'
    BY <1>2, <2>3, Zenon DEF HubQueues, HubKicks, Flushing
  <2> QED
    BY <2>1, <2>2, <2>4, Zenon DEF AllRunning, NotGivenUp
<1>3. CASE hub = "kicked"
  <2>1. reader = "reading" /\ rconn = "open" /\ ~ctx /\ kicked /\ idle < IdleTimeout
    BY <1>1, <1>3, Zenon DEF ConnInv, Flushing, NotGivenUp
  <2>2. ~LinkDies
    BY Zenon DEF LinkDies, Flushing
  <2>3. ~Tick
    BY <1>0, <1>1, <2>1, Zenon DEF Tick, Waiting, Scalars
  <2>4. ~HubQueues /\ ~HubKicks /\ ~HubReadsLeave
    BY <1>3, Zenon DEF HubQueues, HubKicks, HubReadsLeave
  <2>5. CASE ReadPing
    BY <1>0, <2>1, <2>5, Zenon DEF ReadPing, NotGivenUp
  <2>6. ~ReadEnds
    <3>1. up # <<>> => Head(up).kind = "ping"
      BY <1>0, <1>1, TailFacts DEF ConnInv, OnlyPings, Channels
    <3>2. idle # IdleTimeout
      BY <1>0, <2>1
    <3> QED
      BY <2>1, <3>1, <3>2, Zenon DEF ReadEnds
  <2>7. ~SendLeave /\ ~StopWriter /\ ~Teardown
    BY <2>1, Zenon DEF SendLeave, StopWriter, Teardown
  <2>8. CASE Writer
    <3>1. ~WriteFails /\ ~Drained
      BY <1>1, <2>1, Zenon DEF WriteFails, Drained, Flushing
    <3>2. UNCHANGED <<reader, rconn, kicked, idle>>
      BY <2>8, <3>1, Zenon DEF Writer, Takes, Writes, SeesKick
    <3>3. ctx' = ctx
      BY <2>8, <3>1, Zenon DEF Writer, Takes, Writes, SeesKick, AfterKick
    <3> QED
      BY <2>1, <3>2, <3>3, Zenon DEF NotGivenUp
  <2>9. CASE Pinger
    <3>1. UNCHANGED <<reader, rconn, ctx, kicked, idle>>
      BY <2>9, Zenon DEF Pinger, PingPasses, PingFails
    <3> QED
      BY <2>1, <3>1, Zenon DEF NotGivenUp
  <2>10. CASE CReader \/ ClientCloses
    <3>1. UNCHANGED <<reader, rconn, ctx, kicked, idle>>
      BY <2>10, Zenon DEF CReader, ClientReads, ClientReadFails, ClientCloses
    <3> QED
      BY <2>1, <3>1, Zenon DEF NotGivenUp
  <2>11. CASE UNCHANGED vars
    BY <2>1, <2>11, Zenon DEF vars, NotGivenUp
  <2> QED
    BY <2>2, <2>3, <2>4, <2>5, <2>6, <2>7, <2>8, <2>9, <2>10, <2>11, Zenon DEF Next, Handler
<1> QED
  BY <1>1, <1>2, <1>3, Zenon

\* The writer returns with the channel empty, and then only the handler's
\* pongs are queued.
LEMMA FlushedStep ==
  ASSUME ConnInv, [Next]_vars
  PROVE  FlushedOnKick'
<1> USE DEF netVars, hubVars, readerVars, writerVars, clientVars
<1> SUFFICES ASSUME hub' = "kicked", writer' = "done", link' = "up", cconn' = "open"
             PROVE  \A i \in DOMAIN out' : out'[i] = "pong"
  BY Zenon DEF FlushedOnKick
<1>0. Scalars /\ Channels
  BY TypeParts, Zenon DEF ConnInv
<1>1. link = "up" /\ hub \in {"serving", "kicked"} /\ cconn = "open"
  BY <1>0, NeverBack, Zenon
<1>2. CASE writer # "done"
  <2>1. WriteFails \/ Drained
    <3>1. writer' # writer
      BY <1>2, Zenon
    <3>2. ~(LinkDies \/ Tick) /\ ~Handler
      BY <3>1, Zenon DEF LinkDies, Tick, Handler, ReadPing, ReadEnds, SendLeave, StopWriter, Teardown
    <3>3. ~HubQueues /\ ~HubKicks /\ ~HubReadsLeave
      BY <3>1, Zenon DEF HubQueues, HubKicks, HubReadsLeave
    <3>4. ~CReader /\ ~ClientCloses /\ ~Pinger
      BY <3>1, Zenon DEF CReader, ClientReads, ClientReadFails, ClientCloses, Pinger, PingPasses, PingFails
    <3>5. Writer
      BY <3>1, <3>2, <3>3, <3>4, Zenon DEF Next, vars
    <3> QED
      BY <3>5, Zenon DEF Writer, Takes, Writes, SeesKick, AfterKick
  <2>2. hub = "kicked"
    BY <2>1, Zenon DEF WriteFails, Drained
  <2>3. rconn = "open"
    BY <1>1, <1>2, <2>2, Zenon DEF ConnInv, Flushing, NotGivenUp
  <2>4. Drained
    BY <1>1, <2>1, <2>3, Zenon DEF WriteFails
  <2> QED
    BY <2>4 DEF Drained
<1>3. CASE writer = "done"
  <2>1. hub = "kicked"
    BY <1>1, <1>3, Zenon DEF ConnInv, Healthy, AllRunning
  <2>2. \A i \in DOMAIN out : out[i] = "pong"
    BY <1>1, <1>3, <2>1, Zenon DEF ConnInv, FlushedOnKick
  <2>3. CASE out' = out
    BY <2>2, <2>3, Zenon
  <2>4. CASE ReadPing
    <3>1. out' = Queued("pong")
      BY <2>4, Zenon DEF ReadPing, Pong
    <3> QED
      BY <1>0, <2>2, <3>1, QueuedFacts, Zenon DEF Channels, FromRelay
  <2>5. ~HubQueues /\ ~HubKicks
    BY <2>1, Zenon DEF HubQueues, HubKicks
  <2>6. LinkDies \/ Tick \/ HubReadsLeave => out' = out
    BY Zenon DEF LinkDies, Tick, HubReadsLeave
  <2>7. ReadEnds \/ SendLeave \/ StopWriter \/ Teardown => out' = out
    BY Zenon DEF ReadEnds, SendLeave, StopWriter, Teardown
  <2>8. Writer => out' = out
    BY <1>3, Zenon DEF Writer, Takes, Writes, WriteFails, SeesKick, Drained
  <2>9. Pinger \/ CReader \/ ClientCloses => out' = out
    BY Zenon DEF CReader, ClientReads, ClientReadFails, ClientCloses, Pinger, PingPasses, PingFails
  <2> QED
    BY <2>3, <2>4, <2>5, <2>6, <2>7, <2>8, <2>9, Zenon DEF Next, Handler, vars
<1> QED
  BY <1>2, <1>3, Zenon

-----------------------------------------------------------------------------
(* The theorems.                                                           *)

\* It holds when the hello is over,
LEMMA ConnInit == Init => ConnInv
<1> SUFFICES ASSUME Init PROVE ConnInv
  BY Zenon
<1>1. Scalars
  <2>1. told \in BOOLEAN /\ kicked \in BOOLEAN /\ ctx \in BOOLEAN
    BY Zenon DEF Init
  <2>2. /\ data \in 0..MaxData /\ idle \in 0..IdleTimeout /\ silent \in 0..ReadTimeout
        /\ sincePing \in 0..PingInterval
    BY Numbers DEF Init
  <2> QED
    BY <2>1, <2>2, Zenon DEF Init, Scalars
<1>2. Channels
  <2>1. <<>> \in Seq(UpFrame) /\ <<>> \in Seq(DownFrame)
    OBVIOUS
  <2>2. <<"data">> \in Seq(FromRelay) /\ Len(<<"data">>) = 1
    BY DEF FromRelay
  <2> QED
    BY <2>1, <2>2, Numbers DEF Init, Channels
<1>3. HoldsFrame /\ OnlyPings /\ ~Flushing /\ FlushedOnKick
  BY DEF Init, HoldsFrame, OnlyPings, Flushing, FlushedOnKick
<1>4. AllRunning
  BY DEF Init, AllRunning
<1>5. PingsArrive /\ AnswersArrive
  BY Numbers DEF Init, PingsArrive, AnswersArrive
<1> QED
  BY <1>1, <1>2, <1>3, <1>4, <1>5, TypeParts, Zenon DEF ConnInv

\* and every step keeps it.
LEMMA ConnStep == ConnInv /\ [Next]_vars => ConnInv'
<1> SUFFICES ASSUME ConnInv, [Next]_vars PROVE ConnInv'
  BY Zenon
<1>1. Scalars /\ Channels /\ HoldsFrame /\ OnlyPings
  BY TypeParts, Zenon DEF ConnInv
<1>2. Scalars' /\ Channels' /\ HoldsFrame'
  BY <1>1, ScalarStep, ChannelStep, Zenon
<1>3. TypeOK'
  BY <1>2, PTL, TypeParts
<1>4. OnlyPings'
  BY <1>1, OnlyPingsStep, Zenon
<1>5. Healthy' => AllRunning' /\ PingsArrive' /\ AnswersArrive'
  BY <1>2, HealthyStep, Zenon
<1>6. Flushing' => NotGivenUp'
  BY FlushStep, Zenon
<1>7. FlushedOnKick'
  BY FlushedStep, Zenon
<1> QED
  BY <1>2, <1>3, <1>4, <1>5, <1>6, <1>7, Zenon DEF ConnInv

\* The inductive invariant holds of every state of every connection.
LEMMA ConnInvariance == Spec => []ConnInv
BY ConnInit, ConnStep, PTL DEF Spec

\* The types hold, and trySend and queueFrame keep the capacity of the out
\* channel, whatever the capacity and the timeouts.
THEOREM ConnectionTypes == Spec => []TypeOK
<1>1. ConnInv => TypeOK
  BY Zenon DEF ConnInv
<1> QED
  BY ConnInvariance, <1>1, PTL

\* pingLoop against IdleTimeout and readTimeout: with a ping interval that
\* leaves room for the latency of the link once (for the relay) and twice (for
\* the client), neither end of a link that is up gives the other up, however
\* full the out channel is and even if nobody says anything.
THEOREM HealthyConnectionsStay == Spec => []HealthyStays
<1>1. ConnInv => HealthyStays
  <2> SUFFICES ASSUME ConnInv, Healthy PROVE reader = "reading" /\ idle < IdleTimeout /\ silent < ReadTimeout
    BY Zenon DEF HealthyStays, Healthy
  <2>1. Scalars /\ Channels /\ AllRunning /\ PingsArrive /\ AnswersArrive
    BY TypeParts, Zenon DEF ConnInv
  <2> QED
    BY <2>1, WithinDeadlines, Zenon DEF AllRunning
<1> QED
  BY ConnInvariance, <1>1, PTL

\* kick closes a channel and leaves the context alone, and drainAndCancel
\* empties the out channel first: whatever the hub queued for a client it then
\* kicked is written before the writer returns, unless the link or the client is gone.
THEOREM KickedClientsAreFlushed == Spec => []FlushedOnKick
<1>1. ConnInv => FlushedOnKick
  BY Zenon DEF ConnInv
<1> QED
  BY ConnInvariance, <1>1, PTL

=============================================================================
