--------------------------- MODULE RelayHubProofs ---------------------------
(*****************************************************************************)
(* Theorems about RelayHub, for any number of connections and participants,  *)
(* any channel capacities, with or without a grace window: what each step    *)
(* does to the types of the state, to the slots and to the queue of          *)
(* evictions.                                                                *)
(*****************************************************************************)
EXTENDS HubGuarantees, TLAPS

-----------------------------------------------------------------------------
(* The inductive invariant.                                                *)

Hellos == {"join", "resume"}

\* A handler has an id exactly from the moment the hub's reply attached it.
HelloUnattached ==
  \A c \in Conns : /\ pc[c] \in {"idle", "hello"} => cid[c] = 0
                   /\ pc[c] = "open" => cid[c] # 0

\* The ids and generations handed out are bounded by the hub's.
GenBound ==
  \A c \in Conns : cid[c] # 0 => /\ cid[c] < nextID
                                 /\ cgen[c] <= gen[cid[c]]

\* No two connections were ever given the same generation of the same id.
GenUnique ==
  \A c, d \in Conns : cid[c] # 0 /\ cid[c] = cid[d] /\ cgen[c] = cgen[d] => c = d

\* A slot knows the connection that was last attached to it.
SlotConn ==
  \A i \in clients : /\ i < nextID
                     /\ cid[conn[i]] = i
                     /\ i \notin held => cgen[conn[i]] = gen[i]

\* A leave comes from a handler that has ended, with its id and generation.
LeaveFromClosed ==
  \A k \in DOMAIN inbox :
    inbox[k].op = "leave" =>
      \E c \in Conns : pc[c] = "closed" /\ cid[c] = inbox[k].id /\ cgen[c] = inbox[k].gen

\* A join or resume is the only one of a handler waiting for its reply.
HelloPending ==
  \A k \in DOMAIN inbox :
    inbox[k].op \in Hellos =>
      /\ pc[inbox[k].conn] = "hello"
      /\ \A l \in DOMAIN inbox :
           inbox[l].op \in Hellos /\ inbox[l].conn = inbox[k].conn => l = k

SlotInv ==
  /\ HelloUnattached
  /\ GenBound
  /\ GenUnique
  /\ SlotConn
  /\ LeaveFromClosed
  /\ HelloPending
  /\ LiveConnOwnsSlot
  /\ NoOrphanSlot
  /\ HeldHasTimer
  /\ OverMeansKicked

-----------------------------------------------------------------------------
(* Types.                                                                  *)

\* What a command carries follows from its op.
LEMMA CommandFields ==
  ASSUME NEW m \in Command
  PROVE  /\ m.op = "join" => m.conn \in Conns
         /\ m.op = "resume" => m.id \in Ids /\ m.token \in BOOLEAN /\ m.conn \in Conns
         /\ m.op = "leave" => m.id \in Ids /\ m.gen \in Nat /\ m.unexpected \in BOOLEAN
         /\ m.op = "grace" => m.id \in Ids /\ m.gen \in Nat
         /\ m.op = "frame" => m.from \in Ids /\ m.to \in 0..MaxID
         /\ m.op = "claim" => m.id \in Ids
BY Zenon DEF Command, JoinCmd, ResumeCmd, LeaveCmd, GraceCmd, FrameCmd, ClaimCmd, CloseCmd

\* Participant ids start at 1; 0 stands for no participant.
LEMMA IdRange == \A i \in Ids : i \in Nat \ {0} /\ i \in 0..MaxID
BY HubAssumption DEF Ids

\* Replacing the contents of one channel.
LEMMA ChanExcept ==
  ASSUME NEW F \in [Chans -> Seq(Frame)], \A x \in Chans : Len(F[x]) <= SendBuffer,
         NEW y \in Chans, NEW s \in Seq(Frame), Len(s) <= SendBuffer
  PROVE  /\ [F EXCEPT ![y] = s] \in [Chans -> Seq(Frame)]
         /\ \A x \in Chans : Len([F EXCEPT ![y] = s][x]) <= SendBuffer
BY Zenon

\* A reply that hands out a slot keeps the types of the handlers' state.
LEMMA AttachType ==
  ASSUME TypeOK, NEW c \in Conns, NEW i \in Ids, NEW g \in Nat, Attach(c, i, g)
  PROVE  /\ pc' \in [Conns -> {"idle", "hello", "open", "closed"}]
         /\ cid' \in [Conns -> 0..MaxID]
         /\ cgen' \in [Conns -> Nat]
<1>1. i \in 0..MaxID
  BY IdRange, Zenon
<1> QED
  BY <1>1, Zenon DEF Attach, TypeOK

\* Taking a command from the inbox: it is the first one, the others shift.
LEMMA ReceiveInbox ==
  ASSUME TypeOK, NEW op, Receive(op)
  PROVE  /\ ~done /\ evict = <<>>
         /\ Head(inbox) \in Command /\ Head(inbox).op = op
         /\ Head(inbox) = inbox[1] /\ 1 \in DOMAIN inbox
         /\ inbox' \in Seq(Command) /\ Len(inbox') <= InboxCap
         /\ \A k \in DOMAIN inbox' : k + 1 \in DOMAIN inbox /\ inbox'[k] = inbox[k + 1]
         /\ \A k \in DOMAIN inbox : k # 1 => k - 1 \in DOMAIN inbox' /\ inbox'[k - 1] = inbox[k]
<1> USE DEF Receive, TypeOK
<1>1. /\ Head(inbox) \in Command /\ inbox' \in Seq(Command)
      /\ Len(inbox') = Len(inbox) - 1
      /\ \A k \in 1..Len(inbox') : inbox'[k] = inbox[k + 1]
  OBVIOUS
<1>2. /\ DOMAIN inbox = 1..Len(inbox) /\ DOMAIN inbox' = 1..Len(inbox')
      /\ Len(inbox) \in Nat \ {0}
  BY <1>1
<1>3. Head(inbox) = inbox[1]
  OBVIOUS
<1> HIDE DEF TypeOK
<1>4. InboxCap \in Nat /\ Len(inbox) <= InboxCap
  BY HubAssumption, Zenon DEF TypeOK
<1> QED
  BY <1>1, <1>2, <1>3, <1>4

\* A command added to the inbox is its last one.
LEMMA SubmitInbox ==
  ASSUME TypeOK, NEW m \in Command, Submit(m)
  PROVE  /\ inbox' \in Seq(Command) /\ Len(inbox') <= InboxCap
         /\ DOMAIN inbox' = 1..(Len(inbox) + 1) /\ DOMAIN inbox = 1..Len(inbox)
         /\ Len(inbox) \in Nat
         /\ \A k \in DOMAIN inbox : inbox'[k] = inbox[k]
         /\ inbox'[Len(inbox) + 1] = m
<1>1. inbox \in Seq(Command) /\ inbox' = Append(inbox, m) /\ Len(inbox) < InboxCap
  BY Zenon DEF TypeOK, Submit
<1>2. /\ inbox' \in Seq(Command) /\ Len(inbox') = Len(inbox) + 1
      /\ \A k \in 1..Len(inbox) : inbox'[k] = inbox[k]
      /\ inbox'[Len(inbox) + 1] = m
  BY <1>1
<1>3. Len(inbox) \in Nat /\ DOMAIN inbox = 1..Len(inbox) /\ DOMAIN inbox' = 1..Len(inbox')
  BY <1>1, <1>2
<1> QED
  BY <1>1, <1>2, <1>3, HubAssumption

\* The order in which overflowed receivers are evicted is a sequence of ids.
LEMMA OverflowSeqs ==
  ASSUME TypeOK, NEW R \in SUBSET Ids, NEW n \in 0..MaxID, NEW s \in Bijection(1..n, Overflow(R))
  PROVE  s \in Seq(Ids)
<1>1. Overflow(R) \subseteq Ids /\ n \in Nat
  BY HubAssumption DEF Overflow
<1>2. s \in [1..n -> Overflow(R)]
  BY Zenon DEF Bijection, Injection, Surjection
<1> QED
  BY <1>1, <1>2

\* A fan-out never exceeds the capacity of a channel.
LEMMA QueuedType ==
  ASSUME TypeOK, NEW R \in SUBSET clients, NEW f \in Frame
  PROVE  /\ Queued(R, f) \in [Chans -> Seq(Frame)]
         /\ \A x \in Chans : Len(Queued(R, f)[x]) <= SendBuffer
<1>1. ASSUME NEW x \in Chans
      PROVE  Queued(R, f)[x] \in Seq(Frame) /\ Len(Queued(R, f)[x]) <= SendBuffer
  <2> DEFINE takers == {Chan(i) : i \in R \ (Range(evict) \cup Overflow(R))}
  <2>1. out[x] \in Seq(Frame) /\ Len(out[x]) <= SendBuffer /\ Len(out[x]) \in Nat
    BY DEF TypeOK
  <2>2. CASE x \notin takers
    BY <2>1, <2>2, Zenon DEF Queued
  <2>3. CASE x \in takers
    <3>1. ~ Full(x)
      BY <2>3, Zenon DEF Overflow
    <3>2. Len(out[x]) < SendBuffer
      BY <3>1, <2>1, HubAssumption DEF Full
    <3>3. Append(out[x], f) \in Seq(Frame) /\ Len(Append(out[x], f)) = Len(out[x]) + 1
      BY <2>1
    <3> QED
      BY <2>1, <2>3, <3>2, <3>3, HubAssumption DEF Queued
  <2> QED
    BY <2>2, <2>3, Zenon
<1> QED
  BY <1>1, Zenon DEF Queued

\* The outcome of a fan-out is well typed.
LEMMA BroadcastType ==
  ASSUME TypeOK, NEW R \in SUBSET clients, NEW f \in Frame,
         NEW pending \in Seq(Ids), NEW also \in SUBSET Conns,
         Evict(R, pending, also)
  PROVE  evict' \in Seq(Ids) /\ kicked' \in SUBSET Conns
<1> PICK n \in 0..MaxID : \E s \in Bijection(1..n, Overflow(R)) : evict' = pending \o s
  BY Zenon DEF Evict
<1>1. PICK s \in Bijection(1..n, Overflow(R)) : evict' = pending \o s
  BY Zenon
<1>2. s \in Seq(Ids)
  BY Zenon, OverflowSeqs DEF TypeOK
<1>3. {conn[i] : i \in Overflow(R) \ held} \subseteq Conns
  BY DEF TypeOK, Overflow
<1> QED
  BY <1>1, <1>2, <1>3 DEF Evict, TypeOK

\* What the hub sends to its clients is a frame.
LEMMA MsgType == \A k \in Kinds, S \in SUBSET Ids : Msg(k, S) \in Frame
BY HubAssumption DEF Msg, Frame

\* removeParticipant keeps the types: the slot and its timer go, the others
\* are told.
LEMMA RemoveType ==
  ASSUME TypeOK, NEW i \in Ids, NEW pending \in Seq(Ids), RemoveParticipant(i, pending)
  PROVE  /\ clients' \subseteq Ids /\ held' \subseteq clients' /\ timers' \subseteq Timer
         /\ done' \in BOOLEAN /\ kicked' \subseteq Conns /\ evict' \in Seq(Ids)
         /\ out' \in [Chans -> Seq(Frame)] /\ \A x \in Chans : Len(out'[x]) <= SendBuffer
         /\ UNCHANGED <<gen, conn, nextID, host>>
<1>1. conn[i] \in Conns /\ clients \ {i} \in SUBSET clients /\ Msg("left", {i}) \in Frame
  BY MsgType, Zenon DEF TypeOK, Kinds
<1>2. CASE clients \ {i} = {}
  BY Zenon, <1>1, <1>2 DEF RemoveParticipant, TypeOK, Disarmed
<1>3. CASE clients \ {i} # {}
  <2>1. /\ out' = Queued(clients \ {i}, Msg("left", {i}))
        /\ Evict(clients \ {i}, pending, {conn[i]})
        /\ done' = FALSE
    BY <1>3, Zenon DEF RemoveParticipant, Broadcast
  <2>2. evict' \in Seq(Ids) /\ kicked' \in SUBSET Conns
    BY <1>1, <2>1, BroadcastType, Zenon
  <2>3. out' \in [Chans -> Seq(Frame)] /\ \A x \in Chans : Len(out'[x]) <= SendBuffer
    BY Zenon, <1>1, <2>1, QueuedType
  <2> QED
    BY Zenon, <2>1, <2>2, <2>3 DEF RemoveParticipant, TypeOK, Disarmed
<1> QED
  BY <1>2, <1>3, Zenon

\* The reply to a join or a resume is a frame.
LEMMA JoinResultType == ASSUME TypeOK, NEW i PROVE JoinResult(i) \in Frame
<1>1. clients \ {i} \in SUBSET Ids
  BY Zenon DEF TypeOK
<1>2. host \in 0..MaxID
  BY IdRange, Zenon DEF TypeOK
<1> QED
  BY <1>1, <1>2, Zenon DEF JoinResult, Frame, Kinds

\* What a resumed connection finds in its channel fits it and starts with the reply.
LEMMA ResumeOutType ==
  ASSUME TypeOK, NEW i \in Ids
  PROVE  /\ ResumeOut(i) \in Seq(Frame)
         /\ Len(ResumeOut(i)) <= SendBuffer
         /\ Len(ResumeOut(i)) > 0 /\ ResumeOut(i)[1] = JoinResult(i)
<1> DEFINE backlog == IF i \in held THEN out[i] ELSE <<>>
           all == <<JoinResult(i)>> \o backlog
           n == IF Len(all) > SendBuffer THEN SendBuffer ELSE Len(all)
<1>1. backlog \in Seq(Frame) /\ JoinResult(i) \in Frame /\ <<JoinResult(i)>> \in Seq(Frame)
  <2>1. backlog \in Seq(Frame)
    BY DEF TypeOK, Chans
  <2>2. JoinResult(i) \in Frame
    BY JoinResultType, Zenon
  <2> QED
    BY <2>1, <2>2
<1>2. /\ all \in Seq(Frame) /\ Len(all) = 1 + Len(backlog) /\ Len(backlog) \in Nat
      /\ all[1] = JoinResult(i)
  <2>1. Len(backlog) \in Nat
    BY <1>1
  <2> QED
    BY <1>1, <2>1
<1>3. n \in Nat /\ n <= SendBuffer /\ n <= Len(all) /\ n > 0
  BY <1>2, HubAssumption
<1>4. \A k \in 1..n : all[k] \in Frame
  BY <1>2, <1>3
<1> HIDE DEF n, all
<1>5. /\ SubSeq(all, 1, n) \in Seq(Frame) /\ Len(SubSeq(all, 1, n)) = n
      /\ SubSeq(all, 1, n)[1] = all[1]
  BY <1>3, <1>4
<1> QED
  BY <1>2, <1>3, <1>5, Zenon DEF ResumeOut, n, all

\* Every step keeps the types and the capacities of the channels.
LEMMA TypeStep == TypeOK /\ HelloUnattached /\ [Next]_vars => TypeOK'
<1> SUFFICES ASSUME TypeOK, HelloUnattached, [Next]_vars PROVE TypeOK'
  BY Zenon
<1> USE DEF hubVars, slotVars, connVars, history
<1>1. CASE HandleJoinFull
  <2>1. Receive("join")
    BY <1>1, Zenon DEF HandleJoinFull
  <2>2. Head(inbox).conn \in Conns /\ inbox' \in Seq(Command) /\ Len(inbox') <= InboxCap
    BY <2>1, ReceiveInbox, CommandFields, Zenon
  <2> QED
    BY <1>1, <2>2, Zenon DEF HandleJoinFull, Refuse, TypeOK
<1>2. CASE HandleJoin
  <2> DEFINE c == Head(inbox).conn
  <2>1. Receive("join")
    BY <1>2, Zenon DEF HandleJoin
  <2>2. c \in Conns /\ inbox' \in Seq(Command) /\ Len(inbox') <= InboxCap
    BY <2>1, ReceiveInbox, CommandFields, Zenon
  <2>3. nextID \in Ids /\ nextID \in Nat /\ nextID + 1 \in 1..(MaxID + 1)
    BY <1>2, HubAssumption DEF HandleJoin, Ids
  <2>4. evict' \in Seq(Ids) /\ kicked' \in SUBSET Conns
    <3>1. Evict(clients, evict, {}) /\ evict \in Seq(Ids) /\ Msg("closed", {}) \in Frame
      BY <1>2, MsgType, Zenon DEF HandleJoin, TypeOK, Kinds
    <3> QED
      BY <3>1, BroadcastType, Zenon
  <2>5. out' \in [Chans -> Seq(Frame)] /\ \A x \in Chans : Len(out'[x]) <= SendBuffer
    <3> DEFINE reply == IF c = Creator THEN SessionCreated ELSE JoinResult(nextID)
               Q == Queued(clients, Msg("joined", {nextID}))
    <3>1. out' = [Q EXCEPT ![c] = <<reply>>]
      BY <1>2, Zenon DEF HandleJoin
    <3>2. reply \in Frame /\ Msg("joined", {nextID}) \in Frame
      BY <2>3, MsgType, JoinResultType, Zenon DEF SessionCreated, Kinds
    <3>3. Q \in [Chans -> Seq(Frame)] /\ \A x \in Chans : Len(Q[x]) <= SendBuffer
      BY Zenon, <3>2, QueuedType
    <3>4. <<reply>> \in Seq(Frame) /\ Len(<<reply>>) = 1
      BY <3>2
    <3>5. c \in Chans /\ Len(<<reply>>) <= SendBuffer
      BY <2>2, <3>4, HubAssumption DEF Chans
    <3> HIDE DEF reply, Q
    <3> QED
      BY <3>1, <3>3, <3>4, <3>5, ChanExcept, Zenon
  <2> HIDE DEF c
  <2>6. /\ clients' = clients \cup {nextID} /\ nextID' = nextID + 1
        /\ gen' = [gen EXCEPT ![nextID] = 1]
        /\ conn' = [conn EXCEPT ![nextID] = c]
        /\ Attach(c, nextID, 1)
        /\ UNCHANGED <<held, host, done, timers, fired, history, traffic>>
    BY <1>2, Zenon DEF HandleJoin, c
  <2>7. pc' \in [Conns -> {"idle", "hello", "open", "closed"}] /\ cid' \in [Conns -> 0..MaxID]
        /\ cgen' \in [Conns -> Nat]
    BY <2>2, <2>3, <2>6, AttachType, Zenon
  <2> QED
    BY Zenon, <2>2, <2>3, <2>4, <2>5, <2>6, <2>7 DEF TypeOK
<1>3. CASE HandleLeave
  <2> DEFINE m == Head(inbox)
  <2>1. Receive("leave") /\ UNCHANGED <<fired, connVars, history, traffic>>
    BY <1>3, Zenon DEF HandleLeave
  <2>2. /\ m.id \in Ids /\ inbox' \in Seq(Command) /\ Len(inbox') <= InboxCap /\ ~done
        /\ evict \in Seq(Ids)
    BY Zenon, <2>1, ReceiveInbox, CommandFields DEF TypeOK
  <2>3. CASE UNCHANGED <<hubVars, out, kicked>>
    BY <2>1, <2>2, <2>3, Zenon DEF TypeOK
  <2>4. CASE LeaveApplies(m) /\ HoldSlot(m.id)
    <3> DEFINE i == m.id
    <3>1. i \in clients /\ HoldSlot(i)
      BY <2>4, Zenon DEF LeaveApplies
    <3>2. gen' \in [Ids -> Nat] /\ HoldTimer(i) \in Timer
      BY <2>2, <3>1, SMTT(30) DEF HoldSlot, HoldTimer, Timer, TypeOK
    <3>3. out' \in [Chans -> Seq(Frame)] /\ \A x \in Chans : Len(out'[x]) <= SendBuffer
      <4>1. i \in Chans /\ <<>> \in Seq(Frame) /\ Len(<<>>) <= SendBuffer
        BY <2>2, HubAssumption DEF Chans
      <4> QED
        BY <3>1, <4>1, ChanExcept, Zenon DEF HoldSlot, TypeOK
    <3> QED
      BY Zenon, <2>1, <2>2, <3>1, <3>2, <3>3 DEF HoldSlot, TypeOK
  <2>5. CASE RemoveParticipant(m.id, evict)
    <3> HIDE DEF m
    <3> QED
      BY Zenon, <2>1, <2>2, <2>5, RemoveType DEF TypeOK
  <2> QED
    BY <1>3, <2>3, <2>4, <2>5, Zenon DEF HandleLeave
<1>4. CASE HandleGraceExpired
  <2> DEFINE m == Head(inbox)
  <2>1. Receive("grace") /\ UNCHANGED <<fired, connVars, history, traffic>>
    BY <1>4, Zenon DEF HandleGraceExpired
  <2>2. /\ m.id \in Ids /\ inbox' \in Seq(Command) /\ Len(inbox') <= InboxCap
        /\ evict \in Seq(Ids)
    BY Zenon, <2>1, ReceiveInbox, CommandFields DEF TypeOK
  <2>3. CASE UNCHANGED <<hubVars, out, kicked>>
    BY <2>1, <2>2, <2>3, Zenon DEF TypeOK
  <2>4. CASE RemoveParticipant(m.id, evict)
    <3> HIDE DEF m
    <3> QED
      BY Zenon, <2>1, <2>2, <2>4, RemoveType DEF TypeOK
  <2> QED
    BY <1>4, <2>3, <2>4, Zenon DEF HandleGraceExpired
<1>5. CASE HandleResume
  <2> DEFINE m == Head(inbox)
  <2>1. Receive("resume") /\ UNCHANGED <<fired, rx, traffic>>
    BY <1>5, Zenon DEF HandleResume
  <2>2. /\ m.id \in Ids /\ m.conn \in Conns
        /\ inbox' \in Seq(Command) /\ Len(inbox') <= InboxCap
    BY <2>1, ReceiveInbox, CommandFields, Zenon
  <2>3. CASE ~(m.id \in clients /\ m.token)
    BY ZenonT(60), <1>5, <2>1, <2>2, <2>3 DEF HandleResume, Refuse, TypeOK
  <2>4. CASE m.id \in clients /\ m.token
    <3>1. /\ timers' = Disarmed(m.id)
          /\ out' = [out EXCEPT ![m.conn] = ResumeOut(m.id), ![m.id] = <<>>]
          /\ kicked' = kicked \cup Superseded(m.id)
          /\ lossy' \in {lossy, lossy \cup {m.conn}}
          /\ held' = held \ {m.id}
          /\ gen' = [gen EXCEPT ![m.id] = @ + 1]
          /\ conn' = [conn EXCEPT ![m.id] = m.conn]
          /\ Attach(m.conn, m.id, gen[m.id] + 1)
          /\ UNCHANGED <<clients, nextID, host, evict, done>>
      BY <1>5, <2>4, Zenon DEF HandleResume
    <3> DEFINE i == m.id  d == m.conn
    <3> HIDE DEF m
    <3>2. out' \in [Chans -> Seq(Frame)] /\ \A x \in Chans : Len(out'[x]) <= SendBuffer
      <4>1. ResumeOut(i) \in Seq(Frame) /\ Len(ResumeOut(i)) <= SendBuffer
        BY <2>2, ResumeOutType, Zenon
      <4>2. d \in Chans /\ i \in Chans /\ <<>> \in Seq(Frame) /\ Len(<<>>) <= SendBuffer
        BY <2>2, HubAssumption DEF Chans
      <4>3. out' = [[out EXCEPT ![d] = ResumeOut(i)] EXCEPT ![i] = <<>>]
        BY <3>1, Zenon
      <4> QED
        BY Zenon, <4>1, <4>2, <4>3, ChanExcept DEF TypeOK
    <3>3. pc' \in [Conns -> {"idle", "hello", "open", "closed"}] /\ cid' \in [Conns -> 0..MaxID]
          /\ cgen' \in [Conns -> Nat] /\ gen' \in [Ids -> Nat] /\ conn' \in [Ids -> Conns]
      <4>1. gen[i] + 1 \in Nat
        BY <2>2, SMTT(30) DEF TypeOK
      <4> QED
        BY Zenon, <2>2, <3>1, <4>1, AttachType DEF TypeOK
    <3>4. kicked' \subseteq Conns /\ timers' \subseteq Timer /\ lossy' \subseteq Conns
      BY <2>2, <3>1, Zenon DEF Superseded, Disarmed, TypeOK
    <3> QED
      BY Zenon, <2>1, <2>2, <3>1, <3>2, <3>3, <3>4 DEF TypeOK
  <2> QED
    BY <2>3, <2>4, Zenon
<1>6. CASE HandleClaimHost
  <2>1. Receive("claim")
    BY <1>6, Zenon DEF HandleClaimHost
  <2>2. Head(inbox).id \in Ids /\ inbox' \in Seq(Command) /\ Len(inbox') <= InboxCap
    BY <2>1, ReceiveInbox, CommandFields, Zenon
  <2> QED
    BY <1>6, <2>2, Zenon DEF HandleClaimHost, TypeOK
<1>7. CASE Route
  <2> DEFINE m == Head(inbox)
  <2>1. Receive("frame") /\ UNCHANGED <<slotVars, host, done, timers, fired, connVars, history, traffic>>
    BY <1>7, Zenon DEF Route
  <2>2. m.from \in Ids /\ inbox' \in Seq(Command) /\ Len(inbox') <= InboxCap /\ evict \in Seq(Ids)
    BY Zenon, <2>1, ReceiveInbox, CommandFields DEF TypeOK
  <2>3. PICK R \in SUBSET clients, f \in Frame : Broadcast(R, f, evict, {})
    <3>1. Msg("data", {m.from}) \in Frame /\ Msg("error", {}) \in Frame
      BY <2>2, MsgType, Zenon DEF Kinds
    <3> QED
      BY <1>7, <3>1, Zenon DEF Route
  <2>4. evict' \in Seq(Ids) /\ kicked' \in SUBSET Conns
    BY <2>2, <2>3, BroadcastType, Zenon DEF Broadcast
  <2>5. out' \in [Chans -> Seq(Frame)] /\ \A x \in Chans : Len(out'[x]) <= SendBuffer
    BY <2>3, QueuedType, Zenon DEF Broadcast
  <2> QED
    BY <2>1, <2>2, <2>4, <2>5, Zenon DEF TypeOK
<1>8. CASE HandleClose
  <2>1. Receive("close") /\ UNCHANGED <<slotVars, host, fired, connVars, history, traffic>>
        /\ done' = TRUE /\ timers' = {}
    BY <1>8, Zenon DEF HandleClose
  <2>2. inbox' \in Seq(Command) /\ Len(inbox') <= InboxCap /\ evict \in Seq(Ids)
    BY <2>1, ReceiveInbox, Zenon DEF TypeOK
  <2>3. /\ Msg("closed", {}) \in Frame /\ {conn[i] : i \in clients} \in SUBSET Conns
        /\ Broadcast(clients, Msg("closed", {}), evict, {conn[i] : i \in clients})
    BY <1>8, MsgType DEF HandleClose, Everyone, Kinds, TypeOK
  <2>4. evict' \in Seq(Ids) /\ kicked' \in SUBSET Conns
    BY <2>2, <2>3, BroadcastType, Zenon DEF Broadcast
  <2>5. out' \in [Chans -> Seq(Frame)] /\ \A x \in Chans : Len(out'[x]) <= SendBuffer
    BY <2>3, QueuedType, Zenon DEF Broadcast
  <2> QED
    BY <2>1, <2>2, <2>4, <2>5, Zenon DEF TypeOK
<1>9. CASE DrainEvictions
  <2>1. /\ RemoveParticipant(Head(evict), Tail(evict))
        /\ UNCHANGED <<inbox, fired, connVars, history, traffic>>
        /\ evict # <<>> /\ evict \in Seq(Ids)
    BY <1>9, Zenon DEF DrainEvictions, TypeOK
  <2>2. Head(evict) \in Ids /\ Tail(evict) \in Seq(Ids)
    BY <2>1
  <2> QED
    BY Zenon, <2>1, <2>2, RemoveType DEF TypeOK
<1>10. ASSUME NEW c \in Conns, Client(c) PROVE TypeOK'
  <2>1. \A m : Submit(m) /\ m \in Command => inbox' \in Seq(Command) /\ Len(inbox') <= InboxCap
    BY SubmitInbox, Zenon
  <2>2. Dropped => inbox' \in Seq(Command) /\ Len(inbox') <= InboxCap
    BY Zenon DEF Dropped, TypeOK
  <2>3. CASE HelloJoin(c)
    <3>1. [op |-> "join", conn |-> c] \in Command
      BY Zenon DEF Command, JoinCmd
    <3> QED
      BY Zenon, <2>1, <2>2, <2>3, <3>1 DEF HelloJoin, TypeOK
  <2>4. ASSUME NEW i \in Ids, NEW token \in BOOLEAN, HelloResume(c, i, token) PROVE TypeOK'
    <3>1. [op |-> "resume", id |-> i, token |-> token, conn |-> c] \in Command
      BY Zenon DEF Command, ResumeCmd
    <3> QED
      BY Zenon, <2>1, <2>2, <2>4, <3>1 DEF HelloResume, TypeOK
  <2>5. pc[c] = "open" => cid[c] \in Ids
    BY HubAssumption, SMTT(30) DEF HelloUnattached, TypeOK, Ids
  <2>6. Spend => traffic' \in 0..MaxTraffic
    BY HubAssumption DEF Spend, TypeOK
  <2>7. CASE ReadToHub(c)
    <3>1. PICK m \in [op : {"frame"}, from : {cid[c]}, to : 0..MaxID] \cup [op : {"claim"}, id : {cid[c]}] :
            Submit(m) \/ Dropped
      BY <2>7, Zenon DEF ReadToHub
    <3>2. cid[c] \in Ids
      BY <2>5, <2>7, Zenon DEF ReadToHub
    <3>3. m \in Command
      BY <3>1, <3>2, Zenon DEF Command, FrameCmd, ClaimCmd
    <3> QED
      BY Zenon, <2>1, <2>2, <2>6, <2>7, <3>1, <3>3 DEF ReadToHub, TypeOK
  <2>8. CASE ReadPing(c)
    <3>1. c \in Chans /\ out[c] \in Seq(Frame) /\ Msg("pong", {}) \in Frame
      BY MsgType, Zenon DEF TypeOK, Chans, Kinds
    <3>2. Append(out[c], Msg("pong", {})) \in Seq(Frame)
          /\ (~Full(c) => Len(Append(out[c], Msg("pong", {}))) <= SendBuffer)
      BY <3>1, HubAssumption DEF Full
    <3>3. out' \in [Chans -> Seq(Frame)] /\ \A x \in Chans : Len(out'[x]) <= SendBuffer
      BY <2>8, <3>1, <3>2, ChanExcept, Zenon DEF ReadPing, TypeOK
    <3> QED
      BY <2>6, <2>8, <3>3, Zenon DEF ReadPing, TypeOK
  <2>9. ASSUME NEW lost \in BOOLEAN, HangUp(c, lost) PROVE TypeOK'
    <3>1. cid[c] \in Ids
      BY <2>5, <2>9, Zenon DEF HangUp
    <3>2. LeaveOf(c, lost) \in Command
      BY <3>1, Zenon DEF LeaveOf, Command, LeaveCmd, TypeOK
    <3> QED
      BY <2>1, <2>2, <2>9, <3>2, Zenon DEF HangUp, TypeOK
  <2> QED
    BY <1>10, <2>3, <2>4, <2>7, <2>8, <2>9, Zenon DEF Client
<1>11. ASSUME NEW c \in Conns, Write(c) PROVE TypeOK'
  <2>1. c \in Chans /\ out[c] \in Seq(Frame) /\ out[c] # <<>>
    BY <1>11, Zenon DEF Write, TypeOK, Chans
  <2>2. /\ Head(out[c]) \in Frame /\ Tail(out[c]) \in Seq(Frame)
        /\ Len(Tail(out[c])) = Len(out[c]) - 1 /\ Len(out[c]) \in Nat /\ Len(out[c]) <= SendBuffer
    BY <2>1 DEF TypeOK
  <2>3. out' \in [Chans -> Seq(Frame)] /\ \A x \in Chans : Len(out'[x]) <= SendBuffer
    <3>1. Len(Tail(out[c])) <= SendBuffer
      BY <2>2, HubAssumption
    <3> QED
      BY <1>11, <2>1, <2>2, <3>1, ChanExcept, Zenon DEF Write, TypeOK
  <2>4. rx' \in [Conns -> Rx]
    <3> DEFINE r == rx[c]  f == Head(out[c])
               w == [first |-> IF r.first = "none" THEN f.kind ELSE r.first, view |-> View(r.view, f)]
    <3>1. r.first \in Kinds \cup {"none"} /\ r.view \in SUBSET Ids /\ f.kind \in Kinds /\ f.ids \in SUBSET Ids
      BY <2>2, Zenon DEF TypeOK, Rx, Frame
    <3>2. View(r.view, f) \in SUBSET Ids
      BY <3>1, Zenon DEF View
    <3>3. w \in Rx
      BY <3>1, <3>2, Zenon DEF Rx
    <3>4. rx' = [rx EXCEPT ![c] = w]
      BY <1>11, Zenon DEF Write
    <3> HIDE DEF w
    <3> QED
      BY <3>3, <3>4, Zenon DEF TypeOK
  <2> QED
    BY <1>11, <2>3, <2>4, Zenon DEF Write, TypeOK
<1>12. CASE Timers
  <2>1. CASE \E t \in timers : TimerFires(t)
    BY <2>1, Zenon DEF TimerFires, TypeOK
  <2>2. ASSUME NEW t \in fired, TimerSends(t) PROVE TypeOK'
    <3>1. [op |-> "grace", id |-> t.id, gen |-> t.gen] \in Command
      BY Zenon DEF Command, GraceCmd, TypeOK, Timer
    <3>2. inbox' \in Seq(Command) /\ Len(inbox') <= InboxCap
      BY <2>2, <3>1, SubmitInbox, Zenon DEF TimerSends, Dropped, TypeOK
    <3> QED
      BY <2>2, <3>2, Zenon DEF TimerSends, TypeOK
  <2> QED
    BY <1>12, <2>1, <2>2, Zenon DEF Timers
<1>13. CASE Sweep
  <2>1. [op |-> "close"] \in Command
    BY Zenon DEF Command, CloseCmd
  <2>2. inbox' \in Seq(Command) /\ Len(inbox') <= InboxCap
    BY <1>13, <2>1, SubmitInbox, Zenon DEF Sweep, Dropped, TypeOK
  <2> QED
    BY SMTT(30), <1>13, <2>2, HubAssumption DEF Sweep, Spend, TypeOK
<1>14. CASE UNCHANGED vars
  BY <1>14, Zenon DEF vars, TypeOK
<1> QED
  BY <1>1, <1>2, <1>3, <1>4, <1>5, <1>6, <1>7, <1>8, <1>9, <1>10, <1>11, <1>12, <1>13, <1>14, Zenon
     DEF Next, Hub

-----------------------------------------------------------------------------
(* The slot invariant.                                                     *)

\* How a step may treat the inbox.  The joins, resumes and leaves in it were
\* there before, d places further back; and a leave or a grace expiry that
\* still applies to a slot outside X stays.
InboxFrom(d) ==
  \A k \in DOMAIN inbox' :
    inbox'[k].op \in Hellos \cup {"leave"} =>
      k + d \in DOMAIN inbox /\ inbox'[k] = inbox[k + d]

Current(m) ==
  \/ m.op = "leave" /\ LeaveApplies(m)
  \/ m.op = "grace" /\ GraceApplies(m)

InboxKeeps(X) ==
  \A k \in DOMAIN inbox :
    Current(inbox[k]) /\ inbox[k].id \notin X => \E l \in DOMAIN inbox' : inbox'[l] = inbox[k]

\* run takes the first command: the others move up by one, and only a
\* command about X is lost to the inbox.
LEMMA ReceiveMoves ==
  ASSUME TypeOK, NEW op, Receive(op), NEW X,
         Current(Head(inbox)) => Head(inbox).id \in X
  PROVE  InboxFrom(1) /\ InboxKeeps(X)
BY ReceiveInbox, Zenon DEF InboxFrom, InboxKeeps

\* hub.send appends: what was in the inbox stays where it was.
LEMMA SubmitMoves ==
  ASSUME TypeOK, NEW m \in Command, m.op \notin Hellos \cup {"leave"}, Submit(m)
  PROVE  InboxFrom(0) /\ InboxKeeps({})
<1>1. /\ DOMAIN inbox' = 1..(Len(inbox) + 1) /\ DOMAIN inbox = 1..Len(inbox)
      /\ Len(inbox) \in Nat
      /\ \A k \in DOMAIN inbox : inbox'[k] = inbox[k]
      /\ inbox'[Len(inbox) + 1] = m
  BY SubmitInbox, Zenon
<1>2. InboxFrom(0)
  BY <1>1 DEF InboxFrom
<1>3. InboxKeeps({})
  BY <1>1 DEF InboxKeeps
<1> QED
  BY <1>2, <1>3, Zenon

\* A step that leaves the inbox alone moves nothing and loses nothing.
LEMMA InboxSame ==
  ASSUME TypeOK, UNCHANGED inbox
  PROVE  InboxFrom(0) /\ InboxKeeps({})
<1>1. DOMAIN inbox \subseteq Nat
  BY DEF TypeOK
<1> QED
  BY <1>1 DEF InboxFrom, InboxKeeps

\* An inbox that keeps every current command keeps those outside X.
LEMMA KeepsMore == ASSUME NEW X, InboxKeeps({}) PROVE InboxKeeps(X)
BY Zenon DEF InboxKeeps

\* A generation that is counted up is later than every one up to it.
LEMMA NextIsLater == ASSUME NEW a \in Nat, NEW b \in Nat, a <= b PROVE a < b + 1
OBVIOUS

\* Commands that were in the inbox before keep what is known of them as long
\* as ended handlers stay as they are.
LEMMA LeavesStay ==
  ASSUME TypeOK, LeaveFromClosed, NEW d \in {0, 1}, InboxFrom(d), inbox' \in Seq(Command),
         \A c \in Conns : pc[c] = "closed" /\ cid[c] # 0
                            => pc'[c] = "closed" /\ cid'[c] = cid[c] /\ cgen'[c] = cgen[c]
  PROVE  LeaveFromClosed'
<1> SUFFICES ASSUME NEW k \in DOMAIN inbox', inbox'[k].op = "leave"
             PROVE  \E c \in Conns : /\ pc'[c] = "closed"
                                     /\ cid'[c] = inbox'[k].id /\ cgen'[c] = inbox'[k].gen
  BY Zenon DEF LeaveFromClosed
<1>1. k + d \in DOMAIN inbox /\ inbox'[k] = inbox[k + d]
  BY Zenon DEF InboxFrom
<1>2. PICK c \in Conns : pc[c] = "closed" /\ cid[c] = inbox'[k].id /\ cgen[c] = inbox'[k].gen
  BY <1>1 DEF LeaveFromClosed
<1>3. inbox'[k].id \in Ids
  BY <1>1, CommandFields, SMTT(30) DEF TypeOK
<1> QED
  BY <1>2, <1>3, IdRange, Zenon

\* The joins and resumes that remain in the inbox still wait for a reply.
LEMMA HellosStay ==
  ASSUME TypeOK, HelloPending, NEW d \in {0, 1}, InboxFrom(d), inbox' \in Seq(Command),
         \A k \in DOMAIN inbox' :
           inbox'[k].op \in Hellos /\ pc[inbox'[k].conn] = "hello" => pc'[inbox'[k].conn] = "hello"
  PROVE  HelloPending'
<1>1. DOMAIN inbox' \subseteq Nat
  OBVIOUS
<1> QED
  BY <1>1 DEF HelloPending, InboxFrom

\* A slot that is not touched keeps its leave or its timer.
LEMMA SlotsStay ==
  ASSUME TypeOK, NEW X, InboxKeeps(X), NoOrphanSlot, HeldHasTimer, ~done,
         clients' \subseteq clients, held' \subseteq clients',
         \A i \in clients' \ X : (i \in held' <=> i \in held) /\ gen'[i] = gen[i] /\ conn'[i] = conn[i],
         \A i \in clients' \ X : pc[conn[i]] = "open" => pc'[conn[i]] = "open",
         \A t \in timers \cup fired :
           \/ t.id \in X
           \/ t \in timers' \cup fired'
           \/ \E k \in DOMAIN inbox' : inbox'[k] = [op |-> "grace", id |-> t.id, gen |-> t.gen]
  PROVE  /\ \A i \in clients' \ (held' \cup X) :
              \/ pc'[conn'[i]] = "open"
              \/ \E k \in DOMAIN inbox' :
                   inbox'[k].op = "leave" /\ inbox'[k].id = i /\ inbox'[k].gen = gen'[i]
         /\ \A i \in held' \ X :
              \/ [id |-> i, gen |-> gen'[i]] \in timers' \cup fired'
              \/ \E k \in DOMAIN inbox' :
                   inbox'[k].op = "grace" /\ inbox'[k].id = i /\ inbox'[k].gen = gen'[i]
<1>1. ASSUME NEW i \in clients' \ (held' \cup X)
      PROVE  \/ pc'[conn'[i]] = "open"
             \/ \E k \in DOMAIN inbox' :
                  inbox'[k].op = "leave" /\ inbox'[k].id = i /\ inbox'[k].gen = gen'[i]
  BY <1>1 DEF NoOrphanSlot, InboxKeeps, Current, LeaveApplies
<1>2. ASSUME NEW i \in held' \ X
      PROVE  \/ [id |-> i, gen |-> gen'[i]] \in timers' \cup fired'
             \/ \E k \in DOMAIN inbox' :
                  inbox'[k].op = "grace" /\ inbox'[k].id = i /\ inbox'[k].gen = gen'[i]
  <2>1. i \in held /\ gen'[i] = gen[i] /\ i \notin X
    BY <1>2, Zenon
  <2>2. CASE [id |-> i, gen |-> gen[i]] \in timers \cup fired
    BY <2>1, <2>2
  <2>3. CASE \E k \in DOMAIN inbox : inbox[k].op = "grace" /\ inbox[k].id = i /\ inbox[k].gen = gen[i]
    BY <2>1, <2>3, SMTT(30) DEF InboxKeeps, Current, GraceApplies
  <2> QED
    BY <2>1, <2>2, <2>3, Zenon DEF HeldHasTimer
<1> QED
  BY <1>1, <1>2, Zenon

\* A step that leaves slots and handlers alone: traffic, host claims, ignored
\* leaves and grace expiries, timers.
LEMMA QuietStep ==
  ASSUME TypeOK, SlotInv, inbox' \in Seq(Command),
         NEW d \in {0, 1}, InboxFrom(d), InboxKeeps({}),
         UNCHANGED <<slotVars, connVars, done>>, kicked \subseteq kicked',
         ~done => \A t \in timers \cup fired :
                    \/ t \in timers' \cup fired'
                    \/ \E k \in DOMAIN inbox' : inbox'[k] = [op |-> "grace", id |-> t.id, gen |-> t.gen]
  PROVE  SlotInv'
<1> USE DEF slotVars, connVars
<1>1. HelloUnattached' /\ GenBound' /\ GenUnique' /\ SlotConn'
  BY Zenon DEF SlotInv, HelloUnattached, GenBound, GenUnique, SlotConn
<1>2. LeaveFromClosed' /\ HelloPending'
  BY LeavesStay, HellosStay, Zenon DEF SlotInv
<1>3. LiveConnOwnsSlot' /\ OverMeansKicked'
  BY Zenon DEF SlotInv, LiveConnOwnsSlot, OverMeansKicked
<1>4. NoOrphanSlot' /\ HeldHasTimer'
  <2>1. CASE done
    BY <2>1, Zenon DEF NoOrphanSlot, HeldHasTimer
  <2>2. CASE ~done
    <3>1. /\ held' \subseteq clients' /\ clients' \subseteq clients
          /\ \A j \in clients' \ {} : (j \in held' <=> j \in held) /\ gen'[j] = gen[j] /\ conn'[j] = conn[j]
          /\ \A j \in clients' \ {} : pc[conn[j]] = "open" => pc'[conn[j]] = "open"
          /\ \A t \in timers \cup fired :
               \/ t.id \in {}
               \/ t \in timers' \cup fired'
               \/ \E k \in DOMAIN inbox' : inbox'[k] = [op |-> "grace", id |-> t.id, gen |-> t.gen]
      BY <2>2, Zenon DEF TypeOK
    <3>2. /\ \A j \in clients' \ (held' \cup {}) :
               \/ pc'[conn'[j]] = "open"
               \/ \E k \in DOMAIN inbox' :
                    inbox'[k].op = "leave" /\ inbox'[k].id = j /\ inbox'[k].gen = gen'[j]
          /\ \A j \in held' \ {} :
               \/ [id |-> j, gen |-> gen'[j]] \in timers' \cup fired'
               \/ \E k \in DOMAIN inbox' :
                    inbox'[k].op = "grace" /\ inbox'[k].id = j /\ inbox'[k].gen = gen'[j]
      BY <2>2, <3>1, SlotsStay, Zenon DEF SlotInv
    <3> QED
      BY <3>2, Zenon DEF NoOrphanSlot, HeldHasTimer
  <2> QED
    BY <2>1, <2>2, Zenon
<1> QED
  BY <1>1, <1>2, <1>3, <1>4, Zenon DEF SlotInv

\* Removing a participant, whether it left, its grace expired or it overflowed.
LEMMA RemoveStep ==
  ASSUME TypeOK, SlotInv, inbox' \in Seq(Command), ~done,
         NEW d \in {0, 1}, NEW i \in Ids, NEW pending, InboxFrom(d), InboxKeeps({i}),
         RemoveParticipant(i, pending), UNCHANGED <<connVars, fired>>
  PROVE  SlotInv'
<1> USE DEF connVars
<1>1. /\ clients' = clients \ {i} /\ held' = held \ {i}
      /\ timers' = {t \in timers : t.id # i}
      /\ kicked \cup {conn[i]} \subseteq kicked'
      /\ done' => clients \subseteq {i}
      /\ UNCHANGED <<gen, conn, nextID>>
  BY Zenon DEF RemoveParticipant, Broadcast, Evict, Disarmed
<1>2. HelloUnattached' /\ GenBound' /\ GenUnique' /\ SlotConn'
  BY <1>1, Zenon DEF SlotInv, HelloUnattached, GenBound, GenUnique, SlotConn
<1>3. LeaveFromClosed' /\ HelloPending'
  BY LeavesStay, HellosStay, Zenon DEF SlotInv
<1>4. LiveConnOwnsSlot' /\ OverMeansKicked'
  BY <1>1 DEF SlotInv, LiveConnOwnsSlot, OverMeansKicked
<1>5. NoOrphanSlot' /\ HeldHasTimer'
  <2>1. /\ held' \subseteq clients' /\ clients' \subseteq clients
        /\ i \notin clients'
        /\ \A j \in clients' \ {i} : (j \in held' <=> j \in held) /\ gen'[j] = gen[j] /\ conn'[j] = conn[j]
        /\ \A j \in clients' \ {i} : pc[conn[j]] = "open" => pc'[conn[j]] = "open"
        /\ \A t \in timers \cup fired : t.id \in {i} \/ t \in timers' \cup fired'
    BY <1>1, Zenon DEF TypeOK
  <2>2. /\ \A j \in clients' \ (held' \cup {i}) :
             \/ pc'[conn'[j]] = "open"
             \/ \E k \in DOMAIN inbox' :
                  inbox'[k].op = "leave" /\ inbox'[k].id = j /\ inbox'[k].gen = gen'[j]
        /\ \A j \in held' \ {i} :
             \/ [id |-> j, gen |-> gen'[j]] \in timers' \cup fired'
             \/ \E k \in DOMAIN inbox' :
                  inbox'[k].op = "grace" /\ inbox'[k].id = j /\ inbox'[k].gen = gen'[j]
    BY <2>1, SlotsStay, Zenon DEF SlotInv
  <2> QED
    BY <2>1, <2>2 DEF NoOrphanSlot, HeldHasTimer
<1> QED
  BY <1>2, <1>3, <1>4, <1>5, Zenon DEF SlotInv

\* Holding a slot: the leave that applies comes from the slot's own, ended,
\* connection, so no connection being served loses its slot.
LEMMA HoldStep ==
  ASSUME TypeOK, SlotInv, Receive("leave"), LeaveApplies(Head(inbox)),
         HoldSlot(Head(inbox).id), UNCHANGED <<connVars, fired>>
  PROVE  SlotInv'
<1> DEFINE m == Head(inbox)  i == m.id
<1> USE DEF connVars
<1>1. /\ m \in Command /\ m.op = "leave" /\ i \in Ids /\ ~done /\ inbox' \in Seq(Command)
      /\ m = inbox[1] /\ 1 \in DOMAIN inbox
  BY ReceiveInbox, CommandFields, Zenon
<1>2. InboxFrom(1) /\ InboxKeeps({i})
  BY ReceiveMoves, Zenon
<1>3. PICK c \in Conns : pc[c] = "closed" /\ cid[c] = i /\ cgen[c] = m.gen
  BY <1>1, Zenon DEF SlotInv, LeaveFromClosed
<1>4. i \in clients \ held /\ gen[i] = m.gen
  BY Zenon DEF LeaveApplies
<1>5. conn[i] = c
  <2>1. conn[i] \in Conns /\ cid[conn[i]] = i /\ cgen[conn[i]] = gen[i] /\ i # 0
    BY <1>1, <1>4, IdRange, Zenon DEF SlotInv, SlotConn, TypeOK
  <2> QED
    BY <1>3, <1>4, <2>1, Zenon DEF SlotInv, GenUnique
<1>6. /\ held' = held \cup {i}
      /\ gen' = [gen EXCEPT ![i] = gen[i] + 1]
      /\ timers' = timers \cup {[id |-> i, gen |-> gen[i] + 1]}
      /\ UNCHANGED <<clients, conn, nextID, done, kicked>>
  BY Zenon DEF HoldSlot, HoldTimer
<1> HIDE DEF i, m
<1>7. /\ gen'[i] = gen[i] + 1 /\ gen[i] \in Nat
      /\ \A j \in Ids : j # i => gen'[j] = gen[j]
      /\ \A j \in Ids : gen[j] \in Nat /\ gen[j] <= gen'[j] /\ gen'[j] \in Nat
  BY SMTT(30), <1>1, <1>6 DEF TypeOK
<1>8. HelloUnattached' /\ GenUnique' /\ SlotConn'
  BY <1>1, <1>4, <1>6, <1>7, Zenon DEF SlotInv, HelloUnattached, GenUnique, SlotConn, TypeOK
<1>9. GenBound'
  <2> SUFFICES ASSUME NEW e \in Conns, cid[e] # 0
               PROVE  cid[e] < nextID /\ cgen[e] <= gen'[cid[e]]
    BY <1>6, Zenon DEF GenBound
  <2>1. cid[e] \in Ids /\ cgen[e] \in Nat
    BY SMTT(30), HubAssumption DEF TypeOK, Ids
  <2> QED
    BY <1>7, <2>1 DEF SlotInv, GenBound
<1>10. LeaveFromClosed' /\ HelloPending'
  BY <1>1, <1>2, LeavesStay, HellosStay, Zenon DEF SlotInv
<1>11. LiveConnOwnsSlot' /\ OverMeansKicked'
  <2>1. \A e \in Conns : pc[e] = "open" /\ e \notin kicked => cid[e] # i /\ cid[e] \in Ids
    BY <1>1, <1>3, <1>4, <1>5 DEF SlotInv, LiveConnOwnsSlot, TypeOK
  <2> QED
    BY <1>1, <1>6, <1>7, <2>1, Zenon DEF SlotInv, LiveConnOwnsSlot, OverMeansKicked
<1>12. NoOrphanSlot' /\ HeldHasTimer'
  <2>1. /\ held' \subseteq clients' /\ clients' \subseteq clients
        /\ \A j \in clients' \ {i} : (j \in held' <=> j \in held) /\ gen'[j] = gen[j] /\ conn'[j] = conn[j]
        /\ \A j \in clients' \ {i} : pc[conn[j]] = "open" => pc'[conn[j]] = "open"
        /\ \A t \in timers \cup fired : t.id \in {i} \/ t \in timers' \cup fired'
    BY <1>4, <1>6, <1>7, Zenon DEF TypeOK
  <2>2. /\ \A j \in clients' \ (held' \cup {i}) :
             \/ pc'[conn'[j]] = "open"
             \/ \E k \in DOMAIN inbox' :
                  inbox'[k].op = "leave" /\ inbox'[k].id = j /\ inbox'[k].gen = gen'[j]
        /\ \A j \in held' \ {i} :
             \/ [id |-> j, gen |-> gen'[j]] \in timers' \cup fired'
             \/ \E k \in DOMAIN inbox' :
                  inbox'[k].op = "grace" /\ inbox'[k].id = j /\ inbox'[k].gen = gen'[j]
    BY <1>1, <1>2, <2>1, SlotsStay, Zenon DEF SlotInv
  <2>3. i \in held' /\ [id |-> i, gen |-> gen'[i]] \in timers'
    BY <1>6, <1>7
  <2> QED
    BY <2>2, <2>3, Zenon DEF NoOrphanSlot, HeldHasTimer
<1> QED
  BY <1>8, <1>9, <1>10, <1>11, <1>12, Zenon DEF SlotInv

\* A connection joins (i is a fresh id, g = 1) or resumes (i has its slot, g
\* is the next generation).  Nobody else has generation g of i, and whoever
\* was being served in the slot has been kicked.
LEMMA AttachStep ==
  ASSUME TypeOK, SlotInv, NEW op \in Hellos, Receive(op),
         NEW i \in Ids, NEW g \in Nat \ {0}, Attach(Head(inbox).conn, i, g),
         i < nextID', nextID' \in Nat, nextID <= nextID',
         \/ g = 1 /\ i = nextID
         \/ i < nextID /\ g = gen[i] + 1,
         clients' = clients \cup {i}, held' = held \ {i},
         gen' = [gen EXCEPT ![i] = g], conn' = [conn EXCEPT ![i] = Head(inbox).conn],
         timers' = {t \in timers : t.id # i} \/ (UNCHANGED timers /\ i \notin clients),
         i \in clients \ held => conn[i] \in kicked',
         kicked \subseteq kicked', UNCHANGED <<fired, done>>
  PROVE  SlotInv'
<1> DEFINE c == Head(inbox).conn
<1>1. /\ ~done /\ inbox' \in Seq(Command) /\ c \in Conns
      /\ Head(inbox) = inbox[1] /\ 1 \in DOMAIN inbox /\ Head(inbox).op = op
      /\ \A k \in DOMAIN inbox' : k + 1 \in DOMAIN inbox /\ inbox'[k] = inbox[k + 1]
  BY ReceiveInbox, CommandFields, Zenon DEF Hellos
<1>2. InboxFrom(1) /\ InboxKeeps({i})
  BY <1>1, ReceiveMoves, Zenon DEF Current, Hellos
<1>3. pc[c] = "hello" /\ cid[c] = 0
  BY <1>1, Zenon DEF SlotInv, HelloPending, HelloUnattached
<1>4. \A k \in DOMAIN inbox' : inbox'[k].op \in Hellos => inbox'[k].conn # c
  <2>1. DOMAIN inbox' \subseteq Nat \ {0}
    BY <1>1
  <2> QED
    BY <1>1, <2>1 DEF SlotInv, HelloPending
<1> HIDE DEF c
<1>5. /\ pc' = [pc EXCEPT ![c] = "open"]
      /\ cid' = [cid EXCEPT ![c] = i] /\ cgen' = [cgen EXCEPT ![c] = g]
      /\ conn' = [conn EXCEPT ![i] = c]
  BY Zenon DEF Attach, c
<1>6. /\ pc'[c] = "open" /\ cid'[c] = i /\ cgen'[c] = g
      /\ \A e \in Conns : e # c => pc'[e] = pc[e] /\ cid'[e] = cid[e] /\ cgen'[e] = cgen[e]
      /\ conn'[i] = c /\ \A j \in Ids : j # i => conn'[j] = conn[j]
      /\ gen'[i] = g /\ \A j \in Ids : j # i => gen'[j] = gen[j]
  BY <1>1, <1>5, SMTT(30) DEF TypeOK
<1>7. /\ \A e \in Conns : cid[e] \in Nat /\ cgen[e] \in Nat /\ (cid[e] # 0 => cid[e] \in Ids)
      /\ \A j \in Ids : gen[j] \in Nat /\ conn[j] \in Conns /\ j \in Nat \ {0}
      /\ nextID \in Nat /\ clients \subseteq Ids /\ held \subseteq clients
  <2>1. ASSUME NEW e \in Conns PROVE cid[e] \in Nat /\ cgen[e] \in Nat /\ (cid[e] # 0 => cid[e] \in Ids)
    <3>1. cid[e] \in 0..MaxID /\ cgen[e] \in Nat
      BY Zenon DEF TypeOK
    <3> QED
      BY <3>1, HubAssumption DEF Ids
  <2> QED
    BY SMTT(30), <2>1, IdRange, HubAssumption DEF TypeOK
<1>8. \A e \in Conns : cid[e] = i => cgen[e] < g
  <2> SUFFICES ASSUME NEW e \in Conns, cid[e] = i PROVE cgen[e] < g
    BY Zenon
  <2>1. i < nextID /\ cgen[e] <= gen[i] /\ i # 0
    BY <1>7, Zenon DEF SlotInv, GenBound
  <2>2. g = gen[i] + 1
    BY <1>7, <2>1
  <2>3. cgen[e] \in Nat /\ gen[i] \in Nat
    BY <1>7, Zenon
  <2> QED
    BY <2>1, <2>2, <2>3, NextIsLater, Zenon
<1>9. HelloUnattached'
  BY <1>6, <1>7, Zenon DEF SlotInv, HelloUnattached
<1>10. GenBound'
  <2> SUFFICES ASSUME NEW e \in Conns, cid'[e] # 0
               PROVE  cid'[e] < nextID' /\ cgen'[e] <= gen'[cid'[e]]
    BY Zenon DEF GenBound
  <2>1. CASE e = c
    BY <1>6, <2>1
  <2>2. CASE e # c /\ cid[e] = i
    BY <1>6, <1>8, <1>7, <2>2
  <2>3. CASE e # c /\ cid[e] # i
    BY <1>6, <1>7, <2>3 DEF SlotInv, GenBound
  <2> QED
    BY <2>1, <2>2, <2>3, Zenon
<1>11. GenUnique'
  BY <1>6, <1>7, <1>8 DEF SlotInv, GenUnique
<1>12. SlotConn'
  <2> SUFFICES ASSUME NEW j \in clients'
               PROVE  j < nextID' /\ cid'[conn'[j]] = j /\ (j \notin held' => cgen'[conn'[j]] = gen'[j])
    BY Zenon DEF SlotConn
  <2>1. CASE j = i
    BY <1>6, <2>1, Zenon
  <2>2. CASE j # i
    <3>1. j \in clients /\ j < nextID /\ cid[conn[j]] = j /\ (j \notin held => cgen[conn[j]] = gen[j])
      BY <2>2, Zenon DEF SlotInv, SlotConn
    <3>2. conn[j] # c
      BY <1>3, <1>7, <3>1, Zenon
    <3> QED
      BY <1>6, <1>7, <2>2, <3>1, <3>2, SMTT(30)
  <2> QED
    BY <2>1, <2>2, Zenon
<1>13. LeaveFromClosed'
  BY <1>1, <1>2, <1>3, <1>6, LeavesStay, Zenon DEF SlotInv
<1>14. HelloPending'
  <2>1. ASSUME NEW k \in DOMAIN inbox', inbox'[k].op \in Hellos PROVE inbox'[k].conn \in Conns
    <3>1. inbox'[k] \in Command
      BY <1>1
    <3> QED
      BY <2>1, <3>1, CommandFields, Zenon DEF Hellos
  <2> QED
    BY <1>1, <1>2, <1>4, <1>6, <2>1, HellosStay, Zenon DEF SlotInv
<1>15. LiveConnOwnsSlot' /\ OverMeansKicked'
  <2>1. LiveConnOwnsSlot'
    <3> SUFFICES ASSUME NEW e \in Conns, pc'[e] = "open", e \notin kicked'
                 PROVE  cid'[e] \in clients' \ held' /\ conn'[cid'[e]] = e /\ gen'[cid'[e]] = cgen'[e]
      BY Zenon DEF LiveConnOwnsSlot
    <3>1. CASE e = c
      BY <1>6, <3>1, Zenon
    <3>2. CASE e # c
      <4>1. cid[e] \in clients \ held /\ conn[cid[e]] = e /\ gen[cid[e]] = cgen[e]
        BY <1>1, <1>6, <3>2 DEF SlotInv, LiveConnOwnsSlot
      <4>2. cid[e] # i
        BY <4>1, Zenon
      <4> QED
        BY <1>6, <1>7, <3>2, <4>1, <4>2
    <3> QED
      BY <3>1, <3>2, Zenon
  <2>2. OverMeansKicked'
    BY <1>1, Zenon DEF OverMeansKicked
  <2> QED
    BY <2>1, <2>2, Zenon
<1>16. NoOrphanSlot' /\ HeldHasTimer'
  <2>1. ASSUME NEW j \in clients' \ held'
        PROVE  \/ pc'[conn'[j]] = "open"
               \/ \E k \in DOMAIN inbox' :
                    inbox'[k].op = "leave" /\ inbox'[k].id = j /\ inbox'[k].gen = gen'[j]
    <3>1. CASE j = i
      BY <1>6, <3>1, Zenon
    <3>2. CASE j # i
      <4>1. j \in clients \ held /\ conn'[j] = conn[j] /\ gen'[j] = gen[j]
        BY <1>6, <1>7, <2>1, <3>2, Zenon
      <4>2. CASE pc[conn[j]] = "open"
        BY <1>6, <1>7, <4>1, <4>2, SMTT(30)
      <4>3. CASE \E k \in DOMAIN inbox : inbox[k].op = "leave" /\ inbox[k].id = j /\ inbox[k].gen = gen[j]
        BY <1>2, <3>2, <4>1, <4>3, SMTT(30) DEF InboxKeeps, Current, LeaveApplies
      <4> QED
        BY <1>1, <4>1, <4>2, <4>3, Zenon DEF SlotInv, NoOrphanSlot
    <3> QED
      BY <3>1, <3>2, Zenon
  <2>2. ASSUME NEW j \in held'
        PROVE  \/ [id |-> j, gen |-> gen'[j]] \in timers' \cup fired'
               \/ \E k \in DOMAIN inbox' :
                    inbox'[k].op = "grace" /\ inbox'[k].id = j /\ inbox'[k].gen = gen'[j]
    <3>1. j # i /\ j \in held /\ gen'[j] = gen[j]
      BY <1>6, <1>7, <2>2, Zenon
    <3>2. CASE [id |-> j, gen |-> gen[j]] \in timers \cup fired
      BY <3>1, <3>2
    <3>3. CASE \E k \in DOMAIN inbox : inbox[k].op = "grace" /\ inbox[k].id = j /\ inbox[k].gen = gen[j]
      BY <1>2, <3>1, <3>3, Zenon DEF InboxKeeps, Current, GraceApplies
    <3> QED
      BY <1>1, <3>1, <3>2, <3>3, Zenon DEF SlotInv, HeldHasTimer
  <2> QED
    BY <2>1, <2>2, Zenon DEF NoOrphanSlot, HeldHasTimer
<1> QED
  BY <1>9, <1>10, <1>11, <1>12, <1>13, <1>14, <1>15, <1>16, Zenon DEF SlotInv

\* A handler that has no slot moves on: it says hello or is refused.
LEMMA UnattachedStep ==
  ASSUME TypeOK, SlotInv, NEW c \in Conns, pc[c] \in {"idle", "hello"},
         NEW p \in {"hello", "closed"}, pc' = [pc EXCEPT ![c] = p],
         UNCHANGED <<slotVars, cid, cgen, done, kicked, timers, fired>>,
         InboxKeeps({}), LeaveFromClosed', HelloPending'
  PROVE  SlotInv'
<1> USE DEF slotVars
<1>1. cid[c] = 0 /\ pc'[c] = p /\ \A e \in Conns : e # c => pc'[e] = pc[e]
  BY Zenon DEF SlotInv, HelloUnattached, TypeOK
<1>2. HelloUnattached' /\ GenBound' /\ GenUnique' /\ SlotConn'
  BY <1>1, Zenon DEF SlotInv, HelloUnattached, GenBound, GenUnique, SlotConn
<1>3. LiveConnOwnsSlot' /\ OverMeansKicked'
  BY <1>1, Zenon DEF SlotInv, LiveConnOwnsSlot, OverMeansKicked
<1>4. NoOrphanSlot'
  <2> SUFFICES ASSUME ~done, NEW j \in clients \ held
               PROVE  \/ pc'[conn[j]] = "open"
                      \/ \E k \in DOMAIN inbox' :
                           inbox'[k].op = "leave" /\ inbox'[k].id = j /\ inbox'[k].gen = gen[j]
    BY DEF NoOrphanSlot
  <2>1. conn[j] \in Conns
    BY Zenon DEF TypeOK
  <2>2. CASE pc[conn[j]] = "open"
    BY <1>1, <2>1, <2>2, Zenon
  <2>3. CASE \E k \in DOMAIN inbox : inbox[k].op = "leave" /\ inbox[k].id = j /\ inbox[k].gen = gen[j]
    BY <2>3 DEF InboxKeeps, Current, LeaveApplies
  <2> QED
    BY <2>2, <2>3, Zenon DEF SlotInv, NoOrphanSlot
<1>5. HeldHasTimer'
  <2> SUFFICES ASSUME ~done, NEW i \in held
               PROVE  \/ [id |-> i, gen |-> gen[i]] \in timers \cup fired
                      \/ \E k \in DOMAIN inbox' :
                           inbox'[k].op = "grace" /\ inbox'[k].id = i /\ inbox'[k].gen = gen[i]
    BY Zenon DEF HeldHasTimer
  <2>1. CASE [id |-> i, gen |-> gen[i]] \in timers \cup fired
    BY <2>1, Zenon
  <2>2. CASE \E k \in DOMAIN inbox : inbox[k].op = "grace" /\ inbox[k].id = i /\ inbox[k].gen = gen[i]
    BY <2>2, Zenon DEF InboxKeeps, Current, GraceApplies
  <2> QED
    BY <2>1, <2>2, Zenon DEF SlotInv, HeldHasTimer
<1> QED
  BY <1>2, <1>3, <1>4, <1>5, Zenon DEF SlotInv

\* The hub refuses a join or a resume (session full, unknown slot, wrong
\* token): the handler ends without a slot.
LEMMA RefuseStep ==
  ASSUME TypeOK, SlotInv, NEW op \in Hellos, Receive(op), Refuse(Head(inbox).conn),
         UNCHANGED <<slotVars, done, kicked, timers, fired>>
  PROVE  SlotInv'
<1> DEFINE c == Head(inbox).conn
<1>1. /\ inbox' \in Seq(Command) /\ c \in Conns
      /\ Head(inbox) = inbox[1] /\ 1 \in DOMAIN inbox /\ Head(inbox).op = op
      /\ \A k \in DOMAIN inbox' : k + 1 \in DOMAIN inbox /\ inbox'[k] = inbox[k + 1]
  BY ReceiveInbox, CommandFields, Zenon DEF Hellos
<1>2. InboxFrom(1) /\ InboxKeeps({})
  BY <1>1, ReceiveMoves, Zenon DEF Current, Hellos
<1>3. pc[c] = "hello"
  BY <1>1, Zenon DEF SlotInv, HelloPending
<1>4. \A k \in DOMAIN inbox' : inbox'[k].op \in Hellos => inbox'[k].conn # c
  <2>1. DOMAIN inbox' \subseteq Nat \ {0}
    BY <1>1
  <2> QED
    BY <1>1, <2>1 DEF SlotInv, HelloPending
<1>5. pc' = [pc EXCEPT ![c] = "closed"] /\ UNCHANGED <<cid, cgen>>
  BY Zenon DEF Refuse
<1> HIDE DEF c
<1>6. \A e \in Conns : e # c => pc'[e] = pc[e]
  BY <1>1, <1>5, Zenon DEF TypeOK
<1>7. LeaveFromClosed'
  BY <1>1, <1>2, <1>3, <1>5, <1>6, LeavesStay, Zenon DEF SlotInv
<1>8. HelloPending'
  <2>1. ASSUME NEW k \in DOMAIN inbox', inbox'[k].op \in Hellos PROVE inbox'[k].conn \in Conns
    <3>1. inbox'[k] \in Command
      BY <1>1
    <3> QED
      BY <2>1, <3>1, CommandFields, Zenon DEF Hellos
  <2> QED
    BY <1>1, <1>2, <1>4, <1>6, <2>1, HellosStay, Zenon DEF SlotInv
<1> QED
  BY Zenon, <1>1, <1>2, <1>3, <1>5, <1>7, <1>8, UnattachedStep

\* A handler sends its hello to the hub, or finds the hub gone.
LEMMA HelloStep ==
  ASSUME TypeOK, SlotInv, NEW c \in Conns, pc[c] = "idle",
         NEW m \in Command, m.op \in Hellos, m.conn = c,
         \/ Submit(m) /\ pc' = [pc EXCEPT ![c] = "hello"]
         \/ Dropped /\ pc' = [pc EXCEPT ![c] = "closed"],
         UNCHANGED <<slotVars, cid, cgen, done, kicked, timers, fired>>
  PROVE  SlotInv'
<1>1. \A e \in Conns : e # c => pc'[e] = pc[e]
  BY Zenon DEF TypeOK
<1>2. cid[c] = 0
  BY Zenon DEF SlotInv, HelloUnattached
<1>3. \A k \in DOMAIN inbox : inbox[k].op \in Hellos => inbox[k].conn # c /\ inbox[k].conn \in Conns
  <2>1. \A k \in DOMAIN inbox : inbox[k].op \in Hellos => inbox[k].conn \in Conns
    BY CommandFields DEF Hellos, TypeOK
  <2> QED
    BY <2>1, Zenon DEF SlotInv, HelloPending
<1>4. CASE Dropped /\ pc' = [pc EXCEPT ![c] = "closed"]
  <2>1. InboxFrom(0) /\ InboxKeeps({}) /\ inbox' \in Seq(Command) /\ inbox' = inbox
    BY <1>4, InboxSame, Zenon DEF Dropped, TypeOK
  <2>2. LeaveFromClosed'
    BY <1>1, <1>2, <2>1, LeavesStay, Zenon DEF SlotInv
  <2>3. HelloPending'
    BY <1>1, <1>3, <2>1, Zenon DEF SlotInv, HelloPending
  <2> QED
    BY Zenon, <1>4, <2>1, <2>2, <2>3, UnattachedStep
<1>5. CASE Submit(m) /\ pc' = [pc EXCEPT ![c] = "hello"]
  <2>1. /\ DOMAIN inbox' = 1..(Len(inbox) + 1) /\ DOMAIN inbox = 1..Len(inbox)
        /\ Len(inbox) \in Nat /\ \A k \in DOMAIN inbox : inbox'[k] = inbox[k]
        /\ inbox'[Len(inbox) + 1] = m
    BY <1>5, SubmitInbox, Zenon
  <2>2. InboxKeeps({})
    BY <2>1 DEF InboxKeeps
  <2>3. LeaveFromClosed'
    <3> SUFFICES ASSUME NEW k \in DOMAIN inbox', inbox'[k].op = "leave"
                 PROVE  \E e \in Conns : /\ pc'[e] = "closed"
                                         /\ cid[e] = inbox'[k].id /\ cgen[e] = inbox'[k].gen
      BY Zenon DEF LeaveFromClosed
    <3>1. k \in DOMAIN inbox /\ inbox'[k] = inbox[k]
      BY <2>1, SMTT(30) DEF Hellos
    <3> QED
      BY <1>1, <3>1 DEF SlotInv, LeaveFromClosed
  <2>4. HelloPending'
    <3>1. pc'[c] = "hello"
      BY <1>5, Zenon DEF TypeOK
    <3>2. ASSUME NEW k \in DOMAIN inbox', inbox'[k].op \in Hellos
          PROVE  pc'[inbox'[k].conn] = "hello"
      <4>1. CASE k \in DOMAIN inbox
        BY <1>1, <1>3, <2>1, <3>2, <4>1 DEF SlotInv, HelloPending
      <4>2. CASE k = Len(inbox) + 1
        BY <2>1, <3>1, <4>2, Zenon
      <4> QED
        BY <2>1, <4>1, <4>2, SMTT(30)
    <3>3. \A k, l \in DOMAIN inbox' :
            inbox'[k].op \in Hellos /\ inbox'[l].op \in Hellos /\ inbox'[l].conn = inbox'[k].conn => l = k
      <4> SUFFICES ASSUME NEW k \in DOMAIN inbox', NEW l \in DOMAIN inbox',
                          inbox'[k].op \in Hellos, inbox'[l].op \in Hellos,
                          inbox'[l].conn = inbox'[k].conn
                   PROVE  l = k
        BY Zenon
      <4>1. \A n \in DOMAIN inbox' : n \in DOMAIN inbox \/ n = Len(inbox) + 1
        BY <2>1
      <4>2. \A n \in DOMAIN inbox : inbox'[n].op \in Hellos => inbox'[n].conn # c
        BY <1>3, <2>1, Zenon
      <4>3. CASE k \in DOMAIN inbox /\ l \in DOMAIN inbox
        BY <2>1, <4>3, Zenon DEF SlotInv, HelloPending
      <4>4. CASE k = Len(inbox) + 1 \/ l = Len(inbox) + 1
        BY <2>1, <4>1, <4>2, <4>4, Zenon
      <4> QED
        BY <4>1, <4>3, <4>4, Zenon
    <3> QED
      BY <3>2, <3>3, Zenon DEF HelloPending
  <2> QED
    BY Zenon, <1>5, <2>2, <2>3, <2>4, UnattachedStep
<1> QED
  BY <1>4, <1>5, Zenon

\* A handler ends: its leave carries its own id and generation.
LEMMA HangUpStep ==
  ASSUME TypeOK, SlotInv, NEW c \in Conns, NEW lost \in BOOLEAN, HangUp(c, lost)
  PROVE  SlotInv'
<1> USE DEF hubVars, slotVars
<1> DEFINE m == LeaveOf(c, lost)
<1>1. /\ pc[c] = "open" /\ pc' = [pc EXCEPT ![c] = "closed"]
      /\ kicked' = kicked \cup {c}
      /\ UNCHANGED <<clients, held, gen, conn, nextID, done, timers, fired, cid, cgen>>
      /\ Submit(m) \/ Dropped
  BY Zenon DEF HangUp
<1>2. pc'[c] = "closed" /\ \A e \in Conns : e # c => pc'[e] = pc[e]
  BY <1>1, Zenon DEF TypeOK
<1>3. cid[c] \in Ids /\ cid[c] # 0
  BY <1>1, HubAssumption, SMTT(30) DEF SlotInv, HelloUnattached, TypeOK, Ids
<1>4. m \in Command /\ m.op = "leave" /\ m.id = cid[c] /\ m.gen = cgen[c]
  BY <1>3, Zenon DEF LeaveOf, Command, LeaveCmd, TypeOK
<1> HIDE DEF m
<1>5. HelloUnattached' /\ GenBound' /\ GenUnique' /\ SlotConn'
  BY <1>1, <1>2, <1>3, Zenon DEF SlotInv, HelloUnattached, GenBound, GenUnique, SlotConn
<1>6. LiveConnOwnsSlot' /\ OverMeansKicked'
  BY <1>1, <1>2, Zenon DEF SlotInv, LiveConnOwnsSlot, OverMeansKicked
<1>7. /\ \A k \in DOMAIN inbox : \E l \in DOMAIN inbox' : inbox'[l] = inbox[k]
      /\ Dropped \/ \E l \in DOMAIN inbox' : inbox'[l] = m
      /\ \A k \in DOMAIN inbox' : inbox'[k] = m \/ (k \in DOMAIN inbox /\ inbox'[k] = inbox[k])
  <2>1. CASE Dropped
    BY <2>1, Zenon DEF Dropped
  <2>2. CASE Submit(m)
    <3>1. /\ DOMAIN inbox' = 1..(Len(inbox) + 1) /\ DOMAIN inbox = 1..Len(inbox)
          /\ Len(inbox) \in Nat /\ \A k \in DOMAIN inbox : inbox'[k] = inbox[k]
          /\ inbox'[Len(inbox) + 1] = m
      BY <1>4, <2>2, SubmitInbox, Zenon
    <3>2. /\ DOMAIN inbox \subseteq DOMAIN inbox' /\ Len(inbox) + 1 \in DOMAIN inbox'
          /\ \A k \in DOMAIN inbox' : k \in DOMAIN inbox \/ k = Len(inbox) + 1
      BY <3>1
    <3> QED
      BY <3>1, <3>2, Zenon
  <2> QED
    BY <1>1, <2>1, <2>2, Zenon
<1>8. LeaveFromClosed'
  <2> SUFFICES ASSUME NEW k \in DOMAIN inbox', inbox'[k].op = "leave"
               PROVE  \E e \in Conns : /\ pc'[e] = "closed"
                                       /\ cid[e] = inbox'[k].id /\ cgen[e] = inbox'[k].gen
    BY <1>1, Zenon DEF LeaveFromClosed
  <2> QED
    BY <1>2, <1>4, <1>7, SMTT(30) DEF SlotInv, LeaveFromClosed
<1>9. HelloPending'
  <2>1. \A k \in DOMAIN inbox : inbox[k].op \in Hellos => inbox[k].conn \in Conns
    BY CommandFields DEF Hellos, TypeOK
  <2>2. \A k \in DOMAIN inbox' : inbox'[k].op \in Hellos => k \in DOMAIN inbox /\ inbox'[k] = inbox[k]
    BY <1>4, <1>7, Zenon DEF Hellos
  <2> QED
    BY <1>1, <1>2, <2>1, <2>2, SMTT(30) DEF SlotInv, HelloPending
<1>10. HeldHasTimer'
  <2> SUFFICES ASSUME ~done, NEW i \in held
               PROVE  \/ [id |-> i, gen |-> gen[i]] \in timers \cup fired
                      \/ \E k \in DOMAIN inbox' :
                           inbox'[k].op = "grace" /\ inbox'[k].id = i /\ inbox'[k].gen = gen[i]
    BY <1>1, Zenon DEF HeldHasTimer
  <2> QED
    BY <1>7, SMTT(30) DEF SlotInv, HeldHasTimer
<1>11. NoOrphanSlot'
  <2> SUFFICES ASSUME ~done, NEW j \in clients \ held
               PROVE  \/ pc'[conn[j]] = "open"
                      \/ \E k \in DOMAIN inbox' :
                           inbox'[k].op = "leave" /\ inbox'[k].id = j /\ inbox'[k].gen = gen[j]
    BY <1>1 DEF NoOrphanSlot
  <2>1. conn[j] \in Conns /\ cid[conn[j]] = j /\ cgen[conn[j]] = gen[j]
    BY Zenon DEF TypeOK, SlotInv, SlotConn
  <2>2. CASE conn[j] = c
    BY <1>4, <1>7, <2>1, <2>2, Zenon DEF Dropped
  <2>3. CASE conn[j] # c
    <3>1. CASE pc[conn[j]] = "open"
      BY <1>2, <2>1, <2>3, <3>1, Zenon
    <3>2. CASE \E k \in DOMAIN inbox : inbox[k].op = "leave" /\ inbox[k].id = j /\ inbox[k].gen = gen[j]
      BY <1>7, <3>2
    <3> QED
      BY <3>1, <3>2, Zenon DEF SlotInv, NoOrphanSlot
  <2> QED
    BY <2>2, <2>3, Zenon
<1> QED
  BY <1>5, <1>6, <1>8, <1>9, <1>10, <1>11, Zenon DEF SlotInv

\* The session ends: everybody who still owns a slot is kicked.
LEMMA CloseStep == ASSUME TypeOK, SlotInv, HandleClose PROVE SlotInv'
<1> USE DEF slotVars, connVars
<1>1. /\ Receive("close") /\ done' = TRUE
      /\ UNCHANGED <<clients, held, gen, conn, nextID, pc, cid, cgen>>
      /\ kicked \cup {conn[i] : i \in clients} \subseteq kicked'
  BY Zenon DEF HandleClose, Everyone, Broadcast, Evict
<1>2. ~done /\ inbox' \in Seq(Command) /\ Head(inbox).op = "close"
  BY <1>1, ReceiveInbox, Zenon
<1>3. InboxFrom(1)
  BY <1>1, <1>2, ReceiveMoves, Zenon DEF Current
<1>4. HelloUnattached' /\ GenBound' /\ GenUnique' /\ SlotConn'
  BY <1>1, Zenon DEF SlotInv, HelloUnattached, GenBound, GenUnique, SlotConn
<1>5. LeaveFromClosed' /\ HelloPending'
  BY <1>1, <1>2, <1>3, LeavesStay, HellosStay, Zenon DEF SlotInv
<1>6. OverMeansKicked'
  <2> SUFFICES ASSUME NEW c \in Conns, pc[c] = "open", c \notin kicked'
               PROVE  FALSE
    BY <1>1, Zenon DEF OverMeansKicked
  <2>1. cid[c] \in clients /\ conn[cid[c]] = c
    BY <1>1, <1>2, Zenon DEF SlotInv, LiveConnOwnsSlot
  <2> QED
    BY <1>1, <2>1, Zenon
<1>7. LiveConnOwnsSlot' /\ NoOrphanSlot' /\ HeldHasTimer'
  BY <1>1, Zenon DEF LiveConnOwnsSlot, NoOrphanSlot, HeldHasTimer
<1> QED
  BY <1>4, <1>5, <1>6, <1>7, Zenon DEF SlotInv

-----------------------------------------------------------------------------
\* Every step of the hub, its timers and the connection handlers keeps the
\* slot invariant.
LEMMA SlotStep == TypeOK /\ TypeOK' /\ SlotInv /\ [Next]_vars => SlotInv'
<1> SUFFICES ASSUME TypeOK, TypeOK', SlotInv, [Next]_vars PROVE SlotInv'
  BY Zenon
<1> USE DEF hubVars, slotVars, connVars, history
<1>0. inbox' \in Seq(Command)
  BY Zenon DEF TypeOK
<1>1. CASE HandleJoinFull
  BY <1>1, RefuseStep, Zenon DEF HandleJoinFull, Hellos
<1>2. CASE HandleJoin
  <2>1. /\ Receive("join") /\ nextID \in Ids /\ nextID' = nextID + 1
        /\ clients' = clients \cup {nextID}
        /\ gen' = [gen EXCEPT ![nextID] = 1]
        /\ conn' = [conn EXCEPT ![nextID] = Head(inbox).conn]
        /\ Attach(Head(inbox).conn, nextID, 1)
        /\ UNCHANGED <<held, timers, fired, done>> /\ kicked \subseteq kicked'
    BY <1>2, Zenon DEF HandleJoin, Evict
  <2>2. nextID \notin clients /\ nextID \notin held /\ nextID \in Nat
    BY <2>1, IdRange DEF SlotInv, SlotConn, TypeOK
  <2>3. /\ held' = held \ {nextID} /\ nextID < nextID' /\ nextID' \in Nat /\ nextID <= nextID'
        /\ 1 \in Nat \ {0} /\ "join" \in Hellos
    BY <2>1, <2>2, SMTT(30) DEF Hellos
  <2> QED
    BY Zenon, <2>1, <2>2, <2>3, AttachStep
<1>3. CASE HandleLeave
  <2> DEFINE m == Head(inbox)
  <2>1. Receive("leave") /\ UNCHANGED <<fired, connVars>>
    BY <1>3, Zenon DEF HandleLeave
  <2>2. m.id \in Ids /\ ~done /\ m.op = "leave"
    BY <2>1, ReceiveInbox, CommandFields, Zenon
  <2>3. CASE ~LeaveApplies(m) /\ UNCHANGED <<hubVars, out, kicked>>
    <3>1. InboxFrom(1) /\ InboxKeeps({})
      BY <2>1, <2>2, <2>3, ReceiveMoves, Zenon DEF Current
    <3> QED
      BY <1>0, <2>1, <2>3, <3>1, QuietStep, Zenon
  <2>4. CASE LeaveApplies(m) /\ HoldSlot(m.id)
    BY <2>1, <2>4, HoldStep, Zenon
  <2>5. CASE RemoveParticipant(m.id, evict)
    <3>1. InboxFrom(1) /\ InboxKeeps({m.id})
      BY <2>1, ReceiveMoves, Zenon
    <3> QED
      BY <1>0, <2>1, <2>2, <2>5, <3>1, RemoveStep, Zenon
  <2> QED
    BY <1>3, <2>3, <2>4, <2>5, Zenon DEF HandleLeave
<1>4. CASE HandleGraceExpired
  <2> DEFINE m == Head(inbox)
  <2>1. Receive("grace") /\ UNCHANGED <<fired, connVars>>
    BY <1>4, Zenon DEF HandleGraceExpired
  <2>2. m.id \in Ids /\ ~done /\ m.op = "grace"
    BY <2>1, ReceiveInbox, CommandFields, Zenon
  <2>3. CASE ~GraceApplies(m) /\ UNCHANGED <<hubVars, out, kicked>>
    <3>1. InboxFrom(1) /\ InboxKeeps({})
      BY <2>1, <2>2, <2>3, ReceiveMoves, Zenon DEF Current
    <3> QED
      BY <1>0, <2>1, <2>3, <3>1, QuietStep, Zenon
  <2>4. CASE RemoveParticipant(m.id, evict)
    <3>1. InboxFrom(1) /\ InboxKeeps({m.id})
      BY <2>1, ReceiveMoves, Zenon
    <3> QED
      BY <1>0, <2>1, <2>2, <2>4, <3>1, RemoveStep, Zenon
  <2> QED
    BY <1>4, <2>3, <2>4, Zenon DEF HandleGraceExpired
<1>5. CASE HandleResume
  <2> DEFINE m == Head(inbox)
  <2>1. Receive("resume") /\ UNCHANGED fired
    BY <1>5, Zenon DEF HandleResume
  <2>2. m.id \in Ids /\ m.conn \in Conns
    BY <2>1, ReceiveInbox, CommandFields, Zenon
  <2>3. CASE ~(m.id \in clients /\ m.token)
    BY <1>5, <2>1, <2>3, RefuseStep, Zenon DEF HandleResume, Hellos
  <2>4. CASE m.id \in clients /\ m.token
    <3>1. /\ timers' = {t \in timers : t.id # m.id}
          /\ kicked' = kicked \cup Superseded(m.id)
          /\ held' = held \ {m.id}
          /\ gen' = [gen EXCEPT ![m.id] = gen[m.id] + 1]
          /\ conn' = [conn EXCEPT ![m.id] = m.conn]
          /\ Attach(m.conn, m.id, gen[m.id] + 1)
          /\ UNCHANGED <<clients, nextID, done>>
      BY <1>5, <2>4, Zenon DEF HandleResume, Disarmed
    <3>2. m.id < nextID /\ gen[m.id] + 1 \in Nat \ {0} /\ nextID \in Nat
      <4>1. m.id < nextID
        BY <2>4, Zenon DEF SlotInv, SlotConn
      <4>2. gen[m.id] \in Nat
        BY Zenon, <2>2 DEF TypeOK
      <4>3. nextID \in Nat
        BY HubAssumption, SMTT(30) DEF TypeOK
      <4> QED
        BY <4>1, <4>2, <4>3
    <3>3. clients' = clients \cup {m.id} /\ "resume" \in Hellos /\ nextID' = nextID
      BY <2>4, <3>1, Zenon DEF Hellos
    <3>4. kicked \subseteq kicked' /\ (m.id \in clients \ held => conn[m.id] \in kicked')
      BY <3>1, Zenon DEF Superseded
    <3>5. m.id < nextID' /\ nextID' \in Nat /\ nextID <= nextID'
      BY <3>2, <3>3, SMTT(30)
    <3> DEFINE g == gen[m.id] + 1
    <3>6. /\ g \in Nat \ {0} /\ g = gen[m.id] + 1 /\ gen' = [gen EXCEPT ![m.id] = g]
          /\ Attach(m.conn, m.id, g)
      BY <3>1, <3>2, Zenon
    <3> HIDE DEF g
    <3> QED
      BY Zenon, <2>1, <2>2, <3>1, <3>2, <3>3, <3>4, <3>5, <3>6, AttachStep
  <2> QED
    BY <2>3, <2>4, Zenon
<1>6. CASE HandleClaimHost \/ Route
  <2>1. PICK op \in {"claim", "frame"} : Receive(op)
    BY <1>6, Zenon DEF HandleClaimHost, Route
  <2>2. UNCHANGED <<slotVars, connVars, done, timers, fired>> /\ kicked \subseteq kicked'
    <3>1. CASE HandleClaimHost
      BY <3>1, Zenon DEF HandleClaimHost
    <3>2. CASE Route
      <4>1. PICK R, f : Broadcast(R, f, evict, {})
        BY <3>2, Zenon DEF Route
      <4>2. kicked \subseteq kicked'
        BY <4>1, Zenon DEF Broadcast, Evict
      <4> QED
        BY <3>2, <4>2, Zenon DEF Route
    <3> QED
      BY <1>6, <3>1, <3>2, Zenon
  <2>3. InboxFrom(1) /\ InboxKeeps({})
    BY <2>1, ReceiveInbox, ReceiveMoves, Zenon DEF Current
  <2> QED
    BY <1>0, <2>2, <2>3, QuietStep, Zenon
<1>7. CASE HandleClose
  BY <1>7, CloseStep, Zenon
<1>8. CASE DrainEvictions
  <2>1. /\ ~done /\ RemoveParticipant(Head(evict), Tail(evict))
        /\ UNCHANGED <<inbox, fired, connVars>> /\ evict # <<>> /\ evict \in Seq(Ids)
    BY <1>8, Zenon DEF DrainEvictions, TypeOK
  <2>2. Head(evict) \in Ids
    BY <2>1
  <2>3. InboxFrom(0) /\ InboxKeeps({Head(evict)})
    BY <2>1, InboxSame, KeepsMore, Zenon
  <2> QED
    BY <1>0, <2>1, <2>2, <2>3, RemoveStep, Zenon
<1>9. ASSUME NEW c \in Conns, HelloJoin(c) PROVE SlotInv'
  <2>1. [op |-> "join", conn |-> c] \in Command
    BY Zenon DEF Command, JoinCmd
  <2> QED
    BY <1>9, <2>1, HelloStep, Zenon DEF HelloJoin, Hellos
<1>10. ASSUME NEW c \in Conns, NEW i \in Ids, NEW token \in BOOLEAN, HelloResume(c, i, token)
       PROVE  SlotInv'
  <2>1. [op |-> "resume", id |-> i, token |-> token, conn |-> c] \in Command
    BY Zenon DEF Command, ResumeCmd
  <2> QED
    BY <1>10, <2>1, HelloStep, Zenon DEF HelloResume, Hellos
<1>11. ASSUME NEW c \in Conns, ReadToHub(c) PROVE SlotInv'
  <2>1. PICK m \in [op : {"frame"}, from : {cid[c]}, to : 0..MaxID] \cup [op : {"claim"}, id : {cid[c]}] :
          Submit(m) \/ Dropped
    BY <1>11, Zenon DEF ReadToHub
  <2>2. cid[c] \in Ids
    <3>1. cid[c] \in 0..MaxID /\ cid[c] # 0
      BY <1>11, Zenon DEF ReadToHub, SlotInv, HelloUnattached, TypeOK
    <3> QED
      BY <3>1, HubAssumption, SMTT(30) DEF Ids
  <2>3. m \in Command /\ m.op \notin Hellos \cup {"leave"}
    BY <2>1, <2>2, Zenon DEF Command, FrameCmd, ClaimCmd, Hellos
  <2>4. InboxFrom(0) /\ InboxKeeps({})
    BY <2>1, <2>3, SubmitMoves, InboxSame, Zenon DEF Dropped
  <2> QED
    BY <1>0, <1>11, <2>4, QuietStep, Zenon DEF ReadToHub
<1>12. ASSUME NEW c \in Conns, ReadPing(c) \/ Write(c) PROVE SlotInv'
  <2>1. InboxFrom(0) /\ InboxKeeps({})
    BY <1>12, InboxSame, Zenon DEF ReadPing, Write
  <2> QED
    BY <1>0, <1>12, <2>1, QuietStep, Zenon DEF ReadPing, Write
<1>13. ASSUME NEW c \in Conns, NEW lost \in BOOLEAN, HangUp(c, lost) PROVE SlotInv'
  BY <1>13, HangUpStep, Zenon
<1>14. ASSUME NEW t \in timers, TimerFires(t) PROVE SlotInv'
  <2>1. InboxFrom(0) /\ InboxKeeps({})
    BY <1>14, InboxSame, Zenon DEF TimerFires
  <2> QED
    BY <1>0, <1>14, <2>1, QuietStep, Zenon DEF TimerFires
<1>15. ASSUME NEW t \in fired, TimerSends(t) PROVE SlotInv'
  <2> DEFINE m == [op |-> "grace", id |-> t.id, gen |-> t.gen]
  <2>1. m \in Command /\ m.op \notin Hellos \cup {"leave"}
    BY Zenon DEF Command, GraceCmd, TypeOK, Timer, Hellos
  <2>2. /\ fired' = fired \ {t}
        /\ Submit(m) \/ Dropped
        /\ UNCHANGED <<clients, held, gen, conn, nextID, pc, cid, cgen, done, kicked, timers>>
    BY <1>15, Zenon DEF TimerSends
  <2> HIDE DEF m
  <2>3. InboxFrom(0) /\ InboxKeeps({})
    BY <2>1, <2>2, SubmitMoves, InboxSame, Zenon DEF Dropped
  <2>4. ~done => \E k \in DOMAIN inbox' : inbox'[k] = m
    <3>1. CASE Submit(m)
      <4>1. /\ DOMAIN inbox' = 1..(Len(inbox) + 1) /\ Len(inbox) \in Nat
            /\ inbox'[Len(inbox) + 1] = m
        BY <2>1, <3>1, SubmitInbox, Zenon
      <4> QED
        BY <4>1
    <3> QED
      BY <2>2, <3>1, Zenon DEF Dropped
  <2>5. ~done => \A u \in timers \cup fired :
                   \/ u \in timers' \cup fired'
                   \/ \E k \in DOMAIN inbox' : inbox'[k] = [op |-> "grace", id |-> u.id, gen |-> u.gen]
    <3> SUFFICES ASSUME ~done, NEW u \in timers \cup fired
                 PROVE  \/ u \in timers' \cup fired'
                        \/ \E k \in DOMAIN inbox' :
                             inbox'[k] = [op |-> "grace", id |-> u.id, gen |-> u.gen]
      BY Zenon
    <3>1. CASE u = t
      BY <2>4, <3>1, Zenon DEF m
    <3>2. CASE u # t
      BY <2>2, <3>2, Zenon
    <3> QED
      BY <3>1, <3>2, Zenon
  <2> QED
    BY <1>0, <2>2, <2>3, <2>5, QuietStep, Zenon
<1>16. CASE Sweep
  <2>1. [op |-> "close"] \in Command
    BY Zenon DEF Command, CloseCmd
  <2>2. InboxFrom(0) /\ InboxKeeps({})
    BY <1>16, <2>1, SubmitMoves, InboxSame, Zenon DEF Sweep, Dropped, Hellos
  <2> QED
    BY <1>0, <1>16, <2>2, QuietStep, Zenon DEF Sweep
<1>17. CASE UNCHANGED vars
  <2>1. InboxFrom(0) /\ InboxKeeps({})
    BY <1>17, InboxSame, Zenon DEF vars
  <2> QED
    BY <1>0, <1>17, <2>1, QuietStep, Zenon DEF vars
<1> QED
  BY <1>1, <1>2, <1>3, <1>4, <1>5, <1>6, <1>7, <1>8, <1>9, <1>10, <1>11, <1>12, <1>13, <1>14,
     <1>15, <1>16, <1>17, Zenon DEF Next, Hub, Client, Timers

-----------------------------------------------------------------------------
(* Evictions.                                                              *)

\* Nobody is queued for eviction twice, and whoever is has a slot.
EvictInv ==
  ~done => /\ \A j, k \in DOMAIN evict : evict[j] = evict[k] => j = k
           /\ Range(evict) \subseteq clients

\* Overflowed receivers join the queue once each: queue skips those that are
\* being evicted already.
LEMMA EvictQueue ==
  ASSUME TypeOK, NEW R \in SUBSET Ids, NEW pending \in Seq(Ids), NEW also,
         \A j, k \in DOMAIN pending : pending[j] = pending[k] => j = k,
         Range(pending) \subseteq Range(evict),
         Evict(R, pending, also)
  PROVE  /\ \A j, k \in DOMAIN evict' : evict'[j] = evict'[k] => j = k
         /\ Range(evict') = Range(pending) \cup Overflow(R)
<1>1. PICK n \in 0..MaxID : \E s \in Bijection(1..n, Overflow(R)) : evict' = pending \o s
  BY Zenon DEF Evict
<1>2. PICK s \in Bijection(1..n, Overflow(R)) : evict' = pending \o s
  BY <1>1, Zenon
<1>3. s \in Seq(Ids) /\ n \in Nat
  BY OverflowSeqs, HubAssumption
<1>4. /\ s \in [1..n -> Overflow(R)] /\ \A j, k \in 1..n : s[j] = s[k] => j = k
      /\ \A x \in Overflow(R) : \E k \in 1..n : s[k] = x
  BY Zenon DEF Bijection, Injection, Surjection, IsInjective
<1> DEFINE p == Len(pending)
<1>5. /\ p \in Nat /\ DOMAIN pending = 1..p /\ DOMAIN evict' = 1..(p + n)
      /\ \A k \in 1..p : evict'[k] = pending[k]
      /\ \A k \in (p + 1)..(p + n) : evict'[k] = s[k - p] /\ k - p \in 1..n
  <2>1. p \in Nat /\ DOMAIN pending = 1..p
    OBVIOUS
  <2>2. Len(s) = n
    BY <1>3, <1>4
  <2>3. DOMAIN evict' = 1..(p + n)
    BY <1>2, <1>3, <2>1, <2>2
  <2> QED
    BY <1>2, <1>3, <2>1, <2>2, <2>3
<1> HIDE DEF p
<1>6. Overflow(R) \cap Range(pending) = {}
  BY Zenon DEF Overflow
<1>7. \A k \in 1..p : pending[k] \in Range(pending)
  BY <1>5, Zenon DEF Range
<1>8. ASSUME NEW j \in DOMAIN evict', NEW k \in DOMAIN evict', evict'[j] = evict'[k] PROVE j = k
  <2>1. \A l \in DOMAIN evict' : l \in 1..p \/ l \in (p + 1)..(p + n)
    BY <1>3, <1>5
  <2>2. CASE j \in 1..p /\ k \in 1..p
    BY <1>5, <1>8, <2>2, Zenon
  <2>3. CASE j \in (p + 1)..(p + n) /\ k \in (p + 1)..(p + n)
    <3>1. s[j - p] = s[k - p] /\ j - p \in 1..n /\ k - p \in 1..n
      BY <1>5, <1>8, <2>3, Zenon
    <3>2. j - p = k - p
      BY <1>4, <3>1, Zenon
    <3> QED
      BY <1>5, <1>3, <2>3, <3>2, SMTT(30)
  <2>4. \A l \in (p + 1)..(p + n) : evict'[l] \in Overflow(R)
    BY <1>4, <1>5
  <2>5. \A l \in 1..p : evict'[l] \in Range(pending)
    BY <1>5, <1>7, Zenon
  <2> QED
    BY <1>6, <1>8, <2>1, <2>2, <2>3, <2>4, <2>5, Zenon
<1>9. Range(evict') \subseteq Range(pending) \cup Overflow(R)
  <2>1. ASSUME NEW l \in DOMAIN evict' PROVE evict'[l] \in Range(pending) \cup Overflow(R)
    <3>1. l \in 1..p \/ l \in (p + 1)..(p + n)
      BY <1>3, <1>5
    <3> QED
      BY <1>4, <1>5, <1>7, <3>1
  <2> QED
    BY <2>1, Zenon DEF Range
<1>10. Range(pending) \subseteq Range(evict')
  <2>1. \A k \in 1..p : k \in DOMAIN evict' /\ evict'[k] = pending[k]
    BY <1>3, <1>5
  <2> QED
    BY <1>5, <2>1 DEF Range
<1>11. Overflow(R) \subseteq Range(evict')
  <2>1. ASSUME NEW x \in Overflow(R) PROVE x \in Range(evict')
    <3>1. PICK k \in 1..n : s[k] = x
      BY <1>4, Zenon
    <3>2. k + p \in (p + 1)..(p + n) /\ (k + p) - p = k /\ k + p \in DOMAIN evict'
      BY <1>3, <1>5
    <3>3. evict'[k + p] = x
      BY <1>5, <3>1, <3>2, Zenon
    <3> QED
      BY <3>2, <3>3, Zenon DEF Range
  <2> QED
    BY <2>1, Zenon
<1> QED
  BY <1>8, <1>9, <1>10, <1>11, Zenon

\* The queue is empty between commands, and taking its head off leaves the
\* others, each of them once.
LEMMA EvictHead ==
  ASSUME TypeOK, EvictInv, ~done, evict # <<>>
  PROVE  /\ Head(evict) \in clients /\ Tail(evict) \in Seq(Ids)
         /\ \A j, k \in DOMAIN Tail(evict) : Tail(evict)[j] = Tail(evict)[k] => j = k
         /\ Range(Tail(evict)) = Range(evict) \ {Head(evict)}
<1> DEFINE t == Tail(evict)  n == Len(evict)
<1>1. /\ n \in Nat \ {0} /\ DOMAIN evict = 1..n /\ t \in Seq(Ids) /\ DOMAIN t = 1..(n - 1)
      /\ Head(evict) = evict[1] /\ \A k \in 1..(n - 1) : t[k] = evict[k + 1] /\ k + 1 \in 1..n
  <2>1. evict \in Seq(Ids)
    BY Zenon DEF TypeOK
  <2>2. n \in Nat \ {0} /\ DOMAIN evict = 1..n /\ t \in Seq(Ids) /\ Len(t) = n - 1
    BY <2>1
  <2> QED
    BY <2>1, <2>2
<1> HIDE DEF t, n
<1>2. \A j, k \in 1..n : evict[j] = evict[k] => j = k
  BY <1>1, Zenon DEF EvictInv
<1>3. 1 \in 1..n
  BY <1>1
<1>4. Head(evict) \in clients
  BY <1>1, <1>3, Zenon DEF EvictInv, Range
<1>5. \A j, k \in DOMAIN t : t[j] = t[k] => j = k
  BY <1>1, <1>2
<1>6. Range(t) \subseteq Range(evict) \ {Head(evict)}
  <2>1. ASSUME NEW k \in DOMAIN t PROVE t[k] \in Range(evict) /\ t[k] # Head(evict)
    <3>1. t[k] = evict[k + 1] /\ k + 1 \in 1..n /\ k + 1 # 1
      BY <1>1
    <3> QED
      BY <1>1, <1>2, <1>3, <3>1 DEF Range
  <2> QED
    BY <2>1, Zenon DEF Range
<1>7. Range(evict) \ {Head(evict)} \subseteq Range(t)
  <2>1. ASSUME NEW k \in DOMAIN evict, evict[k] # Head(evict) PROVE evict[k] \in Range(t)
    <3>1. k - 1 \in 1..(n - 1) /\ (k - 1) + 1 = k
      BY <1>1, <2>1
    <3>2. t[k - 1] = evict[k] /\ k - 1 \in DOMAIN t
      BY <1>1, <3>1, Zenon
    <3> QED
      BY <3>2, Zenon DEF Range
  <2> QED
    BY <2>1, Zenon DEF Range
<1> QED
  BY <1>1, <1>4, <1>5, <1>6, <1>7, Zenon DEF t

\* A queue with nobody in it.
LEMMA EvictNone ==
  ASSUME evict = <<>>
  PROVE  /\ \A j, k \in DOMAIN evict : evict[j] = evict[k] => j = k
         /\ Range(evict) = {}
<1>1. DOMAIN evict = {}
  OBVIOUS
<1> QED
  BY <1>1, Zenon DEF Range

\* removeParticipant takes one slot away, tells the others and leaves a queue
\* of participants with slots.
LEMMA EvictRemove ==
  ASSUME TypeOK, NEW i \in Ids, NEW pending \in Seq(Ids),
         \A j, k \in DOMAIN pending : pending[j] = pending[k] => j = k,
         Range(pending) \subseteq Range(evict), Range(pending) \subseteq clients \ {i},
         RemoveParticipant(i, pending)
  PROVE  /\ EvictInv'
         /\ ~done' => /\ out' = Queued(clients \ {i}, Msg("left", {i}))
                      /\ Range(evict') = Range(pending) \cup Overflow(clients \ {i})
<1>1. CASE clients \ {i} = {}
  BY <1>1, Zenon DEF RemoveParticipant, EvictInv
<1>2. CASE clients \ {i} # {}
  <2>1. /\ Evict(clients \ {i}, pending, {conn[i]}) /\ clients' = clients \ {i}
        /\ out' = Queued(clients \ {i}, Msg("left", {i}))
    BY <1>2, Zenon DEF RemoveParticipant, Broadcast
  <2>2. clients \ {i} \in SUBSET Ids /\ Overflow(clients \ {i}) \subseteq clients \ {i}
    BY Zenon DEF TypeOK, Overflow
  <2>3. /\ \A j, k \in DOMAIN evict' : evict'[j] = evict'[k] => j = k
        /\ Range(evict') = Range(pending) \cup Overflow(clients \ {i})
    BY <2>1, <2>2, EvictQueue, Zenon
  <2> QED
    BY <2>1, <2>2, <2>3, Zenon DEF EvictInv
<1> QED
  BY <1>1, <1>2, Zenon

\* What the handlers of leaves and grace expiries do with a slot.
Removes(i) ==
  \/ evict = <<>> /\ RemoveParticipant(i, evict)
  \/ evict # <<>> /\ i = Head(evict) /\ RemoveParticipant(i, Tail(evict))

\* A slot is only ever removed with the queue in order.
LEMMA RemovesEvict ==
  ASSUME TypeOK, EvictInv, ~done, NEW i \in Ids, Removes(i)
  PROVE  /\ EvictInv'
         /\ ~done' => /\ out' = Queued(clients \ {i}, Msg("left", {i}))
                      /\ Range(evict') = (Range(evict) \ {i}) \cup Overflow(clients \ {i})
<1>1. CASE evict = <<>> /\ RemoveParticipant(i, evict)
  <2>1. /\ \A j, k \in DOMAIN evict : evict[j] = evict[k] => j = k
        /\ Range(evict) = {} /\ evict \in Seq(Ids)
    BY <1>1, EvictNone, Zenon DEF TypeOK
  <2> QED
    BY <1>1, <2>1, EvictRemove, Zenon
<1>2. CASE evict # <<>> /\ i = Head(evict) /\ RemoveParticipant(i, Tail(evict))
  <2>1. /\ Tail(evict) \in Seq(Ids)
        /\ \A j, k \in DOMAIN Tail(evict) : Tail(evict)[j] = Tail(evict)[k] => j = k
        /\ Range(Tail(evict)) = Range(evict) \ {i}
    BY <1>2, EvictHead, Zenon
  <2>2. Range(evict) \subseteq clients
    BY Zenon DEF EvictInv
  <2> DEFINE t == Tail(evict)
  <2>3. /\ t \in Seq(Ids) /\ \A j, k \in DOMAIN t : t[j] = t[k] => j = k
        /\ Range(t) \subseteq Range(evict) /\ Range(t) \subseteq clients \ {i}
        /\ RemoveParticipant(i, t) /\ Range(t) = Range(evict) \ {i}
    BY <1>2, <2>1, <2>2, Zenon
  <2> HIDE DEF t
  <2> QED
    BY <2>3, EvictRemove, Zenon
<1> QED
  BY <1>1, <1>2, Zenon DEF Removes

\* The steps that tell clients something: a join, the end of a slot, routing.
LEMMA BroadcastEvict ==
  ASSUME TypeOK, NEW R \in SUBSET clients, NEW also, evict = <<>>, Evict(R, evict, also),
         clients \subseteq clients'
  PROVE  EvictInv' /\ Range(evict') = Overflow(R)
<1>1. /\ \A j, k \in DOMAIN evict : evict[j] = evict[k] => j = k
      /\ Range(evict) = {} /\ evict \in Seq(Ids) /\ R \in SUBSET Ids /\ Overflow(R) \subseteq R
  BY EvictNone, Zenon DEF TypeOK, Overflow
<1>2. /\ \A j, k \in DOMAIN evict' : evict'[j] = evict'[k] => j = k
      /\ Range(evict') = Range(evict) \cup Overflow(R)
  BY <1>1, EvictQueue, Zenon
<1> QED
  BY <1>1, <1>2, Zenon DEF EvictInv

\* Which slot a step of the hub removes, if any.
LEMMA RemovalSteps ==
  ASSUME TypeOK, EvictInv
  PROVE  /\ HandleLeave =>
              \/ ~LeaveApplies(Head(inbox)) /\ UNCHANGED <<hubVars, out, kicked>>
              \/ /\ LeaveApplies(Head(inbox)) /\ Head(inbox).id \in clients \ held
                 /\ HoldSlot(Head(inbox).id)
              \/ ~done /\ Head(inbox).id \in clients /\ Removes(Head(inbox).id)
         /\ HandleGraceExpired =>
              \/ UNCHANGED <<hubVars, out, kicked>>
              \/ ~done /\ Head(inbox).id \in clients /\ Removes(Head(inbox).id)
         /\ DrainEvictions => ~done /\ Head(evict) \in clients /\ Removes(Head(evict))
<1>1. held \subseteq clients
  BY Zenon DEF TypeOK
<1>2. HandleLeave => evict = <<>> /\ ~done
  BY Zenon DEF HandleLeave, Receive
<1>3. HandleGraceExpired => evict = <<>> /\ ~done
  BY Zenon DEF HandleGraceExpired, Receive
<1>4. ASSUME DrainEvictions PROVE ~done /\ Head(evict) \in clients /\ Removes(Head(evict))
  BY <1>4, EvictHead, Zenon DEF DrainEvictions, Removes
<1>5. ASSUME HandleLeave
      PROVE  \/ ~LeaveApplies(Head(inbox)) /\ UNCHANGED <<hubVars, out, kicked>>
             \/ /\ LeaveApplies(Head(inbox)) /\ Head(inbox).id \in clients \ held
                /\ HoldSlot(Head(inbox).id)
             \/ ~done /\ Head(inbox).id \in clients /\ Removes(Head(inbox).id)
  BY Zenon, <1>2, <1>5 DEF HandleLeave, LeaveApplies, Removes
<1>6. ASSUME HandleGraceExpired
      PROVE  \/ UNCHANGED <<hubVars, out, kicked>>
             \/ ~done /\ Head(inbox).id \in clients /\ Removes(Head(inbox).id)
  BY Zenon, <1>1, <1>3, <1>6 DEF HandleGraceExpired, GraceApplies, Removes
<1> QED
  BY <1>4, <1>5, <1>6, Zenon

\* route tells some clients one frame, which is not a reply and says nothing
\* of the membership.
LEMMA RouteTells ==
  ASSUME TypeOK, Route
  PROVE  /\ Receive("frame")
         /\ UNCHANGED <<slotVars, host, done, timers, fired, connVars, history, traffic>>
         /\ \E R \in SUBSET clients, f \in Frame :
              f.kind \in {"data", "error"} /\ Broadcast(R, f, evict, {})
<1>1. Receive("frame") /\ UNCHANGED <<slotVars, host, done, timers, fired, connVars, history, traffic>>
  BY Zenon DEF Route
<1>2. Head(inbox).from \in Ids
  BY <1>1, ReceiveInbox, CommandFields, Zenon
<1>3. Msg("data", {Head(inbox).from}) \in Frame /\ Msg("error", {}) \in Frame
  BY <1>2, MsgType, Zenon DEF Kinds
<1>4. \A k, S : Msg(k, S).kind = k
  BY Zenon DEF Msg
<1> QED
  BY <1>1, <1>3, <1>4, Zenon DEF Route

\* Every step keeps the queue of evictions in order.
LEMMA EvictStep == TypeOK /\ EvictInv /\ [Next]_vars => EvictInv'
<1> SUFFICES ASSUME TypeOK, EvictInv, [Next]_vars PROVE EvictInv'
  BY Zenon
<1> USE DEF hubVars, slotVars, connVars, history
<1>1. CASE UNCHANGED <<clients, evict, done>>
  BY <1>1, Zenon DEF EvictInv, Range
<1>2. CASE HandleJoin
  <2>1. evict = <<>> /\ Evict(clients, evict, {}) /\ clients \subseteq clients'
    BY <1>2, Zenon DEF HandleJoin, Receive
  <2> QED
    BY <2>1, BroadcastEvict, Zenon
<1>3. ASSUME ~done, NEW i \in clients, Removes(i) PROVE EvictInv'
  BY <1>3, RemovesEvict, Zenon DEF TypeOK
<1>4. CASE HandleLeave
  BY <1>1, <1>3, <1>4, RemovalSteps, Zenon DEF HoldSlot
<1>5. CASE HandleGraceExpired
  BY <1>1, <1>3, <1>5, RemovalSteps, Zenon
<1>6. CASE DrainEvictions
  BY <1>3, <1>6, RemovalSteps, Zenon
<1>7. CASE Route
  <2>1. Receive("frame") /\ UNCHANGED clients
    BY <1>7, RouteTells, Zenon
  <2>2. PICK R \in SUBSET clients, f \in Frame : Broadcast(R, f, evict, {})
    BY <1>7, RouteTells, Zenon
  <2> QED
    BY <2>1, <2>2, BroadcastEvict, Zenon DEF Receive, Broadcast
<1>8. CASE HandleClose
  BY <1>8, Zenon DEF HandleClose, EvictInv
<1>9. CASE HandleJoinFull \/ HandleResume \/ HandleClaimHost
  BY <1>1, <1>9, Zenon DEF HandleJoinFull, HandleResume, HandleClaimHost
<1>10. ASSUME NEW c \in Conns, Client(c) \/ Write(c) PROVE EvictInv'
  BY <1>1, <1>10, Zenon DEF Client, HelloJoin, HelloResume, ReadToHub, ReadPing, HangUp, Write
<1>11. CASE Timers \/ Sweep
  BY <1>1, <1>11, Zenon DEF Timers, TimerFires, TimerSends, Sweep
<1> QED
  BY <1>1, <1>2, <1>4, <1>5, <1>6, <1>7, <1>8, <1>9, <1>10, <1>11, Zenon DEF Next, Hub, vars

-----------------------------------------------------------------------------
(* Grace expiries.                                                         *)

\* The expiry of generation g of slot i waits in the inbox.
Expiring(i, g) ==
  \E k \in DOMAIN inbox : inbox[k].op = "grace" /\ inbox[k].id = i /\ inbox[k].gen = g

TimerOf(i, g) == [id |-> i, gen |-> g]

\* No expiry is ahead of its slot's generation, and a timer that is still
\* armed has not gone off: there is one expiry per hold.
ExpiryInv ==
  /\ \A i \in Ids : nextID <= i => gen[i] = 0
  /\ \A i \in Ids, g \in Nat : gen[i] < g => TimerOf(i, g) \notin timers \cup fired /\ ~Expiring(i, g)
  /\ \A i \in Ids, g \in Nat : TimerOf(i, g) \in timers => TimerOf(i, g) \notin fired /\ ~Expiring(i, g)

\* A step in which no expiry is new and no generation goes back.
NoNewExpiry ==
  /\ timers' \subseteq timers /\ fired' \subseteq fired
  /\ \A i \in Ids, g \in Nat : Expiring(i, g)' => Expiring(i, g)

\* Expiries that were there before stay in order while slots are created,
\* resumed or removed.
LEMMA ExpiryKept ==
  ASSUME TypeOK, TypeOK', ExpiryInv, NoNewExpiry, nextID <= nextID',
         \A i \in Ids : gen[i] <= gen'[i] /\ (nextID' <= i => gen'[i] = gen[i])
  PROVE  ExpiryInv'
<1>1. ASSUME NEW i \in Ids, nextID' <= i PROVE gen'[i] = 0
  <2>1. i \in Nat /\ nextID \in Nat /\ nextID' \in Nat
    BY IdRange, HubAssumption DEF TypeOK
  <2>2. nextID <= i
    BY <1>1, <2>1
  <2> QED
    BY <1>1, <2>2, Zenon DEF ExpiryInv
<1>2. ASSUME NEW i \in Ids, NEW g \in Nat, gen'[i] < g
      PROVE  TimerOf(i, g) \notin timers' \cup fired' /\ ~Expiring(i, g)'
  <2>1. gen[i] \in Nat /\ gen'[i] \in Nat
    BY Zenon DEF TypeOK
  <2>2. gen[i] < g
    BY <1>2, <2>1
  <2> QED
    BY <2>2, Zenon DEF ExpiryInv, NoNewExpiry
<1>3. ASSUME NEW i \in Ids, NEW g \in Nat, TimerOf(i, g) \in timers'
      PROVE  TimerOf(i, g) \notin fired' /\ ~Expiring(i, g)'
  BY <1>3, Zenon DEF ExpiryInv, NoNewExpiry
<1> QED
  BY <1>1, <1>2, <1>3, Zenon DEF ExpiryInv, TimerOf

\* A command taken from the inbox, or one added that is not an expiry, brings
\* no expiry into it.
LEMMA ExpiriesQueued ==
  ASSUME TypeOK
  PROVE  /\ \A op : Receive(op) => \A i \in Ids, g \in Nat : Expiring(i, g)' => Expiring(i, g)
         /\ UNCHANGED inbox => \A i \in Ids, g \in Nat : Expiring(i, g)' => Expiring(i, g)
         /\ \A m \in Command : m.op # "grace" /\ Submit(m) =>
              \A i \in Ids, g \in Nat : Expiring(i, g)' => Expiring(i, g)
<1>1. ASSUME NEW op, Receive(op), NEW i \in Ids, NEW g \in Nat, Expiring(i, g)' PROVE Expiring(i, g)
  <2>1. \A k \in DOMAIN inbox' : k + 1 \in DOMAIN inbox /\ inbox'[k] = inbox[k + 1]
    BY <1>1, ReceiveInbox, Zenon
  <2>2. PICK k \in DOMAIN inbox' : inbox'[k].op = "grace" /\ inbox'[k].id = i /\ inbox'[k].gen = g
    BY <1>1, Zenon DEF Expiring
  <2> QED
    BY <2>1, <2>2, Zenon DEF Expiring
<1>2. ASSUME NEW m \in Command, m.op # "grace", Submit(m), NEW i \in Ids, NEW g \in Nat, Expiring(i, g)'
      PROVE  Expiring(i, g)
  <2>1. PICK k \in DOMAIN inbox' : inbox'[k].op = "grace" /\ inbox'[k].id = i /\ inbox'[k].gen = g
    BY <1>2, Zenon DEF Expiring
  <2>2. /\ DOMAIN inbox' = 1..(Len(inbox) + 1) /\ DOMAIN inbox = 1..Len(inbox) /\ Len(inbox) \in Nat
        /\ \A l \in DOMAIN inbox : inbox'[l] = inbox[l]
        /\ inbox'[Len(inbox) + 1] = m
    BY <1>2, SubmitInbox, Zenon
  <2>3. k \in DOMAIN inbox
    <3>1. k # Len(inbox) + 1
      BY <1>2, <2>1, <2>2, Zenon
    <3> QED
      BY <2>1, <2>2, <3>1
  <2> QED
    BY <2>1, <2>2, <2>3, Zenon DEF Expiring
<1>3. ASSUME UNCHANGED inbox, NEW i \in Ids, NEW g \in Nat, Expiring(i, g)' PROVE Expiring(i, g)
  BY <1>3, Zenon DEF Expiring
<1> QED
  BY <1>1, <1>2, <1>3, Zenon

\* A removal leaves generations and ids alone and stops timers only.
LEMMA ExpiryRemove ==
  ASSUME TypeOK, TypeOK', ExpiryInv, UNCHANGED <<gen, nextID, fired>>, timers' \subseteq timers,
         \A i \in Ids, g \in Nat : Expiring(i, g)' => Expiring(i, g)
  PROVE  ExpiryInv'
<1>1. \A i \in Ids : gen[i] \in Nat
  BY Zenon DEF TypeOK
<1>2. nextID \in Nat
  BY HubAssumption DEF TypeOK
<1>3. nextID <= nextID' /\ \A i \in Ids : gen[i] <= gen'[i] /\ (nextID' <= i => gen'[i] = gen[i])
  BY <1>1, <1>2
<1> QED
  BY <1>3, ExpiryKept, Zenon DEF NoNewExpiry

\* holdSlot arms a timer for a generation no expiry has had before.
LEMMA ExpiryHold ==
  ASSUME TypeOK, TypeOK', ExpiryInv, NEW j \in Ids, j < nextID, HoldSlot(j), UNCHANGED fired,
         \A i \in Ids, g \in Nat : Expiring(i, g)' => Expiring(i, g)
  PROVE  ExpiryInv'
<1>1. /\ \A i \in Ids : gen[i] \in Nat /\ gen'[i] \in Nat /\ i \in Nat
      /\ nextID \in Nat /\ nextID' = nextID
      /\ timers' = timers \cup {TimerOf(j, gen[j] + 1)}
  <2>1. nextID \in Nat
    BY HubAssumption DEF TypeOK
  <2> QED
    BY <2>1, IdRange, Zenon DEF TypeOK, HoldSlot, HoldTimer, TimerOf
<1>2. gen'[j] = gen[j] + 1 /\ \A i \in Ids : i # j => gen'[i] = gen[i]
  BY Zenon DEF HoldSlot, TypeOK
<1>3. \A i \in Ids, g \in Nat : TimerOf(i, g) = TimerOf(j, gen[j] + 1) => i = j /\ g = gen[j] + 1
  <2>1. \A i \in Ids, g \in Nat : TimerOf(i, g).id = i /\ TimerOf(i, g).gen = g
    BY Zenon DEF TimerOf
  <2>2. gen[j] + 1 \in Nat
    BY <1>1
  <2>3. PICK h \in Nat : h = gen[j] + 1
    BY <2>2, Zenon
  <2>4. \A i \in Ids, g \in Nat : TimerOf(i, g) = TimerOf(j, h) => i = j /\ g = h
    BY <2>1
  <2> QED
    BY <2>3, <2>4, Zenon
<1>4. ASSUME NEW i \in Ids, nextID' <= i PROVE gen'[i] = 0
  <2>1. i # j /\ nextID <= i
    BY <1>1, <1>4
  <2> QED
    BY <1>2, <2>1, Zenon DEF ExpiryInv
<1>5. ASSUME NEW i \in Ids, NEW g \in Nat, gen'[i] < g
      PROVE  TimerOf(i, g) \notin timers' \cup fired' /\ ~Expiring(i, g)'
  <2>1. gen[i] < g /\ ~(i = j /\ g = gen[j] + 1)
    BY <1>1, <1>2, <1>5
  <2> QED
    BY <1>1, <1>3, <2>1, Zenon DEF ExpiryInv
<1>6. ASSUME NEW i \in Ids, NEW g \in Nat, TimerOf(i, g) \in timers'
      PROVE  TimerOf(i, g) \notin fired' /\ ~Expiring(i, g)'
  <2>1. CASE TimerOf(i, g) \in timers
    BY <2>1, Zenon DEF ExpiryInv
  <2>2. CASE i = j /\ g = gen[j] + 1
    <3>1. gen[i] < g
      BY <1>1, <2>2
    <3> QED
      BY <3>1, Zenon DEF ExpiryInv
  <2> QED
    BY <1>1, <1>3, <1>6, <2>1, <2>2, Zenon
<1> QED
  BY <1>4, <1>5, <1>6, Zenon DEF ExpiryInv, TimerOf

\* time.AfterFunc: a timer goes off, then sends its command.
LEMMA ExpiryTimers ==
  ASSUME TypeOK, TypeOK', ExpiryInv, Timers
  PROVE  ExpiryInv'
<1> USE DEF slotVars, hubVars
<1>1. ASSUME NEW t \in timers, TimerFires(t) PROVE ExpiryInv'
  <2>1. \A i \in Ids, g \in Nat : Expiring(i, g)' => Expiring(i, g)
    BY <1>1, ExpiriesQueued, Zenon DEF TimerFires
  <2>2. timers' = timers \ {t} /\ fired' = fired \cup {t} /\ UNCHANGED <<gen, nextID>>
    BY <1>1, Zenon DEF TimerFires
  <2> QED
    BY <2>1, <2>2, Zenon DEF ExpiryInv
<1>2. ASSUME NEW t \in fired, TimerSends(t) PROVE ExpiryInv'
  <2>1. t \in Timer /\ t.id \in Ids /\ t.gen \in Nat /\ t = TimerOf(t.id, t.gen)
    BY Zenon DEF TypeOK, Timer, TimerOf
  <2> DEFINE m == [op |-> "grace", id |-> t.id, gen |-> t.gen]
  <2>2. ASSUME NEW i \in Ids, NEW g \in Nat, Expiring(i, g)'
        PROVE  Expiring(i, g) \/ t = TimerOf(i, g)
    <3>1. CASE UNCHANGED inbox
      BY <2>2, <3>1, ExpiriesQueued, Zenon
    <3>2. CASE Submit(m)
      <4>1. m \in Command /\ m.op = "grace"
        BY <2>1, Zenon DEF Command, GraceCmd
      <4>2. PICK k \in DOMAIN inbox' : inbox'[k].op = "grace" /\ inbox'[k].id = i /\ inbox'[k].gen = g
        BY <2>2, Zenon DEF Expiring
      <4>3. /\ DOMAIN inbox' = 1..(Len(inbox) + 1) /\ DOMAIN inbox = 1..Len(inbox) /\ Len(inbox) \in Nat
            /\ \A l \in DOMAIN inbox : inbox'[l] = inbox[l]
            /\ inbox'[Len(inbox) + 1] = m
        BY <3>2, <4>1, SubmitInbox, Zenon
      <4>4. CASE k \in DOMAIN inbox
        BY <4>2, <4>3, <4>4, Zenon DEF Expiring
      <4>5. CASE k = Len(inbox) + 1
        <5>1. inbox'[k] = m /\ m.id = t.id /\ m.gen = t.gen
          BY <4>3, <4>5, Zenon
        <5>2. i = t.id /\ g = t.gen
          BY <4>2, <5>1, Zenon
        <5> QED
          BY <2>1, <5>2, Zenon
      <4>6. k \in DOMAIN inbox \/ k = Len(inbox) + 1
        BY <4>2, <4>3
      <4> QED
        BY <4>4, <4>5, <4>6, Zenon
    <3> QED
      BY <1>2, <3>1, <3>2, Zenon DEF TimerSends, Dropped
  <2> QED
    <3>1. fired' = fired \ {t} /\ UNCHANGED <<timers, gen, nextID>>
      BY <1>2, Zenon DEF TimerSends
    <3> QED
      BY <2>2, <3>1, Zenon DEF ExpiryInv
<1> QED
  BY <1>1, <1>2, Zenon DEF Timers

\* A handler sends joins, resumes, frames, claims and leaves.
LEMMA ClientSends ==
  ASSUME TypeOK, HelloUnattached, NEW c \in Conns, Client(c)
  PROVE  \/ UNCHANGED inbox
         \/ \E m \in Command : m.op # "grace" /\ Submit(m)
<1>1. CASE HelloJoin(c)
  <2>1. [op |-> "join", conn |-> c] \in Command
    BY Zenon DEF Command, JoinCmd
  <2> QED
    BY <1>1, <2>1, Zenon DEF HelloJoin, Dropped
<1>2. ASSUME NEW i \in Ids, NEW token \in BOOLEAN, HelloResume(c, i, token)
      PROVE  \/ UNCHANGED inbox
             \/ \E m \in Command : m.op # "grace" /\ Submit(m)
  <2>1. [op |-> "resume", id |-> i, token |-> token, conn |-> c] \in Command
    BY Zenon DEF Command, ResumeCmd
  <2> QED
    BY <1>2, <2>1, Zenon DEF HelloResume, Dropped
<1>3. CASE pc[c] # "open" \/ cid[c] \in Ids
  <2>1. CASE ReadToHub(c)
    <3>1. \A m \in [op : {"frame"}, from : {cid[c]}, to : 0..MaxID] \cup [op : {"claim"}, id : {cid[c]}] :
            m \in Command /\ m.op # "grace"
      BY <1>3, <2>1, Zenon DEF ReadToHub, Command, FrameCmd, ClaimCmd
    <3> QED
      BY <2>1, <3>1, Zenon DEF ReadToHub, Dropped
  <2>2. CASE ReadPing(c)
    BY <2>2, Zenon DEF ReadPing
  <2>3. ASSUME NEW lost \in BOOLEAN, HangUp(c, lost)
        PROVE  \/ UNCHANGED inbox
               \/ \E m \in Command : m.op # "grace" /\ Submit(m)
    <3>1. LeaveOf(c, lost) \in Command /\ LeaveOf(c, lost).op # "grace"
      BY <1>3, <2>3, Zenon DEF HangUp, LeaveOf, Command, LeaveCmd, TypeOK
    <3> QED
      BY <2>3, <3>1, Zenon DEF HangUp, Dropped
  <2> QED
    BY <1>1, <1>2, <2>1, <2>2, <2>3, Zenon DEF Client
<1>4. cid[c] \in 0..MaxID /\ (pc[c] = "open" => cid[c] # 0)
  BY Zenon DEF TypeOK, HelloUnattached
<1>5. pc[c] # "open" \/ cid[c] \in Ids
  BY <1>4, HubAssumption DEF Ids
<1> QED
  BY <1>3, <1>5, Zenon

\* Every step keeps the expiries in order.
LEMMA ExpiryStep == TypeOK /\ TypeOK' /\ SlotInv /\ EvictInv /\ ExpiryInv /\ [Next]_vars => ExpiryInv'
<1> SUFFICES ASSUME TypeOK, TypeOK', SlotInv, EvictInv, ExpiryInv, [Next]_vars PROVE ExpiryInv'
  BY Zenon
<1> DEFINE Queue == \A i \in Ids, g \in Nat : Expiring(i, g)' => Expiring(i, g)
<1> USE DEF hubVars, slotVars, connVars, history
<1>1. ASSUME UNCHANGED <<gen, nextID, fired>>, timers' \subseteq timers, Queue PROVE ExpiryInv'
  BY <1>1, ExpiryRemove, Zenon
<1>2. ASSUME NEW op, Receive(op) PROVE Queue
  BY <1>2, ExpiriesQueued, Zenon
<1>3. ASSUME NEW m \in Command, m.op # "grace", Submit(m) \/ Dropped PROVE Queue
  BY <1>3, ExpiriesQueued, Zenon DEF Dropped
<1>4. nextID \in Nat /\ \A i \in Ids : i \in Nat /\ gen[i] \in Nat
  <2>1. nextID \in Nat
    BY HubAssumption DEF TypeOK
  <2> QED
    BY <2>1, IdRange, Zenon DEF TypeOK
<1>5. CASE HandleJoin
  <2>1. /\ Queue /\ nextID \in Ids /\ nextID' = nextID + 1 /\ UNCHANGED <<timers, fired>>
        /\ gen' = [gen EXCEPT ![nextID] = 1]
    BY <1>2, <1>5, Zenon DEF HandleJoin
  <2>2. gen[nextID] = 0
    BY <1>4, <2>1 DEF ExpiryInv
  <2>3. gen'[nextID] = 1 /\ \A i \in Ids : i # nextID => gen'[i] = gen[i]
    BY <2>1, Zenon DEF TypeOK
  <2>4. nextID <= nextID' /\ \A i \in Ids : gen[i] <= gen'[i] /\ (nextID' <= i => gen'[i] = gen[i])
    BY <1>4, <2>1, <2>2, <2>3
  <2> QED
    BY <2>1, <2>4, ExpiryKept, Zenon DEF NoNewExpiry
<1>6. CASE HandleLeave
  <2>1. Queue /\ UNCHANGED fired
    BY <1>2, <1>6, Zenon DEF HandleLeave
  <2>2. CASE UNCHANGED <<hubVars, out, kicked>>
    BY <1>1, <2>1, <2>2, Zenon
  <2>3. ASSUME Head(inbox).id \in clients \ held, HoldSlot(Head(inbox).id) PROVE ExpiryInv'
    <3>1. Head(inbox).id \in Ids /\ Head(inbox).id < nextID
      BY <2>3, Zenon DEF TypeOK, SlotInv, SlotConn
    <3> QED
      BY <2>1, <2>3, <3>1, ExpiryHold, Zenon
  <2>4. ASSUME NEW i \in clients, Removes(i) PROVE ExpiryInv'
    BY <1>1, <2>1, <2>4, Zenon DEF Removes, RemoveParticipant, Disarmed
  <2> QED
    BY <1>6, <2>2, <2>3, <2>4, RemovalSteps, Zenon
<1>7. CASE HandleGraceExpired \/ DrainEvictions
  <2>1. Queue /\ UNCHANGED fired
    BY <1>2, <1>7, ExpiriesQueued, Zenon DEF HandleGraceExpired, DrainEvictions
  <2>2. CASE UNCHANGED <<hubVars, out, kicked>>
    BY <1>1, <2>1, <2>2, Zenon
  <2>3. ASSUME NEW i \in clients, Removes(i) PROVE ExpiryInv'
    BY <1>1, <2>1, <2>3, Zenon DEF Removes, RemoveParticipant, Disarmed
  <2> QED
    BY <1>7, <2>2, <2>3, RemovalSteps, Zenon
<1>8. CASE HandleResume
  <2>1. Queue /\ UNCHANGED <<fired, nextID>> /\ timers' \subseteq timers
    BY <1>2, <1>8, Zenon DEF HandleResume, Disarmed
  <2>2. CASE UNCHANGED gen
    BY <1>1, <2>1, <2>2, Zenon
  <2>3. ASSUME NEW j \in clients, gen' = [gen EXCEPT ![j] = @ + 1] PROVE ExpiryInv'
    <3>1. j \in Ids /\ j < nextID
      BY Zenon DEF TypeOK, SlotInv, SlotConn
    <3>2. gen'[j] = gen[j] + 1 /\ \A i \in Ids : i # j => gen'[i] = gen[i]
      BY <2>3, <3>1, Zenon DEF TypeOK
    <3>3. nextID <= nextID' /\ \A i \in Ids : gen[i] <= gen'[i] /\ (nextID' <= i => gen'[i] = gen[i])
      BY <1>4, <2>1, <3>1, <3>2
    <3> QED
      BY <2>1, <3>3, ExpiryKept, Zenon DEF NoNewExpiry
  <2> QED
    BY <1>8, <2>2, <2>3, Zenon DEF HandleResume
<1>9. CASE HandleJoinFull \/ HandleClaimHost \/ Route \/ HandleClose
  <2>1. Queue
    BY <1>2, <1>9, Zenon DEF HandleJoinFull, HandleClaimHost, Route, HandleClose
  <2> QED
    BY <1>1, <1>9, <2>1, Zenon DEF HandleJoinFull, HandleClaimHost, Route, HandleClose
<1>10. ASSUME NEW c \in Conns, Client(c) PROVE ExpiryInv'
  <2>1. CASE UNCHANGED inbox
    BY <1>1, <1>10, <2>1, ExpiriesQueued, Zenon
       DEF Client, HelloJoin, HelloResume, ReadToHub, ReadPing, HangUp
  <2>2. \/ UNCHANGED inbox
        \/ \E m \in Command : m.op # "grace" /\ Submit(m)
    BY <1>10, ClientSends, Zenon DEF SlotInv
  <2>3. UNCHANGED <<gen, nextID, fired, timers>>
    BY <1>10, Zenon DEF Client, HelloJoin, HelloResume, ReadToHub, ReadPing, HangUp
  <2> QED
    BY <1>1, <1>3, <2>1, <2>2, <2>3, Zenon
<1>11. ASSUME NEW c \in Conns, Write(c) PROVE ExpiryInv'
  BY <1>1, <1>11, ExpiriesQueued, Zenon DEF Write
<1>12. CASE Timers
  BY <1>12, ExpiryTimers, Zenon
<1>13. CASE Sweep
  <2>1. [op |-> "close"] \in Command /\ [op |-> "close"].op # "grace"
    BY Zenon DEF Command, CloseCmd
  <2> QED
    BY <1>1, <1>3, <1>13, <2>1, Zenon DEF Sweep
<1>14. CASE UNCHANGED vars
  BY <1>1, <1>14, ExpiriesQueued, Zenon DEF vars
<1> QED
  BY <1>5, <1>6, <1>7, <1>8, <1>9, <1>10, <1>11, <1>12, <1>13, <1>14, Zenon DEF Next, Hub

-----------------------------------------------------------------------------
(* Theorems.                                                               *)

\* A new hub (newHub) satisfies the types and the slot invariant.
LEMMA InitInv == Init => TypeOK /\ SlotInv
<1> SUFFICES ASSUME Init PROVE TypeOK /\ SlotInv
  BY Zenon
<1> USE HubAssumption DEF Init
<1>1. TypeOK
  <2>1. /\ gen \in [Ids -> Nat] /\ conn \in [Ids -> Conns] /\ cid \in [Conns -> 0..MaxID]
        /\ cgen \in [Conns -> Nat] /\ pc \in [Conns -> {"idle", "hello", "open", "closed"}]
        /\ traffic \in 0..MaxTraffic /\ nextID \in 1..(MaxID + 1)
    OBVIOUS
  <2>2. host \in Ids
    BY DEF Ids
  <2>3. rx \in [Conns -> Rx]
    BY Zenon DEF Rx
  <2>4. out \in [Chans -> Seq(Frame)] /\ \A x \in Chans : Len(out[x]) <= SendBuffer
    OBVIOUS
  <2>5. inbox \in Seq(Command) /\ Len(inbox) <= InboxCap /\ evict \in Seq(Ids)
    OBVIOUS
  <2> QED
    BY Zenon, <2>1, <2>2, <2>3, <2>4, <2>5 DEF TypeOK
<1>2. HelloUnattached /\ GenBound /\ GenUnique /\ SlotConn
  BY Zenon DEF HelloUnattached, GenBound, GenUnique, SlotConn
<1>3. DOMAIN inbox = {}
  OBVIOUS
<1>4. LeaveFromClosed /\ HelloPending
  BY <1>3, Zenon DEF LeaveFromClosed, HelloPending
<1>5. LiveConnOwnsSlot /\ NoOrphanSlot /\ HeldHasTimer /\ OverMeansKicked
  BY Zenon DEF LiveConnOwnsSlot, NoOrphanSlot, HeldHasTimer, OverMeansKicked
<1> QED
  BY <1>1, <1>2, <1>4, <1>5, Zenon DEF SlotInv

\* ... and has nobody to evict.
LEMMA InitEvict == Init => EvictInv
<1> SUFFICES ASSUME Init PROVE EvictInv
  BY Zenon
<1>1. DOMAIN evict = {}
  BY DEF Init
<1> QED
  BY <1>1, Zenon DEF EvictInv, Range

\* ... and no expiry.
LEMMA InitExpiry == Init => ExpiryInv
<1> SUFFICES ASSUME Init PROVE ExpiryInv
  BY Zenon
<1>1. DOMAIN inbox = {}
  BY DEF Init
<1> QED
  BY <1>1, Zenon DEF Init, ExpiryInv, Expiring

HubInv == TypeOK /\ SlotInv /\ EvictInv /\ ExpiryInv

\* The types and the invariants of slots, evictions and expiries hold
\* throughout: they are inductive together.
LEMMA Invariance == Spec => []HubInv
<1>1. Init => HubInv
  BY InitInv, InitEvict, InitExpiry, Zenon DEF HubInv
<1>2. HubInv /\ [Next]_vars => HubInv'
  BY TypeStep, SlotStep, EvictStep, ExpiryStep, Zenon DEF HubInv, SlotInv
<1> QED
  BY <1>1, <1>2, PTL DEF Spec

\* The hub never exceeds the capacity of an out channel or of its inbox, and
\* its maps keep their types, whatever the number of participants.
THEOREM HubTypes == Spec => []TypeOK
<1>1. HubInv => TypeOK
  BY Zenon DEF HubInv
<1> QED
  BY Invariance, <1>1, PTL

\* A served connection that was not kicked owns its slot: the generation
\* guards of handleLeave and handleGraceExpired suffice against every
\* interleaving of leaves, timers and resumes.
THEOREM StaleCommandsHarmless == Spec => []LiveConnOwnsSlot
<1>1. HubInv => LiveConnOwnsSlot
  BY Zenon DEF HubInv, SlotInv
<1> QED
  BY Invariance, <1>1, PTL

\* No participant stays in a session with neither a handler behind it nor its
\* leave under way (handle, handleResume).
THEOREM SlotsAreBacked == Spec => []NoOrphanSlot
<1>1. HubInv => NoOrphanSlot
  BY Zenon DEF HubInv, SlotInv
<1> QED
  BY Invariance, <1>1, PTL

\* A held slot always has its grace expiry under way (holdSlot, handleResume).
THEOREM HoldsExpire == Spec => []HeldHasTimer
<1>1. HubInv => HeldHasTimer
  BY Zenon DEF HubInv, SlotInv
<1> QED
  BY Invariance, <1>1, PTL

\* Which expiry ends a hold: a step that takes a held slot away tears down an
\* eviction or handles the expiry of that very hold, whose timer has gone off.
LEMMA HoldEnds ==
  ASSUME HubInv, [Next]_vars, NEW i \in held, i \notin clients'
  PROVE  i \in Range(evict) \/ TimerOf(i, gen[i]) \notin timers
<1> USE DEF hubVars, slotVars, connVars, history
<1>1. TypeOK /\ EvictInv /\ ExpiryInv /\ i \in clients /\ i \in Ids /\ gen[i] \in Nat
  BY Zenon DEF HubInv, TypeOK
<1>2. CASE UNCHANGED clients
  BY <1>1, <1>2, Zenon
<1>3. CASE DrainEvictions
  <2>1. evict # <<>> /\ clients' = clients \ {Head(evict)}
    BY <1>3, Zenon DEF DrainEvictions, RemoveParticipant
  <2>2. i = Head(evict)
    BY <1>1, <2>1, Zenon
  <2>3. evict \in Seq(Ids)
    BY <1>1, Zenon DEF TypeOK
  <2>4. 1 \in DOMAIN evict /\ Head(evict) = evict[1]
    BY <2>1, <2>3
  <2> QED
    BY <2>2, <2>4, Zenon DEF Range
<1>4. CASE HandleLeave
  <2>1. HoldSlot(Head(inbox).id) => UNCHANGED clients
    BY Zenon DEF HoldSlot
  <2>2. LeaveApplies(Head(inbox)) /\ RemoveParticipant(Head(inbox).id, evict) => i \in clients'
    BY <1>1, Zenon DEF LeaveApplies, RemoveParticipant
  <2> QED
    BY <1>2, <1>4, <2>1, <2>2, Zenon DEF HandleLeave
<1>5. CASE HandleGraceExpired
  <2>1. Receive("grace") /\ GraceApplies(Head(inbox)) /\ RemoveParticipant(Head(inbox).id, evict)
    BY <1>1, <1>5, Zenon DEF HandleGraceExpired
  <2>2. i = Head(inbox).id /\ gen[i] = Head(inbox).gen
    BY <1>1, <2>1, Zenon DEF RemoveParticipant, GraceApplies
  <2>3. Head(inbox).op = "grace" /\ Head(inbox) = inbox[1] /\ 1 \in DOMAIN inbox
    BY <1>1, <2>1, ReceiveInbox, Zenon
  <2>4. Expiring(i, gen[i])
    BY <2>2, <2>3, Zenon DEF Expiring
  <2> QED
    BY <1>1, <2>4, Zenon DEF ExpiryInv
<1>6. CASE HandleJoin
  BY <1>1, <1>6, Zenon DEF HandleJoin
<1>7. CASE HandleJoinFull \/ HandleResume \/ HandleClaimHost \/ Route \/ HandleClose
  BY <1>2, <1>7, Zenon DEF HandleJoinFull, HandleResume, HandleClaimHost, Route, HandleClose
<1>8. ASSUME NEW c \in Conns, Client(c) \/ Write(c) PROVE UNCHANGED clients
  BY <1>8, Zenon DEF Client, HelloJoin, HelloResume, ReadToHub, ReadPing, HangUp, Write
<1>9. CASE Timers \/ Sweep \/ UNCHANGED vars
  BY <1>2, <1>9, Zenon DEF Timers, TimerFires, TimerSends, Sweep, vars
<1> QED
  BY <1>2, <1>3, <1>4, <1>5, <1>6, <1>7, <1>8, <1>9, Zenon DEF Next, Hub

\* A participant that is away keeps its slot for the whole of its own grace
\* window unless it is evicted: an expiry left over from an earlier outage is
\* told by its generation (handleGraceExpired, handleResume).
THEOREM OldTimersEndNothing == Spec => HoldKept
<1>1. HubInv /\ [Next]_vars =>
        [\A i \in held \ clients' : i \in Range(evict) \/ [id |-> i, gen |-> gen[i]] \notin timers]_vars
  BY HoldEnds, Zenon DEF TimerOf
<1> QED
  BY Invariance, <1>1, PTL DEF Spec, HoldKept

\* The end of a session reaches every handler (shutdown, removeParticipant).
THEOREM EndKicksEveryone == Spec => []OverMeansKicked
<1>1. HubInv => OverMeansKicked
  BY Zenon DEF HubInv, SlotInv
<1> QED
  BY Invariance, <1>1, PTL

\* Every id queued for eviction has its slot still when drainEvictions comes
\* to it: queue's evicting flag keeps an id from being queued twice, and
\* nothing else removes slots before the queue is empty.
THEOREM EvictionsFindTheirSlot == Spec => []EvictionsPending
<1>1. HubInv => EvictionsPending
  BY Zenon DEF HubInv, EvictInv, EvictionsPending
<1> QED
  BY Invariance, <1>1, PTL

=============================================================================
