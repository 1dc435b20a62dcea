------------------------ MODULE HubGuaranteesProofs ------------------------
(*****************************************************************************)
(* Theorems about what a session promises its clients: the reply to the      *)
(* hello comes first, what a client is told adds up to the exact membership, *)
(* and the hub implements the abstract Membership service.                   *)
(*****************************************************************************)
EXTENDS RelayHubProofs, FiniteSetTheorems

-----------------------------------------------------------------------------
(* The hello reply comes first.                                            *)

ReplyKind(c) == IF c = Creator THEN "created" ELSE "result"

\* Only other connections than the creator's resume.
ResumesAreGuests ==
  \A k \in DOMAIN inbox : inbox[k].op = "resume" => inbox[k].conn # Creator

\* Nothing is written before the reply, and the reply leads the channel until
\* it is written.
ReplyFirst ==
  \A c \in Conns :
    /\ pc[c] \in {"idle", "hello"} => rx[c].first = "none"
    /\ pc[c] = "open" /\ rx[c].first = "none" => out[c] # <<>> /\ out[c][1].kind = ReplyKind(c)

ReplyInv == ResumesAreGuests /\ ReplyFirst /\ HelloLeads

\* The inbox only ever gains resumes of other connections than the creator's.
LEMMA GuestsStay ==
  ASSUME TypeOK, ResumesAreGuests
  PROVE  /\ \A op : Receive(op) => ResumesAreGuests'
         /\ \A m \in Command : Submit(m) /\ (m.op = "resume" => m.conn # Creator) => ResumesAreGuests'
         /\ UNCHANGED inbox => ResumesAreGuests'
<1>1. ASSUME NEW op, Receive(op) PROVE ResumesAreGuests'
  BY <1>1, ReceiveInbox DEF ResumesAreGuests
<1>2. ASSUME NEW m \in Command, Submit(m), m.op = "resume" => m.conn # Creator PROVE ResumesAreGuests'
  <2>1. /\ DOMAIN inbox' = 1..(Len(inbox) + 1) /\ DOMAIN inbox = 1..Len(inbox)
        /\ Len(inbox) \in Nat
        /\ \A k \in DOMAIN inbox : inbox'[k] = inbox[k]
        /\ inbox'[Len(inbox) + 1] = m
    BY <1>2, SubmitInbox, Zenon
  <2>2. \A k \in DOMAIN inbox' : k \in DOMAIN inbox \/ k = Len(inbox) + 1
    BY <2>1
  <2> QED
    BY <1>2, <2>1, <2>2, Zenon DEF ResumesAreGuests
<1>3. UNCHANGED inbox => ResumesAreGuests'
  BY Zenon DEF ResumesAreGuests
<1> QED
  BY <1>1, <1>2, <1>3, Zenon

\* The channel of connection c keeps the frame at its head.
KeepsHead(c) == out[c] # <<>> => out'[c] # <<>> /\ out'[c][1] = out[c][1]

\* A step that writes nothing and changes the channels of served connections
\* only behind their heads, but for a connection it hands its reply.
LEMMA ReplyStay ==
  ASSUME ReplyInv, ResumesAreGuests', UNCHANGED rx,
         \A c \in Conns :
           \/ /\ pc[c] = "hello"
              /\ pc'[c] = "open"
              /\ out'[c] # <<>> /\ out'[c][1].kind = ReplyKind(c)
           \/ /\ pc'[c] = pc[c] \/ pc'[c] = "closed" \/ (pc[c] = "idle" /\ pc'[c] = "hello")
              /\ KeepsHead(c)
  PROVE  ReplyInv'
<1>1. HelloLeads'
  BY Zenon DEF ReplyInv, HelloLeads
<1>2. ASSUME NEW c \in Conns
      PROVE  /\ pc'[c] \in {"idle", "hello"} => rx'[c].first = "none"
             /\ pc'[c] = "open" /\ rx'[c].first = "none"
                  => out'[c] # <<>> /\ out'[c][1].kind = ReplyKind(c)
  <2>1. /\ pc[c] \in {"idle", "hello"} => rx[c].first = "none"
        /\ pc[c] = "open" /\ rx[c].first = "none" => out[c] # <<>> /\ out[c][1].kind = ReplyKind(c)
    BY Zenon DEF ReplyInv, ReplyFirst
  <2> QED
    BY <2>1, Zenon DEF KeepsHead
<1>3. ReplyFirst'
  BY <1>2, Zenon DEF ReplyFirst, ReplyKind
<1> QED
  BY <1>1, <1>3, Zenon DEF ReplyInv

\* A frame is queued behind what is in a channel already.
LEMMA AppendKeepsHead ==
  ASSUME NEW s \in Seq(Frame), NEW f \in Frame, s # <<>>
  PROVE  Append(s, f) # <<>> /\ Append(s, f)[1] = s[1]
<1>1. Len(s) \in Nat \ {0}
  OBVIOUS
<1>2. Len(Append(s, f)) = Len(s) + 1 /\ \A k \in 1..Len(s) : Append(s, f)[k] = s[k]
  OBVIOUS
<1>3. 1 \in 1..Len(s)
  BY <1>1
<1>4. Append(s, f)[1] = s[1]
  BY <1>2, <1>3, Zenon
<1>5. Len(Append(s, f)) # 0
  BY <1>1, <1>2
<1> QED
  BY <1>4, <1>5

\* A fan-out adds the frame to a channel or leaves it alone.
LEMMA QueuedAt ==
  ASSUME TypeOK, NEW R, NEW f \in Frame, NEW x \in Chans
  PROVE  /\ Queued(R, f)[x] \in {out[x], Append(out[x], f)}
         /\ out[x] # <<>> => Queued(R, f)[x] # <<>> /\ Queued(R, f)[x][1] = out[x][1]
<1>1. Queued(R, f)[x] \in {out[x], Append(out[x], f)}
  BY Zenon DEF Queued
<1>2. out[x] \in Seq(Frame)
  BY Zenon DEF TypeOK
<1> QED
  BY <1>1, <1>2, AppendKeepsHead, Zenon

\* removeParticipant tells the others behind what they were told before.
LEMMA RemoveKeepsHeads ==
  ASSUME TypeOK, NEW i \in clients, Removes(i)
  PROVE  \A c \in Conns : KeepsHead(c)
<1>1. UNCHANGED out \/ out' = Queued(clients \ {i}, Msg("left", {i}))
  BY Zenon DEF Removes, RemoveParticipant, Broadcast
<1>2. Msg("left", {i}) \in Frame
  BY MsgType, Zenon DEF Kinds, TypeOK
<1>3. Conns \subseteq Chans
  BY Zenon DEF Chans
<1> QED
  BY <1>1, <1>2, <1>3, QueuedAt DEF KeepsHead

\* A join or resume that the hub reads comes from a handler waiting for it.
LEMMA HelloWaits ==
  ASSUME TypeOK, SlotInv, NEW op \in Hellos, Receive(op)
  PROVE  Head(inbox).conn \in Conns /\ pc[Head(inbox).conn] = "hello" /\ cid[Head(inbox).conn] = 0
<1>1. Head(inbox) = inbox[1] /\ 1 \in DOMAIN inbox /\ Head(inbox).op = op /\ Head(inbox) \in Command
  BY ReceiveInbox, Zenon
<1>2. Head(inbox).conn \in Conns
  BY <1>1, CommandFields, Zenon DEF Hellos
<1>3. pc[Head(inbox).conn] = "hello"
  BY <1>1, Zenon DEF SlotInv, HelloPending
<1> QED
  BY <1>2, <1>3, Zenon DEF SlotInv, HelloUnattached

\* Connections and ids name different channels.
LEMMA ChanKinds == \A c \in Conns, i \in Ids : c # i /\ c \in Chans /\ i \in Chans
BY HubAssumption, Zenon DEF Chans

\* Every step keeps the reply in front.
LEMMA ReplyStep == TypeOK /\ SlotInv /\ EvictInv /\ ReplyInv /\ [Next]_vars => ReplyInv'
<1> SUFFICES ASSUME TypeOK, SlotInv, EvictInv, ReplyInv, [Next]_vars PROVE ReplyInv'
  BY Zenon
<1> USE DEF hubVars, slotVars, connVars, history
<1>0. ResumesAreGuests
  BY Zenon DEF ReplyInv
<1>a. ASSUME UNCHANGED <<rx, pc, out>>, ResumesAreGuests' PROVE ReplyInv'
  BY <1>a, ReplyStay, Zenon DEF KeepsHead
<1>b. ASSUME UNCHANGED <<rx, pc>>, ResumesAreGuests', \A c \in Conns : KeepsHead(c) PROVE ReplyInv'
  BY <1>b, ReplyStay, Zenon
<1>1. CASE HandleJoinFull
  <2>1. Receive("join") /\ UNCHANGED <<rx, out>>
        /\ pc' = [pc EXCEPT ![Head(inbox).conn] = "closed"]
    BY <1>1, Zenon DEF HandleJoinFull, Refuse
  <2>2. \A c \in Conns : (pc'[c] = pc[c] \/ pc'[c] = "closed") /\ KeepsHead(c)
    BY <2>1, Zenon DEF KeepsHead, TypeOK
  <2> QED
    BY <1>0, <2>1, <2>2, GuestsStay, ReplyStay, Zenon
<1>2. CASE HandleJoin
  <2> DEFINE c0 == Head(inbox).conn
             reply == IF c0 = Creator THEN SessionCreated ELSE JoinResult(nextID)
             Q == Queued(clients, Msg("joined", {nextID}))
  <2>1. /\ Receive("join") /\ UNCHANGED rx /\ nextID \in Ids
        /\ out' = [Q EXCEPT ![c0] = <<reply>>] /\ pc' = [pc EXCEPT ![c0] = "open"]
    BY <1>2, Zenon DEF HandleJoin, Attach
  <2>2. c0 \in Conns /\ pc[c0] = "hello"
    BY <2>1, HelloWaits, Zenon DEF Hellos
  <2>3. reply.kind = ReplyKind(c0)
    BY Zenon DEF SessionCreated, Msg, JoinResult, ReplyKind
  <2>4. Msg("joined", {nextID}) \in Frame
    BY <2>1, MsgType, Zenon DEF Kinds
  <2>5. Q = [x \in Chans |-> Q[x]] /\ \A x \in Chans : out[x] # <<>> => Q[x] # <<>> /\ Q[x][1] = out[x][1]
    <3>1. Q = [x \in Chans |-> Q[x]]
      BY Zenon DEF Queued
    <3> QED
      BY <2>4, <3>1, QueuedAt, Zenon
  <2> HIDE DEF reply, Q, c0
  <2>6. <<reply>> # <<>> /\ <<reply>>[1] = reply
    BY Zenon
  <2>7. ASSUME NEW c \in Conns
        PROVE  \/ /\ pc[c] = "hello" /\ pc'[c] = "open"
                  /\ out'[c] # <<>> /\ out'[c][1].kind = ReplyKind(c)
               \/ pc'[c] = pc[c] /\ KeepsHead(c)
    <3>1. CASE c = c0
      <4>1. out'[c] = <<reply>> /\ pc'[c] = "open"
        BY <2>1, <2>2, <2>5, <3>1, ChanKinds, Zenon DEF TypeOK, Chans
      <4> QED
        BY <2>2, <2>3, <2>6, <3>1, <4>1, Zenon
    <3>2. CASE c # c0
      <4>1. out'[c] = Q[c] /\ pc'[c] = pc[c]
        BY <2>1, <2>5, <3>2, Zenon DEF TypeOK, Chans
      <4> QED
        BY <2>5, <4>1, Zenon DEF KeepsHead, Chans
    <3> QED
      BY <3>1, <3>2, Zenon
  <2> QED
    BY <1>0, <2>1, <2>7, GuestsStay, ReplyStay, Zenon
<1>3. ASSUME NEW i \in clients, Removes(i), UNCHANGED <<rx, pc>>, ResumesAreGuests' PROVE ReplyInv'
  BY <1>b, <1>3, RemoveKeepsHeads, Zenon
<1>4. CASE HandleLeave
  <2>1. UNCHANGED <<rx, pc>> /\ ResumesAreGuests'
    BY <1>0, <1>4, GuestsStay, Zenon DEF HandleLeave
  <2>2. CASE HoldSlot(Head(inbox).id) /\ Head(inbox).id \in clients \ held
    <3>1. \A c \in Conns : out'[c] = out[c]
      BY <2>2, ChanKinds, Zenon DEF HoldSlot, TypeOK
    <3> QED
      BY <1>b, <2>1, <3>1, Zenon DEF KeepsHead
  <2> QED
    BY <1>a, <1>3, <1>4, <2>1, <2>2, RemovalSteps, Zenon
<1>5. CASE HandleGraceExpired
  <2>1. UNCHANGED <<rx, pc>> /\ ResumesAreGuests'
    BY <1>0, <1>5, GuestsStay, Zenon DEF HandleGraceExpired
  <2> QED
    BY <1>a, <1>3, <1>5, <2>1, RemovalSteps, Zenon
<1>6. CASE HandleResume
  <2> DEFINE m == Head(inbox)
  <2>1. Receive("resume") /\ UNCHANGED rx
    BY <1>6, Zenon DEF HandleResume
  <2>2. m.conn \in Conns /\ pc[m.conn] = "hello" /\ m.id \in Ids /\ m = inbox[1] /\ 1 \in DOMAIN inbox
        /\ m.op = "resume"
    BY <2>1, HelloWaits, ReceiveInbox, CommandFields, Zenon DEF Hellos
  <2>3. m.conn # Creator
    BY <1>0, <2>2, Zenon DEF ResumesAreGuests
  <2>4. CASE Refuse(m.conn) /\ UNCHANGED out
    <3>1. \A c \in Conns : (pc'[c] = pc[c] \/ pc'[c] = "closed") /\ KeepsHead(c)
      BY <2>4, Zenon DEF KeepsHead, TypeOK, Refuse
    <3> QED
      BY <1>0, <2>1, <3>1, GuestsStay, ReplyStay, Zenon
  <2>5. CASE /\ out' = [out EXCEPT ![m.conn] = ResumeOut(m.id), ![m.id] = <<>>]
             /\ pc' = [pc EXCEPT ![m.conn] = "open"]
    <3> DEFINE r == ResumeOut(m.id)
    <3>1. r # <<>> /\ r[1].kind = "result"
      <4>1. r \in Seq(Frame) /\ Len(r) > 0 /\ r[1] = JoinResult(m.id)
        BY <2>2, ResumeOutType, Zenon
      <4>2. JoinResult(m.id).kind = "result"
        BY Zenon DEF JoinResult
      <4> HIDE DEF r
      <4> QED
        BY <4>1, <4>2
    <3> HIDE DEF m, r
    <3>2. \A c \in Conns : out'[c] = IF c = m.conn THEN r ELSE out[c]
      BY <2>2, <2>5, ChanKinds, Zenon DEF TypeOK, r
    <3>3. \A c \in Conns : pc'[c] = IF c = m.conn THEN "open" ELSE pc[c]
      BY <2>5, Zenon DEF TypeOK
    <3>4. ASSUME NEW c \in Conns
          PROVE  \/ /\ pc[c] = "hello" /\ pc'[c] = "open"
                    /\ out'[c] # <<>> /\ out'[c][1].kind = ReplyKind(c)
                 \/ pc'[c] = pc[c] /\ KeepsHead(c)
      BY <2>2, <2>3, <3>1, <3>2, <3>3, Zenon DEF KeepsHead, ReplyKind
    <3> QED
      BY <1>0, <2>1, <3>4, GuestsStay, ReplyStay, Zenon
  <2> QED
    BY <1>6, <2>4, <2>5, Zenon DEF HandleResume, Attach
<1>7. CASE Route
  <2>1. Receive("frame") /\ UNCHANGED <<rx, pc>>
    BY <1>7, RouteTells, Zenon
  <2>2. PICK R \in SUBSET clients, f \in Frame : Broadcast(R, f, evict, {})
    BY <1>7, RouteTells, Zenon
  <2>3. \A c \in Conns : KeepsHead(c)
    BY <2>2, QueuedAt, ChanKinds DEF KeepsHead, Broadcast, Chans
  <2> QED
    BY <1>0, <1>b, <2>1, <2>3, GuestsStay, Zenon
<1>8. CASE HandleClose
  <2>1. Receive("close") /\ UNCHANGED <<rx, pc>> /\ out' = Queued(clients, Msg("closed", {}))
    BY <1>8, Zenon DEF HandleClose, Broadcast
  <2>2. Msg("closed", {}) \in Frame
    BY MsgType, Zenon DEF Kinds
  <2>3. \A c \in Conns : KeepsHead(c)
    BY <2>1, <2>2, QueuedAt DEF KeepsHead, Chans
  <2> QED
    BY <1>0, <1>b, <2>1, <2>3, GuestsStay, Zenon
<1>9. CASE DrainEvictions
  <2>1. UNCHANGED <<rx, pc>> /\ ResumesAreGuests'
    BY <1>0, <1>9, GuestsStay, Zenon DEF DrainEvictions
  <2> QED
    BY <1>3, <1>9, <2>1, RemovalSteps, Zenon
<1>10. CASE HandleClaimHost
  BY <1>0, <1>a, <1>10, GuestsStay, Zenon DEF HandleClaimHost
<1>11. ASSUME NEW c \in Conns, Client(c) PROVE ReplyInv'
  <2>1. Dropped => ResumesAreGuests'
    BY <1>0, GuestsStay, Zenon DEF Dropped
  <2>2. CASE HelloJoin(c)
    <3>1. [op |-> "join", conn |-> c] \in Command /\ [op |-> "join", conn |-> c].op = "join"
      BY Zenon DEF Command, JoinCmd
    <3>2. ResumesAreGuests'
      BY <1>0, <2>1, <2>2, <3>1, GuestsStay, Zenon DEF HelloJoin
    <3>3. \A d \in Conns : /\ pc'[d] = pc[d] \/ pc'[d] = "closed" \/ (pc[d] = "idle" /\ pc'[d] = "hello")
                           /\ KeepsHead(d)
      BY <2>2, Zenon DEF HelloJoin, KeepsHead, TypeOK
    <3> QED
      BY <2>2, <3>2, <3>3, ReplyStay, Zenon DEF HelloJoin
  <2>3. ASSUME NEW i \in Ids, NEW token \in BOOLEAN, HelloResume(c, i, token) PROVE ReplyInv'
    <3> DEFINE m == [op |-> "resume", id |-> i, token |-> token, conn |-> c]
    <3>1. m \in Command /\ m.conn = c /\ c # Creator
      BY <2>3, Zenon DEF Command, ResumeCmd, HelloResume
    <3>2. Submit(m) \/ Dropped
      BY <2>3, Zenon DEF HelloResume
    <3> HIDE DEF m
    <3>3. ResumesAreGuests'
      BY <1>0, <2>1, <3>1, <3>2, GuestsStay, Zenon
    <3>4. \A d \in Conns : /\ pc'[d] = pc[d] \/ pc'[d] = "closed" \/ (pc[d] = "idle" /\ pc'[d] = "hello")
                           /\ KeepsHead(d)
      BY <2>3, Zenon DEF HelloResume, KeepsHead, TypeOK
    <3> QED
      BY <2>3, <3>3, <3>4, ReplyStay, Zenon DEF HelloResume
  <2>4. pc[c] = "open" => cid[c] \in Ids
    BY HubAssumption, SMTT(30) DEF SlotInv, HelloUnattached, TypeOK, Ids
  <2>5. CASE ReadToHub(c)
    <3>1. PICK m \in [op : {"frame"}, from : {cid[c]}, to : 0..MaxID] \cup [op : {"claim"}, id : {cid[c]}] :
            Submit(m) \/ Dropped
      BY <2>5, Zenon DEF ReadToHub
    <3>2. cid[c] \in Ids /\ UNCHANGED <<rx, pc, out>>
      BY <2>4, <2>5, Zenon DEF ReadToHub
    <3>3. m \in Command /\ m.op # "resume"
      BY <3>1, <3>2, Zenon DEF Command, FrameCmd, ClaimCmd
    <3>4. ResumesAreGuests'
      BY <1>0, <2>1, <3>1, <3>3, GuestsStay, Zenon
    <3> QED
      BY <1>a, <3>2, <3>4, Zenon
  <2>6. CASE ReadPing(c)
    <3>1. UNCHANGED <<rx, pc, inbox>>
          /\ out' = [out EXCEPT ![c] = IF Full(c) THEN @ ELSE Append(@, Msg("pong", {}))]
      BY <2>6, Zenon DEF ReadPing
    <3>2. Msg("pong", {}) \in Frame /\ out[c] \in Seq(Frame)
      BY MsgType, ChanKinds, Zenon DEF Kinds, TypeOK, Chans
    <3>3. ASSUME NEW d \in Conns PROVE KeepsHead(d)
      <4>1. out'[d] = out[d] \/ (d = c /\ out'[d] = Append(out[d], Msg("pong", {})))
        BY <3>1, Zenon DEF TypeOK, Chans
      <4> QED
        BY <3>2, <4>1, AppendKeepsHead, Zenon DEF KeepsHead
    <3> QED
      BY <1>0, <1>b, <3>1, <3>3, GuestsStay, Zenon
  <2>7. ASSUME NEW lost \in BOOLEAN, HangUp(c, lost) PROVE ReplyInv'
    <3>1. cid[c] \in Ids /\ UNCHANGED <<rx, out>> /\ pc' = [pc EXCEPT ![c] = "closed"]
          /\ (Submit(LeaveOf(c, lost)) \/ Dropped)
      BY <2>4, <2>7, Zenon DEF HangUp
    <3>2. LeaveOf(c, lost) \in Command /\ LeaveOf(c, lost).op = "leave"
      BY <3>1, Zenon DEF LeaveOf, Command, LeaveCmd, TypeOK
    <3>3. ResumesAreGuests'
      BY <1>0, <2>1, <3>1, <3>2, GuestsStay, Zenon
    <3>4. \A d \in Conns : (pc'[d] = pc[d] \/ pc'[d] = "closed") /\ KeepsHead(d)
      BY <3>1, Zenon DEF KeepsHead, TypeOK
    <3> QED
      BY <3>1, <3>3, <3>4, ReplyStay, Zenon
  <2> QED
    BY <1>11, <2>2, <2>3, <2>5, <2>6, <2>7, Zenon DEF Client
<1>12. ASSUME NEW c \in Conns, Write(c) PROVE ReplyInv'
  <2>1. /\ pc[c] = "open" /\ out[c] # <<>> /\ out' = [out EXCEPT ![c] = Tail(@)]
        /\ UNCHANGED <<pc, inbox>>
    BY <1>12, Zenon DEF Write
  <2>2. /\ \A d \in Conns : d # c => rx'[d] = rx[d] /\ out'[d] = out[d]
        /\ rx'[c].first = IF rx[c].first = "none" THEN Head(out[c]).kind ELSE rx[c].first
    BY <1>12, ChanKinds, Zenon DEF Write, TypeOK, Chans
  <2>3. out[c] \in Seq(Frame) /\ Head(out[c]) = out[c][1] /\ out[c][1] \in Frame
    BY <2>1 DEF TypeOK, Chans
  <2>4. rx'[c].first = ReplyKind(c)
    BY <2>1, <2>2, <2>3 DEF ReplyInv, ReplyFirst, HelloLeads, ReplyKind
  <2>5. HelloLeads'
    BY <2>2, <2>4 DEF ReplyInv, HelloLeads, ReplyKind
  <2>6. ReplyFirst'
    <3>1. ReplyKind(c) # "none"
      BY Zenon DEF ReplyKind
    <3> QED
      BY <2>1, <2>2, <2>4, <3>1 DEF ReplyInv, ReplyFirst, ReplyKind
  <2>7. ResumesAreGuests'
    BY <1>0, <2>1, GuestsStay, Zenon
  <2> QED
    BY <2>5, <2>6, <2>7, Zenon DEF ReplyInv
<1>13. CASE Timers
  <2>1. CASE \E t \in timers : TimerFires(t)
    BY <1>0, <1>a, <2>1, GuestsStay, Zenon DEF TimerFires
  <2>2. ASSUME NEW t \in fired, TimerSends(t) PROVE ReplyInv'
    <3> DEFINE m == [op |-> "grace", id |-> t.id, gen |-> t.gen]
    <3>1. m \in Command /\ m.op = "grace"
      BY Zenon DEF Command, GraceCmd, TypeOK, Timer
    <3>2. (Submit(m) \/ Dropped) /\ UNCHANGED <<rx, pc, out>>
      BY <2>2, Zenon DEF TimerSends
    <3> HIDE DEF m
    <3> QED
      BY <1>0, <1>a, <3>1, <3>2, GuestsStay, Zenon DEF Dropped
  <2> QED
    BY <1>13, <2>1, <2>2, Zenon DEF Timers
<1>14. CASE Sweep
  <2>1. [op |-> "close"] \in Command /\ [op |-> "close"].op = "close"
    BY Zenon DEF Command, CloseCmd
  <2> QED
    BY <1>0, <1>a, <1>14, <2>1, GuestsStay, Zenon DEF Sweep, Dropped
<1>15. CASE UNCHANGED vars
  BY <1>0, <1>a, <1>15, GuestsStay, Zenon DEF vars
<1> QED
  BY <1>1, <1>2, <1>4, <1>5, <1>6, <1>7, <1>8, <1>9, <1>10, <1>11, <1>12, <1>13, <1>14, <1>15
     DEF Next, Hub

-----------------------------------------------------------------------------
(* Folding frames into a view.                                             *)

\* Every non-empty set of naturals has a least element.
LEMMA LeastNumber ==
  ASSUME NEW T \in SUBSET Nat, T # {}
  PROVE  \E x \in T : \A y \in T : x <= y
<1> DEFINE R == OpToRel(<, Nat)
<1>1. IsWellFoundedOn(R, Nat)
  BY NatLessThanWellFounded, Zenon
<1>2. R = {ss \in Nat \X Nat : ss[1] < ss[2]}
  BY Zenon DEF OpToRel
<1> HIDE DEF R
<1>3. PICK x \in T : \A y \in T : ~ (<<y, x>> \in R)
  BY <1>1, WFMin, Zenon
<1>4. ASSUME NEW y \in T PROVE x <= y
  <2>1. <<y, x>> \in Nat \X Nat /\ <<y, x>>[1] = y /\ <<y, x>>[2] = x
    BY Zenon
  <2>2. ~(y < x)
    BY <1>2, <1>3, <2>1, Zenon
  <2> QED
    BY <2>2
<1> QED
  BY <1>4, Zenon

\* A set that holds 0 and with every number below n the next one holds all
\* numbers up to n.
LEMMA UpTo ==
  ASSUME NEW n \in Nat, NEW T, 0 \in T,
         \A k \in 0..(n - 1) : k \in T => k + 1 \in T
  PROVE  \A k \in 0..n : k \in T
<1> SUFFICES ASSUME NEW j \in 0..n, j \notin T PROVE FALSE
  BY Zenon
<1> DEFINE B == {k \in 0..n : k \notin T}
<1>1. PICK x \in B : \A y \in B : x <= y
  <2>1. B \in SUBSET Nat /\ B # {}
    OBVIOUS
  <2> HIDE DEF B
  <2> QED
    BY <2>1, LeastNumber, Zenon
<1>2. x # 0 /\ x - 1 \in 0..(n - 1) /\ x - 1 \notin B
  BY <1>1
<1> QED
  BY <1>1, <1>2

\* The successive views of a client that starts with v and is sent s.
Views(g, v, s) ==
  /\ g \in [0..Len(s) -> SUBSET Ids]
  /\ g[0] = v
  /\ \A k \in 1..Len(s) : g[k] = View(g[k - 1], s[k])

\* A view is a set of ids.
LEMMA ViewType == \A v \in SUBSET Ids, f \in Frame : View(v, f) \in SUBSET Ids
BY Zenon DEF View, Frame

\* There is a sequence of successive views for any frames.
LEMMA ViewsExist ==
  ASSUME NEW v \in SUBSET Ids, NEW s \in Seq(Frame)
  PROVE  \E g : Views(g, v, s)
<1> DEFINE Upto(n) == \E g \in [0..n -> SUBSET Ids] :
                        g[0] = v /\ \A k \in 1..n : g[k] = View(g[k - 1], s[k])
           T == {n \in Nat : Upto(n)}
<1>1. Len(s) \in Nat /\ \A k \in 1..Len(s) : s[k] \in Frame
  OBVIOUS
<1>2. 0 \in T
  <2>1. [k \in 0..0 |-> v] \in [0..0 -> SUBSET Ids] /\ [k \in 0..0 |-> v][0] = v /\ 1..0 = {}
    OBVIOUS
  <2> QED
    BY <2>1, Zenon
<1>3. ASSUME NEW n \in 0..(Len(s) - 1), n \in T PROVE n + 1 \in T
  <2>1. PICK g \in [0..n -> SUBSET Ids] : g[0] = v /\ \A k \in 1..n : g[k] = View(g[k - 1], s[k])
    BY <1>3, Zenon
  <2> DEFINE h == [k \in 0..(n + 1) |-> IF k = n + 1 THEN View(g[n], s[n + 1]) ELSE g[k]]
  <2>2. s[n + 1] \in Frame /\ g[n] \in SUBSET Ids /\ n \in Nat
    BY <1>1, <2>1
  <2>3. View(g[n], s[n + 1]) \in SUBSET Ids
    BY <2>2, ViewType, Zenon
  <2>4. h \in [0..(n + 1) -> SUBSET Ids] /\ h[0] = v
    BY <2>1, <2>2, <2>3
  <2>5. ASSUME NEW k \in 1..(n + 1) PROVE h[k] = View(h[k - 1], s[k])
    <3>1. CASE k = n + 1
      BY <2>2, <3>1
    <3>2. CASE k # n + 1
      <4>1. k \in 1..n /\ k - 1 \in 0..n /\ k # n + 1 /\ k - 1 # n + 1 /\ k \in 0..(n+1) /\ k - 1 \in 0..(n + 1)
        BY <2>2, <3>2
      <4>2. h[k] = g[k] /\ h[k - 1] = g[k - 1]
        BY <4>1, Zenon
      <4> QED
        BY <2>1, <4>1, <4>2, Zenon
    <3> QED
      BY <3>1, <3>2, Zenon
  <2> HIDE DEF h
  <2> QED
    BY <2>2, <2>4, <2>5, SMTT(30)
<1> HIDE DEF T
<1>4. \A k \in 0..Len(s) : k \in T
  BY <1>1, <1>2, <1>3, UpTo, Zenon
<1>5. Len(s) \in T
  BY <1>1, <1>4
<1> QED
  BY <1>5, Zenon DEF T, Views

\* ... and only one.
LEMMA ViewsUnique ==
  ASSUME NEW v, NEW s \in Seq(Frame), NEW g, NEW h, Views(g, v, s), Views(h, v, s)
  PROVE  g = h
<1> DEFINE T == {k \in 0..Len(s) : g[k] = h[k]}
<1>1. Len(s) \in Nat
  OBVIOUS
<1>2. 0 \in T
  BY <1>1 DEF Views
<1>3. \A k \in 0..(Len(s) - 1) : k \in T => k + 1 \in T
  <2> TAKE k \in 0..(Len(s) - 1)
  <2> HAVE k \in T
  <2>1. k + 1 \in 1..Len(s) /\ k + 1 \in 0..Len(s) /\ (k + 1) - 1 = k
    BY <1>1
  <2>2. g[k + 1] = View(g[k], s[k + 1]) /\ h[k + 1] = View(h[k], s[k + 1])
    BY <2>1, Zenon DEF Views
  <2> QED
    BY <2>1, <2>2, Zenon
<1> HIDE DEF T
<1>4. \A k \in 0..Len(s) : k \in T
  BY <1>1, <1>2, <1>3, UpTo, Zenon
<1> QED
  BY <1>4 DEF T, Views

\* What ViewAfter computes is the last of the successive views.
LEMMA ViewAfterIs ==
  ASSUME NEW v \in SUBSET Ids, NEW s \in Seq(Frame), NEW g, Views(g, v, s)
  PROVE  ViewAfter(v, s) = g[Len(s)]
<1> DEFINE E(h) == [k \in 0..Len(s) |-> IF k = 0 THEN v ELSE View(h[k - 1], s[k])]
           c == CHOOSE h : h = E(h)
<1>1. Len(s) \in Nat
  OBVIOUS
<1>2. g = E(g)
  BY <1>1 DEF Views
<1>3. c = E(c)
  BY <1>2, Zenon
<1>4. Views(c, v, s)
  <2> DEFINE T == {k \in 0..Len(s) : c[k] \in SUBSET Ids}
  <2> HIDE DEF c
  <2>1. /\ DOMAIN c = 0..Len(s) /\ c[0] = v /\ \A k \in 1..Len(s) : c[k] = View(c[k - 1], s[k])
        /\ c = [k \in 0..Len(s) |-> c[k]]
    BY <1>1, <1>3
  <2>2. 0 \in T
    BY <1>1, <2>1
  <2>3. \A k \in 0..(Len(s) - 1) : k \in T => k + 1 \in T
    <3> TAKE k \in 0..(Len(s) - 1)
    <3> HAVE k \in T
    <3>1. k + 1 \in 1..Len(s) /\ k + 1 \in 0..Len(s) /\ (k + 1) - 1 = k /\ s[k + 1] \in Frame
      BY <1>1
    <3>2. c[k + 1] = View(c[k], s[k + 1])
      BY <2>1, <3>1, Zenon
    <3> QED
      BY <3>1, <3>2, ViewType, Zenon
  <2> HIDE DEF T
  <2>4. \A k \in 0..Len(s) : k \in T
    BY <1>1, <2>2, <2>3, UpTo, Zenon
  <2>5. \A k \in 0..Len(s) : c[k] \in SUBSET Ids
    BY <2>4, Zenon DEF T
  <2> QED
    BY <2>1, <2>5, Zenon DEF Views
<1>5. c = g
  BY <1>4, ViewsUnique, Zenon
<1>6. ViewAfter(v, s) = c[Len(s)]
  BY Zenon DEF ViewAfter
<1> QED
  BY <1>5, <1>6, Zenon

\* Sent nothing, a client knows what it knew.
LEMMA ViewOfNothing ==
  ASSUME NEW v \in SUBSET Ids
  PROVE  ViewAfter(v, <<>>) = v
<1>1. <<>> \in Seq(Frame) /\ Len(<<>>) = 0
  OBVIOUS
<1>2. PICK g : Views(g, v, <<>>)
  BY <1>1, ViewsExist, Zenon
<1>3. ViewAfter(v, <<>>) = g[Len(<<>>)]
  BY <1>1, <1>2, ViewAfterIs, Zenon
<1> QED
  BY <1>1, <1>2, <1>3, Zenon DEF Views

\* A client that takes the frame at the head of its queue still has the same
\* view ahead of it (the writer).
LEMMA ViewOfTail ==
  ASSUME NEW v \in SUBSET Ids, NEW s \in Seq(Frame), s # <<>>
  PROVE  ViewAfter(View(v, Head(s)), Tail(s)) = ViewAfter(v, s)
<1>1. /\ Len(s) \in Nat \ {0} /\ Head(s) = s[1] /\ Head(s) \in Frame
      /\ Tail(s) \in Seq(Frame) /\ Len(Tail(s)) = Len(s) - 1
      /\ \A k \in 1..Len(Tail(s)) : Tail(s)[k] = s[k + 1]
  OBVIOUS
<1>2. PICK g : Views(g, v, s)
  BY ViewsExist, Zenon
<1> DEFINE h == [k \in 0..(Len(s) - 1) |-> g[k + 1]]
<1>3. Views(h, View(v, Head(s)), Tail(s))
  <2>1. h \in [0..Len(Tail(s)) -> SUBSET Ids]
    BY <1>1, <1>2 DEF Views
  <2>2. h[0] = View(v, Head(s))
    <3>1. h[0] = g[1] /\ 1 \in 1..Len(s) /\ 1 - 1 = 0
      BY <1>1
    <3> QED
      BY <1>1, <1>2, <3>1, Zenon DEF Views
  <2>3. ASSUME NEW k \in 1..Len(Tail(s)) PROVE h[k] = View(h[k - 1], Tail(s)[k])
    <3>1. /\ h[k] = g[k + 1] /\ h[k - 1] = g[(k + 1) - 1]
          /\ k + 1 \in 1..Len(s) /\ Tail(s)[k] = s[k + 1]
      <4>1. k \in 0..(Len(s) - 1) /\ k - 1 \in 0..(Len(s) - 1) /\ (k - 1) + 1 = (k + 1) - 1
        BY <1>1
      <4>2. h[k] = g[k + 1] /\ h[k - 1] = g[(k - 1) + 1]
        BY <4>1, Zenon
      <4> QED
        BY <1>1, <4>1, <4>2
    <3> HIDE DEF h
    <3> QED
      BY <1>2, <3>1, Zenon DEF Views
  <2> HIDE DEF h
  <2> QED
    BY <2>1, <2>2, <2>3, Zenon DEF Views
<1>4. h[Len(Tail(s))] = g[Len(s)]
  <2>1. Len(Tail(s)) \in 0..(Len(s) - 1) /\ Len(Tail(s)) + 1 = Len(s)
    BY <1>1
  <2>2. h[Len(Tail(s))] = g[Len(Tail(s)) + 1]
    BY <2>1, Zenon
  <2> QED
    BY <2>1, <2>2, Zenon
<1> HIDE DEF h
<1>5. View(v, Head(s)) \in SUBSET Ids
  BY <1>1, ViewType, Zenon
<1>6. ViewAfter(View(v, Head(s)), Tail(s)) = h[Len(Tail(s))]
  BY <1>1, <1>3, <1>5, ViewAfterIs, Zenon
<1>7. ViewAfter(v, s) = g[Len(s)]
  BY <1>2, ViewAfterIs, Zenon
<1> QED
  BY <1>4, <1>6, <1>7, Zenon

\* One more frame changes the view by what the frame says (queue).
LEMMA ViewOfAppend ==
  ASSUME NEW v \in SUBSET Ids, NEW s \in Seq(Frame), NEW f \in Frame
  PROVE  /\ ViewAfter(v, Append(s, f)) = View(ViewAfter(v, s), f)
         /\ ViewAfter(v, s) \in SUBSET Ids
<1> DEFINE t == Append(s, f)  n == Len(s)
<1>1. n \in Nat /\ t \in Seq(Frame) /\ Len(t) = n + 1 /\ t[n + 1] = f /\ \A k \in 1..n : t[k] = s[k]
  OBVIOUS
<1> HIDE DEF t, n
<1>2. PICK g : Views(g, v, t)
  BY <1>1, ViewsExist, Zenon
<1> DEFINE h == [k \in 0..n |-> g[k]]
<1>3. Views(h, v, s)
  <2>1. h \in [0..n -> SUBSET Ids] /\ h[0] = v
    BY <1>1, <1>2 DEF Views
  <2>2. ASSUME NEW k \in 1..n PROVE h[k] = View(h[k - 1], s[k])
    <3>1. k \in 0..n /\ k - 1 \in 0..n /\ k \in 1..Len(t) /\ t[k] = s[k]
      BY <1>1
    <3>2. h[k] = g[k] /\ h[k - 1] = g[k - 1]
      BY <3>1, Zenon
    <3> HIDE DEF h
    <3> QED
      BY <1>2, <3>1, <3>2, Zenon DEF Views
  <2> HIDE DEF h
  <2> QED
    BY <2>1, <2>2, Zenon DEF Views, n
<1>4. h[n] = g[n] /\ h[n] \in SUBSET Ids
  BY <1>1, <1>2 DEF Views
<1> HIDE DEF h
<1>5. ViewAfter(v, s) = h[n]
  BY <1>3, ViewAfterIs, Zenon DEF n
<1>6. ViewAfter(v, t) = g[n + 1]
  BY <1>1, <1>2, ViewAfterIs, Zenon
<1>7. g[n + 1] = View(g[n], f)
  <2>1. n + 1 \in 1..Len(t) /\ (n + 1) - 1 = n
    BY <1>1
  <2> QED
    BY <1>1, <1>2, <2>1, Zenon DEF Views
<1> QED
  BY <1>4, <1>5, <1>6, <1>7, Zenon DEF t

IsReply(f) == f.kind \in {"created", "result"}

NoReply(s) == \A k \in DOMAIN s : ~IsReply(s[k])

\* Frames other than replies, told twice, say the same as told once: a
\* buffered backlog is right also after a reply that already takes it into
\* account (handleResume).
LEMMA ViewTwice ==
  ASSUME NEW v \in SUBSET Ids, NEW s \in Seq(Frame), NoReply(s)
  PROVE  ViewAfter(ViewAfter(v, s), s) = ViewAfter(v, s)
<1>1. PICK g : Views(g, v, s)
  BY ViewsExist, Zenon
<1>2. Len(s) \in Nat /\ DOMAIN s = 1..Len(s)
  OBVIOUS
<1> DEFINE u == g[Len(s)]
<1>3. ViewAfter(v, s) = u /\ u \in SUBSET Ids
  BY <1>1, <1>2, ViewAfterIs DEF Views
<1>4. PICK h : Views(h, u, s)
  BY <1>3, ViewsExist, Zenon
<1>5. ViewAfter(u, s) = h[Len(s)]
  BY <1>3, <1>4, ViewAfterIs, Zenon
<1> HIDE DEF u
<1>6. ASSUME NEW j \in Ids PROVE j \in h[Len(s)] <=> j \in u
  <2> DEFINE Same(k) == j \in h[k] <=> j \in g[k]
             Untold(k) == (j \in h[k] <=> j \in u) /\ (j \in g[k] <=> j \in v)
             T == {k \in 0..Len(s) : Same(k) \/ Untold(k)}
  <2>1. 0 \in T
    BY <1>1, <1>2, <1>4 DEF Views
  <2>2. \A k \in 0..(Len(s) - 1) : k \in T => k + 1 \in T
    <3> TAKE k \in 0..(Len(s) - 1)
    <3> HAVE k \in T
    <3>1. k + 1 \in 1..Len(s) /\ k + 1 \in 0..Len(s) /\ (k + 1) - 1 = k
      BY <1>2
    <3>2. g[k + 1] = View(g[k], s[k + 1]) /\ h[k + 1] = View(h[k], s[k + 1]) /\ ~IsReply(s[k + 1])
      BY <1>1, <1>2, <1>4, <3>1, Zenon DEF Views, NoReply
    <3> DEFINE f == s[k + 1]
    <3>3. \/ \A w : j \in View(w, f)
          \/ \A w : j \notin View(w, f)
          \/ \A w : j \in View(w, f) <=> j \in w
      BY <3>2, Zenon DEF View, IsReply
    <3>4. Same(k + 1) \/ Untold(k + 1)
      BY <3>2, <3>3, Zenon
    <3> QED
      BY <3>1, <3>4, Zenon
  <2>3. \A k \in 0..Len(s) : k \in T
    <3> HIDE DEF T
    <3> QED
      BY <1>2, <2>1, <2>2, UpTo, Zenon
  <2>4. Same(Len(s)) \/ Untold(Len(s))
    BY <1>2, <2>3
  <2> QED
    BY <2>4, Zenon DEF u
<1>7. h[Len(s)] \in SUBSET Ids
  BY <1>2, <1>4 DEF Views
<1> QED
  BY <1>3, <1>5, <1>6, <1>7, Zenon

-----------------------------------------------------------------------------
(* What clients are told adds up to the membership.                        *)

\* The client of slot i: connected, it is told exactly who is there; away,
\* the backlog kept for it is right on top of the reply to its resume.
Told(i) ==
  IF i \in held
  THEN NoReply(out[i]) /\ ViewAfter(clients \ {i}, out[i]) = clients \ {i}
  ELSE conn[i] \notin lossy /\ (conn[i] = Creator => i = 1) => ViewOf(conn[i]) = clients \ {i}

ViewInv == ~done => \A i \in clients \ Range(evict) : Told(i)

\* Two slots never share a channel.
LEMMA ChanOfSlot ==
  ASSUME TypeOK, SlotInv, NEW i \in clients, NEW j \in clients
  PROVE  Chan(i) \in Chans /\ (Chan(i) = Chan(j) => i = j)
<1>1. i \in Ids /\ j \in Ids /\ conn[i] \in Conns /\ conn[j] \in Conns
  BY Zenon DEF TypeOK
<1>2. cid[conn[i]] = i /\ cid[conn[j]] = j
  BY Zenon DEF SlotInv, SlotConn
<1> QED
  BY <1>1, <1>2, ChanKinds, Zenon DEF Chan

\* A fan-out to R reaches the channels of the slots in R that are not being
\* evicted, and no other slot's.
LEMMA QueuedFor ==
  ASSUME TypeOK, SlotInv, NEW R \in SUBSET clients, NEW f, NEW i \in clients \ (Range(evict) \cup Overflow(R))
  PROVE  Queued(R, f)[Chan(i)] = IF i \in R THEN Append(out[Chan(i)], f) ELSE out[Chan(i)]
<1> DEFINE takers == {Chan(j) : j \in R \ (Range(evict) \cup Overflow(R))}
<1>1. Chan(i) \in Chans
  BY ChanOfSlot, Zenon
<1>2. Chan(i) \in takers <=> i \in R
  BY ChanOfSlot, Zenon
<1>3. Queued(R, f)[Chan(i)] = IF Chan(i) \in takers THEN Append(out[Chan(i)], f) ELSE out[Chan(i)]
  BY <1>1, Zenon DEF Queued
<1> QED
  BY <1>2, <1>3, Zenon

\* A client that is told one more frame: right if the frame says how the
\* membership changed.
LEMMA ToldMore ==
  ASSUME TypeOK, NEW i \in clients, NEW f \in Frame, ~IsReply(f), Told(i),
         out'[Chan(i)] = Append(out[Chan(i)], f),
         View(clients \ {i}, f) = clients' \ {i},
         i \in held' <=> i \in held, conn'[i] = conn[i],
         rx'[conn[i]] = rx[conn[i]], conn[i] \in lossy => conn[i] \in lossy'
  PROVE  Told(i)'
<1>1. i \in Ids /\ conn[i] \in Conns /\ clients \ {i} \in SUBSET Ids
  BY Zenon DEF TypeOK
<1>2. clients' \ {i} \in SUBSET Ids
  BY <1>1, ViewType, Zenon
<1>3. CASE i \in held
  <2> DEFINE s == out[i]  u == clients \ {i}  w == clients' \ {i}
  <2>1. Chan(i) = i /\ out'[i] = Append(s, f) /\ s \in Seq(Frame)
    BY <1>1, <1>3, Zenon DEF Chan, TypeOK, Chans
  <2>2. NoReply(s) /\ ViewAfter(u, s) = u
    BY <1>3, Zenon DEF Told
  <2>3. NoReply(Append(s, f))
    <3>1. /\ DOMAIN Append(s, f) = 1..(Len(s) + 1) /\ DOMAIN s = 1..Len(s) /\ Len(s) \in Nat
          /\ Append(s, f)[Len(s) + 1] = f /\ \A k \in 1..Len(s) : Append(s, f)[k] = s[k]
      BY <2>1
    <3>2. \A k \in 1..(Len(s) + 1) : k \in 1..Len(s) \/ k = Len(s) + 1
      BY <3>1
    <3> QED
      BY <2>2, <3>1, <3>2, Zenon DEF NoReply
  <2>4. ViewAfter(u, Append(s, f)) = w
    <3>1. ViewAfter(u, Append(s, f)) = View(ViewAfter(u, s), f)
      BY <1>1, <2>1, ViewOfAppend, Zenon
    <3> QED
      BY <2>2, <3>1, Zenon
  <2>5. Append(s, f) \in Seq(Frame)
    BY <2>1
  <2> HIDE DEF s, u, w
  <2>6. ViewAfter(w, Append(s, f)) = w
    BY <1>1, <2>3, <2>4, <2>5, ViewTwice, Zenon DEF u
  <2>7. NoReply(out'[i]) /\ ViewAfter(clients' \ {i}, out'[i]) = clients' \ {i}
    BY <2>1, <2>3, <2>6, Zenon DEF w
  <2>8. i \in held'
    BY <1>3, Zenon
  <2> QED
    BY <2>7, <2>8, Zenon DEF Told
<1>4. CASE i \notin held
  <2> DEFINE c == conn[i]
  <2> SUFFICES ASSUME c \notin lossy', c = Creator => i = 1
               PROVE  ViewAfter(rx'[c].view, out'[c]) = clients' \ {i}
    BY <1>4, Zenon DEF Told, ViewOf
  <2>1. Chan(i) = c /\ out'[c] = Append(out[c], f) /\ out[c] \in Seq(Frame) /\ rx[c].view \in SUBSET Ids
    BY <1>1, <1>4, Zenon DEF Chan, TypeOK, Chans, Rx
  <2>2. ViewAfter(rx[c].view, out[c]) = clients \ {i}
    BY <1>4, Zenon DEF Told, ViewOf
  <2>3. ViewAfter(rx[c].view, Append(out[c], f)) = View(ViewAfter(rx[c].view, out[c]), f)
    BY <2>1, ViewOfAppend, Zenon
  <2> QED
    BY <2>1, <2>2, <2>3, Zenon
<1> QED
  BY <1>3, <1>4, Zenon

\* A client that is told nothing while nothing changed.
LEMMA ToldSame ==
  ASSUME TypeOK, NEW i \in clients, Told(i), out'[Chan(i)] = out[Chan(i)],
         clients' \ {i} = clients \ {i},
         i \in held' <=> i \in held, conn'[i] = conn[i],
         rx'[conn[i]] = rx[conn[i]], conn[i] \in lossy => conn[i] \in lossy'
  PROVE  Told(i)'
<1>1. CASE i \in held
  BY <1>1, Zenon DEF Told, Chan
<1>2. CASE i \notin held
  BY <1>2, Zenon DEF Told, Chan, ViewOf
<1> QED
  BY <1>1, <1>2, Zenon

\* A fan-out keeps a client rightly told, if the frame says how the
\* membership changed to those it is for.
LEMMA ToldFanOut ==
  ASSUME TypeOK, SlotInv, NEW R \in SUBSET clients, NEW f \in Frame, ~IsReply(f),
         UNCHANGED <<rx, lossy>>,
         NEW i \in clients \ (Range(evict) \cup Overflow(R)), Told(i),
         out'[Chan(i)] = Queued(R, f)[Chan(i)],
         i \in held' <=> i \in held, conn'[i] = conn[i],
         i \in R => View(clients \ {i}, f) = clients' \ {i},
         i \notin R => clients' \ {i} = clients \ {i}
  PROVE  Told(i)'
<1>1. Queued(R, f)[Chan(i)] = IF i \in R THEN Append(out[Chan(i)], f) ELSE out[Chan(i)]
  BY QueuedFor
<1>2. CASE i \in R
  BY <1>1, <1>2, ToldMore, Zenon
<1>3. CASE i \notin R
  BY <1>1, <1>3, ToldSame, Zenon
<1> QED
  BY <1>2, <1>3, Zenon

\* removeParticipant tells everybody else, once.
LEMMA ViewRemove ==
  ASSUME TypeOK, SlotInv, EvictInv, ViewInv, ~done, NEW j \in clients, Removes(j),
         UNCHANGED <<rx, lossy>>
  PROVE  ViewInv'
<1> SUFFICES ASSUME ~done', NEW i \in clients' \ Range(evict') PROVE Told(i)'
  BY Zenon DEF ViewInv
<1> DEFINE R == clients \ {j}  f == Msg("left", {j})
<1>1. j \in Ids /\ R \in SUBSET clients
  BY Zenon DEF TypeOK
<1>2. out' = Queued(R, f) /\ Range(evict') = (Range(evict) \ {j}) \cup Overflow(R)
  BY <1>1, RemovesEvict, Zenon
<1>3. clients' = R /\ held' = held \ {j} /\ UNCHANGED conn
  BY Zenon DEF Removes, RemoveParticipant
<1>4. f \in Frame /\ f.kind = "left" /\ f.ids = {j}
  <2>1. f \in Frame
    BY <1>1, MsgType, Zenon DEF Kinds
  <2> QED
    BY <2>1, Zenon DEF Msg
<1>5. i \in clients \ (Range(evict) \cup Overflow(R)) /\ i \in R /\ i # j
  BY <1>2, <1>3, Zenon
<1> HIDE DEF f
<1>6. ~IsReply(f) /\ View(clients \ {i}, f) = clients' \ {i}
  <2>1. View(clients \ {i}, f) = (clients \ {i}) \ {j}
    BY <1>4, Zenon DEF View
  <2> QED
    BY <1>3, <1>4, <2>1, Zenon DEF IsReply
<1>7. Told(i)
  BY <1>5, Zenon DEF ViewInv
<1> HIDE DEF R
<1> QED
  BY <1>1, <1>2, <1>3, <1>4, <1>5, <1>6, <1>7, ToldFanOut, Zenon

\* handleJoin: the new client's reply lists the others, and each of them is
\* told of the new one.
LEMMA ViewJoin ==
  ASSUME TypeOK, SlotInv, EvictInv, ViewInv, HandleJoin
  PROVE  ViewInv'
<1> DEFINE c == Head(inbox).conn
           n == nextID
           reply == IF c = Creator THEN SessionCreated ELSE JoinResult(n)
           f == Msg("joined", {n})
           Q == Queued(clients, f)
<1>1. /\ Receive("join") /\ n \in Ids /\ clients' = clients \cup {n}
      /\ conn' = [conn EXCEPT ![n] = c] /\ out' = [Q EXCEPT ![c] = <<reply>>]
      /\ Evict(clients, evict, {}) /\ UNCHANGED <<held, rx, lossy, done>>
  BY Zenon DEF HandleJoin, history
<1>2. c \in Conns /\ cid[c] = 0 /\ ~done /\ evict = <<>> /\ Range(evict) = {}
  BY <1>1, HelloWaits, EvictNone, Zenon DEF Hellos, Receive
<1>3. n \notin clients /\ n \notin held /\ (n = 1 => clients = {})
  <2>1. \A i \in clients : i < n /\ i \in Nat \ {0}
    BY IdRange, Zenon DEF SlotInv, SlotConn, TypeOK
  <2> QED
    BY <1>1, <2>1, IdRange DEF TypeOK
<1>4. Range(evict') = Overflow(clients)
  BY <1>1, <1>2, BroadcastEvict, Zenon
<1>5. f \in Frame /\ f.kind = "joined" /\ f.ids = {n}
  <2>1. f \in Frame
    BY <1>1, MsgType, Zenon DEF Kinds
  <2> QED
    BY <2>1, Zenon DEF Msg
<1>6. Q = [x \in Chans |-> Q[x]] /\ c \in Chans
  BY <1>2, Zenon DEF Queued, Chans
<1>7. reply \in Frame /\ IsReply(reply) /\ (c = Creator => reply.ids = {}) /\ (c # Creator => reply.ids = clients)
  <2>1. reply \in Frame
    BY JoinResultType, MsgType, Zenon DEF SessionCreated, Kinds
  <2> QED
    BY <1>3, <2>1, Zenon DEF IsReply, SessionCreated, Msg, JoinResult
<1> HIDE DEF reply, f, Q, c
<1>8. out'[c] = <<reply>> /\ \A x \in Chans : x # c => out'[x] = Q[x]
  BY <1>1, <1>6, Zenon
<1> SUFFICES ASSUME NEW i \in clients' \ Range(evict') PROVE Told(i)'
  BY Zenon DEF ViewInv
<1>9. CASE i = n
  <2>1. conn'[i] = c /\ i \notin held' /\ clients' \ {i} = clients
    BY <1>1, <1>3, <1>9, Zenon DEF TypeOK
  <2>2. ASSUME c = Creator => i = 1 PROVE ViewAfter(rx'[c].view, out'[c]) = clients
    <3> DEFINE v == rx[c].view
    <3>1. v \in SUBSET Ids /\ rx'[c].view = v
      BY <1>1, <1>2, Zenon DEF TypeOK, Rx
    <3>2. <<reply>> \in Seq(Frame) /\ <<reply>> # <<>> /\ Head(<<reply>>) = reply /\ Tail(<<reply>>) = <<>>
      BY <1>7
    <3>3. reply.ids = clients
      BY <1>3, <1>7, <1>9, <2>2, Zenon
    <3>4. View(v, reply) = clients
      BY <1>7, <3>3, Zenon DEF View, IsReply
    <3>5. ViewAfter(v, <<reply>>) = ViewAfter(View(v, Head(<<reply>>)), Tail(<<reply>>))
      BY <3>1, <3>2, ViewOfTail, Zenon
    <3>6. clients \in SUBSET Ids
      BY Zenon DEF TypeOK
    <3> HIDE DEF v
    <3>7. ViewAfter(v, <<reply>>) = ViewAfter(clients, <<>>)
      BY <3>2, <3>4, <3>5, Zenon
    <3> QED
      BY <1>8, <3>1, <3>6, <3>7, ViewOfNothing, Zenon
  <2> QED
    BY <2>1, <2>2, Zenon DEF Told, ViewOf
<1>10. CASE i # n
  <2>1. i \in clients /\ i \in clients \ (Range(evict) \cup Overflow(clients)) /\ Told(i)
    BY <1>1, <1>2, <1>4, <1>10, Zenon DEF ViewInv
  <2>2. conn'[i] = conn[i] /\ (i \in held' <=> i \in held)
    BY <1>1, <1>10, <2>1, Zenon DEF TypeOK
  <2>3. Chan(i) # c
    <3>1. cid[conn[i]] = i /\ i \in Ids /\ i # 0
      BY <2>1, IdRange, Zenon DEF SlotInv, SlotConn, TypeOK
    <3> QED
      BY <1>2, <3>1, ChanKinds, Zenon DEF Chan
  <2>4. out'[Chan(i)] = Queued(clients, f)[Chan(i)]
    BY <1>8, <2>1, <2>3, ChanOfSlot, Zenon DEF Q
  <2>5. ~IsReply(f) /\ View(clients \ {i}, f) = clients' \ {i}
    <3>1. View(clients \ {i}, f) = (clients \ {i}) \cup {n}
      BY <1>5, Zenon DEF View
    <3> QED
      BY <1>1, <1>5, <1>10, <3>1, Zenon DEF IsReply
  <2> QED
    BY <1>1, <1>5, <2>1, <2>2, <2>4, <2>5, ToldFanOut, Zenon
<1> QED
  BY <1>9, <1>10, Zenon

\* A backlog that fits follows the reply to a resume as it is.
LEMMA ResumeFits ==
  ASSUME TypeOK, NEW i \in Ids, i \in held => ~Full(i)
  PROVE  /\ ResumeOut(i) \in Seq(Frame) /\ ResumeOut(i) # <<>>
         /\ Head(ResumeOut(i)) = JoinResult(i)
         /\ Tail(ResumeOut(i)) = IF i \in held THEN out[i] ELSE <<>>
<1> DEFINE backlog == IF i \in held THEN out[i] ELSE <<>>
           all == <<JoinResult(i)>> \o backlog
<1>1. backlog \in Seq(Frame) /\ JoinResult(i) \in Frame /\ Len(backlog) \in Nat
  <2>1. backlog \in Seq(Frame)
    BY DEF TypeOK, Chans
  <2>2. JoinResult(i) \in Frame
    BY JoinResultType, Zenon
  <2> QED
    BY <2>1, <2>2
<1>2. Len(backlog) + 1 <= SendBuffer
  <2>1. CASE i \in held
    BY <1>1, <2>1, HubAssumption DEF Full
  <2>2. CASE i \notin held
    BY <2>2, HubAssumption
  <2> QED
    BY <2>1, <2>2, Zenon
<1> DEFINE r == JoinResult(i)
<1> HIDE DEF backlog, r
<1>3. /\ all \in Seq(Frame) /\ Len(all) = 1 + Len(backlog)
      /\ all[1] = r /\ \A k \in 1..Len(backlog) : all[k + 1] = backlog[k]
  BY <1>1 DEF r
<1> HIDE DEF all
<1>4. SubSeq(all, 1, Len(all)) = all
  BY <1>1, <1>3
<1>5. ResumeOut(i) = SubSeq(all, 1, IF Len(all) > SendBuffer THEN SendBuffer ELSE Len(all))
  BY Zenon DEF ResumeOut, all, backlog, r
<1>6. ResumeOut(i) = all
  BY <1>1, <1>2, <1>3, <1>4, <1>5, HubAssumption
<1>7. all # <<>> /\ Head(all) = r
  BY <1>1, <1>3
<1>8. Tail(all) = backlog
  <2>1. /\ Tail(all) \in Seq(Frame) /\ Len(Tail(all)) = Len(backlog)
        /\ \A k \in 1..Len(backlog) : Tail(all)[k] = all[k + 1]
    BY <1>1, <1>3, <1>7
  <2> QED
    BY <1>1, <1>3, <2>1
<1> QED
  BY <1>3, <1>6, <1>7, <1>8, Zenon DEF backlog, r

\* handleResume: the reply lists the others, and the backlog behind it
\* changes nothing of that.
LEMMA ViewResume ==
  ASSUME TypeOK, SlotInv, ViewInv, Receive("resume"),
         NEW c \in Conns, c = Head(inbox).conn, NEW j \in clients,
         out' = [out EXCEPT ![c] = ResumeOut(j), ![j] = <<>>],
         lossy' = IF j \in held /\ Full(j) THEN lossy \cup {c} ELSE lossy,
         held' = held \ {j}, conn' = [conn EXCEPT ![j] = c],
         UNCHANGED <<clients, evict, done, rx>>
  PROVE  ViewInv'
<1>1. cid[c] = 0 /\ ~done /\ Range(evict) = {} /\ Range(evict') = {}
  BY HelloWaits, EvictNone DEF Hellos, Receive, Range
<1>2. j \in Ids /\ Conns \subseteq Chans /\ Ids \subseteq Chans /\ j # c
  BY ChanKinds, Zenon DEF TypeOK, Chans
<1>3. out'[c] = ResumeOut(j) /\ \A x \in Chans : x # c /\ x # j => out'[x] = out[x]
  BY <1>2, Zenon DEF TypeOK
<1> SUFFICES ASSUME NEW i \in clients PROVE Told(i)'
  BY Zenon DEF ViewInv
<1>4. Told(i)
  BY <1>1, Zenon DEF ViewInv
<1>5. CASE i = j
  <2>1. conn'[i] = c /\ i \notin held' /\ clients' = clients /\ rx' = rx
    BY <1>2, <1>5, Zenon DEF TypeOK
  <2>2. ASSUME c \notin lossy' PROVE ViewAfter(rx[c].view, out'[c]) = clients \ {i}
    <3> DEFINE v == rx[c].view  u == clients \ {i}
               backlog == IF i \in held THEN out[i] ELSE <<>>
               r == ResumeOut(i)
    <3>1. v \in SUBSET Ids /\ u \in SUBSET Ids
      BY Zenon DEF TypeOK, Rx
    <3>2. r \in Seq(Frame) /\ r # <<>> /\ Head(r) = JoinResult(i) /\ Tail(r) = backlog
      BY <1>2, <1>5, <2>2, ResumeFits, Zenon
    <3>3. View(v, JoinResult(i)) = u
      BY Zenon DEF View, JoinResult
    <3>4. ViewAfter(u, backlog) = u
      BY <1>4, <3>1, ViewOfNothing, Zenon DEF Told
    <3> HIDE DEF v, u, backlog, r
    <3>5. ViewAfter(v, r) = ViewAfter(View(v, Head(r)), Tail(r))
      BY <3>1, <3>2, ViewOfTail, Zenon
    <3>6. out'[c] = r
      BY <1>3, <1>5, Zenon DEF r
    <3> QED
      BY <3>2, <3>3, <3>4, <3>5, <3>6, Zenon DEF u, v
  <2> QED
    BY <2>1, <2>2, Zenon DEF Told, ViewOf
<1>6. CASE i # j
  <2>1. conn'[i] = conn[i] /\ (i \in held' <=> i \in held) /\ lossy \subseteq lossy'
    BY <1>6, Zenon DEF TypeOK
  <2>2. i \in Ids /\ conn[i] \in Conns /\ cid[conn[i]] = i /\ i # 0
    BY IdRange, Zenon DEF SlotInv, SlotConn, TypeOK
  <2>3. Chan(i) # c /\ Chan(i) # j /\ Chan(i) \in Chans
    BY <1>1, <1>2, <1>6, <2>2, ChanKinds, Zenon DEF Chan
  <2>4. out'[Chan(i)] = out[Chan(i)]
    BY <1>3, <2>3, Zenon
  <2> QED
    BY <1>4, <2>1, <2>2, <2>4, ToldSame, Zenon
<1> QED
  BY <1>5, <1>6, Zenon

\* A client takes the next frame (the writer), or is answered a ping.
LEMMA ViewOwn ==
  ASSUME TypeOK, SlotInv, ViewInv, NEW c \in Conns, ReadPing(c) \/ Write(c)
  PROVE  ViewInv'
<1>1. UNCHANGED <<clients, held, conn, evict, done, lossy>>
  BY Zenon DEF ReadPing, Write, hubVars, slotVars, history
<1>2. Range(evict') = Range(evict)
  BY <1>1, Zenon
<1> SUFFICES ASSUME ~done, NEW i \in clients \ Range(evict) PROVE Told(i)'
  BY <1>1, <1>2, Zenon DEF ViewInv
<1>3. Told(i) /\ i \in Ids /\ conn[i] \in Conns /\ Chan(i) \in Chans
  BY ChanOfSlot, Zenon DEF ViewInv, TypeOK
<1>4. CASE Chan(i) # c
  <2>1. out'[Chan(i)] = out[Chan(i)]
    BY <1>3, <1>4, Zenon DEF ReadPing, Write, TypeOK
  <2>2. i \notin held => rx'[conn[i]] = rx[conn[i]]
    BY <1>3, <1>4, Zenon DEF ReadPing, Write, TypeOK, Chan, history
  <2>3. CASE i \in held
    BY <1>1, <1>3, <2>1, <2>3, Zenon DEF Told, Chan
  <2>4. CASE i \notin held
    BY <1>1, <1>3, <2>1, <2>2, <2>4, ToldSame, Zenon
  <2> QED
    BY <2>3, <2>4, Zenon
<1>5. CASE Chan(i) = c
  <2>1. i \notin held /\ conn[i] = c
    BY <1>3, <1>5, ChanKinds, Zenon DEF Chan
  <2>2. c \in Chans /\ out[c] \in Seq(Frame) /\ rx[c].view \in SUBSET Ids
    BY Zenon DEF TypeOK, Chans, Rx
  <2>3. CASE ReadPing(c)
    <3> DEFINE f == Msg("pong", {})
    <3>1. f \in Frame /\ f.kind = "pong"
      BY MsgType, Zenon DEF Kinds, Msg
    <3>2. out'[c] = out[c] \/ out'[c] = Append(out[c], f)
      BY <2>2, <2>3, Zenon DEF ReadPing, TypeOK
    <3>3. UNCHANGED rx
      BY <2>3, Zenon DEF ReadPing, history
    <3> HIDE DEF f
    <3>4. ~IsReply(f) /\ View(clients \ {i}, f) = clients \ {i}
      BY <3>1, Zenon DEF IsReply, View
    <3>5. CASE out'[c] = out[c]
      BY <1>1, <1>3, <1>5, <3>3, <3>5, ToldSame, Zenon
    <3>6. CASE out'[c] = Append(out[c], f)
      BY <1>1, <1>3, <1>5, <3>1, <3>3, <3>4, <3>6, ToldMore, Zenon
    <3> QED
      BY <3>2, <3>5, <3>6, Zenon
  <2>4. CASE Write(c)
    <3>1. /\ out[c] # <<>> /\ out'[c] = Tail(out[c])
          /\ rx'[c].view = View(rx[c].view, Head(out[c]))
      BY <2>2, <2>4, Zenon DEF Write, TypeOK
    <3>2. ViewAfter(rx'[c].view, out'[c]) = ViewAfter(rx[c].view, out[c])
      BY <2>2, <3>1, ViewOfTail, Zenon
    <3> QED
      BY <1>1, <1>3, <2>1, <3>2, Zenon DEF Told, ViewOf
  <2> QED
    BY <2>3, <2>4, Zenon
<1> QED
  BY <1>4, <1>5, Zenon

\* holdSlot: an empty backlog on top of a reply is right.
LEMMA ViewHold ==
  ASSUME TypeOK, SlotInv, ViewInv, NEW j \in clients \ held, HoldSlot(j), UNCHANGED <<rx, lossy>>
  PROVE  ViewInv'
<1>1. /\ held' = held \cup {j} /\ out' = [out EXCEPT ![j] = <<>>]
      /\ UNCHANGED <<clients, conn, evict, done>>
  BY Zenon DEF HoldSlot
<1>2. Range(evict') = Range(evict) /\ j \in Ids
  BY <1>1, Zenon DEF TypeOK
<1> SUFFICES ASSUME ~done, NEW i \in clients \ Range(evict) PROVE Told(i)'
  BY <1>1, <1>2, Zenon DEF ViewInv
<1>3. CASE i = j
  <2>1. i \in held' /\ out'[i] = <<>> /\ clients \ {i} \in SUBSET Ids
    BY <1>1, <1>2, <1>3, ChanKinds, Zenon DEF TypeOK, Chans
  <2>2. NoReply(<<>>)
    BY DEF NoReply
  <2>3. ViewAfter(clients \ {i}, <<>>) = clients \ {i}
    BY <2>1, ViewOfNothing, Zenon
  <2> QED
    BY <1>1, <2>1, <2>2, <2>3, Zenon DEF Told
<1>4. CASE i # j
  <2>1. Told(i) /\ i \in Ids /\ conn[i] \in Conns
    BY Zenon DEF ViewInv, TypeOK
  <2>2. Chan(i) # j /\ Chan(i) \in Chans
    BY <1>2, <1>4, <2>1, ChanKinds, Zenon DEF Chan
  <2>3. out'[Chan(i)] = out[Chan(i)]
    BY <1>1, <2>2, Zenon DEF TypeOK
  <2> QED
    BY <1>1, <1>4, <2>1, <2>3, ToldSame, Zenon
<1> QED
  BY <1>3, <1>4, Zenon

\* Every step keeps clients rightly told.
LEMMA ViewStep == TypeOK /\ SlotInv /\ EvictInv /\ ViewInv /\ [Next]_vars => ViewInv'
<1> SUFFICES ASSUME TypeOK, SlotInv, EvictInv, ViewInv, [Next]_vars PROVE ViewInv'
  BY Zenon
<1> USE DEF hubVars, slotVars, connVars, history
<1>1. ASSUME UNCHANGED <<clients, held, conn, evict, done, out, rx, lossy>> PROVE ViewInv'
  <2>1. Range(evict') = Range(evict)
    BY <1>1, Zenon
  <2>2. ASSUME ~done, NEW i \in clients \ Range(evict) PROVE Told(i)'
    BY <1>1, <2>2, ToldSame, Zenon DEF ViewInv
  <2> QED
    BY <1>1, <2>1, <2>2, Zenon DEF ViewInv
<1>2. CASE HandleJoin
  BY <1>2, ViewJoin, Zenon
<1>3. CASE HandleLeave
  <2>1. UNCHANGED <<rx, lossy>>
    BY <1>3, Zenon DEF HandleLeave
  <2> QED
    BY <1>1, <1>3, <2>1, RemovalSteps, ViewHold, ViewRemove, Zenon
<1>4. CASE HandleGraceExpired
  <2>1. UNCHANGED <<rx, lossy>>
    BY <1>4, Zenon DEF HandleGraceExpired
  <2> QED
    BY <1>1, <1>4, <2>1, RemovalSteps, ViewRemove, Zenon
<1>5. CASE DrainEvictions
  <2>1. UNCHANGED <<rx, lossy>>
    BY <1>5, Zenon DEF DrainEvictions
  <2> QED
    BY <1>5, <2>1, RemovalSteps, ViewRemove, Zenon
<1>6. CASE HandleResume
  <2> DEFINE m == Head(inbox)
  <2>1. Receive("resume") /\ UNCHANGED rx /\ m.conn \in Conns
    BY <1>6, HelloWaits, Zenon DEF HandleResume, Hellos
  <2>2. CASE UNCHANGED <<hubVars, out, kicked, lossy>>
    BY <1>1, <2>1, <2>2, Zenon
  <2>3. CASE ~UNCHANGED <<hubVars, out, kicked, lossy>>
    <3> DEFINE c == m.conn  j == m.id
    <3>1. /\ j \in clients
          /\ out' = [out EXCEPT ![c] = ResumeOut(j), ![j] = <<>>]
          /\ lossy' = IF j \in held /\ Full(j) THEN lossy \cup {c} ELSE lossy
          /\ held' = held \ {j} /\ conn' = [conn EXCEPT ![j] = c]
          /\ UNCHANGED <<clients, evict, done>>
      BY Zenon, <1>6, <2>3 DEF HandleResume
    <3>2. c \in Conns /\ c = Head(inbox).conn
      BY <2>1, Zenon
    <3> HIDE DEF c, j
    <3> QED
      BY <2>1, <3>1, <3>2, ViewResume, Zenon
  <2> QED
    BY <2>2, <2>3, Zenon
<1>7. CASE Route
  <2>1. Receive("frame") /\ UNCHANGED <<clients, held, conn, rx, lossy, done>>
    BY <1>7, RouteTells, Zenon
  <2>2. PICK R \in SUBSET clients, f \in Frame :
          f.kind \in {"data", "error"} /\ Broadcast(R, f, evict, {})
    BY <1>7, RouteTells, Zenon
  <2>3. out' = Queued(R, f) /\ Evict(R, evict, {}) /\ evict = <<>> /\ ~done
    BY <2>1, <2>2, Zenon DEF Broadcast, Receive
  <2>4. Range(evict') = Overflow(R) /\ Range(evict) = {}
    BY <2>1, <2>3, BroadcastEvict, EvictNone, Zenon
  <2>5. ~IsReply(f) /\ \A v : View(v, f) = v
    BY <2>2, Zenon DEF IsReply, View
  <2>6. ASSUME NEW i \in clients \ Range(evict') PROVE Told(i)'
    <3>1. i \in clients \ (Range(evict) \cup Overflow(R)) /\ Told(i)
      BY <2>3, <2>4, Zenon DEF ViewInv
    <3> QED
      BY <2>1, <2>2, <2>3, <2>5, <3>1, ToldFanOut, Zenon
  <2> QED
    BY <2>1, <2>6, Zenon DEF ViewInv
<1>8. CASE HandleClose
  BY <1>8, Zenon DEF HandleClose, ViewInv
<1>9. CASE HandleJoinFull \/ HandleClaimHost
  BY <1>1, <1>9, Zenon DEF HandleJoinFull, HandleClaimHost
<1>10. ASSUME NEW c \in Conns, Client(c) \/ Write(c) PROVE ViewInv'
  <2>1. CASE ReadPing(c) \/ Write(c)
    BY <2>1, ViewOwn, Zenon
  <2>2. CASE ~(ReadPing(c) \/ Write(c))
    BY <1>1, <1>10, <2>2, Zenon DEF Client, HelloJoin, HelloResume, ReadToHub, HangUp
  <2> QED
    BY <2>1, <2>2, Zenon
<1>11. CASE Timers \/ Sweep
  BY <1>1, <1>11, Zenon DEF Timers, TimerFires, TimerSends, Sweep
<1>12. CASE UNCHANGED vars
  BY <1>1, <1>12, Zenon DEF vars
<1> QED
  BY <1>2, <1>3, <1>4, <1>5, <1>6, <1>7, <1>8, <1>9, <1>10, <1>11, <1>12 DEF Next, Hub

-----------------------------------------------------------------------------
(* The hub implements Membership.                                          *)

\* In the terms of Membership, the participants present are those with a slot.
LEMMA StatusIs ==
  ASSUME TypeOK, SlotInv
  PROVE  /\ Abstract!Present = clients
         /\ \A i \in clients : Status[i] = IF i \in held THEN "away" ELSE "live"
<1>1. ASSUME NEW i \in clients
      PROVE  i \in Ids /\ Status[i] = IF i \in held THEN "away" ELSE "live"
  <2>1. i \in Ids /\ i < nextID /\ i \in Nat /\ nextID \in Nat
    BY IdRange, HubAssumption DEF SlotInv, SlotConn, TypeOK
  <2>2. ~(i >= nextID)
    BY <2>1
  <2> QED
    BY <2>1, <2>2, Zenon DEF Status
<1>2. ASSUME NEW i \in Ids, i \notin clients PROVE Status[i] \in {"unborn", "gone"}
  BY <1>2, Zenon DEF Status
<1>3. Abstract!Present = {i \in Ids : Status[i] \in {"live", "away"}}
  BY Zenon DEF Abstract!Present, Abstract!Ids, Ids
<1> QED
  BY <1>1, <1>2, <1>3, Zenon

\* A step that moves one participant.
LEMMA StatusMove ==
  ASSUME TypeOK, SlotInv, NEW i \in Ids, NEW x,
         Status'[i] = x,
         \A j \in Ids : j # i => Status'[j] = Status[j]
  PROVE  Status' = [Status EXCEPT ![i] = x]
<1>1. Status' = [j \in Ids |-> Status'[j]] /\ Status = [j \in Ids |-> Status[j]]
  BY Zenon DEF Status
<1> HIDE DEF Status
<1> QED
  BY <1>1, Zenon

\* handleJoin issues the next id to a participant of its own.
LEMMA JoinIsJoin ==
  ASSUME TypeOK, SlotInv, HandleJoin
  PROVE  Abstract!Join(nextID)
<1> DEFINE n == nextID
<1>1. /\ n \in Ids /\ nextID' = n + 1 /\ clients' = clients \cup {n} /\ ~SessionFull /\ ~done
      /\ UNCHANGED <<held, done>>
  BY Zenon DEF HandleJoin, Receive
<1>2. n \in Nat /\ n \notin held /\ held \subseteq clients /\ n \notin clients
  BY <1>1, IdRange DEF SlotInv, SlotConn, TypeOK
<1>3. \A j \in Ids : j \in Nat
  BY IdRange, Zenon
<1>4. Status[n] = "unborn" /\ Status'[n] = "live"
  BY <1>1, <1>2 DEF Status
<1>5. \A j \in Ids : j < n => Status[j] # "unborn"
  BY <1>2, <1>3 DEF Status
<1>6. ASSUME NEW j \in Ids, j # n PROVE Status'[j] = Status[j]
  <2>1. (j >= n <=> j >= n + 1) /\ (j \in clients' <=> j \in clients)
    BY <1>1, <1>2, <1>3, <1>6
  <2> QED
    BY <1>1, <2>1, Zenon DEF Status
<1>7. Abstract!Cardinality(Abstract!Present) < MaxParticipants
  <2>1. IsFiniteSet(Ids) /\ clients \subseteq Ids
    BY FS_Interval, HubAssumption DEF TypeOK, Ids
  <2>2. Cardinality(clients) \in Nat
    BY <2>1, FS_Subset, FS_CardinalityType, Zenon
  <2>3. Abstract!Cardinality(clients) = Cardinality(clients)
    BY Zenon DEF Abstract!Cardinality, Cardinality
  <2> QED
    BY <1>1, <2>2, <2>3, StatusIs, HubAssumption DEF SessionFull
<1>8. Status' = [Status EXCEPT ![n] = "live"]
  BY <1>1, <1>4, <1>6, StatusMove, Zenon
<1>9. ~done /\ UNCHANGED done /\ Abstract!Ids = Ids
  BY <1>1, Zenon DEF Abstract!Ids, Ids
<1> QED
  BY <1>4, <1>5, <1>7, <1>8, <1>9, Zenon DEF Abstract!Join

\* removeParticipant ends one participant, and the session with the last.
LEMMA RemoveIsDepart ==
  ASSUME TypeOK, SlotInv, ~done, NEW i \in clients, Removes(i)
  PROVE  Abstract!Depart(i)
<1>1. /\ clients' = clients \ {i} /\ held' = held \ {i} /\ UNCHANGED nextID
      /\ done' = (clients \ {i} = {})
  BY Zenon DEF Removes, RemoveParticipant
<1>2. i \in Ids /\ i < nextID /\ i \in Nat /\ nextID \in Nat
  BY IdRange, HubAssumption DEF SlotInv, SlotConn, TypeOK
<1>3. ~(i >= nextID)
  BY <1>2
<1>4. Status'[i] = "gone"
  BY <1>1, <1>2, <1>3, Zenon DEF Status
<1>5. \A j \in Ids : j # i => Status'[j] = Status[j]
  BY <1>1, Zenon DEF Status
<1>6. Status' = [Status EXCEPT ![i] = "gone"]
  BY <1>2, <1>4, <1>5, StatusMove, Zenon
<1>7. (clients \ {i} = {}) = (clients = {i})
  BY Zenon
<1> QED
  BY <1>1, <1>6, <1>7, StatusIs, Zenon DEF Abstract!Depart

\* Every step of the hub is a step of Membership or changes nothing there.
LEMMA MembershipStep ==
  TypeOK /\ SlotInv /\ EvictInv /\ [Next]_vars => [Abstract!Next]_(Abstract!vars)
<1> SUFFICES ASSUME TypeOK, SlotInv, EvictInv, [Next]_vars
             PROVE  Abstract!Next \/ UNCHANGED Abstract!vars
  BY Zenon
<1> USE DEF hubVars, slotVars, connVars, history
<1>1. ASSUME UNCHANGED <<clients, held, nextID, done>> PROVE UNCHANGED Abstract!vars
  BY <1>1, Zenon DEF Abstract!vars, Status
<1>2. CASE HandleJoin
  <2>1. nextID \in Abstract!Ids
    BY <1>2, Zenon DEF HandleJoin, Abstract!Ids, Ids
  <2> QED
    BY <1>2, <2>1, JoinIsJoin, Zenon DEF Abstract!Next
<1>3. ASSUME ~done, NEW i \in clients, Removes(i) PROVE Abstract!Next
  <2>1. i \in Abstract!Ids
    BY Zenon DEF TypeOK, Abstract!Ids, Ids
  <2> QED
    BY <1>3, <2>1, RemoveIsDepart, Zenon DEF Abstract!Next
<1>4. ASSUME NEW i \in clients, ~done, NEW x \in {"live", "away"},
             held' = (IF x = "live" THEN held \ {i} ELSE held \cup {i}),
             i \in held <=> x = "live",
             UNCHANGED <<clients, nextID, done>>
      PROVE  Abstract!Next
  <2>1. i \in Ids /\ i \in Abstract!Ids /\ ~(i >= nextID)
    <3>1. i \in Ids /\ i < nextID /\ i \in Nat /\ nextID \in Nat
      BY IdRange, HubAssumption DEF SlotInv, SlotConn, TypeOK
    <3> QED
      BY <3>1 DEF Abstract!Ids, Ids
  <2>2. Status'[i] = x
    BY <1>4, <2>1, Zenon DEF Status
  <2>3. \A j \in Ids : j # i => Status'[j] = Status[j]
    BY <1>4, Zenon DEF Status
  <2>4. Status' = [Status EXCEPT ![i] = x]
    BY <2>1, <2>2, <2>3, StatusMove, Zenon
  <2>5. Status[i] = IF i \in held THEN "away" ELSE "live"
    BY StatusIs, Zenon
  <2>6. CASE x = "live"
    <3>1. Abstract!Resume(i)
      BY <1>4, <2>4, <2>5, <2>6, Zenon DEF Abstract!Resume
    <3> QED
      BY <2>1, <3>1, Zenon DEF Abstract!Next
  <2>7. CASE x = "away"
    <3>1. Abstract!Drop(i)
      BY <1>4, <2>4, <2>5, <2>7, Zenon DEF Abstract!Drop
    <3> QED
      BY <2>1, <3>1, Zenon DEF Abstract!Next
  <2> QED
    BY <2>6, <2>7, Zenon
<1>5. CASE HandleLeave
  <2>1. ~done
    BY <1>5, Zenon DEF HandleLeave, Receive
  <2>2. CASE Head(inbox).id \in clients \ held /\ HoldSlot(Head(inbox).id)
    <3> DEFINE i == Head(inbox).id
    <3>1. /\ i \in clients /\ i \notin held /\ held' = held \cup {i}
          /\ UNCHANGED <<clients, nextID, done>>
      BY <2>2, Zenon DEF HoldSlot
    <3> HIDE DEF i
    <3> QED
      BY <1>4, <2>1, <3>1, Zenon
  <2> QED
    BY <1>1, <1>3, <1>5, <2>2, RemovalSteps, Zenon
<1>6. CASE HandleGraceExpired
  BY <1>1, <1>3, <1>6, RemovalSteps, Zenon
<1>7. CASE DrainEvictions
  BY <1>3, <1>7, RemovalSteps, Zenon
<1>8. CASE HandleResume
  <2> DEFINE i == Head(inbox).id
  <2>1. ~done
    BY <1>8, Zenon DEF HandleResume, Receive
  <2>2. \/ UNCHANGED <<clients, held, nextID, done>>
        \/ i \in clients /\ held' = held \ {i} /\ UNCHANGED <<clients, nextID, done>>
    BY <1>8, Zenon DEF HandleResume
  <2> HIDE DEF i
  <2>3. CASE i \in held
    BY <1>1, <1>4, <2>1, <2>2, <2>3, Zenon
  <2>4. CASE i \notin held
    <3>1. held \ {i} = held
      BY <2>4, Zenon
    <3> QED
      BY <1>1, <2>2, <3>1, Zenon
  <2> QED
    BY <2>3, <2>4, Zenon
<1>9. CASE HandleClose
  <2>1. ~done /\ done' = TRUE /\ UNCHANGED <<clients, held, nextID>>
    BY <1>9, Zenon DEF HandleClose, Receive
  <2>2. UNCHANGED Status
    BY <2>1, Zenon DEF Status
  <2> QED
    BY <2>1, <2>2, Zenon DEF Abstract!Next, Abstract!Close
<1>10. CASE HandleJoinFull \/ HandleClaimHost \/ Route
  BY <1>1, <1>10, Zenon DEF HandleJoinFull, HandleClaimHost, Route
<1>11. ASSUME NEW c \in Conns, Client(c) \/ Write(c) PROVE UNCHANGED Abstract!vars
  BY <1>1, <1>11, Zenon DEF Client, HelloJoin, HelloResume, ReadToHub, ReadPing, HangUp, Write
<1>12. CASE Timers \/ Sweep
  BY <1>1, <1>12, Zenon DEF Timers, TimerFires, TimerSends, Sweep
<1>13. CASE UNCHANGED vars
  BY <1>1, <1>13, Zenon DEF vars
<1> QED
  BY <1>2, <1>5, <1>6, <1>7, <1>8, <1>9, <1>10, <1>11, <1>12, <1>13, Zenon DEF Next, Hub

-----------------------------------------------------------------------------
(* Theorems.                                                               *)

\* The first frame on every connection is the reply to its hello, however
\* joins, resumes, broadcasts and the writer interleave (handleJoin,
\* handleResume).
THEOREM RepliesLead == Spec => []HelloLeads
<1>1. Init => ReplyInv
  <2> SUFFICES ASSUME Init PROVE ReplyInv
    BY Zenon
  <2>1. DOMAIN inbox = {} /\ \A c \in Conns : pc[c] = "idle" /\ rx[c].first = "none"
    BY DEF Init
  <2> QED
    BY <2>1, Zenon DEF ReplyInv, ResumesAreGuests, ReplyFirst, HelloLeads
<1>2. HubInv /\ ReplyInv /\ [Next]_vars => ReplyInv'
  BY ReplyStep, Zenon DEF HubInv
<1>3. ReplyInv => HelloLeads
  BY Zenon DEF ReplyInv
<1> QED
  BY Invariance, <1>1, <1>2, <1>3, PTL DEF Spec

\* Clients are rightly told throughout.
LEMMA ViewInvariance == Spec => []ViewInv
<1>1. Init => ViewInv
  BY Zenon DEF Init, ViewInv
<1>2. HubInv /\ ViewInv /\ [Next]_vars => ViewInv'
  BY ViewStep, Zenon DEF HubInv
<1> QED
  BY Invariance, <1>1, <1>2, PTL DEF Spec

\* What the hub has told a connected client and queued for it adds up to
\* exactly the membership (handleJoin, removeParticipant, drainEvictions,
\* holdSlot, handleResume).
THEOREM ClientsAreToldRight == Spec => []MembershipViewExact
<1>1. ViewInv => MembershipViewExact
  BY Zenon DEF ViewInv, MembershipViewExact, Told
<1> QED
  BY ViewInvariance, <1>1, PTL

\* The hub implements the membership service of module Membership: ids in
\* order and never again, at most MaxParticipants slots, departures final.
THEOREM HubImplementsMembership == Spec => ImplementsMembership
<1>1. Init => Abstract!Init
  <2> SUFFICES ASSUME Init PROVE Abstract!Init
    BY Zenon
  <2>1. \A i \in Ids : i >= nextID
    BY IdRange DEF Init
  <2>2. Status = [i \in Ids |-> "unborn"] /\ done = FALSE
    BY <2>1, Zenon DEF Init, Status
  <2> QED
    BY <2>2, Zenon DEF Abstract!Init, Abstract!Ids, Ids
<1>2. HubInv /\ [Next]_vars => [Abstract!Next]_(Abstract!vars)
  BY MembershipStep, Zenon DEF HubInv
<1> QED
  BY Invariance, <1>1, <1>2, PTL DEF Spec, ImplementsMembership, Abstract!Spec

=============================================================================
