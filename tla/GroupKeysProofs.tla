--------------------------- MODULE GroupKeysProofs ---------------------------
(***************************************************************************)
(* The group key, for any number of members, sends and outages and any     *)
(* size of the ring of superseded keys: what is where.                     *)
(*                                                                         *)
(* Whoever has left gets no later key.  That a departed member is sent     *)
(* nothing more rests on the relay having taken the slot before it         *)
(* announces the departure, and on nobody coming back under the same id    *)
(* (Gone); that all it has is old when the host handles the departure      *)
(* rests on no key being anywhere before it is made (Minted).              *)
(*                                                                         *)
(* The types need to know what kinds of frames are on which link (Links),  *)
(* how the host's own key runs behind the one it hands out (HostKeys), and *)
(* that the host hears of every departure once (Counted).                  *)
(***************************************************************************)
EXTENDS GroupKeys, FiniteSetTheorems, TLAPS

-----------------------------------------------------------------------------
(* Types, and that a departure the host hears of is that of a member which *)
(* has lost its slot for good.                                             *)

Kinds  == {"result", "left", "pake1", "pake2", "groupkey", "rekey", "sealed"}
Phases == {"out", "joining", "paired", "keyed", "over"}

AnyFrame == [kind : Kinds, from : P, to : SUBSET P, key : Nat]

\* Types, with any number of keys.
Types ==
  /\ session \subseteq P /\ linked \subseteq P
  /\ up \in [P -> Seq(AnyFrame)] /\ down \in [P -> Seq(AnyFrame)]
  /\ phase \in [P -> Phases]
  /\ key \in [P -> Nat] /\ prev \in [P -> Seq(Nat)]
  /\ pairwise \subseteq P /\ todo \subseteq P
  /\ minted \in Nat /\ fresh \in Nat /\ leftAt \in [Members -> Nat]
  /\ sealed \in [P -> Nat]

\* The host is a participant and not a member (CreateWithConn).
LEMMA HostInP == Host \in P /\ Members \subseteq P /\ Host \notin Members
BY GroupAssumption, Zenon DEF P

\* What Client.sendDirect and the relay address to one participant.
LEMMA DirectType ==
  ASSUME NEW k \in Kinds, NEW p \in P, NEW q \in P, NEW n \in Nat
  PROVE  Direct(k, p, q, n) \in AnyFrame /\ Direct(k, p, q, n).key = n
         /\ Direct(k, p, q, n).kind = k /\ Direct(k, p, q, n).from = p
BY Zenon DEF Direct, AnyFrame

\* What Client.Broadcast sends.
LEMMA ToAllType ==
  ASSUME NEW k \in Kinds, NEW p \in P, NEW n \in Nat
  PROVE  ToAll(k, p, n) \in AnyFrame /\ ToAll(k, p, n).key = n
         /\ ToAll(k, p, n).kind = k
BY Zenon DEF ToAll, AnyFrame

\* pushPrevKeyLocked puts nothing into the ring but the key it is given.
LEMMA PushedType ==
  ASSUME NEW S, NEW ring \in Seq(S), NEW k \in S
  PROVE  Pushed(ring, k) \in Seq(S)
<1> DEFINE all == <<k>> \o ring
           len == IF Len(ring) < PrevKeyRing THEN Len(ring) + 1 ELSE PrevKeyRing
<1>1. all \in Seq(S) /\ Len(all) = Len(ring) + 1
  OBVIOUS
<1>2. len \in Nat /\ len <= Len(all)
  BY <1>1, GroupAssumption
<1>3. Pushed(ring, k) = SubSeq(all, 1, len)
  BY Zenon DEF Pushed
<1> HIDE DEF all, len
<1> QED
  BY <1>1, <1>2, <1>3

\* A client writes frames behind those it has written.
LEMMA WritesType ==
  ASSUME Types, NEW p \in P, NEW fs \in Seq(AnyFrame), Writes(p, fs)
  PROVE  up' \in [P -> Seq(AnyFrame)]
BY DEF Types, Writes

\* A read loop takes the first frame.
LEMMA ReceiveType ==
  ASSUME Types, NEW p \in P, Receive(p)
  PROVE  down' \in [P -> Seq(AnyFrame)] /\ Head(down[p]) \in AnyFrame
BY DEF Types, Receive

\* Replacing the group key (handleRekey, rekeyAfterLeave) keeps the types.
LEMMA InstallType ==
  ASSUME Types, NEW p \in P, NEW k \in Nat, Install(p, k)
  PROVE  key' \in [P -> Nat] /\ prev' \in [P -> Seq(Nat)]
BY PushedType, Zenon DEF Types, Install

\* ParticipantLeft is a frame like others (removeParticipant).
LEMMA AnnounceType ==
  ASSUME Types, NEW p \in P
  PROVE  /\ Announce(p) \in [P -> Seq(AnyFrame)]
         /\ [Announce(p) EXCEPT ![p] = <<>>] \in [P -> Seq(AnyFrame)]
<1>1. Direct("left", p, Host, 0) \in AnyFrame
  BY DirectType, HostInP, Zenon DEF Kinds
<1>2. Announce(p) \in [P -> Seq(AnyFrame)]
  <2>1. Append(down[Host], Direct("left", p, Host, 0)) \in Seq(AnyFrame)
    BY <1>1, HostInP DEF Types
  <2> QED
    BY <2>1, HostInP, Zenon DEF Types, Announce
<1>3. <<>> \in Seq(AnyFrame)
  OBVIOUS
<1> HIDE DEF Announce
<1> QED
  BY <1>2, <1>3, Zenon

\* The host after hostHello is well typed.
LEMMA TypesInit == Init => Types
BY HostInP DEF Init, Types, Phases

\* Every step of clients and relay keeps the types.
LEMMA TypesStep ==
  ASSUME Types, [Next]_vars
  PROVE  Types'
<1> USE HostInP
<1>1. ASSUME NEW p \in P, Route(p) PROVE Types'
  BY <1>1, SMTT(30) DEF Types, Route, keyVars, hostVars, sendVars
<1>2. ASSUME NEW p \in Members, Join(p) PROVE Types'
  <2>1. Direct("result", Host, p, 0) \in AnyFrame
    BY DirectType, Zenon DEF Kinds
  <2>2. down' \in [P -> Seq(AnyFrame)]
    BY <1>2, <2>1 DEF Types, Join
  <2>3. phase' \in [P -> Phases]
    BY <1>2, Zenon DEF Types, Join, Phases
  <2>4. session' \subseteq P /\ linked' \subseteq P
    BY <1>2, Zenon DEF Types, Join
  <2> QED
    BY <1>2, <2>2, <2>3, <2>4, Zenon DEF Types, Join, hostVars, sendVars
<1>3. ASSUME NEW p \in Members, Leave(p) PROVE Types'
  BY <1>3, AnnounceType, Zenon DEF Types, Leave, Phases, hostVars
<1>4. ASSUME NEW p \in Members, Evict(p) PROVE Types'
  BY <1>4, AnnounceType, Zenon DEF Types, Evict, keyVars, hostVars, sendVars
<1>5. ASSUME NEW p \in Members, Disconnect(p) PROVE Types'
  BY <1>5, SMTT(30) DEF Types, Disconnect, Phases, hostVars
<1>6. ASSUME NEW p \in P, Drop(p) PROVE Types'
  <2>1. PICK n \in 0..Len(down[p]) : down' = [down EXCEPT ![p] = SubSeq(@, n + 1, Len(@))]
    BY <1>6, Zenon DEF Drop
  <2>2. SubSeq(down[p], n + 1, Len(down[p])) \in Seq(AnyFrame)
    BY DEF Types
  <2>3. up' \in [P -> Seq(AnyFrame)]
    BY <1>6 DEF Types, Drop
  <2>4. down' \in [P -> Seq(AnyFrame)] /\ linked' \subseteq P
    BY <1>6, <2>1, <2>2, Zenon DEF Types, Drop
  <2> QED
    BY <1>6, <2>3, <2>4, Zenon DEF Types, Drop, keyVars, hostVars, sendVars
<1>7. ASSUME NEW p \in Members, GiveUp(p) PROVE Types'
  BY <1>7, SMTT(30) DEF Types, GiveUp, Phases, hostVars, sendVars
<1>8. ASSUME NEW p \in P, Resume(p) PROVE Types'
  BY <1>8, Zenon DEF Types, Resume, keyVars, hostVars, sendVars
<1>9. ASSUME NEW p \in Members, GraceExpires(p) PROVE Types'
  BY <1>9, AnnounceType, Zenon DEF Types, GraceExpires, Phases, hostVars
<1>10. ASSUME NEW p \in Members, SendPake1(p) PROVE Types'
  <2>1. <<Direct("pake1", p, Host, 0)>> \in Seq(AnyFrame)
    BY DirectType DEF Kinds
  <2> QED
    BY <1>10, <2>1, WritesType, ReceiveType, Zenon DEF Types, SendPake1, keyVars, hostVars, sendVars
<1>11. ASSUME NEW p \in Members, DriveHandshake(p) PROVE Types'
  <2>1. Head(down[p]).key \in Nat /\ down' \in [P -> Seq(AnyFrame)]
    BY <1>11, ReceiveType, Zenon DEF DriveHandshake, AnyFrame
  <2> QED
    BY <1>11, <2>1, Zenon DEF Types, DriveHandshake, Phases, keyVars, hostVars, sendVars
<1>12. ASSUME NEW p \in Members, MemberReads(p) PROVE Types'
  <2>1. Head(down[p]).key \in Nat /\ down' \in [P -> Seq(AnyFrame)]
    BY <1>12, ReceiveType, Zenon DEF MemberReads, AnyFrame
  <2>2. key' \in [P -> Nat] /\ prev' \in [P -> Seq(Nat)]
    BY <1>12, <2>1, InstallType, Zenon DEF MemberReads, Types
  <2> QED
    BY <1>12, <2>1, <2>2, Zenon DEF Types, MemberReads, hostVars, sendVars
<1>13. ASSUME HandlePake1 PROVE Types'
  <2>1. Head(down[Host]).from \in P /\ down' \in [P -> Seq(AnyFrame)]
    BY <1>13, ReceiveType, Zenon DEF HandlePake1, HostReceives, AnyFrame
  <2>2. Reply(Head(down[Host]).from) \in Seq(AnyFrame)
    <3> DEFINE p == Head(down[Host]).from
    <3>1. key[Host] \in Nat /\ 0 \in Nat /\ "pake2" \in Kinds /\ "groupkey" \in Kinds
      BY Zenon DEF Types, Kinds
    <3> HIDE DEF p
    <3>2. Direct("pake2", Host, p, 0) \in AnyFrame /\ Direct("groupkey", Host, p, key[Host]) \in AnyFrame
      BY <2>1, <3>1, DirectType, Zenon DEF p
    <3>3. Reply(p) \in Seq(AnyFrame)
      BY <3>2 DEF Reply
    <3> QED
      BY <3>3, Zenon DEF p
  <2> QED
    BY <1>13, <2>1, <2>2, WritesType, Zenon DEF Types, HandlePake1, keyVars, sendVars
<1>14. ASSUME HandleLeft PROVE Types'
  <2>1. Head(down[Host]).from \in P /\ down' \in [P -> Seq(AnyFrame)]
    BY <1>14, ReceiveType, Zenon DEF HandleLeft, HostReceives, AnyFrame
  <2> QED
    <3>1. leftAt' \in [Members -> Nat]
      BY <1>14, Zenon DEF Types, HandleLeft
    <3>2. pairwise' \subseteq P
      BY <1>14, Zenon DEF Types, HandleLeft
    <3>3. minted' \in Nat /\ fresh' \in Nat /\ todo' \subseteq P
      BY <1>14, SMTT(30) DEF Types, HandleLeft
    <3> QED
      BY <1>14, <2>1, <3>1, <3>2, <3>3, Zenon DEF Types, HandleLeft, keyVars, sendVars
<1>15. ASSUME HostIgnores PROVE Types'
  BY <1>15, ReceiveType, Zenon DEF Types, HostIgnores, HostReceives, keyVars, hostVars, sendVars
<1>16. ASSUME NEW p \in todo, SendRekey(p) PROVE Types'
  <2>1. <<Direct("rekey", Host, p, fresh)>> \in Seq(AnyFrame)
    BY DirectType DEF Types, Kinds
  <2> QED
    BY <1>16, <2>1, WritesType, Zenon DEF Types, SendRekey, keyVars, sendVars
<1>17. ASSUME SwapKey PROVE Types'
  BY <1>17, InstallType, Zenon DEF Types, SwapKey, netVars, sendVars
<1>18. ASSUME NEW p \in P, Seal(p) PROVE Types'
  BY <1>18, Zenon DEF Types, Seal, netVars, keyVars, hostVars
<1>19. ASSUME NEW p \in P, WriteSealed(p) PROVE Types'
  <2>1. <<ToAll("sealed", p, sealed[p])>> \in Seq(AnyFrame)
    BY ToAllType DEF Types, Kinds
  <2> QED
    BY <1>19, <2>1, WritesType, Zenon DEF Types, WriteSealed, keyVars, hostVars
<1>20. ASSUME UNCHANGED vars PROVE Types'
  BY <1>20, Zenon DEF Types, vars, netVars, keyVars, hostVars, sendVars
<1> QED
  BY <1>1, <1>2, <1>3, <1>4, <1>5, <1>6, <1>7, <1>8, <1>9, <1>10, <1>11, <1>12, <1>13,
     <1>14, <1>15, <1>16, <1>17, <1>18, <1>19, <1>20, Zenon DEF Next, HostRuns, Reads

-------------------------------------------------------------------------------
\* What clients send; and the host's queue, in which a departure names somebody
\* who has lost the slot for good.
FromClients == {f \in AnyFrame : f.kind # "left"}
Departures  == {f \in AnyFrame : f.kind = "left" =>
                 f.from \in Members \ session /\ phase[f.from] # "out"}

\* Only the relay announces departures, and of those it has removed.
Gone ==
  /\ \A p \in P : up[p] \in Seq(FromClients)
  /\ down[Host] \in Seq(Departures)
  /\ \A p \in Members :
       /\ p \in session => phase[p] # "out"
       /\ leftAt[p] # 0 => p \notin session /\ phase[p] # "out"

\* A queue of frames of one sort is one of any wider sort.
LEMMA SeqGrows ==
  ASSUME NEW S, NEW T, \A x \in S : x \in T
  PROVE  Seq(S) \subseteq Seq(T)
OBVIOUS

\* handleHandshakeDirect: both frames of the host's answer, the one with its current key included.
LEMMA ReplyType ==
  ASSUME NEW p \in P, key[Host] \in Nat, NEW S \in SUBSET AnyFrame,
         \A f \in AnyFrame : f.kind \in {"pake2", "groupkey"} /\ f.key \in {0, key[Host]} => f \in S
  PROVE  Reply(p) \in Seq(S)
<1>1. Direct("pake2", Host, p, 0) \in S
  BY HostInP, DirectType DEF Kinds
<1>2. Direct("groupkey", Host, p, key[Host]) \in S
  BY HostInP, DirectType DEF Kinds
<1> QED
  BY <1>1, <1>2 DEF Reply

\* At first nobody has left.
LEMMA GoneInit == Init => Gone
BY HostInP DEF Init, Gone

\* removeParticipant takes the slot before the departure is announced, and no
\* client comes back to it.
LEMMA GoneStep ==
  ASSUME Types, Gone, [Next]_vars
  PROVE  Gone'
<1> USE HostInP
<1>1. ASSUME NEW p \in P, Route(p) PROVE Gone'
  <2>1. Head(up[p]) \in FromClients /\ Head(up[p]) \in AnyFrame /\ Tail(up[p]) \in Seq(FromClients)
    BY <1>1 DEF Gone, Types, Route
  <2>2. Head(up[p]) \in Departures
    BY <2>1, Zenon DEF FromClients, Departures
  <2>3. Departures' = Departures
    BY <1>1, Zenon DEF Route, Departures, keyVars
  <2>4. \A q \in P : up'[q] \in Seq(FromClients)
    BY <1>1, <2>1, Zenon DEF Gone, Types, Route
  <2>5. down'[Host] \in Seq(Departures)
    BY <1>1, <2>2 DEF Gone, Types, Route
  <2> QED
    BY <1>1, <2>3, <2>4, <2>5, Zenon DEF Gone, Route, keyVars, hostVars
<1>2. ASSUME NEW p \in Members, Join(p) PROVE Gone'
  <2>1. ASSUME NEW f \in Departures PROVE f \in Departures'
    BY <1>2, <2>1, Zenon DEF Departures, Types, Join
  <2>2. down'[Host] = down[Host]
    BY <1>2, Zenon DEF Types, Join
  <2>3. down'[Host] \in Seq(Departures')
    BY <2>1, <2>2, SeqGrows, Zenon DEF Gone
  <2> QED
    BY <1>2, <2>3, Zenon DEF Gone, Types, Join, hostVars
<1>3. ASSUME NEW p \in Members, Leave(p) PROVE Gone'
  <2>1. ASSUME NEW f \in Departures PROVE f \in Departures'
    BY <1>3, <2>1, Zenon DEF Departures, Types, Leave, keyVars
  <2>2. p \in session /\ p \notin session' /\ phase'[p] # "out"
    BY <1>3, Zenon DEF Gone, Types, Leave, keyVars
  <2>3. down'[Host] = Append(down[Host], Direct("left", p, Host, 0))
    BY <1>3, Zenon DEF Types, Leave, Announce
  <2>4. Direct("left", p, Host, 0) \in Departures'
    BY <2>2, DirectType DEF Departures, Kinds
  <2>5. down'[Host] \in Seq(Departures')
    BY <2>1, <2>3, <2>4, SeqGrows DEF Gone
  <2> QED
    BY <1>3, <2>2, <2>5, Zenon DEF Gone, Types, Leave, keyVars, hostVars
<1>4. ASSUME NEW p \in Members, Evict(p) PROVE Gone'
  <2>1. ASSUME NEW f \in Departures PROVE f \in Departures'
    BY <1>4, <2>1, Zenon DEF Departures, Types, Evict, keyVars
  <2>2. p \in session /\ p \notin session' /\ phase'[p] # "out"
    BY <1>4, Zenon DEF Gone, Types, Evict, keyVars
  <2>3. down'[Host] = Append(down[Host], Direct("left", p, Host, 0))
    BY <1>4, Zenon DEF Types, Evict, Announce
  <2>4. Direct("left", p, Host, 0) \in Departures'
    BY <2>2, DirectType DEF Departures, Kinds
  <2>5. down'[Host] \in Seq(Departures')
    BY <2>1, <2>3, <2>4, SeqGrows DEF Gone
  <2> QED
    BY <1>4, <2>2, <2>5, Zenon DEF Gone, Types, Evict, keyVars, hostVars
<1>5. ASSUME NEW p \in Members, Disconnect(p) PROVE Gone'
  <2>1. ASSUME NEW f \in Departures PROVE f \in Departures'
    BY <1>5, <2>1, Zenon DEF Departures, Types, Disconnect
  <2>2. down'[Host] = down[Host] /\ \A q \in P : up'[q] \in Seq(FromClients)
    BY <1>5 DEF Gone, Types, Disconnect
  <2>3. down'[Host] \in Seq(Departures')
    BY <2>1, <2>2, SeqGrows, Zenon DEF Gone
  <2> QED
    BY <1>5, <2>2, <2>3, Zenon DEF Gone, Types, Disconnect, hostVars
<1>6. ASSUME NEW p \in P, Drop(p) PROVE Gone'
  <2>1. PICK n \in 0..Len(down[p]) : down' = [down EXCEPT ![p] = SubSeq(@, n + 1, Len(@))]
    BY <1>6, Zenon DEF Drop
  <2>2. Departures' = Departures
    BY <1>6, Zenon DEF Departures, Drop, keyVars
  <2>3. down'[Host] \in Seq(Departures)
    BY <2>1 DEF Gone, Types
  <2>4. \A q \in P : up'[q] \in Seq(FromClients)
    BY <1>6 DEF Gone, Types, Drop
  <2> QED
    BY <1>6, <2>2, <2>3, <2>4, Zenon DEF Gone, Drop, keyVars, hostVars
<1>7. ASSUME NEW p \in Members, GiveUp(p) PROVE Gone'
  <2>1. ASSUME NEW f \in Departures PROVE f \in Departures'
    BY <1>7, <2>1, Zenon DEF Departures, Types, GiveUp
  <2>2. down'[Host] = down[Host] /\ \A q \in P : up'[q] \in Seq(FromClients)
    BY <1>7 DEF Gone, Types, GiveUp
  <2>3. down'[Host] \in Seq(Departures')
    BY <2>1, <2>2, SeqGrows, Zenon DEF Gone
  <2> QED
    BY <1>7, <2>2, <2>3, Zenon DEF Gone, Types, GiveUp, hostVars
<1>8. ASSUME NEW p \in P, Resume(p) PROVE Gone'
  BY <1>8, Zenon DEF Gone, Departures, Resume, netVars, keyVars, hostVars
<1>9. ASSUME NEW p \in Members, GraceExpires(p) PROVE Gone'
  <2>1. ASSUME NEW f \in Departures PROVE f \in Departures'
    BY <1>9, <2>1, Zenon DEF Departures, Types, GraceExpires, keyVars
  <2>2. p \in session /\ p \notin session' /\ phase'[p] # "out"
    BY <1>9, Zenon DEF Gone, Types, GraceExpires, keyVars
  <2>3. down'[Host] = Append(down[Host], Direct("left", p, Host, 0))
    BY <1>9, Zenon DEF Types, GraceExpires, Announce
  <2>4. Direct("left", p, Host, 0) \in Departures'
    BY <2>2, DirectType DEF Departures, Kinds
  <2>5. down'[Host] \in Seq(Departures')
    BY <2>1, <2>3, <2>4, SeqGrows DEF Gone
  <2> QED
    BY <1>9, <2>2, <2>5, Zenon DEF Gone, Types, GraceExpires, keyVars, hostVars
<1>10. ASSUME NEW p \in Members, SendPake1(p) PROVE Gone'
  <2>1. Direct("pake1", p, Host, 0) \in FromClients
    BY DirectType, Zenon DEF FromClients, Kinds
  <2>2. Departures' = Departures /\ down'[Host] = down[Host]
    BY <1>10, Zenon DEF Departures, Types, SendPake1, Receive, keyVars
  <2>3. \A q \in P : up'[q] \in Seq(FromClients)
    BY <1>10, <2>1 DEF Gone, Types, SendPake1, Writes
  <2> QED
    BY <1>10, <2>2, <2>3, Zenon DEF Gone, SendPake1, keyVars, hostVars
<1>11. ASSUME NEW p \in Members, DriveHandshake(p) PROVE Gone'
  <2>1. ASSUME NEW f \in Departures PROVE f \in Departures'
    BY <1>11, <2>1, Zenon DEF Departures, Types, DriveHandshake, keyVars
  <2>2. down'[Host] = down[Host]
    BY <1>11, Zenon DEF Types, DriveHandshake, Receive
  <2>3. down'[Host] \in Seq(Departures')
    BY <2>1, <2>2, SeqGrows, Zenon DEF Gone
  <2>4. \A q \in Members : phase[q] # "out" => phase'[q] # "out"
    BY <1>11, Zenon DEF Types, DriveHandshake, keyVars
  <2> QED
    BY <1>11, <2>3, <2>4, Zenon DEF Gone, DriveHandshake, hostVars
<1>12. ASSUME NEW p \in Members, MemberReads(p) PROVE Gone'
  <2>1. Departures' = Departures /\ down'[Host] = down[Host]
    BY <1>12, Zenon DEF Departures, Types, MemberReads, Receive
  <2> QED
    BY <1>12, <2>1, Zenon DEF Gone, MemberReads, hostVars
<1>13. ASSUME HandlePake1 PROVE Gone'
  <2>1. Departures' = Departures /\ down'[Host] \in Seq(Departures)
    BY <1>13 DEF Departures, Gone, Types, HandlePake1, HostReceives, Receive, keyVars
  <2>2. Head(down[Host]).from \in P /\ key[Host] \in Nat
    BY <1>13, ReceiveType, Zenon DEF Types, HandlePake1, HostReceives, AnyFrame
  <2>3. Reply(Head(down[Host]).from) \in Seq(FromClients)
    BY <2>2, ReplyType, Zenon DEF FromClients
  <2>4. \A q \in P : up'[q] \in Seq(FromClients)
    BY <1>13, <2>3 DEF Gone, Types, HandlePake1, Writes
  <2> QED
    BY <1>13, <2>1, <2>4, Zenon DEF Gone, HandlePake1, keyVars
<1>14. ASSUME HandleLeft PROVE Gone'
  <2>1. Departures' = Departures /\ down'[Host] \in Seq(Departures)
    BY <1>14 DEF Departures, Gone, Types, HandleLeft, HostReceives, Receive, keyVars
  <2>2. Head(down[Host]) \in Departures /\ Head(down[Host]).kind = "left"
    BY <1>14 DEF Gone, HandleLeft, HostReceives, Receive
  <2>3. Head(down[Host]).from \in Members \ session /\ phase[Head(down[Host]).from] # "out"
    BY <2>2, Zenon DEF Departures
  <2> QED
    BY <1>14, <2>1, <2>3, Zenon DEF Gone, Types, HandleLeft, keyVars
<1>15. ASSUME HostIgnores PROVE Gone'
  BY <1>15 DEF Departures, Gone, Types, HostIgnores, HostReceives, Receive, keyVars, hostVars
<1>16. ASSUME NEW p \in todo, SendRekey(p) PROVE Gone'
  <2>1. Direct("rekey", Host, p, fresh) \in FromClients
    <3>1. fresh \in Nat /\ p \in P /\ "rekey" \in Kinds
      BY Zenon DEF Types, Kinds
    <3> QED
      BY <3>1, DirectType, Zenon DEF FromClients
  <2>2. \A q \in P : up'[q] \in Seq(FromClients)
    BY <1>16, <2>1 DEF Gone, Types, SendRekey, Writes
  <2> QED
    BY <1>16, <2>2, Zenon DEF Gone, Departures, SendRekey, keyVars
<1>17. ASSUME SwapKey PROVE Gone'
  BY <1>17, Zenon DEF Gone, Departures, SwapKey, netVars, keyVars, hostVars
<1>18. ASSUME NEW p \in P, Seal(p) PROVE Gone'
  BY <1>18, Zenon DEF Gone, Departures, Seal, netVars, keyVars, hostVars
<1>19. ASSUME NEW p \in P, WriteSealed(p) PROVE Gone'
  <2>1. ToAll("sealed", p, sealed[p]) \in FromClients
    BY ToAllType, SMTT(30) DEF FromClients, Types, Kinds
  <2>2. \A q \in P : up'[q] \in Seq(FromClients)
    BY <1>19, <2>1 DEF Gone, Types, WriteSealed, Writes
  <2> QED
    BY <1>19, <2>2, Zenon DEF Gone, Departures, WriteSealed, keyVars, hostVars
<1>20. ASSUME UNCHANGED vars PROVE Gone'
  BY <1>20, Zenon DEF Gone, Departures, vars, netVars, keyVars, hostVars
<1> QED
  BY <1>1, <1>2, <1>3, <1>4, <1>5, <1>6, <1>7, <1>8, <1>9, <1>10, <1>11, <1>12, <1>13,
     <1>14, <1>15, <1>16, <1>17, <1>18, <1>19, <1>20, Zenon DEF Next, HostRuns, Reads

-----------------------------------------------------------------------------
(* Keys.                                                                   *)

\* Frames with keys up to n.
Upto(n) == {f \in AnyFrame : f.key <= n}

\* No key is anywhere before the host has made it.
Minted ==
  /\ fresh <= minted
  /\ \A p \in P : /\ key[p] <= minted /\ prev[p] \in Seq(0..minted)
                  /\ sealed[p] <= minted
                  /\ up[p] \in Seq(Upto(minted)) /\ down[p] \in Seq(Upto(minted))

\* LeaverGetsNoNewKey, with sequences over bounded sets.
Sheltered ==
  \A p \in Members :
    leftAt[p] # 0 =>
      key[p] <= leftAt[p] /\ prev[p] \in Seq(0..leftAt[p]) /\ down[p] \in Seq(Upto(leftAt[p]))

\* The inductive invariant.
IInv == Types /\ Minted /\ Gone /\ Sheltered

\* A frame without a key.
LEMMA NoKey ==
  ASSUME minted \in Nat, NEW p \in P, NEW q \in P
  PROVE  /\ Direct("result", p, q, 0) \in Upto(minted)
         /\ Direct("left", p, q, 0) \in Upto(minted)
         /\ Direct("pake1", p, q, 0) \in Upto(minted)
<1>1. {"result", "left", "pake1"} \subseteq Kinds
  BY Zenon DEF Kinds
<1>2. ASSUME NEW k \in Kinds PROVE Direct(k, p, q, 0) \in Upto(minted)
  BY DirectType DEF Upto
<1> QED
  BY <1>1, <1>2, Zenon

\* The key of a frame among those up to n.
LEMMA UptoKey ==
  ASSUME NEW n \in Nat, NEW f \in Upto(n)
  PROVE  f.key \in 0..n
BY DEF Upto, AnyFrame

\* The host's first key is the only one.
LEMMA MintedInit == Init => Minted
BY HostInP DEF Init, Minted

\* Clients hold and send keys the host has made (rekeyAfterLeave makes them).
LEMMA MintedStep ==
  ASSUME Types, Minted, [Next]_vars
  PROVE  Minted'
<1> USE HostInP
<1>1. ASSUME NEW p \in P, Route(p) PROVE Minted'
  <2>1. Head(up[p]) \in Upto(minted) /\ Tail(up[p]) \in Seq(Upto(minted))
    BY <1>1 DEF Minted, Types, Route
  <2>2. \A q \in P : up'[q] \in Seq(Upto(minted)) /\ down'[q] \in Seq(Upto(minted))
    BY <1>1, <2>1 DEF Minted, Types, Route
  <2> QED
    BY <1>1, <2>2, Zenon DEF Minted, Route, keyVars, hostVars, sendVars
<1>2. ASSUME NEW p \in Members, Join(p) PROVE Minted'
  <2>1. Direct("result", Host, p, 0) \in Upto(minted)
    BY NoKey, Zenon DEF Types
  <2>2. \A q \in P : down'[q] \in Seq(Upto(minted))
    BY <1>2, <2>1 DEF Minted, Types, Join
  <2> QED
    BY <1>2, <2>2, Zenon DEF Minted, Join, hostVars, sendVars
<1>3. ASSUME NEW p \in Members, Leave(p) PROVE Minted'
  <2>1. Direct("left", p, Host, 0) \in Upto(minted)
    BY NoKey, Zenon DEF Types
  <2>2. \A q \in P : down'[q] \in Seq(Upto(minted))
    <3>1. down'[Host] = Append(down[Host], Direct("left", p, Host, 0)) /\ down'[p] = <<>>
      BY <1>3, Zenon DEF Types, Leave, Announce
    <3>2. \A q \in P \ {p, Host} : down'[q] = down[q]
      BY <1>3, Zenon DEF Types, Leave, Announce
    <3>3. down'[Host] \in Seq(Upto(minted)) /\ down'[p] \in Seq(Upto(minted))
      BY <2>1, <3>1 DEF Minted
    <3> QED
      BY <3>2, <3>3, Zenon DEF Minted
  <2> QED
    BY <1>3, <2>2 DEF Minted, Types, Leave, keyVars, hostVars, sendVars
<1>4. ASSUME NEW p \in Members, Evict(p) PROVE Minted'
  <2>1. Direct("left", p, Host, 0) \in Upto(minted)
    BY NoKey, Zenon DEF Types
  <2>2. \A q \in P : down'[q] \in Seq(Upto(minted))
    BY <1>4, <2>1 DEF Minted, Types, Evict, Announce
  <2> QED
    BY <1>4, <2>2, Zenon DEF Minted, Types, Evict, keyVars, hostVars, sendVars
<1>5. ASSUME NEW p \in Members, Disconnect(p) PROVE Minted'
  <2>1. \A q \in P : up'[q] \in Seq(Upto(minted)) /\ down'[q] \in Seq(Upto(minted))
    BY <1>5 DEF Minted, Types, Disconnect
  <2> QED
    BY <1>5, <2>1 DEF Minted, Types, Disconnect, keyVars, hostVars, sendVars
<1>6. ASSUME NEW p \in P, Drop(p) PROVE Minted'
  <2>1. PICK n \in 0..Len(down[p]) : down' = [down EXCEPT ![p] = SubSeq(@, n + 1, Len(@))]
    BY <1>6, Zenon DEF Drop
  <2>2. \A q \in P : down'[q] \in Seq(Upto(minted))
    BY <2>1, SMTT(30) DEF Minted, Types
  <2>3. \A q \in P : up'[q] \in Seq(Upto(minted))
    BY <1>6 DEF Drop, Minted, Types
  <2> QED
    BY <1>6, <2>2, <2>3, Zenon DEF Minted, Drop, keyVars, hostVars, sendVars
<1>7. ASSUME NEW p \in Members, GiveUp(p) PROVE Minted'
  <2>1. \A q \in P : up'[q] \in Seq(Upto(minted)) /\ down'[q] \in Seq(Upto(minted))
    BY <1>7 DEF Minted, Types, GiveUp
  <2> QED
    BY <1>7, <2>1, Zenon DEF Minted, Types, GiveUp, keyVars, hostVars, sendVars
<1>8. ASSUME NEW p \in P, Resume(p) PROVE Minted'
  BY <1>8, Zenon DEF Minted, Resume, keyVars, hostVars, sendVars
<1>9. ASSUME NEW p \in Members, GraceExpires(p) PROVE Minted'
  <2>1. Direct("left", p, Host, 0) \in Upto(minted)
    BY NoKey, Zenon DEF Types
  <2>2. \A q \in P : down'[q] \in Seq(Upto(minted))
    <3>1. down'[Host] = Append(down[Host], Direct("left", p, Host, 0)) /\ down'[p] = <<>>
      BY <1>9, Zenon DEF Types, GraceExpires, Announce
    <3>2. \A q \in P \ {p, Host} : down'[q] = down[q]
      BY <1>9, Zenon DEF Types, GraceExpires, Announce
    <3>3. down'[Host] \in Seq(Upto(minted)) /\ down'[p] \in Seq(Upto(minted))
      BY <2>1, <3>1 DEF Minted
    <3> QED
      BY <3>2, <3>3, Zenon DEF Minted
  <2> QED
    BY <1>9, <2>2 DEF Minted, Types, GraceExpires, keyVars, hostVars, sendVars
<1>10. ASSUME NEW p \in Members, SendPake1(p) PROVE Minted'
  <2>1. Direct("pake1", p, Host, 0) \in Upto(minted)
    BY NoKey, Zenon DEF Types
  <2>2. \A q \in P : up'[q] \in Seq(Upto(minted))
    BY <1>10, <2>1 DEF Minted, Types, SendPake1, Writes
  <2>3. \A q \in P : down'[q] \in Seq(Upto(minted))
    BY <1>10 DEF Minted, Types, SendPake1, Receive
  <2> QED
    BY <1>10, <2>2, <2>3, Zenon DEF Minted, SendPake1, keyVars, hostVars, sendVars
<1>11. ASSUME NEW p \in Members, DriveHandshake(p) PROVE Minted'
  <2>1. Head(down[p]).key <= minted /\ \A q \in P : down'[q] \in Seq(Upto(minted))
    <3>1. Head(down[p]) \in Upto(minted) /\ \A q \in P : down'[q] \in Seq(Upto(minted))
      BY <1>11, SMTT(30) DEF Minted, Types, DriveHandshake, Receive
    <3> QED
      BY <3>1, UptoKey, SMTT(30) DEF Types
  <2>2. \A q \in P : key'[q] <= minted /\ prev'[q] = prev[q]
    BY <1>11, <2>1, Zenon DEF Minted, Types, DriveHandshake, keyVars
  <2> QED
    BY <1>11, <2>1, <2>2, Zenon DEF Minted, DriveHandshake, hostVars, sendVars
<1>12. ASSUME NEW p \in Members, MemberReads(p) PROVE Minted'
  <2>1. Head(down[p]) \in Upto(minted) /\ \A q \in P : down'[q] \in Seq(Upto(minted))
    BY <1>12, SMTT(30) DEF Minted, Types, MemberReads, Receive
  <2>2. Head(down[p]).key \in 0..minted /\ key[p] \in 0..minted
    BY <2>1, UptoKey DEF Minted, Types
  <2>3. Pushed(prev[p], key[p]) \in Seq(0..minted)
    BY <2>2, PushedType, Zenon DEF Minted
  <2>4. \A q \in P : key'[q] <= minted /\ prev'[q] \in Seq(0..minted)
    <3>1. CASE UNCHANGED <<key, prev>>
      BY <3>1, Zenon DEF Minted
    <3>2. CASE Install(p, Head(down[p]).key)
      <4>1. key'[p] = Head(down[p]).key /\ prev'[p] = Pushed(prev[p], key[p])
        BY <3>2, Zenon DEF Types, Install
      <4>2. \A q \in P \ {p} : key'[q] = key[q] /\ prev'[q] = prev[q]
        BY <3>2, Zenon DEF Types, Install
      <4>3. key'[p] <= minted /\ prev'[p] \in Seq(0..minted)
        BY <2>2, <2>3, <4>1, SMTT(30) DEF Types
      <4> QED
        BY <4>2, <4>3, Zenon DEF Minted
    <3> QED
      BY <1>12, <3>1, <3>2, Zenon DEF MemberReads
  <2> QED
    BY <1>12, <2>1, <2>4, Zenon DEF Minted, MemberReads, hostVars, sendVars
<1>13. ASSUME HandlePake1 PROVE Minted'
  <2>1. \A q \in P : down'[q] \in Seq(Upto(minted))
    BY <1>13 DEF Minted, Types, HandlePake1, HostReceives, Receive
  <2>2. Head(down[Host]).from \in P /\ key[Host] \in Nat
    BY <1>13, ReceiveType, Zenon DEF Types, HandlePake1, HostReceives, AnyFrame
  <2>3. \A f \in AnyFrame : f.key \in {0, key[Host]} => f \in Upto(minted)
    <3>1. 0 <= minted /\ key[Host] <= minted
      BY DEF Minted, Types
    <3> QED
      BY <3>1, Zenon DEF Upto
  <2>4. Reply(Head(down[Host]).from) \in Seq(Upto(minted))
    BY <2>2, <2>3, ReplyType, Zenon DEF Upto
  <2>5. \A q \in P : up'[q] \in Seq(Upto(minted))
    BY <1>13, <2>4 DEF Minted, Types, HandlePake1, Writes
  <2> QED
    BY <1>13, <2>1, <2>5, Zenon DEF Minted, HandlePake1, keyVars, sendVars
<1>14. ASSUME HandleLeft PROVE Minted'
  <2>1. minted' \in Nat /\ minted <= minted' /\ fresh' <= minted'
    BY <1>14 DEF Minted, Types, HandleLeft
  <2>2. Seq(0..minted) \subseteq Seq(0..minted') /\ Seq(Upto(minted)) \subseteq Seq(Upto(minted'))
    <3>1. \A k \in 0..minted : k \in 0..minted'
      BY <2>1 DEF Types
    <3>2. \A f \in Upto(minted) : f \in Upto(minted')
      BY <2>1 DEF Types, Upto, AnyFrame
    <3> QED
      BY <3>1, <3>2, SeqGrows, Zenon
  <2>3. \A q \in P : down'[q] \in Seq(Upto(minted))
    BY <1>14 DEF Minted, Types, HandleLeft, HostReceives, Receive
  <2>4. \A q \in P : key'[q] <= minted' /\ sealed'[q] <= minted'
    <3>1. key' = key /\ sealed' = sealed
      BY <1>14, Zenon DEF HandleLeft, keyVars, sendVars
    <3>2. \A q \in P : key[q] <= minted' /\ sealed[q] <= minted'
      BY <2>1 DEF Minted, Types
    <3> QED
      BY <3>1, <3>2, Zenon
  <2> QED
    BY <1>14, <2>1, <2>2, <2>3, <2>4, Zenon DEF Minted, HandleLeft, keyVars
<1>15. ASSUME HostIgnores PROVE Minted'
  <2>1. \A q \in P : down'[q] \in Seq(Upto(minted))
    BY <1>15 DEF Minted, Types, HostIgnores, HostReceives, Receive
  <2> QED
    BY <1>15, <2>1, Zenon DEF Minted, HostIgnores, keyVars, hostVars, sendVars
<1>16. ASSUME NEW p \in todo, SendRekey(p) PROVE Minted'
  <2>1. Direct("rekey", Host, p, fresh) \in Upto(minted)
    <3>1. fresh \in Nat /\ p \in P /\ "rekey" \in Kinds /\ fresh <= minted
      BY Zenon DEF Minted, Types, Kinds
    <3> QED
      BY <3>1, DirectType DEF Upto
  <2>2. \A q \in P : up'[q] \in Seq(Upto(minted))
    BY <1>16, <2>1 DEF Minted, Types, SendRekey, Writes
  <2> QED
    BY <1>16, <2>2, Zenon DEF Minted, SendRekey, keyVars, sendVars
<1>17. ASSUME SwapKey PROVE Minted'
  <2>1. key[Host] \in 0..minted
    BY DEF Minted, Types
  <2>2. Pushed(prev[Host], key[Host]) \in Seq(0..minted)
    BY <2>1, PushedType, Zenon DEF Minted
  <2>3. \A q \in P : key'[q] <= minted /\ prev'[q] \in Seq(0..minted)
    BY <1>17, <2>2, Zenon DEF Minted, Types, SwapKey, Install
  <2> QED
    BY <1>17, <2>3 DEF Minted, Types, SwapKey, netVars, sendVars
<1>18. ASSUME NEW p \in P, Seal(p) PROVE Minted'
  BY <1>18, Zenon DEF Minted, Types, Seal, netVars, keyVars, hostVars
<1>19. ASSUME NEW p \in P, WriteSealed(p) PROVE Minted'
  <2>1. ToAll("sealed", p, sealed[p]) \in Upto(minted)
    <3>1. sealed[p] \in Nat /\ sealed[p] <= minted /\ "sealed" \in Kinds
      BY Zenon DEF Minted, Types, Kinds
    <3> QED
      BY <3>1, ToAllType DEF Upto
  <2>2. \A q \in P : up'[q] \in Seq(Upto(minted))
    BY <1>19, <2>1 DEF Minted, Types, WriteSealed, Writes
  <2> QED
    BY <1>19, <2>2 DEF Minted, Types, WriteSealed, keyVars, hostVars
<1>20. ASSUME UNCHANGED vars PROVE Minted'
  BY <1>20, Zenon DEF Minted, vars, netVars, keyVars, hostVars, sendVars
<1> QED
  BY <1>1, <1>2, <1>3, <1>4, <1>5, <1>6, <1>7, <1>8, <1>9, <1>10, <1>11, <1>12, <1>13,
     <1>14, <1>15, <1>16, <1>17, <1>18, <1>19, <1>20, Zenon DEF Next, HostRuns, Reads

\* At first there is no departed member.
LEMMA ShelteredInit == Init => Sheltered
BY Zenon DEF Init, Sheltered

\* A step that empties the queues of some clients gives no key to anybody.
LEMMA StillSheltered ==
  ASSUME Sheltered, UNCHANGED <<key, prev, leftAt>>,
         \A q \in Members : down'[q] = down[q] \/ down'[q] = <<>>
  PROVE  Sheltered'
<1>1. SUFFICES ASSUME NEW q \in Members, leftAt[q] # 0
               PROVE  key[q] <= leftAt[q] /\ prev[q] \in Seq(0..leftAt[q]) /\ down'[q] \in Seq(Upto(leftAt[q]))
  BY Zenon DEF Sheltered
<1>2. CASE down'[q] = down[q]
  BY <1>1, <1>2, Zenon DEF Sheltered
<1>3. CASE down'[q] = <<>>
  <2>1. <<>> \in Seq(Upto(leftAt[q]))
    OBVIOUS
  <2> QED
    BY <1>1, <1>3, <2>1, Zenon DEF Sheltered
<1> QED
  BY <1>2, <1>3, Zenon

\* What a departed member holds or is still sent stays as old as its departure:
\* the relay delivers nothing more, handleRekey installs only what was queued.
LEMMA ShelteredStep ==
  ASSUME Types, Minted, Gone, Sheltered, [Next]_vars
  PROVE  Sheltered'
<1> USE HostInP
<1>1. ASSUME NEW p \in P, Route(p) PROVE Sheltered'
  <2>1. ASSUME NEW q \in Members, leftAt[q] # 0 PROVE down'[q] = down[q]
    BY <1>1, <2>1, Zenon DEF Gone, Types, Route, Delivers
  <2> QED
    BY <1>1, <2>1, Zenon DEF Sheltered, Route, keyVars, hostVars
<1>2. ASSUME NEW p \in Members, Join(p) PROVE Sheltered'
  <2>1. ASSUME NEW q \in Members, leftAt[q] # 0 PROVE down'[q] = down[q]
    BY <1>2, <2>1, Zenon DEF Gone, Types, Join
  <2> QED
    BY <1>2, <2>1, Zenon DEF Sheltered, Join, hostVars
<1>3. ASSUME NEW p \in Members, Leave(p) PROVE Sheltered'
  <2>1. \A q \in Members : down'[q] = down[q] \/ down'[q] = <<>>
    BY <1>3, Zenon DEF Types, Leave, Announce
  <2>2. UNCHANGED <<key, prev, leftAt>>
    BY <1>3, Zenon DEF Leave, keyVars, hostVars
  <2> QED
    BY <2>1, <2>2, StillSheltered, Zenon
<1>4. ASSUME NEW p \in Members, Evict(p) PROVE Sheltered'
  <2>1. \A q \in Members : down'[q] = down[q] \/ down'[q] = <<>>
    BY <1>4, Zenon DEF Types, Evict, Announce
  <2>2. UNCHANGED <<key, prev, leftAt>>
    BY <1>4, Zenon DEF Evict, keyVars, hostVars
  <2> QED
    BY <2>1, <2>2, StillSheltered, Zenon
<1>5. ASSUME NEW p \in Members, Disconnect(p) PROVE Sheltered'
  <2>1. \A q \in Members : down'[q] = down[q] \/ down'[q] = <<>>
    BY <1>5, Zenon DEF Types, Disconnect, Announce
  <2>2. UNCHANGED <<key, prev, leftAt>>
    BY <1>5, Zenon DEF Disconnect, keyVars, hostVars
  <2> QED
    BY <2>1, <2>2, StillSheltered, Zenon
<1>6. ASSUME NEW p \in P, Drop(p) PROVE Sheltered'
  <2>1. PICK n \in 0..Len(down[p]) : down' = [down EXCEPT ![p] = SubSeq(@, n + 1, Len(@))]
    BY <1>6, Zenon DEF Drop
  <2>2. ASSUME NEW q \in Members, leftAt[q] # 0 PROVE down'[q] \in Seq(Upto(leftAt[q]))
    BY <2>1, <2>2, SMTT(30) DEF Sheltered, Types
  <2> QED
    BY <1>6, <2>2, Zenon DEF Sheltered, Drop, keyVars, hostVars
<1>7. ASSUME NEW p \in Members, GiveUp(p) PROVE Sheltered'
  <2>1. \A q \in Members : down'[q] = down[q] \/ down'[q] = <<>>
    BY <1>7, Zenon DEF Types, GiveUp, Announce
  <2>2. UNCHANGED <<key, prev, leftAt>>
    BY <1>7, Zenon DEF GiveUp, keyVars, hostVars
  <2> QED
    BY <2>1, <2>2, StillSheltered, Zenon
<1>8. ASSUME NEW p \in P, Resume(p) PROVE Sheltered'
  BY <1>8, Zenon DEF Sheltered, Resume, netVars, keyVars, hostVars
<1>9. ASSUME NEW p \in Members, GraceExpires(p) PROVE Sheltered'
  <2>1. \A q \in Members : down'[q] = down[q] \/ down'[q] = <<>>
    BY <1>9, Zenon DEF Types, GraceExpires, Announce
  <2>2. UNCHANGED <<key, prev, leftAt>>
    BY <1>9, Zenon DEF GraceExpires, keyVars, hostVars
  <2> QED
    BY <2>1, <2>2, StillSheltered, Zenon
<1>10. ASSUME NEW p \in Members, SendPake1(p) PROVE Sheltered'
  <2>1. ASSUME NEW q \in Members, leftAt[q] # 0 PROVE down'[q] \in Seq(Upto(leftAt[q]))
    BY <1>10, <2>1 DEF Sheltered, Types, SendPake1, Receive
  <2> QED
    BY <1>10, <2>1, Zenon DEF Sheltered, SendPake1, keyVars, hostVars
<1>11. ASSUME NEW p \in Members, DriveHandshake(p) PROVE Sheltered'
  <2>1. ASSUME NEW q \in Members, leftAt[q] # 0 PROVE down'[q] \in Seq(Upto(leftAt[q]))
    BY <1>11, <2>1 DEF Sheltered, Types, DriveHandshake, Receive
  <2>2. leftAt[p] # 0 => Head(down[p]).key <= leftAt[p]
    <3>1. leftAt[p] # 0 => Head(down[p]) \in Upto(leftAt[p])
      BY <1>11, SMTT(30) DEF Sheltered, Types, DriveHandshake, Receive
    <3> QED
      BY <3>1, UptoKey DEF Types
  <2>3. \A q \in Members : leftAt[q] # 0 => key'[q] <= leftAt[q] /\ prev'[q] = prev[q]
    BY <1>11, <2>2, Zenon DEF Sheltered, Types, DriveHandshake, keyVars
  <2> QED
    BY <1>11, <2>1, <2>3, Zenon DEF Sheltered, DriveHandshake, hostVars
<1>12. ASSUME NEW p \in Members, MemberReads(p) PROVE Sheltered'
  <2>1. ASSUME NEW q \in Members, leftAt[q] # 0 PROVE down'[q] \in Seq(Upto(leftAt[q]))
    BY <1>12, <2>1 DEF Sheltered, Types, MemberReads, Receive
  <2>2. ASSUME leftAt[p] # 0
        PROVE  Head(down[p]).key \in 0..leftAt[p] /\ key[p] \in 0..leftAt[p]
    <3>1. Head(down[p]) \in Upto(leftAt[p])
      BY <1>12, <2>2, SMTT(30) DEF Sheltered, Types, MemberReads, Receive
    <3> QED
      BY <3>1, <2>2, UptoKey DEF Sheltered, Types
  <2>3. leftAt[p] # 0 => Pushed(prev[p], key[p]) \in Seq(0..leftAt[p])
    BY <2>2, PushedType, Zenon DEF Sheltered
  <2>4. ASSUME NEW q \in Members, leftAt[q] # 0
        PROVE  key'[q] <= leftAt[q] /\ prev'[q] \in Seq(0..leftAt[q])
    <3>1. CASE UNCHANGED <<key, prev>>
      BY <2>4, <3>1, Zenon DEF Sheltered
    <3>2. CASE Install(p, Head(down[p]).key)
      <4>1. key'[p] = Head(down[p]).key /\ prev'[p] = Pushed(prev[p], key[p])
        BY <3>2, Zenon DEF Types, Install
      <4>2. q # p => key'[q] = key[q] /\ prev'[q] = prev[q]
        BY <3>2, Zenon DEF Types, Install
      <4>3. CASE q = p
        BY <2>2, <2>3, <2>4, <4>1, <4>3, SMTT(30) DEF Types
      <4>4. CASE q # p
        BY <2>4, <4>2, <4>4, Zenon DEF Sheltered
      <4> QED
        BY <4>3, <4>4, Zenon
    <3> QED
      BY <1>12, <3>1, <3>2, Zenon DEF MemberReads
  <2> QED
    BY <1>12, <2>1, <2>4, Zenon DEF Sheltered, MemberReads, hostVars
<1>13. ASSUME HandlePake1 PROVE Sheltered'
  <2>1. \A q \in Members : down'[q] = down[q]
    BY <1>13, Zenon DEF Types, HandlePake1, HostReceives, Receive
  <2> QED
    BY <1>13, <2>1, Zenon DEF Sheltered, HandlePake1, keyVars, hostVars
<1>14. ASSUME HandleLeft PROVE Sheltered'
  <2>1. \A q \in Members : down'[q] = down[q]
    BY <1>14, Zenon DEF Types, HandleLeft, HostReceives, Receive
  <2>2. \A q \in Members : leftAt'[q] = leftAt[q] \/ leftAt'[q] = minted
    BY <1>14, Zenon DEF Types, HandleLeft
  <2> QED
    BY <1>14, <2>1, <2>2, Zenon DEF Sheltered, Minted, HandleLeft, keyVars
<1>15. ASSUME HostIgnores PROVE Sheltered'
  <2>1. \A q \in Members : down'[q] = down[q]
    BY <1>15, Zenon DEF Types, HostIgnores, HostReceives, Receive
  <2> QED
    BY <1>15, <2>1, Zenon DEF Sheltered, HostIgnores, keyVars, hostVars
<1>16. ASSUME NEW p \in todo, SendRekey(p) PROVE Sheltered'
  BY <1>16, Zenon DEF Sheltered, SendRekey, netVars, keyVars, hostVars
<1>17. ASSUME SwapKey PROVE Sheltered'
  <2>1. \A q \in Members : key'[q] = key[q] /\ prev'[q] = prev[q]
    BY <1>17, Zenon DEF Types, SwapKey, Install
  <2> QED
    BY <1>17, <2>1, Zenon DEF Sheltered, SwapKey, netVars
<1>18. ASSUME NEW p \in P, Seal(p) PROVE Sheltered'
  BY <1>18, Zenon DEF Sheltered, Seal, netVars, keyVars, hostVars
<1>19. ASSUME NEW p \in P, WriteSealed(p) PROVE Sheltered'
  BY <1>19, Zenon DEF Sheltered, WriteSealed, netVars, keyVars, hostVars
<1>20. ASSUME UNCHANGED vars PROVE Sheltered'
  BY <1>20, Zenon DEF Sheltered, vars, netVars, keyVars, hostVars
<1> QED
  BY <1>1, <1>2, <1>3, <1>4, <1>5, <1>6, <1>7, <1>8, <1>9, <1>10, <1>11, <1>12, <1>13,
     <1>14, <1>15, <1>16, <1>17, <1>18, <1>19, <1>20, Zenon DEF Next, HostRuns, Reads

\* Sheltered is LeaverGetsNoNewKey, on sequences.
LEMMA ShelteredMeans == Types /\ Sheltered => LeaverGetsNoNewKey
<1> SUFFICES ASSUME Types, Sheltered, NEW p \in Members, leftAt[p] # 0
             PROVE  /\ \A k \in Keys(p) : k <= leftAt[p]
                    /\ \A i \in DOMAIN down[p] : down[p][i].key <= leftAt[p]
  BY Zenon DEF LeaverGetsNoNewKey
<1>1. \A i \in DOMAIN prev[p] : prev[p][i] <= leftAt[p]
  BY HostInP, SMTT(30) DEF Sheltered, Types
<1>2. \A k \in Keys(p) : k <= leftAt[p]
  BY <1>1, Zenon DEF Keys, Range, Sheltered
<1>3. \A i \in DOMAIN down[p] : down[p][i] \in Upto(leftAt[p])
  BY DEF Sheltered
<1> QED
  BY <1>2, <1>3, Zenon DEF Upto

\* rekeyAfterLeave and the relay together: a key made after the host heard that
\* a member left never reaches that member, although the host may still answer
\* a handshake of theirs (handleHandshakeDirect).
THEOREM LeaversAreShutOut == Spec => []LeaverGetsNoNewKey
<1>1. Init => IInv
  BY TypesInit, MintedInit, GoneInit, ShelteredInit, Zenon DEF IInv
<1>2. IInv /\ [Next]_vars => IInv'
  BY TypesStep, MintedStep, GoneStep, ShelteredStep, Zenon DEF IInv
<1>3. IInv => LeaverGetsNoNewKey
  BY ShelteredMeans, Zenon DEF IInv
<1> QED
  BY <1>1, <1>2, <1>3, PTL DEF Spec

-----------------------------------------------------------------------------
(* What is on the links.                                                   *)

\* A queue is its head and the rest.
LEMMA HeadFrame ==
  ASSUME NEW S, NEW s \in Seq(S), s # <<>>
  PROVE  /\ Head(s) \in S /\ Tail(s) \in Seq(S) /\ <<Head(s)>> \in Seq(S)
         /\ s = <<Head(s)>> \o Tail(s)
OBVIOUS

\* What the host answers a joiner with and hands out keys in.
KeyKinds == {"pake2", "groupkey", "rekey"}

\* A frame that hands out a key has one.
HasKey(f) == f.kind \in {"groupkey", "rekey"} => f.key # 0

\* What a member writes, and what it is sent.
FromMember(p) == {f \in AnyFrame : f.kind \in {"pake1", "sealed"} /\ f.from = p}
ToMember(p)   == {f \in AnyFrame : HasKey(f) /\ (f.kind \in KeyKinds => f.to = {p})}

\* What the host writes, and what it is sent.
FromHost == {f \in AnyFrame : /\ f.from = Host /\ f.kind \in KeyKinds \cup {"sealed"} /\ HasKey(f)
                              /\ f.kind \in KeyKinds => \E q \in P : f.to = {q} /\ phase[q] # "out"
                              /\ f.kind = "sealed" => f.to = P \ {Host}}
ToHost   == {f \in AnyFrame : phase[f.from] # "out" /\ (f.kind = "pake1" => f.from \in Members)}

\* The host's own key is the last it has made, unless it is handing one out.
HostKeys ==
  /\ fresh = 0 => todo = {} /\ key[Host] = minted
  /\ fresh # 0 => fresh = minted /\ key[Host] + 1 = minted
  /\ sealed[Host] <= key[Host] /\ key[Host] # 0
  /\ Host \notin outages => Host \in linked

\* Only the host hands out keys, each to one participant, and it does not deal
\* with anybody who has not joined yet.
Links ==
  /\ phase[Host] = "keyed"
  /\ up[Host] \in Seq(FromHost) /\ down[Host] \in Seq(ToHost)
  /\ \A p \in Members : up[p] \in Seq(FromMember(p)) /\ down[p] \in Seq(ToMember(p))
  /\ \A p \in pairwise \cup todo : phase[p] # "out"
  /\ \A p \in Members : phase[p] = "out" => up[p] = <<>> /\ sealed[p] = 0

\* Who has joined has joined, and the host stays where it is.
LEMMA PhasesAdvance ==
  ASSUME Types, Gone, Links, [Next]_vars
  PROVE  /\ phase'[Host] = "keyed"
         /\ \A p \in P : phase[p] # "out" => phase'[p] # "out"
         /\ Seq(FromHost) \subseteq Seq(FromHost') /\ Seq(ToHost) \subseteq Seq(ToHost')
<1> USE HostInP
<1>1. ASSUME phase' = phase
      PROVE  phase'[Host] = "keyed" /\ \A q \in P : phase[q] # "out" => phase'[q] # "out"
  BY <1>1, Zenon DEF Links
<1>2. ASSUME NEW p \in Members, NEW ph \in Phases \ {"out"}, phase' = [phase EXCEPT ![p] = ph]
      PROVE  phase'[Host] = "keyed" /\ \A q \in P : phase[q] # "out" => phase'[q] # "out"
  BY <1>2, Zenon DEF Links, Types
<1>3. phase' = phase \/ \E p \in Members, ph \in Phases \ {"out"} : phase' = [phase EXCEPT ![p] = ph]
  <2>1. HostRuns \/ (\E p \in P : Route(p) \/ Drop(p) \/ Resume(p) \/ Seal(p) \/ WriteSealed(p)) \/ UNCHANGED vars => phase' = phase
    BY Zenon DEF HostRuns, HandlePake1, HandleLeft, HostIgnores, SendRekey, SwapKey, Route, Drop, Resume,
       Seal, WriteSealed,
           keyVars, vars
  <2>2. ASSUME NEW p \in Members, Join(p) \/ Leave(p) \/ GiveUp(p) \/ Disconnect(p) \/ GraceExpires(p)
        PROVE  \E ph \in Phases \ {"out"} : phase' = [phase EXCEPT ![p] = ph]
    <3>1. "joining" \in Phases \ {"out"} /\ "over" \in Phases \ {"out"}
      BY Zenon DEF Phases
    <3> QED
      BY <2>2, <3>1, Zenon DEF Join, Leave, GiveUp, Disconnect, GraceExpires
  <2>3. ASSUME NEW p \in Members, Evict(p) PROVE phase' = phase
    BY <2>3, Zenon DEF Evict, keyVars
  <2>4. ASSUME NEW p \in Members, Reads(p)
        PROVE  phase' = phase \/ \E ph \in Phases \ {"out"} : phase' = [phase EXCEPT ![p] = ph]
    <3>1. "paired" \in Phases \ {"out"} /\ "keyed" \in Phases \ {"out"} /\ "over" \in Phases \ {"out"}
      BY Zenon DEF Phases
    <3>2. SendPake1(p) \/ MemberReads(p) => phase' = phase
      BY Zenon DEF SendPake1, MemberReads, keyVars
    <3>3. CASE DriveHandshake(p)
      BY <3>1, <3>3, Zenon DEF DriveHandshake, keyVars
    <3> QED
      BY <2>4, <3>2, <3>3, Zenon DEF Reads
  <2> QED
    BY <2>1, <2>2, <2>3, <2>4, Zenon DEF Next
<1>4. phase'[Host] = "keyed" /\ \A p \in P : phase[p] # "out" => phase'[p] # "out"
  BY <1>1, <1>2, <1>3, Zenon
<1>5. \A f \in FromHost : f \in FromHost'
  BY <1>4, Zenon DEF FromHost
<1>6. \A f \in ToHost : f \in ToHost'
  <2> TAKE f \in ToHost
  <2>1. f \in AnyFrame /\ f.from \in P
    BY Zenon DEF ToHost, AnyFrame
  <2> QED
    BY <1>4, <2>1, Zenon DEF ToHost
<1> QED
  BY <1>4, <1>5, <1>6, SeqGrows, Zenon

\* A client appends to what it has written, or writes into the void.
LEMMA WritesAt ==
  ASSUME Types, NEW p \in P, NEW fs, Writes(p, fs)
  PROVE  /\ \A q \in P \ {p} : up'[q] = up[q]
         /\ p \in linked => up'[p] = up[p] \o fs
         /\ p \notin linked => up'[p] = up[p]
BY Zenon DEF Types, Writes

\* Frames behind frames.
LEMMA Behind ==
  ASSUME NEW S, NEW T, S \subseteq T, NEW q \in Seq(S), NEW fs \in Seq(T)
  PROVE  q \o fs \in Seq(T)
<1>1. q \in Seq(T)
  BY SeqGrows, Zenon
<1> QED
  BY <1>1

\* Frames from the host and from members keep to these sets.
LEMMA UpStep ==
  ASSUME Types, Gone, Links, HostKeys, [Next]_vars
  PROVE  up'[Host] \in Seq(FromHost') /\ \A p \in Members : up'[p] \in Seq(FromMember(p))
<1> USE HostInP
<1>0. /\ Seq(FromHost) \subseteq Seq(FromHost') /\ up[Host] \in Seq(FromHost)
      /\ \A p \in Members : up[p] \in Seq(FromMember(p))
      /\ phase'[Host] = "keyed" /\ \A p \in P : phase[p] # "out" => phase'[p] # "out"
  BY PhasesAdvance, Zenon DEF Links
<1>1. CASE up' = up
  BY <1>0, <1>1, Zenon
<1>2. ASSUME NEW p \in P, up' = [up EXCEPT ![p] = <<>>]
      PROVE  up'[Host] \in Seq(FromHost') /\ \A q \in Members : up'[q] \in Seq(FromMember(q))
  BY <1>0, <1>2 DEF Types
<1>3. ASSUME NEW p \in P, Route(p)
      PROVE  up'[Host] \in Seq(FromHost') /\ \A q \in Members : up'[q] \in Seq(FromMember(q))
  <2>1. up' = [up EXCEPT ![p] = Tail(@)] /\ up[p] # <<>>
    BY <1>3, Zenon DEF Route
  <2>2. p = Host => Tail(up[Host]) \in Seq(FromHost)
    BY <1>0, <2>1
  <2>3. p \in Members => Tail(up[p]) \in Seq(FromMember(p))
    BY <1>0, <2>1
  <2> QED
    BY <1>0, <2>1, <2>2, <2>3, Zenon DEF Types
<1>4. ASSUME NEW p \in Members, NEW fs \in Seq(FromMember(p)), Writes(p, fs)
      PROVE  up'[Host] \in Seq(FromHost') /\ \A q \in Members : up'[q] \in Seq(FromMember(q))
  <2>1. up'[p] \in Seq(FromMember(p))
    <3>1. up[p] \in Seq(FromMember(p)) /\ up[p] \o fs \in Seq(FromMember(p))
      BY <1>0, Behind, Zenon
    <3>2. up'[p] = up[p] \o fs \/ up'[p] = up[p]
      BY <1>4, WritesAt, Zenon
    <3> QED
      BY <3>1, <3>2, Zenon
  <2>2. \A q \in P \ {p} : up'[q] = up[q]
    BY <1>4, WritesAt, Zenon
  <2> QED
    BY <1>0, <2>1, <2>2, Zenon
<1>5. ASSUME NEW fs \in Seq(FromHost'), Writes(Host, fs)
      PROVE  up'[Host] \in Seq(FromHost') /\ \A q \in Members : up'[q] \in Seq(FromMember(q))
  <2>1. up[Host] \in Seq(FromHost')
    BY <1>0, Zenon
  <2>2. up'[Host] \in Seq(FromHost')
    <3>1. up[Host] \o fs \in Seq(FromHost')
      BY <2>1, Behind, Zenon
    <3>2. up'[Host] = up[Host] \o fs \/ up'[Host] = up[Host]
      BY <1>5, WritesAt, Zenon
    <3> QED
      BY <2>1, <3>1, <3>2, Zenon
  <2>3. \A q \in P \ {Host} : up'[q] = up[q]
    BY <1>5, WritesAt, Zenon
  <2> QED
    BY <1>0, <2>2, <2>3, Zenon
<1>6. ASSUME NEW p \in Members, SendPake1(p) PROVE Writes(p, <<Direct("pake1", p, Host, 0)>>)
                                                   /\ <<Direct("pake1", p, Host, 0)>> \in Seq(FromMember(p))
  <2>1. Direct("pake1", p, Host, 0) \in FromMember(p)
    BY DirectType DEF FromMember, Kinds
  <2> QED
    BY <1>6, <2>1 DEF SendPake1
<1>7. ASSUME NEW q \in P, phase[q] # "out", NEW k \in KeyKinds, NEW n \in Nat, k = "pake2" \/ n # 0
      PROVE  Direct(k, Host, q, n) \in FromHost'
  <2>1. k \in Kinds /\ phase'[q] # "out"
    BY <1>0, <1>7, Zenon DEF KeyKinds, Kinds
  <2>2. /\ Direct(k, Host, q, n) \in AnyFrame /\ Direct(k, Host, q, n).from = Host
        /\ Direct(k, Host, q, n).kind = k /\ Direct(k, Host, q, n).key = n
    BY <2>1, DirectType
  <2>3. Direct(k, Host, q, n).to = {q}
    BY Zenon DEF Direct
  <2> QED
    BY <1>7, <2>1, <2>2, <2>3, Zenon DEF FromHost, KeyKinds, HasKey
<1>8. ASSUME HandlePake1
      PROVE  \E fs \in Seq(FromHost') : Writes(Host, fs)
  <2> DEFINE p == Head(down[Host]).from
  <2>1. Head(down[Host]) \in ToHost
    BY <1>8 DEF HandlePake1, HostReceives, Receive, Links
  <2>2. p \in P /\ phase[p] # "out"
    BY <2>1, Zenon DEF ToHost, AnyFrame
  <2>3. Direct("pake2", Host, p, 0) \in FromHost' /\ Direct("groupkey", Host, p, key[Host]) \in FromHost'
    BY <1>7, <2>2, Zenon DEF KeyKinds, Types, HostKeys
  <2>4. Writes(Host, Reply(p))
    BY <1>8, Zenon DEF HandlePake1
  <2> HIDE DEF p
  <2>5. Reply(p) \in Seq(FromHost')
    BY <2>3 DEF Reply
  <2> QED
    BY <2>4, <2>5, Zenon
<1>9. ASSUME NEW p \in todo, SendRekey(p)
      PROVE  \E fs \in Seq(FromHost') : Writes(Host, fs)
  <2>1. p \in P /\ phase[p] # "out" /\ fresh \in Nat /\ fresh # 0
    BY Zenon DEF Links, Types, HostKeys
  <2>2. Direct("rekey", Host, p, fresh) \in FromHost'
    BY <1>7, <2>1, Zenon DEF KeyKinds
  <2>3. Writes(Host, <<Direct("rekey", Host, p, fresh)>>)
    BY <1>9, Zenon DEF SendRekey
  <2>4. <<Direct("rekey", Host, p, fresh)>> \in Seq(FromHost')
    BY <2>2
  <2> QED
    BY <2>3, <2>4, Zenon
<1>10. ASSUME NEW p \in P, WriteSealed(p)
       PROVE  up'[Host] \in Seq(FromHost') /\ \A q \in Members : up'[q] \in Seq(FromMember(q))
  <2> DEFINE f == ToAll("sealed", p, sealed[p])
  <2>1. f \in AnyFrame /\ f.kind = "sealed" /\ f.from = p /\ f.to = P \ {p}
    BY ToAllType, Zenon DEF Types, Kinds, ToAll
  <2>2. Writes(p, <<f>>)
    BY <1>10, Zenon DEF WriteSealed
  <2> HIDE DEF f
  <2>3. CASE p = Host
    <3>1. f \in FromHost'
      BY <2>1, <2>3, Zenon DEF FromHost, KeyKinds, HasKey
    <3>2. <<f>> \in Seq(FromHost')
      BY <3>1
    <3> QED
      BY <1>5, <2>2, <2>3, <3>2, Zenon
  <2>4. CASE p \in Members
    <3>1. f \in FromMember(p)
      BY <2>1, Zenon DEF FromMember
    <3>2. <<f>> \in Seq(FromMember(p))
      BY <3>1
    <3> QED
      BY <1>4, <2>2, <2>4, <3>2, Zenon
  <2> QED
    BY <2>3, <2>4, Zenon DEF P
<1>11. \A p \in P : Drop(p) => up' = [up EXCEPT ![p] = <<>>]
  BY Zenon DEF Drop
<1>12. \A p \in Members : Disconnect(p) \/ GiveUp(p) => up' = [up EXCEPT ![p] = <<>>]
  BY Zenon DEF Disconnect, GiveUp
<1>13. \A p \in P : Resume(p) \/ Seal(p) => up' = up
  BY Zenon DEF Resume, Seal, netVars
<1>14. \A p \in Members : Join(p) \/ Leave(p) \/ Evict(p) \/ GraceExpires(p) \/ DriveHandshake(p) \/ MemberReads(p) => up' = up
  BY Zenon DEF Join, Leave, Evict, GraceExpires, DriveHandshake, MemberReads
<1>15. HandleLeft \/ HostIgnores \/ SwapKey \/ UNCHANGED vars => up' = up
  BY Zenon DEF HandleLeft, HostIgnores, SwapKey, netVars, vars
<1> QED
  BY <1>1, <1>2, <1>3, <1>4, <1>5, <1>6, <1>8, <1>9, <1>10, <1>11, <1>12, <1>13, <1>14, <1>15, Zenon
  DEF Next, HostRuns, Reads

\* What the relay sends keeps to these sets.
LEMMA DownStep ==
  ASSUME Types, Gone, Links, [Next]_vars
  PROVE  down'[Host] \in Seq(ToHost') /\ \A p \in Members : down'[p] \in Seq(ToMember(p))
<1> USE HostInP
<1> DEFINE Good == down'[Host] \in Seq(ToHost') /\ \A p \in Members : down'[p] \in Seq(ToMember(p))
<1>0. /\ Seq(ToHost) \subseteq Seq(ToHost') /\ down[Host] \in Seq(ToHost')
      /\ \A p \in Members : down[p] \in Seq(ToMember(p))
      /\ phase'[Host] = "keyed" /\ \A p \in P : phase[p] # "out" => phase'[p] # "out"
  BY PhasesAdvance, Zenon DEF Links
<1>1. ASSUME down' = down PROVE Good
  BY <1>0, <1>1, Zenon
<1>2. ASSUME NEW p \in P, down' = [down EXCEPT ![p] = <<>>] PROVE Good
  BY <1>0, <1>2 DEF Types
<1>3. ASSUME NEW p \in P, Receive(p) PROVE Good
  <2>1. down' = [down EXCEPT ![p] = Tail(@)] /\ down[p] # <<>>
    BY <1>3, Zenon DEF Receive
  <2>2. p = Host => Tail(down[Host]) \in Seq(ToHost')
    BY <1>0, <2>1
  <2>3. p \in Members => Tail(down[p]) \in Seq(ToMember(p))
    BY <1>0, <2>1
  <2> QED
    BY <1>0, <2>1, <2>2, <2>3, Zenon DEF Types
<1>4. ASSUME NEW p \in Members, phase[p] # "out", down' = Announce(p) \/ down' = [Announce(p) EXCEPT ![p] = <<>>]
      PROVE  Good
  <2> DEFINE f == Direct("left", p, Host, 0)
  <2>1. f \in ToHost'
    BY <1>0, <1>4, DirectType DEF ToHost, Kinds
  <2>2. down'[Host] = Append(down[Host], f) /\ \A q \in Members : down'[q] \in {down[q], <<>>}
    BY <1>4, Zenon DEF Announce, Types
  <2> HIDE DEF f
  <2>3. down'[Host] \in Seq(ToHost')
    BY <1>0, <2>1, <2>2
  <2>4. ASSUME NEW q \in Members PROVE down'[q] \in Seq(ToMember(q))
    <3>1. <<>> \in Seq(ToMember(q))
      OBVIOUS
    <3> QED
      BY <1>0, <2>2, <3>1, Zenon
  <2> QED
    BY <2>3, <2>4, Zenon
<1>5. ASSUME NEW p \in P, Route(p) PROVE Good
  <2> DEFINE f == Head(up[p])
  <2>1. up[p] # <<>> /\ down' = [q \in P |-> IF q \in Delivers(f) THEN Append(down[q], f) ELSE down[q]]
    BY <1>5, Zenon DEF Route
  <2>2. CASE p = Host
    <3>1. f \in FromHost
      BY <2>1, <2>2, HeadFrame, Zenon DEF Links
    <3> HIDE DEF f
    <3>2. f \in ToHost'
      BY <1>0, <3>1, Zenon DEF FromHost, ToHost, KeyKinds
    <3>3. \A q \in Members : q \in Delivers(f) => f \in ToMember(q)
      BY <3>1, Zenon DEF FromHost, ToMember, Delivers
    <3>4. down'[Host] \in Seq(ToHost')
      BY <1>0, <2>1, <3>2
    <3>5. ASSUME NEW q \in Members PROVE down'[q] \in Seq(ToMember(q))
      BY <1>0, <2>1, <3>3
    <3> QED
      BY <3>4, <3>5, Zenon
  <2>3. CASE p \in Members
    <3>1. f \in FromMember(p)
      BY <2>1, <2>3, HeadFrame, Zenon DEF Links
    <3>2. phase[p] # "out"
      BY <2>1, <2>3, Zenon DEF Links
    <3> HIDE DEF f
    <3>3. f \in ToHost'
      BY <1>0, <2>3, <3>1, <3>2, Zenon DEF FromMember, ToHost
    <3>4. \A q \in Members : f \in ToMember(q)
      BY <3>1, Zenon DEF FromMember, ToMember, KeyKinds, HasKey
    <3>5. down'[Host] \in Seq(ToHost')
      BY <1>0, <2>1, <3>3
    <3>6. ASSUME NEW q \in Members PROVE down'[q] \in Seq(ToMember(q))
      BY <1>0, <2>1, <3>4
    <3> QED
      BY <3>5, <3>6, Zenon
  <2> QED
    BY <2>2, <2>3, Zenon DEF P
<1>6. ASSUME NEW p \in Members, Join(p) PROVE Good
  <2> DEFINE f == Direct("result", Host, p, 0)
  <2>1. f \in ToMember(p)
    BY DirectType DEF ToMember, KeyKinds, Kinds, HasKey
  <2>2. down' = [down EXCEPT ![p] = <<f>>]
    BY <1>6, Zenon DEF Join
  <2> HIDE DEF f
  <2>3. <<f>> \in Seq(ToMember(p))
    BY <2>1
  <2> QED
    BY <1>0, <2>2, <2>3, Zenon DEF Types
<1>7. ASSUME NEW p \in P, Drop(p) PROVE Good
  <2>1. PICK n \in 0..Len(down[p]) : down' = [down EXCEPT ![p] = SubSeq(@, n + 1, Len(@))]
    BY <1>7, Zenon DEF Drop
  <2>2. \A S : down[p] \in Seq(S) => SubSeq(down[p], n + 1, Len(down[p])) \in Seq(S)
    BY <2>1, SMTT(30) DEF Types
  <2> QED
    BY <1>0, <2>1, <2>2, Zenon DEF Types
<1>8. \A p \in Members : Leave(p) \/ Evict(p) \/ GraceExpires(p) => p \in session
  BY Zenon DEF Leave, Evict, GraceExpires
<1>9. \A p \in Members : Leave(p) \/ Evict(p) \/ GraceExpires(p)
                           => down' = Announce(p) \/ down' = [Announce(p) EXCEPT ![p] = <<>>]
  BY Zenon DEF Leave, Evict, GraceExpires
<1>10. ASSUME NEW p \in Members, Leave(p) \/ Evict(p) \/ GraceExpires(p) PROVE Good
  BY <1>4, <1>8, <1>9, <1>10, Zenon DEF Gone
<1>11. \A p \in Members : Disconnect(p) \/ GiveUp(p) => down' = [down EXCEPT ![p] = <<>>]
  BY Zenon DEF Disconnect, GiveUp
<1>12. \A p \in Members : Reads(p) => Receive(p)
  BY Zenon DEF Reads, SendPake1, DriveHandshake, MemberReads
<1>13. HandlePake1 \/ HandleLeft \/ HostIgnores => Receive(Host)
  BY Zenon DEF HandlePake1, HandleLeft, HostIgnores, HostReceives
<1>14. (\E p \in todo : SendRekey(p)) \/ SwapKey \/ (\E p \in P : Resume(p) \/ Seal(p) \/ WriteSealed(p)) \/ UNCHANGED vars
         => down' = down
  BY Zenon DEF SendRekey, SwapKey, Resume, Seal, WriteSealed, netVars, vars
<1> HIDE DEF Good
<1>15. Good
  BY <1>1, <1>2, <1>3, <1>5, <1>6, <1>7, <1>10, <1>11, <1>12, <1>13, <1>14, Zenon DEF Next, HostRuns
<1> QED
  BY <1>15, Zenon DEF Good

\* The host deals with nobody who has not joined, and nobody seals before.
LEMMA OutsideStep ==
  ASSUME Types, Gone, Links, [Next]_vars
  PROVE  /\ \A p \in pairwise' \cup todo' : phase'[p] # "out"
         /\ \A p \in Members : phase'[p] = "out" => up'[p] = <<>> /\ sealed'[p] = 0
<1> USE HostInP
<1>0. /\ phase'[Host] = "keyed" /\ \A p \in P : phase[p] # "out" => phase'[p] # "out"
      /\ \A p \in pairwise \cup todo : p \in P /\ phase[p] # "out"
      /\ \A p \in Members : phase[p] = "out" => up[p] = <<>> /\ sealed[p] = 0
  BY PhasesAdvance, Zenon DEF Links, Types
<1>1. \A p \in pairwise' \cup todo' : phase'[p] # "out"
  <2>1. ASSUME HandlePake1 PROVE \A p \in pairwise' \cup todo' : p \in P /\ phase[p] # "out"
    <3>1. Head(down[Host]) \in ToHost
      BY <2>1, HeadFrame, Zenon DEF HandlePake1, HostReceives, Receive, Links
    <3>2. Head(down[Host]).from \in P /\ phase[Head(down[Host]).from] # "out"
      BY <3>1, Zenon DEF ToHost, AnyFrame
    <3>3. pairwise' = pairwise \cup {Head(down[Host]).from} /\ todo' = todo
      BY <2>1, Zenon DEF HandlePake1
    <3> QED
      BY <1>0, <3>2, <3>3, Zenon
  <2>2. ASSUME HandleLeft PROVE \A p \in pairwise' \cup todo' : p \in pairwise \cup todo
    BY <2>2, Zenon DEF HandleLeft
  <2>3. ASSUME NEW q \in todo, SendRekey(q) PROVE \A p \in pairwise' \cup todo' : p \in pairwise \cup todo
    BY <2>3, Zenon DEF SendRekey
  <2>4. HostIgnores \/ SwapKey \/ UNCHANGED vars => pairwise' = pairwise /\ todo' = todo
    BY Zenon DEF HostIgnores, SwapKey, hostVars, vars
  <2>5. ASSUME NEW p \in P, Route(p) \/ Drop(p) \/ Resume(p) \/ Seal(p) \/ WriteSealed(p)
        PROVE  pairwise' = pairwise /\ todo' = todo
    BY <2>5, Zenon DEF Route, Drop, Resume, Seal, WriteSealed, hostVars
  <2>6. ASSUME NEW p \in Members, \/ Join(p) \/ Leave(p) \/ GiveUp(p)
                                  \/ Evict(p) \/ Disconnect(p) \/ GraceExpires(p) \/ Reads(p)
        PROVE  pairwise' = pairwise /\ todo' = todo
    BY <2>6, Zenon DEF Join, Leave, GiveUp, Evict, Disconnect, GraceExpires, Reads, SendPake1,
       DriveHandshake, MemberReads,
                hostVars
  <2>7. \A p \in pairwise' \cup todo' : p \in P /\ phase[p] # "out"
    BY <1>0, <2>1, <2>2, <2>3, <2>4, <2>5, <2>6, Zenon DEF Next, HostRuns
  <2> QED
    BY <1>0, <2>7, Zenon
<1>2. ASSUME NEW p \in Members, phase'[p] = "out" PROVE up'[p] = <<>> /\ sealed'[p] = 0
  <2>1. phase[p] = "out" /\ up[p] = <<>> /\ sealed[p] = 0 /\ p # Host
    BY <1>0, <1>2, Zenon
  <2>2. HostRuns => up'[p] = up[p] /\ sealed' = sealed
    <3>1. HandleLeft \/ HostIgnores \/ SwapKey => up' = up /\ sealed' = sealed
      BY Zenon DEF HandleLeft, HostIgnores, SwapKey, netVars, sendVars
    <3>2. HandlePake1 => up'[p] = up[p] /\ sealed' = sealed
      BY <2>1, WritesAt, Zenon DEF HandlePake1, sendVars
    <3>3. ASSUME NEW q \in todo, SendRekey(q) PROVE up'[p] = up[p] /\ sealed' = sealed
      BY <2>1, <3>3, WritesAt, Zenon DEF SendRekey, sendVars
    <3> QED
      BY <3>1, <3>2, <3>3, Zenon DEF HostRuns
  <2>3. ASSUME NEW q \in P, Route(q) PROVE up'[p] = up[p] /\ sealed' = sealed
    BY <2>1, <2>3, Zenon DEF Route, sendVars, Types
  <2>4. ASSUME NEW q \in P, Drop(q) PROVE up'[p] = <<>> /\ sealed' = sealed
    BY <2>1, <2>4, Zenon DEF Drop, sendVars, Types
  <2>5. ASSUME NEW q \in P, Resume(q) PROVE up' = up /\ sealed' = sealed
    BY <2>5, Zenon DEF Resume, sendVars
  <2>6. ASSUME NEW q \in P, Seal(q) PROVE up' = up /\ sealed'[p] = sealed[p]
    BY <2>1, <2>6, Zenon DEF Seal, netVars, Types
  <2>7. ASSUME NEW q \in P, WriteSealed(q) PROVE up'[p] = up[p] /\ sealed'[p] = sealed[p]
    <3>1. q # p
      BY <2>1, <2>7, Zenon DEF WriteSealed
    <3> QED
      BY <2>7, <3>1, WritesAt, Zenon DEF WriteSealed, Types
  <2>8. ASSUME NEW q \in Members, Join(q) \/ Evict(q) \/ DriveHandshake(q) \/ MemberReads(q)
        PROVE  up' = up /\ sealed' = sealed
    BY <2>8, Zenon DEF Join, Evict, DriveHandshake, MemberReads, sendVars
  <2>9. ASSUME NEW q \in Members, Leave(q) \/ GraceExpires(q) PROVE up' = up /\ sealed'[p] = 0
    BY <2>1, <2>9, Zenon DEF Leave, GraceExpires, Types
  <2>10. ASSUME NEW q \in Members, GiveUp(q) \/ Disconnect(q) PROVE up'[p] = <<>> /\ sealed'[p] = 0
    BY <2>1, <2>10, Zenon DEF GiveUp, Disconnect, Types, sendVars
  <2>11. ASSUME NEW q \in Members, SendPake1(q) PROVE up'[p] = up[p] /\ sealed' = sealed
    <3>1. q # p
      BY <2>1, <2>11, Zenon DEF SendPake1
    <3> QED
      BY <2>11, <3>1, WritesAt, Zenon DEF SendPake1, sendVars
  <2>12. UNCHANGED vars => up' = up /\ sealed' = sealed
    BY Zenon DEF vars, netVars, sendVars
  <2> QED
    BY <2>1, <2>2, <2>3, <2>4, <2>5, <2>6, <2>7, <2>8, <2>9, <2>10, <2>11, <2>12, Zenon DEF Next, Reads
<1> QED
  BY <1>1, <1>2, Zenon

\* So the links hold nothing else.
LEMMA LinksStep ==
  ASSUME Types, Gone, Links, HostKeys, [Next]_vars
  PROVE  Links'
BY PhasesAdvance, UpStep, DownStep, OutsideStep, Zenon DEF Links, ToMember, FromMember

\* At first the links are empty.
LEMMA LinksInit == Init => Links
BY HostInP DEF Init, Links

\* The host's key changes as rekeyAfterLeave has it.
LEMMA HostKeysStep ==
  ASSUME Types, Gone, Links, HostKeys, [Next]_vars
  PROVE  HostKeys'
<1> USE HostInP
<1>0. key \in [P -> Nat] /\ sealed \in [P -> Nat] /\ minted \in Nat /\ fresh \in Nat /\ key[Host] \in Nat
  BY Zenon DEF Types
<1>1. ASSUME UNCHANGED <<fresh, todo, minted, key>>, sealed'[Host] \in {sealed[Host], 0},
             Host \notin outages' => Host \notin outages /\ (Host \in linked => Host \in linked')
      PROVE  HostKeys'
  BY <1>0, <1>1 DEF HostKeys
<1>2. CASE HandleLeft
  <2>1. UNCHANGED <<key, sealed, outages, linked>> /\ fresh = 0
    BY <1>2, Zenon DEF HandleLeft, HostReceives, keyVars, sendVars
  <2>2. UNCHANGED <<minted, fresh, todo>> \/ (minted' = minted + 1 /\ fresh' = minted + 1)
    BY <1>2, Zenon DEF HandleLeft
  <2> QED
    BY <1>0, <2>1, <2>2 DEF HostKeys
<1>3. ASSUME NEW p \in todo, SendRekey(p) PROVE HostKeys'
  <2>1. UNCHANGED <<key, sealed, outages, linked, minted, fresh>> /\ fresh # 0
    BY <1>3, Zenon DEF SendRekey, keyVars, sendVars, HostKeys
  <2> QED
    BY <1>0, <2>1, Zenon DEF HostKeys
<1>4. CASE SwapKey
  <2>1. UNCHANGED <<sealed, outages, linked, minted, todo>> /\ fresh # 0 /\ todo = {} /\ fresh' = 0
    BY <1>4, Zenon DEF SwapKey, netVars, sendVars
  <2>2. key'[Host] = fresh
    BY <1>0, <1>4, Zenon DEF SwapKey, Install
  <2>3. sealed[Host] \in Nat
    BY <1>0, Zenon
  <2> QED
    BY <1>0, <2>1, <2>2, <2>3 DEF HostKeys
<1>5. HandlePake1 \/ HostIgnores \/ UNCHANGED vars => UNCHANGED <<fresh, todo, minted, key, sealed, outages, linked>>
  BY Zenon DEF HandlePake1, HostIgnores, vars, keyVars, sendVars, hostVars, netVars
<1>6. ASSUME NEW p \in P, Route(p) \/ Resume(p) PROVE HostKeys'
  <2>1. UNCHANGED <<fresh, todo, minted, key, sealed, outages>> /\ (Host \in linked => Host \in linked')
    BY <1>6, Zenon DEF Route, Resume, keyVars, sendVars, hostVars
  <2> QED
    BY <1>1, <2>1, Zenon
<1>7. ASSUME NEW p \in P, Drop(p) PROVE HostKeys'
  <2>1. UNCHANGED <<fresh, todo, minted, key, sealed>> /\ outages' = outages \cup {p} /\ linked' = linked \ {p}
    BY <1>7, Zenon DEF Drop, keyVars, sendVars, hostVars
  <2> QED
    BY <1>1, <2>1, Zenon
<1>8. ASSUME NEW p \in P, Seal(p) PROVE HostKeys'
  <2>1. UNCHANGED <<fresh, todo, minted, key, outages, linked>>
    BY <1>8, Zenon DEF Seal, keyVars, netVars, hostVars
  <2>2. sealed'[Host] \in {sealed[Host], key[Host]}
    BY <1>0, <1>8, Zenon DEF Seal
  <2> QED
    BY <1>0, <2>1, <2>2 DEF HostKeys
<1>9. ASSUME NEW p \in P, WriteSealed(p) PROVE HostKeys'
  <2>1. UNCHANGED <<fresh, todo, minted, key, outages, linked>>
    BY <1>9, Zenon DEF WriteSealed, keyVars, hostVars
  <2>2. sealed'[Host] \in {sealed[Host], 0}
    BY <1>0, <1>9, Zenon DEF WriteSealed
  <2> QED
    BY <1>1, <2>1, <2>2, Zenon
<1>10. ASSUME NEW p \in Members, Join(p) \/ Evict(p) \/ SendPake1(p) PROVE HostKeys'
  <2>1. UNCHANGED <<fresh, todo, minted, key, sealed, outages>> /\ (Host \in linked => Host \in linked')
    BY <1>10, Zenon DEF Join, Evict, SendPake1, keyVars, hostVars, sendVars
  <2> QED
    BY <1>1, <2>1, Zenon
<1>11. ASSUME NEW p \in Members, Leave(p) \/ GraceExpires(p) \/ Disconnect(p) \/ GiveUp(p) PROVE HostKeys'
  <2>1. UNCHANGED <<fresh, todo, minted, key, outages>> /\ (linked' = linked \ {p} \/ linked' = linked)
    BY <1>11, Zenon DEF Leave, GraceExpires, Disconnect, GiveUp, hostVars
  <2>2. sealed' = [sealed EXCEPT ![p] = 0] \/ sealed' = sealed
    BY <1>11, Zenon DEF Leave, GraceExpires, Disconnect, GiveUp, sendVars
  <2>3. sealed'[Host] = sealed[Host] /\ (Host \in linked => Host \in linked')
    BY <1>0, <2>1, <2>2, Zenon
  <2> QED
    BY <1>1, <2>1, <2>3, Zenon
<1>12. ASSUME NEW p \in Members, DriveHandshake(p) \/ MemberReads(p) PROVE HostKeys'
  <2>1. UNCHANGED <<fresh, todo, minted, sealed, outages, linked>>
    BY <1>12, Zenon DEF DriveHandshake, MemberReads, hostVars, sendVars
  <2>2. key' = key \/ key' = [key EXCEPT ![p] = Head(down[p]).key]
    BY <1>12, Zenon DEF DriveHandshake, MemberReads, Install, keyVars
  <2>3. key'[Host] = key[Host]
    BY <1>0, <2>2, Zenon
  <2> QED
    BY <2>1, <2>3, Zenon DEF HostKeys
<1> QED
  BY <1>1, <1>2, <1>3, <1>4, <1>5, <1>6, <1>7, <1>8, <1>9, <1>10, <1>11, <1>12, Zenon DEF Next, HostRuns, Reads

\* NewHost: at first the host has the first key, and hands out that one.
LEMMA HostKeysInit == Init => HostKeys
  BY HostInP DEF Init, HostKeys

\* Only the handshake sets the key a client was given first.
LEMMA FirstType ==
  ASSUME Types, first \in [P -> Nat], [Next]_vars
  PROVE  first' \in [P -> Nat]
<1>1. ASSUME NEW q \in Members, DriveHandshake(q) PROVE first' \in [P -> Nat]
  <2> DEFINE f == Head(down[q])
  <2>1. f \in AnyFrame
    BY <1>1, HostInP, HeadFrame, Zenon DEF DriveHandshake, Receive, Types
  <2> HIDE DEF f
  <2>2. f.key \in Nat
    BY <2>1, Zenon DEF AnyFrame
  <2>3. first' = first \/ first' = [first EXCEPT ![q] = f.key]
    BY <1>1, Zenon DEF DriveHandshake, keyVars, f
  <2> QED
    BY <2>2, <2>3, Zenon
<1>2. \A q \in Members : SendPake1(q) \/ MemberReads(q) => first' = first
  BY Zenon DEF SendPake1, MemberReads, keyVars
<1>3. HostRuns \/ UNCHANGED vars => first' = first
  BY Zenon DEF HostRuns, HandlePake1, HandleLeft, HostIgnores, SendRekey, SwapKey, keyVars, vars
<1>4. \A q \in P : Route(q) \/ Drop(q) \/ Resume(q) \/ Seal(q) \/ WriteSealed(q) => first' = first
  BY Zenon DEF Route, Drop, Resume, Seal, WriteSealed, keyVars
<1>5. \A q \in Members : Join(q) \/ Leave(q) \/ GiveUp(q) \/ Evict(q) \/ Disconnect(q) \/ GraceExpires(q) => first' = first
  BY Zenon DEF Join, Leave, GiveUp, Evict, Disconnect, GraceExpires, keyVars
<1> QED
  BY <1>1, <1>2, <1>3, <1>4, <1>5, Zenon DEF Next, Reads

-----------------------------------------------------------------------------
(* One key per departure.                                                  *)

Left(s, i) == s[i].kind = "left"

\* The host hears of each departure once.
Once(s) ==
  /\ \A i, j \in DOMAIN s : Left(s, i) /\ Left(s, j) /\ s[i].from = s[j].from => i = j
  /\ \A i \in DOMAIN s : Left(s, i) => leftAt[s[i].from] = 0

Departed == {p \in Members : leftAt[p] # 0}

\* And makes at most one key for it.
Counted == Once(down[Host]) /\ minted # 0 /\ minted <= 1 + Cardinality(Departed)

\* The end of a queue.
LEMMA SuffixIs ==
  ASSUME NEW S, NEW s \in Seq(S), NEW n \in 0..Len(s)
  PROVE  LET t == SubSeq(s, n + 1, Len(s)) IN
         t \in Seq(S) /\ Len(t) = Len(s) - n /\ \A i \in 1..Len(t) : t[i] = s[i + n]
OBVIOUS

\* What is left of a queue has each departure once, too.
LEMMA OnceSuffix ==
  ASSUME NEW s \in Seq(AnyFrame), Once(s), NEW n \in 0..Len(s), NEW t \in Seq(AnyFrame),
         Len(t) = Len(s) - n, \A i \in 1..Len(t) : t[i] = s[i + n]
  PROVE  Once(t)
<1>1. \A i \in DOMAIN t : i \in Nat /\ i + n \in DOMAIN s /\ t[i] = s[i + n]
  OBVIOUS
<1>2. \A i \in DOMAIN t : Left(t, i) => leftAt[t[i].from] = 0
  BY <1>1 DEF Once, Left
<1>3. ASSUME NEW i \in DOMAIN t, NEW j \in DOMAIN t, Left(t, i), Left(t, j), t[i].from = t[j].from PROVE i = j
  <2>1. i + n = j + n
    BY <1>1, <1>3, SMTT(30) DEF Once, Left
  <2> QED
    BY <1>1, <2>1
<1> QED
  BY <1>2, <1>3, Zenon DEF Once

\* A frame that is no departure changes nothing, nor does one of somebody
\* there has not been one of.
LEMMA OnceAppend ==
  ASSUME NEW s \in Seq(AnyFrame), Once(s), NEW f,
         f.kind = "left" => /\ leftAt[f.from] = 0
                            /\ \A i \in DOMAIN s : Left(s, i) => s[i].from # f.from
  PROVE  Once(Append(s, f))
<1> DEFINE t == Append(s, f)
<1>1. \A i \in DOMAIN t : (i \in DOMAIN s /\ t[i] = s[i]) \/ (i = Len(s) + 1 /\ t[i] = f)
  OBVIOUS
<1> HIDE DEF t
<1>2. \A i \in DOMAIN t : Left(t, i) => leftAt[t[i].from] = 0
  BY <1>1, Zenon DEF Once, Left
<1>3. ASSUME NEW i \in DOMAIN t, NEW j \in DOMAIN t, Left(t, i), Left(t, j), t[i].from = t[j].from PROVE i = j
  BY <1>1, <1>3, Zenon DEF Once, Left
<1> QED
  BY <1>2, <1>3, Zenon DEF Once, t

\* The relay announces a departure once, as it takes the slot before.
LEMMA CountedStep ==
  ASSUME Types, Gone, Links, HostKeys, Counted, [Next]_vars
  PROVE  Counted'
<1> USE HostInP
<1> DEFINE s == down[Host]
<1>0. s \in Seq(AnyFrame) /\ down'[Host] \in Seq(AnyFrame) /\ Len(s) \in Nat
  BY TypesStep, SMTT(30) DEF Types
<1>1. ASSUME leftAt' = leftAt, minted' = minted, Once(down'[Host]) PROVE Counted'
  <2>1. Once(down[Host])'
    BY <1>1, Zenon DEF Once, Left
  <2>2. Departed' = Departed
    BY <1>1, Zenon DEF Departed
  <2> QED
    BY <1>1, <2>1, <2>2, Zenon DEF Counted
<1>2. ASSUME leftAt' = leftAt, minted' = minted, down'[Host] = s PROVE Counted'
  BY <1>1, <1>2, Zenon DEF Counted
<1>3. ASSUME s # <<>>, down' = [down EXCEPT ![Host] = Tail(@)] PROVE Once(down'[Host])
  <2>1. down'[Host] = Tail(s)
    BY <1>3, Zenon DEF Types
  <2>2. 1 \in 0..Len(s) /\ Len(Tail(s)) = Len(s) - 1 /\ Tail(s) \in Seq(AnyFrame)
        /\ \A i \in 1..Len(Tail(s)) : Tail(s)[i] = s[i + 1]
    BY <1>0, <1>3
  <2>3. Once(s)
    BY Zenon DEF Counted
  <2> DEFINE t == Tail(s)
  <2> HIDE DEF s, t
  <2>4. Once(t)
    BY <1>0, <2>2, <2>3, OnceSuffix, Zenon DEF t
  <2> QED
    BY <2>1, <2>4, Zenon DEF t
<1>4. ASSUME NEW p \in Members, p \in session, leftAt' = leftAt, minted' = minted,
             down'[Host] = Append(s, Direct("left", p, Host, 0))
      PROVE  Counted'
  <2> DEFINE f == Direct("left", p, Host, 0)
  <2>1. f.from = p
    BY Zenon DEF Direct
  <2>2. leftAt[p] = 0
    BY <1>4, Zenon DEF Gone
  <2>3. \A i \in DOMAIN s : Left(s, i) => s[i].from # p
    <3>1. \A i \in DOMAIN s : s[i] \in Departures
      BY DEF Gone
    <3> QED
      BY <1>4, <3>1, Zenon DEF Departures, Left
  <2>4. Once(s)
    BY Zenon DEF Counted
  <2> HIDE DEF f, s
  <2>5. Once(Append(s, f))
    BY <1>0, <2>1, <2>2, <2>3, <2>4, OnceAppend, Zenon
  <2> QED
    BY <1>1, <1>4, <2>5, Zenon DEF f
<1>5. ASSUME NEW p \in P, Route(p) PROVE Counted'
  <2> DEFINE f == Head(up[p])
  <2>1. UNCHANGED <<leftAt, minted>> /\ up[p] # <<>>
        /\ down' = [r \in P |-> IF r \in Delivers(f) THEN Append(down[r], f) ELSE down[r]]
    BY <1>5, Zenon DEF Route, hostVars
  <2>2. f \in FromClients
    BY <2>1, HeadFrame, Zenon DEF Gone
  <2>3. f.kind # "left"
    BY <2>2, Zenon DEF FromClients
  <2> HIDE DEF f
  <2>4. down'[Host] = s \/ down'[Host] = Append(s, f)
    BY <2>1, Zenon
  <2>5. Once(s)
    BY Zenon DEF Counted
  <2>6. Once(Append(s, f))
    BY <1>0, <2>3, <2>5, OnceAppend, Zenon
  <2> QED
    BY <1>1, <2>1, <2>4, <2>5, <2>6, Zenon
<1>6. ASSUME NEW p \in P, Drop(p) PROVE Counted'
  <2>1. UNCHANGED <<leftAt, minted>>
    BY <1>6, Zenon DEF Drop, hostVars
  <2>2. PICK n \in 0..Len(down[p]) : down' = [down EXCEPT ![p] = SubSeq(@, n + 1, Len(@))]
    BY <1>6, Zenon DEF Drop
  <2>3. CASE p # Host
    BY <1>2, <2>1, <2>2, <2>3, Zenon DEF Types
  <2>4. CASE p = Host
    <3> DEFINE t == SubSeq(s, n + 1, Len(s))
    <3>1. down'[Host] = t
      BY <2>2, <2>4, Zenon DEF Types
    <3>2. n \in 0..Len(s) /\ t \in Seq(AnyFrame) /\ Len(t) = Len(s) - n /\ \A i \in 1..Len(t) : t[i] = s[i + n]
      <4>1. n \in 0..Len(s)
        BY <2>2, <2>4, Zenon
      <4> HIDE DEF s
      <4> QED
        BY <1>0, <4>1, SuffixIs, Zenon
    <3>3. Once(s)
      BY Zenon DEF Counted
    <3> HIDE DEF s, t
    <3>4. Once(t)
      BY <1>0, <3>2, <3>3, OnceSuffix, Zenon
    <3> QED
      BY <1>1, <2>1, <3>1, <3>4, Zenon
  <2> QED
    BY <2>3, <2>4, Zenon
<1>7. ASSUME HandlePake1 \/ HostIgnores PROVE Counted'
  <2>1. UNCHANGED <<leftAt, minted>> /\ s # <<>> /\ down' = [down EXCEPT ![Host] = Tail(@)]
    BY <1>7, Zenon DEF HandlePake1, HostIgnores, HostReceives, Receive, hostVars
  <2> QED
    BY <1>1, <1>3, <2>1, Zenon
<1>8. CASE HandleLeft
  <2> DEFINE q == s[1].from
  <2>1. s # <<>> /\ down' = [down EXCEPT ![Host] = Tail(@)] /\ Head(s).kind = "left"
    BY <1>8, Zenon DEF HandleLeft, HostReceives, Receive
  <2>2. Head(s) = s[1] /\ 1 \in DOMAIN s /\ Left(s, 1)
    BY <1>0, <2>1 DEF Left
  <2>3. s[1] \in Departures
    BY <2>1, <2>2 DEF Gone
  <2>4. q \in Members /\ leftAt[q] = 0
    BY <2>2, <2>3, Zenon DEF Departures, Left, Counted, Once
  <2>5. leftAt' = [leftAt EXCEPT ![q] = minted] /\ (minted' = minted \/ minted' = minted + 1)
    BY <1>8, <2>2, Zenon DEF HandleLeft
  <2>6. minted \in Nat \ {0} /\ minted <= 1 + Cardinality(Departed)
    BY Zenon DEF Counted, Types
  <2> DEFINE t == down'[Host]
  <2>7. t \in Seq(AnyFrame) /\ \A i \in DOMAIN t : i + 1 \in DOMAIN s /\ i + 1 # 1 /\ t[i] = s[i + 1]
    <3>1. t = Tail(s)
      BY <2>1, Zenon DEF Types
    <3>2. \A i \in DOMAIN Tail(s) : i + 1 \in DOMAIN s /\ i + 1 # 1 /\ Tail(s)[i] = s[i + 1]
      BY <1>0, <2>1
    <3> QED
      BY <1>0, <3>1, <3>2, Zenon
  <2>8. Once(t)
    BY <1>3, <2>1, Zenon
  <2>9. \A i \in DOMAIN t : Left(t, i) => t[i].from # q
    BY <2>2, <2>7, Zenon DEF Counted, Once, Left
  <2>10. ASSUME NEW i \in DOMAIN t, Left(t, i) PROVE leftAt'[t[i].from] = 0
    <3>1. t[i].from # q /\ leftAt[t[i].from] = 0
      BY <2>8, <2>9, <2>10, Zenon DEF Once
    <3>2. t[i] \in Departures
      BY <2>7 DEF Gone
    <3>3. t[i].from \in Members
      BY <2>10, <3>2, Zenon DEF Departures, Left
    <3> QED
      BY <2>5, <3>1, <3>3, Zenon DEF Types
  <2> HIDE DEF q
  <2>11. Once(down[Host])'
    BY <2>8, <2>10, Zenon DEF Once, Left
  <2>12. Departed' = Departed \cup {q} /\ q \notin Departed
    <3>1. ASSUME NEW p \in Members PROVE leftAt'[p] # 0 <=> (leftAt[p] # 0 \/ p = q)
      BY <2>4, <2>5, <2>6, Zenon DEF Types
    <3> QED
      BY <2>4, <3>1, Zenon DEF Departed
  <2>13. IsFiniteSet(Departed)
    <3>1. Departed \subseteq Members
      BY Zenon DEF Departed
    <3> QED
      BY <3>1, FS_Subset, GroupAssumption, Zenon
  <2>14. Cardinality(Departed \cup {q}) = Cardinality(Departed) + 1 /\ Cardinality(Departed) \in Nat
    BY <2>12, <2>13, FS_AddElement, FS_CardinalityType, Zenon
  <2>15. Cardinality(Departed)' = Cardinality(Departed) + 1
    BY <2>12, <2>14, Zenon
  <2>16. minted' # 0 /\ minted' <= 1 + Cardinality(Departed)'
    BY <2>5, <2>6, <2>14, <2>15
  <2> QED
    BY <2>11, <2>16, Zenon DEF Counted
<1>9. ASSUME NEW p \in Members, Leave(p) \/ Evict(p) \/ GraceExpires(p) PROVE Counted'
  <2>1. UNCHANGED <<leftAt, minted>> /\ p \in session
    BY <1>9, Zenon DEF Leave, Evict, GraceExpires, hostVars
  <2>2. down' = Announce(p) \/ down' = [Announce(p) EXCEPT ![p] = <<>>]
    BY <1>9, Zenon DEF Leave, Evict, GraceExpires
  <2>3. down'[Host] = Append(s, Direct("left", p, Host, 0))
    BY <2>2, Zenon DEF Announce, Types
  <2> QED
    BY <1>4, <2>1, <2>3, Zenon
<1>10. ASSUME NEW p \in Members, Disconnect(p) \/ GiveUp(p) \/ Join(p) \/ Reads(p) PROVE Counted'
  <2>1. UNCHANGED <<leftAt, minted>>
    BY <1>10, Zenon DEF Disconnect, GiveUp, Join, Reads, SendPake1, DriveHandshake, MemberReads, hostVars
  <2>2. down'[Host] = s
    BY <1>10, Zenon DEF Disconnect, GiveUp, Join, Reads, SendPake1, DriveHandshake, MemberReads,
       Receive, Types
  <2> QED
    BY <1>2, <2>1, <2>2, Zenon
<1>11. ASSUME (\E p \in todo : SendRekey(p)) \/ SwapKey \/ (\E p \in P : Resume(p) \/ Seal(p) \/ WriteSealed(p))
              \/ UNCHANGED vars
       PROVE  Counted'
  <2>1. UNCHANGED <<leftAt, minted, down>>
    BY <1>11, Zenon DEF SendRekey, SwapKey, Resume, Seal, WriteSealed, hostVars, netVars, vars
  <2> QED
    BY <1>2, <2>1, Zenon
<1> QED
  BY <1>5, <1>6, <1>7, <1>8, <1>9, <1>10, <1>11, Zenon DEF Next, HostRuns

-----------------------------------------------------------------------------
(* The other bounds.                                                       *)

\* The host deals with members, and nobody is given a key that does not exist.
Bounds ==
  /\ pairwise \subseteq Members /\ todo \subseteq Members
  /\ \A p \in P : phase[p] = "keyed" => key[p] # 0
  /\ prev \in [P -> Seq(Nat \ {0})] /\ \A p \in P : Len(prev[p]) <= PrevKeyRing
  /\ first \in [P -> Nat] /\ \A p \in P : first[p] <= minted
  /\ \A p \in Members : leftAt[p] <= minted
  /\ sends \in 0..MaxSends /\ outages \subseteq P

\* Only members shake hands with the host.
LEMMA PairwiseStep ==
  ASSUME Types, Links, Bounds, [Next]_vars
  PROVE  pairwise' \subseteq Members /\ todo' \subseteq Members
<1> USE HostInP
<1>0. pairwise \subseteq Members /\ todo \subseteq Members
  BY Zenon DEF Bounds
<1>1. CASE HandlePake1
  <2> DEFINE f == Head(down[Host])
  <2>1. f \in ToHost /\ f.kind = "pake1"
    BY <1>1, HeadFrame, Zenon DEF HandlePake1, HostReceives, Receive, Links
  <2>2. pairwise' = pairwise \cup {f.from} /\ todo' = todo
    BY <1>1, Zenon DEF HandlePake1
  <2> HIDE DEF f
  <2>3. f.from \in Members
    BY <2>1, Zenon DEF ToHost
  <2> QED
    BY <1>0, <2>2, <2>3, Zenon
<1>2. CASE HandleLeft
  <2>1. pairwise' \subseteq pairwise /\ (todo' = todo \/ todo' = pairwise')
    BY <1>2, Zenon DEF HandleLeft
  <2> QED
    BY <1>0, <2>1, Zenon
<1>3. ASSUME NEW p \in todo, SendRekey(p) PROVE pairwise' = pairwise /\ todo' \subseteq todo
  BY <1>3, Zenon DEF SendRekey
<1>4. HostIgnores \/ SwapKey \/ UNCHANGED vars => pairwise' = pairwise /\ todo' = todo
  BY Zenon DEF HostIgnores, SwapKey, hostVars, vars
<1>5. ASSUME NEW p \in P, Route(p) \/ Drop(p) \/ Resume(p) \/ Seal(p) \/ WriteSealed(p)
      PROVE  pairwise' = pairwise /\ todo' = todo
  BY <1>5, Zenon DEF Route, Drop, Resume, Seal, WriteSealed, hostVars
<1>6. ASSUME NEW p \in Members, \/ Join(p) \/ Leave(p) \/ GiveUp(p)
                                \/ Evict(p) \/ Disconnect(p) \/ GraceExpires(p) \/ Reads(p)
      PROVE  pairwise' = pairwise /\ todo' = todo
  BY <1>6, Zenon DEF Join, Leave, GiveUp, Evict, Disconnect, GraceExpires, Reads, SendPake1,
     DriveHandshake, MemberReads,
              hostVars
<1> QED
  BY <1>0, <1>1, <1>2, <1>3, <1>4, <1>5, <1>6, Zenon DEF Next, HostRuns

\* pushPrevKeyLocked keeps to the size of the ring.
LEMMA PushedFits ==
  ASSUME NEW ring \in Seq(Nat \ {0}), NEW k \in Nat \ {0}
  PROVE  Pushed(ring, k) \in Seq(Nat \ {0}) /\ Len(Pushed(ring, k)) <= PrevKeyRing
<1> DEFINE all == <<k>> \o ring
           len == IF Len(ring) < PrevKeyRing THEN Len(ring) + 1 ELSE PrevKeyRing
<1>1. all \in Seq(Nat \ {0}) /\ Len(all) = Len(ring) + 1
  OBVIOUS
<1>2. len \in Nat /\ len <= Len(all) /\ len <= PrevKeyRing
  BY <1>1, GroupAssumption
<1>3. Pushed(ring, k) = SubSeq(all, 1, len)
  BY Zenon DEF Pushed
<1> HIDE DEF all, len
<1> QED
  BY <1>1, <1>2, <1>3

\* Who is keyed has a key, and had one before each it installs.
LEMMA KeyedStep ==
  ASSUME Types, Links, HostKeys, Bounds, [Next]_vars
  PROVE  /\ \A p \in P : phase'[p] = "keyed" => key'[p] # 0
         /\ prev' \in [P -> Seq(Nat \ {0})] /\ \A p \in P : Len(prev'[p]) <= PrevKeyRing
<1> USE HostInP
<1> DEFINE Good == /\ \A p \in P : phase'[p] = "keyed" => key'[p] # 0
                   /\ prev' \in [P -> Seq(Nat \ {0})] /\ \A p \in P : Len(prev'[p]) <= PrevKeyRing
<1>0. /\ \A p \in P : phase[p] = "keyed" => key[p] # 0
      /\ prev \in [P -> Seq(Nat \ {0})] /\ \A p \in P : Len(prev[p]) <= PrevKeyRing
      /\ phase \in [P -> Phases] /\ key \in [P -> Nat]
  BY Zenon DEF Bounds, Types
<1>1. ASSUME UNCHANGED <<key, prev>>, phase' = phase \/ \E p \in P, ph \in {"joining", "paired", "over"} : phase' = [phase EXCEPT ![p] = ph]
      PROVE  Good
  BY <1>0, <1>1, Zenon
<1>2. ASSUME NEW p \in P, NEW k \in Nat \ {0}, Install(p, k), phase' = phase, phase[p] = "keyed" PROVE Good
  <2>1. key' = [key EXCEPT ![p] = k] /\ prev' = [prev EXCEPT ![p] = Pushed(prev[p], key[p])]
    BY <1>2, Zenon DEF Install
  <2>2. Pushed(prev[p], key[p]) \in Seq(Nat \ {0}) /\ Len(Pushed(prev[p], key[p])) <= PrevKeyRing
    <3>1. prev[p] \in Seq(Nat \ {0}) /\ key[p] \in Nat \ {0}
      BY <1>0, <1>2, Zenon
    <3> QED
      BY <3>1, PushedFits, Zenon
  <2> QED
    BY <1>0, <1>2, <2>1, <2>2, Zenon
<1>3. ASSUME HostRuns PROVE Good
  <2>1. HandlePake1 \/ HandleLeft \/ HostIgnores \/ (\E p \in todo : SendRekey(p)) => UNCHANGED <<phase, key, prev>>
    BY Zenon DEF HandlePake1, HandleLeft, HostIgnores, SendRekey, keyVars
  <2>2. CASE SwapKey
    <3>1. Install(Host, fresh) /\ phase' = phase /\ fresh # 0
      BY <2>2, Zenon DEF SwapKey
    <3>2. fresh \in Nat /\ phase[Host] = "keyed"
      BY Zenon DEF Types, Links
    <3> QED
      BY <1>2, <3>1, <3>2, Zenon
  <2> QED
    BY <1>1, <1>3, <2>1, <2>2, Zenon DEF HostRuns
<1>4. ASSUME NEW p \in P, Route(p) \/ Drop(p) \/ Resume(p) \/ Seal(p) \/ WriteSealed(p) PROVE Good
  <2>1. UNCHANGED <<phase, key, prev>>
    BY <1>4, Zenon DEF Route, Drop, Resume, Seal, WriteSealed, keyVars
  <2> QED
    BY <1>1, <2>1, Zenon
<1>5. ASSUME NEW p \in Members, Join(p) \/ Leave(p) \/ GiveUp(p) \/ Evict(p) \/ Disconnect(p) \/ GraceExpires(p) \/ SendPake1(p)
      PROVE  Good
  <2>1. UNCHANGED <<key, prev>> /\ (phase' = phase \/ \E ph \in {"joining", "paired", "over"} : phase' = [phase EXCEPT ![p] = ph])
    BY <1>5, Zenon DEF Join, Leave, GiveUp, Evict, Disconnect, GraceExpires, SendPake1, keyVars
  <2> QED
    BY <1>1, <2>1, Zenon
<1>6. ASSUME NEW p \in Members, down[p] # <<>>, Head(down[p]).kind \in {"groupkey", "rekey"}
      PROVE  Head(down[p]).key \in Nat \ {0}
  <2> DEFINE f == Head(down[p])
  <2>1. f \in ToMember(p)
    BY <1>6, HeadFrame, Zenon DEF Links
  <2> HIDE DEF f
  <2>2. f.key \in Nat \ {0}
    BY <1>6, <2>1, Zenon DEF ToMember, HasKey, AnyFrame, f
  <2> QED
    BY <2>2, Zenon DEF f
<1>7. ASSUME NEW p \in Members, DriveHandshake(p) PROVE Good
  <2> DEFINE f == Head(down[p])
  <2>1. down[p] # <<>>
    BY <1>7, Zenon DEF DriveHandshake, Receive
  <2>2. CASE f.kind = "groupkey" /\ phase[p] = "paired"
    <3>1. f.key \in Nat \ {0}
      BY <1>6, <2>1, <2>2, Zenon
    <3>2. phase' = [phase EXCEPT ![p] = "keyed"] /\ key' = [key EXCEPT ![p] = f.key] /\ prev' = prev
      BY <1>7, <2>2, Zenon DEF DriveHandshake
    <3> HIDE DEF f
    <3> QED
      BY <1>0, <3>1, <3>2, Zenon
  <2>3. CASE ~(f.kind = "groupkey" /\ phase[p] = "paired")
    <3>1. UNCHANGED <<key, prev>> /\ (phase' = phase \/ \E ph \in {"joining", "paired", "over"} : phase' = [phase EXCEPT ![p] = ph])
      BY <1>7, <2>3, Zenon DEF DriveHandshake, keyVars
    <3> QED
      BY <1>1, <3>1, Zenon
  <2> QED
    BY <2>2, <2>3, Zenon
<1>8. ASSUME NEW p \in Members, MemberReads(p) PROVE Good
  <2>1. down[p] # <<>> /\ phase' = phase /\ phase[p] = "keyed"
    BY <1>8, Zenon DEF MemberReads, Receive
  <2>2. CASE Head(down[p]).kind = "rekey"
    BY <1>2, <1>6, <1>8, <2>1, <2>2, Zenon DEF MemberReads
  <2>3. CASE Head(down[p]).kind # "rekey"
    BY <1>1, <1>8, <2>1, <2>3, Zenon DEF MemberReads
  <2> QED
    BY <2>2, <2>3, Zenon
<1>9. ASSUME UNCHANGED vars PROVE Good
  <2>1. UNCHANGED <<phase, key, prev>>
    BY <1>9, Zenon DEF vars, keyVars
  <2> QED
    BY <1>1, <2>1, Zenon
<1> HIDE DEF Good
<1>10. Good
  BY <1>3, <1>4, <1>5, <1>7, <1>8, <1>9, Zenon DEF Next, Reads
<1> QED
  BY <1>10, Zenon DEF Good

\* What the history records are keys the host has made.
LEMMA HistoryStep ==
  ASSUME Types, Minted, Bounds, [Next]_vars
  PROVE  /\ \A p \in P : first'[p] <= minted'
         /\ \A p \in Members : leftAt'[p] <= minted'
<1> USE HostInP
<1>0. /\ \A p \in P : first[p] <= minted /\ first[p] \in Nat
      /\ \A p \in Members : leftAt[p] <= minted /\ leftAt[p] \in Nat
      /\ minted \in Nat /\ first \in [P -> Nat] /\ leftAt \in [Members -> Nat]
  BY Zenon DEF Bounds, Types
<1>1. UNCHANGED <<first, leftAt, minted>> =>
        (\A p \in P : first'[p] <= minted') /\ (\A p \in Members : leftAt'[p] <= minted')
  BY <1>0, Zenon
<1>2. CASE HandleLeft
  <2>1. /\ first' = first /\ (minted' = minted \/ minted' = minted + 1)
        /\ \E q : leftAt' = [leftAt EXCEPT ![q] = minted]
    BY <1>2, Zenon DEF HandleLeft, keyVars
  <2> QED
    BY <1>0, <2>1
<1>3. ASSUME NEW q \in Members, DriveHandshake(q)
      PROVE  (\A p \in P : first'[p] <= minted') /\ (\A p \in Members : leftAt'[p] <= minted')
  <2> DEFINE f == Head(down[q])
  <2>1. f \in Upto(minted)
    BY <1>3, HeadFrame, Zenon DEF DriveHandshake, Receive, Minted
  <2>2. UNCHANGED <<leftAt, minted>> /\ (first' = first \/ first' = [first EXCEPT ![q] = f.key])
    BY <1>3, Zenon DEF DriveHandshake, hostVars, keyVars
  <2> HIDE DEF f
  <2>3. f.key \in 0..minted
    BY <1>0, <2>1, UptoKey, Zenon
  <2> QED
    BY <1>0, <2>2, <2>3
<1>4. \A q \in Members : SendPake1(q) \/ MemberReads(q) => UNCHANGED <<first, leftAt, minted>>
  BY Zenon DEF SendPake1, MemberReads, keyVars, hostVars
<1>5. HandlePake1 \/ HostIgnores \/ (\E q \in todo : SendRekey(q)) \/ SwapKey \/ UNCHANGED vars => UNCHANGED <<first, leftAt, minted>>
  BY Zenon DEF HandlePake1, HostIgnores, SendRekey, SwapKey, keyVars, hostVars, vars
<1>6. \A q \in P : Route(q) \/ Drop(q) \/ Resume(q) \/ Seal(q) \/ WriteSealed(q) => UNCHANGED <<first, leftAt, minted>>
  BY Zenon DEF Route, Drop, Resume, Seal, WriteSealed, keyVars, hostVars
<1>7. \A q \in Members : Join(q) \/ Leave(q) \/ GiveUp(q) \/ Evict(q) \/ Disconnect(q) \/ GraceExpires(q) => UNCHANGED <<first, leftAt, minted>>
  BY Zenon DEF Join, Leave, GiveUp, Evict, Disconnect, GraceExpires, keyVars, hostVars
<1> QED
  BY <1>1, <1>2, <1>3, <1>4, <1>5, <1>6, <1>7, Zenon DEF Next, Reads, HostRuns

\* No more is sent and no more links drop than the bounds say.
LEMMA SendsStep ==
  ASSUME sends \in 0..MaxSends, outages \subseteq P, [Next]_vars
  PROVE  sends' \in 0..MaxSends /\ outages' \subseteq P
<1>1. ASSUME NEW p \in P, Seal(p) PROVE sends' \in 0..MaxSends /\ outages' \subseteq P
  <2>1. sends' = sends + 1 /\ sends < MaxSends /\ outages' = outages
    BY <1>1, Zenon DEF Seal
  <2> QED
    BY <2>1, GroupAssumption
<1>2. ASSUME NEW p \in P, Drop(p) PROVE sends' = sends /\ outages' \subseteq P
  BY <1>2, Zenon DEF Drop, sendVars
<1>3. HostRuns \/ UNCHANGED vars => UNCHANGED <<sends, outages>>
  BY Zenon DEF HostRuns, HandlePake1, HandleLeft, HostIgnores, SendRekey, SwapKey, sendVars, vars
<1>4. \A p \in P : Route(p) \/ Resume(p) \/ WriteSealed(p) => UNCHANGED <<sends, outages>>
  BY Zenon DEF Route, Resume, WriteSealed, sendVars
<1>5. \A p \in Members : Join(p) \/ Leave(p) \/ GiveUp(p) \/ Evict(p) \/ Disconnect(p) \/ GraceExpires(p)
                           => UNCHANGED <<sends, outages>>
  BY Zenon DEF Join, Leave, GiveUp, Evict, Disconnect, GraceExpires, sendVars
<1>6. \A p \in Members : Reads(p) => UNCHANGED <<sends, outages>>
  BY Zenon DEF Reads, SendPake1, DriveHandshake, MemberReads, sendVars
<1> QED
  BY <1>1, <1>2, <1>3, <1>4, <1>5, <1>6, Zenon DEF Next

\* So the bounds hold after each step.
LEMMA BoundsStep ==
  ASSUME Types, Links, HostKeys, Minted, Bounds, [Next]_vars
  PROVE  Bounds'
<1>1. first' \in [P -> Nat]
  BY FirstType, Zenon DEF Bounds
<1>2. sends' \in 0..MaxSends /\ outages' \subseteq P
  BY SendsStep, Zenon DEF Bounds
<1> QED
  BY <1>1, <1>2, PairwiseStep, KeyedStep, HistoryStep, Zenon DEF Bounds

\* They do at first.
LEMMA BoundsInit == Init => Counted /\ Bounds
<1> SUFFICES ASSUME Init PROVE Counted /\ Bounds
  BY Zenon
<1>1. Bounds
  <2>1. /\ pairwise = {} /\ todo = {} /\ sends = 0 /\ outages = {} /\ minted = 1
        /\ leftAt = [p \in Members |-> 0] /\ prev = [p \in P |-> <<>>]
    BY Zenon DEF Init
  <2>2. first = [p \in P |-> IF p = Host THEN 1 ELSE 0] /\ key = first
        /\ phase = [p \in P |-> IF p = Host THEN "keyed" ELSE "out"]
    BY Zenon DEF Init
  <2> QED
    BY <2>1, <2>2, GroupAssumption DEF Bounds
<1>2. Counted
  <2>1. Once(down[Host]) /\ minted = 1
    BY HostInP DEF Init, Once
  <2>2. Departed = {}
    BY Zenon DEF Init, Departed
  <2>3. Cardinality(Departed) = 0
    BY <2>2, FS_EmptySet, Zenon
  <2> QED
    BY <2>1, <2>3 DEF Counted
<1> QED
  BY <1>1, <1>2, Zenon

\* rekeyAfterLeave: one key for each departure at most, no client with a key
\* that has not been made, and no ring fuller than pushPrevKeyLocked allows.
THEOREM GroupKeyTypes == Spec => []TypeOK
<1> DEFINE Inv == Types /\ Gone /\ Links /\ HostKeys /\ Minted /\ Counted /\ Bounds
<1>1. Init => Inv
  BY TypesInit, GoneInit, LinksInit, HostKeysInit, MintedInit, BoundsInit, Zenon
<1>2. Inv /\ [Next]_vars => Inv'
  BY TypesStep, GoneStep, LinksStep, HostKeysStep, MintedStep, CountedStep, BoundsStep, Zenon
<1>3. Inv => TypeOK
  <2> SUFFICES ASSUME Inv PROVE TypeOK
    BY Zenon
  <2>1. minted \in 1..MaxKey /\ MaxKey \in Nat
    <3>1. Departed \in SUBSET Members
      BY Zenon DEF Departed
    <3>2. Cardinality(Departed) \in Nat /\ Cardinality(Members) \in Nat /\ Cardinality(Departed) <= Cardinality(Members)
      BY <3>1, FS_Subset, FS_CardinalityType, GroupAssumption, Zenon
    <3> QED
      BY <3>2 DEF Counted, Types, MaxKey
  <2>2. up \in [P -> Seq(Frame)] /\ down \in [P -> Seq(Frame)]
    <3>1. \A f \in Upto(minted) : f \in Frame
      BY <2>1 DEF Upto, AnyFrame, Frame, Kinds
    <3>2. Seq(Upto(minted)) \subseteq Seq(Frame)
      BY <3>1, SeqGrows, Zenon
    <3> QED
      BY <3>2, Zenon DEF Minted, Types
  <2>3. key \in [P -> 0..minted] /\ sealed \in [P -> 0..minted] /\ fresh \in 0..minted
    BY DEF Minted, Types
  <2>4. first \in [P -> 0..minted] /\ leftAt \in [Members -> 0..minted]
    BY DEF Bounds, Types
  <2>5. prev \in [P -> Seq(1..minted)]
    <3>1. ASSUME NEW p \in P PROVE prev[p] \in Seq(1..minted)
      <4>1. prev[p] \in Seq(0..minted) /\ prev[p] \in Seq(Nat \ {0})
        BY Zenon DEF Minted, Bounds
      <4> QED
        BY <4>1 DEF Types
    <3> QED
      BY <3>1, Zenon DEF Types
  <2>6. phase \in [P -> {"out", "joining", "paired", "keyed", "over"}] /\ session \subseteq P /\ linked \subseteq P
    BY Zenon DEF Types, Phases
  <2> QED
    BY <2>1, <2>2, <2>3, <2>4, <2>5, <2>6, Zenon DEF TypeOK, Bounds
<1> QED
  BY <1>1, <1>2, <1>3, PTL DEF Spec
==============================================================================
