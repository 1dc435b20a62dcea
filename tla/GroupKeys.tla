------------------------------ MODULE GroupKeys ------------------------------
(***************************************************************************)
(* The group key of a session (session/client.go, session/handshake.go):   *)
(* the host hands it to every joiner through a PAKE exchange and replaces  *)
(* it when somebody leaves, while both sides keep sending sealed frames.   *)
(*                                                                         *)
(* Every client runs two goroutines that matter here.  Its read loop       *)
(* handles one frame at a time; rekeyAfterLeave runs on it.  Another       *)
(* goroutine seals frames (reading the key under the lock) and then writes *)
(* them, so the key may change in between.                                 *)
(*                                                                         *)
(* The relay is seen through what it promises (module RelayHub): links are *)
(* FIFO, a Direct to somebody without a slot is refused, every departure   *)
(* is announced, and an outage loses what was in flight on that link.  The *)
(* host keeps its role; module Migration has one that changes.             *)
(***************************************************************************)
EXTENDS Integers, Sequences, FiniteSets, Functions

CONSTANTS
  Host,
  Members,       \* who may join
  PrevKeyRing,   \* superseded keys a client keeps
  MaxSends,      \* bound: sealed frames sent
  MaxOutages     \* bound: participants whose link ever drops

P      == Members \cup {Host}
MaxKey == 1 + Cardinality(Members)   \* one key per departure suffices

ASSUME GroupAssumption ==
  /\ IsFiniteSet(Members) /\ Host \notin Members
  /\ PrevKeyRing \in Nat \ {0}
  /\ MaxSends \in Nat /\ MaxOutages \in Nat

VARIABLES
  session,    \* relay: who has a slot
  linked,     \* who has a working connection
  up, down,   \* per participant: frames to and from the relay
  phase,      \* how far the client is
  key,        \* client.groupKey, numbered in the order they were made
  prev,       \* client.prevKeys, newest first
  pairwise,   \* host: whom it shares a pairwise key with
  minted,     \* how many keys the host has made
  fresh,      \* host: the key rekeyAfterLeave is handing out, or 0
  todo,       \* host: who has yet to be sent it
  sealed,     \* the key of a frame that is sealed but not yet written, or 0
  sends,
  first,      \* history: the key a client was given when it joined
  leftAt,     \* history: how many keys there were when the host heard of a departure
  outages     \* history: whose link dropped

netVars  == <<session, linked, up, down>>
keyVars  == <<phase, key, prev, first>>
hostVars == <<pairwise, minted, fresh, todo, leftAt>>
sendVars == <<sealed, sends>>
vars     == <<netVars, keyVars, hostVars, sendVars, outages>>

\* "result" and "left" come from the relay itself.
Frame == [kind : {"result", "left", "pake1", "pake2", "groupkey", "rekey", "sealed"},
          from : P, to : SUBSET P, key : 0..MaxKey]
Direct(k, p, q, n) == [kind |-> k, from |-> p, to |-> {q}, key |-> n]
ToAll(k, p, n)     == [kind |-> k, from |-> p, to |-> P \ {p}, key |-> n]

Keys(p) == {key[p]} \cup Range(prev[p])

\* Types.  A client holds no more superseded keys than the ring has room for,
\* and no key the host has not made.
TypeOK ==
  /\ session \subseteq P /\ linked \subseteq P
  /\ up \in [P -> Seq(Frame)] /\ down \in [P -> Seq(Frame)]
  /\ phase \in [P -> {"out", "joining", "paired", "keyed", "over"}]
  /\ key \in [P -> 0..minted] /\ first \in [P -> 0..minted]
  /\ prev \in [P -> Seq(1..minted)] /\ \A p \in P : Len(prev[p]) <= PrevKeyRing
  /\ pairwise \subseteq Members /\ todo \subseteq Members
  /\ minted \in 1..MaxKey /\ fresh \in 0..minted
  /\ leftAt \in [Members -> 0..minted]
  /\ sealed \in [P -> 0..minted] /\ sends \in 0..MaxSends
  /\ outages \subseteq P

\* hostHello is over: the host has made the first key.
Init ==
  /\ session = {Host} /\ linked = {Host}
  /\ up = [p \in P |-> <<>>] /\ down = [p \in P |-> <<>>]
  /\ phase = [p \in P |-> IF p = Host THEN "keyed" ELSE "out"]
  /\ key = [p \in P |-> IF p = Host THEN 1 ELSE 0] /\ first = key
  /\ prev = [p \in P |-> <<>>]
  /\ pairwise = {} /\ todo = {} /\ minted = 1 /\ fresh = 0
  /\ leftAt = [p \in Members |-> 0]
  /\ sealed = [p \in P |-> 0] /\ sends = 0
  /\ outages = {}

-----------------------------------------------------------------------------
(* The relay.                                                              *)

\* A participant without a working link writes into the void.
Writes(p, fs) == up' = [up EXCEPT ![p] = IF p \in linked THEN @ \o fs ELSE @]

\* ParticipantLeft.  Members get it too, but only the host does anything with
\* it here (rekeyAfterLeave returns early for the others).
Announce(p) == [down EXCEPT ![Host] = Append(@, Direct("left", p, Host, 0))]

DeliversToAnybody(f) == f.to

\* Who gets a frame: a Direct to somebody without a slot is refused.
Delivers(f) == session \cap f.to

Route(p) ==
  LET f == Head(up[p]) IN
  /\ up[p] # <<>>
  /\ up' = [up EXCEPT ![p] = Tail(@)]
  /\ down' = [q \in P |-> IF q \in Delivers(f) THEN Append(down[q], f) ELSE down[q]]
  /\ UNCHANGED <<session, linked, keyVars, hostVars, sendVars, outages>>

\* joinRequest; the JoinResult leads.
Join(p) ==
  /\ phase[p] = "out"
  /\ phase' = [phase EXCEPT ![p] = "joining"]
  /\ session' = session \cup {p} /\ linked' = linked \cup {p}
  /\ down' = [down EXCEPT ![p] = <<Direct("result", Host, p, 0)>>]
  /\ UNCHANGED <<up, key, prev, first, hostVars, sendVars, outages>>

\* Close: a clean leave, which the relay handles after everything p wrote.
Leave(p) ==
  /\ p \in session \cap linked /\ phase[p] = "keyed" /\ up[p] = <<>>
  /\ session' = session \ {p} /\ linked' = linked \ {p}
  /\ phase' = [phase EXCEPT ![p] = "over"]
  /\ sealed' = [sealed EXCEPT ![p] = 0]
  /\ down' = [Announce(p) EXCEPT ![p] = <<>>]
  /\ UNCHANGED <<up, key, prev, first, hostVars, sends, outages>>

\* The relay gives up on a slow consumer.  What p has written is still routed,
\* what was queued for it still arrives, until the connection is closed.
Evict(p) ==
  /\ p \in session \cap linked
  /\ session' = session \ {p}
  /\ down' = Announce(p)
  /\ UNCHANGED <<linked, up, keyVars, hostVars, sendVars, outages>>

Disconnect(p) ==
  /\ p \in linked \ session
  /\ linked' = linked \ {p}
  /\ phase' = [phase EXCEPT ![p] = "over"]
  /\ up' = [up EXCEPT ![p] = <<>>] /\ down' = [down EXCEPT ![p] = <<>>]
  /\ sealed' = [sealed EXCEPT ![p] = 0]
  /\ UNCHANGED <<session, key, prev, first, hostVars, sends, outages>>

\* The link fails and the relay holds the slot: what was in flight is lost,
\* what the relay had not sent yet and what comes from now on is kept.
Drop(p) ==
  /\ p \in session \cap linked /\ phase[p] = "keyed"
  /\ outages' = outages \cup {p} /\ Cardinality(outages') <= MaxOutages
  /\ linked' = linked \ {p}
  /\ up' = [up EXCEPT ![p] = <<>>]
  /\ \E n \in 0..Len(down[p]) : down' = [down EXCEPT ![p] = SubSeq(@, n + 1, Len(@))]
  /\ UNCHANGED <<session, keyVars, hostVars, sendVars>>

\* Join fails half-way, because the connection is lost or its context ends
\* first: the client is abandoned, the relay holds its slot for a while.
GiveUp(p) ==
  /\ p \in session \cap linked /\ phase[p] \in {"joining", "paired"}
  /\ linked' = linked \ {p}
  /\ phase' = [phase EXCEPT ![p] = "over"]
  /\ up' = [up EXCEPT ![p] = <<>>] /\ down' = [down EXCEPT ![p] = <<>>]
  /\ UNCHANGED <<session, key, prev, first, hostVars, sendVars, outages>>

\* Reconnect, once the old read loop has ended.
Resume(p) ==
  /\ p \in session \ linked /\ phase[p] = "keyed"
  /\ p = Host => fresh = 0
  /\ linked' = linked \cup {p}
  /\ UNCHANGED <<session, up, down, keyVars, hostVars, sendVars, outages>>

GraceExpires(p) ==
  /\ p \in session \ linked
  /\ session' = session \ {p}
  /\ phase' = [phase EXCEPT ![p] = "over"]
  /\ sealed' = [sealed EXCEPT ![p] = 0]
  /\ down' = [Announce(p) EXCEPT ![p] = <<>>]
  /\ UNCHANGED <<linked, up, key, prev, first, hostVars, sends, outages>>

-----------------------------------------------------------------------------
(* The clients' read loops.                                                *)

Receive(p) ==
  /\ p \in linked /\ down[p] # <<>>
  /\ down' = [down EXCEPT ![p] = Tail(@)]

PushedUnbounded(ring, k) == <<k>> \o ring
PushedNothing(ring, k)   == ring

\* pushPrevKeyLocked.
Pushed(ring, k) == SubSeq(<<k>> \o ring, 1, IF Len(ring) < PrevKeyRing THEN Len(ring) + 1 ELSE PrevKeyRing)

Install(p, k) ==
  /\ key' = [key EXCEPT ![p] = k]
  /\ prev' = [prev EXCEPT ![p] = Pushed(@, key[p])]

\* sendPake1.
SendPake1(p) ==
  /\ Receive(p) /\ phase[p] = "joining" /\ Head(down[p]).kind = "result"
  /\ Writes(p, <<Direct("pake1", p, Host, 0)>>)
  /\ UNCHANGED <<session, linked, keyVars, hostVars, sendVars, outages>>

\* joinDriveHandshake, joinHandleDirect: everything but the host's two
\* handshake frames is skipped; a group key out of order fails the join.
DriveHandshake(p) ==
  LET f == Head(down[p]) IN
  /\ Receive(p) /\ phase[p] \in {"joining", "paired"} /\ f.kind # "result"
  /\ \/ /\ f.kind = "pake2"
        /\ phase' = [phase EXCEPT ![p] = "paired"]
        /\ UNCHANGED <<key, prev, first>>
     \/ /\ f.kind = "groupkey" /\ phase[p] = "paired"
        /\ phase' = [phase EXCEPT ![p] = "keyed"]
        /\ key' = [key EXCEPT ![p] = f.key] /\ first' = [first EXCEPT ![p] = f.key]
        /\ UNCHANGED prev
     \/ /\ f.kind = "groupkey" /\ phase[p] = "joining"
        /\ phase' = [phase EXCEPT ![p] = "over"]
        /\ UNCHANGED <<key, prev, first>>
     \/ f.kind \notin {"pake2", "groupkey"} /\ UNCHANGED keyVars
  /\ UNCHANGED <<session, linked, up, hostVars, sendVars, outages>>

\* dispatchFrame and handlePayload of a member: it installs a rekey
\* (handleRekey); sealed frames are opened or dropped, the rest is ignored.
MemberReads(p) ==
  LET f == Head(down[p]) IN
  /\ p # Host /\ Receive(p) /\ phase[p] = "keyed"
  /\ IF f.kind = "rekey" THEN Install(p, f.key) ELSE UNCHANGED <<key, prev>>
  /\ UNCHANGED <<session, linked, up, phase, first, hostVars, sendVars, outages>>

-----------------------------------------------------------------------------
(* The host's read loop; it is busy while it hands out a new key.          *)

HostReceives(k) == fresh = 0 /\ Receive(Host) /\ Head(down[Host]).kind = k

ReplyFirstKey(p) == <<Direct("pake2", Host, p, 0), Direct("groupkey", Host, p, 1)>>

ReplyWithoutKey(p) == <<Direct("pake2", Host, p, 0)>>

\* The reply, then the current key.
Reply(p) == <<Direct("pake2", Host, p, 0), Direct("groupkey", Host, p, key[Host])>>

\* handleHandshakeDirect.  What another goroutine may write between the two
\* frames is sealed, and the joiner skips it.
HandlePake1 ==
  LET p == Head(down[Host]).from IN
  /\ HostReceives("pake1")
  /\ pairwise' = pairwise \cup {p}
  /\ Writes(Host, Reply(p))
  /\ UNCHANGED <<session, linked, keyVars, minted, fresh, todo, leftAt, sendVars, outages>>

\* ParticipantLeft: forget p's pairwise key, and begin rekeyAfterLeave if
\* there is anybody to give a new key to.
HandleLeft ==
  LET p    == Head(down[Host]).from
      rest == pairwise \ {p}
  IN
  /\ HostReceives("left")
  /\ pairwise' = rest
  /\ leftAt' = [leftAt EXCEPT ![p] = minted]
  /\ \/ rest = {} /\ UNCHANGED <<minted, fresh, todo>>
     \/ /\ rest # {}
        /\ minted' = minted + 1 /\ fresh' = minted + 1 /\ todo' = rest
  /\ UNCHANGED <<session, linked, up, keyVars, sendVars, outages>>

HostIgnores ==
  /\ HostReceives("sealed")
  /\ UNCHANGED <<session, linked, up, keyVars, hostVars, sendVars, outages>>

\* A failed write is not noticed.
SendRekey(p) ==
  /\ p \in todo
  /\ Writes(Host, <<Direct("rekey", Host, p, fresh)>>)
  /\ todo' = todo \ {p}
  /\ UNCHANGED <<session, linked, down, keyVars, pairwise, minted, fresh, leftAt, sendVars, outages>>

\* Only now does the host seal under the new key itself.
SwapKey ==
  /\ fresh # 0 /\ todo = {}
  /\ Install(Host, fresh)
  /\ fresh' = 0
  /\ UNCHANGED <<netVars, phase, first, pairwise, minted, todo, leftAt, sendVars, outages>>

-----------------------------------------------------------------------------
(* Sealed frames, from any goroutine.                                      *)

Seal(p) ==
  /\ phase[p] = "keyed" /\ sealed[p] = 0 /\ sends < MaxSends
  /\ sealed' = [sealed EXCEPT ![p] = key[p]] /\ sends' = sends + 1
  /\ UNCHANGED <<netVars, keyVars, hostVars, outages>>

WriteSealed(p) ==
  /\ sealed[p] # 0
  /\ Writes(p, <<ToAll("sealed", p, sealed[p])>>)
  /\ sealed' = [sealed EXCEPT ![p] = 0]
  /\ UNCHANGED <<session, linked, down, keyVars, hostVars, sends, outages>>

-----------------------------------------------------------------------------
Reads(p) ==
  \/ SendPake1(p) \/ DriveHandshake(p) \/ MemberReads(p)

HostRuns == HandlePake1 \/ HandleLeft \/ HostIgnores \/ (\E p \in todo : SendRekey(p)) \/ SwapKey

Next ==
  \/ HostRuns
  \/ \E p \in P : Route(p) \/ Drop(p) \/ Resume(p) \/ Seal(p) \/ WriteSealed(p)
  \/ \E p \in Members : Join(p) \/ Leave(p) \/ GiveUp(p)
                       \/ Evict(p) \/ Disconnect(p) \/ GraceExpires(p) \/ Reads(p)

Spec == Init /\ [][Next]_vars

\* The read loops, the relay and the closing of an evicted connection go on;
\* nobody has to join, leave or send.
Fairness ==
  /\ WF_vars(HostRuns)
  /\ \A p \in P : WF_vars(Route(p))
  /\ \A p \in Members : WF_vars(Reads(p)) /\ WF_vars(Disconnect(p))

FairSpec == Spec /\ Fairness

-----------------------------------------------------------------------------
(* Properties.                                                             *)

\* The link from the host to p never failed.
Steady(p) == {p, Host} \cap outages = {}

\* How far p is, and its key, once it has read f.  It has missed something if
\* a key is not the next one, or the host used one it has yet to hand out.
After(c, p, f) ==
  CASE c.phase \in {"joining", "paired"} /\ f.kind = "pake2" /\ f.to = {p}    -> [c EXCEPT !.phase = "paired"]
    [] c.phase \in {"joining", "paired"} /\ f.kind = "groupkey" /\ f.to = {p} ->
         IF c.phase = "paired" THEN [phase |-> "keyed", key |-> f.key] ELSE [c EXCEPT !.phase = "over"]
    [] c.phase = "keyed" /\ f.kind = "rekey" /\ f.to = {p}     ->
         IF f.key = c.key + 1 THEN [c EXCEPT !.key = f.key] ELSE [c EXCEPT !.phase = "missed"]
    [] c.phase = "keyed" /\ f.kind = "sealed" /\ f.from = Host ->
         IF f.key <= c.key THEN c ELSE [c EXCEPT !.phase = "missed"]
    [] OTHER -> c

AfterAll(c, p, s) ==
  LET will[k \in 0..Len(s)] == IF k = 0 THEN c ELSE After(will[k - 1], p, s[k])
  IN  will[Len(s)]

\* Once it has read all that is on its way to it: queued at the relay, or
\* behind that on the host's link.
Will(p) == AfterAll([phase |-> phase[p], key |-> key[p]], p, down[p] \o up[Host])

\* Survivors converge: whoever the host answered or is keyed will have read
\* every key in turn, each before the host used it, up to the one the host has
\* or is about to have (unless that one is still to be written), whatever
\* joins, leaves and evictions are in progress.
KeyOnItsWay ==
  \A p \in Members \cap session :
    Steady(p) /\ phase[p] # "over" /\ (p \in pairwise \/ phase[p] = "keyed") =>
      Will(p) = [phase |-> "keyed",
                 key   |-> IF p \in todo THEN fresh - 1 ELSE IF fresh # 0 THEN fresh ELSE key[Host]]

\* What a keyed client reads it can open: from the host always (it hands a
\* key out before it uses it), from others unless they are ahead of it, and
\* frames under a superseded key as long as the ring reaches back.
FramesOpen ==
  \A p \in Members :
    phase[p] = "keyed" /\ p \in session /\ Steady(p) /\ down[p] # <<>> /\ Head(down[p]).kind = "sealed" =>
      LET f == Head(down[p]) IN
      first[p] <= f.key /\ key[p] - f.key <= PrevKeyRing /\ (f.from # Host => f.key <= key[p])
        => f.key \in Keys(p)

\* A key made after the host heard that somebody left never reaches them,
\* although the host may answer a handshake of theirs that was still queued.
LeaverGetsNoNewKey ==
  \A p \in Members :
    leftAt[p] # 0 =>
      /\ \A k \in Keys(p) : k <= leftAt[p]
      /\ \A i \in DOMAIN down[p] : down[p][i].key <= leftAt[p]

\* A join that the relay admitted comes to an end, as long as links hold.
JoinEnds ==
  \A p \in Members :
    phase[p] \in {"joining", "paired"} ~> phase[p] \in {"keyed", "over"} \/ ~Steady(p)
=============================================================================
