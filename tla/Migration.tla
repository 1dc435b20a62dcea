------------------------------ MODULE Migration ------------------------------
(***************************************************************************)
(* Host migration: what the survivors do when the host of a session        *)
(* departs, with nobody to coordinate them.  Each elects a successor from  *)
(* its own copy of the roster (service/ctl.go, maybeMigrate in             *)
(* service/mux.go).  The successor mints a new group key, takes over the   *)
(* roster and claims the host role at the relay; the others run a second   *)
(* PAKE with it to fetch the key (session/client.go, handshake.go).        *)
(*                                                                         *)
(* A client is two goroutines: the read loop handles keys itself and hands *)
(* everything else through client.events to the mux goroutine, which       *)
(* migrates.  Frames that matter to both are handled at different times,   *)
(* and maybeMigrate takes the client's lock several times.                 *)
(*                                                                         *)
(* The relay is module RelayHub's: one order of frames for all receivers,  *)
(* a departure announced to whoever stays, a Direct to nobody refused.  A  *)
(* frame is routed when it is written: a slow uplink is a slow writer.  A  *)
(* departure is final (RelayHub and GroupKeys have outages), and there are *)
(* fewer key changes here than prevKeyRing has places.                     *)
(***************************************************************************)
EXTENDS Integers, Sequences, FiniteSets, FiniteSetsExt, Functions

CONSTANTS
  Seated,      \* participants 1..Seated are keyed at the start; 1 is the host
  N,           \* bound: participants, those who join later included
  Observers,   \* who asked to observe
  MaxLeaves    \* bound: departures

P == 1..N

ASSUME MigrationAssumption ==
  /\ Seated \in 1..N /\ N \in Nat
  /\ Observers \subseteq P \ {1}
  /\ MaxLeaves \in Nat

VARIABLES
  session,       \* relay: who has a slot
  relayHost,     \* relay: hub.host
  down,          \* frames on their way to a client
  leaves,
  phase,         \* how far a client is
  role, hostID,  \* client.role, client.hostID
  key,           \* client.groupKey, numbered in the order they were made
  prev,          \* client.prevKeys
  pairwise,      \* client.pairwise: with whom
  hostPairwise,  \* client.hostPairwise: with which host, or 0
  rekeying,      \* clients with a rekeyJoiner in flight
  fresh,         \* the key rekeyAfterLeave has sent and not yet installed, or 0
  minted,
  events,        \* client.events: from the read loop to the mux
  roster,        \* ctl.roster
  mux,           \* where maybeMigrate is
  early,         \* history: survivors whose request came before the host was ready
  straddled      \* history: hosts promoted in the middle of a rekeyAfterLeave

netVars  == <<session, relayHost, down, leaves>>
hostVars == <<role, hostID>>
keyVars  == <<key, prev, pairwise, hostPairwise, rekeying, fresh, minted>>
muxVars  == <<events, roster, mux>>
histVars == <<early, straddled>>
vars     == <<netVars, phase, hostVars, keyVars, muxVars, histVars>>

Roles    == {"host", "member", "observer"}
NoRoster == [i \in {} |-> "member"]
Rosters  == UNION {[S -> Roles] : S \in SUBSET P}

\* A sealed frame is a ctl announce: the sender's roster.
Frame == [kind : {"left", "pake1", "pake2", "groupkey", "rekeypake1", "rekeypake2", "rekey", "sealed"},
          from : P, key : Nat, roster : Rosters]
Event == [kind : {"left", "keyed", "announce"}, id : P, roster : Rosters]

Msg(k, p, n)  == [kind |-> k, from |-> p, key |-> n, roster |-> NoRoster]
Notice(k, p)  == [kind |-> k, id |-> p, roster |-> NoRoster]

SeatOfNone(p) == IF p \in Observers THEN "observer" ELSE "none"

\* DefaultRolePolicy, and the roles a policy may not give.
SeatOf(p) == IF p \in Observers THEN "observer" ELSE "member"

\* Types; the keys a client holds have been made.
TypeOK ==
  /\ session \subseteq P /\ relayHost \in P /\ leaves \in 0..MaxLeaves
  /\ down \in [P -> Seq(Frame)]
  /\ phase \in [P -> {"out", "joined", "joining", "paired", "keyed", "gone"}]
  /\ role \in [P -> Roles \cup {"none"}] /\ hostID \in [P -> 0..N]
  /\ minted \in Nat /\ key \in [P -> 0..minted] /\ prev \in [P -> SUBSET (1..minted)]
  /\ pairwise \in [P -> SUBSET P] /\ hostPairwise \in [P -> 0..N] /\ rekeying \subseteq P
  /\ fresh \in [P -> 0..minted]
  /\ events \in [P -> Seq(Event)] /\ roster \in [P -> Rosters]
  /\ mux \in [P -> [at : {"idle", "rotate", "assume", "claim", "rekey"}, left : 0..N]]
  /\ early \subseteq P /\ straddled \subseteq P

Idle == [at |-> "idle", left |-> 0]

\* Everybody seated is keyed and has read the announce of it.
Init ==
  LET seats == [i \in 1..Seated |-> IF i = 1 THEN "host" ELSE SeatOf(i)] IN
  /\ session = 1..Seated /\ relayHost = 1 /\ leaves = 0
  /\ down = [p \in P |-> <<>>]
  /\ phase = [p \in P |-> IF p <= Seated THEN "keyed" ELSE "out"]
  /\ role = [p \in P |-> IF p <= Seated THEN seats[p] ELSE "none"]
  /\ hostID = [p \in P |-> IF p <= Seated THEN 1 ELSE 0]
  /\ minted = 1 /\ key = [p \in P |-> IF p <= Seated THEN 1 ELSE 0]
  /\ prev = [p \in P |-> {}]
  /\ pairwise = [p \in P |-> IF p = 1 THEN 2..Seated ELSE {}]
  /\ hostPairwise = [p \in P |-> IF p \in 2..Seated THEN 1 ELSE 0]
  /\ rekeying = {} /\ fresh = [p \in P |-> 0]
  /\ events = [p \in P |-> <<>>]
  /\ roster = [p \in P |-> IF p <= Seated THEN seats ELSE NoRoster]
  /\ mux = [p \in P |-> Idle]
  /\ early = {} /\ straddled = {}

-----------------------------------------------------------------------------
(* The relay.                                                              *)

ToAll(p, f)      == [q \in P |-> IF q \in session \ {p} THEN Append(down[q], f) ELSE down[q]]
Direct(d, q, fs) == [d EXCEPT ![q] = IF q \in session THEN @ \o fs ELSE @]

\* p closes its connection, dies, or gives up on joining.
Leave(p) ==
  /\ p \in session /\ leaves < MaxLeaves
  /\ leaves' = leaves + 1
  /\ session' = session \ {p}
  /\ down' = [ToAll(p, Msg("left", p, 0)) EXCEPT ![p] = <<>>]
  /\ phase' = [phase EXCEPT ![p] = "gone"]
  /\ events' = [events EXCEPT ![p] = <<>>]
  /\ mux' = [mux EXCEPT ![p] = Idle]
  /\ fresh' = [fresh EXCEPT ![p] = 0]
  /\ UNCHANGED <<relayHost, hostVars, key, prev, pairwise, hostPairwise, rekeying, minted, roster, histVars>>

\* joinRequest: the JoinResult names the host of the moment.
Join(p) ==
  /\ phase[p] = "out" /\ \A q \in P : q < p => phase[q] # "out"
  /\ session # {}
  /\ session' = session \cup {p}
  /\ phase' = [phase EXCEPT ![p] = "joined"]
  /\ hostID' = [hostID EXCEPT ![p] = relayHost]
  /\ UNCHANGED <<relayHost, down, leaves, role, keyVars, muxVars, histVars>>

-----------------------------------------------------------------------------
(* A joiner, until it is keyed.                                            *)

SendPake1(p) ==
  /\ phase[p] = "joined"
  /\ phase' = [phase EXCEPT ![p] = "joining"]
  /\ down' = Direct(down, hostID[p], <<Msg("pake1", p, 0)>>)
  /\ UNCHANGED <<session, relayHost, leaves, hostVars, keyVars, muxVars, histVars>>

Receive(p) ==
  /\ down[p] # <<>> /\ fresh[p] = 0
  /\ down' = [down EXCEPT ![p] = Tail(@)]

ListsItself(p) == [i \in {p} |-> SeatOf(p)]

\* newCtl; Attach lists only a host.
FirstRoster(p) == NoRoster

\* joinDriveHandshake, joinHandleDirect: the host's two frames, in order;
\* everything else is skipped, a departure of the host included.  The host
\* writes the reply before the key, so "group key before pake reply" is an
\* error no joiner meets.
DriveHandshake(p) ==
  LET f == Head(down[p]) IN
  /\ phase[p] \in {"joining", "paired"} /\ Receive(p)
  /\ \/ /\ f.kind = "pake2" /\ f.from = hostID[p] /\ phase[p] = "joining"
        /\ phase' = [phase EXCEPT ![p] = "paired"]
        /\ UNCHANGED <<role, key, hostPairwise, roster>>
     \/ /\ f.kind = "groupkey" /\ f.from = hostID[p] /\ phase[p] = "paired"
        /\ phase' = [phase EXCEPT ![p] = "keyed"]
        /\ key' = [key EXCEPT ![p] = f.key]
        /\ role' = [role EXCEPT ![p] = SeatOf(p)]
        /\ hostPairwise' = [hostPairwise EXCEPT ![p] = f.from]
        /\ roster' = [roster EXCEPT ![p] = FirstRoster(p)]
     \/ /\ ~(f.kind \in {"pake2", "groupkey"} /\ f.from = hostID[p])
        /\ UNCHANGED <<phase, role, key, hostPairwise, roster>>
  /\ UNCHANGED <<session, relayHost, leaves, hostID, prev, pairwise, rekeying, fresh, minted, events, mux, histVars>>

-----------------------------------------------------------------------------
(* The read loop of a keyed client.                                        *)

Gets(p, k)  == phase[p] = "keyed" /\ fresh[p] = 0 /\ down[p] # <<>> /\ Head(down[p]).kind = k
Reads(p, k) == Gets(p, k) /\ Receive(p)

IsHost(p) == role[p] = "host" /\ hostID[p] = p

\* ParticipantLeft: tell the mux, and rekeyAfterLeave.  The new key is
\* written to everybody with a pairwise key before it is installed (Swap).
\* The mux may act between the two; if that makes p host it has a pairwise
\* key with nobody, so rekeyAfterLeave has nothing to do either way.
ReadLeft(p) ==
  LET q      == Head(down[p]).from
      others == pairwise[p] \ {q}
      rotate == IsHost(p) /\ others # {}
      rekey  == Msg("rekey", p, minted + 1)
  IN
  /\ Gets(p, "left")
  /\ pairwise' = [pairwise EXCEPT ![p] = others]
  /\ events' = [events EXCEPT ![p] = Append(@, Notice("left", q))]
  /\ down' = [r \in P |-> IF r = p THEN Tail(down[p])
                          ELSE IF rotate /\ r \in others \cap session THEN Append(down[r], rekey) ELSE down[r]]
  /\ minted' = IF rotate THEN minted + 1 ELSE minted
  /\ fresh' = IF rotate THEN [fresh EXCEPT ![p] = minted + 1] ELSE fresh
  /\ UNCHANGED <<session, relayHost, leaves, phase, hostVars, key, prev, hostPairwise, rekeying, roster, mux, histVars>>

\* pushPrevKeyLocked and the new key.
Installed(p, k) ==
  /\ key' = [key EXCEPT ![p] = k]
  /\ prev' = [prev EXCEPT ![p] = @ \cup {key[p]}]

\* The end of rekeyAfterLeave.
Swap(p) ==
  /\ fresh[p] # 0
  /\ Installed(p, fresh[p])
  /\ fresh' = [fresh EXCEPT ![p] = 0]
  /\ UNCHANGED <<netVars, phase, hostVars, pairwise, hostPairwise, rekeying, minted, muxVars, histVars>>

\* openFrame: what no key opens is dropped.
ReadSealed(p) ==
  LET f == Head(down[p]) IN
  /\ Reads(p, "sealed")
  /\ events' = IF f.key \in {key[p]} \cup prev[p]
               THEN [events EXCEPT ![p] = Append(@, [kind |-> "announce", id |-> f.from, roster |-> f.roster])]
               ELSE events
  /\ UNCHANGED <<session, relayHost, leaves, phase, hostVars, keyVars, roster, mux, histVars>>

RecordedNothing(p, q) == pairwise

Recorded(p, q) == [pairwise EXCEPT ![p] = @ \cup {q}]

KeyFirst(p, q) == <<Msg("groupkey", p, key[p]), Msg("pake2", p, 0)>>

\* The reply, then the key.
KeyReply(p, q) == <<Msg("pake2", p, 0), Msg("groupkey", p, key[p])>>

\* handleHandshakeDirect: only a host answers.
ReadPake1(p) ==
  LET q == Head(down[p]).from IN
  /\ Gets(p, "pake1")
  /\ \/ /\ role[p] = "host"
        /\ pairwise' = Recorded(p, q)
        /\ down' = Direct([down EXCEPT ![p] = Tail(@)], q, KeyReply(p, q))
        /\ events' = [events EXCEPT ![p] = Append(@, Notice("keyed", q))]
     \/ /\ role[p] # "host"
        /\ down' = [down EXCEPT ![p] = Tail(@)]
        /\ UNCHANGED <<pairwise, events>>
  /\ UNCHANGED <<session, relayHost, leaves, phase, hostVars, key, prev, hostPairwise, rekeying, fresh, minted, roster, mux, histVars>>

\* handleRekeyPake1: the second PAKE of a survivor.
ReadRekeyPake1(p) ==
  LET q == Head(down[p]).from IN
  /\ Gets(p, "rekeypake1")
  /\ \/ /\ IsHost(p)
        /\ pairwise' = Recorded(p, q)
        /\ down' = Direct([down EXCEPT ![p] = Tail(@)], q, <<Msg("rekeypake2", p, 0), Msg("rekey", p, key[p])>>)
     \/ /\ ~IsHost(p)
        /\ down' = [down EXCEPT ![p] = Tail(@)]
        /\ UNCHANGED pairwise
  /\ early' = IF IsHost(p) /\ mux[p].at # "rotate" THEN early ELSE early \cup {q}
  /\ UNCHANGED <<session, relayHost, leaves, phase, hostVars, key, prev, hostPairwise, rekeying, fresh, minted, muxVars, straddled>>

\* handleRekeyPake2: the survivor's end of it.
ReadRekeyPake2(p) ==
  LET q == Head(down[p]).from
      ok == p \in rekeying /\ q = hostID[p]
  IN
  /\ Reads(p, "rekeypake2")
  /\ hostPairwise' = IF ok THEN [hostPairwise EXCEPT ![p] = q] ELSE hostPairwise
  /\ rekeying' = IF ok THEN rekeying \ {p} ELSE rekeying
  /\ UNCHANGED <<session, relayHost, leaves, phase, hostVars, key, prev, pairwise, fresh, minted, muxVars, histVars>>

\* handleRekey: from the host, wrapped under the pairwise key shared with it.
ReadRekey(p) ==
  LET f == Head(down[p]) IN
  /\ Reads(p, "rekey")
  /\ IF f.from = hostID[p] /\ hostPairwise[p] = f.from THEN Installed(p, f.key) ELSE UNCHANGED <<key, prev>>
  /\ UNCHANGED <<session, relayHost, leaves, phase, hostVars, pairwise, hostPairwise, rekeying, fresh, minted, muxVars, histVars>>

ReadLoop(p) ==
  \/ ReadLeft(p) \/ Swap(p) \/ ReadSealed(p) \/ ReadPake1(p)
  \/ ReadRekeyPake1(p) \/ ReadRekeyPake2(p) \/ ReadRekey(p)

-----------------------------------------------------------------------------
(* The mux goroutine: the roster, and maybeMigrate.                        *)

Dispatches(p, k) ==
  /\ phase[p] = "keyed" /\ mux[p].at = "idle"
  /\ events[p] # <<>> /\ Head(events[p]).kind = k
  /\ events' = [events EXCEPT ![p] = Tail(@)]

\* announce: broadcast under the key of the moment.
Announced(p, r) == ToAll(p, [kind |-> "sealed", from |-> p, key |-> key[p], roster |-> r])

\* c.roles[q] = seat.
Listed(r, q, seat) == [i \in DOMAIN r \cup {q} |-> IF i = q THEN seat ELSE r[i]]

\* ctl.MemberKeyed.
MemberKeyed(p) ==
  LET q == Head(events[p]).id
      r == Listed(roster[p], q, SeatOf(q))
  IN
  /\ Dispatches(p, "keyed")
  /\ IF role[p] = "host"
     THEN roster' = [roster EXCEPT ![p] = r] /\ down' = Announced(p, r)
     ELSE UNCHANGED <<roster, down>>
  /\ UNCHANGED <<session, relayHost, leaves, phase, hostVars, keyVars, mux, histVars>>

\* ctl.handleAnnounce: only the host's.
HandleAnnounce(p) ==
  LET e == Head(events[p]) IN
  /\ Dispatches(p, "announce")
  /\ roster' = IF e.id = hostID[p] THEN [roster EXCEPT ![p] = e.roster] ELSE roster
  /\ UNCHANGED <<netVars, phase, hostVars, keyVars, mux, histVars>>

Without(r, q) == Restrict(r, DOMAIN r \ {q})

ElectedLeaver(r, left) ==
  LET members == {i \in DOMAIN r : r[i] \in {"host", "member"}}
  IN  IF members # {} THEN Min(members) ELSE 0

\* electSuccessor with DefaultSuccessorPolicy.
Elected(r, left) ==
  LET candidates == DOMAIN r \ {left}
      members    == {i \in candidates : r[i] \in {"host", "member"}}
  IN  IF members # {} THEN Min(members) ELSE IF candidates # {} THEN Min(candidates) ELSE 0

\* ctl.MemberLeft and the election: a host announces who is left; whoever
\* followed the leaver follows the successor, or becomes it.
MemberLeft(p) ==
  LET q == Head(events[p]).id
      r == Without(roster[p], q)
      s == IF q = hostID[p] THEN Elected(roster[p], q) ELSE 0
  IN
  /\ Dispatches(p, "left")
  /\ IF role[p] = "host"
     THEN roster' = [roster EXCEPT ![p] = r] /\ down' = Announced(p, r)
     ELSE UNCHANGED <<roster, down>>
  /\ hostID' = IF s = 0 THEN hostID ELSE [hostID EXCEPT ![p] = s]
  /\ role' = IF s = p THEN [role EXCEPT ![p] = "host"] ELSE role
  /\ mux' = CASE s = 0 -> mux
              [] s = p -> [mux EXCEPT ![p] = [at |-> "rotate", left |-> q]]
              [] OTHER -> [mux EXCEPT ![p] = [at |-> "rekey", left |-> q]]
  /\ UNCHANGED <<session, relayHost, leaves, phase, keyVars, histVars>>

StillPaired(p) == pairwise[p]

\* A promoted host has a pairwise key with nobody yet.
NobodyPaired(p) == {}

\* RotateForMigration.  The read loop may be between the two halves of a
\* rekeyAfterLeave, which then installs its key over this one.
RotateForMigration(p) ==
  /\ mux[p].at = "rotate"
  /\ minted' = minted + 1
  /\ Installed(p, minted + 1)
  /\ pairwise' = [pairwise EXCEPT ![p] = NobodyPaired(p)]
  /\ mux' = [mux EXCEPT ![p].at = "assume"]
  /\ straddled' = IF fresh[p] = 0 THEN straddled ELSE straddled \cup {p}
  /\ UNCHANGED <<netVars, phase, hostVars, hostPairwise, rekeying, fresh, events, roster, early>>

\* Attach and assumeHost.
AssumeHost(p) ==
  LET r == Listed(Without(roster[p], mux[p].left), p, "host") IN
  /\ mux[p].at = "assume"
  /\ roster' = [roster EXCEPT ![p] = r]
  /\ down' = Announced(p, r)
  /\ mux' = [mux EXCEPT ![p].at = "claim"]
  /\ UNCHANGED <<session, relayHost, leaves, phase, hostVars, keyVars, events, histVars>>

\* ClaimHost, and the hub's handleClaimHost.
ClaimHost(p) ==
  /\ mux[p].at = "claim"
  /\ relayHost' = p
  /\ mux' = [mux EXCEPT ![p] = Idle]
  /\ UNCHANGED <<session, down, leaves, phase, hostVars, keyVars, events, roster, histVars>>

\* RekeyWithNewHost.
RekeyWithNewHost(p) ==
  /\ mux[p].at = "rekey"
  /\ rekeying' = rekeying \cup {p}
  /\ down' = Direct(down, hostID[p], <<Msg("rekeypake1", p, 0)>>)
  /\ mux' = [mux EXCEPT ![p] = Idle]
  /\ UNCHANGED <<session, relayHost, leaves, phase, hostVars, key, prev, pairwise, hostPairwise, fresh, minted, events, roster, histVars>>

MuxRuns(p) ==
  \/ MemberKeyed(p) \/ HandleAnnounce(p) \/ MemberLeft(p)
  \/ RotateForMigration(p) \/ AssumeHost(p) \/ ClaimHost(p) \/ RekeyWithNewHost(p)

-----------------------------------------------------------------------------
Next ==
  \E p \in P : \/ Leave(p) \/ Join(p) \/ SendPake1(p) \/ DriveHandshake(p)
               \/ ReadLoop(p) \/ MuxRuns(p)

Spec == Init /\ [][Next]_vars

\* Goroutines run; nobody has to join or leave.
Fairness ==
  \A p \in P : /\ WF_vars(SendPake1(p) \/ DriveHandshake(p))
               /\ WF_vars(ReadLoop(p)) /\ WF_vars(MuxRuns(p))

FairSpec == Spec /\ Fairness

-----------------------------------------------------------------------------
(* Properties.                                                             *)

\* maybeMigrate elects at every survivor from its own roster, without a vote:
\* never are two participants of the session host at once.  The exception is
\* a host that has answered a survivor too early and then rotated in the
\* middle of a rekeyAfterLeave: the key rekeyAfterLeave gave that survivor
\* comes back, and with it one can follow a host that has forgotten it.
OneHost ==
  \A p, q \in session : role[p] = "host" /\ role[q] = "host" => p = q \/ straddled # {}

\* The keys from p that are on their way to q.
KeysTo(q, p) == {i \in DOMAIN down[q] : down[q][i].kind \in {"groupkey", "rekey"} /\ down[q][i].from = p}

\* The key q has when it has read what is queued.
NextKey(q, p) == IF KeysTo(q, p) # {} THEN down[q][Max(KeysTo(q, p))].key ELSE key[q]

\* Whoever is in a host's pairwise map and follows it has that host's group
\* key, or will when it has read what is queued for it, however a rotation
\* for a departure (rekeyAfterLeave, read loop), the rotation of a promotion
\* (RotateForMigration, mux) and the hand-outs to joiners and survivors cross.
PairwiseHaveKey ==
  \A p \in session : \A q \in pairwise[p] \cap session :
    IsHost(p) /\ hostID[q] = p =>
      NextKey(q, p) = IF fresh[p] # 0 THEN fresh[p] ELSE key[p]

\* q's request to p is still to be written or read.
Asking(q, p) ==
  \/ mux[q].at = "rekey"
  \/ phase[q] \in {"joined", "joining", "paired"}
  \/ \E i \in DOMAIN down[p] : down[p][i].kind \in {"rekeypake1", "pake1"} /\ down[p][i].from = q

\* A participant that follows a live host is in its pairwise map, or asking
\* to be: the one way to be forgotten is a request that handleRekeyPake1 read
\* before the host had done BecomeHost and RotateForMigration.
OnlyEarlyIsForgotten ==
  \A p, q \in session :
    p # q /\ IsHost(p) /\ hostID[q] = p => q \in pairwise[p] \/ Asking(q, p) \/ q \in early

\* When only the host leaves, everybody in the session that has adopted a
\* roster ends up following the same survivor, who is host and whom the relay
\* names to joiners (ClaimHost).  Without a roster nobody can be elected
\* (electSuccessor gives 0): a joiner that was keyed by a host that left before
\* announcing it follows the departed host for ever.
HostReplaced ==
  <>[](leaves = 1 /\ 1 \notin session)
    => <>[](\E s \in session : /\ relayHost = s /\ IsHost(s)
                              /\ \A p \in session : roster[p] # NoRoster => hostID[p] = s)

\* joinRequest hands a joiner the relay's host of the moment: it is keyed if
\* that participant stays, however many elections happen meanwhile.
JoinServed ==
  \A p \in P \ (1..Seated) : phase[p] = "joined" ~> phase[p] \in {"keyed", "gone"} \/ hostID[p] \notin session

\* Everything that was sent has been read and acted upon.
Quiet ==
  \A p \in session : phase[p] = "keyed" /\ down[p] = <<>> /\ events[p] = <<>> /\ mux[p] = Idle /\ fresh[p] = 0

\* The promise of the package comment (doc.go) that "host departure triggers
\* migration: a survivor is promoted": when all is read somebody is host.
\* A survivor may instead have elected somebody who is gone and whom its roster
\* still lists: a member whose departure no host has announced to it, or the
\* first host, when the successor leaves as well.
FindingPromoted == Quiet /\ session # {} => \E p \in session : IsHost(p)
=============================================================================
