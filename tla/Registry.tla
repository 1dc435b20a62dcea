------------------------------- MODULE Registry -------------------------------
(***************************************************************************)
(* The relay's table of sessions (relay/registry.go) with the goroutines   *)
(* that use it: handlers that create and look up sessions, hubs that end   *)
(* on their own and then remove their entry, the sweeper that closes old   *)
(* ones, and Stats, which asks every hub for a snapshot (relay/stats.go).  *)
(*                                                                         *)
(* A hub is seen from outside only (module RelayHub has the inside): it    *)
(* reads its inbox, stops at any time, and then first closes done and      *)
(* afterwards calls onEmpty.  The lock of the registry is never held over  *)
(* a blocking operation, so each critical section is one step.             *)
(***************************************************************************)
EXTENDS Integers, Sequences, FiniteSets

CONSTANTS
  Sids,          \* session ids
  Hubs,          \* hubs that may ever be created
  NoHub,
  MaxSessions,
  InboxCap       \* capacity of a hub's inbox

ASSUME RegistryAssumption ==
  /\ NoHub \notin Hubs
  /\ MaxSessions \in Nat \ {0} /\ InboxCap \in Nat \ {0}

VARIABLES
  sessions,      \* registry.sessions, by id
  state,         \* of a hub: see TypeOK; done is closed from "stopping" on
  sid,           \* the id a hub was created for
  inbox,         \* hub.inbox, the commands of the sweeper and of Stats
  aged,          \* hubs past the age limit
  stopped,       \* Server.Close was called
  sweeping,      \* expired hubs sweep has yet to come to
  telling,       \* the hub whose inbox sweep is sending to
  listed,        \* hubs Stats has yet to come to
  asking,        \* the hub whose inbox Stats is sending to
  asked,         \* the hub whose snapshot Stats waits for
  replied        \* hubs that have answered

hubVars   == <<state, sid>>
sweepVars == <<aged, stopped, sweeping, telling>>
statsVars == <<listed, asking, asked, replied>>
vars      == <<sessions, hubVars, inbox, sweepVars, statsVars>>

Registered == {h \in Hubs : \E s \in Sids : sessions[s] = h}
Full       == Cardinality(Registered) >= MaxSessions

\* Types.  No inbox holds more than its capacity.
TypeOK ==
  /\ sessions \in [Sids -> Hubs \cup {NoHub}]
  /\ state \in [Hubs -> {"unborn", "running", "stopping", "gone"}]
  /\ sid \in [Hubs -> Sids]
  /\ inbox \in [Hubs -> Seq({"close", "stats"})] /\ \A h \in Hubs : Len(inbox[h]) <= InboxCap
  /\ aged \subseteq Hubs /\ stopped \in BOOLEAN
  /\ sweeping \subseteq Hubs /\ telling \in Hubs \cup {NoHub}
  /\ listed \subseteq Hubs /\ asking \in Hubs \cup {NoHub}
  /\ asked \in Hubs \cup {NoHub} /\ replied \subseteq Hubs

Init ==
  /\ sessions = [s \in Sids |-> NoHub]
  /\ state = [h \in Hubs |-> "unborn"] /\ sid \in [Hubs -> Sids]
  /\ inbox = [h \in Hubs |-> <<>>]
  /\ aged = {} /\ stopped = FALSE /\ sweeping = {} /\ telling = NoHub
  /\ listed = {} /\ asking = NoHub /\ asked = NoHub /\ replied = {}

-----------------------------------------------------------------------------
TakenUnlessRunning(s) == sessions[s] # NoHub /\ state[sessions[s]] = "running"

\* An id is taken until its hub has removed it, even if the hub is over.
Taken(s) == sessions[s] # NoHub

\* create, for the id a handler was asked for; refused it changes nothing.
Create(h) ==
  /\ state[h] = "unborn" /\ ~Taken(sid[h]) /\ ~Full
  /\ sessions' = [sessions EXCEPT ![sid[h]] = h]
  /\ state' = [state EXCEPT ![h] = "running"]
  /\ UNCHANGED <<sid, inbox, sweepVars, statsVars>>

\* run returns on its own: the last participant has gone.
HubEmpties(h) ==
  /\ state[h] = "running"
  /\ state' = [state EXCEPT ![h] = "stopping"]
  /\ UNCHANGED <<sessions, sid, inbox, sweepVars, statsVars>>

\* run takes a command: handleClose ends it, handleStats replies.
HubReads(h) ==
  /\ state[h] = "running" /\ inbox[h] # <<>>
  /\ inbox' = [inbox EXCEPT ![h] = Tail(@)]
  /\ \/ /\ Head(inbox[h]) = "close"
        /\ state' = [state EXCEPT ![h] = "stopping"]
        /\ UNCHANGED replied
     \/ /\ Head(inbox[h]) = "stats"
        /\ replied' = replied \cup {h}
        /\ UNCHANGED state
  /\ UNCHANGED <<sessions, sid, sweepVars, listed, asking, asked>>

\* onEmpty: remove deletes by id.
Remove(h) ==
  /\ state[h] = "stopping"
  /\ sessions' = [sessions EXCEPT ![sid[h]] = NoHub]
  /\ state' = [state EXCEPT ![h] = "gone"]
  /\ UNCHANGED <<sid, inbox, sweepVars, statsVars>>

-----------------------------------------------------------------------------
(* The sweeper.                                                            *)

Age(h) ==
  /\ state[h] = "running" /\ h \notin aged
  /\ aged' = aged \cup {h}
  /\ UNCHANGED <<sessions, hubVars, inbox, stopped, sweeping, telling, statsVars>>

ExpiredTooYoung(h) == h \in Registered \ aged

Expired(h) == h \in Registered \cap aged

\* sweep collects under the lock ...
SweepCollects ==
  /\ ~stopped /\ sweeping = {} /\ telling = NoHub /\ \E h \in Hubs : Expired(h)
  /\ sweeping' = {h \in Hubs : Expired(h)}
  /\ UNCHANGED <<sessions, hubVars, inbox, aged, stopped, telling, statsVars>>

\* ... and without it tells one hub after the other,
SweepTurns(h) ==
  /\ h \in sweeping /\ telling = NoHub
  /\ telling' = h /\ sweeping' = sweeping \ {h}
  /\ UNCHANGED <<sessions, hubVars, inbox, aged, stopped, statsVars>>

Room(h) == Len(inbox[h]) < InboxCap

NeverDone(h) == FALSE

Done(h) == state[h] \in {"stopping", "gone"}

\* waiting for room in its inbox or for its end.
SweepTells(h) ==
  /\ telling = h
  /\ \/ Room(h) /\ inbox' = [inbox EXCEPT ![h] = Append(@, "close")]
     \/ Done(h) /\ UNCHANGED inbox
  /\ telling' = NoHub
  /\ UNCHANGED <<sessions, hubVars, aged, stopped, sweeping, statsVars>>

\* Server.Close.
StopSweeper ==
  /\ ~stopped /\ stopped' = TRUE
  /\ UNCHANGED <<sessions, hubVars, inbox, aged, sweeping, telling, statsVars>>

-----------------------------------------------------------------------------
(* Stats.                                                                  *)

\* Stats lists the hubs under the lock ...
StatsLists ==
  /\ listed = {} /\ asking = NoHub /\ asked = NoHub
  /\ listed' = Registered
  /\ UNCHANGED <<sessions, hubVars, inbox, sweepVars, asking, asked, replied>>

\* ... and takes a snapshot of one after the other, with a new reply channel.
StatsTurns(h) ==
  /\ h \in listed /\ asking = NoHub /\ asked = NoHub
  /\ asking' = h /\ listed' = listed \ {h} /\ replied' = replied \ {h}
  /\ UNCHANGED <<sessions, hubVars, inbox, sweepVars, asked>>

\* snapshot sends its command, or finds the hub done ...
StatsAsks(h) ==
  /\ asking = h
  /\ \/ /\ Room(h)
        /\ inbox' = [inbox EXCEPT ![h] = Append(@, "stats")] /\ asked' = h
     \/ Done(h) /\ UNCHANGED <<inbox, asked>>
  /\ asking' = NoHub
  /\ UNCHANGED <<sessions, hubVars, sweepVars, listed, replied>>

\* ... and waits for the reply or for done.
StatsHears ==
  /\ asked # NoHub /\ (asked \in replied \/ Done(asked))
  /\ asked' = NoHub
  /\ UNCHANGED <<sessions, hubVars, inbox, sweepVars, listed, asking, replied>>

-----------------------------------------------------------------------------
Next ==
  \/ \E h \in Hubs : \/ Create(h) \/ HubEmpties(h) \/ HubReads(h) \/ Remove(h)
                     \/ Age(h) \/ SweepTurns(h) \/ SweepTells(h)
                     \/ StatsTurns(h) \/ StatsAsks(h)
  \/ SweepCollects \/ StopSweeper \/ StatsLists \/ StatsHears

Spec == Init /\ [][Next]_vars

\* Hubs read and clean up, the sweeper ticks, Stats goes on once called.  A
\* send that waits for room gets its turn: blocked senders queue up in Go.
FairSpec ==
  /\ Spec
  /\ \A h \in Hubs : /\ WF_vars(HubReads(h)) /\ WF_vars(Remove(h))
                     /\ WF_vars(SweepTurns(h)) /\ SF_vars(SweepTells(h))
                     /\ WF_vars(StatsTurns(h)) /\ SF_vars(StatsAsks(h))
  /\ WF_vars(SweepCollects) /\ WF_vars(StatsHears)

-----------------------------------------------------------------------------
(* Properties.                                                             *)

\* A session has one hub and it can be found: as long as a hub runs or has
\* yet to clean up, it is the one registered under its id.  So a removal by
\* id, which comes after done, never removes somebody else's session.
HubIsRegistered ==
  \A h \in Hubs : state[h] \in {"running", "stopping"} => sessions[sid[h]] = h

\* The age limit ends a session, unless the sweeper is stopped.
AgedEnd == \A h \in Hubs : h \in aged ~> state[h] = "gone" \/ stopped

\* The sweeper never hangs on a hub that ends under it.
SweepEnds == sweeping # {} \/ telling # NoHub ~> sweeping = {} /\ telling = NoHub

\* Stats returns although hubs end between being listed, asked and heard.
StatsEnd == listed # {} \/ asking # NoHub \/ asked # NoHub ~> listed = {} /\ asking = NoHub /\ asked = NoHub

\* Neither waits for ever for a hub, full inbox or not (sweep, Stats, snapshot).
WaitersReturn == SweepEnds /\ StatsEnd
=============================================================================
