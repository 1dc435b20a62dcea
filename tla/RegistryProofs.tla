---------------------------- MODULE RegistryProofs ----------------------------
(***************************************************************************)
(* Every live hub is the one registered under its id, for any number of    *)
(* sessions, hubs and any limits.                                          *)
(***************************************************************************)
EXTENDS Registry, TLAPS

\* Appending to, or taking from, the inbox of one hub keeps the types.
LEMMA InboxType ==
  ASSUME TypeOK, NEW h \in Hubs, NEW c \in {"close", "stats"}
  PROVE  /\ Room(h) => /\ [inbox EXCEPT ![h] = Append(@, c)] \in [Hubs -> Seq({"close", "stats"})]
                       /\ \A g \in Hubs : Len([inbox EXCEPT ![h] = Append(@, c)][g]) <= InboxCap
         /\ inbox[h] # <<>> => /\ [inbox EXCEPT ![h] = Tail(@)] \in [Hubs -> Seq({"close", "stats"})]
                               /\ \A g \in Hubs : Len([inbox EXCEPT ![h] = Tail(@)][g]) <= InboxCap
<1>1. /\ inbox[h] \in Seq({"close", "stats"}) /\ Len(inbox[h]) <= InboxCap
      /\ Len(inbox[h]) \in Nat /\ InboxCap \in Nat
  BY RegistryAssumption DEF TypeOK
<1>2. Room(h) => Append(inbox[h], c) \in Seq({"close", "stats"}) /\ Len(Append(inbox[h], c)) <= InboxCap
  BY <1>1 DEF Room
<1>3. inbox[h] # <<>> => Tail(inbox[h]) \in Seq({"close", "stats"}) /\ Len(Tail(inbox[h])) <= InboxCap
  BY <1>1
<1> QED
  BY <1>2, <1>3, Zenon DEF TypeOK

\* Every step of a hub, the sweeper or Stats keeps the types.
LEMMA TypeStep == TypeOK /\ [Next]_vars => TypeOK'
<1> SUFFICES ASSUME TypeOK, [Next]_vars PROVE TypeOK'
  BY Zenon
<1> USE DEF hubVars, sweepVars, statsVars
<1>1. ASSUME NEW h \in Hubs, Create(h) PROVE TypeOK'
  BY <1>1, Zenon DEF TypeOK, Create
<1>2. ASSUME NEW h \in Hubs, HubEmpties(h) PROVE TypeOK'
  BY <1>2, Zenon DEF TypeOK, HubEmpties
<1>3. ASSUME NEW h \in Hubs, HubReads(h) PROVE TypeOK'
  <2>1. inbox' \in [Hubs -> Seq({"close", "stats"})] /\ \A g \in Hubs : Len(inbox'[g]) <= InboxCap
    BY <1>3, InboxType, Zenon DEF HubReads
  <2>2. state' \in [Hubs -> {"unborn", "running", "stopping", "gone"}] /\ replied' \subseteq Hubs
    BY Zenon, <1>3 DEF HubReads, TypeOK
  <2> QED
    BY <1>3, <2>1, <2>2, Zenon DEF HubReads, TypeOK
<1>4. ASSUME NEW h \in Hubs, Remove(h) PROVE TypeOK'
  BY <1>4, Zenon DEF TypeOK, Remove
<1>5. ASSUME NEW h \in Hubs, Age(h) PROVE TypeOK'
  BY <1>5, Zenon DEF TypeOK, Age
<1>6. ASSUME NEW h \in Hubs, SweepTells(h) PROVE TypeOK'
  <2>1. inbox' \in [Hubs -> Seq({"close", "stats"})] /\ \A g \in Hubs : Len(inbox'[g]) <= InboxCap
    <3>1. CASE Room(h) /\ inbox' = [inbox EXCEPT ![h] = Append(@, "close")]
      BY <3>1, InboxType, Zenon
    <3>2. CASE UNCHANGED inbox
      BY <3>2, Zenon DEF TypeOK
    <3> QED
      BY <1>6, <3>1, <3>2, Zenon DEF SweepTells
  <2> QED
    BY <1>6, <2>1, Zenon DEF SweepTells, TypeOK
<1>7. ASSUME NEW h \in Hubs, StatsAsks(h) PROVE TypeOK'
  <2>1. inbox' \in [Hubs -> Seq({"close", "stats"})] /\ \A g \in Hubs : Len(inbox'[g]) <= InboxCap
    <3>1. CASE Room(h) /\ inbox' = [inbox EXCEPT ![h] = Append(@, "stats")]
      BY <3>1, InboxType, Zenon
    <3>2. CASE UNCHANGED inbox
      BY <3>2, Zenon DEF TypeOK
    <3> QED
      BY <1>7, <3>1, <3>2, Zenon DEF StatsAsks
  <2>2. asked' \in Hubs \cup {NoHub}
    BY <1>7, Zenon DEF StatsAsks, TypeOK
  <2> QED
    BY <1>7, <2>1, <2>2, Zenon DEF StatsAsks, TypeOK
<1>8. CASE SweepCollects \/ StopSweeper \/ \E h \in Hubs : SweepTurns(h)
  BY Zenon, <1>8 DEF TypeOK, SweepCollects, StopSweeper, SweepTurns
<1>9. CASE StatsLists \/ StatsHears \/ \E h \in Hubs : StatsTurns(h)
  BY <1>9, Zenon DEF TypeOK, StatsLists, StatsHears, StatsTurns, Registered
<1>10. CASE UNCHANGED vars
  BY <1>10, Zenon DEF TypeOK, vars
<1> QED
  BY <1>1, <1>2, <1>3, <1>4, <1>5, <1>6, <1>7, <1>8, <1>9, <1>10, Zenon DEF Next

\* Only create and remove touch the table: create never overwrites an entry,
\* and remove deletes the entry of the hub that calls it.
LEMMA RegisteredStep == TypeOK /\ HubIsRegistered /\ [Next]_vars => HubIsRegistered'
<1> SUFFICES ASSUME TypeOK, HubIsRegistered, [Next]_vars PROVE HubIsRegistered'
  BY Zenon
<1> USE DEF hubVars, sweepVars, statsVars
<1>1. ASSUME NEW h \in Hubs, Create(h) PROVE HubIsRegistered'
  <2> SUFFICES ASSUME NEW g \in Hubs, state'[g] \in {"running", "stopping"} PROVE sessions'[sid'[g]] = g
    BY Zenon DEF HubIsRegistered
  <2>1. CASE g = h
    BY <1>1, <2>1, Zenon DEF Create, TypeOK
  <2>2. CASE g # h
    <3>1. sessions[sid[g]] = g
      BY <1>1, <2>2, Zenon DEF Create, HubIsRegistered, TypeOK
    <3>2. sid[g] # sid[h]
      BY <1>1, <3>1, RegistryAssumption, Zenon DEF Create, Taken
    <3> QED
      BY <1>1, <3>1, <3>2, Zenon DEF Create, TypeOK
  <2> QED
    BY <2>1, <2>2, Zenon
<1>2. ASSUME NEW h \in Hubs, Remove(h) PROVE HubIsRegistered'
  <2> SUFFICES ASSUME NEW g \in Hubs, state'[g] \in {"running", "stopping"} PROVE sessions'[sid'[g]] = g
    BY Zenon DEF HubIsRegistered
  <2>1. g # h /\ state[g] \in {"running", "stopping"}
    BY <1>2, Zenon DEF Remove, TypeOK
  <2>2. sessions[sid[g]] = g /\ sessions[sid[h]] = h
    BY <1>2, <2>1, Zenon DEF Remove, HubIsRegistered
  <2> QED
    BY <1>2, <2>1, <2>2, Zenon DEF Remove, TypeOK
<1>3. ASSUME NEW h \in Hubs, HubEmpties(h) \/ HubReads(h) PROVE HubIsRegistered'
  BY <1>3, Zenon DEF HubEmpties, HubReads, HubIsRegistered, TypeOK
<1>4. ASSUME NEW h \in Hubs, \/ Age(h) \/ SweepTurns(h) \/ SweepTells(h)
                           \/ StatsTurns(h) \/ StatsAsks(h)
      PROVE  HubIsRegistered'
  BY <1>4, Zenon DEF Age, SweepTurns, SweepTells, StatsTurns, StatsAsks, HubIsRegistered
<1>5. CASE SweepCollects \/ StopSweeper \/ StatsLists \/ StatsHears
  BY <1>5, Zenon DEF SweepCollects, StopSweeper, StatsLists, StatsHears, HubIsRegistered
<1>6. CASE UNCHANGED vars
  BY <1>6, Zenon DEF vars, HubIsRegistered
<1> QED
  BY <1>1, <1>2, <1>3, <1>4, <1>5, <1>6, Zenon DEF Next

\* The registry starts empty (newRegistry).
LEMMA TypeInit == Init => TypeOK
<1> SUFFICES ASSUME Init PROVE TypeOK
  BY Zenon
<1>1. \A h \in Hubs : inbox[h] = <<>> /\ Len(inbox[h]) <= InboxCap
  BY RegistryAssumption DEF Init
<1>2. inbox \in [Hubs -> Seq({"close", "stats"})]
  BY DEF Init
<1>3. stopped \in BOOLEAN
  BY Zenon DEF Init
<1> QED
  BY <1>1, <1>2, <1>3, Zenon DEF Init, TypeOK

\* The registry keeps its types, and its hubs' inboxes their capacity (send).
THEOREM RegistryTypes == Spec => []TypeOK
BY TypeInit, TypeStep, PTL DEF Spec

\* A session that runs, or has ended and not yet cleaned up, is found under
\* its id, and remove never deletes a successor's entry (create, shutdown,
\* remove).
THEOREM SessionsAreFound == Spec => []HubIsRegistered
<1>1. Init => HubIsRegistered
  BY Zenon DEF Init, HubIsRegistered
<1> QED
  BY <1>1, TypeInit, TypeStep, RegisteredStep, PTL DEF Spec
=============================================================================
