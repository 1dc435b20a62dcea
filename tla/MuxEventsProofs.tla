--------------------------- MODULE MuxEventsProofs ---------------------------
(***************************************************************************)
(* The event stream of a mux is closed safely and routed by one goroutine, *)
(* for any number of emitters, connections and any channel capacity.       *)
(***************************************************************************)
EXTENDS MuxEvents, FiniteSetTheorems, TLAPS

-----------------------------------------------------------------------------
(* Closing the channel.                                                    *)

InFlight == {e \in Emitters : pc[e] \in {"sending", "leaving"}}

\* pending counts the emitters in flight, and the channel is closed exactly
\* when the mux is and nobody is in flight.
CloseInv ==
  /\ TypeOK
  /\ pending = Cardinality(InFlight)
  /\ closes = IF closed /\ pending = 0 THEN 1 ELSE 0

\* An emitter enters or leaves the set in flight, or stays on its side.
LEMMA InFlightStep ==
  ASSUME TypeOK, NEW e \in Emitters, NEW p, pc' = [pc EXCEPT ![e] = p]
  PROVE  /\ InFlight' = IF p \in {"sending", "leaving"} THEN InFlight \cup {e} ELSE InFlight \ {e}
         /\ IsFiniteSet(InFlight) /\ Cardinality(InFlight) \in Nat
         /\ e \notin InFlight => Cardinality(InFlight \cup {e}) = Cardinality(InFlight) + 1
         /\ e \in InFlight => Cardinality(InFlight \ {e}) = Cardinality(InFlight) - 1
         /\ e \in InFlight => Cardinality(InFlight) >= 1
<1>1. InFlight' = IF p \in {"sending", "leaving"} THEN InFlight \cup {e} ELSE InFlight \ {e}
  BY Zenon DEF InFlight, TypeOK
<1>2. IsFiniteSet(InFlight)
  BY MuxAssumption, FS_Subset, Zenon DEF InFlight
<1>3. Cardinality(InFlight) \in Nat
  BY <1>2, FS_CardinalityType, Zenon
<1>4. e \notin InFlight => Cardinality(InFlight \cup {e}) = Cardinality(InFlight) + 1
  BY Zenon, <1>2, FS_AddElement
<1>5. e \in InFlight => Cardinality(InFlight \ {e}) = Cardinality(InFlight) - 1
  BY Zenon, <1>2, FS_RemoveElement
<1>6. e \in InFlight => Cardinality(InFlight) >= 1
  BY <1>2, <1>3, FS_EmptySet
<1> QED
  BY <1>1, <1>2, <1>3, <1>4, <1>5, <1>6, Zenon

\* shutdown closes the channel itself exactly if nobody is in flight.
LEMMA ShutdownStep ==
  ASSUME CloseInv, Shutdown, UNCHANGED pending
  PROVE  /\ closed' \in BOOLEAN /\ closes' \in Nat
         /\ closes' = IF closed' /\ pending' = 0 THEN 1 ELSE 0
<1>1. /\ pending \in Nat /\ closed \in BOOLEAN
      /\ closed => closes = IF pending = 0 THEN 1 ELSE 0
      /\ ~closed => closes = 0
  BY Zenon DEF CloseInv, TypeOK
<1>2. CASE closed
  <2>1. closed' = closed /\ closes' = closes
    BY <1>2, Zenon DEF Shutdown
  <2> QED
    BY <1>1, <1>2, <2>1
<1>3. CASE ~closed
  <2>1. closed' = TRUE /\ closes' = IF pending = 0 THEN closes + 1 ELSE closes
    BY <1>3, Zenon DEF Shutdown, NoneInFlight
  <2>2. closes' = IF pending = 0 THEN 1 ELSE 0
    BY <1>1, <1>3, <2>1
  <2> QED
    BY <2>1, <2>2
<1> QED
  BY <1>2, <1>3, Zenon

\* Every step of the emitters, the routing goroutines and the application
\* keeps the count and the channel's state in agreement.
LEMMA CloseStep == CloseInv /\ [Next]_vars => CloseInv'
<1> SUFFICES ASSUME CloseInv, [Next]_vars PROVE CloseInv'
  BY Zenon
<1>1. /\ TypeOK /\ pending = Cardinality(InFlight) /\ pending \in Nat /\ closed \in BOOLEAN
      /\ closed => closes = IF pending = 0 THEN 1 ELSE 0
      /\ ~closed => closes = 0
  BY Zenon DEF CloseInv, TypeOK
<1>2. ASSUME NEW e \in Emitters, NEW k \in {"event", "closed"}, Emit(e, k) PROVE CloseInv'
  <2>1. AfterEmit(e, k) \in {"ready", "returning"} /\ e \notin InFlight
    BY <1>2, Zenon DEF Emit, AfterEmit, InFlight
  <2>2. CASE closed /\ pc' = [pc EXCEPT ![e] = AfterEmit(e, k)] /\ UNCHANGED <<pending, ev>>
    <3> DEFINE p == AfterEmit(e, k)
    <3> HIDE DEF p
    <3>1. InFlight' = InFlight
      <4>1. p \notin {"sending", "leaving"} /\ pc' = [pc EXCEPT ![e] = p]
        BY <2>1, <2>2, Zenon DEF p
      <4>2. InFlight' = InFlight \ {e}
        BY Zenon, <1>1, <4>1, InFlightStep
      <4> QED
        BY <2>1, <4>2, Zenon
    <3>2. TypeOK'
      BY <1>1, <1>2, <2>1, <2>2, Zenon DEF TypeOK, Emit
    <3> QED
      BY <1>2, <2>2, <3>1, <3>2, Zenon DEF CloseInv, Emit
  <2>3. CASE /\ ~closed /\ pending' = pending + 1
             /\ pc' = [pc EXCEPT ![e] = "sending"] /\ ev' = [ev EXCEPT ![e] = k]
    <3>1. InFlight' = InFlight \cup {e} /\ Cardinality(InFlight \cup {e}) = Cardinality(InFlight) + 1
      BY Zenon, <1>1, <2>1, <2>3, InFlightStep
    <3>2. TypeOK'
      BY <1>1, <1>2, <2>3 DEF TypeOK, Emit
    <3>3. ~closed' /\ closes' = 0
      BY <1>1, <1>2, <2>3, Zenon DEF Emit
    <3> QED
      BY <1>1, <2>3, <3>1, <3>2, <3>3, Zenon DEF CloseInv
  <2> QED
    BY <1>2, <2>2, <2>3, Zenon DEF Emit
<1>3. ASSUME NEW e \in Emitters, Send(e) \/ Quit(e) PROVE CloseInv'
  <2>1. /\ pc[e] = "sending" /\ pc' = [pc EXCEPT ![e] = "leaving"]
        /\ UNCHANGED <<ev, closed, pending, closes, reconnectable, lost>>
    BY <1>3, Zenon DEF Send, Quit
  <2>2. InFlight' = InFlight
    BY <1>1, <2>1, InFlightStep, Zenon DEF InFlight
  <2>3. buf' \in Seq({"event", "closed"}) /\ Len(buf') <= Cap
    <3>1. CASE Send(e)
      BY <1>1, <3>1, MuxAssumption DEF TypeOK, Send, Room
    <3>2. CASE Quit(e)
      BY <1>1, <3>2, Zenon DEF TypeOK, Quit
    <3> QED
      BY <1>3, <3>1, <3>2, Zenon
  <2>4. TypeOK'
    BY <1>1, <2>1, <2>3, Zenon DEF TypeOK
  <2> QED
    BY <2>1, <2>2, <2>4, Zenon DEF CloseInv
<1>4. ASSUME NEW e \in Emitters, Leave(e) PROVE CloseInv'
  <2>1. AfterEmit(e, ev[e]) \in {"ready", "returning"} /\ e \in InFlight
    BY <1>4, Zenon DEF Leave, AfterEmit, InFlight
  <2>2. /\ InFlight' = InFlight \ {e} /\ Cardinality(InFlight \ {e}) = Cardinality(InFlight) - 1
        /\ pending >= 1
    BY Zenon, <1>1, <1>4, <2>1, InFlightStep DEF Leave
  <2>3. pending' = pending - 1 /\ pending' \in Nat /\ UNCHANGED closed
    BY <1>1, <1>4, <2>2 DEF Leave
  <2>4. CASE closed
    <3>1. closes = 0 /\ closes' = IF pending = 1 THEN closes + 1 ELSE closes
      BY <1>1, <1>4, <2>2, <2>4 DEF Leave, LastOutCloses
    <3>2. closes' = IF pending' = 0 THEN 1 ELSE 0
      BY <1>1, <2>3, <3>1
    <3>3. closes' = IF closed' /\ pending' = 0 THEN 1 ELSE 0
      BY <2>3, <2>4, <3>2, Zenon
    <3>4. closes' \in Nat
      BY <3>2, Zenon
    <3>5. TypeOK'
      BY <1>1, <1>4, <2>1, <2>3, <3>4, Zenon DEF TypeOK, Leave
    <3> QED
      BY <1>1, <2>2, <2>3, <3>3, <3>5, Zenon DEF CloseInv
  <2>5. CASE ~closed
    <3>1. closes' = 0 /\ ~closed'
      BY <1>1, <1>4, <2>5, Zenon DEF Leave, LastOutCloses
    <3>2. TypeOK'
      BY <1>1, <1>4, <2>1, <2>3, <3>1, Zenon DEF TypeOK, Leave
    <3> QED
      BY <1>1, <2>2, <2>3, <3>1, <3>2, Zenon DEF CloseInv
  <2> QED
    BY <2>4, <2>5, Zenon
<1>5. ASSUME NEW r \in Runs, StreamEnds(r) \/ Rebind(r) PROVE CloseInv'
  <2>1. /\ r \in Emitters /\ pc[r] \in {"ready", "off"}
        /\ pc' = [pc EXCEPT ![r] = "returning"] \/ pc' = [pc EXCEPT ![r] = "ready"]
        /\ lost' \in BOOLEAN
        /\ UNCHANGED <<ev, buf, closed, pending, closes, reconnectable>>
    BY Zenon, <1>1, <1>5 DEF StreamEnds, Rebind, Emitters, TypeOK
  <2>2. InFlight' = InFlight
    <3>1. r \notin InFlight
      BY <2>1, Zenon DEF InFlight
    <3>2. CASE pc' = [pc EXCEPT ![r] = "returning"]
      <4>1. InFlight' = InFlight \ {r}
        BY Zenon, <1>1, <2>1, <3>2, InFlightStep
      <4> QED
        BY <3>1, <4>1, Zenon
    <3>3. CASE pc' = [pc EXCEPT ![r] = "ready"]
      <4>1. InFlight' = InFlight \ {r}
        BY Zenon, <1>1, <2>1, <3>3, InFlightStep
      <4> QED
        BY <3>1, <4>1, Zenon
    <3> QED
      BY <2>1, <3>2, <3>3, Zenon
  <2>3. TypeOK'
    BY <1>1, <2>1, Zenon DEF TypeOK
  <2> QED
    BY <2>1, <2>2, <2>3, Zenon DEF CloseInv
<1>6. ASSUME NEW r \in Runs, Return(r) PROVE CloseInv'
  <2>1. /\ r \in Emitters /\ pc[r] = "returning" /\ pc' = [pc EXCEPT ![r] = "done"]
        /\ UNCHANGED <<ev, buf, pending, reconnectable, lost>>
        /\ UNCHANGED <<closed, closes>> \/ Shutdown
    BY <1>6, Zenon DEF Return, Emitters
  <2>2. InFlight' = InFlight
    <3>1. r \notin InFlight
      BY <2>1, Zenon DEF InFlight
    <3>2. InFlight' = InFlight \ {r}
      BY Zenon, <1>1, <2>1, InFlightStep
    <3> QED
      BY <3>1, <3>2, Zenon
  <2>3. /\ closed' \in BOOLEAN /\ closes' \in Nat
        /\ closes' = IF closed' /\ pending' = 0 THEN 1 ELSE 0
    <3>1. CASE UNCHANGED <<closed, closes>>
      BY <2>1, <3>1, Zenon DEF CloseInv, TypeOK
    <3>2. CASE Shutdown
      BY <2>1, <3>2, ShutdownStep, Zenon
    <3> QED
      BY <2>1, <3>1, <3>2, Zenon
  <2>4. TypeOK'
    BY <1>1, <2>1, <2>3, Zenon DEF TypeOK
  <2> QED
    BY <2>1, <2>2, <2>3, <2>4, Zenon DEF CloseInv
<1>7. CASE SetReconnectable \/ Consume
  <2>1. /\ UNCHANGED <<pc, ev, closed, pending, closes>>
        /\ reconnectable' \in BOOLEAN /\ lost' \in BOOLEAN
        /\ buf' \in Seq({"event", "closed"}) /\ Len(buf') <= Cap
    <3>1. CASE SetReconnectable
      BY <1>1, <3>1, Zenon DEF SetReconnectable, TypeOK
    <3>2. CASE Consume
      <4>1. buf' \in Seq({"event", "closed"}) /\ Len(buf') <= Cap
        BY <1>1, <3>2, MuxAssumption DEF Consume, TypeOK
      <4>2. lost' \in BOOLEAN
        BY <3>2, Zenon DEF Consume
      <4> QED
        BY <1>1, <3>2, <4>1, <4>2, Zenon DEF Consume, TypeOK
    <3> QED
      BY <1>7, <3>1, <3>2, Zenon
  <2> QED
    BY <2>1, Zenon DEF CloseInv, TypeOK, InFlight
<1>8. CASE Close
  <2>1. /\ closed' \in BOOLEAN /\ closes' \in Nat
        /\ closes' = IF closed' /\ pending' = 0 THEN 1 ELSE 0
    BY <1>8, ShutdownStep, Zenon DEF Close
  <2>2. UNCHANGED <<pc, ev, buf, pending, reconnectable, lost>>
    BY <1>8, Zenon DEF Close
  <2> QED
    BY <2>1, <2>2, Zenon DEF CloseInv, TypeOK, InFlight
<1>9. CASE UNCHANGED vars
  BY <1>9, Zenon DEF vars, CloseInv, TypeOK, InFlight
<1> QED
  BY <1>2, <1>3, <1>4, <1>5, <1>6, <1>7, <1>8, <1>9, Zenon DEF Next

\* The counting argument holds throughout.
LEMMA CloseInvariance == Spec => []CloseInv
<1>1. Init => CloseInv
  <2> SUFFICES ASSUME Init PROVE CloseInv
    BY Zenon
  <2>1. TypeOK
    <3>1. buf \in Seq({"event", "closed"}) /\ Len(buf) <= Cap /\ pending \in Nat /\ closes \in Nat
      BY MuxAssumption DEF Init
    <3>2. closed \in BOOLEAN /\ reconnectable \in BOOLEAN /\ lost \in BOOLEAN
      BY Zenon DEF Init
    <3>3. /\ pc \in [Emitters -> {"off", "ready", "sending", "leaving", "returning", "done"}]
          /\ ev \in [Emitters -> {"event", "closed"}]
      BY Zenon DEF Init
    <3> QED
      BY <3>1, <3>2, <3>3, Zenon DEF TypeOK
  <2>2. InFlight = {}
    BY Zenon DEF Init, InFlight
  <2> QED
    BY <2>1, <2>2, FS_EmptySet, Zenon DEF Init, CloseInv
<1> QED
  BY <1>1, CloseStep, PTL DEF Spec

\* The event channel holds no more than its capacity (NewMux) and the mux's
\* state keeps its types.
THEOREM MuxTypes == Spec => []TypeOK
<1>1. CloseInv => TypeOK
  BY Zenon DEF CloseInv
<1> QED
  BY CloseInvariance, <1>1, PTL

\* emit and shutdown never close the channel twice and never send on the
\* closed channel, however many goroutines emit and close at the same time.
THEOREM StreamClosedSafely == Spec => []SafeClose
<1>1. CloseInv => SafeClose
  <2> SUFFICES ASSUME CloseInv PROVE SafeClose
    BY Zenon
  <2>1. closes <= 1
    BY DEF CloseInv
  <2>2. ASSUME closes = 1, NEW e \in Emitters PROVE pc[e] # "sending"
    <3>1. Cardinality(InFlight) = 0 /\ IsFiniteSet(InFlight)
      BY <2>2, MuxAssumption, FS_Subset DEF CloseInv, InFlight
    <3>2. InFlight = {}
      BY <3>1, FS_EmptySet, Zenon
    <3> QED
      BY <3>2, Zenon DEF InFlight
  <2> QED
    BY <2>1, <2>2, Zenon DEF SafeClose
<1> QED
  BY CloseInvariance, <1>1, PTL

-----------------------------------------------------------------------------
(* One goroutine routes.                                                   *)

\* r routes, or is about to hand over with a Closed event.
Live(r) == pc[r] \in {"ready", "sending"} \/ (pc[r] = "leaving" /\ ev[r] = "event")

NoClosed(b) == \A k \in DOMAIN b : b[k] # "closed"

\* The right to route is in one place: with a goroutine, in the channel as a
\* Closed event, or with the consumer that has read it.
RouteInv ==
  /\ \A r, s \in Runs : Live(r) /\ Live(s) => r = s
  /\ (\E r \in Runs : Live(r)) => ~lost /\ NoClosed(buf)
  /\ \A k, l \in DOMAIN buf : buf[k] = "closed" /\ buf[l] = "closed" => k = l
  /\ lost => NoClosed(buf)
  /\ \A c \in Callers : ev[c] = "event"

\* A step that wakes no goroutine and leaves the channel alone hands nothing
\* over.
LEMMA QuietRoute ==
  ASSUME RouteInv, \A r \in Runs : Live(r)' => Live(r), UNCHANGED <<buf, lost>>,
         \A c \in Callers : ev'[c] = "event"
  PROVE  RouteInv'
BY Zenon DEF RouteInv, NoClosed

\* Every step keeps the right to route in one place: dispatch ends the loop
\* that emitted Closed, Rebind needs a Closed that was read.
LEMMA RouteStep == TypeOK /\ RouteInv /\ [Next]_vars => RouteInv'
<1> SUFFICES ASSUME TypeOK, RouteInv, [Next]_vars PROVE RouteInv'
  BY Zenon
<1>1. ASSUME NEW e \in Emitters, NEW k \in {"event", "closed"}, Emit(e, k) PROVE RouteInv'
  <2>1. \A r \in Runs : Live(r)' => Live(r)
    BY <1>1, Zenon DEF Emit, Live, TypeOK, Emitters
  <2>2. \A c \in Callers : ev'[c] = "event"
    BY <1>1, MuxAssumption, Zenon DEF Emit, RouteInv, TypeOK, Emitters
  <2>3. UNCHANGED <<buf, lost>>
    BY <1>1, Zenon DEF Emit
  <2> QED
    BY <2>1, <2>2, <2>3, QuietRoute, Zenon
<1>2. ASSUME NEW e \in Emitters, Send(e) PROVE RouteInv'
  <2>1. /\ pc[e] = "sending" /\ pc' = [pc EXCEPT ![e] = "leaving"]
        /\ buf' = Append(buf, ev[e]) /\ UNCHANGED <<ev, lost>>
    BY <1>2, Zenon DEF Send
  <2>2. \A r \in Runs : Live(r)' => Live(r) /\ (r = e => ev[e] = "event")
    BY <2>1, Zenon DEF Live, TypeOK, Emitters
  <2>3. /\ DOMAIN buf = 1..Len(buf) /\ DOMAIN buf' = 1..(Len(buf) + 1) /\ Len(buf) \in Nat
        /\ buf'[Len(buf) + 1] = ev[e] /\ \A k \in DOMAIN buf : buf'[k] = buf[k]
    BY <2>1 DEF TypeOK
  <2>4. CASE ev[e] = "event"
    <3>1. ASSUME NEW k \in DOMAIN buf', buf'[k] = "closed"
          PROVE  k \in DOMAIN buf /\ buf[k] = "closed"
      <4>1. k # Len(buf) + 1
        BY <2>3, <2>4, <3>1, Zenon
      <4>2. k \in DOMAIN buf
        BY <2>3, <4>1
      <4> QED
        BY <2>3, <3>1, <4>2, Zenon
    <3>2. NoClosed(buf) => NoClosed(buf')
      BY <3>1, Zenon DEF NoClosed
    <3> QED
      BY <2>1, <2>2, <3>1, <3>2 DEF RouteInv
  <2>5. CASE ev[e] = "closed"
    <3>1. e \in Runs
      BY <2>5, Zenon DEF RouteInv, Emitters
    <3>2. Live(e) /\ NoClosed(buf) /\ ~lost
      BY <2>1, <3>1, Zenon DEF RouteInv, Live
    <3>3. \A r \in Runs : ~Live(r)'
      BY <2>2, <2>5, <3>1, <3>2, Zenon DEF RouteInv
    <3>4. \A k \in DOMAIN buf' : buf'[k] = "closed" => k = Len(buf) + 1
      BY <2>3, <3>2 DEF NoClosed
    <3> QED
      BY <2>1, <3>2, <3>3, <3>4, Zenon DEF RouteInv
  <2> QED
    BY <2>4, <2>5, Zenon DEF TypeOK
<1>3. ASSUME NEW e \in Emitters, Quit(e) \/ Leave(e) PROVE RouteInv'
  <2>1. UNCHANGED <<ev, buf, lost>>
    BY <1>3, Zenon DEF Quit, Leave
  <2>2. \A r \in Runs : Live(r)' => Live(r)
    <3>1. CASE Quit(e)
      BY <3>1, Zenon DEF Quit, Live, TypeOK, Emitters
    <3>2. CASE Leave(e)
      BY <3>2, Zenon DEF Leave, Live, AfterEmit, Terminal, TypeOK, Emitters
    <3> QED
      BY <1>3, <3>1, <3>2, Zenon
  <2> QED
    BY <2>1, <2>2, QuietRoute, Zenon DEF RouteInv
<1>4. ASSUME NEW r \in Runs, StreamEnds(r) \/ Return(r) PROVE RouteInv'
  <2>1. \A s \in Runs : Live(s)' => Live(s)
    BY <1>4, Zenon DEF StreamEnds, Return, Live, TypeOK, Emitters
  <2>2. UNCHANGED <<ev, buf, lost>>
    BY <1>4, Zenon DEF StreamEnds, Return
  <2> QED
    BY <2>1, <2>2, QuietRoute, Zenon DEF RouteInv
<1>5. ASSUME NEW r \in Runs, Rebind(r) PROVE RouteInv'
  <2>1. lost /\ ~lost' /\ UNCHANGED <<ev, buf>>
    BY <1>5, Zenon DEF Rebind
  <2>2. NoClosed(buf) /\ \A s \in Runs : ~Live(s)
    BY <2>1, Zenon DEF RouteInv
  <2>3. \A s \in Runs : Live(s)' => s = r
    BY <1>5, <2>2, Zenon DEF Rebind, Live, TypeOK, Emitters
  <2> QED
    BY <2>1, <2>2, <2>3, Zenon DEF RouteInv
<1>6. CASE SetReconnectable \/ Close
  <2>1. UNCHANGED <<pc, ev, buf, lost>>
    BY <1>6, Zenon DEF SetReconnectable, Close
  <2> QED
    BY <2>1, QuietRoute, Zenon DEF Live, RouteInv
<1>7. CASE Consume
  <2>1. /\ buf # <<>> /\ buf' = Tail(buf) /\ lost' = (lost \/ Head(buf) = "closed")
        /\ UNCHANGED <<pc, ev>>
    BY <1>7, Zenon DEF Consume
  <2>2. /\ 1 \in DOMAIN buf /\ Head(buf) = buf[1]
        /\ \A k \in DOMAIN buf' : k + 1 \in DOMAIN buf /\ buf'[k] = buf[k + 1] /\ k \in Nat \ {0}
    BY <2>1 DEF TypeOK
  <2>3. NoClosed(buf) => NoClosed(buf')
    BY <2>2, Zenon DEF NoClosed
  <2>4. Head(buf) = "closed" => NoClosed(buf')
    BY <2>2 DEF RouteInv, NoClosed
  <2>5. \A k, l \in DOMAIN buf' : buf'[k] = "closed" /\ buf'[l] = "closed" => k = l
    BY <2>2 DEF RouteInv
  <2>6. lost' => NoClosed(buf')
    BY Zenon, <2>1, <2>3, <2>4 DEF RouteInv
  <2>7. \A s \in Runs : Live(s)' <=> Live(s)
    BY <2>1, Zenon DEF Live
  <2>8. (\E s \in Runs : Live(s)) => ~lost' /\ NoClosed(buf')
    <3>1. NoClosed(buf) => Head(buf) # "closed"
      BY <2>2, Zenon DEF NoClosed
    <3> QED
      BY Zenon, <2>1, <2>3, <3>1 DEF RouteInv
  <2> QED
    BY <2>1, <2>5, <2>6, <2>7, <2>8, Zenon DEF RouteInv
<1>8. CASE UNCHANGED vars
  BY <1>8, QuietRoute, Zenon DEF vars, Live, RouteInv
<1> QED
  BY <1>1, <1>2, <1>3, <1>4, <1>5, <1>6, <1>7, <1>8, Zenon DEF Next

\* Services are called by one goroutine at a time, through any number of
\* drops and rebinds (Rebind, dispatch).
THEOREM OneGoroutineRoutes == Spec => []OneRouter
<1>1. Init => RouteInv
  <2> SUFFICES ASSUME Init PROVE RouteInv
    BY Zenon
  <2>1. \A r \in Runs : Live(r) => r = First
    BY MuxAssumption, Zenon DEF Init, Live, Emitters
  <2>2. NoClosed(buf) /\ DOMAIN buf = {} /\ ~lost
    BY DEF Init, NoClosed
  <2>3. \A c \in Callers : ev[c] = "event"
    BY Zenon DEF Init, Emitters
  <2> QED
    BY <2>1, <2>2, <2>3, Zenon DEF RouteInv
<1>2. RouteInv => OneRouter
  BY Zenon DEF RouteInv, OneRouter, Routing, Live
<1> QED
  BY MuxTypes, RouteStep, <1>1, <1>2, PTL DEF Spec
=============================================================================
