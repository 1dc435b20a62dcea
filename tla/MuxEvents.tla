------------------------------ MODULE MuxEvents ------------------------------
(***************************************************************************)
(* The merged event stream of a mux (service/mux.go): goroutines emit into *)
(* one bounded channel while the mux is shut down, from outside or by its  *)
(* own routing goroutine, and the channel is closed.  In Go a send on a    *)
(* closed channel and a second close both panic.                           *)
(*                                                                         *)
(* A routing goroutine (run) ends with its client's stream; on a           *)
(* reconnectable mux the consumer that read the Closed event rebinds the   *)
(* mux, which starts another one.  Each critical section of Mux.mu is one  *)
(* step; quit is closed together with setting closed.                      *)
(***************************************************************************)
EXTENDS Integers, Sequences, FiniteSets

CONSTANTS
  Callers,   \* goroutines that emit through a service (chat.Say)
  Runs,      \* routing goroutines, one per connection
  First,     \* the one NewMux starts
  Cap        \* capacity of the event channel

Emitters == Callers \cup Runs

ASSUME MuxAssumption ==
  /\ IsFiniteSet(Emitters) /\ Callers \cap Runs = {} /\ First \in Runs
  /\ Cap \in Nat \ {0}

VARIABLES
  pc,             \* where an emitter is: see TypeOK
  ev,             \* what it is emitting
  buf,            \* the event channel
  closed,         \* Mux.closed, and the quit channel
  pending,        \* Mux.pending
  closes,         \* how often the event channel was closed
  reconnectable,
  lost            \* the consumer has read a Closed it has not acted on

vars == <<pc, ev, buf, closed, pending, closes, reconnectable, lost>>

\* Types.  The channel never holds more than its capacity.
TypeOK ==
  /\ pc \in [Emitters -> {"off", "ready", "sending", "leaving", "returning", "done"}]
  /\ ev \in [Emitters -> {"event", "closed"}]
  /\ buf \in Seq({"event", "closed"}) /\ Len(buf) <= Cap
  /\ closed \in BOOLEAN /\ pending \in Nat /\ closes \in Nat
  /\ reconnectable \in BOOLEAN /\ lost \in BOOLEAN

\* NewMux has started the first routing goroutine.
Init ==
  /\ pc = [e \in Emitters |-> IF e \in Callers \cup {First} THEN "ready" ELSE "off"]
  /\ ev = [e \in Emitters |-> "event"]
  /\ buf = <<>> /\ closed = FALSE /\ pending = 0 /\ closes = 0
  /\ reconnectable = FALSE /\ lost = FALSE

-----------------------------------------------------------------------------
NeverTerminal(e, k) == FALSE

\* dispatch: a Closed event ends the run loop.
Terminal(e, k) == e \in Runs /\ k = "closed"

AfterEmit(e, k) == IF Terminal(e, k) THEN "returning" ELSE "ready"

\* emit, up to the send.  Callers emit events; a run loop also Closed, once.
Emit(e, k) ==
  /\ pc[e] = "ready" /\ k \in IF e \in Runs THEN {"event", "closed"} ELSE {"event"}
  /\ \/ closed /\ pc' = [pc EXCEPT ![e] = AfterEmit(e, k)] /\ UNCHANGED <<pending, ev>>
     \/ /\ ~closed
        /\ pending' = pending + 1
        /\ pc' = [pc EXCEPT ![e] = "sending"] /\ ev' = [ev EXCEPT ![e] = k]
  /\ UNCHANGED <<buf, closed, closes, reconnectable, lost>>

Room == Len(buf) < Cap

\* The select in emit: room in the channel, or quit.
Send(e) ==
  /\ pc[e] = "sending" /\ Room
  /\ buf' = Append(buf, ev[e])
  /\ pc' = [pc EXCEPT ![e] = "leaving"]
  /\ UNCHANGED <<ev, closed, pending, closes, reconnectable, lost>>

Quit(e) ==
  /\ pc[e] = "sending" /\ closed
  /\ pc' = [pc EXCEPT ![e] = "leaving"]
  /\ UNCHANGED <<ev, buf, closed, pending, closes, reconnectable, lost>>

NobodyCloses == FALSE

LastOutCloses == closed /\ pending = 1

\* The end of emit: the last one out closes the channel.
Leave(e) ==
  /\ pc[e] = "leaving"
  /\ pending' = pending - 1
  /\ closes' = IF LastOutCloses THEN closes + 1 ELSE closes
  /\ pc' = [pc EXCEPT ![e] = AfterEmit(e, ev[e])]
  /\ UNCHANGED <<ev, buf, closed, reconnectable, lost>>

ClosesAtOnce == TRUE

NoneInFlight == pending = 0

Shutdown ==
  \/ closed /\ UNCHANGED <<closed, closes>>
  \/ /\ ~closed /\ closed' = TRUE
     /\ closes' = IF NoneInFlight THEN closes + 1 ELSE closes

\* The client's stream was closed without a Closed event (other Conns).
StreamEnds(r) ==
  /\ pc[r] = "ready"
  /\ pc' = [pc EXCEPT ![r] = "returning"]
  /\ UNCHANGED <<ev, buf, closed, pending, closes, reconnectable, lost>>

\* run's deferred function.
Return(r) ==
  /\ pc[r] = "returning"
  /\ pc' = [pc EXCEPT ![r] = "done"]
  /\ IF reconnectable THEN UNCHANGED <<closed, closes>> ELSE Shutdown
  /\ UNCHANGED <<ev, buf, pending, reconnectable, lost>>

-----------------------------------------------------------------------------
(* The application.                                                        *)

SetReconnectable ==
  /\ ~reconnectable /\ reconnectable' = TRUE
  /\ UNCHANGED <<pc, ev, buf, closed, pending, closes, lost>>

Close ==
  /\ Shutdown
  /\ UNCHANGED <<pc, ev, buf, pending, reconnectable, lost>>

Consume ==
  /\ buf # <<>>
  /\ buf' = Tail(buf)
  /\ lost' = (lost \/ Head(buf) = "closed")
  /\ UNCHANGED <<pc, ev, closed, pending, closes, reconnectable>>

\* Reconnect and Rebind, on reading Closed.
Rebind(r) ==
  /\ reconnectable /\ lost /\ pc[r] = "off"
  /\ lost' = FALSE
  /\ pc' = [pc EXCEPT ![r] = "ready"]
  /\ UNCHANGED <<ev, buf, closed, pending, closes, reconnectable>>

-----------------------------------------------------------------------------
Next ==
  \/ \E e \in Emitters : (\E k \in {"event", "closed"} : Emit(e, k)) \/ Send(e) \/ Quit(e) \/ Leave(e)
  \/ \E r \in Runs : StreamEnds(r) \/ Return(r) \/ Rebind(r)
  \/ SetReconnectable \/ Close \/ Consume

Spec == Init /\ [][Next]_vars

\* A goroutine inside emit or leaving run goes on; nobody has to consume.
FairSpec ==
  /\ Spec
  /\ \A e \in Emitters : WF_vars(Send(e) \/ Quit(e)) /\ WF_vars(Leave(e))
  /\ \A r \in Runs : WF_vars(Return(r))

-----------------------------------------------------------------------------
(* Properties.                                                             *)

\* "the events channel is closed exactly once ... and no emit ever sends
\* after that": nobody is at the select in emit once the channel is closed.
SafeClose ==
  closes <= 1 /\ (closes = 1 => \A e \in Emitters : pc[e] # "sending")

\* Services need no locking because one goroutine routes: although a rebind
\* may come before the old run has returned, the old one routes no more.
Routing(r) == pc[r] = "ready" \/ (pc[r] \in {"sending", "leaving"} /\ ev[r] = "event")

\* At most one routing goroutine calls services at any time (Rebind, dispatch).
OneRouter == \A r, s \in Runs : Routing(r) /\ Routing(s) => r = s

\* Once shut down, the channel is closed in the end, even if nobody consumes
\* and emitters are parked on a full channel: a range over it terminates.
StreamCloses == closed ~> closes = 1
=============================================================================
