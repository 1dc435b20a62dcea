------------------------------- MODULE Services -------------------------------
(***************************************************************************)
(* The services of a session: chat lines with a bounded history            *)
(* (service/chat/chat.go), names and endpoints kept by the host            *)
(* (service/ctl.go), snapshots for late joiners, and the sequence numbers  *)
(* by which the mux notices a gap (service/mux.go, seal in                 *)
(* session/client.go).                                                     *)
(*                                                                         *)
(* A line is said by a caller's goroutine in four steps: numbered and      *)
(* sealed, written, recorded, emitted.  Frames are handled one at a time   *)
(* by the mux goroutine of the receiver.  The relay gives everybody the    *)
(* frames in the order in which they were written (module RelayHub).       *)
(* Nobody leaves here and the host stays (module Migration has the rest):  *)
(* what a late joiner sees is the subject.                                 *)
(*                                                                         *)
(* queue[p] is what was routed to p and p's mux has not handled.  The      *)
(* host's read loop runs ahead of its mux: it answers a joiner's PAKE      *)
(* wherever that is in the queue and leaves a MemberKeyed in its place.    *)
(***************************************************************************)
EXTENDS Integers, Sequences, Functions

CONSTANTS
  Seated,      \* keyed at the start, the host among them
  Joiners,     \* who comes later
  Host,
  MaxActs,     \* bound: lines said and attributes set
  MaxCap       \* bound: historyCap is at most this

P     == Seated \cup Joiners
Lines == 1..MaxActs
Attrs == {"name", "endpoint", "pushkey"}
Svcs  == {"chat", "ctl"}

ASSUME ServicesAssumption ==
  /\ Host \in Seated /\ Seated \cap Joiners = {}
  /\ MaxActs \in Nat /\ MaxCap \in Nat \ {0}

VARIABLES
  stage,     \* out, waiting (for the key), keyed, running (mux started)
  queue,
  line,      \* each line: who says it, with which number, how far it is
  cap,       \* historyCap, any up to the bound
  history,   \* chat.history: lines
  restoring, \* the lines of a snapshot that Restore has not come to
  emitted,   \* chat.Message events: how often each line was shown
  seqs,      \* client.seqs
  lastSeq,   \* mux.lastSeq
  desync,    \* history: for which sender and service a Desync was emitted
  roster,    \* ctl.roster, without roles
  attrs,     \* ctl.names, ctl.endpoints, and ctl.pushKey as the host's; 0 is blank
  own,       \* what each set last: ctl.selfName, ctl.selfEndpoint
  acts,
  dropped,   \* history: lines that fell out of a history
  overtaken, \* history: lines of the host a snapshot was taken without
  crossed    \* history: who numbered a line before the one before was written

chatVars == <<line, cap, history, restoring, emitted, dropped>>
seqVars  == <<seqs, lastSeq, desync>>
ctlVars  == <<roster, attrs, own>>
vars     == <<acts, stage, queue, chatVars, seqVars, ctlVars, overtaken, crossed>>

NoAttrs == [a \in Attrs |-> [p \in P |-> 0]]
Unsaid  == [by |-> Host, n |-> 0, at |-> "unsaid"]

\* The body of a frame: a line, an attribute, the roster and all attributes,
\* a history, or nothing.
Frame(k, svc, p, n, b) == [kind |-> k, svc |-> svc, from |-> p, n |-> n, body |-> b]

\* Types; a history is within its bound and has no line twice.
TypeOK ==
  /\ stage \in [P -> {"out", "waiting", "keyed", "running"}]
  /\ line \in [Lines -> [by : P, n : Nat, at : {"unsaid", "sealed", "written", "recorded", "said"}]]
  /\ cap \in 1..MaxCap /\ history \in [P -> Seq(Lines)] /\ dropped \in [P -> SUBSET Lines]
  /\ restoring \in [P -> Seq(Lines)]
  /\ \A p \in P : Len(history[p]) <= cap /\ IsInjective(history[p])
  /\ emitted \in [P -> [Lines -> Nat]]
  /\ seqs \in [P -> [Svcs -> Nat]] /\ lastSeq \in [P -> [P -> [Svcs -> Nat]]]
  /\ desync \in [P -> SUBSET (P \X Svcs)]
  /\ roster \in [P -> SUBSET P] /\ attrs \in [P -> [Attrs -> [P -> 0..MaxActs]]]
  /\ own \in [P -> [Attrs -> 0..MaxActs]] /\ acts \in 0..MaxActs
  /\ overtaken \subseteq Lines /\ crossed \subseteq P

Init ==
  /\ stage = [p \in P |-> IF p \in Seated THEN "running" ELSE "out"]
  /\ queue = [p \in P |-> <<>>]
  /\ line = [l \in Lines |-> Unsaid]
  /\ cap \in 1..MaxCap /\ dropped = [p \in P |-> {}]
  /\ history = [p \in P |-> <<>>] /\ restoring = [p \in P |-> <<>>]
  /\ emitted = [p \in P |-> [l \in Lines |-> 0]]
  /\ seqs = [p \in P |-> [s \in Svcs |-> 0]]
  /\ lastSeq = [p \in P |-> [q \in P |-> [s \in Svcs |-> 0]]]
  /\ desync = [p \in P |-> {}]
  /\ roster = [p \in P |-> IF p \in Seated THEN Seated ELSE {}]
  /\ attrs = [p \in P |-> NoAttrs] /\ own = [p \in P |-> [a \in Attrs |-> 0]] /\ acts = 0
  /\ overtaken = {} /\ crossed = {}

-----------------------------------------------------------------------------
(* Joining, and the way of a frame.                                        *)

ToAll(p, f)  == [q \in P |-> IF q # p /\ stage[q] # "out" THEN Append(queue[q], f) ELSE queue[q]]

\* sendPake1, and its way to the host.
Join(p) ==
  /\ stage[p] = "out"
  /\ stage' = [stage EXCEPT ![p] = "waiting"]
  /\ queue' = [queue EXCEPT ![Host] = Append(@, Frame("pake1", "none", p, 0, 0))]
  /\ UNCHANGED <<acts, chatVars, seqVars, ctlVars, overtaken, crossed>>

\* handleHandshakeDirect, on the host's read loop.
HostReads ==
  \E i \in DOMAIN queue[Host] :
    LET q == queue[Host][i].from IN
    /\ queue[Host][i].kind = "pake1"
    /\ \A k \in 1..(i - 1) : queue[Host][k].kind # "pake1"
    /\ queue' = [queue EXCEPT ![Host][i].kind = "keyed",
                              ![q] = Append(@, Frame("groupkey", "none", Host, 0, 0))]
    /\ UNCHANGED <<acts, stage, chatVars, seqVars, ctlVars, overtaken, crossed>>

\* joinDriveHandshake: skips what is not the host's key.
AwaitKey(p) ==
  /\ stage[p] = "waiting" /\ queue[p] # <<>>
  /\ queue' = [queue EXCEPT ![p] = Tail(@)]
  /\ stage' = IF Head(queue[p]).kind = "groupkey" THEN [stage EXCEPT ![p] = "keyed"] ELSE stage
  /\ UNCHANGED <<acts, chatVars, seqVars, ctlVars, overtaken, crossed>>

NumberedAll(p, s) == [seqs EXCEPT ![p] = [t \in Svcs |-> seqs[p][t] + 1]]

\* seal: the next number of the service, a Direct included.
Numbered(p, s) == [seqs EXCEPT ![p][s] = @ + 1]
Num(p, s)      == seqs[p][s] + 1

\* run, requestSnapshot.
StartMux(p) ==
  /\ stage[p] = "keyed"
  /\ stage' = [stage EXCEPT ![p] = "running"]
  /\ queue' = [queue EXCEPT ![Host] = Append(@, Frame("snapreq", "ctl", p, Num(p, "ctl"), 0))]
  /\ seqs' = Numbered(p, "ctl")
  /\ UNCHANGED <<acts, chatVars, lastSeq, desync, ctlVars, overtaken, crossed>>

-----------------------------------------------------------------------------
(* Say.                                                                    *)

RecordedAll(h, l) == IF l \in Range(h) THEN h ELSE Append(h, l)

\* record: the history afterwards.
Recorded(h, l) ==
  IF l \in Range(h) THEN h ELSE SubSeq(Append(h, l), IF Len(h) = cap THEN 2 ELSE 1, Len(h) + 1)

AlwaysNew(h, l) == TRUE

\* record: what it reports.
IsNew(h, l) == l \notin Range(h)

\* record, and which lines the history has lost.
Records(p, l) ==
  LET h == Recorded(history[p], l) IN
  /\ history' = [history EXCEPT ![p] = h]
  /\ dropped' = [dropped EXCEPT ![p] = @ \cup (Range(history[p]) \ Range(h))]

\* HandleFrame and Restore emit what was new.
EmitsNew(p, l) ==
  emitted' = IF IsNew(history[p], l) THEN [emitted EXCEPT ![p][l] = @ + 1] ELSE emitted

\* Any number of goroutines may be saying something.  seal gives the number,
Say(p) ==
  LET l == acts + 1 IN
  /\ stage[p] \in {"keyed", "running"} /\ acts < MaxActs
  /\ acts' = l
  /\ line' = [line EXCEPT ![l] = [by |-> p, n |-> Num(p, "chat"), at |-> "sealed"]]
  /\ seqs' = Numbered(p, "chat")
  /\ crossed' = IF \E k \in Lines : line[k].by = p /\ line[k].at = "sealed" THEN crossed \cup {p} ELSE crossed
  /\ UNCHANGED <<stage, queue, cap, history, restoring, emitted, dropped, lastSeq, desync, ctlVars, overtaken>>

\* writeFrame waits its turn for the connection,
SayWrite(l) ==
  /\ line[l].at = "sealed"
  /\ line' = [line EXCEPT ![l].at = "written"]
  /\ queue' = ToAll(line[l].by, Frame("chat", "chat", line[l].by, line[l].n, l))
  /\ UNCHANGED <<acts, stage, cap, history, restoring, emitted, dropped, seqVars, ctlVars, overtaken, crossed>>

\* then the sender records the line,
SayRecord(l) ==
  /\ line[l].at = "written"
  /\ line' = [line EXCEPT ![l].at = "recorded"]
  /\ Records(line[l].by, l)
  /\ UNCHANGED <<acts, stage, queue, cap, restoring, emitted, seqVars, ctlVars, overtaken, crossed>>

\* and shows it, without asking whether it was new.
SayEmit(l) ==
  /\ line[l].at = "recorded"
  /\ line' = [line EXCEPT ![l].at = "said"]
  /\ emitted' = [emitted EXCEPT ![line[l].by][l] = @ + 1]
  /\ UNCHANGED <<acts, stage, queue, cap, history, restoring, dropped, seqVars, ctlVars, overtaken, crossed>>

-----------------------------------------------------------------------------
(* The control service, on the mux goroutine.                              *)

\* announce: the attributes of those on the roster.
Announcement(p, r, as) ==
  ToAll(p, Frame("announce", "ctl", p, Num(p, "ctl"),
                 [roster |-> r, attrs |-> [a \in Attrs |-> [q \in P |-> IF q \in r THEN as[a][q] ELSE 0]]]))

\* setName refuses a blank, setPushKey everybody but the host.
SetAttr(p) ==
  \E a \in Attrs, v \in {0, acts + 1} :
    LET as == [attrs[p] EXCEPT ![a][p] = v] IN
    /\ stage[p] = "running" /\ restoring[p] = <<>> /\ acts < MaxActs
    /\ a = "name" => v # 0
    /\ a = "pushkey" => p = Host
    /\ acts' = acts + 1
    /\ own' = [own EXCEPT ![p][a] = v]
    /\ attrs' = [attrs EXCEPT ![p] = as]
    /\ queue' = IF p = Host THEN Announcement(p, roster[p], as)
                ELSE [queue EXCEPT ![Host] = Append(@, Frame("identity", "ctl", p, Num(p, "ctl"), [attr |-> a, value |-> v]))]
    /\ seqs' = Numbered(p, "ctl")
    /\ UNCHANGED <<stage, chatVars, lastSeq, desync, roster, overtaken, crossed>>

\* A frame that is no frame of a service: the event MemberKeyed of the host.
MemberKeyed ==
  LET r == roster[Host] \cup {Head(queue[Host]).from} IN
  /\ queue[Host] # <<>> /\ Head(queue[Host]).kind = "keyed"
  /\ roster' = [roster EXCEPT ![Host] = r]
  /\ queue' = [Announcement(Host, r, attrs[Host]) EXCEPT ![Host] = Tail(@)]
  /\ seqs' = Numbered(Host, "ctl")
  /\ UNCHANGED <<acts, stage, chatVars, lastSeq, desync, attrs, own, overtaken, crossed>>

\* handleFrame: the number is compared, then the service called.
Handles(p, k) ==
  LET f == Head(queue[p])
      s == f.svc
  IN
  /\ stage[p] = "running" /\ restoring[p] = <<>> /\ queue[p] # <<>> /\ f.kind = k
  /\ lastSeq' = [lastSeq EXCEPT ![p][f.from][s] = f.n]
  /\ desync' = IF f.n = lastSeq[p][f.from][s] + 1 THEN desync ELSE [desync EXCEPT ![p] = @ \cup {<<f.from, s>>}]

\* chat.HandleFrame.
HandleLine(p) ==
  LET l == Head(queue[p]).body IN
  /\ Handles(p, "chat")
  /\ Records(p, l) /\ EmitsNew(p, l)
  /\ queue' = [queue EXCEPT ![p] = Tail(@)]
  /\ UNCHANGED <<acts, stage, line, cap, restoring, seqs, ctlVars, overtaken, crossed>>

\* handleAnnounce: everything is replaced.
HandleAnnounce(p) ==
  LET b == Head(queue[p]).body IN
  /\ Handles(p, "announce")
  /\ roster' = [roster EXCEPT ![p] = b.roster]
  /\ attrs' = [attrs EXCEPT ![p] = b.attrs]
  /\ queue' = [queue EXCEPT ![p] = Tail(@)]
  /\ UNCHANGED <<acts, stage, chatVars, seqs, own, overtaken, crossed>>

FoldedOnce(as, f) == IF as[f.body.attr][f.from] # 0 THEN as ELSE [as EXCEPT ![f.body.attr][f.from] = f.body.value]

\* What is not blank, as the sender's.
Folded(as, f) == IF f.body.value = 0 THEN as ELSE [as EXCEPT ![f.body.attr][f.from] = f.body.value]

\* handleIdentity announces in any case.
HandleIdentity ==
  LET as == Folded(attrs[Host], Head(queue[Host])) IN
  /\ Handles(Host, "identity")
  /\ attrs' = [attrs EXCEPT ![Host] = as]
  /\ queue' = [Announcement(Host, roster[Host], as) EXCEPT ![Host] = Tail(@)]
  /\ seqs' = Numbered(Host, "ctl")
  /\ UNCHANGED <<acts, stage, chatVars, roster, own, overtaken, crossed>>

AllButLast(h) == SubSeq(h, 1, Len(h) - 1)

\* chat.Snapshot.
Snapshot(h) == h

\* handleSnapshotReq, sendSnapshot.
HandleSnapshotReq ==
  LET q == Head(queue[Host]).from
      f == Frame("snapshot", "ctl", Host, Num(Host, "ctl"), Snapshot(history[Host]))
  IN
  /\ Handles(Host, "snapreq")
  /\ queue' = [queue EXCEPT ![Host] = Tail(@), ![q] = Append(@, f)]
  /\ seqs' = Numbered(Host, "ctl")
  /\ overtaken' = overtaken \cup {l \in Lines : line[l].by = Host /\ line[l].at = "written" /\ l \notin Range(history[Host])}
  /\ UNCHANGED <<acts, stage, chatVars, ctlVars, crossed>>

\* handleSnapshot.
HandleSnapshot(p) ==
  /\ Handles(p, "snapshot")
  /\ restoring' = [restoring EXCEPT ![p] = Head(queue[p]).body]
  /\ queue' = [queue EXCEPT ![p] = Tail(@)]
  /\ UNCHANGED <<acts, stage, line, cap, history, emitted, dropped, seqs, ctlVars, overtaken, crossed>>

\* chat.Restore: each line as if it had just come.  The lock is taken for each
\* anew, and what p itself says may be recorded in between.
Restore(p) ==
  LET l == Head(restoring[p]) IN
  /\ restoring[p] # <<>>
  /\ Records(p, l) /\ EmitsNew(p, l)
  /\ restoring' = [restoring EXCEPT ![p] = Tail(@)]
  /\ UNCHANGED <<acts, stage, queue, line, cap, seqVars, ctlVars, overtaken, crossed>>

MuxRuns(p) ==
  \/ StartMux(p) \/ HandleLine(p) \/ HandleAnnounce(p) \/ HandleSnapshot(p) \/ Restore(p)
  \/ p = Host /\ (MemberKeyed \/ HandleIdentity \/ HandleSnapshotReq)

Says(l) == SayWrite(l) \/ SayRecord(l) \/ SayEmit(l)

-----------------------------------------------------------------------------
Next ==
  \/ HostReads
  \/ \E p \in P : Join(p) \/ AwaitKey(p) \/ Say(p) \/ SetAttr(p) \/ MuxRuns(p)
  \/ \E l \in Lines : Says(l)

Spec == Init /\ [][Next]_vars

-----------------------------------------------------------------------------
(* Properties.                                                             *)

\* chat.HandleFrame and Restore: a line of somebody else is shown once,
\* whether it came live, in a snapshot, or both ways in either order, unless
\* it fell out of the receiver's history in between.
ShownOnce ==
  \A l \in Lines : \A p \in P : p # line[l].by /\ emitted[p][l] > 1 => l \in dropped[p]

\* Everything that was sent has been handled.
Quiet ==
  /\ \A p \in P : stage[p] \in {"out", "running"} /\ queue[p] = <<>> /\ restoring[p] = <<>>
  /\ \A l \in Lines : line[l].at \in {"unsaid", "said"}

\* joinDriveHandshake drops lines a joiner cannot open yet, and the snapshot
\* it asks for makes up for them: once everything has arrived everybody has
\* seen every line, those said before they came included.  Exempt are lines
\* that Say of the host had broadcast but not recorded when a snapshot was
\* taken, and those that fell out of the host's history.
CaughtUp ==
  Quiet =>
    \A p \in P, l \in Lines :
      stage[p] = "running" /\ line[l].at = "said" /\ l \notin overtaken \cup dropped[Host] => emitted[p][l] > 0

\* setName, handleIdentity and announce: once everything has arrived everybody
\* has the host's roster and of each participant what it last set, although
\* announces that crossed a change put the old value back for a while.  A
\* blank endpoint is exempt: handleIdentity ignores it.
AttrsAgree ==
  Quiet =>
    \A p, q \in {r \in P : stage[r] = "running"} :
      /\ roster[p] = roster[Host]
      /\ \A a \in Attrs : own[q][a] # 0 => attrs[p][a][q] = own[q][a]

\* mux.handleFrame compares numbers that seal gave under another lock than the
\* one writeFrame takes: among those there from the start a Desync of the chat
\* still means that its sender was saying two lines at once.
ChatGapIsCrossing ==
  \A p, q \in Seated : <<q, "chat">> \in desync[p] => q \in crossed
===============================================================================
