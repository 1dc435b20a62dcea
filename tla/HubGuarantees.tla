---------------------------- MODULE HubGuarantees ----------------------------
(***************************************************************************)
(* What a relay session promises its clients as a whole: the exact         *)
(* membership, an abstract service it implements (module Membership), that *)
(* waiting ends, and one promise of a comment that the code breaks.        *)
(***************************************************************************)
EXTENDS RelayHub

\* The peers a client knows after the frames s on top of those it knew.
ViewAfter(known, s) ==
  LET view[k \in 0..Len(s)] == IF k = 0 THEN known ELSE View(view[k - 1], s[k])
  IN  view[Len(s)]

\* Who is there, according to what c was sent and what is queued for it.
ViewOf(c) == ViewAfter(rx[c].view, out[c])

\* The frames a served client was sent and the ones queued for it add up to
\* exactly the current membership: no join or leave notice is missed,
\* repeated wrongly or out of order, evictions and resumes included.  Exempt:
\* a resume whose backlog did not fit behind the reply (handleResume drops
\* the rest) and a creator whose join the hub read after somebody else's,
\* which is told nobody is there.
MembershipViewExact ==
  \A i \in clients \ (held \cup Range(evict)) :
    LET c == conn[i] IN
    ~done /\ c \notin lossy /\ (c = Creator => i = 1)
      => ViewOf(c) = clients \ {i}

\* Where the hub has each participant, in the terms of Membership.
Status ==
  [i \in Ids |-> IF i >= nextID THEN "unborn"
                 ELSE IF i \notin clients THEN "gone"
                 ELSE IF i \in held THEN "away" ELSE "live"]

\* The hub implements what the relay promises about participants.
Abstract == INSTANCE Membership WITH status <- Status, over <- done

ImplementsMembership == Abstract!Spec

\* A held slot is resumed or given up in the end (the grace timer).
HeldResolves == \A i \in Ids : i \in held ~> i \notin held \/ done

\* A hello is answered as long as the hub keeps running.
HelloAnsweredWhileOpen == \A c \in Conns : pc[c] = "hello" ~> pc[c] # "hello" \/ done

\* send's promise: "send delivers a command to the hub unless it has already
\* shut down", so that the reply hello and resume wait for always comes.
FindingHelloAnswered == \A c \in Conns : pc[c] = "hello" ~> pc[c] # "hello"
=============================================================================
