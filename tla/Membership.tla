----------------------------- MODULE Membership -----------------------------
(***************************************************************************)
(* What the relay promises about one session's participants: ids are       *)
(* issued in order and never again, at most MaxParticipants hold a slot,   *)
(* an absent participant is away until it resumes or is gone for good, and *)
(* the session is over, finally, when nobody is left or it is closed.      *)
(***************************************************************************)
EXTENDS Integers, FiniteSets

CONSTANTS MaxID, MaxParticipants

VARIABLES status, over

vars == <<status, over>>

Ids     == 1..MaxID
Present == {i \in Ids : status[i] \in {"live", "away"}}

Init ==
  /\ status = [i \in Ids |-> "unborn"]
  /\ over = FALSE

Join(i) ==
  /\ ~over
  /\ status[i] = "unborn"
  /\ \A j \in Ids : j < i => status[j] # "unborn"
  /\ Cardinality(Present) < MaxParticipants
  /\ status' = [status EXCEPT ![i] = "live"]
  /\ UNCHANGED over

Drop(i) ==
  /\ ~over /\ status[i] = "live"
  /\ status' = [status EXCEPT ![i] = "away"]
  /\ UNCHANGED over

Resume(i) ==
  /\ ~over /\ status[i] = "away"
  /\ status' = [status EXCEPT ![i] = "live"]
  /\ UNCHANGED over

Depart(i) ==
  /\ ~over /\ i \in Present
  /\ status' = [status EXCEPT ![i] = "gone"]
  /\ over' = (Present = {i})

Close == ~over /\ over' = TRUE /\ UNCHANGED status

Next ==
  \/ \E i \in Ids : Join(i) \/ Drop(i) \/ Resume(i) \/ Depart(i)
  \/ Close

Spec == Init /\ [][Next]_vars
=============================================================================
