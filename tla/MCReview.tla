------------------------------- MODULE MCReview ------------------------------
(***************************************************************************)
(* A parallel chart for TLC.  One region drafts with a guarded agent under *)
(* a deadline, the other asks a user; either can abort the review or start *)
(* it over, and when both regions are done the run is.  The agent may be   *)
(* nudged once, and restarted once for failing validation.                 *)
(***************************************************************************)
EXTENDS Execution

CONSTANTS Review, Writing, Draft, Drafted, Late, Asking, Approve, Approved,
          Done, Stopped,
          FINISH, ABORT, YES, NO

MCNode == {Review, Writing, Draft, Drafted, Late, Asking, Approve, Approved,
           Done, Stopped}
MCEvent == {FINISH, ABORT, YES, NO}

MCKind ==
  [n \in MCNode |->
     CASE n = Review -> "parallel"
       [] n \in {Writing, Asking} -> "region"
       [] n \in {Draft, Approve} -> "state"
       [] OTHER -> "final"]

MCParent ==
  [n \in MCNode |->
     CASE n \in {Writing, Asking} -> Review
       [] n \in {Draft, Drafted, Late} -> Writing
       [] n \in {Approve, Approved} -> Asking
       [] OTHER -> None]

MCInitial ==
  [n \in MCNode |->
     CASE n = Writing -> Draft [] n = Asking -> Approve [] OTHER -> None]

MCOnDone == [n \in MCNode |-> IF n = Review THEN Done ELSE None]

MCOn ==
  [n \in MCNode |-> [e \in MCEvent |->
     CASE n = Draft /\ e = FINISH -> Drafted
       [] n = Approve /\ e = YES -> Approved
       [] n = Review /\ e = ABORT -> Stopped
       [] n = Review /\ e = NO -> Review
       [] OTHER -> None]]

MCAfter == [n \in {Draft, Approve} |-> IF n = Draft THEN Late ELSE None]
MCRank == [n \in {Draft, Approve} |-> IF n = Draft THEN 1 ELSE 2]
MCAction == [n \in {Draft, Approve} |-> IF n = Draft THEN "agent" ELSE "user"]
MCGuarded == {Draft}
MCNudge == [c \in Scope |-> 1]
MCRestart == [c \in Scope |-> IF c = "validation" THEN 1 ELSE 0]
MCFailures == {"retryable", "fatal"}
=============================================================================
