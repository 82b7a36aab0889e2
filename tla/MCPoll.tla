-------------------------------- MODULE MCPoll -------------------------------
(***************************************************************************)
(* A loop for TLC, without a user.  A compound polls with a script that    *)
(* can be due again and has a deadline back to itself, hands over to an    *)
(* agent with a recovery budget that can send it back or quit the loop,    *)
(* and files the result with an imported function.                         *)
(***************************************************************************)
EXTENDS Execution

CONSTANTS Cycle, Poll, Fix, File, Filed, End, Aborted,
          AGAIN, READY, BACK, QUIT

MCNode == {Cycle, Poll, Fix, File, Filed, End, Aborted}
MCEvent == {AGAIN, READY, BACK, QUIT}
MCState == {Poll, Fix, File}

MCKind ==
  [n \in MCNode |->
     CASE n = Cycle -> "compound"
       [] n \in MCState -> "state"
       [] OTHER -> "final"]

MCParent ==
  [n \in MCNode |-> IF n \in MCState \cup {Filed} THEN Cycle ELSE None]

MCInitial == [n \in MCNode |-> IF n = Cycle THEN Poll ELSE None]
MCOnDone == [n \in MCNode |-> IF n = Cycle THEN End ELSE None]

MCOn ==
  [n \in MCNode |-> [e \in MCEvent |->
     CASE n = Poll /\ e = AGAIN -> Poll
       [] n = Poll /\ e = READY -> Fix
       [] n = Fix /\ e = BACK -> Poll
       [] n = Fix /\ e = READY -> File
       [] n = File /\ e = READY -> Filed
       [] n = Cycle /\ e = QUIT -> Aborted
       [] OTHER -> None]]

MCAfter == [s \in MCState |-> IF s = Poll THEN Poll ELSE None]
MCRank ==
  [s \in MCState |-> CASE s = Poll -> 1 [] s = Fix -> 2 [] OTHER -> 3]
MCAction ==
  [s \in MCState |->
     CASE s = Poll -> "script" [] s = Fix -> "agent" [] OTHER -> "import"]
MCGuarded == {}
MCNudge == [c \in Scope |-> 1]
MCRestart == [c \in Scope |-> 1]
MCFailures == {"retryable", "fatal"}
=============================================================================
