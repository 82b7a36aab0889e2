------------------------------ MODULE MCFanOut ------------------------------
EXTENDS FanOut

(* Each item asks the pool for two edits at once, then works with them.  A  *)
(* worker that has edited has to publish before it edits again.             *)
States == {"ask", "use", "tell", "end", "idle", "edit", "sign", "hold", "ready", "log"}
Events == {"EDIT", "PUBLISH"}
Kinds == [s \in States |->
  CASE s = "ask" -> "call" [] s = "tell" -> "send" [] s = "end" -> "final" [] s \in {"use", "edit"} -> "work"
    [] s \in {"idle", "ready"} -> "receive" [] s \in {"sign", "hold", "log"} -> "reply"]
Outcomes == [s \in {"use", "edit"} |-> IF s = "use" THEN {"tell", "end"} ELSE {"sign", "hold"}]
Targets == [s \in {"ask", "tell", "sign", "hold", "log"} |->
  CASE s = "ask" -> "use" [] s = "tell" -> "end" [] s = "hold" -> "ready" [] OTHER -> "idle"]
Ons == [s \in {"idle", "ready"} |-> IF s = "idle" THEN [EDIT |-> "edit", PUBLISH |-> "log"] ELSE [PUBLISH |-> "log"]]
Tos == [s \in {"ask", "tell"} |-> 1]
Saying == [s \in {"ask", "tell"} |-> IF s = "ask" THEN "EDIT" ELSE "PUBLISH"]
Counts == [s \in {"ask", "tell"} |-> IF s = "ask" THEN 2 ELSE 1]
Ranges == <<{2}, {0, 1}>>
Pool == <<2>>
Idle == <<"idle">>
=============================================================================
