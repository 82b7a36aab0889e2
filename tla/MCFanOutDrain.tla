---------------------------- MODULE MCFanOutDrain ----------------------------
EXTENDS FanOut

(* One item sends a draft to an editor and is through; the editor passes    *)
(* the draft on to a printer, both owned by the state around the map.       *)
States == {"give", "end", "idle", "edit", "pass", "sign", "wait", "print"}
Events == {"DRAFT", "PRINT"}
Kinds == [s \in States |->
  CASE s \in {"give", "pass"} -> "send" [] s = "end" -> "final" [] s = "edit" -> "work"
    [] s \in {"idle", "wait"} -> "receive" [] s \in {"sign", "print"} -> "reply"]
Outcomes == [s \in {"edit"} |-> {"pass"}]
Targets == [s \in {"give", "pass", "sign", "print"} |->
  CASE s = "give" -> "end" [] s = "pass" -> "sign" [] s = "sign" -> "idle" [] s = "print" -> "wait"]
Ons == [s \in {"idle", "wait"} |-> IF s = "idle" THEN [DRAFT |-> "edit"] ELSE [PRINT |-> "print"]]
Tos == [s \in {"give", "pass"} |-> IF s = "give" THEN 1 ELSE 2]
Saying == [s \in {"give", "pass"} |-> IF s = "give" THEN "DRAFT" ELSE "PRINT"]
Counts == [s \in {"give", "pass"} |-> 1]
Ranges == <<{1}>>
Ordinary == <<1, 1>>
Initials == <<"idle", "wait">>
=============================================================================
