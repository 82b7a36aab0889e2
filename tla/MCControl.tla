----------------------------- MODULE MCControl -----------------------------
EXTENDS Control
Events == {"yes", "no"}
(* The first answer may as well be "yes"; a call goes on as late as it likes. *)
Asks == <<{Answer("yes"), Move(2)}, {Answer("yes"), Answer("no")}>>
=============================================================================
