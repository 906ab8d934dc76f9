--------------------------- MODULE MCContextHandoff ---------------------------
(* The supervisor and two workers.  A behaviour is about the handoff, the   *)
(* registry (where s2 plays the operator) or the lanes.                     *)
EXTENDS ContextHandoff
CONSTANTS s1, s2, supervisor
Three == {s1, s2, supervisor}
Handoffs == [s \in Three |-> IF s = supervisor THEN {"checkpoint"} ELSE {"claim", "release"}]
Registries == [s \in Three |->
  IF s = s2 THEN {"bind", "unbind", "checkpoint"} ELSE {"monitor"}]
Lanes == [s \in Three |-> IF s = supervisor THEN {"status"} ELSE {"acquire", "free"}]
MCPrograms == {Handoffs, Registries, Lanes}
MCMaxCommands == [p \in MCPrograms |-> IF p = Handoffs THEN 5 ELSE 4]
=============================================================================
