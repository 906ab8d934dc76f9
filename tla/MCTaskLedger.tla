----------------------------- MODULE MCTaskLedger -----------------------------
(* One process inspects and verifies the task the other one works on; both *)
(* commit.                                                                 *)
EXTENDS TaskLedger
CONSTANTS p1, p2
MCDoes == [p \in {p1, p2} |->
             IF p = p1 THEN {"show", "init", "commit", "verify", "rollback"}
             ELSE {"init", "commit", "complete", "recover", "run"}]
=============================================================================
