--------------------------- MODULE MCRunLifecycle ---------------------------
(* Constants for the model checker: every row in one workdir; rows of one   *)
(* driver, or a claude row, then a codex one, and so on in turn.            *)
EXTENDS RunLifecycle

CONSTANTS d1, h1, h2

OneDir  == [t \in Task |-> d1]
Claude  == [t \in Task |-> "claude"]
Codex   == [t \in Task |-> "codex"]
Exec    == [t \in Task |-> "exec"]
InTurn  == [t \in Task |-> IF t % 2 = 1 THEN "claude" ELSE "codex"]
=============================================================================
