---------------------------- MODULE MCScriptStore ----------------------------
(* Model values and sizes for ScriptStore: two scripts that fit, of one and *)
(* of two parts, and one that does not.                                     *)
EXTENDS ScriptStore

CONSTANTS small, large, huge

MCImage == {small, large, huge}
MCSize == [m \in MCImage |-> IF m = small THEN 1 ELSE IF m = large THEN 2 ELSE 3]

==============================================================================
