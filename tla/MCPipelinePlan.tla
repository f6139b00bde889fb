----------------------------- MODULE MCPipelinePlan -----------------------------
(* A small instance of PipelinePlan: what a rule set may ask for.          *)
EXTENDS PipelinePlan, TLC

CONSTANTS c1, c2

W(op, ch) == [op |-> op, ch |-> ch]

(* Two updates around a create; a renumbering and a delete.                *)
MixedPrograms == {<<W("update", c1), W("create", c1), W("update", c2)>>,
                  <<W("number", c1), W("delete", c2)>>}
=================================================================================
