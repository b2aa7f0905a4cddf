------------------------- MODULE MCWorkflowManager --------------------------
(* WorkflowManager with two callers, two workflows and two or three tasks. *)
EXTENDS WorkflowManager, TLC

CONSTANTS c1, c2, w1, w2, t1, t2, t3

\* t1 and t2 name different workflows, t1 and t3 the same one.
MCWorkflowOf == (t1 :> w1) @@ (t2 :> w2)
MCWorkflowOfRerun == (t1 :> w1) @@ (t3 :> w1)

=============================================================================
