--------------------------- MODULE MCBaseWorkflow ---------------------------
(* Two callers and one subclass of each kind, with few calls in all. *)
EXTENDS BaseWorkflow

AllBodies == BodyKind
ThrowingBodies == {"throwing"}

=============================================================================
