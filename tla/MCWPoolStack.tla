---------------------------- MODULE MCWPoolStack ----------------------------
(* wpool.Stack with two submitters: one that calls SubmitTimeout and one    *)
(* that calls Submit and TrySubmit, or two that call Submit.                *)
EXTENDS WPoolStack

MCKinds == LET one == CHOOSE p \in Procs : TRUE
           IN [p \in Procs |-> IF p = one THEN {"timeout"} ELSE {"submit", "try"}]

MCSubmitOnly == [p \in Procs |-> {"submit"}]
=============================================================================
