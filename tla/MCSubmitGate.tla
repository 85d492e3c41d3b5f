---------------------------- MODULE MCSubmitGate ----------------------------
(* Small instances of SubmitGate. *)
EXTENDS SubmitGate, TLC

CONSTANTS r1, r2, s1, u1, u2, c1

\* Both submits are under one session id, of two users or of one.
SharedSession == (r1 :> s1) @@ (r2 :> s1)
TwoUsers == (r1 :> u1) @@ (r2 :> u2)
OneUser == (r1 :> u1) @@ (r2 :> u1)
ByFirst == c1 :> u1
=============================================================================
