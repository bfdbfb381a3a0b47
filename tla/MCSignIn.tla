------------------------------ MODULE MCSignIn ------------------------------
(* Two addresses, one of them spelled in two ways. *)
EXTENDS SignIn, TLC

CONSTANTS a, A, b, q1, q2, l1, o1, o2

MCAddressOf == (a :> a) @@ (A :> a) @@ (b :> b)
=============================================================================
