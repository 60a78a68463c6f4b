----------------------------- MODULE MCPasskey ------------------------------
(* A few requests against an account that has one passkey.                 *)
EXTENDS Passkey
=============================================================================
