----------------------------- MODULE MCIocpWake -----------------------------
(* A waker, a callback, a wait with a timeout and one without. *)
EXTENDS IocpWake
=============================================================================
