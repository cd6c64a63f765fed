-------------------------- MODULE MCSecureSession --------------------------
(* SecureSession on a small instance. *)
EXTENDS SecureSession
=============================================================================
