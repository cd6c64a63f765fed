--------------------------- MODULE MCAuthSessions ---------------------------
(* AuthSessions with two pages in one browser and one in another. *)
EXTENDS AuthSessions, TLC

CONSTANTS b1, b2, p1, p2, p3

MCBrowserOf == (p1 :> b1) @@ (p2 :> b1) @@ (p3 :> b2)
=============================================================================
