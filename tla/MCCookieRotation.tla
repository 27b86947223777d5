--------------------------- MODULE MCCookieRotation ---------------------------
(***************************************************************************)
(* An instance of CookieRotation for TLC: half a second per tick, cookies  *)
(* that live for three seconds, and keys 0, 1 and 2.                       *)
(***************************************************************************)
EXTENDS CookieRotation, TLC

CONSTANTS k0, k1, k2

MCSecretOf == 0 :> k0 @@ 1 :> k1 @@ 2 :> k2
===============================================================================
