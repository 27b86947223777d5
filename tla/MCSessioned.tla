------------------------------ MODULE MCSessioned ------------------------------
(***************************************************************************)
(* Instances of Sessioned for TLC.  Two clients; the first two requests    *)
(* are Alice's, so that they may overlap on one session, the last one is   *)
(* Bob's.                                                                  *)
(***************************************************************************)
EXTENDS Sessioned, TLC

CONSTANTS alice, bob, r1, r2, r3

MCClients == {alice, bob}
MCRequests == {r1, r2, r3}
MCClientOf == r1 :> alice @@ r2 :> alice @@ r3 :> bob

\* One client with overlapping requests, for the runs about one session.
OneClient == {alice}
TwoRequests == {r1, r2}
OneClientOf == r1 :> alice @@ r2 :> alice
ThreeRequests == {r1, r2, r3}
ThreeClientOf == r1 :> alice @@ r2 :> alice @@ r3 :> alice

\* NewId draws its ids at random: which one comes first does not matter.
FreshSymmetry == Permutations(FreshIds)
===============================================================================
