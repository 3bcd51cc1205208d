----------------------------- MODULE MCSmokeJob -----------------------------
(* SmokeJob for TLC: two clients started within a second of each other.    *)
EXTENDS SmokeJob, TLC

CONSTANTS c1, c2

MCClients == {c1, c2}
(* One card for both, so that the second they start in is all that tells   *)
(* their Jobs apart, and one manifest, which the other's apply may find.   *)
MCSlugs   == c1 :> "l4" @@ c2 :> "l4"
MCConfigs == c1 :> "batch1" @@ c2 :> "batch1"
(* For liveness, which the other clients have no part in, one client.      *)
MCOneClient == {c1}
MCSeconds == 1
(* Clients of one card and one manifest are interchangeable.               *)
MCSymmetry == Permutations(MCClients)
=============================================================================
