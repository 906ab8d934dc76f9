--------------------------- MODULE MCHostDelivery ---------------------------
(* Small constants for HostDelivery. *)
EXTENDS HostDelivery, TLC

CONSTANTS a, b, reply, wake, other, f1, f2

\* Both kinds of result in session a, one more in session b.
MCSessionOf == reply :> a @@ wake :> a @@ other :> b

\* One session only.
MCOneSession == reply :> a @@ wake :> a

\* Session a is revoked once, session b never.
MCMaxGeneration == a :> 1 @@ b :> 0

MCOneRevocation == a :> 1

Symmetry == Permutations({f1, f2})
=============================================================================
