---------------------------- MODULE MCDerivatives ----------------------------
\* Two instances of one app that share a claim.
EXTENDS Derivatives, TLC

CONSTANTS c1, v1, v2, s1, s2

Content(image, claim, services) ==
  [image |-> image, claims |-> [c \in Claims |-> claim], services |-> services]

Twins == Permutations(Insts)

Plain == Content(v1, "plain", {})
Retaining == Content(v2, "retain", {s1})
Empty == Content(v1, "none", {})

\* The claim is retained, with the Service of a container, or not; or nothing is left
\* of the app's services.
Contents == {Plain, Retaining, Empty}
Nothing == {Empty}
Failing == {Retaining}

\* The app does not ask to retain the claim at first.
PlainInit == Init /\ app = Plain
PlainSpec == PlainInit /\ [][Next]_vars
=============================================================================
