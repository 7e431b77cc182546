------------------------------- MODULE MCSeed -------------------------------
(***************************************************************************)
(* Seed for TLC: a demo item of two steps, and a second item on which the  *)
(* administrators collide; an order of two units of the demo item and one  *)
(* that has the second item on two lines.                                  *)
(***************************************************************************)
EXTENDS Seed, TLC

CONSTANTS burger, soup, k1

MCPayloads ==
  {[kitchen |-> k1, lines |-> <<[item |-> burger, quantity |-> 2]>>],
   [kitchen |-> k1, lines |-> <<[item |-> soup, quantity |-> 1],
                                [item |-> soup, quantity |-> 2]>>]}
MCDemoSteps == <<"grill", "packaging">>

\* Administrators are interchangeable.
Symmetry == Permutations(Admins)
=============================================================================
