-------------------------- MODULE MCForeignClearance ------------------------
(* A small instance of ForeignClearance: a chain of two delegations at A, two *)
(* points at B whose consents share a parent, and dispatches of B that fit    *)
(* one of them, or do not.                                                    *)
EXTENDS ForeignClearance, TLC

CONSTANTS leaf, parent,            \* delegations of A's store
          c1, c2, base, own,       \* delegations of B's consents
          pointA, pointB, body, body2

MCChain == <<leaf, parent>>

Slip(jti, up, depth) ==
  [jti |-> jti, parent_jti |-> up, chain_depth |-> depth, verifies |-> TRUE]

ConsentA == <<Slip(c1, base, 1), Slip(base, None, 0)>>
ConsentB == <<Slip(c2, base, 1), Slip(base, None, 0)>>
\* A consent that skips its parent.
Broken == <<Slip(c1, base, 1)>>

Points(a, b) == (pointA :> a) @@ (pointB :> b)
TwoPoints == Points(ConsentA, ConsentB)

OnA ==
  [policy |-> Policy(TwoPoints), point |-> pointA, consent |-> <<c1, base>>,
   body |-> body, nested |-> FALSE, identified |-> TRUE]

Main == [points |-> TwoPoints, jtis |-> <<c1, base>>, body |-> body, dependency |-> OnA,
         bound |-> TRUE, retained |-> "same"]
Alone == [Main EXCEPT !.dependency = None, !.retained = None]

MCSettings ==
  {Main,
   Alone,
   [Alone EXCEPT !.jtis = <<own, c1, base>>],
   [Alone EXCEPT !.jtis = <<own, base>>],
   [Alone EXCEPT !.jtis = None],
   [Alone EXCEPT !.bound = FALSE],
   [Alone EXCEPT !.retained = "other"],
   [Main EXCEPT !.bound = FALSE],
   [Main EXCEPT !.retained = "other"],
   [Main EXCEPT !.jtis = <<c2, base>>],
   [Main EXCEPT !.body = body2],
   [Main EXCEPT !.dependency.nested = TRUE],
   [Main EXCEPT !.points = Points(ConsentA, ConsentA)],
   [Main EXCEPT !.points = Points(Broken, ConsentB)]}
=============================================================================
