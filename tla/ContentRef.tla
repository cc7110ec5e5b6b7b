----------------------------- MODULE ContentRef -----------------------------
(***************************************************************************)
(* Content addresses (src/context/ref/ref.go): Mint names bytes by their   *)
(* digest, so a content stands for its bytes and for its ref alike, and    *)
(* whoever mints the same bytes gets the same ref.  Digests do not         *)
(* collide.                                                                *)
(***************************************************************************)
EXTENDS Naturals

CONSTANTS
  Contents,   \* the byte strings there are
  Size,       \* the bytes of each
  NoBytes,    \* the empty one
  Principals  \* who owns content and may be granted it

ASSUME ContentAssumption ==
  /\ Size \in [Contents -> Nat]
  /\ NoBytes \in Contents /\ Size[NoBytes] = 0
  /\ Principals # {}
=============================================================================
