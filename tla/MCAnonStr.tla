------------------------------ MODULE MCAnonStr -------------------------------
(* Instances of AnonStr: which names agree on which hashes. *)
EXTENDS AnonStr, TLC

CONSTANTS a, b, c, d, e

H(w, x, y, z) == <<w, x, y, z>>

(* a, b and c share the first hash, e shares all but the first with a. *)
HashMild ==
  (a :> H(1, 1, 1, 1)) @@ (b :> H(1, 2, 1, 1)) @@ (c :> H(1, 3, 1, 2))
    @@ (d :> H(2, 2, 2, 2)) @@ (e :> H(3, 1, 1, 1))

(* a and b share the first two. *)
HashDouble ==
  (a :> H(1, 1, 1, 1)) @@ (b :> H(1, 1, 2, 1)) @@ (c :> H(1, 2, 1, 1))
    @@ (d :> H(2, 2, 2, 2)) @@ (e :> H(3, 1, 1, 1))

(* a and b share all four, and the first hash of e is 0. *)
HashFull ==
  (a :> H(1, 1, 1, 1)) @@ (b :> H(1, 1, 1, 1)) @@ (c :> H(1, 1, 1, 2))
    @@ (d :> H(2, 2, 2, 2)) @@ (e :> H(0, 1, 1, 1))
=============================================================================
