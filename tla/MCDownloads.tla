----------------------------- MODULE MCDownloads -----------------------------
(***************************************************************************)
(* Downloads for TLC: an image and a list of one url, another image and a  *)
(* local model whose urls end with the same name.                          *)
(***************************************************************************)
EXTENDS Downloads, TLC

CONSTANTS r1, r2, r3, r4, u1, u2, u3, f1

Names == u1 :> f1 @@ u2 :> f1 @@ u3 :> f1

AllUrls  == r1 :> u1 @@ r2 :> u2 @@ r3 :> u3 @@ r4 :> u1
AllKinds == r1 :> "gif" @@ r2 :> "gif" @@ r3 :> "model" @@ r4 :> "list"

Urlof == [r \in Request |-> AllUrls[r]]
Kinds == [r \in Request |-> AllKinds[r]]
=============================================================================
