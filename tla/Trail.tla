-------------------------------- MODULE Trail --------------------------------
(***************************************************************************)
(* What the list of worlds promises the user: the worlds visited, the      *)
(* current one first, none of them ever lost.  A new world comes in front, *)
(* one visited before changes places with the current one; back puts the   *)
(* current world at the end, forward takes it from there.  Nothing is      *)
(* promised any more once the user has gone astray.                        *)
(***************************************************************************)
EXTENDS Naturals, SequencesExt

CONSTANT Visitable      \* worlds

VARIABLES trail, astray

Init == (\E w \in Visitable : trail = <<w>>) /\ astray = FALSE

New(w) == w \notin ToSet(trail) /\ trail' = <<w>> \o trail

\* Mutual exchange of the current world and the k-th
Exchange(k) ==
    trail' = [trail EXCEPT ![1] = trail[k], ![k] = trail[1]]

GoBack == Len(trail) > 1 /\ trail' = Append(Tail(trail), Head(trail))

GoForward == Len(trail) > 1 /\ trail' = <<Last(trail)>> \o Front(trail)

Next ==
    \/ /\ ~astray /\ ~astray'
       /\ \/ GoBack
          \/ GoForward
          \/ \E k \in 2..Len(trail) : Exchange(k)
          \/ \E w \in Visitable : New(w)
    \/ astray'

Spec == Init /\ [][Next]_<<trail, astray>>
=============================================================================
