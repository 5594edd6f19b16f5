----------------------------- MODULE SwarmRoles -----------------------------
(***************************************************************************)
(* What an overlay may do to a swarm, seen by role.  A role is a name      *)
(* without its instance numbers; it has a number of nodes, and links to    *)
(* other roles.  Scaling is about the number of nodes only: as long as one *)
(* is left the role keeps all its links, and no role is linked that does   *)
(* not exist.  SwarmFold implements this with nodes and edges.             *)
(***************************************************************************)
EXTENDS Naturals

CONSTANT Roles

VARIABLES size, links

roleVars == <<size, links>>

Present == {r \in Roles : size[r] > 0}
Incident(r) == {l \in links : l[1] = r \/ l[2] = r}

Init ==
  /\ size \in [Roles -> Nat]
  /\ links \subseteq Present \X Present

Join(r) ==
  /\ size' = [size EXCEPT ![r] = @ + 1]
  /\ UNCHANGED links

Resize(r) ==
  /\ size[r] > 0
  /\ size'[r] > 0
  /\ size' = [size EXCEPT ![r] = size'[r]]
  /\ UNCHANGED links

\* Some of its nodes leave, with links that only they had.
Lose(r) ==
  /\ size'[r] \in 1..(size[r] - 1)
  /\ size' = [size EXCEPT ![r] = size'[r]]
  /\ links' \subseteq links
  /\ links \ Incident(r) \subseteq links'

Leave(r) ==
  /\ size[r] > 0
  /\ size' = [size EXCEPT ![r] = 0]
  /\ links' = links \ Incident(r)

Link ==
  /\ links \subseteq links'
  /\ links' \subseteq Present \X Present
  /\ UNCHANGED size

Unlink ==
  /\ links' \subseteq links
  /\ UNCHANGED size

Next ==
  \/ \E r \in Roles : Join(r) \/ Resize(r) \/ Lose(r) \/ Leave(r)
  \/ Link \/ Unlink

Spec == Init /\ [][Next]_roleVars
=============================================================================
