------------------------ MODULE MCVendorTransaction ------------------------
(***************************************************************************)
(* Two processes install, one or two recover, over two packages: a depends *)
(* on b.  The log is seen in three states, see MCSnapshots.                *)
(***************************************************************************)
EXTENDS VendorTransaction, TLC

CONSTANTS i1, i2, i3, r1, r2, a, b, d1, d2

MCRefs == {a, b}
NoDeps == [r \in MCRefs |-> {}]

\* a and b are published; b is withdrawn and published again with other bytes,
\* which takes a with it; a log whose dependencies go round in a circle.
MCSnapshots ==
  {[digest |-> [r \in MCRefs |-> d1], deps |-> [NoDeps EXCEPT ![a] = {b}]],
   [digest |-> (a :> Absent @@ b :> d2), deps |-> NoDeps],
   [digest |-> [r \in MCRefs |-> d1], deps |-> (a :> {b} @@ b :> {a})]}
MCRequests == {{a}, {b}, {a, b}}

Nowhere == {}
Everywhere == Procs \X Labels

InstallersAnywhere == Installers \X Labels

\* Where an installer's journal describes all it has done: its first journal is
\* written and no removal is half way through.
Journaled == Installers \X {"walk", "inplace", "commit", "verify", "remove", "list"}
RemovalFails == Installers \X {"verify", "remove", "list"}

\* Nothing tells the installers apart.
MCSymmetry == Permutations(Installers)

\* What the runs assume of the environment's care.  With NoPause for the discipline of
\* MCVendorSafety.cfg TLC finds an edit that is deleted, with NotAlone (and i3, r2 among the
\* processes) two writers.
Careful == {"steady_writer", "one_recovery", "edits_pause"}
CarefulAndLate == Careful \cup {"writer_exited"}
OneAtATime == {"one_recovery"}
NotAlone == CarefulAndLate \ {"one_recovery"}
NoPause == CarefulAndLate \ {"edits_pause"}
=============================================================================
