------------------------- MODULE MCReleasePipeline -------------------------
(***************************************************************************)
(* Two invocations of publish and one of vendor over a library and an      *)
(* application that depends on it.                                         *)
(***************************************************************************)
EXTENDS ReleasePipeline, TLC

CONSTANTS p1, p2, c1, b1, b2

MCNames == {"lib", "app"}
MCDirs == {".", "pkg"}
MCPaths == {"code", "link", ".git/index", "build"}

Pack(name, dir, deps) ==
  [name |-> name, dir |-> dir, clean |-> TRUE, kind |-> "body", deps |-> deps]
Lib == Pack("lib", "pkg", {})
App == Pack("app", ".", {"lib"})

\* In the right order; in one the notary must refuse, unless the library is there
\* already, with the directory written "./."; and no valid manifest.
MCManifests ==
  {[scope |-> TRUE, packages |-> ps] :
     ps \in {<<Lib, App>>, <<[App EXCEPT !.clean = FALSE], Lib>>, <<Lib, Lib>>}}

File(b) == [kind |-> "file", bytes |-> b]
Link(b) == [kind |-> "link", bytes |-> b]

\* The root has a .git, which differs from a clone's.
MCTree(d) ==
  [p \in MCPaths |->
     CASE p = "code" -> File(b1)
       [] p = ".git/index" /\ d = "." -> File(b1)
       [] OTHER -> Gone]
MCTrees == {[d \in MCDirs |-> MCTree(d)]}

\* The library's code is rewritten; it gets a link to a file; a build leaves one
\* to nothing, which git ignores.
MCChanges ==
  {<<"pkg", "code", File(b2)>>, <<"pkg", "link", Link(b1)>>, <<"pkg", "build", Link(Nothing)>>}

\* Nothing tells the invocations apart.
MCSymmetry == Permutations(Publishers)
=============================================================================
