------------------------ MODULE MCTransparencyLog ------------------------
(***************************************************************************)
(* Two packages: lib, published at version 1 with either of two contents   *)
(* and at version 2, and app, which depends on lib@1.                      *)
(***************************************************************************)
EXTENDS TransparencyLog

CONSTANTS lib, app, d1, d2

Publish(pkg, v, d, deps) ==
  [op |-> "publish", pkg |-> pkg, versions |-> {v}, digest |-> d, deps |-> deps]
Delete(pkg, vs) ==
  [op |-> "delete", pkg |-> pkg, versions |-> vs, digest |-> NoDigest, deps |-> {}]

\* Publication, a dependent, withdrawal.
FewPayloads == {Publish(lib, 1, d1, {}), Publish(app, 1, d1, {<<lib, 1>>}), Delete(lib, {1})}

\* Also other bytes, a second version, a withdrawal of both, and what no rule allows.
AllPayloads ==
  FewPayloads \cup {Publish(lib, 1, d2, {}), Publish(lib, 2, d1, {}), Delete(lib, {1, 2}), Delete(app, {}),
                    [Delete(app, {}) EXCEPT !.op = "other"]}

\* A package is withdrawn, and comes back depending on what depends on it.
ReturningPayloads == FewPayloads \cup {Publish(lib, 1, d2, {<<app, 1>>})}
=============================================================================
