---------------------------- MODULE VendorStore ----------------------------
(***************************************************************************)
(* What "gsp vendor" promises about a vendor root, as its README states    *)
(* it: the lock is the commit boundary.  Each request either adds, in one  *)
(* step and to the lock of that moment, the complete dependency closure of *)
(* what was asked for, or leaves the lock as it is.  How the directories,  *)
(* the lease and the journal bring that about is VendorTransaction's.      *)
(***************************************************************************)
CONSTANTS Installers, Refs, Snapshots, Requests, Absent, None

VARIABLES lock, outcome

storeVars == <<lock, outcome>>

Init ==
  /\ lock = [r \in Refs |-> Absent]
  /\ outcome = [i \in Installers |-> None]

ClosedUnder(snap, S) == \A r \in S : snap.deps[r] \subseteq S

\* The requested references and everything they depend on, and no more.
IsClosure(snap, roots, S) ==
  /\ roots \subseteq S
  /\ ClosedUnder(snap, S)
  /\ \A T \in SUBSET Refs : roots \subseteq T /\ ClosedUnder(snap, T) => S \subseteq T

Succeed(i) ==
  /\ outcome[i] = None
  /\ outcome' = [outcome EXCEPT ![i] = "ok"]
  /\ \E snap \in Snapshots, roots \in Requests, S \in SUBSET Refs :
       /\ IsClosure(snap, roots, S)
       /\ \A r \in S : snap.digest[r] # Absent /\ lock[r] \in {Absent, snap.digest[r]}
       /\ lock' = [r \in Refs |-> IF r \in S THEN snap.digest[r] ELSE lock[r]]

Refuse(i) ==
  /\ outcome[i] = None
  /\ outcome' = [outcome EXCEPT ![i] = "err"]
  /\ UNCHANGED lock

Next == \E i \in Installers : Succeed(i) \/ Refuse(i)

Spec == Init /\ [][Next]_storeVars
=============================================================================
