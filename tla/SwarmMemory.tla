----------------------------- MODULE SwarmMemory -----------------------------
(***************************************************************************)
(* What "gsp materialize" promises without its files: there is a current   *)
(* state; a materialization works on a copy of it, event by event, may     *)
(* authenticate and pin its packages, and either replaces the current      *)
(* state or leaves it alone.  Nothing is ever parsed or written: a state   *)
(* that went through any number of files is one that never left memory.    *)
(***************************************************************************)
CONSTANTS
  States,         \* states to begin with
  NoState,
  Step(_, _),     \* what one event may make of a state
  Pin(_, _)       \* what pinning may make of it

VARIABLES
  current,
  work      \* the copy that is worked on, or NoState

Init ==
  /\ current \in States \cup {NoState}
  /\ work = NoState

Begin == work = NoState /\ work' # NoState /\ work' = current /\ UNCHANGED current

Change ==
  /\ work # NoState /\ work' # NoState
  /\ Step(work, work') \/ Pin(work, work')
  /\ UNCHANGED current

Replace == work # NoState /\ work' = NoState /\ current' = work

Abandon == work # NoState /\ work' = NoState /\ UNCHANGED current

Next == Begin \/ Change \/ Replace \/ Abandon

Spec == Init /\ [][Next]_<<current, work>>
=============================================================================
