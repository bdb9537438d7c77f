--------------------------- MODULE SnapshotContract ---------------------------
(***************************************************************************)
(* DebugContract with a saved state beside it: what `snapshot save',       *)
(* `snapshot patch', `snapshot metadata apply' and `snapshot restore'      *)
(* promise of the program, with no EBREAK patch in sight.  Saving copies   *)
(* the program, its breakpoints and its context; restoring replaces the    *)
(* three at once; nothing but restoring lets the saved state reach the     *)
(* live one, and nothing but saving the other way.                         *)
(***************************************************************************)
EXTENDS DebugContract

CONSTANT Regions     \* the words a snapshot covers
VARIABLE saved       \* [valid, image, breaks, pc, x]

allVars == <<vars, saved>>

SnapInit == Init /\ saved.valid = FALSE

Save ==
  /\ ~running
  /\ saved' = [valid |-> TRUE, image |-> [a \in Regions |-> image[a]],
               breaks |-> breaks \cap Regions, pc |-> pc, x |-> x]
  /\ UNCHANGED vars

(* The saved program, or the saved context, is edited; live state is not.  *)
PatchSaved ==
  /\ ~running /\ saved.valid /\ saved'.valid /\ saved'.breaks = saved.breaks
  /\ saved'.image = saved.image \/ (saved'.pc = saved.pc /\ saved'.x = saved.x)
  /\ UNCHANGED vars

Restore ==
  /\ ~running /\ saved.valid
  /\ image' = [a \in Ram |-> IF a \in Regions THEN saved.image[a] ELSE image[a]]
  /\ breaks' = saved.breaks /\ pc' = saved.pc /\ x' = saved.x
  /\ UNCHANGED <<running, fresh, saved>>

SnapNext ==
  /\ wild => wild'
  /\ \/ wild'
     \/ Next /\ UNCHANGED saved
     \/ Save \/ PatchSaved \/ Restore

SnapSpec == SnapInit /\ [][SnapNext]_allVars
=============================================================================
