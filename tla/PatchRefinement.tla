---------------------------- MODULE PatchRefinement ----------------------------
(***************************************************************************)
(* PatchTransaction implements ReversiblePatch up to the first step of the *)
(* editor: crashes, I/O errors and repeated rollbacks included.            *)
(***************************************************************************)
EXTENDS PatchTransaction

(* A transaction is open until its apply ends, in whatever way.            *)
Outcome ==
  IF used.edits > 0 THEN "void" ELSE
  CASE status \in {"committed", "rolled_back"} -> status
    [] status \in {"raised", "failed"}         -> "stopped"
    [] OTHER -> IF phase \in {"crashed", "rolling_back", "rb_verified"}
                THEN "stopped" ELSE "open"

Reversible == INSTANCE ReversiblePatch WITH outcome <- Outcome

(* Every behaviour of the engine is one of the abstract transaction.       *)
ImplementsReversiblePatch == Reversible!Spec
=============================================================================
