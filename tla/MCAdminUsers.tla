---------------------------- MODULE MCAdminUsers -----------------------------
(* Small instances of AdminUsers for TLC. *)
EXTENDS AdminUsers, TLC

PatchBy(a, t, lock, role) ==
  [kind |-> "patch", actor |-> a, target |-> t, lock |-> lock, role |-> role]

Removal(a, t) ==
  [kind |-> "delete", actor |-> a, target |-> t, lock |-> "keep", role |-> "keep"]

(* Every lock change, every role, both at once, and deletion, by anyone of *)
(* anyone.                                                                 *)
MCMenu ==
  UNION {{PatchBy(a, t, "lock", "keep"), PatchBy(a, t, "unlock", "admin"),
          PatchBy(a, t, "keep", "user"), PatchBy(a, t, "lock", "user"),
          PatchBy(a, t, "keep", "keep"), Removal(a, t)} : a, t \in Users}

Symmetry == Permutations(AdminReqs) \cup Permutations(Users)
==============================================================================
