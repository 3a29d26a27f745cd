------------------------------- MODULE MCPages -------------------------------
(* Two devices with two toggles and two requests; three jobs on a form; four  *)
(* entries in pages of two, of which two writes change something while they   *)
(* are read; and two keys of the limiter with different limits and windows,   *)
(* one window longer and one shorter than the collection period, as in the    *)
(* code (60 seconds to an hour against 120 seconds).                          *)
(*                                                                            *)
(* What the admins' pages ask of the portal, AdminUsers, is one more part: it *)
(* shares no state with the others.  The admins' requests and two of the jobs *)
(* have the names of the requests about devices, so that one permutation      *)
(* serves them all.                                                           *)
EXTENDS Pages, MCAdminUsers

CONSTANTS d1, d2, t1, t2, r1, r2, k1, k2

MCLimit  == [k \in Keys |-> IF k = k1 THEN 2 ELSE 1]
MCWindow == [k \in Keys |-> IF k = k1 THEN 4 ELSE 2]

(* A single state of a part that stands still. *)
AdminAtRest ==
  /\ user = [u \in Users |-> [exists |-> TRUE, role |-> "admin", locked |-> FALSE]]
  /\ ask = [r \in AdminReqs |-> CHOOSE q \in Menu : TRUE]

MCPagesInit ==
  /\ PagesInit
  /\ part = "admin" \/ (part # "admin" /\ AdminAtRest)
  /\ AdminInit

MCPagesNext ==
  \/ PagesNext /\ UNCHANGED adminVars
  \/ part = "admin" /\ AdminNext /\ UNCHANGED pagesVars

MCPagesSpec == MCPagesInit /\ [][MCPagesNext]_<<pagesVars, adminVars>>

MCPagesSymmetry ==
  Permutations(Devices) \cup Permutations(Toggles) \cup Permutations(Reqs)
==============================================================================
