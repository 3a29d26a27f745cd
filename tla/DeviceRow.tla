------------------------------ MODULE DeviceRow ------------------------------
(***************************************************************************)
(* What the portal promises about one row of the Device table, as the     *)
(* agent installed on that device can observe it through heartbeats.       *)
(*                                                                         *)
(* Every operation of the portal that an agent can notice is one atomic    *)
(* UPDATE of the row:                                                      *)
(*   Contain  the write of enterContainment (src/src/lib/containment.ts)   *)
(*   Lift     the write of releaseContainment                              *)
(*   Reenrol  the agent is installed again on the same host                *)
(*            (agent/authenticate): status goes back to normal, and the    *)
(*            four enforcement flags keep the value they had               *)
(*   Delete   the soft delete, which also revokes the agent's token        *)
(*                                                                         *)
(* None of the writes re-reads the row it updates (each is an update by    *)
(* id), so Contain and Lift are enabled in every state.  The module        *)
(* Containment models the handlers themselves, with the awaits between     *)
(* their reads and their writes, and implements this specification.        *)
(***************************************************************************)

CONSTANTS FlagSets   \* the sets of enforcement flags a containment may raise

VARIABLE row         \* [status, flags, live]

Statuses == {"normal", "contained"}

RowInit == row = [status |-> "normal", flags |-> {}, live |-> TRUE]

Contain ==
  \E f \in FlagSets :
    row' = [status |-> "contained", flags |-> f, live |-> row.live]

Lift == row' = [status |-> "normal", flags |-> {}, live |-> row.live]

Reenrol == row' = [status |-> "normal", flags |-> row.flags, live |-> row.live]

Delete == /\ row.live
          /\ row' = [status |-> row.status, flags |-> row.flags, live |-> FALSE]

RowNext == Contain \/ Lift \/ Reenrol \/ Delete

RowSpec == RowInit /\ [][RowNext]_row
==============================================================================
