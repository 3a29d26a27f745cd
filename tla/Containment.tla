----------------------------- MODULE Containment -----------------------------
(***************************************************************************)
(* The portal's handlers that change one device: entering and releasing    *)
(* containment, saving its configuration, soft delete, wallet authority    *)
(* (owner and admin routes share src/src/lib/containment.ts), and the      *)
(* agent's re-registration on the same host.                               *)
(*                                                                         *)
(* A handler is a process.  Every await is a point at which the other      *)
(* handlers run, so a request goes through separate steps:                 *)
(*   Load      read the device (and its config) and decide on what was read *)
(*   Write     the one statement that changes the row or the config, by id *)
(*   Log       the device's AuditLog row and the broadcast that follows it *)
(*   AdminLog  recordAdminAction, on the admin routes only                 *)
(* and an error of the database or the death of the portal ends it after   *)
(* any of them, without undoing what it already wrote.                     *)
(*                                                                         *)
(* An operator named Def_Mistake is Def with a plausible mistake.  No      *)
(* specification uses it: a property is worth keeping when TLC finds it    *)
(* violated once Def is replaced by Def_Mistake.                           *)
(***************************************************************************)
EXTENDS Integers, Sequences, FiniteSets

CONSTANTS
  Reqs,        \* the requests of a behaviour, each served once
  Wallets,     \* wallet addresses
  NoWallet,    \* an absent wallet: null authority, or no acceptable signature
  Menu,        \* bound: the requests that clients make
  MaxFaults    \* bound: requests that die half-way

ActionIds == {"screen_lock", "network_disable", "sessions_revoke", "extensions_freeze"}

StatusKinds == {"enter", "release", "reinstall"}
AuthorityKinds == {"setAuthority", "clearAuthority"}
Kinds == StatusKinds \cup AuthorityKinds \cup {"config", "delete"}

(* wallet is the signer of a fresh EIP-191 message for this device and this    *)
(* verb (enter, release) or the session's wallet (setAuthority); on and off    *)
(* are the toggles a config request carries.                                   *)
Request == [kind : Kinds, by : {"owner", "admin", "agent"},
            wallet : Wallets \cup {NoWallet},
            on : SUBSET ActionIds, off : SUBSET ActionIds]

ASSUME MenuAssumption     == Menu \subseteq Request
ASSUME NoWalletAssumption == NoWallet \notin Wallets
ASSUME BoundAssumption    == MaxFaults \in Nat

VARIABLES
  device,      \* [status, flags, deleted, token, authority]: the Device row
  config,      \* the toggles in force; without a ContainmentConfig row, all of them
  pc, ask,     \* per request: its next step, and what the client asked
  snap,        \* per request: the toggles its Load read
  trail,       \* the device's AuditLog, in the order of insertion
  adminTrail,  \* the requests recorded in AdminAuditLog
  faults,
  \* History variables, read by no action.
  configSeen,  \* every set of toggles that has been in force
  moved,       \* requests during which another one wrote the authority
  overlapped   \* two status-changing requests were in flight at once

requestVars == <<pc, ask, snap>>
historyVars == <<configSeen, moved, overlapped>>
vars == <<device, config, requestVars, trail, adminTrail, faults, historyVars>>

-----------------------------------------------------------------------------
NoRequest == [kind |-> "config", by |-> "owner", wallet |-> NoWallet, on |-> {}, off |-> {}]

Init ==
  /\ device = [status |-> "normal", flags |-> {}, deleted |-> FALSE,
               token |-> TRUE, authority |-> NoWallet]
  /\ config = ActionIds
  /\ pc = [r \in Reqs |-> "new"]
  /\ ask = [r \in Reqs |-> NoRequest]
  /\ snap = [r \in Reqs |-> {}]
  /\ trail = <<>> /\ adminTrail = {} /\ faults = 0
  /\ configSeen = {ActionIds}
  /\ moved = {}
  /\ overlapped = FALSE

(* verifyWalletSignature, on the authority the request read. *)
SignatureOK_WhenSigned(q) ==
  device.authority # NoWallet /\ q.wallet # NoWallet => q.wallet = device.authority
SignatureOK(q) == device.authority # NoWallet => q.wallet = device.authority

(* What each handler requires of the device it loaded. *)
Admissible(q) ==
  /\ ~device.deleted
  /\ q.kind = "enter"   => device.status # "contained" /\ SignatureOK(q)
  /\ q.kind = "release" => device.status = "contained" /\ SignatureOK(q)
  /\ q.kind = "setAuthority" => q.wallet # NoWallet

InFlight == {"write", "log", "adminlog"}

Overlaps(r) == \E s \in Reqs \ {r} : pc[s] \in InFlight /\ ask[s].kind \in StatusKinds

(* A request arrives, reads the device, and is answered with an error or goes  *)
(* on to its write with what it read.                                          *)
Load(r) ==
  /\ pc[r] = "new"
  /\ \E q \in Menu :
       /\ ask' = [ask EXCEPT ![r] = q]
       /\ \/ /\ Admissible(q)
             /\ pc' = [pc EXCEPT ![r] = "write"]
             /\ snap' = [snap EXCEPT ![r] = config]
             /\ overlapped' = (overlapped \/ (q.kind \in StatusKinds /\ Overlaps(r)))
          \/ /\ ~Admissible(q)
             /\ pc' = [pc EXCEPT ![r] = "rejected"]
             /\ UNCHANGED <<snap, overlapped>>
  /\ UNCHANGED <<device, config, trail, adminTrail, faults, configSeen, moved>>

(* The row after each handler's update: by id, whatever the row is by now.     *)
EnterRow(r) == [device EXCEPT !.status = "contained", !.flags = snap[r]]

ReleaseRow_KeepsFlags == [device EXCEPT !.status = "normal"]
ReleaseRow == [device EXCEPT !.status = "normal", !.flags = {}]

ReinstallRow == [device EXCEPT !.status = "normal", !.token = TRUE]

DeletedRow == [device EXCEPT !.deleted = TRUE, !.token = FALSE]

RowAfter(r) ==
  CASE ask[r].kind = "enter"          -> EnterRow(r)
    [] ask[r].kind = "release"        -> ReleaseRow
    [] ask[r].kind = "reinstall"      -> ReinstallRow
    [] ask[r].kind = "delete"         -> DeletedRow
    [] ask[r].kind = "setAuthority"   -> [device EXCEPT !.authority = ask[r].wallet]
    [] ask[r].kind = "clearAuthority" -> [device EXCEPT !.authority = NoWallet]
    [] OTHER -> device

(* The upsert of updateContainmentConfig touches the given toggles only. *)
ConfigAfter_Overwrites(r) ==
  IF ask[r].kind = "config" THEN (snap[r] \cup ask[r].on) \ ask[r].off ELSE config
ConfigAfter(r) ==
  IF ask[r].kind = "config" THEN (config \cup ask[r].on) \ ask[r].off ELSE config

AfterLog(r) == IF ask[r].by = "admin" THEN "adminlog" ELSE "done"

AfterWrite_ReleaseUnlogged(r) ==
  IF ask[r].kind \in {"enter", "reinstall"} THEN "log" ELSE AfterLog(r)
AfterWrite(r) == IF ask[r].kind \in StatusKinds THEN "log" ELSE AfterLog(r)

Write(r) ==
  /\ pc[r] = "write"
  /\ device' = RowAfter(r)
  /\ config' = ConfigAfter(r)
  /\ pc' = [pc EXCEPT ![r] = AfterWrite(r)]
  /\ configSeen' = configSeen \cup {config'}
  /\ moved' = IF ask[r].kind \in AuthorityKinds
                 THEN moved \cup {s \in Reqs \ {r} : pc[s] = "write"} ELSE moved
  /\ UNCHANGED <<ask, snap, trail, adminTrail, faults, overlapped>>

Log(r) ==
  /\ pc[r] = "log"
  /\ trail' = Append(trail, ask[r].kind)
  /\ pc' = [pc EXCEPT ![r] = AfterLog(r)]
  /\ UNCHANGED <<device, config, ask, snap, adminTrail, faults, historyVars>>

AdminLog(r) ==
  /\ pc[r] = "adminlog"
  /\ adminTrail' = adminTrail \cup {r}
  /\ pc' = [pc EXCEPT ![r] = "done"]
  /\ UNCHANGED <<device, config, ask, snap, trail, faults, historyVars>>

(* The statement the request is waiting for fails, or its process dies. *)
Abort(r) ==
  /\ pc[r] \in InFlight /\ faults < MaxFaults
  /\ faults' = faults + 1
  /\ pc' = [pc EXCEPT ![r] = "aborted"]
  /\ UNCHANGED <<device, config, ask, snap, trail, adminTrail, historyVars>>

Next == \E r \in Reqs : Load(r) \/ Write(r) \/ Log(r) \/ AdminLog(r) \/ Abort(r)

Spec == Init /\ [][Next]_vars

-----------------------------------------------------------------------------
DeviceType == [status : {"normal", "contained"}, flags : SUBSET ActionIds,
               deleted : BOOLEAN, token : BOOLEAN, authority : Wallets \cup {NoWallet}]

TypeOK ==
  /\ device \in DeviceType
  /\ config \in SUBSET ActionIds
  /\ pc \in [Reqs -> {"new", "rejected", "done", "aborted"} \cup InFlight]
  /\ ask \in [Reqs -> Request]
  /\ snap \in [Reqs -> SUBSET ActionIds]
  /\ trail \in Seq(StatusKinds)
  /\ adminTrail \subseteq Reqs
  /\ faults \in 0..MaxFaults
  /\ configSeen \subseteq SUBSET ActionIds
  /\ moved \subseteq Reqs
  /\ overlapped \in BOOLEAN

(* verifyAgentToken's check of the row, for an agent whose JWT verifies. *)
AgentAccepted_HashOnly(d) == d.token
AgentAccepted(d) == ~d.deleted /\ d.token

(* The row an agent sees is the row DeviceRow promises. *)
Row == INSTANCE DeviceRow
         WITH FlagSets <- SUBSET ActionIds,
              row <- [status |-> device.status, flags |-> device.flags,
                      live |-> AgentAccepted(device)]

(* Every interleaving of the handlers implements the atomic row of DeviceRow.  *)
RowSpec == Row!RowSpec

(* Containment raises exactly the toggles of one configuration that was in     *)
(* force, never a mixture of two, and a device that is back to normal has no   *)
(* flag raised, unless it was re-registered: re-registration resets the status *)
(* and leaves the flags.                                                       *)
FlagsMatchStatus ==
  /\ device.status = "contained" => device.flags \in configSeen
  /\ device.status = "normal" /\ (\A r \in Reqs : ask[r].kind # "reinstall")
       => device.flags = {}

(* The signature is checked against the authority that Load read, and the row  *)
(* is written awaits later, when re-registrations, deletions, saves and other   *)
(* changes of status may have been written.  Still an owner or an admin changes *)
(* the status of a device with an authority only by that authority's signature, *)
(* unless another request wrote the authority in between: then the change goes  *)
(* through with what the earlier authority, or none, asked for.                 *)
SignedWhenWritten ==
  [][\A r \in Reqs :
       pc[r] = "write" /\ pc'[r] = "log" /\ ask[r].kind \in {"enter", "release"}
         => device.authority \in {NoWallet, ask[r].wallet} \/ r \in moved]_vars

(* A soft-deleted device is never accepted again, whatever writes were in      *)
(* flight when it was deleted: a re-registration that had already found the    *)
(* row stores a new token hash in the deleted row.                             *)
RevokedForGood == [][device.deleted => ~AgentAccepted(device)']_vars

(* Saves of different toggles do not undo each other: a toggle that a finished *)
(* save switched, and that no other save switches the other way, is in force.  *)
Saved(r) == ask[r].kind = "config" /\ pc[r] \in {"adminlog", "done"}

TogglesNotLost ==
  \A r \in Reqs : Saved(r) =>
    /\ \A a \in ask[r].on \ ask[r].off :
         a \in config \/ \E s \in Reqs : ask[s].kind = "config" /\ a \in ask[s].off
    /\ \A a \in ask[r].off :
         a \notin config \/ \E s \in Reqs : ask[s].kind = "config" /\ a \in ask[s].on

(* The status a reader of the audit trail would believe in. *)
Replayed == IF trail = <<>> THEN "normal"
            ELSE IF trail[Len(trail)] = "enter" THEN "contained" ELSE "normal"

Quiescent == \A r \in Reqs : pc[r] \notin InFlight

(* When no two status changes overlapped and no request died, the device's     *)
(* trail tells its story: activations and releases alternate, and the last     *)
(* entry agrees with the status of the row.                                    *)
TrailReplays ==
  ~overlapped /\ faults = 0 =>
    /\ Quiescent => Replayed = device.status
    /\ \A i \in 1..Len(trail) :
         (trail[i] = "release") => i > 1 /\ trail[i-1] = "enter"
    /\ \A i \in 2..Len(trail) :
         trail[i-1] = "enter" => trail[i] # "enter"

(* An admin's change is in the admin trail once its request has ended, unless  *)
(* it died between the change and the record; and nothing is recorded there    *)
(* that did not happen.                                                        *)
AdminActionsRecorded ==
  /\ \A r \in Reqs : pc[r] = "done" /\ ask[r].by = "admin" => r \in adminTrail
  /\ \A r \in adminTrail : pc[r] = "done" /\ ask[r].by = "admin"

(* "The device will then require an EIP-191 signature from that wallet to      *)
(* enter or release containment": while an authority is set, the status        *)
(* changes only by a request that this authority signed.                       *)
StatusChangesSigned ==
  [][device'.status # device.status /\ device.authority # NoWallet
       => \E r \in Reqs : pc[r] = "write" /\ pc'[r] # "write"
                            /\ ask[r].wallet = device.authority]_vars
==============================================================================
