------------------------------ MODULE AdminUsers ------------------------------
(***************************************************************************)
(* Administration of users by several admins at once: locking, unlocking,  *)
(* changing roles and deleting (src/src/app/api/admin/users/[id]), behind  *)
(* requireAdmin (src/src/lib/admin-auth.ts), with the AdminAuditLog.       *)
(*                                                                         *)
(* A request is a process with a step per database statement:              *)
(*   Start   the session is looked up and must say admin                   *)
(*   Verify  the actor's role is read again, and the request is judged     *)
(*   Find    the user it is about is looked up                             *)
(*   SetLock, RecordLock, SetRole, RecordRole                      (PATCH) *)
(*   RemoveUser, RecordRemove                                     (DELETE) *)
(* Between any two of them other requests run; an error or the death of    *)
(* the portal ends a request without undoing what it wrote.                *)
(*                                                                         *)
(* Sessions are what module Accounts promises of them: a lock, an unlock   *)
(* or a deletion ends all sessions of its user, a change of role none.     *)
(***************************************************************************)
EXTENDS Integers, FiniteSets

CONSTANTS
  Users,       \* ids of user rows; none is created
  AdminReqs,   \* the requests of a behaviour, each served once
  Menu,        \* bound: what the requests ask for
  MaxFaults    \* bound: requests that die half-way

Roles == {"user", "admin"}
UserRow == [exists : BOOLEAN, role : Roles, locked : BOOLEAN]

(* A PATCH carries a lock change, a role or both; its name and plan are left  *)
(* out, which no check reads.                                                  *)
Patch == [kind : {"patch"}, actor : Users, target : Users,
          lock : {"keep", "lock", "unlock"}, role : Roles \cup {"keep"}]
Deletion == [kind : {"delete"}, actor : Users, target : Users,
             lock : {"keep"}, role : {"keep"}]

ASSUME MenuAssumption  == Menu \subseteq Patch \cup Deletion /\ Menu # {}
ASSUME BoundAssumption == MaxFaults \in Nat

VARIABLES
  user,        \* [exists, role, locked] of each User row
  claims,      \* per user: the roles that live session JWTs of theirs claim
  pc, ask,     \* per request: its next step, and what was asked
  trail,       \* AdminAuditLog: pairs of a request and an action
  faults,
  \* History variables, read by no action.
  written,     \* what requests have changed: pairs of a request and an action
  wasAdmin,    \* the requests whose actor had the role admin at some time since Start
  crossed      \* a request was in flight while another one was about its actor

historyVars == <<written, wasAdmin, crossed>>
adminVars == <<user, claims, pc, ask, trail, faults, historyVars>>

Writing   == {"lock", "role", "remove"}
Recording == {"lockrecord", "rolerecord", "removerecord"}
InFlight  == {"verify", "find"} \cup Writing \cup Recording

Actions == {"lock", "unlock", "update", "delete"}

-----------------------------------------------------------------------------
IsAdmin(u) == user[u].exists /\ user[u].role = "admin"
InCharge(u) == IsAdmin(u) /\ ~user[u].locked

AdminInit ==
  /\ user \in [Users -> UserRow]
  /\ \A u \in Users : user[u].exists /\ ~user[u].locked
  /\ \E u \in Users : InCharge(u)
  /\ claims = [u \in Users |-> {}]
  /\ pc = [r \in AdminReqs |-> "new"]
  /\ ask \in [AdminReqs -> Menu]
  /\ trail = {} /\ faults = 0
  /\ written = {} /\ wasAdmin = {} /\ crossed = FALSE

(* authorize: not for a locked user; the JWT carries the role of the moment. *)
SignIn(u) ==
  /\ user[u].exists /\ ~user[u].locked
  /\ claims' = [claims EXCEPT ![u] = @ \cup {user[u].role}]
  /\ UNCHANGED <<user, pc, ask, trail, faults, historyVars>>

(* Either of the two requests is about the other one's actor. *)
Concerns(q, r) == q.target = r.actor \/ r.target = q.actor

Start(r) ==
  /\ pc[r] = "new"
  /\ "admin" \in claims[ask[r].actor]
  /\ pc' = [pc EXCEPT ![r] = "verify"]
  /\ wasAdmin' = wasAdmin \cup {s \in {r} : IsAdmin(ask[s].actor)}
  /\ crossed' = (crossed \/ \E s \in AdminReqs \ {r} :
                              pc[s] \in InFlight /\ Concerns(ask[s], ask[r]))
  /\ UNCHANGED <<user, claims, ask, trail, faults, written>>

(* What an admin may not do to their own account. *)
MayAsk_AnyDemotion(q) ==
  q.target = q.actor => q.lock # "lock" /\ q.kind # "delete"
MayAsk(q) ==
  q.target = q.actor => q.lock # "lock" /\ q.role # "user" /\ q.kind # "delete"

Verified(r) == IsAdmin(ask[r].actor) /\ MayAsk(ask[r])

Verify(r) ==
  /\ pc[r] = "verify"
  /\ pc' = [pc EXCEPT ![r] = IF Verified(r) THEN "find" ELSE "rejected"]
  /\ UNCHANGED <<user, claims, ask, trail, faults, historyVars>>

(* The first statement that writes; a PATCH with nothing to change is refused. *)
FirstWrite(q) ==
  CASE q.kind = "delete" -> "remove"
    [] q.lock # "keep"   -> "lock"
    [] q.role # "keep"   -> "role"
    [] OTHER             -> "rejected"

Find(r) ==
  /\ pc[r] = "find"
  /\ pc' = [pc EXCEPT ![r] = IF user[ask[r].target].exists
                               THEN FirstWrite(ask[r]) ELSE "rejected"]
  /\ UNCHANGED <<user, claims, ask, trail, faults, historyVars>>

(* An update or a delete of a row that is gone throws, and the request fails. *)
Throws(r) ==
  /\ pc[r] \in Writing /\ ~user[ask[r].target].exists
  /\ pc' = [pc EXCEPT ![r] = "failed"]
  /\ UNCHANGED <<user, claims, ask, trail, faults, historyVars>>

(* A write of request r: action for its record, then the step that records it. *)
Writes(r, step, action, row) ==
  LET t == ask[r].target IN
  /\ pc[r] = step /\ user[t].exists
  /\ user' = [user EXCEPT ![t] = row]
  /\ written' = written \cup {<<r, action>>}
  /\ UNCHANGED <<ask, faults, crossed>>
  /\ wasAdmin' = wasAdmin \cup {s \in AdminReqs : pc[s] \in InFlight /\ IsAdmin(ask[s].actor)'}

(* Every path from a changed lock goes through its record. *)
AfterSetLock_ReturnsEarly(q) == IF q.role = "keep" THEN "done" ELSE "lockrecord"
AfterSetLock(q) == "lockrecord"

SetLock(r) ==
  LET t == ask[r].target IN
  /\ Writes(r, "lock", ask[r].lock,
            [user[t] EXCEPT !.locked = (ask[r].lock = "lock")])
  /\ claims' = [claims EXCEPT ![t] = {}]
  /\ pc' = [pc EXCEPT ![r] = AfterSetLock(ask[r])]
  /\ UNCHANGED trail

SetRole(r) ==
  /\ Writes(r, "role", "update",
            [user[ask[r].target] EXCEPT !.role = ask[r].role])
  /\ pc' = [pc EXCEPT ![r] = "rolerecord"]
  /\ UNCHANGED <<claims, trail>>

(* The cascade takes the trail entries of the deleted user with it. *)
RemoveUser(r) ==
  LET t == ask[r].target IN
  /\ Writes(r, "remove", "delete", [user[t] EXCEPT !.exists = FALSE])
  /\ claims' = [claims EXCEPT ![t] = {}]
  /\ trail' = {e \in trail : ask[e[1]].actor # t}
  /\ pc' = [pc EXCEPT ![r] = "removerecord"]

(* recordAdminAction; the foreign key refuses an actor who is gone. *)
Records(r, step, action, next) ==
  /\ pc[r] = step
  /\ \/ /\ user[ask[r].actor].exists
        /\ trail' = trail \cup {<<r, action>>}
        /\ pc' = [pc EXCEPT ![r] = next]
     \/ /\ ~user[ask[r].actor].exists
        /\ pc' = [pc EXCEPT ![r] = "failed"]
        /\ UNCHANGED trail
  /\ UNCHANGED <<user, claims, ask, faults, historyVars>>

(* With no other field to change the PATCH ends here. *)
AfterLock(q) == IF q.role # "keep" THEN "role" ELSE "done"

RecordLock(r)   == Records(r, "lockrecord", ask[r].lock, AfterLock(ask[r]))
RecordRole(r)   == Records(r, "rolerecord", "update", "done")
RecordRemove(r) == Records(r, "removerecord", "delete", "done")

(* The statement the request is waiting for fails, or its process dies. *)
Abort(r) ==
  /\ pc[r] \in InFlight /\ faults < MaxFaults
  /\ faults' = faults + 1
  /\ pc' = [pc EXCEPT ![r] = "aborted"]
  /\ UNCHANGED <<user, claims, ask, trail, historyVars>>

Step(r) ==
  \/ Start(r) \/ Verify(r) \/ Find(r) \/ Throws(r)
  \/ SetLock(r) \/ RecordLock(r) \/ SetRole(r) \/ RecordRole(r)
  \/ RemoveUser(r) \/ RecordRemove(r) \/ Abort(r)

AdminNext == (\E u \in Users : SignIn(u)) \/ (\E r \in AdminReqs : Step(r))

AdminSpec == AdminInit /\ [][AdminNext]_adminVars

-----------------------------------------------------------------------------
Ended == {"rejected", "failed", "done", "aborted"}

AdminTypeOK ==
  /\ user \in [Users -> UserRow]
  /\ claims \in [Users -> SUBSET Roles]
  /\ pc \in [AdminReqs -> {"new"} \cup InFlight \cup Ended]
  /\ ask \in [AdminReqs -> Menu]
  /\ trail \subseteq AdminReqs \X Actions
  /\ faults \in 0..MaxFaults
  /\ written \subseteq AdminReqs \X Actions
  /\ wasAdmin \subseteq AdminReqs
  /\ crossed \in BOOLEAN

(* The lockout guard compares a request with its own actor only.  It keeps at  *)
(* least one admin who is not locked out as long as no request is in flight    *)
(* while another one is about its actor; two admins who demote, lock or delete *)
(* each other at once leave none.                                              *)
AdminRemains == ~crossed => \E u \in Users : InCharge(u)

(* "It closes the stale-token window": a JWT goes on claiming the role admin   *)
(* after a demotion, and still no request changes anything unless its actor    *)
(* had the role at some moment since the request began.                        *)
ChangesByAdmins == \A e \in written : e[1] \in wasAdmin

(* The record that comes next in a request. *)
PendingRecord(r) ==
  CASE pc[r] = "lockrecord"   -> {ask[r].lock}
    [] pc[r] = "rolerecord"   -> {"update"}
    [] pc[r] = "removerecord" -> {"delete"}
    [] OTHER                  -> {}

(* Every change is in the audit trail once the statement after it has run,     *)
(* unless its request died before that or the acting admin has been deleted;   *)
(* and the trail holds nothing that was not done.                              *)
TrailFollows ==
  /\ \A e \in written :
       \/ e \in trail
       \/ e[2] \in PendingRecord(e[1])
       \/ pc[e[1]] = "aborted"
       \/ ~user[ask[e[1]].actor].exists
  /\ trail \subseteq written

(* "This trail is append-only."  It is not: a deleted admin's entries go with   *)
(* the admin, so that whoever deletes an admin erases what that admin did.     *)
TrailAppendOnly == [][trail \subseteq trail']_adminVars
==============================================================================
