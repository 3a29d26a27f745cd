----------------------------- MODULE Enrollment ------------------------------
(***************************************************************************)
(* Registering machines with the portal: download tokens are generated, an *)
(* installer presents one to POST /api/agent/authenticate, which updates   *)
(* the live device of that user and host or creates one, spends the token  *)
(* and answers with the agent's JWT; devices are soft-deleted meanwhile.   *)
(* All tokens and devices here belong to one user: the lookups filter on   *)
(* the token's user, so users do not meet.                                 *)
(*                                                                         *)
(* A call is a process and each of its statements a step.  The two         *)
(* statements of its transaction are two steps: at PostgreSQL's default    *)
(* isolation, READ COMMITTED, a concurrent transaction may commit between  *)
(* them.  A call may die between any two steps.                            *)
(*                                                                         *)
(* An operator named Def_Mistake is Def with a plausible mistake; no       *)
(* specification uses it.                                                  *)
(***************************************************************************)
EXTENDS Integers

CONSTANTS
  Calls,      \* the calls of a behaviour, each made once; also the ids of devices,
              \* which are named after the call that creates them
  Tokens,     \* download tokens
  Hosts,
  None,       \* no device, no token hash
  MaxFaults   \* bound: calls that die half-way

Row == [host : Hosts, live : BOOLEAN, hash : Calls \cup {None}]

ASSUME NoneAssumption  == None \notin Calls /\ None \notin Row
ASSUME BoundAssumption == MaxFaults \in Nat

VARIABLES
  download,   \* per token: not generated, fresh, or activated
  device,     \* per id: the Device row, or None
  pc, token, host,   \* per call: its next step, and what the installer sent
  found,      \* per call: what findFirst returned
  logged,     \* the calls with a row in AuditLog
  faults,
  \* History variables, read by no action.
  writer,     \* the calls that wrote their device
  erased,     \* per call: the devices deleted since its findFirst
  shared,     \* the tokens presented while a call with the same token had not spent it
  overlapped  \* the hosts for which two transactions have run at once

callVars == <<token, host>>
historyVars == <<writer, erased, shared, overlapped>>
vars == <<download, device, pc, callVars, found, logged, faults, historyVars>>

Init ==
  /\ download = [t \in Tokens |-> "none"]
  /\ device = [d \in Calls |-> None]
  /\ pc = [c \in Calls |-> "new"]
  /\ token \in [Calls -> Tokens] /\ host \in [Calls -> Hosts]
  /\ found = [c \in Calls |-> None]
  /\ logged = {} /\ faults = 0
  /\ writer = {} /\ shared = {} /\ overlapped = {}
  /\ erased = [c \in Calls |-> {}]

(* POST /api/downloads/generate *)
Generate(t) ==
  /\ download[t] = "none"
  /\ download' = [download EXCEPT ![t] = "fresh"]
  /\ UNCHANGED <<device, pc, callVars, found, logged, faults, historyVars>>

(* The owner's and the admin's DELETE of a device.  Their lookup can be part of *)
(* the step: a deleted device stays deleted.                                    *)
Live(d) == device[d] # None /\ device[d].live

DeletedRow(d) == [host |-> device[d].host, live |-> FALSE, hash |-> None]

Delete(d) ==
  /\ Live(d)
  /\ device' = [device EXCEPT ![d] = DeletedRow(d)]
  /\ erased' = [c \in Calls |-> IF found[c] = d THEN erased[c] \cup {d} ELSE erased[c]]
  /\ UNCHANGED <<download, pc, callVars, found, logged, faults, writer, shared, overlapped>>

-----------------------------------------------------------------------------
(* The order of a call's steps. *)
After_MarkFirst ==
  [begin |-> "mark", mark |-> "find", find |-> "write", write |-> "audit",
   audit |-> "reply", reply |-> "answered"]
After ==
  [begin |-> "find", find |-> "write", write |-> "mark", mark |-> "audit",
   audit |-> "reply", reply |-> "answered"]

GoOn(c, step) == pc' = [pc EXCEPT ![c] = After[step]]

(* The token's row is read, and the call refused unless the token is fresh. *)
Usable_Activated(t) == download[t] # "none"
Usable(t) == download[t] = "fresh"

Unspent == {"find", "write", "mark"}

Begin(c) ==
  /\ pc[c] = "new"
  /\ \/ /\ Usable(token[c])
        /\ GoOn(c, "begin")
        /\ shared' = IF \E b \in Calls : pc[b] \in Unspent /\ token[b] = token[c]
                        THEN shared \cup {token[c]} ELSE shared
     \/ /\ ~Usable(token[c])
        /\ pc' = [pc EXCEPT ![c] = "refused"]
        /\ UNCHANGED shared
  /\ UNCHANGED <<download, device, callVars, found, logged, faults, writer, erased, overlapped>>

(* findFirst: any live device of the host, None if there is none. *)
Matches_Deleted(d, h) == device[d] # None /\ device[d].host = h
Matches(d, h) == Live(d) /\ device[d].host = h

Find(c) ==
  /\ pc[c] = "find"
  /\ \/ \E d \in Calls : Matches(d, host[c]) /\ found' = [found EXCEPT ![c] = d]
     \/ (~\E d \in Calls : Matches(d, host[c])) /\ found' = [found EXCEPT ![c] = None]
  /\ GoOn(c, "find")
  /\ overlapped' = IF \E b \in Calls \ {c} : pc[b] = "write" /\ host[b] = host[c]
                     THEN overlapped \cup {host[c]} ELSE overlapped
  /\ UNCHANGED <<download, device, callVars, logged, faults, writer, erased, shared>>

(* The device the call registers: the one found, or else one it creates. *)
Target_AlwaysNew(c) == c
Target(c) == IF found[c] = None THEN c ELSE found[c]

(* Only a new row gets a host and is live; an update by id leaves both alone. *)
Registered_Undeletes(c) == [host |-> host[c], live |-> TRUE, hash |-> c]
Registered(c) ==
  [host |-> IF found[c] = None THEN host[c] ELSE device[found[c]].host,
   live |-> found[c] = None \/ device[found[c]].live,
   hash |-> c]

Write(c) ==
  /\ pc[c] = "write"
  /\ device' = [device EXCEPT ![Target(c)] = Registered(c)]
  /\ writer' = writer \cup {c}
  /\ GoOn(c, "write")
  /\ UNCHANGED <<download, callVars, found, logged, faults, erased, shared, overlapped>>

MarkActivated(c) ==
  /\ pc[c] = "mark"
  /\ download' = [download EXCEPT ![token[c]] = "activated"]
  /\ GoOn(c, "mark")
  /\ UNCHANGED <<device, callVars, found, logged, faults, historyVars>>

Audit(c) ==
  /\ pc[c] = "audit"
  /\ logged' = logged \cup {c}
  /\ GoOn(c, "audit")
  /\ UNCHANGED <<download, device, callVars, found, faults, historyVars>>

(* The JWT, which names the device and nothing else of this installation. *)
Reply(c) ==
  /\ pc[c] = "reply"
  /\ GoOn(c, "reply")
  /\ UNCHANGED <<download, device, callVars, found, logged, faults, historyVars>>

(* A statement fails, the process dies, or the installer gives up waiting. *)
Abort(c) ==
  /\ pc[c] \notin {"new", "refused", "answered", "aborted"}
  /\ faults < MaxFaults
  /\ faults' = faults + 1
  /\ pc' = [pc EXCEPT ![c] = "aborted"]
  /\ UNCHANGED <<download, device, callVars, found, logged, historyVars>>

Step(c) ==
  \/ Begin(c) \/ Find(c) \/ Write(c) \/ MarkActivated(c) \/ Audit(c) \/ Reply(c)
  \/ Abort(c)

Next ==
  \/ \E t \in Tokens : Generate(t)
  \/ \E d \in Calls : Delete(d)
  \/ \E c \in Calls : Step(c)

Spec == Init /\ [][Next]_vars

-----------------------------------------------------------------------------
TypeOK ==
  /\ download \in [Tokens -> {"none", "fresh", "activated"}]
  /\ device \in [Calls -> Row \cup {None}]
  /\ pc \in [Calls -> {"new", "refused", "find", "write", "mark", "audit", "reply",
                       "answered", "aborted"}]
  /\ token \in [Calls -> Tokens] /\ host \in [Calls -> Hosts]
  /\ found \in [Calls -> Calls \cup {None}]
  /\ logged \subseteq Calls /\ writer \subseteq Calls
  /\ faults \in 0..MaxFaults
  /\ erased \in [Calls -> SUBSET Calls]
  /\ shared \subseteq Tokens /\ overlapped \subseteq Hosts

Answered(c) == pc[c] = "answered"

(* verifyAgentToken, for the JWT that call c was answered with.                 *)
Accepted(c) == LET row == device[Target(c)] IN row # None /\ row.live /\ row.hash # None

(* The row's hash is of this call, or of a later one that registered the device *)
(* again.                                                                       *)
Newest(c) == device[Target(c)].hash = c
Superseded(c) == \E b \in writer \ {c} : Target(b) = Target(c) /\ device[Target(c)].hash = b

(* A download token is spent only by an installation that registered a device:  *)
(* a call that dies first leaves the token good for another try.                *)
TokenNotWasted ==
  \A t \in Tokens : download[t] = "activated" => \E c \in writer : token[c] = t

(* An installer that is answered got everything: its token is spent, its        *)
(* registration is in the audit log, and its JWT is of a device of its host,    *)
(* whose hash is the one that this call stored, unless the device was deleted   *)
(* after the call looked it up or created it, or has been registered again.     *)
AnswerIsEarned ==
  \A c \in Calls : Answered(c) =>
    /\ download[token[c]] = "activated" /\ c \in logged
    /\ device[Target(c)] # None /\ device[Target(c)].host = host[c]
    /\ Live(Target(c)) => Newest(c) \/ Superseded(c)
    /\ found[c] # None /\ ~Live(found[c]) => found[c] \in erased[c]

(* Calls for a host that never overlap, wherever some of them died, leave it    *)
(* with at most one live device.                                                *)
OneDeviceInSequence ==
  \A h \in Hosts \ overlapped : \A d, e \in Calls : Matches(d, h) /\ Matches(e, h) => d = e

(* A device deleted while an installation on its host is under way stays        *)
(* deleted, although the installation goes on to rotate its hash.               *)
DeletionStands == \A c \in Calls : \A d \in erased[c] : ~Live(d)

(* "Enforce one-time use", as far as it goes: two installations are answered    *)
(* for one token only if one of them presented it before the other spent it.    *)
OneUseInSequence ==
  \A c1, c2 \in Calls :
    Answered(c1) /\ Answered(c2) /\ token[c1] = token[c2] /\ token[c1] \notin shared => c1 = c2

-----------------------------------------------------------------------------
(* Claims of the comments in authenticate/route.ts that do not hold. *)

(* The transaction "prevents the race condition where two concurrent requests   *)
(* both see no existing device and both try to create one".                     *)
OneDevicePerHost ==
  \A h \in Hosts : \A d, e \in Calls : Matches(d, h) /\ Matches(e, h) => d = e

(* "Re-installation on the same host: rotate the token hash so the old JWT ...  *)
(* stops working on next DB check".                                             *)
OldJwtStops == \A c \in Calls : Answered(c) /\ Superseded(c) => ~Accepted(c)
==============================================================================
