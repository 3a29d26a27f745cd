------------------------------- MODULE Listings -------------------------------
(***************************************************************************)
(* The portal's paged lists, newest entry first, and a reader who follows  *)
(* their links:                                                            *)
(*   "own devices"  (dashboard)/devices/page.tsx, devices-table.tsx        *)
(*   "own logs"     (dashboard)/audit-logs/page.tsx                        *)
(*   "users"        (admin)/admin/users/page.tsx, users-table.tsx          *)
(*   "fleet"        (admin)/admin/devices/page.tsx, devices-table.tsx      *)
(*   "trail"        (admin)/admin/audit-logs/page.tsx, admin-audit-table   *)
(* and the list that only the API has, "device logs".  The user's own      *)
(* lists read all entries at once and cut the page out; the others ask for *)
(* the page and for the number of entries in two queries of one            *)
(* Promise.all, which the database serves in either order.                 *)
(*                                                                         *)
(* A filter or a search is one of two queries, one of which fits only some *)
(* entries.  Entries written in the same millisecond come in any order.    *)
(***************************************************************************)
EXTENDS FiniteSets, Naturals, Sequences, Functions

CONSTANTS
  Entries,
  PageSize,   \* 10, 15, 25 or 50 in the code
  MaxStamp,   \* bound: creation times
  MaxWrites   \* bound: entries added, changed or removed during a walk

ASSUME ListAssumption ==
  IsFiniteSet(Entries) /\ PageSize \in Nat \ {0} /\ MaxStamp \in Nat /\ MaxWrites \in Nat

Listings == {"own devices", "own logs", "users", "fleet", "trail", "device logs"}
Queries == {"all", "some"}

VARIABLES
  listing,
  entry,    \* per entry: "absent", "plain" or, fitting both queries, "fitting"
  stamp,    \* its creation time
  query,    \* the filter and search of the page shown
  at,       \* its number
  rows, total,  \* what the page was answered
  read,     \* which of the two has been read
  writes,
  \* History variables, read by no action.
  there,    \* the entries of the listing when the reader began at its first page
  seen,     \* the entries shown to him since
  left,     \* an entry has left the listing since
  torn      \* an entry came after a page's count and before its rows

listVars == <<listing, entry, stamp, query, at, rows, total, read, writes, there, seen, left, torn>>

Fitting(entries, q) ==
  {e \in Entries : entries[e] = "fitting" \/ (q = "all" /\ entries[e] = "plain")}

Held == Fitting(entry, query)

(* orderBy createdAt or timestamp, descending. *)
Orders(S) ==
  {s \in [1..Cardinality(S) -> S] :
     \A i, j \in 1..Cardinality(S) : i < j => s[i] # s[j] /\ stamp[s[i]] >= stamp[s[j]]}

(* Names of entries mean nothing: the absent one that is used next, and the order *)
(* in which the first ones were created, are chosen once.                        *)
Some(S) == CHOOSE e \in S : TRUE

ListInit ==
  /\ listing \in Listings
  /\ entry \in [Entries -> {"absent", "plain", "fitting"}]
  /\ LET present == {e \in Entries : entry[e] # "absent"}
         n       == Cardinality(present)
         order   == Some(Bijection(present, 1..n))
     IN  /\ present = Some({S \in SUBSET Entries : Cardinality(S) = n})
         /\ stamp = [e \in Entries |-> IF e \in present THEN order[e] ELSE 1]
  /\ query \in Queries /\ at = 1
  /\ rows = {} /\ total = 0 /\ read = {}
  /\ writes = 0
  /\ there = Held /\ seen = {} /\ left = FALSE /\ torn = FALSE

-----------------------------------------------------------------------------
(* The pages are read. *)

(* skip and take, or slice. *)
PageOf(s, n) == {s[i] : i \in ((n - 1) * PageSize + 1)..(n * PageSize) \cap DOMAIN s}

TotalPages_Floor(n) == IF n < PageSize THEN 1 ELSE n \div PageSize
TotalPages(n) == IF n = 0 THEN 1 ELSE (n + PageSize - 1) \div PageSize

ReadRows  == \E s \in Orders(Held) : rows' = PageOf(s, at)
ReadTotal == total' = Cardinality(Held)

ReadAtOnce ==
  /\ read = {} /\ read' = {"rows", "total"}
  /\ ReadRows /\ ReadTotal
  /\ UNCHANGED <<listing, entry, stamp, query, at, writes, there, seen, left, torn>>

ReadInTwo ==
  /\ \/ "rows" \notin read /\ read' = read \cup {"rows"} /\ ReadRows /\ UNCHANGED total
     \/ "total" \notin read /\ read' = read \cup {"total"} /\ ReadTotal /\ UNCHANGED rows
  /\ UNCHANGED <<listing, entry, stamp, query, at, writes, there, seen, left, torn>>

OwnDevicesPage == listing = "own devices" /\ ReadAtOnce
AuditLogsPage  == listing = "own logs" /\ ReadAtOnce
UsersPage      == listing = "users" /\ ReadInTwo
FleetPage      == listing = "fleet" /\ ReadInTwo
TrailPage      == listing = "trail" /\ ReadInTwo
DeviceLogs     == listing = "device logs" /\ ReadInTwo

-----------------------------------------------------------------------------
(* The links below the table keep the query, a new query begins at page 1.      *)
Shows == read = {"rows", "total"}

Open(n, q) ==
  /\ Shows
  /\ at' = n /\ query' = q
  /\ rows' = {} /\ total' = 0 /\ read' = {}
  /\ IF n = 1
       THEN there' = Fitting(entry, q) /\ seen' = {} /\ left' = FALSE /\ torn' = FALSE
       ELSE seen' = seen \cup rows /\ UNCHANGED <<there, left, torn>>
  /\ UNCHANGED <<listing, entry, stamp, writes>>

Turn ==
  /\ Shows
  /\ (at > 1 /\ Open(at - 1, query)) \/ (at < TotalPages(total) /\ Open(at + 1, query))

OwnDevicesTurn == listing = "own devices" /\ Turn
AuditLogsTurn  == listing = "own logs" /\ Turn
UsersTurn      == listing = "users" /\ Turn
FleetTurn      == listing = "fleet" /\ Turn
TrailTurn      == listing = "trail" /\ Turn
DeviceLogsTurn == listing = "device logs" /\ Turn

OwnDevicesSearch == listing = "own devices" /\ \E q \in Queries : Open(1, q)
AuditLogsFilter  == listing = "own logs" /\ \E q \in Queries : Open(1, q)
UsersSearch      == listing = "users" /\ \E q \in Queries : Open(1, q)
FleetStatus      == listing = "fleet" /\ \E q \in Queries : Open(1, q)

-----------------------------------------------------------------------------
(* Meanwhile others write. *)
Write(entries) ==
  /\ writes < MaxWrites
  /\ writes' = writes + 1
  /\ entry' = entries
  /\ left' = (left \/ ~ Held \subseteq Fitting(entries, query))
  /\ torn' = (torn \/ (read = {"total"} /\ ~ Fitting(entries, query) \subseteq Held))
  /\ UNCHANGED <<listing, query, at, rows, total, read, there, seen>>

(* A new entry is the newest, or as new as the newest. *)
Add ==
  LET absent == {e \in Entries : entry[e] = "absent"} IN
  /\ absent # {}
  /\ \E kind \in {"plain", "fitting"}, t \in 1..MaxStamp :
       /\ \A f \in Entries \ absent : stamp[f] <= t
       /\ Write([entry EXCEPT ![Some(absent)] = kind])
       /\ stamp' = [stamp EXCEPT ![Some(absent)] = t]

(* A device changes its status, a user his name or wallet; a log entry keeps its *)
(* event and its result, and its device keeps its name.                          *)
Alter ==
  /\ listing \in {"own devices", "users", "fleet"}
  /\ \E e \in Entries :
       /\ entry[e] # "absent"
       /\ Write([entry EXCEPT ![e] = IF @ = "plain" THEN "fitting" ELSE "plain"])
  /\ UNCHANGED stamp

(* A deleted device leaves the lists of devices; a deleted user leaves with his *)
(* devices and, by the cascade, with what he did as an admin.                   *)
Remove ==
  /\ listing \in {"own devices", "users", "fleet", "trail"}
  /\ \E e \in Entries :
       /\ entry[e] # "absent"
       /\ Write([entry EXCEPT ![e] = "absent"])
  /\ UNCHANGED stamp

ListNext ==
  \/ OwnDevicesPage \/ AuditLogsPage \/ UsersPage \/ FleetPage \/ TrailPage \/ DeviceLogs
  \/ OwnDevicesTurn \/ AuditLogsTurn \/ UsersTurn \/ FleetTurn \/ TrailTurn \/ DeviceLogsTurn
  \/ OwnDevicesSearch \/ AuditLogsFilter \/ UsersSearch \/ FleetStatus
  \/ Add \/ Alter \/ Remove

ListSpec == ListInit /\ [][ListNext]_listVars

-----------------------------------------------------------------------------
AtTheEnd == Shows /\ at >= TotalPages(total)

Tied == \E e, f \in Held : e # f /\ stamp[e] = stamp[f]

(* A reader who follows the links from the first page to the last has seen      *)
(* every entry that was there when he began: new entries push the others to     *)
(* later pages, which he has yet to read.  Except when an entry leaves, which   *)
(* pulls the others to pages he has read; when one comes after a page's count   *)
(* and before its rows, which may then lack the link to the next; and when two  *)
(* entries carry the same time.  None of a user's own log entries leaves.       *)
WalkSeesAll == AtTheEnd /\ ~left /\ ~torn /\ ~Tied => there \subseteq seen \cup rows
==============================================================================
