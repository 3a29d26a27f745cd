------------------------------ MODULE EventStream ------------------------------
(***************************************************************************)
(* How a change of a device's status reaches the pages that show it: the   *)
(* broadcaster (src/src/lib/events.ts), the stream route                   *)
(* (src/src/app/api/events/route.ts), the browser's EventSource with its   *)
(* backoff (src/src/hooks/use-sse.ts) and the store the pages read         *)
(* (src/src/store/device-store.ts).                                        *)
(*                                                                         *)
(* One device of one user.  Its changes are numbered in the order of their *)
(* writes, and a status is the number of the change that set it.  Streams  *)
(* may break at any time, and either end learns of it later.               *)
(***************************************************************************)
EXTENDS Integers, FiniteSets, Sequences, Functions

CONSTANTS
  Tabs,              \* browser tabs of the device's owner, each with one store
  Streams, NoStream, \* EventSource connections; an id is used again when nothing refers to it
  Reqs,              \* the requests of a behaviour, each served once
  Elsewhere,         \* who makes a request that no page of the owner makes
  MaxRetryDelay,     \* MAX_RETRY_DELAY, in seconds
  MaxFaults          \* bound: deaths of requests and restarts of the portal

ASSUME StreamAssumption == NoStream \notin Streams
ASSUME TabAssumption    == Elsewhere \notin Tabs
ASSUME DelayAssumption  == MaxRetryDelay \in Nat \ {0}
ASSUME BoundAssumption  == MaxFaults \in Nat

VARIABLES
  row,      \* Device.status, as the number of its last change
  pc, ask,  \* per request: its next step, and its kind and maker
  made,     \* per request: the change it wrote
  held,     \* per request: the status in the device that its page captured
  clients,  \* SSEBroadcaster.clients: streams with a registered client
  asked,    \* streams whose GET is being served
  deaf,     \* clients that were gone before their abort listener was added
  cut,      \* streams whose connection is gone
  wire,     \* per stream: the events under way to the browser
  mounted,  \* tabs that show the device
  es,       \* per tab: esRef, its EventSource
  timer,    \* tabs with a retry pending
  delay,    \* per tab: retryDelay, in seconds
  load,     \* per tab: where the page it loads or refreshes is
  page,     \* per tab: the status in that page
  view,     \* per tab: currentDevice.status in the store
  faults,
  \* History variable, read by no action.
  behind    \* tabs that, since their last page was read, were not sent a change or went back

portalVars == <<row, pc, ask, made, held, faults>>
streamVars == <<clients, deaf, asked, cut, wire>>
linkVars   == <<mounted, es, timer, delay>>
storeVars  == <<load, page, view, behind>>
vars == <<portalVars, streamVars, linkVars, storeVars>>

Kinds == {"change", "silent", "authority"}
Request == [kind : Kinds, tab : Tabs \cup {Elsewhere}]

(* An event "device:status_update" is the number of the change it tells of,    *)
(* which is never that of the event "connected".                               *)
Connected == 0

Init ==
  /\ row = 0
  /\ pc = [r \in Reqs |-> "new"]
  /\ ask = [r \in Reqs |-> [kind |-> "change", tab |-> Elsewhere]]
  /\ made = [r \in Reqs |-> 0] /\ held = [r \in Reqs |-> 0]
  /\ clients = {} /\ deaf = {} /\ asked = {} /\ cut = {}
  /\ wire = [s \in Streams |-> <<>>]
  /\ mounted = {} /\ timer = {}
  /\ es = [t \in Tabs |-> NoStream]
  /\ delay = [t \in Tabs |-> 1]
  /\ load = [t \in Tabs |-> "none"]
  /\ page = [t \in Tabs |-> 0] /\ view = [t \in Tabs |-> 0]
  /\ faults = 0
  /\ behind = {}

GoTo(r, step) == pc' = [pc EXCEPT ![r] = step]

Carried(s) == Range(wire[s]) \ {Connected}

(* The status a tab has, or will have when its page arrives. *)
Newest(t) == IF load[t] = "read" THEN page[t] ELSE view[t]

(* Tabs that will not hear of change n by stream s, and need to. *)
Unaware(n, reached) ==
  {t \in Tabs : (t \in mounted \/ load[t] = "read") /\ es[t] \notin reached /\ n > Newest(t)}

-----------------------------------------------------------------------------
(* The browser: pages. *)

(* Navigation to a page of the device. *)
Open(t) ==
  /\ t \notin mounted /\ load[t] = "none"
  /\ load' = [load EXCEPT ![t] = "asked"]
  /\ UNCHANGED <<portalVars, streamVars, linkVars, page, view, behind>>

(* The server component reads the device. *)
Read(t) ==
  /\ load[t] = "asked"
  /\ load' = [load EXCEPT ![t] = "read"]
  /\ page' = [page EXCEPT ![t] = row]
  /\ behind' = behind \ {t}
  /\ UNCHANGED <<portalVars, streamVars, linkVars, view>>

Free(s) == s \notin asked \cup clients /\ \A t \in Tabs : es[t] # s

(* connect *)
Connect(t) ==
  \E s \in Streams :
    /\ Free(s)
    /\ es' = [es EXCEPT ![t] = s]
    /\ asked' = asked \cup {s}
    /\ cut' = cut \ {s}
    /\ wire' = [wire EXCEPT ![s] = <<>>]
    /\ UNCHANGED <<clients, deaf>>

(* The store takes a status, whatever it holds. *)
Show(t, n) ==
  /\ view' = [view EXCEPT ![t] = n]
  /\ behind' = IF t \in mounted /\ n < view[t] THEN behind \cup {t} ELSE behind

(* The page arrives: setCurrentDevice, and on mounting a stream and its state. *)
Arrive(t) ==
  /\ load[t] = "read"
  /\ load' = [load EXCEPT ![t] = "none"]
  /\ Show(t, page[t])
  /\ page' = [page EXCEPT ![t] = 0]
  /\ mounted' = mounted \cup {t}
  /\ \/ t \in mounted /\ UNCHANGED <<streamVars, es, delay>>
     \/ t \notin mounted /\ Connect(t) /\ delay' = [delay EXCEPT ![t] = 1]
  /\ UNCHANGED <<portalVars, timer>>

(* Leaving the page: the clean-up of the effect closes the stream and the timer. *)
Closing(t) == IF es[t] = NoStream THEN cut ELSE cut \cup {es[t]}

Leave(t) ==
  /\ t \in mounted
  /\ mounted' = mounted \ {t}
  /\ timer' = timer \ {t}
  /\ es' = [es EXCEPT ![t] = NoStream]
  /\ cut' = Closing(t)
  /\ wire' = [s \in Streams |-> IF s \in Closing(t) THEN <<>> ELSE wire[s]]
  /\ load' = [load EXCEPT ![t] = "none"]
  /\ page' = [page EXCEPT ![t] = 0] /\ view' = [view EXCEPT ![t] = 0]
  /\ delay' = [delay EXCEPT ![t] = 1]
  /\ behind' = behind \ {t}
  /\ UNCHANGED <<portalVars, clients, deaf, asked>>

-----------------------------------------------------------------------------
(* The stream. *)

(* GET of the events route: start registers a client, sends "connected" and    *)
(* adds the listener of the request's abort event, which is not called for a   *)
(* browser that has gone by then.                                              *)
Accept(s) ==
  /\ s \in asked
  /\ asked' = asked \ {s}
  /\ clients' = clients \cup {s}
  /\ deaf' = IF s \in cut THEN deaf \cup {s} ELSE deaf
  /\ wire' = [wire EXCEPT ![s] = IF s \in cut THEN <<>> ELSE <<Connected>>]
  /\ UNCHANGED <<portalVars, linkVars, storeVars, cut>>

(* No session, or an error. *)
Refuse(s) ==
  /\ s \in asked
  /\ asked' = asked \ {s}
  /\ cut' = cut \cup {s}
  /\ UNCHANGED <<portalVars, linkVars, storeVars, clients, deaf, wire>>

(* A connection breaks, with the events on it. *)
Break(s) ==
  /\ s \in (asked \cup clients) \ cut
  /\ cut' = cut \cup {s}
  /\ wire' = [wire EXCEPT ![s] = <<>>]
  /\ behind' = behind \cup {t \in Tabs : es[t] = s /\ \E n \in Carried(s) : n > Newest(t)}
  /\ UNCHANGED <<portalVars, linkVars, clients, deaf, asked, load, page, view>>

(* The portal learns of it: the listener of the request's abort event runs,    *)
(* for a client that was still there when the listener was added.               *)
AbortEvent(s) ==
  /\ s \in (clients \cap cut) \ deaf
  /\ clients' = clients \ {s}
  /\ UNCHANGED <<portalVars, linkVars, storeVars, deaf, asked, cut, wire>>

(* Or a ping, sent every 25 seconds, throws; one that does not changes nothing. *)
Ping(s) ==
  /\ s \in clients \cap cut
  /\ clients' = clients \ {s} /\ deaf' = deaf \ {s}
  /\ UNCHANGED <<portalVars, linkVars, storeVars, asked, cut, wire>>

(* The browser learns of it: onerror closes the stream and sets a timer.       *)
TimersAfter_OnlyOnce(t) == IF delay[t] = 1 THEN timer \cup {t} ELSE timer
TimersAfter(t) == timer \cup {t}

OnError(t) ==
  /\ es[t] \in cut
  /\ es' = [es EXCEPT ![t] = NoStream]
  /\ timer' = TimersAfter(t)
  /\ UNCHANGED <<portalVars, streamVars, storeVars, mounted, delay>>

(* The timer: Math.min(retryDelay * 2, MAX_RETRY_DELAY), and connect. *)
Doubled(d) == IF 2 * d < MaxRetryDelay THEN 2 * d ELSE MaxRetryDelay

Retry(t) ==
  /\ t \in timer
  /\ timer' = timer \ {t}
  /\ delay' = [delay EXCEPT ![t] = Doubled(@)]
  /\ Connect(t)
  /\ UNCHANGED <<portalVars, storeVars, mounted>>

(* An event reaches the browser; events of a stream arrive in their order. *)
Receive(t) ==
  /\ es[t] \in Streams \ cut /\ wire[es[t]] # <<>>
  /\ wire' = [wire EXCEPT ![es[t]] = Tail(@)]
  /\ LET e == Head(wire[es[t]]) IN
       \/ /\ e = Connected
          /\ delay' = [delay EXCEPT ![t] = 1]
          /\ UNCHANGED <<view, behind>>
       \/ /\ e # Connected
          /\ Show(t, e)
          /\ UNCHANGED delay
  /\ UNCHANGED <<portalVars, clients, deaf, asked, cut, mounted, es, timer, load, page>>

-----------------------------------------------------------------------------
(* Requests.  "change" is enter or release, by a page or by an admin; "silent" *)
(* a change that no event tells of (a re-registration); "authority" the        *)
(* request of a page that sets or clears the wallet authority.                 *)
Begin(r) ==
  /\ pc[r] = "new"
  /\ \E k \in Kinds, t \in mounted \cup {Elsewhere} :
       /\ k = "silent" => t = Elsewhere
       /\ k = "authority" => t # Elsewhere
       /\ ask' = [ask EXCEPT ![r] = [kind |-> k, tab |-> t]]
       /\ held' = [held EXCEPT ![r] = IF k = "authority" THEN view[t] ELSE 0]
       /\ GoTo(r, IF k = "authority" THEN "answer" ELSE "write")
  /\ UNCHANGED <<row, made, faults, streamVars, linkVars, storeVars>>

Write(r) ==
  /\ pc[r] = "write"
  /\ row' = row + 1
  /\ made' = [made EXCEPT ![r] = row + 1]
  /\ IF ask[r].kind = "silent"
       THEN GoTo(r, "done") /\ behind' = behind \cup Unaware(row + 1, {})
       ELSE GoTo(r, "broadcast") /\ UNCHANGED behind
  /\ UNCHANGED <<ask, held, faults, streamVars, linkVars, load, page, view>>

(* broadcastToUser: a client whose send throws is unregistered and the others  *)
(* still get the event; the send to a dead client may also go nowhere.         *)
Served_StopAtThrow(thrown) == IF thrown = {} THEN clients ELSE {}
Served(thrown) == clients \ thrown

Broadcast(r) ==
  /\ pc[r] = "broadcast"
  /\ \E thrown \in SUBSET (clients \cap cut) :
       LET reached == Served(thrown) \ cut IN
       /\ clients' = clients \ thrown /\ deaf' = deaf \ thrown
       /\ wire' = [s \in Streams |->
                     IF s \in reached THEN Append(wire[s], made[r]) ELSE wire[s]]
  /\ behind' = behind \cup Unaware(made[r], clients \ cut)
  /\ GoTo(r, IF ask[r].tab = Elsewhere THEN "done" ELSE "answer")
  /\ UNCHANGED <<row, ask, made, held, faults, asked, cut, linkVars, load, page, view>>

(* The page gets its answer.  A change shows the new status and refreshes the  *)
(* page (a refresh that is under way begins again); the authority's page puts  *)
(* back the device it captured, and one of the two pages refreshes.            *)
Answer(r) ==
  LET t == ask[r].tab IN
  /\ pc[r] = "answer"
  /\ GoTo(r, "done")
  /\ \/ t \notin mounted /\ UNCHANGED <<load, view, behind>>
     \/ /\ t \in mounted
        /\ Show(t, IF ask[r].kind = "change" THEN made[r] ELSE held[r])
        /\ \/ load' = [load EXCEPT ![t] = "asked"]
           \/ ask[r].kind = "authority" /\ UNCHANGED load
     \/ UNCHANGED <<load, view, behind>>       \* the answer is lost, or an error
  /\ UNCHANGED <<row, ask, made, held, faults, streamVars, linkVars, page>>

(* The insertion of the audit row fails, or the portal dies after the write.   *)
Lost(R) == behind \cup UNION {Unaware(made[r], {}) : r \in {q \in R : pc[q] = "broadcast"}}

Abort(r) ==
  /\ pc[r] \in {"write", "broadcast"} /\ faults < MaxFaults
  /\ faults' = faults + 1
  /\ GoTo(r, "aborted")
  /\ behind' = Lost({r})
  /\ UNCHANGED <<row, ask, made, held, streamVars, linkVars, load, page, view>>

(* The portal restarts: the broadcaster is empty and every connection broken. *)
Restart ==
  /\ faults < MaxFaults
  /\ faults' = faults + 1
  /\ pc' = [r \in Reqs |-> IF pc[r] \in {"write", "broadcast"} THEN "aborted" ELSE pc[r]]
  /\ clients' = {} /\ deaf' = {} /\ asked' = {}
  /\ cut' = cut \cup asked \cup clients
  /\ wire' = [s \in Streams |-> <<>>]
  /\ behind' = Lost(Reqs) \cup {t \in Tabs : es[t] \in Streams \ cut
                                             /\ \E n \in Carried(es[t]) : n > Newest(t)}
  /\ UNCHANGED <<row, ask, made, held, linkVars, load, page, view>>

TabStep(t) == Open(t) \/ Read(t) \/ Arrive(t) \/ Leave(t) \/ OnError(t) \/ Retry(t) \/ Receive(t)
StreamStep(s) == Accept(s) \/ Refuse(s) \/ Break(s) \/ AbortEvent(s) \/ Ping(s)
ReqStep(r) == Begin(r) \/ Write(r) \/ Broadcast(r) \/ Answer(r) \/ Abort(r)

Next ==
  \/ Restart
  \/ \E t \in Tabs : TabStep(t)
  \/ \E s \in Streams : StreamStep(s)
  \/ \E r \in Reqs : ReqStep(r)

(* Timers fire, a request for a stream is answered, the browser notices that   *)
(* its connection broke, and an event that is not lost arrives.  Nothing says  *)
(* that the portal ever notices: an abort event may come before its listener   *)
(* and a ping to nobody need not throw.                                        *)
Fairness ==
  /\ \A t \in Tabs : WF_vars(OnError(t)) /\ WF_vars(Retry(t)) /\ WF_vars(Receive(t))
  /\ \A s \in Streams : WF_vars(Accept(s) \/ Refuse(s))

Spec == Init /\ [][Next]_vars /\ Fairness

-----------------------------------------------------------------------------
TypeOK ==
  /\ row \in Nat
  /\ pc \in [Reqs -> {"new", "write", "broadcast", "answer", "done", "aborted"}]
  /\ ask \in [Reqs -> Request]
  /\ made \in [Reqs -> 0..row] /\ held \in [Reqs -> 0..row]
  /\ clients \subseteq Streams /\ deaf \subseteq clients
  /\ asked \subseteq Streams /\ cut \subseteq Streams
  /\ wire \in [Streams -> Seq(Nat)]
  /\ mounted \subseteq Tabs /\ timer \subseteq mounted
  /\ es \in [Tabs -> Streams \cup {NoStream}]
  /\ delay \in [Tabs -> 1..MaxRetryDelay]
  /\ load \in [Tabs -> {"none", "asked", "read"}]
  /\ page \in [Tabs -> 0..row] /\ view \in [Tabs -> 0..row]
  /\ faults \in 0..MaxFaults /\ behind \subseteq Tabs

(* "Push real-time device status": the last change of the device is shown, or  *)
(* is on its way, in every tab, except in one that since its last page was     *)
(* read had no stream to send a change on, or to which something older came    *)
(* after something newer (a delayed broadcast, answer or page).                *)
OnItsWay(t) ==
  \/ load[t] = "asked"
  \/ load[t] = "read" /\ page[t] = row
  \/ \E r \in Reqs : pc[r] = "broadcast" /\ made[r] = row
  \/ es[t] \in Streams \ cut /\ row \in Carried(es[t])

ShowsLastChange == \A t \in mounted \ behind : view[t] = row \/ OnItsWay(t)

(* A tab never holds two streams, and a tab that left the page holds none:     *)
(* what the broadcaster still sends to is what some page listens to.           *)
OneStreamPerTab ==
  \A s \in clients \ cut : Cardinality({t \in mounted : es[t] = s}) = 1

(* If the portal accepts a tab's streams again and again, a page that has lost *)
(* its stream gets another one: the retries never end.  The ids of the model   *)
(* are few, so for one to be free some dead client must be forgotten; a        *)
(* connection of the code waits for no other to go.                            *)
AcceptsOf(t) == \E s \in Streams \ cut : es[t] = s /\ Accept(s)
Forgets == \E s \in Streams : Ping(s)
Listening(t) == es[t] \in clients \ cut
Reconnects ==
  (\A t \in Tabs : SF_vars(AcceptsOf(t))) /\ WF_vars(Forgets)
    => \A t \in Tabs : t \in mounted ~> t \notin mounted \/ Listening(t)
==============================================================================
