--------------------------- MODULE EventStreamProofs ---------------------------
(***************************************************************************)
(* What the event stream promises for any numbers of tabs, streams,        *)
(* requests and failures.  None of it needs the fairness of the            *)
(* specification.                                                          *)
(***************************************************************************)
EXTENDS EventStream, FiniteSetTheorems, TLAPS

(* Every stream that is alive has its tab, and every tab one stream at most. *)
LinkInv ==
  /\ \A t \in Tabs : es[t] # NoStream => t \in mounted /\ t \notin timer
  /\ \A t, u \in Tabs : es[t] = es[u] /\ es[t] # NoStream => t = u
  /\ \A s \in (asked \cup clients) \ cut : \E t \in Tabs : es[t] = s
  /\ \A s \in asked : s \notin clients /\ wire[s] = <<>>

(* Events tell of changes that were written. *)
WireInv ==
  /\ \A s \in Streams : \A n \in Range(wire[s]) : n \in Nat /\ n <= row
  /\ \A r \in Reqs : pc[r] = "broadcast" => made[r] # Connected

(* The last change reaches a tab that is not behind: the tab shows it, it is on *)
(* its way, or the tab has a page on the way that is older than what it shows.  *)
Pending == \E r \in Reqs : pc[r] = "broadcast" /\ made[r] = row
OnStream(t) == es[t] \in Streams \ cut /\ row \in Carried(es[t])

Reached(t) ==
  \/ load[t] = "asked"
  \/ Newest(t) = row
  \/ Pending
  \/ OnStream(t)
  \/ load[t] = "read" /\ t \in mounted /\ view[t] = row

Watched(t) == t \in mounted \/ load[t] = "read"

WayInv == \A t \in Tabs : Watched(t) /\ t \notin behind => Reached(t)

IInv == TypeOK /\ LinkInv /\ WireInv /\ WayInv

-----------------------------------------------------------------------------
LEMMA RangeEmpty == Range(<<>>) = {}
BY DEF Range

LEMMA RangeAppend ==
  ASSUME NEW q \in Seq(Nat), NEW n \in Nat
  PROVE  Range(Append(q, n)) = Range(q) \cup {n} /\ Append(q, n) \in Seq(Nat)
<1>1. Append(q, n) \in Seq(Nat) /\ Len(Append(q, n)) = Len(q) + 1 /\ Len(q) \in Nat
  OBVIOUS
<1>2. \A i \in 1..Len(q) : Append(q, n)[i] = q[i]
  OBVIOUS
<1>3. Append(q, n)[Len(q) + 1] = n
  OBVIOUS
<1>4. DOMAIN q = 1..Len(q) /\ DOMAIN Append(q, n) = 1..(Len(q) + 1)
  BY <1>1
<1>5. QED
  BY <1>1, <1>2, <1>3, <1>4 DEF Range

LEMMA RangeTail ==
  ASSUME NEW q \in Seq(Nat), q # <<>>
  PROVE  /\ Range(q) = {Head(q)} \cup Range(Tail(q))
         /\ Head(q) \in Nat /\ Tail(q) \in Seq(Nat)
<1>1. /\ Len(q) \in Nat \ {0} /\ Tail(q) \in Seq(Nat) /\ Len(Tail(q)) = Len(q) - 1
      /\ Head(q) = q[1] /\ Head(q) \in Nat
  OBVIOUS
<1>2. \A i \in 1..(Len(q) - 1) : Tail(q)[i] = q[i + 1]
  OBVIOUS
<1>3. DOMAIN q = 1..Len(q) /\ DOMAIN Tail(q) = 1..(Len(q) - 1)
  BY <1>1
<1>4. Range(q) \subseteq {Head(q)} \cup Range(Tail(q))
  <2> SUFFICES ASSUME NEW i \in 1..Len(q), i # 1 PROVE q[i] \in Range(Tail(q))
    BY <1>1, <1>3 DEF Range
  <2>1. i - 1 \in 1..(Len(q) - 1) /\ Tail(q)[i - 1] = q[i]
    BY <1>1, <1>2
  <2>2. QED
    BY <1>3, <2>1 DEF Range
<1>5. {Head(q)} \cup Range(Tail(q)) \subseteq Range(q)
  BY <1>1, <1>2, <1>3 DEF Range
<1>6. QED
  BY <1>1, <1>4, <1>5

LEMMA InitIInv == Init => IInv
<1> SUFFICES ASSUME Init PROVE IInv
  OBVIOUS
<1>1. TypeOK
  BY DelayAssumption, BoundAssumption DEF Init, TypeOK, Request, Kinds
<1>2. LinkInv /\ WayInv
  BY DEF Init, LinkInv, WayInv, Watched
<1>3. WireInv
  BY RangeEmpty DEF Init, WireInv
<1>4. QED
  BY <1>1, <1>2, <1>3 DEF IInv

-----------------------------------------------------------------------------
(* Steps that keep the links, or the streams' contents, or what tabs know. *)

LEMMA LinkKept ==
  ASSUME LinkInv, UNCHANGED <<es, mounted, timer>>,
         asked' \subseteq asked, clients' \subseteq clients, cut \subseteq cut',
         \A s \in asked' : wire'[s] = wire[s]
  PROVE  LinkInv'
<1>1. /\ \A t \in Tabs : es'[t] # NoStream => t \in mounted' /\ t \notin timer'
      /\ \A t, u \in Tabs : es'[t] = es'[u] /\ es'[t] # NoStream => t = u
  BY DEF LinkInv
<1>2. \A s \in (asked' \cup clients') \ cut' : \E t \in Tabs : es'[t] = s
  BY DEF LinkInv
<1>3. \A s \in asked' : s \notin clients' /\ wire'[s] = <<>>
  BY DEF LinkInv
<1>4. QED
  BY <1>1, <1>2, <1>3 DEF LinkInv

LEMMA WireKept ==
  ASSUME TypeOK, WireInv, row' \in Nat, row <= row',
         \A s \in Streams : Range(wire'[s]) \subseteq Range(wire[s]),
         \A r \in Reqs : pc'[r] = "broadcast" => pc[r] = "broadcast" /\ made'[r] = made[r]
  PROVE  WireInv'
<1>1. row \in Nat
  BY DEF TypeOK
<1>2. \A s \in Streams : \A n \in Range(wire'[s]) : n \in Nat /\ n <= row'
  BY <1>1 DEF WireInv
<1>3. \A r \in Reqs : pc'[r] = "broadcast" => made'[r] # Connected
  BY DEF WireInv
<1>4. QED
  BY <1>2, <1>3 DEF WireInv

LEMMA WayKept ==
  ASSUME WayInv, UNCHANGED <<row, mounted, load, page, view>>,
         \A t \in Tabs : t \in behind => t \in behind',
         Pending => Pending',
         \A t \in Tabs \ behind' : Newest(t) = row \/ (OnStream(t) => OnStream(t)')
  PROVE  WayInv'
<1> SUFFICES ASSUME NEW t \in Tabs, Watched(t)', t \notin behind' PROVE Reached(t)'
  BY DEF WayInv
<1>1. Newest(t)' = Newest(t)
  BY DEF Newest
<1>2. Watched(t) /\ t \notin behind
  BY DEF Watched
<1>3. Reached(t)
  BY <1>2 DEF WayInv
<1>4. QED
  BY <1>1, <1>3 DEF Reached

(* What is so of the variables that a step leaves to the others. *)
LEMMA Types ==
  ASSUME TypeOK
  PROVE  /\ row \in Nat
         /\ \A t \in Tabs : /\ view[t] \in Nat /\ view[t] <= row
                            /\ page[t] \in Nat /\ page[t] <= row
                            /\ es[t] \in Streams \cup {NoStream}
                            /\ Newest(t) \in Nat /\ Newest(t) <= row
         /\ \A r \in Reqs : /\ made[r] \in Nat /\ made[r] <= row
                            /\ held[r] \in Nat /\ held[r] <= row
         /\ \A s \in Streams : wire[s] \in Seq(Nat)
BY DEF TypeOK, Newest

-----------------------------------------------------------------------------
(* Pages. *)

LEMMA OpenIInv == ASSUME IInv, NEW t \in Tabs, Open(t) PROVE IInv'
<1>1. /\ t \notin mounted /\ load[t] = "none" /\ load' = [load EXCEPT ![t] = "asked"]
      /\ UNCHANGED <<row, pc, ask, made, held, faults, clients, deaf, asked, cut, wire, mounted, es,
                     timer, delay, page, view, behind>>
  BY DEF Open, portalVars, streamVars, linkVars
<1>2. \A u \in Tabs : load'[u] = IF u = t THEN "asked" ELSE load[u]
  BY <1>1 DEF IInv, TypeOK
<1>3. TypeOK'
  BY <1>1 DEF IInv, TypeOK
<1>4. LinkInv'
  BY <1>1, LinkKept DEF IInv
<1>5. WireInv'
  BY <1>1, WireKept, Types DEF IInv
<1>6. WayInv'
  <2> SUFFICES ASSUME NEW u \in Tabs, Watched(u)', u \notin behind PROVE Reached(u)'
    BY <1>1 DEF WayInv
  <2>1. CASE u = t
    BY <1>2, <2>1 DEF Reached
  <2>2. CASE u # t
    <3>1. Watched(u) /\ Newest(u)' = Newest(u)
      BY <1>1, <1>2, <2>2 DEF Watched, Newest
    <3>2. Reached(u)
      BY <3>1 DEF IInv, WayInv
    <3>3. QED
      BY <1>1, <1>2, <2>2, <3>1, <3>2 DEF Reached, Pending, OnStream, Carried
  <2>3. QED
    BY <2>1, <2>2
<1>7. QED
  BY <1>3, <1>4, <1>5, <1>6 DEF IInv

LEMMA ReadIInv == ASSUME IInv, NEW t \in Tabs, Read(t) PROVE IInv'
<1>1. /\ load[t] = "asked" /\ load' = [load EXCEPT ![t] = "read"]
      /\ page' = [page EXCEPT ![t] = row] /\ behind' = behind \ {t}
      /\ UNCHANGED <<row, pc, ask, made, held, faults, clients, deaf, asked, cut, wire, mounted, es,
                     timer, delay, view>>
  BY DEF Read, portalVars, streamVars, linkVars
<1>2. \A u \in Tabs : /\ load'[u] = IF u = t THEN "read" ELSE load[u]
                      /\ page'[u] = IF u = t THEN row ELSE page[u]
  BY <1>1 DEF IInv, TypeOK
<1>3. TypeOK'
  BY <1>1 DEF IInv, TypeOK
<1>4. LinkInv'
  BY <1>1, LinkKept DEF IInv
<1>5. WireInv'
  BY <1>1, WireKept, Types DEF IInv
<1>6. WayInv'
  <2> SUFFICES ASSUME NEW u \in Tabs, Watched(u)', u \notin behind' PROVE Reached(u)'
    BY DEF WayInv
  <2>1. CASE u = t
    BY <1>1, <1>2, <2>1 DEF Reached, Newest
  <2>2. CASE u # t
    <3>1. Watched(u) /\ Newest(u)' = Newest(u) /\ u \notin behind
      BY <1>1, <1>2, <2>2 DEF Watched, Newest
    <3>2. Reached(u)
      BY <3>1 DEF IInv, WayInv
    <3>3. QED
      BY <1>1, <1>2, <2>2, <3>1, <3>2 DEF Reached, Pending, OnStream, Carried
  <2>3. QED
    BY <2>1, <2>2
<1>7. QED
  BY <1>3, <1>4, <1>5, <1>6 DEF IInv

(* A tab that had no stream takes one that nobody refers to. *)
LEMMA ConnectLinks ==
  ASSUME IInv, NEW t \in Tabs, Connect(t), es[t] = NoStream,
         mounted' = mounted \cup {t}, timer' = timer \ {t}
  PROVE  /\ LinkInv'
         /\ es' \in [Tabs -> Streams \cup {NoStream}]
         /\ asked' \subseteq Streams /\ clients' \subseteq Streams /\ deaf' \subseteq clients' /\ cut' \subseteq Streams
         /\ wire' \in [Streams -> Seq(Nat)]
         /\ \A s \in Streams : Range(wire'[s]) \subseteq Range(wire[s])
         /\ \A u \in Tabs : u # t => /\ es'[u] = es[u]
                                     /\ OnStream(u) => es[u] \in Streams \ cut' /\ row \in Range(wire'[es[u]]) \ {Connected}
<1>1. PICK s \in Streams :
        /\ s \notin asked \cup clients /\ \A u \in Tabs : es[u] # s
        /\ es' = [es EXCEPT ![t] = s] /\ asked' = asked \cup {s} /\ cut' = cut \ {s}
        /\ wire' = [wire EXCEPT ![s] = <<>>] /\ clients' = clients /\ deaf' = deaf
  BY DEF Connect, Free
<1>2. /\ \A u \in Tabs : es'[u] = IF u = t THEN s ELSE es[u]
      /\ \A q \in Streams : wire'[q] = IF q = s THEN <<>> ELSE wire[q]
      /\ s # NoStream
  BY <1>1, StreamAssumption DEF IInv, TypeOK
<1>3. /\ es' \in [Tabs -> Streams \cup {NoStream}]
      /\ asked' \subseteq Streams /\ clients' \subseteq Streams /\ deaf' \subseteq clients' /\ cut' \subseteq Streams
      /\ wire' \in [Streams -> Seq(Nat)]
  BY <1>1 DEF IInv, TypeOK
<1>4. \A q \in Streams : Range(wire'[q]) \subseteq Range(wire[q])
  BY <1>2, RangeEmpty
<1>5. \A u \in Tabs : u # t => /\ es'[u] = es[u]
                               /\ OnStream(u) => es[u] \in Streams \ cut' /\ row \in Range(wire'[es[u]]) \ {Connected}
  BY <1>1, <1>2 DEF OnStream, Carried
<1>6. LinkInv'
  <2>1. \A u \in Tabs : es'[u] # NoStream => u \in mounted' /\ u \notin timer'
    BY <1>2 DEF IInv, LinkInv
  <2>2. \A u, v \in Tabs : es'[u] = es'[v] /\ es'[u] # NoStream => u = v
    BY <1>1, <1>2 DEF IInv, LinkInv
  <2>3. \A q \in (asked' \cup clients') \ cut' : \E u \in Tabs : es'[u] = q
    <3> SUFFICES ASSUME NEW q \in (asked' \cup clients') \ cut' PROVE \E u \in Tabs : es'[u] = q
      OBVIOUS
    <3>1. CASE q = s
      BY <1>2, <3>1
    <3>2. CASE q # s
      <4>1. PICK u \in Tabs : es[u] = q
        BY <1>1, <3>2 DEF IInv, LinkInv
      <4>2. q # NoStream
        BY <1>3, StreamAssumption
      <4>3. u # t
        BY <4>1, <4>2
      <4>4. QED
        BY <1>2, <4>1, <4>3
    <3>3. QED
      BY <3>1, <3>2
  <2>4. \A q \in asked' : q \notin clients' /\ wire'[q] = <<>>
    BY <1>1, <1>2, <1>3 DEF IInv, LinkInv
  <2>5. QED
    BY <2>1, <2>2, <2>3, <2>4 DEF LinkInv
<1>7. QED
  BY <1>3, <1>4, <1>5, <1>6

LEMMA ArriveIInv == ASSUME IInv, NEW t \in Tabs, Arrive(t) PROVE IInv'
<1>1. /\ load[t] = "read" /\ load' = [load EXCEPT ![t] = "none"]
      /\ view' = [view EXCEPT ![t] = page[t]] /\ page' = [page EXCEPT ![t] = 0]
      /\ behind' = (IF t \in mounted /\ page[t] < view[t] THEN behind \cup {t} ELSE behind)
      /\ mounted' = mounted \cup {t}
      /\ UNCHANGED <<row, pc, ask, made, held, faults, timer>>
  BY DEF Arrive, portalVars, Show
<1>2. \A u \in Tabs : /\ load'[u] = IF u = t THEN "none" ELSE load[u]
                      /\ view'[u] = IF u = t THEN page[t] ELSE view[u]
                      /\ page'[u] = IF u = t THEN 0 ELSE page[u]
  BY <1>1 DEF IInv, TypeOK
<1>3. /\ load' \in [Tabs -> {"none", "asked", "read"}]
      /\ page' \in [Tabs -> 0..row] /\ view' \in [Tabs -> 0..row]
      /\ mounted' \subseteq Tabs /\ behind' \subseteq Tabs
  BY <1>1 DEF IInv, TypeOK
<1>4. /\ LinkInv' /\ es' \in [Tabs -> Streams \cup {NoStream}]
      /\ asked' \subseteq Streams /\ clients' \subseteq Streams /\ deaf' \subseteq clients' /\ cut' \subseteq Streams
      /\ wire' \in [Streams -> Seq(Nat)] /\ delay' \in [Tabs -> 1..MaxRetryDelay]
      /\ \A s \in Streams : Range(wire'[s]) \subseteq Range(wire[s])
      /\ \A u \in Tabs : u # t \/ t \in mounted =>
           /\ es'[u] = es[u]
           /\ OnStream(u) => es[u] \in Streams \ cut' /\ row \in Range(wire'[es[u]]) \ {Connected}
  <2>1. CASE t \in mounted
    <3>1. UNCHANGED <<clients, deaf, asked, cut, wire, es, delay>> /\ mounted' = mounted
      BY <1>1, <2>1 DEF Arrive, streamVars
    <3>2. LinkInv'
      BY <1>1, <3>1, LinkKept DEF IInv
    <3>3. QED
      BY <3>1, <3>2 DEF IInv, TypeOK, OnStream, Carried
  <2>2. CASE t \notin mounted
    <3>1. Connect(t) /\ delay' = [delay EXCEPT ![t] = 1]
      BY <2>2 DEF Arrive
    <3>2. es[t] = NoStream /\ timer' = timer \ {t}
      BY <1>1, <2>2 DEF IInv, LinkInv, TypeOK
    <3>3. delay' \in [Tabs -> 1..MaxRetryDelay]
      BY <3>1, DelayAssumption DEF IInv, TypeOK
    <3>4. QED
      BY <1>1, <2>2, <3>1, <3>2, <3>3, ConnectLinks
  <2>3. QED
    BY <2>1, <2>2
<1>5. TypeOK'
  BY <1>1, <1>3, <1>4 DEF IInv, TypeOK
<1>6. WireInv'
  BY <1>1, <1>4, WireKept, Types DEF IInv
<1>7. WayInv'
  <2> SUFFICES ASSUME NEW u \in Tabs, Watched(u)', u \notin behind' PROVE Reached(u)'
    BY DEF WayInv
  <2>1. u \notin behind
    BY <1>1
  <2>2. CASE u = t
    <3>1. Reached(t)
      BY <1>1, <2>1, <2>2 DEF IInv, WayInv, Watched
    <3>2. Newest(t) = page[t] /\ Newest(t)' = page[t]
      BY <1>1, <1>2 DEF Newest
    <3>3. CASE page[t] = row \/ Pending
      BY <1>1, <2>2, <3>2, <3>3 DEF Reached, Pending
    <3>4. CASE t \in mounted /\ view[t] = row
      BY <1>1, <2>2, <3>2, <3>4, Types DEF Reached, IInv
    <3>5. CASE OnStream(t)
      <4>1. t \in mounted
        BY <3>5, StreamAssumption DEF OnStream, IInv, LinkInv
      <4>2. OnStream(t)'
        BY <1>1, <1>4, <3>5, <4>1 DEF OnStream, Carried
      <4>3. QED
        BY <2>2, <4>2 DEF Reached
    <3>6. QED
      BY <1>1, <3>1, <3>2, <3>3, <3>4, <3>5 DEF Reached
  <2>3. CASE u # t
    <3>1. Watched(u) /\ Newest(u)' = Newest(u)
      BY <1>1, <1>2, <2>3 DEF Watched, Newest
    <3>2. Reached(u)
      BY <2>1, <3>1 DEF IInv, WayInv
    <3>3. OnStream(u) => OnStream(u)'
      BY <1>1, <1>4, <2>3 DEF OnStream, Carried
    <3>4. QED
      BY <1>1, <1>2, <2>3, <3>1, <3>2, <3>3 DEF Reached, Pending
  <2>4. QED
    BY <2>2, <2>3
<1>8. QED
  BY <1>4, <1>5, <1>6, <1>7 DEF IInv

LEMMA LeaveIInv == ASSUME IInv, NEW t \in Tabs, Leave(t) PROVE IInv'
<1> DEFINE gone == IF es[t] = NoStream THEN cut ELSE cut \cup {es[t]}
<1>1. /\ t \in mounted /\ mounted' = mounted \ {t} /\ timer' = timer \ {t}
      /\ es' = [es EXCEPT ![t] = NoStream] /\ cut' = gone
      /\ wire' = [s \in Streams |-> IF s \in gone THEN <<>> ELSE wire[s]]
      /\ load' = [load EXCEPT ![t] = "none"]
      /\ page' = [page EXCEPT ![t] = 0] /\ view' = [view EXCEPT ![t] = 0]
      /\ delay' = [delay EXCEPT ![t] = 1]
      /\ behind' = behind \ {t}
      /\ UNCHANGED <<row, pc, ask, made, held, faults, clients, deaf, asked>>
  BY DEF Leave, Closing, portalVars
<1>2. \A u \in Tabs : /\ es'[u] = IF u = t THEN NoStream ELSE es[u]
                      /\ load'[u] = IF u = t THEN "none" ELSE load[u]
                      /\ u # t => page'[u] = page[u] /\ view'[u] = view[u]
  BY <1>1 DEF IInv, TypeOK
<1>3. gone \subseteq Streams /\ cut \subseteq gone
  BY DEF IInv, TypeOK
<1>4. TypeOK'
  <2>1. wire' \in [Streams -> Seq(Nat)]
    BY <1>1 DEF IInv, TypeOK
  <2>2. delay' \in [Tabs -> 1..MaxRetryDelay]
    BY <1>1, DelayAssumption DEF IInv, TypeOK
  <2>3. page' \in [Tabs -> 0..row] /\ view' \in [Tabs -> 0..row]
    BY <1>1, Types DEF IInv, TypeOK
  <2>4. QED
    BY <1>1, <1>3, <2>1, <2>2, <2>3 DEF IInv, TypeOK
<1>5. LinkInv'
  <2>1. \A u \in Tabs : es'[u] # NoStream => u \in mounted' /\ u \notin timer'
    BY <1>1, <1>2 DEF IInv, LinkInv
  <2>2. \A u, v \in Tabs : es'[u] = es'[v] /\ es'[u] # NoStream => u = v
    BY <1>2 DEF IInv, LinkInv
  <2>3. \A s \in (asked' \cup clients') \ cut' : \E u \in Tabs : es'[u] = s
    <3> SUFFICES ASSUME NEW s \in (asked \cup clients) \ gone PROVE \E u \in Tabs : es'[u] = s
      BY <1>1
    <3>1. PICK u \in Tabs : es[u] = s
      BY <1>3 DEF IInv, LinkInv
    <3>2. s # NoStream
      BY StreamAssumption DEF IInv, TypeOK
    <3>3. u # t
      BY <3>1, <3>2
    <3>4. QED
      BY <1>2, <3>1, <3>3
  <2>4. \A s \in asked' : s \notin clients' /\ wire'[s] = <<>>
    BY <1>1 DEF IInv, LinkInv, TypeOK
  <2>5. QED
    BY <2>1, <2>2, <2>3, <2>4 DEF LinkInv
<1>6. WireInv'
  <2>1. \A s \in Streams : Range(wire'[s]) \subseteq Range(wire[s])
    BY <1>1, RangeEmpty
  <2>2. UNCHANGED <<row, pc, made>>
    BY <1>1
  <2>3. QED
    BY <2>1, <2>2, WireKept, Types DEF IInv
<1>7. WayInv'
  <2> SUFFICES ASSUME NEW u \in Tabs, Watched(u)', u \notin behind' PROVE Reached(u)'
    BY DEF WayInv
  <2>1. u # t
    BY <1>1, <1>2 DEF Watched
  <2>2. Watched(u) /\ u \notin behind /\ Newest(u)' = Newest(u)
    BY <1>1, <1>2, <2>1 DEF Watched, Newest
  <2>3. Reached(u)
    BY <2>2 DEF IInv, WayInv
  <2>4. OnStream(u) => OnStream(u)'
    <3> SUFFICES ASSUME OnStream(u) PROVE OnStream(u)'
      OBVIOUS
    <3>1. es[u] # NoStream /\ es[u] # es[t]
      BY <2>1, StreamAssumption DEF OnStream, IInv, LinkInv
    <3>2. QED
      BY <1>1, <1>2, <2>1, <3>1 DEF OnStream, Carried
  <2>5. QED
    BY <1>1, <1>2, <2>1, <2>2, <2>3, <2>4 DEF Reached, Pending
<1>8. QED
  BY <1>4, <1>5, <1>6, <1>7 DEF IInv

-----------------------------------------------------------------------------
(* Streams. *)

(* Steps of the stream change nothing of requests, pages or the store. *)
LEMMA StreamIInv ==
  ASSUME IInv, TypeOK', LinkInv',
         UNCHANGED <<row, pc, made, mounted, load, page, view>>,
         \A s \in Streams : Range(wire'[s]) \subseteq Range(wire[s]),
         \A t \in Tabs : t \in behind => t \in behind',
         \A t \in Tabs \ behind' : Newest(t) = row \/ (OnStream(t) => OnStream(t)')
  PROVE  IInv'
<1>1. WireInv'
  BY WireKept, Types DEF IInv
<1>2. Pending => Pending'
  BY DEF Pending
<1>3. WayInv'
  BY <1>2, WayKept DEF IInv
<1>4. QED
  BY <1>1, <1>3 DEF IInv

LEMMA RetryIInv == ASSUME IInv, NEW t \in Tabs, Retry(t) PROVE IInv'
<1>1. /\ t \in timer /\ timer' = timer \ {t} /\ Connect(t)
      /\ delay' = [delay EXCEPT ![t] = Doubled(@)]
      /\ UNCHANGED <<row, pc, ask, made, held, faults, load, page, view, behind, mounted>>
  BY DEF Retry, portalVars, storeVars
<1>2. es[t] = NoStream /\ mounted' = mounted \cup {t}
  BY <1>1 DEF IInv, LinkInv, TypeOK
<1>3. Doubled(delay[t]) \in 1..MaxRetryDelay
  BY DelayAssumption DEF Doubled, IInv, TypeOK
<1>4. /\ LinkInv' /\ es' \in [Tabs -> Streams \cup {NoStream}]
      /\ asked' \subseteq Streams /\ clients' \subseteq Streams /\ deaf' \subseteq clients' /\ cut' \subseteq Streams
      /\ wire' \in [Streams -> Seq(Nat)]
      /\ \A s \in Streams : Range(wire'[s]) \subseteq Range(wire[s])
      /\ \A u \in Tabs : u # t =>
           /\ es'[u] = es[u]
           /\ OnStream(u) => es[u] \in Streams \ cut' /\ row \in Range(wire'[es[u]]) \ {Connected}
  BY <1>1, <1>2, ConnectLinks
<1>5. TypeOK'
  <2>1. delay' \in [Tabs -> 1..MaxRetryDelay]
    BY <1>1, <1>3 DEF IInv, TypeOK
  <2>2. QED
    BY <1>1, <1>4, <2>1 DEF IInv, TypeOK
<1>6. ASSUME NEW u \in Tabs, OnStream(u) PROVE OnStream(u)'
  <2>1. u # t
    BY <1>2, <1>6, StreamAssumption DEF OnStream
  <2>2. QED
    BY <1>1, <1>4, <1>6, <2>1 DEF OnStream, Carried
<1>7. QED
  BY <1>1, <1>4, <1>5, <1>6, StreamIInv

LEMMA OnErrorIInv == ASSUME IInv, NEW t \in Tabs, OnError(t) PROVE IInv'
<1>1. /\ es[t] \in cut /\ es' = [es EXCEPT ![t] = NoStream] /\ timer' = timer \cup {t}
      /\ UNCHANGED <<row, pc, ask, made, held, faults, clients, deaf, asked, cut, wire,
                     load, page, view, behind, mounted, delay>>
  BY DEF OnError, TimersAfter, portalVars, streamVars, storeVars
<1>2. t \in mounted /\ \A u \in Tabs : es'[u] = IF u = t THEN NoStream ELSE es[u]
  BY <1>1, StreamAssumption DEF IInv, LinkInv, TypeOK
<1>3. TypeOK'
  BY <1>1, <1>2 DEF IInv, TypeOK
<1>4. LinkInv'
  <2>1. \A u \in Tabs : es'[u] # NoStream => u \in mounted' /\ u \notin timer'
    BY <1>1, <1>2 DEF IInv, LinkInv
  <2>2. \A u, v \in Tabs : es'[u] = es'[v] /\ es'[u] # NoStream => u = v
    BY <1>2 DEF IInv, LinkInv
  <2>3. \A s \in (asked' \cup clients') \ cut' : \E u \in Tabs : es'[u] = s
    <3> SUFFICES ASSUME NEW s \in (asked \cup clients) \ cut PROVE \E u \in Tabs : es'[u] = s
      BY <1>1
    <3>1. PICK u \in Tabs : es[u] = s
      BY DEF IInv, LinkInv
    <3>2. u # t
      BY <1>1, <3>1
    <3>3. QED
      BY <1>2, <3>1, <3>2
  <2>4. \A s \in asked' : s \notin clients' /\ wire'[s] = <<>>
    BY <1>1 DEF IInv, LinkInv
  <2>5. QED
    BY <2>1, <2>2, <2>3, <2>4 DEF LinkInv
<1>5. ASSUME NEW u \in Tabs, OnStream(u) PROVE OnStream(u)'
  BY <1>1, <1>2, <1>5 DEF OnStream, Carried
<1>6. QED
  BY <1>1, <1>3, <1>4, <1>5, StreamIInv

LEMMA AcceptIInv == ASSUME IInv, NEW s \in Streams, Accept(s) PROVE IInv'
<1>1. /\ s \in asked /\ asked' = asked \ {s} /\ clients' = clients \cup {s}
      /\ deaf' = (IF s \in cut THEN deaf \cup {s} ELSE deaf)
      /\ wire' = [wire EXCEPT ![s] = IF s \in cut THEN <<>> ELSE <<Connected>>]
      /\ UNCHANGED <<row, pc, ask, made, held, faults, mounted, es, timer, delay,
                     load, page, view, behind, cut>>
  BY DEF Accept, portalVars, linkVars, storeVars
<1>2. /\ \A q \in Streams : q # s => wire'[q] = wire[q]
      /\ wire[s] = <<>>
      /\ wire'[s] \in {<<>>, <<Connected>>}
  BY <1>1 DEF IInv, TypeOK, LinkInv
<1>3. Range(wire'[s]) \subseteq {Connected} /\ wire'[s] \in Seq(Nat)
  <2>1. Connected \in Nat
    BY DEF Connected
  <2>2. CASE wire'[s] = <<>>
    BY <2>2, RangeEmpty
  <2>3. CASE wire'[s] = <<Connected>>
    <3>1. <<Connected>> \in Seq(Nat) /\ DOMAIN <<Connected>> = {1}
      BY <2>1
    <3>2. QED
      BY <2>3, <3>1 DEF Range
  <2>4. QED
    BY <1>2, <2>2, <2>3
<1>4. TypeOK'
  <2>1. wire' \in [Streams -> Seq(Nat)]
    BY <1>1, <1>2, <1>3 DEF IInv, TypeOK
  <2>2. QED
    BY <1>1, <2>1 DEF IInv, TypeOK
<1>5. LinkInv'
  <2>1. /\ \A u \in Tabs : es'[u] # NoStream => u \in mounted' /\ u \notin timer'
        /\ \A u, v \in Tabs : es'[u] = es'[v] /\ es'[u] # NoStream => u = v
    BY <1>1 DEF IInv, LinkInv
  <2>2. \A q \in (asked' \cup clients') \ cut' : \E u \in Tabs : es'[u] = q
    BY <1>1 DEF IInv, LinkInv
  <2>3. \A q \in asked' : q \notin clients' /\ wire'[q] = <<>>
    BY <1>1, <1>2 DEF IInv, LinkInv, TypeOK
  <2>4. QED
    BY <2>1, <2>2, <2>3 DEF LinkInv
<1>6. WireInv'
  <2>1. \A q \in Streams : \A n \in Range(wire'[q]) : n \in Nat /\ n <= row'
    <3> SUFFICES ASSUME NEW q \in Streams, NEW n \in Range(wire'[q])
                 PROVE  n \in Nat /\ n <= row
      BY <1>1
    <3>1. CASE q = s
      BY <1>3, <3>1, Types DEF IInv, Connected
    <3>2. CASE q # s
      BY <1>2, <3>2 DEF IInv, WireInv
    <3>3. QED
      BY <3>1, <3>2
  <2>2. \A r \in Reqs : pc'[r] = "broadcast" => made'[r] # Connected
    BY <1>1 DEF IInv, WireInv
  <2>3. QED
    BY <2>1, <2>2 DEF WireInv
<1>7. WayInv'
  <2>1. ASSUME NEW u \in Tabs, OnStream(u) PROVE OnStream(u)'
    <3>1. es[u] # s
      BY <1>2, <2>1, RangeEmpty DEF OnStream, Carried
    <3>2. QED
      BY <1>1, <1>2, <2>1, <3>1 DEF OnStream, Carried
  <2>2. Pending => Pending'
    BY <1>1 DEF Pending
  <2>3. QED
    BY <1>1, <2>1, <2>2, WayKept DEF IInv
<1>8. QED
  BY <1>4, <1>5, <1>6, <1>7 DEF IInv

LEMMA RefuseIInv == ASSUME IInv, NEW s \in Streams, Refuse(s) PROVE IInv'
<1>1. /\ s \in asked /\ asked' = asked \ {s} /\ cut' = cut \cup {s}
      /\ UNCHANGED <<row, pc, ask, made, held, faults, mounted, es, timer, delay,
                     load, page, view, behind, clients, deaf, wire>>
  BY DEF Refuse, portalVars, linkVars, storeVars
<1>2. TypeOK'
  BY <1>1 DEF IInv, TypeOK
<1>3. LinkInv'
  BY <1>1, LinkKept DEF IInv
<1>4. ASSUME NEW u \in Tabs, OnStream(u) PROVE OnStream(u)'
  <2>1. es[u] # s
    BY <1>1, <1>4, RangeEmpty DEF OnStream, Carried, IInv, LinkInv
  <2>2. QED
    BY <1>1, <1>4, <2>1 DEF OnStream, Carried
<1>5. QED
  BY <1>1, <1>2, <1>3, <1>4, StreamIInv

LEMMA BreakIInv == ASSUME IInv, NEW s \in Streams, Break(s) PROVE IInv'
<1>1. /\ s \in (asked \cup clients) \ cut /\ cut' = cut \cup {s}
      /\ wire' = [wire EXCEPT ![s] = <<>>]
      /\ behind' = behind \cup {t \in Tabs : es[t] = s /\ \E n \in Carried(s) : n > Newest(t)}
      /\ UNCHANGED <<row, pc, ask, made, held, faults, mounted, es, timer, delay,
                     load, page, view, clients, deaf, asked>>
  BY DEF Break, portalVars, linkVars
<1>2. \A q \in Streams : wire'[q] = IF q = s THEN <<>> ELSE wire[q]
  BY <1>1 DEF IInv, TypeOK
<1>3. TypeOK'
  BY <1>1 DEF IInv, TypeOK
<1>4. LinkInv'
  <2>1. \A q \in asked' : wire'[q] = wire[q]
    BY <1>1, <1>2 DEF IInv, LinkInv, TypeOK
  <2>2. QED
    BY <1>1, <2>1, LinkKept DEF IInv
<1>5. ASSUME NEW u \in Tabs \ behind' PROVE Newest(u) = row \/ (OnStream(u) => OnStream(u)')
  <2>1. CASE es[u] = s
    <3>1. row \in Carried(s) => ~(row > Newest(u))
      BY <1>1, <1>5, <2>1
    <3>2. OnStream(u) => Newest(u) = row
      BY <2>1, <3>1, Types DEF OnStream, IInv
    <3>3. QED
      BY <3>2
  <2>2. CASE es[u] # s
    BY <1>1, <1>2, <2>2 DEF OnStream, Carried
  <2>3. QED
    BY <2>1, <2>2
<1>6. \A q \in Streams : Range(wire'[q]) \subseteq Range(wire[q])
  BY <1>2, RangeEmpty
<1>7. QED
  BY <1>1, <1>3, <1>4, <1>5, <1>6, StreamIInv

LEMMA ForgetIInv == ASSUME IInv, NEW s \in Streams, AbortEvent(s) \/ Ping(s) PROVE IInv'
<1>1. /\ clients' = clients \ {s} /\ deaf' \subseteq deaf \ {s}
      /\ UNCHANGED <<row, pc, ask, made, held, faults, mounted, es, timer, delay,
                     load, page, view, behind, asked, cut, wire>>
  BY DEF AbortEvent, Ping, portalVars, linkVars, storeVars
<1>2. TypeOK'
  BY <1>1 DEF IInv, TypeOK
<1>3. LinkInv'
  BY <1>1, LinkKept DEF IInv
<1>4. ASSUME NEW u \in Tabs, OnStream(u) PROVE OnStream(u)'
  BY <1>1, <1>4 DEF OnStream, Carried
<1>5. QED
  BY <1>1, <1>2, <1>3, <1>4, StreamIInv

(* What a tab that shows a change in place of another one can be: as new as the *)
(* last change, behind, or shown something other than the last change before.   *)
LEMMA ShowFacts ==
  ASSUME TypeOK, NEW t \in Tabs, NEW n \in Nat, n <= row, Show(t, n)
  PROVE  /\ view' \in [Tabs -> 0..row] /\ behind' \subseteq Tabs
         /\ \A u \in Tabs : view'[u] = IF u = t THEN n ELSE view[u]
         /\ \A u \in Tabs : u \in behind => u \in behind'
         /\ t \in mounted /\ t \notin behind' /\ view[t] = row => n = row
BY DEF Show, TypeOK

LEMMA ReceiveIInv == ASSUME IInv, NEW t \in Tabs, Receive(t) PROVE IInv'
<1> DEFINE s == es[t]
           e == Head(wire[s])
<1>1. /\ s \in Streams \ cut /\ wire[s] # <<>> /\ wire' = [wire EXCEPT ![s] = Tail(@)]
      /\ UNCHANGED <<row, pc, ask, made, held, faults, clients, deaf, asked, cut, mounted, es,
                     timer, load, page>>
  BY DEF Receive, portalVars
<1>2. /\ wire[s] \in Seq(Nat) /\ Range(wire[s]) = {e} \cup Range(Tail(wire[s]))
      /\ e \in Nat /\ Tail(wire[s]) \in Seq(Nat)
  BY <1>1, RangeTail, Types DEF IInv
<1>3. \A q \in Streams : wire'[q] = IF q = s THEN Tail(wire[s]) ELSE wire[q]
  BY <1>1 DEF IInv, TypeOK
<1>4. e <= row
  BY <1>1, <1>2 DEF IInv, WireInv
<1>5. t \in mounted
  BY <1>1, StreamAssumption DEF IInv, LinkInv
<1>6. /\ delay' \in [Tabs -> 1..MaxRetryDelay]
      /\ view' \in [Tabs -> 0..row] /\ behind' \subseteq Tabs
      /\ \A u \in Tabs : u # t => view'[u] = view[u]
      /\ \A u \in Tabs : u \in behind => u \in behind'
      /\ e # Connected => view'[t] = e
      /\ t \notin behind' /\ view[t] = row => view'[t] = row
  <2>1. CASE e = Connected
    <3>1. delay' = [delay EXCEPT ![t] = 1] /\ UNCHANGED <<view, behind>>
      BY <2>1 DEF Receive
    <3>2. QED
      BY <2>1, <3>1, DelayAssumption DEF IInv, TypeOK
  <2>2. CASE e # Connected
    <3>1. delay' = delay /\ Show(t, e)
      BY <2>2 DEF Receive
    <3>2. /\ view' \in [Tabs -> 0..row] /\ behind' \subseteq Tabs
          /\ \A u \in Tabs : view'[u] = IF u = t THEN e ELSE view[u]
          /\ \A u \in Tabs : u \in behind => u \in behind'
          /\ t \in mounted /\ t \notin behind' /\ view[t] = row => e = row
      BY <1>2, <1>4, <3>1, ShowFacts DEF IInv
    <3>3. QED
      BY <1>5, <3>1, <3>2 DEF IInv, TypeOK
  <2>3. QED
    BY <2>1, <2>2
<1>7. TypeOK'
  <2>1. wire' \in [Streams -> Seq(Nat)]
    BY <1>1, <1>2 DEF IInv, TypeOK
  <2>2. QED
    BY <1>1, <1>6, <2>1 DEF IInv, TypeOK
<1>8. LinkInv'
  <2>1. \A q \in asked' : wire'[q] = wire[q]
    BY <1>1, <1>3 DEF IInv, LinkInv, TypeOK
  <2>2. QED
    BY <1>1, <2>1, LinkKept DEF IInv
<1>9. WireInv'
  <2>1. \A q \in Streams : Range(wire'[q]) \subseteq Range(wire[q])
    BY <1>2, <1>3
  <2>2. UNCHANGED <<row, pc, made>>
    BY <1>1
  <2>3. QED
    BY <2>1, <2>2, WireKept, Types DEF IInv
<1>10. WayInv'
  <2> SUFFICES ASSUME NEW u \in Tabs, Watched(u)', u \notin behind' PROVE Reached(u)'
    BY DEF WayInv
  <2>1. Watched(u) /\ u \notin behind
    BY <1>1, <1>6 DEF Watched
  <2>2. Reached(u)
    BY <2>1 DEF IInv, WayInv
  <2>3. UNCHANGED <<row, pc, made, mounted, load, page, cut, es>>
    BY <1>1
  <2> HIDE DEF s, e
  <2>4. CASE u = t
    <3>1. CASE load[t] = "asked" \/ Pending
      BY <2>3, <2>4, <3>1 DEF Reached, Pending
    <3>2. CASE load[t] = "read" /\ page[t] = row
      BY <2>3, <2>4, <3>2 DEF Reached, Newest
    <3>3. CASE view[t] = row
      <4>1. view'[t] = row
        BY <1>6, <2>4, <3>3
      <4>2. QED
        BY <1>5, <2>3, <2>4, <4>1 DEF Reached, Newest
    <3>4. CASE OnStream(t)
      <4>1. row \in Range(wire[s]) /\ row # Connected
        BY <3>4 DEF OnStream, Carried, s
      <4>2. CASE e = row
        <5>1. view'[t] = row
          BY <1>6, <4>1, <4>2
        <5>2. QED
          BY <1>5, <2>3, <2>4, <5>1 DEF Reached, Newest
      <4>3. CASE e # row
        <5>1. row \in Range(wire'[s])
          BY <1>1, <1>2, <1>3, <4>1, <4>3
        <5>2. OnStream(t)'
          BY <2>3, <3>4, <4>1, <5>1 DEF OnStream, Carried, s
        <5>3. QED
          BY <2>4, <5>2 DEF Reached
      <4>4. QED
        BY <4>2, <4>3
    <3>5. QED
      BY <2>2, <2>4, <3>1, <3>2, <3>3, <3>4 DEF Reached, Newest
  <2>5. CASE u # t
    <3>1. view'[u] = view[u]
      BY <1>6, <2>5
    <3>2. OnStream(u) => OnStream(u)'
      <4> SUFFICES ASSUME OnStream(u) PROVE OnStream(u)'
        OBVIOUS
      <4>1. es[u] # s
        BY <1>1, <2>5, StreamAssumption DEF IInv, LinkInv, OnStream, s
      <4>2. QED
        BY <1>3, <2>3, <4>1 DEF OnStream, Carried
    <3>3. QED
      BY <2>2, <2>3, <3>1, <3>2 DEF Reached, Newest, Pending
  <2>6. QED
    BY <2>4, <2>5
<1>11. QED
  BY <1>7, <1>8, <1>9, <1>10 DEF IInv

-----------------------------------------------------------------------------
(* Requests. *)

LEMMA BeginIInv == ASSUME IInv, NEW r \in Reqs, Begin(r) PROVE IInv'
<1>1. PICK k \in Kinds, t \in mounted \cup {Elsewhere} :
        /\ k = "authority" => t # Elsewhere
        /\ ask' = [ask EXCEPT ![r] = [kind |-> k, tab |-> t]]
        /\ held' = [held EXCEPT ![r] = IF k = "authority" THEN view[t] ELSE 0]
        /\ GoTo(r, IF k = "authority" THEN "answer" ELSE "write")
  BY DEF Begin
<1>2. /\ pc[r] = "new"
      /\ UNCHANGED <<row, made, faults, clients, deaf, asked, cut, wire, mounted, es, timer, delay,
                     load, page, view, behind>>
  BY DEF Begin, streamVars, linkVars, storeVars
<1>3. TypeOK'
  <2>1. t \in Tabs \cup {Elsewhere} /\ (k = "authority" => t \in Tabs)
    BY <1>1 DEF IInv, TypeOK
  <2>2. held' \in [Reqs -> 0..row]
    BY <1>1, <2>1, Types DEF IInv, TypeOK
  <2>3. ask' \in [Reqs -> Request]
    BY <1>1, <2>1 DEF IInv, TypeOK, Request
  <2>4. QED
    BY <1>1, <1>2, <2>2, <2>3 DEF IInv, TypeOK, GoTo
<1>4. LinkInv'
  BY <1>2, LinkKept DEF IInv
<1>5. \A q \in Reqs : /\ pc'[q] = "broadcast" => pc[q] = "broadcast"
                      /\ pc[q] = "broadcast" => pc'[q] = "broadcast"
  BY <1>1, <1>2 DEF GoTo, IInv, TypeOK
<1>6. WireInv'
  BY <1>2, <1>5, WireKept, Types DEF IInv
<1>7. WayInv'
  <2>1. Pending => Pending'
    BY <1>2, <1>5 DEF Pending
  <2>2. ASSUME NEW u \in Tabs, OnStream(u) PROVE OnStream(u)'
    BY <1>2, <2>2 DEF OnStream, Carried
  <2>3. QED
    BY <1>2, <2>1, <2>2, WayKept DEF IInv
<1>8. QED
  BY <1>3, <1>4, <1>6, <1>7 DEF IInv

LEMMA WriteIInv == ASSUME IInv, NEW r \in Reqs, Write(r) PROVE IInv'
<1>1. /\ pc[r] = "write" /\ row' = row + 1 /\ made' = [made EXCEPT ![r] = row + 1]
      /\ UNCHANGED <<ask, held, faults, clients, deaf, asked, cut, wire, mounted, es, timer, delay,
                     load, page, view>>
  BY DEF Write, streamVars, linkVars
<1>2. row \in Nat /\ \A n \in 0..row : n \in 0..(row + 1)
  BY DEF IInv, TypeOK
<1>3. \/ pc' = [pc EXCEPT ![r] = "done"] /\ behind' = behind \cup Unaware(row + 1, {})
      \/ pc' = [pc EXCEPT ![r] = "broadcast"] /\ behind' = behind
  BY DEF Write, GoTo
<1>4. Unaware(row + 1, {}) = {t \in Tabs : t \in mounted \/ load[t] = "read"}
  <2>1. \A t \in Tabs : row + 1 > Newest(t)
    BY Types DEF IInv
  <2>2. QED
    BY <2>1 DEF Unaware
<1>5. TypeOK'
  <2>1. made' \in [Reqs -> 0..row'] /\ held' \in [Reqs -> 0..row']
    BY <1>1, <1>2 DEF IInv, TypeOK
  <2>2. page' \in [Tabs -> 0..row'] /\ view' \in [Tabs -> 0..row']
    BY <1>1, <1>2 DEF IInv, TypeOK
  <2>3. behind' \subseteq Tabs /\ row' \in Nat
    BY <1>1, <1>2, <1>3, <1>4 DEF IInv, TypeOK
  <2>4. pc' \in [Reqs -> {"new", "write", "broadcast", "answer", "done", "aborted"}]
    BY <1>3 DEF IInv, TypeOK
  <2>5. QED
    BY <1>1, <2>1, <2>2, <2>3, <2>4 DEF IInv, TypeOK
<1>6. LinkInv'
  BY <1>1, LinkKept DEF IInv
<1>7. WireInv'
  <2>1. \A s \in Streams : \A n \in Range(wire'[s]) : n \in Nat /\ n <= row'
    BY <1>1, <1>2 DEF IInv, WireInv
  <2>2. \A q \in Reqs : pc'[q] = "broadcast" => made'[q] # Connected
    BY <1>1, <1>2, <1>3 DEF IInv, WireInv, TypeOK, Connected
  <2>3. QED
    BY <2>1, <2>2 DEF WireInv
<1>8. WayInv'
  <2> SUFFICES ASSUME NEW u \in Tabs, Watched(u)', u \notin behind' PROVE Reached(u)'
    BY DEF WayInv
  <2>1. Watched(u)
    BY <1>1 DEF Watched
  <2>2. pc' = [pc EXCEPT ![r] = "broadcast"]
    BY <1>3, <1>4, <2>1 DEF Watched
  <2>3. pc'[r] = "broadcast" /\ made'[r] = row'
    BY <1>1, <2>2 DEF IInv, TypeOK
  <2>4. QED
    BY <2>3 DEF Reached, Pending
<1>9. QED
  BY <1>5, <1>6, <1>7, <1>8 DEF IInv

LEMMA BroadcastIInv == ASSUME IInv, NEW r \in Reqs, Broadcast(r) PROVE IInv'
<1> DEFINE n == made[r]
<1>1. PICK thrown \in SUBSET (clients \cap cut) :
        /\ clients' = clients \ thrown /\ deaf' = deaf \ thrown
        /\ wire' = [s \in Streams |-> IF s \in (clients \ thrown) \ cut
                                        THEN Append(wire[s], n) ELSE wire[s]]
  BY DEF Broadcast, Served
<1>2. /\ pc[r] = "broadcast" /\ behind' = behind \cup Unaware(n, clients \ cut)
      /\ UNCHANGED <<row, ask, made, held, faults, asked, cut, mounted, es, timer, delay,
                     load, page, view>>
  BY DEF Broadcast, linkVars
<1>3. PICK next \in {"done", "answer"} : pc' = [pc EXCEPT ![r] = next]
  BY DEF Broadcast, GoTo
<1>4. n \in Nat /\ n <= row /\ n # Connected
  BY <1>2, Types DEF IInv, WireInv
<1>5. (clients \ thrown) \ cut = clients \ cut
  BY <1>1
<1>6. \A s \in Streams :
        /\ wire'[s] \in Seq(Nat)
        /\ s \in clients \ cut => Range(wire'[s]) = Range(wire[s]) \cup {n}
        /\ s \notin clients \ cut => wire'[s] = wire[s]
  <2> SUFFICES ASSUME NEW s \in Streams
               PROVE  /\ wire'[s] \in Seq(Nat)
                      /\ s \in clients \ cut => Range(wire'[s]) = Range(wire[s]) \cup {n}
                      /\ s \notin clients \ cut => wire'[s] = wire[s]
    OBVIOUS
  <2>1. wire[s] \in Seq(Nat)
    BY Types DEF IInv
  <2>2. wire'[s] = IF s \in clients \ cut THEN Append(wire[s], n) ELSE wire[s]
    BY <1>1, <1>5
  <2>3. QED
    BY <1>4, <2>1, <2>2, RangeAppend
<1>7. TypeOK'
  <2>1. wire' \in [Streams -> Seq(Nat)]
    BY <1>1, <1>6
  <2>2. clients' \subseteq Streams /\ deaf' \subseteq clients' /\ behind' \subseteq Tabs
    BY <1>1, <1>2 DEF IInv, TypeOK, Unaware
  <2>3. pc' \in [Reqs -> {"new", "write", "broadcast", "answer", "done", "aborted"}]
    BY <1>3 DEF IInv, TypeOK
  <2>4. QED
    BY <1>2, <2>1, <2>2, <2>3 DEF IInv, TypeOK
<1>8. LinkInv'
  <2>1. \A s \in asked' : wire'[s] = wire[s]
    BY <1>2, <1>6 DEF IInv, TypeOK, LinkInv
  <2>2. QED
    BY <1>1, <1>2, <2>1, LinkKept DEF IInv
<1>9. WireInv'
  <2>1. \A s \in Streams : \A m \in Range(wire'[s]) : m \in Nat /\ m <= row'
    <3> SUFFICES ASSUME NEW s \in Streams, NEW m \in Range(wire'[s])
                 PROVE  m \in Nat /\ m <= row
      BY <1>2
    <3>1. CASE m \in Range(wire[s])
      BY <3>1 DEF IInv, WireInv
    <3>2. CASE m \notin Range(wire[s])
      <4>1. m = n
        BY <1>6, <3>2
      <4>2. QED
        BY <1>4, <4>1
    <3>3. QED
      BY <3>1, <3>2
  <2>2. \A q \in Reqs : pc'[q] = "broadcast" => made'[q] # Connected
    BY <1>2, <1>3 DEF IInv, WireInv, TypeOK
  <2>3. QED
    BY <2>1, <2>2 DEF WireInv
<1>10. WayInv'
  <2> SUFFICES ASSUME NEW u \in Tabs, Watched(u)', u \notin behind' PROVE Reached(u)'
    BY DEF WayInv
  <2>1. Watched(u) /\ u \notin behind /\ u \notin Unaware(n, clients \ cut)
    BY <1>2 DEF Watched
  <2>2. Reached(u)
    BY <2>1 DEF IInv, WayInv
  <2>3. Newest(u)' = Newest(u)
    BY <1>2 DEF Newest
  <2>4. CASE OnStream(u)
    <3>1. row \in Range(wire'[es[u]])
      BY <1>6, <2>4 DEF OnStream, Carried
    <3>2. OnStream(u)'
      BY <1>2, <2>4, <3>1 DEF OnStream, Carried
    <3>3. QED
      BY <3>2 DEF Reached
  <2>5. CASE Pending
    <3>1. PICK q \in Reqs : pc[q] = "broadcast" /\ made[q] = row
      BY <2>5 DEF Pending
    <3>2. CASE q # r
      <4>1. pc'[q] = "broadcast" /\ made'[q] = row'
        BY <1>2, <1>3, <3>1, <3>2 DEF IInv, TypeOK
      <4>2. QED
        BY <4>1 DEF Reached, Pending
    <3>3. CASE q = r
      <4>1. n = row
        BY <3>1, <3>3
      <4>2. CASE es[u] \in clients \ cut
        <5>1. es[u] \in Streams \ cut /\ row \in Range(wire'[es[u]]) /\ row # Connected
          BY <1>4, <1>6, <4>1, <4>2 DEF IInv, TypeOK
        <5>2. OnStream(u)'
          BY <1>2, <5>1 DEF OnStream, Carried
        <5>3. QED
          BY <5>2 DEF Reached
      <4>3. CASE es[u] \notin clients \ cut
        <5>1. ~(row > Newest(u))
          BY <2>1, <4>1, <4>3 DEF Unaware, Watched
        <5>2. Newest(u)' = row'
          BY <1>2, <2>3, <5>1, Types DEF IInv
        <5>3. QED
          BY <5>2 DEF Reached
      <4>4. QED
        BY <4>2, <4>3
    <3>4. QED
      BY <3>2, <3>3
  <2>6. QED
    BY <1>2, <2>2, <2>3, <2>4, <2>5 DEF Reached
<1>11. QED
  BY <1>7, <1>8, <1>9, <1>10 DEF IInv

LEMMA AnswerIInv == ASSUME IInv, NEW r \in Reqs, Answer(r) PROVE IInv'
<1> DEFINE t == ask[r].tab
           n == IF ask[r].kind = "change" THEN made[r] ELSE held[r]
<1>1. /\ pc[r] = "answer" /\ pc' = [pc EXCEPT ![r] = "done"]
      /\ UNCHANGED <<row, ask, made, held, faults, clients, deaf, asked, cut, wire, mounted, es,
                     timer, delay, page>>
  BY DEF Answer, GoTo, streamVars, linkVars
<1>2. /\ \A q \in Reqs : pc'[q] = "broadcast" => pc[q] = "broadcast"
      /\ Pending => Pending'
      /\ \A u \in Tabs : OnStream(u) => OnStream(u)'
  BY <1>1 DEF Pending, OnStream, Carried, IInv, TypeOK
<1>3. LinkInv' /\ WireInv'
  BY <1>1, <1>2, LinkKept, WireKept, Types DEF IInv
<1>4. CASE UNCHANGED <<load, view, behind>>
  <2>1. TypeOK'
    BY <1>1, <1>4 DEF IInv, TypeOK
  <2>2. WayInv'
    BY <1>1, <1>2, <1>4, WayKept DEF IInv
  <2>3. QED
    BY <1>3, <2>1, <2>2 DEF IInv
<1>5. CASE /\ t \in mounted /\ Show(t, n)
           /\ \/ load' = [load EXCEPT ![t] = "asked"]
              \/ load' = load
  <2>1. t \in Tabs /\ n \in Nat /\ n <= row
    BY <1>5, Types DEF IInv, TypeOK
  <2>2. /\ view' \in [Tabs -> 0..row] /\ behind' \subseteq Tabs
        /\ \A u \in Tabs : view'[u] = IF u = t THEN n ELSE view[u]
        /\ \A u \in Tabs : u \in behind => u \in behind'
        /\ t \in mounted /\ t \notin behind' /\ view[t] = row => n = row
    BY <1>5, <2>1, ShowFacts DEF IInv
  <2>3. TypeOK'
    BY <1>1, <1>5, <2>2 DEF IInv, TypeOK
  <2>4. WayInv'
    <3> SUFFICES ASSUME NEW u \in Tabs, Watched(u)', u \notin behind' PROVE Reached(u)'
      BY DEF WayInv
    <3> HIDE DEF n, t
    <3>1. CASE load'[u] = "asked"
      BY <3>1 DEF Reached
    <3>2. CASE load'[u] # "asked"
      <4>1. load'[u] = load[u]
        BY <1>5, <3>2 DEF IInv, TypeOK
      <4>2. Watched(u) /\ u \notin behind
        BY <1>1, <2>2, <4>1 DEF Watched
      <4>3. Reached(u)
        BY <4>2 DEF IInv, WayInv
      <4>4. view[u] = row => view'[u] = row
        BY <1>5, <2>2
      <4>5. Newest(u) = row => Newest(u)' = row
        BY <1>1, <4>1, <4>4 DEF Newest
      <4>6. QED
        BY <1>1, <1>2, <3>2, <4>1, <4>3, <4>4, <4>5 DEF Reached
    <3>3. QED
      BY <3>1, <3>2
  <2>5. QED
    BY <1>3, <2>3, <2>4 DEF IInv
<1>6. QED
  BY <1>4, <1>5 DEF Answer

(* Requests that end with their broadcast undone leave behind whoever it was *)
(* to tell of the last change.                                               *)
LEMMA LostFacts ==
  ASSUME IInv, NEW R \in SUBSET Reqs
  PROVE  /\ Lost(R) \subseteq Tabs /\ behind \subseteq Lost(R)
         /\ \A u \in Tabs \ Lost(R) : \A r \in R :
              Watched(u) /\ pc[r] = "broadcast" /\ made[r] = row => Newest(u) = row
<1>1. Lost(R) \subseteq Tabs /\ behind \subseteq Lost(R)
  BY DEF Lost, Unaware, IInv, TypeOK
<1>2. ASSUME NEW u \in Tabs \ Lost(R), NEW r \in R,
             Watched(u), pc[r] = "broadcast", made[r] = row
      PROVE  Newest(u) = row
  <2>1. u \notin Unaware(made[r], {})
    BY <1>2 DEF Lost
  <2>2. ~(row > Newest(u))
    BY <1>2, <2>1 DEF Unaware, Watched
  <2>3. QED
    BY <2>2, Types DEF IInv
<1>3. QED
  BY <1>1, <1>2

LEMMA AbortIInv == ASSUME IInv, NEW r \in Reqs, Abort(r) PROVE IInv'
<1>1. /\ faults' = faults + 1 /\ faults < MaxFaults /\ behind' = Lost({r})
      /\ pc' = [pc EXCEPT ![r] = "aborted"]
      /\ UNCHANGED <<row, ask, made, held, clients, deaf, asked, cut, wire, mounted, es,
                     timer, delay, load, page, view>>
  BY DEF Abort, GoTo, streamVars, linkVars
<1>2. /\ behind' \subseteq Tabs /\ behind \subseteq behind'
      /\ \A u \in Tabs \ behind' :
           Watched(u) /\ pc[r] = "broadcast" /\ made[r] = row => Newest(u) = row
  BY <1>1, LostFacts
<1>3. \A q \in Reqs : pc'[q] = IF q = r THEN "aborted" ELSE pc[q]
  BY <1>1 DEF IInv, TypeOK
<1>4. TypeOK'
  <2>1. faults' \in 0..MaxFaults
    BY <1>1, BoundAssumption DEF IInv, TypeOK
  <2>2. pc' \in [Reqs -> {"new", "write", "broadcast", "answer", "done", "aborted"}]
    BY <1>1 DEF IInv, TypeOK
  <2>3. QED
    BY <1>1, <1>2, <2>1, <2>2 DEF IInv, TypeOK
<1>5. LinkInv' /\ WireInv'
  BY <1>1, <1>3, LinkKept, WireKept, Types DEF IInv
<1>6. WayInv'
  <2> SUFFICES ASSUME NEW u \in Tabs, Watched(u)', u \notin behind' PROVE Reached(u)'
    BY DEF WayInv
  <2>1. Watched(u) /\ u \notin behind /\ Newest(u)' = Newest(u)
    BY <1>1, <1>2 DEF Watched, Newest
  <2>2. Reached(u)
    BY <2>1 DEF IInv, WayInv
  <2>3. CASE Pending
    <3>1. PICK q \in Reqs : pc[q] = "broadcast" /\ made[q] = row
      BY <2>3 DEF Pending
    <3>2. CASE q = r
      BY <1>1, <1>2, <2>1, <3>1, <3>2 DEF Reached
    <3>3. CASE q # r
      BY <1>1, <1>3, <3>1, <3>3 DEF Reached, Pending
    <3>4. QED
      BY <3>2, <3>3
  <2>4. CASE ~Pending
    BY <1>1, <2>1, <2>2, <2>4 DEF Reached, OnStream, Carried
  <2>5. QED
    BY <2>3, <2>4
<1>7. QED
  BY <1>4, <1>5, <1>6 DEF IInv

LEMMA RestartIInv == ASSUME IInv, Restart PROVE IInv'
<1>1. /\ faults' = faults + 1 /\ faults < MaxFaults
      /\ pc' = [r \in Reqs |-> IF pc[r] \in {"write", "broadcast"} THEN "aborted" ELSE pc[r]]
      /\ clients' = {} /\ deaf' = {} /\ asked' = {} /\ cut' = cut \cup asked \cup clients
      /\ wire' = [s \in Streams |-> <<>>]
      /\ behind' = Lost(Reqs) \cup {t \in Tabs : es[t] \in Streams \ cut
                                                /\ \E n \in Carried(es[t]) : n > Newest(t)}
      /\ UNCHANGED <<row, ask, made, held, mounted, es, timer, delay, load, page, view>>
  BY DEF Restart, linkVars
<1>2. /\ behind' \subseteq Tabs /\ behind \subseteq behind'
      /\ \A u \in Tabs \ behind' : \A r \in Reqs :
           Watched(u) /\ pc[r] = "broadcast" /\ made[r] = row => Newest(u) = row
  BY <1>1, LostFacts
<1>3. TypeOK'
  <2>1. wire' \in [Streams -> Seq(Nat)]
    BY <1>1
  <2>2. pc' \in [Reqs -> {"new", "write", "broadcast", "answer", "done", "aborted"}]
    BY <1>1 DEF IInv, TypeOK
  <2>3. clients' \subseteq Streams /\ deaf' \subseteq clients' /\ asked' \subseteq Streams /\ cut' \subseteq Streams
    BY <1>1 DEF IInv, TypeOK
  <2>4. QED
    BY <1>1, <1>2, <2>1, <2>2, <2>3, BoundAssumption DEF IInv, TypeOK
<1>4. LinkInv'
  <2>1. \A s \in asked' : wire'[s] = wire[s]
    BY <1>1
  <2>2. QED
    BY <1>1, <2>1, LinkKept DEF IInv
<1>5. WireInv'
  <2>1. \A s \in Streams : \A n \in Range(wire'[s]) : n \in Nat /\ n <= row'
    BY <1>1, RangeEmpty
  <2>2. \A r \in Reqs : pc'[r] # "broadcast"
    BY <1>1
  <2>3. QED
    BY <2>1, <2>2 DEF WireInv
<1>6. WayInv'
  <2> SUFFICES ASSUME NEW u \in Tabs, Watched(u)', u \notin behind' PROVE Reached(u)'
    BY DEF WayInv
  <2>1. Watched(u) /\ u \notin behind /\ Newest(u)' = Newest(u)
    BY <1>1, <1>2 DEF Watched, Newest
  <2>2. Reached(u)
    BY <2>1 DEF IInv, WayInv
  <2>3. CASE Pending
    <3>1. Newest(u) = row
      BY <1>2, <2>1, <2>3 DEF Pending
    <3>2. QED
      BY <1>1, <2>1, <3>1 DEF Reached
  <2>4. CASE OnStream(u)
    <3>1. ~(row > Newest(u))
      BY <1>1, <2>4 DEF OnStream
    <3>2. Newest(u) = row
      BY <3>1, Types DEF IInv
    <3>3. QED
      BY <1>1, <2>1, <3>2 DEF Reached
  <2>5. CASE ~Pending /\ ~OnStream(u)
    BY <1>1, <2>1, <2>2, <2>5 DEF Reached
  <2>6. QED
    BY <2>3, <2>4, <2>5
<1>7. QED
  BY <1>3, <1>4, <1>5, <1>6 DEF IInv

-----------------------------------------------------------------------------
LEMMA NextIInv == IInv /\ [Next]_vars => IInv'
<1> SUFFICES ASSUME IInv, [Next]_vars PROVE IInv'
  OBVIOUS
<1>1. CASE UNCHANGED vars
  <2>1. UNCHANGED <<row, pc, ask, made, held, faults, clients, deaf, asked, cut, wire, mounted, es,
                    timer, delay, load, page, view, behind>>
    BY <1>1 DEF vars, portalVars, streamVars, linkVars, storeVars
  <2>2. TypeOK'
    BY <2>1 DEF IInv, TypeOK
  <2>3. LinkInv'
    BY <2>1, LinkKept DEF IInv
  <2>4. \A t \in Tabs : OnStream(t) => OnStream(t)'
    BY <2>1 DEF OnStream, Carried
  <2>5. QED
    BY <2>1, <2>2, <2>3, <2>4, StreamIInv
<1>2. CASE Restart
  BY <1>2, RestartIInv
<1>3. ASSUME NEW t \in Tabs, TabStep(t) PROVE IInv'
  BY <1>3, OpenIInv, ReadIInv, ArriveIInv, LeaveIInv, OnErrorIInv, RetryIInv, ReceiveIInv
     DEF TabStep
<1>4. ASSUME NEW s \in Streams, StreamStep(s) PROVE IInv'
  BY <1>4, AcceptIInv, RefuseIInv, BreakIInv, ForgetIInv DEF StreamStep
<1>5. ASSUME NEW r \in Reqs, ReqStep(r) PROVE IInv'
  BY <1>5, BeginIInv, WriteIInv, BroadcastIInv, AnswerIInv, AbortIInv DEF ReqStep
<1>6. QED
  BY <1>1, <1>2, <1>3, <1>4, <1>5 DEF Next

(* Every reachable state satisfies the inductive invariant. *)
THEOREM InductiveInvariant == Spec => []IInv
<1>1. QED
  BY InitIInv, NextIInv, PTL DEF Spec

(* Every variable keeps its type; the retry delay stays within its limit. *)
THEOREM TypeCorrect == Spec => []TypeOK
<1>1. IInv => TypeOK
  BY DEF IInv
<1>2. QED
  BY <1>1, InductiveInvariant, PTL

(* A tab shows the last change or it is on its way, unless the tab missed a    *)
(* change or went back.                                                        *)
THEOREM LastChangeShown == Spec => []ShowsLastChange
<1>1. IInv => ShowsLastChange
  <2> SUFFICES ASSUME IInv, NEW t \in mounted \ behind
               PROVE  view[t] = row \/ OnItsWay(t)
    BY DEF ShowsLastChange
  <2>1. t \in Tabs /\ Reached(t)
    BY DEF IInv, TypeOK, WayInv, Watched
  <2>2. QED
    BY <2>1 DEF Reached, OnItsWay, Newest, Pending, OnStream
<1>2. QED
  BY <1>1, InductiveInvariant, PTL

(* Each live client of the broadcaster is the stream of exactly one page.      *)
THEOREM StreamsPaired == Spec => []OneStreamPerTab
<1>1. IInv => OneStreamPerTab
  <2> SUFFICES ASSUME IInv, NEW s \in clients \ cut
               PROVE  Cardinality({t \in mounted : es[t] = s}) = 1
    BY DEF OneStreamPerTab
  <2>1. PICK t \in Tabs : es[t] = s
    BY DEF IInv, LinkInv
  <2>2. s # NoStream
    BY StreamAssumption DEF IInv, TypeOK
  <2>3. {u \in mounted : es[u] = s} = {t}
    BY <2>1, <2>2 DEF IInv, LinkInv, TypeOK
  <2>4. QED
    BY <2>3, FS_Singleton
<1>2. QED
  BY <1>1, InductiveInvariant, PTL
==============================================================================
