----------------------------- MODULE LiveProofs -----------------------------
(***************************************************************************)
(* For every buffer size and any number of elements, publications and      *)
(* reloads: a revision the change buffer bridges is bridged exactly, a gap *)
(* is only reported when events really were evicted, nothing falls through *)
(* between a panel's snapshot, its replay and the live events, and every   *)
(* step of the stream is a step of ChangeFeed.                             *)
(*                                                                         *)
(* For any number of nodes, loads, attempts, requests and failures: the    *)
(* explorer panel's subscription goes on exactly where its graph stands,   *)
(* or the panel says that it does not; and its details only open for the   *)
(* node selected at that moment.                                           *)
(*                                                                         *)
(* For any home, limit and number of changes: an impact analysis, which    *)
(* asks many queries of a graph that changes between them, reports what    *)
(* depended on the target all the time and nothing that never did.         *)
(*                                                                         *)
(* For any graph that keeps its names apart, any request and any limits: a *)
(* slice of the graph is what was asked for, says exactly when it is not   *)
(* all of it, and is the same from either backend.                         *)
(***************************************************************************)
EXTENDS GraphStream, ExplorerPanel, ImpactAnalysis, GraphSlice, FiniteSetTheorems, TLAPS

-----------------------------------------------------------------------------
(* The buffer *)

\* How many events the buffer holds.
Held == IF revision < MaxSize THEN revision ELSE MaxSize

\* Revisions number this buffer's part of the history.
Numbered ==
    /\ Len(log) = base + revision
    /\ \A r \in 1..revision : log[base + r].rev = r

\* The buffer is the end of that history.
EndsHistory ==
    /\ Len(events) = Held
    /\ \A i \in 1..Len(events) : events[i] = log[base + (revision - Held) + i]

BufferInv ==
    /\ BufferTypeOK
    /\ Numbered
    /\ EndsHistory

-----------------------------------------------------------------------------
\* What appending to a sequence does, element by element.
LEMMA AppendElements ==
    ASSUME NEW S, NEW q \in Seq(S), NEW e \in S
    PROVE  /\ Append(q, e) \in Seq(S)
           /\ Len(q) \in Nat
           /\ Len(Append(q, e)) = Len(q) + 1
           /\ \A i \in 1..Len(q) : Append(q, e)[i] = q[i]
           /\ Append(q, e)[Len(q) + 1] = e
  OBVIOUS

\* What dropping the oldest element does, element by element.
LEMMA TailElements ==
    ASSUME NEW S, NEW q \in Seq(S), q # <<>>
    PROVE  /\ Tail(q) \in Seq(S)
           /\ Len(q) \in Nat \ {0}
           /\ Len(Tail(q)) = Len(q) - 1
           /\ \A i \in 1..Len(Tail(q)) : Tail(q)[i] = q[i + 1]
  OBVIOUS

\* The empty buffer is the end of the empty history.
LEMMA InitBufferInv == BufferInit => BufferInv
  BY BufferAssumption
  DEF BufferInit, BufferInv, BufferTypeOK, Numbered, EndsHistory, Held

\* Publishing appends to both and evicts at most the oldest event.
LEMMA PublishKeeps ==
    ASSUME BufferInv, NEW kind \in {"upsert", "remove", "reconcile"},
           NEW id \in Elements \cup {All}, Publish(kind, id)
    PROVE  BufferInv'
<1> DEFINE event == [rev |-> revision + 1, kind |-> kind, id |-> id]
           longer == Append(events, event)
<1> USE DEF BufferInv, BufferTypeOK
<1>1. /\ event \in Event
      /\ event.rev = revision + 1
  BY DEF Event
<1>2. /\ revision' = revision + 1
      /\ events' = Bounded(longer)
      /\ log' = Append(log, event)
      /\ base' = base
      /\ reloads' = reloads
  BY DEF Publish
<1> HIDE DEF event
<1>3. /\ log' \in Seq(Event)
      /\ Len(log') = Len(log) + 1
      /\ \A i \in 1..Len(log) : log'[i] = log[i]
      /\ log'[Len(log) + 1] = event
  BY <1>1, <1>2, AppendElements
<1>4. Numbered'
  <2>1. Len(log') = base' + revision'
    BY <1>2, <1>3 DEF Numbered
  <2>2. ASSUME NEW r \in 1..revision' PROVE log'[base' + r].rev = r
    <3>1. CASE r \in 1..revision
      <4>1. base' + r = base + r /\ base + r \in 1..Len(log)
        BY <1>2, <3>1 DEF Numbered
      <4> QED
        BY <1>3, <3>1, <4>1 DEF Numbered
    <3>2. CASE r = revision + 1
      <4>1. base' + r = Len(log) + 1
        BY <1>2, <3>2 DEF Numbered
      <4> QED
        BY <1>1, <1>3, <3>2, <4>1
    <3>3. revision \in Nat /\ r \in 1..revision + 1
      BY <1>2
    <3>4. r \in 1..revision \/ r = revision + 1
      BY <3>3
    <3> QED
      BY <3>1, <3>2, <3>4
  <2> QED
    BY <2>1, <2>2 DEF Numbered
<1>5. /\ longer \in Seq(Event)
      /\ Len(longer) = Held + 1
      /\ \A i \in 1..Held + 1 : longer[i] = log'[base + (revision - Held) + i]
  <2>1. /\ longer \in Seq(Event)
        /\ Len(longer) = Len(events) + 1
        /\ \A i \in 1..Len(events) : longer[i] = events[i]
        /\ longer[Len(events) + 1] = event
    BY <1>1, AppendElements
  <2>2. Held \in Nat /\ Held <= revision /\ Len(log) = base + revision /\ Len(events) = Held
    BY BufferAssumption DEF Held, Numbered, EndsHistory
  <2>3. ASSUME NEW i \in 1..Held PROVE longer[i] = log'[base + (revision - Held) + i]
    <3>1. base + (revision - Held) + i \in 1..Len(log)
      BY <2>2
    <3> QED
      BY <1>3, <2>1, <2>2, <3>1 DEF EndsHistory
  <2>4. longer[Held + 1] = log'[base + (revision - Held) + (Held + 1)]
    <3>1. base + (revision - Held) + (Held + 1) = Len(log) + 1
      BY <2>2
    <3> QED
      BY <1>3, <2>1, <2>2, <3>1
  <2> QED
    BY <2>1, <2>2, <2>3, <2>4
<1> HIDE DEF longer
<1>6. EndsHistory' /\ events' \in Seq(Event)
  <2>1. CASE revision < MaxSize
    <3>1. Held = revision /\ Held' = revision + 1 /\ events' = longer
      BY <1>2, <1>5, <2>1, BufferAssumption DEF Held, Bounded
    <3>2. ASSUME NEW i \in 1..Held'
          PROVE  events'[i] = log'[base' + (revision' - Held') + i]
      <4>1. i \in 1..Held + 1 /\ base + (revision - Held) + i = base' + (revision' - Held') + i
        BY <1>2, <3>1
      <4> QED
        BY <1>5, <3>1, <4>1
    <3>3. Len(events') = Held' /\ events' \in Seq(Event)
      BY <1>5, <3>1
    <3> QED
      BY <3>2, <3>3 DEF EndsHistory
  <2>2. CASE ~ (revision < MaxSize)
    <3>1. Held = MaxSize /\ Held' = MaxSize /\ events' = Tail(longer)
      BY <1>2, <1>5, <2>2, BufferAssumption DEF Held, Bounded
    <3>2. longer # <<>>
      BY <1>5, <3>1, BufferAssumption
    <3>3. /\ events' \in Seq(Event)
          /\ Len(events') = MaxSize
          /\ \A i \in 1..MaxSize : events'[i] = longer[i + 1]
      BY <1>5, <3>1, <3>2, TailElements, BufferAssumption
    <3>4. ASSUME NEW i \in 1..MaxSize
          PROVE  events'[i] = log'[base' + (revision' - Held') + i]
      <4>1. i + 1 \in 1..Held + 1
        BY <3>1, BufferAssumption
      <4>2. base + (revision - Held) + (i + 1) = base' + (revision' - Held') + i
        BY <1>2, <3>1, BufferAssumption
      <4> QED
        BY <1>5, <3>3, <4>1, <4>2
    <3> QED
      BY <3>1, <3>3, <3>4 DEF EndsHistory
  <2> QED
    BY <2>1, <2>2
<1> QED
  BY <1>2, <1>3, <1>4, <1>6

\* Every step keeps the invariant.
LEMMA StepBufferInv == BufferInv /\ [BufferNext]_bufferVars => BufferInv'
<1> SUFFICES ASSUME BufferInv, [BufferNext]_bufferVars PROVE BufferInv'
  OBVIOUS
<1>1. ASSUME NEW e \in Elements, Publish("upsert", e) \/ Publish("remove", e) PROVE BufferInv'
  BY <1>1, PublishKeeps
<1>2. ASSUME Publish("reconcile", All) PROVE BufferInv'
  BY <1>2, PublishKeeps
<1>3. ASSUME NewBuffer PROVE BufferInv'
  BY <1>3, BufferAssumption
  DEF NewBuffer, BufferInv, BufferTypeOK, Numbered, EndsHistory, Held
<1>4. ASSUME UNCHANGED bufferVars PROVE BufferInv'
  BY <1>4 DEF bufferVars, BufferInv, BufferTypeOK, Numbered, EndsHistory, Held
<1> QED
  BY <1>1, <1>2, <1>3, <1>4 DEF BufferNext

\* The buffer is always the numbered end of the history.
THEOREM BufferInvariant == BufferSpec => []BufferInv
  BY InitBufferInv, StepBufferInv, PTL DEF BufferSpec

-----------------------------------------------------------------------------
\* Which revisions a suffix of the history can bridge.
LEMMA SuffixFacts ==
    ASSUME BufferInv
    PROVE  /\ Held \in Nat /\ Held <= revision /\ Held <= MaxSize
           /\ events = <<>> <=> Held = 0
           /\ \A i \in 1..Held : events[i] = log[base + (revision - Held) + i]
           /\ \A i \in 1..Held : events[i].rev = (revision - Held) + i
           /\ Len(events) = Held
           /\ Held < revision => Held = MaxSize
<1> USE BufferAssumption DEF BufferInv, BufferTypeOK
<1>1. Held \in Nat /\ Held <= revision /\ Held <= MaxSize /\ Len(events) = Held
  BY DEF Held, EndsHistory
<1>2. Held < revision => Held = MaxSize
  BY DEF Held
<1>3. events = <<>> <=> Held = 0
  BY <1>1
<1>4. \A i \in 1..Held : events[i] = log[base + (revision - Held) + i]
  BY <1>1 DEF EndsHistory
<1>5. ASSUME NEW i \in 1..Held PROVE events[i].rev = (revision - Held) + i
  <2>1. (revision - Held) + i \in 1..revision
    BY <1>1
  <2>2. base + ((revision - Held) + i) = base + (revision - Held) + i
    BY <1>1
  <2> QED
    BY <1>4, <2>1, <2>2 DEF Numbered
<1> QED
  BY <1>1, <1>2, <1>3, <1>4, <1>5

LEMMA BufferBridges == BufferInv => BridgeIsExact
<1> SUFFICES ASSUME BufferInv, NEW r \in 0..revision, CanBridge(r)
             PROVE  EventsSince(r) = PublishedSince(r)
  BY DEF BridgeIsExact
<1> DEFINE first == revision - Held
<1>1. revision \in Nat /\ base \in Nat /\ Len(log) = base + revision
  BY DEF BufferInv, BufferTypeOK, Numbered
<1>2. /\ first \in Nat
      /\ \A i \in 1..Held : events[i] = log[base + first + i] /\ events[i].rev = first + i
      /\ Len(events) = Held
      /\ Held \in Nat
      /\ first + Held = revision
  BY <1>1, SuffixFacts
<1>3. first <= r
  <2>1. CASE events = <<>>
    BY <1>1, <1>2, <2>1, SuffixFacts, BufferAssumption
  <2>2. CASE events # <<>>
    <3>1. 1 \in 1..Held /\ events[1].rev = first + 1
      BY <1>2, <2>2, SuffixFacts
    <3> QED
      BY <1>1, <1>2, <2>2, <3>1 DEF CanBridge
  <2> QED
    BY <2>1, <2>2
<1> HIDE DEF first
<1>4. ASSUME NEW x \in EventsSince(r) PROVE x \in PublishedSince(r)
  <2>1. PICK i \in 1..Held : x = events[i] /\ events[i].rev > r
    BY <1>2 DEF EventsSince
  <2>2. x = log[base + first + i] /\ first + i > r
    BY <1>2, <2>1
  <2>3. base + first + i \in base + r + 1 .. Len(log)
    BY <1>1, <1>2, <2>2
  <2> QED
    BY <2>2, <2>3 DEF PublishedSince
<1>5. ASSUME NEW x \in PublishedSince(r) PROVE x \in EventsSince(r)
  <2>1. PICK j \in base + r + 1 .. Len(log) : x = log[j]
    BY DEF PublishedSince
  <2> DEFINE i == j - base - first
  <2>2. i \in 1..Held /\ base + first + i = j /\ first + i > r
    BY <1>1, <1>2, <1>3, <2>1
  <2>3. x = events[i] /\ events[i].rev > r /\ i \in 1..Len(events)
    BY <1>2, <2>1, <2>2
  <2> HIDE DEF i
  <2> QED
    BY <2>3 DEF EventsSince
<1> QED
  BY <1>4, <1>5

\* coordinator.py:178-183: a bridged revision misses nothing and repeats nothing.
THEOREM BridgeExact == BufferSpec => []BridgeIsExact
  BY BufferBridges, BufferInvariant, PTL

\* A gap is reported only when more was published than the buffer holds.
THEOREM GapJustified == BufferSpec => []GapOnlyWhenEvicted
<1>1. BufferInv => GapOnlyWhenEvicted
  <2> SUFFICES ASSUME BufferInv, NEW r \in 0..revision, ~ CanBridge(r)
               PROVE  revision - r > MaxSize
    BY DEF GapOnlyWhenEvicted
  <2>1. revision \in Nat
    BY DEF BufferInv, BufferTypeOK
  <2>2. events # <<>> /\ ~ (r >= events[1].rev - 1)
    BY <2>1 DEF CanBridge
  <2>3. 1 \in 1..Held /\ events[1].rev = (revision - Held) + 1
    BY <2>1, <2>2, SuffixFacts
  <2> QED
    BY <2>1, <2>2, <2>3, SuffixFacts, BufferAssumption
<1> QED
  BY <1>1, BufferInvariant, PTL

-----------------------------------------------------------------------------
(* The stream: its invariant *)

\* i is the position of the last event in q that names e, 0 without one.
IsLast(q, e, i) ==
    /\ i \in 0..Len(q)
    /\ i # 0 => q[i].id = e
    /\ \A j \in 1..Len(q) : q[j].id = e => j <= i

\* The value of LastAt, of any history.
LastIn(q, e) ==
    LET mine == {i \in 1..Len(q) : q[i].id = e}
    IN  IF mine = {} THEN 0 ELSE CHOOSE i \in mine : \A j \in mine : j <= i

\* The history is bounded, only a reconcile names more than an element, and
\* every element has its last event.
LogIsSound ==
    /\ Len(log) <= MaxEvents
    /\ epoch <= reloads /\ reloads <= MaxReloads
    /\ \A i \in 1..Len(log) : log[i].kind = "reconcile" <=> log[i].id = All
    /\ \A e \in Elements : IsLast(log, e, LastAt(e))

\* Every handle was armed by an event of its own.
HandlesAreArmed ==
    \A e \in Elements : loose[e] <= Len(log) /\ (timer[e] => loose[e] < Len(log))

Named(q, e, kind, i) == \E j \in 1..i : q[j].id = e /\ q[j].kind = kind

\* What waits is news, and of the running coordinator the latest.
PendingIsNews ==
    \A e \in Elements : pending[e] # Nothing =>
        /\ told[e].at < pending[e].at
        /\ pending[e].at <= Len(log)
        /\ Named(log, e, pending[e].kind, pending[e].at)
        /\ attached => pending[e].at = LastAt(e)

ToldIsPast == \A e \in Elements : told[e].at <= Len(log)

\* Between the snapshot and the subscription the panel knows what the snapshot
\* was taken after, unless the numbers began anew.
SnapshotIsWhole ==
    mode = "loaded" =>
        /\ ~ attached
        /\ \A e \in Elements : pending[e] = Nothing
        /\ \A e \in Elements : IF epoch = reloads THEN told[e].at = base + from
                                                  ELSE told[e].at <= base

LiveIsAttached == mode = "live" /\ epoch = reloads => attached

StreamInv ==
    /\ BufferInv
    /\ TypeOK
    /\ LogIsSound
    /\ HandlesAreArmed
    /\ PendingIsNews
    /\ ToldIsPast
    /\ SnapshotIsWhole
    /\ LiveIsAttached
    /\ NothingFallsThrough
    /\ ToldOfSomething

-----------------------------------------------------------------------------
(* The last event of an element *)

LEMMA LastIsUnique ==
    ASSUME NEW q, Len(q) \in Nat, NEW e, NEW i, IsLast(q, e, i)
    PROVE  LastIn(q, e) = i
<1> DEFINE mine == {j \in 1..Len(q) : q[j].id = e}
<1>1. LastIn(q, e) = IF mine = {} THEN 0 ELSE CHOOSE j \in mine : \A k \in mine : k <= j
  BY DEF LastIn
<1>2. CASE i = 0
  BY <1>1, <1>2 DEF IsLast
<1>3. CASE i # 0
  <2>1. i \in mine /\ \A k \in mine : k <= i
    BY <1>3 DEF IsLast
  <2>2. \A j \in mine : (\A k \in mine : k <= j) => j = i
    BY <2>1
  <2> QED
    BY <1>1, <2>1, <2>2
<1> QED
  BY <1>2, <1>3

LEMMA LastAtIsLastIn ==
    ASSUME NEW e
    PROVE  LastAt(e) = LastIn(log, e) /\ LastAt(e)' = LastIn(log', e)
  BY DEF LastAt, LastIn

\* Publishing makes the event the last of its element, and of no other.
LEMMA PublishedIsLast ==
    ASSUME StreamInv, NEW kind \in {"upsert", "remove", "reconcile"},
           NEW id \in Elements \cup {All}, Publish(kind, id)
    PROVE  /\ log' \in Seq(Event) /\ Len(log) \in Nat
           /\ Len(log') = Len(log) + 1 /\ Len(log) < MaxEvents
           /\ \A i \in 1..Len(log) : log'[i] = log[i]
           /\ log'[Len(log) + 1].id = id /\ log'[Len(log) + 1].kind = kind
           /\ log' = Append(log, log'[Len(log) + 1])
           /\ base' = base /\ reloads' = reloads
           /\ \A e \in Elements : LastAt(e)' = IF e = id THEN Len(log) + 1 ELSE LastAt(e)
           /\ \A e \in Elements : IsLast(log', e, LastAt(e)')
<1> DEFINE event == [rev |-> revision + 1, kind |-> kind, id |-> id]
<1>1. /\ event \in Event /\ event.kind = kind /\ event.id = id
      /\ log \in Seq(Event)
  BY DEF Event, StreamInv, BufferInv, BufferTypeOK
<1>2. /\ log' = Append(log, event) /\ Len(log) < MaxEvents /\ base' = base /\ reloads' = reloads
  BY DEF Publish
<1> HIDE DEF event
<1>3. /\ log' \in Seq(Event) /\ Len(log) \in Nat
      /\ Len(log') = Len(log) + 1
      /\ \A i \in 1..Len(log) : log'[i] = log[i]
      /\ log'[Len(log) + 1] = event
  BY <1>1, <1>2, AppendElements
<1>4. ASSUME NEW e \in Elements
      PROVE  /\ LastAt(e)' = IF e = id THEN Len(log) + 1 ELSE LastAt(e)
             /\ IsLast(log', e, LastAt(e)')
  <2>1. IsLast(log, e, LastAt(e))
    BY DEF StreamInv, LogIsSound
  <2> DEFINE last == IF e = id THEN Len(log) + 1 ELSE LastAt(e)
  <2>2. IsLast(log', e, last)
    BY <1>1, <1>3, <2>1 DEF IsLast
  <2>3. LastAt(e)' = last
    BY <1>3, <2>2, LastIsUnique, LastAtIsLastIn
  <2> QED
    BY <2>2, <2>3
<1> QED
  BY <1>1, <1>2, <1>3, <1>4

\* What was named stays named.
LEMMA NamedStays ==
    ASSUME NEW q, NEW r, NEW n \in Nat, \A i \in 1..n : r[i] = q[i],
           NEW e, NEW kind, NEW i \in 0..n, Named(q, e, kind, i)
    PROVE  Named(r, e, kind, i)
  BY DEF Named

\* What waits, of an element that is not named again, is still news.
LEMMA PendingStays ==
    ASSUME StreamInv, NEW x \in Elements, pending[x] # Nothing,
           NEW r, \A i \in 1..Len(log) : r[i] = log[i]
    PROVE  /\ told[x].at < pending[x].at /\ pending[x].at <= Len(log)
           /\ pending[x].at \in 1..MaxEvents
           /\ Named(r, x, pending[x].kind, pending[x].at)
           /\ attached => pending[x].at = LastAt(x)
<1>1. /\ told[x].at < pending[x].at /\ pending[x].at <= Len(log)
      /\ Named(log, x, pending[x].kind, pending[x].at)
      /\ pending[x].at \in 1..MaxEvents
      /\ attached => pending[x].at = LastAt(x)
      /\ Len(log) \in Nat
  BY DEF StreamInv, PendingIsNews, TypeOK, BufferInv, BufferTypeOK
<1>2. pending[x].at \in 0..Len(log)
  BY <1>1, BufferAssumption
<1> QED
  BY <1>1, <1>2, NamedStays

-----------------------------------------------------------------------------
(* Steps *)

\* A step of the stream is a step of the buffer or leaves it alone.
LEMMA StreamUsesBuffer == [Next]_vars => [BufferNext]_bufferVars
  BY DEF Next, LoadSnapshot, Subscribe, Reopen, PublishElement, PublishReconcile, FireTimer,
         FireLoose, Flush, Reload, BufferNext, vars

LEMMA StreamInitInv == Init => StreamInv
<1> SUFFICES ASSUME Init PROVE StreamInv
  OBVIOUS
<1>1. BufferInv
  BY InitBufferInv DEF Init
<1>2. /\ log = <<>> /\ Len(log) = 0 /\ reloads = 0
      /\ pending = [e \in Elements |-> Nothing]
      /\ \A e \in Elements : told[e] = [at |-> 0, kind |-> "snapshot"]
  BY DEF Init, BufferInit, Untold
<1>3. TypeOK
  <2>1. told \in [Elements -> [at : 0..MaxEvents, kind : {"upsert", "remove", "snapshot"}]]
    BY BufferAssumption DEF Init, Untold
  <2>2. loose \in [Elements -> 0..MaxEvents] /\ timer \in [Elements -> BOOLEAN]
    BY BufferAssumption DEF Init
  <2>3. pending \in [Elements -> [at : 1..MaxEvents, kind : {"upsert", "remove"}] \cup {Nothing}]
    BY <1>2
  <2>4. from \in 0..MaxEvents /\ epoch \in 0..MaxReloads
    BY BufferAssumption DEF Init
  <2> QED
    BY <2>1, <2>2, <2>3, <2>4 DEF Init, TypeOK
<1>4. LogIsSound
  <2>1. \A e \in Elements : IsLast(log, e, 0)
    <3>1. 1..Len(log) = {} /\ 0 \in 0..Len(log)
      BY <1>2
    <3> QED
      BY <3>1 DEF IsLast
  <2>2. \A e \in Elements : LastAt(e) = 0
    BY <1>2, <2>1, LastIsUnique, LastAtIsLastIn
  <2> QED
    BY <1>2, <2>1, <2>2, BufferAssumption DEF LogIsSound, Init
<1>5. HandlesAreArmed
  <2> SUFFICES ASSUME NEW e \in Elements
               PROVE  loose[e] <= Len(log) /\ (timer[e] => loose[e] < Len(log))
    BY DEF HandlesAreArmed
  <2>1. loose[e] <= Len(log)
    BY <1>2 DEF Init
  <2>2. ~ timer[e]
    BY DEF Init
  <2> QED
    BY <2>1, <2>2
<1>6. PendingIsNews /\ ToldIsPast /\ SnapshotIsWhole /\ LiveIsAttached
  BY <1>2 DEF Init, PendingIsNews, ToldIsPast, SnapshotIsWhole, LiveIsAttached
<1>7. NothingFallsThrough /\ ToldOfSomething
  BY <1>2 DEF Init, NothingFallsThrough, ToldOfSomething
<1> QED
  BY <1>1, <1>3, <1>4, <1>5, <1>6, <1>7 DEF StreamInv

\* What is said of the history and of the bounds holds of what is left alone.
LEMMA QuietStep ==
    ASSUME StreamInv, [Next]_vars, log' = log
    PROVE  /\ BufferInv' /\ Len(log) \in Nat
           /\ \A e \in Elements : LastAt(e)' = LastAt(e) /\ IsLast(log, e, LastAt(e))
           /\ \A e \in Elements : LastAt(e) \in 0..Len(log)
<1>1. BufferInv'
  BY StreamUsesBuffer, StepBufferInv DEF StreamInv
<1>2. \A e \in Elements : LastAt(e)' = LastAt(e) /\ IsLast(log, e, LastAt(e))
  BY LastAtIsLastIn DEF StreamInv, LogIsSound
<1>3. Len(log) \in Nat
  BY DEF StreamInv, BufferInv, BufferTypeOK
<1> QED
  BY <1>1, <1>2, <1>3 DEF IsLast

-----------------------------------------------------------------------------
(* The panel *)

\* What the replay tells of an element is its last event, if the snapshot is
\* older than that.
LEMMA ReplayedIsLast ==
    ASSUME StreamInv, NEW e \in Elements, CanBridge(from)
    PROVE  Replayed(e) = IF LastAt(e) > base + from
                         THEN [at |-> LastAt(e), kind |-> log[LastAt(e)].kind]
                         ELSE told[e]
<1> DEFINE mine == {x \in PublishedSince(from) : x.id = e}
           l == LastAt(e)
<1>1. /\ IsLast(log, e, l)
      /\ base \in Nat /\ revision \in Nat /\ from \in Nat /\ Len(log) = base + revision
      /\ \A r \in 1..revision : log[base + r].rev = r
  BY BufferAssumption DEF StreamInv, LogIsSound, BufferInv, BufferTypeOK, Numbered, TypeOK
<1>2. EventsSince(from) = PublishedSince(from)
  BY <1>1, BufferBridges DEF StreamInv, BridgeIsExact, CanBridge
<1>3. \A i \in base + from + 1 .. Len(log) : log[i].rev = i - base
  <2> SUFFICES ASSUME NEW i \in base + from + 1 .. Len(log) PROVE log[i].rev = i - base
    OBVIOUS
  <2>1. i - base \in 1..revision /\ base + (i - base) = i
    BY <1>1
  <2> QED
    BY <1>1, <2>1
<1>4. l \in 0..Len(log) /\ (l # 0 => log[l].id = e)
      /\ \A j \in 1..Len(log) : log[j].id = e => j <= l
  BY <1>1 DEF IsLast
<1> HIDE DEF l
<1>5. Replayed(e) = IF mine = {} THEN told[e]
                    ELSE LET latest == CHOOSE x \in mine : \A y \in mine : y.rev <= x.rev
                         IN  [at |-> base + latest.rev, kind |-> latest.kind]
  BY <1>2 DEF Replayed
<1>6. ASSUME NEW x \in mine
      PROVE  \E i \in base + from + 1 .. Len(log) :
                 x = log[i] /\ x.rev = i - base /\ i <= l /\ i \in 1..Len(log)
  <2>1. PICK i \in base + from + 1 .. Len(log) : x = log[i] /\ log[i].id = e
    BY <1>6 DEF PublishedSince
  <2>2. i \in 1..Len(log)
    BY <1>1, <2>1
  <2> QED
    BY <1>3, <1>4, <2>1, <2>2
<1>7. CASE l > base + from
  <2>1. l \in base + from + 1 .. Len(log) /\ l # 0
    BY <1>1, <1>4, <1>7
  <2>2. log[l] \in mine /\ log[l].rev = l - base
    BY <1>3, <1>4, <2>1 DEF PublishedSince
  <2>3. \A y \in mine : y.rev <= log[l].rev
    BY <1>1, <1>6, <2>1, <2>2
  <2>4. \A x \in mine : (\A y \in mine : y.rev <= x.rev) => x = log[l]
    <3> SUFFICES ASSUME NEW x \in mine, log[l].rev <= x.rev PROVE x = log[l]
      BY <2>2
    <3>1. PICK i \in base + from + 1 .. Len(log) : x = log[i] /\ x.rev = i - base /\ i <= l
      BY <1>6
    <3>2. i = l
      BY <1>1, <2>1, <2>2, <3>1
    <3> QED
      BY <3>1, <3>2
  <2>5. (CHOOSE x \in mine : \A y \in mine : y.rev <= x.rev) = log[l]
    BY <2>2, <2>3, <2>4
  <2>6. base + log[l].rev = l
    BY <1>1, <2>1, <2>2
  <2> HIDE DEF mine
  <2> QED
    BY <1>5, <1>7, <2>2, <2>5, <2>6 DEF l
<1>8. CASE ~ (l > base + from)
  <2>1. mine = {}
    BY <1>1, <1>4, <1>6, <1>8
  <2> QED
    BY <1>5, <1>8, <2>1 DEF l
<1> QED
  BY <1>7, <1>8

LEMMA LoadSnapshotInv == ASSUME StreamInv, LoadSnapshot PROVE StreamInv'
<1>1. /\ log' = log /\ base' = base /\ reloads' = reloads /\ revision' = revision
      /\ mode' = "loaded" /\ from' = revision /\ epoch' = reloads /\ attached' = FALSE
      /\ told' = [e \in Elements |-> [at |-> Len(log), kind |-> "snapshot"]]
      /\ pending' = [e \in Elements |-> Nothing]
      /\ timer' = [e \in Elements |-> FALSE]
      /\ loose' = [e \in Elements |-> 0]
  BY DEF LoadSnapshot, NoSubscription, bufferVars
<1>2. /\ BufferInv' /\ Len(log) \in Nat
      /\ \A e \in Elements : LastAt(e)' = LastAt(e) /\ IsLast(log, e, LastAt(e))
      /\ \A e \in Elements : LastAt(e) \in 0..Len(log)
  BY <1>1, QuietStep DEF LoadSnapshot, Next
<1>3. /\ Len(log) = base + revision /\ base \in Nat /\ revision \in Nat /\ reloads \in Nat
      /\ Len(log) <= MaxEvents /\ reloads <= MaxReloads
  BY DEF StreamInv, BufferInv, BufferTypeOK, Numbered, LogIsSound
<1>4. \A e \in Elements : told'[e].at = Len(log) /\ told'[e].kind = "snapshot"
  BY <1>1
<1>5. TypeOK'
  <2>1. told' \in [Elements -> [at : 0..MaxEvents, kind : {"upsert", "remove", "snapshot"}]]
    BY <1>1, <1>3, BufferAssumption
  <2>2. from' \in 0..MaxEvents /\ epoch' \in 0..MaxReloads
    BY <1>1, <1>3, BufferAssumption
  <2>3. pending' \in [Elements -> [at : 1..MaxEvents, kind : {"upsert", "remove"}] \cup {Nothing}]
    BY <1>1
  <2>4. loose' \in [Elements -> 0..MaxEvents] /\ timer' \in [Elements -> BOOLEAN]
    BY <1>1, BufferAssumption
  <2> QED
    BY <1>1, <2>1, <2>2, <2>3, <2>4 DEF TypeOK
<1>6. LogIsSound'
  BY <1>1, <1>2, <1>3 DEF StreamInv, LogIsSound
<1>7. HandlesAreArmed' /\ PendingIsNews' /\ ToldIsPast'
  BY <1>1, <1>2, <1>4 DEF HandlesAreArmed, PendingIsNews, ToldIsPast
<1>8. SnapshotIsWhole' /\ LiveIsAttached'
  BY <1>1, <1>3, <1>4 DEF SnapshotIsWhole, LiveIsAttached
<1>9. NothingFallsThrough' /\ ToldOfSomething'
  BY <1>1, <1>4 DEF NothingFallsThrough, ToldOfSomething
<1> QED
  BY <1>2, <1>5, <1>6, <1>7, <1>8, <1>9 DEF StreamInv

\* Whoever subscribes after a snapshot of the running coordinator has heard the
\* last event of every element.
LEMMA SubscribeInv == ASSUME StreamInv, Subscribe PROVE StreamInv'
<1>1. /\ mode = "loaded" /\ attached' = TRUE /\ mode' \in {"load", "live"}
      /\ UNCHANGED <<revision, events, log, base, reloads, from, epoch, pending, timer, loose>>
  BY DEF Subscribe, bufferVars
<1>2. /\ BufferInv' /\ Len(log) \in Nat
      /\ \A e \in Elements : LastAt(e)' = LastAt(e) /\ IsLast(log, e, LastAt(e))
      /\ \A e \in Elements : LastAt(e) \in 0..Len(log)
  BY <1>1, QuietStep DEF Next
<1>3. LogIsSound' /\ HandlesAreArmed'
  BY <1>1, <1>2 DEF StreamInv, LogIsSound, HandlesAreArmed
<1>4. /\ Len(log) = base + revision /\ base \in Nat /\ revision \in Nat /\ from \in Nat
      /\ Len(log) <= MaxEvents /\ log \in Seq(Event)
  BY BufferAssumption DEF StreamInv, BufferInv, BufferTypeOK, Numbered, LogIsSound, TypeOK
<1>5. /\ \A e \in Elements : pending[e] = Nothing
      /\ \A e \in Elements : told[e].at <= base + from \/ epoch # reloads
      /\ \A e \in Elements : told[e].at <= Len(log)
      /\ told \in [Elements -> [at : 0..MaxEvents, kind : {"upsert", "remove", "snapshot"}]]
  BY <1>1, <1>4 DEF StreamInv, SnapshotIsWhole, TypeOK, ToldIsPast
<1>6. CASE mode' = "load" /\ told' = told
  <2>1. TypeOK' /\ PendingIsNews' /\ ToldIsPast'
    BY <1>1, <1>5, <1>6 DEF StreamInv, TypeOK, PendingIsNews, ToldIsPast
  <2>2. SnapshotIsWhole' /\ LiveIsAttached' /\ NothingFallsThrough'
    BY <1>6 DEF SnapshotIsWhole, LiveIsAttached, NothingFallsThrough
  <2>3. ToldOfSomething'
    BY <1>1, <1>6 DEF StreamInv, ToldOfSomething
  <2> QED
    BY <1>2, <1>3, <2>1, <2>2, <2>3 DEF StreamInv
<1>7. CASE mode' = "live" /\ CanBridge(from) /\ told' = [e \in Elements |-> Replayed(e)]
  <2>1. ASSUME NEW e \in Elements
        PROVE  /\ told'[e] \in [at : 0..MaxEvents, kind : {"upsert", "remove", "snapshot"}]
               /\ told'[e].at <= Len(log)
               /\ LastAt(e) <= told'[e].at \/ epoch # reloads
               /\ told'[e].kind # "snapshot" => Named(log, e, told'[e].kind, told'[e].at)
    <3>1. told'[e] = IF LastAt(e) > base + from
                     THEN [at |-> LastAt(e), kind |-> log[LastAt(e)].kind]
                     ELSE told[e]
      BY <1>7, ReplayedIsLast
    <3>2. CASE LastAt(e) > base + from
      <4>1. LastAt(e) \in 1..Len(log) /\ log[LastAt(e)].id = e
        BY <1>2, <1>4, <3>2 DEF IsLast
      <4>2. log[LastAt(e)].kind \in {"upsert", "remove"}
        <5>1. log[LastAt(e)] \in Event
          BY <1>4, <4>1
        <5>2. log[LastAt(e)].kind # "reconcile"
          BY <4>1, BufferAssumption DEF StreamInv, LogIsSound
        <5> QED
          BY <5>1, <5>2 DEF Event
      <4>3. told'[e] = [at |-> LastAt(e), kind |-> log[LastAt(e)].kind]
        BY <3>1, <3>2
      <4>4. Named(log, e, told'[e].kind, told'[e].at)
        BY <4>1, <4>3 DEF Named
      <4> QED
        BY <1>4, <4>1, <4>2, <4>3, <4>4, BufferAssumption
    <3>3. CASE ~ (LastAt(e) > base + from)
      <4>1. told'[e] = told[e]
        BY <3>1, <3>3
      <4>2. told[e].kind # "snapshot" => Named(log, e, told[e].kind, told[e].at)
        BY DEF StreamInv, ToldOfSomething, Named
      <4>3. LastAt(e) <= told[e].at \/ epoch # reloads
        BY <1>1, <1>2, <1>4, <3>3 DEF StreamInv, SnapshotIsWhole
      <4> QED
        BY <1>5, <4>1, <4>2, <4>3
    <3> QED
      BY <3>2, <3>3
  <2>2. TypeOK'
    BY <1>1, <1>7, <2>1 DEF StreamInv, TypeOK
  <2>3. PendingIsNews' /\ ToldIsPast' /\ SnapshotIsWhole' /\ LiveIsAttached'
    BY <1>1, <1>5, <1>7, <2>1 DEF PendingIsNews, ToldIsPast, SnapshotIsWhole, LiveIsAttached
  <2>4. NothingFallsThrough'
    BY <1>1, <1>2, <2>1, <2>2, BufferAssumption DEF NothingFallsThrough, Follows, TypeOK
  <2>5. ToldOfSomething'
    BY <1>1, <2>1 DEF ToldOfSomething, Named
  <2> QED
    BY <1>2, <1>3, <2>2, <2>3, <2>4, <2>5 DEF StreamInv
<1> QED
  BY <1>6, <1>7 DEF Subscribe

LEMMA ReopenInv == ASSUME StreamInv, Reopen PROVE StreamInv'
<1>1. /\ mode' = "load"
      /\ UNCHANGED <<revision, events, log, base, reloads, from, epoch, attached, pending, timer,
                     loose, told>>
  BY DEF Reopen, bufferVars
<1>2. /\ BufferInv' /\ Len(log) \in Nat
      /\ \A e \in Elements : LastAt(e)' = LastAt(e) /\ IsLast(log, e, LastAt(e))
  BY <1>1, QuietStep DEF Next
<1>3. TypeOK' /\ LogIsSound' /\ HandlesAreArmed' /\ PendingIsNews' /\ ToldIsPast'
  BY <1>1, <1>2 DEF StreamInv, TypeOK, LogIsSound, HandlesAreArmed, PendingIsNews, ToldIsPast
<1>4. SnapshotIsWhole' /\ LiveIsAttached' /\ NothingFallsThrough' /\ ToldOfSomething'
  BY <1>1 DEF StreamInv, SnapshotIsWhole, LiveIsAttached, NothingFallsThrough, ToldOfSomething
<1> QED
  BY <1>2, <1>3, <1>4 DEF StreamInv

-----------------------------------------------------------------------------
(* The callback *)

\* What the events that come later leave as it was.
LEMMA PublishKeepsStream ==
    ASSUME StreamInv, NEW kind \in {"upsert", "remove", "reconcile"},
           NEW id \in Elements \cup {All}, Publish(kind, id),
           kind = "reconcile" <=> id = All, UNCHANGED <<from, epoch, told>>
    PROVE  /\ BufferInv' /\ LogIsSound' /\ ToldIsPast' /\ ToldOfSomething'
           /\ \A e \in Elements : told[e].at \in Nat /\ told[e].at <= Len(log)
           /\ mode' = mode /\ attached' = attached /\ pending' = pending => SnapshotIsWhole'
<1>1. /\ log' \in Seq(Event) /\ Len(log) \in Nat
      /\ Len(log') = Len(log) + 1 /\ Len(log) < MaxEvents
      /\ \A i \in 1..Len(log) : log'[i] = log[i]
      /\ log'[Len(log) + 1].id = id /\ log'[Len(log) + 1].kind = kind
      /\ base' = base /\ reloads' = reloads
      /\ \A e \in Elements : IsLast(log', e, LastAt(e)')
  BY PublishedIsLast
<1>2. BufferInv'
  BY PublishKeeps DEF StreamInv
<1>3. LogIsSound'
  <2>1. ASSUME NEW i \in 1..Len(log') PROVE log'[i].kind = "reconcile" <=> log'[i].id = All
    <3>1. CASE i \in 1..Len(log)
      BY <1>1, <3>1 DEF StreamInv, LogIsSound
    <3>2. CASE i = Len(log) + 1
      BY <1>1, <3>2
    <3> QED
      BY <1>1, <3>1, <3>2
  <2> QED
    BY <1>1, <2>1, BufferAssumption DEF StreamInv, LogIsSound
<1>4. \A e \in Elements : told[e].at \in Nat /\ told[e].at <= Len(log)
  BY BufferAssumption DEF StreamInv, TypeOK, ToldIsPast
<1>6. ToldIsPast'
  BY <1>1, <1>4 DEF ToldIsPast
<1>7. ToldOfSomething'
  <2> SUFFICES ASSUME NEW e \in Elements, told[e].kind # "snapshot"
               PROVE  Named(log', e, told[e].kind, told[e].at)
    BY DEF ToldOfSomething, Named
  <2>1. Named(log, e, told[e].kind, told[e].at)
    BY DEF StreamInv, ToldOfSomething, Named
  <2>2. told[e].at \in 0..Len(log)
    BY <1>1, <1>4
  <2> QED
    BY <1>1, <2>1, <2>2, NamedStays
<1>8. mode' = mode /\ attached' = attached /\ pending' = pending => SnapshotIsWhole'
  BY <1>1 DEF StreamInv, SnapshotIsWhole
<1> QED
  BY <1>2, <1>3, <1>4, <1>6, <1>7, <1>8

LEMMA PublishElementInv ==
    ASSUME StreamInv, NEW e \in Elements, NEW kind \in {"upsert", "remove"},
           PublishElement(kind, e)
    PROVE  StreamInv'
<1>1. /\ Publish(kind, e) /\ e \in Elements \cup {All} /\ e # All
      /\ UNCHANGED <<mode, from, epoch, attached, loose, told>>
  BY BufferAssumption DEF PublishElement
<1>2. /\ Len(log) \in Nat /\ Len(log') = Len(log) + 1 /\ Len(log) < MaxEvents
      /\ \A i \in 1..Len(log) : log'[i] = log[i]
      /\ log'[Len(log) + 1].id = e /\ log'[Len(log) + 1].kind = kind
      /\ reloads' = reloads
      /\ \A x \in Elements : LastAt(x)' = IF x = e THEN Len(log) + 1 ELSE LastAt(x)
  BY <1>1, PublishedIsLast
<1>3. /\ BufferInv' /\ LogIsSound' /\ ToldIsPast' /\ ToldOfSomething'
      /\ \A x \in Elements : told[x].at \in Nat /\ told[x].at <= Len(log)
      /\ mode' = mode /\ attached' = attached /\ pending' = pending => SnapshotIsWhole'
  BY <1>1, PublishKeepsStream
<1>4. CASE ~ attached
  <2>1. pending' = pending /\ timer' = timer
    BY <1>4 DEF PublishElement
  <2>2. TypeOK' /\ HandlesAreArmed'
    BY <1>1, <1>2, <2>1, BufferAssumption DEF StreamInv, TypeOK, HandlesAreArmed
  <2>3. PendingIsNews'
    <3>1. ASSUME NEW x \in Elements, pending[x] # Nothing
          PROVE  /\ told[x].at < pending[x].at /\ pending[x].at <= Len(log')
                 /\ Named(log', x, pending[x].kind, pending[x].at)
      BY <1>2, <3>1, PendingStays, BufferAssumption
    <3> QED
      BY <1>1, <1>4, <2>1, <3>1 DEF PendingIsNews
  <2>4. SnapshotIsWhole' /\ LiveIsAttached' /\ NothingFallsThrough'
    BY <1>1, <1>2, <1>3, <1>4, <2>1 DEF StreamInv, LiveIsAttached, NothingFallsThrough
  <2> QED
    BY <1>3, <2>2, <2>3, <2>4 DEF StreamInv
<1>5. CASE attached
  <2>1. pending' = [pending EXCEPT ![e] = Coalesced(e, kind)] /\ timer' = [timer EXCEPT ![e] = TRUE]
    BY <1>5 DEF PublishElement
  <2>2. /\ Coalesced(e, kind) \in [at : 1..MaxEvents, kind : {"upsert", "remove"}]
        /\ Coalesced(e, kind).at = Len(log) + 1
        /\ Coalesced(e, kind) # Nothing
        /\ \/ Coalesced(e, kind).kind = kind
           \/ pending[e] # Nothing /\ Coalesced(e, kind).kind = pending[e].kind
    <3>1. CASE pending[e] = Nothing
      BY <1>2, <3>1, BufferAssumption DEF Coalesced, Nothing
    <3>2. CASE pending[e] # Nothing
      <4>1. pending[e] \in [at : 1..MaxEvents, kind : {"upsert", "remove"}]
        BY <3>2 DEF StreamInv, TypeOK
      <4> QED
        BY <1>2, <3>2, <4>1, BufferAssumption DEF Coalesced, Nothing
    <3> QED
      BY <3>1, <3>2
  <2>3. /\ pending'[e] = Coalesced(e, kind) /\ timer'[e] = TRUE
        /\ \A x \in Elements \ {e} : pending'[x] = pending[x] /\ timer'[x] = timer[x]
    BY <2>1 DEF StreamInv, TypeOK
  <2>4. TypeOK'
    BY <1>1, <2>1, <2>2 DEF StreamInv, TypeOK
  <2>5. HandlesAreArmed'
    BY <1>1, <1>2, <2>3, BufferAssumption DEF StreamInv, TypeOK, HandlesAreArmed
  <2>6. Named(log', e, Coalesced(e, kind).kind, Len(log) + 1)
    <3>1. CASE Coalesced(e, kind).kind = kind
      BY <1>2, <3>1 DEF Named
    <3>2. CASE pending[e] # Nothing /\ Coalesced(e, kind).kind = pending[e].kind
      <4>1. /\ Named(log', e, pending[e].kind, pending[e].at)
            /\ pending[e].at <= Len(log) /\ pending[e].at \in 1..MaxEvents
        BY <1>2, <3>2, PendingStays
      <4>2. \A j \in 1..pending[e].at : j \in 1..Len(log) + 1
        BY <1>2, <4>1, BufferAssumption
      <4> QED
        BY <3>2, <4>1, <4>2 DEF Named
    <3> QED
      BY <2>2, <3>1, <3>2
  <2>7. PendingIsNews'
    <3>1. ASSUME NEW x \in Elements \ {e}, pending[x] # Nothing
          PROVE  /\ told[x].at < pending[x].at /\ pending[x].at <= Len(log')
                 /\ Named(log', x, pending[x].kind, pending[x].at)
                 /\ pending[x].at = LastAt(x)
      BY <1>2, <1>5, <3>1, PendingStays, BufferAssumption
    <3>2. /\ told[e].at < Len(log) + 1
          /\ Coalesced(e, kind).at = LastAt(e)' /\ Coalesced(e, kind).at <= Len(log')
      BY <1>2, <1>3, <2>2
    <3> QED
      BY <1>1, <1>2, <2>2, <2>3, <2>6, <3>1, <3>2 DEF PendingIsNews
  <2>8. mode # "loaded"
    BY <1>5 DEF StreamInv, SnapshotIsWhole
  <2>9. SnapshotIsWhole' /\ LiveIsAttached'
    BY <1>1, <1>5, <2>8 DEF SnapshotIsWhole, LiveIsAttached
  <2>10. NothingFallsThrough'
    <3> SUFFICES ASSUME mode = "live", epoch = reloads, NEW x \in Elements
                 PROVE  Follows(x)'
      BY <1>1, <1>2 DEF NothingFallsThrough
    <3>1. CASE x = e
      BY <1>2, <2>2, <2>3, <3>1 DEF Follows
    <3>2. CASE x # e
      BY <1>1, <1>2, <1>5, <2>3, <3>2 DEF Follows, StreamInv, NothingFallsThrough
    <3> QED
      BY <3>1, <3>2
  <2> QED
    BY <1>3, <2>4, <2>5, <2>7, <2>9, <2>10 DEF StreamInv
<1> QED
  BY <1>4, <1>5

LEMMA PublishReconcileInv == ASSUME StreamInv, PublishReconcile PROVE StreamInv'
<1>1. Publish("reconcile", All) /\ UNCHANGED <<from, epoch, attached, told>>
  BY DEF PublishReconcile
<1>2. /\ Len(log) \in Nat /\ Len(log') = Len(log) + 1 /\ Len(log) < MaxEvents
      /\ \A i \in 1..Len(log) : log'[i] = log[i]
      /\ reloads' = reloads
      /\ \A x \in Elements : LastAt(x)' = LastAt(x)
  BY <1>1, PublishedIsLast, BufferAssumption
<1>3. /\ BufferInv' /\ LogIsSound' /\ ToldIsPast' /\ ToldOfSomething'
      /\ mode' = mode /\ attached' = attached /\ pending' = pending => SnapshotIsWhole'
  BY <1>1, PublishKeepsStream
<1>4. CASE ~ attached
  <2>1. mode' = mode /\ pending' = pending /\ timer' = timer /\ loose' = loose
    BY <1>4 DEF PublishReconcile
  <2>2. TypeOK' /\ HandlesAreArmed'
    BY <1>1, <1>2, <2>1, BufferAssumption DEF StreamInv, TypeOK, HandlesAreArmed
  <2>3. PendingIsNews'
    <3>1. ASSUME NEW x \in Elements, pending[x] # Nothing
          PROVE  /\ told[x].at < pending[x].at /\ pending[x].at <= Len(log')
                 /\ Named(log', x, pending[x].kind, pending[x].at)
      BY <1>2, <3>1, PendingStays, BufferAssumption
    <3> QED
      BY <1>1, <1>4, <2>1, <3>1 DEF PendingIsNews
  <2>4. SnapshotIsWhole' /\ LiveIsAttached' /\ NothingFallsThrough'
    BY <1>1, <1>2, <1>3, <1>4, <2>1 DEF StreamInv, LiveIsAttached, NothingFallsThrough
  <2> QED
    BY <1>3, <2>2, <2>3, <2>4 DEF StreamInv
<1>5. CASE attached
  <2>1. /\ ForgetPending /\ mode' \in {"load", "loaded"} /\ mode' \in {mode, "load"}
        /\ mode # "loaded"
    BY <1>5 DEF PublishReconcile, StreamInv, TypeOK, SnapshotIsWhole
  <2>2. \A x \in Elements : pending'[x] = Nothing /\ ~ timer'[x]
    BY <2>1 DEF ForgetPending
  <2>3. \A x \in Elements :
            /\ loose'[x] \in Nat /\ loose'[x] <= Len(log)
    BY <1>2, <2>1, BufferAssumption
    DEF ForgetPending, StreamInv, TypeOK, HandlesAreArmed
  <2>4. TypeOK'
    <3>1. loose' \in [Elements -> 0..MaxEvents] /\ timer' \in [Elements -> BOOLEAN]
      BY <1>2, <2>1, <2>3, BufferAssumption DEF ForgetPending
    <3>2. pending' \in [Elements -> [at : 1..MaxEvents, kind : {"upsert", "remove"}]
                                        \cup {Nothing}]
      BY <2>1 DEF ForgetPending
    <3> QED
      BY <1>1, <2>1, <3>1, <3>2 DEF StreamInv, TypeOK
  <2>5. HandlesAreArmed' /\ PendingIsNews'
    BY <1>2, <2>2, <2>3 DEF HandlesAreArmed, PendingIsNews
  <2>6. SnapshotIsWhole' /\ LiveIsAttached' /\ NothingFallsThrough'
    BY <2>1 DEF SnapshotIsWhole, LiveIsAttached, NothingFallsThrough
  <2> QED
    BY <1>3, <2>4, <2>5, <2>6 DEF StreamInv
<1> QED
  BY <1>4, <1>5

-----------------------------------------------------------------------------
(* Timers and reloads *)

\* A panel that is live is told of the latest there is of an element; others
\* are told nothing.
LEMMA FlushInv ==
    ASSUME StreamInv, NEW e \in Elements, FireTimer(e) \/ FireLoose(e)
    PROVE  StreamInv'
<1>1. /\ UNCHANGED <<revision, events, log, base, reloads, mode, from, epoch, attached>>
      /\ pending' = [pending EXCEPT ![e] = Nothing]
      /\ timer' = [timer EXCEPT ![e] = FALSE]
      /\ told' = IF mode = "live" /\ pending[e] # Nothing
                 THEN [told EXCEPT ![e] = pending[e]] ELSE told
  BY DEF FireTimer, FireLoose, Flush, bufferVars
<1>2. /\ BufferInv' /\ Len(log) \in Nat
      /\ \A x \in Elements : LastAt(x)' = LastAt(x) /\ IsLast(log, x, LastAt(x))
  BY <1>1, QuietStep DEF Next
<1>3. LogIsSound'
  BY <1>1, <1>2 DEF StreamInv, LogIsSound
<1>4. /\ loose' \in [Elements -> 0..MaxEvents]
      /\ \A x \in Elements : loose'[x] <= loose[x]
  <2>1. CASE loose' = loose
    BY <2>1, BufferAssumption DEF StreamInv, TypeOK
  <2>2. CASE loose[e] > 0 /\ loose' = [loose EXCEPT ![e] = loose[e] - 1]
    BY <2>2, BufferAssumption DEF StreamInv, TypeOK
  <2>3. loose' = loose \/ (loose[e] > 0 /\ loose' = [loose EXCEPT ![e] = loose[e] - 1])
    <3>1. CASE FireTimer(e)
      BY <3>1 DEF FireTimer
    <3>2. CASE FireLoose(e)
      BY <3>2 DEF FireLoose, StreamInv, TypeOK
    <3> QED
      BY <3>1, <3>2
  <2> QED
    BY <2>1, <2>2, <2>3
<1>5. /\ pending'[e] = Nothing /\ ~ timer'[e]
      /\ \A x \in Elements \ {e} : pending'[x] = pending[x] /\ timer'[x] = timer[x]
      /\ \A x \in Elements \ {e} : told'[x] = told[x]
      /\ told'[e] = IF mode = "live" /\ pending[e] # Nothing THEN pending[e] ELSE told[e]
  BY <1>1 DEF StreamInv, TypeOK
<1>6. /\ pending[e] # Nothing =>
             /\ pending[e] \in [at : 1..MaxEvents, kind : {"upsert", "remove"}]
             /\ pending[e].at <= Len(log) /\ Named(log, e, pending[e].kind, pending[e].at)
             /\ attached => pending[e].at = LastAt(e)
  BY DEF StreamInv, TypeOK, PendingIsNews
<1>7. TypeOK'
  <2>1. told' \in [Elements -> [at : 0..MaxEvents, kind : {"upsert", "remove", "snapshot"}]]
    BY <1>1, <1>6, BufferAssumption DEF StreamInv, TypeOK
  <2>2. timer' \in [Elements -> BOOLEAN]
    BY <1>1 DEF StreamInv, TypeOK
  <2>3. pending' \in [Elements -> [at : 1..MaxEvents, kind : {"upsert", "remove"}] \cup {Nothing}]
    BY <1>1 DEF StreamInv, TypeOK
  <2> QED
    BY <1>1, <1>4, <2>1, <2>2, <2>3 DEF StreamInv, TypeOK
<1>8. HandlesAreArmed'
  <2> SUFFICES ASSUME NEW x \in Elements
               PROVE  loose'[x] <= Len(log) /\ (timer'[x] => loose'[x] < Len(log))
    BY <1>1 DEF HandlesAreArmed
  <2>1. /\ loose'[x] \in Nat /\ loose[x] \in Nat /\ loose'[x] <= loose[x]
        /\ loose[x] <= Len(log) /\ (timer[x] => loose[x] < Len(log))
    BY <1>4, BufferAssumption DEF StreamInv, TypeOK, HandlesAreArmed
  <2>2. timer'[x] => timer[x]
    BY <1>5
  <2> QED
    BY <1>2, <2>1, <2>2
<1>9. PendingIsNews' /\ ToldIsPast'
  BY <1>1, <1>2, <1>5, <1>6 DEF StreamInv, PendingIsNews, ToldIsPast
<1>10. SnapshotIsWhole' /\ LiveIsAttached'
  BY <1>1, <1>5 DEF StreamInv, SnapshotIsWhole, LiveIsAttached
<1>11. NothingFallsThrough'
  <2> SUFFICES ASSUME mode = "live", attached, epoch = reloads, NEW x \in Elements
               PROVE  Follows(x)'
    BY <1>1 DEF NothingFallsThrough
  <2>1. Follows(x)
    BY DEF StreamInv, NothingFallsThrough
  <2>2. CASE x # e
    BY <1>2, <1>5, <2>1, <2>2 DEF Follows
  <2>3. CASE x = e /\ pending[e] # Nothing
    BY <1>2, <1>5, <1>6, <2>3, BufferAssumption DEF Follows
  <2>4. CASE x = e /\ pending[e] = Nothing
    <3>1. pending'[e] = pending[e] /\ told'[e] = told[e] /\ LastAt(e)' = LastAt(e)
      BY <1>2, <1>5, <2>4
    <3> QED
      BY <2>1, <2>4, <3>1 DEF Follows
  <2> QED
    BY <2>2, <2>3, <2>4
<1>12. ToldOfSomething'
  BY <1>1, <1>5, <1>6 DEF StreamInv, ToldOfSomething, Named
<1> QED
  BY <1>2, <1>3, <1>7, <1>8, <1>9, <1>10, <1>11, <1>12 DEF StreamInv

\* The panel is left with a snapshot of numbers that count no longer.
LEMMA ReloadInv == ASSUME StreamInv, Reload PROVE StreamInv'
<1>1. /\ UNCHANGED <<log, mode, from, epoch, pending, timer, loose, told>>
      /\ attached' = FALSE /\ reloads' = reloads + 1 /\ reloads < MaxReloads /\ base' = Len(log)
  BY DEF Reload, NewBuffer
<1>2. /\ BufferInv' /\ Len(log) \in Nat
      /\ \A e \in Elements : LastAt(e)' = LastAt(e) /\ IsLast(log, e, LastAt(e))
  BY <1>1, QuietStep DEF Next
<1>3. epoch \in Nat /\ reloads \in Nat /\ epoch <= reloads /\ epoch # reloads'
  BY <1>1, BufferAssumption DEF StreamInv, LogIsSound, TypeOK, BufferInv, BufferTypeOK
<1>4. LogIsSound'
  BY <1>1, <1>2, <1>3, BufferAssumption DEF StreamInv, LogIsSound
<1>5. TypeOK' /\ HandlesAreArmed' /\ PendingIsNews' /\ ToldIsPast'
  BY <1>1 DEF StreamInv, TypeOK, HandlesAreArmed, PendingIsNews, ToldIsPast
<1>6. SnapshotIsWhole' /\ LiveIsAttached' /\ NothingFallsThrough' /\ ToldOfSomething'
  BY <1>1, <1>3
  DEF StreamInv, SnapshotIsWhole, LiveIsAttached, NothingFallsThrough, ToldOfSomething, ToldIsPast
<1> QED
  BY <1>2, <1>4, <1>5, <1>6 DEF StreamInv

LEMMA StreamNextInv == StreamInv /\ [Next]_vars => StreamInv'
<1> SUFFICES ASSUME StreamInv, [Next]_vars PROVE StreamInv'
  OBVIOUS
<1>1. CASE LoadSnapshot \/ Subscribe \/ Reopen
  BY <1>1, LoadSnapshotInv, SubscribeInv, ReopenInv
<1>2. CASE \E e \in Elements : PublishElement("upsert", e) \/ PublishElement("remove", e)
  BY <1>2, PublishElementInv
<1>3. CASE PublishReconcile \/ Reload
  BY <1>3, PublishReconcileInv, ReloadInv
<1>4. CASE \E e \in Elements : FireTimer(e) \/ FireLoose(e)
  BY <1>4, FlushInv
<1>5. CASE UNCHANGED vars
  <2>1. UNCHANGED <<revision, events, log, base, reloads, mode, from, epoch, attached, pending,
                    timer, loose, told>>
    BY <1>5 DEF vars, bufferVars, streamVars
  <2>2. BufferInv' /\ \A e \in Elements : LastAt(e)' = LastAt(e) /\ IsLast(log, e, LastAt(e))
    BY <2>1, QuietStep
  <2> QED
    BY <2>1, <2>2
    DEF StreamInv, TypeOK, LogIsSound, HandlesAreArmed, PendingIsNews, ToldIsPast, SnapshotIsWhole,
        LiveIsAttached, NothingFallsThrough, Follows, ToldOfSomething
<1> QED
  BY <1>1, <1>2, <1>3, <1>4, <1>5 DEF Next

-----------------------------------------------------------------------------
(* What is proved of the stream *)

THEOREM StreamInvariant == Spec => []StreamInv
  BY StreamInitInv, StreamNextInv, PTL DEF Spec

\* contracts/websocket-api.md: a live panel has heard the last change of every
\* element, or the change waits with its latest revision, whatever was
\* published, replayed, coalesced or reloaded in between.
THEOREM NothingIsLost == Spec => []StreamIsSound
<1>1. StreamInv => StreamIsSound
  BY DEF StreamInv, StreamIsSound
<1> QED
  BY <1>1, StreamInvariant, PTL

\* The buffer under the stream is the buffer of ChangeBuffer, so what it
\* bridges it bridges exactly under any panel.
THEOREM StreamBridges == Spec => []BridgeIsExact
<1>1. StreamInv => BridgeIsExact
  BY BufferBridges DEF StreamInv
<1> QED
  BY <1>1, StreamInvariant, PTL

-----------------------------------------------------------------------------
(* The stream implements the feed, step by step *)

LEMMA FeedLast == \A e : Feed!Last(e) = LastAt(e)
  BY DEF Feed!Last, LastAt

LEMMA FeedInit == Init => Feed!Init
<1> SUFFICES ASSUME Init PROVE Feed!Init
  OBVIOUS
<1>1. log = <<>> /\ epoch = reloads
  BY DEF Init, BufferInit
<1>2. [e \in Elements |-> told[e].at] = [e \in Elements |-> 0]
  BY DEF Init, Untold
<1> QED
  BY <1>1, <1>2 DEF Feed!Init

\* A publication is a change of the feed, whatever becomes of it.
LEMMA PublishChanges ==
    ASSUME StreamInv, NEW kind \in {"upsert", "remove", "reconcile"},
           NEW id \in Elements \cup {All}, Publish(kind, id), UNCHANGED <<epoch, told>>
    PROVE  Feed!Change
<1>1. /\ Len(log') = Len(log) + 1 /\ reloads' = reloads
      /\ log'[Len(log) + 1].id = id /\ log'[Len(log) + 1].kind = kind
      /\ log' = Append(log, log'[Len(log) + 1])
  BY PublishedIsLast
<1>2. UNCHANGED <<[e \in Elements |-> told[e].at], epoch # reloads>>
  BY <1>1
<1> QED
  BY <1>1, <1>2 DEF Feed!Change, Feed!Kinds

\* What the replay tells catches up, or, after a reload, drifts: it never goes
\* back.
LEMMA SubscribeCatchesUp ==
    ASSUME StreamInv, Subscribe
    PROVE  Feed!CatchUp \/ Feed!Drift \/ UNCHANGED Feed!vars
<1>1. /\ mode = "loaded"
      /\ UNCHANGED <<log, base, reloads, epoch>>
      /\ \/ told' = told
         \/ CanBridge(from) /\ told' = [e \in Elements |-> Replayed(e)]
  BY DEF Subscribe, bufferVars
<1>2. /\ \A e \in Elements : LastAt(e) \in 0..Len(log)
      /\ Len(log) \in Nat /\ base \in Nat /\ from \in Nat
      /\ \A e \in Elements : told[e].at \in Nat /\ told[e].at <= Len(log)
      /\ \A e \in Elements : IF epoch = reloads THEN told[e].at = base + from
                                                ELSE told[e].at <= base
  BY <1>1, BufferAssumption
  DEF StreamInv, LogIsSound, IsLast, BufferInv, BufferTypeOK, TypeOK, ToldIsPast, SnapshotIsWhole
<1>3. CASE told' = told
  <2>1. [e \in Elements |-> told[e].at]' = [e \in Elements |-> told[e].at]
    BY <1>3
  <2> QED
    BY <1>1, <2>1 DEF Feed!vars
<1>4. CASE CanBridge(from) /\ told' = [e \in Elements |-> Replayed(e)]
  <2>1. \A e \in Elements :
            told'[e].at = IF LastAt(e) > base + from THEN LastAt(e) ELSE told[e].at
    BY <1>4, ReplayedIsLast
  <2>2. CASE epoch = reloads
    <3>1. \A e \in Elements : told'[e].at = IF told[e].at < LastAt(e) THEN LastAt(e) ELSE told[e].at
      BY <1>2, <2>1, <2>2
    <3>2. [e \in Elements |-> told[e].at]' =
              [e \in Elements |-> IF Feed!Behind(e) THEN Feed!Last(e)
                                  ELSE [x \in Elements |-> told[x].at][e]]
      BY <3>1, FeedLast DEF Feed!Behind
    <3> QED
      BY <1>1, <2>2, <3>2 DEF Feed!CatchUp
  <2>3. CASE epoch # reloads
    <3>1. \A e \in Elements : told'[e].at \in 0..Len(log) /\ told[e].at <= told'[e].at
      BY <1>2, <2>1, <2>3
    <3>2. [e \in Elements |-> told[e].at]' \in [Elements -> 0..Len(log)]
      BY <3>1
    <3> QED
      BY <1>1, <2>3, <3>1, <3>2 DEF Feed!Drift
  <2> QED
    BY <2>2, <2>3
<1> QED
  BY <1>1, <1>3, <1>4

\* What waits is told when its timer fires: of the running coordinator, all
\* there is to say of the element.
LEMMA FlushTells ==
    ASSUME StreamInv, NEW e \in Elements, FireTimer(e) \/ FireLoose(e)
    PROVE  Feed!Tell(e) \/ Feed!Drift \/ UNCHANGED Feed!vars
<1>1. /\ UNCHANGED <<log, reloads, epoch>>
      /\ told' = IF mode = "live" /\ pending[e] # Nothing
                 THEN [told EXCEPT ![e] = pending[e]] ELSE told
  BY DEF FireTimer, FireLoose, Flush, bufferVars
<1>2. CASE ~ (mode = "live" /\ pending[e] # Nothing)
  <2>1. [x \in Elements |-> told[x].at]' = [x \in Elements |-> told[x].at]
    BY <1>1, <1>2
  <2> QED
    BY <1>1, <2>1 DEF Feed!vars
<1>3. CASE mode = "live" /\ pending[e] # Nothing
  <2>1. /\ told[e].at < pending[e].at /\ pending[e].at <= Len(log)
        /\ pending[e].at \in 1..MaxEvents /\ Len(log) \in Nat
        /\ attached => pending[e].at = LastAt(e)
        /\ \A x \in Elements : told[x].at \in Nat /\ told[x].at <= Len(log)
    BY <1>3, BufferAssumption
    DEF StreamInv, PendingIsNews, TypeOK, BufferInv, BufferTypeOK, ToldIsPast
  <2>2. [x \in Elements |-> told[x].at]' =
            [[x \in Elements |-> told[x].at] EXCEPT ![e] = pending[e].at]
    BY <1>1, <1>3 DEF StreamInv, TypeOK
  <2>3. CASE epoch = reloads
    <3>1. pending[e].at = LastAt(e)
      BY <1>3, <2>1, <2>3 DEF StreamInv, LiveIsAttached
    <3>2. Feed!Behind(e)
      BY <2>1, <3>1, FeedLast DEF Feed!Behind
    <3> QED
      BY <1>1, <2>2, <2>3, <3>1, <3>2, FeedLast DEF Feed!Tell
  <2>4. CASE epoch # reloads
    <3>1. \A x \in Elements : told'[x].at = IF x = e THEN pending[e].at ELSE told[x].at
      BY <1>1, <1>3 DEF StreamInv, TypeOK
    <3>2. \A x \in Elements : told'[x].at \in 0..Len(log) /\ told[x].at <= told'[x].at
      BY <2>1, <3>1, BufferAssumption
    <3>3. [x \in Elements |-> told[x].at]' \in [Elements -> 0..Len(log)]
      BY <3>2
    <3> QED
      BY <1>1, <2>4, <3>2, <3>3 DEF Feed!Drift
  <2> QED
    BY <2>3, <2>4
<1> QED
  BY <1>2, <1>3

LEMMA FeedStep == StreamInv /\ [Next]_vars => [Feed!Next]_(Feed!vars)
<1> SUFFICES ASSUME StreamInv, [Next]_vars PROVE Feed!Next \/ UNCHANGED Feed!vars
  OBVIOUS
<1>1. CASE LoadSnapshot
  <2>1. /\ log' = log /\ reloads' = reloads /\ epoch' = reloads
        /\ told' = [e \in Elements |-> [at |-> Len(log), kind |-> "snapshot"]]
    BY <1>1 DEF LoadSnapshot, bufferVars
  <2>2. [e \in Elements |-> told[e].at]' = [e \in Elements |-> Len(log)]
    BY <2>1
  <2> QED
    BY <2>1, <2>2 DEF Feed!Next, Feed!Refresh
<1>2. CASE Subscribe
  BY <1>2, SubscribeCatchesUp DEF Feed!Next
<1>3. CASE Reopen \/ UNCHANGED vars
  <2>1. UNCHANGED <<log, reloads, epoch, told>>
    BY <1>3 DEF Reopen, vars, bufferVars, streamVars
  <2> QED
    BY <2>1 DEF Feed!vars
<1>4. CASE \E e \in Elements : PublishElement("upsert", e) \/ PublishElement("remove", e)
  <2>1. PICK e \in Elements : PublishElement("upsert", e) \/ PublishElement("remove", e)
    BY <1>4
  <2>2. UNCHANGED <<epoch, told>> /\ (Publish("upsert", e) \/ Publish("remove", e))
    BY <2>1 DEF PublishElement
  <2> QED
    BY <2>2, PublishChanges DEF Feed!Next
<1>5. CASE PublishReconcile
  BY <1>5, PublishChanges DEF PublishReconcile, Feed!Next
<1>6. CASE \E e \in Elements : FireTimer(e) \/ FireLoose(e)
  BY <1>6, FlushTells DEF Feed!Next
<1>7. CASE Reload
  <2>1. UNCHANGED <<log, epoch, told>> /\ reloads' = reloads + 1
    BY <1>7 DEF Reload, NewBuffer
  <2>2. epoch # reloads'
    BY <2>1, BufferAssumption DEF StreamInv, TypeOK, LogIsSound, BufferInv, BufferTypeOK
  <2> QED
    BY <2>1, <2>2 DEF Feed!Next, Feed!Reload
<1> QED
  BY <1>1, <1>2, <1>3, <1>4, <1>5, <1>6, <1>7 DEF Next

\* What the panel hears through the snapshot, the replay and the windows is the
\* last there is of an element, never an older one and never twice: every
\* behaviour of the stream is one of the feed.
THEOREM StreamImplementsFeed == Spec => Feed!Init /\ [][Feed!Next]_(Feed!vars)
  BY FeedInit, FeedStep, StreamInvariant, PTL DEF Spec

-----------------------------------------------------------------------------
(* The panel *)

ALoad == [kind : {"view", "reconnect", "silent", "none"}, stage : Stages, rev : 0..MaxChanges,
          view : View, next : 0..MaxChanges + 1]

AnAsk == [kind : {"detail", "expand", "refresh"}, id : Nodes,
          stage : {"asked", "answered", "failed"}, view : View]

AnEvent == {e \in [kind : {"upsert", "remove", "reconcile"}, id : Nodes \cup {NoOne}] :
               e.kind # "reconcile" => e.id \in Nodes}

\* What the loads, requests and events are, and that a timer that is stored will
\* fire.
PanelTyped ==
    /\ PanelTypeOK
    /\ loads \in Seq(ALoad)
    /\ asks \in [1..MaxAsks -> AnAsk \cup {NoAsk}]
    /\ published \in Seq(AnEvent) /\ Len(published) <= MaxChanges
    /\ stored => timers > 0

PanelInv == PanelTyped /\ StreamFollowsGraph /\ DisconnectionIsVisible

-----------------------------------------------------------------------------
\* What writing a position of a sequence does.
LEMMA SetPosition ==
    ASSUME NEW S, NEW q \in Seq(S), NEW i \in 1..Len(q), NEW r \in S
    PROVE  /\ [q EXCEPT ![i] = r] \in Seq(S)
           /\ Len([q EXCEPT ![i] = r]) = Len(q)
           /\ [q EXCEPT ![i] = r][i] = r
           /\ \A j \in 1..Len(q) : j # i => [q EXCEPT ![i] = r][j] = q[j]
  OBVIOUS

\* Views stay views.
LEMMA ViewsMerge ==
    ASSUME NEW old \in View, NEW new \in View
    PROVE  Merge(old, new) \in View
  BY DEF Merge, View

LEMMA NoNodesIsAView == NoNodes \in View
  BY PanelAssumption DEF NoNodes, View, Absent

LEMMA NoAskIsNone == \A a \in AnAsk : a # NoAsk
  BY DEF AnAsk, NoAsk

\* Loads as the panel makes them.
LEMMA NewLoadsAreLoads ==
    /\ \A kind \in {"view", "reconnect", "silent", "none"} :
          NewLoad(kind) \in ALoad /\ NewLoad(kind).stage = "asked"
    /\ Over \in ALoad /\ Over.stage = "closed"
    /\ \A next \in 0..MaxChanges + 1 :
          /\ Load("none", "subscribing", next) \in ALoad
          /\ Load("none", "subscribing", next).stage = "subscribing"
          /\ Load("none", "subscribing", next).next = next
<1> USE NoNodesIsAView, PanelAssumption DEF ALoad, Stages, Load
<1>1. \A kind \in {"view", "reconnect", "silent", "none"} :
          NewLoad(kind) \in ALoad /\ NewLoad(kind).stage = "asked"
  BY DEF NewLoad
<1>2. Over \in ALoad /\ Over.stage = "closed"
  BY DEF Over
<1>3. \A next \in 0..MaxChanges + 1 :
          /\ Load("none", "subscribing", next) \in ALoad
          /\ Load("none", "subscribing", next).stage = "subscribing"
          /\ Load("none", "subscribing", next).next = next
  OBVIOUS
<1> QED
  BY <1>1, <1>2, <1>3

\* One load moves on, with its subscription to the stage and event given.
LEMMA LoadMovesOn ==
    ASSUME PanelTyped, NEW i \in 1..Len(loads), NEW r \in ALoad, loads' = [loads EXCEPT ![i] = r]
    PROVE  /\ loads' \in Seq(ALoad) /\ Len(loads) \in Nat /\ Len(loads') = Len(loads)
           /\ loads'[i] = r
           /\ \A j \in 1..Len(loads) : j # i => loads'[j] = loads[j]
  BY SetPosition DEF PanelTyped

-----------------------------------------------------------------------------
(* The types, once more, for what a step may change *)

LEMMA PanelTypedStep ==
    ASSUME PanelTyped, world' \in View, published' \in Seq(AnEvent), Len(published') <= MaxChanges,
           loads' \in Seq(ALoad), current' \in 0..Len(loads'), handle' \in 0..Len(loads'),
           timers' \in Nat, stored' \in BOOLEAN, stored' => timers' > 0, attempts' \in 0..MaxAttempts,
           indicator' \in {"none", "live", "stale", "reconnecting"},
           banner' \in {"none", "loading", "retry"}, heard' \in 0..MaxChanges,
           shown' \in View, snap' \in View, {detail', selected', details'} \subseteq Nodes \cup {NoOne},
           asks' \in [1..MaxAsks -> AnAsk \cup {NoAsk}]
    PROVE  PanelTyped'
<1>1. \A i \in 1..Len(loads') :
          loads'[i].stage \in Stages /\ loads'[i].next \in 0..MaxChanges + 1 /\ loads'[i].view \in View
  <2>1. \A i \in 1..Len(loads') : loads'[i] \in ALoad
    OBVIOUS
  <2> QED
    BY <2>1 DEF ALoad
<1> QED
  BY <1>1 DEF PanelTyped, PanelTypeOK

LEMMA InitPanel == PanelInit => PanelInv
<1> SUFFICES ASSUME PanelInit PROVE PanelInv
  OBVIOUS
<1> USE PanelAssumption DEF PanelInit
<1>1. loads \in Seq(ALoad) /\ Len(loads) = 1 /\ loads[1].stage = "asked"
  BY NewLoadsAreLoads
<1>2. \A i \in 1..Len(loads) :
          loads[i].stage \in Stages /\ loads[i].next \in 0..MaxChanges + 1 /\ loads[i].view \in View
  <2>1. \A i \in 1..Len(loads) : loads[i] \in ALoad
    BY <1>1
  <2> QED
    BY <2>1 DEF ALoad
<1>3. world \in View /\ shown \in View /\ snap \in View
  BY NoNodesIsAView DEF View, Absent
<1>4. PanelTypeOK
  <2>1. stored \in BOOLEAN
    OBVIOUS
  <2>2. current \in 0..Len(loads) /\ handle \in 0..Len(loads)
    BY <1>1
  <2>3. attempts \in 0..MaxAttempts /\ heard \in 0..MaxChanges /\ timers \in Nat
    OBVIOUS
  <2> QED
    BY <1>2, <1>3, <2>1, <2>2, <2>3 DEF PanelTypeOK
<1>5. published \in Seq(AnEvent) /\ Len(published) <= MaxChanges
  OBVIOUS
<1>6. PanelTyped
  BY <1>1, <1>4, <1>5 DEF PanelTyped
<1>7. StreamFollowsGraph /\ DisconnectionIsVisible
  BY <1>1 DEF StreamFollowsGraph, DisconnectionIsVisible, InFlight
<1> QED
  BY <1>6, <1>7 DEF PanelInv

\* A step that only concerns what is shown, or the ontology itself.
LEMMA LookKeeps ==
    ASSUME PanelInv, UNCHANGED <<loads, current, handle, timers, stored, attempts, indicator, left,
                                heard>>,
           world' \in View, published' \in Seq(AnEvent), Len(published') <= MaxChanges,
           banner' \in {banner, "retry"},
           shown' \in View, snap' \in View, {detail', selected', details'} \subseteq Nodes \cup {NoOne},
           asks' \in [1..MaxAsks -> AnAsk \cup {NoAsk}]
    PROVE  PanelInv'
<1>1. PanelTyped'
  BY PanelTypedStep DEF PanelInv, PanelTyped, PanelTypeOK
<1>2. StreamFollowsGraph' /\ DisconnectionIsVisible'
  BY DEF PanelInv, StreamFollowsGraph, DisconnectionIsVisible, Listening, InFlight
<1> QED
  BY <1>1, <1>2 DEF PanelInv

\* A step after which a load is under way, or the panel has left the page, and no
\* subscription is current.
LEMMA LoadingKeeps ==
    ASSUME PanelTyped', current' = 0,
           \/ left' = TRUE
           \/ \E i \in 1..Len(loads') : loads'[i].stage = "asked"
    PROVE  PanelInv'
  BY DEF PanelInv, StreamFollowsGraph, DisconnectionIsVisible, Listening, InFlight

-----------------------------------------------------------------------------
LEMMA OntologyKeeps == ASSUME PanelInv, Ontology PROVE PanelInv'
<1>1. ASSUME NEW kind \in {"upsert", "remove", "reconcile"}, NEW id \in Nodes \cup {NoOne},
             kind # "reconcile" => id \in Nodes, Changes(kind, id)
      PROVE  /\ published' \in Seq(AnEvent) /\ Len(published') <= MaxChanges
             /\ Len(published) + 1 \in Absent..MaxChanges
  <2>1. [kind |-> kind, id |-> id] \in AnEvent
    BY <1>1 DEF AnEvent
  <2> QED
    BY <1>1, <2>1, PanelAssumption DEF Changes, PanelInv, PanelTyped, Absent
<1>2. ASSUME NEW kind, NEW id, Changes(kind, id)
      PROVE  UNCHANGED <<loads, current, handle, timers, stored, attempts, indicator, banner, left,
                         heard, shown, snap, detail, selected, details, asks>>
  BY <1>2 DEF Changes, linkVars, viewVars
<1>3. Absent \in Absent..MaxChanges
  BY PanelAssumption DEF Absent
<1>4. ASSUME NEW n \in Nodes, Upserted(n) PROVE PanelInv'
  <2>1. world' \in View
    BY <1>1, <1>4 DEF Upserted, View, PanelInv, PanelTyped, PanelTypeOK
  <2> QED
    BY <1>1, <1>2, <1>4, <2>1, LookKeeps DEF Upserted, PanelInv, PanelTyped, PanelTypeOK
<1>5. ASSUME NEW n \in Nodes, Removed(n) PROVE PanelInv'
  <2>1. world' \in View
    BY <1>3, <1>5 DEF Removed, View, PanelInv, PanelTyped, PanelTypeOK
  <2> QED
    BY <1>1, <1>2, <1>5, <2>1, LookKeeps DEF Removed, PanelInv, PanelTyped, PanelTypeOK
<1>6. ASSUME NEW S \in SUBSET Nodes, Reconciled(S) PROVE PanelInv'
  <2>1. world' \in View
    BY <1>1, <1>3, <1>6 DEF Reconciled, View, PanelInv, PanelTyped, PanelTypeOK
  <2> QED
    BY <1>1, <1>2, <1>6, <2>1, LookKeeps DEF Reconciled, PanelInv, PanelTyped, PanelTypeOK
<1> QED
  BY <1>4, <1>5, <1>6 DEF Ontology

-----------------------------------------------------------------------------
(* Loads *)

LEMMA TimerIsCleared ==
    ASSUME PanelTyped, ClearTimer
    PROVE  timers' \in Nat /\ stored' \in BOOLEAN /\ (stored' => timers' > 0)
<1>1. timers' \in Nat
  BY DEF ClearTimer, PanelTyped, PanelTypeOK
<1>2. stored' = FALSE
  BY DEF ClearTimer
<1> QED
  BY <1>1, <1>2

LEMMA CancelledAreLoads ==
    ASSUME PanelTyped
    PROVE  Cancelled \in Seq(ALoad) /\ Len(Cancelled) = Len(loads) /\ Len(loads) \in Nat
<1>1. CASE handle = 0
  BY <1>1 DEF Cancelled, PanelTyped
<1>2. CASE handle # 0
  <2>1. handle \in 1..Len(loads)
    BY <1>2 DEF PanelTyped, PanelTypeOK
  <2> QED
    BY <1>2, <2>1, SetPosition, NewLoadsAreLoads DEF Cancelled, PanelTyped
<1> QED
  BY <1>1, <1>2

\* A load that closes the subscription: it is under way afterwards.
LEMMA BeginLoadKeeps ==
    ASSUME PanelInv, NEW kind \in {"view", "silent"}, BeginLoad(kind),
           UNCHANGED <<world, published, heard, shown, snap, detail, selected, details, asks>>,
           banner' \in {banner, "loading"}
    PROVE  PanelInv'
<1>1. NewLoad(kind) \in ALoad /\ NewLoad(kind).stage = "asked"
  BY NewLoadsAreLoads
<1>2. /\ loads' \in Seq(ALoad) /\ Len(loads') \in Nat /\ Len(loads') > 0
      /\ loads'[Len(loads')] = NewLoad(kind)
  BY <1>1, CancelledAreLoads DEF BeginLoad, PanelInv
<1>3. timers' \in Nat /\ stored' \in BOOLEAN /\ (stored' => timers' > 0)
  BY TimerIsCleared DEF BeginLoad, PanelInv
<1>4. PanelTyped'
  BY <1>2, <1>3, PanelTypedStep DEF BeginLoad, PanelInv, PanelTyped, PanelTypeOK
<1>5. \E i \in 1..Len(loads') : loads'[i].stage = "asked"
  BY <1>1, <1>2
<1> QED
  BY <1>4, <1>5, LoadingKeeps DEF BeginLoad

LEMMA RetryKeeps == ASSUME PanelInv, Retry PROVE PanelInv'
<1>1. BeginLoad("view") /\ banner' = "loading"
  BY DEF Retry
<1>2. UNCHANGED <<world, published, heard, shown, snap, detail, selected, details, asks>>
  BY DEF Retry, worldVars, viewVars
<1> QED
  BY <1>1, <1>2, BeginLoadKeeps

LEMMA ReconnectKeeps == ASSUME PanelInv, ReconnectNow PROVE PanelInv'
<1>1. /\ UNCHANGED <<world, published, current, handle, attempts, indicator, banner, left, heard,
                     shown, snap, detail, selected, details, asks>>
      /\ timers > 0 /\ timers' = timers - 1 /\ stored' = FALSE
      /\ loads' = Append(loads, NewLoad("reconnect"))
  BY DEF ReconnectNow, worldVars, viewVars
<1>2. NewLoad("reconnect") \in ALoad /\ NewLoad("reconnect").stage = "asked"
  BY NewLoadsAreLoads
<1>3. /\ loads' \in Seq(ALoad) /\ Len(loads) \in Nat /\ Len(loads') = Len(loads) + 1
      /\ \A i \in 1..Len(loads) : loads'[i] = loads[i]
      /\ loads'[Len(loads')] = NewLoad("reconnect")
  BY <1>1, <1>2 DEF PanelInv, PanelTyped
<1>4. PanelTyped'
  <2>1. timers' \in Nat
    BY <1>1 DEF PanelInv, PanelTyped, PanelTypeOK
  <2>2. stored' \in BOOLEAN /\ (stored' => timers' > 0)
    BY <1>1
  <2> QED
    BY <1>1, <1>3, <2>1, <2>2, PanelTypedStep DEF PanelInv, PanelTyped, PanelTypeOK
<1>5. StreamFollowsGraph'
  <2>1. current # 0 => current \in 1..Len(loads)
    BY DEF PanelInv, PanelTyped, PanelTypeOK
  <2> QED
    BY <1>1, <1>3, <2>1 DEF PanelInv, StreamFollowsGraph
<1>6. DisconnectionIsVisible'
  <2>1. InFlight'
    BY <1>2, <1>3 DEF InFlight
  <2> QED
    BY <2>1 DEF DisconnectionIsVisible
<1> QED
  BY <1>4, <1>5, <1>6 DEF PanelInv

\* A load whose subscription, if it has one that counts, is left alone.
LEMMA OtherLoadKeeps ==
    ASSUME PanelInv, NEW i \in 1..Len(loads), NEW r \in ALoad, loads' = [loads EXCEPT ![i] = r],
           PanelTyped', UNCHANGED <<current, heard, left>>,
           i = current => \/ r.stage \notin {"subscribing", "open", "kept"}
                          \/ r.next = heard + 1,
           \/ banner' # "none"
           \/ indicator' \in {"stale", "reconnecting"}
           \/ r.stage \in {"asked", "answered", "failed"}
           \/ r.stage \in {"subscribing", "open", "kept"} /\ i = current
           \/ /\ banner' = banner /\ indicator' = indicator
              /\ loads[i].stage \notin {"asked", "answered", "failed"}
              /\ i # current
    PROVE  PanelInv'
<1>1. /\ Len(loads) \in Nat /\ Len(loads') = Len(loads) /\ loads'[i] = r
      /\ \A j \in 1..Len(loads) : j # i => loads'[j] = loads[j]
  BY LoadMovesOn DEF PanelInv
<1>2. current # 0 => current \in 1..Len(loads)
  BY DEF PanelInv, PanelTyped, PanelTypeOK
<1>3. StreamFollowsGraph'
  BY <1>1, <1>2 DEF PanelInv, StreamFollowsGraph
<1>4. DisconnectionIsVisible'
  <2> SUFFICES ASSUME ~ left', ~ Listening', ~ InFlight'
               PROVE  banner' # "none" \/ indicator' \in {"stale", "reconnecting"}
    BY DEF DisconnectionIsVisible
  <2>1. r.stage \notin {"asked", "answered", "failed"}
    BY <1>1 DEF InFlight
  <2>2. ~ (r.stage \in {"subscribing", "open", "kept"} /\ i = current)
    BY <1>1, <1>2 DEF Listening
  <2>3. CASE /\ banner' = banner /\ indicator' = indicator
             /\ loads[i].stage \notin {"asked", "answered", "failed"}
             /\ i # current
    <3>1. ~ InFlight
      BY <1>1, <2>3 DEF InFlight
    <3>2. ~ Listening
      BY <1>1, <1>2, <2>3 DEF Listening
    <3> QED
      BY <2>3, <3>1, <3>2 DEF PanelInv, DisconnectionIsVisible
  <2> QED
    BY <2>1, <2>2, <2>3
<1> QED
  BY <1>3, <1>4 DEF PanelInv

\* The types of a step on one load.
LEMMA OneLoadTyped ==
    ASSUME PanelInv, NEW i \in 1..Len(loads), NEW r \in ALoad, loads' = [loads EXCEPT ![i] = r],
           UNCHANGED <<world, published>>,
           current' \in {current, i}, handle' \in {handle, i},
           timers' \in Nat, stored' \in BOOLEAN, stored' => timers' > 0, attempts' \in 0..MaxAttempts,
           indicator' \in {"none", "live", "stale", "reconnecting"},
           banner' \in {"none", "loading", "retry"}, heard' \in 0..MaxChanges,
           shown' \in View, snap' \in View, {detail', selected', details'} \subseteq Nodes \cup {NoOne},
           asks' \in [1..MaxAsks -> AnAsk \cup {NoAsk}]
    PROVE  PanelTyped'
<1>1. loads' \in Seq(ALoad) /\ Len(loads) \in Nat /\ Len(loads') = Len(loads)
  BY LoadMovesOn DEF PanelInv
<1>2. current' \in 0..Len(loads') /\ handle' \in 0..Len(loads')
  <2>1. current \in 0..Len(loads) /\ handle \in 0..Len(loads)
    BY DEF PanelInv, PanelTyped, PanelTypeOK
  <2> QED
    BY <1>1, <2>1
<1> QED
  BY <1>1, <1>2, PanelTypedStep DEF PanelInv, PanelTyped, PanelTypeOK

LEMMA AnswerKeeps == ASSUME PanelInv, NEW i \in 1..Len(loads), SnapshotAnswered(i) PROVE PanelInv'
<1>1. /\ loads[i] \in ALoad /\ loads[i].stage = "asked"
      /\ UNCHANGED <<world, published, current, handle, timers, stored, attempts, indicator, banner,
                     left, heard, shown, snap, detail, selected, details, asks>>
      /\ Len(published) \in 0..MaxChanges /\ world \in View
  <2>1. loads \in Seq(ALoad) /\ published \in Seq(AnEvent) /\ Len(published) <= MaxChanges /\ world \in View
    BY DEF PanelInv, PanelTyped, PanelTypeOK
  <2>2. loads[i] \in ALoad /\ Len(published) \in 0..MaxChanges
    BY <2>1, PanelAssumption
  <2> QED
    BY <2>1, <2>2 DEF SnapshotAnswered, viewVars
<1>2. PICK r \in ALoad : loads' = [loads EXCEPT ![i] = r] /\ r.stage \in {"answered", "failed"}
  <2>1. CASE loads' = [loads EXCEPT ![i].stage = "answered", ![i].rev = Len(published), ![i].view = world]
    <3> DEFINE r1 == [loads[i] EXCEPT !.stage = "answered"]
               r2 == [r1 EXCEPT !.rev = Len(published)]
               r == [r2 EXCEPT !.view = world]
    <3>1. r1 \in ALoad /\ r1.stage = "answered"
      BY <1>1 DEF ALoad, Stages
    <3> HIDE DEF r1
    <3>2. r2 \in ALoad /\ r2.stage = "answered"
      BY <1>1, <3>1 DEF ALoad
    <3> HIDE DEF r2
    <3>3. r \in ALoad /\ r.stage = "answered"
      BY <1>1, <3>2 DEF ALoad
    <3>4. loads' = [loads EXCEPT ![i] = r]
      BY <2>1 DEF r1, r2, PanelInv, PanelTyped
    <3> QED
      BY <3>3, <3>4
  <2>2. CASE loads' = [loads EXCEPT ![i].stage = "failed"]
    <3> DEFINE r == [loads[i] EXCEPT !.stage = "failed"]
    <3>1. r \in ALoad /\ r.stage = "failed"
      BY <1>1 DEF ALoad, Stages
    <3>2. loads' = [loads EXCEPT ![i] = r]
      BY <2>2
    <3> QED
      BY <3>1, <3>2
  <2> QED
    BY <2>1, <2>2 DEF SnapshotAnswered
<1>3. PanelTyped'
  BY <1>1, <1>2, OneLoadTyped DEF PanelInv, PanelTyped, PanelTypeOK
<1> QED
  BY <1>1, <1>2, <1>3, OtherLoadKeeps

\* The panel has nothing to show, or what it has is not fresh, and says so.
LEMMA EmptyKeeps ==
    ASSUME PanelInv, NEW i \in 1..Len(loads), EmptySnapshot(i) \/ FailLoad(i)
    PROVE  PanelInv'
<1>1. /\ loads' = [loads EXCEPT ![i] = Over]
      /\ UNCHANGED <<world, published, current, handle, timers, stored, attempts, indicator,
                     left, heard, shown, detail, selected, details, asks>>
      /\ banner' = "retry" /\ snap' \in View
  BY NoNodesIsAView
  DEF EmptySnapshot, FailLoad, worldVars, viewVars, PanelInv, PanelTyped, PanelTypeOK
<1>2. Over \in ALoad /\ Over.stage = "closed"
  BY NewLoadsAreLoads
<1>3. PanelTyped'
  BY <1>1, <1>2, OneLoadTyped DEF PanelInv, PanelTyped, PanelTypeOK
<1> QED
  BY <1>1, <1>2, <1>3, OtherLoadKeeps

\* From here the panel follows the subscription of this load.
LEMMA FinishKeeps == ASSUME PanelInv, NEW i \in 1..Len(loads), FinishLoad(i) PROVE PanelInv'
<1> DEFINE r == Load("none", "subscribing", loads[i].rev + 1)
<1>1. /\ loads' = [loads EXCEPT ![i] = r]
      /\ current' = i /\ indicator' = "live" /\ attempts' = 0
      /\ UNCHANGED <<world, published, handle, timers, stored, inPage, detail, details, asks>>
      /\ heard' = loads[i].rev /\ snap' = loads[i].view
      /\ banner' \in {banner, "none"}
      /\ shown' \in {loads[i].view, Merge(shown, loads[i].view)}
      /\ selected' \in {selected, NoOne}
  BY DEF FinishLoad, StartSubscription, ShowSnapshot, worldVars
<1>2. loads[i].rev \in 0..MaxChanges /\ loads[i].view \in View
  <2>1. loads[i] \in ALoad
    BY DEF PanelInv, PanelTyped
  <2> QED
    BY <2>1 DEF ALoad
<1>3. r \in ALoad /\ r.stage = "subscribing" /\ r.next = loads[i].rev + 1
  BY <1>2, PanelAssumption, NewLoadsAreLoads
<1>4. shown' \in View
  BY <1>1, <1>2, ViewsMerge DEF PanelInv, PanelTyped, PanelTypeOK
<1>5. /\ PanelTyped
      /\ detail' \in Nodes \cup {NoOne} /\ selected' \in Nodes \cup {NoOne}
      /\ details' \in Nodes \cup {NoOne} /\ banner' \in {"none", "loading", "retry"}
      /\ timers' \in Nat /\ stored' \in BOOLEAN /\ (stored' => timers' > 0)
      /\ attempts' \in 0..MaxAttempts
      /\ asks' \in [1..MaxAsks -> AnAsk \cup {NoAsk}]
  BY <1>1, PanelAssumption DEF PanelInv, PanelTyped, PanelTypeOK
<1> HIDE DEF r
<1>6. PanelTyped'
  BY <1>1, <1>2, <1>3, <1>4, <1>5, OneLoadTyped
<1>7. /\ Len(loads) \in Nat /\ loads'[i] = r
  BY <1>1, <1>3, LoadMovesOn DEF PanelInv
<1>8. StreamFollowsGraph' /\ Listening'
  BY <1>1, <1>3, <1>7 DEF StreamFollowsGraph, Listening
<1> QED
  BY <1>6, <1>8 DEF PanelInv, DisconnectionIsVisible

\* What scheduling a reconnect leaves: a timer, or a panel that says to be stale.
LEMMA ScheduleKeeps ==
    ASSUME PanelTyped, ScheduleReconnect
    PROVE  /\ timers' \in Nat /\ stored' \in BOOLEAN /\ (stored' => timers' > 0)
           /\ attempts' \in 0..MaxAttempts
           /\ indicator' \in {"stale", "reconnecting"}
<1>1. attempts \in Nat /\ MaxAttempts \in Nat /\ attempts <= MaxAttempts /\ timers \in Nat
      /\ stored \in BOOLEAN /\ (stored => timers > 0)
  BY PanelAssumption DEF PanelTyped, PanelTypeOK
<1>2. CASE attempts >= MaxAttempts
  <2>1. indicator' = "stale" /\ timers' = timers /\ stored' = stored /\ attempts' = attempts
    BY <1>2 DEF ScheduleReconnect
  <2> QED
    BY <1>1, <2>1
<1>3. CASE ~ (attempts >= MaxAttempts)
  <2>1. /\ indicator' = "reconnecting" /\ timers' = timers + 1 /\ stored' = TRUE
        /\ attempts' = attempts + 1
    BY <1>3 DEF ScheduleReconnect
  <2>2. timers' \in Nat /\ timers' > 0 /\ attempts' \in 0..MaxAttempts
    BY <1>1, <1>3, <2>1
  <2> QED
    BY <2>1, <2>2
<1> QED
  BY <1>2, <1>3

LEMMA FailReconnectKeeps ==
    ASSUME PanelInv, NEW i \in 1..Len(loads), FailReconnect(i) PROVE PanelInv'
<1>1. /\ loads' = [loads EXCEPT ![i] = Over] /\ ScheduleReconnect
      /\ UNCHANGED <<world, published, current, handle, banner, left, heard, shown, snap, detail,
                     selected, details, asks>>
  BY DEF FailReconnect, worldVars, viewVars
<1>2. Over \in ALoad /\ Over.stage = "closed"
  BY NewLoadsAreLoads
<1>3. /\ timers' \in Nat /\ stored' \in BOOLEAN /\ (stored' => timers' > 0)
      /\ attempts' \in 0..MaxAttempts
      /\ indicator' \in {"stale", "reconnecting"}
  BY <1>1, ScheduleKeeps DEF PanelInv
<1>4. PanelTyped'
  BY <1>1, <1>2, <1>3, OneLoadTyped DEF PanelInv, PanelTyped, PanelTypeOK
<1> QED
  BY <1>1, <1>2, <1>3, <1>4, OtherLoadKeeps

-----------------------------------------------------------------------------
(* The subscription *)

LEMMA OpensKeeps == ASSUME PanelInv, NEW i \in 1..Len(loads), SubscriptionOpens(i) PROVE PanelInv'
<1> DEFINE r == [loads[i] EXCEPT !.stage = "open"]
<1>1. /\ loads[i] \in ALoad /\ loads[i].stage = "subscribing"
      /\ UNCHANGED <<world, published, current, handle, timers, stored, attempts, indicator, banner,
                     left, heard, shown, snap, detail, selected, details, asks>>
      /\ loads' = [loads EXCEPT ![i] = r]
  BY DEF SubscriptionOpens, worldVars, viewVars, PanelInv, PanelTyped
<1>2. r \in ALoad /\ r.stage = "open" /\ r.next = loads[i].next
  BY <1>1 DEF ALoad, Stages
<1>3. i = current => loads[i].next = heard + 1
  BY <1>1 DEF PanelInv, StreamFollowsGraph
<1> HIDE DEF r
<1>4. PanelTyped'
  BY <1>1, <1>2, OneLoadTyped DEF PanelInv, PanelTyped, PanelTypeOK
<1> QED
  BY <1>1, <1>2, <1>3, <1>4, OtherLoadKeeps

LEMMA RefusedKeeps == ASSUME PanelInv, NEW i \in 1..Len(loads), SubscriptionFails(i) PROVE PanelInv'
<1>1. /\ loads' = [loads EXCEPT ![i] = Over] /\ loads[i].stage = "subscribing"
      /\ IF i = current THEN ScheduleReconnect ELSE UNCHANGED <<timers, stored, attempts, indicator>>
      /\ UNCHANGED <<world, published, current, handle, banner, left, heard, shown, snap, detail,
                     selected, details, asks>>
  BY DEF SubscriptionFails, viewVars
<1>2. Over \in ALoad /\ Over.stage = "closed"
  BY NewLoadsAreLoads
<1>3. /\ timers' \in Nat /\ stored' \in BOOLEAN /\ (stored' => timers' > 0)
      /\ attempts' \in 0..MaxAttempts
      /\ indicator' \in {"none", "live", "stale", "reconnecting"}
      /\ i = current => indicator' \in {"stale", "reconnecting"}
      /\ i # current => indicator' = indicator
  BY <1>1, ScheduleKeeps DEF PanelInv, PanelTyped, PanelTypeOK
<1>4. PanelTyped'
  BY <1>1, <1>2, <1>3, OneLoadTyped DEF PanelInv, PanelTyped, PanelTypeOK
<1> QED
  BY <1>1, <1>2, <1>3, <1>4, OtherLoadKeeps

LEMMA ConfirmedKeeps ==
    ASSUME PanelInv, NEW i \in 1..Len(loads), SubscriptionConfirmed(i) PROVE PanelInv'
<1>1. /\ loads[i] \in ALoad /\ loads[i].stage = "open"
      /\ UNCHANGED <<world, published, current, timers, stored, attempts, indicator, banner,
                     left, heard, shown, snap, detail, selected, details, asks>>
  BY DEF SubscriptionConfirmed, worldVars, viewVars, PanelInv, PanelTyped
<1>2. CASE i = current
  <2> DEFINE r == [loads[i] EXCEPT !.stage = "kept"]
  <2>1. loads' = [loads EXCEPT ![i] = r] /\ handle' = i
    BY <1>2 DEF SubscriptionConfirmed
  <2>2. r \in ALoad /\ r.stage = "kept" /\ r.next = loads[i].next
    BY <1>1 DEF ALoad, Stages
  <2>3. loads[i].next = heard + 1
    BY <1>1, <1>2 DEF PanelInv, StreamFollowsGraph
  <2> HIDE DEF r
  <2>4. PanelTyped'
    BY <1>1, <2>1, <2>2, OneLoadTyped DEF PanelInv, PanelTyped, PanelTypeOK
  <2> QED
    BY <1>1, <1>2, <2>1, <2>2, <2>3, <2>4, OtherLoadKeeps
<1>3. CASE i # current
  <2>1. loads' = [loads EXCEPT ![i] = Over] /\ handle' = handle
    BY <1>3 DEF SubscriptionConfirmed
  <2>2. Over \in ALoad /\ Over.stage = "closed"
    BY NewLoadsAreLoads
  <2>3. PanelTyped'
    BY <1>1, <2>1, <2>2, OneLoadTyped DEF PanelInv, PanelTyped, PanelTypeOK
  <2> QED
    BY <1>1, <1>3, <2>1, <2>2, <2>3, OtherLoadKeeps
<1> QED
  BY <1>2, <1>3

LEMMA LeaveKeeps == ASSUME PanelInv, LeavePage PROVE PanelInv'
<1>1. /\ left' = TRUE /\ loads' = Cancelled /\ current' = 0 /\ handle' = 0 /\ ClearTimer
      /\ UNCHANGED <<world, published, attempts, indicator, banner, heard, shown, snap, detail,
                     selected, details, asks>>
  BY DEF LeavePage, worldVars, viewVars
<1>2. timers' \in Nat /\ stored' \in BOOLEAN /\ (stored' => timers' > 0)
  BY <1>1, TimerIsCleared DEF PanelInv
<1>3. PanelTyped'
  BY <1>1, <1>2, CancelledAreLoads, PanelTypedStep DEF PanelInv, PanelTyped, PanelTypeOK
<1> QED
  BY <1>1, <1>3, LoadingKeeps

\* A panel that is put back was left, or never stopped hearing.
LEMMA ReturnKeeps == ASSUME PanelInv, ReturnToPage PROVE PanelInv'
<1>1. UNCHANGED <<world, published, loads, current, handle, timers, stored, attempts, indicator,
                  banner, left, heard, shown, snap, detail, selected, details, asks>>
  BY DEF ReturnToPage, worldVars, viewVars
<1>2. PanelTyped'
  BY <1>1, PanelTypedStep DEF PanelInv, PanelTyped, PanelTypeOK
<1> QED
  BY <1>1, <1>2 DEF PanelInv, StreamFollowsGraph, DisconnectionIsVisible, Listening, InFlight

-----------------------------------------------------------------------------
(* Requests about one node *)

LEMMA AskTyped ==
    ASSUME PanelTyped, NEW kind \in {"detail", "expand", "refresh"}, NEW n \in Nodes, Ask(kind, n)
    PROVE  asks' \in [1..MaxAsks -> AnAsk \cup {NoAsk}]
<1>1. [kind |-> kind, id |-> n, stage |-> "asked", view |-> NoNodes] \in AnAsk
  BY NoNodesIsAView DEF AnAsk
<1> QED
  BY <1>1 DEF Ask, PanelTyped

\* A request that is under way, and what becomes of it.
LEMMA AskIsTyped ==
    ASSUME PanelTyped, NEW k \in 1..MaxAsks, asks[k] # NoAsk
    PROVE  /\ asks[k] \in AnAsk /\ asks[k].id \in Nodes /\ asks[k].view \in View
           /\ Slice(k) \in View
           /\ Done(k) => asks' \in [1..MaxAsks -> AnAsk \cup {NoAsk}]
           /\ Expand(k) => asks' \in [1..MaxAsks -> AnAsk \cup {NoAsk}]
<1>1. asks[k] \in AnAsk /\ asks[k].id \in Nodes /\ asks[k].view \in View
  BY DEF PanelTyped, AnAsk
<1>2. Slice(k) \in View
  <2>1. snap \in [Nodes -> Absent..MaxChanges]
    BY DEF PanelTyped, PanelTypeOK, View
  <2> QED
    BY <1>1, <2>1 DEF Slice, View
<1>3. Done(k) => asks' \in [1..MaxAsks -> AnAsk \cup {NoAsk}]
  BY DEF Done, PanelTyped
<1>4. ASSUME Expand(k) PROVE asks' \in [1..MaxAsks -> AnAsk \cup {NoAsk}]
  <2> DEFINE r1 == [asks[k] EXCEPT !.kind = "expand"]
             r2 == [r1 EXCEPT !.stage = "asked"]
             r == [r2 EXCEPT !.view = NoNodes]
  <2>1. r1 \in AnAsk
    BY <1>1 DEF AnAsk
  <2> HIDE DEF r1
  <2>2. r2 \in AnAsk
    BY <2>1 DEF AnAsk
  <2> HIDE DEF r2
  <2>3. r \in AnAsk
    BY <2>2, NoNodesIsAView DEF AnAsk
  <2>4. asks' = [asks EXCEPT ![k] = r]
    BY <1>4 DEF Expand, r1, r2, PanelTyped
  <2> HIDE DEF r
  <2> QED
    BY <2>3, <2>4 DEF PanelTyped
<1> QED
  BY <1>1, <1>2, <1>3, <1>4

-----------------------------------------------------------------------------
(* Events *)

\* The current subscription delivers what comes next for the graph.
LEMMA HeardKeeps ==
    ASSUME PanelInv, current # 0, loads[current].stage \in {"open", "kept"},
           loads[current].next <= Len(published), Heard(current),
           UNCHANGED <<world, published>>,
           shown' \in View, snap' \in View, {detail', selected', details'} \subseteq Nodes \cup {NoOne},
           asks' \in [1..MaxAsks -> AnAsk \cup {NoAsk}]
    PROVE  PanelInv'
<1> DEFINE r == [loads[current] EXCEPT !.next = loads[current].next + 1]
<1>1. /\ loads' = [loads EXCEPT ![current] = r] /\ heard' = loads[current].next
      /\ UNCHANGED <<current, handle, timers, stored, attempts, indicator, banner, left>>
  BY DEF Heard, Drop
<1>2. current \in 1..Len(loads) /\ loads[current] \in ALoad
  BY DEF PanelInv, PanelTyped, PanelTypeOK
<1>3. loads[current].next = heard + 1 /\ heard \in Nat /\ Len(published) <= MaxChanges
  BY DEF PanelInv, PanelTyped, PanelTypeOK, StreamFollowsGraph
<1>4. heard' \in 0..MaxChanges /\ loads[current].next + 1 \in 0..MaxChanges + 1
  <2>1. heard' = heard + 1 /\ heard + 1 <= MaxChanges
    <3>1. Len(published) \in Nat /\ loads[current].next <= Len(published)
      BY DEF PanelInv, PanelTyped
    <3> QED
      BY ONLY <1>1, <1>3, <3>1, PanelAssumption
  <2> QED
    BY <1>3, <2>1, PanelAssumption
<1>5. r \in ALoad /\ r.stage = loads[current].stage /\ r.next = heard' + 1
  <2>1. r.stage = loads[current].stage /\ r.next = loads[current].next + 1
    BY <1>2 DEF ALoad
  <2>2. r \in ALoad
    BY <1>2, <1>4 DEF ALoad
  <2> QED  BY <1>1, <2>1, <2>2
<1> HIDE DEF r
<1>6. PanelTyped'
  BY <1>1, <1>2, <1>4, <1>5, OneLoadTyped DEF PanelInv, PanelTyped, PanelTypeOK
<1>7. Len(loads) \in Nat /\ loads'[current] = r
  BY <1>1, <1>2, <1>5, LoadMovesOn DEF PanelInv
<1>8. StreamFollowsGraph' /\ Listening'
  BY <1>1, <1>5, <1>7 DEF StreamFollowsGraph, Listening
<1> QED
  BY <1>6, <1>8 DEF PanelInv, DisconnectionIsVisible

\* An event of an older subscription is dropped.
LEMMA DropKeeps ==
    ASSUME PanelInv, NEW i \in 1..Len(loads), i # current, loads[i].stage \in {"open", "kept"},
           loads[i].next <= Len(published), Drop(i),
           UNCHANGED <<world, published, current, handle, timers, stored, attempts, indicator, banner,
                       left, heard, shown, snap, detail, selected, details, asks>>
    PROVE  PanelInv'
<1> DEFINE r == [loads[i] EXCEPT !.next = loads[i].next + 1]
<1>1. loads' = [loads EXCEPT ![i] = r]
  BY DEF Drop
<1>2. loads[i] \in ALoad /\ loads[i].next \in Nat /\ Len(published) \in Nat
  <2>1. loads \in Seq(ALoad) /\ published \in Seq(AnEvent)
    BY DEF PanelInv, PanelTyped
  <2>2. loads[i] \in ALoad
    BY <2>1
  <2>3. loads[i].next \in 0..MaxChanges + 1
    BY <2>2 DEF ALoad
  <2> QED
    BY <2>1, <2>2, <2>3
<1>3. loads[i].next + 1 \in 0..MaxChanges + 1
  BY <1>2, PanelAssumption DEF PanelInv, PanelTyped
<1>4. r \in ALoad /\ r.stage = loads[i].stage
  BY <1>2, <1>3 DEF ALoad
<1> HIDE DEF r
<1>5. PanelTyped'
  BY <1>1, <1>4, OneLoadTyped DEF PanelInv, PanelTyped, PanelTypeOK
<1>6. loads[i].stage \notin {"asked", "answered", "failed"}
  OBVIOUS
<1> QED
  BY <1>1, <1>4, <1>5, <1>6, OtherLoadKeeps

LEMMA EventKeeps == ASSUME PanelInv, NEW i \in 1..Len(loads), EventArrives(i) PROVE PanelInv'
<1> DEFINE event == published[loads[i].next]
<1>1. /\ loads[i].stage \in {"open", "kept"} /\ loads[i].next <= Len(published)
      /\ UNCHANGED <<world, published, failures>>
      /\ \/ i = current /\ event.kind = "upsert" /\ UpsertEvent(i, event.id)
         \/ i = current /\ event.kind = "remove" /\ RemoveEvent(i, event.id)
         \/ i = current /\ event.kind = "reconcile" /\ ReconcileEvent(i)
         \/ /\ i # current /\ Drop(i)
            /\ UNCHANGED <<current, handle, timers, stored, attempts, indicator, banner, left,
                           heard, shown, snap, detail, selected, details, asks>>
  BY DEF EventArrives, worldVars, viewVars
<1>2. ASSUME i = current
      PROVE  event \in AnEvent /\ current # 0
  <2>1. loads[i].next = heard + 1 /\ heard \in Nat
    BY <1>1, <1>2 DEF PanelInv, PanelTyped, PanelTypeOK, StreamFollowsGraph
  <2>2. loads[i].next \in 1..Len(published)
    BY <1>1, <2>1 DEF PanelInv, PanelTyped
  <2> QED
    BY <1>2, <2>2 DEF PanelInv, PanelTyped
<1> HIDE DEF event
<1>3. CASE i = current /\ event.kind = "upsert" /\ UpsertEvent(i, event.id)
  <2>1. event.id \in Nodes
    BY <1>2, <1>3 DEF AnEvent
  <2>2. /\ Heard(i) /\ UNCHANGED <<shown, snap, detail, selected, details>>
        /\ Ask("refresh", event.id) \/ UNCHANGED asks
    BY <1>3 DEF UpsertEvent
  <2>3. asks' \in [1..MaxAsks -> AnAsk \cup {NoAsk}]
    BY <2>1, <2>2, AskTyped DEF PanelInv, PanelTyped
  <2> QED
    BY <1>1, <1>2, <1>3, <2>2, <2>3, HeardKeeps DEF PanelInv, PanelTyped, PanelTypeOK
<1>4. CASE i = current /\ event.kind = "remove" /\ RemoveEvent(i, event.id)
  <2>1. /\ Heard(i) /\ UNCHANGED <<detail, selected, asks>>
        /\ shown' = [shown EXCEPT ![event.id] = Absent]
        /\ snap' = [snap EXCEPT ![event.id] = Absent]
        /\ details' \in {details, NoOne}
    BY <1>4 DEF RemoveEvent
  <2>2. shown' \in View /\ snap' \in View
    <3>1. shown \in View /\ snap \in View
      BY DEF PanelInv, PanelTyped, PanelTypeOK
    <3>2. Absent \in Absent..MaxChanges
      BY PanelAssumption DEF Absent
    <3> QED
      BY <2>1, <3>1, <3>2 DEF View
  <2> QED
    BY <1>1, <1>2, <1>4, <2>1, <2>2, HeardKeeps DEF PanelInv, PanelTyped, PanelTypeOK
<1>5. CASE i = current /\ event.kind = "reconcile" /\ ReconcileEvent(i)
  BY <1>1, <1>5, BeginLoadKeeps DEF ReconcileEvent, viewVars
<1>6. CASE /\ i # current /\ Drop(i)
           /\ UNCHANGED <<current, handle, timers, stored, attempts, indicator, banner, left,
                          heard, shown, snap, detail, selected, details, asks>>
  BY <1>1, <1>6, DropKeeps
<1> QED
  BY <1>1, <1>3, <1>4, <1>5, <1>6

LEMMA LinkKeeps == ASSUME PanelInv, Link PROVE PanelInv'
<1>1. CASE Retry
  BY <1>1, RetryKeeps
<1>2. CASE ReconnectNow
  BY <1>2, ReconnectKeeps
<1>3. CASE LeavePage \/ ReturnToPage
  BY <1>3, LeaveKeeps, ReturnKeeps
<1>4. ASSUME NEW i \in 1..Len(loads),
             \/ SnapshotAnswered(i) \/ EmptySnapshot(i) \/ FinishLoad(i) \/ FailLoad(i)
             \/ FailReconnect(i) \/ SubscriptionOpens(i) \/ SubscriptionFails(i)
             \/ SubscriptionConfirmed(i) \/ EventArrives(i)
      PROVE  PanelInv'
  BY <1>4, AnswerKeeps, EmptyKeeps, FinishKeeps, FailReconnectKeeps, OpensKeeps, RefusedKeeps,
     ConfirmedKeeps, EventKeeps
<1> QED
  BY <1>1, <1>2, <1>3, <1>4 DEF Link

-----------------------------------------------------------------------------
(* Selecting *)

LEMMA UserKeeps == ASSUME PanelInv, User PROVE PanelInv'
<1> USE DEF worldVars, linkVars
<1>0. /\ PanelTyped /\ world \in View /\ shown \in View /\ snap \in View
      /\ published \in Seq(AnEvent) /\ Len(published) <= MaxChanges
      /\ detail \in Nodes \cup {NoOne} /\ selected \in Nodes \cup {NoOne}
      /\ details \in Nodes \cup {NoOne}
      /\ asks \in [1..MaxAsks -> AnAsk \cup {NoAsk}]
  BY DEF PanelInv, PanelTyped, PanelTypeOK
<1>1. ASSUME NEW n \in Nodes, Select(n) PROVE PanelInv'
  <2>1. asks' \in [1..MaxAsks -> AnAsk \cup {NoAsk}]
    BY <1>0, <1>1, AskTyped DEF Select
  <2>2. selected' \in Nodes \cup {NoOne} /\ detail' \in Nodes
    BY <1>0, <1>1 DEF Select
  <2> QED
    BY <1>0, <1>1, <2>1, <2>2, LookKeeps DEF Select
<1>2. CASE Deselect
  <2>1. shown' \in View
    BY <1>0, <1>2 DEF Deselect
  <2> QED
    BY <1>0, <1>2, <2>1, LookKeeps DEF Deselect
<1>3. CASE SearchFails
  BY <1>0, <1>3, LookKeeps DEF SearchFails, viewVars
<1> QED
  BY <1>1, <1>2, <1>3 DEF User

LEMMA AnswersKeep == ASSUME PanelInv, Answers PROVE PanelInv'
<1> SUFFICES ASSUME NEW k \in 1..MaxAsks, asks[k] # NoAsk,
                    \/ AskAnswered(k) \/ DetailLoaded(k) \/ DetailMissing(k) \/ Expanded(k)
                    \/ Refreshed(k)
             PROVE  PanelInv'
  BY DEF Answers, AskAnswered, DetailLoaded, DetailMissing, Expanded, Refreshed, Resumes
<1>1. /\ asks[k] \in AnAsk /\ asks[k].id \in Nodes /\ asks[k].view \in View
      /\ Slice(k) \in View
      /\ Done(k) \/ Expand(k) => asks' \in [1..MaxAsks -> AnAsk \cup {NoAsk}]
  BY AskIsTyped DEF PanelInv
<1>2. /\ PanelTyped /\ world \in View /\ shown \in View /\ snap \in View
      /\ published \in Seq(AnEvent) /\ Len(published) <= MaxChanges
      /\ detail \in Nodes \cup {NoOne} /\ selected \in Nodes \cup {NoOne}
      /\ details \in Nodes \cup {NoOne}
      /\ asks \in [1..MaxAsks -> AnAsk \cup {NoAsk}]
  BY DEF PanelInv, PanelTyped, PanelTypeOK
<1> USE DEF worldVars, linkVars
<1>3. CASE AskAnswered(k)
  <2>1. asks' \in [1..MaxAsks -> AnAsk \cup {NoAsk}]
    <3>1. CASE asks' = [asks EXCEPT ![k].stage = "answered", ![k].view = world]
      <4> DEFINE r1 == [asks[k] EXCEPT !.stage = "answered"]
                 r == [r1 EXCEPT !.view = world]
      <4>1. r1 \in AnAsk
        BY <1>1 DEF AnAsk
      <4> HIDE DEF r1
      <4>2. r \in AnAsk
        BY <1>2, <4>1 DEF AnAsk
      <4>3. asks' = [asks EXCEPT ![k] = r]
        BY <1>2, <3>1 DEF r1
      <4> HIDE DEF r
      <4> QED
        BY <1>2, <4>2, <4>3
    <3>2. CASE asks' = [asks EXCEPT ![k].stage = "failed"]
      <4> DEFINE r == [asks[k] EXCEPT !.stage = "failed"]
      <4>1. r \in AnAsk
        BY <1>1 DEF AnAsk
      <4>2. asks' = [asks EXCEPT ![k] = r]
        BY <3>2
      <4> HIDE DEF r
      <4> QED
        BY <1>2, <4>1, <4>2
    <3> QED
      BY <1>3, <3>1, <3>2 DEF AskAnswered
  <2> QED
    BY <1>2, <1>3, <2>1, LookKeeps DEF AskAnswered
<1>4. CASE DetailLoaded(k)
  BY <1>1, <1>2, <1>4, LookKeeps DEF DetailLoaded
<1>5. CASE DetailMissing(k)
  BY <1>1, <1>2, <1>5, LookKeeps DEF DetailMissing
<1>6. CASE Expanded(k)
  <2>1. Merge(snap, Slice(k)) \in View /\ Merge(shown, Slice(k)) \in View
    BY <1>1, <1>2, ViewsMerge
  <2> QED
    BY <1>1, <1>2, <1>6, <2>1, LookKeeps DEF Expanded
<1>7. CASE Refreshed(k)
  <2>1. shown' \in View
    BY <1>1, <1>2, <1>7 DEF Refreshed, View
  <2> QED
    BY <1>1, <1>2, <1>7, <2>1, LookKeeps DEF Refreshed
<1> QED
  BY <1>3, <1>4, <1>5, <1>6, <1>7

-----------------------------------------------------------------------------
LEMMA PanelStep == PanelInv /\ [PanelNext]_panelVars => PanelInv'
<1> SUFFICES ASSUME PanelInv, [PanelNext]_panelVars PROVE PanelInv'
  OBVIOUS
<1>1. CASE PanelNext
  BY <1>1, OntologyKeeps, LinkKeeps, UserKeeps, AnswersKeep DEF PanelNext
<1>2. CASE UNCHANGED panelVars
  BY <1>2, LookKeeps DEF panelVars, worldVars, linkVars, viewVars, PanelInv, PanelTyped, PanelTypeOK
<1> QED
  BY <1>1, <1>2

\* For every number of nodes, loads, attempts and requests: the current
\* subscription goes on exactly where the 3D graph stands, and a panel that hears
\* of no changes, and is not about to, says so, unless it was taken off the page and
\* has not subscribed since.
THEOREM PanelIsLiveOrSaysSo == PanelSpec => []LiveOrSaysSo
<1>1. PanelInv => LiveOrSaysSo
  BY DEF PanelInv, PanelTyped, LiveOrSaysSo
<1> QED
  BY <1>1, InitPanel, PanelStep, PTL DEF PanelSpec

\* And no step opens the details of another node than the one selected at that
\* moment, whichever answer it comes with.
THEOREM DetailsAreOfSelection == PanelSpec => DetailsFollowSelection
<1>1. ASSUME [PanelNext]_panelVars PROVE [details' \notin {details, NoOne} => details' = detail]_panelVars
  <2>1. ASSUME Ontology PROVE details' = details
    BY <2>1 DEF Ontology, Upserted, Removed, Reconciled, Changes, viewVars
  <2>2. ASSUME Link PROVE details' \in {details, NoOne}
    <3>1. ASSUME NEW i \in 1..Len(loads), EventArrives(i) PROVE details' \in {details, NoOne}
      BY <3>1 DEF EventArrives, UpsertEvent, RemoveEvent, ReconcileEvent, viewVars
    <3> QED
      BY <2>2, <3>1
      DEF Link, Retry, ReconnectNow, LeavePage, ReturnToPage, SnapshotAnswered, EmptySnapshot, FinishLoad, FailLoad,
          FailReconnect, SubscriptionOpens, SubscriptionFails, SubscriptionConfirmed, viewVars
  <2>3. ASSUME User PROVE details' \in {details, NoOne}
    BY <2>3 DEF User, Select, Deselect, SearchFails, viewVars
  <2>4. ASSUME Answers PROVE details' = details \/ details' = detail
    <3>1. ASSUME NEW k \in 1..MaxAsks, DetailLoaded(k) PROVE details' = details \/ details' = detail
      BY <3>1 DEF DetailLoaded, Overtaken
    <3> QED
      BY <2>4, <3>1 DEF Answers, AskAnswered, DetailMissing, Expanded, Refreshed
  <2> QED
    BY <1>1, <2>1, <2>2, <2>3, <2>4 DEF PanelNext
<1> QED
  BY <1>1, PTL DEF PanelSpec, DetailsFollowSelection

(***************************************************************************)
(* The impact of a change                                                  *)
(***************************************************************************)

\* The analysis has its target and has not failed.
OnTarget == stage \notin {"waiting", "answered"} \/ Answered

\* What an analysis lists the entities of, and what it asks dependents of.
Sources == IF scope = "device" THEN {root} ELSE devices

Sought == IF scope = "entity" THEN {root} ELSE affected

StageFits ==
    /\ stage = "waiting" => /\ tasks = {} /\ devices = {} /\ affected = {} /\ found = {}
                            /\ ~said /\ ~cut
    /\ stage = "devices" => tasks = {} /\ affected = {} /\ found = {} /\ scope = "area"
    /\ stage = "gatherDirect" => scope = "area"
    /\ stage = "answered" => tasks = {}
    /\ stage # "answered" => answer = NoAnswer
    /\ stage # "direct" /\ stage # "gatherDirect"
           => stage \in {"waiting", "devices", "gather", "answered"}
    /\ scope # "area" => devices = {}
    /\ scope = "entity" => affected = {}
    /\ OnTarget => root \in OfScope(scope)

TasksFit ==
    \A t \in tasks :
        /\ stage \in {"gather", "gatherDirect"}
        /\ t[1] = "resolve" => t[2] \in devices
        /\ t[1] = "list" => t[2] \in Sources
        /\ t[1] = "dependents" => t[2] \in Sought

\* What was collected was linked to the target at some time.
NothingForeign ==
    /\ \A d \in devices : <<root, d>> \in ever
    /\ \A e \in affected : e \in Reach(ever)
    /\ \A x \in found : \E e \in Sought : <<x, e>> \in ever

\* What was linked to the target all the time is collected or still looked for,
\* unless a list was cut: then there is as much of it as a list may have.
NothingLeftOut ==
    /\ ~cut /\ scope = "area" /\ stage # "devices" =>
           \A d \in Devices : <<root, d>> \in always => d \in devices
    /\ ~cut => \A d \in Sources, e \in Entities :
           <<d, e>> \in always => <<"resolve", d>> \in tasks \/ <<"list", d>> \in tasks \/ e \in affected
    /\ ~cut /\ scope = "area" /\ stage \in {"gatherDirect", "answered"} =>
           \A e \in Entities : <<root, e>> \in always => e \in affected
    /\ \A e \in Sought, x \in Dependents :
           <<x, e>> \in always => <<"dependents", e>> \in tasks \/ x \in found \/ (cut /\ Cardinality(found) >= Limit)

AnswerIsFound ==
    Answered => /\ answer.dependents \subseteq found
                /\ answer.dependents # found => cut /\ Cardinality(answer.dependents) = Limit

AnalysisInv ==
    /\ AnalysisTypeOK
    /\ always \subseteq links /\ links \subseteq ever
    /\ StageFits
    /\ TasksFit
    /\ OnTarget => NothingForeign /\ NothingLeftOut
    /\ AnswerIsFound
    /\ said => cut

-----------------------------------------------------------------------------

LEMMA KeptIs ==
    ASSUME NEW S, IsFiniteSet(S), NEW T \in Kept(S)
    PROVE  /\ T \subseteq S /\ IsFiniteSet(T)
           /\ Cardinality(T) \in Nat /\ Cardinality(T) <= Limit
           /\ ~TooMany(S) => T = S
           /\ TooMany(S) => Cardinality(T) = Limit
<1>1. Cardinality(S) \in Nat /\ Limit \in Nat
  BY FS_CardinalityType, ImpactAssumption
<1>2. CASE Cardinality(S) <= Limit
  BY <1>1, <1>2 DEF Kept, TooMany
<1>3. CASE ~(Cardinality(S) <= Limit)
  <2>1. T \in kSubset(Limit, S)
    BY <1>3 DEF Kept
  <2>2. T \in SUBSET S /\ Cardinality(T) = Limit
    BY <2>1 DEF kSubset
  <2>3. IsFiniteSet(T)
    BY <2>2, FS_Subset
  <2> QED  BY <1>1, <1>3, <2>2, <2>3 DEF TooMany
<1> QED  BY <1>2, <1>3

LEMMA TooManyIs == ASSUME NEW S, IsFiniteSet(S) PROVE TooMany(S) \in BOOLEAN
  BY FS_CardinalityType, ImpactAssumption DEF TooMany

LEMMA LeastOfTwo == ASSUME NEW a \in Nat, NEW b \in Nat PROVE Min({a, b}) <= a /\ Min({a, b}) <= b /\ Min({a, b}) \in Nat
<1> DEFINE Least(m) == m \in {a, b} /\ \A y \in {a, b} : m <= y
<1>1. \E m : Least(m)
  <2>1. CASE a <= b
    BY <2>1
  <2>2. CASE b <= a
    BY <2>2
  <2> QED  BY <2>1, <2>2
<1>2. Min({a, b}) = CHOOSE m : Least(m)
  BY Zenon DEF Min
<1>3. Least(Min({a, b}))
  <2> HIDE DEF Least
  <2> QED  BY <1>1, <1>2
<1> QED  BY <1>3

LEMMA FiniteNodes ==
    /\ \A S \in SUBSET Devices : IsFiniteSet(S)
    /\ \A S \in SUBSET Entities : IsFiniteSet(S)
    /\ \A S \in SUBSET Dependents : IsFiniteSet(S) /\ Cardinality(S) \in Nat
  BY FS_Subset, FS_CardinalityType, ImpactAssumption

LEMMA AnalysisInitInv == AnalysisInit => AnalysisInv
<1> SUFFICES ASSUME AnalysisInit PROVE AnalysisInv
  OBVIOUS
<1>1. links \in SUBSET {l \in Pairs : l[1] \in nodes /\ l[2] \in nodes} /\ nodes \subseteq AllNodes
  BY DEF AnalysisInit
<1>2. Cardinality({}) = 0
  BY FS_EmptySet
<1>3. AnalysisTypeOK
  <2>1. Cardinality(devices) <= Limit /\ Cardinality(answer.dependents) <= Limit /\ changes \in 0..MaxWrites
    BY <1>2, ImpactAssumption DEF AnalysisInit, NoAnswer
  <2>2. /\ scope \in Scopes /\ named \subseteq OfScope(scope) /\ tasks = {}
        /\ devices = {} /\ affected = {} /\ found = {} /\ said \in BOOLEAN /\ cut \in BOOLEAN
        /\ stage = "waiting" /\ answer.outcome = "none" /\ answer.dependents = {}
    BY DEF AnalysisInit, NoAnswer
  <2> QED  BY <1>1, <2>1, <2>2 DEF AnalysisTypeOK
<1>4. StageFits /\ ~OnTarget /\ AnswerIsFound /\ TasksFit
  BY DEF AnalysisInit, StageFits, OnTarget, Answered, AnswerIsFound, TasksFit, NoAnswer
<1> QED  BY <1>3, <1>4 DEF AnalysisInit, AnalysisInv


\* An analysis goes on beside a graph that changes: what was linked all the
\* time, and what was at some time, is told of more links and fewer.
LEMMA GraphChangesInv == ASSUME AnalysisInv, GraphChanges PROVE AnalysisInv'
<1>1. /\ scope' = scope /\ named' = named /\ stage' = stage /\ root' = root /\ tasks' = tasks
      /\ devices' = devices /\ affected' = affected /\ found' = found /\ said' = said
      /\ answer' = answer /\ cut' = cut
  BY DEF GraphChanges, callVars
<1>2. /\ nodes' \subseteq AllNodes /\ changes' \in 0..MaxWrites
      /\ links' \in SUBSET {l \in Pairs : l[1] \in nodes' /\ l[2] \in nodes'}
  <2>1. links \in SUBSET {l \in Pairs : l[1] \in nodes /\ l[2] \in nodes} /\ nodes \subseteq AllNodes
    BY DEF AnalysisInv, AnalysisTypeOK
  <2>2. changes' \in 0..MaxWrites
    BY ImpactAssumption DEF AnalysisInv, AnalysisTypeOK, GraphChanges
  <2>3. CASE \E l \in Pairs : /\ l[1] \in nodes /\ l[2] \in nodes
                              /\ links' = (IF l \in links THEN links \ {l} ELSE links \cup {l})
                              /\ UNCHANGED nodes
    BY <2>1, <2>2, <2>3
  <2>4. CASE \E n \in nodes : nodes' = nodes \ {n} /\ links' = {l \in links : l[1] # n /\ l[2] # n}
    BY <2>1, <2>2, <2>4
  <2> QED  BY <2>3, <2>4 DEF GraphChanges
<1>3. ever \subseteq ever' /\ always' \subseteq always /\ always' \subseteq links' /\ links' \subseteq ever'
  BY DEF GraphChanges
<1>4. AnalysisTypeOK'
  BY <1>1, <1>2 DEF AnalysisInv, AnalysisTypeOK, OfScope
<1>5. StageFits' /\ TasksFit' /\ AnswerIsFound' /\ (said => cut)' /\ OnTarget' = OnTarget
  BY <1>1 DEF AnalysisInv, StageFits, TasksFit, AnswerIsFound, OnTarget, Answered, Sources, Sought, OfScope, NoAnswer
<1>6. Reach(ever) \subseteq Reach(ever)'
  BY <1>1, <1>3 DEF Reach
<1>7. ASSUME OnTarget PROVE NothingForeign'
  BY <1>1, <1>3, <1>6, <1>7 DEF AnalysisInv, NothingForeign, Sought
<1>8. ASSUME OnTarget PROVE NothingLeftOut'
  <2>1. NothingLeftOut
    BY <1>8 DEF AnalysisInv
  <2>2. Sources' = Sources /\ Sought' = Sought
    BY <1>1 DEF Sources, Sought
  <2> QED  BY <1>1, <1>3, <2>1, <2>2 DEF NothingLeftOut
<1> QED  BY <1>3, <1>4, <1>5, <1>7, <1>8 DEF AnalysisInv

\* What stays as it is when the graph does.
LEMMA CallFrame ==
    ASSUME AnalysisInv, UNCHANGED <<graphVars, history, scope, named>>
    PROVE  /\ always' \subseteq links' /\ links' \subseteq ever'
           /\ nodes' = nodes /\ links' = links /\ ever' = ever /\ always' = always
           /\ scope' = scope /\ named' = named
           /\ scope' \in Scopes /\ named' \subseteq OfScope(scope)'
           /\ (nodes \subseteq AllNodes /\ changes \in 0..MaxWrites)'
           /\ (links \in SUBSET {l \in Pairs : l[1] \in nodes /\ l[2] \in nodes})'
  BY DEF AnalysisInv, AnalysisTypeOK, graphVars, history, OfScope

LEMMA ResolveInv == ASSUME AnalysisInv, Resolve PROVE AnalysisInv'
<1>1. /\ UNCHANGED <<graphVars, history, scope, named>>
      /\ devices' = {} /\ affected' = {} /\ found' = {} /\ ~said' /\ ~cut'
      /\ said' \in BOOLEAN /\ cut' \in BOOLEAN /\ stage = "waiting" /\ answer = NoAnswer
  BY DEF Resolve, AnalysisInv, AnalysisTypeOK, StageFits
<1>2. Cardinality({}) = 0
  BY FS_EmptySet
<1>3. CASE named \cap nodes = {} /\ stage' = "answered" /\ answer' = [NoAnswer EXCEPT !.outcome = "not_found"]
           /\ UNCHANGED <<root, tasks>>
  <2>1. tasks' = {} /\ answer'.outcome = "not_found" /\ answer'.dependents = {}
    BY <1>3, <1>1 DEF AnalysisInv, StageFits, NoAnswer
  <2>2. ~OnTarget'
    BY <1>3, <2>1 DEF OnTarget, Answered
  <2>3. AnalysisTypeOK'
    <3>1. Cardinality(devices') <= Limit /\ Cardinality(answer'.dependents) <= Limit
      BY <1>1, <1>2, <2>1, ImpactAssumption
    <3>2. /\ devices' \subseteq Devices /\ affected' \subseteq Entities /\ found' \subseteq Dependents
          /\ tasks' \subseteq {"resolve", "list", "dependents"} \X AllNodes
          /\ answer'.dependents \subseteq Dependents
      BY <1>1, <2>1
    <3> QED  BY <1>1, <1>3, <2>1, <3>1, <3>2, CallFrame DEF AnalysisTypeOK
  <2>4. StageFits' /\ TasksFit' /\ AnswerIsFound'
    BY <1>1, <1>3, <2>1, <2>2 DEF StageFits, TasksFit, AnswerIsFound, Answered
  <2> QED  BY <1>1, <2>2, <2>3, <2>4, CallFrame DEF AnalysisInv
<1>4. ASSUME NEW n \in named \cap nodes, root' = n,
             stage' = IF scope = "area" THEN "devices" ELSE "gather",
             tasks' = CASE scope = "entity" -> {<<"dependents", n>>}
                        [] scope = "device" -> {<<"list", n>>}
                        [] OTHER -> {},
             UNCHANGED answer
      PROVE  AnalysisInv'
  <2>1. n \in OfScope(scope) /\ n \in AllNodes /\ scope \in Scopes /\ scope' = scope
    BY <1>1 DEF AnalysisInv, AnalysisTypeOK
  <2>2. /\ tasks' = IF scope = "entity" THEN {<<"dependents", n>>}
                    ELSE IF scope = "device" THEN {<<"list", n>>} ELSE {}
    BY <1>4, <2>1 DEF Scopes
  <2>3. tasks' \subseteq {"resolve", "list", "dependents"} \X AllNodes
    BY <2>1, <2>2
  <2>4. answer'.outcome = "none" /\ answer'.dependents = {} /\ answer' = NoAnswer
    BY <1>1, <1>4 DEF NoAnswer
  <2>5. AnalysisTypeOK'
    BY <1>1, <1>2, <1>4, <2>3, <2>4, CallFrame, ImpactAssumption DEF AnalysisTypeOK
  <2>6. ~Answered'
    BY <2>4 DEF Answered
  <2>7. StageFits'
    BY <1>1, <1>4, <2>1, <2>2, <2>4 DEF StageFits, OfScope, Scopes
  <2>8. TasksFit'
    BY <1>4, <2>1, <2>2 DEF TasksFit, Sources, Sought
  <2>9. NothingForeign'
    BY <1>1 DEF NothingForeign
  <2>10. NothingLeftOut'
    <3>1. CASE scope = "entity"
      <4>1. Sources' = {} /\ Sought' = {n} /\ <<"dependents", n>> \in tasks'
        BY <1>1, <1>4, <2>1, <2>2, <3>1 DEF Sources, Sought
      <4> QED  BY <2>1, <3>1, <4>1 DEF NothingLeftOut
    <3>2. CASE scope = "device"
      <4>1. Sources' = {n} /\ Sought' = {} /\ <<"list", n>> \in tasks'
        BY <1>1, <1>4, <2>1, <2>2, <3>2 DEF Sources, Sought
      <4> QED  BY <2>1, <3>2, <4>1 DEF NothingLeftOut
    <3>3. CASE scope = "area"
      <4>1. Sources' = {} /\ Sought' = {} /\ stage' = "devices"
        BY <1>1, <1>4, <2>1, <2>2, <3>3 DEF Sources, Sought
      <4> QED  BY <2>1, <3>3, <4>1 DEF NothingLeftOut
    <3> QED  BY <2>1, <3>1, <3>2, <3>3 DEF Scopes
  <2> QED  BY <1>1, <2>5, <2>6, <2>7, <2>8, <2>9, <2>10, CallFrame DEF AnalysisInv, AnswerIsFound
<1> QED  BY <1>3, <1>4 DEF Resolve

LEMMA ListDevicesInv == ASSUME AnalysisInv, ListDevices PROVE AnalysisInv'
<1> DEFINE rows == Under(root, Devices)
<1>1. /\ UNCHANGED <<graphVars, history, scope, named>>
      /\ root' = root /\ affected' = {} /\ found' = {} /\ answer' = NoAnswer
      /\ stage = "devices" /\ stage' = "gather" /\ scope = "area"
  BY DEF ListDevices, AnalysisInv, StageFits
<1>2. /\ devices' \in Kept(rows) /\ tasks' = {"resolve"} \X devices'
      /\ said' = TooMany(rows) /\ cut' = TooMany(rows)
  BY DEF ListDevices
<1>3. rows \in SUBSET Devices /\ \A d \in Devices : d \in rows <=> <<root, d>> \in links
  BY DEF Under
<1>4. /\ devices' \subseteq rows /\ Cardinality(devices') <= Limit
      /\ ~TooMany(rows) => devices' = rows
  <2> HIDE DEF rows
  <2> QED  BY <1>2, <1>3, FiniteNodes, KeptIs
<1> HIDE DEF rows
<1>5. cut' \in BOOLEAN /\ said' \in BOOLEAN /\ (said' => cut')
  BY <1>2, <1>3, FiniteNodes, TooManyIs
<1>6. answer'.outcome = "none" /\ answer'.dependents = {} /\ ~Answered'
  BY <1>1 DEF NoAnswer, Answered
<1>7. root \in {Area}
  BY <1>1 DEF AnalysisInv, StageFits, OnTarget, OfScope
<1>8. AnalysisTypeOK'
  <2>1. tasks' \subseteq {"resolve", "list", "dependents"} \X AllNodes
    BY <1>2, <1>3, <1>4 DEF AllNodes
  <2>2. root' \in AllNodes /\ Cardinality({}) <= Limit
    BY <1>1, <1>7, FS_EmptySet, ImpactAssumption DEF AllNodes, AllAreas
  <2> QED  BY <1>1, <1>3, <1>4, <1>5, <1>6, <2>1, <2>2, CallFrame DEF AnalysisTypeOK
<1>9. StageFits'
  BY <1>1, <1>7 DEF StageFits, OfScope
<1>10. Sources' = devices' /\ Sought' = {}
  BY <1>1 DEF Sources, Sought
<1>11. TasksFit'
  BY <1>1, <1>2 DEF TasksFit
<1>12. NothingForeign'
  BY <1>1, <1>3, <1>4, CallFrame DEF NothingForeign
<1>13. NothingLeftOut'
  <2>1. ~cut' => devices' = rows
    BY <1>2, <1>4
  <2>2. \A d \in devices' : <<"resolve", d>> \in tasks'
    BY <1>2
  <2> QED  BY <1>1, <1>3, <1>10, <2>1, <2>2, CallFrame DEF NothingLeftOut
<1> QED  BY <1>1, <1>5, <1>6, <1>8, <1>9, <1>11, <1>12, <1>13, CallFrame DEF AnalysisInv, AnswerIsFound

LEMMA ResolveDeviceInv == ASSUME AnalysisInv, NEW d \in Devices, ResolveDevice(d) PROVE AnalysisInv'
<1>1. /\ UNCHANGED <<graphVars, history, scope, named>>
      /\ root' = root /\ affected' = affected /\ found' = found /\ answer' = answer
      /\ stage' = stage /\ devices' = devices /\ said' = said /\ cut' = cut
      /\ <<"resolve", d>> \in tasks
      /\ tasks' = (tasks \ {<<"resolve", d>>}) \cup (IF d \in nodes THEN {<<"list", d>>} ELSE {})
  BY DEF ResolveDevice
<1>2. stage \in {"gather", "gatherDirect"} /\ d \in devices /\ scope = "area" /\ OnTarget /\ OnTarget'
  BY <1>1 DEF AnalysisInv, TasksFit, StageFits, OnTarget
<1>3. answer = NoAnswer /\ ~Answered /\ ~Answered'
  BY <1>1, <1>2 DEF AnalysisInv, StageFits, Answered, NoAnswer
<1>4. AnalysisTypeOK'
  <2>1. tasks' \subseteq {"resolve", "list", "dependents"} \X AllNodes
    BY <1>1 DEF AnalysisInv, AnalysisTypeOK, AllNodes
  <2> QED  BY <1>1, <2>1, CallFrame DEF AnalysisInv, AnalysisTypeOK
<1>5. Sources' = Sources /\ Sources = devices /\ Sought' = Sought
  BY <1>1, <1>2 DEF Sources, Sought
<1>6. StageFits'
  BY <1>1, <1>2, <1>3 DEF AnalysisInv, StageFits, OfScope
<1>7. TasksFit'
  BY <1>1, <1>2, <1>5 DEF AnalysisInv, TasksFit
<1>8. NothingForeign'
  <2>1. Reach(ever)' = Reach(ever)
    BY <1>1, CallFrame DEF Reach
  <2> QED  BY <1>1, <1>2, <1>5, <2>1, CallFrame DEF AnalysisInv, NothingForeign
<1>9. NothingLeftOut'
  <2>1. NothingLeftOut
    BY <1>2 DEF AnalysisInv
  <2>2. \A e \in Entities : <<d, e>> \in always => d \in nodes
    BY DEF AnalysisInv, AnalysisTypeOK
  <2>3. \A t : t \in tasks => t \in tasks' \/ (t = <<"resolve", d>> /\ (d \in nodes => <<"list", d>> \in tasks'))
    BY <1>1
  <2>4. ~cut' => \A c \in Sources, e \in Entities :
           <<c, e>> \in always => <<"resolve", c>> \in tasks' \/ <<"list", c>> \in tasks' \/ e \in affected
    BY <1>1, <2>1, <2>2, <2>3 DEF NothingLeftOut
  <2>5. \A e : <<"dependents", e>> \in tasks => <<"dependents", e>> \in tasks'
    BY <1>1
  <2> QED  BY <1>1, <1>5, <2>1, <2>4, <2>5, CallFrame DEF NothingLeftOut
<1> QED  BY <1>1, <1>3, <1>4, <1>6, <1>7, <1>8, <1>9, CallFrame DEF AnalysisInv, AnswerIsFound

\* A row lists an entity of the device, and each has one.
LEMMA DeviceRowsAre ==
    ASSUME NEW d \in Devices
    PROVE  /\ IsFiniteSet(DeviceRows(d))
           /\ \A row \in DeviceRows(d) : row[1] \in Entities /\ <<d, row[1]>> \in links
           /\ \A e \in Entities : <<d, e>> \in links => \E row \in DeviceRows(d) : row[1] = e
<1> DEFINE places == {a \in AllAreas : <<a, d>> \in links}
           kinds  == IF places = {} THEN {"none"} ELSE places
<1>1. DeviceRows(d) = Under(d, Entities) \X kinds
  BY DEF DeviceRows
<1>2. IsFiniteSet(kinds)
  <2>1. IsFiniteSet(AllAreas)
    BY FS_Singleton, FS_Union, ImpactAssumption DEF AllAreas
  <2>2. IsFiniteSet(places)
    BY <2>1, FS_Subset
  <2> QED  BY <2>2, FS_Singleton
<1>3. IsFiniteSet(Under(d, Entities))
  BY FiniteNodes DEF Under
<1>4. \E a : a \in kinds
  OBVIOUS
<1> HIDE DEF kinds
<1>5. IsFiniteSet(DeviceRows(d))
  BY <1>1, <1>2, <1>3, FS_Product
<1>6. \A e \in Entities : <<d, e>> \in links => \E row \in DeviceRows(d) : row[1] = e
  <2> SUFFICES ASSUME NEW e \in Entities, <<d, e>> \in links
               PROVE  \E row \in DeviceRows(d) : row[1] = e
    OBVIOUS
  <2>1. PICK a : a \in kinds
    BY <1>4
  <2>2. <<e, a>> \in DeviceRows(d)
    BY <1>1, <2>1 DEF Under
  <2> QED  BY <2>2
<1> QED  BY <1>1, <1>5, <1>6 DEF Under

LEMMA ListEntitiesInv == ASSUME AnalysisInv, NEW d \in Devices, ListEntities(d) PROVE AnalysisInv'
<1> DEFINE rows == DeviceRows(d)
<1>1. /\ UNCHANGED <<graphVars, history, scope, named>>
      /\ root' = root /\ found' = found /\ answer' = answer
      /\ stage' = stage /\ devices' = devices
      /\ <<"list", d>> \in tasks
      /\ said' = (said \/ (TooMany(rows) /\ scope = "device"))
      /\ cut' = (cut \/ TooMany(rows))
  BY DEF ListEntities
<1>2. PICK kept \in Kept(rows) :
         /\ affected' = affected \cup {row[1] : row \in kept}
         /\ tasks' = (tasks \ {<<"list", d>>}) \cup ({"dependents"} \X {row[1] : row \in kept})
  BY DEF ListEntities
<1> DEFINE listed == {row[1] : row \in kept}
<1>3. /\ IsFiniteSet(rows)
      /\ \A row \in rows : row[1] \in Entities /\ <<d, row[1]>> \in links
      /\ \A e \in Entities : <<d, e>> \in links => \E row \in rows : row[1] = e
  BY DeviceRowsAre
<1> HIDE DEF rows
<1>16. kept \subseteq rows /\ (~TooMany(rows) => kept = rows)
  BY <1>2, <1>3, KeptIs
<1>4. /\ listed \in SUBSET Entities /\ \A e \in listed : <<d, e>> \in links
      /\ ~TooMany(rows) => \A e \in Entities : <<d, e>> \in links => e \in listed
  BY <1>3, <1>16
<1>17. /\ affected' = affected \cup listed
      /\ tasks' = (tasks \ {<<"list", d>>}) \cup ({"dependents"} \X listed)
  BY <1>2
<1> HIDE DEF listed
<1>5. /\ stage \in {"gather", "gatherDirect"} /\ d \in Sources /\ OnTarget /\ OnTarget'
      /\ answer = NoAnswer /\ ~Answered /\ ~Answered'
  BY <1>1 DEF AnalysisInv, TasksFit, StageFits, OnTarget, Answered, NoAnswer
<1>6. scope # "entity" /\ (scope = "device" => d = root) /\ (scope # "device" => d \in devices)
      /\ (scope # "device" => scope = "area")
  BY <1>5 DEF AnalysisInv, AnalysisTypeOK, StageFits, Sources, Scopes
<1>7. cut' \in BOOLEAN /\ said' \in BOOLEAN /\ (said' => cut') /\ (cut => cut')
  BY <1>1 DEF AnalysisInv, AnalysisTypeOK
<1>8. AnalysisTypeOK'
  <2>1. tasks' \subseteq {"resolve", "list", "dependents"} \X AllNodes
    BY <1>17, <1>4 DEF AnalysisInv, AnalysisTypeOK, AllNodes
  <2>2. affected' \subseteq Entities
    BY <1>17, <1>4 DEF AnalysisInv, AnalysisTypeOK
  <2> QED  BY <1>1, <1>7, <2>1, <2>2, CallFrame DEF AnalysisInv, AnalysisTypeOK
<1>9. Sources' = Sources /\ Sought' = Sought \cup listed
  BY <1>1, <1>17, <1>6 DEF Sources, Sought
<1>10. StageFits'
  BY <1>1, <1>5, <1>6 DEF AnalysisInv, StageFits, OfScope
<1>11. TasksFit'
  BY <1>1, <1>17, <1>5, <1>9 DEF AnalysisInv, TasksFit
<1>12. NothingForeign'
  <2>1. NothingForeign /\ ever' = ever
    BY <1>1, <1>5, CallFrame DEF AnalysisInv
  <2>2. \A e \in listed : e \in Entities /\ <<d, e>> \in ever
    BY <1>4 DEF AnalysisInv
  <2>3. \A e \in listed : e \in Reach(ever)
    BY <1>6, <2>1, <2>2 DEF Reach, NothingForeign
  <2>4. Reach(ever)' = Reach(ever)
    BY <1>1, <2>1, CallFrame DEF Reach
  <2> QED  BY <1>1, <1>17, <1>9, <2>1, <2>3, <2>4 DEF NothingForeign
<1>13. NothingLeftOut'
  <2>1. NothingLeftOut
    BY <1>5 DEF AnalysisInv
  <2>2. ~cut' => ~cut /\ ~TooMany(rows)
    BY <1>1
  <2>3. ~cut' => \A e \in Entities : <<d, e>> \in always => e \in listed
    BY <1>4, <2>2 DEF AnalysisInv
  <2>4. ~cut' => \A c \in Sources, e \in Entities :
           <<c, e>> \in always => <<"resolve", c>> \in tasks' \/ <<"list", c>> \in tasks' \/ e \in affected'
    <3> SUFFICES ASSUME ~cut', NEW c \in Sources, NEW e \in Entities, <<c, e>> \in always
                 PROVE  <<"resolve", c>> \in tasks' \/ <<"list", c>> \in tasks' \/ e \in affected'
      OBVIOUS
    <3>1. CASE c = d
      BY <1>17, <2>2, <2>3, <3>1
    <3>2. CASE c # d
      BY <1>17, <2>1, <2>2, <3>2 DEF NothingLeftOut
    <3> QED  BY <3>1, <3>2
  <2>5. \A e \in Sought', x \in Dependents :
           <<x, e>> \in always => <<"dependents", e>> \in tasks' \/ x \in found \/ (cut /\ Cardinality(found) >= Limit)
    BY <1>17, <1>9, <2>1 DEF NothingLeftOut
  <2> QED  BY <1>1, <1>17, <1>9, <2>1, <2>2, <2>4, <2>5, CallFrame DEF NothingLeftOut
<1> QED  BY <1>1, <1>5, <1>7, <1>8, <1>10, <1>11, <1>12, <1>13, CallFrame DEF AnalysisInv, AnswerIsFound

LEMMA ListDependentsInv == ASSUME AnalysisInv, NEW e \in Entities, ListDependents(e) PROVE AnalysisInv'
<1> DEFINE rows == Using(e)
<1>1. /\ UNCHANGED <<graphVars, history, scope, named>>
      /\ root' = root /\ affected' = affected /\ answer' = answer
      /\ stage' = stage /\ devices' = devices
      /\ <<"dependents", e>> \in tasks
      /\ tasks' = tasks \ {<<"dependents", e>>} \/ tasks' = tasks
      /\ said' = (said \/ (TooMany(rows) /\ (scope # "area" \/ stage = "gatherDirect")))
      /\ cut' = (cut \/ TooMany(rows))
  BY DEF ListDependents
<1>2. PICK kept \in Kept(rows) : found' = found \cup kept
  BY DEF ListDependents
<1>3. rows \in SUBSET Dependents /\ \A x \in Dependents : x \in rows <=> <<x, e>> \in links
  BY DEF Using
<1>4. /\ kept \subseteq rows /\ IsFiniteSet(kept) /\ Cardinality(kept) \in Nat
      /\ ~TooMany(rows) => kept = rows
      /\ TooMany(rows) => Cardinality(kept) = Limit
  <2> HIDE DEF rows
  <2> QED  BY <1>2, <1>3, FiniteNodes, KeptIs
<1> HIDE DEF rows
<1>5. /\ stage \in {"gather", "gatherDirect"} /\ e \in Sought /\ OnTarget /\ OnTarget'
      /\ answer = NoAnswer /\ ~Answered /\ ~Answered'
  BY <1>1 DEF AnalysisInv, TasksFit, StageFits, OnTarget, Answered, NoAnswer
<1>6. cut' \in BOOLEAN /\ said' \in BOOLEAN /\ (said' => cut') /\ (cut => cut')
  BY <1>1 DEF AnalysisInv, AnalysisTypeOK
<1>7. found' \subseteq Dependents /\ found \subseteq found'
  BY <1>2, <1>3, <1>4 DEF AnalysisInv, AnalysisTypeOK
<1>8. AnalysisTypeOK'
  BY <1>1, <1>6, <1>7, CallFrame DEF AnalysisInv, AnalysisTypeOK
<1>9. Sources' = Sources /\ Sought' = Sought
  BY <1>1 DEF Sources, Sought, CallFrame, graphVars, history
<1>10. StageFits'
  BY <1>1, <1>5 DEF AnalysisInv, StageFits, OfScope
<1>11. TasksFit'
  BY <1>1, <1>9 DEF AnalysisInv, TasksFit
<1>12. NothingForeign'
  <2>1. NothingForeign /\ ever' = ever
    BY <1>1, <1>5, CallFrame DEF AnalysisInv
  <2>2. \A x \in kept : <<x, e>> \in ever
    BY <1>3, <1>4 DEF AnalysisInv
  <2>3. Reach(ever)' = Reach(ever)
    BY <1>1, <2>1, CallFrame DEF Reach
  <2> QED  BY <1>1, <1>2, <1>5, <1>9, <2>1, <2>2, <2>3 DEF NothingForeign
<1>13. NothingLeftOut'
  <2>1. NothingLeftOut
    BY <1>5 DEF AnalysisInv
  <2>2. Cardinality(found') \in Nat /\ Cardinality(found) \in Nat /\ Cardinality(found) <= Cardinality(found')
        /\ Cardinality(kept) <= Cardinality(found') /\ Limit \in Nat
    <3>1. IsFiniteSet(found') /\ kept \subseteq found' /\ found \subseteq found'
      BY <1>2, <1>7, FiniteNodes
    <3>2. Cardinality(found') \in Nat /\ Cardinality(found) \in Nat
      BY <1>7, FiniteNodes DEF AnalysisInv, AnalysisTypeOK
    <3> QED  BY <3>1, <3>2, FS_Subset, ImpactAssumption
  <2>3. \A x \in Dependents : <<x, e>> \in always => x \in found' \/ (cut' /\ Cardinality(found') >= Limit)
    BY <1>1, <1>2, <1>3, <1>4, <2>2 DEF AnalysisInv
  <2>4. \A c \in Sought, x \in Dependents :
           <<x, c>> \in always => <<"dependents", c>> \in tasks' \/ x \in found' \/ (cut' /\ Cardinality(found') >= Limit)
    <3> SUFFICES ASSUME NEW c \in Sought, NEW x \in Dependents, <<x, c>> \in always
                 PROVE  <<"dependents", c>> \in tasks' \/ x \in found' \/ (cut' /\ Cardinality(found') >= Limit)
      OBVIOUS
    <3>1. CASE c = e
      BY <2>3, <3>1
    <3>2. CASE c # e
      <4>1. <<"dependents", c>> \in tasks \/ x \in found \/ (cut /\ Cardinality(found) >= Limit)
        BY <2>1 DEF NothingLeftOut
      <4>2. Cardinality(found) >= Limit => Cardinality(found') >= Limit
        BY <2>2
      <4> QED  BY <1>1, <1>6, <1>7, <3>2, <4>1, <4>2
    <3> QED  BY <3>1, <3>2
  <2>5. \A t : t[1] # "dependents" => (t \in tasks <=> t \in tasks')
    BY <1>1
  <2>6. \A d : (<<"resolve", d>> \in tasks => <<"resolve", d>> \in tasks')
               /\ (<<"list", d>> \in tasks => <<"list", d>> \in tasks')
    BY <1>1
  <2> QED  BY <1>1, <1>6, <1>9, <2>1, <2>4, <2>6, CallFrame DEF NothingLeftOut
<1> QED  BY <1>1, <1>5, <1>6, <1>8, <1>10, <1>11, <1>12, <1>13, CallFrame DEF AnalysisInv, AnswerIsFound

LEMMA ListDirectInv == ASSUME AnalysisInv, ListDirect PROVE AnalysisInv'
<1> DEFINE rows == Under(root, Entities)
<1>1. /\ UNCHANGED <<graphVars, history, scope, named>>
      /\ root' = root /\ devices' = devices /\ found' = found /\ answer' = answer
      /\ stage = "gather" /\ stage' = "gatherDirect" /\ tasks = {} /\ scope = "area"
      /\ said' = (said \/ TooMany(rows)) /\ cut' = (cut \/ TooMany(rows))
  BY DEF ListDirect
<1>2. PICK kept \in Kept(rows) : affected' = affected \cup kept /\ tasks' = {"dependents"} \X kept
  BY DEF ListDirect
<1>3. rows \in SUBSET Entities /\ \A e \in Entities : e \in rows <=> <<root, e>> \in links
  BY DEF Under
<1>4. kept \subseteq rows /\ (~TooMany(rows) => kept = rows)
  <2> HIDE DEF rows
  <2> QED  BY <1>2, <1>3, FiniteNodes, KeptIs
<1> HIDE DEF rows
<1>5. OnTarget /\ OnTarget' /\ answer = NoAnswer /\ ~Answered /\ ~Answered'
  BY <1>1 DEF AnalysisInv, StageFits, OnTarget, Answered, NoAnswer
<1>6. cut' \in BOOLEAN /\ said' \in BOOLEAN /\ (said' => cut') /\ (cut => cut')
  BY <1>1 DEF AnalysisInv, AnalysisTypeOK
<1>7. AnalysisTypeOK'
  <2>1. tasks' \subseteq {"resolve", "list", "dependents"} \X AllNodes
    BY <1>2, <1>3, <1>4 DEF AllNodes
  <2>2. affected' \subseteq Entities
    BY <1>2, <1>3, <1>4 DEF AnalysisInv, AnalysisTypeOK
  <2> QED  BY <1>1, <1>6, <2>1, <2>2, CallFrame DEF AnalysisInv, AnalysisTypeOK
<1>8. Sources' = Sources /\ Sought' = Sought \cup kept /\ Sources = devices
  BY <1>1, <1>2 DEF Sources, Sought
<1>9. StageFits'
  BY <1>1, <1>5 DEF AnalysisInv, StageFits, OfScope
<1>10. TasksFit'
  BY <1>1, <1>2, <1>8 DEF TasksFit
<1>11. NothingForeign'
  <2>1. NothingForeign /\ ever' = ever
    BY <1>1, <1>5, CallFrame DEF AnalysisInv
  <2>2. \A e \in kept : e \in Entities /\ <<root, e>> \in ever
    BY <1>3, <1>4 DEF AnalysisInv
  <2>3. \A e \in kept : e \in Reach(ever)
    BY <1>1, <2>2 DEF Reach
  <2>4. Reach(ever)' = Reach(ever)
    BY <1>1, <2>1, CallFrame DEF Reach
  <2> QED  BY <1>1, <1>2, <1>8, <2>1, <2>3, <2>4 DEF NothingForeign
<1>12. NothingLeftOut'
  <2>1. NothingLeftOut
    BY <1>5 DEF AnalysisInv
  <2>2. ~cut' => ~cut /\ kept = rows
    BY <1>1, <1>4
  <2>3. \A e \in Entities : <<root, e>> \in always => e \in rows
    BY <1>3 DEF AnalysisInv
  <2>4. ~cut' => \A c \in Sources, e \in Entities : <<c, e>> \in always => e \in affected'
    BY <1>1, <1>2, <2>1, <2>2 DEF NothingLeftOut
  <2>5. \A e \in Sought', x \in Dependents :
           <<x, e>> \in always => <<"dependents", e>> \in tasks' \/ x \in found \/ (cut /\ Cardinality(found) >= Limit)
    BY <1>1, <1>2, <1>8, <2>1 DEF NothingLeftOut
  <2>6. ~cut' => \A e \in Entities : <<root, e>> \in always => e \in affected'
    BY <1>2, <2>2, <2>3
  <2> QED  BY <1>1, <1>2, <1>8, <2>1, <2>2, <2>4, <2>5, <2>6, CallFrame DEF NothingLeftOut
<1> QED  BY <1>1, <1>5, <1>6, <1>7, <1>9, <1>10, <1>11, <1>12, CallFrame DEF AnalysisInv, AnswerIsFound

LEMMA ReplyInv == ASSUME AnalysisInv, Reply PROVE AnalysisInv'
<1>1. /\ UNCHANGED <<graphVars, history, scope, named>>
      /\ root' = root /\ tasks' = tasks /\ devices' = devices /\ affected' = affected
      /\ found' = found /\ said' = said
      /\ tasks = {} /\ stage = (IF scope = "area" THEN "gatherDirect" ELSE "gather") /\ stage' = "answered"
      /\ cut' = (cut \/ TooMany(found))
  BY DEF Reply
<1>2. PICK kept \in Kept(found) : answer' = [outcome |-> "ok", dependents |-> kept]
  BY DEF Reply
<1>3. found \in SUBSET Dependents
  BY DEF AnalysisInv, AnalysisTypeOK
<1>4. /\ kept \subseteq found /\ Cardinality(kept) <= Limit
      /\ ~TooMany(found) => kept = found
      /\ TooMany(found) => Cardinality(kept) = Limit
  BY <1>2, <1>3, FiniteNodes, KeptIs
<1>5. cut' \in BOOLEAN /\ (cut => cut') /\ (TooMany(found) => cut')
  <2>1. cut \in BOOLEAN /\ TooMany(found) \in BOOLEAN
    BY <1>3, FiniteNodes, TooManyIs DEF AnalysisInv, AnalysisTypeOK
  <2> QED  BY <1>1, <2>1
<1>6. answer'.outcome = "ok" /\ answer'.dependents = kept
  BY <1>2
<1>7. OnTarget /\ OnTarget' /\ stage \in {"gather", "gatherDirect"} /\ (scope = "area" => stage = "gatherDirect")
  BY <1>1, <1>6 DEF OnTarget, Answered
<1>8. AnalysisTypeOK'
  BY <1>1, <1>3, <1>4, <1>5, <1>6, CallFrame DEF AnalysisInv, AnalysisTypeOK
<1>9. Sources' = Sources /\ Sought' = Sought /\ Reach(ever)' = Reach(ever)
  BY <1>1, CallFrame DEF Sources, Sought, Reach
<1>10. StageFits'
  BY <1>1, <1>7 DEF AnalysisInv, StageFits, OfScope
<1>11. TasksFit'
  BY <1>1 DEF TasksFit
<1>12. NothingForeign'
  BY <1>1, <1>7, <1>9, CallFrame DEF AnalysisInv, NothingForeign
<1>13. NothingLeftOut'
  <2>1. NothingLeftOut
    BY <1>7 DEF AnalysisInv
  <2> QED  BY <1>1, <1>5, <1>7, <1>9, <2>1, CallFrame DEF NothingLeftOut
<1>14. AnswerIsFound'
  BY <1>1, <1>4, <1>5, <1>6 DEF AnswerIsFound
<1>15. (said => cut)'
  BY <1>1, <1>5 DEF AnalysisInv
<1> QED  BY <1>8, <1>10, <1>11, <1>12, <1>13, <1>14, <1>15, <1>1, CallFrame DEF AnalysisInv

LEMMA AnalysisFailsInv == ASSUME AnalysisInv, AnalysisFails PROVE AnalysisInv'
<1>1. /\ UNCHANGED <<graphVars, history, scope, named>>
      /\ root' = root /\ tasks' = {} /\ devices' = devices /\ affected' = affected
      /\ found' = found /\ said' = said /\ cut' = cut
      /\ stage # "answered" /\ stage' = "answered"
      /\ answer' = [NoAnswer EXCEPT !.outcome = "error"]
  BY DEF AnalysisFails
<1>2. answer'.outcome = "error" /\ answer'.dependents = {} /\ Cardinality({}) <= Limit
  BY <1>1, FS_EmptySet, ImpactAssumption DEF NoAnswer
<1>3. ~OnTarget' /\ ~Answered'
  BY <1>1, <1>2 DEF OnTarget, Answered
<1>4. AnalysisTypeOK'
  BY <1>1, <1>2, CallFrame DEF AnalysisInv, AnalysisTypeOK
<1>5. StageFits' /\ TasksFit' /\ AnswerIsFound' /\ (said => cut)'
  BY <1>1, <1>3 DEF AnalysisInv, StageFits, TasksFit, AnswerIsFound
<1> QED  BY <1>1, <1>3, <1>4, <1>5, CallFrame DEF AnalysisInv

LEMMA AnalysisNextInv == AnalysisInv /\ [AnalysisNext]_analysisVars => AnalysisInv'
<1> SUFFICES ASSUME AnalysisInv, [AnalysisNext]_analysisVars PROVE AnalysisInv'
  OBVIOUS
<1>1. CASE UNCHANGED analysisVars
  <2>1. UNCHANGED <<nodes, links, changes, scope, named, stage, root, tasks, devices, affected, found,
                    said, answer, cut, ever, always>>
    BY <1>1 DEF analysisVars, graphVars, callVars, history
  <2>2. AnalysisTypeOK'
    BY <2>1 DEF AnalysisInv, AnalysisTypeOK, OfScope
  <2>3. StageFits' /\ TasksFit' /\ AnswerIsFound' /\ OnTarget' = OnTarget
    BY <2>1 DEF AnalysisInv, StageFits, TasksFit, AnswerIsFound, OnTarget, Answered, Sources, Sought,
                OfScope, NoAnswer
  <2>4. OnTarget => NothingForeign' /\ NothingLeftOut'
    BY <2>1 DEF AnalysisInv, NothingForeign, NothingLeftOut, Sources, Sought, Reach
  <2> QED  BY <2>1, <2>2, <2>3, <2>4 DEF AnalysisInv
<1> QED
  BY <1>1, ResolveInv, ListDevicesInv, ResolveDeviceInv, ListEntitiesInv, ListDependentsInv,
     ListDirectInv, ReplyInv, AnalysisFailsInv, GraphChangesInv
  DEF AnalysisNext

-----------------------------------------------------------------------------
(* The answer *)

LEMMA AnalysisInvSays == AnalysisInv => ImpactIsExact
<1> SUFFICES ASSUME AnalysisInv PROVE ImpactIsExact
  OBVIOUS
<1>1. ASSUME Answered PROVE /\ NothingForeign /\ NothingLeftOut /\ tasks = {} /\ stage = "answered"
                            /\ root \in OfScope(scope)
  BY <1>1 DEF AnalysisInv, OnTarget, StageFits, Answered, NoAnswer
<1>2. scope \in {"entity", "device", "area"} /\ found \in SUBSET Dependents /\ always \subseteq Pairs
  BY DEF AnalysisInv, AnalysisTypeOK, Scopes
<1>3. \A e \in Sought : Answered => e \in Reach(ever)
  BY <1>1 DEF Sought, Reach, NothingForeign
<1>4. NothingInvented
  <2> SUFFICES ASSUME Answered
               PROVE  answer.dependents \subseteq Impact(ever) /\ (scope # "entity" => affected \subseteq Reach(ever))
    BY DEF NothingInvented
  <2>1. \A x \in answer.dependents : x \in Dependents /\ x \in found
    BY <1>2 DEF AnalysisInv, AnswerIsFound
  <2> QED  BY <1>1, <1>3, <2>1 DEF NothingForeign, Impact
<1>5. ASSUME Answered, ~cut PROVE Reach(always) \subseteq Sought
  <2>1. CASE scope = "entity"
    BY <2>1 DEF Reach, Sought
  <2>2. CASE scope = "device"
    BY <1>1, <1>5, <2>2 DEF Reach, Sought, Sources, NothingLeftOut
  <2>3. CASE scope = "area"
    <3>1. \A d \in Devices : <<root, d>> \in always => d \in Sources
      BY <1>1, <1>5, <2>3 DEF Sources, NothingLeftOut
    <3>2. \A e \in Entities : <<root, e>> \in always => e \in affected
      BY <1>1, <1>5, <2>3 DEF NothingLeftOut
    <3>3. \A d \in Sources, e \in Entities : <<d, e>> \in always => e \in affected
      BY <1>1, <1>5 DEF NothingLeftOut
    <3> QED  BY <2>3, <3>1, <3>2, <3>3 DEF Reach, Sought
  <2> QED  BY <1>2, <2>1, <2>2, <2>3
<1>6. ASSUME Answered, Reach(always) \subseteq affected \cup {root} PROVE Reach(always) \subseteq Sought
  <2>1. CASE scope = "entity"
    BY <2>1 DEF Reach, Sought
  <2>2. CASE scope # "entity"
    <3>1. root \notin Entities
      BY <1>1, <1>2, <1>6, <2>2, ImpactAssumption DEF OfScope
    <3>2. Reach(always) \subseteq Entities
      BY <1>2, <2>2 DEF Reach
    <3> QED  BY <1>6, <2>2, <3>1, <3>2 DEF Sought
  <2> QED  BY <2>1, <2>2
<1>7. ASSUME Answered, Reach(always) \subseteq Sought
      PROVE  Impact(always) \subseteq found \/ Cardinality(found) >= Limit
  BY <1>1, <1>7 DEF Impact, NothingLeftOut
<1>8. ASSUME Answered, ~cut PROVE Impact(always) \subseteq answer.dependents
  <2>1. answer.dependents = found
    BY <1>8 DEF AnalysisInv, AnswerIsFound
  <2>2. Reach(always) \subseteq Sought
    BY <1>5, <1>8
  <2>3. \A e \in Sought, x \in Dependents : <<x, e>> \in always => x \in found
    BY <1>1, <1>8 DEF NothingLeftOut
  <2> QED  BY <2>1, <2>2, <2>3 DEF Impact
<1>9. ASSUME Answered, ~cut PROVE Reach(always) \ {root} \subseteq affected
  BY <1>5, <1>9 DEF Sought
<1>10. ASSUME Answered, cut, Reach(always) \subseteq affected \cup {root}
       PROVE  Cardinality(answer.dependents) >= Min({Limit, Cardinality(Impact(always))})
  <2>1. /\ Cardinality(answer.dependents) \in Nat /\ Cardinality(Impact(always)) \in Nat /\ Limit \in Nat
        /\ IsFiniteSet(found) /\ Cardinality(found) \in Nat
    <3>1. Impact(always) \in SUBSET Dependents /\ answer.dependents \in SUBSET Dependents
      BY DEF Impact, AnalysisInv, AnalysisTypeOK
    <3> QED  BY <1>2, <3>1, FiniteNodes, ImpactAssumption
  <2>2. \/ answer.dependents = found
        \/ Cardinality(answer.dependents) = Limit
    BY <1>10 DEF AnalysisInv, AnswerIsFound
  <2>3. Cardinality(found) >= Limit \/ Cardinality(Impact(always)) <= Cardinality(found)
    BY <1>6, <1>7, <1>10, <2>1, FS_Subset
  <2>4. /\ Min({Limit, Cardinality(Impact(always))}) \in Nat
        /\ Min({Limit, Cardinality(Impact(always))}) <= Limit
        /\ Min({Limit, Cardinality(Impact(always))}) <= Cardinality(Impact(always))
    BY <2>1, LeastOfTwo
  <2> QED  BY <2>1, <2>2, <2>3, <2>4
<1> QED
  BY <1>4, <1>8, <1>9, <1>10 DEF ImpactIsExact, NothingStableMissed, AnalysisInv

\* Whatever is written between its many queries, an impact analysis reports
\* nothing that did not depend on the target at some time of it, and all that
\* did all the time, up to the limit of its lists; it warns of a cut only where
\* there was one (impact_analysis.analyze).
THEOREM ImpactIsAlwaysExact == AnalysisSpec => []ImpactIsExact
<1>1. AnalysisSpec => []AnalysisInv
  BY AnalysisInitInv, AnalysisNextInv, PTL DEF AnalysisSpec
<1> QED  BY <1>1, AnalysisInvSays, PTL

(***************************************************************************)
(* Slices                                                                  *)
(***************************************************************************)

\* The pairs of a total order of a set.
IsOrder(S, R) ==
    /\ \A x, y \in S : <<x, y>> \in R \/ <<y, x>> \in R
    /\ \A x, y \in S : <<x, y>> \in R /\ <<y, x>> \in R => x = y
    /\ \A x, y, z \in S : <<x, y>> \in R /\ <<y, z>> \in R => <<x, z>> \in R

\* Every element of a set has a place of its own in it.
LEMMA OrderIsListed ==
    ASSUME NEW S, IsFiniteSet(S), NEW R, IsOrder(S, R)
    PROVE  /\ InOrder(S, R) \in [1..Cardinality(S) -> S]
           /\ \A x \in S : \E k \in 1..Cardinality(S) : InOrder(S, R)[k] = x
           /\ \A i, j \in 1..Cardinality(S) : InOrder(S, R)[i] = InOrder(S, R)[j] => i = j
           /\ \A k \in 1..Cardinality(S) : Cardinality({y \in S : <<y, InOrder(S, R)[k]>> \in R}) = k
<1> DEFINE n == Cardinality(S)
           Upto(x) == {y \in S : <<y, x>> \in R}
           Nth(k) == CHOOSE x \in S : Cardinality(Upto(x)) = k
           rank == [x \in S |-> Cardinality(Upto(x))]
<1>1. n \in Nat /\ \A x \in S : IsFiniteSet(Upto(x)) /\ Cardinality(Upto(x)) \in 1..n
  <2>1. ASSUME NEW x \in S PROVE IsFiniteSet(Upto(x)) /\ Cardinality(Upto(x)) \in 1..n
    <3>1. Upto(x) \in SUBSET S /\ x \in Upto(x)
      BY DEF IsOrder
    <3>2. IsFiniteSet(Upto(x)) /\ Cardinality(Upto(x)) <= n /\ Upto(x) # {}
      BY <3>1, FS_Subset
    <3> HIDE DEF Upto
    <3>3. Cardinality(Upto(x)) \in Nat /\ Cardinality(Upto(x)) # 0 /\ n \in Nat
      BY <3>2, FS_CardinalityType, FS_EmptySet
    <3> QED  BY <3>2, <3>3
  <2> QED  BY <2>1, FS_CardinalityType
<1>2. ASSUME NEW x \in S, NEW y \in S, x # y, Cardinality(Upto(x)) = Cardinality(Upto(y)) PROVE FALSE
  <2>1. ASSUME NEW a \in S, NEW b \in S, a # b, <<a, b>> \in R PROVE Cardinality(Upto(a)) # Cardinality(Upto(b))
    <3>1. Upto(a) \in SUBSET Upto(b) /\ b \in Upto(b) /\ b \notin Upto(a)
      BY <2>1 DEF IsOrder
    <3>2. Upto(a) # Upto(b) /\ IsFiniteSet(Upto(b))
      BY <1>1, <3>1
    <3> HIDE DEF Upto
    <3> QED  BY <3>1, <3>2, FS_Subset
  <2> HIDE DEF Upto
  <2>2. <<x, y>> \in R \/ <<y, x>> \in R
    BY DEF IsOrder
  <2> QED  BY <1>2, <2>1, <2>2
<1> HIDE DEF Upto
<1>3. rank \in Injection(S, 1..n)
  BY <1>1, <1>2 DEF Injection, IsInjective
<1>4. rank \in Surjection(S, 1..n)
  <2>1. IsFiniteSet(1..n) /\ Cardinality(1..n) = n
    BY <1>1, FS_Interval
  <2> QED  BY <1>3, <2>1, FS_Injection
<1>5. \A k \in 1..n : \E x \in S : Cardinality(Upto(x)) = k
  BY <1>4 DEF Surjection
<1>6. \A k \in 1..n : Nth(k) \in S /\ Cardinality(Upto(Nth(k))) = k
  BY <1>5
<1>7. InOrder(S, R) = [k \in 1..n |-> Nth(k)]
  BY DEF InOrder, Upto
<1> HIDE DEF Nth
<1>8. /\ InOrder(S, R) \in [1..n -> S]
      /\ \A k \in 1..n : Cardinality(Upto(InOrder(S, R)[k])) = k
  BY <1>6, <1>7
<1>9. \A x \in S : InOrder(S, R)[Cardinality(Upto(x))] = x
  BY <1>1, <1>2, <1>8
<1> QED  BY <1>1, <1>8, <1>9 DEF Upto

\* The elements of a set, one by one.
IsListing(p, P) ==
    /\ p \in [1..Cardinality(P) -> P]
    /\ \A i \in P : \E k \in 1..Cardinality(P) : p[k] = i
    /\ \A j, k \in 1..Cardinality(P) : p[j] = p[k] => j = k

\* a has what s has at the places that p lists.
IsTaken(a, p, s, P, n) ==
    /\ a = [k \in 1..Cardinality(P) |-> s[p[k]]]
    /\ IsListing(p, P)
    /\ P = 1..n => \A k \in 1..n : p[k] = k

\* What is taken of some places of a sequence, in their order.
LEMMA PlacesAre ==
    ASSUME NEW s, NEW n \in Nat, NEW P \in SUBSET (1..n)
    PROVE  /\ Cardinality(P) \in 0..n
           /\ \E p : IsTaken(At(s, P), p, s, P, n)
<1> DEFINE R == {q \in P \X P : q[1] <= q[2]}
           p == InOrder(P, R)
<1>1. IsFiniteSet(1..n) /\ Cardinality(1..n) = n
  BY FS_Interval
<1>2. IsFiniteSet(P) /\ Cardinality(P) <= n /\ Cardinality(P) \in Nat
  BY <1>1, FS_Subset, FS_CardinalityType
<1>3. \A i, j \in P : <<i, j>> \in R <=> i <= j
  OBVIOUS
<1>4. At(s, P) = [k \in 1..Cardinality(P) |-> s[p[k]]]
  BY DEF At
<1> HIDE DEF R
<1>5. \A i \in P : i \in 1..n /\ i \in Int
  OBVIOUS
<1>6. IsOrder(P, R)
  BY <1>3, <1>5 DEF IsOrder
<1>7. /\ p \in [1..Cardinality(P) -> P]
      /\ \A i \in P : \E k \in 1..Cardinality(P) : p[k] = i
      /\ \A j, k \in 1..Cardinality(P) : p[j] = p[k] => j = k
      /\ \A k \in 1..Cardinality(P) : Cardinality({y \in P : <<y, p[k]>> \in R}) = k
  BY <1>2, <1>6, OrderIsListed
<1> HIDE DEF p
<1>8. \A k \in 1..Cardinality(P) : Cardinality({y \in P : y <= p[k]}) = k
  <2>1. ASSUME NEW k \in 1..Cardinality(P) PROVE {y \in P : y <= p[k]} = {y \in P : <<y, p[k]>> \in R}
    <3>1. p[k] \in P
      BY <1>7
    <3> QED  BY <1>3, <3>1
  <2> QED  BY <1>7, <2>1
<1>9. ASSUME P = 1..n, NEW k \in 1..n PROVE p[k] = k
  <2>1. p[k] \in 1..n /\ Cardinality({y \in P : y <= p[k]}) = k
    BY <1>1, <1>7, <1>8, <1>9
  <2>2. {y \in P : y <= p[k]} = 1..p[k]
    BY <1>9, <2>1
  <2>3. Cardinality(1..p[k]) = p[k]
    BY <2>1, FS_Interval
  <2> QED  BY <2>1, <2>2, <2>3
<1>10. IsListing(p, P)
  BY <1>7 DEF IsListing
<1>11. IsTaken(At(s, P), p, s, P, n)
  BY <1>4, <1>9, <1>10 DEF IsTaken
<1> QED  BY <1>2, <1>11

\* The elements of a sequence are each at one place only.
IsOnce(s) == \A i, j \in 1..Len(s) : s[i] = s[j] => i = j

LEMMA AtIs ==
    ASSUME NEW T, NEW s \in Seq(T), NEW P \in SUBSET (1..Len(s))
    PROVE  /\ At(s, P) \in Seq(T) /\ Len(At(s, P)) <= Len(s)
           /\ \A x : (\E k \in 1..Len(At(s, P)) : At(s, P)[k] = x) <=> (\E i \in P : s[i] = x)
           /\ (\A i, j \in P : s[i] = s[j] => i = j) => IsOnce(At(s, P))
           /\ P = 1..Len(s) => At(s, P) = s
<1> DEFINE n == Len(s)
           m == Cardinality(P)
           a == At(s, P)
<1>1. n \in Nat /\ s \in [1..n -> T]
  OBVIOUS
<1> HIDE DEF n
<1>2. /\ m \in 0..n
      /\ \E p : IsTaken(a, p, s, P, n)
  <2>1. P \in SUBSET (1..n)
    BY DEF n
  <2> QED  BY <1>1, <2>1, PlacesAre
<1>3. PICK p : /\ a = [k \in 1..m |-> s[p[k]]]
               /\ IsListing(p, P)
               /\ P = 1..n => \A k \in 1..n : p[k] = k
  BY <1>2 DEF IsTaken
<1>4. P = 1..n => m = n
  BY <1>1, FS_Interval
<1> HIDE DEF a, m
<1>5. /\ \A k \in 1..m : p[k] \in P /\ a[k] = s[p[k]]
      /\ \A i \in P : \E k \in 1..m : p[k] = i
      /\ \A j, k \in 1..m : p[j] = p[k] => j = k
  BY <1>3 DEF IsListing, m
<1>6. m \in Nat /\ m <= n /\ P \subseteq 1..n
  BY <1>1, <1>2 DEF n
<1>7. a \in [1..m -> T]
  BY <1>1, <1>3, <1>5, <1>6
<1>8. a \in Seq(T) /\ Len(a) = m
  BY <1>6, <1>7
<1>9. ASSUME NEW x PROVE (\E k \in 1..m : a[k] = x) <=> (\E i \in P : s[i] = x)
  <2>1. ASSUME NEW k \in 1..m, a[k] = x PROVE \E i \in P : s[i] = x
    BY <1>5, <2>1
  <2>2. ASSUME NEW i \in P, s[i] = x PROVE \E k \in 1..m : a[k] = x
    <3>1. PICK k \in 1..m : p[k] = i
      BY <1>5
    <3> QED  BY <1>5, <2>2, <3>1
  <2> QED  BY <2>1, <2>2
<1>10. ASSUME \A i, j \in P : s[i] = s[j] => i = j, NEW j \in 1..m, NEW k \in 1..m, a[j] = a[k] PROVE j = k
  <2>1. s[p[j]] = s[p[k]] /\ p[j] \in P /\ p[k] \in P
    BY <1>5, <1>10
  <2>2. p[j] = p[k]
    BY <1>10, <2>1
  <2> QED  BY <1>5, <2>2
<1>11. ASSUME P = 1..n PROVE a = s
  <2>1. m = n /\ \A k \in 1..n : a[k] = s[k]
    BY <1>3, <1>4, <1>5, <1>11
  <2> QED  BY <1>1, <1>7, <2>1
<1>12. /\ \A x : (\E k \in 1..Len(a) : a[k] = x) <=> (\E i \in P : s[i] = x)
       /\ (\A i, j \in P : s[i] = s[j] => i = j) => IsOnce(a)
  BY <1>8, <1>9, <1>10 DEF IsOnce
<1> QED  BY <1>6, <1>8, <1>11, <1>12 DEF a, n

\* Of places there is a first one.
LEMMA FirstPlace ==
    ASSUME NEW n \in Nat, NEW P \in SUBSET (1..n), P # {}
    PROVE  \E i \in P : \A j \in P : i <= j
<1> DEFINE R == {q \in P \X P : q[1] <= q[2]}
           p == InOrder(P, R)
           Below(k) == {y \in P : <<y, p[k]>> \in R}
<1>1. IsFiniteSet(P)
  <2>1. IsFiniteSet(1..n)
    BY FS_Interval
  <2> QED  BY <2>1, FS_Subset
<1>2. Cardinality(P) \in Nat /\ Cardinality(P) # 0
  BY <1>1, FS_CardinalityType, FS_EmptySet
<1>3. \A i, j \in P : <<i, j>> \in R <=> i <= j
  OBVIOUS
<1>4. \A i \in P : i \in Int
  OBVIOUS
<1> HIDE DEF R
<1>5. IsOrder(P, R)
  BY <1>3, <1>4 DEF IsOrder
<1>6. /\ p \in [1..Cardinality(P) -> P]
      /\ \A k \in 1..Cardinality(P) : Cardinality(Below(k)) = k
  BY <1>1, <1>5, OrderIsListed
<1> HIDE DEF p
<1>7. p[1] \in P /\ Cardinality(Below(1)) = 1
  BY <1>2, <1>6
<1>8. IsFiniteSet(Below(1))
  BY <1>1, FS_Subset
<1>9. PICK x : Below(1) = {x}
  <2> HIDE DEF Below
  <2> QED  BY <1>7, <1>8, FS_Singleton
<1>10. ASSUME NEW j \in P PROVE p[1] <= j
  <2>1. ASSUME j <= p[1] PROVE j = p[1]
    <3>1. p[1] \in P /\ p[1] \in Int
      BY <1>4, <1>7
    <3>2. <<j, p[1]>> \in R /\ <<p[1], p[1]>> \in R
      BY <1>3, <2>1, <3>1
    <3>3. j \in Below(1) /\ p[1] \in Below(1)
      BY <3>1, <3>2
    <3> QED  BY <1>9, <3>3
  <2>2. p[1] \in Int /\ j \in Int
    BY <1>4, <1>7
  <2> QED  BY <2>1, <2>2
<1> QED  BY <1>7, <1>10

\* As many elements as places.
LEMMA OnceCounts == ASSUME NEW T, NEW s \in Seq(T), IsOnce(s) PROVE IsSet(s)
<1>1. s \in Bijection(1..Len(s), ToSet(s))
  BY DEF IsOnce, ToSet, Bijection, Injection, Surjection, IsInjective
<1>2. Len(s) \in Nat
  OBVIOUS
<1>3. Cardinality(ToSet(s)) = Len(s)
  BY <1>1, <1>2, FS_CountingElements DEF ExistsBijection
<1> QED  BY <1>3 DEF IsSet

LEMMA UniqueIs ==
    ASSUME NEW T, NEW s \in Seq(T)
    PROVE  /\ Unique(s) \in Seq(T) /\ Len(Unique(s)) <= Len(s)
           /\ ToSet(Unique(s)) = ToSet(s)
           /\ IsOnce(Unique(s))
           /\ IsOnce(s) => Unique(s) = s
<1> DEFINE P == {i \in DOMAIN s : \A j \in DOMAIN s : j < i => s[j] # s[i]}
<1>1. DOMAIN s = 1..Len(s) /\ Len(s) \in Nat /\ P \in SUBSET (1..Len(s))
  OBVIOUS
<1>2. Unique(s) = At(s, P)
  BY DEF Unique
<1>3. ASSUME NEW i \in 1..Len(s) PROVE \E j \in P : s[j] = s[i]
  <2> DEFINE Q == {j \in 1..Len(s) : s[j] = s[i]}
  <2>1. Q \in SUBSET (1..Len(s)) /\ i \in Q /\ \A j \in Q : j \in 1..Len(s) /\ s[j] = s[i]
    OBVIOUS
  <2>2. \A j \in 1..Len(s) : s[j] = s[i] => j \in Q
    OBVIOUS
  <2> HIDE DEF Q
  <2>3. PICK j \in Q : \A k \in Q : j <= k
    BY <1>1, <2>1, FirstPlace
  <2>4. \A k \in DOMAIN s : k < j => s[k] # s[j]
    BY <1>1, <2>1, <2>2, <2>3
  <2> QED  BY <1>1, <2>1, <2>4
<1>4. ASSUME NEW i \in P, NEW j \in P, s[i] = s[j] PROVE i = j
  BY <1>1, <1>4
<1>5. ASSUME IsOnce(s) PROVE P = 1..Len(s)
  BY <1>1, <1>5 DEF IsOnce
<1> HIDE DEF P
<1>6. /\ Unique(s) \in Seq(T) /\ Len(Unique(s)) <= Len(s)
      /\ \A x : (\E k \in 1..Len(Unique(s)) : Unique(s)[k] = x) <=> (\E i \in P : s[i] = x)
      /\ IsOnce(Unique(s))
      /\ IsOnce(s) => Unique(s) = s
  <2>1. /\ At(s, P) \in Seq(T) /\ Len(At(s, P)) <= Len(s)
        /\ \A x : (\E k \in 1..Len(At(s, P)) : At(s, P)[k] = x) <=> (\E i \in P : s[i] = x)
        /\ (\A i, j \in P : s[i] = s[j] => i = j) => IsOnce(At(s, P))
        /\ P = 1..Len(s) => At(s, P) = s
    BY <1>1, AtIs
  <2> QED  BY <1>2, <1>4, <1>5, <2>1
<1>7. ToSet(Unique(s)) = ToSet(s)
  <2>1. DOMAIN Unique(s) = 1..Len(Unique(s))
    BY <1>6
  <2>2. ASSUME NEW x PROVE x \in ToSet(Unique(s)) <=> x \in ToSet(s)
    BY <1>1, <1>3, <1>6, <2>1 DEF ToSet
  <2> QED  BY <2>2
<1> QED  BY <1>6, <1>7

\* The first k elements, or all.
LEMMA UpToIs ==
    ASSUME NEW T, NEW s \in Seq(T), NEW k \in Nat
    PROVE  /\ UpTo(s, k) \in Seq(T)
           /\ Len(UpTo(s, k)) = IF Len(s) <= k THEN Len(s) ELSE k
           /\ \A i \in 1..Len(UpTo(s, k)) : UpTo(s, k)[i] = s[i]
           /\ ToSet(UpTo(s, k)) \subseteq ToSet(s)
           /\ IsOnce(s) => IsOnce(UpTo(s, k))
<1>1. /\ UpTo(s, k) \in Seq(T)
      /\ Len(UpTo(s, k)) = IF Len(s) <= k THEN Len(s) ELSE k
      /\ \A i \in 1..Len(UpTo(s, k)) : UpTo(s, k)[i] = s[i]
  BY DEF UpTo
<1>2. Len(s) \in Nat /\ Len(UpTo(s, k)) \in Nat /\ Len(UpTo(s, k)) <= Len(s)
  BY <1>1
<1>3. ToSet(UpTo(s, k)) \subseteq ToSet(s)
  BY <1>1, <1>2 DEF ToSet
<1>4. IsOnce(s) => IsOnce(UpTo(s, k))
  BY <1>1, <1>2 DEF IsOnce
<1> QED  BY <1>1, <1>3, <1>4

\* The graph is one of those that the operations of the integration can make.
GraphTyped ==
    /\ graph \subseteq Members
    /\ relations \subseteq Links
    /\ order \in Orders
    /\ \A l \in relations : l.from \in graph /\ l.to \in graph

\* Ids name nodes, and relationships.
LEMMA IdsDiffer ==
    /\ \A m, n \in Members : Id(m) = Id(n) => m = n
    /\ \A k, l \in Links : LinkId(k) = LinkId(l) => k = l
<1>1. ASSUME NEW m \in Members, NEW n \in Members, Id(m) = Id(n) PROVE m = n
  BY <1>1, GraphSliceAssumption
<1>2. ASSUME NEW k \in Links, NEW l \in Links, LinkId(k) = LinkId(l) PROVE k = l
  <2>1. k.from \in Members /\ k.to \in Members /\ l.from \in Members /\ l.to \in Members
    BY GraphSliceAssumption
  <2>2. k.type = l.type /\ Id(k.from) = Id(l.from) /\ Id(k.to) = Id(l.to)
    BY <1>2 DEF LinkId
  <2>3. k.from = l.from /\ k.to = l.to
    BY <1>1, <2>1, <2>2
  <2> QED  BY <2>2, <2>3, GraphSliceAssumption
<1> QED  BY <1>1, <1>2

LEMMA OrderIsOne ==
    ASSUME GraphTyped
    PROVE  /\ order \in Seq(Members) /\ DOMAIN order = 1..Len(order)
           /\ \A n : (\E i \in DOMAIN order : order[i] = n) <=> n \in Members
           /\ \A i, j \in DOMAIN order : order[i] = order[j] => i = j
<1>1. /\ order \in Seq(Members) /\ ToSet(order) = Members
      /\ \A i, j \in DOMAIN order : order[i] = order[j] => i = j
  BY GraphSliceAssumption DEF GraphTyped
<1> QED  BY <1>1 DEF ToSet

LEMMA PlaceInOrder ==
    ASSUME GraphTyped, NEW n \in Members
    PROVE  Position(n) \in 1..Len(order) /\ order[Position(n)] = n
<1>1. DOMAIN order = 1..Len(order) /\ \E i \in DOMAIN order : order[i] = n
  BY OrderIsOne
<1> QED  BY <1>1 DEF Position

\* What is matched is matched once.
LEMMA MatchesAre ==
    ASSUME GraphTyped, NEW S
    PROVE  Matches(S) \in Seq(graph) /\ ToSet(Matches(S)) = S \intersect graph /\ IsOnce(Matches(S))
<1> DEFINE P == {i \in DOMAIN order : order[i] \in S \intersect graph}
<1>1. order \in Seq(Members) /\ DOMAIN order = 1..Len(order) /\ P \in SUBSET (1..Len(order))
  BY OrderIsOne
<1>2. \A i, j \in P : order[i] = order[j] => i = j
  BY OrderIsOne
<1>3. \A x : (\E i \in P : order[i] = x) <=> x \in S \intersect graph
  BY OrderIsOne DEF GraphTyped
<1>4. Matches(S) = At(order, P)
  BY DEF Matches
<1> HIDE DEF P
<1>5. /\ At(order, P) \in Seq(Members)
      /\ \A x : (\E k \in 1..Len(At(order, P)) : At(order, P)[k] = x) <=> (\E i \in P : order[i] = x)
      /\ (\A i, j \in P : order[i] = order[j] => i = j) => IsOnce(At(order, P))
  BY <1>1, AtIs
<1>6. Matches(S) \in Seq(Members) /\ IsOnce(Matches(S))
  BY <1>2, <1>4, <1>5
<1>7. \A x : (\E k \in 1..Len(Matches(S)) : Matches(S)[k] = x) <=> x \in S \intersect graph
  BY <1>3, <1>4, <1>5
<1>8. DOMAIN Matches(S) = 1..Len(Matches(S)) /\ Len(Matches(S)) \in Nat
  BY <1>6
<1>9. ToSet(Matches(S)) = S \intersect graph
  BY <1>7, <1>8 DEF ToSet
<1>10. Matches(S) \in Seq(graph)
  BY <1>6, <1>7, <1>8
<1> QED  BY <1>6, <1>9, <1>10

\* What is in an order is there once.
LEMMA InOrderIs ==
    ASSUME NEW S, IsFiniteSet(S), NEW R, IsOrder(S, R)
    PROVE  InOrder(S, R) \in Seq(S) /\ ToSet(InOrder(S, R)) = S /\ IsOnce(InOrder(S, R))
<1> DEFINE a == InOrder(S, R)
           n == Cardinality(S)
<1>1. /\ a \in [1..n -> S]
      /\ \A x \in S : \E k \in 1..n : a[k] = x
      /\ \A i, j \in 1..n : a[i] = a[j] => i = j
  BY OrderIsListed
<1>2. n \in Nat
  BY FS_CardinalityType
<1> HIDE DEF a, n
<1>3. a \in Seq(S) /\ Len(a) = n /\ DOMAIN a = 1..n
  BY <1>1, <1>2
<1>4. ToSet(a) = S
  BY <1>1, <1>3 DEF ToSet
<1>5. IsOnce(a)
  BY <1>1, <1>3 DEF IsOnce
<1> QED  BY <1>3, <1>4, <1>5 DEF a

Incident(n) == {l \in relations : n \in {l.from, l.to}}

LEMMA OtherEndIs ==
    ASSUME NEW n, NEW l \in Links, n \in {l.from, l.to}
    PROVE  OtherEnd(l, n) \in Members /\ {l.from, l.to} = {n, OtherEnd(l, n)} /\ OtherEnd(l, n) # n
BY GraphSliceAssumption DEF OtherEnd

LEMMA LinksOfAre ==
    ASSUME GraphTyped, NEW n
    PROVE  LinksOf(n) \in Seq(relations) /\ ToSet(LinksOf(n)) = Incident(n) /\ IsOnce(LinksOf(n))
<1> DEFINE R == {p \in Incident(n) \X Incident(n) : IsBefore(p[1], p[2], n)}
           At1(l) == Position(OtherEnd(l, n))
<1>1. IsFiniteSet(Incident(n))
  BY FS_Subset, GraphSliceAssumption DEF Incident, GraphTyped
<1>2. LinksOf(n) = InOrder(Incident(n), R)
  BY DEF LinksOf, Incident
<1>3. \A k, l \in Incident(n) : <<k, l>> \in R <=> At1(k) < At1(l) \/ (At1(k) = At1(l) /\ k.type <= l.type)
  BY DEF IsBefore
<1>4. \A l \in Incident(n) : At1(l) \in Nat /\ l.type \in Nat
  <2>1. ASSUME NEW l \in Incident(n) PROVE At1(l) \in Nat /\ l.type \in Nat
    <3>1. l \in Links /\ OtherEnd(l, n) \in Members
      BY OtherEndIs DEF Incident, GraphTyped
    <3> QED  BY <3>1, PlaceInOrder, GraphSliceAssumption
  <2> QED  BY <2>1
<1>5. ASSUME NEW k \in Incident(n), NEW l \in Incident(n), At1(k) = At1(l), k.type = l.type PROVE k = l
  <2>1. k \in Links /\ l \in Links /\ n \in {k.from, k.to} /\ n \in {l.from, l.to}
    BY DEF Incident, GraphTyped
  <2>2. /\ OtherEnd(k, n) \in Members /\ {k.from, k.to} = {n, OtherEnd(k, n)}
        /\ OtherEnd(l, n) \in Members /\ {l.from, l.to} = {n, OtherEnd(l, n)}
    BY <2>1, OtherEndIs
  <2>3. OtherEnd(k, n) = OtherEnd(l, n)
    BY <1>5, <2>2, PlaceInOrder
  <2> QED  BY <1>5, <2>1, <2>2, <2>3, GraphSliceAssumption
<1> HIDE DEF R, At1
<1>6. IsOrder(Incident(n), R)
  <2>1. ASSUME NEW k \in Incident(n), NEW l \in Incident(n), <<k, l>> \in R, <<l, k>> \in R PROVE k = l
    <3>1. At1(k) = At1(l) /\ k.type = l.type
      BY <1>3, <1>4, <2>1
    <3> QED  BY <1>5, <3>1
  <2>2. ASSUME NEW k \in Incident(n), NEW l \in Incident(n) PROVE <<k, l>> \in R \/ <<l, k>> \in R
    BY <1>3, <1>4
  <2>3. ASSUME NEW k \in Incident(n), NEW l \in Incident(n), NEW m \in Incident(n),
               <<k, l>> \in R, <<l, m>> \in R
        PROVE  <<k, m>> \in R
    BY <1>3, <1>4, <2>3
  <2> QED  BY <2>1, <2>2, <2>3 DEF IsOrder
<1>7. /\ LinksOf(n) \in Seq(Incident(n)) /\ ToSet(LinksOf(n)) = Incident(n) /\ IsOnce(LinksOf(n))
  BY <1>1, <1>2, <1>6, InOrderIs
<1>8. LinksOf(n) \in Seq(relations)
  BY <1>7 DEF Incident
<1> QED  BY <1>7, <1>8

\* The neighbours of a node are the other ends of its relationships.
LEMMA NeighboursAre ==
    ASSUME GraphTyped, NEW n
    PROVE  /\ NeighboursOf(n) \in Seq(graph) /\ IsOnce(NeighboursOf(n))
           /\ ToSet(NeighboursOf(n)) = {OtherEnd(l, n) : l \in Incident(n)}
           /\ n \notin ToSet(NeighboursOf(n))
<1>1. /\ NeighboursOf(n) \in Seq(graph) /\ IsOnce(NeighboursOf(n))
      /\ ToSet(NeighboursOf(n)) = {OtherEnd(l, n) : l \in Incident(n)} \intersect graph
  BY MatchesAre DEF NeighboursOf, Incident
<1>2. ASSUME NEW l \in Incident(n) PROVE OtherEnd(l, n) \in graph /\ OtherEnd(l, n) # n
  BY OtherEndIs DEF Incident, GraphTyped, OtherEnd
<1> QED  BY <1>1, <1>2

LEMMA ListIs ==
    ASSUME NEW n \in Nat, NEW U, NEW a \in [1..n -> U]
    PROVE  a \in Seq(U) /\ Len(a) = n /\ ToSet(a) = {a[i] : i \in 1..n}
<1>1. a \in Seq(U) /\ Len(a) = n /\ DOMAIN a = 1..n
  OBVIOUS
<1> QED  BY <1>1 DEF ToSet

LEMMA SeqIsWider == ASSUME NEW V, NEW U \in SUBSET V, NEW s \in Seq(U) PROVE s \in Seq(V)
OBVIOUS

\* What is made of each element.
LEMMA EachIs ==
    ASSUME NEW T, NEW s \in Seq(T)
    PROVE  /\ /\ Each(Id, s) \in Seq({Id(n) : n \in T}) /\ Len(Each(Id, s)) = Len(s)
              /\ \A i \in 1..Len(s) : Each(Id, s)[i] = Id(s[i])
              /\ ToSet(Each(Id, s)) = {Id(n) : n \in ToSet(s)}
           /\ /\ Each(DirectId, s) \in Seq({DirectId(n) : n \in T}) /\ Len(Each(DirectId, s)) = Len(s)
              /\ \A i \in 1..Len(s) : Each(DirectId, s)[i] = DirectId(s[i])
              /\ ToSet(Each(DirectId, s)) = {DirectId(n) : n \in ToSet(s)}
           /\ /\ Each(LinkId, s) \in Seq({LinkId(l) : l \in T}) /\ Len(Each(LinkId, s)) = Len(s)
              /\ \A i \in 1..Len(s) : Each(LinkId, s)[i] = LinkId(s[i])
              /\ ToSet(Each(LinkId, s)) = {LinkId(l) : l \in ToSet(s)}
<1>1. DOMAIN s = 1..Len(s) /\ Len(s) \in Nat /\ (\A i \in 1..Len(s) : s[i] \in T) /\ ToSet(s) \subseteq T
  BY DEF ToSet
<1>2. /\ Each(Id, s) \in Seq({Id(n) : n \in T}) /\ Len(Each(Id, s)) = Len(s)
      /\ \A i \in 1..Len(s) : Each(Id, s)[i] = Id(s[i])
      /\ ToSet(Each(Id, s)) = {Id(n) : n \in ToSet(s)}
  <2> DEFINE U == {Id(n) : n \in T}
             a == Each(Id, s)
  <2>1. a \in [1..Len(s) -> U] /\ \A i \in 1..Len(s) : a[i] = Id(s[i])
    BY <1>1 DEF Each
  <2>2. {Id(n) : n \in ToSet(s)} = {Id(s[i]) : i \in 1..Len(s)}
    BY <1>1 DEF ToSet
  <2> HIDE DEF a, U
  <2>3. a \in Seq(U) /\ Len(a) = Len(s) /\ ToSet(a) = {a[i] : i \in 1..Len(s)}
    BY <1>1, <2>1, ListIs
  <2>4. {a[i] : i \in 1..Len(s)} = {Id(s[i]) : i \in 1..Len(s)}
    BY <2>1
  <2>5. ToSet(a) = {Id(n) : n \in ToSet(s)}
    BY <2>2, <2>3, <2>4
  <2> QED  BY <2>1, <2>3, <2>5 DEF a, U
<1>3. /\ Each(DirectId, s) \in Seq({DirectId(n) : n \in T}) /\ Len(Each(DirectId, s)) = Len(s)
      /\ \A i \in 1..Len(s) : Each(DirectId, s)[i] = DirectId(s[i])
      /\ ToSet(Each(DirectId, s)) = {DirectId(n) : n \in ToSet(s)}
  <2> DEFINE U == {DirectId(n) : n \in T}
             a == Each(DirectId, s)
  <2>1. a \in [1..Len(s) -> U] /\ \A i \in 1..Len(s) : a[i] = DirectId(s[i])
    BY <1>1 DEF Each
  <2>2. {DirectId(n) : n \in ToSet(s)} = {DirectId(s[i]) : i \in 1..Len(s)}
    BY <1>1 DEF ToSet
  <2> HIDE DEF a, U
  <2>3. a \in Seq(U) /\ Len(a) = Len(s) /\ ToSet(a) = {a[i] : i \in 1..Len(s)}
    BY <1>1, <2>1, ListIs
  <2>4. {a[i] : i \in 1..Len(s)} = {DirectId(s[i]) : i \in 1..Len(s)}
    BY <2>1
  <2>5. ToSet(a) = {DirectId(n) : n \in ToSet(s)}
    BY <2>2, <2>3, <2>4
  <2> QED  BY <2>1, <2>3, <2>5 DEF a, U
<1>4. /\ Each(LinkId, s) \in Seq({LinkId(l) : l \in T}) /\ Len(Each(LinkId, s)) = Len(s)
      /\ \A i \in 1..Len(s) : Each(LinkId, s)[i] = LinkId(s[i])
      /\ ToSet(Each(LinkId, s)) = {LinkId(l) : l \in ToSet(s)}
  <2> DEFINE U == {LinkId(l) : l \in T}
             a == Each(LinkId, s)
  <2>1. a \in [1..Len(s) -> U] /\ \A i \in 1..Len(s) : a[i] = LinkId(s[i])
    BY <1>1 DEF Each
  <2>2. {LinkId(l) : l \in ToSet(s)} = {LinkId(s[i]) : i \in 1..Len(s)}
    BY <1>1 DEF ToSet
  <2> HIDE DEF a, U
  <2>3. a \in Seq(U) /\ Len(a) = Len(s) /\ ToSet(a) = {a[i] : i \in 1..Len(s)}
    BY <1>1, <2>1, ListIs
  <2>4. {a[i] : i \in 1..Len(s)} = {LinkId(s[i]) : i \in 1..Len(s)}
    BY <2>1
  <2>5. ToSet(a) = {LinkId(l) : l \in ToSet(s)}
    BY <2>2, <2>3, <2>4
  <2> QED  BY <2>1, <2>3, <2>5 DEF a, U
<1> QED  BY <1>2, <1>3, <1>4

\* What can be drawn goes out, and once.
LEMMA RenderableIs ==
    ASSUME NEW ids, NEW T, NEW s \in Seq(T)
    PROVE  /\ Renderable(ids, s) \in Seq(T) /\ Len(Renderable(ids, s)) <= Len(s)
           /\ IsOnce(Renderable(ids, s))
           /\ ToSet(Renderable(ids, s)) = {r \in ToSet(s) : Ends(r) \subseteq ToSet(ids)}
<1> DEFINE P == {i \in DOMAIN s : Ends(s[i]) \subseteq ToSet(ids)}
           a == At(s, P)
<1>1. DOMAIN s = 1..Len(s) /\ P \in SUBSET (1..Len(s)) /\ Len(s) \in Nat
  OBVIOUS
<1>2. /\ a \in Seq(T) /\ Len(a) <= Len(s)
      /\ \A x : (\E k \in 1..Len(a) : a[k] = x) <=> (\E i \in P : s[i] = x)
  <2> HIDE DEF P
  <2> QED  BY <1>1, AtIs
<1>3. Renderable(ids, s) = Unique(a)
  BY DEF Renderable
<1>4. \A x : (\E i \in P : s[i] = x) <=> x \in ToSet(s) /\ Ends(x) \subseteq ToSet(ids)
  BY <1>1 DEF ToSet
<1> HIDE DEF a, P
<1>5. DOMAIN a = 1..Len(a) /\ Len(a) \in Nat
  BY <1>2
<1>6. ToSet(a) = {r \in ToSet(s) : Ends(r) \subseteq ToSet(ids)}
  BY <1>2, <1>4, <1>5 DEF ToSet
<1>7. /\ Unique(a) \in Seq(T) /\ Len(Unique(a)) <= Len(a)
      /\ ToSet(Unique(a)) = ToSet(a)
      /\ IsOnce(Unique(a))
  BY <1>2, UniqueIs
<1>8. Len(Unique(a)) \in Nat
  BY <1>7
<1> QED  BY <1>1, <1>2, <1>3, <1>5, <1>6, <1>7, <1>8

\* The ids that a backend gives to nodes.
Ids(by, s) == IF by = "direct" THEN Each(DirectId, s) ELSE Each(Id, s)

SliceForm(ids, row, nodeLimit, edgeLimit) ==
    SliceRecord(ids, Renderable(ids, Each(LinkId, UpTo(row.links, edgeLimit))), Cut(row, nodeLimit, edgeLimit))

\* Both backends send what can be drawn with the ids they give.
LEMMA SliceHasForm ==
    ASSUME NEW by \in {"direct", "addon"}, NEW row, NEW nodeLimit, NEW edgeLimit
    PROVE  SliceOf(by, row, nodeLimit, edgeLimit) =
               SliceForm(Unique(Ids(by, UpTo(row.nodes, nodeLimit))), row, nodeLimit, edgeLimit)
<1>1. CASE by = "direct"
  BY <1>1 DEF SliceOf, DirectSlice, SliceForm, Ids
<1>2. CASE by = "addon"
  <2> DEFINE sent == GraphqlSlice(row, nodeLimit, edgeLimit)
  <2>1. /\ sent.nodes = Each(Id, UpTo(row.nodes, nodeLimit))
        /\ sent.relationships = Each(LinkId, UpTo(row.links, edgeLimit))
        /\ sent.truncated = Cut(row, nodeLimit, edgeLimit)
    BY DEF GraphqlSlice, SliceRecord
  <2>2. SliceOf(by, row, nodeLimit, edgeLimit) = NormalizeGraphqlSlice(sent)
    BY <1>2 DEF SliceOf
  <2> HIDE DEF sent
  <2> QED  BY <1>2, <2>1, <2>2 DEF NormalizeGraphqlSlice, SliceForm, Ids
<1> QED  BY <1>1, <1>2

\* The ids of a list of nodes, as the backend in use gives them.
Shown(s) == [i \in DOMAIN s |-> ShownId(s[i])]

LEMMA IdsAre ==
    ASSUME GraphTyped, NEW by \in {"direct", "addon"}, NEW s \in Seq(graph)
    PROVE  /\ Ids(by, s) \in Seq({Id(n) : n \in graph} \union {DirectId(n) : n \in graph})
           /\ Len(Ids(by, s)) = Len(s)
           /\ \A id \in ToSet(Ids(by, s)) : id[1] = "Other" \/ WithId(id) # {}
           /\ by = backend => /\ Ids(by, s) = Shown(s)
                              /\ ToSet(Ids(by, s)) = ShownIds(ToSet(s))
<1>1. CASE by = "direct"
  <2>1. Ids(by, s) = Each(DirectId, s)
    BY <1>1 DEF Ids
  <2>2. Each(DirectId, s) \in Seq({DirectId(n) : n \in graph}) /\ Len(Each(DirectId, s)) = Len(s)
    BY EachIs
  <2>3. ToSet(Each(DirectId, s)) = {DirectId(n) : n \in ToSet(s)}
    BY EachIs
  <2>4. ToSet(s) \subseteq graph
    BY DEF ToSet
  <2>5. ASSUME NEW n \in graph PROVE DirectId(n)[1] = "Other" \/ WithId(DirectId(n)) # {}
    BY DEF DirectId, WithId
  <2>7. Each(DirectId, s) \in Seq({Id(n) : n \in graph} \union {DirectId(n) : n \in graph})
    BY <2>2, SeqIsWider
  <2>6. ASSUME by = backend
        PROVE  /\ Each(DirectId, s) = Shown(s)
               /\ ToSet(Each(DirectId, s)) = ShownIds(ToSet(s))
    BY <1>1, <2>3, <2>6 DEF Each, Shown, ShownId, ShownIds
  <2>8. \A id \in ToSet(Each(DirectId, s)) : id[1] = "Other" \/ WithId(id) # {}
    BY <2>3, <2>4, <2>5
  <2> QED  BY <2>1, <2>2, <2>6, <2>7, <2>8
<1>2. CASE by = "addon"
  <2>1. Ids(by, s) = Each(Id, s)
    BY <1>2 DEF Ids
  <2>2. Each(Id, s) \in Seq({Id(n) : n \in graph}) /\ Len(Each(Id, s)) = Len(s)
    BY EachIs
  <2>3. ToSet(Each(Id, s)) = {Id(n) : n \in ToSet(s)}
    BY EachIs
  <2>4. ToSet(s) \subseteq graph
    BY DEF ToSet
  <2>5. ASSUME NEW n \in graph PROVE WithId(Id(n)) # {}
    BY DEF WithId
  <2>6. Each(Id, s) \in Seq({Id(n) : n \in graph} \union {DirectId(n) : n \in graph})
    BY <2>2, SeqIsWider
  <2>7. \A id \in ToSet(Each(Id, s)) : WithId(id) # {}
    BY <2>3, <2>4, <2>5
  <2>8. ASSUME by = backend
        PROVE  /\ Each(Id, s) = Shown(s)
               /\ ToSet(Each(Id, s)) = ShownIds(ToSet(s))
    BY <1>2, <2>3, <2>8 DEF Each, Shown, ShownId, ShownIds
  <2> QED  BY <2>1, <2>2, <2>6, <2>7, <2>8
<1> QED  BY <1>1, <1>2

\* A row of nodes and relationships of the graph.
RowIs(row) == row.nodes \in Seq(graph) /\ row.links \in Seq(relations)

\* A slice can be drawn: within its limits, nothing twice, and both ends there.
LEMMA SliceIsClosed ==
    ASSUME GraphTyped, NEW by \in {"direct", "addon"}, NEW row, RowIs(row), NEW n \in Nat, NEW e \in Nat
    PROVE  LET slice == SliceOf(by, row, n, e)
           IN  /\ Len(slice.nodes) <= n /\ Len(slice.relationships) <= e
               /\ IsSet(slice.nodes) /\ IsSet(slice.relationships)
               /\ \A r \in ToSet(slice.relationships) : Ends(r) \subseteq ToSet(slice.nodes)
               /\ \A id \in ToSet(slice.nodes) : id[1] = "Other" \/ WithId(id) # {}
<1> DEFINE some == UpTo(row.nodes, n)
           given == Ids(by, some)
           ids == Unique(given)
           q == UpTo(row.links, e)
           given2 == Each(LinkId, q)
           rels == Renderable(ids, given2)
           slice == SliceOf(by, row, n, e)
           T == {Id(m) : m \in graph} \union {DirectId(m) : m \in graph}
           U == {LinkId(l) : l \in relations}
<1>1. some \in Seq(graph) /\ Len(some) <= n /\ q \in Seq(relations) /\ Len(q) <= e
  <2> HIDE DEF given, ids, given2, rels, slice, T, U
  <2>0. row.nodes \in Seq(graph) /\ row.links \in Seq(relations)
    BY DEF RowIs
  <2>1. some \in Seq(graph) /\ Len(some) = IF Len(row.nodes) <= n THEN Len(row.nodes) ELSE n
    BY <2>0, UpToIs
  <2>2. q \in Seq(relations) /\ Len(q) = IF Len(row.links) <= e THEN Len(row.links) ELSE e
    BY <2>0, UpToIs
  <2>3. Len(row.nodes) \in Nat /\ Len(row.links) \in Nat
    BY DEF RowIs
  <2> HIDE DEF some, q
  <2> QED  BY <2>1, <2>2, <2>3
<1>2. slice = SliceRecord(ids, rels, Cut(row, n, e))
  BY SliceHasForm DEF SliceForm
<1>3. slice.nodes = ids /\ slice.relationships = rels
  <2> HIDE DEF slice, ids, rels
  <2> QED  BY <1>2 DEF SliceRecord
<1> HIDE DEF some, q
<1>4. /\ given \in Seq(T) /\ Len(given) = Len(some)
      /\ \A id \in ToSet(given) : id[1] = "Other" \/ WithId(id) # {}
  BY <1>1, IdsAre
<1>5. given2 \in Seq(U) /\ Len(given2) = Len(q)
  BY <1>1, EachIs
<1> HIDE DEF given, given2, T, U
<1>6. ids \in Seq(T) /\ Len(ids) <= Len(given) /\ ToSet(ids) = ToSet(given) /\ IsOnce(ids)
  BY <1>4, UniqueIs
<1> HIDE DEF ids
<1>7. /\ rels \in Seq(U) /\ Len(rels) <= Len(given2) /\ IsOnce(rels)
      /\ \A r \in ToSet(rels) : Ends(r) \subseteq ToSet(ids)
  BY <1>5, RenderableIs
<1> HIDE DEF rels
<1>8. IsSet(ids) /\ IsSet(rels)
  BY <1>6, <1>7, OnceCounts
<1>9. Len(ids) <= n /\ Len(rels) <= e
  <2>1. /\ Len(ids) \in Nat /\ Len(rels) \in Nat /\ Len(some) \in Nat /\ Len(q) \in Nat
    BY <1>1, <1>6, <1>7
  <2> QED  BY <1>1, <1>4, <1>5, <1>6, <1>7, <2>1
<1> HIDE DEF slice
<1>10. /\ Len(slice.nodes) <= n /\ Len(slice.relationships) <= e
       /\ IsSet(slice.nodes) /\ IsSet(slice.relationships)
       /\ \A r \in ToSet(slice.relationships) : Ends(r) \subseteq ToSet(slice.nodes)
       /\ \A id \in ToSet(slice.nodes) : id[1] = "Other" \/ WithId(id) # {}
  BY <1>3, <1>4, <1>6, <1>7, <1>8, <1>9
<1> QED  BY <1>10 DEF slice

\* Asking for one more than is shown tells whether there is more.
LEMMA OneMore ==
    ASSUME NEW T, NEW s \in Seq(T), IsOnce(s), NEW k \in Nat
    PROVE  /\ UpTo(UpTo(s, k + 1), k) = UpTo(s, k)
           /\ Len(UpTo(s, k + 1)) > k <=> Len(s) > k
           /\ Len(s) <= k => UpTo(s, k) = s
           /\ Len(s) > k => \E x \in ToSet(s) : x \notin ToSet(UpTo(s, k))
<1>1. Len(s) \in Nat /\ DOMAIN s = 1..Len(s)
  OBVIOUS
<1>2. /\ UpTo(s, k + 1) \in Seq(T)
      /\ Len(UpTo(s, k + 1)) = IF Len(s) <= k + 1 THEN Len(s) ELSE k + 1
      /\ \A i \in 1..Len(UpTo(s, k + 1)) : UpTo(s, k + 1)[i] = s[i]
  BY UpToIs
<1>3. /\ UpTo(s, k) \in Seq(T)
      /\ Len(UpTo(s, k)) = IF Len(s) <= k THEN Len(s) ELSE k
      /\ \A i \in 1..Len(UpTo(s, k)) : UpTo(s, k)[i] = s[i]
  BY UpToIs
<1>4. UpTo(UpTo(s, k + 1), k) = UpTo(s, k)
  <2> DEFINE a == UpTo(s, k + 1)
             b == UpTo(a, k)
             c == UpTo(s, k)
  <2>1. /\ b \in Seq(T)
        /\ Len(b) = IF Len(a) <= k THEN Len(a) ELSE k
        /\ \A i \in 1..Len(b) : b[i] = a[i]
    BY <1>2, UpToIs
  <2>2. a \in Seq(T) /\ Len(a) = (IF Len(s) <= k + 1 THEN Len(s) ELSE k + 1) /\ \A i \in 1..Len(a) : a[i] = s[i]
    BY <1>2
  <2>3. c \in Seq(T) /\ Len(c) = (IF Len(s) <= k THEN Len(s) ELSE k) /\ \A i \in 1..Len(c) : c[i] = s[i]
    BY <1>3
  <2> HIDE DEF a, b, c
  <2>4. Len(b) = Len(c) /\ Len(b) \in Nat /\ Len(b) <= Len(a)
    BY <1>1, <2>1, <2>2, <2>3
  <2>5. \A i \in 1..Len(b) : b[i] = c[i]
    BY <2>1, <2>2, <2>3, <2>4
  <2>6. b = c
    BY <2>1, <2>3, <2>4, <2>5
  <2> QED  BY <2>6 DEF a, b, c
<1>5. Len(UpTo(s, k + 1)) > k <=> Len(s) > k
  BY <1>1, <1>2
<1>6. ASSUME Len(s) > k PROVE \E x \in ToSet(s) : x \notin ToSet(UpTo(s, k))
  <2>1. k + 1 \in 1..Len(s)
    BY <1>1, <1>6
  <2>2. DOMAIN UpTo(s, k) = 1..k /\ \A i \in 1..k : i \in 1..Len(s) /\ i # k + 1 /\ UpTo(s, k)[i] = s[i]
    BY <1>1, <1>3, <1>6
  <2>3. s[k + 1] \in ToSet(s)
    BY <1>1, <2>1 DEF ToSet
  <2>4. s[k + 1] \notin ToSet(UpTo(s, k))
    BY <2>1, <2>2 DEF ToSet, IsOnce
  <2> QED  BY <2>3, <2>4
<1> QED  BY <1>4, <1>5, <1>6 DEF UpTo

\* An id other than "Other" is that of one node.
LEMMA ShownIsOwn ==
    ASSUME NEW m \in Members
    PROVE  /\ ShownId(m) = Id(m) \/ ShownId(m)[1] = "Other"
           /\ Id(m)[1] # "Other"
           /\ \A n \in Members : ShownId(m) = Id(n) => m = n /\ ShownId(m) = Id(m)
<1>1. Id(m)[1] # "Other" /\ \A n \in Members : Id(n)[1] # "Other"
  BY GraphSliceAssumption DEF Id
<1>2. ShownId(m) = Id(m) \/ ShownId(m)[1] = "Other"
  BY DEF ShownId, DirectId
<1> QED  BY <1>1, <1>2, IdsDiffer

\* Where no id is "Other", the ids of a list are all there only if it was not cut.
LEMMA IdsOfAll ==
    ASSUME GraphTyped, NEW s \in Seq(graph), IsOnce(s), NEW k \in Nat,
           ShownIds(ToSet(UpTo(s, k))) = ShownIds(ToSet(s)),
           \A id \in ShownIds(ToSet(UpTo(s, k))) : id[1] # "Other"
    PROVE  Len(s) <= k /\ \A n \in ToSet(s) : ShownId(n) = Id(n)
<1>1. ToSet(s) \subseteq Members /\ ToSet(UpTo(s, k)) \subseteq ToSet(s)
  BY UpToIs DEF ToSet, GraphTyped
<1>2. ASSUME NEW n \in ToSet(s) PROVE ShownId(n) = Id(n)
  <2>1. ShownId(n) \in ShownIds(ToSet(s))
    BY DEF ShownIds
  <2>2. ShownId(n)[1] # "Other"
    BY <2>1
  <2> QED  BY <1>1, <2>2, ShownIsOwn
<1>3. ASSUME Len(s) > k PROVE FALSE
  <2>1. PICK n \in ToSet(s) : n \notin ToSet(UpTo(s, k))
    BY <1>3, OneMore
  <2>2. PICK m \in ToSet(UpTo(s, k)) : ShownId(m) = ShownId(n)
    <3>1. ShownId(n) \in ShownIds(ToSet(UpTo(s, k)))
      BY DEF ShownIds
    <3> QED  BY <3>1 DEF ShownIds
  <2>3. ShownId(m) = Id(n)
    BY <1>2, <2>2
  <2> QED  BY <1>1, <2>1, <2>3, ShownIsOwn
<1>4. Len(s) \in Nat
  OBVIOUS
<1> QED  BY <1>2, <1>3, <1>4

\* A slice has the ids of what it is cut to, and the relationships among them that
\* the backend can draw.
IsShown(slice, row, n, e) ==
    LET some == ToSet(UpTo(row.nodes, n))
    IN  /\ ToSet(slice.nodes) = ShownIds(some)
        /\ ToSet(slice.relationships) =
               ShownLinks({k \in ToSet(UpTo(row.links, e)) : k.from \in some /\ k.to \in some})
        /\ slice.truncated = Cut(row, n, e)

LEMMA ShownSlice ==
    ASSUME GraphTyped, backend \in {"direct", "addon"},
           NEW row, RowIs(row), NEW n \in Nat, NEW e \in Nat
    PROVE  IsShown(SliceOf(backend, row, n, e), row, n, e)
<1> DEFINE s == UpTo(row.nodes, n)
           q == UpTo(row.links, e)
           given == Each(LinkId, q)
           all == Ids(backend, s)
           ids == Unique(all)
           slice == SliceOf(backend, row, n, e)
           some == ToSet(s)
<1>1. s \in Seq(graph) /\ q \in Seq(relations)
  BY UpToIs DEF RowIs
<1>2. some \subseteq Members /\ ToSet(q) \subseteq Links
  BY <1>1 DEF ToSet, GraphTyped
<1>3. slice = SliceForm(ids, row, n, e)
  BY SliceHasForm
<1> HIDE DEF s, q
<1>4. /\ all \in Seq({Id(m) : m \in graph} \union {DirectId(m) : m \in graph})
      /\ ToSet(all) = ShownIds(some)
  BY <1>1, IdsAre
<1>5. given \in Seq({LinkId(l) : l \in relations}) /\ ToSet(given) = {LinkId(l) : l \in ToSet(q)}
  BY <1>1, EachIs
<1> HIDE DEF all, given, slice
<1>6. ToSet(ids) = ShownIds(some)
  BY <1>4, UniqueIs
<1> HIDE DEF ids
<1>7. ToSet(Renderable(ids, given)) = {r \in ToSet(given) : Ends(r) \subseteq ToSet(ids)}
  BY <1>5, RenderableIs
<1>8. /\ slice.nodes = ids /\ slice.relationships = Renderable(ids, given)
      /\ slice.truncated = Cut(row, n, e)
  BY <1>3 DEF SliceForm, SliceRecord, given, q
<1>9. ASSUME NEW m \in Members PROVE Id(m) \in ToSet(ids) <=> m \in some /\ ShownId(m) = Id(m)
  <2>1. ASSUME Id(m) \in ToSet(ids) PROVE m \in some /\ ShownId(m) = Id(m)
    <3>1. PICK x \in some : ShownId(x) = Id(m)
      BY <1>6, <2>1 DEF ShownIds
    <3>2. x = m /\ ShownId(x) = Id(x)
      BY <1>2, <3>1, ShownIsOwn
    <3> QED  BY <3>2
  <2>2. ASSUME m \in some, ShownId(m) = Id(m) PROVE Id(m) \in ToSet(ids)
    BY <1>6, <2>2 DEF ShownIds
  <2> QED  BY <2>1, <2>2
<1> DEFINE Good(l) == /\ l.from \in some /\ l.to \in some
                      /\ ShownId(l.from) = Id(l.from) /\ ShownId(l.to) = Id(l.to)
<1>10. ASSUME NEW l \in ToSet(q) PROVE Ends(LinkId(l)) \subseteq ToSet(ids) <=> Good(l)
  <2>1. Ends(LinkId(l)) = {Id(l.from), Id(l.to)}
    BY DEF Ends, LinkId
  <2>2. l.from \in Members /\ l.to \in Members
    BY <1>2, GraphSliceAssumption
  <2>3. /\ Id(l.from) \in ToSet(ids) <=> l.from \in some /\ ShownId(l.from) = Id(l.from)
        /\ Id(l.to) \in ToSet(ids) <=> l.to \in some /\ ShownId(l.to) = Id(l.to)
    BY <1>9, <2>2
  <2> QED  BY <2>1, <2>3
<1>11. ToSet(slice.relationships) = {LinkId(l) : l \in {k \in ToSet(q) : Good(k)}}
  <2> HIDE DEF Good
  <2> QED  BY <1>5, <1>7, <1>8, <1>10
<1>12. {k \in ToSet(q) : Good(k)} =
           {k \in {l \in ToSet(q) : l.from \in some /\ l.to \in some} :
               ShownId(k.from) = Id(k.from) /\ ShownId(k.to) = Id(k.to)}
  OBVIOUS
<1>13. ToSet(slice.relationships) = ShownLinks({k \in ToSet(q) : k.from \in some /\ k.to \in some})
  <2> HIDE DEF Good
  <2> QED  BY <1>11, <1>12 DEF ShownLinks
<1>14. IsShown(slice, row, n, e)
  BY <1>6, <1>8, <1>13 DEF IsShown, s, q
<1> QED  BY <1>14 DEF slice

-----------------------------------------------------------------------------
\* While an answer is out, it is what the backend makes of the graph.
SliceInv ==
    /\ GraphTyped
    /\ backend \in {"direct", "addon"}
    /\ request \in Requests \union {NoRequest}
    /\ IsAnswered => reply = AnswerOf(backend, request)

LEMMA LimitsAre ==
    {InitialMax, InitialEdges, RequestMax, ExpandNodes, ExpandEdges,
     SearchMax, DetailNodes, DetailEdges} \subseteq Nat \ {0}
BY GraphSliceAssumption

LEMMA Clamped ==
    ASSUME NEW v \in Nat \ {0}, NEW m \in Nat \ {0}
    PROVE  Clamp(v, m) \in Nat \ {0} /\ Clamp(v, m) <= v /\ Clamp(v, m) <= m
BY DEF Clamp

LEMMA RequestsAre ==
    ASSUME NEW r \in Requests
    PROVE  /\ r.op \in {"snapshot", "expand", "search", "detail", "relationship"}
           /\ r.op \in {"snapshot", "expand", "search"} => r.limit \in Nat \ {0}
           /\ r.op = "expand" => r.edgeLimit \in Nat \ {0}
           /\ r.op = "relationship" => r.link \in Links
BY LimitsAre DEF Requests

\* The nodes an expansion goes through: the centre, and its neighbours.
Around(c) == <<c>> \o NeighboursOf(c)

Areas == {n \in graph : n.label = AreaLabel}

\* No operation links areas, so that a first row has no relationships.
LEMMA NoneAmongAreas ==
    ASSUME GraphTyped, NEW k \in Nat, NEW e \in Nat
    PROVE  /\ InitialRow(k, e).nodes = UpTo(Matches(Areas), k)
           /\ InitialRow(k, e).links = <<>>
           /\ RowIs(InitialRow(k, e)) /\ IsOnce(InitialRow(k, e).nodes)
<1> DEFINE areas == UpTo(Matches(Areas), k)
           among == SetToSeq({l \in relations : {l.from, l.to} \subseteq ToSet(areas)})
<1>1. /\ Matches(Areas) \in Seq(graph) /\ IsOnce(Matches(Areas))
      /\ ToSet(Matches(Areas)) = Areas
  BY MatchesAre DEF Areas
<1>2. areas \in Seq(graph) /\ IsOnce(areas) /\ ToSet(areas) \subseteq Areas
  BY <1>1, UpToIs
<1>3. InitialRow(k, e) = [nodes |-> areas, links |-> UpTo(among \o among, e)]
  BY DEF InitialRow, Areas
<1> HIDE DEF areas
<1>4. among = <<>>
  <2>1. ASSUME NEW l \in relations, {l.from, l.to} \subseteq ToSet(areas) PROVE FALSE
    <3>1. {l.from.label, l.to.label} = {AreaLabel}
      BY <1>2, <2>1 DEF Areas
    <3> QED  BY <3>1, GraphSliceAssumption DEF GraphTyped
  <2>2. {l \in relations : {l.from, l.to} \subseteq ToSet(areas)} = {}
    BY <2>1
  <2>3. among = SetToSeq({})
    BY <2>2
  <2>4. Cardinality({}) = 0
    BY FS_EmptySet
  <2>5. <<>> \in [1..0 -> {}] /\ IsInjective(<<>>)
    BY DEF IsInjective
  <2>6. SetToSeq({}) \in [1..0 -> {}]
    BY <2>4, <2>5 DEF SetToSeq
  <2> QED  BY <2>3, <2>6
<1> HIDE DEF among
<1>5. UpTo(among \o among, e) = <<>>
  BY <1>4 DEF UpTo
<1>6. <<>> \in Seq(relations)
  OBVIOUS
<1> QED  BY <1>2, <1>3, <1>5, <1>6 DEF RowIs, areas

LEMMA NamesAreUnique ==
    ASSUME GraphTyped, NEW id, NEW c \in WithId(id)
    PROVE  c \in graph /\ Id(c) = id /\ WithId(id) = {c} /\ (CHOOSE n \in WithId(id) : TRUE) = c
<1>1. WithId(id) = {c}
  BY IdsDiffer DEF WithId, GraphTyped
<1> QED  BY <1>1 DEF WithId

LEMMA AroundIs ==
    ASSUME GraphTyped, NEW c \in graph
    PROVE  Around(c) \in Seq(graph) /\ IsOnce(Around(c)) /\ ToSet(Around(c)) = {c} \union ToSet(NeighboursOf(c))
<1> DEFINE s == NeighboursOf(c)
           a == Around(c)
<1>1. s \in Seq(graph) /\ IsOnce(s) /\ c \notin ToSet(s)
  BY NeighboursAre
<1>2. a = <<c>> \o s
  BY DEF Around
<1> HIDE DEF s, a
<1>3. Len(s) \in Nat /\ DOMAIN s = 1..Len(s)
  BY <1>1
<1>4. /\ a \in Seq(graph) /\ Len(a) = Len(s) + 1 /\ DOMAIN a = 1..Len(s) + 1
      /\ a[1] = c /\ \A i \in 2..Len(s) + 1 : a[i] = s[i - 1]
  BY <1>1, <1>2
<1>5. ToSet(a) = {c} \union ToSet(s)
  <2>1. ASSUME NEW x \in ToSet(s) PROVE x \in ToSet(a)
    <3>1. PICK i \in 1..Len(s) : x = s[i]
      BY <1>3 DEF ToSet
    <3>2. i + 1 \in 2..Len(s) + 1 /\ i + 1 \in 1..Len(s) + 1 /\ (i + 1) - 1 = i
      BY <1>3
    <3> QED  BY <1>4, <3>1, <3>2 DEF ToSet
  <2>2. ASSUME NEW x \in ToSet(a) PROVE x \in {c} \union ToSet(s)
    <3>1. PICK i \in 1..Len(s) + 1 : x = a[i]
      BY <1>4 DEF ToSet
    <3>2. CASE i = 1
      BY <1>4, <3>1, <3>2
    <3>3. CASE i # 1
      <4>1. i \in 2..Len(s) + 1 /\ i - 1 \in 1..Len(s)
        BY <1>3, <3>3
      <4> QED  BY <1>3, <1>4, <3>1, <4>1 DEF ToSet
    <3> QED  BY <3>2, <3>3
  <2>3. c \in ToSet(a)
    <3>1. 1 \in 1..Len(s) + 1
      BY <1>3
    <3> QED  BY <1>4, <3>1 DEF ToSet
  <2> QED  BY <2>1, <2>2, <2>3
<1>6. ASSUME NEW i \in 1..Len(a), NEW j \in 1..Len(a), a[i] = a[j] PROVE i = j
  <2>1. \A k \in 2..Len(s) + 1 : k - 1 \in 1..Len(s) /\ a[k] = s[k - 1] /\ s[k - 1] \in ToSet(s)
    BY <1>3, <1>4 DEF ToSet
  <2>2. \A k \in 1..Len(a) : k = 1 \/ k \in 2..Len(s) + 1
    BY <1>3, <1>4
  <2>3. CASE i = 1 \/ j = 1
    BY <1>1, <1>4, <1>6, <2>1, <2>2, <2>3
  <2>4. CASE i # 1 /\ j # 1
    <3>1. i \in 2..Len(s) + 1 /\ j \in 2..Len(s) + 1
      BY <2>2, <2>4
    <3>2. i - 1 = j - 1
      BY <1>1, <1>6, <2>1, <3>1 DEF IsOnce
    <3> QED  BY <1>3, <3>1, <3>2
  <2> QED  BY <2>3, <2>4
<1> QED  BY <1>4, <1>5, <1>6 DEF IsOnce, a, s

\* The row of an expansion, as asked for.
LEMMA ExpandRowIs ==
    ASSUME GraphTyped, NEW id, NEW c \in WithId(id), NEW k \in Nat, NEW e \in Nat
    PROVE  /\ ExpandRow(id, k, e).nodes = UpTo(Around(c), k + 1)
           /\ ExpandRow(id, k, e).links = UpTo(LinksOf(c), e)
           /\ RowIs(ExpandRow(id, k, e)) /\ IsOnce(ExpandRow(id, k, e).nodes)
<1>1. c \in graph /\ (CHOOSE n \in WithId(id) : TRUE) = c /\ WithId(id) # {}
  BY NamesAreUnique
<1>2. ExpandRow(id, k, e) = [nodes |-> <<c>> \o UpTo(NeighboursOf(c), k), links |-> UpTo(LinksOf(c), e)]
  BY <1>1 DEF ExpandRow
<1>3. <<c>> \o UpTo(NeighboursOf(c), k) = UpTo(Around(c), k + 1)
  <2> DEFINE s == NeighboursOf(c)
             u == UpTo(s, k)
             a == Around(c)
             b == UpTo(a, k + 1)
  <2>1. s \in Seq(graph) /\ a = <<c>> \o s
    BY NeighboursAre DEF Around
  <2>2. a \in Seq(graph)
    BY <1>1, AroundIs
  <2> HIDE DEF s, a
  <2>3. /\ u \in Seq(graph) /\ Len(u) = (IF Len(s) <= k THEN Len(s) ELSE k)
        /\ \A i \in 1..Len(u) : u[i] = s[i]
    BY <2>1, UpToIs
  <2>4. /\ b \in Seq(graph) /\ Len(b) = (IF Len(a) <= k + 1 THEN Len(a) ELSE k + 1)
        /\ \A i \in 1..Len(b) : b[i] = a[i]
    BY <2>2, UpToIs
  <2> HIDE DEF u, b
  <2> DEFINE d == <<c>> \o u
  <2>5. Len(s) \in Nat /\ Len(u) \in Nat /\ Len(u) <= Len(s)
    BY <2>1, <2>3
  <2>6. Len(a) = Len(s) + 1 /\ a[1] = c /\ \A i \in 2..Len(s) + 1 : a[i] = s[i - 1]
    BY <1>1, <2>1
  <2>7. d \in Seq(graph) /\ Len(d) = Len(u) + 1 /\ d[1] = c /\ \A i \in 2..Len(u) + 1 : d[i] = u[i - 1]
    BY <1>1, <2>3
  <2> HIDE DEF d
  <2>8. Len(d) = Len(b)
    BY <2>3, <2>4, <2>5, <2>6, <2>7
  <2>9. ASSUME NEW i \in 1..Len(b) PROVE d[i] = b[i]
    <3>1. i = 1 \/ (i \in 2..Len(u) + 1 /\ i \in 2..Len(s) + 1 /\ i - 1 \in 1..Len(u))
      BY <2>5, <2>7, <2>8
    <3> QED  BY <2>3, <2>4, <2>6, <2>7, <3>1
  <2>10. d = b
    BY <2>4, <2>7, <2>8, <2>9
  <2> QED  BY <2>10 DEF d, b, u, a, s
<1>4. UpTo(Around(c), k + 1) \in Seq(graph) /\ IsOnce(UpTo(Around(c), k + 1))
  <2>1. k + 1 \in Nat
    OBVIOUS
  <2> QED  BY <1>1, <2>1, AroundIs, UpToIs
<1>5. UpTo(LinksOf(c), e) \in Seq(relations)
  BY LinksOfAre, UpToIs
<1>6. /\ ExpandRow(id, k, e).nodes = UpTo(Around(c), k + 1)
      /\ ExpandRow(id, k, e).links = UpTo(LinksOf(c), e)
  BY <1>2, <1>3
<1>7. RowIs(ExpandRow(id, k, e)) /\ IsOnce(ExpandRow(id, k, e).nodes)
  BY <1>4, <1>5, <1>6 DEF RowIs
<1> QED  BY <1>6, <1>7

LEMMA NoRowIs == RowIs(NoRow) /\ IsOnce(NoRow.nodes) /\ Len(NoRow.nodes) = 0 /\ Len(NoRow.links) = 0
BY DEF NoRow, RowIs, IsOnce

LEMMA AnyExpandRow ==
    ASSUME GraphTyped, NEW id, NEW k \in Nat, NEW e \in Nat
    PROVE  RowIs(ExpandRow(id, k, e)) /\ IsOnce(ExpandRow(id, k, e).nodes)
<1>1. CASE WithId(id) = {}
  BY <1>1, NoRowIs DEF ExpandRow
<1>2. CASE WithId(id) # {}
  <2>1. PICK c : c \in WithId(id)
    BY <1>2
  <2> QED  BY <2>1, ExpandRowIs
<1> QED  BY <1>1, <1>2

\* The row of a detail.
LEMMA ElementRowIs ==
    ASSUME GraphTyped, NEW id, NEW c \in WithId(id)
    PROVE  /\ ElementRow(id).nodes = UpTo(NeighboursOf(c), DetailNodes + 1)
           /\ RowIs(ElementRow(id)) /\ IsOnce(ElementRow(id).nodes)
<1>1. c \in graph /\ (CHOOSE n \in WithId(id) : TRUE) = c
  BY NamesAreUnique
<1>2. DetailNodes + 1 \in Nat /\ DetailEdges + 1 \in Nat
  BY LimitsAre
<1>3. ElementRow(id) = [nodes |-> UpTo(NeighboursOf(c), DetailNodes + 1), links |-> UpTo(LinksOf(c), DetailEdges + 1)]
  BY <1>1 DEF ElementRow
<1>4. /\ UpTo(NeighboursOf(c), DetailNodes + 1) \in Seq(graph)
      /\ IsOnce(UpTo(NeighboursOf(c), DetailNodes + 1))
      /\ UpTo(LinksOf(c), DetailEdges + 1) \in Seq(relations)
  BY <1>2, NeighboursAre, LinksOfAre, UpToIs
<1> QED  BY <1>3, <1>4 DEF RowIs

\* The ids of a search: what is found, up to one more than is shown.
Given(by, S, k) == Ids(by, UpTo(Matches(S), k + 1))

SearchSlice(by, S, k) == SliceRecord(UpTo(Given(by, S, k), k), <<>>, Len(Given(by, S, k)) > k)

LEMMA SearchIs ==
    ASSUME NEW by \in {"direct", "addon"}, NEW S, NEW limit
    PROVE  SearchGraph(by, S, limit) = AnswerRecord(None, SearchSlice(by, S, Clamp(limit, SearchMax)))
BY DEF SearchGraph, SearchSlice, Given, Ids

LEMMA GivenAre ==
    ASSUME GraphTyped, NEW by \in {"direct", "addon"}, NEW S, NEW k \in Nat
    PROVE  /\ Given(by, S, k) \in Seq({Id(n) : n \in graph} \union {DirectId(n) : n \in graph})
           /\ \A id \in ToSet(Given(by, S, k)) : id[1] = "Other" \/ WithId(id) # {}
           /\ by = backend => Given(by, S, k) = Shown(UpTo(Matches(S), k + 1))
<1> DEFINE some == UpTo(Matches(S), k + 1)
<1>1. Matches(S) \in Seq(graph) /\ k + 1 \in Nat
  BY MatchesAre
<1>2. some \in Seq(graph)
  BY <1>1, UpToIs
<1>3. Given(by, S, k) = Ids(by, some)
  BY DEF Given
<1> HIDE DEF some
<1>4. /\ Ids(by, some) \in Seq({Id(n) : n \in graph} \union {DirectId(n) : n \in graph})
      /\ \A id \in ToSet(Ids(by, some)) : id[1] = "Other" \/ WithId(id) # {}
      /\ by = backend => Ids(by, some) = Shown(some)
  BY <1>2, IdsAre
<1> QED  BY <1>3, <1>4 DEF some

\* Whatever is asked for, the answer can be drawn.
LEMMA AnswersAreClosed == ASSUME SliceInv PROVE AnswerIsClosed
<1> SUFFICES ASSUME IsAnswered, request.op \in {"snapshot", "expand", "search"}
             PROVE  /\ Len(reply.slice.nodes) <= request.limit
                    /\ request.op = "snapshot" =>
                         /\ Len(reply.slice.nodes) <= InitialMax
                         /\ Len(reply.slice.relationships) <= InitialEdges
                    /\ request.op = "expand" => Len(reply.slice.relationships) <= request.edgeLimit
                    /\ request.op # "search" =>
                         IsSet(reply.slice.nodes) /\ IsSet(reply.slice.relationships)
                    /\ \A r \in ToSet(reply.slice.relationships) : Ends(r) \subseteq ToSet(reply.slice.nodes)
                    /\ \A id \in ToSet(reply.slice.nodes) : id[1] = "Other" \/ WithId(id) # {}
  BY DEF AnswerIsClosed
<1>1. /\ GraphTyped /\ backend \in {"direct", "addon"} /\ request \in Requests
      /\ reply = AnswerOf(backend, request)
      /\ request.limit \in Nat \ {0}
  BY RequestsAre DEF SliceInv, IsAnswered, NoRequest
<1>2. CASE request.op = "snapshot"
  <2> DEFINE n == Clamp(request.limit, InitialMax)
             row == InitialRow(n + 1, InitialEdges + 1)
             slice == SliceOf(backend, row, n, InitialEdges)
  <2>1. n \in Nat /\ n + 1 \in Nat /\ n <= request.limit /\ n <= InitialMax /\ InitialEdges \in Nat /\ InitialMax \in Nat
    <3>1. InitialMax \in Nat \ {0} /\ InitialEdges \in Nat \ {0}
      BY LimitsAre
    <3>2. n \in Nat \ {0} /\ n <= request.limit /\ n <= InitialMax
      BY <1>1, <3>1, Clamped
    <3> HIDE DEF n
    <3> QED  BY <3>1, <3>2
  <2>2. reply.slice = slice
    BY <1>1, <1>2 DEF AnswerOf, InitialGraph, AnswerRecord
  <2> HIDE DEF n
  <2>3. RowIs(row)
    BY <1>1, <2>1, NoneAmongAreas
  <2> HIDE DEF row
  <2>4. /\ Len(slice.nodes) <= n /\ Len(slice.relationships) <= InitialEdges
        /\ IsSet(slice.nodes) /\ IsSet(slice.relationships)
        /\ \A r \in ToSet(slice.relationships) : Ends(r) \subseteq ToSet(slice.nodes)
        /\ \A id \in ToSet(slice.nodes) : id[1] = "Other" \/ WithId(id) # {}
    BY <1>1, <2>1, <2>3, SliceIsClosed
  <2> HIDE DEF slice
  <2>5. Len(slice.nodes) <= request.limit /\ Len(slice.nodes) <= InitialMax
    <3>1. request.limit \in Nat
      BY <1>1
    <3>2. Len(slice.nodes) \in Nat
      BY <2>4, <2>1
    <3> QED  BY <2>1, <2>4, <3>1, <3>2
  <2> QED  BY <1>2, <2>2, <2>4, <2>5
<1>3. CASE request.op = "expand"
  <2> DEFINE n == Clamp(request.limit, ExpandNodes)
             e == Clamp(request.edgeLimit, ExpandEdges)
             row == ExpandRow(request.id, n + 1, e + 1)
             slice == SliceOf(backend, row, n, e)
  <2>1. /\ n \in Nat /\ n + 1 \in Nat /\ n <= request.limit
        /\ e \in Nat /\ e + 1 \in Nat /\ e <= request.edgeLimit /\ request.edgeLimit \in Nat
    <3>1. ExpandNodes \in Nat \ {0} /\ ExpandEdges \in Nat \ {0} /\ request.edgeLimit \in Nat \ {0}
      BY <1>1, <1>3, LimitsAre, RequestsAre
    <3>2. n \in Nat \ {0} /\ n <= request.limit /\ e \in Nat \ {0} /\ e <= request.edgeLimit
      BY <1>1, <3>1, Clamped
    <3> HIDE DEF n, e
    <3> QED  BY <3>1, <3>2
  <2>2. reply.slice = slice
    BY <1>1, <1>3 DEF AnswerOf, ExpandNode, AnswerRecord
  <2> HIDE DEF n, e
  <2>3. RowIs(row)
    BY <1>1, <2>1, AnyExpandRow
  <2> HIDE DEF row
  <2>4. /\ Len(slice.nodes) <= n /\ Len(slice.relationships) <= e
        /\ IsSet(slice.nodes) /\ IsSet(slice.relationships)
        /\ \A r \in ToSet(slice.relationships) : Ends(r) \subseteq ToSet(slice.nodes)
        /\ \A id \in ToSet(slice.nodes) : id[1] = "Other" \/ WithId(id) # {}
    BY <1>1, <2>1, <2>3, SliceIsClosed
  <2> HIDE DEF slice
  <2> QED  BY <1>1, <1>3, <2>1, <2>2, <2>4
<1>4. CASE request.op = "search"
  <2> DEFINE k == Clamp(request.limit, SearchMax)
             given == Given(backend, request.found, k)
             T == {Id(n) : n \in graph} \union {DirectId(n) : n \in graph}
  <2>1. k \in Nat /\ k <= request.limit
    BY <1>1, LimitsAre, Clamped
  <2>2. reply.slice = SearchSlice(backend, request.found, k)
    <3>1. reply = SearchGraph(backend, request.found, request.limit)
      BY <1>1, <1>4 DEF AnswerOf
    <3>2. reply = AnswerRecord(None, SearchSlice(backend, request.found, k))
      BY <1>1, <3>1, SearchIs
    <3> HIDE DEF k
    <3> QED  BY <3>2 DEF AnswerRecord
  <2> HIDE DEF k
  <2>3. reply.slice.nodes = UpTo(given, k) /\ reply.slice.relationships = <<>>
    BY <2>2 DEF SearchSlice, SliceRecord
  <2>4. given \in Seq(T) /\ \A id \in ToSet(given) : id[1] = "Other" \/ WithId(id) # {}
    BY <1>1, <2>1, GivenAre
  <2> HIDE DEF given, T
  <2>5. /\ UpTo(given, k) \in Seq(T) /\ ToSet(UpTo(given, k)) \subseteq ToSet(given)
        /\ Len(UpTo(given, k)) = IF Len(given) <= k THEN Len(given) ELSE k
    BY <2>1, <2>4, UpToIs
  <2>6. Len(UpTo(given, k)) <= request.limit
    <3>1. Len(given) \in Nat
      BY <2>4
    <3> QED  BY <1>1, <2>1, <2>5, <3>1
  <2>7. ToSet(<<>>) = {}
    BY DEF ToSet
  <2> QED  BY <1>4, <2>3, <2>4, <2>5, <2>6, <2>7
<1> QED  BY <1>2, <1>3, <1>4

-----------------------------------------------------------------------------
\* A first slice has all the areas, or says that it has not.
LEMMA InitialIsWhole ==
    ASSUME SliceInv, IsAnswered, request.op = "snapshot"
    PROVE  /\ ~ reply.slice.truncated => Whole
           /\ Whole /\ AllNamed => ~ reply.slice.truncated
<1> DEFINE n == Clamp(request.limit, InitialMax)
           row == InitialRow(n + 1, InitialEdges + 1)
           slice == SliceOf(backend, row, n, InitialEdges)
           M == Matches(Areas)
<1>1. /\ GraphTyped /\ backend \in {"direct", "addon"}
      /\ reply = AnswerOf(backend, request) /\ request.limit \in Nat \ {0}
  BY RequestsAre DEF SliceInv, IsAnswered, NoRequest
<1>2. InitialMax \in Nat \ {0} /\ InitialEdges \in Nat /\ InitialEdges + 1 \in Nat
  BY LimitsAre
<1>3. n \in Nat /\ n + 1 \in Nat
  <2>1. n \in Nat \ {0}
    BY <1>1, <1>2, Clamped
  <2> HIDE DEF n
  <2> QED  BY <2>1
<1>4. reply.slice = slice
  <2>1. reply = InitialGraph(backend, request.limit)
    BY <1>1 DEF AnswerOf
  <2>2. InitialGraph(backend, request.limit) = AnswerRecord(None, slice)
    BY DEF InitialGraph
  <2> HIDE DEF slice
  <2> QED  BY <2>1, <2>2 DEF AnswerRecord
<1> HIDE DEF n
<1>5. row.nodes = UpTo(M, n + 1) /\ row.links = <<>> /\ RowIs(row) /\ IsOnce(row.nodes)
  BY <1>1, <1>2, <1>3, NoneAmongAreas
<1> HIDE DEF row
<1>6. /\ ToSet(slice.nodes) = ShownIds(ToSet(UpTo(row.nodes, n)))
      /\ slice.truncated = Cut(row, n, InitialEdges)
  <2>1. IsShown(slice, row, n, InitialEdges)
    BY <1>1, <1>2, <1>3, <1>5, ShownSlice
  <2> HIDE DEF slice
  <2> QED  BY <2>1 DEF IsShown
<1>7. M \in Seq(graph) /\ IsOnce(M) /\ ToSet(M) = Areas
  BY <1>1, MatchesAre DEF Areas
<1> HIDE DEF slice, M
<1>8. /\ UpTo(row.nodes, n) = UpTo(M, n)
      /\ Len(UpTo(M, n + 1)) > n <=> Len(M) > n
  <2>1. /\ UpTo(UpTo(M, n + 1), n) = UpTo(M, n)
        /\ Len(UpTo(M, n + 1)) > n <=> Len(M) > n
    BY <1>3, <1>7, OneMore
  <2> QED  BY <1>5, <2>1
<1>9. slice.truncated <=> Len(M) > n
  <2>1. ~ (Len(row.links) > InitialEdges)
    BY <1>2, <1>5
  <2>2. Len(row.nodes) > n <=> Len(M) > n
    BY <1>5, <1>8
  <2> QED  BY <1>6, <2>1, <2>2 DEF Cut
<1>10. Whole <=> ShownIds(ToSet(UpTo(M, n))) = ShownIds(ToSet(M))
  BY <1>4, <1>6, <1>7, <1>8 DEF Whole, Areas
<1>11. AllNamed <=> \A id \in ShownIds(ToSet(UpTo(M, n))) : id[1] # "Other"
  BY <1>4, <1>6, <1>8 DEF AllNamed
<1>12. Len(M) <= n => Whole
  BY <1>10 DEF UpTo
<1>13. Whole /\ AllNamed => Len(M) <= n
  BY <1>1, <1>3, <1>7, <1>10, <1>11, IdsOfAll
<1>14. Len(M) \in Nat
  BY <1>7
<1> QED  BY <1>3, <1>4, <1>9, <1>12, <1>13, <1>14

LEMMA ShownUpTo ==
    ASSUME NEW T, NEW s \in Seq(T), NEW k \in Nat
    PROVE  Len(Shown(s)) = Len(s) /\ ToSet(UpTo(Shown(s), k)) = ShownIds(ToSet(UpTo(s, k)))
<1> DEFINE a == Shown(s)
           b == UpTo(s, k)
           d == UpTo(a, k)
           U == {ShownId(n) : n \in T}
<1>1. Len(s) \in Nat /\ DOMAIN s = 1..Len(s) /\ \A i \in 1..Len(s) : s[i] \in T
  OBVIOUS
<1>2. a \in [1..Len(s) -> U] /\ \A i \in 1..Len(s) : a[i] = ShownId(s[i])
  BY <1>1 DEF Shown
<1>3. b \in Seq(T) /\ Len(b) = (IF Len(s) <= k THEN Len(s) ELSE k) /\ \A i \in 1..Len(b) : b[i] = s[i]
  BY UpToIs
<1> HIDE DEF a, b, U
<1>4. a \in Seq(U) /\ Len(a) = Len(s)
  BY <1>1, <1>2, ListIs
<1>5. d \in Seq(U) /\ Len(d) = (IF Len(a) <= k THEN Len(a) ELSE k) /\ \A i \in 1..Len(d) : d[i] = a[i]
  BY <1>4, UpToIs
<1> HIDE DEF d
<1>6. /\ Len(d) = Len(b) /\ Len(b) \in Nat /\ Len(b) <= Len(s)
      /\ DOMAIN d = 1..Len(b) /\ DOMAIN b = 1..Len(b)
  <2>1. Len(d) = Len(b)
    BY <1>3, <1>4, <1>5
  <2>2. Len(b) \in Nat /\ DOMAIN b = 1..Len(b)
    BY <1>3
  <2>3. DOMAIN d = 1..Len(d)
    BY <1>5
  <2>4. Len(b) <= Len(s)
    BY <1>1, <1>3, <2>2
  <2> QED  BY <2>1, <2>2, <2>3, <2>4
<1>7. ASSUME NEW i \in 1..Len(b) PROVE d[i] = ShownId(b[i])
  <2>1. i \in 1..Len(s) /\ i \in 1..Len(d)
    BY <1>1, <1>6
  <2>2. d[i] = a[i] /\ b[i] = s[i]
    BY <1>3, <1>5, <2>1
  <2>3. a[i] = ShownId(s[i])
    BY <1>2, <2>1
  <2> QED  BY <2>2, <2>3
<1>8. ToSet(d) = ShownIds(ToSet(b))
  <2>1. ToSet(d) = {d[i] : i \in 1..Len(b)} /\ ToSet(b) = {b[i] : i \in 1..Len(b)}
    BY <1>6 DEF ToSet
  <2>2. ASSUME NEW x \in ToSet(d) PROVE x \in ShownIds(ToSet(b))
    BY <1>7, <2>1, <2>2 DEF ShownIds
  <2>3. ASSUME NEW x \in ShownIds(ToSet(b)) PROVE x \in ToSet(d)
    BY <1>7, <2>1, <2>3 DEF ShownIds
  <2> QED  BY <2>2, <2>3
<1> QED  BY <1>4, <1>8 DEF a, b, d

\* A search shows all it found, or says that it does not.
LEMMA SearchIsWhole ==
    ASSUME SliceInv, IsAnswered, request.op = "search"
    PROVE  /\ ~ reply.slice.truncated => Whole
           /\ Whole /\ AllNamed => ~ reply.slice.truncated
<1> DEFINE k == Clamp(request.limit, SearchMax)
           M == Matches(request.found)
           some == UpTo(M, k + 1)
           given == Shown(some)
<1>1. /\ GraphTyped /\ backend \in {"direct", "addon"}
      /\ reply = AnswerOf(backend, request) /\ request.limit \in Nat \ {0}
  BY RequestsAre DEF SliceInv, IsAnswered, NoRequest
<1>2. k \in Nat
  BY <1>1, LimitsAre, Clamped
<1>3. reply.slice = SearchSlice(backend, request.found, k)
  <2>1. reply = SearchGraph(backend, request.found, request.limit)
    BY <1>1 DEF AnswerOf
  <2>2. reply = AnswerRecord(None, SearchSlice(backend, request.found, k))
    BY <1>1, <2>1, SearchIs
  <2> HIDE DEF k
  <2> QED  BY <2>2 DEF AnswerRecord
<1> HIDE DEF k
<1>4. reply.slice.nodes = UpTo(given, k) /\ reply.slice.truncated = (Len(given) > k)
  <2>1. Given(backend, request.found, k) = given
    BY <1>1, <1>2, GivenAre
  <2> HIDE DEF given
  <2> QED  BY <1>3, <2>1 DEF SearchSlice, SliceRecord
<1> HIDE DEF given
<1>5. M \in Seq(graph) /\ IsOnce(M) /\ ToSet(M) = request.found \intersect graph
  BY <1>1, MatchesAre
<1> HIDE DEF M
<1>6. /\ UpTo(some, k) = UpTo(M, k)
      /\ Len(some) > k <=> Len(M) > k
  BY <1>2, <1>5, OneMore
<1>7. some \in Seq(graph) /\ UpTo(M, k) \in Seq(graph)
  <2>1. k + 1 \in Nat
    BY <1>2
  <2> QED  BY <1>2, <1>5, <2>1, UpToIs
<1> HIDE DEF some
<1>8. Len(given) = Len(some) /\ ToSet(UpTo(given, k)) = ShownIds(ToSet(UpTo(some, k)))
  BY <1>2, <1>7, ShownUpTo DEF given
<1>9. ToSet(reply.slice.nodes) = ShownIds(ToSet(UpTo(M, k)))
  BY <1>4, <1>6, <1>8
<1>10. Whole <=> ShownIds(ToSet(UpTo(M, k))) = ShownIds(ToSet(M))
  BY <1>5, <1>9 DEF Whole
<1>11. AllNamed <=> \A id \in ShownIds(ToSet(UpTo(M, k))) : id[1] # "Other"
  BY <1>9 DEF AllNamed
<1>12. Len(M) <= k => Whole
  BY <1>10 DEF UpTo
<1>13. Whole /\ AllNamed => Len(M) <= k
  BY <1>1, <1>2, <1>5, <1>10, <1>11, IdsOfAll
<1>14. reply.slice.truncated <=> Len(M) > k
  BY <1>4, <1>6, <1>8
<1>15. Len(M) \in Nat
  BY <1>5
<1> QED  BY <1>2, <1>12, <1>13, <1>14, <1>15

\* An expansion has the centre, its neighbours and its relationships, or says
\* that it has not.
LEMMA ExpansionIsWhole ==
    ASSUME SliceInv, IsAnswered, request.op = "expand"
    PROVE  /\ ~ reply.slice.truncated => Whole
           /\ Whole /\ AllNamed => ~ reply.slice.truncated
<1> DEFINE n == Clamp(request.limit, ExpandNodes)
           e == Clamp(request.edgeLimit, ExpandEdges)
           row == ExpandRow(request.id, n + 1, e + 1)
           slice == SliceOf(backend, row, n, e)
<1>1. /\ GraphTyped /\ backend \in {"direct", "addon"}
      /\ reply = AnswerOf(backend, request)
      /\ request.limit \in Nat \ {0} /\ request.edgeLimit \in Nat \ {0}
  BY RequestsAre DEF SliceInv, IsAnswered, NoRequest
<1>2. ExpandNodes \in Nat \ {0} /\ ExpandEdges \in Nat \ {0}
  BY LimitsAre
<1>3. n \in Nat /\ n + 1 \in Nat /\ e \in Nat /\ e + 1 \in Nat
  <2>1. n \in Nat \ {0} /\ e \in Nat \ {0}
    BY <1>1, <1>2, Clamped
  <2> HIDE DEF n, e
  <2> QED  BY <2>1
<1>4. reply.slice = slice
  BY <1>1 DEF AnswerOf, ExpandNode, AnswerRecord
<1> HIDE DEF n, e
<1>5. RowIs(row) /\ IsOnce(row.nodes)
  BY <1>1, <1>3, AnyExpandRow
<1>6. /\ ToSet(slice.nodes) = ShownIds(ToSet(UpTo(row.nodes, n)))
      /\ ToSet(slice.relationships) =
             ShownLinks({k \in ToSet(UpTo(row.links, e)) :
                 k.from \in ToSet(UpTo(row.nodes, n)) /\ k.to \in ToSet(UpTo(row.nodes, n))})
      /\ slice.truncated = Cut(row, n, e)
  <2>1. IsShown(slice, row, n, e)
    BY <1>1, <1>3, <1>5, ShownSlice
  <2> HIDE DEF slice, row
  <2> QED  BY <2>1 DEF IsShown
<1> HIDE DEF slice
<1>7. CASE WithId(request.id) = {}
  <2>1. row = NoRow
    BY <1>7 DEF ExpandRow
  <2>2. ~ slice.truncated
    <3> HIDE DEF row
    <3>1. Len(row.nodes) = 0 /\ Len(row.links) = 0
      BY <2>1, NoRowIs
    <3>2. ~ (Len(row.nodes) > n) /\ ~ (Len(row.links) > e)
      BY <1>3, <3>1
    <3>3. slice.truncated = Cut(row, n, e)
      BY <1>6
    <3> HIDE DEF n, e
    <3> QED  BY <3>2, <3>3 DEF Cut
  <2>3. Whole
    BY <1>7 DEF Whole
  <2> QED  BY <1>4, <2>2, <2>3
<1>8. CASE WithId(request.id) # {}
  <2>1. PICK c : c \in WithId(request.id)
    BY <1>8
  <2>2. c \in graph /\ WithId(request.id) = {c}
    BY <1>1, <2>1, NamesAreUnique
  <2> DEFINE F == Around(c)
             L == LinksOf(c)
  <2>3. F \in Seq(graph) /\ IsOnce(F) /\ ToSet(F) = {c} \union ToSet(NeighboursOf(c))
    BY <1>1, <2>2, AroundIs
  <2>4. L \in Seq(relations) /\ IsOnce(L) /\ ToSet(L) = Incident(c)
    BY <1>1, LinksOfAre
  <2>5. row.nodes = UpTo(F, n + 1 + 1) /\ row.links = UpTo(L, e + 1)
    <3> DEFINE k == n + 1
               m == e + 1
    <3>1. k \in Nat /\ m \in Nat
      BY <1>3
    <3>2. row = ExpandRow(request.id, k, m)
      OBVIOUS
    <3> HIDE DEF row, k, m
    <3>3. /\ ExpandRow(request.id, k, m).nodes = UpTo(Around(c), k + 1)
          /\ ExpandRow(request.id, k, m).links = UpTo(LinksOf(c), m)
      BY <1>1, <2>1, <3>1, ExpandRowIs
    <3>4. row.nodes = UpTo(F, k + 1) /\ row.links = UpTo(L, m)
      BY <3>2, <3>3
    <3> QED  BY <3>4 DEF k, m
  <2> HIDE DEF row, F, L
  <2>6. /\ UpTo(row.nodes, n) = UpTo(F, n)
        /\ Len(row.nodes) > n <=> Len(F) > n
    <3> DEFINE a == UpTo(F, n + 1 + 1)
    <3>1. /\ a \in Seq(graph) /\ Len(a) = (IF Len(F) <= n + 1 + 1 THEN Len(F) ELSE n + 1 + 1)
          /\ \A i \in 1..Len(a) : a[i] = F[i]
      BY <1>3, <2>3, UpToIs
    <3> HIDE DEF a
    <3> DEFINE b == UpTo(a, n)
               d == UpTo(F, n)
    <3>2. /\ b \in Seq(graph) /\ Len(b) = (IF Len(a) <= n THEN Len(a) ELSE n)
          /\ \A i \in 1..Len(b) : b[i] = a[i]
      BY <1>3, <3>1, UpToIs
    <3>3. /\ d \in Seq(graph) /\ Len(d) = (IF Len(F) <= n THEN Len(F) ELSE n)
          /\ \A i \in 1..Len(d) : d[i] = F[i]
      BY <1>3, <2>3, UpToIs
    <3> HIDE DEF b, d
    <3>4. Len(F) \in Nat
      BY <2>3
    <3>5. Len(b) = Len(d) /\ Len(b) \in Nat /\ Len(b) <= Len(a)
      BY <1>3, <3>1, <3>2, <3>3, <3>4
    <3>6. \A i \in 1..Len(b) : b[i] = d[i]
      BY <3>1, <3>2, <3>3, <3>4, <3>5
    <3>7. b = d
      BY <3>2, <3>3, <3>5, <3>6
    <3>8. Len(a) > n <=> Len(F) > n
      BY <1>3, <3>1, <3>4
    <3> QED  BY <2>5, <3>7, <3>8 DEF a, b, d
  <2>7. /\ UpTo(row.links, e) = UpTo(L, e)
        /\ Len(row.links) > e <=> Len(L) > e
        /\ Len(L) <= e => UpTo(L, e) = L
    <3>1. /\ UpTo(UpTo(L, e + 1), e) = UpTo(L, e)
          /\ Len(UpTo(L, e + 1)) > e <=> Len(L) > e
          /\ Len(L) <= e => UpTo(L, e) = L
      BY <1>3, <2>4, OneMore
    <3> QED  BY <2>5, <3>1
  <2>8. Len(F) \in Nat /\ Len(L) \in Nat
    BY <2>3, <2>4
  <2>9. slice.truncated <=> Len(F) > n \/ Len(L) > e
    BY <1>6, <2>6, <2>7 DEF Cut
  <2>10. Whole <=> /\ ToSet(slice.nodes) = ShownIds(ToSet(F))
                   /\ ToSet(slice.relationships) = ShownLinks(ToSet(L))
    BY <1>4, <2>2, <2>3 DEF Whole, L
  <2>11. ASSUME NEW l \in ToSet(L) PROVE l \in Links /\ l.from \in ToSet(F) /\ l.to \in ToSet(F)
    <3>1. l \in Links /\ c \in {l.from, l.to} /\ l \in Incident(c)
      BY <1>1, <2>4, <2>11 DEF Incident, GraphTyped
    <3>2. {l.from, l.to} = {c, OtherEnd(l, c)}
      BY <3>1, OtherEndIs
    <3>3. OtherEnd(l, c) \in ToSet(NeighboursOf(c))
      BY <1>1, <3>1, NeighboursAre
    <3> QED  BY <2>3, <3>1, <3>2, <3>3
  <2>12. ASSUME Len(F) <= n, Len(L) <= e PROVE Whole
    <3>1. UpTo(F, n) = F /\ UpTo(L, e) = L
      BY <2>7, <2>12 DEF UpTo
    <3>2. {k \in ToSet(L) : k.from \in ToSet(F) /\ k.to \in ToSet(F)} = ToSet(L)
      BY <2>11
    <3> QED  BY <1>6, <2>6, <2>7, <2>10, <3>1, <3>2
  <2>13. ASSUME Whole, AllNamed PROVE Len(F) <= n /\ ~ (Len(L) > e)
    <3>1. /\ ShownIds(ToSet(UpTo(F, n))) = ShownIds(ToSet(F))
          /\ \A id \in ShownIds(ToSet(UpTo(F, n))) : id[1] # "Other"
      BY <1>4, <1>6, <2>6, <2>10, <2>13 DEF AllNamed
    <3>2. Len(F) <= n /\ \A x \in ToSet(F) : ShownId(x) = Id(x)
      BY <1>1, <1>3, <2>3, <3>1, IdsOfAll
    <3>3. ASSUME Len(L) > e PROVE FALSE
      <4>1. PICK l \in ToSet(L) : l \notin ToSet(UpTo(L, e))
        BY <1>3, <2>4, <3>3, OneMore
      <4>2. LinkId(l) \in ShownLinks(ToSet(L))
        BY <2>11, <3>2, <4>1 DEF ShownLinks
      <4>3. PICK k \in ToSet(UpTo(L, e)) : LinkId(k) = LinkId(l)
        <5>1. LinkId(l) \in ToSet(slice.relationships)
          BY <2>10, <2>13, <4>2
        <5>2. LinkId(l) \in ShownLinks({k \in ToSet(UpTo(L, e)) :
                  k.from \in ToSet(UpTo(row.nodes, n)) /\ k.to \in ToSet(UpTo(row.nodes, n))})
          BY <1>6, <2>7, <5>1
        <5> QED  BY <5>2 DEF ShownLinks
      <4>4. ToSet(UpTo(L, e)) \subseteq ToSet(L)
        BY <1>3, <2>4, UpToIs
      <4> QED  BY <2>11, <4>1, <4>3, <4>4, IdsDiffer
    <3> QED  BY <3>2, <3>3
  <2> QED  BY <1>3, <1>4, <2>8, <2>9, <2>12, <2>13
<1> QED  BY <1>7, <1>8

\* A detail has all the neighbours, or says that it has not.
LEMMA DetailIsWhole ==
    ASSUME SliceInv, IsAnswered, request.op = "detail", ~ reply.slice.truncated
    PROVE  Whole
<1>1. /\ GraphTyped /\ backend \in {"direct", "addon"}
      /\ reply = AnswerOf(backend, request) /\ reply.error = "none"
  BY RequestsAre DEF SliceInv, IsAnswered, NoRequest
<1>2. WithId(request.id) # {}
  BY <1>1 DEF AnswerOf, GraphElement, Refused
<1>3. PICK c : c \in WithId(request.id)
  BY <1>2
<1>4. WithId(request.id) = {c}
  BY <1>1, <1>3, NamesAreUnique
<1> DEFINE s == NeighboursOf(c)
           row == ElementRow(request.id)
<1>5. row.nodes = UpTo(s, DetailNodes + 1) /\ RowIs(row)
  BY <1>1, <1>3, ElementRowIs
<1>6. s \in Seq(graph) /\ IsOnce(s)
  BY <1>1, NeighboursAre
<1>7. DetailNodes \in Nat /\ DetailEdges \in Nat
  BY LimitsAre
<1>8. reply = NodeDetail(backend, request.id)
  BY <1>1, <1>2 DEF AnswerOf, GraphElement
<1>9. /\ ToSet(reply.slice.nodes) = ShownIds(ToSet(UpTo(row.nodes, DetailNodes)))
      /\ reply.slice.truncated = Cut(row, DetailNodes, DetailEdges)
  <2>1. CASE backend = "direct"
    <3> DEFINE slice == SliceOf(backend, row, DetailNodes, DetailEdges)
    <3>1. reply.slice = slice
      BY <1>8, <2>1 DEF NodeDetail, AnswerRecord, SliceOf
    <3>2. IsShown(slice, row, DetailNodes, DetailEdges)
      BY <1>1, <1>5, <1>7, ShownSlice
    <3> HIDE DEF slice, row
    <3> QED  BY <3>1, <3>2 DEF IsShown
  <2>2. CASE backend = "addon"
    <3>1. reply.slice = GraphqlSlice(row, DetailNodes, DetailEdges)
      BY <1>8, <2>2 DEF NodeDetail, AnswerRecord
    <3> HIDE DEF row
    <3> DEFINE some == UpTo(row.nodes, DetailNodes)
    <3>2. reply.slice.nodes = Each(Id, some) /\ reply.slice.truncated = Cut(row, DetailNodes, DetailEdges)
      BY <3>1 DEF GraphqlSlice, SliceRecord
    <3>3. some \in Seq(graph)
      BY <1>5, <1>7, UpToIs DEF RowIs
    <3> HIDE DEF some
    <3>4. ToSet(Each(Id, some)) = {Id(x) : x \in ToSet(some)}
      BY <3>3, EachIs
    <3>5. ToSet(reply.slice.nodes) = ShownIds(ToSet(some))
      BY <2>2, <3>2, <3>4 DEF ShownIds, ShownId
    <3> QED  BY <3>2, <3>5 DEF some
  <2> QED  BY <1>1, <2>1, <2>2
<1> HIDE DEF row
<1>10. ~ (Len(row.nodes) > DetailNodes)
  BY <1>9 DEF Cut
<1>11. /\ Len(s) \in Nat /\ ~ (Len(s) > DetailNodes)
       /\ UpTo(row.nodes, DetailNodes) = UpTo(s, DetailNodes)
  BY <1>5, <1>6, <1>7, <1>10, OneMore
<1>12. UpTo(s, DetailNodes) = s
  BY <1>6, <1>7, <1>11 DEF UpTo
<1>13. ToSet(reply.slice.nodes) = ShownIds(ToSet(s))
  BY <1>9, <1>11, <1>12
<1> QED  BY <1>4, <1>13 DEF Whole

LEMMA AnswersAreWhole == ASSUME SliceInv PROVE UncutIsWhole
<1> SUFFICES ASSUME IsAnswered
             PROVE  /\ ~ reply.slice.truncated => Whole
                    /\ request.op # "detail" /\ Whole /\ AllNamed => ~ reply.slice.truncated
  BY DEF UncutIsWhole
<1>1. /\ reply = AnswerOf(backend, request) /\ reply.error = "none"
      /\ request.op \in {"snapshot", "expand", "search", "detail", "relationship"}
  BY RequestsAre DEF SliceInv, IsAnswered, NoRequest
<1>2. ASSUME request.op = "relationship" PROVE Whole /\ ~ reply.slice.truncated
  <2>1. reply = GraphElement(backend, request)
    BY <1>1, <1>2 DEF AnswerOf
  <2>2. backend = "direct" /\ request.link \in relations
    BY <1>1, <1>2, <2>1 DEF GraphElement, Refused
  <2>3. reply = LinkDetail(request.link)
    BY <1>2, <2>1, <2>2 DEF GraphElement
  <2>4. reply.slice.relationships = <<LinkId(request.link)>> /\ reply.slice.truncated = FALSE
    BY <2>3 DEF LinkDetail, AnswerRecord, SliceRecord
  <2>5. ToSet(<<LinkId(request.link)>>) = {LinkId(request.link)}
    BY DEF ToSet
  <2> QED  BY <1>2, <2>4, <2>5 DEF Whole
<1> QED  BY <1>1, <1>2, InitialIsWhole, SearchIsWhole, ExpansionIsWhole, DetailIsWhole

-----------------------------------------------------------------------------
LEMMA SlicesStart == SliceInit => SliceInv
BY DEF SliceInit, SliceInv, GraphTyped, IsAnswered, NoRequest

\* The answer follows from the graph: what a read returns changes with it only.
LEMMA RowsFollowGraph ==
    ASSUME graph' = graph, relations' = relations, order' = order
    PROVE  /\ \A k, e : InitialRow(k, e)' = InitialRow(k, e)
           /\ \A id, k, e : ExpandRow(id, k, e)' = ExpandRow(id, k, e)
           /\ \A id : ElementRow(id)' = ElementRow(id)
           /\ \A id : WithId(id)' = WithId(id)
           /\ \A S : Matches(S)' = Matches(S)
<1>1. \A S : Matches(S)' = Matches(S)
  BY DEF Matches
<1>2. \A id : WithId(id)' = WithId(id)
  BY DEF WithId
<1>3. \A k, e : InitialRow(k, e)' = InitialRow(k, e)
  BY DEF InitialRow, Matches, LinksOf, NeighboursOf, IsBefore, Position, WithId
<1>4. \A id, k, e : ExpandRow(id, k, e)' = ExpandRow(id, k, e)
  BY DEF ExpandRow, Matches, LinksOf, NeighboursOf, IsBefore, Position, WithId
<1>5. \A id : ElementRow(id)' = ElementRow(id)
  BY DEF ElementRow, Matches, LinksOf, NeighboursOf, IsBefore, Position, WithId
<1> QED  BY <1>1, <1>2, <1>3, <1>4, <1>5

\* The graph does not change between a question and its answer.
LEMMA SlicesStep == SliceInv /\ [SliceNext]_sliceVars => SliceInv'
<1> SUFFICES ASSUME SliceInv, [SliceNext]_sliceVars PROVE SliceInv'
  OBVIOUS
<1>1. CASE GraphIsWritten
  <2>1. GraphTyped'
    <3>1. graph' \subseteq Members /\ relations' \subseteq Links /\ order' \in Orders
      BY <1>1 DEF GraphIsWritten, SliceInv, GraphTyped
    <3>2. ASSUME NEW l \in relations' PROVE l.from \in graph' /\ l.to \in graph'
      BY <1>1 DEF GraphIsWritten, SliceInv, GraphTyped
    <3> QED  BY <3>1, <3>2 DEF GraphTyped
  <2>2. request' = NoRequest /\ backend' = backend
    BY <1>1 DEF GraphIsWritten
  <2> QED  BY <2>1, <2>2 DEF SliceInv, IsAnswered, NoRequest
<1>2. CASE Taken
  BY <1>2 DEF Taken, SliceInv, GraphTyped, IsAnswered, NoRequest
<1>3. ASSUME NEW r \in Requests, ReadGraph(r) PROVE SliceInv'
  <2>1. /\ graph' = graph /\ relations' = relations /\ backend' = backend /\ order' = order
        /\ request' = r /\ reply' = AnswerOf(backend, r)
    BY <1>3 DEF ReadGraph
  <2>2. GraphTyped'
    BY <2>1 DEF SliceInv, GraphTyped
  <2>3. AnswerOf(backend, request)' = AnswerOf(backend, r)
    BY <2>1, RowsFollowGraph DEF AnswerOf, InitialGraph, ExpandNode, SearchGraph, GraphElement, NodeDetail, LinkDetail
  <2> QED  BY <2>1, <2>2, <2>3 DEF SliceInv
<1>4. ASSUME NEW r \in Requests, ReadInVain(r) PROVE SliceInv'
  <2>1. /\ graph' = graph /\ relations' = relations /\ backend' = backend /\ order' = order
        /\ request' = r /\ reply'.error # "none"
    BY <1>4 DEF ReadInVain, Refused
  <2> QED  BY <2>1 DEF SliceInv, GraphTyped, IsAnswered
<1>5. CASE UNCHANGED sliceVars
  <2>1. /\ graph' = graph /\ relations' = relations /\ backend' = backend /\ order' = order
        /\ request' = request /\ reply' = reply
    BY <1>5 DEF sliceVars
  <2>2. AnswerOf(backend, request)' = AnswerOf(backend, request)
    BY <2>1, RowsFollowGraph DEF AnswerOf, InitialGraph, ExpandNode, SearchGraph, GraphElement, NodeDetail, LinkDetail
  <2> QED  BY <2>1, <2>2 DEF SliceInv, GraphTyped, IsAnswered
<1> QED  BY <1>1, <1>2, <1>3, <1>4, <1>5 DEF SliceNext

\* A slice is within its limits, has nothing twice and both ends of what it
\* shows, and it says that it was cut exactly if something is missing: for
\* every graph, request and limit (graph_backends.py:256).
THEOREM SlicesAreAlwaysExact == SliceSpec => []SliceIsExact
<1>1. SliceInv => SliceIsExact
  BY AnswersAreClosed, AnswersAreWhole DEF SliceIsExact
<1> QED  BY <1>1, SlicesStart, SlicesStep, PTL DEF SliceSpec
=============================================================================
