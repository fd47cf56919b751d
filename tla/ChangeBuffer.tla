---------------------------- MODULE ChangeBuffer ----------------------------
(***************************************************************************)
(* GraphChangeBuffer (coordinator.py): the bounded revision buffer behind  *)
(* live graph updates.  Every publication gets the next revision; the      *)
(* oldest event is evicted when the buffer is full; a client that comes    *)
(* back with the revision of its snapshot gets the events since, or is     *)
(* told that they cannot be bridged.  Reloading the integration creates a  *)
(* new coordinator, and with it a new buffer that counts from 0 again.     *)
(***************************************************************************)
EXTENDS Integers, Sequences

CONSTANTS Elements,    \* node and relationship ids
          All,         \* stands for the id list of a reconcile event
          MaxSize,     \* max_size
          MaxEvents,   \* bound: publications
          MaxReloads   \* bound: reloads of the integration

ASSUME BufferAssumption ==
    /\ All \notin Elements
    /\ MaxSize \in Nat \ {0}
    /\ MaxEvents \in Nat
    /\ MaxReloads \in Nat

Event == [rev : Nat \ {0}, kind : {"upsert", "remove", "reconcile"}, id : Elements \cup {All}]

VARIABLES revision,   \* _revision
          events,     \* _events, oldest first
          log,        \* history: every event ever published
          base,       \* history: how many of them came before this buffer
          reloads     \* reloads so far (bound)

bufferVars == <<revision, events, log, base, reloads>>

BufferInit ==
    /\ revision = 0
    /\ events = <<>>
    /\ log = <<>>
    /\ base = 0
    /\ reloads = 0

\* deque(maxlen=max_size)
Bounded(q) == IF Len(q) > MaxSize THEN Tail(q) ELSE q

\* publish_upsert, publish_remove, publish_reconcile, without the subscribers.
Publish(kind, id) ==
    LET event == [rev |-> revision + 1, kind |-> kind, id |-> id]
    IN  /\ Len(log) < MaxEvents
        /\ revision' = revision + 1
        /\ events' = Bounded(Append(events, event))
        /\ log' = Append(log, event)
        /\ UNCHANGED <<base, reloads>>

\* async_reload_entry: unload, and set up with a new coordinator.
NewBuffer ==
    /\ reloads < MaxReloads
    /\ reloads' = reloads + 1
    /\ revision' = 0
    /\ events' = <<>>
    /\ base' = Len(log)
    /\ UNCHANGED log

\* Seeded fault: the oldest event is taken for the one before it.
CanBridgeOffByOne(r) ==
    /\ r <= revision
    /\ events = <<>> \/ r >= events[1].rev - 2

\* events_since returns a list, not None.
CanBridge(r) ==
    /\ r <= revision
    /\ events = <<>> \/ r >= events[1].rev - 1

\* What it returns then; the events carry their order in `rev`.
EventsSince(r) == {events[i] : i \in {j \in 1..Len(events) : events[j].rev > r}}

BufferNext ==
    \/ \E e \in Elements : Publish("upsert", e) \/ Publish("remove", e)
    \/ Publish("reconcile", All)
    \/ NewBuffer

BufferSpec == BufferInit /\ [][BufferNext]_bufferVars

-----------------------------------------------------------------------------
BufferTypeOK ==
    /\ revision \in Nat
    /\ events \in Seq(Event)
    /\ log \in Seq(Event)
    /\ base \in Nat
    /\ reloads \in Nat

\* What this buffer has published after revision r.
PublishedSince(r) == {log[i] : i \in base + r + 1 .. Len(log)}

\* coordinator.py:178-183: a revision the buffer bridges is bridged exactly:
\* nothing published since is missing and nothing older is repeated.
BridgeIsExact ==
    \A r \in 0..revision : CanBridge(r) => EventsSince(r) = PublishedSince(r)

\* A client is sent to reload its snapshot only for a revision of the future or
\* when more has been published since than the buffer holds.
GapOnlyWhenEvicted ==
    \A r \in 0..revision : ~ CanBridge(r) => revision - r > MaxSize
=============================================================================
