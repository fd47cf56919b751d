----------------------------- MODULE SyncActivity -----------------------------
(***************************************************************************)
(* The sync activity sensor (coordinator.py): accepted events, batches and *)
(* the entities they covered are counted in rings with a bucket for each   *)
(* of the last minutes, and the sums are published by a timer.  A bucket   *)
(* is emptied only when somebody records or publishes in a later minute,   *)
(* be it the next one or one much later; the clock of the host may be set  *)
(* back.                                                                   *)
(***************************************************************************)
EXTENDS Integers, FiniteSets

CONSTANTS Window,     \* SYNC_ACTIVITY_WINDOW_MINUTES
          LastMinute, \* bound: the clock
          MaxBatch,   \* bound: entities in a batch
          MaxRecords, \* bound: events and batches
          MaxSetBacks \* bound: how often the clock is set back

ASSUME ActivityAssumption ==
    /\ Window \in Nat \ {0}
    /\ LastMinute \in Nat /\ MaxBatch \in Nat \ {0}
    /\ MaxRecords \in Nat /\ MaxSetBacks \in Nat

Kinds == {"events", "batches", "synced"}

\* The clock counts minutes, and had run for longer than the window when the
\* integration was written.
Minutes == 0..LastMinute
Clock == {m \in Minutes : m >= Window}

Slots == 0..Window - 1
Slot(m) == m % Window

VARIABLES
    now,       \* the minute of the clock
    last,      \* the minute last rolled to, -1 before the first
    buckets,   \* the three rings
    snapshot,  \* what the sensor shows
    recorded,  \* history: what was recorded under each minute
    peak,      \* history: the latest minute that the clock was set back from, or -1
    records, setBacks

activityVars == <<now, last, buckets, snapshot, recorded, peak, records, setBacks>>

Empty == [k \in Kinds |-> [s \in Slots |-> 0]]

ActivityInit ==
    /\ now \in Clock
    /\ last = -1
    /\ buckets = Empty
    /\ snapshot = [k \in Kinds |-> 0]
    /\ recorded = [k \in Kinds |-> [m \in Minutes |-> 0]]
    /\ peak = -1
    /\ records = 0 /\ setBacks = 0

-----------------------------------------------------------------------------
Lesser(a, b) == IF a < b THEN a ELSE b
Greater(a, b) == IF a < b THEN b ELSE a

\* Seeded fault: only the bucket of this minute is emptied.
PassedThis(from, to) == {Slot(to)}

\* Seeded fault: nothing is emptied after a pause longer than the window.
PassedSoon(from, to) == {Slot(from + step) : step \in 1..(IF to - from > Window THEN 0 ELSE to - from)}

\* The buckets of the minutes passed since the last roll: at most all.
Passed(from, to) == {Slot(from + step) : step \in 1..Lesser(to - from, Window)}

\* _activity_roll: nothing has passed before the first time, within a minute,
\* and while the clock is behind.
Rolled(from, to) ==
    [k \in Kinds |->
        [s \in Slots |->
            IF from >= 0 /\ to > from /\ s \in Passed(from, to) THEN 0 ELSE buckets[k][s]]]

RolledTo(from, to) == Greater(from, to)

\* What is added to each ring is added to the bucket of this minute.
Record(added) ==
    /\ records < MaxRecords
    /\ records' = records + 1
    /\ last' = RolledTo(last, now)
    /\ buckets' =
          [k \in Kinds |->
              [s \in Slots |-> Rolled(last, now)[k][s] + (IF s = Slot(now) THEN added[k] ELSE 0)]]
    /\ recorded' =
          [k \in Kinds |->
              [m \in Minutes |-> recorded[k][m] + (IF m = now THEN added[k] ELSE 0)]]
    /\ UNCHANGED <<now, snapshot, peak, setBacks>>

Added(events, batches, synced) ==
    [k \in Kinds |-> CASE k = "events" -> events [] k = "batches" -> batches [] k = "synced" -> synced]

\* record_sync_event, for each state change that is accepted
Event == Record(Added(1, 0, 0))

\* record_sync_batch, after a batch of at least one entity
Batch(size) == Record(Added(0, 1, size))

\* A sum of naturals, as the number of its units.
Total(f, S) == Cardinality(UNION {{x} \X (1..f[x]) : x \in S})

\* async_publish_sync_activity.  The average is shown as the quotient of two
\* of the sums, and as zero without a batch.
Publish ==
    /\ last' = RolledTo(last, now)
    /\ buckets' = Rolled(last, now)
    /\ snapshot' = [k \in Kinds |-> Total(buckets'[k], Slots)]
    /\ UNCHANGED <<now, recorded, peak, records, setBacks>>

\* Minutes pass, one or many: the host may have been suspended.
Advance ==
    /\ now' \in {m \in Minutes : m > now}
    /\ UNCHANGED <<last, buckets, snapshot, recorded, peak, records, setBacks>>

SetBack ==
    /\ setBacks < MaxSetBacks
    /\ setBacks' = setBacks + 1
    /\ now' \in {m \in Clock : m < now}
    /\ peak' = Greater(peak, last)
    /\ UNCHANGED <<last, buckets, snapshot, recorded, records>>

ActivityNext ==
    \/ Event \/ (\E size \in 1..MaxBatch : Batch(size))
    \/ Publish \/ Advance \/ SetBack

ActivitySpec == ActivityInit /\ [][ActivityNext]_activityVars

-----------------------------------------------------------------------------
\* Clock, rings, snapshot and history are of their kinds, and nothing was
\* recorded under a minute that is still to come.
ActivityTypeOK ==
    /\ now \in Clock
    /\ last \in Clock \cup {-1}
    /\ buckets \in [Kinds -> [Slots -> Nat]]
    /\ DOMAIN snapshot = Kinds
    /\ recorded \in [Kinds -> [Minutes -> Nat]]
    /\ peak \in Clock \cup {-1}
    /\ records \in 0..MaxRecords /\ setBacks \in 0..MaxSetBacks
    /\ \A k \in Kinds : \A m \in Minutes : m > last => recorded[k][m] = 0

\* Of each of the last minutes the ring holds what was recorded under it, no
\* less and nothing of an older minute, however long nothing happened; minutes
\* that the clock went through twice are excepted (_activity_roll).
RingIsRecent ==
    \A k \in Kinds : \A m \in Minutes :
        m > last - Window /\ m <= last /\ m > peak => buckets[k][Slot(m)] = recorded[k][m]

InWindow == {m \in Minutes : m > now - Window /\ m <= now}

\* What the timer publishes is what was recorded in the last minutes, so that
\* it decays to zero; and is so again once the clock that was set back is a
\* window past the minute it was set back from (async_publish_sync_activity).
PublishedIsExact ==
    [][Publish /\ now - Window >= peak =>
           \A k \in Kinds : snapshot'[k] = Total(recorded[k], InWindow)]_activityVars
=============================================================================
