-------------------------------- MODULE PQDict --------------------------------
(***************************************************************************)
(* The indexed heap under the event list (src/simulus/event.py, _PQDict_): *)
(* an array of events in heap order, and the position of every event in    *)
(* it, so that an event can be cancelled or rescheduled wherever it is.    *)
(* The heap compares the time attribute of the events themselves, which    *)
(* resched() changes while the event is in the heap.                       *)
(*                                                                         *)
(* The specification is the event list of the simulator on top of the      *)
(* heap; it is to implement EventList.                                     *)
(***************************************************************************)
EXTENDS Integers, FiniteSets, Functions

CONSTANTS Events,     \* identities of the event objects
          InitLast,   \* what minus_infinite_time stands for
          MaxTime     \* bound: the latest time a model gives to an event

VARIABLES heap,       \* the events in the array, from index 0
          position,   \* where each event of the array is
          time,       \* the time attribute of every event
          last        \* the time up to which events have been delivered

vars == <<heap, position, time, last>>

Times == InitLast..MaxTime
Size == Cardinality(DOMAIN heap)
InHeap(e) == e \in DOMAIN position

Init == /\ heap = [i \in {} |-> 0]
        /\ position = [e \in {} |-> 0]
        /\ time = [e \in Events |-> InitLast]
        /\ last = InitLast

-----------------------------------------------------------------------------
(* Moving entries up and down, with times t.  The array and the positions  *)
(* are passed on together, as a record of h and pos.                       *)

Parent(i) == (i - 1) \div 2
HasChild(h, i) == 2*i + 1 \in DOMAIN h

\* The smaller child of place i, the right one if they are equal.
Child(h, t, i) ==
  IF 2*i + 2 \in DOMAIN h /\ ~(t[h[2*i + 1]] < t[h[2*i + 2]])
  THEN 2*i + 2 ELSE 2*i + 1

\* A seeded mistake: only the last position is written.
WriteOne(s, h, places) ==
  LET i == CHOOSE k \in places : \A l \in places : l <= k
  IN [h |-> h, pos |-> [e \in DOMAIN s.pos |-> IF h[i] = e THEN i ELSE s.pos[e]]]

\* The array becomes h; the positions of the entries at these places of it
\* are written.
Write(s, h, places) ==
  [h   |-> h,
   pos |-> [e \in DOMAIN s.pos |-> IF \E i \in places : h[i] = e
                                   THEN CHOOSE i \in places : h[i] = e
                                   ELSE s.pos[e]]]

\* swim(): the entry e at place i goes up, not above top, along the path of
\* its later ancestors, whose entries move down by one.
Swim(s, t, i, top) ==
  LET e == s.h[i]
      up[j \in 0..i] == IF j > top /\ t[e] < t[s.h[Parent(j)]]
                        THEN {j} \cup up[Parent(j)] ELSE {j}
      path == up[i]
  IN Write(s, [j \in DOMAIN s.h |-> IF j \notin path THEN s.h[j]
                                   ELSE IF Parent(j) \in path THEN s.h[Parent(j)]
                                   ELSE e], path)

\* sink(): the entry at place top goes down to a leaf along the smaller
\* children, which move up by one, and swims up again.
Sink(s, t, top) ==
  LET leaf[i \in DOMAIN s.h] ==
        IF HasChild(s.h, i) THEN leaf[Child(s.h, t, i)] ELSE i
      fall[i \in DOMAIN s.h] ==
        IF HasChild(s.h, i) THEN {i} \cup fall[Child(s.h, t, i)] ELSE {}
      down == [j \in DOMAIN s.h |->
                 IF j \in fall[top] THEN s.h[Child(s.h, t, j)]
                 ELSE IF j = leaf[top] THEN s.h[top] ELSE s.h[j]]
  IN Swim(Write(s, down, fall[top] \cup {leaf[top]}), t, leaf[top], top)

\* A seeded mistake: an entry is only ever sunk.
SettleDown(s, t, i) ==
  IF HasChild(s.h, i) /\ t[s.h[Child(s.h, t, i)]] < t[s.h[i]]
  THEN Sink(s, t, i) ELSE s

\* The entry at place i is new there or has another time: it swims or sinks,
\* if it has to.
Settle(s, t, i) ==
  IF i > 0 /\ t[s.h[i]] < t[s.h[Parent(i)]] THEN Swim(s, t, i, 0)
  ELSE IF HasChild(s.h, i) /\ t[s.h[Child(s.h, t, i)]] < t[s.h[i]]
  THEN Sink(s, t, i) ELSE s

-----------------------------------------------------------------------------
(* The operations of the dictionary *)

Here == [h |-> heap, pos |-> position]
Put(s) == heap' = s.h /\ position' = s.pos

\* __setitem__() of a new key: it comes in at the end and swims up.
Added(s, t, e) ==
  LET n == Cardinality(DOMAIN s.h)
  IN Swim([h   |-> [i \in 0..n |-> IF i = n THEN e ELSE s.h[i]],
           pos |-> [f \in DOMAIN s.pos \cup {e} |-> IF f = e THEN n ELSE s.pos[f]]],
          t, n, 0)

\* The array without its last entry, which has replaced the one at place i,
\* and the positions without that one.
Vacated(i) ==
  LET end == heap[Size - 1]
  IN [h   |-> [j \in 0..Size - 2 |-> IF j = i THEN end ELSE heap[j]],
      pos |-> [f \in DOMAIN position \ {heap[i]} |->
                 IF f = end THEN i ELSE position[f]]]

\* __delitem__(): the last entry, in the place of the deleted one, settles.
Removed(e) == LET i == position[e]
              IN IF i = Size - 1 THEN Vacated(i) ELSE Settle(Vacated(i), time, i)

\* A seeded mistake: popitem() does not sink the last entry.
PoppedUnsunk == Vacated(0)

\* popitem(): the last entry, in the place of the first one, sinks.
Popped == IF Size = 1 THEN Vacated(0) ELSE Sink(Vacated(0), time, 0)

-----------------------------------------------------------------------------
(* The operations of the event list *)

Insert(e, t) == /\ ~InHeap(e)
                /\ last <= t
                /\ time' = [time EXCEPT ![e] = t]
                /\ Put(Added(Here, time', e))
                /\ UNCHANGED last

\* resched(): the event has its new time before __setitem__() is called.
Update(e, t) == /\ InHeap(e)
                /\ last <= t
                /\ time' = [time EXCEPT ![e] = t]
                /\ Put(Settle(Here, time', position[e]))
                /\ UNCHANGED last

Cancel(e) == /\ InHeap(e)
             /\ Put(Removed(e))
             /\ UNCHANGED <<time, last>>

DeleteMin == /\ Size > 0
             /\ last' = time[heap[0]]
             /\ Put(Popped)
             /\ UNCHANGED time

\* delete_min() of a repeating event, which is renewed and inserted again.
DeleteMinAndRenew(t) ==
  /\ Size > 0
  /\ time[heap[0]] <= t
  /\ last' = time[heap[0]]
  /\ time' = [time EXCEPT ![heap[0]] = t]
  /\ Put(Added(Popped, time', heap[0]))

AdvanceTo(t) == /\ last <= t
                /\ Size > 0 => t <= time[heap[0]]
                /\ last' = t
                /\ UNCHANGED <<heap, position, time>>

Next == \/ \E e \in Events, t \in Times : Insert(e, t) \/ Update(e, t)
        \/ \E e \in Events : Cancel(e)
        \/ \E t \in Times : DeleteMinAndRenew(t) \/ AdvanceTo(t)
        \/ DeleteMin

Spec == Init /\ [][Next]_vars

-----------------------------------------------------------------------------

\* No event is earlier than its parent, wherever entries were taken out of
\* the array, put into it or changed their times there.
HeapOrder == \A i \in DOMAIN heap \ {0} : ~(time[heap[i]] < time[heap[Parent(i)]])

\* Every event is where its position says, and nowhere else: a stale position
\* would cancel or reschedule another event.
PositionsExact == /\ \A e \in DOMAIN position : heap[position[e]] = e
                  /\ IsInjective(heap)

\* The heap implements the event list: the events pending, their times, and
\* that what is taken is a minimum.
EL == INSTANCE EventList WITH evlist <- [e \in Range(heap) |-> time[e]]
ASSUME HeapAssumption == EL!TimeAssumption
EventListSpec == EL!Spec
=============================================================================
