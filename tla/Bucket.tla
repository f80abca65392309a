-------------------------------- MODULE Bucket --------------------------------
(***************************************************************************)
(* Buckets (src/simulus/bucket.py): a level between zero and a capacity,   *)
(* producers that put and consumers that get amounts, and two private      *)
(* semaphores per bucket in which they wait for room or for supply.        *)
(* Getting and putting mirror each other, so the model has one action for  *)
(* both, with the side as a parameter.  Processes get and put directly or  *)
(* by the conditional wait of the simulator for several buckets, all or    *)
(* any.  As in Semaphore, time is left out: the event of a process fires   *)
(* whenever the event loop takes one.                                      *)
(*                                                                         *)
(* The private semaphores are signalled only for a process that waits, so  *)
(* their values are minus the lengths of their queues; the model keeps the *)
(* queues.  One wait uses a bucket once.                                   *)
(***************************************************************************)
EXTENDS Integers, Sequences, FiniteSets, SequencesExt, FiniteSetsExt

CONSTANTS Procs,      \* the processes
          Buckets,
          Capacity, InitLevel,
          Qdis,       \* the queuing discipline of each side of a bucket
          Prio,       \* the priority of every process
          Items,      \* what user code gets and puts directly
          Waits,      \* its conditional waits: lists of items, all or any, with
                      \* or without a time limit
          Kills       \* whether processes are killed

Sides == {"get", "put"}
Other(side) == IF side = "get" THEN "put" ELSE "get"

\* The queues: a place of a process is the side of a bucket.
Places == Buckets \X Sides

\* What can be got or put: the bucket, the side and the amount.
IsItem(i) == i.b \in Buckets /\ i.side \in Sides /\ i.amt \in 1..Capacity[i.b]
Place(i) == <<i.b, i.side>>
Opposite(i) == <<i.b, Other(i.side)>>
PlacesOf(items) == {Place(items[k]) : k \in DOMAIN items}

Disciplines == {"FIFO", "LIFO", "SIRO", "PRIORITY"}

\* The arguments that simulator.bucket() accepts.
ValidBucket(capacity, initlevel, p_qdis, c_qdis) ==
  /\ capacity \in Nat \ {0}
  /\ initlevel \in 0..capacity
  /\ p_qdis \in Disciplines /\ c_qdis \in Disciplines

VARIABLES st, readyq, cur,  \* the process scheduler
          timer,      \* the processes with an event on the event list
          call,       \* the blocking call every process is in
          level,      \* what is in each bucket
          queue,      \* the processes blocked on the semaphore of each side
          amount,     \* _p_arrivals, _c_arrivals: who has arrived, for how much
          acting,     \* acting_trappables: the places where a process was
                      \* unblocked, until it resumes
          barged,     \* history: the buckets where a process that was unblocked
                      \* could not count on its amount until it resumed
          left,       \* history: the places a process died in
          abandoned   \* history: the places a process gave up since the last
                      \* time someone got or put on the other side

schedVars == <<st, readyq, cur>>
bucketVars == <<level, queue, amount, acting>>
history == <<barged, left, abandoned>>
vars == <<schedVars, timer, call, bucketVars, history>>

S == INSTANCE Sched

\* What the constants have to be; those who use the module assume it.
BucketAssumption ==
  /\ S!ProcsOK
  /\ InitLevel \in [Buckets -> Nat]
  /\ \A b \in Buckets :
       ValidBucket(Capacity[b], InitLevel[b], Qdis[<<b, "put">>], Qdis[<<b, "get">>])
  /\ Prio \in [Procs -> Int]
  /\ \A i \in Items : IsItem(i)
  /\ \A w \in Waits : /\ w.every \in BOOLEAN /\ w.timed \in BOOLEAN
                      /\ w.items \in Seq(ToSet(w.items))
                      /\ \A k, l \in DOMAIN w.items :
                           IsItem(w.items[k]) /\ (w.items[k].b = w.items[l].b => k = l)

Idle == [op |-> "none"]
Sleeping == [op |-> "sleep"]
\* A wait: got are the places of the items that were got or put.
Waiting(op, items, got, every, timed) ==
  [op |-> op, items |-> items, got |-> got, every |-> every, timed |-> timed]

InitStats == /\ level = InitLevel
             /\ queue = [pl \in Places |-> <<>>]
             /\ amount = [pl \in Places |-> [p \in {} |-> 0]]

Init == /\ st = [p \in Procs |-> "started"]
        /\ readyq = <<>>
        /\ cur = "main"
        /\ timer = Procs
        /\ call = [p \in Procs |-> Idle]
        /\ InitStats
        /\ acting = [p \in Procs |-> <<>>]
        /\ barged = {} /\ left = {} /\ abandoned = {}

User == S!User /\ (cur \in Procs => call[cur] = Idle)
InProcess == User /\ cur \in Procs /\ st[cur] = "running"

\* A process in a get, a put or a conditional wait.
InWait(p) == call[p].op \in {"direct", "cond"}

-----------------------------------------------------------------------------
(* One bucket: who can be served *)

\* The level of a bucket after an amount is got or put, and whether it can be.
After(lvl, side, amt) == IF side = "get" THEN lvl - amt ELSE lvl + amt
Fits(b, lvl, side, amt) == IF side = "get" THEN amt <= lvl
                           ELSE amt + lvl <= Capacity[b]

FitsNow(i) == Fits(i.b, level[i.b], i.side, i.amt)

\* The items of a list that can be got or put now, and the others.
Fitting(items) == S!AtPlaces(items, {k \in DOMAIN items : FitsNow(items[k])})
Lacking(items) == S!AtPlaces(items, {k \in DOMAIN items : ~FitsNow(items[k])})

\* The orders in which the processes in a queue may be unblocked.
OrdersOf(qdis, q) ==
  CASE qdis = "FIFO" -> {q}
    [] qdis = "LIFO" -> {Reverse(q)}
    [] qdis = "SIRO" -> SetToSeqs(ToSet(q))
    [] qdis = "PRIORITY" ->
         {o \in SetToSeqs(ToSet(q)) :
            \A i, j \in DOMAIN o : i < j => Prio[o[i]] <= Prio[o[j]]}

Orders(pl) == OrdersOf(Qdis[pl], queue[pl])

\* The level once the first k of o have got or put their amounts.
Reserved(pl, o, k, lvl) ==
  LET rest[n \in 0..k] == IF n = 0 THEN lvl
                          ELSE After(rest[n - 1], pl[2], amount[pl][o[n]])
  IN rest[k]

\* Seeded mistakes: every process that fits the level by itself
\* is unblocked, and only one process is.
UnblockableEach(pl, o, lvl) ==
  Max({n \in 0..Len(o) : \A k \in 1..n : Fits(pl[1], lvl, pl[2], amount[pl][o[k]])})
UnblockableOne(pl, o, lvl) ==
  IF o # <<>> /\ Fits(pl[1], lvl, pl[2], amount[pl][o[1]]) THEN 1 ELSE 0

\* How many processes of o are unblocked, one by one while the next one fits
\* in the level that the ones before it will leave.
Unblockable(pl, o, lvl) ==
  Max({n \in 0..Len(o) : \A k \in 1..n :
         Fits(pl[1], Reserved(pl, o, k - 1, lvl), pl[2], amount[pl][o[k]])})

-----------------------------------------------------------------------------
(* Getting and putting *)

\* For each item, an order of the processes on the other side of its bucket.
Lineups(items) ==
  {o \in [DOMAIN items -> UNION {Orders(Opposite(items[k])) : k \in DOMAIN items}] :
     \A k \in DOMAIN items : o[k] \in Orders(Opposite(items[k]))}

\* The processes that getting or putting each item in turn unblocks.
Unblocked(items, o) ==
  [k \in DOMAIN items |->
     LET i == items[k]
     IN SubSeq(o[k], 1, Unblockable(Opposite(i), o[k], After(level[i.b], i.side, i.amt)))]

\* Where process q is unblocked, in that order.
Credits(items, woken, q) ==
  S!AtPlaces([k \in DOMAIN items |-> Opposite(items[k])],
             {k \in DOMAIN items : Contains(woken[k], q)})

\* Process p gets or puts the items done, is told so of those it was waiting
\* for, arrives at and is queued for those in new, and withdraws from those in
\* off.  The processes of woken are unblocked.
Exchange(p, done, new, off, woken) ==
  /\ level' = [b \in Buckets |->
                 LET mine == {k \in DOMAIN done : done[k].b = b}
                 IN IF mine = {} THEN level[b]
                    ELSE LET i == done[CHOOSE k \in mine : TRUE]
                         IN After(level[b], i.side, i.amt)]
  /\ queue' = [pl \in Places |->
                 LET out == UNION {ToSet(woken[k]) : k \in {n \in DOMAIN done :
                                                             Opposite(done[n]) = pl}}
                     gone == IF pl \in PlacesOf(off) THEN out \cup {p} ELSE out
                     rest == S!AtPlaces(queue[pl], {n \in DOMAIN queue[pl] :
                                                      queue[pl][n] \notin gone})
                 IN IF pl \in PlacesOf(new) THEN Append(rest, p) ELSE rest]
  /\ amount' = [pl \in Places |->
                  LET here == {k \in DOMAIN new : Place(new[k]) = pl}
                      came == IF here = {} THEN {} ELSE {p}
                      gone == IF pl \in PlacesOf(done) \cup PlacesOf(off) THEN {p} ELSE {}
                  IN [q \in (DOMAIN amount[pl] \ gone) \cup came |->
                        IF q \in came THEN new[CHOOSE k \in here : TRUE].amt
                        ELSE amount[pl][q]]]
  /\ acting' = [q \in Procs |-> IF q = p THEN <<>>
                                ELSE acting[q] \o Credits(done, woken, q)]

\* The places where a process was unblocked that is still to resume, and their
\* buckets.
PromisedAt == {pl \in Places : \E p \in Procs : S!Live(p) /\ Contains(acting[p], pl)}
Promised == {pl[1] : pl \in PromisedAt}

\* User code gets or puts at buckets where others have been promised something.
Barge(items) ==
  barged' = barged \cup ({items[k].b : k \in DOMAIN items} \cap Promised)

\* One of several processes that were unblocked together resumes, and unblocks
\* others where some are still to resume: it does not count what those will take.
Overbook(items, woken) ==
  barged' = barged \cup {items[k].b : k \in {n \in DOMAIN items :
                           woken[n] # <<>> /\ Opposite(items[n]) \in PromisedAt}}

\* Who gets or puts looks at those who wait on the other side; who gives up does
\* not look at those who waited behind it.
Abandon(done, off) ==
  abandoned' = (abandoned \ {Opposite(done[k]) : k \in DOMAIN done}) \cup PlacesOf(off)

Met(every, items, got) == IF every THEN PlacesOf(items) \subseteq got ELSE got # {}

\* get() or put(), or a conditional wait for them, with no need to block: what
\* does not fit is recorded and queued for a moment, and withdrawn.
AtOnce(items, every) ==
  LET done == Fitting(items)
  IN /\ InProcess
     /\ Met(every, items, PlacesOf(done))
     /\ \E o \in Lineups(done) :
          LET woken == Unblocked(done, o)
          IN /\ Exchange(cur, done, <<>>, Lacking(items), woken)
             /\ S!Signal(S!Woken(st, FlattenSeq(woken)))
     /\ Barge(done) /\ Abandon(done, <<>>)
     /\ UNCHANGED <<timer, call, left>>

\* The process p suspends itself after it has woken others up.
SuspendAfter(p, woken) ==
  /\ S!Wake([st EXCEPT ![p] = "suspended"], S!Woken(st, FlattenSeq(woken)))
  /\ cur' = "drain"

\* The same with a need to block.  In a conditional wait what fits is got or
\* put right away.
Blocks(op, items, every, timed) ==
  LET done == Fitting(items)
      new == Lacking(items)
  IN /\ InProcess
     /\ ~Met(every, items, PlacesOf(done))
     /\ \E o \in Lineups(done) :
          LET woken == Unblocked(done, o)
          IN /\ Exchange(cur, done, new, <<>>, woken)
             /\ SuspendAfter(cur, woken)
     /\ Barge(done) /\ Abandon(done, <<>>)
     /\ timer' = IF timed THEN timer \cup {cur} ELSE timer
     /\ call' = [call EXCEPT ![cur] = Waiting(op, items, PlacesOf(done), every, timed)]
     /\ UNCHANGED left

-----------------------------------------------------------------------------
(* Resuming *)

\* The items that p gets or puts when it resumes: a direct call goes on whatever
\* woke it up, a conditional wait looks at what it was unblocked for.
Resumed(p) ==
  LET at(pl) == call[p].items[CHOOSE k \in DOMAIN call[p].items : Place(call[p].items[k]) = pl]
  IN IF call[p].op = "direct" THEN call[p].items
     ELSE [n \in DOMAIN acting[p] |-> at(acting[p][n])]

Got(p) == call[p].got \cup PlacesOf(Resumed(p))
TimedOut(p) == call[p].timed /\ p \notin timer
Satisfied(p) == TimedOut(p) \/ Met(call[p].every, call[p].items, Got(p))
Withdrawn(p) == S!AtPlaces(call[p].items, {k \in DOMAIN call[p].items :
                                             Place(call[p].items[k]) \notin Got(p)})

\* A seeded mistake: the process stays in the queues.
ReturnStillQueued(p) ==
  /\ cur = p /\ InWait(p) /\ Satisfied(p)
  /\ \E o \in Lineups(Resumed(p)) :
       LET woken == Unblocked(Resumed(p), o)
       IN /\ Exchange(p, Resumed(p), <<>>, <<>>, woken)
          /\ S!Signal(S!Woken(st, FlattenSeq(woken)))
          /\ Overbook(Resumed(p), woken)
  /\ Abandon(Resumed(p), Withdrawn(p))
  /\ timer' = timer \ {p}
  /\ call' = [call EXCEPT ![p] = Idle]
  /\ UNCHANGED left

\* The wait is over: what p was unblocked for it gets or puts, without looking
\* at the level again, and it withdraws from the rest.
Return(p) ==
  /\ cur = p /\ InWait(p) /\ Satisfied(p)
  /\ \E o \in Lineups(Resumed(p)) :
       LET woken == Unblocked(Resumed(p), o)
       IN /\ Exchange(p, Resumed(p), <<>>, Withdrawn(p), woken)
          /\ S!Signal(S!Woken(st, FlattenSeq(woken)))
          /\ Overbook(Resumed(p), woken)
  /\ Abandon(Resumed(p), Withdrawn(p))
  /\ timer' = timer \ {p}
  /\ call' = [call EXCEPT ![p] = Idle]
  /\ UNCHANGED left

\* It is not enough yet: p gets or puts what it was unblocked for, and waits on.
Again(p) ==
  /\ cur = p /\ InWait(p) /\ ~Satisfied(p)
  /\ \E o \in Lineups(Resumed(p)) :
       LET woken == Unblocked(Resumed(p), o)
       IN /\ Exchange(p, Resumed(p), <<>>, <<>>, woken)
          /\ SuspendAfter(p, woken)
          /\ Overbook(Resumed(p), woken)
  /\ Abandon(Resumed(p), <<>>)
  /\ call' = [call EXCEPT ![p].got = Got(p)]
  /\ UNCHANGED <<timer, left>>

-----------------------------------------------------------------------------
(* Processes and the event loop *)

Sleep == /\ InProcess
         /\ timer' = timer \cup {cur}
         /\ call' = [call EXCEPT ![cur] = Sleeping]
         /\ S!Suspend(cur)
         /\ UNCHANGED <<bucketVars, history>>

SleepReturn(p) == /\ cur = p /\ call[p].op = "sleep"
                  /\ call' = [call EXCEPT ![p] = Idle]
                  /\ UNCHANGED <<schedVars, timer, bucketVars, history>>

Kill(p) == /\ Kills /\ User
           /\ S!Kill(p, <<>>)
           /\ left' = IF InWait(p) THEN left \cup PlacesOf(call[p].items) ELSE left
           /\ UNCHANGED <<timer, call, bucketVars, barged, abandoned>>

Terminate(p) == User /\ S!Terminate(p, <<>>) /\ UNCHANGED <<timer, call, bucketVars, history>>

Fire(p) == /\ p \in timer
           /\ S!Fire(p)
           /\ timer' = timer \ {p}
           /\ UNCHANGED <<call, bucketVars, history>>

LoopStep == /\ \/ S!RunBegin \/ S!RunEnd \/ S!Handle(<<>>)
               \/ S!HandlerReturn \/ S!Dispatch \/ S!DrainEnd("pick")
            /\ UNCHANGED <<timer, call, bucketVars, history>>

\* What does not get or put anything.
Elsewhere == \/ Sleep \/ LoopStep
             \/ \E p \in Procs : SleepReturn(p) \/ Kill(p) \/ Terminate(p) \/ Fire(p)

Next == \/ \E i \in Items : AtOnce(<<i>>, TRUE) \/ Blocks("direct", <<i>>, TRUE, FALSE)
        \/ \E w \in Waits : \/ AtOnce(w.items, w.every)
                            \/ Blocks("cond", w.items, w.every, w.timed)
        \/ \E p \in Procs : Return(p) \/ Again(p)
        \/ Elsewhere

Spec == Init /\ [][Next]_vars

-----------------------------------------------------------------------------

\* Whoever is unblocked is promised its amount: as long as no one else gets or
\* puts before it resumes, and none of those unblocked with it gives the amount
\* away again, the level stays between zero and the capacity, whatever gives up
\* or is killed.
PromisesKept == \A b \in Buckets \ barged : level[b] \in 0..Capacity[b]

\* The queues, the records of arrivals and the calls of the live processes
\* agree: who waits for an item has a record of its amount, and is in the queue
\* once, unless it was unblocked; who left, by whatever way, has none, so no
\* one is unblocked for a call that is over, and no one sleeps on what it has.
\* Records alone may be left over for the processes of extra.
QueuesMatchCallsBut(extra) ==
  \A p \in Procs, pl \in Places : S!Live(p) =>
    LET due == InWait(p) /\ pl \in PlacesOf(call[p].items) \ call[p].got
        credited == Contains(acting[p], pl)
        here == p \in DOMAIN amount[pl]
    IN /\ due => here
       /\ here => due \/ p \in extra[pl]
       /\ due => \E k \in DOMAIN call[p].items :
                   Place(call[p].items[k]) = pl /\ call[p].items[k].amt = amount[pl][p]
       /\ Cardinality({k \in DOMAIN queue[pl] : queue[pl][k] = p}) =
            IF due /\ ~credited THEN 1 ELSE 0
       /\ credited => due /\ st[p] = "running"

QueuesMatchCalls == QueuesMatchCallsBut([pl \in Places |-> {}])

\* A process remains blocked until there is room or supply for it, not longer:
\* once all that were unblocked have resumed, the process that is next in its
\* queue cannot be satisfied.  Where one that it was behind gives up this waits
\* for the next who gets or puts on the other side, and where one was killed it
\* is not so.
NoneLeftBlocked ==
  \A pl \in Places \ (left \cup abandoned) : pl[1] \notin Promised /\ queue[pl] # <<>> =>
    \E o \in Orders(pl) : ~Fits(pl[1], level[pl[1]], pl[2], amount[pl][o[1]])

\* What the documentation of the class says of the level, and the code does not
\* ensure.
LevelInRange == \A b \in Buckets : level[b] \in 0..Capacity[b]
=============================================================================
