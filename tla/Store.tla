--------------------------------- MODULE Store ---------------------------------
(***************************************************************************)
(* Stores (src/simulus/store.py): buckets whose amounts are countable, and *)
(* which may hold that many objects, as the first put decides.  A store    *)
(* has the level, the queues and the unblocking of a bucket, so its steps  *)
(* are those of Bucket, where Buckets are the stores, and what happens to  *)
(* the objects.  A producer brings its objects when it arrives, they enter *)
(* the store when it departs, and they are dropped when it reneges;        *)
(* consumers take the oldest objects.                                      *)
(*                                                                         *)
(* Objects are numbered in the order in which puts with objects arrive. A  *)
(* put that does not agree with what the store holds is refused.           *)
(***************************************************************************)
EXTENDS Bucket

CONSTANTS InitObj,    \* the stores that are created with initial objects
          MaxObjs,    \* bound: the objects of all stores and puts
          MaxStale    \* bound: the processes with a record of a refused call

VARIABLES mode,       \* what a store holds: "undecided", "plain" or "objects"
          objs,       \* _obj_store, oldest object first
          offer,      \* the objects a blocked producer has brought, see _p_arrivals
          made,       \* the number of objects so far
          taken,      \* history: the objects given to consumers
          dropped,    \* history: the objects of puts that were withdrawn
          failed,     \* an object was taken from an empty store, an IndexError
          raised,     \* a refused put left its caller in a queue
          stale       \* history: for each place, who last arrived there in a
                      \* call that was refused

objVars == <<mode, objs, offer, made, taken, dropped>>
refusalVars == <<raised, stale>>
storeVars == <<vars, objVars, failed, refusalVars>>

\* The run has not ended by an exception.
Goes == ~failed /\ ~raised

\* The objects of an item are as many as its amount, or there are none.
Count(i) == IF i.obj THEN i.amt ELSE 0
ObjectItems == Items \cup UNION {ToSet(w.items) : w \in Waits}

\* What simulator.store() accepts beyond a bucket, and the constructor of a store:
\* whole numbers, and initial objects only with an initial level.
ValidStore(capacity, initlevel, initobj) ==
  capacity \in Int /\ initlevel \in Int /\ (initobj => initlevel > 0)

ASSUME StoreAssumption ==
  /\ BucketAssumption
  /\ \A i \in ObjectItems : i.obj \in BOOLEAN /\ (i.obj => i.side = "put")
  /\ \A s \in Buckets : ValidStore(Capacity[s], InitLevel[s], s \in InitObj)
  /\ IsFiniteSet(Buckets) /\ InitObj \subseteq Buckets /\ Cardinality(InitObj) <= 1

StoreInit == /\ Init
             /\ mode = [s \in Buckets |-> IF InitLevel[s] = 0 THEN "undecided"
                                         ELSE IF s \in InitObj THEN "objects" ELSE "plain"]
             /\ objs = [s \in Buckets |-> IF s \in InitObj THEN [k \in 1..InitLevel[s] |-> k] ELSE <<>>]
             /\ offer = [s \in Buckets |-> [p \in {} |-> <<>>]]
             /\ made = IF InitObj = {} THEN 0 ELSE InitLevel[CHOOSE s \in InitObj : TRUE]
             /\ taken = {} /\ dropped = {}
             /\ failed = FALSE /\ raised = FALSE
             /\ stale = [pl \in Places |-> {}]

-----------------------------------------------------------------------------
(* Arrival *)

Puts(items) == {i \in ToSet(items) : i.side = "put"}

\* A seeded mistake: a put is not checked against the puts before it.
ConsistentWithAny(items) == TRUE

\* A put without objects to a store with objects, or the other way round, is
\* refused, see Refuse.
Consistent(items) ==
  \A i \in Puts(items) : mode[i.b] = "undecided" \/ (mode[i.b] = "objects") = i.obj

\* What a store holds, from the arrival of its first producer.
Decided(items) ==
  [s \in Buckets |->
     IF mode[s] = "undecided" /\ \E i \in Puts(items) : i.b = s
     THEN IF \E i \in Puts(items) : i.b = s /\ i.obj THEN "objects" ELSE "plain"
     ELSE mode[s]]

\* The objects that come with the first k items of a list, and those that come
\* with each of its puts, numbered in its order.
Number(items, k) ==
  LET upto[n \in 0..Len(items)] == IF n = 0 THEN 0 ELSE upto[n - 1] + Count(items[n])
  IN upto[k]
Total(items) == Number(items, Len(items))
Brought(items) ==
  [i \in Puts(items) |->
     LET l == CHOOSE k \in DOMAIN items : items[k] = i
     IN [n \in 1..Count(i) |-> made + Number(items, l - 1) + n]]

-----------------------------------------------------------------------------
(* Departure and renege *)

\* A seeded mistake: the last object is removed.
RemainingFirst(o, n) == SubSeq(o, 1, Len(o) - n)

\* The objects of a store without the oldest n.
Remaining(o, n) == SubSeq(o, n + 1, Len(o))

\* What becomes of the objects when the items in done are got or put and those
\* in off are withdrawn, in stores with modes m.  given[i] are the objects that
\* came with put i: they enter at departure, and are lost when the put is withdrawn.
Move(done, off, m, given) ==
  LET gets == {i \in ToSet(done) : i.side = "get" /\ m[i.b] = "objects"}
      puts == {i \in Puts(done) : i.obj}
  IN /\ objs' = [s \in Buckets |->
                   CASE \E i \in gets : i.b = s ->
                          Remaining(objs[s], (CHOOSE i \in gets : i.b = s).amt)
                     [] \E i \in puts : i.b = s ->
                          objs[s] \o given[CHOOSE i \in puts : i.b = s]
                     [] OTHER -> objs[s]]
     /\ taken' = taken \cup
                  UNION {{objs[i.b][k] : k \in 1..i.amt \cap DOMAIN objs[i.b]} : i \in gets}
     /\ dropped' = dropped \cup UNION {ToSet(given[i]) : i \in {j \in Puts(off) : j.obj}}
     /\ failed' = (\E i \in gets : Len(objs[i.b]) < i.amt)

\* The producer p is no longer in the records of the puts among the items.
Without(p, items) ==
  [s \in Buckets |-> IF \E i \in Puts(items) : i.b = s
                    THEN [q \in DOMAIN offer[s] \ {p} |-> offer[s][q]] ELSE offer[s]]

\* It is in those of the puts among the items, with what it brought.
With(p, items, given) ==
  [s \in Buckets |-> IF \E i \in Puts(items) : i.b = s
                    THEN [q \in DOMAIN offer[s] \cup {p} |->
                            IF q = p THEN given[CHOOSE i \in Puts(items) : i.b = s]
                            ELSE offer[s][q]]
                    ELSE offer[s]]

-----------------------------------------------------------------------------

\* A call arrives with its objects, and replaces the records of refused ones.
Arrive(items) == /\ Goes
                 /\ Consistent(items)
                 /\ made + Total(items) <= MaxObjs
                 /\ made' = made + Total(items)
                 /\ mode' = Decided(items)
                 /\ stale' = [pl \in Places |-> IF pl \in PlacesOf(items) THEN stale[pl] \ {cur}
                                                ELSE stale[pl]]
                 /\ UNCHANGED raised

\* A get, a put or a conditional wait that does not block.
StoreAtOnce(items, every) ==
  /\ Arrive(items)
  /\ AtOnce(items, every)
  /\ Move(Fitting(items), Lacking(items), mode', Brought(items))
  /\ UNCHANGED offer

\* One that does: what does not fit is kept with the record of the arrival.
StoreBlocks(op, items, every, timed) ==
  /\ Arrive(items)
  /\ Blocks(op, items, every, timed)
  /\ Move(Fitting(items), <<>>, mode', Brought(items))
  /\ offer' = With(cur, Lacking(items), Brought(items))

\* The n-th item is refused.  By then those before it were tried, and a store
\* records an arrival before it looks at the objects: the records stay, as do the
\* places in the queues.  User code may catch the exception and go on; where it
\* is left in a queue, the model takes the exception to end the run.
Refuse(items) ==
  \E n \in DOMAIN items :
    LET before == SubSeq(items, 1, n - 1)
        tried == SubSeq(items, 1, n)
        blocked == PlacesOf(Lacking(before))
    IN /\ Goes /\ InProcess
       /\ Cardinality({cur} \cup UNION {stale[pl] : pl \in Places}) <= MaxStale
       /\ Consistent(before) /\ ~Consistent(<<items[n]>>)
       /\ amount' = [pl \in Places |->
                       LET here == {k \in 1..n : Place(items[k]) = pl}
                       IN IF here = {} THEN amount[pl]
                          ELSE [q \in DOMAIN amount[pl] \cup {cur} |->
                                  IF q = cur THEN items[CHOOSE k \in here : TRUE].amt
                                  ELSE amount[pl][q]]]
       /\ queue' = [pl \in Places |-> IF pl \in blocked THEN Append(queue[pl], cur)
                                      ELSE queue[pl]]
       /\ mode' = Decided(before)
       /\ stale' = [pl \in Places |-> IF pl \in PlacesOf(tried) THEN stale[pl] \cup {cur}
                                      ELSE stale[pl]]
       /\ raised' = (blocked # {})
       /\ UNCHANGED <<schedVars, timer, call, level, acting, history,
                      objs, offer, made, taken, dropped, failed>>

Get(i) == /\ i.side = "get"
          /\ StoreAtOnce(<<i>>, TRUE) \/ StoreBlocks("direct", <<i>>, TRUE, FALSE)

Put(i) == /\ i.side = "put"
          /\ \/ StoreAtOnce(<<i>>, TRUE) \/ StoreBlocks("direct", <<i>>, TRUE, FALSE)
             \/ Refuse(<<i>>)

\* The conditional wait for getters and putters.
Wait(w) == \/ StoreAtOnce(w.items, w.every)
           \/ StoreBlocks("cond", w.items, w.every, w.timed)
           \/ Refuse(w.items)

\* The objects that p has brought for the puts among the items.
Offered(p, items) == [i \in Puts(items) |-> offer[i.b][p]]

\* A wait is over, and what it was granted moves.
StoreReturn(p) ==
  /\ Goes
  /\ Return(p)
  /\ LET over == Resumed(p) \o Withdrawn(p)
     IN /\ Move(Resumed(p), Withdrawn(p), mode, Offered(p, over))
        /\ offer' = Without(p, over)
  /\ UNCHANGED <<mode, made, refusalVars>>

StoreAgain(p) ==
  /\ Goes
  /\ Again(p)
  /\ Move(Resumed(p), <<>>, mode, Offered(p, Resumed(p)))
  /\ offer' = Without(p, Resumed(p))
  /\ UNCHANGED <<mode, made, refusalVars>>

StoreElsewhere == Goes /\ Elsewhere /\ UNCHANGED <<objVars, failed, refusalVars>>

\* An exception ends the run.
Ended == ~Goes /\ UNCHANGED storeVars

StoreNext == \/ \E i \in Items : Get(i) \/ Put(i)
             \/ \E w \in Waits : Wait(w)
             \/ \E p \in Procs : StoreReturn(p) \/ StoreAgain(p)
             \/ StoreElsewhere \/ Ended

StoreSpec == StoreInit /\ [][StoreNext]_storeVars

-----------------------------------------------------------------------------

\* Where the object n is, in the stores and with producers that wait.
InStores(n) == UNION {{<<s, k>> : k \in {j \in DOMAIN objs[s] : objs[s][j] = n}} : s \in Buckets}
Offers == UNION {{<<s, p>> : p \in DOMAIN offer[s]} : s \in Buckets}
InOffers(n) == UNION {{<<o, k>> : k \in {j \in DOMAIN offer[o[1]][o[2]] : offer[o[1]][o[2]][j] = n}} :
                      o \in Offers}
Gone(n) == {k \in {1, 2} : n \in <<taken, dropped>>[k]}

\* No object is lost or delivered twice: each one that a producer brought is in
\* one store, with one producer that waits (or died waiting), with a consumer, or
\* was withdrawn with its put; and a store has as many of them as its level says.
ObjectsConserved ==
  LET held == UNION {ToSet(objs[s]) : s \in Buckets}
      offered == UNION {ToSet(offer[o[1]][o[2]]) : o \in Offers}
  IN /\ held \cup offered \cup taken \cup dropped = 1..made
     /\ \A n \in 1..made : Cardinality(InStores(n)) + Cardinality(InOffers(n))
                             + Cardinality(Gone(n)) = 1
     /\ ~failed => \A s \in Buckets : mode[s] = "objects" => Len(objs[s]) = level[s]

\* A process that is in no call has a place in a queue only where a put of a
\* conditional wait was refused after an item before it was blocked, and a record
\* in a store only where the last call it arrived for was refused; all others
\* are as QueuesMatchCalls of Bucket says.  So whoever serves a queue serves the
\* amount that the process waits for now, whatever record an earlier call left.
ArrivalsMatchCalls == raised \/ QueuesMatchCallsBut(stale)

\* A consumer that departs finds its objects, as long as no one takes what a
\* process unblocked before it was promised, see PromisesKept of Bucket.
NoUnderflow == failed => barged # {}
=============================================================================
