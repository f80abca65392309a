-------------------------------- MODULE Mailbox --------------------------------
(***************************************************************************)
(* A mailbox (src/simulus/mailbox.py): partitions with the messages that   *)
(* have arrived and a trap on which receivers wait.  A delivery releases   *)
(* all of them and renews the trap; the first to resume may take all that  *)
(* has arrived, and wait again on the new trap before the others resume.   *)
(*                                                                         *)
(* Time is left out: a delivery, or the event of a process, comes whenever *)
(* the event loop takes one.  A partition's trap is never sprung when      *)
(* someone looks at it, so it is given by the processes blocked on it; a   *)
(* trap that was renewed lives on only in the acting_trappables of those   *)
(* it released.  The callbacks are what user code does in the handler of   *)
(* a delivery.  A receiver is used once at a time, as any trappable.       *)
(***************************************************************************)
EXTENDS Integers, Sequences, FiniteSets, SequencesExt

CONSTANTS Procs,      \* the processes
          Parts,      \* the partitions
          Msgs,       \* the messages, each sent at most once
          Kills       \* whether processes are killed

VARIABLES st, readyq, cur,  \* the process scheduler
          timer,      \* the processes with an event on the event list
          call,       \* the blocking call every process is in
          mail,       \* the partition a message is on its way to, or "new"
                      \* before it is sent and "gone" once it is not
          msgbuf,     \* the messages in every partition
          blocked,    \* the processes blocked on the trap of every partition
          acting,     \* acting_trappables of every process, by partition
          delivered, taken  \* history: what was delivered to a partition, and
                            \* what was retrieved from it

schedVars == <<st, readyq, cur>>
boxVars == <<mail, msgbuf, blocked, acting>>
history == <<delivered, taken>>
vars == <<schedVars, timer, call, boxVars, history>>

S == INSTANCE Sched

ASSUME MailboxAssumption == /\ S!ProcsOK
                            /\ {"new", "gone"} \cap Parts = {}
                            /\ Kills \in BOOLEAN

Idle == [op |-> "none", parts |-> {}]
Receiving(r, isall) == [op |-> "recv", parts |-> {r}, isall |-> isall]
Waiting(parts, got, every, isall, timed) ==
  [op |-> "wait", parts |-> parts, got |-> got, every |-> every,
   isall |-> isall, timed |-> timed]

Init == /\ st = [p \in Procs |-> "started"]
        /\ readyq = <<>>
        /\ cur = "main"
        /\ timer = Procs
        /\ call = [p \in Procs |-> Idle]
        /\ mail = [m \in Msgs |-> "new"]
        /\ msgbuf = [r \in Parts |-> <<>>]
        /\ blocked = [r \in Parts |-> <<>>]
        /\ acting = [p \in Procs |-> {}]
        /\ delivered = [r \in Parts |-> <<>>]
        /\ taken = [r \in Parts |-> <<>>]

User == S!User /\ (cur \in Procs => call[cur] = Idle)
InProcess == User /\ cur \in Procs /\ st[cur] = "running"

-----------------------------------------------------------------------------
(* Messages *)

\* send(), and the cancellation of the event that it returns.
Send(m, r) == /\ User
              /\ mail[m] = "new"
              /\ mail' = [mail EXCEPT ![m] = r]
              /\ UNCHANGED <<schedVars, timer, call, msgbuf, blocked, acting, history>>

Cancel(m) == /\ User
             /\ mail[m] \in Parts
             /\ mail' = [mail EXCEPT ![m] = "gone"]
             /\ UNCHANGED <<schedVars, timer, call, msgbuf, blocked, acting, history>>

\* A seeded mistake: only the first receiver is released.
DeliverToFirst(m) ==
  LET r == mail[m]
      first == SelectSeq(blocked[r], LAMBDA p : p = blocked[r][1])
  IN /\ r \in Parts
     /\ S!Handle(S!Woken(st, first))
     /\ mail' = [mail EXCEPT ![m] = "gone"]
     /\ msgbuf' = [msgbuf EXCEPT ![r] = Append(@, m)]
     /\ delivered' = [delivered EXCEPT ![r] = Append(@, m)]
     /\ acting' = [p \in Procs |-> acting[p] \cup {s \in {r} : p \in ToSet(first)}]
     /\ blocked' = [blocked EXCEPT ![r] = SelectSeq(@, LAMBDA p : p \notin ToSet(first))]
     /\ UNCHANGED <<timer, call, taken>>

\* _mailbox_event(): the message is there, all receivers that wait for it are
\* released, and the trap is renewed; then the callbacks run.
Deliver(m) ==
  LET r == mail[m]
  IN /\ r \in Parts
     /\ S!Handle(S!Woken(st, blocked[r]))
     /\ mail' = [mail EXCEPT ![m] = "gone"]
     /\ msgbuf' = [msgbuf EXCEPT ![r] = Append(@, m)]
     /\ delivered' = [delivered EXCEPT ![r] = Append(@, m)]
     /\ acting' = [p \in Procs |-> acting[p] \cup {s \in {r} : p \in ToSet(blocked[r])}]
     /\ blocked' = [blocked EXCEPT ![r] = <<>>]
     /\ UNCHANGED <<timer, call, taken>>

\* A seeded mistake: the messages are returned and not removed.
CollectPeeked(parts, isall) ==
  /\ taken' = [r \in Parts |-> IF r \in parts THEN taken[r] \o msgbuf[r] ELSE taken[r]]
  /\ UNCHANGED msgbuf

\* retrieve() from some partitions: all messages, or the first if there is one.
Collect(parts, isall) ==
  LET count == [r \in Parts |-> IF r \notin parts \/ msgbuf[r] = <<>> THEN 0
                                ELSE IF isall THEN Len(msgbuf[r]) ELSE 1]
  IN /\ taken' = [r \in Parts |-> taken[r] \o SubSeq(msgbuf[r], 1, count[r])]
     /\ msgbuf' = [r \in Parts |-> SubSeq(msgbuf[r], count[r] + 1, Len(msgbuf[r]))]

\* retrieve() by whoever has the control, or recv() where a message is there.
Retrieve(r, isall) == /\ User
                      /\ msgbuf[r] # <<>>
                      /\ Collect({r}, isall)
                      /\ UNCHANGED <<schedVars, timer, call, mail, blocked, acting,
                                     delivered>>

-----------------------------------------------------------------------------
(* Receivers *)

\* recv() with no message there.
RecvBlocks(r, isall) ==
  /\ InProcess
  /\ msgbuf[r] = <<>>
  /\ blocked' = [blocked EXCEPT ![r] = Append(@, cur)]
  /\ call' = [call EXCEPT ![cur] = Receiving(r, isall)]
  /\ S!Suspend(cur)
  /\ UNCHANGED <<timer, mail, msgbuf, acting, history>>

\* It takes what is left, which may be nothing.
RecvReturn(p) ==
  /\ cur = p /\ call[p].op = "recv"
  /\ Collect(call[p].parts, call[p].isall)
  /\ acting' = [acting EXCEPT ![p] = @ \ call[p].parts]
  /\ call' = [call EXCEPT ![p] = Idle]
  /\ UNCHANGED <<schedVars, timer, mail, blocked, delivered>>

Filled(parts) == {r \in parts : msgbuf[r] # <<>>}
Met(every, parts, got) == IF every THEN got = parts ELSE got # {}

\* wait() for receivers, when it need not block.
WaitAtOnce(parts, every, isall) ==
  /\ InProcess
  /\ Met(every, parts, Filled(parts))
  /\ Collect(Filled(parts), isall)
  /\ UNCHANGED <<schedVars, timer, call, mail, blocked, acting, delivered>>

\* When it blocks, what is there already is retrieved all the same.
WaitBlocks(parts, every, isall, timed) ==
  /\ InProcess
  /\ ~Met(every, parts, Filled(parts))
  /\ Collect(Filled(parts), isall)
  /\ blocked' = [r \in Parts |-> IF r \in parts \ Filled(parts)
                                 THEN Append(blocked[r], cur) ELSE blocked[r]]
  /\ timer' = IF timed THEN timer \cup {cur} ELSE timer
  /\ call' = [call EXCEPT ![cur] = Waiting(parts, Filled(parts), every, isall, timed)]
  /\ S!Suspend(cur)
  /\ UNCHANGED <<mail, acting, delivered>>

\* What the wait of p knows to be triggered, and whether its limit has come.
Got(p) == call[p].got \cup (acting[p] \cap call[p].parts)
TimedOut(p) == call[p].timed /\ p \notin timer

\* A seeded mistake: the process stays on the traps it does not wait for.
WaitReturnStillBlocked(p) ==
  /\ cur = p /\ call[p].op = "wait"
  /\ TimedOut(p) \/ Met(call[p].every, call[p].parts, Got(p))
  /\ Collect(acting[p] \cap call[p].parts, call[p].isall)
  /\ acting' = [acting EXCEPT ![p] = @ \ call[p].parts]
  /\ timer' = timer \ {p}
  /\ call' = [call EXCEPT ![p] = Idle]
  /\ UNCHANGED <<schedVars, mail, blocked, delivered>>

\* wait() is over: the partitions that released p are retrieved from, and p
\* leaves the traps of the others.
WaitReturn(p) ==
  /\ cur = p /\ call[p].op = "wait"
  /\ TimedOut(p) \/ Met(call[p].every, call[p].parts, Got(p))
  /\ Collect(acting[p] \cap call[p].parts, call[p].isall)
  /\ acting' = [acting EXCEPT ![p] = @ \ call[p].parts]
  /\ blocked' = [r \in Parts |-> IF r \in call[p].parts \ Got(p)
                                 THEN RemoveFirst(blocked[r], p) ELSE blocked[r]]
  /\ timer' = timer \ {p}
  /\ call' = [call EXCEPT ![p] = Idle]
  /\ UNCHANGED <<schedVars, mail, delivered>>

\* wait() for all receivers goes on with those that are missing.
WaitAgain(p) ==
  /\ cur = p /\ call[p].op = "wait"
  /\ ~(TimedOut(p) \/ Met(call[p].every, call[p].parts, Got(p)))
  /\ Collect(acting[p] \cap call[p].parts, call[p].isall)
  /\ acting' = [acting EXCEPT ![p] = @ \ call[p].parts]
  /\ call' = [call EXCEPT ![p].got = Got(p)]
  /\ S!Suspend(p)
  /\ UNCHANGED <<timer, mail, blocked, delivered>>

-----------------------------------------------------------------------------

Kill(p) == /\ Kills /\ User
           /\ S!Kill(p, <<>>)
           /\ UNCHANGED <<timer, call, boxVars, history>>

Terminate(p) == User /\ S!Terminate(p, <<>>) /\ UNCHANGED <<timer, call, boxVars, history>>

Fire(p) == /\ p \in timer
           /\ S!Fire(p)
           /\ timer' = timer \ {p}
           /\ UNCHANGED <<call, boxVars, history>>

LoopStep == /\ \/ S!RunBegin \/ S!RunEnd \/ S!Handle(<<>>)
               \/ S!HandlerReturn \/ S!Dispatch \/ S!DrainEnd("pick")
            /\ UNCHANGED <<timer, call, boxVars, history>>

Next == \/ \E m \in Msgs : Cancel(m) \/ Deliver(m) \/ \E r \in Parts : Send(m, r)
        \/ \E r \in Parts, isall \in BOOLEAN : Retrieve(r, isall) \/ RecvBlocks(r, isall)
        \/ \E parts \in (SUBSET Parts) \ {{}}, every, isall \in BOOLEAN :
             \/ WaitAtOnce(parts, every, isall)
             \/ \E timed \in BOOLEAN : WaitBlocks(parts, every, isall, timed)
        \/ \E p \in Procs : \/ RecvReturn(p) \/ WaitReturn(p) \/ WaitAgain(p)
                            \/ Kill(p) \/ Terminate(p) \/ Fire(p)
        \/ LoopStep

Spec == Init /\ [][Next]_vars

-----------------------------------------------------------------------------

\* No receiver is left blocked: a live process is blocked on a partition only
\* while that is empty, and stays suspended only while the partitions that
\* released it are not enough for its wait.
NoneLeftBlocked ==
  /\ \A r \in Parts : blocked[r] # <<>> => msgbuf[r] = <<>>
  /\ \A p \in Procs : st[p] = "suspended" =>
       CASE call[p].op = "recv" -> acting[p] = {}
         [] call[p].op = "wait" -> ~Met(call[p].every, call[p].parts, Got(p))

\* A live process is on the trap of a partition, once, exactly while it waits
\* for it and was not released: it never leaves a trap that it is not on, which
\* would raise a ValueError, nor does a trap that was renewed reach it again.
RegistrationsExact ==
  \A p \in Procs : S!Live(p) =>
    /\ \A r \in Parts :
         Cardinality({i \in DOMAIN blocked[r] : blocked[r][i] = p}) =
           IF /\ r \in call[p].parts \ acting[p]
              /\ call[p].op = "wait" => r \notin call[p].got
           THEN 1 ELSE 0
    /\ acting[p] \subseteq call[p].parts
    /\ acting[p] # {} => st[p] = "running"

\* However many receivers, callbacks and others retrieve, one by one or all at
\* once, every message delivered to a partition is taken from it at most once, in
\* the order of delivery, and is there until then.
TakenInOrder == \A r \in Parts : delivered[r] = taken[r] \o msgbuf[r]
=============================================================================
