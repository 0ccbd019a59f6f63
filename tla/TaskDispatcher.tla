--------------------------- MODULE TaskDispatcher ---------------------------
(***************************************************************************)
(* The time-triggered task dispatcher of timefw and the tasks that the     *)
(* real-time channels give it: the periodic delivery of a publisher, which *)
(* the network scheduler starts and stops by management events, and the    *)
(* periodic notification of a subscriber.                                  *)
(*                                                                         *)
(* Time is counted from the present: due[t] is the start of task t minus   *)
(* the current time, and a tick of the clock lowers it.                    *)
(***************************************************************************)
EXTENDS Integers, Sequences, FiniteSets, FiniteSetsExt, SequencesExt

CONSTANTS
    Publishers,   \* the delivery tasks of the real-time publisher channels
    Subscribers,  \* the notification tasks of the real-time subscriber channels
    Background,   \* the tasks without real-time requirements
    Period,       \* the period of each task, 0 if it is not periodic
    Starts,       \* the starts a task is created or reserved with
    Lead,         \* the second by which enqueue() puts a periodic task off
    MaxLate,      \* bound on the delay of a task: the processor is fast enough
    Usages        \* the ways in which a program may use the dispatcher

\* A usage: whether another context (thread, interrupt) enqueues and reserves;
\* whether the network scheduler stops a delivery, and may start it again; whether
\* background tasks call yield_for_rt() to wait for the network.
Usage == [asynchronous : BOOLEAN, stops : {"never", "once", "again"}, yields : BOOLEAN]

Realtime == Publishers \cup Subscribers
Tasks    == Realtime \cup Background

ASSUME TasksAssumption ==
    /\ Publishers \cap Subscribers = {} /\ Realtime \cap Background = {}
    /\ Period \in [Tasks -> Nat] /\ \A t \in Realtime : Period[t] > 0
    /\ Starts \subseteq Nat /\ Lead \in Nat /\ MaxLate \in Nat
    /\ Usages \subseteq Usage

VARIABLES
    usage,      \* the usage of this program, which never changes
    tasks,      \* the queue of the dispatcher, in the order of the links
    due,        \* the start of each task, relative to now
    phase,      \* where run() is: before it, in wait_for_next_task, at unlink
    wake,       \* the time wait_for_next_task returns at, relative to now
    active,     \* the tasks being executed, the innermost last
    reservation_state, \* of each publisher
    enqueued    \* history: the periodic tasks that were enqueued and not dequeued

vars == <<usage, tasks, due, phase, wake, active, reservation_state, enqueued>>

Asynchronous == usage.asynchronous
Stops        == usage.stops
Yields       == usage.yields

Listed(t)  == \E i \in 1 .. Len(tasks) : tasks[i] = t
Running(t) == \E i \in 1 .. Len(active) : active[i].task = t
Executing  == active # <<>>
Current    == Last(active)

Init ==
    /\ usage \in Usages
    /\ tasks = <<>>
    /\ due = [t \in Tasks |-> 0]
    /\ phase = "startup"
    /\ wake = 0
    /\ active = <<>>
    /\ reservation_state = [p \in Publishers |-> "NoReservation"]
    /\ enqueued = {}

-----------------------------------------------------------------------------
(* The queue, sorted by start.                                             *)

\* Mutant: the new task is linked in at the head.
InsertedFirst(q, dues, t) == <<t>> \o q

\* The queue with task t at the place of its start, before its equals.
Inserted(q, dues, t) ==
    LET earlier == {i \in 0 .. Len(q) : \A j \in 1 .. i : dues[q[j]] < dues[t]}
    IN  InsertAt(q, Max(earlier) + 1, t)

\* insert_task
Insert(t, start) ==
    /\ due' = [due EXCEPT ![t] = start]
    /\ tasks' = Inserted(tasks, due', t)

\* Time::futurify, increase_by_multiple_above
Futurify(start, period, current) ==
    IF start < current THEN start + ((current - start) \div period + 1) * period ELSE start

\* The start a periodic task is put off to when it is enqueued.
EnqueueStart(t, start) == IF Period[t] > 0 THEN Futurify(start, Period[t], Lead) ELSE start

\* enqueue
Enqueue(t, start) ==
    /\ Insert(t, EnqueueStart(t, start))
    /\ enqueued' = IF Period[t] > 0 THEN enqueued \cup {t} ELSE enqueued

\* Code outside the dispatcher runs: before run(), in a task, or concurrently.
OutsideCode ==
    \/ Asynchronous
    \/ phase = "startup"
    \/ Executing /\ ~Current.yielding

-----------------------------------------------------------------------------
(* The tasks of the channels and of the application.                       *)

\* A subscriber channel is constructed, or the application enqueues a task of
\* its own. "Nicht 2x enqueuen": it does not enqueue a task twice.
EnqueueTask(t) ==
    /\ OutsideCode
    /\ t \in Subscribers \cup Background
    /\ ~Listed(t) /\ ~Running(t) /\ t \notin enqueued
    /\ \E s \in Starts : Enqueue(t, s)
    /\ UNCHANGED <<usage, phase, wake, active, reservation_state>>

\* The network scheduler reserved a transmission channel: rt_res_event.
Reserve(p) ==
    /\ OutsideCode
    /\ reservation_state[p] = "NoReservation"
    /\ reservation_state' = [reservation_state EXCEPT ![p] = "Unused"]
    /\ \E s \in Starts : due' = [due EXCEPT ![p] = s]
    /\ UNCHANGED <<usage, tasks, phase, wake, active, enqueued>>

\* rt_deliv_event: the periodic delivery starts.
StartDelivery(p) ==
    /\ OutsideCode
    /\ reservation_state[p] = "Unused"
    /\ Stops = "once" => ~Listed(p) /\ ~Running(p)
    /\ reservation_state' = [reservation_state EXCEPT ![p] = "Delivering"]
    /\ Enqueue(p, Futurify(due[p], Period[p], 0))
    /\ UNCHANGED <<usage, phase, wake, active>>

\* rt_no_deliv_event. dequeue() leaves the queue as it is: remove_task passes the
\* address of the task, from which a temporary Chain is constructed that is not
\* in the queue.
StopDelivery(p) ==
    /\ OutsideCode /\ Stops # "never"
    /\ reservation_state[p] = "Delivering"
    /\ reservation_state' = [reservation_state EXCEPT ![p] = "Unused"]
    /\ enqueued' = enqueued \ {p}
    /\ UNCHANGED <<usage, tasks, due, phase, wake, active>>

-----------------------------------------------------------------------------
(* The dispatcher: run().                                                  *)

\* Mutant: futurify() has added a period already.
RestartTwice(t) == Futurify(due[t] + Period[t], Period[t], 0) + Period[t]

\* The start of the next execution: one period later, in the future.
Restart(t) == Futurify(due[t] + Period[t], Period[t], 0)

\* wait_for_next_task: until the start of the first task, or for half a second.
Wait ==
    /\ phase \in {"startup", "wait"}
    /\ wake' = IF tasks = <<>> THEN 0 ELSE due[Head(tasks)]
    /\ phase' = "sleep"
    /\ UNCHANGED <<usage, tasks, due, active, reservation_state, enqueued>>

Wake ==
    /\ phase = "sleep"
    /\ wake <= 0
    /\ phase' = "unlink"
    /\ wake' = 0
    /\ UNCHANGED <<usage, tasks, due, active, reservation_state, enqueued>>

Start(t) == active' = Append(active, [task |-> t, yielding |-> FALSE])

\* The first task of the queue is executed, if there is one.
Unlink ==
    /\ phase = "unlink" /\ ~Executing
    /\ IF tasks = <<>> THEN phase' = "wait" /\ UNCHANGED <<tasks, active>>
                       ELSE /\ Start(Head(tasks))
                            /\ tasks' = Tail(tasks)
                            /\ UNCHANGED phase
    /\ UNCHANGED <<usage, due, wake, reservation_state, enqueued>>

\* Mutant: a task is inserted again only if it is not late.
FinishForgets ==
    /\ Executing /\ ~Current.yielding
    /\ LET t == Current.task
       IN  IF Period[t] > 0 /\ due[t] + Period[t] >= 0 THEN Insert(t, Restart(t))
           ELSE due' = [due EXCEPT ![t] = 0] /\ UNCHANGED tasks
    /\ active' = Front(active)
    /\ phase' = IF Len(active) = 1 THEN "wait" ELSE phase
    /\ UNCHANGED <<usage, wake, reservation_state, enqueued>>

\* dispatch: the task returns, and a periodic one is inserted again.
Finish ==
    /\ Executing /\ ~Current.yielding
    /\ LET t == Current.task
       IN  IF Period[t] > 0 THEN Insert(t, Restart(t))
           ELSE due' = [due EXCEPT ![t] = 0] /\ UNCHANGED tasks
    /\ active' = Front(active)
    /\ phase' = IF Len(active) = 1 THEN "wait" ELSE phase
    /\ UNCHANGED <<usage, wake, reservation_state, enqueued>>

SetYielding(b) == [active EXCEPT ![Len(active)].yielding = b]

\* A background task waits for its right to transmit.
Yield ==
    /\ Executing /\ Yields /\ Current.task \in Background /\ ~Current.yielding
    /\ active' = SetYielding(TRUE)
    /\ UNCHANGED <<usage, tasks, due, phase, wake, reservation_state, enqueued>>

\* Mutant: yield_for_rt() does not look at the start of the task.
StartAlways(t) == TRUE

StartInTime(t) == due[t] <= 0

\* yield_for_rt: the first real-time task is unlinked, with every task before it,
\* and executed unless its start is in the future.
YieldLoop ==
    /\ Executing /\ Current.yielding
    /\ LET rt == {i \in 1 .. Len(tasks) : tasks[i] \in Realtime}
           i  == Min(rt)
       IN  IF rt = {} THEN tasks' = <<>> /\ active' = SetYielding(FALSE)
           ELSE /\ tasks' = SubSeq(tasks, i + 1, Len(tasks))
                /\ IF StartInTime(tasks[i]) THEN Start(tasks[i])
                                            ELSE active' = SetYielding(FALSE)
    /\ UNCHANGED <<usage, due, phase, wake, reservation_state, enqueued>>

\* Time passes. A task is late by more than MaxLate only if the dispatcher sleeps.
Tick ==
    /\ \/ phase = "sleep" /\ wake > 0
       \/ \A t \in Tasks : Listed(t) \/ Running(t) => due[t] > -MaxLate
    /\ due' = [t \in Tasks |-> IF Listed(t) \/ Running(t) THEN due[t] - 1 ELSE due[t]]
    /\ wake' = IF wake > 0 THEN wake - 1 ELSE 0
    /\ UNCHANGED <<usage, tasks, phase, active, reservation_state, enqueued>>

Dispatch == Wait \/ Wake \/ Unlink \/ Finish \/ YieldLoop

Outside == \/ \E t \in Tasks : EnqueueTask(t)
           \/ \E p \in Publishers : Reserve(p) \/ StartDelivery(p) \/ StopDelivery(p)

Next == Outside \/ Dispatch \/ Yield \/ Tick

\* The clock runs, and so does the dispatcher.
Spec == Init /\ [][Next]_vars /\ WF_vars(Dispatch) /\ WF_vars(Tick)
-----------------------------------------------------------------------------
\* The farthest start of a task, one period after one it was executed before, and the
\* farthest one behind: a task that is enqueued while the dispatcher sleeps waits
\* until it wakes up for another one.
Periods == {Period[t] : t \in Tasks}
Horizon == Lead + Max(Starts \cup Periods) + Max(Periods)
Latest  == -(MaxLate + Horizon)

TypeOK ==
    /\ usage \in Usages
    /\ tasks \in Seq(Tasks)
    /\ due \in [Tasks -> Latest .. Horizon]
    /\ phase \in {"startup", "wait", "sleep", "unlink"}
    /\ wake \in Latest .. Horizon
    /\ active \in Seq([task : Tasks, yielding : BOOLEAN])
    /\ reservation_state \in [Publishers -> {"NoReservation", "Unused", "Delivering"}]
    /\ enqueued \subseteq Tasks

\* A periodic task that was enqueued and not dequeued is in the queue or being
\* executed: the notification callback of a subscriber "is called periodically".
TasksKept == \A t \in enqueued : Listed(t) \/ Running(t)

\* So it is while nobody calls yield_for_rt(), which unlinks tasks and may leave.
NoTaskLost == ~Yields => TasksKept

\* The queue is sorted by start, so that its first task is the next to run ("Nicht
\* nachtraeglich zu aendern"), and a task is not enqueued while it is in the queue
\* or being executed ("Nicht 2x enqueuen"): a second insertion would close a cycle
\* of links.
QueueIntact ==
    /\ \A i \in 1 .. Len(tasks) - 1 : due[tasks[i]] <= due[tasks[i + 1]]
    /\ IsInjective(tasks)
    /\ \A t \in Tasks : ~(Listed(t) /\ Running(t))

\* No task is executed before its start: a delivery before it would leave the
\* reserved transmission slot. (Another context that enqueues a task early enough
\* finds the dispatcher asleep, and it executes what it finds when it wakes up.)
NeverEarly == [][~Asynchronous => \A t \in Tasks : ~Running(t) /\ Running(t)' => due[t] <= 0]_vars

\* "Resources are reserved but there are no subscribers (no delivery)": the delivery
\* task of a publisher is started only in the state Delivering.
DeliversOnlyWhenDelivering ==
    [][\A p \in Publishers :
         ~Running(p) /\ Running(p)' => reservation_state[p] = "Delivering"]_vars

\* A task in the queue is executed, whatever the others do, while nobody calls
\* yield_for_rt().
EveryTaskRuns == \A t \in Tasks : ~Yields /\ Listed(t) ~> Running(t)
=============================================================================
