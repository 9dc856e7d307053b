----------------------------- MODULE Scheduler -----------------------------
(***************************************************************************)
(* When an actual manager serves its clients: the delta queue of           *)
(* src/ra-additionals/scheduler_queue.c, in which each item holds the time *)
(* to sleep after the item before it, and the part of                      *)
(* actual_manager_routine that sleeps until the head is due, serves and    *)
(* reinserts it, or is interrupted by a client going up or down and puts   *)
(* back the time it has not slept.                                         *)
(*                                                                         *)
(* Time is counted in ticks, TicksPerSecond to a second.  Everything is    *)
(* relative to the present: "left" is the distance to the deadline of the  *)
(* wait, which may be passed by up to MaxOversleep ticks before the thread *)
(* runs.  Only the fraction of the current second is absolute, because     *)
(* transform_time_to_sleep adds it.                                        *)
(***************************************************************************)
EXTENDS Integers, Sequences, FiniteSets

CONSTANTS
    Client,
    TicksPerSecond,
    sleep_avg, sleep_var,  \* parameters of compute_random_sleep, in seconds
    Width,                 \* width of uint32_t in the instance
    NotServedTime,         \* NOT_SERVED_RE_SCHEDULING_STANDARD_TIME, in ticks
    EmptyTime,             \* EMPTY_SQ_LIST_TTS, in ticks
    MaxOversleep           \* bound on how long after its deadline a wait goes on

ASSUME SchedulerAssumption ==
    /\ TicksPerSecond \in Nat \ {0}
    /\ sleep_avg \in Nat /\ sleep_var \in 1 .. sleep_avg
    /\ Width \in Nat
    /\ NotServedTime \in Nat \ {0} /\ EmptyTime \in Nat \ {0}
    /\ MaxOversleep \in Nat

(* True of every Width in Nat; the provers know no law of ^. *)
ASSUME WidthAssumption == 2 ^ Width \in Nat \ {0}

VARIABLES
    queue,    \* items [client, delta], head first
    items_count,  \* the counter that is kept beside them
    pc,       \* "awake", "asleep", "serving" or "ended"
    serving,  \* the client sq_remove returned, in a one-element set
    left,     \* ticks until the deadline of the wait
    frac,     \* ticks into the current second
    rem,      \* client -> ticks until it was to be served (history)
    late      \* did the thread run late, work while clients waited, or compute
              \* a deadline that is not the time to sleep away (history)

vars == <<queue, items_count, pc, serving, left, frac, rem, late>>

-----------------------------------------------------------------------------
(* scheduler_queue.c *)

scheduler_queue_item == [client : Client, delta : Int]

scheduler_queue == Seq(scheduler_queue_item) \X Nat

Item(c, t) == [client |-> c, delta |-> t]

sq_create == << >>

(* Time from the start of the queue to its n-th item. *)
TimeSum(q, n) ==
    LET sum[i \in 0 .. n] == IF i = 0 THEN 0 ELSE sum[i - 1] + q[i].delta
    IN  sum[n]

(* q from its n-th item on, with t added to the first of them. *)
Shifted(q, n, t) ==
    [i \in 1 .. Len(q) - n + 1 |->
        IF i = 1 THEN [q[n] EXCEPT !.delta = @ + t] ELSE q[n + i - 1]]

(* The item the new one is put behind: 0 for the front of the queue. *)
InsertPosition(q, t) ==
    IF q = << >> \/ q[1].delta > t
    THEN 0
    ELSE CHOOSE k \in 1 .. Len(q) :
            /\ k = Len(q) \/ TimeSum(q, k + 1) >= t
            /\ \A j \in 1 .. k - 1 : TimeSum(q, j + 1) < t

(* Seeded fault: the successor keeps its delta. *)
sq_insert_NoAdjust(q, c, t) ==
    LET k == InsertPosition(q, t)
        delta == t - TimeSum(q, k)
    IN  SubSeq(q, 1, k) \o <<Item(c, delta)>> \o SubSeq(q, k + 1, Len(q))

(* Seeded fault: only the head is looked at, the item goes right behind it. *)
sq_insert_Front(q, c, t) ==
    IF q # << >> /\ q[1].delta <= t
    THEN <<q[1], Item(c, t - q[1].delta)>> \o Shifted(q, 2, q[1].delta - t)
    ELSE <<Item(c, t)>> \o Shifted(q, 1, -t)

sq_insert(q, c, t) ==
    LET k == InsertPosition(q, t)
        delta == t - TimeSum(q, k)
    IN  SubSeq(q, 1, k) \o <<Item(c, delta)>> \o Shifted(q, k + 1, -delta)

(* Seeded fault: the time already slept is not taken off. *)
sq_update_time_unslept_Kept(q, time_left) == q

sq_update_time_unslept(q, time_left) ==
    IF q = << >> \/ q[1].delta < time_left
    THEN q
    ELSE [q EXCEPT ![1].delta = time_left]

sq_get_time_to_sleep(q) == IF q = << >> THEN EmptyTime ELSE q[1].delta

sq_count == items_count

(* The first item of the client goes, its time to the item behind it. *)
sq_remove_all_scheduled(q, c) ==
    IF \A i \in 1 .. Len(q) : q[i].client # c
    THEN q
    ELSE LET k == CHOOSE i \in 1 .. Len(q) :
                     /\ q[i].client = c
                     /\ \A j \in 1 .. i - 1 : q[j].client # c
         IN  SubSeq(q, 1, k - 1) \o Shifted(q, k + 1, q[k].delta)

(* As many items are freed as were counted. *)
sq_destroy(q, count) == SubSeq(q, count + 1, Len(q))

-----------------------------------------------------------------------------
(* manager.c *)

(* Seeded fault: the variance is subtracted twice, in signed arithmetic. *)
compute_random_sleep_Signed(rd) ==
    TicksPerSecond * (sleep_avg - sleep_var) - (rd % (2 * sleep_var * TicksPerSecond))

(* compute_random_sleep, in unsigned arithmetic, for the result rd of rand. *)
compute_random_sleep(rd) ==
    (TicksPerSecond * (sleep_avg + sleep_var) - (rd % (2 * sleep_var * TicksPerSecond)))
        % (2 ^ Width)

SleepTimes == {compute_random_sleep(rd) : rd \in 0 .. 2 * sleep_var * TicksPerSecond - 1}

(* transform_time_to_sleep: the distance from now to the deadline computed  *)
(* for t ticks.  The fractions are added modulo one second, and what is    *)
(* carried is not added to the seconds.                                    *)
transform_time_to_sleep(t) ==
    (t \div TicksPerSecond) * TicksPerSecond
        + ((frac + (t % TicksPerSecond)) % TicksPerSecond) - frac

Scheduled == {queue[i].client : i \in DOMAIN queue}

Init ==
    /\ queue = sq_create
    /\ items_count = 0
    /\ pc = "awake"
    /\ serving = {}
    /\ left = 0
    /\ frac \in 0 .. TicksPerSecond - 1
    /\ rem = [c \in Client |-> 0]
    /\ late = FALSE

(* A tick of the clock.  A thread that sleeps past its deadline runs after *)
(* at most MaxOversleep ticks.                                             *)
Tick ==
    /\ pc = "asleep" => left > -MaxOversleep
    /\ left' = IF pc = "asleep" THEN left - 1 ELSE left
    /\ frac' = (frac + 1) % TicksPerSecond
    /\ rem' = [c \in Client |-> IF rem[c] > 0 THEN rem[c] - 1 ELSE 0]
    /\ late' = (late \/ (pc # "asleep" /\ queue # << >>))
    /\ UNCHANGED <<queue, items_count, pc, serving>>

(* pthread_cond_timedwait begins. *)
Sleep ==
    /\ pc = "awake"
    /\ pc' = "asleep"
    /\ left' = transform_time_to_sleep(sq_get_time_to_sleep(queue))
    /\ late' = (late \/ (queue # << >> /\ left' # queue[1].delta))
    /\ UNCHANGED <<queue, items_count, serving, frac, rem>>

(* ETIMEDOUT: sq_remove takes the head, if there is one. *)
TimedOut ==
    /\ pc = "asleep"
    /\ left <= 0
    /\ left' = 0
    /\ IF queue = << >>
       THEN pc' = "awake" /\ UNCHANGED <<queue, items_count, serving, late>>
       ELSE /\ serving' = {queue[1].client}
            /\ queue' = Tail(queue)
            /\ items_count' = items_count - 1
            /\ pc' = "serving"
            /\ late' = (late \/ (left < 0 /\ Len(queue) > 1))
    /\ UNCHANGED <<frac, rem>>

(* Client c is put into the queue to be served in t ticks. *)
Insert(q, c, t) ==
    /\ queue' = sq_insert(q, c, t)
    /\ items_count' = items_count + 1
    /\ rem' = [rem EXCEPT ![c] = t]

(* serve_client returns: the client is scheduled again. *)
Served ==
    /\ pc = "serving"
    /\ \E c \in serving, t \in SleepTimes \cup {NotServedTime} : Insert(queue, c, t)
    /\ pc' = "awake"
    /\ serving' = {}
    /\ UNCHANGED <<left, frac, late>>

(* The wait ends with a signal rather than with ETIMEDOUT.  Near the       *)
(* deadline either may come first, but not long after it.                  *)
Interrupted ==
    /\ pc = "asleep"
    /\ left >= -MaxOversleep

(* Signalled: a new client. *)
ClientUp(c) ==
    /\ Interrupted
    /\ c \notin Scheduled
    /\ \E t \in SleepTimes : Insert(sq_update_time_unslept(queue, left), c, t)
    /\ pc' = "awake"
    /\ left' = 0
    /\ UNCHANGED <<serving, frac, late>>

(* Signalled: a client is gone. *)
ClientDown(c) ==
    /\ Interrupted
    /\ c \in Scheduled
    /\ queue' = sq_remove_all_scheduled(sq_update_time_unslept(queue, left), c)
    /\ items_count' = items_count - 1
    /\ rem' = [rem EXCEPT ![c] = 0]
    /\ pc' = "awake"
    /\ left' = 0
    /\ UNCHANGED <<serving, frac, late>>

(* Signalled: the manager shuts down and the thread ends. *)
Die ==
    /\ Interrupted
    /\ queue' = sq_destroy(sq_update_time_unslept(queue, left), items_count)
    /\ items_count' = 0
    /\ pc' = "ended"
    /\ left' = 0
    /\ rem' = [c \in Client |-> 0]
    /\ UNCHANGED <<serving, frac, late>>

Next ==
    \/ Tick \/ Sleep \/ TimedOut \/ Served \/ Die
    \/ \E c \in Client : ClientUp(c) \/ ClientDown(c)

Spec == Init /\ [][Next]_vars

(* The clock runs, the thread runs, serving a client ends. *)
Fairness == WF_vars(Tick) /\ WF_vars(Sleep) /\ WF_vars(Served) /\ WF_vars(TimedOut)

FairSpec == Spec /\ Fairness

-----------------------------------------------------------------------------
(* Properties *)

TypeOK ==
    /\ <<queue, items_count>> \in scheduler_queue
    /\ pc \in {"awake", "asleep", "serving", "ended"}
    /\ serving \subseteq Client
    /\ left \in Int
    /\ frac \in 0 .. TicksPerSecond - 1
    /\ rem \in [Client -> Nat]
    /\ late \in BOOLEAN

(* When the n-th item of the queue will be served, as the code plans it. *)
Plan(n) ==
    IF pc = "asleep" THEN left + TimeSum(queue, n) - queue[1].delta
                     ELSE TimeSum(queue, n)

(* Items behind the head never come before it: insertion, removal, early   *)
(* wake-ups and late ones keep the deltas behind the head non-negative and *)
(* each client in the queue once.  sq_destroy trusts items_count: it is the *)
(* number of items, and none is left when the thread has ended.            *)
QueueInOrder ==
    /\ sq_count = Len(queue)
    /\ pc = "ended" => queue = << >>
    /\ \A i \in 2 .. Len(queue) : queue[i].delta >= 0
    /\ Cardinality(Scheduled) = Len(queue)

(* As long as the thread ran on time and its deadlines were right, every   *)
(* client in the queue is planned for exactly its time: the deltas lose    *)
(* nothing over any sequence of insertions, interruptions and removals.    *)
ExactWhenPunctual ==
    ~late => \A i \in DOMAIN queue :
                rem[queue[i].client] > 0 => Plan(i) = rem[queue[i].client]

(* If clients stop connecting and disconnecting, every scheduled client is *)
(* served again and again, however often others are served and put back in *)
(* front of it.  (Each event that interrupts the sleep costs the time it   *)
(* takes to handle, so an endless stream of them may delay a client for    *)
(* ever.)                                                                  *)
ScheduledIsServed ==
    <>[][\A c \in Client : ~ClientUp(c) /\ ~ClientDown(c)]_vars
    => \A c \in Client : (c \in Scheduled) ~> (c \notin Scheduled)
=============================================================================
