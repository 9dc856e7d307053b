------------------------------ MODULE Manager ------------------------------
(***************************************************************************)
(* The threads of the manager process (src/server-components/manager.c).   *)
(* The main thread runs the callbacks of the connection listener and hands *)
(* events to the actual manager threads through one slot per thread        *)
(* (action, passingClient) protected by a mutex and announced by a         *)
(* condition variable.  The threads wait without testing any predicate, so *)
(* what matters is when a signal finds nobody waiting, when a slot is      *)
(* overwritten before it is read, when a wait returns for no reason, and   *)
(* who frees the client object that several slots point to.                *)
(*                                                                         *)
(* The listener never holds two mutexes and never blocks while it holds    *)
(* one, so lock, write, signal and unlock are one step of it, enabled when *)
(* the mutex is free.  A thread holds its mutex from the end of its wait   *)
(* until it has handled the event.  Time is abstracted: a wait may time    *)
(* out at any moment.  The attestation requests that serving a client      *)
(* causes are the subject of module Attestation.                           *)
(***************************************************************************)
EXTENDS Naturals, FiniteSets

CONSTANTS
    Attestator,             \* the attestators that may connect
    total_actual_managers,  \* number of threads, argv[1]
    MaxObject,              \* bound on the client objects ever created
    SpuriousWakeups         \* may pthread_cond_timedwait return for no reason?

ASSUME ManagerAssumption ==
    /\ total_actual_managers \in Nat \ {0}
    /\ MaxObject \in Nat
    /\ SpuriousWakeups \in BOOLEAN

VARIABLES
    pc,             \* thread -> where it is in actual_manager_routine
    slot,           \* thread -> action and passingClient
    clients_list,   \* thread -> attestators in its list (copies of objects)
    scheduled,      \* thread -> client objects in its scheduler queue
    clients_count,  \* thread -> the count the listener reads without a lock
    objects,        \* the client objects created so far
    freed,          \* those that were destroyed
    listener,       \* the callback or shutdown step of the main thread
    connected,      \* attestators with an active session
    force_exit,     \* set by the SIGINT handler
    fault,          \* a read through a dead, NULL or uninitialized pointer
    pending,        \* thread -> has its slot an event not handled yet (history)
    missed          \* was an event overwritten or its signal lost (history)

vars == <<pc, slot, clients_list, scheduled, clients_count, objects, freed,
          listener, connected, force_exit, fault, pending, missed>>

Managers == 0 .. total_actual_managers - 1

(* Client objects are numbered in the order of their creation. *)
Object == 1 .. MaxObject
NULL == 0

actual_manager_action_t == {"client_up", "client_down", "die"}

ListenerState ==
    [pc : {"service", "terminated"}]
    \cup [pc : {"pass_up", "broadcast"}, client : Object, i : Managers]
    \cup [pc : {"die", "join"}, i : Managers]

TypeOK ==
    /\ pc \in [Managers -> {"lock", "wait", "signalled", "timedout",
                            "event", "attesting", "timeout", "exited"}]
    /\ slot \in [Managers -> [action : actual_manager_action_t \cup {"uninitialized"},
                              passingClient : Object \cup {NULL}]]
    /\ clients_list \in [Managers -> SUBSET Attestator]
    /\ scheduled \in [Managers -> SUBSET Object]
    /\ clients_count \in [Managers -> Nat]
    /\ \E n \in 0 .. MaxObject : objects \in [1 .. n -> Attestator]
    /\ freed \subseteq DOMAIN objects
    /\ listener \in ListenerState
    /\ connected \subseteq Attestator
    /\ force_exit \in BOOLEAN
    /\ fault \in {"none", "null", "freed", "uninitialized"}
    /\ pending \in [Managers -> BOOLEAN]
    /\ missed \in BOOLEAN

Init ==
    /\ pc = [m \in Managers |-> "lock"]
    /\ slot = [m \in Managers |-> [action |-> "uninitialized", passingClient |-> NULL]]
    /\ clients_list = [m \in Managers |-> {}]
    /\ scheduled = [m \in Managers |-> {}]
    /\ clients_count = [m \in Managers |-> 0]
    /\ objects = << >>
    /\ freed = {}
    /\ listener = [pc |-> "service"]
    /\ connected = {}
    /\ force_exit = FALSE
    /\ fault = "none"
    /\ pending = [m \in Managers |-> FALSE]
    /\ missed = FALSE

-----------------------------------------------------------------------------
(* Main thread *)

Held(m) == pc[m] \in {"event", "attesting", "timeout"}

(* Lock the mutex of thread m, write its slot, signal, unlock. *)
Post(m, contents) ==
    /\ ~Held(m)
    /\ slot' = [slot EXCEPT ![m] = contents]
    /\ pc' = [pc EXCEPT ![m] = IF @ = "wait" THEN "signalled" ELSE @]
    /\ pending' = [pending EXCEPT ![m] = TRUE]
    /\ missed' = (missed \/ pending[m] \/ pc[m] # "wait")

(* RA_CLI_create, at the beginning of every callback. *)
CreateClient(att) ==
    /\ Cardinality(DOMAIN objects) < MaxObject
    /\ objects' = [o \in 1 .. Cardinality(DOMAIN objects) + 1 |->
                     IF o \in DOMAIN objects THEN objects[o] ELSE att]

NewClient == Cardinality(DOMAIN objects')

threads == <<pc, slot, clients_list, scheduled, clients_count, pending, missed>>

(* The first thread with the fewest clients, by counts read without lock. *)
LeastLoaded ==
    CHOOSE m \in Managers :
        \A n \in Managers :
            \/ clients_count[m] < clients_count[n]
            \/ clients_count[m] = clients_count[n] /\ m <= n

(* ASCL_WS_MESSAGE_OPEN, with the session started (module Attestation). *)
OnOpen(att) ==
    /\ listener.pc = "service"
    /\ CreateClient(att)
    /\ connected' = connected \cup {att}
    /\ listener' = [pc |-> "pass_up", client |-> NewClient, i |-> LeastLoaded]
    /\ UNCHANGED <<threads, freed, force_exit, fault>>

PassClientUp ==
    /\ listener.pc = "pass_up"
    /\ Post(listener.i, [action |-> "client_up", passingClient |-> listener.client])
    /\ listener' = [pc |-> "service"]
    /\ UNCHANGED <<clients_list, scheduled, clients_count, objects, freed,
                   connected, force_exit, fault>>

(* ASCL_WS_MESSAGE_SEND and _EXCHANGE are only logged.  The client object  *)
(* created for the message is neither passed on nor destroyed.             *)
OnMessage(att) ==
    /\ listener.pc = "service"
    /\ att \in connected
    /\ CreateClient(att)
    /\ UNCHANGED <<threads, freed, listener, connected, force_exit, fault>>

(* Seeded fault: the loop begins with the second thread. *)
OnClose_FromOne(att) ==
    /\ listener.pc = "service"
    /\ att \in connected
    /\ CreateClient(att)
    /\ connected' = connected \ {att}
    /\ listener' = [pc |-> "broadcast", client |-> NewClient, i |-> 1]
    /\ UNCHANGED <<threads, freed, force_exit, fault>>

(* ASCL_WS_MESSAGE_CLOSE, with the active session found and closed. *)
OnClose(att) ==
    /\ listener.pc = "service"
    /\ att \in connected
    /\ CreateClient(att)
    /\ connected' = connected \ {att}
    /\ listener' = [pc |-> "broadcast", client |-> NewClient, i |-> 0]
    /\ UNCHANGED <<threads, freed, force_exit, fault>>

(* The thread after i in a loop over all of them, or else the given state. *)
NextOr(state) ==
    IF listener.i + 1 \in Managers
    THEN [listener EXCEPT !.i = @ + 1]
    ELSE state

(* Seeded fault: the listener destroys the client when all have been told. *)
BroadcastDown_Destroys ==
    /\ listener.pc = "broadcast"
    /\ Post(listener.i, [action |-> "client_down", passingClient |-> listener.client])
    /\ listener' = NextOr([pc |-> "service"])
    /\ freed' = IF listener'.pc = "service" THEN freed \cup {listener.client} ELSE freed
    /\ UNCHANGED <<clients_list, scheduled, clients_count, objects,
                   connected, force_exit, fault>>

BroadcastDown ==
    /\ listener.pc = "broadcast"
    /\ Post(listener.i, [action |-> "client_down", passingClient |-> listener.client])
    /\ listener' = NextOr([pc |-> "service"])
    /\ UNCHANGED <<clients_list, scheduled, clients_count, objects, freed,
                   connected, force_exit, fault>>

sighandler ==
    /\ ~force_exit
    /\ force_exit' = TRUE
    /\ UNCHANGED <<threads, objects, freed, listener, connected, fault>>

LeaveServiceLoop ==
    /\ listener.pc = "service"
    /\ force_exit
    /\ listener' = [pc |-> "die", i |-> 0]
    /\ UNCHANGED <<threads, objects, freed, connected, force_exit, fault>>

(* Seeded fault: the action is set, but the condition is not signalled. *)
PostDie_NoSignal ==
    /\ listener.pc = "die"
    /\ ~Held(listener.i)
    /\ slot' = [slot EXCEPT ![listener.i].action = "die"]
    /\ listener' = [listener EXCEPT !.pc = "join"]
    /\ UNCHANGED <<pc, clients_list, scheduled, clients_count, objects, freed,
                   connected, force_exit, fault, pending, missed>>

PostDie ==
    /\ listener.pc = "die"
    /\ Post(listener.i, [slot[listener.i] EXCEPT !.action = "die"])
    /\ listener' = [listener EXCEPT !.pc = "join"]
    /\ UNCHANGED <<clients_list, scheduled, clients_count, objects, freed,
                   connected, force_exit, fault>>

(* Seeded fault: the loop over the threads runs once too often. *)
Join_OffByOne ==
    /\ listener.pc = "join"
    /\ pc[listener.i] = "exited"
    /\ listener' = [pc |-> "die", i |-> listener.i + 1]
    /\ UNCHANGED <<threads, objects, freed, connected, force_exit, fault>>

(* pthread_join, then the mutex and the condition are destroyed. *)
Join ==
    /\ listener.pc = "join"
    /\ pc[listener.i] = "exited"
    /\ listener' = IF listener.i + 1 \in Managers
                   THEN [pc |-> "die", i |-> listener.i + 1]
                   ELSE [pc |-> "terminated"]
    /\ UNCHANGED <<threads, objects, freed, connected, force_exit, fault>>

-----------------------------------------------------------------------------
(* actual_manager_routine *)

mainThread == <<objects, listener, connected, force_exit>>
lists == <<clients_list, scheduled, clients_count>>

(* Lock, compute the deadline, and wait: the mutex is free again. *)
Wait(m) ==
    /\ pc[m] = "lock"
    /\ pc' = [pc EXCEPT ![m] = "wait"]
    /\ UNCHANGED <<slot, lists, freed, mainThread, fault, pending, missed>>

(* The deadline passes: a signal sent from now on finds nobody waiting. *)
TimeOut(m) ==
    /\ pc[m] = "wait"
    /\ pc' = [pc EXCEPT ![m] = "timedout"]
    /\ UNCHANGED <<slot, lists, freed, mainThread, fault, pending, missed>>

WakeSpuriously(m) ==
    /\ SpuriousWakeups
    /\ pc[m] = "wait"
    /\ pc' = [pc EXCEPT ![m] = "signalled"]
    /\ UNCHANGED <<slot, lists, freed, mainThread, fault, pending, missed>>

(* Seeded fault: every return is taken for that of a wait that timed out. *)
WaitReturns_TimedOut(m) ==
    /\ pc[m] \in {"signalled", "timedout"}
    /\ pc' = [pc EXCEPT ![m] = "timeout"]
    /\ UNCHANGED <<slot, lists, freed, mainThread, fault, pending, missed>>

(* pthread_cond_timedwait takes the mutex again and returns. *)
WaitReturns(m) ==
    /\ pc[m] \in {"signalled", "timedout"}
    /\ pc' = [pc EXCEPT ![m] = IF @ = "signalled" THEN "event" ELSE "timeout"]
    /\ UNCHANGED <<slot, lists, freed, mainThread, fault, pending, missed>>

(* Seeded fault: the thread keeps its mutex when it has served a client. *)
Serve_NoUnlock(m) ==
    /\ pc[m] = "timeout"
    /\ UNCHANGED <<pc, slot, lists, freed, mainThread, fault, pending, missed>>

(* ETIMEDOUT: the head of the queue, if any, is served and queued again.   *)
(* The slot is not looked at.                                              *)
Serve(m) ==
    /\ pc[m] = "timeout"
    /\ pc' = [pc EXCEPT ![m] = "lock"]
    /\ UNCHANGED <<slot, lists, freed, mainThread, fault, pending, missed>>

(* Event client_up without a client: nothing is inserted. *)
HandleNullClient(m) ==
    /\ pc[m] = "event"
    /\ slot[m].action = "client_up"
    /\ slot[m].passingClient = NULL
    /\ pc' = [pc EXCEPT ![m] = "lock"]
    /\ pending' = [pending EXCEPT ![m] = FALSE]
    /\ UNCHANGED <<slot, lists, freed, mainThread, fault, missed>>

(* Event client_up: the thread begins the startup attestation, under its   *)
(* mutex.  While an area has no valid nonce it launches the extractor and  *)
(* asks again, at once and without a limit: it may never leave this state. *)
attest_client_at_startup(m) ==
    /\ pc[m] = "event"
    /\ slot[m].action = "client_up"
    /\ slot[m].passingClient # NULL
    /\ slot[m].passingClient \notin freed
    /\ pc' = [pc EXCEPT ![m] = "attesting"]
    /\ UNCHANGED <<slot, lists, freed, mainThread, fault, pending, missed>>

(* Seeded fault: a client already in the list is scheduled again. *)
HandleClientUp_Twice(m) ==
    /\ pc[m] = "attesting"
    /\ slot[m].action = "client_up"
    /\ LET o == slot[m].passingClient IN
       /\ o \in Object \ freed
       /\ clients_list' = [clients_list EXCEPT ![m] = @ \cup {objects[o]}]
       /\ clients_count' = [clients_count EXCEPT ![m] = Cardinality(clients_list'[m])]
       /\ scheduled' = [scheduled EXCEPT ![m] = @ \cup {o}]
    /\ slot' = [slot EXCEPT ![m].passingClient = NULL]
    /\ pc' = [pc EXCEPT ![m] = "lock"]
    /\ pending' = [pending EXCEPT ![m] = FALSE]
    /\ UNCHANGED <<freed, mainThread, fault, missed>>

(* The startup attestation is over, in the same branch and with the same   *)
(* client.  gl_insert refuses an attestator already in the list, and then  *)
(* passingClient is not reset.                                             *)
HandleClientUp(m) ==
    /\ pc[m] = "attesting"
    /\ slot[m].action = "client_up"
    /\ LET o == slot[m].passingClient IN
       /\ o \in Object \ freed
       /\ \/ /\ objects[o] \in clients_list[m]
             /\ UNCHANGED <<slot, lists>>
          \/ /\ objects[o] \notin clients_list[m]
             /\ clients_list' = [clients_list EXCEPT ![m] = @ \cup {objects[o]}]
             /\ clients_count' = [clients_count EXCEPT ![m] = Cardinality(clients_list'[m])]
             /\ scheduled' = [scheduled EXCEPT ![m] = @ \cup {o}]
             /\ slot' = [slot EXCEPT ![m].passingClient = NULL]
    /\ pc' = [pc EXCEPT ![m] = "lock"]
    /\ pending' = [pending EXCEPT ![m] = FALSE]
    /\ UNCHANGED <<freed, mainThread, fault, missed>>

RA_CLI_destroy(o) == freed \cup {o}

(* sq_remove_all_scheduled removes the first object of that attestator. *)
RemoveScheduled(m, att) ==
    LET matching == {o \in scheduled[m] : objects[o] = att} IN
    IF matching = {}
    THEN scheduled[m]
    ELSE scheduled[m] \ {CHOOSE o \in matching : TRUE}

(* The clients that printing the queue reads, after each event in a DEBUG  *)
(* build, and is reading one defined?                                      *)
sq_print_info(m) == scheduled[m]

RA_CLI_print_info(o) == o \notin freed

(* Event client_down.  An empty list is not searched, so passingClient is  *)
(* not read; the object of the event is freed by the thread that serves it. *)
HandleClientDown(m) ==
    /\ pc[m] = "event"
    /\ slot[m].action = "client_down"
    /\ LET o == slot[m].passingClient IN
       \/ /\ clients_list[m] = {}
          /\ UNCHANGED <<lists, freed>>
       \/ /\ clients_list[m] # {}
          /\ o # NULL /\ o \notin freed
          /\ IF objects[o] \in clients_list[m]
             THEN /\ scheduled' = [scheduled EXCEPT ![m] = RemoveScheduled(m, objects[o])]
                  /\ clients_list' = [clients_list EXCEPT ![m] = @ \ {objects[o]}]
                  /\ clients_count' = [clients_count EXCEPT ![m] = Cardinality(clients_list'[m])]
                  /\ freed' = RA_CLI_destroy(o)
             ELSE UNCHANGED <<lists, freed>>
    /\ slot' = [slot EXCEPT ![m].passingClient = NULL]
    /\ pc' = [pc EXCEPT ![m] = "lock"]
    /\ pending' = [pending EXCEPT ![m] = FALSE]
    /\ UNCHANGED <<mainThread, fault, missed>>

HandleDie(m) ==
    /\ pc[m] = "event"
    /\ slot[m].action = "die"
    /\ clients_list' = [clients_list EXCEPT ![m] = {}]
    /\ scheduled' = [scheduled EXCEPT ![m] = {}]
    /\ pc' = [pc EXCEPT ![m] = "exited"]
    /\ pending' = [pending EXCEPT ![m] = FALSE]
    /\ UNCHANGED <<slot, clients_count, freed, mainThread, fault, missed>>

(* The event cannot be handled without reading memory that holds no client *)
(* object (any more).  What happens next is undefined: the model stops.    *)
BadAccess(m) ==
    /\ pc[m] \in {"event", "attesting"}
    /\ LET o == slot[m].passingClient IN
       \/ slot[m].action = "uninitialized" /\ fault' = "uninitialized"
       \/ /\ \/ slot[m].action = "client_up" /\ o # NULL
             \/ slot[m].action = "client_down" /\ clients_list[m] # {}
          /\ \/ o = NULL /\ fault' = "null"
             \/ o \in freed /\ fault' = "freed"
    /\ UNCHANGED <<threads, freed, mainThread>>

-----------------------------------------------------------------------------
ListenerStep ==
    \/ \E att \in Attestator : OnOpen(att) \/ OnClose(att) \/ OnMessage(att)
    \/ PassClientUp \/ BroadcastDown
    \/ LeaveServiceLoop \/ PostDie \/ Join

ThreadStep(m) ==
    \/ Wait(m) \/ TimeOut(m) \/ WaitReturns(m) \/ Serve(m)
    \/ HandleNullClient(m) \/ attest_client_at_startup(m) \/ HandleClientUp(m)
    \/ HandleClientDown(m) \/ HandleDie(m) \/ BadAccess(m)

Next ==
    /\ fault = "none"
    /\ \/ ListenerStep
       \/ sighandler
       \/ \E m \in Managers : ThreadStep(m) \/ WakeSpuriously(m)

Spec == Init /\ [][Next]_vars

(* Threads are scheduled and their waits end at the latest at the deadline. *)
(* That a startup attestation comes to its end is not promised: as long as *)
(* there is no row for the label, it goes on.  The main thread runs on, and *)
(* gets a mutex it competes for because the thread that owns it gives it   *)
(* up for the whole time it sleeps, which it does again and again: strong  *)
(* fairness.  Nothing makes a client connect or disconnect, or the         *)
(* operator press CTRL+c.                                                  *)
Fairness ==
    /\ \A m \in Managers :
          WF_vars(fault = "none" /\ pc[m] # "attesting" /\ ThreadStep(m))
    /\ WF_vars(fault = "none" /\ (LeaveServiceLoop \/ Join))
    /\ SF_vars(fault = "none" /\ (PassClientUp \/ BroadcastDown \/ PostDie))

FairSpec == Spec /\ Fairness

-----------------------------------------------------------------------------
(* Properties *)

(* Each client in a thread's list is scheduled exactly once and nothing    *)
(* else is: sq_remove_all_scheduled, which removes only the first match,   *)
(* leaves no event behind for a client that went down, and the count the   *)
(* listener balances the load by is that of the list.  The queue keeps     *)
(* pointers to objects of earlier events: none of them is ever destroyed,  *)
(* so serving its head and printing it read live clients.                  *)
ServedIsScheduled ==
    \A m \in Managers :
        /\ \A o \in sq_print_info(m) : RA_CLI_print_info(o)
        /\ pc[m] # "exited" =>
            /\ clients_list[m] = {objects[o] : o \in scheduled[m]}
            /\ Cardinality(scheduled[m]) = Cardinality(clients_list[m])
            /\ clients_count[m] = Cardinality(clients_list[m])

(* If no event was overwritten and no signal lost, then whenever all events *)
(* have been handled the threads serve exactly the connected attestators:  *)
(* the assignment on OPEN and the broadcast on CLOSE agree, also when a    *)
(* client connects again without having disconnected.                      *)
ServedIsConnected ==
    /\ ~missed
    /\ listener.pc = "service"
    /\ \A m \in Managers : ~pending[m] /\ pc[m] # "exited"
    => connected = UNION {clients_list[m] : m \in Managers}

(* No thread reads a client object that was destroyed, a NULL client or an *)
(* uninitialized slot.                                                     *)
NoBadAccess == fault = "none"

(* No thread attests a client at startup for ever: the extractor delivers  *)
(* a nonce for every label, or the database an error.  The code does not   *)
(* make sure of it.                                                        *)
StartupAttestationsEnd ==
    \A m \in Managers : []<>(pc[m] # "attesting")

(* Provided that startup attestations end, every callback returns: the     *)
(* listener waits for the mutex of a thread that serves, attests or        *)
(* handles another event, but never forever, although the thread takes it  *)
(* again and again.  An attestation without end blocks the listener.       *)
CallbackReturns ==
    StartupAttestationsEnd =>
        ((listener.pc \in {"pass_up", "broadcast"}) ~> (listener.pc = "service"))

(* "Pass the client to the actual manager" and '"Broadcast" the actual     *)
(* managers the event' say the comments: a thread handles each event it is *)
(* passed, provided that startup attestations end and that no signal comes *)
(* while the thread does not wait: nothing but the next event would then   *)
(* make it look into its slot, since it sleeps without a test of it.       *)
PassedEventHandled ==
    []~missed /\ StartupAttestationsEnd => \A m \in Managers : pending[m] ~> ~pending[m]

(* After CTRL+c every thread is told to die and joined, and the process    *)
(* terminates, provided that startup attestations end and that no thread   *)
(* misses a signal: main signals each thread once, and a thread that       *)
(* misses it is joined for ever.                                           *)
ShutdownCompletes ==
    []~missed /\ StartupAttestationsEnd => (force_exit ~> (listener.pc = "terminated"))
=============================================================================
