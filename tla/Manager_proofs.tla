--------------------------- MODULE Manager_proofs ---------------------------
(***************************************************************************)
(* Proofs about the threads of the manager process, for any number of      *)
(* threads, attestators and client objects, and with spurious wake-ups     *)
(* where nothing else is said.                                             *)
(***************************************************************************)
EXTENDS Manager, NatFacts

USE ManagerAssumption
USE DEF Managers, Object, NULL, vars, threads, mainThread, lists

-----------------------------------------------------------------------------
(* The inductive invariants *)

(* Object o was created for an OPEN and is (to be) served, or was created  *)
(* for a CLOSE and is (to be) destroyed.                                   *)
OfOpen(o) ==
    \/ \E m \in Managers : o \in scheduled[m]
    \/ \E m \in Managers : slot[m].action = "client_up" /\ slot[m].passingClient = o
    \/ listener.pc = "pass_up" /\ listener.client = o

OfClose(o) ==
    \/ o \in freed
    \/ \E m \in Managers : slot[m].action = "client_down" /\ slot[m].passingClient = o
    \/ listener.pc = "broadcast" /\ listener.client = o

(* Both kinds exist and no object is of both kinds: what a thread destroys *)
(* is never in a queue.                                                    *)
ObjectsInv ==
    \A o \in Object :
        /\ OfOpen(o) \/ OfClose(o) => o \in DOMAIN objects
        /\ ~(OfOpen(o) /\ OfClose(o))

(* A thread's list holds the attestators of its queue, each once, and is   *)
(* counted.                                                                *)
QueueInv(m) ==
    /\ IsFiniteSet(clients_list[m])
    /\ pc[m] # "exited" =>
        /\ clients_list[m] = {objects[o] : o \in scheduled[m]}
        /\ \A o, p \in scheduled[m] : objects[o] = objects[p] => o = p
        /\ clients_count[m] = Cardinality(clients_list[m])

PoolInv ==
    /\ TypeOK
    /\ ObjectsInv
    /\ \A m \in Managers : QueueInv(m)

(* A pending event still has its client; a handled one has given it up, or *)
(* was an OPEN of a client that the thread serves.                         *)
SlotInv(m) ==
    /\ pending[m] =>
          /\ slot[m].action # "uninitialized"
          /\ slot[m].action # "die" => slot[m].passingClient # NULL
    /\ ~pending[m] /\ slot[m].passingClient # NULL =>
          /\ slot[m].action # "client_down"
          /\ slot[m].action = "client_up"
             => objects[slot[m].passingClient] \in clients_list[m]

(* The clients thread m serves once it has handled its pending event. *)
ToServe(m) ==
    IF ~pending[m]
    THEN clients_list[m]
    ELSE IF slot[m].action = "client_up"
    THEN clients_list[m] \cup {objects[slot[m].passingClient]}
    ELSE clients_list[m] \ {objects[slot[m].passingClient]}

(* The threads that a broadcast has reached will not serve its client. *)
ToldDown ==
    \A m \in Managers : m < listener.i => objects[listener.client] \notin ToServe(m)

(* While nothing was missed and the process is not shutting down, the      *)
(* threads serve, once they and the callback are done, who is connected.   *)
ServiceInv ==
    listener.pc \in {"service", "pass_up", "broadcast"} =>
        /\ \A m \in Managers : slot[m].action # "die" /\ pc[m] # "exited"
        /\ \A m \in Managers : SlotInv(m)
        /\ ~missed =>
            LET all == UNION {ToServe(m) : m \in Managers} IN
            /\ listener.pc = "service" => connected = all
            /\ listener.pc = "pass_up" => connected = {objects[listener.client]} \cup all
            /\ listener.pc = "broadcast"
               => connected = all \ {objects[listener.client]} /\ ToldDown

(* With one thread that only wakes up for events: it wakes up to a pending *)
(* event, whose object nobody has destroyed.                               *)
AccessInv ==
    /\ fault = "none"
    /\ \A m \in Managers :
        /\ pc[m] \in {"signalled", "event", "attesting"} => pending[m]
        /\ pending[m] =>
              /\ slot[m].action # "uninitialized"
              /\ slot[m].action # "die" => slot[m].passingClient # NULL
        /\ slot[m].action = "client_down" => slot[m].passingClient \notin freed
        /\ slot[m].passingClient # NULL => slot[m].passingClient \in DOMAIN objects
        /\ listener.pc = "broadcast" => slot[m].passingClient # listener.client
    /\ listener.pc = "broadcast" => listener.client \notin freed

-----------------------------------------------------------------------------
(* Lemmas about the operators of the main thread *)

(* Objects are numbered without gaps, so that their number is the last id. *)
LEMMA Created ==
    ASSUME TypeOK
    PROVE  \E n \in 0 .. MaxObject :
              /\ objects \in [1 .. n -> Attestator]
              /\ DOMAIN objects = 1 .. n
              /\ Cardinality(DOMAIN objects) = n
              /\ IsFiniteSet(DOMAIN objects)
<1>1. PICK n \in 0 .. MaxObject : objects \in [1 .. n -> Attestator]
  BY DEF TypeOK
<1>2. DOMAIN objects = 1 .. n
  BY <1>1
<1>3. IsFiniteSet(1 .. n) /\ Cardinality(1 .. n) = n
  BY FS_Interval
<1>4. QED
  BY <1>1, <1>2, <1>3

(* RA_CLI_create returns an object that nobody knows yet. *)
LEMMA FreshClient ==
    ASSUME TypeOK, NEW att \in Attestator, CreateClient(att)
    PROVE  /\ NewClient \in Object
           /\ NewClient \notin DOMAIN objects
           /\ DOMAIN objects' = DOMAIN objects \cup {NewClient}
           /\ \A o \in DOMAIN objects : objects'[o] = objects[o]
           /\ objects'[NewClient] = att
           /\ \E n \in 0 .. MaxObject : objects' \in [1 .. n -> Attestator]
<1>1. PICK n \in 0 .. MaxObject :
          /\ objects \in [1 .. n -> Attestator]
          /\ DOMAIN objects = 1 .. n
          /\ Cardinality(DOMAIN objects) = n
  BY Created
<1>2. n < MaxObject
  BY <1>1 DEF CreateClient
<1>3. objects' = [o \in 1 .. n + 1 |-> IF o \in 1 .. n THEN objects[o] ELSE att]
  BY <1>1 DEF CreateClient
<1>4. DOMAIN objects' = 1 .. n + 1
  BY <1>3
<1>5. NewClient = n + 1
  BY <1>4, FS_Interval, n \in Nat, n + 1 \in Int DEF NewClient
<1>6. QED
  BY <1>1, <1>2, <1>3, <1>4, <1>5

(* The loop over the counts of all threads ends with one of them. *)
LEMMA LeastLoadedIsManager ==
    ASSUME TypeOK
    PROVE  LeastLoaded \in Managers
<1> DEFINE counts == {clients_count[m] : m \in Managers}
           IsLeast(m) == \A n \in Managers :
                            \/ clients_count[m] < clients_count[n]
                            \/ clients_count[m] = clients_count[n] /\ m <= n
<1>1. clients_count \in [Managers -> Nat]
  BY DEF TypeOK
<1>2. counts \in SUBSET Nat /\ counts # {}
  <2>1. 0 \in Managers
    OBVIOUS
  <2>2. QED
    BY <1>1, <2>1
<1>3. PICK k \in counts : \A j \in counts : k <= j
  <2> HIDE DEF counts
  <2>1. QED
    BY <1>2, LeastNumber
<1> DEFINE least == {m \in Managers : clients_count[m] = k}
<1>4. least \in SUBSET Nat /\ least # {}
  BY <1>3
<1>5. PICK m \in least : \A n \in least : m <= n
  <2> HIDE DEF least
  <2>1. QED
    BY <1>4, LeastNumber
<1>6. m \in Managers /\ clients_count[m] = k
  BY <1>5
<1>7. IsLeast(m)
  <2>1. ASSUME NEW n \in Managers
        PROVE  \/ clients_count[m] < clients_count[n]
               \/ clients_count[m] = clients_count[n] /\ m <= n
    <3>1. clients_count[m] <= clients_count[n]
      BY <1>3, <1>6
    <3>2. clients_count[n] = k => m <= n
      BY <1>5
    <3>3. QED
      BY <1>1, <1>6, <3>1, <3>2
  <2>2. QED
    BY <2>1
<1>8. LeastLoaded = CHOOSE x \in Managers : IsLeast(x)
  BY DEF LeastLoaded
<1> HIDE DEF IsLeast
<1>9. QED
  BY <1>6, <1>7, <1>8

(* What Post does to the slots. *)
LEMMA PostSlot ==
    ASSUME TypeOK, NEW m \in Managers, NEW action \in actual_manager_action_t,
           NEW o \in Object \cup {NULL},
           Post(m, [action |-> action, passingClient |-> o])
    PROVE  /\ slot'[m].action = action
           /\ slot'[m].passingClient = o
           /\ \A n \in Managers : n # m => slot'[n] = slot[n]
           /\ slot' \in [Managers -> [action : actual_manager_action_t \cup {"uninitialized"},
                                      passingClient : Object \cup {NULL}]]
  BY DEF Post, TypeOK

(* What it does to the threads: one that waits is signalled. *)
LEMMA PostThread ==
    ASSUME TypeOK, NEW m \in Managers, NEW action \in actual_manager_action_t,
           NEW o \in Object \cup {NULL},
           Post(m, [action |-> action, passingClient |-> o])
    PROVE  /\ pc[m] \notin {"event", "attesting", "timeout"}
           /\ pc'[m] = IF pc[m] = "wait" THEN "signalled" ELSE pc[m]
           /\ \A n \in Managers : n # m => pc'[n] = pc[n]
           /\ pc' \in [Managers -> {"lock", "wait", "signalled", "timedout",
                                    "event", "attesting", "timeout", "exited"}]
  BY DEF Post, Held, TypeOK

(* What it records: the event is pending; nothing is missed only if the    *)
(* thread waits and has handled its last event.                            *)
LEMMA PostHistory ==
    ASSUME TypeOK, NEW m \in Managers, NEW action \in actual_manager_action_t,
           NEW o \in Object \cup {NULL},
           Post(m, [action |-> action, passingClient |-> o])
    PROVE  /\ pending'[m]
           /\ \A n \in Managers : n # m => (pending'[n] <=> pending[n])
           /\ pending' \in [Managers -> BOOLEAN]
           /\ missed' \in BOOLEAN
           /\ ~missed' => ~missed /\ ~pending[m] /\ pc[m] = "wait"
<1>1. pending \in [Managers -> BOOLEAN]
  BY DEF TypeOK
<1>2. pending' = [pending EXCEPT ![m] = TRUE]
      /\ missed' = (missed \/ pending[m] \/ pc[m] # "wait")
  BY DEF Post
<1>3. pending'[m] /\ pending' \in [Managers -> BOOLEAN]
      /\ \A n \in Managers : n # m => (pending'[n] <=> pending[n])
  BY <1>1, <1>2
<1>4. QED
  BY <1>2, <1>3

(* The two loops over the threads advance to the next thread or end. *)
LEMMA NextThread ==
    ASSUME listener \in ListenerState, listener.pc = "broadcast"
    PROVE  LET next == NextOr([pc |-> "service"]) IN
           /\ next \in ListenerState
           /\ \/ /\ next = [pc |-> "service"]
                 /\ listener.i = total_actual_managers - 1
              \/ /\ next = [pc |-> "broadcast", client |-> listener.client,
                            i |-> listener.i + 1]
                 /\ listener.i + 1 \in Managers
<1>1. listener \in [pc : {"pass_up", "broadcast"}, client : Object, i : Managers]
  BY DEF ListenerState
<1>2. CASE listener.i + 1 \in Managers
  <2>1. NextOr([pc |-> "service"]) = [listener EXCEPT !.i = listener.i + 1]
    BY <1>2 DEF NextOr
  <2>2. [listener EXCEPT !.i = listener.i + 1] =
          [pc |-> "broadcast", client |-> listener.client, i |-> listener.i + 1]
    BY <1>1
  <2>3. [pc |-> "broadcast", client |-> listener.client, i |-> listener.i + 1]
          \in ListenerState
    BY <1>1, <1>2 DEF ListenerState
  <2>4. QED
    BY <1>2, <2>1, <2>2, <2>3
<1>3. CASE listener.i + 1 \notin Managers
  BY <1>1, <1>3 DEF NextOr, ListenerState
<1>4. QED
  BY <1>2, <1>3

-----------------------------------------------------------------------------
(* Types *)

(* The steps of the main thread. *)
LEMMA ListenerTypeOK == PoolInv /\ ListenerStep => TypeOK'
<1> SUFFICES ASSUME PoolInv, ListenerStep PROVE TypeOK'
    OBVIOUS
<1>1. TypeOK
  BY DEF PoolInv
<1>2. CASE \E att \in Attestator : OnOpen(att) \/ OnClose(att) \/ OnMessage(att)
  <2>1. PICK att \in Attestator : OnOpen(att) \/ OnClose(att) \/ OnMessage(att)
    BY <1>2
  <2>2. CreateClient(att)
    BY <2>1 DEF OnOpen, OnClose, OnMessage
  <2>3. /\ \E n \in 0 .. MaxObject : objects' \in [1 .. n -> Attestator]
        /\ freed \subseteq DOMAIN objects'
        /\ NewClient \in Object
    BY <1>1, <2>2, FreshClient DEF TypeOK
  <2>4. connected' \subseteq Attestator
    BY <1>1, <2>1 DEF OnOpen, OnClose, OnMessage, TypeOK
  <2>5. listener' \in ListenerState
    <3>1. CASE OnOpen(att)
      BY <1>1, <2>3, <3>1, LeastLoadedIsManager DEF OnOpen, ListenerState
    <3>2. CASE OnClose(att)
      <4>1. 0 \in Managers
        OBVIOUS
      <4>2. QED
        BY <2>3, <3>2, <4>1 DEF OnClose, ListenerState
    <3>3. CASE OnMessage(att)
      BY <1>1, <3>3 DEF OnMessage, TypeOK
    <3>4. QED
      BY <2>1, <3>1, <3>2, <3>3
  <2>6. UNCHANGED <<pc, slot, clients_list, scheduled, clients_count, pending, missed,
                    freed, force_exit, fault>>
    BY <2>1 DEF OnOpen, OnClose, OnMessage
  <2>7. QED
    BY <1>1, <2>3, <2>4, <2>5, <2>6 DEF TypeOK
<1>3. CASE PassClientUp \/ BroadcastDown
  <2>1. listener \in [pc : {"pass_up", "broadcast"}, client : Object, i : Managers]
    BY <1>1, <1>3 DEF PassClientUp, BroadcastDown, TypeOK, ListenerState
  <2>2. PICK action \in {"client_up", "client_down"} :
            Post(listener.i, [action |-> action, passingClient |-> listener.client])
    BY <1>3 DEF PassClientUp, BroadcastDown
  <2>3. listener' \in ListenerState
    BY <1>1, <1>3, NextThread DEF PassClientUp, BroadcastDown, ListenerState, TypeOK
  <2>4. UNCHANGED <<clients_list, scheduled, clients_count, objects, freed,
                    connected, force_exit, fault>>
    BY <1>3 DEF PassClientUp, BroadcastDown
  <2>5. /\ slot' \in [Managers -> [action : actual_manager_action_t \cup {"uninitialized"},
                                   passingClient : Object \cup {NULL}]]
        /\ pc' \in [Managers -> {"lock", "wait", "signalled", "timedout",
                                 "event", "attesting", "timeout", "exited"}]
        /\ pending' \in [Managers -> BOOLEAN]
        /\ missed' \in BOOLEAN
    <3>1. /\ listener.i \in Managers
          /\ listener.client \in Object \cup {NULL}
          /\ action \in actual_manager_action_t
      BY <2>1 DEF actual_manager_action_t
    <3>2. QED
      BY <1>1, <2>2, <3>1, PostSlot, PostThread, PostHistory
  <2>6. QED
    BY <1>1, <2>3, <2>4, <2>5 DEF TypeOK
<1>4. CASE PostDie
  <2>1. listener \in [pc : {"die", "join"}, i : Managers]
    BY <1>1, <1>4 DEF PostDie, TypeOK, ListenerState
  <2>2. slot[listener.i] \in [action : actual_manager_action_t \cup {"uninitialized"},
                              passingClient : Object \cup {NULL}]
    BY <1>1, <2>1 DEF TypeOK
  <2>3. [slot[listener.i] EXCEPT !.action = "die"] =
          [action |-> "die", passingClient |-> slot[listener.i].passingClient]
    BY <2>2
  <2>4. /\ slot[listener.i].passingClient \in Object \cup {NULL}
        /\ "die" \in actual_manager_action_t
        /\ listener.i \in Managers
    BY <2>1, <2>2 DEF actual_manager_action_t
  <2>5. /\ slot' \in [Managers -> [action : actual_manager_action_t \cup {"uninitialized"},
                                   passingClient : Object \cup {NULL}]]
        /\ pc' \in [Managers -> {"lock", "wait", "signalled", "timedout",
                                 "event", "attesting", "timeout", "exited"}]
        /\ pending' \in [Managers -> BOOLEAN]
        /\ missed' \in BOOLEAN
    BY <1>1, <1>4, <2>3, <2>4, PostSlot, PostThread, PostHistory DEF PostDie
  <2>6. listener' \in ListenerState
    <3>1. listener' = [listener EXCEPT !.pc = "join"]
      BY <1>4 DEF PostDie
    <3>2. listener' = [pc |-> "join", i |-> listener.i]
      BY <2>1, <3>1
    <3>3. QED
      BY <2>1, <3>2 DEF ListenerState
  <2>7. QED
    BY <1>1, <1>4, <2>5, <2>6 DEF PostDie, TypeOK
<1>5. CASE LeaveServiceLoop \/ Join
  <2>1. listener' \in ListenerState
    BY <1>5 DEF LeaveServiceLoop, Join, ListenerState
  <2>2. UNCHANGED <<pc, slot, clients_list, scheduled, clients_count, pending, missed,
                    objects, freed, connected, force_exit, fault>>
    BY <1>5 DEF LeaveServiceLoop, Join
  <2>3. QED
    BY <1>1, <2>1, <2>2 DEF TypeOK
<1>6. QED
  BY <1>2, <1>3, <1>4, <1>5 DEF ListenerStep

(* A thread touches its own slot, list, queue and count only.  An event    *)
(* that is handled leaves the list as it is, adds the attestator of the    *)
(* slot's object to it or removes it, and may reset the slot's pointer.    *)
LEMMA ThreadFootprint ==
    ASSUME PoolInv, NEW m \in Managers, ThreadStep(m) \/ WakeSpuriously(m)
    PROVE  /\ UNCHANGED <<objects, listener, connected, force_exit, missed>>
           /\ pc' \in [Managers -> {"lock", "wait", "signalled", "timedout",
                                    "event", "attesting", "timeout", "exited"}]
           /\ slot' \in [Managers -> [action : actual_manager_action_t \cup {"uninitialized"},
                                      passingClient : Object \cup {NULL}]]
           /\ pending' \in [Managers -> BOOLEAN]
           /\ \A n \in Managers \ {m} : /\ pc'[n] = pc[n]
                                        /\ slot'[n] = slot[n]
                                        /\ clients_list'[n] = clients_list[n]
                                        /\ scheduled'[n] = scheduled[n]
                                        /\ clients_count'[n] = clients_count[n]
                                        /\ pending'[n] = pending[n]
           /\ slot'[m].action = slot[m].action
           /\ slot'[m].passingClient \in {slot[m].passingClient, NULL}
           /\ clients_list' = [n \in Managers |-> clients_list'[n]]
           /\ scheduled' = [n \in Managers |-> scheduled'[n]]
           /\ clients_count' = [n \in Managers |-> clients_count'[n]]
<1>1. TypeOK
  BY DEF PoolInv
<1>2. CASE Wait(m) \/ TimeOut(m) \/ WakeSpuriously(m) \/ WaitReturns(m) \/ Serve(m)
           \/ attest_client_at_startup(m)
  BY <1>1, <1>2 DEF Wait, TimeOut, WakeSpuriously, WaitReturns, Serve,
     attest_client_at_startup, TypeOK
<1>3. CASE HandleClientUp(m)
  <2>1. CASE UNCHANGED <<slot, lists>>
    BY <1>1, <1>3, <2>1 DEF HandleClientUp, TypeOK
  <2>2. CASE ~UNCHANGED <<slot, lists>>
    <3>1. /\ clients_list' = [clients_list EXCEPT ![m] = @ \cup {objects[slot[m].passingClient]}]
          /\ clients_count' = [clients_count EXCEPT ![m] = Cardinality(clients_list'[m])]
          /\ scheduled' = [scheduled EXCEPT ![m] = @ \cup {slot[m].passingClient}]
          /\ slot' = [slot EXCEPT ![m].passingClient = NULL]
          /\ pc' = [pc EXCEPT ![m] = "lock"]
          /\ pending' = [pending EXCEPT ![m] = FALSE]
          /\ UNCHANGED <<freed, objects, listener, connected, force_exit, fault, missed>>
      BY <1>3, <2>2 DEF HandleClientUp
    <3>2. QED
      BY <1>1, <3>1 DEF TypeOK
  <2>3. QED
    BY <2>1, <2>2
<1>4. CASE HandleClientDown(m)
  BY <1>1, <1>4 DEF HandleClientDown, TypeOK
<1>5. CASE HandleNullClient(m) \/ HandleDie(m) \/ BadAccess(m)
  BY <1>1, <1>5 DEF HandleNullClient, HandleDie, BadAccess, TypeOK
<1>6. QED
  BY <1>2, <1>3, <1>4, <1>5 DEF ThreadStep

(* What the handlers of the events do with list, queue and client object. *)
LEMMA HandlerEffect ==
    ASSUME PoolInv, NEW m \in Managers, ThreadStep(m) \/ WakeSpuriously(m)
    PROVE  LET o == slot[m].passingClient IN
           \/ UNCHANGED <<clients_list, scheduled, clients_count, freed>>
           \/ /\ HandleClientUp(m)
              /\ o \in Object /\ objects[o] \notin clients_list[m]
              /\ clients_list'[m] = clients_list[m] \cup {objects[o]}
              /\ scheduled'[m] = scheduled[m] \cup {o}
              /\ clients_count'[m] = Cardinality(clients_list'[m])
              /\ UNCHANGED freed
           \/ /\ HandleClientDown(m)
              /\ o \in Object /\ objects[o] \in clients_list[m]
              /\ clients_list'[m] = clients_list[m] \ {objects[o]}
              /\ scheduled'[m] = RemoveScheduled(m, objects[o])
              /\ clients_count'[m] = Cardinality(clients_list'[m])
              /\ freed' = freed \cup {o}
           \/ /\ HandleDie(m)
              /\ clients_list'[m] = {} /\ scheduled'[m] = {}
              /\ UNCHANGED <<clients_count, freed>>
<1>1. /\ slot[m].passingClient \in Object \cup {NULL}
      /\ DOMAIN clients_list = Managers
      /\ DOMAIN scheduled = Managers
      /\ DOMAIN clients_count = Managers
  BY DEF PoolInv, TypeOK
<1>2. CASE Wait(m) \/ TimeOut(m) \/ WakeSpuriously(m) \/ WaitReturns(m) \/ Serve(m)
           \/ HandleNullClient(m) \/ attest_client_at_startup(m) \/ BadAccess(m)
  BY <1>2 DEF Wait, TimeOut, WakeSpuriously, WaitReturns, Serve, HandleNullClient,
     attest_client_at_startup, BadAccess
<1>3. CASE HandleClientUp(m)
  BY <1>1, <1>3 DEF HandleClientUp
<1>4. CASE HandleClientDown(m)
  BY <1>1, <1>4 DEF HandleClientDown, RA_CLI_destroy
<1>5. CASE HandleDie(m)
  BY <1>1, <1>5 DEF HandleDie
<1>6. QED
  BY <1>2, <1>3, <1>4, <1>5 DEF ThreadStep

(* Each handler is for one action. *)
LEMMA EventAction ==
    ASSUME NEW m \in Managers
    PROVE  /\ HandleClientUp(m) => slot[m].action = "client_up"
           /\ HandleClientDown(m) => slot[m].action = "client_down"
           /\ HandleDie(m) => slot[m].action = "die"
  BY DEF HandleClientUp, HandleClientDown, HandleDie

(* The object in the slot of an event that goes up or down exists. *)
LEMMA SlotObject ==
    ASSUME PoolInv, NEW m \in Managers, slot[m].action \in {"client_up", "client_down"},
           slot[m].passingClient \in Object
    PROVE  /\ slot[m].passingClient \in DOMAIN objects
           /\ objects[slot[m].passingClient] \in Attestator
<1>1. slot[m].passingClient \in DOMAIN objects
  BY DEF PoolInv, ObjectsInv, OfOpen, OfClose
<1>2. QED
  BY <1>1, Created DEF PoolInv

(* The steps of the threads. *)
LEMMA ThreadTypeOK ==
    ASSUME PoolInv, NEW m \in Managers, ThreadStep(m) \/ WakeSpuriously(m)
    PROVE  TypeOK'
<1>1. TypeOK
  BY DEF PoolInv
<1>2. fault' \in {"none", "null", "freed", "uninitialized"}
  <2>1. CASE BadAccess(m)
    BY <2>1 DEF BadAccess
  <2>2. CASE ~BadAccess(m)
    BY <1>1, <2>2 DEF ThreadStep, Wait, TimeOut, WaitReturns, Serve, HandleNullClient,
       attest_client_at_startup, HandleClientUp,
       HandleClientDown, HandleDie, WakeSpuriously, TypeOK
  <2>3. QED
    BY <2>1, <2>2
<1>3. /\ clients_list'[m] \in SUBSET Attestator
      /\ scheduled'[m] \in SUBSET Object
      /\ clients_count'[m] \in Nat
      /\ freed' \subseteq DOMAIN objects
  <2>1. /\ clients_list[m] \in SUBSET Attestator
        /\ scheduled[m] \in SUBSET Object
        /\ clients_count[m] \in Nat
        /\ freed \subseteq DOMAIN objects
        /\ IsFiniteSet(clients_list[m])
    BY <1>1 DEF TypeOK, PoolInv, QueueInv
  <2>2. CASE UNCHANGED <<clients_list, scheduled, clients_count, freed>>
    BY <2>1, <2>2
  <2>3. ASSUME slot[m].passingClient \in Object, HandleClientUp(m),
               clients_list'[m] = clients_list[m] \cup {objects[slot[m].passingClient]},
               scheduled'[m] = scheduled[m] \cup {slot[m].passingClient},
               clients_count'[m] = Cardinality(clients_list'[m]), UNCHANGED freed
        PROVE  /\ clients_list'[m] \in SUBSET Attestator
               /\ scheduled'[m] \in SUBSET Object
               /\ clients_count'[m] \in Nat
               /\ freed' \subseteq DOMAIN objects
    <3>1. objects[slot[m].passingClient] \in Attestator
      BY <2>3, EventAction, SlotObject
    <3>2. IsFiniteSet(clients_list'[m])
      <4>1. IsFiniteSet(clients_list[m] \cup {objects[slot[m].passingClient]})
        BY <2>1, FS_AddElement
      <4>2. QED
        BY <2>3, <4>1
    <3>3. Cardinality(clients_list'[m]) \in Nat
      BY <3>2, FS_CardinalityType
    <3>4. QED
      BY <2>1, <2>3, <3>1, <3>3
  <2>4. ASSUME slot[m].passingClient \in Object, HandleClientDown(m),
               clients_list'[m] = clients_list[m] \ {objects[slot[m].passingClient]},
               scheduled'[m] = RemoveScheduled(m, objects[slot[m].passingClient]),
               clients_count'[m] = Cardinality(clients_list'[m]),
               freed' = freed \cup {slot[m].passingClient}
        PROVE  /\ clients_list'[m] \in SUBSET Attestator
               /\ scheduled'[m] \in SUBSET Object
               /\ clients_count'[m] \in Nat
               /\ freed' \subseteq DOMAIN objects
    <3>1. slot[m].passingClient \in DOMAIN objects
      BY <2>4, EventAction, SlotObject
    <3>2. IsFiniteSet(clients_list'[m])
      BY <2>1, <2>4, FS_RemoveElement
    <3>3. scheduled'[m] \subseteq scheduled[m]
      BY <2>4 DEF RemoveScheduled
    <3>4. Cardinality(clients_list'[m]) \in Nat
      BY <3>2, FS_CardinalityType
    <3>5. QED
      BY <2>1, <2>4, <3>1, <3>3, <3>4
  <2>5. CASE /\ clients_list'[m] = {} /\ scheduled'[m] = {}
             /\ UNCHANGED <<clients_count, freed>>
    BY <2>1, <2>5
  <2>6. QED
    BY <2>2, <2>3, <2>4, <2>5, HandlerEffect
<1>4. /\ clients_list' \in [Managers -> SUBSET Attestator]
      /\ scheduled' \in [Managers -> SUBSET Object]
      /\ clients_count' \in [Managers -> Nat]
  <2>1. /\ clients_list \in [Managers -> SUBSET Attestator]
        /\ scheduled \in [Managers -> SUBSET Object]
        /\ clients_count \in [Managers -> Nat]
    BY <1>1 DEF TypeOK
  <2>2. /\ \A n \in Managers \ {m} : /\ clients_list'[n] = clients_list[n]
                                     /\ scheduled'[n] = scheduled[n]
                                     /\ clients_count'[n] = clients_count[n]
        /\ clients_list' = [n \in Managers |-> clients_list'[n]]
        /\ scheduled' = [n \in Managers |-> scheduled'[n]]
        /\ clients_count' = [n \in Managers |-> clients_count'[n]]
    BY ThreadFootprint
  <2>3. QED
    BY <1>3, <2>1, <2>2
<1>5. QED
  BY <1>1, <1>2, <1>3, <1>4, ThreadFootprint DEF TypeOK

-----------------------------------------------------------------------------
(* Objects and queues *)

(* Steps that create no object: those of OPEN and those of CLOSE become    *)
(* fewer, or an object of one kind stays of that kind.                     *)
LEMMA ObjectsKept ==
    ASSUME ObjectsInv, UNCHANGED objects,
           \A o \in Object : OfOpen(o)' => OfOpen(o),
           \A o \in Object : OfClose(o)' => OfClose(o)
    PROVE  ObjectsInv'
  BY DEF ObjectsInv

(* The main thread creates objects for one kind of callback and passes     *)
(* them on as such.                                                        *)
LEMMA ListenerObjects ==
    ASSUME PoolInv, ListenerStep
    PROVE  ObjectsInv'
<1>1. TypeOK /\ ObjectsInv
  BY DEF PoolInv
<1>2. CASE \E att \in Attestator : OnOpen(att) \/ OnClose(att) \/ OnMessage(att)
  <2>1. PICK att \in Attestator : OnOpen(att) \/ OnClose(att) \/ OnMessage(att)
    BY <1>2
  <2>2. CreateClient(att)
    BY <2>1 DEF OnOpen, OnClose, OnMessage
  <2>3. /\ NewClient \notin DOMAIN objects
        /\ DOMAIN objects' = DOMAIN objects \cup {NewClient}
    BY <1>1, <2>2, FreshClient
  <2>4. /\ UNCHANGED <<scheduled, slot, freed>>
        /\ \/ listener'.pc = "pass_up" /\ listener'.client = NewClient
           \/ listener'.pc = "broadcast" /\ listener'.client = NewClient
           \/ listener'.pc = "service"
    BY <2>1 DEF OnOpen, OnClose, OnMessage
  <2>5. ASSUME NEW o \in Object
        PROVE  /\ OfOpen(o)' => OfOpen(o) \/ (o = NewClient /\ listener'.pc = "pass_up")
               /\ OfClose(o)' => OfClose(o) \/ (o = NewClient /\ listener'.pc = "broadcast")
    BY <2>4 DEF OfOpen, OfClose
  <2>6. QED
    BY <1>1, <2>3, <2>5 DEF ObjectsInv
<1>3. CASE PassClientUp \/ BroadcastDown
  <2>1. listener \in [pc : {"pass_up", "broadcast"}, client : Object, i : Managers]
    BY <1>1, <1>3 DEF PassClientUp, BroadcastDown, TypeOK, ListenerState
  <2>2. PICK action \in {"client_up", "client_down"} :
            /\ action = IF listener.pc = "pass_up" THEN "client_up" ELSE "client_down"
            /\ Post(listener.i, [action |-> action, passingClient |-> listener.client])
    BY <1>3 DEF PassClientUp, BroadcastDown
  <2>3. /\ slot'[listener.i].action = action
        /\ slot'[listener.i].passingClient = listener.client
        /\ \A n \in Managers \ {listener.i} : slot'[n] = slot[n]
    <3>1. /\ listener.i \in Managers
          /\ listener.client \in Object \cup {NULL}
          /\ action \in actual_manager_action_t
      BY <2>1 DEF actual_manager_action_t
    <3>2. QED
      BY <1>1, <2>2, <3>1, PostSlot
  <2>4. /\ UNCHANGED <<scheduled, objects, freed>>
        /\ \/ listener'.pc = "service"
           \/ /\ listener.pc = "broadcast" /\ listener'.pc = "broadcast"
              /\ listener'.client = listener.client
    BY <1>1, <1>3, NextThread DEF PassClientUp, BroadcastDown, TypeOK
  <2>5. ASSUME NEW o \in Object PROVE OfOpen(o)' => OfOpen(o)
    BY <2>1, <2>2, <2>3, <2>4 DEF OfOpen
  <2>6. ASSUME NEW o \in Object PROVE OfClose(o)' => OfClose(o)
    BY <2>1, <2>2, <2>3, <2>4 DEF OfClose
  <2>7. QED
    BY <1>1, <2>4, <2>5, <2>6, ObjectsKept
<1>4. CASE PostDie \/ LeaveServiceLoop \/ Join
  <2>1. /\ UNCHANGED <<scheduled, objects, freed>>
        /\ listener'.pc \notin {"pass_up", "broadcast"}
    BY <1>1, <1>4 DEF PostDie, LeaveServiceLoop, Join, Post, TypeOK, ListenerState
  <2>2. \A n \in Managers : slot'[n] = slot[n] \/ slot'[n].action = "die"
    BY <1>1, <1>4 DEF PostDie, LeaveServiceLoop, Join, Post, TypeOK
  <2>3. \A o \in Object : OfOpen(o)' => OfOpen(o)
    BY <2>1, <2>2 DEF OfOpen
  <2>4. \A o \in Object : OfClose(o)' => OfClose(o)
    BY <2>1, <2>2 DEF OfClose
  <2>5. QED
    BY <1>1, <2>1, <2>3, <2>4, ObjectsKept
<1>5. QED
  BY <1>2, <1>3, <1>4 DEF ListenerStep

(* A thread schedules what it was passed by an OPEN and destroys what it   *)
(* was passed by a CLOSE.                                                  *)
LEMMA ThreadObjects ==
    ASSUME PoolInv, NEW m \in Managers, ThreadStep(m) \/ WakeSpuriously(m)
    PROVE  ObjectsInv'
<1>1. /\ UNCHANGED <<objects, listener>>
      /\ \A n \in Managers \ {m} : slot'[n] = slot[n] /\ scheduled'[n] = scheduled[n]
      /\ slot'[m].action = slot[m].action
      /\ slot'[m].passingClient \in {slot[m].passingClient, NULL}
  BY ThreadFootprint
<1>2. /\ \A o \in scheduled'[m] :
            \/ o \in scheduled[m]
            \/ o = slot[m].passingClient /\ slot[m].action = "client_up"
      /\ \A o \in freed' :
            \/ o \in freed
            \/ o = slot[m].passingClient /\ slot[m].action = "client_down"
  BY HandlerEffect, EventAction DEF RemoveScheduled
<1>3. ASSUME NEW o \in Object PROVE OfOpen(o)' => OfOpen(o)
  BY <1>1, <1>2 DEF OfOpen
<1>4. ASSUME NEW o \in Object PROVE OfClose(o)' => OfClose(o)
  BY <1>1, <1>2 DEF OfClose
<1>5. QED
  BY <1>1, <1>3, <1>4, ObjectsKept DEF PoolInv

(* The main thread leaves lists and queues alone, and objects in a queue   *)
(* as they are.                                                            *)
LEMMA ListenerQueues ==
    ASSUME PoolInv, ListenerStep, NEW m \in Managers
    PROVE  QueueInv(m)'
<1>1. TypeOK /\ ObjectsInv /\ QueueInv(m)
  BY DEF PoolInv
<1>2. UNCHANGED <<clients_list, scheduled, clients_count>>
  BY DEF ListenerStep, OnOpen, OnClose, OnMessage, PassClientUp, BroadcastDown,
     LeaveServiceLoop, PostDie, Join
<1>3. pc'[m] # "exited" => pc[m] # "exited"
  BY <1>1 DEF ListenerStep, OnOpen, OnClose, OnMessage, PassClientUp, BroadcastDown,
     LeaveServiceLoop, PostDie, Join, Post, TypeOK
<1>4. \A o \in scheduled[m] : o \in DOMAIN objects
  BY <1>1 DEF ObjectsInv, OfOpen, TypeOK
<1>5. \A o \in DOMAIN objects : objects'[o] = objects[o]
  <2>1. CASE \E att \in Attestator : OnOpen(att) \/ OnClose(att) \/ OnMessage(att)
    <3>1. PICK att \in Attestator : CreateClient(att)
      BY <2>1 DEF OnOpen, OnClose, OnMessage
    <3>2. QED
      BY <1>1, <3>1, FreshClient
  <2>2. CASE UNCHANGED objects
    BY <2>2
  <2>3. QED
    BY <2>1, <2>2 DEF ListenerStep, PassClientUp, BroadcastDown, LeaveServiceLoop,
       PostDie, Join
<1>6. \A o \in scheduled[m] : objects'[o] = objects[o]
  BY <1>4, <1>5
<1>7. QED
  BY <1>1, <1>2, <1>3, <1>6 DEF QueueInv

(* A thread adds a client to list and queue or removes it from both.       *)
(* Removing the first match removes all, since there is only one.          *)
LEMMA ThreadQueues ==
    ASSUME PoolInv, NEW m \in Managers, ThreadStep(m) \/ WakeSpuriously(m),
           NEW n \in Managers
    PROVE  QueueInv(n)'
<1> DEFINE o == slot[m].passingClient
<1>1. TypeOK /\ QueueInv(n) /\ UNCHANGED objects
  BY ThreadFootprint DEF PoolInv
<1>2. CASE n # m
  <2>1. /\ clients_list'[n] = clients_list[n] /\ scheduled'[n] = scheduled[n]
        /\ clients_count'[n] = clients_count[n] /\ pc'[n] = pc[n]
    BY <1>2, ThreadFootprint
  <2>2. QED
    BY <1>1, <2>1 DEF QueueInv
<1>3. CASE n = m
  <2>1. QueueInv(m) /\ (pc'[m] # "exited" => pc[m] # "exited")
    BY <1>1, <1>3 DEF ThreadStep, Wait, TimeOut, WaitReturns, Serve, HandleNullClient,
       attest_client_at_startup, HandleClientUp,
       HandleClientDown, HandleDie, BadAccess, WakeSpuriously, TypeOK
  <2>2. CASE UNCHANGED <<clients_list, scheduled, clients_count>>
    BY <1>1, <1>3, <2>1, <2>2 DEF QueueInv
  <2>3. CASE /\ objects[o] \notin clients_list[m]
             /\ clients_list'[m] = clients_list[m] \cup {objects[o]}
             /\ scheduled'[m] = scheduled[m] \cup {o}
             /\ clients_count'[m] = Cardinality(clients_list'[m])
    <3>1. IsFiniteSet(clients_list[m] \cup {objects[o]})
      BY <2>1, FS_AddElement DEF QueueInv
    <3>2. QED
      BY <1>1, <1>3, <2>1, <2>3, <3>1 DEF QueueInv
  <2>4. CASE /\ objects[o] \in clients_list[m]
             /\ clients_list'[m] = clients_list[m] \ {objects[o]}
             /\ scheduled'[m] = RemoveScheduled(m, objects[o])
             /\ clients_count'[m] = Cardinality(clients_list'[m])
    <3>1. IsFiniteSet(clients_list[m] \ {objects[o]})
      BY <2>1, FS_RemoveElement DEF QueueInv
    <3>2. ASSUME pc[m] # "exited"
          PROVE  \E p \in scheduled[m] :
                    objects[p] = objects[o] /\ scheduled'[m] = scheduled[m] \ {p}
      <4>1. PICK p \in scheduled[m] : objects[p] = objects[o]
        BY <2>1, <2>4, <3>2 DEF QueueInv
      <4>2. {q \in scheduled[m] : objects[q] = objects[o]} = {p}
        BY <2>1, <3>2, <4>1 DEF QueueInv
      <4>3. QED
        BY <2>4, <4>1, <4>2 DEF RemoveScheduled
    <3>3. ASSUME pc[m] # "exited"
          PROVE  /\ clients_list'[m] = {objects[q] : q \in scheduled'[m]}
                 /\ \A q, p \in scheduled'[m] : objects[q] = objects[p] => q = p
      BY <2>1, <2>4, <3>2, <3>3 DEF QueueInv
    <3>4. QED
      BY <1>1, <1>3, <2>1, <2>4, <3>1, <3>3 DEF QueueInv
  <2>5. CASE HandleDie(m)
    <3>1. pc'[m] = "exited" /\ clients_list'[m] = {}
      BY <1>1, <2>5 DEF HandleDie, TypeOK
    <3>2. QED
      BY <1>3, <3>1, FS_EmptySet DEF QueueInv
  <2>6. QED
    BY <2>2, <2>3, <2>4, <2>5, HandlerEffect
<1>4. QED
  BY <1>2, <1>3

(* The invariant is inductive. *)
LEMMA PoolInvStep == PoolInv /\ [Next]_vars => PoolInv'
<1> SUFFICES ASSUME PoolInv, [Next]_vars PROVE PoolInv'
    OBVIOUS
<1>1. CASE ListenerStep
  BY <1>1, ListenerTypeOK, ListenerObjects, ListenerQueues DEF PoolInv
<1>2. ASSUME NEW m \in Managers, ThreadStep(m) \/ WakeSpuriously(m) PROVE PoolInv'
  BY <1>2, ThreadTypeOK, ThreadObjects, ThreadQueues DEF PoolInv
<1>3. CASE sighandler \/ UNCHANGED vars
  <2>1. /\ UNCHANGED <<pc, slot, clients_list, scheduled, clients_count, objects, freed,
                       listener, connected, fault, pending, missed>>
        /\ force_exit' \in BOOLEAN
    BY <1>3 DEF sighandler, PoolInv, TypeOK
  <2>2. TypeOK'
    BY <2>1 DEF PoolInv, TypeOK
  <2>3. ObjectsInv'
    BY <2>1 DEF PoolInv, ObjectsInv, OfOpen, OfClose
  <2>4. \A m \in Managers : QueueInv(m)'
    BY <2>1 DEF PoolInv, QueueInv
  <2>5. QED
    BY <2>2, <2>3, <2>4 DEF PoolInv
<1>4. QED
  BY <1>1, <1>2, <1>3 DEF Next

(* It holds initially. *)
LEMMA InitPool == Init => PoolInv
<1> SUFFICES ASSUME Init PROVE PoolInv
    OBVIOUS
<1>1. DOMAIN objects = {} /\ objects \in [1 .. 0 -> Attestator]
  BY DEF Init
<1>2. TypeOK
  <2>1. \E n \in 0 .. MaxObject : objects \in [1 .. n -> Attestator]
    BY <1>1
  <2>2. QED
    BY <1>1, <2>1 DEF Init, TypeOK, ListenerState
<1>3. ObjectsInv
  BY DEF Init, ObjectsInv, OfOpen, OfClose
<1>4. \A m \in Managers : QueueInv(m)
  BY FS_EmptySet DEF Init, QueueInv
<1>5. QED
  BY <1>2, <1>3, <1>4 DEF PoolInv

(* The invariant holds in every state, so each variable keeps its type.    *)
THEOREM PoolInvHolds == Spec => []PoolInv
  BY InitPool, PoolInvStep, PTL DEF Spec

(* Type correctness: in particular the thread an OPEN is passed to exists, *)
(* the loops over the threads stay within the array, and only existing     *)
(* objects are destroyed.                                                  *)
THEOREM ManagerTypeCorrect == Spec => []TypeOK
<1>1. PoolInv => TypeOK
  BY DEF PoolInv
<1>2. QED
  BY <1>1, PoolInvHolds, PTL

(* Each client in a thread's list is scheduled exactly once, nothing else  *)
(* is, the count is right, and no object in a queue was destroyed: for any *)
(* number of threads, whatever signals are lost, slots overwritten or      *)
(* waits ended for no reason.                                              *)
THEOREM ServedIsScheduledHolds == Spec => []ServedIsScheduled
<1>1. PoolInv => ServedIsScheduled
  <2> SUFFICES ASSUME PoolInv, NEW m \in Managers
               PROVE  /\ \A o \in scheduled[m] : o \notin freed
                      /\ pc[m] # "exited" =>
                            /\ clients_list[m] = {objects[o] : o \in scheduled[m]}
                            /\ Cardinality(scheduled[m]) = Cardinality(clients_list[m])
                            /\ clients_count[m] = Cardinality(clients_list[m])
    BY DEF ServedIsScheduled, sq_print_info, RA_CLI_print_info
  <2>1. TypeOK /\ ObjectsInv /\ QueueInv(m)
    BY DEF PoolInv
  <2>2. scheduled[m] \in SUBSET Object
    BY <2>1 DEF TypeOK
  <2>3. \A o \in scheduled[m] : o \notin freed /\ o \in DOMAIN objects
    BY <2>1, <2>2 DEF ObjectsInv, OfOpen, OfClose
  <2>4. ASSUME pc[m] # "exited"
        PROVE  Cardinality(scheduled[m]) = Cardinality(clients_list[m])
    <3> DEFINE f == [o \in scheduled[m] |-> objects[o]]
    <3>1. IsFiniteSet(scheduled[m])
      BY <2>1, <2>3, Created, FS_Subset
    <3>2. f \in Bijection(scheduled[m], clients_list[m])
      BY <2>1, <2>4 DEF QueueInv, Bijection, Injection, Surjection, IsInjective
    <3> HIDE DEF f
    <3>3. ExistsBijection(scheduled[m], clients_list[m])
      BY <3>2 DEF ExistsBijection
    <3>4. QED
      BY <3>1, <3>3, FS_Bijection
  <2>5. QED
    BY <2>1, <2>3, <2>4 DEF QueueInv
<1>2. QED
  BY <1>1, PoolInvHolds, PTL

-----------------------------------------------------------------------------
(* Who is served *)

(* A thread that handles an event comes to serve whom it was to serve; a   *)
(* wait that ends for no reason changes nothing.                           *)
LEMMA ThreadToServe ==
    ASSUME PoolInv, NEW m \in Managers, ThreadStep(m) \/ WakeSpuriously(m),
           SlotInv(m), slot[m].action # "die", pc[m] # "exited"
    PROVE  ToServe(m)' = ToServe(m) /\ SlotInv(m)' /\ pc'[m] # "exited"
<1>1. /\ pc \in [Managers -> {"lock", "wait", "signalled", "timedout",
                              "event", "attesting", "timeout", "exited"}]
      /\ slot \in [Managers -> [action : actual_manager_action_t \cup {"uninitialized"},
                                passingClient : Object \cup {NULL}]]
      /\ DOMAIN clients_list = Managers
      /\ pending \in [Managers -> BOOLEAN]
  BY DEF PoolInv, TypeOK
<1>2. CASE Wait(m) \/ TimeOut(m) \/ WakeSpuriously(m) \/ WaitReturns(m) \/ Serve(m)
           \/ attest_client_at_startup(m) \/ BadAccess(m)
  <2>1. /\ UNCHANGED <<slot, clients_list, pending, objects>>
        /\ pc'[m] # "exited"
    BY <1>1, <1>2 DEF Wait, TimeOut, WakeSpuriously, WaitReturns, Serve,
       attest_client_at_startup, BadAccess
  <2>2. QED
    BY <2>1 DEF ToServe, SlotInv
<1>3. CASE HandleClientUp(m)
  <2>1. /\ slot[m].action = "client_up"
        /\ pending' = [pending EXCEPT ![m] = FALSE]
        /\ pc'[m] = "lock"
        /\ UNCHANGED objects
    BY <1>1, <1>3 DEF HandleClientUp
  <2>2. ~pending'[m]
    BY <1>1, <2>1
  <2>3. CASE /\ UNCHANGED <<slot, clients_list>>
             /\ \/ slot[m].passingClient = NULL
                \/ objects[slot[m].passingClient] \in clients_list[m]
    BY <2>1, <2>2, <2>3 DEF ToServe, SlotInv
  <2>4. CASE /\ slot[m].passingClient # NULL
             /\ objects[slot[m].passingClient] \notin clients_list[m]
             /\ slot'[m].passingClient = NULL
             /\ clients_list'[m] = clients_list[m] \cup {objects[slot[m].passingClient]}
    BY <2>1, <2>2, <2>4 DEF ToServe, SlotInv
  <2>5. QED
    BY <1>1, <1>3, <2>3, <2>4 DEF HandleClientUp
<1>4. CASE HandleClientDown(m)
  <2>1. /\ slot[m].action = "client_down"
        /\ slot'[m].passingClient = NULL
        /\ pending' = [pending EXCEPT ![m] = FALSE]
        /\ pc'[m] = "lock"
    BY <1>1, <1>4 DEF HandleClientDown
  <2>2. ~pending'[m]
    BY <1>1, <2>1
  <2>3. /\ clients_list'[m] = clients_list[m] \ {objects[slot[m].passingClient]}
        /\ slot[m].passingClient = NULL => clients_list[m] = {}
    BY <1>1, <1>4 DEF HandleClientDown
  <2>4. QED
    BY <2>1, <2>2, <2>3 DEF ToServe, SlotInv
<1>5. ~HandleDie(m)
  BY DEF HandleDie
<1>6. CASE HandleNullClient(m)
  <2>1. /\ UNCHANGED <<slot, clients_list, objects>>
        /\ pending' = [pending EXCEPT ![m] = FALSE]
        /\ pc'[m] = "lock"
        /\ slot[m].action = "client_up" /\ slot[m].passingClient = NULL
    BY <1>1, <1>6 DEF HandleNullClient
  <2>2. ~pending[m] /\ ~pending'[m]
    BY <1>1, <2>1 DEF SlotInv
  <2>3. QED
    BY <2>1, <2>2 DEF ToServe, SlotInv
<1>7. QED
  BY <1>2, <1>3, <1>4, <1>5, <1>6 DEF ThreadStep

(* A new object changes neither what the slots mean nor who is to be       *)
(* served.                                                                 *)
LEMMA CreatedToServe ==
    ASSUME PoolInv, NEW att \in Attestator, CreateClient(att), NEW m \in Managers,
           SlotInv(m), slot[m].action # "die",
           UNCHANGED <<slot, pending, clients_list>>
    PROVE  ToServe(m)' = ToServe(m) /\ SlotInv(m)'
<1>1. slot[m] \in [action : actual_manager_action_t \cup {"uninitialized"},
                   passingClient : Object \cup {NULL}]
  BY DEF PoolInv, TypeOK
<1>2. slot[m].passingClient # NULL /\ slot[m].action \in {"client_up", "client_down"}
      => objects'[slot[m].passingClient] = objects[slot[m].passingClient]
  <2>1. \A o \in DOMAIN objects : objects'[o] = objects[o]
    BY FreshClient DEF PoolInv
  <2>2. QED
    BY <1>1, <2>1, SlotObject
<1>3. QED
  BY <1>1, <1>2 DEF ToServe, SlotInv, actual_manager_action_t

(* A client is passed on: the thread is to serve it, or no longer.         *)
LEMMA PostedToServe ==
    ASSUME PoolInv, NEW i \in Managers, NEW o \in Object,
           NEW action \in {"client_up", "client_down"},
           Post(i, [action |-> action, passingClient |-> o]),
           UNCHANGED <<objects, clients_list>>,
           \A m \in Managers : SlotInv(m) /\ slot[m].action # "die" /\ pc[m] # "exited"
    PROVE  /\ \A m \in Managers :
                 SlotInv(m)' /\ slot'[m].action # "die" /\ pc'[m] # "exited"
           /\ \A m \in Managers : m # i => ToServe(m)' = ToServe(m)
           /\ ~missed' => /\ ~missed
                          /\ ToServe(i)' = IF action = "client_up"
                                           THEN ToServe(i) \cup {objects[o]}
                                           ELSE ToServe(i) \ {objects[o]}
<1>1. /\ TypeOK /\ action \in actual_manager_action_t
      /\ o \in Object \cup {NULL} /\ o # NULL
  BY DEF PoolInv, actual_manager_action_t
<1>2. /\ slot'[i].action = action /\ slot'[i].passingClient = o
      /\ \A n \in Managers : n # i => slot'[n] = slot[n]
  BY <1>1, PostSlot
<1>3. /\ pc'[i] = IF pc[i] = "wait" THEN "signalled" ELSE pc[i]
      /\ \A n \in Managers : n # i => pc'[n] = pc[n]
  BY <1>1, PostThread
<1>4. /\ pending'[i]
      /\ \A n \in Managers : n # i => (pending'[n] <=> pending[n])
      /\ ~missed' => ~missed /\ ~pending[i]
  BY <1>1, PostHistory
<1>5. SlotInv(i)' /\ slot'[i].action # "die" /\ pc'[i] # "exited"
  BY <1>1, <1>2, <1>3, <1>4 DEF SlotInv
<1>6. ASSUME NEW m \in Managers, m # i
      PROVE  /\ SlotInv(m)' /\ slot'[m].action # "die" /\ pc'[m] # "exited"
             /\ ToServe(m)' = ToServe(m)
  BY <1>2, <1>3, <1>4, <1>6 DEF SlotInv, ToServe
<1>7. ASSUME ~missed'
      PROVE  /\ ~missed
             /\ ToServe(i)' = IF action = "client_up"
                              THEN ToServe(i) \cup {objects[o]}
                              ELSE ToServe(i) \ {objects[o]}
  BY <1>2, <1>4, <1>7 DEF ToServe
<1>8. QED
  BY <1>5, <1>6, <1>7

(* The invariant is inductive. *)
LEMMA ServiceStep == PoolInv /\ ServiceInv /\ [Next]_vars => ServiceInv'
<1> SUFFICES ASSUME PoolInv, ServiceInv, [Next]_vars PROVE ServiceInv'
    OBVIOUS
<1> DEFINE all == UNION {ToServe(m) : m \in Managers}
           sane == \A m \in Managers :
                      SlotInv(m) /\ slot[m].action # "die" /\ pc[m] # "exited"
<1>1. ASSUME UNCHANGED <<listener, connected, objects, missed>>,
             sane => sane' /\ \A m \in Managers : ToServe(m)' = ToServe(m)
      PROVE  ServiceInv'
  <2>1. CASE listener.pc \in {"service", "pass_up", "broadcast"}
    <3>1. sane
      BY <2>1 DEF ServiceInv
    <3>2. sane' /\ \A m \in Managers : ToServe(m)' = ToServe(m)
      BY <1>1, <3>1
    <3>3. all' = all
      BY <3>2
    <3>4. ToldDown' <=> ToldDown
      BY <1>1, <3>2 DEF ToldDown
    <3>5. QED
      BY <1>1, <2>1, <3>2, <3>3, <3>4 DEF ServiceInv
  <2>2. CASE listener.pc \notin {"service", "pass_up", "broadcast"}
    BY <1>1, <2>2 DEF ServiceInv
  <2>3. QED
    BY <2>1, <2>2
<1>2. CASE sighandler \/ UNCHANGED vars
  <2>1. UNCHANGED <<listener, connected, objects, missed, slot, pending, clients_list, pc>>
    BY <1>2 DEF sighandler
  <2>2. QED
    BY <1>1, <2>1 DEF SlotInv, ToServe
<1>3. ASSUME NEW m \in Managers, ThreadStep(m) \/ WakeSpuriously(m) PROVE ServiceInv'
  <2>1. UNCHANGED <<listener, connected, objects, missed>>
    BY <1>3, ThreadFootprint
  <2>2. ASSUME NEW n \in Managers \ {m}
        PROVE  /\ ToServe(n)' = ToServe(n)
               /\ SlotInv(n)' <=> SlotInv(n)
               /\ slot'[n] = slot[n] /\ pc'[n] = pc[n]
    <3>1. /\ slot'[n] = slot[n] /\ clients_list'[n] = clients_list[n]
          /\ pending'[n] = pending[n] /\ pc'[n] = pc[n]
      BY <1>3, ThreadFootprint
    <3>2. QED
      BY <2>1, <3>1 DEF ToServe, SlotInv
  <2>3. ASSUME sane
        PROVE  ToServe(m)' = ToServe(m) /\ SlotInv(m)' /\ pc'[m] # "exited"
               /\ slot'[m].action # "die"
    <3>1. slot'[m].action = slot[m].action
      BY <1>3, ThreadFootprint
    <3>2. QED
      BY <1>3, <2>3, <3>1, ThreadToServe
  <2>4. QED
    BY <1>1, <2>1, <2>2, <2>3
<1>4. CASE \E att \in Attestator : OnOpen(att) \/ OnClose(att) \/ OnMessage(att)
  <2>1. PICK att \in Attestator : OnOpen(att) \/ OnClose(att) \/ OnMessage(att)
    BY <1>4
  <2>2. /\ CreateClient(att)
        /\ listener.pc = "service"
        /\ UNCHANGED <<slot, pending, clients_list, pc, missed>>
    BY <2>1 DEF OnOpen, OnClose, OnMessage
  <2>3. sane
    BY <2>2 DEF ServiceInv
  <2>4. sane' /\ \A m \in Managers : ToServe(m)' = ToServe(m)
    BY <2>2, <2>3, CreatedToServe
  <2>5. all' = all
    BY <2>4
  <2>6. ~missed => connected = all
    BY <2>2 DEF ServiceInv
  <2>7. objects'[NewClient] = att
    BY <2>2, FreshClient DEF PoolInv
  <2> HIDE DEF all, sane
  <2>8. sane' => \A m \in Managers : SlotInv(m)' /\ slot'[m].action # "die" /\ pc'[m] # "exited"
    BY DEF sane
  <2>9. CASE OnOpen(att)
    <3>1. /\ listener'.pc = "pass_up" /\ listener'.client = NewClient
          /\ connected' = connected \cup {att}
      BY <2>9 DEF OnOpen
    <3>2. ~missed => connected' = {objects'[listener'.client]} \cup all'
      BY <2>5, <2>6, <2>7, <3>1
    <3>3. QED
      BY <2>2, <2>4, <2>8, <3>1, <3>2 DEF ServiceInv, all
  <2>10. CASE OnClose(att)
    <3>1. /\ listener'.pc = "broadcast" /\ listener'.client = NewClient /\ listener'.i = 0
          /\ connected' = connected \ {att}
      BY <2>10 DEF OnClose
    <3>2. ~missed => connected' = all' \ {objects'[listener'.client]}
      BY <2>5, <2>6, <2>7, <3>1
    <3>3. ToldDown'
      BY <3>1 DEF ToldDown
    <3>4. listener'.pc # "service" /\ listener'.pc # "pass_up"
      BY <3>1
    <3>5. QED
      BY <2>2, <2>4, <2>8, <3>2, <3>3, <3>4 DEF ServiceInv, all
  <2>11. CASE OnMessage(att)
    <3>1. UNCHANGED <<listener, connected>>
      BY <2>11 DEF OnMessage
    <3>2. QED
      BY <2>2, <2>4, <2>5, <2>6, <2>8, <3>1 DEF ServiceInv, all
  <2>12. QED
    BY <2>1, <2>9, <2>10, <2>11
<1>5. CASE PassClientUp
  <2>1. listener \in [pc : {"pass_up", "broadcast"}, client : Object, i : Managers]
    BY <1>5 DEF PassClientUp, PoolInv, TypeOK, ListenerState
  <2>2. PICK i \in Managers, o \in Object : i = listener.i /\ o = listener.client
    BY <2>1
  <2>3. /\ listener.pc = "pass_up" /\ listener'.pc = "service"
        /\ Post(i, [action |-> "client_up", passingClient |-> o])
        /\ UNCHANGED <<objects, clients_list, connected>>
    BY <1>5, <2>2 DEF PassClientUp
  <2>4. sane
    BY <2>3 DEF ServiceInv
  <2>5. /\ sane'
        /\ \A m \in Managers : m # i => ToServe(m)' = ToServe(m)
        /\ ~missed' => ~missed /\ ToServe(i)' = ToServe(i) \cup {objects[o]}
    BY <2>3, <2>4, PostedToServe
  <2>6. ASSUME ~missed' PROVE connected' = all'
    <3>1. connected = {objects[o]} \cup all
      BY <2>2, <2>3, <2>5, <2>6 DEF ServiceInv
    <3>2. all' = all \cup {objects[o]}
      BY <2>5, <2>6
    <3>3. QED
      BY <2>3, <3>1, <3>2
  <2>7. QED
    BY <2>3, <2>5, <2>6 DEF ServiceInv
<1>6. CASE BroadcastDown
  <2>1. listener \in [pc : {"pass_up", "broadcast"}, client : Object, i : Managers]
    BY <1>6 DEF BroadcastDown, PoolInv, TypeOK, ListenerState
  <2>2. PICK i \in Managers, o \in Object : i = listener.i /\ o = listener.client
    BY <2>1
  <2>3. /\ listener.pc = "broadcast"
        /\ Post(i, [action |-> "client_down", passingClient |-> o])
        /\ UNCHANGED <<objects, clients_list, connected>>
        /\ listener' = NextOr([pc |-> "service"])
    BY <1>6, <2>2 DEF BroadcastDown
  <2>4. sane
    BY <2>3 DEF ServiceInv
  <2>5. /\ sane'
        /\ \A m \in Managers : m # i => ToServe(m)' = ToServe(m)
        /\ ~missed' => ~missed /\ ToServe(i)' = ToServe(i) \ {objects[o]}
    BY <2>3, <2>4, PostedToServe
  <2>6. ASSUME ~missed'
        PROVE  /\ connected' = all' \ {objects[o]}
               /\ \A m \in Managers : m <= i => objects[o] \notin ToServe(m)'
    <3>1. /\ connected = all \ {objects[o]}
          /\ \A m \in Managers : m < i => objects[o] \notin ToServe(m)
      <4>1. connected = all \ {objects[listener.client]} /\ ToldDown
        BY <2>3, <2>5, <2>6 DEF ServiceInv
      <4>2. QED
        BY <2>2, <4>1 DEF ToldDown
    <3>2. all' \ {objects[o]} = all \ {objects[o]}
      BY <2>5, <2>6
    <3>3. QED
      BY <2>3, <2>5, <2>6, <3>1, <3>2
  <2>7. \/ listener' = [pc |-> "service"] /\ i = total_actual_managers - 1
        \/ listener' = [pc |-> "broadcast", client |-> o, i |-> i + 1]
    BY <2>2, <2>3, NextThread DEF PoolInv, TypeOK
  <2>8. CASE listener' = [pc |-> "service"] /\ i = total_actual_managers - 1
    <3>1. ASSUME ~missed' PROVE objects[o] \notin all'
      BY <2>6, <2>8, <3>1
    <3>2. ~missed' => connected' = all'
      BY <2>6, <3>1
    <3>3. QED
      BY <2>5, <2>8, <3>2 DEF ServiceInv
  <2>9. CASE listener' = [pc |-> "broadcast", client |-> o, i |-> i + 1]
    <3>1. \A m \in Managers : m < i + 1 => m <= i
      OBVIOUS
    <3>2. /\ listener'.pc = "broadcast" /\ listener'.client = o /\ listener'.i = i + 1
          /\ objects' = objects
      BY <2>3, <2>9
    <3>3. ASSUME ~missed'
          PROVE  connected' = all' \ {objects'[listener'.client]} /\ ToldDown'
      <4>1. /\ connected' = all' \ {objects[o]}
            /\ \A m \in Managers : m < i + 1 => objects[o] \notin ToServe(m)'
        BY <2>6, <3>1, <3>3
      <4>2. QED
        BY <3>2, <4>1 DEF ToldDown
    <3>4. listener'.pc # "service" /\ listener'.pc # "pass_up"
      BY <3>2
    <3>5. QED
      BY <2>5, <3>3, <3>4 DEF ServiceInv
  <2>10. QED
    BY <2>7, <2>8, <2>9
<1>7. CASE LeaveServiceLoop \/ PostDie \/ Join
  <2>1. listener'.pc \notin {"service", "pass_up", "broadcast"}
    BY <1>7 DEF LeaveServiceLoop, PostDie, Join, PoolInv, TypeOK, ListenerState
  <2>2. QED
    BY <2>1 DEF ServiceInv
<1>8. QED
  BY <1>2, <1>3, <1>4, <1>5, <1>6, <1>7 DEF Next, ListenerStep

(* With any number of threads: as long as no signal was lost and no slot   *)
(* overwritten, whenever all events are handled the threads serve exactly  *)
(* the connected attestators, in spite of spurious wake-ups, of clients    *)
(* that connect twice, and of the load being read without a lock.          *)
THEOREM ServedIsConnectedHolds == Spec => []ServedIsConnected
<1>1. Init => ServiceInv
  BY DEF Init, ServiceInv, SlotInv, ToServe
<1>2. ServiceInv => ServedIsConnected
  BY DEF ServiceInv, ServedIsConnected, ToServe
<1>3. QED
  BY <1>1, <1>2, PoolInvHolds, ServiceStep, PTL DEF Spec

-----------------------------------------------------------------------------
(* Access to client objects *)

(* The main thread, with one thread to tell. *)
LEMMA ListenerAccess ==
    ASSUME total_actual_managers = 1, PoolInv, AccessInv, ListenerStep
    PROVE  AccessInv'
<1>1. TypeOK /\ ObjectsInv /\ Managers = {0}
  BY DEF PoolInv
<1>2. fault' = "none"
  BY DEF AccessInv, ListenerStep, OnOpen, OnClose, OnMessage, PassClientUp, BroadcastDown,
     LeaveServiceLoop, PostDie, Join
<1>3. CASE \E att \in Attestator : OnOpen(att) \/ OnClose(att) \/ OnMessage(att)
  <2>1. PICK att \in Attestator : OnOpen(att) \/ OnClose(att) \/ OnMessage(att)
    BY <1>3
  <2>2. /\ CreateClient(att)
        /\ UNCHANGED <<slot, pending, pc, freed>>
        /\ listener'.pc = "broadcast" => listener'.client = NewClient
    BY <2>1 DEF OnOpen, OnClose, OnMessage
  <2>3. /\ NewClient \in Object /\ NewClient \notin DOMAIN objects
        /\ DOMAIN objects' = DOMAIN objects \cup {NewClient}
    BY <1>1, <2>2, FreshClient
  <2>4. NewClient \notin freed /\ NewClient # NULL
    BY <1>1, <2>3 DEF TypeOK
  <2>5. QED
    BY <1>2, <2>2, <2>3, <2>4 DEF AccessInv
<1>4. CASE PassClientUp \/ BroadcastDown
  <2>1. listener \in [pc : {"pass_up", "broadcast"}, client : Object, i : Managers]
    BY <1>1, <1>4 DEF PassClientUp, BroadcastDown, TypeOK, ListenerState
  <2>2. PICK o \in Object, action \in {"client_up", "client_down"} :
            /\ o = listener.client
            /\ listener.i = 0
            /\ Post(0, [action |-> action, passingClient |-> o])
            /\ action = "client_down" => listener.pc = "broadcast"
    BY <1>1, <1>4, <2>1 DEF PassClientUp, BroadcastDown
  <2>3. UNCHANGED <<objects, freed>> /\ listener'.pc = "service"
    BY <1>1, <1>4, <2>1, <2>2, NextThread DEF PassClientUp, BroadcastDown, TypeOK
  <2>4. /\ 0 \in Managers /\ action \in actual_manager_action_t
        /\ o \in Object \cup {NULL} /\ o # NULL
    BY <1>1 DEF actual_manager_action_t
  <2>5. slot'[0].action = action /\ slot'[0].passingClient = o
    BY <1>1, <2>2, <2>4, PostSlot
  <2>6. pending'[0]
    BY <1>1, <2>2, <2>4, PostHistory
  <2>7. o \in DOMAIN objects
    BY <1>1, <2>1, <2>2 DEF ObjectsInv, OfOpen, OfClose
  <2>8. action = "client_down" => o \notin freed
    BY <2>2 DEF AccessInv
  <2>9. QED
    BY <1>1, <1>2, <2>2, <2>3, <2>4, <2>5, <2>6, <2>7, <2>8 DEF AccessInv
<1>5. CASE PostDie
  <2>1. listener \in [pc : {"die", "join"}, i : Managers]
    BY <1>1, <1>5 DEF PostDie, TypeOK, ListenerState
  <2>2. listener.i = 0 /\ listener'.pc = "join"
    BY <1>1, <1>5, <2>1 DEF PostDie
  <2>3. slot[0] \in [action : actual_manager_action_t \cup {"uninitialized"},
                     passingClient : Object \cup {NULL}]
    BY <1>1 DEF TypeOK
  <2>4. [slot[0] EXCEPT !.action = "die"] =
          [action |-> "die", passingClient |-> slot[0].passingClient]
    BY <2>3
  <2>5. PICK o \in Object \cup {NULL} :
            o = slot[0].passingClient /\ Post(0, [action |-> "die", passingClient |-> o])
    BY <1>5, <2>2, <2>3, <2>4 DEF PostDie
  <2>6. 0 \in Managers /\ "die" \in actual_manager_action_t
    BY <1>1 DEF actual_manager_action_t
  <2>7. slot'[0].action = "die" /\ slot'[0].passingClient = o
    BY <1>1, <2>5, <2>6, PostSlot
  <2>8. pending'[0]
    BY <1>1, <2>5, <2>6, PostHistory
  <2>9. UNCHANGED <<objects, freed>>
    BY <1>5 DEF PostDie
  <2>10. QED
    BY <1>1, <1>2, <2>2, <2>5, <2>7, <2>8, <2>9 DEF AccessInv
<1>6. CASE LeaveServiceLoop \/ Join
  <2>1. /\ UNCHANGED <<slot, pending, pc, freed, objects>>
        /\ listener'.pc # "broadcast"
    BY <1>6 DEF LeaveServiceLoop, Join
  <2>2. QED
    BY <1>2, <2>1 DEF AccessInv
<1>7. QED
  BY <1>3, <1>4, <1>5, <1>6 DEF ListenerStep

(* The thread: it reads the object of a pending event, and forgets the one *)
(* it destroys.                                                            *)
LEMMA ThreadAccess ==
    ASSUME total_actual_managers = 1, ~SpuriousWakeups, PoolInv, AccessInv,
           NEW m \in Managers, ThreadStep(m) \/ WakeSpuriously(m)
    PROVE  AccessInv'
<1>1. TypeOK /\ ObjectsInv /\ Managers = {m}
  BY DEF PoolInv
<1>2. /\ pc \in [Managers -> {"lock", "wait", "signalled", "timedout",
                              "event", "attesting", "timeout", "exited"}]
      /\ slot \in [Managers -> [action : actual_manager_action_t \cup {"uninitialized"},
                                passingClient : Object \cup {NULL}]]
      /\ pending \in [Managers -> BOOLEAN]
  BY <1>1 DEF TypeOK
<1>3. ~WakeSpuriously(m)
  BY DEF WakeSpuriously
<1>4. ~BadAccess(m)
  <2>1. SUFFICES ASSUME BadAccess(m) PROVE FALSE
    OBVIOUS
  <2>2. /\ slot[m].action # "uninitialized"
        /\ slot[m].action # "die" => slot[m].passingClient # NULL
        /\ slot[m].action = "client_down" => slot[m].passingClient \notin freed
    BY <2>1 DEF BadAccess, AccessInv
  <2>3. slot[m].action = "client_up" /\ slot[m].passingClient # NULL
        => slot[m].passingClient \notin freed
    BY <1>1, <1>2 DEF ObjectsInv, OfOpen, OfClose
  <2>4. QED
    BY <2>1, <2>2, <2>3 DEF BadAccess
<1>5. CASE Wait(m) \/ TimeOut(m) \/ WaitReturns(m) \/ Serve(m)
           \/ attest_client_at_startup(m)
  <2>1. /\ UNCHANGED <<slot, pending, freed, objects, listener, fault>>
        /\ pc'[m] \in {"signalled", "event", "attesting"}
           => pc[m] \in {"signalled", "event", "attesting"}
    BY <1>2, <1>5 DEF Wait, TimeOut, WaitReturns, Serve, attest_client_at_startup
  <2>2. QED
    BY <1>1, <2>1 DEF AccessInv
<1>6. CASE HandleNullClient(m) \/ HandleClientUp(m) \/ HandleClientDown(m) \/ HandleDie(m)
  <2>1. /\ pc'[m] \in {"lock", "exited"}
        /\ pending' = [pending EXCEPT ![m] = FALSE]
        /\ slot'[m].action = slot[m].action
        /\ UNCHANGED <<objects, listener, fault>>
    BY <1>2, <1>6 DEF HandleNullClient, HandleClientUp, HandleClientDown,
       HandleDie
  <2>2. ~pending'[m]
    BY <1>2, <2>1
  <2>3. slot'[m].passingClient \in {slot[m].passingClient, NULL}
    BY <1>2, <1>6 DEF HandleNullClient, HandleClientUp, HandleClientDown,
       HandleDie
  <2>4. /\ NULL \notin freed'
        /\ HandleClientDown(m) => slot'[m].passingClient = NULL
        /\ ~HandleClientDown(m) => UNCHANGED freed
        /\ HandleClientDown(m) => freed' \subseteq freed \cup {slot[m].passingClient}
    <3>1. NULL \notin freed
      BY <1>1, Created DEF TypeOK
    <3>2. QED
      BY <1>2, <1>6, <3>1 DEF HandleNullClient, HandleClientUp, HandleClientDown,
       HandleDie, RA_CLI_destroy
  <2>5. listener.pc = "broadcast" =>
           /\ listener.client \notin freed'
           /\ listener.client # NULL
           /\ slot[m].passingClient # listener.client
    BY <1>1, <2>4 DEF AccessInv, TypeOK, ListenerState
  <2>6. slot'[m].action = "client_down" => slot'[m].passingClient \notin freed'
    BY <2>1, <2>3, <2>4 DEF AccessInv
  <2>7. QED
    BY <1>1, <2>1, <2>2, <2>3, <2>5, <2>6 DEF AccessInv
<1>7. QED
  BY <1>3, <1>4, <1>5, <1>6 DEF ThreadStep

(* With one thread, and without spurious wake-ups, no event makes the      *)
(* thread read a destroyed, missing or uninitialized client, however       *)
(* events are lost or overwritten and however many objects are created.    *)
THEOREM NoBadAccessHolds ==
    ASSUME total_actual_managers = 1, ~SpuriousWakeups
    PROVE  Spec => []NoBadAccess
<1>1. Init => AccessInv
  BY DEF Init, AccessInv
<1>2. PoolInv /\ AccessInv /\ [Next]_vars => AccessInv'
  <2> SUFFICES ASSUME PoolInv, AccessInv, [Next]_vars PROVE AccessInv'
    OBVIOUS
  <2>1. CASE sighandler \/ UNCHANGED vars
    BY <2>1 DEF sighandler, AccessInv
  <2>2. QED
    BY <2>1, ListenerAccess, ThreadAccess DEF Next
<1>3. AccessInv => NoBadAccess
  BY DEF AccessInv, NoBadAccess
<1>4. QED
  BY <1>1, <1>2, <1>3, PoolInvHolds, PTL DEF Spec
=============================================================================
