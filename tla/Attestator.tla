----------------------------- MODULE Attestator -----------------------------
(***************************************************************************)
(* The attestator that is linked into an application                       *)
(* (client-parametric-files/uncond/attestator.c): the constructor          *)
(* attestator_init starts a thread that connects to the server and polls   *)
(* the WebSocket, and waits until that thread has finished its             *)
(* initialization; the exit handler attestator_deinit makes the thread end *)
(* and destroys the attestation data.  Requests are answered by            *)
(* attestator_routine, a callback that the polling thread runs from        *)
(* libwebsocket_service.                                                   *)
(*                                                                         *)
(* The contents of requests, attestation data and responses are left out.  *)
(* websocket_mutex is only ever taken by the polling thread, and           *)
(* init_finished_mutex only around single steps; deinit_mutex is modelled. *)
(***************************************************************************)
EXTENDS Integers

CONSTANT MAX_CONNECTION_RETRY

ASSUME RetryAssumption == MAX_CONNECTION_RETRY \in Nat

VARIABLES
    main,          \* where the application's main thread is
    polling,       \* where ws_polling_thread is, "none" before it exists
    c,             \* failed connection attempts
    context,       \* is there a WebSocket connection?
    init_finished_status,
    force_exit,
    deinit_mutex,  \* "free" or "held", by attestator_routine
    table,         \* remote_attestation_data_table: "none", "parsed", "destroyed"
    stale_read     \* was the table read when it was destroyed (history)

vars == <<main, polling, c, context, init_finished_status, force_exit,
          deinit_mutex, table, stale_read>>

TypeOK ==
    /\ main \in {"init", "refused", "check", "lock", "waiting", "started",
                 "deinit", "join", "exited", "aborted"}
    /\ polling \in {"none", "connect", "retry", "give_up", "service", "callback",
                    "attesting", "polled", "exited"}
    /\ c \in 0 .. MAX_CONNECTION_RETRY
    /\ context \in BOOLEAN
    /\ init_finished_status \in {-1, 0, 1}
    /\ force_exit \in BOOLEAN
    /\ deinit_mutex \in {"free", "held"}
    /\ table \in {"none", "parsed", "destroyed"}
    /\ stale_read \in BOOLEAN

Init ==
    /\ main = "init"
    /\ polling = "none"
    /\ c = 0
    /\ context = FALSE
    /\ init_finished_status = 0
    /\ force_exit = FALSE
    /\ deinit_mutex = "free"
    /\ table = "none"
    /\ stale_read = FALSE

-----------------------------------------------------------------------------
(* attestator_init *)

(* The data cannot be parsed, have no attestator number, or the exit       *)
(* handler cannot be registered: the application runs without attestator.  *)
Refuse ==
    /\ main = "init"
    /\ main' = "refused"
    /\ table' \in {"none", "destroyed", "parsed"}
    /\ UNCHANGED <<polling, c, context, init_finished_status, force_exit,
                   deinit_mutex, stale_read>>

CreateThread ==
    /\ main = "init"
    /\ main' = "check"
    /\ polling' = "connect"
    /\ table' = "parsed"
    /\ UNCHANGED <<c, context, init_finished_status, force_exit, deinit_mutex, stale_read>>

(* pthread_create fails; the exit handler stays registered. *)
CreateThreadFails ==
    /\ main = "init"
    /\ main' = "started"
    /\ table' = "destroyed"
    /\ UNCHANGED <<polling, c, context, init_finished_status, force_exit,
                   deinit_mutex, stale_read>>

(* The status is read without the mutex ...                                *)
CheckInitFinished ==
    /\ main = "check"
    /\ main' = IF init_finished_status = 0 THEN "lock" ELSE "started"
    /\ UNCHANGED <<polling, c, context, init_finished_status, force_exit,
                   deinit_mutex, table, stale_read>>

(* ... and not again when the mutex is held. *)
WaitInitFinished ==
    /\ main = "lock"
    /\ main' = "waiting"
    /\ UNCHANGED <<polling, c, context, init_finished_status, force_exit,
                   deinit_mutex, table, stale_read>>

(* pthread_cond_wait may return without a signal. *)
WakeSpuriously ==
    /\ main = "waiting"
    /\ main' = "started"
    /\ UNCHANGED <<polling, c, context, init_finished_status, force_exit,
                   deinit_mutex, table, stale_read>>

-----------------------------------------------------------------------------
(* attestator_deinit *)

(* Seeded fault: the data are destroyed first. *)
Exit_DestroysFirst ==
    /\ main = "started"
    /\ main' = "deinit"
    /\ stale_read' = (table = "destroyed")
    /\ table' = "destroyed"
    /\ UNCHANGED <<polling, c, context, init_finished_status, force_exit, deinit_mutex>>

(* The application exits; the handler reads the attestator number. *)
Exit ==
    /\ main = "started"
    /\ main' = "deinit"
    /\ stale_read' = (table = "destroyed")
    /\ UNCHANGED <<polling, c, context, init_finished_status, force_exit,
                   deinit_mutex, table>>

(* Seeded fault: deinit_mutex is not taken. *)
ForceExit_NoLock ==
    /\ main = "deinit"
    /\ force_exit' = TRUE
    /\ main' = "join"
    /\ UNCHANGED <<polling, c, context, init_finished_status, deinit_mutex, table, stale_read>>

ForceExit ==
    /\ main = "deinit"
    /\ deinit_mutex = "free"
    /\ force_exit' = TRUE
    /\ main' = "join"
    /\ UNCHANGED <<polling, c, context, init_finished_status, deinit_mutex, table, stale_read>>

JoinAndDestroy ==
    /\ main = "join"
    /\ polling = "exited"
    /\ table' = "destroyed"
    /\ main' = "exited"
    /\ UNCHANGED <<polling, c, context, init_finished_status, force_exit,
                   deinit_mutex, stale_read>>

(* There is no thread to join: exit(1) in the exit handler. *)
JoinFails ==
    /\ main = "join"
    /\ polling = "none"
    /\ main' = "aborted"
    /\ UNCHANGED <<polling, c, context, init_finished_status, force_exit,
                   deinit_mutex, table, stale_read>>

-----------------------------------------------------------------------------
(* ws_polling_routine *)

(* Set the status and signal the condition the constructor may wait for. *)
Finish(status) ==
    /\ init_finished_status' = status
    /\ main' = IF main = "waiting" THEN "started" ELSE main

(* The three calls of the WebSocket library, each under websocket_mutex:   *)
(* connecting succeeds or not,                                             *)
atomic_acclWebSocketInit == context' \in BOOLEAN

(* polling returns after 50 ms without a request or runs the callback,     *)
atomic_libwebsocket_service == polling' \in {"polled", "callback"}

(* and the connection is closed.                                           *)
atomic_acclWebSocketShutdown == context' = FALSE

(* Seeded fault: the loop condition is c <= MAX_CONNECTION_RETRY. *)
Connect_OnceMore ==
    /\ polling = "connect"
    /\ atomic_acclWebSocketInit
    /\ polling' = IF context' THEN "service"
                  ELSE IF c > MAX_CONNECTION_RETRY THEN "give_up" ELSE "retry"
    /\ UNCHANGED <<main, c, init_finished_status, force_exit, deinit_mutex, table, stale_read>>

(* One attempt to connect, and the tests that follow it: in the loop       *)
(* condition c < MAX_CONNECTION_RETRY, behind the loop again               *)
(* c = MAX_CONNECTION_RETRY.                                               *)
Connect ==
    /\ polling = "connect"
    /\ atomic_acclWebSocketInit
    /\ polling' = IF c = MAX_CONNECTION_RETRY THEN "give_up"
                  ELSE IF context' THEN "service" ELSE "retry"
    /\ UNCHANGED <<main, c, init_finished_status, force_exit, deinit_mutex, table, stale_read>>

Retry ==
    /\ polling = "retry"
    /\ IF force_exit
       THEN polling' = "give_up" /\ UNCHANGED c
       ELSE polling' = "connect" /\ c' = c + 1
    /\ UNCHANGED <<main, context, init_finished_status, force_exit, deinit_mutex,
                   table, stale_read>>

GiveUp ==
    /\ polling = "give_up"
    /\ Finish(-1)
    /\ polling' = "exited"
    /\ UNCHANGED <<c, context, force_exit, deinit_mutex, table, stale_read>>

(* The body of the polling loop up to the call of the library. *)
Service ==
    /\ polling = "service"
    /\ ~force_exit
    /\ atomic_libwebsocket_service
    /\ UNCHANGED <<main, c, context, init_finished_status, force_exit, deinit_mutex,
                   table, stale_read>>

(* After the first poll the initialization is finished. *)
Polled ==
    /\ polling = "polled"
    /\ IF init_finished_status = 0 THEN Finish(1) ELSE UNCHANGED <<init_finished_status, main>>
    /\ polling' = "service"
    /\ UNCHANGED <<c, context, force_exit, deinit_mutex, table, stale_read>>

Shutdown ==
    /\ polling = "service"
    /\ force_exit
    /\ atomic_acclWebSocketShutdown
    /\ polling' = "exited"
    /\ UNCHANGED <<main, c, init_finished_status, force_exit, deinit_mutex, table, stale_read>>

-----------------------------------------------------------------------------
(* attestator_routine *)

(* Seeded fault: the early return forgets to unlock. *)
BeginAttestation_NoUnlock ==
    /\ polling = "callback"
    /\ deinit_mutex = "free"
    /\ \/ polling' = "polled" /\ deinit_mutex' = "held"
       \/ ~force_exit /\ polling' = "attesting" /\ deinit_mutex' = "held"
    /\ stale_read' = (stale_read \/ (polling' = "attesting" /\ table = "destroyed"))
    /\ UNCHANGED <<main, c, context, init_finished_status, force_exit, table>>

(* The mutex is taken and kept, unless the application is shutting down or *)
(* the request is empty.                                                   *)
BeginAttestation ==
    /\ polling = "callback"
    /\ deinit_mutex = "free"
    /\ \/ polling' = "polled" /\ UNCHANGED deinit_mutex
       \/ ~force_exit /\ polling' = "attesting" /\ deinit_mutex' = "held"
    /\ stale_read' = (stale_read \/ (polling' = "attesting" /\ table = "destroyed"))
    /\ UNCHANGED <<main, c, context, init_finished_status, force_exit, table>>

(* The data have been read all the while.  The response has been sent, or  *)
(* preparing, hashing or sending it failed.                                *)
EndAttestation ==
    /\ polling = "attesting"
    /\ deinit_mutex' = "free"
    /\ polling' = "polled"
    /\ stale_read' = (stale_read \/ table = "destroyed")
    /\ UNCHANGED <<main, c, context, init_finished_status, force_exit, table>>

-----------------------------------------------------------------------------
MainStep ==
    \/ CheckInitFinished \/ WaitInitFinished
    \/ JoinAndDestroy \/ JoinFails

PollingStep ==
    \/ Connect \/ Retry \/ GiveUp \/ Service \/ Polled \/ Shutdown
    \/ BeginAttestation \/ EndAttestation

Next ==
    \/ Refuse \/ CreateThread \/ CreateThreadFails \/ WakeSpuriously
    \/ Exit \/ ForceExit
    \/ MainStep \/ PollingStep

Spec == Init /\ [][Next]_vars

(* Both threads run.  The polling thread holds deinit_mutex only while it  *)
(* answers a request and releases it for every wait on the socket, so the  *)
(* exit handler gets it: strong fairness.                                  *)
Fairness == WF_vars(MainStep) /\ WF_vars(PollingStep) /\ SF_vars(ForceExit)

FairSpec == Spec /\ Fairness

-----------------------------------------------------------------------------
(* Properties *)

(* The attestation data are not read after attestator_deinit destroyed     *)
(* them, as long as the polling thread could be created; if it could not,  *)
(* the exit handler reads data that attestator_init has destroyed.         *)
DataAliveWhenRead == stale_read => polling = "none"

(* Once the exit handler has announced the termination no request is being *)
(* answered: the handler waits for the one in progress, and later ones are *)
(* turned away.                                                            *)
NoAttestationAfterExit == force_exit => polling # "attesting"

(* The exit handler terminates, whatever the polling thread is doing: it   *)
(* stops retrying to connect, polling and answering.                       *)
DeinitCompletes == (main = "deinit") ~> (main \in {"exited", "aborted"})
=============================================================================
