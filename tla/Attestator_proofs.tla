------------------------- MODULE Attestator_proofs -------------------------
(***************************************************************************)
(* Proofs about Attestator, for any number of connection attempts.         *)
(***************************************************************************)
EXTENDS Attestator, TLAPS

USE RetryAssumption

-----------------------------------------------------------------------------
(* How the two threads depend on each other: the mutex is held exactly     *)
(* while a request is answered; the thread exists only after the           *)
(* constructor created it, and the data it reads are destroyed only when   *)
(* it has been joined; the exit is announced by the exit handler only; and *)
(* an attempt to connect is repeated only while attempts are left.         *)
ThreadsInv ==
    /\ TypeOK
    /\ polling = "retry" => c < MAX_CONNECTION_RETRY
    /\ deinit_mutex = "held" <=> polling = "attesting"
    /\ main = "init" => polling = "none" /\ ~stale_read
    /\ main = "exited" => polling = "exited"
    /\ polling # "none" /\ table = "destroyed" => main = "exited"
    /\ force_exit => main \in {"join", "exited", "aborted"}
    /\ DataAliveWhenRead
    /\ NoAttestationAfterExit

(* Before the constructor runs there is no thread and no data. *)
LEMMA InitThreads == Init => ThreadsInv
<1>1. Init => TypeOK
  <2>1. 0 \in 0 .. MAX_CONNECTION_RETRY
    OBVIOUS
  <2>2. QED
    BY <2>1, Zenon DEF Init, TypeOK
<1>2. QED
  BY <1>1 DEF Init, ThreadsInv, DataAliveWhenRead, NoAttestationAfterExit

(* The constructor, the exit handler and the application's exit between    *)
(* them keep the invariant.                                                *)
LEMMA MainThreads ==
    ASSUME ThreadsInv,
           \/ Refuse \/ CreateThread \/ CreateThreadFails \/ WakeSpuriously
           \/ Exit \/ ForceExit \/ MainStep
    PROVE  ThreadsInv'
<1> USE DEF ThreadsInv, TypeOK, DataAliveWhenRead, NoAttestationAfterExit
<1>1. CASE Refuse
  BY <1>1 DEF Refuse
<1>2. CASE CreateThread
  BY <1>2 DEF CreateThread
<1>3. CASE CreateThreadFails
  BY <1>3 DEF CreateThreadFails
<1>4. CASE WakeSpuriously
  BY <1>4 DEF WakeSpuriously
<1>5. CASE Exit
  <2>1. stale_read' => polling' = "none"
    BY <1>5 DEF Exit
  <2>2. stale_read' \in BOOLEAN
    BY <1>5, Zenon DEF Exit
  <2>3. QED
    BY <1>5, <2>1, <2>2 DEF Exit
<1>6. CASE ForceExit
  BY <1>6 DEF ForceExit
<1>7. CASE CheckInitFinished
  BY <1>7 DEF CheckInitFinished
<1>8. CASE WaitInitFinished
  BY <1>8 DEF WaitInitFinished
<1>9. CASE JoinAndDestroy
  BY <1>9 DEF JoinAndDestroy
<1>10. CASE JoinFails
  BY <1>10 DEF JoinFails
<1>11. QED
  BY <1>1, <1>2, <1>3, <1>4, <1>5, <1>6, <1>7, <1>8, <1>9, <1>10 DEF MainStep

(* So do the polling thread and the callback it runs. *)
LEMMA PollingThreads ==
    ASSUME ThreadsInv, PollingStep
    PROVE  ThreadsInv'
<1> USE DEF ThreadsInv, TypeOK, DataAliveWhenRead, NoAttestationAfterExit
<1>1. CASE Connect
  BY <1>1 DEF Connect, atomic_acclWebSocketInit
<1>2. CASE Retry
  BY <1>2 DEF Retry
<1>3. CASE GiveUp
  BY <1>3 DEF GiveUp, Finish
<1>4. CASE Service
  BY <1>4 DEF Service, atomic_libwebsocket_service
<1>5. CASE Polled
  BY <1>5 DEF Polled, Finish
<1>6. CASE Shutdown
  BY <1>6 DEF Shutdown, atomic_acclWebSocketShutdown
<1>7. CASE BeginAttestation
  <2>1. ~stale_read' /\ stale_read' \in BOOLEAN
    BY <1>7 DEF BeginAttestation
  <2>2. QED
    BY <1>7, <2>1 DEF BeginAttestation
<1>8. CASE EndAttestation
  <2>1. ~stale_read' /\ stale_read' \in BOOLEAN
    BY <1>8 DEF EndAttestation
  <2>2. QED
    BY <1>8, <2>1 DEF EndAttestation
<1>9. QED
  BY <1>1, <1>2, <1>3, <1>4, <1>5, <1>6, <1>7, <1>8 DEF PollingStep

(* The invariant holds in every behaviour of the two threads. *)
THEOREM ThreadsInvHolds == Spec => []ThreadsInv
<1>1. ThreadsInv /\ [Next]_vars => ThreadsInv'
  <2>1. ASSUME ThreadsInv, UNCHANGED vars PROVE ThreadsInv'
    BY <2>1 DEF ThreadsInv, TypeOK, DataAliveWhenRead, NoAttestationAfterExit, vars
  <2>2. QED
    BY <2>1, MainThreads, PollingThreads DEF Next
<1>2. QED
  BY InitThreads, <1>1, PTL DEF Spec

(* Type correctness; the number of failed attempts to connect never        *)
(* exceeds MAX_CONNECTION_RETRY.                                           *)
THEOREM AttestatorTypeCorrect == Spec => []TypeOK
  BY ThreadsInvHolds, PTL DEF ThreadsInv

(* The attestation data are not read once attestator_deinit, or an         *)
(* attestator_init that could not create the thread, has destroyed them,   *)
(* except by the exit handler in the latter case.                          *)
THEOREM DataAlive == Spec => []DataAliveWhenRead
  BY ThreadsInvHolds, PTL DEF ThreadsInv

(* Once force_exit is set no request is being answered.                    *)
THEOREM NoLateAttestation == Spec => []NoAttestationAfterExit
  BY ThreadsInvHolds, PTL DEF ThreadsInv
=============================================================================
