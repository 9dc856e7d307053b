------------------------- MODULE Attestation_proofs -------------------------
(***************************************************************************)
(* Proofs about Attestation, for any number of applications, attestators,  *)
(* areas, managers, sessions, data and requests, and whichever calls fail. *)
(* Each invariant is proved inductive by one lemma for each group of       *)
(* actions, with one step for each action.                                 *)
(***************************************************************************)
EXTENDS Attestation, FiniteSetTheorems, TLAPS

USE SchemaAssumption, BoundsAssumption, ManagersAssumption
USE DEF SessionId, DataId, RequestId, tables, vars,
        otherThanListener, otherThanManager, otherThanVerifier

-----------------------------------------------------------------------------
(* Records after the update of one field *)

(* Closing a session (ra_db_close_session) changes is_active only. *)
LEMMA ClosedRow ==
    ASSUME NEW row \in SessionRow
    PROVE  /\ Closed(row) \in SessionRow
           /\ Closed(row).is_active = FALSE
           /\ Closed(row).attestator_id = row.attestator_id
  BY DEF Closed, SessionRow

(* Writing the status of a request (ra_db_finalize_request,                *)
(* RequestsSanitizer) changes nothing else of its row.                     *)
LEMMA WithStatusRow ==
    ASSUME NEW row \in RequestRow, NEW status \in request_status_t
    PROVE  /\ WithStatus(row, status) \in RequestRow
           /\ WithStatus(row, status).status = status
           /\ WithStatus(row, status).session_id = row.session_id
           /\ WithStatus(row, status).prepared_data_id = row.prepared_data_id
           /\ WithStatus(row, status).is_startup = row.is_startup
  BY DEF WithStatus, RequestRow

(* A manager thread that has sent its request keeps all it knows of it. *)
LEMMA SentState ==
    ASSUME NEW state \in ManagerState, state.pc = "send"
    PROVE  At(state, "commit") =
             [pc |-> "commit", client |-> state.client, labels |-> state.labels,
              is_startup |-> state.is_startup, data |-> state.data, id |-> state.id]
  BY DEF At, ManagerState

(* A verifier that has reported the tampering keeps its verdict. *)
LEMMA CompromisedState ==
    ASSUME NEW state \in VerifierState, state.pc = "compromised"
    PROVE  At(state, "finalize") =
             [pc |-> "finalize", status |-> state.status, app_known |-> state.app_known]
  BY DEF At, VerifierState

(* The listener keeps attestator and session through the reaction update. *)
LEMMA ReactionState ==
    ASSUME NEW state \in ListenerState,
           state.pc \in {"up_reaction", "down_reaction"},
           NEW step \in {"up_revoke", "client_up", "down_revoke"}
    PROVE  At(state, step) =
             [pc |-> step, attestator_id |-> state.attestator_id,
              session_id |-> state.session_id]
  BY DEF At, ListenerState

-----------------------------------------------------------------------------
(* Type correctness *)

(* The tables that the deployment leaves, and the processes as they start,  *)
(* have their types. *)
LEMMA InitTypeOK == Init => TypeOK
<1> SUFFICES ASSUME Init PROVE TypeOK
    OBVIOUS
<1>1. TablesOK
  <2>1. /\ DOMAIN ra_session = {}
        /\ DOMAIN ra_request = {}
    BY DEF Init, TablesInit
  <2>2. /\ ra_session \in [DOMAIN ra_session -> SessionRow]
        /\ ra_request \in [DOMAIN ra_request -> RequestRow]
    BY <2>1 DEF Init, TablesInit
  <2>3. QED
    BY <2>1, <2>2 DEF Init, TablesInit, TablesOK, reaction_status_t
<1>2. QED
  BY <1>1 DEF Init, TypeOK, ListenerState, ManagerState, SlotState, Ages, Channel,
              VerifierState, StartupRun

(* A thread whose slot is overwritten has been woken or not. *)
LEMMA SignalledBoolean ==
    ASSUME NEW m \in Managers
    PROVE  Signalled(m) \subseteq BOOLEAN
<1>1. Woken(m) \in BOOLEAN
  BY Zenon DEF Woken
<1>2. QED
  BY <1>1 DEF Signalled

(* The callbacks of the connection listener keep the types. *)
LEMMA ListenerTypeOK == TypeOK /\ ListenerStep => TypeOK'
<1> SUFFICES ASSUME TypeOK, ListenerStep PROVE TypeOK'
    OBVIOUS
<1> USE DEF TypeOK, TablesOK
<1>1. CASE \E att \in Attestator : OpenConnection(att)
  <2>1. PICK att \in Attestator : OpenConnection(att)
    BY <1>1
  <2>2. /\ DOMAIN ra_session' \subseteq SessionId
        /\ ra_session' \in [DOMAIN ra_session' -> SessionRow]
    BY <2>1, ClosedRow DEF OpenConnection, close_all_active_sessions
  <2>3. listener' \in ListenerState
    BY <2>1 DEF OpenConnection, ListenerState
  <2>4. QED
    BY <2>1, <2>2, <2>3 DEF OpenConnection, close_all_active_sessions
<1>2. CASE \E att \in Attestator : CloseConnection(att)
  <2>1. PICK att \in Attestator : CloseConnection(att)
    BY <1>2
  <2>2. PICK s \in ActiveSessions(att) :
            /\ ra_db_close_session(s)
            /\ listener' = [pc |-> "down_reaction", attestator_id |-> att, session_id |-> s]
            /\ UNCHANGED <<slot, otherThanListener>>
    BY <2>1 DEF CloseConnection
  <2>3. s \in DOMAIN ra_session
    BY DEF ActiveSessions
  <2>4. /\ DOMAIN ra_session' \subseteq SessionId
        /\ ra_session' \in [DOMAIN ra_session' -> SessionRow]
    BY <2>2, <2>3, ClosedRow DEF ra_db_close_session
  <2>5. listener' \in ListenerState
    BY <2>2, <2>3 DEF ListenerState
  <2>6. QED
    BY <2>2, <2>4, <2>5 DEF ra_db_close_session
<1>3. CASE StartSession
  BY <1>3 DEF StartSession, insert_session, Insert, SessionRow, ListenerState
<1>4. CASE StartSessionFails
  BY <1>4 DEF StartSessionFails, ListenerState
<1>5. CASE SetUnknown
  BY <1>5, ReactionState
     DEF SetUnknown, ra_db_set_reaction_status, reaction_status_t, ListenerState
<1>6. CASE SetUnknownFails
  BY <1>6, ReactionState DEF SetUnknownFails, ListenerState
<1>7. CASE RevokeSession
  BY <1>7 DEF RevokeSession, ra_db_revoke_session, ListenerState
<1>8. CASE \E m \in Managers : PassClientUp(m)
  <2>1. PICK m \in Managers : PassClientUp(m)
    BY <1>8
  <2>2. PICK woken \in Signalled(m) :
           slot' = [slot EXCEPT ![m] =
                      [action |-> "client_up", woken |-> woken,
                       client |-> [attestator_id |-> listener.attestator_id,
                                   session_id |-> listener.session_id]]]
    BY <2>1 DEF PassClientUp
  <2>3. woken \in BOOLEAN
    BY SignalledBoolean
  <2>4. slot' \in [Managers -> SlotState]
    BY <2>1, <2>2, <2>3 DEF PassClientUp, ListenerState, Client, SlotState
  <2>5. QED
    BY <2>1, <2>4 DEF PassClientUp, ListenerState
<1>9. CASE \E m \in Managers : NotifyClientDown(m)
  <2>1. PICK m \in Managers : NotifyClientDown(m)
    BY <1>9
  <2>2. PICK woken \in Signalled(m) :
           slot' = [slot EXCEPT ![m] =
                      [action |-> "client_down", woken |-> woken,
                       attestator_id |-> listener.attestator_id]]
    BY <2>1 DEF NotifyClientDown
  <2>3. woken \in BOOLEAN
    BY SignalledBoolean
  <2>4. slot' \in [Managers -> SlotState]
    BY <2>1, <2>2, <2>3 DEF NotifyClientDown, ListenerState, SlotState
  <2>5. listener' \in ListenerState
    BY <2>1 DEF NotifyClientDown, ListenerState
  <2>6. QED
    BY <2>1, <2>4, <2>5 DEF NotifyClientDown
<1>10. QED
  BY <1>1, <1>2, <1>3, <1>4, <1>5, <1>6, <1>7, <1>8, <1>9 DEF ListenerStep

(* So do the steps of a manager thread, from the choice of a nonce to the  *)
(* commit of the request. *)
LEMMA ManagerTypeOK == TypeOK /\ ManagerStep => TypeOK'
<1> SUFFICES ASSUME TypeOK, NEW m \in Managers,
                    \/ TakeClientUp(m) \/ TakeClientDown(m)
                    \/ SelectStartupNonce(m) \/ StartupNoData(m)
                    \/ StartupLabelFails(m) \/ InsertClient(m) \/ ServeClient(m)
                    \/ InsertRequest(m) \/ InsertRequestFails(m)
                    \/ SendRequest(m) \/ SendRequestFails(m) \/ SendBufferFails(m)
                    \/ CommitRequest(m)
             PROVE  TypeOK'
    BY DEF ManagerStep
<1> USE DEF TypeOK, TablesOK
<1>1. manager[m] \in ManagerState
  OBVIOUS
<1>2. ASSUME NEW d \in DOMAIN ra_prepared_data PROVE d \in DataId
  BY <1>2
<1>3. ASSUME manager[m].pc \in {"insert", "send", "commit"}, Returned(m)
      PROVE  manager' \in [Managers -> ManagerState]
  BY <1>3, <1>1 DEF Returned, ManagerState
<1>4. ASSUME manager[m].pc \in {"send", "commit"} PROVE Row(m) \in RequestRow
  BY <1>4, <1>1 DEF Row, RequestRow, ManagerState, Client, request_status_t
<1>5. CASE SelectStartupNonce(m)
  BY <1>5, <1>1, <1>2 DEF SelectStartupNonce, ValidNoncesByLabel, ValidNonces, ManagerState
<1>6. CASE StartupNoData(m)
  BY <1>6, <1>1 DEF StartupNoData, LaunchExtractor, ManagerState, Client
<1>7. CASE StartupLabelFails(m)
  <2>1. manager' \in [Managers -> ManagerState]
    <3>1. PICK label \in manager[m].labels :
             \/ manager' = [manager EXCEPT ![m] =
                              [pc |-> "startup", client |-> manager[m].client,
                               labels |-> manager[m].labels \ {label}]]
             \/ \E d \in DOMAIN ra_prepared_data :
                   manager' = [manager EXCEPT ![m] =
                                 [pc |-> "insert", client |-> manager[m].client,
                                  is_startup |-> TRUE,
                                  labels |-> manager[m].labels \ {label}, data |-> d]]
      BY <1>7 DEF StartupLabelFails
    <3>2. manager[m].client \in Client /\ manager[m].labels \ {label} \in SUBSET Area
      BY <1>7, <1>1 DEF StartupLabelFails, ManagerState
    <3>3. [pc |-> "startup", client |-> manager[m].client,
           labels |-> manager[m].labels \ {label}] \in ManagerState
      BY <3>2 DEF ManagerState
    <3>4. ASSUME NEW d \in DOMAIN ra_prepared_data
          PROVE  [pc |-> "insert", client |-> manager[m].client, is_startup |-> TRUE,
                  labels |-> manager[m].labels \ {label}, data |-> d] \in ManagerState
      BY <1>2, <3>2 DEF ManagerState
    <3>5. PICK state \in ManagerState : manager' = [manager EXCEPT ![m] = state]
      BY <3>1, <3>3, <3>4
    <3>6. QED
      BY <3>5
  <2>2. startup_run' \in [SessionId -> StartupRun]
    BY <1>7 DEF StartupLabelFails, StartupRun
  <2>3. QED
    BY <1>7, <2>1, <2>2 DEF StartupLabelFails
<1>8. CASE InsertClient(m)
  <2>1. manager[m].client \in Client
    BY <1>8, <1>1 DEF InsertClient, ManagerState
  <2>2. /\ clients' \in [Managers -> SUBSET Client]
        /\ slot' \in [Managers -> SlotState]
    <3>1. clients[m] \cup {manager[m].client} \in SUBSET Client
      BY <2>1
    <3>2. \/ clients' = clients
          \/ clients' = [clients EXCEPT ![m] = clients[m] \cup {manager[m].client}]
      BY <1>8 DEF InsertClient
    <3>3. clients' \in [Managers -> SUBSET Client]
      BY <3>1, <3>2
    <3>4. slot' \in [Managers -> SlotState]
      <4>1. [action |-> "none"] \in SlotState
        BY DEF SlotState
      <4>2. slot' = slot \/ slot' = [slot EXCEPT ![m] = [action |-> "none"]]
        BY <1>8 DEF InsertClient
      <4>3. QED
        BY <4>1, <4>2
    <3>5. QED
      BY <3>3, <3>4
  <2>3. manager' \in [Managers -> ManagerState]
    BY <1>8 DEF InsertClient, ManagerState
  <2>4. QED
    BY <1>8, <2>2, <2>3 DEF InsertClient
<1>16. CASE TakeClientUp(m)
  <2>1. /\ slot[m] \in [action : {"client_up"}, client : Client, woken : BOOLEAN]
        /\ slot[m].client \in Client
    BY <1>16 DEF TakeClientUp, SlotState
  <2>2. PICK labels \in SUBSET Area :
           manager' = [manager EXCEPT ![m] =
                         [pc |-> "startup", labels |-> labels, client |-> slot[m].client]]
    BY <1>16, <2>1 DEF TakeClientUp, Client
  <2>3. manager' \in [Managers -> ManagerState]
    BY <2>1, <2>2 DEF ManagerState
  <2>4. slot' \in [Managers -> SlotState]
    BY <1>16, <2>1 DEF TakeClientUp, SlotState
  <2>5. startup_run' \in [SessionId -> StartupRun]
    BY <1>16 DEF TakeClientUp, StartupRun
  <2>6. QED
    BY <1>16, <2>3, <2>4, <2>5 DEF TakeClientUp
<1>17. CASE TakeClientDown(m)
  <2>1. {c \in clients[m] : c.attestator_id # slot[m].attestator_id} \in SUBSET Client
    OBVIOUS
  <2>2. QED
    BY <1>17, <2>1 DEF TakeClientDown, SlotState
<1>9. CASE ServeClient(m)
  <2>1. PICK c \in clients[m] :
            \/ /\ \E d \in ValidNonces(c.attestator_id) :
                    manager' = [manager EXCEPT ![m] =
                                  [pc |-> "insert", client |-> c, labels |-> {},
                                   is_startup |-> FALSE, data |-> d]]
               /\ UNCHANGED extracting
            \/ LaunchExtractor(c.attestator_id) /\ UNCHANGED manager
    BY <1>9 DEF ServeClient
  <2>2. c \in Client
    OBVIOUS
  <2>3. manager' \in [Managers -> ManagerState]
    <3>1. ASSUME NEW d \in ValidNonces(c.attestator_id)
          PROVE  [pc |-> "insert", client |-> c, labels |-> {},
                  is_startup |-> FALSE, data |-> d] \in ManagerState
      BY <2>2, <1>2 DEF ValidNonces, ManagerState
    <3>2. CASE UNCHANGED manager
      BY <3>2
    <3>3. CASE \E d \in ValidNonces(c.attestator_id) :
                  manager' = [manager EXCEPT ![m] =
                                [pc |-> "insert", client |-> c, labels |-> {},
                                 is_startup |-> FALSE, data |-> d]]
      <4>1. PICK d \in ValidNonces(c.attestator_id) :
                  manager' = [manager EXCEPT ![m] =
                                [pc |-> "insert", client |-> c, labels |-> {},
                                 is_startup |-> FALSE, data |-> d]]
        BY <3>3
      <4>2. QED
        BY <3>1, <4>1
    <3>4. QED
      BY <2>1, <3>2, <3>3
  <2>4. extracting' \in SUBSET Attestator
    BY <2>1, <2>2 DEF LaunchExtractor, Client
  <2>5. QED
    BY <1>9, <2>3, <2>4 DEF ServeClient
<1>10. CASE InsertRequest(m)
  <2>1. request_seq' \in RequestId
    BY <1>10 DEF InsertRequest
  <2>2. manager' \in [Managers -> ManagerState]
    BY <1>10, <1>1, <2>1 DEF InsertRequest, ManagerState
  <2>3. QED
    BY <1>10, <2>1, <2>2 DEF InsertRequest
<1>11. CASE InsertRequestFails(m)
  BY <1>11, <1>3 DEF InsertRequestFails
<1>12. CASE SendRequest(m)
  BY <1>12, <1>1, SentState DEF SendRequest, ManagerState, Channel
<1>13. CASE SendRequestFails(m)
  BY <1>13, <1>3 DEF SendRequestFails
<1>14. CASE SendBufferFails(m)
  BY <1>14, <1>1, <1>3, <1>4 DEF SendBufferFails, commit_request, Insert, ManagerState
<1>15. CASE CommitRequest(m)
  <2>1. manager' \in [Managers -> ManagerState]
    BY <1>15, <1>3 DEF CommitRequest
  <2>2. manager[m].id \in RequestId
    BY <1>15, <1>1 DEF CommitRequest, ManagerState
  <2>3. TablesOK'
    BY <1>15, <1>4, <2>2 DEF CommitRequest, commit_request, Insert
  <2>4. QED
    BY <1>15, <2>1, <2>3 DEF CommitRequest
<1>18. QED
  BY <1>5, <1>6, <1>7, <1>8, <1>9, <1>10, <1>11, <1>12, <1>13, <1>14, <1>15, <1>16, <1>17

(* So do forwarder and verifier, and the trigger of the final update. *)
LEMMA VerifierTypeOK == TypeOK /\ VerifierStep => TypeOK'
<1> SUFFICES ASSUME TypeOK, NEW r \in RequestId,
                    \/ ForwardResponse(r) \/ GetDataToVerify(r) \/ DropResponse(r)
                    \/ SetCompromised(r) \/ Finalize(r)
                    \/ FinalizeBegin(r) \/ FinalizeCommit(r) \/ FinalizeFails(r)
             PROVE  TypeOK'
    BY DEF VerifierStep
<1> USE DEF TypeOK, TablesOK
<1>1. verifier[r] \in VerifierState
  OBVIOUS
<1>2. ASSUME NEW status \in request_status_t, NEW proved,
             ra_db_finalize_request(r, status, proved)
      PROVE  TablesOK'
  BY <1>2, WithStatusRow DEF ra_db_finalize_request, Finalized, reaction_status_t
<1>3. ASSUME NEW requests PROVE startup_attestation(r, requests) \in BOOLEAN
  BY DEF startup_attestation
<1>4. CASE ForwardResponse(r)
  <2>1. verifier' \in [RequestId -> VerifierState]
    <3>1. ASSUME NEW right \in BOOLEAN, NEW in_time \in BOOLEAN, NEW known \in BOOLEAN
          PROVE  [pc |-> "get_data", right |-> right, in_time |-> in_time,
                  app_known |-> known] \in VerifierState
      BY DEF VerifierState
    <3>2. [pc |-> "dropped"] \in VerifierState
      BY DEF VerifierState
    <3>3. CASE verifier' = [verifier EXCEPT ![r] = [pc |-> "dropped"]]
      BY <3>2, <3>3
    <3>4. CASE \E right \in BOOLEAN, known \in {TRUE, "verifier" \notin Failures} :
                  verifier' = [verifier EXCEPT ![r] =
                                 [pc |-> "get_data", right |-> right,
                                  in_time |-> age[r] = "fresh", app_known |-> known]]
      <4>1. PICK right \in BOOLEAN, known \in {TRUE, "verifier" \notin Failures} :
                  verifier' = [verifier EXCEPT ![r] =
                                 [pc |-> "get_data", right |-> right,
                                  in_time |-> age[r] = "fresh", app_known |-> known]]
        BY <3>4
      <4>2. known \in BOOLEAN /\ (age[r] = "fresh") \in BOOLEAN
        BY Zenon
      <4>3. [pc |-> "get_data", right |-> right, in_time |-> age[r] = "fresh",
             app_known |-> known] \in VerifierState
        BY <3>1, <4>2, Zenon
      <4>4. QED
        BY <4>1, <4>3
    <3>5. QED
      BY <1>4, <3>3, <3>4 DEF ForwardResponse
  <2>2. channel' \in [RequestId -> Channel]
    BY <1>4 DEF ForwardResponse, Channel
  <2>3. QED
    BY <1>4, <2>1, <2>2 DEF ForwardResponse
<1>5. CASE GetDataToVerify(r)
  BY <1>5, <1>1 DEF GetDataToVerify, Verdict, VerifierState, request_status_t
<1>6. CASE DropResponse(r)
  BY <1>6 DEF DropResponse, VerifierState
<1>7. CASE SetCompromised(r)
  <2>1. At(verifier[r], "finalize") \in VerifierState
    BY <1>7, <1>1, CompromisedState DEF SetCompromised, VerifierState
  <2>2. verifier' \in [RequestId -> VerifierState]
    BY <1>7, <2>1 DEF SetCompromised
  <2>3. TablesOK'
    BY <1>7 DEF SetCompromised, ra_db_set_reaction_status, reaction_status_t
  <2>4. QED
    BY <1>7, <2>2, <2>3 DEF SetCompromised
<1>8. CASE Finalize(r)
  BY <1>8, <1>1, <1>2 DEF Finalize, VerifierState
<1>9. CASE FinalizeBegin(r)
  BY <1>9, <1>1, <1>3 DEF FinalizeBegin, VerifierState
<1>10. CASE FinalizeCommit(r)
  BY <1>10, <1>1, <1>2 DEF FinalizeCommit, VerifierState
<1>11. CASE FinalizeFails(r)
  BY <1>11 DEF FinalizeFails, VerifierState
<1>12. QED
  BY <1>4, <1>5, <1>6, <1>7, <1>8, <1>9, <1>10, <1>11

(* So do a restart of the manager, the network, sanitizer and extractors. *)
LEMMA OtherTypeOK ==
    TypeOK /\ (ManagerCrash \/ NetworkStep \/ MaintenanceStep) => TypeOK'
<1> SUFFICES ASSUME TypeOK, ManagerCrash \/ NetworkStep \/ MaintenanceStep
             PROVE  TypeOK'
    OBVIOUS
<1> USE DEF TypeOK, TablesOK
<1>1. CASE ManagerCrash
  BY <1>1 DEF ManagerCrash, ListenerState, ManagerState, SlotState
<1>2. CASE NetworkStep
  BY <1>2 DEF NetworkStep, MessageLost, AgeRequest, Channel, Ages
<1>3. CASE Sanitize
  BY <1>3, WithStatusRow DEF Sanitize, RequestsSanitizer, request_status_t
<1>4. CASE \E att \in Attestator : Extract(att)
  BY <1>4 DEF Extract, insert_data, DataRow
<1>5. CASE \E att \in Attestator : ExtractorExit(att)
  BY <1>5 DEF ExtractorExit
<1>6. QED
  BY <1>1, <1>2, <1>3, <1>4, <1>5 DEF MaintenanceStep

(* Every table and every process state has its type throughout: in        *)
(* particular the ids that manager, verifier and listener carry from one   *)
(* statement to the next stay within the tables' key ranges, and every row *)
(* committed or updated is complete, whatever fails in between.            *)
THEOREM TypeCorrect == Spec => []TypeOK
<1>1. Init => TypeOK
  BY InitTypeOK
<1>2. TypeOK /\ [Next]_vars => TypeOK'
  <2>1. CASE UNCHANGED vars
    BY <2>1 DEF TypeOK, TablesOK
  <2>2. QED
    BY <2>1, ListenerTypeOK, ManagerTypeOK, VerifierTypeOK, OtherTypeOK DEF Next
<1>3. QED
  BY <1>1, <1>2, PTL DEF Spec
-----------------------------------------------------------------------------
(* Sessions *)

(* Only the listener touches sessions: every other step leaves SessionInv. *)
LEMMA SessionsUntouched ==
    ASSUME SessionInv,
           UNCHANGED <<ra_session, session_seq>>,
           listener' = listener \/ listener'.pc # "insert_session"
    PROVE  SessionInv'
  BY DEF SessionInv, OneActiveSession, ActiveSessions

(* The callbacks keep SessionInv: OPEN closes all sessions of the          *)
(* attestator before it inserts the new one, CLOSE and revocation only     *)
(* take sessions away. *)
LEMMA ListenerSessions == TypeOK /\ SessionInv /\ ListenerStep => SessionInv'
<1> SUFFICES ASSUME TypeOK, SessionInv, ListenerStep PROVE SessionInv'
    OBVIOUS
<1>1. /\ DOMAIN ra_session \subseteq SessionId
      /\ \A s \in DOMAIN ra_session : ra_session[s] \in SessionRow
      /\ session_seq \in Nat
      /\ listener \in ListenerState
  BY DEF TypeOK, TablesOK
<1>2. CASE \E att \in Attestator : OpenConnection(att)
  <2>1. PICK att \in Attestator : OpenConnection(att)
    BY <1>2
  <2>2. /\ DOMAIN ra_session' = DOMAIN ra_session
        /\ \A s \in DOMAIN ra_session :
              /\ ra_session'[s].attestator_id = ra_session[s].attestator_id
              /\ ra_session'[s].is_active => ra_session[s].is_active
              /\ ra_session[s].attestator_id = att => ra_session'[s].is_active = FALSE
    BY <2>1, <1>1, ClosedRow DEF OpenConnection, close_all_active_sessions
  <2>3. OneActiveSession'
    BY <2>2 DEF SessionInv, OneActiveSession
  <2>4. listener'.attestator_id = att /\ UNCHANGED session_seq
    BY <2>1 DEF OpenConnection, close_all_active_sessions
  <2>5. ActiveSessions(listener.attestator_id)' = {}
    BY <2>2, <2>4 DEF ActiveSessions
  <2>6. QED
    BY <2>2, <2>3, <2>4, <2>5 DEF SessionInv
<1>3. CASE \E att \in Attestator : CloseConnection(att)
  <2>1. PICK att \in Attestator : CloseConnection(att)
    BY <1>3
  <2>2. /\ DOMAIN ra_session' = DOMAIN ra_session
        /\ \A s \in DOMAIN ra_session :
              /\ ra_session'[s].attestator_id = ra_session[s].attestator_id
              /\ ra_session'[s].is_active => ra_session[s].is_active
    BY <2>1, <1>1, ClosedRow DEF CloseConnection, ra_db_close_session
  <2>3. listener'.pc # "insert_session" /\ UNCHANGED session_seq
    BY <2>1 DEF CloseConnection, ra_db_close_session
  <2>4. QED
    BY <2>2, <2>3 DEF SessionInv, OneActiveSession
<1>4. CASE StartSession
  <2>1. /\ session_seq' = session_seq + 1
        /\ DOMAIN ra_session' = DOMAIN ra_session \cup {session_seq + 1}
        /\ ra_session'[session_seq + 1] =
              [attestator_id |-> listener.attestator_id, is_active |-> TRUE]
        /\ \A s \in DOMAIN ra_session : s <= session_seq /\ ra_session'[s] = ra_session[s]
        /\ listener'.pc # "insert_session"
    BY <1>4, <1>1 DEF StartSession, insert_session, Insert, SessionInv
  <2>2. \A s \in DOMAIN ra_session :
           ra_session[s].attestator_id = listener.attestator_id => ~ra_session[s].is_active
    BY <1>4 DEF StartSession, SessionInv, ActiveSessions
  <2>3. OneActiveSession'
    BY <1>1, <2>1, <2>2 DEF SessionInv, OneActiveSession
  <2>4. QED
    BY <1>1, <2>1, <2>3 DEF SessionInv
<1>5. CASE RevokeSession
  <2>1. /\ DOMAIN ra_session' \subseteq DOMAIN ra_session
        /\ \A s \in DOMAIN ra_session' : ra_session'[s] = ra_session[s]
    BY <1>5 DEF RevokeSession, ra_db_revoke_session
  <2>2. listener'.pc # "insert_session" /\ UNCHANGED session_seq
    BY <1>5 DEF RevokeSession, ra_db_revoke_session
  <2>3. QED
    BY <2>1, <2>2 DEF SessionInv, OneActiveSession
<1>6. CASE \/ StartSessionFails \/ SetUnknown \/ SetUnknownFails
           \/ \E m \in Managers : PassClientUp(m) \/ NotifyClientDown(m)
  <2>1. UNCHANGED <<ra_session, session_seq>>
    BY <1>6 DEF StartSessionFails, SetUnknown, SetUnknownFails,
                PassClientUp, NotifyClientDown, ra_db_set_reaction_status
  <2>2. listener'.pc # "insert_session"
    BY <1>6, <1>1, ReactionState
       DEF StartSessionFails, SetUnknown, SetUnknownFails,
           PassClientUp, NotifyClientDown
  <2>3. QED
    BY <2>1, <2>2, SessionsUntouched
<1>7. QED
  BY <1>2, <1>3, <1>4, <1>5, <1>6 DEF ListenerStep

(* All other processes leave sessions alone, and a restart of the manager  *)
(* at most abandons a callback. *)
LEMMA OtherSessions ==
    SessionInv /\ [ManagerStep \/ ManagerCrash \/ NetworkStep \/ VerifierStep
                     \/ MaintenanceStep]_vars
    => SessionInv'
<1> SUFFICES ASSUME SessionInv,
                    [ManagerStep \/ ManagerCrash \/ NetworkStep \/ VerifierStep
                       \/ MaintenanceStep]_vars
             PROVE  /\ UNCHANGED <<ra_session, session_seq>>
                    /\ listener' = listener \/ listener'.pc # "insert_session"
    BY SessionsUntouched
<1>1. CASE ManagerStep
  BY <1>1 DEF ManagerStep, TakeClientUp, TakeClientDown, SelectStartupNonce,
     StartupNoData, StartupLabelFails, InsertClient, ServeClient, InsertRequest,
     InsertRequestFails, SendRequest, SendRequestFails, SendBufferFails, CommitRequest,
     commit_request
<1>2. CASE ManagerCrash
  BY <1>2 DEF ManagerCrash
<1>3. CASE NetworkStep
  BY <1>3 DEF NetworkStep, MessageLost, AgeRequest
<1>4. CASE VerifierStep
  BY <1>4 DEF VerifierStep, ForwardResponse, GetDataToVerify, DropResponse,
     SetCompromised, Finalize, FinalizeBegin, FinalizeCommit, FinalizeFails,
     ra_db_set_reaction_status, ra_db_finalize_request
<1>5. CASE MaintenanceStep
  BY <1>5 DEF MaintenanceStep, Sanitize, RequestsSanitizer, Extract, insert_data,
     ExtractorExit
<1>6. CASE UNCHANGED vars
  BY <1>6
<1>7. QED
  BY <1>1, <1>2, <1>3, <1>4, <1>5, <1>6

(* Session ids are never reused, and between closing the old sessions and  *)
(* inserting the new one the attestator has none that is active.           *)
THEOREM SessionInvHolds == Spec => []SessionInv
<1>1. Init => SessionInv
  <2>1. Init => DOMAIN ra_session = {} /\ listener.pc = "idle"
    BY DEF Init, TablesInit
  <2>2. QED
    BY <2>1 DEF SessionInv, OneActiveSession
<1>2. TypeOK /\ SessionInv /\ [Next]_vars => SessionInv'
  BY ListenerSessions, OtherSessions DEF Next
<1>3. QED
  BY <1>1, <1>2, TypeCorrect, PTL DEF Spec

(* However connections are opened and closed, and whichever statement of   *)
(* the listener fails or is cut off by a crash, an attestator has at most  *)
(* one active session, its newest: ra_db_get_active_session never meets    *)
(* the anomaly it reports.                                                 *)
THEOREM OneActiveSessionHolds == Spec => []OneActiveSession
  BY SessionInvHolds, PTL DEF SessionInv

-----------------------------------------------------------------------------
(* The life of a request *)

(* Initially there is no request at all. *)
LEMMA InitLifecycle == Init => LifecycleInv
<1> SUFFICES ASSUME Init PROVE LifecycleInv
    OBVIOUS
<1>1. DOMAIN ra_request = {}
  BY DEF Init, TablesInit
<1>2. QED
  BY <1>1 DEF Init, LifecycleInv

(* Steps that concern neither a recorded request nor one being sent. *)
LEMMA LifecycleUntouched ==
    ASSUME LifecycleInv,
           UNCHANGED <<ra_request, request_seq, channel, verifier, issued_by>>,
           \A m \in Managers :
              manager'[m].pc \in {"send", "commit"} => manager'[m] = manager[m]
    PROVE  LifecycleInv'
  BY DEF LifecycleInv

(* Steps of forwarder, verifier and sanitizer on request r, which concern  *)
(* no request that a manager is still sending.                             *)
LEMMA LifecycleOfOne ==
    ASSUME TypeOK, TypeOK', LifecycleInv,
           NEW r \in RequestId,
           UNCHANGED <<request_seq, issued_by, manager>>,
           DOMAIN ra_request' = DOMAIN ra_request,
           channel[r] # "unsent",
           \A q \in RequestId \ {r} :
              /\ channel'[q] = channel[q]
              /\ verifier'[q] = verifier[q]
              /\ q \in DOMAIN ra_request => ra_request'[q] = ra_request[q],
           channel'[r] # "arrived" => verifier'[r].pc = "none",
           r \in DOMAIN ra_request /\ verifier'[r].pc # "done"
              => ra_request'[r].status \in {"PENDING", "EXPIRED_NONE"},
           verifier'[r].pc \in {"compromised", "finalize", "trigger"}
              => /\ r \in DOMAIN ra_request
                 /\ verifier'[r].status \in Lifecycle!Judgement
    PROVE  LifecycleInv'
<1>1. \A m \in Managers : manager[m].pc \in {"send", "commit"} => manager[m].id \in RequestId
  BY DEF TypeOK, ManagerState
<1>2. DOMAIN ra_request \subseteq RequestId /\ request_seq \in Nat
  BY DEF TypeOK, TablesOK
<1>3. r <= request_seq
  BY <1>2 DEF LifecycleInv
<1>4. \A q \in RequestId : q > request_seq => channel'[q] = "unsent"
  BY <1>2, <1>3 DEF LifecycleInv
<1>5. \A m \in Managers :
          manager'[m].pc \in {"send", "commit"}
          => /\ manager'[m].id \notin DOMAIN ra_request'
             /\ manager'[m].id <= request_seq'
             /\ issued_by'[manager'[m].id] = m
             /\ manager'[m].pc = "send" => channel'[manager'[m].id] = "unsent"
  BY <1>1 DEF LifecycleInv
<1>6. \A q \in RequestId \ {r} :
          /\ channel'[q] # "arrived" => verifier'[q].pc = "none"
          /\ q \in DOMAIN ra_request' /\ verifier'[q].pc # "done"
               => ra_request'[q].status \in {"PENDING", "EXPIRED_NONE"}
          /\ verifier'[q].pc \in {"compromised", "finalize", "trigger"}
               => /\ q \in DOMAIN ra_request'
                  /\ verifier'[q].status \in Lifecycle!Judgement
  BY DEF LifecycleInv
<1>7. QED
  BY <1>2, <1>4, <1>5, <1>6 DEF LifecycleInv

(* The listener's callbacks touch no request; a manager they pass a client *)
(* to is not sending. *)
LEMMA ListenerLifecycle == TypeOK /\ LifecycleInv /\ ListenerStep => LifecycleInv'
<1> SUFFICES ASSUME TypeOK, LifecycleInv, ListenerStep PROVE LifecycleInv'
    OBVIOUS
<1>1. UNCHANGED <<ra_request, request_seq, channel, verifier, issued_by>>
  BY DEF ListenerStep, OpenConnection, CloseConnection, StartSession, StartSessionFails,
     SetUnknown, SetUnknownFails, RevokeSession, PassClientUp,
     NotifyClientDown, close_all_active_sessions, ra_db_close_session, insert_session,
     ra_db_set_reaction_status, ra_db_revoke_session
<1>2. ASSUME NEW m \in Managers, manager'[m].pc \in {"send", "commit"}
      PROVE  manager'[m] = manager[m]
  BY <1>2 DEF TypeOK, ListenerStep, OpenConnection, CloseConnection, StartSession,
     StartSessionFails, SetUnknown, SetUnknownFails, RevokeSession,
     PassClientUp, NotifyClientDown
<1>3. QED
  BY <1>1, <1>2, LifecycleUntouched

(* A manager numbers a request from the counter, sends it, and commits it, *)
(* and no other manager holds that number. *)
LEMMA ManagerLifecycle == TypeOK /\ LifecycleInv /\ ManagerStep => LifecycleInv'
<1> SUFFICES ASSUME TypeOK, LifecycleInv, NEW m \in Managers,
                    \/ TakeClientUp(m) \/ TakeClientDown(m)
                    \/ SelectStartupNonce(m) \/ StartupNoData(m)
                    \/ StartupLabelFails(m) \/ InsertClient(m) \/ ServeClient(m)
                    \/ InsertRequest(m) \/ InsertRequestFails(m)
                    \/ SendRequest(m) \/ SendRequestFails(m) \/ SendBufferFails(m)
                    \/ CommitRequest(m)
             PROVE  LifecycleInv'
    BY DEF ManagerStep
<1>1. /\ manager \in [Managers -> ManagerState]
      /\ channel \in [RequestId -> Channel]
      /\ issued_by \in [RequestId -> Managers \cup {NoManager}]
      /\ DOMAIN ra_request \subseteq RequestId
      /\ request_seq \in 0 .. MaxRequest
  BY DEF TypeOK, TablesOK
<1>2. \A n \in Managers : manager[n].pc \in {"send", "commit"} => manager[n].id \in RequestId
  BY <1>1 DEF ManagerState
<1>3. ASSUME Returned(m)
      PROVE  /\ manager'[m].pc \notin {"send", "commit"}
             /\ \A n \in Managers \ {m} : manager'[n] = manager[n]
  BY <1>1, <1>3 DEF Returned
<1>4. CASE TakeClientUp(m) \/ TakeClientDown(m) \/ SelectStartupNonce(m)
           \/ StartupNoData(m) \/ StartupLabelFails(m) \/ InsertClient(m) \/ ServeClient(m)
  <2>1. UNCHANGED <<ra_request, request_seq, channel, verifier, issued_by>>
    BY <1>4 DEF TakeClientUp, TakeClientDown, SelectStartupNonce, StartupNoData,
       StartupLabelFails, InsertClient, ServeClient
  <2>2. ASSUME NEW n \in Managers, manager'[n].pc \in {"send", "commit"}
        PROVE  manager'[n] = manager[n]
    BY <1>1, <1>4, <2>2 DEF TakeClientUp, TakeClientDown, SelectStartupNonce,
       StartupNoData, StartupLabelFails, InsertClient, ServeClient
  <2>3. QED
    BY <2>1, <2>2, LifecycleUntouched
<1>5. CASE InsertRequestFails(m) \/ SendRequestFails(m)
           \/ (Returned(m) /\ UNCHANGED <<tables, channel, verifier, issued_by>>)
  <2>1. Returned(m) /\ UNCHANGED <<ra_request, request_seq, channel, verifier, issued_by>>
    BY <1>5 DEF InsertRequestFails, SendRequestFails
  <2>2. QED
    BY <1>3, <2>1, LifecycleUntouched
<1>6. CASE InsertRequest(m)
  <2>1. /\ request_seq' = request_seq + 1
        /\ request_seq' \in RequestId
        /\ manager'[m].pc = "send"
        /\ manager'[m].id = request_seq'
        /\ \A n \in Managers \ {m} : manager'[n] = manager[n]
        /\ issued_by' = [issued_by EXCEPT ![request_seq'] = m]
        /\ UNCHANGED <<ra_request, channel, verifier>>
    BY <1>6, <1>1 DEF InsertRequest
  <2>2. ASSUME NEW n \in Managers, manager'[n].pc \in {"send", "commit"}
        PROVE  /\ manager'[n].id \notin DOMAIN ra_request'
               /\ manager'[n].id <= request_seq'
               /\ issued_by'[manager'[n].id] = n
               /\ manager'[n].pc = "send" => channel'[manager'[n].id] = "unsent"
    <3>1. CASE n = m
      BY <3>1, <2>1, <1>1 DEF LifecycleInv
    <3>2. CASE n # m
      <4>1. /\ manager'[n] = manager[n]
            /\ manager[n].id \in RequestId
            /\ manager[n].id <= request_seq
        BY <3>2, <2>1, <2>2, <1>2 DEF LifecycleInv
      <4>2. manager[n].id # request_seq'
        BY <4>1, <2>1, <1>1
      <4>3. QED
        BY <4>1, <4>2, <2>1, <2>2, <1>1 DEF LifecycleInv
    <3>3. QED
      BY <3>1, <3>2
  <2>3. \A r \in RequestId : r > request_seq' => channel'[r] = "unsent"
    BY <2>1, <1>1 DEF LifecycleInv
  <2>4. \A r \in DOMAIN ra_request' : r <= request_seq'
    BY <2>1, <1>1 DEF LifecycleInv
  <2>5. QED
    BY <2>1, <2>2, <2>3, <2>4 DEF LifecycleInv
<1>7. CASE SendRequest(m)
  <2>1. /\ manager[m].pc = "send"
        /\ manager'[m].pc = "commit"
        /\ manager'[m].id = manager[m].id
        /\ \A n \in Managers \ {m} : manager'[n] = manager[n]
        /\ channel' = [channel EXCEPT ![manager[m].id] = "request"]
        /\ UNCHANGED <<ra_request, request_seq, verifier, issued_by>>
    BY <1>7, <1>1, SentState DEF SendRequest
  <2>2. \A n \in Managers \ {m} :
           manager[n].pc \in {"send", "commit"} => manager[n].id # manager[m].id
    BY <2>1 DEF LifecycleInv
  <2>3. channel[manager[m].id] = "unsent" /\ manager[m].id <= request_seq
    BY <2>1 DEF LifecycleInv
  <2>4. ASSUME NEW n \in Managers, manager'[n].pc \in {"send", "commit"}
        PROVE  /\ manager'[n].id \notin DOMAIN ra_request'
               /\ manager'[n].id <= request_seq'
               /\ issued_by'[manager'[n].id] = n
               /\ manager'[n].pc = "send" => channel'[manager'[n].id] = "unsent"
    <3>1. CASE n = m
      BY <3>1, <2>1 DEF LifecycleInv
    <3>2. CASE n # m
      BY <3>2, <2>1, <2>2, <2>4, <1>1, <1>2 DEF LifecycleInv
    <3>3. QED
      BY <3>1, <3>2
  <2>5. \A r \in RequestId : r > request_seq' => channel'[r] = "unsent"
    BY <2>1, <2>3, <1>1, <1>2 DEF LifecycleInv
  <2>6. \A r \in RequestId : channel'[r] # "arrived" => verifier'[r].pc = "none"
    BY <2>1, <2>3, <1>1 DEF LifecycleInv
  <2>7. QED
    BY <2>1, <2>4, <2>5, <2>6 DEF LifecycleInv
<1>8. CASE SendBufferFails(m)
           \/ (CommitRequest(m) /\ commit_request(manager[m].id, Row(m)))
  <2>1. /\ manager[m].pc \in {"send", "commit"}
        /\ commit_request(manager[m].id, Row(m))
        /\ Returned(m)
        /\ UNCHANGED <<request_seq, channel, verifier, issued_by>>
    BY <1>8 DEF SendBufferFails, CommitRequest, commit_request
  <2>2. /\ manager[m].id \in RequestId
        /\ manager[m].id \notin DOMAIN ra_request
        /\ manager[m].id <= request_seq
        /\ \A n \in Managers \ {m} :
             manager[n].pc \in {"send", "commit"} => manager[n].id # manager[m].id
    BY <2>1, <1>2 DEF LifecycleInv
  <2>3. /\ DOMAIN ra_request' = DOMAIN ra_request \cup {manager[m].id}
        /\ ra_request'[manager[m].id].status = "PENDING"
        /\ \A r \in DOMAIN ra_request : ra_request'[r] = ra_request[r]
    BY <2>1, <2>2 DEF commit_request, Insert, Row
  <2>4. ASSUME NEW n \in Managers, manager'[n].pc \in {"send", "commit"}
        PROVE  /\ n # m
               /\ manager'[n] = manager[n]
               /\ manager[n].id \notin DOMAIN ra_request'
    BY <2>1, <2>2, <2>3, <2>4, <1>3 DEF LifecycleInv
  <2>5. \A r \in RequestId :
           r \in DOMAIN ra_request' /\ verifier'[r].pc # "done"
           => ra_request'[r].status \in {"PENDING", "EXPIRED_NONE"}
    BY <2>1, <2>3 DEF LifecycleInv
  <2>6. QED
    BY <2>1, <2>2, <2>3, <2>4, <2>5 DEF LifecycleInv
<1>9. QED
  <2>1. CASE CommitRequest(m)
    BY <2>1, <1>5, <1>8 DEF CommitRequest
  <2>2. QED
    BY <1>4, <1>5, <1>6, <1>7, <1>8, <2>1

(* Forwarder and verifier handle a response only once, and the update of   *)
(* the final status is the verifier's last step. *)
LEMMA VerifierLifecycle ==
    TypeOK /\ TypeOK' /\ LifecycleInv /\ VerifierStep => LifecycleInv'
<1> SUFFICES ASSUME TypeOK, TypeOK', LifecycleInv, NEW r \in RequestId,
                    \/ ForwardResponse(r) \/ GetDataToVerify(r) \/ DropResponse(r)
                    \/ SetCompromised(r) \/ Finalize(r)
                    \/ FinalizeBegin(r) \/ FinalizeCommit(r) \/ FinalizeFails(r)
             PROVE  LifecycleInv'
    BY DEF VerifierStep
<1>1. /\ verifier \in [RequestId -> VerifierState]
      /\ channel \in [RequestId -> Channel]
      /\ DOMAIN ra_request \subseteq RequestId
      /\ \A q \in DOMAIN ra_request : ra_request[q] \in RequestRow
      /\ verifier[r] \in VerifierState
  BY DEF TypeOK, TablesOK
<1>2. verifier[r].pc # "none" => channel[r] = "arrived"
  BY DEF LifecycleInv
<1>3. CASE ForwardResponse(r)
  <2>1. /\ channel[r] = "request"
        /\ channel'[r] = "arrived"
        /\ verifier'[r].pc \in {"get_data", "dropped"}
        /\ \A q \in RequestId \ {r} : channel'[q] = channel[q] /\ verifier'[q] = verifier[q]
        /\ UNCHANGED <<ra_request, request_seq, issued_by, manager>>
    <3>1. CASE verifier' = [verifier EXCEPT ![r] = [pc |-> "dropped"]]
      BY <3>1, <1>3, <1>1 DEF ForwardResponse
    <3>2. CASE \E right \in BOOLEAN, known \in {TRUE, "verifier" \notin Failures} :
                  verifier' = [verifier EXCEPT ![r] =
                                 [pc |-> "get_data", right |-> right,
                                  in_time |-> age[r] = "fresh", app_known |-> known]]
      <4>1. PICK right, known :
                  verifier' = [verifier EXCEPT ![r] =
                                 [pc |-> "get_data", right |-> right,
                                  in_time |-> age[r] = "fresh", app_known |-> known]]
        BY <3>2, Zenon
      <4> DEFINE state == [pc |-> "get_data", right |-> right,
                           in_time |-> age[r] = "fresh", app_known |-> known]
      <4>2. state.pc = "get_data"
        BY Zenon
      <4>3. verifier' = [verifier EXCEPT ![r] = state]
        BY <4>1, Zenon
      <4> HIDE DEF state
      <4>4. verifier'[r] = state /\ \A q \in RequestId \ {r} : verifier'[q] = verifier[q]
        BY <4>3, <1>1
      <4>5. QED
        BY <4>2, <4>4, <1>3, <1>1 DEF ForwardResponse
    <3>3. QED
      BY <1>3, <3>1, <3>2, Zenon DEF ForwardResponse
  <2>2. verifier[r].pc = "none"
    BY <2>1 DEF LifecycleInv
  <2>3. QED
    BY <2>1, <2>2, LifecycleOfOne DEF LifecycleInv
<1>4. CASE GetDataToVerify(r) \/ DropResponse(r) \/ SetCompromised(r)
           \/ FinalizeBegin(r) \/ FinalizeFails(r)
  <2>1. /\ verifier[r].pc \in {"get_data", "compromised", "finalize"}
        /\ verifier'[r].pc \in {"compromised", "finalize", "trigger", "dropped"}
        /\ \A q \in RequestId \ {r} : verifier'[q] = verifier[q]
        /\ UNCHANGED <<channel, ra_request, request_seq, issued_by, manager>>
    BY <1>4, <1>1, CompromisedState
       DEF GetDataToVerify, DropResponse, SetCompromised, FinalizeBegin, FinalizeFails,
           ra_db_set_reaction_status
  <2>2. ASSUME verifier'[r].pc \in {"compromised", "finalize", "trigger"}
        PROVE  /\ r \in DOMAIN ra_request
               /\ verifier'[r].status \in Lifecycle!Judgement
    <3>1. CASE GetDataToVerify(r)
      BY <3>1, <1>1 DEF GetDataToVerify, Verdict, Lifecycle!Judgement
    <3>2. CASE DropResponse(r) \/ FinalizeFails(r)
      BY <3>2, <2>2, <1>1 DEF DropResponse, FinalizeFails
    <3>3. CASE SetCompromised(r)
      BY <3>3, <1>1, CompromisedState DEF SetCompromised, LifecycleInv
    <3>4. CASE FinalizeBegin(r)
      BY <3>4, <1>1 DEF FinalizeBegin, LifecycleInv
    <3>5. QED
      BY <1>4, <3>1, <3>2, <3>3, <3>4
  <2>3. r \in DOMAIN ra_request => ra_request[r].status \in {"PENDING", "EXPIRED_NONE"}
    BY <2>1 DEF LifecycleInv
  <2>4. QED
    BY <1>2, <2>1, <2>2, <2>3, LifecycleOfOne
<1>5. CASE Finalize(r) \/ FinalizeCommit(r)
  <2>1. /\ verifier[r].pc \in {"finalize", "trigger"}
        /\ verifier'[r].pc = "done"
        /\ \A q \in RequestId \ {r} : verifier'[q] = verifier[q]
        /\ ra_request' = Finalized(r, verifier[r].status)
        /\ UNCHANGED <<channel, request_seq, issued_by, manager>>
    BY <1>5, <1>1 DEF Finalize, FinalizeCommit, ra_db_finalize_request
  <2>2. /\ DOMAIN ra_request' = DOMAIN ra_request
        /\ \A q \in RequestId \ {r} : q \in DOMAIN ra_request => ra_request'[q] = ra_request[q]
    BY <2>1 DEF Finalized
  <2>3. QED
    BY <1>2, <2>1, <2>2, LifecycleOfOne
<1>6. QED
  BY <1>3, <1>4, <1>5

(* Lost messages, the sanitizer, extractors and a restart keep LifecycleInv. *)
LEMMA OtherLifecycle ==
    TypeOK /\ TypeOK' /\ LifecycleInv
      /\ [ManagerCrash \/ NetworkStep \/ MaintenanceStep]_vars
    => LifecycleInv'
<1> SUFFICES ASSUME TypeOK, TypeOK', LifecycleInv,
                    [ManagerCrash \/ NetworkStep \/ MaintenanceStep]_vars
             PROVE  LifecycleInv'
    OBVIOUS
<1>1. CASE \E r \in RequestId : MessageLost(r)
  <2>1. PICK r \in RequestId : MessageLost(r)
    BY <1>1
  <2>2. /\ channel[r] = "request"
        /\ channel'[r] = "lost"
        /\ \A q \in RequestId \ {r} : channel'[q] = channel[q]
        /\ UNCHANGED <<ra_request, request_seq, issued_by, manager, verifier>>
    BY <2>1 DEF MessageLost, TypeOK
  <2>3. verifier[r].pc = "none"
    BY <2>2 DEF LifecycleInv
  <2>4. QED
    BY <2>2, <2>3, LifecycleOfOne DEF LifecycleInv
<1>2. CASE Sanitize
  <2>1. /\ DOMAIN ra_request' = DOMAIN ra_request
        /\ UNCHANGED <<request_seq, issued_by, manager, channel, verifier>>
    BY <1>2 DEF Sanitize, RequestsSanitizer
  <2>2. \A r \in DOMAIN ra_request :
           \/ ra_request'[r] = ra_request[r]
           \/ ra_request'[r].status = "EXPIRED_NONE"
    BY <1>2, WithStatusRow DEF Sanitize, RequestsSanitizer, TypeOK, TablesOK, request_status_t
  <2>3. QED
    BY <2>1, <2>2 DEF LifecycleInv
<1>3. CASE ManagerCrash \/ (\E r \in RequestId : AgeRequest(r))
           \/ (\E att \in Attestator : Extract(att) \/ ExtractorExit(att))
           \/ UNCHANGED vars
  <2>1. UNCHANGED <<ra_request, request_seq, channel, verifier, issued_by>>
    BY <1>3 DEF ManagerCrash, AgeRequest, Extract, insert_data, ExtractorExit
  <2>2. ASSUME NEW m \in Managers, manager'[m].pc \in {"send", "commit"}
        PROVE  manager'[m] = manager[m]
    BY <1>3, <2>2 DEF ManagerCrash, AgeRequest, Extract, ExtractorExit
  <2>3. QED
    BY <2>1, <2>2, LifecycleUntouched
<1>4. QED
  BY <1>1, <1>2, <1>3 DEF NetworkStep, MaintenanceStep

(* The ids that managers, verifiers and the network hold always agree with *)
(* the table: a request is committed by the one manager that numbered it,  *)
(* and a verifier process only ever writes a verdict on a recorded request *)
(* that has none.                                                          *)
THEOREM LifecycleInvHolds == Spec => []LifecycleInv
<1>1. Init => LifecycleInv
  BY InitLifecycle
<1>2. TypeOK /\ TypeOK' /\ LifecycleInv /\ [Next]_vars => LifecycleInv'
  BY ListenerLifecycle, ManagerLifecycle, VerifierLifecycle, OtherLifecycle DEF Next
<1>3. QED
  BY <1>1, <1>2, TypeCorrect, PTL DEF Spec

-----------------------------------------------------------------------------
(* Refinement *)

(* Every step is a step of RequestLifecycle or leaves all statuses alone. *)
LEMMA LifecycleStep ==
    TypeOK /\ TypeOK' /\ LifecycleInv /\ [Next]_vars
    => [Lifecycle!Next]_RequestStatus
<1> SUFFICES ASSUME TypeOK, TypeOK', LifecycleInv, [Next]_vars
             PROVE  Lifecycle!Next \/ UNCHANGED RequestStatus
    OBVIOUS
<1>1. /\ DOMAIN ra_request \subseteq RequestId
      /\ \A q \in DOMAIN ra_request : ra_request[q] \in RequestRow
      /\ verifier \in [RequestId -> VerifierState]
  BY DEF TypeOK, TablesOK
<1>2. ASSUME UNCHANGED ra_request PROVE UNCHANGED RequestStatus
  BY <1>2 DEF RequestStatus
<1>3. ASSUME NEW m \in Managers, manager[m].pc \in {"send", "commit"},
             commit_request(manager[m].id, Row(m))
      PROVE  Lifecycle!Next
  <2>1. manager[m].id \in RequestId /\ manager[m].id \notin DOMAIN ra_request
    <3>1. manager[m] \in ManagerState
      BY DEF TypeOK
    <3>2. manager[m].id \in RequestId
      BY <1>3, <3>1 DEF ManagerState
    <3>3. QED
      BY <1>3, <3>2 DEF LifecycleInv
  <2>2. /\ DOMAIN ra_request' = DOMAIN ra_request \cup {manager[m].id}
        /\ ra_request'[manager[m].id].status = "PENDING"
        /\ \A r \in DOMAIN ra_request : ra_request'[r] = ra_request[r]
    BY <1>3, <2>1 DEF commit_request, Insert, Row
  <2>3. RequestStatus' = [RequestStatus EXCEPT ![manager[m].id] = "PENDING"]
    BY <2>1, <2>2 DEF RequestStatus
  <2>4. RequestStatus[manager[m].id] = "absent"
    BY <2>1 DEF RequestStatus
  <2>5. Lifecycle!Issue(manager[m].id)
    BY <2>3, <2>4 DEF Lifecycle!Issue
  <2>6. QED
    BY <2>1, <2>5 DEF Lifecycle!Next
<1>4. ASSUME NEW r \in RequestId, Finalize(r) \/ FinalizeCommit(r)
      PROVE  Lifecycle!Next
  <2>1. /\ verifier[r].pc \in {"finalize", "trigger"}
        /\ ra_request' = Finalized(r, verifier[r].status)
    BY <1>4 DEF Finalize, FinalizeCommit, ra_db_finalize_request
  <2>2. /\ r \in DOMAIN ra_request
        /\ ra_request[r].status \in {"PENDING", "EXPIRED_NONE"}
        /\ verifier[r].status \in Lifecycle!Judgement
    BY <2>1 DEF LifecycleInv
  <2>3. verifier[r].status \in request_status_t
    BY <2>2 DEF Lifecycle!Judgement, request_status_t
  <2>4. /\ DOMAIN ra_request' = DOMAIN ra_request
        /\ ra_request'[r].status = verifier[r].status
        /\ \A q \in DOMAIN ra_request \ {r} : ra_request'[q] = ra_request[q]
    BY <2>1, <2>2, <2>3, <1>1, WithStatusRow DEF Finalized
  <2>5. RequestStatus' = [RequestStatus EXCEPT ![r] = verifier[r].status]
    BY <2>2, <2>4 DEF RequestStatus
  <2>6. RequestStatus[r] \in {"PENDING", "EXPIRED_NONE"}
    BY <2>2 DEF RequestStatus
  <2>7. Lifecycle!Judge(r, verifier[r].status)
    BY <2>5, <2>6 DEF Lifecycle!Judge
  <2>8. QED
    BY <2>2, <2>7 DEF Lifecycle!Next
<1>5. ASSUME Sanitize PROVE Lifecycle!Next
  <2> DEFINE S == {r \in DOMAIN ra_request : age[r] = "over" /\ ra_request[r].status = "PENDING"}
  <2>1. ra_request' = [r \in DOMAIN ra_request |->
                         IF r \in S THEN WithStatus(ra_request[r], "EXPIRED_NONE")
                                    ELSE ra_request[r]]
    BY <1>5, <1>1 DEF Sanitize, RequestsSanitizer
  <2>2. S \in SUBSET RequestId
    BY <1>1
  <2>3. \A r \in S : RequestStatus[r] = "PENDING"
    BY <1>1 DEF RequestStatus
  <2>4. "EXPIRED_NONE" \in request_status_t
    BY DEF request_status_t
  <2>5. /\ DOMAIN ra_request' = DOMAIN ra_request
        /\ \A r \in S : ra_request'[r].status = "EXPIRED_NONE"
        /\ \A r \in DOMAIN ra_request \ S : ra_request'[r] = ra_request[r]
    BY <2>1, <2>4, <1>1, WithStatusRow
  <2> HIDE DEF S
  <2>6. S \subseteq DOMAIN ra_request
    BY DEF S
  <2>7. RequestStatus' = [r \in RequestId |-> IF r \in S THEN "EXPIRED_NONE"
                                                         ELSE RequestStatus[r]]
    BY <2>5, <2>6 DEF RequestStatus
  <2>8. Lifecycle!Expire(S)
    BY <2>3, <2>7 DEF Lifecycle!Expire
  <2>9. QED
    BY <2>2, <2>8 DEF Lifecycle!Next
<1>6. ASSUME ListenerStep PROVE UNCHANGED ra_request
  BY <1>6 DEF ListenerStep, OpenConnection, CloseConnection, StartSession,
     StartSessionFails, SetUnknown, SetUnknownFails, RevokeSession,
     PassClientUp, NotifyClientDown, close_all_active_sessions, ra_db_close_session,
     insert_session, ra_db_set_reaction_status, ra_db_revoke_session
<1>7. ASSUME ManagerStep PROVE Lifecycle!Next \/ UNCHANGED ra_request
  BY <1>3, <1>7 DEF ManagerStep, TakeClientUp, TakeClientDown, SelectStartupNonce,
     StartupNoData, StartupLabelFails, InsertClient, ServeClient, InsertRequest,
     InsertRequestFails, SendRequest, SendRequestFails, SendBufferFails, CommitRequest
<1>8. ASSUME VerifierStep PROVE Lifecycle!Next \/ UNCHANGED ra_request
  BY <1>4, <1>8 DEF VerifierStep, ForwardResponse, GetDataToVerify, DropResponse,
     SetCompromised, FinalizeBegin, FinalizeFails, ra_db_set_reaction_status
<1>9. ASSUME ManagerCrash \/ NetworkStep \/ MaintenanceStep \/ UNCHANGED vars
      PROVE  Lifecycle!Next \/ UNCHANGED ra_request
  BY <1>5, <1>9 DEF ManagerCrash, NetworkStep, MessageLost, AgeRequest, MaintenanceStep,
     Extract, insert_data, ExtractorExit
<1>10. QED
  BY <1>2, <1>6, <1>7, <1>8, <1>9 DEF Next

(* The server implements RequestLifecycle: with any number of managers,    *)
(* verifier processes and sanitizer calls in any order, and whatever fails *)
(* or crashes, a request is recorded at most once, only pending requests   *)
(* are given up, and each is judged at most once, although                 *)
(* ra_db_finalize_request writes its verdict without looking at the row.   *)
THEOREM LifecycleRefinement == Spec => LifecycleImplemented
<1>1. Init => Lifecycle!Init
  <2>1. Init => DOMAIN ra_request = {}
    BY DEF Init, TablesInit
  <2>2. QED
    BY <2>1 DEF Lifecycle!Init, RequestStatus
<1>2. TypeOK /\ TypeOK' /\ LifecycleInv /\ [Next]_vars => [Lifecycle!Next]_RequestStatus
  BY LifecycleStep
<1>3. QED
  BY <1>1, <1>2, TypeCorrect, LifecycleInvHolds, PTL
     DEF Spec, LifecycleImplemented, Lifecycle!Spec

-----------------------------------------------------------------------------
(* Nonces *)

(* The thread has selected a prepared datum and not yet committed it. *)
Holding(m) == manager[m].pc \in {"insert", "send", "commit"}

(* What makes NonceReuseNeedsTwoManagers inductive: the datum that a thread *)
(* has selected may since have been committed, but by another thread.      *)
NonceInv ==
    /\ NonceReuseNeedsTwoManagers
    /\ "manager" \notin Failures =>
          \A m \in Managers, r \in DOMAIN ra_request :
             Holding(m) /\ ra_request[r].prepared_data_id = manager[m].data
             => issued_by[r] # m

(* Steps after which the threads hold no other data than before, and that  *)
(* neither add rows nor change whose they are.                             *)
LEMMA NonceUntouched ==
    ASSUME NonceInv,
           DOMAIN ra_request' = DOMAIN ra_request,
           \A r \in DOMAIN ra_request :
              /\ ra_request'[r].prepared_data_id = ra_request[r].prepared_data_id
              /\ issued_by'[r] = issued_by[r],
           \A m \in Managers :
              Holding(m)' => Holding(m) /\ manager'[m].data = manager[m].data
    PROVE  NonceInv'
<1>1. NonceReuseNeedsTwoManagers'
  BY DEF NonceInv, NonceReuseNeedsTwoManagers
<1>2. QED
  BY <1>1 DEF NonceInv

(* A thread selects only data that no committed request refers to, and     *)
(* forgets the datum when it commits.                                      *)
LEMMA ManagerNonces ==
    ASSUME TypeOK, LifecycleInv, NonceInv, ManagerStep
    PROVE  NonceInv'
<1> PICK m \in Managers :
        \/ TakeClientUp(m) \/ TakeClientDown(m)
        \/ SelectStartupNonce(m) \/ StartupNoData(m)
        \/ StartupLabelFails(m) \/ InsertClient(m) \/ ServeClient(m)
        \/ InsertRequest(m) \/ InsertRequestFails(m)
        \/ SendRequest(m) \/ SendRequestFails(m) \/ SendBufferFails(m)
        \/ CommitRequest(m)
    BY DEF ManagerStep
<1>1. /\ manager \in [Managers -> ManagerState]
      /\ issued_by \in [RequestId -> Managers \cup {NoManager}]
      /\ DOMAIN ra_request \subseteq RequestId
      /\ request_seq \in 0 .. MaxRequest
  BY DEF TypeOK, TablesOK
<1>2. ASSUME Returned(m)
      PROVE  /\ ~Holding(m)'
             /\ \A n \in Managers \ {m} : manager'[n] = manager[n]
  BY <1>1, <1>2 DEF Returned, Holding
<1>3. CASE SelectStartupNonce(m) \/ ServeClient(m)
  <2>1. /\ UNCHANGED <<ra_request, issued_by>>
        /\ \A n \in Managers \ {m} : manager'[n] = manager[n]
    BY <1>1, <1>3 DEF SelectStartupNonce, ServeClient
  <2>2. \/ manager' = manager
        \/ \A r \in DOMAIN ra_request : ra_request[r].prepared_data_id # manager'[m].data
    <3>1. CASE SelectStartupNonce(m)
      <4>1. PICK att \in Attestator : manager'[m].data \in ValidNonces(att)
        BY <1>1, <3>1 DEF SelectStartupNonce, ValidNoncesByLabel, ManagerState, Client
      <4>2. QED
        BY <4>1 DEF ValidNonces
    <3>2. CASE ServeClient(m)
      <4>1. CASE UNCHANGED manager
        BY <4>1
      <4>2. CASE ~UNCHANGED manager
        <5>1. PICK c \in clients[m] : manager'[m].data \in ValidNonces(c.attestator_id)
          BY <1>1, <3>2, <4>2 DEF ServeClient
        <5>2. QED
          BY <5>1 DEF ValidNonces
      <4>3. QED
        BY <4>1, <4>2
    <3>3. QED
      BY <1>3, <3>1, <3>2
  <2>3. CASE manager' = manager
    BY <2>1, <2>3, NonceUntouched DEF Holding
  <2>4. CASE \A r \in DOMAIN ra_request : ra_request[r].prepared_data_id # manager'[m].data
    <3>1. NonceReuseNeedsTwoManagers'
      BY <2>1 DEF NonceInv, NonceReuseNeedsTwoManagers
    <3>2. QED
      BY <2>1, <2>4, <3>1 DEF NonceInv, Holding
  <2>5. QED
    BY <2>2, <2>3, <2>4
<1>4. CASE TakeClientUp(m) \/ TakeClientDown(m) \/ StartupNoData(m) \/ InsertClient(m)
  <2>1. /\ UNCHANGED <<ra_request, issued_by>>
        /\ \A n \in Managers : manager'[n] = manager[n] \/ ~Holding(n)'
    BY <1>1, <1>4 DEF TakeClientUp, TakeClientDown, StartupNoData, InsertClient, Holding
  <2>2. QED
    BY <2>1, NonceUntouched DEF Holding
<1>5. CASE InsertRequest(m)
  <2>1. /\ UNCHANGED ra_request
        /\ request_seq' = request_seq + 1
        /\ issued_by' = [issued_by EXCEPT ![request_seq'] = m]
        /\ manager[m].pc = "insert"
        /\ manager'[m].data = manager[m].data
        /\ \A n \in Managers \ {m} : manager'[n] = manager[n]
    BY <1>1, <1>5 DEF InsertRequest
  <2>2. \A r \in DOMAIN ra_request : issued_by'[r] = issued_by[r]
    BY <1>1, <2>1 DEF LifecycleInv
  <2>3. QED
    BY <2>1, <2>2, NonceUntouched DEF Holding
<1>6. CASE SendRequest(m)
  <2>1. /\ UNCHANGED <<ra_request, issued_by>>
        /\ manager[m].pc = "send"
        /\ manager'[m].data = manager[m].data
        /\ \A n \in Managers \ {m} : manager'[n] = manager[n]
    BY <1>1, <1>6, SentState DEF SendRequest
  <2>2. QED
    BY <2>1, NonceUntouched DEF Holding
<1>7. CASE Returned(m) /\ UNCHANGED <<ra_request, issued_by>>
  BY <1>2, <1>7, NonceUntouched DEF Holding
<1>8. CASE SendBufferFails(m)
           \/ (CommitRequest(m) /\ commit_request(manager[m].id, Row(m)))
  <2>1. /\ manager[m].pc \in {"send", "commit"}
        /\ commit_request(manager[m].id, Row(m))
        /\ Returned(m)
        /\ UNCHANGED issued_by
    BY <1>8 DEF SendBufferFails, CommitRequest
  <2>2. manager[m].id \notin DOMAIN ra_request /\ issued_by[manager[m].id] = m
    BY <2>1 DEF LifecycleInv
  <2>3. /\ DOMAIN ra_request' = DOMAIN ra_request \cup {manager[m].id}
        /\ ra_request'[manager[m].id].prepared_data_id = manager[m].data
        /\ \A r \in DOMAIN ra_request : ra_request'[r] = ra_request[r]
    BY <2>1, <2>2 DEF commit_request, Insert, Row
  <2>4. "manager" \notin Failures =>
           \A r \in DOMAIN ra_request :
              ra_request[r].prepared_data_id = manager[m].data => issued_by[r] # m
    BY <2>1 DEF NonceInv, Holding
  <2>5. NonceReuseNeedsTwoManagers'
    BY <2>1, <2>2, <2>3, <2>4 DEF NonceInv, NonceReuseNeedsTwoManagers
  <2>6. ASSUME NEW n \in Managers, Holding(n)'
        PROVE  n # m /\ manager'[n] = manager[n] /\ Holding(n)
    BY <1>2, <2>1, <2>6 DEF Holding
  <2>7. QED
    BY <2>1, <2>2, <2>3, <2>5, <2>6 DEF NonceInv
<1>9. CASE StartupLabelFails(m)
  BY <1>9 DEF StartupLabelFails, NonceInv, NonceReuseNeedsTwoManagers
<1>10. QED
  BY <1>3, <1>4, <1>5, <1>6, <1>7, <1>8, <1>9 DEF InsertRequestFails, SendRequestFails,
     CommitRequest

(* The other processes select and insert nothing. *)
LEMMA OtherNonces ==
    ASSUME TypeOK, NonceInv,
           [ListenerStep \/ ManagerCrash \/ NetworkStep \/ VerifierStep \/ MaintenanceStep]_vars
    PROVE  NonceInv'
<1>1. UNCHANGED issued_by
  BY DEF ListenerStep, OpenConnection, CloseConnection, StartSession,
     StartSessionFails, SetUnknown, SetUnknownFails, RevokeSession,
     PassClientUp, NotifyClientDown, ManagerCrash, NetworkStep, MessageLost, AgeRequest,
     VerifierStep, ForwardResponse, GetDataToVerify, DropResponse, SetCompromised,
     Finalize, FinalizeBegin, FinalizeCommit, FinalizeFails, MaintenanceStep, Sanitize,
     Extract, ExtractorExit
<1>2. ASSUME NEW m \in Managers, Holding(m)' PROVE manager'[m] = manager[m]
  <2>1. CASE ListenerStep
    BY <1>2, <2>1 DEF ListenerStep, OpenConnection, CloseConnection, StartSession,
       StartSessionFails, SetUnknown, SetUnknownFails, RevokeSession,
       PassClientUp, NotifyClientDown, Holding, TypeOK
  <2>2. CASE ManagerCrash
    BY <1>2, <2>2 DEF ManagerCrash, Holding
  <2>3. CASE NetworkStep \/ VerifierStep \/ MaintenanceStep \/ UNCHANGED vars
    BY <2>3 DEF NetworkStep, MessageLost, AgeRequest, VerifierStep, ForwardResponse,
       GetDataToVerify, DropResponse, SetCompromised, Finalize, FinalizeBegin,
       FinalizeCommit, FinalizeFails, MaintenanceStep, Sanitize, Extract, ExtractorExit
  <2>4. QED
    BY <2>1, <2>2, <2>3
<1>3. /\ DOMAIN ra_request' = DOMAIN ra_request
      /\ \A r \in DOMAIN ra_request :
            ra_request'[r].prepared_data_id = ra_request[r].prepared_data_id
  <2>1. /\ ra_request \in [DOMAIN ra_request -> RequestRow]
        /\ "EXPIRED_NONE" \in request_status_t
    BY DEF TypeOK, TablesOK, request_status_t
  <2>2. CASE UNCHANGED ra_request
    BY <2>2
  <2>3. CASE \E r \in RequestId : Finalize(r) \/ FinalizeCommit(r)
    <3>1. PICK r \in RequestId : Finalize(r) \/ FinalizeCommit(r)
      BY <2>3
    <3>2. verifier[r].status \in request_status_t
      BY <3>1 DEF Finalize, FinalizeCommit, TypeOK, VerifierState
    <3>3. ra_request' = Finalized(r, verifier[r].status)
      BY <3>1 DEF Finalize, FinalizeCommit, ra_db_finalize_request
    <3>4. QED
      BY <2>1, <3>2, <3>3, WithStatusRow DEF Finalized
  <2>4. CASE Sanitize
    BY <2>1, <2>4, WithStatusRow DEF Sanitize, RequestsSanitizer
  <2>5. CASE ListenerStep
    BY <2>2, <2>5 DEF ListenerStep, OpenConnection, CloseConnection, StartSession,
       StartSessionFails, SetUnknown, SetUnknownFails, RevokeSession,
       PassClientUp, NotifyClientDown, close_all_active_sessions, insert_session,
       ra_db_close_session, ra_db_revoke_session, ra_db_set_reaction_status
  <2>6. CASE ManagerCrash \/ NetworkStep \/ VerifierStep \/ MaintenanceStep \/ UNCHANGED vars
    BY <2>2, <2>3, <2>4, <2>6 DEF ManagerCrash, NetworkStep, MessageLost, AgeRequest,
       VerifierStep, ForwardResponse, GetDataToVerify, DropResponse, SetCompromised,
       FinalizeBegin, FinalizeFails, ra_db_set_reaction_status, MaintenanceStep,
       Extract, insert_data, ExtractorExit
  <2>7. QED
    BY <2>5, <2>6
<1>4. QED
  BY <1>1, <1>2, <1>3, NonceUntouched DEF Holding

(* Two committed requests with the same nonce were issued by two different *)
(* manager threads, whatever fails in the other processes and however      *)
(* often the process is restarted: while its own calls succeed, one        *)
(* manager thread uses no nonce twice.                                     *)
THEOREM NonceReuseNeedsTwoManagersHolds == Spec => []NonceReuseNeedsTwoManagers
<1>1. Init => NonceInv
  <2>1. Init => DOMAIN ra_request = {}
    BY DEF Init, TablesInit
  <2>2. QED
    BY <2>1 DEF NonceInv, NonceReuseNeedsTwoManagers
<1>2. TypeOK /\ LifecycleInv /\ NonceInv /\ [Next]_vars => NonceInv'
  BY ManagerNonces, OtherNonces DEF Next
<1>3. NonceInv => NonceReuseNeedsTwoManagers
  BY DEF NonceInv
<1>4. QED
  BY <1>1, <1>2, <1>3, TypeCorrect, LifecycleInvHolds, PTL DEF Spec

-----------------------------------------------------------------------------
(***************************************************************************)
(* The verdict on an application is well founded: trigger                  *)
(* startup_attestation only counts, and the counts agree only when every   *)
(* startup area of every attestator has been attested in an active         *)
(* session.                                                                *)
(***************************************************************************)

(* The inductive invariant *)

(* The thread is attesting a client at startup. *)
StartingUp(m) ==
    \/ manager[m].pc = "startup"
    \/ manager[m].pc \in {"insert", "send", "commit"} /\ manager[m].is_startup

(* Session s holds a startup request for the area. *)
Asked(s, label) ==
    \E r \in DOMAIN ra_request :
        /\ ra_request[r].is_startup
        /\ ra_request[r].session_id = s
        /\ AreaOf(r) = label

(* What listener, slot or thread hold of an attestator (attestator_id and  *)
(* session_id) agrees with the table of sessions.                          *)
HandOffOK(c) ==
    /\ c.session_id <= session_seq
    /\ c.session_id \in DOMAIN ra_session
       => ra_session[c.session_id].attestator_id = c.attestator_id

(* Requests refer to existing data and sessions; a startup request belongs *)
(* to a session whose startup attestation was begun, and, unless that is   *)
(* irregular, asks about a startup area of its attestator.                 *)
RequestsInv ==
    \A r \in DOMAIN ra_request :
        LET s == ra_request[r].session_id IN
        /\ ra_request[r].prepared_data_id \in DOMAIN ra_prepared_data
        /\ s \in DOMAIN ra_session
        /\ ra_request[r].is_startup =>
           /\ startup_run[s] # "not_begun"
           /\ startup_run[s] = "regular"
              => AreaOf(r) \in startup_area[ra_session[s].attestator_id]

(* In a regular startup attestation an area that the thread still has to   *)
(* ask about has not been asked about in that session.                     *)
RegularInv(m) ==
    LET s   == manager[m].client.session_id
        att == manager[m].client.attestator_id
    IN  /\ \A label \in manager[m].labels : ~Asked(s, label)
        /\ manager[m].pc # "startup"
           => LET label == ra_prepared_data[manager[m].data].memory_area
              IN  /\ label \in startup_area[att]
                  /\ label \notin manager[m].labels
                  /\ ~Asked(s, label)

(* What a manager thread holds agrees with the tables. *)
ThreadInv(m) ==
    /\ manager[m].pc \in {"insert", "send", "commit"}
       => manager[m].data \in DOMAIN ra_prepared_data
    /\ manager[m].pc \in {"send", "commit"}
       => manager[m].client.session_id \in DOMAIN ra_session
    /\ StartingUp(m) =>
       /\ HandOffOK(manager[m].client)
       /\ manager[m].labels \subseteq startup_area[manager[m].client.attestator_id]
       /\ startup_run[manager[m].client.session_id] # "not_begun"
       /\ startup_run[manager[m].client.session_id] = "regular" => RegularInv(m)

(* Only in an irregular startup attestation can two threads attest the     *)
(* same session at startup.                                                *)
OneStarter ==
    \A m, n \in Managers :
        /\ StartingUp(m) /\ StartingUp(n)
        /\ manager[m].client.session_id = manager[n].client.session_id
        /\ startup_run[manager[m].client.session_id] = "regular"
        => m = n

(* What the listener is about to pass on, and what it has left in a slot. *)
PassedInv == listener.pc \in {"up_reaction", "client_up"} => HandOffOK(listener)

SlotInv(m) == slot[m].action = "client_up" => HandOffOK(slot[m].client)

StartupInv ==
    /\ StartupRequestedOnce
    /\ RequestsInv
    /\ \A m \in Managers : ThreadInv(m)
    /\ OneStarter
    /\ PassedInv
    /\ \A m \in Managers : SlotInv(m)

-----------------------------------------------------------------------------
(* Initially there are no requests and no thread attests anything. *)
LEMMA InitStartup == Init => StartupInv
<1> SUFFICES ASSUME Init PROVE StartupInv
    OBVIOUS
<1>1. /\ DOMAIN ra_request = {}
      /\ \A m \in Managers : manager[m] = [pc |-> "wait"] /\ slot[m].action = "none"
  BY DEF Init, TablesInit
<1>2. \A m \in Managers : ~StartingUp(m)
  BY <1>1 DEF StartingUp
<1>3. QED
  BY <1>1, <1>2 DEF Init, StartupInv, StartupRequestedOnce, RequestsInv, ThreadInv,
                    OneStarter, PassedInv, SlotInv

(* The table of sessions grows, shrinks and keeps the attestators: new ids *)
(* are above the old counter.                                              *)
SessionsGoOn ==
    /\ session_seq <= session_seq'
    /\ \A s \in DOMAIN ra_session' :
          \/ s > session_seq
          \/ s \in DOMAIN ra_session
             /\ ra_session'[s].attestator_id = ra_session[s].attestator_id

(* Then what anybody holds of an attestator still agrees with it. *)
LEMMA HandOffKept ==
    ASSUME TypeOK, TypeOK', SessionsGoOn,
           NEW c, c.session_id \in Int, HandOffOK(c)
    PROVE  HandOffOK(c)'
<1>1. session_seq \in Int /\ session_seq' \in Int
  BY DEF TypeOK, TablesOK
<1>2. QED
  BY <1>1 DEF HandOffOK, SessionsGoOn

(* Steps that leave the slots alone or clear them. *)
LEMMA SlotsKept ==
    ASSUME TypeOK, TypeOK', SessionsGoOn, \A m \in Managers : SlotInv(m),
           \A m \in Managers : \/ slot'[m].action # "client_up"
                               \/ /\ slot[m].action = "client_up"
                                  /\ slot'[m].client = slot[m].client
    PROVE  \A m \in Managers : SlotInv(m)'
<1> SUFFICES ASSUME NEW m \in Managers, slot'[m].action = "client_up"
             PROVE  HandOffOK(slot[m].client)'
    BY DEF SlotInv
<1>1. slot[m].action = "client_up" /\ slot'[m].client = slot[m].client
  OBVIOUS
<1>2. PICK c : c = slot[m].client
  OBVIOUS
<1>3. c \in Client /\ HandOffOK(c)
  BY <1>1, <1>2 DEF TypeOK, SlotState, SlotInv
<1>4. HandOffOK(c)'
  BY <1>3, HandOffKept DEF Client
<1>5. slot'[m].client = c
  BY <1>1, <1>2
<1>6. QED
  BY <1>4, <1>5 DEF HandOffOK

(* Steps that leave what the listener holds alone, or what it waits for. *)
LEMMA PassedKept ==
    ASSUME TypeOK, TypeOK', SessionsGoOn, PassedInv,
           \/ listener'.pc \notin {"up_reaction", "client_up"}
           \/ /\ listener.pc \in {"up_reaction", "client_up"}
              /\ listener'.session_id = listener.session_id
              /\ listener'.attestator_id = listener.attestator_id
    PROVE  PassedInv'
<1> SUFFICES ASSUME listener'.pc \in {"up_reaction", "client_up"}
             PROVE  HandOffOK(listener)'
    BY DEF PassedInv
<1>1. PICK c : c = listener
  OBVIOUS
<1>2. HandOffOK(c) /\ c.session_id \in Int
  BY <1>1 DEF PassedInv, TypeOK, ListenerState
<1>3. HandOffOK(c)'
  BY <1>2, HandOffKept
<1>4. listener'.session_id = c.session_id /\ listener'.attestator_id = c.attestator_id
  BY <1>1
<1>5. QED
  BY <1>3, <1>4 DEF HandOffOK

(* The invariant survives a step that lets prepared data be added, changes *)
(* no more of a request than its status, lets manager threads go on or     *)
(* return to waiting, and deletes no session that is referred to nor       *)
(* reuses the id of one, if what is passed on agrees with the sessions.    *)
LEMMA StartupKept ==
    ASSUME TypeOK, TypeOK', SessionInv, StartupInv,
           DOMAIN ra_prepared_data \subseteq DOMAIN ra_prepared_data',
           \A d \in DOMAIN ra_prepared_data : ra_prepared_data'[d] = ra_prepared_data[d],
           DOMAIN ra_request' = DOMAIN ra_request,
           \A r \in DOMAIN ra_request :
              /\ ra_request'[r].prepared_data_id = ra_request[r].prepared_data_id
              /\ ra_request'[r].session_id = ra_request[r].session_id
              /\ ra_request'[r].is_startup = ra_request[r].is_startup
              /\ ra_request[r].session_id \in DOMAIN ra_session',
           \A m \in Managers : manager'[m] = manager[m] \/ manager'[m] = [pc |-> "wait"],
           \A m \in Managers :
              manager'[m].pc \in {"send", "commit"}
              => manager[m].client.session_id \in DOMAIN ra_session',
           SessionsGoOn,
           UNCHANGED startup_run,
           PassedInv',
           \A m \in Managers : SlotInv(m)'
    PROVE  StartupInv'
<1>1. ASSUME NEW r \in DOMAIN ra_request PROVE AreaOf(r)' = AreaOf(r)
  BY DEF AreaOf, StartupInv, RequestsInv
<1>2. ASSUME NEW m \in Managers, StartingUp(m)'
      PROVE  StartingUp(m) /\ manager'[m] = manager[m]
  BY <1>2 DEF StartingUp
<1>3. \A s, label : Asked(s, label)' => Asked(s, label)
  BY <1>1 DEF Asked
<1>4. StartupRequestedOnce'
  BY <1>1 DEF StartupInv, StartupRequestedOnce
<1>5. RequestsInv'
  <2>1. SUFFICES ASSUME NEW r \in DOMAIN ra_request
                 PROVE  /\ ra_request[r].prepared_data_id \in DOMAIN ra_prepared_data'
                        /\ ra_request[r].session_id \in DOMAIN ra_session'
                        /\ ra_request[r].is_startup =>
                           /\ startup_run[ra_request[r].session_id] # "not_begun"
                           /\ startup_run[ra_request[r].session_id] = "regular"
                              => AreaOf(r) \in
                                 startup_area[ra_session'[ra_request[r].session_id].attestator_id]
    BY <1>1 DEF RequestsInv
  <2>2. /\ ra_request[r].prepared_data_id \in DOMAIN ra_prepared_data
        /\ ra_request[r].session_id \in DOMAIN ra_session
        /\ ra_request[r].is_startup =>
           /\ startup_run[ra_request[r].session_id] # "not_begun"
           /\ startup_run[ra_request[r].session_id] = "regular"
              => AreaOf(r) \in startup_area[ra_session[ra_request[r].session_id].attestator_id]
    BY DEF StartupInv, RequestsInv
  <2>3. ra_request[r].session_id <= session_seq /\ ra_request[r].session_id \in Int
    BY <2>2 DEF SessionInv, TypeOK, TablesOK
  <2>4. session_seq \in Int
    BY DEF TypeOK, TablesOK
  <2>5. QED
    BY <2>2, <2>3, <2>4 DEF SessionsGoOn
<1>6. ASSUME NEW m \in Managers PROVE ThreadInv(m)'
  <2>1. ThreadInv(m)
    BY DEF StartupInv
  <2>2. CASE manager'[m] = [pc |-> "wait"]
    BY <2>2 DEF ThreadInv, StartingUp
  <2>3. CASE manager'[m] = manager[m]
    <3>1. /\ manager'[m].pc \in {"insert", "send", "commit"}
             => /\ manager'[m].data \in DOMAIN ra_prepared_data'
                /\ ra_prepared_data'[manager[m].data] = ra_prepared_data[manager[m].data]
          /\ manager'[m].pc \in {"send", "commit"}
             => manager'[m].client.session_id \in DOMAIN ra_session'
      BY <2>1, <2>3 DEF ThreadInv
    <3>2. ASSUME StartingUp(m)'
          PROVE  HandOffOK(manager[m].client)'
      <4>1. StartingUp(m)
        BY <1>2, <3>2
      <4>2. PICK c : c = manager[m].client
        OBVIOUS
      <4>3. c \in Client /\ HandOffOK(c)
        BY <2>1, <4>1, <4>2 DEF StartingUp, TypeOK, ManagerState, ThreadInv
      <4>4. HandOffOK(c)'
        BY <4>3, HandOffKept DEF Client
      <4>5. manager'[m].client = c
        BY <2>3, <4>2
      <4>6. QED
        BY <4>4, <4>5 DEF HandOffOK
    <3>3. ASSUME StartingUp(m)', RegularInv(m) PROVE RegularInv(m)'
      BY <1>3, <2>3, <3>1, <3>3 DEF RegularInv, StartingUp
    <3>4. QED
      BY <1>2, <2>1, <2>3, <3>1, <3>2, <3>3 DEF ThreadInv
  <2>4. QED
    BY <2>2, <2>3
<1>7. OneStarter'
  BY <1>2 DEF StartupInv, OneStarter
<1>8. QED
  BY <1>4, <1>5, <1>6, <1>7 DEF StartupInv

(* Steps that leave sessions, threads, slots and listener alone. *)
LEMMA StartupUntouched ==
    ASSUME TypeOK, TypeOK', SessionInv, StartupInv,
           UNCHANGED <<ra_session, session_seq, manager, listener, slot, startup_run>>,
           DOMAIN ra_prepared_data \subseteq DOMAIN ra_prepared_data',
           \A d \in DOMAIN ra_prepared_data : ra_prepared_data'[d] = ra_prepared_data[d],
           DOMAIN ra_request' = DOMAIN ra_request,
           \A r \in DOMAIN ra_request :
              /\ ra_request'[r].prepared_data_id = ra_request[r].prepared_data_id
              /\ ra_request'[r].session_id = ra_request[r].session_id
              /\ ra_request'[r].is_startup = ra_request[r].is_startup
    PROVE  StartupInv'
<1>1. PassedInv' /\ \A m \in Managers : SlotInv(m)'
  BY DEF StartupInv, PassedInv, SlotInv, HandOffOK
<1>2. \A r \in DOMAIN ra_request : ra_request[r].session_id \in DOMAIN ra_session
  BY DEF StartupInv, RequestsInv
<1>3. \A m \in Managers : manager[m].pc \in {"send", "commit"}
                         => manager[m].client.session_id \in DOMAIN ra_session
  BY DEF StartupInv, ThreadInv
<1>4. SessionsGoOn
  BY DEF TypeOK, TablesOK, SessionsGoOn
<1>5. QED
  BY <1>1, <1>2, <1>3, <1>4, StartupKept

(* Verifiers and sanitizer change the status of requests only, extractors  *)
(* add data, and a restart of the manager ends all attestations.           *)
LEMMA OtherStartup ==
    ASSUME TypeOK, TypeOK', SessionInv, StartupInv,
           [ManagerCrash \/ NetworkStep \/ VerifierStep \/ MaintenanceStep]_vars
    PROVE  StartupInv'
<1>1. CASE ManagerCrash
  <2>1. /\ UNCHANGED <<tables, startup_run>>
        /\ \A m \in Managers : manager'[m] = [pc |-> "wait"] /\ slot'[m].action = "none"
        /\ listener' = [pc |-> "idle"]
    BY <1>1 DEF ManagerCrash
  <2>2. PassedInv' /\ \A m \in Managers : SlotInv(m)'
    BY <2>1 DEF PassedInv, SlotInv
  <2>3. \A r \in DOMAIN ra_request : ra_request[r].session_id \in DOMAIN ra_session
    BY DEF StartupInv, RequestsInv
  <2>4. SessionsGoOn
    BY <2>1 DEF TypeOK, TablesOK, SessionsGoOn
  <2>5. QED
    BY <2>1, <2>2, <2>3, <2>4, StartupKept
<1>2. CASE \E att \in Attestator : Extract(att)
  <2>1. /\ UNCHANGED <<ra_session, session_seq, manager, listener, slot, startup_run, ra_request>>
        /\ \E row \in DataRow : ra_prepared_data' = Append(ra_prepared_data, row)
    BY <1>2 DEF Extract, insert_data, DataRow
  <2>2. ra_prepared_data \in Seq(DataRow)
    BY DEF TypeOK, TablesOK
  <2>3. QED
    BY <2>1, <2>2, StartupUntouched
<1>3. CASE \/ \E r \in RequestId : Finalize(r) \/ FinalizeCommit(r)
           \/ Sanitize
  <2>1. UNCHANGED <<ra_session, session_seq, manager, listener, slot, startup_run, ra_prepared_data>>
    BY <1>3 DEF Finalize, FinalizeCommit, Sanitize, ra_db_finalize_request, RequestsSanitizer
  <2>2. \/ \E r \in RequestId, status \in request_status_t : ra_request' = Finalized(r, status)
        \/ \E over \in SUBSET RequestId : RequestsSanitizer(over)
    <3>1. CASE \E r \in RequestId : Finalize(r) \/ FinalizeCommit(r)
      <4>1. PICK r \in RequestId : Finalize(r) \/ FinalizeCommit(r)
        BY <3>1
      <4>2. verifier[r].status \in request_status_t
        BY <4>1 DEF Finalize, FinalizeCommit, TypeOK, VerifierState
      <4>3. QED
        BY <4>1, <4>2 DEF Finalize, FinalizeCommit, ra_db_finalize_request
    <3>2. CASE Sanitize
      BY <3>2 DEF Sanitize
    <3>3. QED
      BY <1>3, <3>1, <3>2
  <2>3. /\ ra_request \in [DOMAIN ra_request -> RequestRow]
        /\ "EXPIRED_NONE" \in request_status_t
    BY DEF TypeOK, TablesOK, request_status_t
  <2>4. /\ DOMAIN ra_request' = DOMAIN ra_request
        /\ \A r \in DOMAIN ra_request :
              /\ ra_request'[r].prepared_data_id = ra_request[r].prepared_data_id
              /\ ra_request'[r].session_id = ra_request[r].session_id
              /\ ra_request'[r].is_startup = ra_request[r].is_startup
    BY <2>2, <2>3, WithStatusRow DEF Finalized, RequestsSanitizer
  <2>5. QED
    BY <2>1, <2>4, StartupUntouched
<1>4. CASE \/ NetworkStep
           \/ \E r \in RequestId :
                 \/ ForwardResponse(r) \/ GetDataToVerify(r) \/ DropResponse(r)
                 \/ SetCompromised(r) \/ FinalizeBegin(r) \/ FinalizeFails(r)
           \/ \E att \in Attestator : ExtractorExit(att)
           \/ UNCHANGED vars
  <2>1. UNCHANGED <<ra_session, session_seq, manager, listener, slot, startup_run,
                    ra_prepared_data, ra_request>>
    BY <1>4 DEF NetworkStep, MessageLost, AgeRequest, ForwardResponse, GetDataToVerify,
       DropResponse, SetCompromised, FinalizeBegin, FinalizeFails, ExtractorExit,
       ra_db_set_reaction_status
  <2>2. QED
    BY <2>1, StartupUntouched
<1>5. QED
  BY <1>1, <1>2, <1>3, <1>4 DEF VerifierStep, MaintenanceStep

(* A row that is sent or committed keeps its session locked. *)
LEMMA SessionsReferredTo ==
    ASSUME StartupInv
    PROVE  /\ \A r \in DOMAIN ra_request : ra_request[r].session_id \in DOMAIN ra_session
           /\ \A m \in Managers : manager[m].pc \in {"send", "commit"}
                                  => manager[m].client.session_id \in DOMAIN ra_session
  BY DEF StartupInv, RequestsInv, ThreadInv

(* How the startup attestation of a session may go on. *)
RunsGoOn ==
    \A s \in SessionId :
        \/ startup_run'[s] = startup_run[s]
        \/ startup_run'[s] = "irregular"
        \/ startup_run[s] = "not_begun" /\ startup_run'[s] = "regular"

(* A step of thread m that leaves the tables and the listener alone. *)
LEMMA StartupOfThread ==
    ASSUME TypeOK, StartupInv, RunsGoOn, NEW m \in Managers,
           UNCHANGED <<ra_session, ra_prepared_data, ra_request, session_seq, listener>>,
           \A n \in Managers \ {m} : manager'[n] = manager[n],
           \A n \in Managers : \/ slot'[n].action # "client_up"
                               \/ /\ slot[n].action = "client_up"
                                  /\ slot'[n].client = slot[n].client,
           ThreadInv(m)',
           StartingUp(m)' =>
              \A n \in Managers \ {m} :
                 /\ StartingUp(n)
                 /\ manager[n].client.session_id = manager'[m].client.session_id
                 => startup_run'[manager'[m].client.session_id] # "regular"
    PROVE  StartupInv'
<1>1. \A n \in Managers \ {m} : StartingUp(n)' <=> StartingUp(n)
  BY DEF StartingUp
<1>2. \A r : AreaOf(r)' = AreaOf(r)
  BY DEF AreaOf
<1>3. \A s, label : Asked(s, label)' <=> Asked(s, label)
  BY <1>2 DEF Asked
<1>4. \A r \in DOMAIN ra_request : ra_request[r].session_id \in SessionId
  BY DEF TypeOK, TablesOK, RequestRow
<1>5. StartupRequestedOnce'
  BY <1>2, <1>4 DEF StartupInv, StartupRequestedOnce, RequestsInv, RunsGoOn
<1>6. RequestsInv'
  BY <1>2, <1>4 DEF StartupInv, RequestsInv, RunsGoOn
<1>7. ASSUME NEW n \in Managers, StartingUp(n)
      PROVE  manager[n].client.session_id \in SessionId
  BY <1>7 DEF StartingUp, TypeOK, ManagerState, Client
<1>8. ASSUME NEW n \in Managers \ {m} PROVE ThreadInv(n)'
  <2>1. ThreadInv(n)
    BY DEF StartupInv
  <2>2. RegularInv(n)' <=> RegularInv(n)
    BY <1>3 DEF RegularInv
  <2>3. HandOffOK(manager[n].client)' <=> HandOffOK(manager[n].client)
    BY DEF HandOffOK
  <2>4. QED
    BY <1>1, <1>7, <2>1, <2>2, <2>3 DEF ThreadInv, RunsGoOn
<1>9. OneStarter'
  <2>1. ASSUME NEW k \in Managers \ {m}, NEW n \in Managers \ {m},
               StartingUp(k), StartingUp(n),
               manager[k].client.session_id = manager[n].client.session_id,
               startup_run'[manager[k].client.session_id] = "regular"
        PROVE  k = n
    <3>1. startup_run[manager[k].client.session_id] # "not_begun"
      BY <2>1 DEF StartupInv, ThreadInv
    <3>2. startup_run[manager[k].client.session_id] = "regular"
      BY <1>7, <2>1, <3>1 DEF RunsGoOn
    <3>3. QED
      BY <2>1, <3>2 DEF StartupInv, OneStarter
  <2>2. QED
    BY <1>1, <2>1 DEF OneStarter
<1>10. PassedInv' /\ \A n \in Managers : SlotInv(n)'
  BY DEF StartupInv, PassedInv, SlotInv, HandOffOK
<1>11. QED
  BY <1>5, <1>6, <1>8, <1>9, <1>10 DEF StartupInv

(* The listener opens a session under a new id, deletes one only if nothing *)
(* refers to it, and leaves in a slot what the sessions say.               *)
LEMMA ListenerStartup ==
    ASSUME TypeOK, TypeOK', SessionInv, StartupInv, ListenerStep
    PROVE  StartupInv'
<1>1. /\ session_seq \in Int
      /\ \A s \in DOMAIN ra_session : s \in Int /\ s <= session_seq
      /\ session_seq <= session_seq
      /\ listener \in ListenerState
      /\ PassedInv
      /\ \A m \in Managers : SlotInv(m)
  BY DEF TypeOK, TablesOK, SessionInv, StartupInv
<1>2. UNCHANGED <<ra_prepared_data, ra_request, manager, startup_run>>
  BY DEF ListenerStep, OpenConnection, CloseConnection, StartSession, StartSessionFails,
     SetUnknown, SetUnknownFails, RevokeSession, PassClientUp, NotifyClientDown,
     close_all_active_sessions, ra_db_close_session, insert_session,
     ra_db_set_reaction_status, ra_db_revoke_session
<1>3. ASSUME SessionsGoOn, UNCHANGED slot PROVE \A m \in Managers : SlotInv(m)'
  BY <1>1, <1>3, SlotsKept DEF SlotInv
<1>4. CASE \E att \in Attestator : OpenConnection(att) \/ CloseConnection(att)
  <2>1. PICK att \in Attestator : OpenConnection(att) \/ CloseConnection(att)
    BY <1>4
  <2>2. /\ DOMAIN ra_session' = DOMAIN ra_session
        /\ \A s \in DOMAIN ra_session :
              ra_session'[s].attestator_id = ra_session[s].attestator_id
    <3>1. \A s \in DOMAIN ra_session : ra_session[s] \in SessionRow
      BY DEF TypeOK, TablesOK
    <3>2. QED
      BY <2>1, <3>1, ClosedRow DEF OpenConnection, CloseConnection, close_all_active_sessions,
                              ra_db_close_session
  <2>3. /\ UNCHANGED <<session_seq, slot>>
        /\ listener'.pc \in {"insert_session", "down_reaction"}
    BY <2>1 DEF OpenConnection, CloseConnection, close_all_active_sessions,
                ra_db_close_session
  <2>4. SessionsGoOn
    BY <1>1, <2>2, <2>3 DEF SessionsGoOn
  <2>5. PassedInv'
    BY <2>3 DEF PassedInv
  <2>6. QED
    BY <1>2, <1>3, <2>2, <2>3, <2>4, <2>5, SessionsReferredTo, StartupKept
<1>5. CASE StartSession
  <2>1. /\ session_seq' = session_seq + 1
        /\ DOMAIN ra_session' = DOMAIN ra_session \cup {session_seq + 1}
        /\ \A s \in DOMAIN ra_session \ {session_seq + 1} : ra_session'[s] = ra_session[s]
        /\ ra_session'[session_seq + 1].attestator_id = listener.attestator_id
        /\ UNCHANGED slot
        /\ listener' = [pc |-> "up_reaction", attestator_id |-> listener.attestator_id,
                        session_id |-> session_seq + 1]
    BY <1>5 DEF StartSession, insert_session, Insert
  <2>2. SessionsGoOn
    BY <1>1, <2>1 DEF SessionsGoOn
  <2>3. PassedInv'
    BY <1>1, <2>1 DEF PassedInv, HandOffOK
  <2>4. QED
    BY <1>2, <1>3, <2>1, <2>2, <2>3, SessionsReferredTo, StartupKept
<1>6. CASE RevokeSession
  <2>1. /\ DOMAIN ra_session' \subseteq DOMAIN ra_session
        /\ \A s \in DOMAIN ra_session' : ra_session'[s] = ra_session[s]
        /\ \A r \in DOMAIN ra_request : ra_request[r].session_id \in DOMAIN ra_session'
        /\ \A m \in Managers : manager[m].pc \in {"send", "commit"}
                               => manager[m].client.session_id \in DOMAIN ra_session'
    BY <1>6, SessionsReferredTo DEF RevokeSession, ra_db_revoke_session, Locked
  <2>2. UNCHANGED <<session_seq, slot>> /\ listener' = [pc |-> "idle"]
    BY <1>6 DEF RevokeSession, ra_db_revoke_session
  <2>3. SessionsGoOn
    BY <1>1, <2>1, <2>2 DEF SessionsGoOn
  <2>4. PassedInv'
    BY <2>2 DEF PassedInv
  <2>5. QED
    BY <1>2, <1>3, <2>1, <2>2, <2>3, <2>4, StartupKept
<1>7. CASE StartSessionFails \/ SetUnknown \/ SetUnknownFails
  <2>1. UNCHANGED <<ra_session, session_seq, slot>>
    BY <1>7 DEF StartSessionFails, SetUnknown, SetUnknownFails, ra_db_set_reaction_status
  <2>2. \/ listener'.pc \notin {"up_reaction", "client_up"}
        \/ /\ listener.pc \in {"up_reaction", "client_up"}
           /\ listener'.session_id = listener.session_id
           /\ listener'.attestator_id = listener.attestator_id
    BY <1>1, <1>7, ReactionState DEF StartSessionFails, SetUnknown, SetUnknownFails
  <2>3. SessionsGoOn
    BY <1>1, <2>1 DEF SessionsGoOn
  <2>4. PassedInv'
    BY <1>1, <2>2, <2>3, PassedKept
  <2>5. QED
    BY <1>2, <1>3, <2>1, <2>3, <2>4, SessionsReferredTo, StartupKept
<1>8. CASE \E m \in Managers : PassClientUp(m) \/ NotifyClientDown(m)
  <2>1. PICK m \in Managers : PassClientUp(m) \/ NotifyClientDown(m)
    BY <1>8
  <2>2. /\ UNCHANGED <<ra_session, session_seq>>
        /\ listener'.pc \notin {"up_reaction", "client_up"}
    BY <2>1 DEF PassClientUp, NotifyClientDown
  <2>3. SessionsGoOn
    BY <1>1, <2>2 DEF SessionsGoOn
  <2>4. PassedInv'
    BY <2>2 DEF PassedInv
  <2>5. ASSUME NEW n \in Managers PROVE SlotInv(n)'
    <3>1. CASE n # m
      <4>1. slot'[n] = slot[n]
        BY <2>1, <3>1 DEF PassClientUp, NotifyClientDown, TypeOK
      <4>2. QED
        BY <1>1, <2>2, <4>1 DEF SlotInv, HandOffOK
    <3>2. CASE n = m /\ PassClientUp(m)
      <4>1. /\ listener.pc = "client_up"
            /\ slot'[m].client = [attestator_id |-> listener.attestator_id,
                                  session_id |-> listener.session_id]
        BY <3>2 DEF PassClientUp, TypeOK
      <4>2. QED
        BY <1>1, <2>2, <3>2, <4>1 DEF SlotInv, HandOffOK, PassedInv
    <3>3. CASE n = m /\ NotifyClientDown(m)
      <4>1. slot'[m].action = "client_down"
        BY <3>3 DEF NotifyClientDown, TypeOK
      <4>2. QED
        BY <3>3, <4>1 DEF SlotInv
    <3>4. QED
      BY <2>1, <3>1, <3>2, <3>3
  <2>6. QED
    BY <1>2, <2>2, <2>3, <2>4, <2>5, SessionsReferredTo, StartupKept
<1>9. QED
  BY <1>4, <1>5, <1>6, <1>7, <1>8 DEF ListenerStep

(* A step of thread m that goes on with the session it has, if any. *)
LEMMA StartupGoesOn ==
    ASSUME TypeOK, StartupInv, NEW m \in Managers, NEW state,
           UNCHANGED <<ra_session, ra_prepared_data, ra_request, session_seq, listener,
                       startup_run>>,
           \A n \in Managers : slot'[n] = slot[n] \/ slot'[n].action = "none",
           manager' = [manager EXCEPT ![m] = state],
           ThreadInv(m)',
           StartingUp(m)' => StartingUp(m) /\ state.client = manager[m].client
    PROVE  StartupInv'
<1>1. manager'[m] = state /\ \A n \in Managers \ {m} : manager'[n] = manager[n]
  BY DEF TypeOK
<1>2. RunsGoOn
  BY DEF RunsGoOn
<1>3. StartingUp(m)' =>
         \A n \in Managers \ {m} :
            /\ StartingUp(n)
            /\ manager[n].client.session_id = manager'[m].client.session_id
            => startup_run'[manager'[m].client.session_id] # "regular"
  BY <1>1 DEF StartupInv, OneStarter
<1>4. \A n \in Managers : \/ slot'[n].action # "client_up"
                          \/ /\ slot[n].action = "client_up"
                             /\ slot'[n].client = slot[n].client
  OBVIOUS
<1>5. QED
  BY <1>1, <1>2, <1>3, <1>4, StartupOfThread

(* A thread whose request was refused, not sent or committed turns to the  *)
(* next label, or waits.                                                   *)
LEMMA ReturnedState ==
    ASSUME TypeOK, NEW m \in Managers,
           manager[m].pc \in {"insert", "send", "commit"}, Returned(m)
    PROVE  /\ \A n \in Managers \ {m} : manager'[n] = manager[n]
           /\ manager[m].is_startup \in BOOLEAN
           /\ manager[m].is_startup =>
                 manager'[m] = [pc |-> "startup", client |-> manager[m].client,
                                labels |-> manager[m].labels]
           /\ ~manager[m].is_startup => manager'[m] = [pc |-> "wait"]
  BY DEF Returned, TypeOK, ManagerState

(* The commit of a request, by COMMIT or because autocommit is turned on   *)
(* again: its session has no other startup request for the area.           *)
LEMMA CommitStartup ==
    ASSUME TypeOK, TypeOK', StartupInv, LifecycleInv, NEW m \in Managers,
           manager[m].pc \in {"send", "commit"},
           commit_request(manager[m].id, Row(m)), Returned(m),
           UNCHANGED <<listener, slot, startup_run>>
    PROVE  StartupInv'
<1> PICK id, s, att, label :
           /\ id = manager[m].id
           /\ s = manager[m].client.session_id
           /\ att = manager[m].client.attestator_id
           /\ label = ra_prepared_data[manager[m].data].memory_area
    OBVIOUS
<1>1. /\ id \notin DOMAIN ra_request
      /\ DOMAIN ra_request' = DOMAIN ra_request \cup {id}
      /\ \A r \in DOMAIN ra_request : ra_request'[r] = ra_request[r]
      /\ ra_request'[id].prepared_data_id = manager[m].data
      /\ ra_request'[id].session_id = s
      /\ ra_request'[id].is_startup = manager[m].is_startup
      /\ UNCHANGED <<ra_session, ra_prepared_data, session_seq, listener>>
  BY DEF LifecycleInv, commit_request, Insert, Row
<1>2. /\ manager[m].is_startup \in BOOLEAN
      /\ \A n \in Managers \ {m} : manager'[n] = manager[n]
      /\ manager[m].is_startup =>
            manager'[m] = [pc |-> "startup", client |-> manager[m].client,
                           labels |-> manager[m].labels]
      /\ ~manager[m].is_startup => manager'[m] = [pc |-> "wait"]
  BY ReturnedState
<1>3. /\ manager[m].data \in DOMAIN ra_prepared_data
      /\ s \in DOMAIN ra_session
      /\ manager[m].is_startup =>
            /\ StartingUp(m)
            /\ HandOffOK(manager[m].client)
            /\ ra_session[s].attestator_id = att
            /\ manager[m].labels \subseteq startup_area[att]
            /\ startup_run[s] # "not_begun"
            /\ startup_run[s] = "regular" =>
               /\ \A l \in manager[m].labels : ~Asked(s, l)
               /\ label \in startup_area[att] \ manager[m].labels
               /\ ~Asked(s, label)
  BY DEF StartupInv, ThreadInv, StartingUp, HandOffOK, RegularInv
<1>4. (\A r \in DOMAIN ra_request : AreaOf(r)' = AreaOf(r)) /\ AreaOf(id)' = label
  BY <1>1 DEF AreaOf
<1>5. ASSUME NEW t, NEW l, Asked(t, l)'
      PROVE  Asked(t, l) \/ (manager[m].is_startup /\ t = s /\ l = label)
  BY <1>1, <1>4, <1>5 DEF Asked
<1>6. ASSUME NEW n \in Managers \ {m}
      PROVE  /\ StartingUp(n)' <=> StartingUp(n)
             /\ /\ StartingUp(n) /\ manager[m].is_startup
                /\ startup_run[s] = "regular"
                => manager[n].client.session_id # s
  BY <1>2, <1>3 DEF StartingUp, StartupInv, OneStarter
<1>7. StartingUp(m)' => manager[m].is_startup
  BY <1>2 DEF StartingUp
<1>8. StartupRequestedOnce'
  BY <1>1, <1>3, <1>4 DEF StartupInv, StartupRequestedOnce, Asked
<1>9. RequestsInv'
  BY <1>1, <1>3, <1>4 DEF StartupInv, RequestsInv
<1>10. ThreadInv(m)'
  <2>1. CASE manager[m].is_startup
    <3>1. manager'[m] = [pc |-> "startup", client |-> manager[m].client,
                         labels |-> manager[m].labels]
      BY <1>2, <2>1
    <3>2. HandOffOK(manager[m].client)'
      BY <1>1, <1>3, <2>1, <3>1 DEF HandOffOK
    <3>3. ASSUME startup_run[s] = "regular" PROVE RegularInv(m)'
      BY <1>3, <1>5, <2>1, <3>1, <3>3 DEF RegularInv
    <3>4. QED
      BY <1>3, <2>1, <3>1, <3>2, <3>3 DEF ThreadInv
  <2>2. CASE ~manager[m].is_startup
    BY <1>2, <2>2 DEF ThreadInv, StartingUp
  <2>3. QED
    BY <1>2, <2>1, <2>2
<1>11. ASSUME NEW n \in Managers \ {m} PROVE ThreadInv(n)'
  <2>1. ThreadInv(n) /\ manager'[n] = manager[n]
    BY <1>2 DEF StartupInv
  <2>2. HandOffOK(manager[n].client)' <=> HandOffOK(manager[n].client)
    BY <1>1, <2>1 DEF HandOffOK
  <2>3. ASSUME StartingUp(n), startup_run[manager[n].client.session_id] = "regular",
               RegularInv(n)
        PROVE  RegularInv(n)'
    BY <1>1, <1>5, <1>6, <2>1, <2>3 DEF RegularInv
  <2>4. QED
    BY <1>1, <1>6, <2>1, <2>2, <2>3 DEF ThreadInv
<1>12. OneStarter'
  BY <1>2, <1>6, <1>7 DEF StartupInv, OneStarter
<1>13. PassedInv' /\ \A n \in Managers : SlotInv(n)'
  BY <1>1 DEF StartupInv, PassedInv, SlotInv, HandOffOK
<1>14. QED
  BY <1>8, <1>9, <1>10, <1>11, <1>12, <1>13 DEF StartupInv

(* The manager threads ask about each startup area of a session once, as    *)
(* long as its startup attestation is regular.                             *)
LEMMA ManagerStartup ==
    ASSUME TypeOK, TypeOK', SessionInv, StartupInv, LifecycleInv, ManagerStep
    PROVE  StartupInv'
<1> PICK m \in Managers :
           \/ TakeClientUp(m) \/ TakeClientDown(m)
           \/ SelectStartupNonce(m) \/ StartupNoData(m)
           \/ StartupLabelFails(m) \/ InsertClient(m) \/ ServeClient(m)
           \/ InsertRequest(m) \/ InsertRequestFails(m)
           \/ SendRequest(m) \/ SendRequestFails(m) \/ SendBufferFails(m)
           \/ CommitRequest(m)
    BY DEF ManagerStep
<1>1. manager[m] \in ManagerState /\ manager \in [Managers -> ManagerState] /\ ThreadInv(m)
  BY DEF TypeOK, StartupInv
<1>2. ASSUME UNCHANGED <<ra_session, ra_prepared_data, ra_request, session_seq>>
      PROVE  /\ \A t, l : Asked(t, l)' <=> Asked(t, l)
             /\ \A c : HandOffOK(c)' <=> HandOffOK(c)
  BY <1>2 DEF Asked, AreaOf, HandOffOK
<1>3. ASSUME UNCHANGED <<ra_session, session_seq>>,
              manager'[m].client = manager[m].client, HandOffOK(manager[m].client)
       PROVE  HandOffOK(manager[m].client)'
  BY <1>3 DEF HandOffOK
<1>4. CASE SelectStartupNonce(m)
  <2>1. PICK label \in manager[m].labels :
          \E d \in ValidNoncesByLabel(manager[m].client.attestator_id, label) :
            manager' = [manager EXCEPT ![m] =
                          [pc |-> "insert", client |-> manager[m].client, is_startup |-> TRUE,
                           labels |-> manager[m].labels \ {label}, data |-> d]]
    BY <1>4 DEF SelectStartupNonce
  <2>2. PICK d \in ValidNoncesByLabel(manager[m].client.attestator_id, label) :
            manager' = [manager EXCEPT ![m] =
                          [pc |-> "insert", client |-> manager[m].client, is_startup |-> TRUE,
                           labels |-> manager[m].labels \ {label}, data |-> d]]
    BY <2>1
  <2>3. d \in DOMAIN ra_prepared_data /\ ra_prepared_data[d].memory_area = label
    BY DEF ValidNoncesByLabel, ValidNonces
  <2>4. /\ manager[m].pc = "startup"
        /\ UNCHANGED <<ra_session, ra_prepared_data, ra_request, session_seq, listener,
                       startup_run, slot>>
    BY <1>4 DEF SelectStartupNonce
  <2>5. StartingUp(m)
    BY <2>4 DEF StartingUp
  <2>6. manager'[m] = [pc |-> "insert", client |-> manager[m].client, is_startup |-> TRUE,
                       labels |-> manager[m].labels \ {label}, data |-> d]
    BY <1>1, <2>2
  <2>7. ThreadInv(m)'
    <3>1. ASSUME RegularInv(m) PROVE RegularInv(m)'
      BY <1>1, <1>2, <2>3, <2>4, <2>5, <2>6, <3>1 DEF RegularInv, ThreadInv
    <3>2. QED
      BY <1>1, <1>3, <2>3, <2>4, <2>5, <2>6, <3>1 DEF ThreadInv
  <2>8. QED
    BY <2>2, <2>4, <2>5, <2>7, StartupGoesOn
<1>5. CASE StartupNoData(m)
  BY <1>5, StartupUntouched DEF StartupNoData
<1>6. CASE StartupLabelFails(m)
  <2>1. PICK label \in manager[m].labels :
          \/ /\ manager' = [manager EXCEPT ![m] =
                              [pc |-> "startup", client |-> manager[m].client,
                               labels |-> manager[m].labels \ {label}]]
             /\ UNCHANGED startup_run
          \/ /\ \E d \in DOMAIN ra_prepared_data :
                   manager' = [manager EXCEPT ![m] =
                                 [pc |-> "insert", client |-> manager[m].client,
                                  is_startup |-> TRUE,
                                  labels |-> manager[m].labels \ {label}, data |-> d]]
             /\ startup_run' = [startup_run EXCEPT
                                  ![manager[m].client.session_id] = "irregular"]
    BY <1>6 DEF StartupLabelFails
  <2>2. /\ manager[m].pc = "startup"
        /\ UNCHANGED <<ra_session, ra_prepared_data, ra_request, session_seq, listener, slot>>
    BY <1>6 DEF StartupLabelFails
  <2>3. StartingUp(m) /\ manager[m].client.session_id \in SessionId
    BY <1>1, <2>2 DEF StartingUp, ManagerState, Client
  <2>4. CASE /\ manager' = [manager EXCEPT ![m] =
                              [pc |-> "startup", client |-> manager[m].client,
                               labels |-> manager[m].labels \ {label}]]
             /\ UNCHANGED startup_run
    <3>1. manager'[m] = [pc |-> "startup", client |-> manager[m].client,
                         labels |-> manager[m].labels \ {label}]
      BY <1>1, <2>4
    <3>2. ASSUME RegularInv(m) PROVE RegularInv(m)'
      BY <1>2, <2>2, <3>1, <3>2 DEF RegularInv
    <3>3. ThreadInv(m)'
      BY <1>1, <1>3, <2>2, <2>3, <2>4, <3>1, <3>2 DEF ThreadInv
    <3>4. QED
      BY <2>2, <2>3, <2>4, <3>3, StartupGoesOn
  <2>5. CASE /\ \E d \in DOMAIN ra_prepared_data :
                   manager' = [manager EXCEPT ![m] =
                                 [pc |-> "insert", client |-> manager[m].client,
                                  is_startup |-> TRUE,
                                  labels |-> manager[m].labels \ {label}, data |-> d]]
             /\ startup_run' = [startup_run EXCEPT
                                  ![manager[m].client.session_id] = "irregular"]
    <3>1. PICK d \in DOMAIN ra_prepared_data :
             manager' = [manager EXCEPT ![m] =
                           [pc |-> "insert", client |-> manager[m].client,
                            is_startup |-> TRUE,
                            labels |-> manager[m].labels \ {label}, data |-> d]]
      BY <2>5
    <3>2. /\ manager'[m] = [pc |-> "insert", client |-> manager[m].client,
                           is_startup |-> TRUE,
                           labels |-> manager[m].labels \ {label}, data |-> d]
          /\ \A n \in Managers \ {m} : manager'[n] = manager[n]
      BY <1>1, <3>1
    <3>3. /\ startup_run'[manager[m].client.session_id] = "irregular"
          /\ RunsGoOn
      BY <2>3, <2>5 DEF RunsGoOn, TypeOK
    <3>4. ThreadInv(m)'
      BY <1>1, <1>3, <2>2, <2>3, <3>2, <3>3 DEF ThreadInv
    <3>5. QED
      BY <2>2, <3>2, <3>3, <3>4, StartupOfThread
  <2>6. QED
    BY <2>1, <2>4, <2>5
<1>7. CASE InsertClient(m)
  <2>1. /\ manager' = [manager EXCEPT ![m] = [pc |-> "wait"]]
        /\ UNCHANGED <<ra_session, ra_prepared_data, ra_request, session_seq, listener,
                       startup_run>>
        /\ \A n \in Managers : slot'[n] = slot[n] \/ slot'[n].action = "none"
    BY <1>7 DEF InsertClient, TypeOK
  <2>2. manager'[m] = [pc |-> "wait"]
    BY <1>1, <2>1
  <2>3. ThreadInv(m)' /\ ~StartingUp(m)'
    BY <2>2 DEF ThreadInv, StartingUp
  <2>4. QED
    BY <2>1, <2>3, StartupGoesOn
<1>8. CASE ServeClient(m)
  <2>1. UNCHANGED <<ra_session, ra_prepared_data, ra_request, session_seq, listener,
                       startup_run, slot>>
    BY <1>8 DEF ServeClient
  <2>2. CASE UNCHANGED manager
    BY <2>1, <2>2, StartupUntouched
  <2>3. CASE manager' # manager
    <3>1. PICK c \in clients[m] : \E d \in ValidNonces(c.attestator_id) :
              manager' = [manager EXCEPT ![m] =
                            [pc |-> "insert", client |-> c, labels |-> {},
                             is_startup |-> FALSE, data |-> d]]
      BY <1>8, <2>3 DEF ServeClient
    <3>2. PICK d \in ValidNonces(c.attestator_id) :
              manager' = [manager EXCEPT ![m] =
                            [pc |-> "insert", client |-> c, labels |-> {},
                             is_startup |-> FALSE, data |-> d]]
      BY <3>1
    <3>3. d \in DOMAIN ra_prepared_data
      BY DEF ValidNonces
    <3>4. manager'[m] = [pc |-> "insert", client |-> c, labels |-> {},
                         is_startup |-> FALSE, data |-> d]
      BY <1>1, <3>2
    <3>5. ThreadInv(m)' /\ ~StartingUp(m)'
      BY <2>1, <3>3, <3>4 DEF ThreadInv, StartingUp
    <3>6. QED
      BY <2>1, <3>2, <3>5, StartupGoesOn
  <2>4. QED
    BY <2>2, <2>3
<1>9. CASE InsertRequest(m)
  <2>1. /\ manager[m].pc = "insert"
        /\ manager[m].client.session_id \in DOMAIN ra_session
        /\ manager' = [manager EXCEPT ![m] =
                     [pc |-> "send", client |-> manager[m].client, labels |-> manager[m].labels,
                      is_startup |-> manager[m].is_startup, data |-> manager[m].data,
                      id |-> request_seq']]
        /\ UNCHANGED <<ra_session, ra_prepared_data, ra_request, session_seq, listener,
                       startup_run, slot>>
    BY <1>9 DEF InsertRequest
  <2>2. manager'[m] = [pc |-> "send", client |-> manager[m].client,
                      labels |-> manager[m].labels,
                      is_startup |-> manager[m].is_startup, data |-> manager[m].data,
                      id |-> request_seq']
    BY <1>1, <2>1
  <2>3. StartingUp(m)' <=> StartingUp(m)
    BY <2>1, <2>2 DEF StartingUp
  <2>4. ThreadInv(m)'
    <3>1. ASSUME RegularInv(m) PROVE RegularInv(m)'
      BY <1>2, <2>1, <2>2, <3>1 DEF RegularInv
    <3>2. QED
      BY <1>1, <1>3, <2>1, <2>2, <2>3, <3>1 DEF ThreadInv
  <2>5. QED
    BY <2>1, <2>3, <2>4, StartupGoesOn
<1>10. CASE SendRequest(m)
  <2>1. /\ manager[m].pc = "send"
        /\ manager' = [manager EXCEPT ![m] = At(manager[m], "commit")]
        /\ UNCHANGED <<ra_session, ra_prepared_data, ra_request, session_seq, listener,
                       startup_run, slot>>
    BY <1>10 DEF SendRequest
  <2>2. manager'[m] = [pc |-> "commit", client |-> manager[m].client,
                       labels |-> manager[m].labels, is_startup |-> manager[m].is_startup,
                       data |-> manager[m].data, id |-> manager[m].id]
    BY <1>1, <2>1, SentState
  <2>3. StartingUp(m)' <=> StartingUp(m)
    BY <2>1, <2>2 DEF StartingUp
  <2>4. ThreadInv(m)'
    <3>1. ASSUME RegularInv(m) PROVE RegularInv(m)'
      BY <1>2, <2>1, <2>2, <3>1 DEF RegularInv
    <3>2. QED
      BY <1>1, <1>3, <2>1, <2>2, <2>3, <3>1 DEF ThreadInv
  <2>5. QED
    BY <1>1, <2>1, <2>2, <2>3, <2>4, StartupGoesOn
<1>11. ASSUME manager[m].pc \in {"insert", "send", "commit"}, Returned(m),
              UNCHANGED <<ra_session, ra_prepared_data, ra_request, session_seq, listener,
                          startup_run, slot>>
       PROVE  StartupInv'
  <2>1. PICK state : manager' = [manager EXCEPT ![m] = state]
    BY <1>11 DEF Returned
  <2>2. /\ manager'[m] = state
        /\ manager[m].is_startup =>
              manager'[m] = [pc |-> "startup", client |-> manager[m].client,
                             labels |-> manager[m].labels]
        /\ ~manager[m].is_startup => manager'[m] = [pc |-> "wait"]
    BY <1>1, <1>11, <2>1, ReturnedState
  <2>3. StartingUp(m)' => StartingUp(m) /\ state.client = manager[m].client
    BY <1>11, <2>2 DEF StartingUp
  <2>4. ThreadInv(m)'
    <3>1. CASE manager[m].is_startup
      <4>1. manager'[m] = [pc |-> "startup", client |-> manager[m].client,
                           labels |-> manager[m].labels]
        BY <2>2, <3>1
      <4>2. StartingUp(m)
        BY <1>11, <3>1 DEF StartingUp
      <4>3. ASSUME RegularInv(m) PROVE RegularInv(m)'
        BY <1>2, <1>11, <4>1, <4>3 DEF RegularInv
      <4>4. QED
        BY <1>1, <1>11, <1>3, <4>1, <4>2, <4>3 DEF ThreadInv
    <3>2. CASE ~manager[m].is_startup
      BY <2>2, <3>2 DEF ThreadInv, StartingUp
    <3>3. QED
      BY <3>1, <3>2
  <2>5. QED
    BY <1>11, <2>1, <2>3, <2>4, StartupGoesOn
<1>12. CASE InsertRequestFails(m)
  BY <1>11, <1>12 DEF InsertRequestFails
<1>13. CASE SendRequestFails(m)
  BY <1>11, <1>13 DEF SendRequestFails
<1>14. CASE SendBufferFails(m)
  BY <1>14, CommitStartup DEF SendBufferFails
<1>15. CASE CommitRequest(m)
  BY <1>11, <1>15, CommitStartup DEF CommitRequest
<1>16. CASE TakeClientUp(m)
  <2> PICK c, s : c = slot[m].client /\ s = c.session_id
      OBVIOUS
  <2>1. /\ c \in Client /\ s \in SessionId
        /\ slot[m].action = "client_up"
        /\ HandOffOK(c)
    BY <1>16 DEF TakeClientUp, TypeOK, SlotState, Client, StartupInv, SlotInv
  <2>2. PICK labels : /\ labels \subseteq startup_area[c.attestator_id]
                      /\ manager' = [manager EXCEPT ![m] =
                                       [pc |-> "startup", labels |-> labels, client |-> c]]
    BY <1>16 DEF TakeClientUp
  <2>3. /\ manager'[m] = [pc |-> "startup", labels |-> labels, client |-> c]
        /\ \A n \in Managers \ {m} : manager'[n] = manager[n]
    BY <1>1, <2>2
  <2>4. UNCHANGED <<ra_session, ra_prepared_data, ra_request, session_seq, listener>>
    BY <1>16 DEF TakeClientUp
  <2>5. /\ RunsGoOn
        /\ startup_run'[s] = IF startup_run[s] = "not_begun" THEN "regular" ELSE "irregular"
    BY <1>16, <2>1 DEF TakeClientUp, TypeOK, RunsGoOn
  <2>6. \A n \in Managers : \/ slot'[n].action # "client_up"
                            \/ /\ slot[n].action = "client_up"
                               /\ slot'[n].client = slot[n].client
    BY <1>16 DEF TakeClientUp, TypeOK
  <2>7. ASSUME startup_run'[s] = "regular"
        PROVE  startup_run[s] = "not_begun" /\ \A l : ~Asked(s, l)
    BY <2>5, <2>7 DEF StartupInv, RequestsInv, Asked
  <2>8. ThreadInv(m)'
    <3>1. HandOffOK(manager[m].client)'
      BY <1>2, <2>1, <2>3, <2>4 DEF HandOffOK
    <3>2. ASSUME startup_run'[s] = "regular" PROVE RegularInv(m)'
      BY <1>2, <2>3, <2>4, <2>7, <3>2 DEF RegularInv
    <3>3. QED
      BY <2>2, <2>3, <2>5, <3>1, <3>2 DEF ThreadInv
  <2>9. ASSUME NEW n \in Managers \ {m}, StartingUp(n),
               manager[n].client.session_id = manager'[m].client.session_id
        PROVE  startup_run'[manager'[m].client.session_id] # "regular"
    <3>1. startup_run[s] # "not_begun"
      BY <2>3, <2>9 DEF StartupInv, ThreadInv
    <3>2. QED
      BY <2>3, <2>5, <3>1
  <2>10. QED
    BY <2>3, <2>4, <2>5, <2>6, <2>8, <2>9, StartupOfThread
<1>17. CASE TakeClientDown(m)
  <2>1. /\ UNCHANGED <<ra_session, ra_prepared_data, ra_request, session_seq, listener,
                       manager>>
        /\ RunsGoOn
        /\ \A n \in Managers : \/ slot'[n].action # "client_up"
                               \/ /\ slot[n].action = "client_up"
                                  /\ slot'[n].client = slot[n].client
    BY <1>17 DEF TakeClientDown, TypeOK, RunsGoOn
  <2>2. UNCHANGED startup_run
    BY <1>17 DEF TakeClientDown
  <2>3. ThreadInv(m)'
    BY <1>1, <1>2, <1>3, <2>1, <2>2 DEF ThreadInv, RegularInv, StartingUp
  <2>4. StartingUp(m)' =>
           \A n \in Managers \ {m} :
              /\ StartingUp(n)
              /\ manager[n].client.session_id = manager'[m].client.session_id
              => startup_run'[manager'[m].client.session_id] # "regular"
    BY <2>1, <2>2 DEF StartupInv, OneStarter, StartingUp
  <2>5. QED
    BY <2>1, <2>3, <2>4, StartupOfThread
<1>18. QED
  BY <1>4, <1>5, <1>6, <1>7, <1>8, <1>9, <1>10, <1>12, <1>13, <1>14, <1>15, <1>16, <1>17

(* What requests, threads and listener hold of a session always agrees. *)
THEOREM StartupInvHolds == Spec => []StartupInv
<1>1. TypeOK /\ TypeOK' /\ SessionInv /\ LifecycleInv /\ StartupInv /\ [Next]_vars
      => StartupInv'
  BY ListenerStartup, ManagerStartup, OtherStartup DEF Next
<1>2. QED
  BY InitStartup, <1>1, TypeCorrect, SessionInvHolds, LifecycleInvHolds, PTL DEF Spec

(* A session whose startup attestation is regular holds at most one startup *)
(* request per memory area, whichever calls fail, whenever a thread wakes  *)
(* up for no reason and whenever the manager is restarted.                 *)
THEOREM StartupRequestedOnceHolds == Spec => []StartupRequestedOnce
  BY StartupInvHolds, PTL DEF StartupInv

-----------------------------------------------------------------------------
(* The trigger *)

(* If the trigger counts as many successful startup requests in active     *)
(* sessions as there are startup areas, each area has its request, unless  *)
(* one of these sessions is irregular: an attestator has one active        *)
(* session, which asks about each area once, so the requests are mapped    *)
(* into the areas one to one, hence onto them.                             *)
CountsMeanProved ==
    \A app \in Application :
        is_app_proved(app, ra_request) => Proved(app) \/ Irregular(app)

(* The counts of the trigger suffice, by what SessionInv and StartupInv say *)
(* of the sessions and of the requests in them.                            *)
LEMMA CountsOfTrigger == TypeOK /\ SessionInv /\ StartupInv => CountsMeanProved
<1> SUFFICES ASSUME TypeOK, SessionInv, StartupInv, NEW app \in Application,
                    is_app_proved(app, ra_request), ~Irregular(app)
             PROVE  Proved(app)
    BY DEF CountsMeanProved
<1> DEFINE should == ShouldAttestAreas(app)
           valid  == ValidStartupAreas(app, ra_request)
           sess(r) == ra_session[ra_request[r].session_id]
           area == [r \in valid |-> <<sess(r).attestator_id, AreaOf(r)>>]
<1>1. ASSUME NEW r \in valid
      PROVE  /\ r \in DOMAIN ra_request
             /\ ra_request[r] \in RequestRow
             /\ ra_request[r].session_id \in DOMAIN ra_session
             /\ ra_request[r].is_startup
             /\ ra_request[r].status = "SUCCESS"
             /\ sess(r) \in SessionRow
             /\ sess(r).is_active
             /\ application_id[sess(r).attestator_id] = app
             /\ startup_run[ra_request[r].session_id] = "regular"
             /\ AreaOf(r) \in startup_area[sess(r).attestator_id]
  <2>1. /\ r \in DOMAIN ra_request
        /\ ra_request[r].is_startup
        /\ ra_request[r].status = "SUCCESS"
        /\ sess(r).is_active
        /\ application_id[sess(r).attestator_id] = app
    BY DEF ValidStartupAreas
  <2>2. /\ ra_request[r].session_id \in DOMAIN ra_session
        /\ startup_run[ra_request[r].session_id] # "not_begun"
        /\ startup_run[ra_request[r].session_id] = "regular"
           => AreaOf(r) \in startup_area[sess(r).attestator_id]
    BY <2>1 DEF StartupInv, RequestsInv
  <2>3. ra_request[r] \in RequestRow /\ sess(r) \in SessionRow
    BY <2>1, <2>2 DEF TypeOK, TablesOK
  <2>4. startup_run[ra_request[r].session_id] # "irregular"
    BY <2>1, <2>2 DEF Irregular
  <2>5. startup_run[ra_request[r].session_id] \in StartupRun
    BY <2>3 DEF TypeOK, RequestRow
  <2>6. QED
    BY <2>1, <2>2, <2>3, <2>4, <2>5 DEF StartupRun
<1>2. area \in [valid -> should]
  <2>1. ASSUME NEW r \in valid
        PROVE  <<sess(r).attestator_id, AreaOf(r)>> \in should
    <3>1. sess(r).attestator_id \in Attestator
      BY <1>1 DEF SessionRow
    <3>2. AreaOf(r) \in Area
      BY <1>1, <3>1
    <3>3. QED
      BY <1>1, <3>1, <3>2 DEF ShouldAttestAreas
  <2>2. QED
    BY <2>1
<1>3. ASSUME NEW r \in valid, NEW q \in valid, area[r] = area[q]
      PROVE  r = q
  <2>1. sess(r).attestator_id = sess(q).attestator_id /\ AreaOf(r) = AreaOf(q)
    BY <1>3
  <2>2. ra_request[r].session_id \in Int /\ ra_request[q].session_id \in Int
    BY <1>1 DEF RequestRow
  <2>3. ra_request[r].session_id = ra_request[q].session_id
    BY <1>1, <2>1, <2>2 DEF SessionInv, OneActiveSession
  <2>4. QED
    BY <1>1, <2>1, <2>3 DEF StartupInv, StartupRequestedOnce
<1>4. area \in Injection(valid, should)
  BY <1>2, <1>3 DEF Injection, IsInjective
<1>5. IsFiniteSet(should)
  <2>1. IsFiniteSet(Attestator \X Area)
    BY FS_Product
  <2>2. QED
    BY <2>1, FS_Subset DEF ShouldAttestAreas
<1>6. area \in Surjection(valid, should)
  BY <1>4, <1>5, FS_Injection DEF is_app_proved
<1>7. SUFFICES ASSUME NEW att \in Attestator, application_id[att] = app,
                      NEW label \in startup_area[att]
               PROVE  \E r \in DOMAIN ra_request :
                         /\ ra_request[r].is_startup
                         /\ ra_request[r].status = "SUCCESS"
                         /\ AreaOf(r) = label
                         /\ sess(r) = [attestator_id |-> att, is_active |-> TRUE]
  BY DEF Proved
<1>8. <<att, label>> \in should
  BY <1>7 DEF ShouldAttestAreas
<1>9. PICK r \in valid : area[r] = <<att, label>>
  BY <1>6, <1>8 DEF Surjection
<1>10. sess(r).attestator_id = att /\ AreaOf(r) = label
  BY <1>9
<1>11. sess(r) = [attestator_id |-> att, is_active |-> TRUE]
  BY <1>1, <1>10 DEF SessionRow
<1>12. QED
  BY <1>1, <1>10, <1>11

(* Whenever the counts of the trigger agree, the application is proved or  *)
(* one of its active sessions was attested irregularly, whichever calls    *)
(* have failed.                                                            *)
THEOREM CountsMeanProvedHolds == Spec => []CountsMeanProved
  BY TypeCorrect, SessionInvHolds, StartupInvHolds, CountsOfTrigger, PTL

(* In a SERIALIZABLE database no trigger is ever between its queries and    *)
(* its update.                                                             *)
NoOpenTrigger == \A r \in RequestId : verifier[r].pc # "trigger"

(* Only FinalizeBegin opens one, and that needs a weaker isolation level.  *)
LEMMA NoOpenTriggerStep ==
    ASSUME Serializable, TypeOK, NoOpenTrigger, [Next]_vars
    PROVE  NoOpenTrigger'
<1>1. CASE UNCHANGED verifier
  BY <1>1 DEF NoOpenTrigger
<1>2. CASE VerifierStep
  <2>1. PICK r \in RequestId :
            \/ ForwardResponse(r) \/ GetDataToVerify(r) \/ DropResponse(r)
            \/ SetCompromised(r) \/ Finalize(r)
            \/ FinalizeBegin(r) \/ FinalizeCommit(r) \/ FinalizeFails(r)
    BY <1>2 DEF VerifierStep
  <2>2. verifier \in [RequestId -> VerifierState] /\ verifier[r] \in VerifierState
    BY DEF TypeOK
  <2>3. /\ verifier'[r].pc # "trigger"
        /\ \A q \in RequestId \ {r} : verifier'[q] = verifier[q]
    <3>1. CASE ForwardResponse(r)
      <4>1. CASE verifier' = [verifier EXCEPT ![r] = [pc |-> "dropped"]]
        BY <2>2, <4>1
      <4>2. CASE \E right \in BOOLEAN, known \in {TRUE, "verifier" \notin Failures} :
                    verifier' = [verifier EXCEPT ![r] =
                                   [pc |-> "get_data", right |-> right,
                                    in_time |-> age[r] = "fresh", app_known |-> known]]
        BY <2>2, <4>2
      <4>3. QED
        BY <3>1, <4>1, <4>2 DEF ForwardResponse
    <3>2. CASE SetCompromised(r)
      BY <2>2, <3>2, CompromisedState DEF SetCompromised
    <3>3. CASE GetDataToVerify(r)
      BY <2>2, <3>3 DEF GetDataToVerify
    <3>4. CASE DropResponse(r) \/ Finalize(r) \/ FinalizeCommit(r) \/ FinalizeFails(r)
      BY <2>2, <3>4 DEF DropResponse, Finalize, FinalizeCommit, FinalizeFails
    <3>5. ~FinalizeBegin(r)
      BY DEF FinalizeBegin
    <3>6. QED
      BY <2>1, <3>1, <3>2, <3>3, <3>4, <3>5
  <2>4. QED
    BY <2>3 DEF NoOpenTrigger
<1>3. CASE ListenerStep \/ ManagerStep \/ ManagerCrash \/ NetworkStep \/ MaintenanceStep
           \/ UNCHANGED vars
  <2>1. UNCHANGED verifier
    BY <1>3 DEF ListenerStep, OpenConnection, CloseConnection, StartSession,
       StartSessionFails, SetUnknown, SetUnknownFails, RevokeSession,
       PassClientUp, NotifyClientDown, ManagerStep, TakeClientUp,
       TakeClientDown, SelectStartupNonce, StartupNoData, StartupLabelFails, InsertClient, ServeClient, InsertRequest, InsertRequestFails,
       SendRequest, SendRequestFails, SendBufferFails, CommitRequest, ManagerCrash,
       NetworkStep, MessageLost, AgeRequest, MaintenanceStep, Sanitize, Extract,
       ExtractorExit
  <2>2. QED
    BY <1>1, <2>1
<1>4. QED
  BY <1>2, <1>3 DEF Next

(* The status of an application becomes NONE only by the update of a       *)
(* request whose trigger found it UNKNOWN and its counts equal.            *)
LEMMA DeclaredByTrigger ==
    ASSUME Serializable, TypeOK, NoOpenTrigger, LifecycleInv, [Next]_vars,
           NEW app \in Application,
           ra_reaction[app] # "NONE", ra_reaction'[app] = "NONE"
    PROVE  ra_reaction[app] = "UNKNOWN" /\ is_app_proved(app, ra_request)'
<1>1. ra_reaction \in [Application -> reaction_status_t]
  BY DEF TypeOK, TablesOK
<1>2. ~UNCHANGED ra_reaction
  OBVIOUS
<1>3. ~SetUnknown
  BY <1>1 DEF SetUnknown, ra_db_set_reaction_status
<1>4. ASSUME NEW r \in RequestId PROVE ~SetCompromised(r)
  BY <1>1 DEF SetCompromised, ra_db_set_reaction_status
<1>5. PICK r \in RequestId : Finalize(r)
  <2>1. ~(ManagerStep \/ ManagerCrash \/ NetworkStep \/ MaintenanceStep \/ UNCHANGED vars)
    BY <1>2 DEF ManagerStep, TakeClientUp,
       TakeClientDown, SelectStartupNonce, StartupNoData, StartupLabelFails, InsertClient, ServeClient, InsertRequest, InsertRequestFails,
       SendRequest, SendRequestFails, SendBufferFails, CommitRequest, commit_request,
       ManagerCrash, NetworkStep, MessageLost, AgeRequest, MaintenanceStep, Sanitize,
       RequestsSanitizer, Extract, insert_data, ExtractorExit
  <2>2. ~ListenerStep
    BY <1>2, <1>3 DEF ListenerStep, OpenConnection, CloseConnection, StartSession,
       StartSessionFails, SetUnknownFails, RevokeSession,
       PassClientUp, NotifyClientDown, close_all_active_sessions, insert_session,
       ra_db_close_session, ra_db_revoke_session
  <2>3. VerifierStep
    BY <2>1, <2>2 DEF Next
  <2>4. QED
    BY <1>2, <1>4, <2>3 DEF VerifierStep, ForwardResponse, GetDataToVerify, DropResponse,
       FinalizeBegin, FinalizeCommit, FinalizeFails, NoOpenTrigger
<1>6. /\ r \in DOMAIN ra_request
      /\ ra_request[r] \in RequestRow
      /\ verifier[r].status \in request_status_t
  <2>1. verifier[r].pc = "finalize" /\ verifier[r] \in VerifierState
    BY <1>5 DEF Finalize, TypeOK
  <2>2. r \in DOMAIN ra_request
    BY <2>1 DEF LifecycleInv
  <2>3. QED
    BY <2>1, <2>2 DEF TypeOK, TablesOK, VerifierState
<1>7. PICK status \in request_status_t :
          ra_db_finalize_request(r, status, startup_attestation(r, Finalized(r, status)))
  BY <1>5, <1>6 DEF Finalize
<1>8. /\ startup_attestation(r, Finalized(r, status))
      /\ app = ApplicationOf(ra_request[r])
      /\ UNCHANGED <<ra_session, ra_prepared_data>>
      /\ ra_request' = Finalized(r, status)
  <2>1. /\ UNCHANGED <<ra_session, ra_prepared_data>>
        /\ ra_request' = Finalized(r, status)
        /\ ra_reaction' = IF startup_attestation(r, Finalized(r, status))
                          THEN [ra_reaction EXCEPT ![ApplicationOf(ra_request[r])] = "NONE"]
                          ELSE ra_reaction
    BY <1>7 DEF ra_db_finalize_request
  <2>2. QED
    BY <1>1, <2>1
<1>9. ApplicationOf(Finalized(r, status)[r]) = app
  <2>1. Finalized(r, status)[r] = WithStatus(ra_request[r], status)
    BY <1>6 DEF Finalized, TypeOK, TablesOK
  <2>2. Finalized(r, status)[r].prepared_data_id = ra_request[r].prepared_data_id
    BY <1>6, <2>1, WithStatusRow
  <2>3. QED
    BY <1>8, <2>2 DEF ApplicationOf
<1>10. ra_reaction[app] = "UNKNOWN" /\ is_app_proved(app, Finalized(r, status))
  BY <1>8, <1>9 DEF startup_attestation
<1>11. QED
  BY <1>8, <1>10 DEF is_app_proved, ValidStartupAreas, ShouldAttestAreas

(* In a SERIALIZABLE database an application is declared intact only from  *)
(* UNKNOWN, and only at a step that leaves every startup area of each of   *)
(* its attestators attested in an active session, or an active session of  *)
(* it irregular: no other failure, restart or late answer makes the counts *)
(* of the trigger agree by accident.                                       *)
THEOREM ProvedWhenDeclaredHolds ==
    ASSUME Serializable
    PROVE  Spec => ProvedWhenDeclared
<1>1. Init => NoOpenTrigger
  BY DEF Init, NoOpenTrigger
<1>2. TypeOK /\ NoOpenTrigger /\ [Next]_vars => NoOpenTrigger'
  BY NoOpenTriggerStep
<1>3. /\ TypeOK /\ NoOpenTrigger /\ LifecycleInv
      /\ CountsMeanProved'
      /\ [Next]_vars
      => [\A app \in Application :
            ra_reaction[app] # "NONE" /\ ra_reaction'[app] = "NONE"
            => /\ ra_reaction[app] = "UNKNOWN"
               /\ Proved(app)' \/ Irregular(app)']_vars
  <2> SUFFICES ASSUME TypeOK, NoOpenTrigger, LifecycleInv,
                      CountsMeanProved', [Next]_vars, NEW app \in Application,
                      ra_reaction[app] # "NONE", ra_reaction'[app] = "NONE"
               PROVE  ra_reaction[app] = "UNKNOWN" /\ (Proved(app)' \/ Irregular(app)')
    OBVIOUS
  <2>1. ra_reaction[app] = "UNKNOWN" /\ is_app_proved(app, ra_request)'
    BY DeclaredByTrigger
  <2>2. Proved(app)' \/ Irregular(app)'
    BY <2>1 DEF CountsMeanProved
  <2>3. QED
    BY <2>1, <2>2
<1>4. QED
  BY <1>1, <1>2, <1>3, TypeCorrect, LifecycleInvHolds, CountsMeanProvedHolds, PTL
     DEF Spec, ProvedWhenDeclared

-----------------------------------------------------------------------------
(* Intact applications *)

(* A successful request stays as it is: verifiers write verdicts on        *)
(* requests that have none, the sanitizer expires pending ones.            *)
LEMMA SuccessKept ==
    ASSUME TypeOK, LifecycleInv, [Next]_vars,
           NEW r \in DOMAIN ra_request, ra_request[r].status = "SUCCESS"
    PROVE  r \in DOMAIN ra_request' /\ ra_request'[r] = ra_request[r]
<1>1. CASE UNCHANGED ra_request
  BY <1>1
<1>2. CASE \E m \in Managers : CommitRequest(m) \/ SendBufferFails(m)
  <2>1. PICK m \in Managers : CommitRequest(m) \/ SendBufferFails(m)
    BY <1>2
  <2>2. manager[m].pc \in {"send", "commit"}
    BY <2>1 DEF CommitRequest, SendBufferFails
  <2>3. manager[m].id \notin DOMAIN ra_request
    BY <2>2 DEF LifecycleInv
  <2>4. commit_request(manager[m].id, Row(m)) \/ UNCHANGED ra_request
    BY <2>1 DEF CommitRequest, SendBufferFails
  <2>5. QED
    BY <2>3, <2>4 DEF commit_request, Insert
<1>3. CASE \E q \in RequestId : Finalize(q) \/ FinalizeCommit(q)
  <2>1. PICK q \in RequestId : Finalize(q) \/ FinalizeCommit(q)
    BY <1>3
  <2>2. verifier[q].pc \in {"finalize", "trigger"}
    BY <2>1 DEF Finalize, FinalizeCommit
  <2>3. q \in DOMAIN ra_request /\ ra_request[q].status \in {"PENDING", "EXPIRED_NONE"}
    BY <2>2 DEF LifecycleInv
  <2>4. q # r
    BY <2>3
  <2>5. \E status : ra_request' = Finalized(q, status)
    BY <2>1 DEF Finalize, FinalizeCommit, ra_db_finalize_request
  <2>6. QED
    BY <2>4, <2>5 DEF Finalized, TypeOK, TablesOK
<1>4. CASE Sanitize
  BY <1>4 DEF Sanitize, RequestsSanitizer
<1>5. QED
  <2>1. ASSUME ListenerStep PROVE UNCHANGED ra_request
    BY <2>1 DEF ListenerStep, OpenConnection, CloseConnection, StartSession,
       StartSessionFails, SetUnknown, SetUnknownFails, RevokeSession,
       PassClientUp, NotifyClientDown, close_all_active_sessions, insert_session,
       ra_db_close_session, ra_db_revoke_session, ra_db_set_reaction_status
  <2>2. ASSUME ManagerStep
        PROVE  UNCHANGED ra_request \/ \E m \in Managers : CommitRequest(m) \/ SendBufferFails(m)
    BY <2>2 DEF ManagerStep, TakeClientUp, TakeClientDown, SelectStartupNonce,
       StartupNoData, StartupLabelFails,
       InsertClient, ServeClient, InsertRequest, InsertRequestFails, SendRequest,
       SendRequestFails
  <2>3. ASSUME VerifierStep
        PROVE  UNCHANGED ra_request \/ \E q \in RequestId : Finalize(q) \/ FinalizeCommit(q)
    BY <2>3 DEF VerifierStep, ForwardResponse, GetDataToVerify, DropResponse,
       SetCompromised, FinalizeBegin, FinalizeFails, ra_db_set_reaction_status
  <2>4. ASSUME ManagerCrash \/ NetworkStep \/ MaintenanceStep \/ UNCHANGED vars
        PROVE  UNCHANGED ra_request \/ Sanitize
    BY <2>4 DEF ManagerCrash, NetworkStep, MessageLost, AgeRequest, MaintenanceStep,
       Extract, insert_data, ExtractorExit
  <2>5. QED
    BY <1>1, <1>2, <1>3, <1>4, <2>1, <2>2, <2>3, <2>4 DEF Next

(* Prepared data are only ever added. *)
LEMMA DataKept ==
    ASSUME TypeOK, [Next]_vars, NEW d \in DOMAIN ra_prepared_data
    PROVE  ra_prepared_data'[d] = ra_prepared_data[d]
<1>1. CASE UNCHANGED ra_prepared_data
  BY <1>1
<1>2. CASE \E att \in Attestator : Extract(att)
  <2>1. \E row \in DataRow : ra_prepared_data' = Append(ra_prepared_data, row)
    BY <1>2 DEF Extract, insert_data, DataRow
  <2>2. QED
    BY <2>1 DEF TypeOK, TablesOK
<1>3. QED
  <2>1. ASSUME ListenerStep PROVE UNCHANGED ra_prepared_data
    BY <2>1 DEF ListenerStep, OpenConnection, CloseConnection, StartSession,
       StartSessionFails, SetUnknown, SetUnknownFails, RevokeSession,
       PassClientUp, NotifyClientDown, close_all_active_sessions, insert_session,
       ra_db_close_session, ra_db_revoke_session, ra_db_set_reaction_status
  <2>2. ASSUME ManagerStep PROVE UNCHANGED ra_prepared_data
    BY <2>2 DEF ManagerStep, TakeClientUp, TakeClientDown, SelectStartupNonce,
       StartupNoData, StartupLabelFails,
       InsertClient, ServeClient, InsertRequest, InsertRequestFails, SendRequest,
       SendRequestFails, SendBufferFails, CommitRequest, commit_request
  <2>3. ASSUME VerifierStep PROVE UNCHANGED ra_prepared_data
    BY <2>3 DEF VerifierStep, ForwardResponse, GetDataToVerify, DropResponse,
       SetCompromised, Finalize, FinalizeBegin, FinalizeCommit, FinalizeFails,
       ra_db_set_reaction_status, ra_db_finalize_request
  <2>4. ASSUME ManagerCrash \/ NetworkStep \/ MaintenanceStep \/ UNCHANGED vars
        PROVE  UNCHANGED ra_prepared_data \/ \E att \in Attestator : Extract(att)
    BY <2>4 DEF ManagerCrash, NetworkStep, MessageLost, AgeRequest, MaintenanceStep,
       Sanitize, RequestsSanitizer, ExtractorExit
  <2>5. QED
    BY <1>1, <1>2, <2>1, <2>2, <2>3, <2>4 DEF Next

(* The sessions of the attestators of app stay as they are. *)
SessionsStay(app) ==
    \A t \in DOMAIN ra_session :
        application_id[ra_session[t].attestator_id] = app
        => t \in DOMAIN ra_session' /\ ra_session'[t] = ra_session[t]

(* A startup attestation that is irregular stays so. *)
LEMMA IrregularForEver ==
    ASSUME TypeOK, [Next]_vars, NEW s \in SessionId, startup_run[s] = "irregular"
    PROVE  startup_run'[s] = "irregular"
<1>1. CASE UNCHANGED startup_run
  BY <1>1
<1>2. CASE \E m \in Managers : TakeClientUp(m)
  BY <1>2 DEF TakeClientUp, TypeOK
<1>3. CASE \E m \in Managers : StartupLabelFails(m)
  BY <1>3 DEF StartupLabelFails, TypeOK
<1>4. QED
  <2>1. ASSUME ListenerStep PROVE UNCHANGED startup_run
    BY <2>1 DEF ListenerStep, OpenConnection, CloseConnection, StartSession,
       StartSessionFails, SetUnknown, SetUnknownFails, RevokeSession,
       PassClientUp, NotifyClientDown
  <2>2. ASSUME ManagerStep
        PROVE  \/ UNCHANGED startup_run
               \/ \E m \in Managers : TakeClientUp(m) \/ StartupLabelFails(m)
    BY <2>2 DEF ManagerStep, TakeClientDown, SelectStartupNonce, StartupNoData,
       InsertClient, ServeClient, InsertRequest, InsertRequestFails, SendRequest,
       SendRequestFails, SendBufferFails, CommitRequest
  <2>3. ASSUME VerifierStep PROVE UNCHANGED startup_run
    BY <2>3 DEF VerifierStep, ForwardResponse, GetDataToVerify, DropResponse,
       SetCompromised, Finalize, FinalizeBegin, FinalizeCommit, FinalizeFails
  <2>4. ASSUME ManagerCrash \/ NetworkStep \/ MaintenanceStep \/ UNCHANGED vars
        PROVE  UNCHANGED startup_run
    BY <2>4 DEF ManagerCrash, NetworkStep, MessageLost, AgeRequest, MaintenanceStep,
       Sanitize, Extract, ExtractorExit
  <2>5. QED
    BY <1>1, <1>2, <1>3, <2>1, <2>2, <2>3, <2>4 DEF Next

(* So an application with an irregular active session keeps it. *)
LEMMA IrregularKept ==
    ASSUME TypeOK, [Next]_vars, NEW app, Irregular(app), SessionsStay(app)
    PROVE  Irregular(app)'
<1>1. PICK s \in DOMAIN ra_session :
          /\ ra_session[s].is_active
          /\ application_id[ra_session[s].attestator_id] = app
          /\ startup_run[s] = "irregular"
  BY DEF Irregular
<1>2. s \in SessionId
  BY DEF TypeOK, TablesOK
<1>3. startup_run'[s] = "irregular"
  BY <1>1, <1>2, IrregularForEver
<1>4. s \in DOMAIN ra_session' /\ ra_session'[s] = ra_session[s]
  BY <1>1 DEF SessionsStay
<1>5. QED
  BY <1>1, <1>3, <1>4 DEF Irregular

(* An application stays proved while the sessions of its attestators stay. *)
LEMMA ProvedKept ==
    ASSUME TypeOK, LifecycleInv, StartupInv, [Next]_vars,
           NEW app \in Application, Proved(app), SessionsStay(app)
    PROVE  Proved(app)'
<1> SUFFICES ASSUME NEW att \in Attestator, application_id[att] = app,
                    NEW label \in startup_area[att]
             PROVE  (\E r \in DOMAIN ra_request :
                        /\ ra_request[r].is_startup
                        /\ ra_request[r].status = "SUCCESS"
                        /\ AreaOf(r) = label
                        /\ ra_session[ra_request[r].session_id] =
                             [attestator_id |-> att, is_active |-> TRUE])'
    BY DEF Proved
<1>1. PICK r \in DOMAIN ra_request :
           /\ ra_request[r].is_startup
           /\ ra_request[r].status = "SUCCESS"
           /\ AreaOf(r) = label
           /\ ra_session[ra_request[r].session_id] =
                [attestator_id |-> att, is_active |-> TRUE]
  BY DEF Proved
<1>2. r \in DOMAIN ra_request' /\ ra_request'[r] = ra_request[r]
  BY <1>1, SuccessKept
<1>3. /\ ra_request[r].prepared_data_id \in DOMAIN ra_prepared_data
      /\ ra_request[r].session_id \in DOMAIN ra_session
  BY DEF StartupInv, RequestsInv
<1>4. AreaOf(r)' = label
  BY <1>1, <1>2, <1>3, DataKept DEF AreaOf
<1>5. ra_session'[ra_request[r].session_id] = ra_session[ra_request[r].session_id]
  BY <1>1, <1>3 DEF SessionsStay
<1>6. QED
  BY <1>1, <1>2, <1>4, <1>5

(* The verdict "not tampered" rests on active sessions, and no callback of *)
(* the listener is on its error path.                                      *)
IntactInv ==
    /\ IntactMeansProved
    /\ listener.pc \notin {"up_revoke", "down_revoke"}

(* The listener has taken the sessions of an attestator away, but not yet  *)
(* the verdict on the application app that they prove.                     *)
Revising(app) ==
    /\ listener.pc \in {"insert_session", "up_reaction", "down_reaction"}
    /\ application_id[listener.attestator_id] = app

(* A callback of the listener whose database calls succeed takes sessions  *)
(* away from one application only, and ends by revising its verdict.       *)
LEMMA ListenerIntact ==
    ASSUME "listener" \notin Failures, TypeOK, SessionInv, IntactInv, ListenerStep
    PROVE  /\ listener'.pc \notin {"up_revoke", "down_revoke"}
           /\ \A app \in Application :
                 \/ ra_reaction'[app] # "NONE"
                 \/ Revising(app)'
                 \/ ~Revising(app) /\ SessionsStay(app)
<1>1. /\ listener \in ListenerState
      /\ ra_session \in [DOMAIN ra_session -> SessionRow]
      /\ ra_reaction \in [Application -> reaction_status_t]
  BY DEF TypeOK, TablesOK
<1>2. ~StartSessionFails /\ ~SetUnknownFails /\ ~RevokeSession
  BY DEF StartSessionFails, SetUnknownFails, RevokeSession, IntactInv
<1>3. CASE \E att \in Attestator : OpenConnection(att)
  <2>1. PICK att \in Attestator : OpenConnection(att)
    BY <1>3
  <2>2. /\ listener.pc = "idle"
        /\ listener'.pc = "insert_session"
        /\ listener'.attestator_id = att
        /\ DOMAIN ra_session' = DOMAIN ra_session
        /\ \A t \in DOMAIN ra_session :
              ra_session[t].attestator_id # att => ra_session'[t] = ra_session[t]
    BY <2>1 DEF OpenConnection, close_all_active_sessions
  <2>3. QED
    BY <2>2 DEF Revising, SessionsStay
<1>4. CASE \E att \in Attestator : CloseConnection(att)
  <2>1. PICK att \in Attestator : CloseConnection(att)
    BY <1>4
  <2>2. PICK s \in ActiveSessions(att) :
            /\ listener.pc = "idle"
            /\ ra_db_close_session(s)
            /\ listener' = [pc |-> "down_reaction", attestator_id |-> att, session_id |-> s]
    BY <2>1 DEF CloseConnection
  <2>3. s \in DOMAIN ra_session /\ ra_session[s].attestator_id = att
    BY <2>2 DEF ActiveSessions
  <2>4. /\ DOMAIN ra_session' = DOMAIN ra_session
        /\ \A t \in DOMAIN ra_session \ {s} : ra_session'[t] = ra_session[t]
    BY <1>1, <2>2 DEF ra_db_close_session
  <2>5. QED
    BY <2>2, <2>3, <2>4 DEF Revising, SessionsStay
<1>5. CASE StartSession
  <2>1. /\ listener.pc = "insert_session"
        /\ listener'.pc = "up_reaction"
        /\ listener'.attestator_id = listener.attestator_id
        /\ ra_session' = Insert(ra_session, session_seq + 1,
                               [attestator_id |-> listener.attestator_id, is_active |-> TRUE])
    BY <1>5 DEF StartSession, insert_session
  <2>2. \A t \in DOMAIN ra_session : t \in Int /\ t <= session_seq
    BY DEF SessionInv, TypeOK, TablesOK
  <2>3. session_seq \in Int
    BY DEF TypeOK, TablesOK
  <2>4. \A t \in DOMAIN ra_session :
           t \in DOMAIN ra_session' /\ ra_session'[t] = ra_session[t]
    BY <2>1, <2>2, <2>3 DEF Insert
  <2>5. QED
    BY <2>1, <2>4 DEF Revising, SessionsStay
<1>6. CASE SetUnknown
  <2>1. /\ listener.pc \in {"up_reaction", "down_reaction"}
        /\ UNCHANGED ra_session
        /\ ra_reaction' = [ra_reaction EXCEPT
                             ![application_id[listener.attestator_id]] = "UNKNOWN"]
    BY <1>6 DEF SetUnknown, ra_db_set_reaction_status
  <2>2. listener'.pc \in {"client_up", "client_down"}
    <3>1. listener.pc = "up_reaction" => At(listener, "client_up").pc = "client_up"
      BY <1>1 DEF At, ListenerState
    <3>2. QED
      BY <1>6, <3>1 DEF SetUnknown
  <2>3. listener.attestator_id \in Attestator
    BY <1>1, <2>1 DEF ListenerState
  <2>4. QED
    BY <1>1, <2>1, <2>2, <2>3 DEF Revising, SessionsStay
<1>7. CASE \E m \in Managers : PassClientUp(m) \/ NotifyClientDown(m)
  <2>1. /\ listener.pc \in {"client_up", "client_down"}
        /\ listener'.pc \in {"idle", "client_down"}
        /\ UNCHANGED ra_session
    BY <1>7 DEF PassClientUp, NotifyClientDown
  <2>2. QED
    BY <2>1 DEF Revising, SessionsStay
<1>8. QED
  BY <1>2, <1>3, <1>4, <1>5, <1>6, <1>7 DEF ListenerStep

(* Nobody but the listener changes sessions or what the listener is doing. *)
LEMMA OtherThanListenerIntact ==
    ASSUME "crash" \notin Failures,
           [ManagerStep \/ ManagerCrash \/ NetworkStep \/ VerifierStep \/ MaintenanceStep]_vars
    PROVE  UNCHANGED <<ra_session, listener>>
<1>1. CASE ManagerStep
  BY <1>1 DEF ManagerStep, TakeClientUp, TakeClientDown, SelectStartupNonce,
     StartupNoData, StartupLabelFails, InsertClient, ServeClient, InsertRequest,
     InsertRequestFails, SendRequest, SendRequestFails, SendBufferFails, CommitRequest,
     commit_request
<1>2. CASE VerifierStep
  BY <1>2 DEF VerifierStep, ForwardResponse, GetDataToVerify, DropResponse,
     SetCompromised, Finalize, FinalizeBegin, FinalizeCommit, FinalizeFails,
     ra_db_set_reaction_status, ra_db_finalize_request
<1>3. CASE ManagerCrash \/ NetworkStep \/ MaintenanceStep \/ UNCHANGED vars
  BY <1>3 DEF ManagerCrash, NetworkStep, MessageLost, AgeRequest, MaintenanceStep,
     Sanitize, RequestsSanitizer, Extract, insert_data, ExtractorExit
<1>4. QED
  BY <1>1, <1>2, <1>3

(* A step either leaves the verdict on an application and the sessions it  *)
(* rests on alone, or the counts of the trigger have just agreed.          *)
LEMMA IntactStep ==
    ASSUME Serializable, "listener" \notin Failures, "crash" \notin Failures,
           TypeOK, SessionInv, LifecycleInv, StartupInv, NoOpenTrigger,
           CountsMeanProved', IntactInv, [Next]_vars
    PROVE  IntactInv'
<1>1. /\ listener'.pc \notin {"up_revoke", "down_revoke"}
      /\ \A app \in Application :
            \/ ra_reaction'[app] # "NONE"
            \/ Revising(app)'
            \/ ~Revising(app) /\ SessionsStay(app)
  <2>1. CASE ListenerStep
    BY <2>1, ListenerIntact
  <2>2. CASE [ManagerStep \/ ManagerCrash \/ NetworkStep \/ VerifierStep \/ MaintenanceStep]_vars
    <3>1. UNCHANGED <<ra_session, listener>>
      BY <2>2, OtherThanListenerIntact
    <3>2. \A app \in Application : Revising(app)' <=> Revising(app)
      BY <3>1 DEF Revising
    <3>3. QED
      BY <3>1, <3>2 DEF IntactInv, SessionsStay
  <2>3. QED
    BY <2>1, <2>2 DEF Next
<1>2. ASSUME NEW app \in Application, ra_reaction'[app] = "NONE", ~Revising(app)'
      PROVE  Proved(app)' \/ Irregular(app)'
  <2>1. CASE ra_reaction[app] # "NONE"
    <3>1. is_app_proved(app, ra_request)'
      BY <1>2, <2>1, DeclaredByTrigger
    <3>2. QED
      BY <3>1 DEF CountsMeanProved
  <2>2. CASE ra_reaction[app] = "NONE"
    <3>1. ~Revising(app) /\ SessionsStay(app)
      BY <1>1, <1>2
    <3>2. Proved(app) \/ Irregular(app)
      BY <2>2, <3>1 DEF IntactInv, IntactMeansProved, Revising
    <3>3. QED
      BY <3>1, <3>2, ProvedKept, IrregularKept
  <2>3. QED
    BY <2>1, <2>2
<1>3. QED
  BY <1>1, <1>2 DEF IntactInv, IntactMeansProved, Revising

(* As long as the calls of the listener succeed and the manager process    *)
(* does not crash, an application whose status says that it is not         *)
(* tampered has all its startup areas proved in active sessions, except    *)
(* while the listener revises that status or one of these sessions is      *)
(* irregular: with any number of managers, whatever the managers,          *)
(* verifiers and the network do to the requests.                           *)
THEOREM IntactMeansProvedHolds ==
    ASSUME Serializable, "listener" \notin Failures, "crash" \notin Failures
    PROVE  Spec => []IntactMeansProved
<1>1. Init => NoOpenTrigger /\ IntactInv
  BY DEF Init, TablesInit, NoOpenTrigger, IntactInv, IntactMeansProved
<1>2. TypeOK /\ NoOpenTrigger /\ [Next]_vars => NoOpenTrigger'
  BY NoOpenTriggerStep
<1>3. /\ TypeOK /\ SessionInv /\ LifecycleInv /\ StartupInv /\ NoOpenTrigger
      /\ CountsMeanProved' /\ IntactInv /\ [Next]_vars
      => IntactInv'
  BY IntactStep
<1>4. IntactInv => IntactMeansProved
  BY DEF IntactInv
<1>5. QED
  BY <1>1, <1>2, <1>3, <1>4, TypeCorrect, SessionInvHolds, LifecycleInvHolds,
     StartupInvHolds, CountsMeanProvedHolds, PTL DEF Spec

-----------------------------------------------------------------------------
(***************************************************************************)
(* One startup attestation per hand-off: without a wake-up for no reason   *)
(* and without failing calls of the manager no session is irregular, so    *)
(* that what the tables say of an application declared intact is true.     *)
(***************************************************************************)

(* What a slot or the listener still has to hand over of session s: its    *)
(* startup attestation has not begun, and no other slot holds it.          *)
SlotOnce(m) ==
    slot[m].action = "client_up" =>
        /\ slot[m].woken => startup_run[slot[m].client.session_id] = "not_begun"
        /\ \A n \in Managers \ {m} :
              slot[n].action = "client_up"
              => slot[n].client.session_id # slot[m].client.session_id

ListenerOnce ==
    listener.pc \in {"up_reaction", "client_up"} =>
        /\ startup_run[listener.session_id] = "not_begun"
        /\ \A m \in Managers :
              slot[m].action = "client_up"
              => slot[m].client.session_id # listener.session_id

OnceInv ==
    /\ \A s \in SessionId : startup_run[s] # "irregular"
    /\ \A s \in SessionId : s > session_seq => startup_run[s] = "not_begun"
    /\ \A m \in Managers : SlotOnce(m)
    /\ ListenerOnce

(* Steps that begin no startup attestation and post nothing to a slot. *)
LEMMA OnceKept ==
    ASSUME OnceInv, session_seq' = session_seq, UNCHANGED startup_run,
           \A m \in Managers : slot'[m] = slot[m] \/ slot'[m].action # "client_up",
           \/ listener'.pc \notin {"up_reaction", "client_up"}
           \/ /\ listener.pc \in {"up_reaction", "client_up"}
              /\ listener'.session_id = listener.session_id
    PROVE  OnceInv'
<1>1. \A m \in Managers : SlotOnce(m)'
  BY DEF OnceInv, SlotOnce
<1>2. ListenerOnce'
  BY DEF OnceInv, ListenerOnce
<1>3. QED
  BY <1>1, <1>2 DEF OnceInv

(* The listener passes a new session on, once. *)
LEMMA ListenerOnceStep ==
    ASSUME TypeOK, TypeOK', StartupInv, OnceInv, ListenerStep
    PROVE  OnceInv'
<1>1. /\ session_seq \in Int
      /\ listener \in ListenerState
      /\ slot \in [Managers -> SlotState]
  BY DEF TypeOK, TablesOK
<1>2. UNCHANGED startup_run
  BY DEF ListenerStep, OpenConnection, CloseConnection, StartSession, StartSessionFails,
     SetUnknown, SetUnknownFails, RevokeSession, PassClientUp, NotifyClientDown
<1>3. CASE StartSession
  <2>1. /\ session_seq' = session_seq + 1
        /\ listener' = [pc |-> "up_reaction", attestator_id |-> listener.attestator_id,
                        session_id |-> session_seq + 1]
        /\ UNCHANGED slot
    BY <1>3 DEF StartSession, insert_session
  <2>2. session_seq + 1 \in SessionId
    BY <2>1 DEF TypeOK, ListenerState
  <2>3. \A m \in Managers : slot[m].action = "client_up"
                           => slot[m].client.session_id <= session_seq
    BY DEF StartupInv, SlotInv, HandOffOK
  <2>4. ListenerOnce'
    BY <1>1, <1>2, <2>1, <2>2, <2>3 DEF OnceInv, ListenerOnce
  <2>5. \A m \in Managers : SlotOnce(m)'
    BY <1>2, <2>1 DEF OnceInv, SlotOnce
  <2>6. QED
    BY <1>1, <1>2, <2>1, <2>4, <2>5 DEF OnceInv
<1>4. CASE \E m \in Managers : PassClientUp(m)
  <2>1. PICK m \in Managers : PassClientUp(m)
    BY <1>4
  <2>2. /\ listener.pc = "client_up"
        /\ listener' = [pc |-> "idle"]
        /\ slot'[m].action = "client_up"
        /\ slot'[m].client.session_id = listener.session_id
        /\ \A n \in Managers \ {m} : slot'[n] = slot[n]
        /\ UNCHANGED session_seq
    BY <1>1, <2>1 DEF PassClientUp
  <2>3. ASSUME NEW n \in Managers PROVE SlotOnce(n)'
    BY <1>2, <2>2 DEF OnceInv, SlotOnce, ListenerOnce
  <2>4. QED
    BY <1>2, <2>2, <2>3 DEF OnceInv, ListenerOnce
<1>5. CASE \E m \in Managers : NotifyClientDown(m)
  <2>1. PICK m \in Managers : NotifyClientDown(m)
    BY <1>5
  <2>2. /\ UNCHANGED session_seq
        /\ listener'.pc \in {"idle", "client_down"}
        /\ \A n \in Managers : slot'[n] = slot[n] \/ slot'[n].action # "client_up"
    BY <1>1, <2>1 DEF NotifyClientDown
  <2>3. QED
    BY <1>2, <2>2, OnceKept
<1>6. CASE \/ \E att \in Attestator : OpenConnection(att) \/ CloseConnection(att)
           \/ StartSessionFails \/ SetUnknown \/ SetUnknownFails \/ RevokeSession
  <2>1. UNCHANGED <<session_seq, slot>>
    BY <1>6 DEF OpenConnection, CloseConnection, StartSessionFails, SetUnknown,
       SetUnknownFails, RevokeSession, close_all_active_sessions, ra_db_close_session,
       ra_db_set_reaction_status, ra_db_revoke_session
  <2>2. \/ listener'.pc \notin {"up_reaction", "client_up"}
        \/ /\ listener.pc \in {"up_reaction", "client_up"}
           /\ listener'.session_id = listener.session_id
    BY <1>1, <1>6, ReactionState DEF OpenConnection, CloseConnection, StartSessionFails,
       SetUnknown, SetUnknownFails, RevokeSession
  <2>3. QED
    BY <1>2, <2>1, <2>2, OnceKept
<1>7. QED
  BY <1>3, <1>4, <1>5, <1>6 DEF ListenerStep

(* A thread that looks at its slot has been woken by a signal, and the     *)
(* client stays in the slot as one that is being attested.                 *)
LEMMA ManagerOnceStep ==
    ASSUME "wakeup" \notin Failures, "manager" \notin Failures,
           TypeOK, StartupInv, OnceInv, ManagerStep
    PROVE  OnceInv'
<1>1. /\ slot \in [Managers -> SlotState]
      /\ startup_run \in [SessionId -> StartupRun]
  BY DEF TypeOK
<1>2. UNCHANGED <<session_seq, listener>>
  BY DEF ManagerStep, TakeClientUp, TakeClientDown, SelectStartupNonce, StartupNoData,
     StartupLabelFails, InsertClient, ServeClient, InsertRequest, InsertRequestFails,
     SendRequest, SendRequestFails, SendBufferFails, CommitRequest, commit_request
<1>3. CASE \E m \in Managers : TakeClientUp(m)
  <2>1. PICK m \in Managers : TakeClientUp(m)
    BY <1>3
  <2> PICK c, s : c = slot[m].client /\ s = c.session_id
      OBVIOUS
  <2>2. slot[m].action = "client_up" /\ slot[m].woken
    BY <2>1 DEF TakeClientUp, Awake, Woken
  <2>3. s \in SessionId /\ s <= session_seq
    BY <1>1, <2>2 DEF SlotState, Client, StartupInv, SlotInv, HandOffOK
  <2>4. startup_run[s] = "not_begun"
    BY <2>2 DEF OnceInv, SlotOnce
  <2>5. startup_run' = [startup_run EXCEPT ![s] = "regular"]
    BY <2>1, <2>4 DEF TakeClientUp
  <2>6. /\ slot'[m].action = "client_up"
        /\ slot'[m].client = c
        /\ slot'[m].woken = FALSE
        /\ \A n \in Managers \ {m} : slot'[n] = slot[n]
    BY <1>1, <2>1 DEF TakeClientUp
  <2>7. ASSUME NEW t \in SessionId
        PROVE  /\ t # s => startup_run'[t] = startup_run[t]
               /\ startup_run'[t] # "irregular"
    BY <1>1, <2>5 DEF OnceInv
  <2>8. session_seq \in Int
    BY DEF TypeOK, TablesOK
  <2>9. \A t \in SessionId : t > session_seq' => startup_run'[t] = "not_begun"
    BY <1>2, <2>3, <2>7, <2>8 DEF OnceInv
  <2>10. ASSUME NEW n \in Managers PROVE SlotOnce(n)'
    <3>1. CASE n = m
      BY <2>2, <2>6, <3>1 DEF OnceInv, SlotOnce
    <3>2. CASE n # m
      <4>1. ASSUME slot[n].action = "client_up"
            PROVE  slot[n].client.session_id \in SessionId \ {s}
        BY <1>1, <2>2, <3>2, <4>1 DEF OnceInv, SlotOnce, SlotState, Client
      <4>2. QED
        BY <2>6, <2>7, <3>2, <4>1 DEF OnceInv, SlotOnce
    <3>3. QED
      BY <3>1, <3>2
  <2>11. ListenerOnce'
    <3>1. ASSUME listener.pc \in {"up_reaction", "client_up"}
          PROVE  listener.session_id \in SessionId \ {s}
      BY <2>2, <3>1 DEF OnceInv, ListenerOnce, TypeOK, ListenerState
    <3>2. \A n \in Managers : slot'[n].action = "client_up"
             => /\ slot[n].action = "client_up"
                /\ slot'[n].client = slot[n].client
      BY <2>2, <2>6
    <3>3. QED
      BY <1>2, <2>7, <3>1, <3>2 DEF OnceInv, ListenerOnce
  <2>12. QED
    BY <2>7, <2>9, <2>10, <2>11 DEF OnceInv
<1>4. CASE \E m \in Managers : TakeClientDown(m) \/ InsertClient(m)
  <2>1. PICK m \in Managers : TakeClientDown(m) \/ InsertClient(m)
    BY <1>4
  <2>2. \A n \in Managers : slot'[n] = slot[n] \/ slot'[n].action # "client_up"
    BY <1>1, <2>1 DEF TakeClientDown, InsertClient
  <2>3. UNCHANGED startup_run
    BY <2>1 DEF TakeClientDown, InsertClient
  <2>4. QED
    BY <1>2, <2>2, <2>3, OnceKept
<1>5. CASE UNCHANGED <<slot, startup_run>>
  BY <1>2, <1>5, OnceKept
<1>6. ASSUME NEW m \in Managers PROVE ~StartupLabelFails(m)
  BY DEF StartupLabelFails
<1>7. QED
  BY <1>3, <1>4, <1>5, <1>6 DEF ManagerStep, SelectStartupNonce, StartupNoData,
     ServeClient, InsertRequest, InsertRequestFails, SendRequest, SendRequestFails,
     SendBufferFails, CommitRequest

(* The others hand nothing over; a restart of the manager clears the slots. *)
LEMMA OtherOnceStep ==
    ASSUME OnceInv,
           [ManagerCrash \/ NetworkStep \/ VerifierStep \/ MaintenanceStep]_vars
    PROVE  OnceInv'
<1>1. UNCHANGED <<session_seq, startup_run>>
  BY DEF ManagerCrash, NetworkStep, MessageLost, AgeRequest, VerifierStep,
     ForwardResponse, GetDataToVerify, DropResponse, SetCompromised, Finalize,
     FinalizeBegin, FinalizeCommit, FinalizeFails, ra_db_set_reaction_status,
     ra_db_finalize_request, MaintenanceStep, Sanitize, RequestsSanitizer, Extract,
     insert_data, ExtractorExit
<1>2. \/ UNCHANGED <<slot, listener>>
      \/ /\ \A m \in Managers : slot'[m].action # "client_up"
         /\ listener'.pc = "idle"
  BY DEF ManagerCrash, NetworkStep, MessageLost, AgeRequest, VerifierStep,
     ForwardResponse, GetDataToVerify, DropResponse, SetCompromised, Finalize,
     FinalizeBegin, FinalizeCommit, FinalizeFails, MaintenanceStep, Sanitize, Extract,
     ExtractorExit
<1>3. QED
  BY <1>1, <1>2, OnceKept

(* The client that a hand-off leaves in the slot is attested once, however *)
(* events are lost, overwrite each other or find the client already        *)
(* served, if nothing but a signal wakes a thread and its calls succeed.   *)
THEOREM AttestedOncePerHandOffHolds == Spec => []AttestedOncePerHandOff
<1>1. CASE "wakeup" \in Failures \/ "manager" \in Failures
  <2>1. AttestedOncePerHandOff
    BY <1>1 DEF AttestedOncePerHandOff
  <2>2. QED
    BY <2>1, PTL
<1>2. CASE "wakeup" \notin Failures /\ "manager" \notin Failures
  <2>1. Init => OnceInv
    <3>1. ASSUME Init
          PROVE  /\ \A s \in SessionId : startup_run[s] = "not_begun"
                 /\ \A m \in Managers : slot[m].action = "none"
                 /\ listener.pc = "idle"
      BY <3>1 DEF Init
    <3>2. QED
      BY <3>1 DEF OnceInv, SlotOnce, ListenerOnce
  <2>2. TypeOK /\ TypeOK' /\ StartupInv /\ OnceInv /\ [Next]_vars => OnceInv'
    BY <1>2, ListenerOnceStep, ManagerOnceStep, OtherOnceStep DEF Next
  <2>3. OnceInv => AttestedOncePerHandOff
    BY DEF OnceInv, AttestedOncePerHandOff
  <2>4. QED
    BY <2>1, <2>2, <2>3, TypeCorrect, StartupInvHolds, PTL DEF Spec
<1>3. QED
  BY <1>1, <1>2

(* Without such a wake-up and without failing calls of the manager the     *)
(* tables say the truth: an application is declared intact only when it is *)
(* proved, whatever else fails.                                            *)
THEOREM DeclaredIntactIsProvedHolds ==
    ASSUME Serializable, {"wakeup", "manager"} \cap Failures = {}
    PROVE  Spec => DeclaredIntactIsProved
<1>1. /\ TypeOK'
      /\ AttestedOncePerHandOff'
      /\ [\A app \in Application :
            ra_reaction[app] # "NONE" /\ ra_reaction'[app] = "NONE"
            => /\ ra_reaction[app] = "UNKNOWN"
               /\ Proved(app)' \/ Irregular(app)']_vars
      => [\A app \in Application :
            ra_reaction[app] # "NONE" /\ ra_reaction'[app] = "NONE"
            => Proved(app)']_vars
  <2>1. ASSUME TypeOK', AttestedOncePerHandOff'
        PROVE  \A app : ~Irregular(app)'
    BY <2>1 DEF AttestedOncePerHandOff, Irregular, TypeOK, TablesOK
  <2>2. QED
    BY <2>1
<1>2. QED
  BY <1>1, TypeCorrect, AttestedOncePerHandOffHolds, ProvedWhenDeclaredHolds, PTL
     DEF ProvedWhenDeclared, DeclaredIntactIsProved
=============================================================================
