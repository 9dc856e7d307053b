---------------------------- MODULE Attestation ----------------------------
(***************************************************************************)
(* The remote attestation protocol as the server runs it: the connection   *)
(* listener that starts and ends sessions, the actual managers that pick a *)
(* nonce, insert a request, send it and only then commit it, the attested  *)
(* clients, the forwarder that stamps a response and starts a verifier     *)
(* process for it, the verifiers, the extractors that refill the prepared  *)
(* data, the sanitizer that expires unanswered requests, and the trigger   *)
(* that declares an application intact.  All of them interleave on the     *)
(* tables of RADatabase.                                                   *)
(*                                                                         *)
(* The listener hands a client to a manager thread through the thread's    *)
(* slot and condition variable.  Module Manager follows these locks one by *)
(* one; here the listener posts an action while the thread waits, and the  *)
(* signal wakes the thread or is lost.  Time is the age of a request       *)
(* relative to its validity time.                                          *)
(***************************************************************************)
EXTENDS RADatabase

CONSTANTS
    Managers,      \* the actual manager threads
    Threshold,     \* NONCE_CRITICAL_THRESHOLD
    Failures,      \* the processes whose calls may fail, see Faults
    Serializable,  \* does the DBMS run an update and its trigger as one step?
    NoManager      \* placeholder for "not issued"

(* Where faults may strike: the database calls of the listener, the calls  *)
(* of a manager thread, those of forwarder and verifier, and the manager   *)
(* process as a whole.  "wakeup" is no failing call: POSIX lets            *)
(* pthread_cond_timedwait return although nothing was signalled.           *)
Faults == {"listener", "manager", "verifier", "crash", "wakeup"}

ASSUME ManagersAssumption ==
    /\ NoManager \notin Managers
    /\ Threshold \in Nat \ {0}
    /\ Failures \subseteq Faults
    /\ Serializable \in BOOLEAN

VARIABLES
    listener,    \* the callback the connection listener is executing
    clients,     \* manager -> the clients in its list and scheduler queue
    manager,     \* manager -> what the thread is doing
    slot,        \* manager -> the action and client the listener left there
    age,         \* request id -> its age compared with the validity time
    channel,     \* request id -> where the request or its response is
    verifier,    \* request id -> the verifier process of its response
    extracting,  \* attestators an extractor process is running for
    issued_by,   \* request id -> the manager that inserted it (history)
    startup_run  \* session -> how its startup attestation went (history)

vars == <<tables, listener, clients, manager, slot, age, channel, verifier,
          extracting, issued_by, startup_run>>

-----------------------------------------------------------------------------
(* State of the processes *)

(* RA_client_t: what the listener stores of a connected attestator. *)
Client == [attestator_id : Attestator, session_id : SessionId]

ListenerState ==
    [pc : {"idle"}]
    \cup [pc : {"insert_session"}, attestator_id : Attestator]
    \cup [pc : {"up_reaction", "up_revoke", "client_up",
                "down_reaction", "down_revoke"},
          attestator_id : Attestator, session_id : SessionId]
    \cup [pc : {"client_down"}, attestator_id : Attestator,
          notify : SUBSET Managers]

ManagerState ==
    [pc : {"wait"}]
    \cup [pc : {"startup"}, client : Client, labels : SUBSET Area]
    \cup [pc : {"insert"}, client : Client, labels : SUBSET Area,
          is_startup : BOOLEAN, data : DataId]
    \cup [pc : {"send", "commit"}, client : Client, labels : SUBSET Area,
          is_startup : BOOLEAN, data : DataId, id : RequestId]

(* actual_manager_t: action and passingClient, and whether the thread has  *)
(* been woken by a signal and not yet looked.  A NULL client is "none".    *)
SlotState ==
    [action : {"none"}]
    \cup [action : {"client_up"}, client : Client, woken : BOOLEAN]
    \cup [action : {"client_down"}, attestator_id : Attestator, woken : BOOLEAN]

(* A startup attestation is irregular when it was begun twice, or sent a   *)
(* request with a prepared data id that no successful query had returned.  *)
StartupRun == {"not_begun", "regular", "irregular"}

(* Has a signal taken manager m out of pthread_cond_timedwait? *)
Woken(m) == slot[m].action # "none" /\ slot[m].woken

(* A process that has moved on to the step pc. *)
At(state, pc) == [state EXCEPT !.pc = pc]

Ages == {"fresh", "due", "over"}

(* A request is unsent, on its way (or answered, with the response on its  *)
(* way back), lost (or its response is), or its response has arrived.      *)
Channel == {"unsent", "request", "lost", "arrived"}

VerifierState ==
    [pc : {"none", "dropped", "done"}]
    \cup [pc : {"get_data"}, right : BOOLEAN, in_time : BOOLEAN, app_known : BOOLEAN]
    \cup [pc : {"compromised", "finalize"}, status : request_status_t,
          app_known : BOOLEAN]
    \cup [pc : {"trigger"}, status : request_status_t, proved : BOOLEAN]

TypeOK ==
    /\ TablesOK
    /\ listener \in ListenerState
    /\ clients \in [Managers -> SUBSET Client]
    /\ manager \in [Managers -> ManagerState]
    /\ slot \in [Managers -> SlotState]
    /\ age \in [RequestId -> Ages]
    /\ channel \in [RequestId -> Channel]
    /\ verifier \in [RequestId -> VerifierState]
    /\ extracting \in SUBSET Attestator
    /\ issued_by \in [RequestId -> Managers \cup {NoManager}]
    /\ startup_run \in [SessionId -> StartupRun]

Init ==
    /\ TablesInit
    /\ listener = [pc |-> "idle"]
    /\ clients = [m \in Managers |-> {}]
    /\ manager = [m \in Managers |-> [pc |-> "wait"]]
    /\ slot = [m \in Managers |-> [action |-> "none"]]
    /\ age = [r \in RequestId |-> "fresh"]
    /\ channel = [r \in RequestId |-> "unsent"]
    /\ verifier = [r \in RequestId |-> [pc |-> "none"]]
    /\ extracting = {}
    /\ issued_by = [r \in RequestId |-> NoManager]
    /\ startup_run = [s \in SessionId |-> "not_begun"]

-----------------------------------------------------------------------------
(* Connection listener: asclWebSocketDispatcherMessage.  One thread, so a  *)
(* callback finishes before the next one starts.                           *)

(* An uncommitted request holds a shared lock on the row of its session    *)
(* (foreign key), so an update of that row waits for the transaction.      *)
Locked(s) ==
    \E m \in Managers : /\ manager[m].pc \in {"send", "commit"}
                        /\ manager[m].client.session_id = s

UnlockedSessions(att) ==
    \A s \in DOMAIN ra_session :
        ra_session[s].attestator_id = att => ~Locked(s)

(* What the listener's steps leave alone. *)
otherThanListener == <<clients, manager, age, channel, verifier, extracting,
                       issued_by, startup_run>>

(* ASCL_WS_MESSAGE_OPEN: ra_db_start_session, first statement. *)
OpenConnection(att) ==
    /\ listener.pc = "idle"
    /\ session_seq < MaxSession
    /\ UnlockedSessions(att)
    /\ close_all_active_sessions(att)
    /\ listener' = [pc |-> "insert_session", attestator_id |-> att]
    /\ UNCHANGED <<slot, otherThanListener>>

(* ra_db_start_session, second statement. *)
StartSession ==
    /\ listener.pc = "insert_session"
    /\ insert_session(listener.attestator_id)
    /\ listener' = [pc |-> "up_reaction", attestator_id |-> listener.attestator_id,
                    session_id |-> session_seq']
    /\ UNCHANGED <<slot, otherThanListener>>

(* The insert fails: the connection is refused, the sessions stay closed. *)
StartSessionFails ==
    /\ "listener" \in Failures
    /\ listener.pc = "insert_session"
    /\ listener' = [pc |-> "idle"]
    /\ UNCHANGED <<tables, slot, otherThanListener>>

(* Seeded fault: ending a session leaves the reaction status as it is. *)
SetUnknown_OnOpenOnly ==
    /\ listener.pc \in {"up_reaction", "down_reaction"}
    /\ IF listener.pc = "up_reaction"
       THEN /\ ra_db_set_reaction_status(application_id[listener.attestator_id], "UNKNOWN")
            /\ listener' = At(listener, "client_up")
       ELSE /\ UNCHANGED tables
            /\ listener' = [pc |-> "client_down", notify |-> Managers,
                            attestator_id |-> listener.attestator_id]
    /\ UNCHANGED <<slot, otherThanListener>>

(* The reaction status becomes UNKNOWN, on OPEN as on CLOSE. *)
SetUnknown ==
    /\ listener.pc \in {"up_reaction", "down_reaction"}
    /\ ra_db_set_reaction_status(application_id[listener.attestator_id], "UNKNOWN")
    /\ listener' = IF listener.pc = "up_reaction"
                   THEN At(listener, "client_up")
                   ELSE [pc |-> "client_down", notify |-> Managers,
                         attestator_id |-> listener.attestator_id]
    /\ UNCHANGED <<slot, otherThanListener>>

(* That update fails: the session is to be deleted. *)
SetUnknownFails ==
    /\ "listener" \in Failures
    /\ listener.pc \in {"up_reaction", "down_reaction"}
    /\ listener' = At(listener, IF listener.pc = "up_reaction"
                                THEN "up_revoke" ELSE "down_revoke")
    /\ UNCHANGED <<tables, slot, otherThanListener>>

(* ra_db_revoke_session; the callback ends with ASCL_ERROR, nobody is told. *)
RevokeSession ==
    /\ listener.pc \in {"up_revoke", "down_revoke"}
    /\ ~Locked(listener.session_id)
    /\ \/ ra_db_revoke_session(listener.session_id)
       \/ "listener" \in Failures /\ UNCHANGED tables
    /\ listener' = [pc |-> "idle"]
    /\ UNCHANGED <<slot, otherThanListener>>

(* lock, action and passingClient, signal, unlock.  The thread holds its   *)
(* mutex while it works, so the listener waits until it waits.  The signal *)
(* wakes it, or is lost because it is not yet inside pthread_cond_timedwait *)
(* again; either way the slot is overwritten.  A thread already woken      *)
(* finds the new action.                                                   *)
Signalled(m) == {TRUE, Woken(m)}

(* The client is passed to one manager.  Which one is least loaded is a    *)
(* matter of clients_count (module Manager).                               *)
PassClientUp(m) ==
    /\ listener.pc = "client_up"
    /\ manager[m].pc = "wait"
    /\ \E woken \in Signalled(m) :
          slot' = [slot EXCEPT ![m] =
                     [action |-> "client_up", woken |-> woken,
                      client |-> [attestator_id |-> listener.attestator_id,
                                  session_id |-> listener.session_id]]]
    /\ listener' = [pc |-> "idle"]
    /\ UNCHANGED <<tables, otherThanListener>>

(* ASCL_WS_MESSAGE_CLOSE: ra_db_get_active_session and ra_db_close_session. *)
(* Without exactly one active session the callback changes nothing.        *)
CloseConnection(att) ==
    /\ listener.pc = "idle"
    /\ \E s \in ActiveSessions(att) :
          /\ ActiveSessions(att) = {s}
          /\ ~Locked(s)
          /\ ra_db_close_session(s)
          /\ listener' = [pc |-> "down_reaction", attestator_id |-> att, session_id |-> s]
    /\ UNCHANGED <<slot, otherThanListener>>

(* Seeded fault: the managers are signalled, but what an earlier event left *)
(* in the slot stays there.                                                *)
NotifyClientDown_SlotKept(m) ==
    /\ listener.pc = "client_down"
    /\ m \in listener.notify
    /\ manager[m].pc = "wait"
    /\ slot' = [slot EXCEPT ![m] =
                  IF @.action = "client_up"
                  THEN [action |-> "client_up", woken |-> TRUE, client |-> @.client]
                  ELSE @]
    /\ listener' = IF listener.notify = {m}
                   THEN [pc |-> "idle"]
                   ELSE [pc |-> "client_down", notify |-> listener.notify \ {m},
                         attestator_id |-> listener.attestator_id]
    /\ UNCHANGED <<tables, otherThanListener>>

(* One iteration of the "broadcast" (of one client object, whose lifetime  *)
(* is a matter of module Manager).                                         *)
NotifyClientDown(m) ==
    /\ listener.pc = "client_down"
    /\ m \in listener.notify
    /\ manager[m].pc = "wait"
    /\ \E woken \in Signalled(m) :
          slot' = [slot EXCEPT ![m] =
                     [action |-> "client_down", woken |-> woken,
                      attestator_id |-> listener.attestator_id]]
    /\ listener' = IF listener.notify = {m}
                   THEN [pc |-> "idle"]
                   ELSE [pc |-> "client_down", notify |-> listener.notify \ {m},
                         attestator_id |-> listener.attestator_id]
    /\ UNCHANGED <<tables, otherThanListener>>

-----------------------------------------------------------------------------
(* Actual managers: attest_client_at_startup, serve_client, send_ra_request *)

otherThanManager == <<listener, verifier, age, slot, startup_run>>

(* The thread looks at its slot: pthread_cond_timedwait has returned        *)
(* without ETIMEDOUT, after a signal or for no reason at all.              *)
Awake(m) ==
    /\ manager[m].pc = "wait"
    /\ Woken(m) \/ "wakeup" \in Failures

(* It finds client_up and a client, and starts to attest it: the labels to *)
(* attest at startup are read (none if that query fails).  The client      *)
(* stays in the slot, so this may be the same client again.                *)
TakeClientUp(m) ==
    /\ Awake(m)
    /\ slot[m].action = "client_up"
    /\ LET client == slot[m].client
           run    == startup_run[client.session_id] IN
       /\ \E labels \in {startup_area[client.attestator_id]}
                        \cup (IF "manager" \in Failures THEN {{}} ELSE {}) :
             manager' = [manager EXCEPT ![m] =
                           [pc |-> "startup", labels |-> labels, client |-> client]]
       /\ startup_run' = [startup_run EXCEPT ![client.session_id] =
                             IF run = "not_begun" THEN "regular" ELSE "irregular"]
       /\ slot' = [slot EXCEPT ![m] =
                     [action |-> "client_up", woken |-> FALSE, client |-> client]]
    /\ UNCHANGED <<tables, listener, clients, age, channel, verifier, extracting, issued_by>>

(* It finds client_down: the client is dropped, if it is served.  The slot *)
(* is left with a NULL client, which neither branch acts upon.             *)
TakeClientDown(m) ==
    /\ Awake(m)
    /\ slot[m].action = "client_down"
    /\ clients' = [clients EXCEPT ![m] =
                      {c \in @ : c.attestator_id # slot[m].attestator_id}]
    /\ slot' = [slot EXCEPT ![m] = [action |-> "none"]]
    /\ UNCHANGED <<tables, listener, manager, age, channel, verifier, extracting,
                   issued_by, startup_run>>

(* gl_insert compares attestators only: a client already served keeps its  *)
(* old session.                                                            *)
AlreadyServed(m, c) == \E d \in clients[m] : d.attestator_id = c.attestator_id

(* send_ra_request has returned: next startup label, or back to waiting. *)
Returned(m) ==
    manager' = [manager EXCEPT ![m] =
                  IF @.is_startup
                  THEN [pc |-> "startup", client |-> @.client, labels |-> @.labels]
                  ELSE [pc |-> "wait"]]

(* launch_extractor: forks and does not wait.  Extractors that could not   *)
(* insert within the bound are not tracked.                                *)
LaunchExtractor(att) ==
    extracting' = IF Len(ra_prepared_data) < MaxData
                  THEN extracting \cup {att}
                  ELSE extracting

(* Seeded fault: the loop does not advance to the next label. *)
SelectStartupNonce_SameLabel(m) ==
    /\ manager[m].pc = "startup"
    /\ \E label \in manager[m].labels :
         \E d \in ValidNoncesByLabel(manager[m].client.attestator_id, label) :
            manager' = [manager EXCEPT ![m] =
                          [pc |-> "insert", client |-> @.client, is_startup |-> TRUE,
                           labels |-> @.labels, data |-> d]]
    /\ UNCHANGED <<tables, clients, otherThanManager, channel, extracting, issued_by>>

(* The next label has prepared data: ra_db_get_valid_nonce_by_area_label. *)
SelectStartupNonce(m) ==
    /\ manager[m].pc = "startup"
    /\ \E label \in manager[m].labels :
         \E d \in ValidNoncesByLabel(manager[m].client.attestator_id, label) :
            manager' = [manager EXCEPT ![m] =
                          [pc |-> "insert", client |-> @.client, is_startup |-> TRUE,
                           labels |-> @.labels \ {label}, data |-> d]]
    /\ UNCHANGED <<tables, clients, otherThanManager, channel, extracting, issued_by>>

(* No prepared data for the label: launch an extractor, and ask again. *)
StartupNoData(m) ==
    /\ manager[m].pc = "startup"
    /\ \E label \in manager[m].labels :
          ValidNoncesByLabel(manager[m].client.attestator_id, label) = {}
    /\ LaunchExtractor(manager[m].client.attestator_id)
    /\ UNCHANGED <<tables, clients, manager, otherThanManager, channel, issued_by>>

(* ATTEST_AT_STARTUP_MAX_ERRORS errors: the label is given up, but         *)
(* send_ra_request is still called, with the nonce NULL and whatever the   *)
(* prepared data id holds: nothing, the id of the previous label, or one   *)
(* read before an allocation failed.  Either the foreign key refuses it,   *)
(* or the row is inserted; copying the NULL nonce then ends the process    *)
(* (ManagerCrash) unless its size is 0 or there is no send buffer.         *)
StartupLabelFails(m) ==
    /\ "manager" \in Failures
    /\ manager[m].pc = "startup"
    /\ \E label \in manager[m].labels :
          \/ /\ manager' = [manager EXCEPT ![m] =
                              [pc |-> "startup", client |-> @.client,
                               labels |-> @.labels \ {label}]]
             /\ UNCHANGED startup_run
          \/ /\ \E d \in DOMAIN ra_prepared_data :
                   manager' = [manager EXCEPT ![m] =
                                 [pc |-> "insert", client |-> @.client, is_startup |-> TRUE,
                                  labels |-> @.labels \ {label}, data |-> d]]
             /\ startup_run' = [startup_run EXCEPT
                                  ![manager[m].client.session_id] = "irregular"]
    /\ UNCHANGED <<tables, listener, clients, slot, age, channel, verifier, extracting, issued_by>>

(* All labels done: the client is listed and scheduled, and taken out of   *)
(* the slot; one that is already served stays there.                       *)
InsertClient(m) ==
    /\ manager[m].pc = "startup"
    /\ manager[m].labels = {}
    /\ IF AlreadyServed(m, manager[m].client)
       THEN UNCHANGED <<clients, slot>>
       ELSE /\ clients' = [clients EXCEPT ![m] = @ \cup {manager[m].client}]
            /\ slot' = [slot EXCEPT ![m] = [action |-> "none"]]
    /\ manager' = [manager EXCEPT ![m] = [pc |-> "wait"]]
    /\ UNCHANGED <<tables, listener, age, channel, verifier, extracting, issued_by, startup_run>>

(* Timeout, the head of the queue is served: a nonce is selected if at     *)
(* least Threshold are left, otherwise the extractor is launched.  A woken *)
(* thread has not timed out.                                               *)
ServeClient(m) ==
    /\ manager[m].pc = "wait"
    /\ ~Woken(m)
    /\ \E c \in clients[m] :
          LET valid == ValidNonces(c.attestator_id) IN
          \/ /\ Cardinality(valid) >= Threshold
             /\ \E d \in valid :
                   manager' = [manager EXCEPT ![m] =
                                 [pc |-> "insert", client |-> c, labels |-> {},
                                  is_startup |-> FALSE, data |-> d]]
             /\ UNCHANGED extracting
          \/ /\ Cardinality(valid) < Threshold
             /\ LaunchExtractor(c.attestator_id)
             /\ UNCHANGED manager
    /\ UNCHANGED <<tables, clients, otherThanManager, channel, issued_by>>

(* The row that send_ra_request inserts. *)
Row(m) == [prepared_data_id |-> manager[m].data,
           session_id |-> manager[m].client.session_id,
           is_startup |-> manager[m].is_startup,
           status |-> "PENDING"]

(* INSERT in a transaction of its own; the id is final, the row invisible. *)
(* The foreign key requires the session to exist.                          *)
InsertRequest(m) ==
    /\ manager[m].pc = "insert"
    /\ manager[m].client.session_id \in DOMAIN ra_session
    /\ request_seq < MaxRequest
    /\ request_seq' = request_seq + 1
    /\ manager' = [manager EXCEPT ![m] =
                     [pc |-> "send", client |-> @.client, labels |-> @.labels,
                      is_startup |-> @.is_startup, data |-> @.data,
                      id |-> request_seq']]
    /\ issued_by' = [issued_by EXCEPT ![request_seq'] = m]
    /\ UNCHANGED <<ra_session, ra_prepared_data, ra_request, ra_reaction,
                   session_seq, clients, otherThanManager, channel, extracting>>

InsertRequestFails(m) ==
    /\ manager[m].pc = "insert"
    /\ "manager" \in Failures \/ manager[m].client.session_id \notin DOMAIN ra_session
    /\ Returned(m)
    /\ UNCHANGED <<tables, clients, otherThanManager, channel, extracting, issued_by>>

(* Seeded fault: the row is committed before the request is sent, but the  *)
(* rollback of a failed send is kept.                                      *)
SendRequest_CommitFirst(m) ==
    /\ manager[m].pc = "send"
    /\ channel' = [channel EXCEPT ![manager[m].id] = "request"]
    /\ commit_request(manager[m].id, Row(m))
    /\ manager' = [manager EXCEPT ![m] = At(@, "commit")]
    /\ UNCHANGED <<clients, otherThanManager, extracting, issued_by>>

(* atomic_asclWebSocketSend succeeds: the request is on its way. *)
SendRequest(m) ==
    /\ manager[m].pc = "send"
    /\ channel' = [channel EXCEPT ![manager[m].id] = "request"]
    /\ manager' = [manager EXCEPT ![m] = At(@, "commit")]
    /\ UNCHANGED <<tables, clients, otherThanManager, extracting, issued_by>>

(* It fails (the client is gone): ROLLBACK. *)
SendRequestFails(m) ==
    /\ manager[m].pc = "send"
    /\ Returned(m)
    /\ UNCHANGED <<tables, clients, otherThanManager, channel, extracting, issued_by>>

(* mysql_commit, after the send.  Its result is not checked. *)
CommitRequest(m) ==
    /\ manager[m].pc = "commit"
    /\ \/ commit_request(manager[m].id, Row(m))
       \/ "manager" \in Failures /\ UNCHANGED tables
    /\ Returned(m)
    /\ UNCHANGED <<clients, otherThanManager, channel, extracting, issued_by>>

(* The send buffer cannot be allocated: nothing is sent, but turning       *)
(* autocommit on again commits the row.                                    *)
SendBufferFails(m) ==
    /\ "manager" \in Failures
    /\ manager[m].pc = "send"
    /\ commit_request(manager[m].id, Row(m))
    /\ Returned(m)
    /\ UNCHANGED <<clients, otherThanManager, channel, extracting, issued_by>>

(* The manager process ends (signal, or the crash above) and is restarted: *)
(* lists, queues and slots are lost, open transactions are rolled back.    *)
ManagerCrash ==
    /\ "crash" \in Failures
    /\ listener' = [pc |-> "idle"]
    /\ clients' = [m \in Managers |-> {}]
    /\ manager' = [m \in Managers |-> [pc |-> "wait"]]
    /\ slot' = [m \in Managers |-> [action |-> "none"]]
    /\ UNCHANGED <<tables, age, channel, verifier, extracting, issued_by, startup_run>>

-----------------------------------------------------------------------------
(* Client and network *)

(* The request or the response to it is lost: the client has gone, does    *)
(* not answer, or its send fails.                                          *)
MessageLost(r) ==
    /\ channel[r] = "request"
    /\ channel' = [channel EXCEPT ![r] = "lost"]
    /\ UNCHANGED <<tables, listener, clients, manager, slot, age, verifier, extracting,
                   issued_by, startup_run>>

(* Requests whose age somebody still reads: the forwarder will stamp their *)
(* response, or the sanitizer may expire them.  Ages of others are left as *)
(* they are.                                                               *)
Watched ==
    {r \in RequestId :
        \/ channel[r] = "request"
        \/ r \in DOMAIN ra_request /\ ra_request[r].status = "PENDING"}

(* Time passes for request r.  An older request is at least as old. *)
AgeRequest(r) ==
    /\ r \in Watched
    /\ age[r] # "over"
    /\ LET next == IF age[r] = "fresh" THEN "due" ELSE "over" IN
          /\ \A q \in Watched : q < r => age[q] \in {next, "over"}
          /\ age' = [age EXCEPT ![r] = next]
    /\ UNCHANGED <<tables, listener, clients, manager, slot, channel, verifier, extracting,
                   issued_by, startup_run>>

-----------------------------------------------------------------------------
(* Forwarder and verifier: one process per response *)

otherThanVerifier == <<listener, clients, manager, slot, age, extracting, issued_by,
                       startup_run>>

(* The client's response, right or wrong, arrives.  verifier_forwarder     *)
(* stamps it and starts a verifier, which looks up the application by the  *)
(* AID in the response and ignores whether that succeeded.                 *)
ForwardResponse(r) ==
    /\ channel[r] = "request"
    /\ channel' = [channel EXCEPT ![r] = "arrived"]
    /\ \/ \E right \in BOOLEAN, known \in {TRUE, "verifier" \notin Failures} :
             verifier' = [verifier EXCEPT ![r] =
                            [pc |-> "get_data", right |-> right,
                             in_time |-> age[r] = "fresh", app_known |-> known]]
       \/ "verifier" \in Failures /\ verifier' = [verifier EXCEPT ![r] = [pc |-> "dropped"]]
    /\ UNCHANGED <<tables, otherThanVerifier>>

(* Seeded fault: one status for every late response. *)
Verdict_Expired(right, in_time) ==
    IF ~in_time THEN "EXPIRED" ELSE IF right THEN "SUCCESS" ELSE "FAILED"

Verdict(right, in_time) ==
    IF right THEN IF in_time THEN "SUCCESS" ELSE "EXPIRED_SUCCESS"
             ELSE IF in_time THEN "FAILED" ELSE "EXPIRED_FAILED"

(* ra_db_get_data_to_verify finds the committed row; the hashes are compared. *)
GetDataToVerify(r) ==
    /\ verifier[r].pc = "get_data"
    /\ r \in DOMAIN ra_request
    /\ verifier' = [verifier EXCEPT ![r] =
                      [pc |-> IF @.right THEN "finalize" ELSE "compromised",
                       status |-> Verdict(@.right, @.in_time), app_known |-> @.app_known]]
    /\ UNCHANGED <<tables, channel, otherThanVerifier>>

(* It finds no row, or fails: the response is dropped. *)
DropResponse(r) ==
    /\ verifier[r].pc = "get_data"
    /\ r \notin DOMAIN ra_request \/ "verifier" \in Failures
    /\ verifier' = [verifier EXCEPT ![r] = [pc |-> "dropped"]]
    /\ UNCHANGED <<tables, channel, otherThanVerifier>>

(* Wrong response: reaction status COMPROMISED, before the request is      *)
(* finalized.  Lost if the update fails or the application is not known.   *)
SetCompromised(r) ==
    /\ verifier[r].pc = "compromised"
    /\ \/ /\ verifier[r].app_known
          /\ ra_db_set_reaction_status(ApplicationOf(ra_request[r]), "COMPROMISED")
       \/ "verifier" \in Failures /\ UNCHANGED tables
    /\ verifier' = [verifier EXCEPT ![r] = At(@, "finalize")]
    /\ UNCHANGED <<channel, otherThanVerifier>>

(* ra_db_finalize_request and its trigger as one step. *)
Finalize(r) ==
    /\ Serializable
    /\ verifier[r].pc = "finalize"
    /\ ra_db_finalize_request(r, verifier[r].status,
          startup_attestation(r, Finalized(r, verifier[r].status)))
    /\ verifier' = [verifier EXCEPT ![r] = [pc |-> "done"]]
    /\ UNCHANGED <<channel, otherThanVerifier>>

(* Below SERIALIZABLE the trigger's queries read a snapshot ...            *)
FinalizeBegin(r) ==
    /\ ~Serializable
    /\ verifier[r].pc = "finalize"
    /\ verifier' = [verifier EXCEPT ![r] =
                      [pc |-> "trigger", status |-> @.status,
                       proved |-> startup_attestation(r, Finalized(r, @.status))]]
    /\ UNCHANGED <<tables, channel, otherThanVerifier>>

(* ... and its update of ra_reaction, with the commit, comes later. *)
FinalizeCommit(r) ==
    /\ verifier[r].pc = "trigger"
    /\ ra_db_finalize_request(r, verifier[r].status, verifier[r].proved)
    /\ verifier' = [verifier EXCEPT ![r] = [pc |-> "done"]]
    /\ UNCHANGED <<channel, otherThanVerifier>>

(* The update fails, which the verifier ignores. *)
FinalizeFails(r) ==
    /\ "verifier" \in Failures
    /\ verifier[r].pc = "finalize"
    /\ verifier' = [verifier EXCEPT ![r] = [pc |-> "dropped"]]
    /\ UNCHANGED <<tables, channel, otherThanVerifier>>

-----------------------------------------------------------------------------
(* Sanitizer and extractor *)

(* RequestsSanitizer is called from outside; it waits for rows that are    *)
(* being finalized.                                                        *)
Sanitize ==
    /\ \A r \in RequestId : verifier[r].pc # "trigger"
    /\ \E r \in DOMAIN ra_request : age[r] = "over" /\ ra_request[r].status = "PENDING"
    /\ RequestsSanitizer({r \in RequestId : age[r] = "over"})
    /\ UNCHANGED <<listener, clients, manager, slot, age, channel, verifier, extracting,
                   issued_by, startup_run>>

(* An extractor inserts one prepared datum; the nonce it draws decides the *)
(* area.                                                                   *)
Extract(att) ==
    /\ att \in extracting
    /\ \E label \in Area :
          insert_data([attestator_id |-> att, memory_area |-> label])
    /\ UNCHANGED <<listener, clients, manager, slot, age, channel, verifier, extracting,
                   issued_by, startup_run>>

(* It has inserted them all, or has met too many errors. *)
ExtractorExit(att) ==
    /\ att \in extracting
    /\ extracting' = extracting \ {att}
    /\ UNCHANGED <<tables, listener, clients, manager, slot, age, channel, verifier,
                   issued_by, startup_run>>

-----------------------------------------------------------------------------
ListenerStep ==
    \/ \E att \in Attestator : OpenConnection(att) \/ CloseConnection(att)
    \/ StartSession \/ StartSessionFails
    \/ SetUnknown \/ SetUnknownFails \/ RevokeSession
    \/ \E m \in Managers : PassClientUp(m) \/ NotifyClientDown(m)

ManagerStep ==
    \E m \in Managers :
        \/ TakeClientUp(m) \/ TakeClientDown(m)
        \/ SelectStartupNonce(m) \/ StartupNoData(m)
        \/ StartupLabelFails(m) \/ InsertClient(m) \/ ServeClient(m)
        \/ InsertRequest(m) \/ InsertRequestFails(m)
        \/ SendRequest(m) \/ SendRequestFails(m) \/ SendBufferFails(m)
        \/ CommitRequest(m)

NetworkStep ==
    \E r \in RequestId : MessageLost(r) \/ AgeRequest(r)

VerifierStep ==
    \E r \in RequestId :
        \/ ForwardResponse(r) \/ GetDataToVerify(r) \/ DropResponse(r)
        \/ SetCompromised(r) \/ Finalize(r)
        \/ FinalizeBegin(r) \/ FinalizeCommit(r) \/ FinalizeFails(r)

MaintenanceStep ==
    \/ Sanitize
    \/ \E att \in Attestator : Extract(att) \/ ExtractorExit(att)

Next == ListenerStep \/ ManagerStep \/ ManagerCrash \/ NetworkStep
        \/ VerifierStep \/ MaintenanceStep

Spec == Init /\ [][Next]_vars

-----------------------------------------------------------------------------
(* Properties *)

(* An attestator has at most one active session and it is its newest one:  *)
(* ra_db_start_session closes all sessions in one statement and inserts    *)
(* the new one in another, without a transaction, and ASCL_WS_MESSAGE_CLOSE *)
(* gives up unless ra_db_get_active_session finds exactly one row.         *)
OneActiveSession ==
    \A s, t \in DOMAIN ra_session :
        /\ ra_session[s].is_active
        /\ ra_session[s].attestator_id = ra_session[t].attestator_id
        => t <= s

(* What makes it inductive: session ids come from the counter, and between *)
(* the two statements the attestator has no active session.                *)
SessionInv ==
    /\ OneActiveSession
    /\ \A s \in DOMAIN ra_session : s <= session_seq
    /\ listener.pc = "insert_session" => ActiveSessions(listener.attestator_id) = {}

(* The area that request r asks about. *)
AreaOf(r) == ra_prepared_data[ra_request[r].prepared_data_id].memory_area

(* Every startup area of every attestator of app has been attested, rightly *)
(* and in time, in a session that is active.                               *)
Proved(app) ==
    \A att \in Attestator :
        application_id[att] = app =>
            \A label \in startup_area[att] :
                \E r \in DOMAIN ra_request :
                    /\ ra_request[r].is_startup
                    /\ ra_request[r].status = "SUCCESS"
                    /\ AreaOf(r) = label
                    /\ ra_session[ra_request[r].session_id] =
                         [attestator_id |-> att, is_active |-> TRUE]

(* Is the startup attestation of an active session of app irregular?       *)
Irregular(app) ==
    \E s \in DOMAIN ra_session :
        /\ ra_session[s].is_active
        /\ application_id[ra_session[s].attestator_id] = app
        /\ startup_run[s] = "irregular"

(* A session holds at most one startup request per memory area, whatever   *)
(* fails, unless its startup attestation is irregular: trigger             *)
(* startup_attestation compares numbers of requests with numbers of areas, *)
(* which is sound only then.                                               *)
StartupRequestedOnce ==
    \A r, q \in DOMAIN ra_request :
        /\ ra_request[r].is_startup /\ ra_request[q].is_startup
        /\ ra_request[r].session_id = ra_request[q].session_id
        /\ AreaOf(r) = AreaOf(q)
        /\ startup_run[ra_request[r].session_id] = "regular"
        => r = q

(* A hand-off is attested once, although the client stays in the slot and  *)
(* an event may be lost or overwrite another one, as long as every wake-up *)
(* was signalled and the manager's calls succeed: then no startup          *)
(* attestation is irregular.                                               *)
AttestedOncePerHandOff ==
    {"wakeup", "manager"} \cap Failures = {}
    => \A s \in SessionId : startup_run[s] # "irregular"

(* An application is declared intact only from UNKNOWN, and only at a step *)
(* that leaves every startup area of every one of its attestators answered *)
(* rightly and in time in a session that is active (late answers of older  *)
(* sessions never count), or one of these sessions irregular.              *)
ProvedWhenDeclared ==
    [][\A app \in Application :
          ra_reaction[app] # "NONE" /\ ra_reaction'[app] = "NONE"
          => /\ ra_reaction[app] = "UNKNOWN"
             /\ Proved(app)' \/ Irregular(app)']_vars

(* As long as the database calls succeed, an application whose status says *)
(* that it is not tampered has all its startup areas proved in active      *)
(* sessions, except while the listener is between the session update and   *)
(* the status update, or while one of these sessions is irregular, which a *)
(* wake-up without a signal is enough for.                                 *)
IntactMeansProved ==
    \A app \in Application :
        ra_reaction[app] = "NONE"
        => \/ Proved(app)
           \/ Irregular(app)
           \/ /\ listener.pc \in {"insert_session", "up_reaction", "down_reaction"}
              /\ application_id[listener.attestator_id] = app

(* What the tables say: ra_attest_at_startup_area lists 'all areas that    *)
(* needs to be attested at startup', and the status of an application is   *)
(* UNKNOWN while it is 'started but not yet proved as intact'.             *)
DeclaredIntactIsProved ==
    [][\A app \in Application :
          ra_reaction[app] # "NONE" /\ ra_reaction'[app] = "NONE" => Proved(app)']_vars

(* As long as the managers' calls succeed, the same prepared datum (nonce)  *)
(* serves two requests only if two manager threads inserted them: one      *)
(* thread commits before it selects again, but the selection and the       *)
(* commit of another are not one transaction.  (A failing call can leave a *)
(* thread with the datum of its previous request.)                         *)
NonceReuseNeedsTwoManagers ==
    "manager" \notin Failures
    => \A r, q \in DOMAIN ra_request :
          /\ r # q
          /\ ra_request[r].prepared_data_id = ra_request[q].prepared_data_id
          => issued_by[r] # issued_by[q]

(* What the committed rows say of each request: the refinement mapping. *)
RequestStatus ==
    [r \in RequestId |->
        IF r \in DOMAIN ra_request THEN ra_request[r].status ELSE "absent"]

Lifecycle == INSTANCE RequestLifecycle WITH
    Request <- RequestId, status <- RequestStatus

(* The server implements RequestLifecycle: whatever the interleaving of    *)
(* managers, verifier processes and sanitizer, each request is recorded    *)
(* once, only pending requests are expired, and a verdict is never         *)
(* overwritten, although ra_db_finalize_request updates unconditionally.   *)
LifecycleImplemented == Lifecycle!Spec

(* Where a request is in its life: an id that a manager is about to commit *)
(* is its own and not yet in the table; a request whose response has not   *)
(* been judged is unjudged in the table; a verifier only holds verdicts on *)
(* recorded requests.  This is what makes the lifecycle inductive.         *)
LifecycleInv ==
    /\ \A r \in DOMAIN ra_request : r <= request_seq
    /\ \A r \in RequestId : r > request_seq => channel[r] = "unsent"
    /\ \A m \in Managers :
          manager[m].pc \in {"send", "commit"}
          => /\ manager[m].id \notin DOMAIN ra_request
             /\ manager[m].id <= request_seq
             /\ issued_by[manager[m].id] = m
             /\ manager[m].pc = "send" => channel[manager[m].id] = "unsent"
    /\ \A r \in RequestId :
          /\ channel[r] # "arrived" => verifier[r].pc = "none"
          /\ r \in DOMAIN ra_request /\ verifier[r].pc # "done"
               => ra_request[r].status \in {"PENDING", "EXPIRED_NONE"}
          /\ verifier[r].pc \in {"compromised", "finalize", "trigger"}
               => /\ r \in DOMAIN ra_request
                  /\ verifier[r].status \in Lifecycle!Judgement

(* ra_status describes EXPIRED_NONE as 'No response received': a request   *)
(* with that status has no response that was received and thrown away.     *)
NoResponseReceived ==
    \A r \in DOMAIN ra_request :
        ra_request[r].status = "EXPIRED_NONE" => verifier[r].pc # "dropped"
=============================================================================
