----------------------------- MODULE RADatabase -----------------------------
(***************************************************************************)
(* The relational store every server component talks to: the tables that   *)
(* hold sessions, prepared data, requests and the reaction status of each  *)
(* application, and the statements that src/ra-additionals/ra_database.c,  *)
(* extractor.c and manager.c send to it.  Every ra_db_* call opens a       *)
(* connection of its own in autocommit mode, so each statement takes       *)
(* effect at once; the only explicit transaction is the one of             *)
(* send_ra_request, whose row the others do not see until it is committed. *)
(* That a call may fail is modelled where it is called, because the        *)
(* callers react differently.                                              *)
(*                                                                         *)
(* Of the data only what the queries compare is kept: which attestator and *)
(* area a prepared datum belongs to, but neither nonce nor bytes; whether  *)
(* a session is active, but no timestamp.                                  *)
(***************************************************************************)
EXTENDS Naturals, Sequences, FiniteSets

CONSTANTS
    Application,     \* rows of ra_application
    Attestator,      \* rows of ra_attestator
    Area,            \* labels of the memory areas
    application_id,  \* ra_attestator.application_id
    startup_area,    \* ra_attest_at_startup_area: the labels of an attestator
    InitialData,     \* rows of ra_prepared_data left by the deployment
    MaxSession,      \* bound on the sessions ever started
    MaxData,         \* bound on the prepared data ever extracted
    MaxRequest       \* bound on the requests ever inserted

VARIABLES
    ra_session,        \* session id -> row, for the rows that exist
    ra_prepared_data,  \* the rows in insertion order; the id is the index
    ra_request,        \* request id -> row, committed rows only
    ra_reaction,       \* application -> reaction status
    session_seq,       \* AUTO_INCREMENT of ra_session
    request_seq        \* AUTO_INCREMENT of ra_request, not undone by ROLLBACK

tables == <<ra_session, ra_prepared_data, ra_request, ra_reaction,
            session_seq, request_seq>>

-----------------------------------------------------------------------------
(* Rows *)

request_status_t == {"PENDING", "SUCCESS", "FAILED", "EXPIRED_SUCCESS",
                     "EXPIRED_FAILED", "EXPIRED_NONE"}

reaction_status_t == {"NONE", "COMPROMISED", "UNKNOWN"}

SessionId == 1 .. MaxSession
DataId    == 1 .. MaxData
RequestId == 1 .. MaxRequest

SessionRow == [attestator_id : Attestator, is_active : BOOLEAN]

DataRow == [attestator_id : Attestator, memory_area : Area]

RequestRow == [prepared_data_id : DataId, session_id : SessionId,
               is_startup : BOOLEAN, status : request_status_t]

ASSUME SchemaAssumption ==
    /\ application_id \in [Attestator -> Application]
    /\ startup_area \in [Attestator -> SUBSET Area]
    /\ IsFiniteSet(Attestator)
    /\ IsFiniteSet(Area)

ASSUME BoundsAssumption ==
    /\ MaxSession \in Nat
    /\ MaxData \in Nat
    /\ MaxRequest \in Nat
    /\ InitialData \in Seq(DataRow)
    /\ Len(InitialData) <= MaxData

(* The type of every table. *)
TablesOK ==
    /\ DOMAIN ra_session \subseteq SessionId
    /\ ra_session \in [DOMAIN ra_session -> SessionRow]
    /\ ra_prepared_data \in Seq(DataRow)
    /\ Len(ra_prepared_data) <= MaxData
    /\ DOMAIN ra_request \subseteq RequestId
    /\ ra_request \in [DOMAIN ra_request -> RequestRow]
    /\ ra_reaction \in [Application -> reaction_status_t]
    /\ session_seq \in 0 .. MaxSession
    /\ request_seq \in 0 .. MaxRequest

(* deploy.sh inserts the application with reaction status 2. *)
TablesInit ==
    /\ ra_session = << >>
    /\ ra_prepared_data = InitialData
    /\ ra_request = << >>
    /\ ra_reaction = [a \in Application |-> "UNKNOWN"]
    /\ session_seq = 0
    /\ request_seq = 0

-----------------------------------------------------------------------------
(* Queries *)

(* A table with one row added or replaced. *)
Insert(table, id, row) ==
    [i \in DOMAIN table \cup {id} |-> IF i = id THEN row ELSE table[i]]

(* Seeded fault: only pending requests reserve their data. *)
ValidNonces_PendingOnly(att) ==
    {d \in DOMAIN ra_prepared_data :
        /\ ra_prepared_data[d].attestator_id = att
        /\ \A r \in DOMAIN ra_request :
              ra_request[r].status = "PENDING" => ra_request[r].prepared_data_id # d}

(* DBMS_QUERY_EXTRACT_NONCE: the prepared data of an attestator that no    *)
(* committed request refers to.  The query also returns their number.      *)
ValidNonces(att) ==
    {d \in DOMAIN ra_prepared_data :
        /\ ra_prepared_data[d].attestator_id = att
        /\ \A r \in DOMAIN ra_request : ra_request[r].prepared_data_id # d}

(* DBMS_QUERY_EXTRACT_NONCE_BY_MEMORY_LABEL *)
ValidNoncesByLabel(att, label) ==
    {d \in ValidNonces(att) : ra_prepared_data[d].memory_area = label}

(* DBMS_QUERY_EXTRACT_ACTIVE_SESSION *)
ActiveSessions(att) ==
    {s \in DOMAIN ra_session :
        /\ ra_session[s].attestator_id = att
        /\ ra_session[s].is_active}

(* The application the trigger charges request r to: through its data. *)
ApplicationOf(row) ==
    application_id[ra_prepared_data[row.prepared_data_id].attestator_id]

-----------------------------------------------------------------------------
(* Trigger startup_attestation, AFTER UPDATE ON ra_request.  The subquery  *)
(* "should" counts the startup areas of the application's attestators,     *)
(* "valid" the successful startup requests of their active sessions.       *)

ShouldAttestAreas(app) ==
    {area \in Attestator \X Area :
        application_id[area[1]] = app /\ area[2] \in startup_area[area[1]]}

(* Seeded fault: the subquery forgets ses.is_active = TRUE. *)
ValidStartupAreas_AnySession(app, requests) ==
    {r \in DOMAIN requests :
        /\ requests[r].status = "SUCCESS"
        /\ requests[r].is_startup
        /\ LET ses == ra_session[requests[r].session_id] IN
              /\ application_id[ses.attestator_id] = app
              /\ startup_area[ses.attestator_id] # {}}

ValidStartupAreas(app, requests) ==
    {r \in DOMAIN requests :
        /\ requests[r].status = "SUCCESS"
        /\ requests[r].is_startup
        /\ LET ses == ra_session[requests[r].session_id] IN
              /\ ses.is_active
              /\ application_id[ses.attestator_id] = app
              /\ startup_area[ses.attestator_id] # {}}

is_app_proved(app, requests) ==
    /\ ShouldAttestAreas(app) # {}
    /\ Cardinality(ShouldAttestAreas(app)) =
          Cardinality(ValidStartupAreas(app, requests))

(* Does the trigger decide to set the reaction status when the update that *)
(* fires it leaves row r of the table as it is in requests?                *)
startup_attestation(r, requests) ==
    /\ requests[r].is_startup
    /\ requests[r].status = "SUCCESS"
    /\ ra_reaction[ApplicationOf(requests[r])] = "UNKNOWN"
    /\ is_app_proved(ApplicationOf(requests[r]), requests)

-----------------------------------------------------------------------------
(* Statements that change one table; each leaves the other tables alone. *)

(* A session row, and a request row, after the update of one column. *)
Closed(row) == [row EXCEPT !.is_active = FALSE]

WithStatus(row, status) == [row EXCEPT !.status = status]

(* Seeded fault: the UPDATE is written like the unused query               *)
(* DBMS_QUERY_DELETE_ALL_ACTIVE_SESSIONS, which compares the session's own *)
(* id with the one of the attestator and matches nothing.                  *)
close_all_active_sessions_WrongKey(att) == UNCHANGED tables

(* First statement of ra_db_start_session. *)
close_all_active_sessions(att) ==
    /\ ra_session' = [s \in DOMAIN ra_session |->
                        IF ra_session[s].attestator_id = att
                        THEN Closed(ra_session[s])
                        ELSE ra_session[s]]
    /\ UNCHANGED <<ra_prepared_data, ra_request, ra_reaction, session_seq, request_seq>>

(* Second statement of ra_db_start_session. *)
insert_session(att) ==
    /\ session_seq < MaxSession
    /\ session_seq' = session_seq + 1
    /\ ra_session' = Insert(ra_session, session_seq + 1,
                            [attestator_id |-> att, is_active |-> TRUE])
    /\ UNCHANGED <<ra_prepared_data, ra_request, ra_reaction, request_seq>>

ra_db_close_session(s) ==
    /\ ra_session' = [ra_session EXCEPT ![s] = Closed(@)]
    /\ UNCHANGED <<ra_prepared_data, ra_request, ra_reaction, session_seq, request_seq>>

(* DELETE: the foreign key ra_request_ibfk_7 refuses it while a committed  *)
(* request refers to the session, and the callers ignore the error.        *)
ra_db_revoke_session(s) ==
    /\ ra_session' =
          IF \E r \in DOMAIN ra_request : ra_request[r].session_id = s
          THEN ra_session
          ELSE [i \in DOMAIN ra_session \ {s} |-> ra_session[i]]
    /\ UNCHANGED <<ra_prepared_data, ra_request, ra_reaction, session_seq, request_seq>>

ra_db_set_reaction_status(app, status) ==
    /\ ra_reaction' = [ra_reaction EXCEPT ![app] = status]
    /\ UNCHANGED <<ra_session, ra_prepared_data, ra_request, session_seq, request_seq>>

(* COMMIT of the row that send_ra_request inserted under the given id. *)
commit_request(id, row) ==
    /\ ra_request' = Insert(ra_request, id, row)
    /\ UNCHANGED <<ra_session, ra_prepared_data, ra_reaction, session_seq, request_seq>>

(* DBMS_QUERY_INSERT_DATA, one row of the extractor. *)
insert_data(row) ==
    /\ Len(ra_prepared_data) < MaxData
    /\ ra_prepared_data' = Append(ra_prepared_data, row)
    /\ UNCHANGED <<ra_session, ra_request, ra_reaction, session_seq, request_seq>>

(* The table after ra_db_finalize_request(r, status, ...). *)
Finalized(r, status) == [ra_request EXCEPT ![r] = WithStatus(@, status)]

(* The update of ra_db_finalize_request together with what its trigger     *)
(* decided (proved).                                                       *)
ra_db_finalize_request(r, status, proved) ==
    /\ ra_request' = Finalized(r, status)
    /\ ra_reaction' = IF proved
                      THEN [ra_reaction EXCEPT ![ApplicationOf(ra_request[r])] = "NONE"]
                      ELSE ra_reaction
    /\ UNCHANGED <<ra_session, ra_prepared_data, session_seq, request_seq>>

(* Seeded fault: the procedure forgets r.status = 0. *)
RequestsSanitizer_AnyStatus(over) ==
    /\ ra_request' = [r \in DOMAIN ra_request |->
                        IF r \in over
                        THEN WithStatus(ra_request[r], "EXPIRED_NONE")
                        ELSE ra_request[r]]
    /\ UNCHANGED <<ra_session, ra_prepared_data, ra_reaction, session_seq, request_seq>>

(* Stored procedure RequestsSanitizer.  over holds the requests older than *)
(* their validity time.  The trigger fires too, but not for status 5.      *)
RequestsSanitizer(over) ==
    /\ ra_request' = [r \in DOMAIN ra_request |->
                        IF r \in over /\ ra_request[r].status = "PENDING"
                        THEN WithStatus(ra_request[r], "EXPIRED_NONE")
                        ELSE ra_request[r]]
    /\ UNCHANGED <<ra_session, ra_prepared_data, ra_reaction, session_seq, request_seq>>
=============================================================================
