---------------------------- MODULE RADirectory ----------------------------
(***************************************************************************)
(* The tables that the deployment fills and the programs only read:         *)
(* ra_application, ra_attestator and ra_attest_at_startup_area, and the     *)
(* calls of ra_database.c that look something up in them.  A directory is a *)
(* record of three sets of rows.  Each call opens a connection of its own;  *)
(* mysql says whether the connection and the query succeed.  The output of  *)
(* a call that fails is not written: its value is Unset, for the caller's   *)
(* variable keeps what it held.                                             *)
(***************************************************************************)
EXTENDS Integers, Sequences, SequencesExt

CONSTANT Unset      \* an output that the call does not write

RA_RESULT ==
    {"RA_SUCCESS", "RA_ERROR_MEMORY", "RA_ERROR_INDEX_VIOLATION",
     "RA_ERROR_UNDEFINED_WHOLE_CODE_AREA", "RA_ERROR_UNDEFINED_SERIAL_NUMBER",
     "RA_ERROR_UNDEFINED_ATTESTATOR_NUMBER", "RA_ERROR_UNDEFINED_NONCE",
     "RA_ERROR_UNDEFINED_MEMORY_LABEL", "RA_ERROR_UNDEFINED_KEY",
     "RA_ERROR_LABEL_ALREADY_DEFINED", "RA_ERROR_BLOCK_OFFSET_ALREADY_DEFINED",
     "RA_ERROR_UNDEFINED_PARAMETERS", "RA_ERROR_GENERIC", "RA_ERROR_MALFORMED_MEMORY_AREA",
     "RA_ERROR_MEMORY_LABEL_ALREADY_DEFINED", "RA_ERROR_EMPTY_AREA",
     "RA_ERROR_NULL_POINTER", "RA_ERROR_RANDOM_GENERATOR",
     "RA_ERROR_EMPTY_PREPARED_DATA", "RA_ERROR_DB_QUERY", "RA_ERROR_DB_MYSQL",
     "RA_ERROR_DB_NO_DATA", "RA_ERROR_VERIFIER_NOT_FOUND",
     "RA_ERROR_VERIFIER_ALREADY_PRESENT", "RA_ERROR_MULTIPLE_ACTIVE_SESSION",
     "RA_ERROR_NO_ACTIVE_SESSION", "RA_ERROR_SESSION_TABLE_ANOMALY"}

(* The enumeration of the states of a request, from 0. *)
request_status_to_string(status) ==
    <<"PENDING", "SUCCESS", "FAILED", "EXPIRED_SUCCESS", "EXPIRED_FAILED",
      "EXPIRED_NONE">>[status + 1]

-----------------------------------------------------------------------------
(* Queries: the rows of the answer *)

(* Seeded fault: the condition on the AID is left out. *)
DBMS_QUERY_GET_APPLICATION_ID_Any(directory, app_AID) ==
    {app.id : app \in directory.application}

DBMS_QUERY_GET_APPLICATION_ID(directory, app_AID) ==
    {app.id : app \in {a \in directory.application : a.AID = app_AID}}

(* The join of attestators with applications. *)
DBMS_QUERY_EXTRACT_ATTESTATOR_ID(directory, app_AID, attestator_no) ==
    {att.id : att \in {t \in directory.attestator :
        /\ t.attestator_no = attestator_no
        /\ \E a \in directory.application : a.id = t.application_id /\ a.AID = app_AID}}

DBMS_QUERY_EXTRACT_PRODUCT_PARAMETERS(directory, app_AID, attestator_no) ==
    {[application_id |-> t.application_id, attestator_id |-> t.id,
      sleep_avg |-> t.sleep_avg, sleep_var |-> t.sleep_var] :
        t \in {r \in directory.attestator :
                 r.id \in DBMS_QUERY_EXTRACT_ATTESTATOR_ID(directory, app_AID, attestator_no)}}

DBMS_QUERY_EXTRACT_AREAS_TO_ATTEST_AT_STARTUP(directory, attestator_id) ==
    {r.memory_area : r \in {s \in directory.startup : s.attestator_id = attestator_id}}

-----------------------------------------------------------------------------
(* Calls: the result and the output *)

Lookup(result, output) == [result |-> result, output |-> output]

(* The first row of an answer, whichever it is. *)
ra_db_get_application_id(directory, app_AID, mysql) ==
    LET rows == DBMS_QUERY_GET_APPLICATION_ID(directory, app_AID) IN
    IF ~mysql THEN Lookup("RA_ERROR_DB_MYSQL", Unset)
    ELSE IF rows = {} THEN Lookup("RA_ERROR_DB_QUERY", Unset)
    ELSE Lookup("RA_SUCCESS", CHOOSE r \in rows : TRUE)

ra_db_get_attestator_id(directory, app_AID, attestatorNumber, mysql) ==
    LET rows == DBMS_QUERY_EXTRACT_ATTESTATOR_ID(directory, app_AID, attestatorNumber) IN
    IF ~mysql THEN Lookup("RA_ERROR_DB_MYSQL", Unset)
    ELSE IF rows = {} THEN Lookup("RA_ERROR_DB_QUERY", Unset)
    ELSE Lookup("RA_SUCCESS", CHOOSE r \in rows : TRUE)

ra_db_get_attestation_parameters(directory, app_AID, attestator_no, mysql) ==
    LET rows == DBMS_QUERY_EXTRACT_PRODUCT_PARAMETERS(directory, app_AID, attestator_no) IN
    IF ~mysql THEN Lookup("RA_ERROR_DB_MYSQL", Unset)
    ELSE IF rows = {} THEN Lookup("RA_ERROR_DB_QUERY", Unset)
    ELSE Lookup("RA_SUCCESS", CHOOSE r \in rows : TRUE)

(* The labels as a set; an attestator without any is no error. *)
ra_db_get_area_labels_to_attest_at_startup(directory, attestator_id, mysql, allocated) ==
    LET rows == DBMS_QUERY_EXTRACT_AREAS_TO_ATTEST_AT_STARTUP(directory, attestator_id) IN
    IF ~mysql THEN Lookup("RA_ERROR_DB_MYSQL", Unset)
    ELSE IF rows # {} /\ ~allocated THEN Lookup("RA_ERROR_MEMORY", Unset)
    ELSE Lookup("RA_SUCCESS", rows)
=============================================================================
