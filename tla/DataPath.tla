------------------------------ MODULE DataPath ------------------------------
(***************************************************************************)
(* What travels through the system: the bytes of an application, from the   *)
(* binary that the extractor reads to the verdict about a running client.   *)
(* The extractor is modelled statement by statement (extractor.c); then     *)
(* requests are sent, answered by the client (attestator_routine),          *)
(* forwarded and verified, one at a time.  Attestation has their            *)
(* interleavings and the life of a request; here it is what they carry.     *)
(*                                                                         *)
(* A behaviour starts with one deployed attestator: the variants it was     *)
(* built with, the areas of its ADS, and the AID on the command line of the *)
(* extractor.  Every step finds the memory and the services it needs, or    *)
(* one of them fails (the parameter fault).  A program whose behaviour is   *)
(* undefined stops there.  Requests follow the end of the extractor, which  *)
(* only adds rows.                                                          *)
(***************************************************************************)
EXTENDS NonceWalk, RADirectory, DoHash

CONSTANTS
    Deployments,                  \* what is built, and how many calls fail at most:
                                  \* [version, preparation, hash, number, areas, argument,
                                  \*  failures]
    Nonces,                       \* what the random generator returns
    Tampered,                     \* [address, change]: how the client's memory may change
    Sizes,                        \* sizes of areas, and
    Numbers,                      \*   numbers in nonces, for which the walks are checked
    Executable,                   \* the binary: bytes of its header, bytes of .text
    AID,                          \* the application id of the client
    Directory,                    \* the rows of the deployment
    Neighbour,                    \* a row prepared for another attestator
    Installed,                    \* attestator number -> hash of the other verifiers
    EXTRACTOR_MAX_ERROR_ALLOWED,
    total_data_to_exctract,
    MaxRequests                   \* bound on the requests

ASSUME ExtractorAssumption ==
    /\ EXTRACTOR_MAX_ERROR_ALLOWED \in Nat \ {0}
    /\ total_data_to_exctract \in Nat
    /\ Undefined \notin {0, 1}

(* The row of the other attestator is no row of a deployed one. *)
ASSUME NeighbourAssumption ==
    \A deployment \in Deployments :
        Neighbour.attestator_id
            \notin DBMS_QUERY_EXTRACT_ATTESTATOR_ID(Directory, AID, deployment.number)

(* It is a row: bytes prepared for a nonce. *)
ASSUME NeighbourRow == Neighbour.data \in Seq(0..255) /\ Neighbour.nonce \in Nonces

(* What is built: one of the interpretations, an AID of AID_SIZE bytes, an  *)
(* attestator number, and areas of blocks, as the tool chain writes them    *)
(* into the ADS.  The blocks lie in .text, which is a section of bytes.     *)
ASSUME DeploymentAssumption ==
    /\ Executable.header \in Seq(0..255) /\ Executable.text \in Seq(0..255)
    /\ AID \in Seq(0..255) /\ Len(AID) = AID_SIZE
    /\ \A deployment \in Deployments :
          /\ deployment.version \in 1..4
          /\ deployment.number \in Nat
          /\ deployment.areas \in Seq([label : Nat, blocks : Seq(memory_block_t(Nat, Nat))])
          /\ \A k \in DOMAIN deployment.areas :
                \A j \in DOMAIN deployment.areas[k].blocks :
                   deployment.areas[k].blocks[j].offset + deployment.areas[k].blocks[j].size
                      <= Len(Executable.text)

(* What changes a byte adds something to it. *)
ASSUME TamperedAssumption == Tampered \subseteq [address : Nat, change : 1..255]

(* A build links one of the five hashes. *)
ASSUME HashAssumption ==
    {deployment.hash : deployment \in Deployments} \cup {Installed[n] : n \in DOMAIN Installed}
        \subseteq {"md5", "sha1", "sha256", "ripemd160", "blake2"}

(* The random generator returns nonces. *)
ASSUME NonceAssumption == Nonces \subseteq random_generate_nonce(Nat)

(* AID is a unique key of ra_application (00_remote_attestation_tables.sql).  *)
(* Null, as the application charged by a verdict, is none.                  *)
ASSUME DirectoryAssumption ==
    /\ \A a, b \in Directory.application : a.AID = b.AID => a = b
    /\ Null \notin [application : {0} \cup {a.id : a \in Directory.application},
                    fault : {"none", "application", "reaction", "finalize"}]

VARIABLES
    deployed,            \* one of Deployments
    extractor,           \* the extractor process
    ra_prepared_data,    \* rows in insertion order
    client,              \* the client's table and memory; what broke it
    ra_request,          \* rows in insertion order, with what happened to them
    message,             \* the message on its way, or Null
    ra_reaction,         \* application id -> reaction status
    failures             \* how many calls have failed

vars == <<deployed, extractor, ra_prepared_data, client, ra_request, message, ra_reaction,
          failures>>

serverVars == <<ra_request, message, ra_reaction>>

(* At most one call of a step fails. *)
Fails(fault) ==
    IF fault = "none" THEN UNCHANGED failures
    ELSE failures < deployed.failures /\ failures' = failures + 1

-----------------------------------------------------------------------------
(* The deployed binaries *)

ads == Blob(AID, deployed.number, deployed.areas)

(* Place and size of .text; libbfd does not open the file or does not find  *)
(* the section.  A failure to open is printed and then ignored.             *)
getTextSectionOffsetAndSize(fault) ==
    IF fault = "bfd" THEN Undefined
    ELSE IF fault = "format" THEN Failed
    ELSE [offset |-> Len(Executable.header), size |-> Len(Executable.text)]

(* pread of size bytes at offset, as the memory at base_address. *)
Loaded(section) ==
    LET file == Executable.header \o Executable.text IN
    [a \in 0..(section.size - 1) |-> file[section.offset + a + 1]]

Text == [a \in 0..(Len(Executable.text) - 1) |-> Executable.text[a + 1]]

(* What the calls of malloc in the preparation find. *)
Allocations(fault) ==
    [labels |-> fault # "labels", buffer |-> fault # "buffer", data |-> fault # "data"]

PrepareData(table, memory, fault) ==
    IF deployed.preparation = "goldbach"
    THEN ra_prepare_data_goldbach(deployed.version, table, memory, Allocations(fault))
    ELSE ra_prepare_data(deployed.version, table, memory, Allocations(fault))

-----------------------------------------------------------------------------
(* The extractor *)

At(label) == extractor.pc = label

Goto(label) == extractor' = [extractor EXCEPT !.pc = label]

(* exit, or undefined behaviour: what the process held is gone. *)
Ends(code, fault) ==
    extractor' = [extractor EXCEPT !.pc = "ended", !.code = code, !.fault = fault,
                      !.table = Null, !.memory = Null, !.current_nonce = Null]

LeavesServer == UNCHANGED <<deployed, ra_prepared_data, client, serverVars>>

ParseArguments ==
    /\ Fails("none")
    /\ At("arguments")
    /\ IF Len(deployed.argument) # 2 * AID_SIZE THEN Ends(1, "none") ELSE Goto("load_ads")
    /\ LeavesServer

(* fault: the file cannot be opened or read, or there is no memory for it. *)
LoadADS(fault) ==
    /\ Fails(fault)
    /\ At("load_ads")
    /\ LET table == ra_parse_binary_ads(ads) IN
       IF fault = "file" THEN Ends(1, fault)
       ELSE IF table = Null THEN Ends(1, fault)
       ELSE IF table = Undefined \/ ~ra_print_table_info(table) THEN Ends(Undefined, fault)
       ELSE IF ra_get_AID_as_string(table) # deployed.argument THEN Ends(1, fault)
       ELSE extractor' = [extractor EXCEPT !.pc = "load_exe", !.table = table]
    /\ LeavesServer

LoadEXE(fault) ==
    /\ Fails(fault)
    /\ At("load_exe")
    /\ LET section == getTextSectionOffsetAndSize(fault) IN
       IF fault = "file" THEN Ends(1, fault)
       ELSE IF section = Undefined THEN Ends(Undefined, fault)
       ELSE IF section = Failed THEN Ends(1, fault)
       ELSE extractor' = [extractor EXCEPT !.pc = "start", !.memory = Loaded(section)]
    /\ LeavesServer

(* The two buffers for nonces and the connection to the database. *)
StartExtraction(fault) ==
    /\ Fails(fault)
    /\ At("start")
    /\ IF fault \in {"memory", "mysql"} THEN Ends(1, fault) ELSE Goto("check")
    /\ LeavesServer

CheckApplication(fault) ==
    /\ Fails(fault)
    /\ At("check")
    /\ LET found == ra_db_get_attestator_id(Directory, AID, deployed.number, fault # "mysql") IN
       IF found.result # "RA_SUCCESS" THEN Ends(1, fault)
       ELSE extractor' = [extractor EXCEPT !.pc = "loop", !.attestator_id = found.output]
    /\ LeavesServer

(* Seeded fault: the error is not counted. *)
CountError_Free(table, again) ==
    extractor' = [extractor EXCEPT
        !.table = table, !.pc = "next", !.skipped = @ + (IF again THEN 0 ELSE 1),
        !.total_data_exctracted = @ - (IF again THEN 1 ELSE 0)]

(* Seeded fault: one error more than allowed is needed to stop. *)
CountError_OneMore(table, again) ==
    LET errors == extractor.error_counter + 1 IN
    extractor' = [extractor EXCEPT
        !.table = table, !.error_counter = errors,
        !.pc = IF errors > EXTRACTOR_MAX_ERROR_ALLOWED THEN "report" ELSE "next",
        !.total_data_exctracted = @ - (IF again THEN 1 ELSE 0)]

(* Seeded fault: the datum is not to be tried again. *)
CountError_Done(table, again) ==
    LET errors == extractor.error_counter + 1 IN
    extractor' = [extractor EXCEPT
        !.table = table, !.error_counter = errors,
        !.pc = IF errors >= EXTRACTOR_MAX_ERROR_ALLOWED THEN "report" ELSE "next"]

(* A failure in the loop: total_data_exctracted-- if it is to be tried      *)
(* again, ++error_counter, and break or continue.  skipped is history: how  *)
(* many were not to be tried again.                                         *)
CountError(table, again) ==
    LET errors == extractor.error_counter + 1 IN
    extractor' = [extractor EXCEPT
        !.table = table, !.error_counter = errors,
        !.skipped = @ + (IF again THEN 0 ELSE 1),
        !.pc = IF errors >= EXTRACTOR_MAX_ERROR_ALLOWED THEN "report" ELSE "next",
        !.total_data_exctracted = @ - (IF again THEN 1 ELSE 0)]

(* total_data_exctracted++ of the for statement. *)
NextPass ==
    /\ Fails("none")
    /\ At("next")
    /\ extractor' = [extractor EXCEPT !.pc = "loop", !.total_data_exctracted = @ + 1]
    /\ LeavesServer

InLoop == At("loop") /\ extractor.total_data_exctracted < total_data_to_exctract

GenerateNonce ==
    /\ Fails("none")
    /\ InLoop
    /\ \E nonce \in Nonces :
          extractor' = [extractor EXCEPT !.pc = "set_nonce", !.current_nonce = nonce]
    /\ LeavesServer

(* Bounded by the limit on errors, not by deployed.failures. *)
GenerateNonceFails ==
    /\ Fails("none")
    /\ InLoop
    /\ CountError(extractor.table, TRUE)
    /\ LeavesServer

(* A nonce that cannot be set counts as an error and as extracted.          *)
SetNonce(fault) ==
    /\ Fails(fault)
    /\ At("set_nonce")
    /\ LET a == ra_set_current_nonce(extractor.table, extractor.current_nonce, NonceSize,
                                     fault # "nonce")
       IN  IF a.result # "RA_SUCCESS" THEN CountError(a.table, FALSE)
           ELSE extractor' = [extractor EXCEPT !.pc = "prepare", !.table = a.table]
    /\ LeavesServer

(* The result of the preparation is not looked at.  The table may hold data *)
(* of an earlier nonce: the extractor never resets them.                    *)
Prepare(fault) ==
    /\ Fails(fault)
    /\ At("prepare")
    /\ \E table \in {PrepareData(extractor.table, extractor.memory, fault).table} :
       IF table = Undefined THEN Ends(Undefined, fault)
       ELSE IF fault = "store" THEN CountError(table, TRUE)
       ELSE extractor' = [extractor EXCEPT !.pc = "insert", !.table = table, !.fault = fault]
    /\ LeavesServer

(* What a pointer and a size yield: null with a size is undefined. *)
DataOf(table) ==
    IF table.prepared_data # Null THEN table.prepared_data
    ELSE IF table.prepared_data_size = 0 THEN <<>>
    ELSE Undefined

(* The area of the row: from a second decoding, whose result is not looked  *)
(* at.  Without memory for it the struct is not initialized.                *)
Labelled(info, fault) ==
    IF fault = "labels" THEN {0} \cup ToSet(ra_get_labels_list(extractor.table))
    ELSE {info.area_label}

(* mysql_real_escape_string, malloc of the query, decode_nonce, sprintf and *)
(* the query: DBMS_QUERY_INSERT_DATA.  The row's faults are history: what   *)
(* failed in the preparation and here.                                      *)
Insert(fault) ==
    /\ Fails(fault)
    /\ At("insert")
    /\ \E info \in {decode_nonce(deployed.version, extractor.table)} :
       LET data == DataOf(extractor.table)
       IN  IF data = Undefined \/ info = Undefined \/ fault = "query"
           THEN /\ Ends(Undefined, IF fault = "query" THEN fault ELSE extractor.fault)
                /\ UNCHANGED ra_prepared_data
           ELSE IF fault = "mysql"
           THEN CountError(extractor.table, TRUE) /\ UNCHANGED ra_prepared_data
           ELSE /\ \E memory_area \in Labelled(info, fault) :
                      ra_prepared_data' = Append(ra_prepared_data,
                         [attestator_id |-> extractor.attestator_id,
                          nonce |-> extractor.current_nonce, data |-> data,
                          memory_area |-> memory_area,
                          faults |-> {extractor.fault, fault}])
                /\ Goto("next")
    /\ UNCHANGED <<deployed, client, serverVars>>

(* The loop is left, after the last datum or after the last error. *)
Report ==
    /\ Fails("none")
    /\ \/ At("loop") /\ extractor.total_data_exctracted >= total_data_to_exctract
       \/ At("report")
    /\ Ends(IF extractor.error_counter = EXTRACTOR_MAX_ERROR_ALLOWED THEN 1 ELSE 0, "none")
    /\ LeavesServer

Extractor ==
    \/ ParseArguments
    \/ \E fault \in {"none", "file"} : LoadADS(fault)
    \/ \E fault \in {"none", "file", "bfd", "format"} : LoadEXE(fault)
    \/ \E fault \in {"none", "memory", "mysql"} : StartExtraction(fault)
    \/ \E fault \in {"none", "mysql"} : CheckApplication(fault)
    \/ GenerateNonce
    \/ GenerateNonceFails
    \/ NextPass
    \/ \E fault \in {"none", "nonce"} : SetNonce(fault)
    \/ \E fault \in {"none", "labels", "buffer", "data", "store"} : Prepare(fault)
    \/ \E fault \in {"none", "labels", "query", "mysql"} : Insert(fault)
    \/ Report

-----------------------------------------------------------------------------
(* Messages *)

(* manager -> client *)
RequestMessage(request_id, nonce) ==
    [to |-> "client", request_id |-> request_id, nonce |-> nonce]

(* client -> forwarder *)
ResponseMessage(app_AID, attestator_number, request_id, hash) ==
    [to |-> "forwarder", AID |-> app_AID, attestator_number |-> attestator_number,
     request_id |-> request_id, hash |-> hash]

(* forwarder -> verifier: the time of arrival in front of the response *)
VerifierMessage(response_time, verifier, response) ==
    [to |-> "verifier", response_time |-> response_time, verifier |-> verifier,
     response |-> response]

-----------------------------------------------------------------------------
(* Requests.  Of a row of ra_request the columns and, as history: the label *)
(* that the manager asked for (Null: any), and what the client saw.         *)

Used(d) == \E r \in DOMAIN ra_request : ra_request[r].prepared_data_id = d

(* Seeded fault: the condition on the attestator is left out. *)
DBMS_QUERY_EXTRACT_NONCE_Any(attestator_id) ==
    {d \in DOMAIN ra_prepared_data : ~Used(d)}

DBMS_QUERY_EXTRACT_NONCE(attestator_id) ==
    {d \in DOMAIN ra_prepared_data :
        ra_prepared_data[d].attestator_id = attestator_id /\ ~Used(d)}

(* Seeded fault: the condition on the label is left out. *)
DBMS_QUERY_EXTRACT_NONCE_BY_MEMORY_LABEL_Any(attestator_id, label) ==
    DBMS_QUERY_EXTRACT_NONCE(attestator_id)

DBMS_QUERY_EXTRACT_NONCE_BY_MEMORY_LABEL(attestator_id, label) ==
    {d \in DBMS_QUERY_EXTRACT_NONCE(attestator_id) :
        ra_prepared_data[d].memory_area = label}

MayRequest == At("ended") /\ message = Null /\ Len(ra_request) < MaxRequests

(* The message is handed to the WebSocket of the attestator, under          *)
(* lws_contexts_mutex; Attestation has the calls that fail.                 *)
atomic_asclWebSocketSend(buffer) == message' = buffer

Issue(d, label) ==
    /\ ra_request' = Append(ra_request,
          [prepared_data_id |-> d, status |-> 0, label |-> label, seen |-> Null,
           blamed |-> Null])
    /\ atomic_asclWebSocketSend(RequestMessage(Len(ra_request) + 1, ra_prepared_data[d].nonce))
    /\ UNCHANGED <<deployed, extractor, ra_prepared_data, client, ra_reaction>>

Parameters == ra_db_get_attestation_parameters(Directory, AID, deployed.number, TRUE)

(* The manager serves the client when its time has come. *)
ServeClient ==
    /\ Fails("none")
    /\ MayRequest
    /\ Parameters.result = "RA_SUCCESS"
    /\ \E d \in DBMS_QUERY_EXTRACT_NONCE(Parameters.output.attestator_id) : Issue(d, Null)

(* The manager attests an area at the start of a session. *)
AttestAtStartup(label) ==
    /\ Fails("none")
    /\ MayRequest
    /\ Parameters.result = "RA_SUCCESS"
    /\ LET areas == ra_db_get_area_labels_to_attest_at_startup(
                        Directory, Parameters.output.attestator_id, TRUE, TRUE)
       IN  label \in areas.output
    /\ \E d \in DBMS_QUERY_EXTRACT_NONCE_BY_MEMORY_LABEL(
                    Parameters.output.attestator_id, label) : Issue(d, label)

-----------------------------------------------------------------------------
(* The client *)

(* Something in the client changes a byte of the attested memory, at any    *)
(* time and as often as it likes.                                           *)
Tamper(t) ==
    /\ Fails("none")
    /\ At("ended")
    /\ client.table # Undefined
    /\ client' = [client EXCEPT !.memory[t.address] = (@ + t.change) % 256]
    /\ UNCHANGED <<deployed, extractor, ra_prepared_data, serverVars>>

(* The routine returns, or its behaviour is undefined. *)
GivesUp(table, fault) ==
    /\ client' = [client EXCEPT !.table = table,
                                !.fault = IF table = Undefined THEN fault ELSE @]
    /\ message' = Null
    /\ UNCHANGED ra_request

(* What the history keeps of an attestation. *)
Seen(table, fault) ==
    [memory |-> client.memory, area |-> SelectedLabel(table), fault |-> fault]

(* attestator_routine.  That the nonce is set is not tested: without it the *)
(* preparation fails.  The prepared data are reset after they were hashed.  *)
Attest(fault) ==
    /\ Fails(fault)
    /\ message # Null /\ message.to = "client"
    /\ client.table \notin {Null, Undefined}
    /\ \E with_nonce \in {ra_set_current_nonce(client.table, message.nonce, NonceSize,
                                               fault # "nonce").table} :
       \E prepared \in {PrepareData(with_nonce, client.memory, fault)} :
       LET data   == DataOf(prepared.table)
           packed == ra_do_hash(deployed.hash, prepared.table.current_nonce, data,
                                ra_get_AID_reference(client.table),
                                ra_get_attestator_number(client.table), fault # "hash")
           after  == ra_reset_prepared_data(prepared.table)
       IN  IF ~print_encoded_info(deployed.version, with_nonce)
           THEN GivesUp(Undefined, fault)
           ELSE IF prepared.table = Undefined THEN GivesUp(Undefined, fault)
           ELSE IF prepared.result # "RA_SUCCESS" THEN GivesUp(prepared.table, fault)
           ELSE IF data = Undefined THEN GivesUp(Undefined, fault)
           ELSE IF packed = NoDigest THEN GivesUp(prepared.table, fault)
           ELSE IF fault \in {"response", "send"} THEN GivesUp(after, fault)
           ELSE /\ client' = [client EXCEPT !.table = after]
                /\ message' = ResponseMessage(ra_get_AID_reference(client.table),
                                              ra_get_attestator_number(client.table),
                                              message.request_id, packed)
                /\ ra_request' = [ra_request EXCEPT ![message.request_id].seen =
                                     Seen(with_nonce, fault)]
    /\ UNCHANGED <<deployed, extractor, ra_prepared_data, ra_reaction>>

-----------------------------------------------------------------------------
(* Forwarder and verifier *)

(* (uint64_t)*(in_buf+AID_SIZE): one byte of the eight. *)
ForwardedNumber(attestator_number) == attestator_number % 256

(* The verifiers of the application, by attestator number. *)
VerifierHash(number) ==
    IF number = deployed.number THEN deployed.hash
    ELSE IF number \in DOMAIN Installed THEN Installed[number]
    ELSE Null

(* Reading, fork or exec may fail, or the response come late. *)
ForwardResponse(fault) ==
    /\ Fails(fault)
    /\ message # Null /\ message.to = "forwarder"
    /\ LET hash == VerifierHash(ForwardedNumber(message.attestator_number)) IN
       message' = IF fault = "fork" \/ hash = Null THEN Null
                  ELSE VerifierMessage(fault = "late", hash, message)
    /\ UNCHANGED <<deployed, extractor, ra_prepared_data, client, ra_request, ra_reaction>>

(* 1: SUCCESS, 2: FAILED; 3 and 4 when the response is late. *)
StatusOf(right, late) == (IF right THEN 1 ELSE 2) + (IF late THEN 2 ELSE 0)

(* A request with its verdict, if the update succeeds, and as history what  *)
(* was charged for it.                                                      *)
Verdict(request, right, late, blamed, fault) ==
    [request EXCEPT !.status = IF fault = "finalize" THEN @ ELSE StatusOf(right, late),
                    !.blamed = IF right THEN @
                               ELSE [application |-> blamed, fault |-> fault]]

(* UPDATE changes the row of the application, if there is one. *)
DBMS_QUERY_SET_REACTION_STATUS(status, application_id) ==
    IF application_id \in DOMAIN ra_reaction
    THEN [ra_reaction EXCEPT ![application_id] = status] ELSE ra_reaction

ra_db_set_reaction_status(application_id, fault) ==
    IF fault = "reaction" THEN ra_reaction
    ELSE DBMS_QUERY_SET_REACTION_STATUS("COMPROMISED", application_id)

(* The nonce and the data of a request: a join of two tables. *)
DBMS_QUERY_EXTRACT_PREPARED_DATA_BY_REQUEST(request_id) ==
    LET row == ra_prepared_data[ra_request[request_id].prepared_data_id]
    IN  [nonce |-> row.nonce, data |-> row.data, status |-> ra_request[request_id].status]

(* The application that a wrong response is charged to.  The result of the  *)
(* lookup is not tested: without one the variable holds anything.           *)
Blamed(found) ==
    IF found.result = "RA_SUCCESS" THEN {found.output} ELSE DOMAIN ra_reaction \cup {0}

(* A verifier that ends without a verdict. *)
NoVerdict == UNCHANGED <<ra_request, ra_reaction>>

(* fault "nonce": ra_db_get_data_to_verify finds no memory for the nonce,   *)
(* and succeeds; the sizes it leaves are not initialized.                   *)
Verify(fault) ==
    /\ Fails(fault)
    /\ message # Null /\ message.to = "verifier"
    /\ message' = Null
    /\ LET response == message.response
           row      == DBMS_QUERY_EXTRACT_PREPARED_DATA_BY_REQUEST(response.request_id)
           found    == ra_db_get_application_id(Directory, response.AID, fault # "application")
           computed == ra_do_hash(message.verifier, row.nonce, row.data, response.AID,
                                  response.attestator_number, fault # "hash")
           right    == computed = response.hash
       IN  IF fault \in {"read", "data", "nonce"} \/ computed = NoDigest THEN NoVerdict
           ELSE \E blamed \in IF right THEN {Null} ELSE Blamed(found) :
                  /\ ra_reaction' = IF right THEN ra_reaction
                                    ELSE ra_db_set_reaction_status(blamed, fault)
                  /\ ra_request' = [ra_request EXCEPT ![response.request_id] =
                        Verdict(@, right, message.response_time, blamed, fault)]
    /\ UNCHANGED <<deployed, extractor, ra_prepared_data, client>>

-----------------------------------------------------------------------------
Init ==
    /\ deployed \in Deployments
    /\ extractor = [pc |-> "arguments", code |-> Null, fault |-> "none", table |-> Null,
                    memory |-> Null, current_nonce |-> Null, attestator_id |-> Unset,
                    error_counter |-> 0, total_data_exctracted |-> 0, skipped |-> 0]
    /\ ra_prepared_data = <<Neighbour>>
    /\ client = [table |-> ra_parse_binary_ads(ads), memory |-> Text, fault |-> "none"]
    /\ ra_request = <<>>
    /\ message = Null
    /\ failures = 0
    /\ ra_reaction = [a \in {row.id : row \in Directory.application} |-> "UNKNOWN"]

Attestations ==
    \/ ServeClient
    \/ \E row \in Directory.startup : AttestAtStartup(row.memory_area)
    \/ \E t \in Tampered : Tamper(t)
    \/ \E fault \in {"none", "nonce", "labels", "buffer", "data", "hash", "response", "send"} :
          Attest(fault)
    \/ \E fault \in {"none", "fork", "late"} : ForwardResponse(fault)
    \/ \E fault \in {"none", "application", "read", "data", "nonce", "hash", "reaction",
                     "finalize"} : Verify(fault)

Next == Extractor \/ Attestations

(* The extractor is a process that runs, and its calls return: weak         *)
(* fairness of Extractor, spelled out because each of its steps changes     *)
(* extractor, and one is enabled exactly until it has ended.                *)
ExtractorRuns == []<>At("ended") \/ []<><<extractor' # extractor>>_vars

Spec == Init /\ [][Next]_vars /\ ExtractorRuns

-----------------------------------------------------------------------------
(* Properties *)

ExtractorPlaces == {"arguments", "load_ads", "load_exe", "start", "check", "loop",
                    "set_nonce", "prepare", "insert", "next", "report", "ended"}

(* Types: programs are at one of their statements, the counters within the  *)
(* bounds of the loop (one below zero when the first pass fails), rows,     *)
(* requests and statuses well formed.                                       *)
TypeOK ==
    /\ deployed \in Deployments
    /\ extractor.pc \in ExtractorPlaces
    /\ extractor.code \in {Null, 0, 1, Undefined}
    /\ extractor.error_counter \in 0..EXTRACTOR_MAX_ERROR_ALLOWED
    /\ extractor.total_data_exctracted \in -1..total_data_to_exctract
    /\ \A d \in DOMAIN ra_prepared_data :
          ra_prepared_data[d].data \in Seq(0..255) /\ ra_prepared_data[d].nonce \in Nonces
    /\ \A r \in DOMAIN ra_request :
          /\ ra_request[r].prepared_data_id \in DOMAIN ra_prepared_data
          /\ ra_request[r].status \in 0..4
    /\ DOMAIN client.memory = DOMAIN Text
    /\ message = Null \/ message.to \in {"client", "forwarder", "verifier"}

(* The addresses of an area, in the order of its blocks, and its label      *)
(* chosen by a nonce: told without the data table.                          *)
Addresses(area) ==
    FlattenSeq([j \in DOMAIN area.blocks |->
                   [k \in 1..area.blocks[j].size |-> area.blocks[j].offset + k - 1]])

AreaOf(nonce) == deployed.areas[(nonce[AtArea] % Len(deployed.areas)) + 1]

LargestPrime(n) == IF \E p \in 2..n : IsPrime(p)
                   THEN CHOOSE p \in 2..n : IsPrime(p) /\ \A q \in (p + 1)..n : ~IsPrime(q)
                   ELSE 0

(* A walk with some step over n places comes to all of them, or stays at    *)
(* the first.                                                               *)
Visits(step, n) == IF step % n = 0 THEN {0} ELSE 0..(n - 1)

Shifted(places, offset) == {offset + v : v \in places}

(* The same for the two parts of the Goldbach preparation, each with the    *)
(* step reduced by the other, or for the whole window.                      *)
VisitsParts(step, left, right) ==
    Visits(step % right, left) \cup Shifted(Visits(step % left, right), left)

VisitsWindow(step, window) ==
    IF deployed.preparation = "goldbach"
    THEN VisitsParts(step, goldbach_left(2 * (window \div 2)),
                     goldbach_right(2 * (window \div 2)))
    ELSE Visits(step, window)

(* The window of an area of the given size that an attestation walks over,  *)
(* the step of the walk, and where it starts.                               *)
WindowIn(size) == IF deployed.version \in {1, 4} THEN LargestPrime(size) ELSE size

StepIn(nonce, size) ==
    CASE deployed.version = 1 -> AtLeastTwo(nonce[AtGenerator] % LargestPrime(size))
      [] deployed.version \in {2, 3} -> LargestPrime(size)
      [] deployed.version = 4 -> LargestPrime(LargestPrime(size) - 1)

OffsetIn(nonce, size) ==
    IF deployed.version = 1 /\ size > LargestPrime(size)
    THEN nonce[AtOffset] % (size - LargestPrime(size)) ELSE 0

(* The places that an attestation covers: all of a window of prime size     *)
(* (interpretations 1 and 4) or of the area (2 and 3), but only the first   *)
(* when the generator is a multiple of the size, which for 2 and 3 is so    *)
(* whenever the size is a prime.  The Goldbach preparation covers two parts *)
(* in that way and may leave out a last byte.                               *)
CoveredPlaces(nonce, size) ==
    Shifted(VisitsWindow(StepIn(nonce, size), WindowIn(size)), OffsetIn(nonce, size))

(* The pairs of places, one of each part, whose bytes the Goldbach          *)
(* preparation adds: the shorter part is walked more than once.             *)
PairedPlaces(nonce, size) ==
    LET left   == goldbach_left(2 * (WindowIn(size) \div 2))
        right  == goldbach_right(2 * (WindowIn(size) \div 2))
        step   == StepIn(nonce, size)
        offset == OffsetIn(nonce, size)
    IN  {<<(((step % right) * i) % left) + offset,
          (((step % left) * i) % right) + left + offset>> :
            i \in 0..(right - 1)}

(* The areas for which the walks are checked have a prime from 5 on, as     *)
(* decode_nonce_4 and the smallest Goldbach partition need, and are not     *)
(* larger than the last partition.                                          *)
ASSUME SizesAssumption == Sizes \subseteq 5..(LastPartition + 1) /\ Numbers \subseteq Nat

(* Of number theory, for the sizes at hand: above the half of a number, and *)
(* up to it, there is a prime (Bertrand); an even number is the sum of two  *)
(* primes (Goldbach), as ra_goldback_partitions.h lists them.               *)
ASSUME NumberTheory ==
    \A n \in Sizes \cup {Len(Addresses(area)) : area \in UNION {ToSet(deployment.areas) :
                                                  deployment \in Deployments}} :
        /\ n >= 2 => \E p \in 2..n : IsPrime(p) /\ 2 * p > n
        /\ \A half \in 2..(n \div 2) : 2 * half <= LastPartition =>
              \E p \in 2..half : IsPrime(p) /\ IsPrime(2 * half - p)

(* A table with one area of the given size, and a nonce. *)
Sample(size, nonce) ==
    LET area == [label |-> 7, blocks |-> <<ra_mB_create(0, size \div 2),
                                           ra_mB_create(size, size - size \div 2)>>]
    IN  ra_set_current_nonce(ra_parse_binary_ads(Blob(AID, 1, <<area>>)), nonce, NonceSize,
                             TRUE).table

(* The places that the deployed walk visits. *)
Visited(info) ==
    IF deployed.preparation = "goldbach"
    THEN UNION {ToSet(place) : place \in ToSet(GoldbachWalk(info))}
    ELSE ToSet(Walk(info))

CoversAll(info, nonce, size) ==
    info.result = "RA_SUCCESS" =>
        /\ Visited(info) = CoveredPlaces(nonce, size)
        /\ Visited(info) \subseteq 0..(size - 1)

(* The walks of the deployed interpretation and preparation visit exactly   *)
(* the places said to be covered, and stay inside of the area, for areas of *)
(* every size and every nonce for which the preparation is defined:         *)
(* decode_nonce, closest_prime, calculate_index and the Goldbach table fit  *)
(* together.                                                                *)
WalkCovers ==
    At("arguments") =>
        \A size \in Sizes, nonce \in random_generate_nonce(Numbers) :
            CoversAll(decode_nonce(deployed.version, Sample(size, nonce)), nonce, size)

CoveredAddresses(nonce) ==
    LET addresses == Addresses(AreaOf(nonce))
    IN  {addresses[place + 1] : place \in CoveredPlaces(nonce, Len(addresses))}

RowOf(r) == ra_prepared_data[ra_request[r].prepared_data_id]

(* Does the memory that the client attested differ where the nonce looks? *)
ChangeCovered(r) ==
    \E a \in CoveredAddresses(RowOf(r).nonce) : ra_request[r].seen.memory[a] # Text[a]

(* The sum, modulo 2^8, of the bytes at two places of an area. *)
SumAt(memory, addresses, pair) ==
    (memory[addresses[pair[1] + 1]] + memory[addresses[pair[2] + 1]]) % 256

(* Is there a pair of places where the nonce looks whose sum differs? *)
SumChanged(nonce, memory) ==
    LET addresses == Addresses(AreaOf(nonce))
    IN  \E pair \in PairedPlaces(nonce, Len(addresses)) :
            SumAt(memory, addresses, pair) # SumAt(Text, addresses, pair)

(* What the verdict can tell.  The Goldbach preparation sees the sums only: *)
(* changes that compensate each other in every pair are no difference.      *)
DifferenceCovered(r) ==
    IF deployed.preparation = "goldbach"
    THEN SumChanged(RowOf(r).nonce, ra_request[r].seen.memory)
    ELSE ChangeCovered(r)

Right(r) == ra_request[r].status \in {1, 3}
Wrong(r) == ra_request[r].status \in {2, 4}

WellPrepared(r) == RowOf(r).faults \cap {"labels", "buffer", "data"} = {}

(* A response is found wrong only when there is a difference where its      *)
(* nonce looks: a byte, or with the Goldbach preparation the sum of a pair. *)
(* Extractor and client compute the same bytes from the same memory, after  *)
(* any history of requests and failures before.  Exceptions: a row that the *)
(* extractor inserted although its preparation failed; a client that hashes *)
(* no data because it had no memory for them (ra_prepare_data ignores       *)
(* ra_set_prepared_data); an attestator number above 255, whose response    *)
(* goes to the verifier of another attestator (verifier_forwarder.c:95).    *)
HonestAccepted ==
    \A r \in DOMAIN ra_request :
        Wrong(r) => \/ DifferenceCovered(r)
                    \/ ~WellPrepared(r)
                    \/ ra_request[r].seen.fault = "data"
                    \/ deployed.number > 255

(* A response is found right only when there is no such difference,         *)
(* whatever failed on the way and however many bytes have changed, provided *)
(* the row was prepared: without the Goldbach preparation no byte that the  *)
(* nonce covers has changed; with it, bytes may have, if the sums of all    *)
(* pairs have not.  The verdict of verifier.c is about the memory of the    *)
(* client and not about what some earlier request left behind.              *)
TamperNoticed ==
    \A r \in DOMAIN ra_request : Right(r) /\ WellPrepared(r) => ~DifferenceCovered(r)

(* A startup request for an area (manager.c:410) is answered by a walk over *)
(* that area: the label the extractor stored is the one the client decodes  *)
(* from the nonce, unless the second decoding of the extractor failed.      *)
AskedAreaWalked ==
    \A r \in DOMAIN ra_request :
        ra_request[r].label # Null /\ ra_request[r].seen # Null =>
            \/ ra_request[r].seen.area = ra_request[r].label
            \/ "labels" \in RowOf(r).faults

(* The client's application is marked as compromised when, and only when, a *)
(* response of it was found wrong.  Another application is so only after a  *)
(* verifier failed to look up the id, which verifier.c:77 does not test.    *)
BlameIsRight ==
    LET own   == CHOOSE a \in Directory.application : a.AID = AID
        blame == {r \in DOMAIN ra_request : ra_request[r].blamed # Null}
        lost  == {r \in blame : ra_request[r].blamed.fault = "application"}
    IN  /\ \A a \in DOMAIN ra_reaction : ra_reaction[a] = "COMPROMISED" =>
              \/ lost # {}
              \/ a = own.id /\ blame # {}
        /\ (\E r \in blame \ lost : ra_request[r].blamed.fault # "reaction") =>
              ra_reaction[own.id] = "COMPROMISED"

(* Areas for which the behaviour is undefined in any case: none at all; one *)
(* of less than two bytes with the first interpretation; one too small for  *)
(* a Goldbach partition, or larger than the last one in the table.          *)
Unsuitable ==
    \/ deployed.areas = <<>>
    \/ \E k \in DOMAIN deployed.areas :
          LET size   == Len(Addresses(deployed.areas[k]))
              window == IF deployed.version \in {1, 4} THEN LargestPrime(size) ELSE size
          IN  \/ deployed.version = 1 /\ size < 2
              \/ /\ deployed.preparation = "goldbach"
                 /\ window < 4 \/ window > LastPartition + 1

(* The programs follow no null pointer, read no byte outside of the area    *)
(* and divide by no zero, for any nonce, unless an area is unsuitable, or   *)
(* libbfd does not open the file, or memory for the prepared data or the    *)
(* query ran out: then a null pointer meets a stale size (extractor.c:283,  *)
(* attestator.c:98).                                                        *)
DefinedBehaviour ==
    /\ extractor.code = Undefined =>
          Unsuitable \/ extractor.fault \in {"bfd", "data", "query"}
    /\ client.table = Undefined => Unsuitable \/ client.fault = "data"

(* The extractor's accounts, after any sequence of failures: an extraction  *)
(* that ends with 0 has as many rows as were ordered, less the nonces that  *)
(* could not be set, which the loop counts as extracted; one that ends with *)
(* 1 has reached the limit of errors, and the number that it reports is one *)
(* too small (-1 when there is no row).                                     *)
ReportAccounts ==
    LET rows  == Cardinality({d \in DOMAIN ra_prepared_data :
                                ra_prepared_data[d].attestator_id = extractor.attestator_id})
        total == extractor.total_data_exctracted
    IN  At("ended") /\ extractor.attestator_id # Unset =>
          /\ extractor.code = 0 =>
                /\ extractor.error_counter < EXTRACTOR_MAX_ERROR_ALLOWED
                /\ total = total_data_to_exctract
                /\ rows = total - extractor.skipped
          /\ extractor.code = 1 =>
                /\ extractor.error_counter = EXTRACTOR_MAX_ERROR_ALLOWED
                /\ rows = total + 1 - extractor.skipped

(* The extractor ends: each pass of its loop brings it nearer to the number *)
(* of data or to the number of errors (extractor.c:229).                    *)
ExtractorEnds == <>At("ended")

(* Documented of interpretation 2, for which the property is violated: the  *)
(* number of bytes of the attested area actually considered for extraction  *)
(* is equal to the buffer size (ra_nonce_interpretation_2.c:23-24).  The    *)
(* generator, "the largest prime number less than the attested area size",  *)
(* is computed as the largest up to the size.                               *)
WholeBufferConsidered ==
    \A d \in DOMAIN ra_prepared_data :
        ra_prepared_data[d].attestator_id = extractor.attestator_id =>
            LET info == decode_nonce_2(ra_set_current_nonce(ra_parse_binary_ads(ads),
                                          ra_prepared_data[d].nonce, NonceSize, TRUE).table)
            IN  Cardinality(ToSet(Walk(info))) = info.buffer_size
=============================================================================
