------------------------------ MODULE RAClient ------------------------------
(***************************************************************************)
(* ra_client.c: what the server stores of a connected attestator, and the   *)
(* order that lists and queues compare clients with.                        *)
(***************************************************************************)
EXTENDS Integers, Sequences

CONSTANT Width     \* bits of an int; attestator numbers have twice as many

(* A client with fields from the given sets. *)
ra_client_t(aids, numbers, ids, seconds, sessions) ==
    [AID : aids, attestator_number : numbers, attestator_id : ids,
     sleep_avg_seconds : seconds, sleep_var_seconds : seconds, session_id : sessions]

RA_CLI_create(AID, attestator_number, attestator_id, sleep_avg, sleep_var, session_id) ==
    [AID |-> AID, attestator_number |-> attestator_number,
     attestator_id |-> attestator_id, sleep_avg_seconds |-> sleep_avg,
     sleep_var_seconds |-> sleep_var, session_id |-> session_id]

(* memcmp of two AIDs of one length: the sign of the first difference. *)
CompareBytes(first, second) ==
    LET diff == {i \in DOMAIN first : first[i] # second[i]} IN
    IF diff = {} THEN 0
    ELSE LET i == CHOOSE j \in diff : \A k \in diff : j <= k
         IN  IF first[i] < second[i] THEN -1 ELSE 1

(* Different numbers are compared by their difference, cut to an int. *)
RA_CLI_compare(first, second) ==
    IF CompareBytes(first.AID, second.AID) # 0 THEN CompareBytes(first.AID, second.AID)
    ELSE LET difference == (first.attestator_number - second.attestator_number) % 2 ^ Width
         IN  IF difference < 2 ^ (Width - 1) THEN difference ELSE difference - 2 ^ Width

RA_CLI_get_AID_reference(client) == client.AID

(* Two hexadecimal digits for each byte. *)
RA_CLI_get_AID_as_string(client) ==
    [i \in 1..2 * Len(client.AID) |->
        LET b == client.AID[(i + 1) \div 2] IN IF i % 2 = 1 THEN b \div 16 ELSE b % 16]

RA_CLI_get_attestator_number(client) == client.attestator_number

RA_CLI_get_attestator_id(client) == client.attestator_id

RA_CLI_get_sleep_avg_seconds(client) == client.sleep_avg_seconds

RA_CLI_get_sleep_var_seconds(client) == client.sleep_var_seconds

RA_CLI_get_session_id(client) == client.session_id

(* A client is changed in place: every list that holds it sees the change.  *)
RA_CLI_set_AID(client, AID) == [client EXCEPT !.AID = AID]

RA_CLI_set_attestator_number(client, data) == [client EXCEPT !.attestator_number = data]

RA_CLI_set_attestator_id(client, product_id) == [client EXCEPT !.attestator_id = product_id]

RA_CLI_set_sleep_avg_seconds(client, data) == [client EXCEPT !.sleep_avg_seconds = data]

RA_CLI_set_sleep_var_seconds(client, data) == [client EXCEPT !.sleep_var_seconds = data]

RA_CLI_set_session_id(client, session_id) == [client EXCEPT !.session_id = session_id]
=============================================================================
