--------------------------- MODULE VerifiersList ---------------------------
(***************************************************************************)
(* verifiers_list.c: the verifier processes of the applications and how     *)
(* many clients each one serves.  A list is the sequence of its verifiers,  *)
(* first the head, and the counter.  A file is the sequence of the records  *)
(* written to it.                                                           *)
(***************************************************************************)
EXTENDS Integers, Sequences, SequencesExt

CONSTANTS Undefined,   \* what undefined behaviour yields
          Diverged,    \* what a call that never returns yields
          Width        \* bits of an unsigned int

VAnswer(result, list, pid) == [result |-> result, list |-> list, pid |-> pid]

NoProcess == -1

(* uint32_t client_count, of Width bits *)
Count32 == 2 ^ Width

(* A list of verifiers with ids and process ids from the given sets; one    *)
(* that no client uses is not in it.                                        *)
verifiers_t(ids, pids) ==
    [verifiers : Seq([id : ids, pid : pids, client_count : 1..(Count32 - 1)]),
     verifiers_count : Nat]

RA_VER_create == [verifiers |-> <<>>, verifiers_count |-> 0]

(* The place of a verifier in the list, 0 if it is not there. *)
Place(list, id) == SelectInSeq(list.verifiers, LAMBDA v : v.id = id)

insert_with_count(list, id, pid, count, allocated) ==
    IF Place(list, id) # 0 THEN VAnswer("RA_ERROR_VERIFIER_ALREADY_PRESENT", list, pid)
    ELSE IF ~allocated THEN VAnswer("RA_ERROR_MEMORY", list, pid)
    ELSE VAnswer("RA_SUCCESS",
                 [verifiers |-> <<[id |-> id, pid |-> pid, client_count |-> count]>>
                                    \o list.verifiers,
                  verifiers_count |-> list.verifiers_count + 1], pid)

(* The new verifier serves one client. *)
RA_VER_insert(list, id, pid, allocated) == insert_with_count(list, id, pid, 1, allocated)

RA_VER_count(list) == list.verifiers_count

RA_VER_update(list, id) ==
    IF Place(list, id) = 0 THEN VAnswer("RA_ERROR_VERIFIER_NOT_FOUND", list, NoProcess)
    ELSE VAnswer("RA_SUCCESS",
                 [list EXCEPT !.verifiers[Place(list, id)].client_count = (@ + 1) % Count32], NoProcess)

RA_VER_is_running(list, id) ==
    IF Place(list, id) = 0 THEN 0 ELSE list.verifiers[Place(list, id)].client_count

RA_VER_get_pid(list, id) ==
    IF Place(list, id) = 0 THEN NoProcess ELSE list.verifiers[Place(list, id)].pid

(* The list without the verifier at a place. *)
Without(list, place) ==
    [verifiers |-> RemoveAt(list.verifiers, place),
     verifiers_count |-> list.verifiers_count - 1]

RA_VER_remove(list, id) ==
    IF Place(list, id) = 0 THEN VAnswer("RA_SUCCESS", list, NoProcess)
    ELSE VAnswer("RA_SUCCESS", Without(list, Place(list, id)), RA_VER_get_pid(list, id))

(* Seeded fault: the verifier goes when one client is left. *)
RA_VER_dec_clients_Early(list, id) ==
    LET place == Place(list, id) IN
    IF place = 0 THEN VAnswer("RA_ERROR_VERIFIER_NOT_FOUND", list, NoProcess)
    ELSE IF list.verifiers[place].client_count <= 2
    THEN VAnswer("RA_SUCCESS", Without(list, place), list.verifiers[place].pid)
    ELSE VAnswer("RA_SUCCESS", [list EXCEPT !.verifiers[place].client_count = @ - 1], NoProcess)

(* Seeded fault: the verifier stays when the last client leaves. *)
RA_VER_dec_clients_Kept(list, id) ==
    LET place == Place(list, id) IN
    IF place = 0 THEN VAnswer("RA_ERROR_VERIFIER_NOT_FOUND", list, NoProcess)
    ELSE VAnswer("RA_SUCCESS",
                 [list EXCEPT !.verifiers[place].client_count = (@ - 1) % Count32], NoProcess)

(* The last client to leave takes the verifier with it; its process is to   *)
(* be killed by the caller.  The decrement is unsigned.                     *)
RA_VER_dec_clients(list, id) ==
    LET place == Place(list, id) IN
    IF place = 0 THEN VAnswer("RA_ERROR_VERIFIER_NOT_FOUND", list, NoProcess)
    ELSE LET left == (list.verifiers[place].client_count - 1) % Count32 IN
         IF left = 0
         THEN VAnswer("RA_SUCCESS", Without(list, place), list.verifiers[place].pid)
         ELSE VAnswer("RA_SUCCESS", [list EXCEPT !.verifiers[place].client_count = left],
                      NoProcess)

(* A record is written as "id : { pid , count }" with nothing between two.  *)
RA_VER_serialize(list) == list.verifiers

(* fscanf expects the closing brace right behind the count, where a record  *)
(* has a space.  The first call converts three numbers and leaves the       *)
(* space and the brace; from then on every call stops at the brace,         *)
(* converts nothing and never returns EOF.  A file that is not there makes  *)
(* fscanf follow a null pointer.                                            *)
RA_VER_parse(exists, file) ==
    IF ~exists THEN Undefined
    ELSE IF file = <<>> THEN RA_VER_create
    ELSE Diverged

(* What is printed of each verifier. *)
RA_VER_print_info(list) == list.verifiers
=============================================================================
