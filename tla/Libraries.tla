----------------------------- MODULE Libraries -----------------------------
(***************************************************************************)
(* Any sequence of calls of one of the libraries: the areas of a data       *)
(* table, its other fields, a generic list of clients, a list of verifiers. *)
(* Beside the object the history variable expected keeps what its caller    *)
(* may count on, computed without the library, and the properties compare   *)
(* the two.  The libraries share no state: which one it is, subject, is     *)
(* chosen at the start.  A behaviour ends when the object is destroyed and  *)
(* where the C program has no defined behaviour.                            *)
(***************************************************************************)
EXTENDS DataTable, RAClient, FiniteSets

CONSTANTS
    Label,        \* labels of areas
    Block,        \* blocks of the attested memory
    Memory,       \* the attested memory: address -> byte
    MaxBlocks,    \* bound on the blocks of an area
    MaxRemoved,   \* bound on the calls that leave counts or pointers stale
    Value,        \* nonces, keys and prepared data, AIDs and numbers
    Numbers,      \* attestator numbers
    Session,      \* sessions of a client
    Verifiers,    \* ids of verifiers
    Diverged      \* what a call that never returns yields

SameClient(first, second) == RA_CLI_compare(first, second) = 0

List == INSTANCE GenericList WITH Same <- SameClient
Ver  == INSTANCE VerifiersList

Client == {RA_CLI_create(<<0>>, n, n, 1, 1, s) : n \in Numbers, s \in Session}

VARIABLES
    subject,      \* the library
    object,       \* the object of the library, or a Gone value
    expected,     \* what the caller may count on
    removed       \* how many calls removed an item and left counts or pointers stale

vars == <<subject, object, expected, removed>>

Gone == {Null, Undefined, Diverged}

(* What a call yields instead of an object or a value is neither. *)
ASSUME GoneAssumption ==
    /\ Undefined # Null /\ Undefined # Diverged /\ Null # Diverged
    /\ \A g \in Gone \cup {Failed} :
          /\ g \notin Ver!verifiers_t(Verifiers, Verifiers)
          /\ g \notin List!generic_list(Client)
          /\ g \notin Client

ASSUME ValueAssumption == Null \notin Value

ASSUME AreasAssumption == Label \subseteq Nat /\ Block \subseteq memory_block_t(Nat, Nat)

ASSUME NumbersAssumption == Numbers \subseteq Nat /\ MaxRemoved \in Nat /\ Width \in Nat \ {0}

(* The client that InitClient makes is one of those described. *)
ASSUME ClientAssumption == 1 \in Numbers /\ 1 \in Session

(* True of every Width in Nat \ {0}; the provers know no law of ^. *)
ASSUME PowerAssumption ==
    2 ^ (Width - 1) \in Nat \ {0} /\ 2 ^ Width = 2 * 2 ^ (Width - 1)

Live(s) == subject = s /\ object \notin Gone

-----------------------------------------------------------------------------
(* The areas of a table *)

SampleAID == [i \in 1..AID_SIZE |-> i]

(* The table starts as parsed from an ADS with one area for each label of   *)
(* the list; a label that occurs twice makes the parse fail.                *)
InitAreas ==
    \E labels \in {<<>>} \cup [1..1 -> Label] \cup [1..2 -> Label] : \E block \in Block :
        /\ object = ra_parse_binary_ads(Blob(SampleAID, 1,
              [k \in DOMAIN labels |-> [label |-> labels[k], blocks |-> <<block>>]]))
        /\ expected = IF Cardinality(ToSet(labels)) < Len(labels) THEN Null
                      ELSE [l \in ToSet(labels) |-> <<block>>]

InsertArea(label, allocated) ==
    /\ Live("areas")
    /\ object' = ra_insert_memory_area(object, ra_mA_create(label), allocated).table
    /\ expected' = IF label \in DOMAIN expected \/ ~allocated THEN expected
                   ELSE [l \in DOMAIN expected \cup {label} |->
                            IF l = label THEN <<>> ELSE expected[l]]
    /\ UNCHANGED <<subject, removed>>

(* The table with the area of a label replaced by what a call made of it. *)
WithArea(label, area) ==
    IF area = Undefined THEN Undefined
    ELSE [object EXCEPT !.areas =
             [k \in DOMAIN @ |-> IF @[k].label = label THEN area ELSE @[k]]]

Area(label) == ra_get_memory_area(object, label)

InsertBlock(label, block, allocated) ==
    /\ Live("areas")
    /\ Area(label) \notin {Null, Undefined}
    /\ Len(Area(label).blocks) < MaxBlocks
    /\ object' = WithArea(label, ra_mA_insert_block(Area(label), block, allocated))
    /\ expected' = IF allocated THEN [expected EXCEPT ![label] = Append(@, block)] ELSE expected
    /\ UNCHANGED <<subject, removed>>

(* The first block of the sequence that equals the one given is taken out. *)
RemoveBlock(label, block) ==
    /\ Live("areas")
    /\ Area(label) \notin {Null, Undefined}
    /\ object' = WithArea(label, ra_mA_remove_block(Area(label), block))
    /\ expected' = [expected EXCEPT ![label] =
                       IF Contains(@, block) THEN RemoveFirst(@, block) ELSE @]
    /\ removed < MaxRemoved
    /\ removed' = removed + 1
    /\ UNCHANGED subject

RemoveArea(label) ==
    /\ Live("areas")
    /\ object' = ra_remove_memory_area(object, label)
    /\ expected' = [l \in DOMAIN expected \ {label} |-> expected[l]]
    /\ removed < MaxRemoved
    /\ removed' = removed + 1
    /\ UNCHANGED subject

DestroyTable ==
    /\ Live("areas")
    /\ object' = IF ra_destroy_table(object) THEN Null ELSE Undefined
    /\ expected' = Null
    /\ UNCHANGED <<subject, removed>>

NextAreas ==
    \/ \E label \in Label, allocated \in BOOLEAN : InsertArea(label, allocated)
    \/ \E label \in Label, block \in Block, allocated \in BOOLEAN :
          InsertBlock(label, block, allocated)
    \/ \E label \in Label, block \in Block : RemoveBlock(label, block)
    \/ \E label \in Label : RemoveArea(label)
    \/ DestroyTable

-----------------------------------------------------------------------------
(* The other fields of a table *)

InitValues ==
    \E garbage \in BOOLEAN :
        /\ object = ra_create_table(garbage)
        /\ expected = [nonce |-> Failed, key |-> Failed, data |-> Failed,
                       AID |-> Failed, number |-> IF garbage THEN Undefined ELSE Failed]

Size == 1

SetNonce(v, allocated) ==
    /\ Live("values")
    /\ object' = ra_set_current_nonce(object, v, Size, allocated).table
    /\ expected' = [expected EXCEPT !.nonce = IF allocated THEN v ELSE Failed]
    /\ UNCHANGED <<subject, removed>>

SetKey(v, allocated) ==
    /\ Live("values")
    /\ object' = ra_set_current_key(object, v, Size, allocated).table
    /\ expected' = [expected EXCEPT !.key = IF allocated THEN v ELSE Failed]
    /\ UNCHANGED <<subject, removed>>

SetPrepared(v, allocated) ==
    /\ Live("values")
    /\ object' = ra_set_prepared_data(object, v, Size, allocated).table
    /\ expected' = [expected EXCEPT !.data = IF allocated THEN v ELSE Failed]
    /\ UNCHANGED <<subject, removed>>

ResetPrepared ==
    /\ Live("values")
    /\ object' = ra_set_prepared_data(object, Null, 0, TRUE).table
    /\ expected' = [expected EXCEPT !.data = Failed]
    /\ UNCHANGED <<subject, removed>>

SetIdentity(v) ==
    /\ Live("values")
    /\ \/ /\ object' = ra_set_AID(object, v)
          /\ expected' = [expected EXCEPT !.AID = v]
       \/ /\ object' = ra_set_attestator_number(object, v)
          /\ expected' = [expected EXCEPT !.number = v]
    /\ UNCHANGED <<subject, removed>>

NextValues ==
    \/ \E v \in Value, allocated \in BOOLEAN :
          SetNonce(v, allocated) \/ SetKey(v, allocated) \/ SetPrepared(v, allocated)
    \/ \E v \in Value : SetIdentity(v)
    \/ ResetPrepared

-----------------------------------------------------------------------------
(* A list of clients *)

InitList == object = List!gl_create(TRUE) /\ expected = {}

(* The clients of a set that the list takes for the given one: those whose  *)
(* number is the same in the lower Width bits.                              *)
Alike(set, client) ==
    {c \in set : c.attestator_number % 2 ^ Width = client.attestator_number % 2 ^ Width}

InsertClient(client, allocated) ==
    /\ Live("list")
    /\ object' = List!gl_insert(object, client, allocated).list
    /\ expected' = IF Alike(expected, client) # {} \/ ~allocated THEN expected
                   ELSE expected \cup {client}
    /\ UNCHANGED <<subject, removed>>

RemoveClient(client) ==
    /\ Live("list")
    /\ object' = List!gl_remove(object, client).list
    /\ expected' = expected \ Alike(expected, client)
    /\ UNCHANGED <<subject, removed>>

(* The counter stays as it was. *)
DeleteClient(client) ==
    /\ Live("list")
    /\ object' = List!gl_delete(object, client).list
    /\ expected' = expected \ Alike(expected, client)
    /\ removed < MaxRemoved
    /\ removed' = removed + 1
    /\ UNCHANGED subject

(* The session of an item is changed through a reference to it. *)
Reconnect(client) ==
    /\ Live("list")
    /\ List!gl_get_reference(object, client) # Failed
    /\ object' = [object EXCEPT !.items =
                     [k \in DOMAIN @ |->
                        IF @[k] = List!gl_get_reference(object, client)
                        THEN RA_CLI_set_session_id(@[k], client.session_id) ELSE @[k]]]
    /\ expected' = (expected \ Alike(expected, client))
                       \cup {RA_CLI_set_session_id(c, client.session_id) :
                                c \in Alike(expected, client)}
    /\ UNCHANGED <<subject, removed>>

DestroyList ==
    /\ Live("list")
    /\ object' = IF List!gl_destroy(object) THEN Null ELSE Undefined
    /\ removed < MaxRemoved
    /\ removed' = removed + 1
    /\ UNCHANGED <<subject, expected>>

NextList ==
    \/ \E client \in Client, allocated \in BOOLEAN : InsertClient(client, allocated)
    \/ \E client \in Client : RemoveClient(client) \/ DeleteClient(client) \/ Reconnect(client)
    \/ DestroyList

-----------------------------------------------------------------------------
(* One client *)

AIDs == {<<0>>, <<18>>, <<255>>}

InitClient ==
    /\ object = RA_CLI_create(<<0>>, 1, 1, 1, 1, 1)
    /\ expected = object

(* Every setter of ra_client.c; each changes the field it is named for. *)
SetClient ==
    /\ Live("client")
    /\ \/ \E AID \in AIDs :
             /\ object' = RA_CLI_set_AID(object, AID)
             /\ expected' = [expected EXCEPT !.AID = AID]
       \/ \E n \in Numbers :
             \/ /\ object' = RA_CLI_set_attestator_number(object, n)
                /\ expected' = [expected EXCEPT !.attestator_number = n]
             \/ /\ object' = RA_CLI_set_attestator_id(object, n)
                /\ expected' = [expected EXCEPT !.attestator_id = n]
             \/ /\ object' = RA_CLI_set_sleep_avg_seconds(object, n)
                /\ expected' = [expected EXCEPT !.sleep_avg_seconds = n]
             \/ /\ object' = RA_CLI_set_sleep_var_seconds(object, n)
                /\ expected' = [expected EXCEPT !.sleep_var_seconds = n]
       \/ \E s \in Session :
             /\ object' = RA_CLI_set_session_id(object, s)
             /\ expected' = [expected EXCEPT !.session_id = s]
    /\ UNCHANGED <<subject, removed>>

-----------------------------------------------------------------------------
(* A list of verifiers *)

InitVerifiers == object = Ver!RA_VER_create /\ expected = [id \in Verifiers |-> 0]

(* A client appears: its verifier is started, with the process id of its    *)
(* own id, or told of one client more.                                      *)
Appear(id, allocated) ==
    /\ Live("verifiers")
    /\ expected[id] < 2 ^ Width - 1
    /\ object' = IF Ver!RA_VER_is_running(object, id) = 0
                 THEN Ver!RA_VER_insert(object, id, id, allocated).list
                 ELSE Ver!RA_VER_update(object, id).list
    /\ expected' = [expected EXCEPT ![id] = IF @ = 0 /\ ~allocated THEN 0 ELSE @ + 1]
    /\ UNCHANGED <<subject, removed>>

(* A client leaves; a verifier that leaves the list with it is the one the  *)
(* caller is to kill.                                                       *)
Leave(id) ==
    /\ Live("verifiers")
    /\ object' = Ver!RA_VER_dec_clients(object, id).list
    /\ expected' = [expected EXCEPT ![id] = IF @ = 0 THEN 0 ELSE @ - 1]
    /\ UNCHANGED <<subject, removed>>

Stop(id) ==
    /\ Live("verifiers")
    /\ object' = Ver!RA_VER_remove(object, id).list
    /\ expected' = [expected EXCEPT ![id] = 0]
    /\ UNCHANGED <<subject, removed>>

(* The list is written to its file and read back by the next program. *)
Reload ==
    /\ Live("verifiers")
    /\ object' = Ver!RA_VER_parse(TRUE, Ver!RA_VER_serialize(object))
    /\ UNCHANGED <<subject, expected, removed>>

NextVerifiers ==
    \/ \E id \in Verifiers, allocated \in BOOLEAN : Appear(id, allocated)
    \/ \E id \in Verifiers : Leave(id) \/ Stop(id)
    \/ Reload

-----------------------------------------------------------------------------
Init ==
    /\ removed = 0
    /\ \/ subject = "areas" /\ InitAreas
       \/ subject = "values" /\ InitValues
       \/ subject = "list" /\ InitList
       \/ subject = "client" /\ InitClient
       \/ subject = "verifiers" /\ InitVerifiers

Next == NextAreas \/ NextValues \/ NextList \/ SetClient \/ NextVerifiers

Spec == Init /\ [][Next]_vars

-----------------------------------------------------------------------------
(* Properties *)

(* Bytes in a sequence of blocks. *)
Total(blocks) == LowerBound(blocks, Len(blocks) + 1)

(* The labels and blocks of a table are those that were put in and not      *)
(* taken out, in whatever order the calls came: ra_get_memory_area finds an *)
(* area exactly when its label is there, and until something is removed the *)
(* two counters, the list of labels and ra_is_label_defined agree with the  *)
(* list.  No call is undefined, and no ADS with distinct labels refused,    *)
(* unless something was removed (ra_data_table.c, ra_memory.c).             *)
TableIsDictionary ==
    subject = "areas" =>
        /\ object = Undefined => removed > 0
        /\ object = Null => expected = Null
        /\ object \notin Gone =>
              /\ \A l \in Label : Area(l) # Undefined =>
                    IF l \in DOMAIN expected
                    THEN Area(l) # Null /\ Area(l).blocks = expected[l]
                    ELSE Area(l) = Null
              /\ removed = 0 =>
                    /\ ToSet(ra_get_labels_list(object)) = DOMAIN expected
                    /\ ra_get_memory_areas_count(object) = Cardinality(DOMAIN expected)
                    /\ \A l \in Label : ra_is_label_defined(object, l) = (l \in DOMAIN expected)
                    /\ \A l \in DOMAIN expected :
                          /\ Area(l).total_blocks = Len(expected[l])
                          /\ Area(l).total_size = Total(expected[l])
                    /\ ra_print_table_info(object)

(* The byte that ra_mA_get_byte finds for an index, block after block, is   *)
(* the byte that ra_mA_get_buffer copies to that index, and total_size is   *)
(* the number of bytes copied: the walk and a plain copy see one area.      *)
BytesAgree ==
    Live("areas") /\ removed = 0 =>
        \A l \in DOMAIN expected :
            LET buffer == ra_mA_get_buffer(Memory, Area(l)) IN
            /\ Len(buffer) = Area(l).total_size
            /\ \A i \in 1..Area(l).total_size :
                  /\ ra_mA_get_byte(Memory, Area(l), i - 1) = buffer[i]
                  /\ ra_mA_get_block(Area(l), i - 1) \in ToSet(expected[l])

(* What is written of the areas of a table can be read back: the text of an *)
(* area by ra_mA_parse_ads_text_info, and the part of the table's file      *)
(* behind its header, whose fields have other widths than those of the ADS, *)
(* by the loop of ra_parse_binary_ads.                                      *)
DumpReadsBack ==
    Live("areas") /\ removed = 0 =>
        /\ \A l \in DOMAIN expected : Total(expected[l]) > 0 =>
              ra_mA_parse_ads_text_info(ra_mA_dump_info_binary(Area(l))) = Area(l)
        /\ LET file == ra_dump_table_info(object) IN
           file # Failed =>
              ParseAreas(ra_create_table(FALSE), SubSeq(file, AIDWords + 6, Len(file)),
                         ra_get_memory_areas_count(object)).areas = object.areas

(* A nonce, prepared data or AID that is read is the one set last, after    *)
(* any sequence of calls and failed allocations; a failed call leaves none, *)
(* never a stale one.  So it is with the number, once it was set (before,   *)
(* is_attestator_number_set is not initialized), and with the fields of a   *)
(* client, whose AID can be read back from the string that names the        *)
(* application to database and WebSocket, and which compares as equal to    *)
(* every client with its AID and number, whatever else they differ in.  The *)
(* key is left out: its getter refuses every key that was set.              *)
SetThenGet ==
    /\ Live("client") =>
        /\ RA_CLI_get_AID_reference(object) = expected.AID
        /\ \A AID \in AIDs :
              RA_CLI_get_AID_as_string(object)
                  = RA_CLI_get_AID_as_string(RA_CLI_set_AID(object, AID)) <=> AID = expected.AID
        /\ RA_CLI_get_attestator_number(object) = expected.attestator_number
        /\ RA_CLI_get_attestator_id(object) = expected.attestator_id
        /\ RA_CLI_get_sleep_avg_seconds(object) = expected.sleep_avg_seconds
        /\ RA_CLI_get_sleep_var_seconds(object) = expected.sleep_var_seconds
        /\ RA_CLI_get_session_id(object) = expected.session_id
        /\ \A c \in Client :
              c.AID = expected.AID /\ c.attestator_number = expected.attestator_number
              => SameClient(object, c)
    /\ Live("values") =>
        /\ ra_get_current_nonce(object) = expected.nonce
        /\ ra_get_prepared_data(object) = expected.data
        /\ ra_get_AID_reference(object) = expected.AID
        /\ expected.number # Undefined => ra_get_attestator_number(object) = expected.number

(* A list holds each client once, whatever the numbers: exactly those       *)
(* inserted and not removed, with the session set last, except that clients *)
(* whose numbers agree in the lower bits of an int are taken for one: the   *)
(* code compares so, although ra_client.h promises 0 only for equal ones.   *)
(* The counter is exact and no call undefined until gl_delete or gl_destroy *)
(* is used, or gl_remove on an empty list (generic_list.c, ra_client.c).    *)
ListExact ==
    subject = "list" =>
        /\ object = Undefined => removed > 0 \/ expected = {}
        /\ object \notin Gone =>
              /\ \A j, k \in DOMAIN object.items :
                    j # k => ~SameClient(object.items[j], object.items[k])
              /\ removed = 0 => /\ ToSet(object.items) = expected
                             /\ List!gl_count(object) = Cardinality(expected)
                             /\ \A c \in Client : List!gl_is_containing(object, c)
                                                     <=> Alike(expected, c) # {}

(* A verifier is in the list as long as it has clients, its count is theirs *)
(* and it is never taken out, to be killed, before the last one has left,   *)
(* whatever the order of arrivals and departures of several applications;   *)
(* only a list without verifiers survives being written and read back.      *)
VerifiersExact ==
    subject = "verifiers" =>
        /\ object # Undefined
        /\ object = Diverged => \E id \in Verifiers : expected[id] > 0
        /\ object \notin Gone =>
              /\ \A id \in Verifiers : Ver!RA_VER_is_running(object, id) = expected[id]
              /\ Ver!RA_VER_count(object) = Cardinality({id \in Verifiers : expected[id] > 0})
              /\ \A id \in Verifiers : expected[id] > 0 => Ver!RA_VER_get_pid(object, id) = id

TypeOK ==
    /\ subject \in {"areas", "values", "list", "client", "verifiers"}
    /\ removed \in 0..MaxRemoved
    /\ Live("areas") => object \in ra_table_t(memory_area_t(Label, Block),
                                              {SampleAID}, {1}, {Null})
    /\ Live("values") => object \in ra_table_t({}, Value \cup {Undefined}, Value \cup {Undefined},
                                               Value \cup {Null})
    /\ Live("list") => object \in List!generic_list(Client)
    /\ Live("client") => object \in ra_client_t(AIDs, Numbers, Numbers, Numbers, Session)
    /\ Live("verifiers") => object \in Ver!verifiers_t(Verifiers, Verifiers)
=============================================================================
