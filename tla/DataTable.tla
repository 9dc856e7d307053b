----------------------------- MODULE DataTable -----------------------------
(***************************************************************************)
(* ra_data_table.c: the table that the attestator and the extractor parse   *)
(* from the attestation data structure (ADS) and keep the current nonce and *)
(* the prepared data in.  The functions of the file are operators on tables. *)
(*                                                                         *)
(* A table is the list of its areas, the counter kept beside it, the state  *)
(* of the pointers head and tail as in AttestedMemory, and the fields of    *)
(* the struct.  Nonces, keys and data are values; a null pointer is Null.   *)
(* What a call that allocates finds is its argument allocated.  An operator *)
(* for a call that changes the table and has a result yields both.          *)
(***************************************************************************)
EXTENDS AttestedMemory

CONSTANTS Null,        \* the null pointer
          AID_SIZE     \* bytes of an application id

ASSUME AIDAssumption == AID_SIZE \in {2 * n : n \in 1..8}

Answer(result, table) == [result |-> result, table |-> table]

-----------------------------------------------------------------------------
(* The list of areas *)

(* A table with areas, AIDs, numbers and buffers from the given sets. *)
ra_table_t(memory_areas, aids, numbers, buffers) ==
    [areas : Seq(memory_areas), head : Pointer, tail : Pointer, memory_areas_count : Nat,
     app_AID : aids, is_AID_set : BOOLEAN,
     app_attestator_number : numbers, is_attestator_number_set : BOOLEAN,
     current_nonce : buffers, current_nonce_size : Nat,
     current_key : buffers, current_key_size : Nat,
     prepared_data : buffers, prepared_data_size : Nat]

(* Null, and what stands for undefined behaviour or an error, is no table,  *)
(* area or block, no number or sequence of numbers and no truth value.      *)
ASSUME PointerAssumption ==
    /\ Null # Undefined /\ Failed # Undefined
    /\ \A g \in {Null, Undefined, Failed} :
          /\ g \notin memory_block_t(Nat, Nat)
          /\ g \notin memory_area_t(Nat, memory_block_t(Nat, Nat))
          /\ g \notin ra_table_t(memory_area_t(Nat, memory_block_t(Nat, Nat)),
                                Seq(Nat) \cup {Undefined}, Nat \cup {Undefined},
                                Seq(Nat) \cup {Null})
          /\ g \notin Seq(Nat)
          /\ g \notin Nat
          /\ g \notin BOOLEAN

(* is_attestator_number_set is not initialized: it holds what the memory    *)
(* held before.                                                             *)
ra_create_table(garbage) ==
    [areas |-> <<>>, head |-> "null", tail |-> "null", memory_areas_count |-> 0,
     app_AID |-> Undefined, is_AID_set |-> FALSE,
     app_attestator_number |-> Undefined, is_attestator_number_set |-> garbage,
     current_nonce |-> Null, current_nonce_size |-> 0,
     current_key |-> Null, current_key_size |-> 0,
     prepared_data |-> Null, prepared_data_size |-> 0]

(* Is freeing the table with its lists defined? *)
ra_destroy_table(table) ==
    \/ table = Null
    \/ /\ table.head # "freed"
       /\ \A k \in DOMAIN table.areas : ra_mA_destroy(table.areas[k])

(* Seeded fault: the counter is not incremented for the first area. *)
insert_table_item_Uncounted(table, area) ==
    [table EXCEPT !.areas = Append(@, area), !.head = "live", !.tail = "live",
                  !.memory_areas_count = IF table.head = "null" THEN @ ELSE @ + 1]

insert_table_item(table, area) ==
    IF table.tail = "freed" THEN Undefined
    ELSE [table EXCEPT !.areas = Append(@, area),
                       !.head = IF @ = "null" THEN "live" ELSE @,
                       !.tail = "live",
                       !.memory_areas_count = @ + 1]

(* A loop over as many items as the counter says follows a null pointer     *)
(* when the list is shorter.                                                *)
Walkable(table) ==
    \/ table.memory_areas_count = 0
    \/ table.head = "live" /\ table.memory_areas_count = Len(table.areas)

HasLabel(table, label) ==
    \E k \in DOMAIN table.areas : ra_mA_get_label(table.areas[k]) = label

ra_is_label_defined(table, label) ==
    IF table.head # "freed" /\ HasLabel(table, label) THEN TRUE
    ELSE IF Walkable(table) THEN FALSE
    ELSE Undefined

ra_insert_memory_area(table, area, allocated) ==
    IF area = Null THEN Answer("RA_ERROR_MALFORMED_MEMORY_AREA", table)
    ELSE LET defined == ra_is_label_defined(table, ra_mA_get_label(area)) IN
         IF defined = Undefined THEN Answer("RA_SUCCESS", Undefined)
         ELSE IF defined THEN Answer("RA_ERROR_MEMORY_LABEL_ALREADY_DEFINED", table)
         ELSE IF ~allocated THEN Answer("RA_ERROR_MEMORY", table)
         ELSE Answer("RA_SUCCESS", insert_table_item(table, area))

(* The loop reads the label of an item before it tests the item for null,   *)
(* so a label that is not there is undefined.  The counter, head and tail   *)
(* are left as they were; the area itself is not freed.                     *)
ra_remove_memory_area(table, label) ==
    IF table.head # "live" \/ ~HasLabel(table, label) THEN Undefined
    ELSE LET k == SelectInSeq(table.areas, LAMBDA a : ra_mA_get_label(a) = label)
         IN  [table EXCEPT !.areas = RemoveAt(@, k),
                           !.head = IF k = 1 THEN "freed" ELSE @,
                           !.tail = IF k = Len(table.areas) THEN "freed" ELSE @]

ra_get_memory_area(table, label) ==
    IF table.head = "freed" THEN Undefined
    ELSE LET k == SelectInSeq(table.areas, LAMBDA a : ra_mA_get_label(a) = label)
         IN  IF k = 0 THEN Null ELSE table.areas[k]

ra_get_memory_areas_count(table) == table.memory_areas_count

ra_get_labels_list(table) ==
    IF ~Walkable(table) THEN Undefined
    ELSE [k \in 1..table.memory_areas_count |-> ra_mA_get_label(table.areas[k])]

-----------------------------------------------------------------------------
(* Identity, nonce, key and prepared data *)

ra_set_AID(table, n) == [table EXCEPT !.app_AID = n, !.is_AID_set = TRUE]

ra_get_AID_reference(table) == IF table.is_AID_set THEN table.app_AID ELSE Failed

(* Two hexadecimal digits for each byte, whether the AID is set or not. *)
Hex(bytes) ==
    [i \in 1..2 * Len(bytes) |->
        LET b == bytes[(i + 1) \div 2] IN IF i % 2 = 1 THEN b \div 16 ELSE b % 16]

ra_get_AID_as_string(table) == Hex(table.app_AID)

ra_set_attestator_number(table, n) ==
    [table EXCEPT !.app_attestator_number = n, !.is_attestator_number_set = TRUE]

ra_get_attestator_number(table) ==
    IF table.is_attestator_number_set THEN table.app_attestator_number ELSE Failed

(* Seeded fault: the new nonce does not replace one that is set. *)
ra_set_current_nonce_Kept(table, nonce, size, allocated) ==
    IF ~allocated THEN Answer("RA_ERROR_MEMORY", table)
    ELSE IF table.current_nonce # Null THEN Answer("RA_SUCCESS", table)
    ELSE Answer("RA_SUCCESS", [table EXCEPT !.current_nonce = nonce, !.current_nonce_size = size])

(* The old nonce is freed before the new one is allocated. *)
ra_set_current_nonce(table, nonce, size, allocated) ==
    IF allocated
    THEN Answer("RA_SUCCESS", [table EXCEPT !.current_nonce = nonce, !.current_nonce_size = size])
    ELSE Answer("RA_ERROR_MEMORY",
                [table EXCEPT !.current_nonce = Null,
                              !.current_nonce_size = IF table.current_nonce = Null THEN @ ELSE 0])

ra_get_current_nonce(table) ==
    IF table.current_nonce = Null \/ table.current_nonce_size = 0
    THEN Failed ELSE table.current_nonce

ra_set_current_key(table, key, size, allocated) ==
    IF allocated
    THEN Answer("RA_SUCCESS", [table EXCEPT !.current_key = key, !.current_key_size = size])
    ELSE Answer("RA_ERROR_MEMORY",
                [table EXCEPT !.current_key = Null,
                              !.current_key_size = IF table.current_key = Null THEN @ ELSE 0])

(* The test of the size is the wrong way round: a key of some length is     *)
(* reported as undefined, and nothing is copied of an empty one.            *)
ra_get_current_key(table) ==
    IF table.current_key = Null \/ table.current_key_size # 0 THEN Failed ELSE <<>>

(* Seeded fault: the size stays as it was. *)
ra_reset_prepared_data_SizeKept(table) == [table EXCEPT !.prepared_data = Null]

ra_reset_prepared_data(table) ==
    [table EXCEPT !.prepared_data = Null, !.prepared_data_size = 0]

(* The buffer of earlier data is not freed. *)
ra_set_prepared_data(table, buffer, size, allocated) ==
    IF buffer = Null /\ size = 0 THEN Answer("RA_SUCCESS", ra_reset_prepared_data(table))
    ELSE IF ~allocated THEN Answer("RA_ERROR_MEMORY", [table EXCEPT !.prepared_data = Null])
    ELSE Answer("RA_SUCCESS",
                [table EXCEPT !.prepared_data = buffer, !.prepared_data_size = size])

ra_get_prepared_data(table) ==
    IF table.prepared_data = Null \/ table.prepared_data_size = 0
    THEN Failed ELSE table.prepared_data

(* Is printing the table defined?  Its loop tests both the pointer and the  *)
(* counter.                                                                 *)
ra_print_table_info(table) ==
    \/ table = Null
    \/ table.memory_areas_count = 0
    \/ /\ table.head # "freed"
       /\ \A k \in DOMAIN table.areas : ra_mA_print_info(table.areas[k])

-----------------------------------------------------------------------------
(* The ADS: AID, attestator number (uint64_t), number of areas, the areas *)

Bytes(words) ==
    [i \in 1..2 * Len(words) |->
        LET w == words[(i + 1) \div 2] IN IF i % 2 = 1 THEN w % 256 ELSE w \div 256]

Words(bytes) == [i \in 1..Len(bytes) \div 2 |-> bytes[2 * i - 1] + 256 * bytes[2 * i]]

Number(words) == words[1] + Word * words[2]

(* What is written: the AID as the table holds it and the number of areas   *)
(* as a uint16_t.  An area that cannot be written makes the file go away.   *)
ra_dump_table_info(table) ==
    IF ~table.is_AID_set \/ ~table.is_attestator_number_set THEN Failed
    ELSE IF table.memory_areas_count # 0 /\ table.head = "freed" THEN Undefined
    ELSE LET dumps == [k \in DOMAIN table.areas |-> ra_mA_dump_info_binary(table.areas[k])]
             bad   == SelectInSeq(dumps, LAMBDA d : d = Failed \/ d = Undefined)
         IN  IF bad # 0 THEN dumps[bad]
             ELSE Words(table.app_AID)
                    \o <<table.app_attestator_number % Word,
                         table.app_attestator_number \div Word, 0, 0>>
                    \o <<table.memory_areas_count>> \o FlattenSeq(dumps)

AIDWords == AID_SIZE \div 2

HeaderWords == AIDWords + 6

(* One area after another is read and inserted; the first that cannot be    *)
(* inserted, because its label is there already, makes the result NULL.     *)
ParseAreas(table, words, n) ==
    FoldLeft(LAMBDA s, k :
                IF s.table = Null \/ s.table = Undefined THEN s
                ELSE LET parsed == ra_mA_parse_ads_binary_info(s.pointer) IN
                     IF parsed.area = Undefined THEN [s EXCEPT !.table = Undefined]
                     ELSE LET a == ra_insert_memory_area(s.table, parsed.area, TRUE) IN
                          [table   |-> IF a.result = "RA_SUCCESS" THEN a.table ELSE Null,
                           pointer |-> parsed.pointer],
             [table |-> table, pointer |-> words], [k \in 1..n |-> k]).table

(* The AID is stored in the blob in reverse and the number of areas as a    *)
(* uint32_t.  The blob is Null when the program carries none.               *)
ra_parse_binary_ads(blob) ==
    IF blob = Null THEN Null
    ELSE IF Len(blob) < HeaderWords THEN Undefined
    ELSE LET aid    == Reverse(Bytes(SubSeq(blob, 1, AIDWords)))
             number == Number(SubSeq(blob, AIDWords + 1, HeaderWords))
             count  == Number(SubSeq(blob, AIDWords + 5, HeaderWords))
             table  == ra_set_attestator_number(ra_set_AID(ra_create_table(FALSE), aid), number)
         IN  ParseAreas(table, SubSeq(blob, HeaderWords + 1, Len(blob)), count)

(* What the tool chain puts into the program: the AID in reverse, the       *)
(* number, and for each area its label and its blocks.                      *)
Blob(AID, number, areas) ==
    Words(Reverse(AID)) \o <<number, 0, 0, 0, Len(areas), 0>>
        \o FlattenSeq([k \in DOMAIN areas |->
               <<areas[k].label, Len(areas[k].blocks), 0>>
                   \o FlattenSeq([j \in DOMAIN areas[k].blocks |->
                                     ra_mB_dump_info(areas[k].blocks[j])])])
=============================================================================
