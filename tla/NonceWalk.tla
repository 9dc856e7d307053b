----------------------------- MODULE NonceWalk -----------------------------
(***************************************************************************)
(* From a nonce to the prepared data: the four interpretations of a nonce   *)
(* (ra_nonce_interpretation_1.c to _4.c), the two preparations that walk    *)
(* over the bytes of the area it selects (ra_data_preparation.c and         *)
(* ra_data_preparation_goldbach.c) and what they use.  A build links one    *)
(* interpretation and one preparation.                                      *)
(*                                                                         *)
(* A nonce is the sequence of the three numbers that the code reads from    *)
(* its bytes: the uint32_t at 0, the uint32_t at 4, and the uint16_t at     *)
(* nonce_size - 3.                                                          *)
(***************************************************************************)
EXTENDS DataTable, FiniteSets

AtGenerator == 1
AtOffset    == 2
AtArea      == 3
NonceSize   == 3

-----------------------------------------------------------------------------
(* Arithmetic *)

IsPrime(n) == n >= 2 /\ \A d \in 2..(n - 1) : d * d <= n => n % d # 0

(* The largest prime up to n; RA_ERROR_GENERIC, and nothing stored, below 2. *)
closest_prime(n) ==
    IF n < 2 THEN Failed
    ELSE CHOOSE p \in 2..n : IsPrime(p) /\ \A q \in (p + 1)..n : ~IsPrime(q)

(* BN_mod_mul. *)
calculate_index(base, exponent, modulo) == (base * exponent) % modulo

(* The second preparation has a copy of its own. *)
calculate_index_goldbach(base, exponent, modulo) == calculate_index(base, exponent, modulo)

(* The rows of the table: an even number and the two primes closest to its  *)
(* half that sum up to it.  The array is longer than its initializer; the   *)
(* rows behind the last hold zeros.                                         *)
LastPartition == 20480

goldbach_partitions(x) ==
    IF x > LastPartition THEN <<0, 0>>
    ELSE LET left == CHOOSE p \in 2..(x \div 2) :
                        /\ IsPrime(p) /\ IsPrime(x - p)
                        /\ \A q \in (p + 1)..(x \div 2) : ~(IsPrime(q) /\ IsPrime(x - q))
         IN  <<left, x - left>>

(* (x/2)-2 is an index in front of the array for an x below 4. *)
goldbach_left(x)  == IF x < 4 THEN Undefined ELSE goldbach_partitions(x)[1]
goldbach_right(x) == IF x < 4 THEN Undefined ELSE goldbach_partitions(x)[2]

-----------------------------------------------------------------------------
(* Interpretations of the nonce.  decoded_info is what the caller's struct  *)
(* holds after the call, also after one that fails.                         *)

decoded_info(result, label, size, actual, generator, offset) ==
    [result |-> result, area_label |-> label, buffer_size |-> size,
     actual_buffer_size |-> actual, generator |-> generator,
     initial_offset |-> offset]

(* What stands for undefined behaviour is none of these, and no walk. *)
ASSUME DecodingAssumption ==
    /\ Undefined \notin [result : {"RA_SUCCESS", "RA_ERROR_GENERIC"}, area_label : Nat,
                         buffer_size : Nat, actual_buffer_size : Nat \cup {Undefined},
                         generator : Nat \cup {Undefined},
                         initial_offset : Nat \cup {Undefined}]
    /\ Undefined \notin Seq(Seq(Nat))

(* The start that the four have in common: the nonce selects one of the     *)
(* areas.  Without any there is a division by zero.                         *)
SelectedLabel(table) ==
    IF table.memory_areas_count = 0 THEN Undefined
    ELSE LET area_labels == ra_get_labels_list(table)
             label_index == table.current_nonce[AtArea] % table.memory_areas_count
         IN  IF area_labels = Undefined THEN Undefined
             ELSE area_labels[label_index + 1]

SelectedSize(table) ==
    ra_mA_get_total_size(ra_get_memory_area(table, SelectedLabel(table)))

(* What an interpretation makes of a table with a broken list or no area. *)
Broken(table) == SelectedLabel(table) = Undefined

AtLeastTwo(generator) == IF generator \in {0, 1} THEN 2 ELSE generator

(* The result of closest_prime is compared with -1, which it never is: for  *)
(* an area of less than two bytes the size of the walk is not initialized.  *)
decode_nonce_1(table) ==
    LET size   == SelectedSize(table)
        actual == closest_prime(size)
    IN  IF Broken(table) \/ actual = Failed THEN Undefined
        ELSE decoded_info("RA_SUCCESS", SelectedLabel(table), size, actual,
                          AtLeastTwo(table.current_nonce[AtGenerator] % actual),
                          IF size = actual THEN 0
                          ELSE table.current_nonce[AtOffset] % (size - actual))

decode_nonce_2(table) ==
    LET size      == SelectedSize(table)
        generator == closest_prime(size)
    IN  IF Broken(table) THEN Undefined
        ELSE IF generator = Failed
        THEN decoded_info("RA_ERROR_GENERIC", SelectedLabel(table), size, size, Undefined, 0)
        ELSE decoded_info("RA_SUCCESS", SelectedLabel(table), size, size,
                          AtLeastTwo(generator), 0)

decode_nonce_3(table) ==
    LET size      == SelectedSize(table)
        generator == closest_prime(size)
    IN  IF Broken(table) THEN Undefined
        ELSE IF generator = Failed
        THEN decoded_info("RA_ERROR_GENERIC", SelectedLabel(table), size, size, Undefined, 0)
        ELSE decoded_info("RA_SUCCESS", SelectedLabel(table), size, size,
                          AtLeastTwo(generator), 0)

decode_nonce_4(table) ==
    LET size      == SelectedSize(table)
        actual    == closest_prime(size)
        generator == IF actual = Failed THEN Failed ELSE closest_prime(actual - 1)
    IN  IF Broken(table) THEN Undefined
        ELSE IF actual = Failed
        THEN decoded_info("RA_ERROR_GENERIC", SelectedLabel(table), size, Undefined,
                          Undefined, Undefined)
        ELSE IF generator = Failed
        THEN decoded_info("RA_ERROR_GENERIC", SelectedLabel(table), size, actual, Undefined, 0)
        ELSE decoded_info("RA_SUCCESS", SelectedLabel(table), size, actual,
                          AtLeastTwo(generator), 0)

(* The interpretation that the build links. *)
decode_nonce(version, table) ==
    CASE version = 1 -> decode_nonce_1(table)
      [] version = 2 -> decode_nonce_2(table)
      [] version = 3 -> decode_nonce_3(table)
      [] version = 4 -> decode_nonce_4(table)

(* Is printing what a nonce encodes defined?  It decodes the nonce, if one  *)
(* is set, and prints whatever it finds.                                    *)
Printable(table, decoded) == table.current_nonce = Null \/ decoded # Undefined

print_encoded_info_1(table) == Printable(table, decode_nonce_1(table))
print_encoded_info_2(table) == Printable(table, decode_nonce_2(table))
print_encoded_info_3(table) == Printable(table, decode_nonce_3(table))
print_encoded_info_4(table) == Printable(table, decode_nonce_4(table))

print_encoded_info(version, table) ==
    CASE version = 1 -> print_encoded_info_1(table)
      [] version = 2 -> print_encoded_info_2(table)
      [] version = 3 -> print_encoded_info_3(table)
      [] version = 4 -> print_encoded_info_4(table)

-----------------------------------------------------------------------------
(* Preparations.  The operators yield the result and the table.             *)

(* What ends a preparation with the prepared data reset. *)
Reset(result, table) == Answer(result, ra_reset_prepared_data(table))

(* The bytes at the given places of an area, or the first that is not one. *)
BytesAt(memory, area, places) ==
    LET bytes == [i \in DOMAIN places |-> ra_mA_get_byte(memory, area, places[i])]
        bad   == SelectInSeq(bytes, LAMBDA b : b = Failed \/ b = Undefined)
    IN  IF bad = 0 THEN bytes ELSE bytes[bad]

(* Seeded fault: the walk starts with the second byte of the window. *)
Walk_FromOne(info) ==
    [i \in 1..info.actual_buffer_size |->
        calculate_index(info.generator, i - 1, info.actual_buffer_size)
            + info.initial_offset + 1]

(* The places that the walk visits, in order. *)
Walk(info) ==
    [i \in 1..info.actual_buffer_size |->
        calculate_index(info.generator, i - 1, info.actual_buffer_size) + info.initial_offset]

(* What both preparations do with the bytes of the walk.  The result of     *)
(* ra_set_prepared_data is not tested.                                      *)
Prepared(table, bytes, allocated) ==
    IF bytes = Undefined THEN Answer("RA_SUCCESS", Undefined)
    ELSE IF bytes = Failed THEN Reset("RA_ERROR_EMPTY_AREA", table)
    ELSE Answer("RA_SUCCESS",
                ra_set_prepared_data(table, bytes, Len(bytes), allocated.data).table)

(* A nonce that cannot be decoded, or a label that is not in the table,     *)
(* leaves the earlier prepared data in the table.  What the calls of malloc *)
(* find is given for the list of labels, the buffer and the table's copy.   *)
(* A product of calculate_index that OpenSSL cannot compute, for want of    *)
(* memory, ends as a missing buffer does: with an error and no data.        *)
PrepareDecoded(info, table, memory, allocated) ==
    IF ~allocated.labels THEN Answer("RA_ERROR_GENERIC", table)
    ELSE IF info = Undefined THEN Answer("RA_SUCCESS", Undefined)
    ELSE IF info.result # "RA_SUCCESS" THEN Answer("RA_ERROR_GENERIC", table)
    ELSE LET area == ra_get_memory_area(table, info.area_label) IN
         IF area = Null THEN Answer("RA_ERROR_EMPTY_AREA", table)
         ELSE IF ~allocated.buffer THEN Reset("RA_ERROR_MEMORY", table)
         ELSE Prepared(table, BytesAt(memory, area, Walk(info)), allocated)

ra_prepare_data(version, table, memory, allocated) ==
    IF table.current_nonce = Null \/ table.current_nonce_size = 0
    THEN Reset("RA_ERROR_UNDEFINED_PARAMETERS", table)
    ELSE PrepareDecoded(decode_nonce(version, table), table, memory, allocated)

(* The window is split in two parts of prime sizes, each walked with the    *)
(* generator of the other until the longer one is through; the prepared     *)
(* bytes are the sums.                                                      *)
GoldbachWalk(info) ==
    LET even  == 2 * (info.actual_buffer_size \div 2)
        left  == goldbach_left(even)
        right == goldbach_right(even)
    IN  IF left = Undefined \/ left = 0 THEN Undefined
        ELSE [i \in 1..(IF left > right THEN left ELSE right) |->
                <<calculate_index_goldbach(info.generator % right, i - 1, left)
                      + info.initial_offset,
                  calculate_index_goldbach(info.generator % left, i - 1, right) + left
                      + info.initial_offset>>]

Sums(left, right) ==
    IF left = Undefined \/ right = Undefined THEN Undefined
    ELSE IF left = Failed \/ right = Failed THEN Failed
    ELSE [i \in DOMAIN left |-> (left[i] + right[i]) % 256]

PrepareWalk(walk, area, table, memory, allocated) ==
    IF walk = Undefined THEN Answer("RA_SUCCESS", Undefined)
    ELSE IF area = Null THEN Answer("RA_ERROR_EMPTY_AREA", table)
    ELSE IF ~allocated.buffer THEN Reset("RA_ERROR_MEMORY", table)
    ELSE Prepared(table, Sums(BytesAt(memory, area, [i \in DOMAIN walk |-> walk[i][1]]),
                              BytesAt(memory, area, [i \in DOMAIN walk |-> walk[i][2]])),
                  allocated)

PrepareDecoded_goldbach(info, table, memory, allocated) ==
    IF ~allocated.labels THEN Answer("RA_ERROR_GENERIC", table)
    ELSE IF info = Undefined THEN Answer("RA_SUCCESS", Undefined)
    ELSE IF info.result # "RA_SUCCESS" THEN Answer("RA_ERROR_GENERIC", table)
    ELSE PrepareWalk(GoldbachWalk(info), ra_get_memory_area(table, info.area_label),
                     table, memory, allocated)

ra_prepare_data_goldbach(version, table, memory, allocated) ==
    IF table.current_nonce = Null \/ table.current_nonce_size = 0
    THEN Reset("RA_ERROR_UNDEFINED_PARAMETERS", table)
    ELSE PrepareDecoded_goldbach(decode_nonce(version, table), table, memory, allocated)

(* random_generate_nonce: any nonce over the numbers given, unless the      *)
(* generator fails.                                                         *)
random_generate_nonce(numbers) == [1..NonceSize -> numbers]
=============================================================================
