--------------------------- MODULE AttestedMemory ---------------------------
(***************************************************************************)
(* ra_memory.c: the memory blocks and areas that an attestation reads.      *)
(*                                                                         *)
(* The functions of the file are operators on values; DataTable and the     *)
(* programs that use it are built from them.  A block is an offset from     *)
(* base_address and a size.  An area is a label, the list of its blocks,    *)
(* the two counters that the code keeps beside the list, and the state of   *)
(* the pointers blocks_head and blocks_tail: "null", "live", or "freed" when *)
(* they point to an item that has been freed.  The attested memory is a     *)
(* function from addresses to bytes.                                        *)
(*                                                                         *)
(* Where the C program has no defined behaviour (a freed or null pointer is *)
(* followed, memory is read outside of what is mapped) an operator has the  *)
(* value Undefined; where a call reports an error and stores nothing, or    *)
(* returns NULL, it has the value Failed.  Files and the ADS blob are       *)
(* sequences of 16-bit words, low word first: every field of the formats is *)
(* a whole number of words.  Parsing finds the memory it allocates.         *)
(***************************************************************************)
EXTENDS Integers, Sequences, SequencesExt

CONSTANTS Undefined,      \* what undefined behaviour yields
          Failed          \* an error result, or NULL

Word == 65536

-----------------------------------------------------------------------------
(* Blocks *)

memory_block_t(offsets, sizes) == [offset : offsets, size : sizes]

ra_mB_create(offset, size) == [offset |-> offset, size |-> size]

ra_mB_create_empty == [offset |-> 0, size |-> 0]

ra_mB_get_byte(memory, block, index) ==
    IF block.offset + index \in DOMAIN memory
    THEN memory[block.offset + index]
    ELSE Undefined

ra_mB_get_buffer(memory, block) ==
    [i \in 1..block.size |-> ra_mB_get_byte(memory, block, i - 1)]

(* uint64_t offset, uint32_t size *)
ra_mB_dump_info(block) ==
    <<block.offset % Word, block.offset \div Word, 0, 0,
      block.size % Word, block.size \div Word>>

BlockWords == 6

(* The block at the head of the words; ra_mB_parse_info reads it from a     *)
(* file and fails at its end.                                               *)
ra_mB_parse_info(words) ==
    [offset |-> words[1] + Word * words[2],
     size   |-> words[5] + Word * words[6]]

(* The same from the blob in memory: the pointer moves on behind the block.  *)
(* The blob has no end mark, so reading past it is undefined.               *)
ra_mB_parse_info_diablo(words) ==
    IF Len(words) < BlockWords
    THEN [block |-> Undefined, pointer |-> <<>>]
    ELSE [block   |-> ra_mB_parse_info(words),
          pointer |-> SubSeq(words, BlockWords + 1, Len(words))]

-----------------------------------------------------------------------------
(* Areas *)

Pointer == {"null", "live", "freed"}

(* An area with a label and blocks from the given sets. *)
memory_area_t(labels, blocks) ==
    [label : labels, blocks : Seq(blocks), total_blocks : Nat, total_size : Nat,
     head : Pointer, tail : Pointer]

ra_mA_create(label) ==
    [label |-> label, blocks |-> <<>>, total_blocks |-> 0, total_size |-> 0,
     head |-> "null", tail |-> "null"]

ra_mA_create_empty == ra_mA_create(65535)

ra_mA_get_label(area) == area.label

ra_mA_get_total_size(area) == area.total_size

ra_mA_is_empty(area) == area.total_blocks = 0 \/ area.total_size = 0

(* The test at the start of the searches: nothing was ever inserted. *)
NeverFilled(area) ==
    /\ area.head = "null" /\ area.tail = "null"
    /\ area.total_blocks = 0 /\ area.total_size = 0

(* Seeded fault: the size of the first block of an area is not added. *)
ra_mA_insert_block_FirstFree(area, block, allocated) ==
    [area EXCEPT !.blocks = Append(@, block), !.head = "live", !.tail = "live",
                 !.total_blocks = @ + 1,
                 !.total_size = IF area.head = "null" THEN @ ELSE @ + block.size]

(* An insertion writes through the tail pointer; without memory for the     *)
(* item nothing changes.  The sums stay far below 2^32.                     *)
ra_mA_insert_block(area, block, allocated) ==
    IF ~allocated THEN area
    ELSE IF area.tail = "freed" THEN Undefined
    ELSE [area EXCEPT !.blocks = Append(@, block),
                      !.head = IF @ = "null" THEN "live" ELSE @,
                      !.tail = "live",
                      !.total_blocks = @ + 1, !.total_size = @ + block.size]

ra_mA_insert_new_block(area, offset, size, allocated) ==
    ra_mA_insert_block(area, ra_mB_create(offset, size), allocated)

(* The item is unlinked from its neighbours and freed.  Neither blocks_head *)
(* nor blocks_tail nor the counters are updated, and a block that is not in *)
(* the list makes the loop follow the null pointer behind the last item.    *)
ra_mA_remove_block(area, block) ==
    IF NeverFilled(area) THEN area
    ELSE IF area.head = "freed" \/ ~Contains(area.blocks, block) THEN Undefined
    ELSE LET k == SelectInSeq(area.blocks, LAMBDA b : b = block)
         IN  [area EXCEPT !.blocks = RemoveAt(@, k),
                          !.head = IF k = 1 THEN "freed" ELSE @,
                          !.tail = IF k = Len(area.blocks) THEN "freed" ELSE @]

(* The number of bytes in the blocks before the k-th. *)
LowerBound(blocks, k) ==
    LET bytes[j \in 0..(k - 1)] == IF j = 0 THEN 0 ELSE bytes[j - 1] + blocks[j].size
    IN  bytes[k - 1]

(* The search of get_block and get_byte; 0 when the loop runs off the list,  *)
(* which it does by following the null pointer before testing it.           *)
BlockOfByte(blocks, byte_index) ==
    LET hit == {k \in DOMAIN blocks :
                  LowerBound(blocks, k) <= byte_index /\ byte_index < LowerBound(blocks, k + 1)}
    IN  IF hit = {} THEN 0 ELSE CHOOSE k \in hit : TRUE

ra_mA_get_block(area, byte_index) ==
    IF NeverFilled(area) THEN Failed
    ELSE IF area.head = "freed" \/ BlockOfByte(area.blocks, byte_index) = 0
    THEN Undefined
    ELSE area.blocks[BlockOfByte(area.blocks, byte_index)]

(* Seeded fault: the bound of a block is inclusive, so the first byte of    *)
(* the next block is looked for behind the end of this one.                 *)
ra_mA_get_byte_Inclusive(memory, area, byte_index) ==
    LET k == SelectInSeq([j \in DOMAIN area.blocks |->
                              <<LowerBound(area.blocks, j), area.blocks[j].size>>],
                         LAMBDA r : r[1] <= byte_index /\ byte_index <= r[1] + r[2])
    IN  ra_mB_get_byte(memory, area.blocks[k],
                       byte_index - LowerBound(area.blocks, k))

(* moving_index is the index less the sizes of the blocks passed over. *)
ra_mA_get_byte(memory, area, byte_index) ==
    IF NeverFilled(area) THEN Failed
    ELSE IF area.head = "freed" THEN Undefined
    ELSE LET k == BlockOfByte(area.blocks, byte_index)
         IN  IF k = 0 THEN Undefined
             ELSE ra_mB_get_byte(memory, area.blocks[k],
                                 byte_index - LowerBound(area.blocks, k))

ra_mA_get_buffer(memory, area) ==
    IF area.head = "freed" THEN Undefined
    ELSE FoldLeft(LAMBDA buffer, b : buffer \o ra_mB_get_buffer(memory, b),
                  <<>>, area.blocks)

(* Reading the fields of the blocks, and freeing them, follows the list.     *)
ra_mB_print_info(area) == area.head = "live"

ra_mB_destroy(area) == area.head # "freed"

(* Is printing an area defined?  Without blocks the list is not read. *)
ra_mA_print_info(area) == area.total_blocks = 0 \/ ra_mB_print_info(area)

(* Is freeing an area and its list defined? *)
ra_mA_destroy(area) == ra_mB_destroy(area)

-----------------------------------------------------------------------------
(* Text of an area: uint16_t label, uint32_t total_blocks, the blocks *)

(* Seeded fault: the number of blocks is written after the blocks. *)
ra_mA_dump_info_binary_CountLast(area) ==
    <<area.label>> \o FoldLeft(LAMBDA w, b : w \o ra_mB_dump_info(b), <<>>, area.blocks)
        \o <<area.total_blocks, 0>>

ra_mA_dump_info_binary(area) ==
    IF ra_mA_is_empty(area) THEN Failed
    ELSE IF area.head = "freed" THEN Undefined
    ELSE <<area.label, area.total_blocks % Word, area.total_blocks \div Word>>
             \o FoldLeft(LAMBDA w, b : w \o ra_mB_dump_info(b), <<>>, area.blocks)

AreaHeaderWords == 3

BlocksDeclared(words) == words[2] + Word * words[3]

AreaWords(words) == AreaHeaderWords + BlockWords * BlocksDeclared(words)

(* The area that label, count and blocks at the head of the words describe. *)
AreaRead(words) ==
    FoldLeft(LAMBDA area, b : ra_mA_insert_block(area, b, TRUE),
             ra_mA_create(words[1]),
             [k \in 1..BlocksDeclared(words) |->
                  ra_mB_parse_info(SubSeq(words, AreaHeaderWords + BlockWords * (k - 1) + 1,
                                                 AreaHeaderWords + BlockWords * k))])

(* From a file: a short file yields NULL. *)
ra_mA_parse_ads_text_info(words) ==
    IF Len(words) < AreaHeaderWords THEN Failed
    ELSE IF Len(words) < AreaWords(words) THEN Failed
    ELSE AreaRead(words)

(* From the blob: the pointer is left behind the area. *)
ra_mA_parse_ads_binary_info(words) ==
    IF Len(words) < AreaHeaderWords
    THEN [area |-> Undefined, pointer |-> <<>>]
    ELSE IF Len(words) < AreaWords(words)
    THEN [area |-> Undefined, pointer |-> <<>>]
    ELSE [area    |-> AreaRead(words),
          pointer |-> SubSeq(words, AreaWords(words) + 1, Len(words))]

=============================================================================
