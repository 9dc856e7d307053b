----------------------------- MODULE MCDataPath -----------------------------
(* A .text of twelve bytes, two applications, attestators 1 and 257 of one  *)
(* of them, every interpretation with every preparation, and the five       *)
(* hashes.  Sizes of areas: a prime, a composite, an even number, too small. *)
EXTENDS DataPath

MCAID == <<171, 12>>

Area(label, blocks) == [label |-> label, blocks |-> blocks]
B(offset, size) == ra_mB_create(offset, size)

Split   == <<Area(7, <<B(0, 2), B(4, 3)>>)>>                   \* 5 bytes
Pair    == <<Area(7, <<B(0, 4)>>), Area(8, <<B(3, 2), B(8, 4)>>)>>  \* 4 and 6
Long    == <<Area(7, <<B(0, 8), B(9, 2)>>)>>                   \* 10
Tiny    == <<Area(7, <<B(0, 1)>>), Area(8, <<B(2, 6)>>)>>      \* 1 and 6
Two     == <<Area(7, <<B(5, 2)>>)>>                            \* 2
Twice   == <<Area(7, <<B(0, 4)>>), Area(7, <<B(4, 4)>>)>>      \* label used twice
Nothing == <<>>

D(version, preparation, hash, number, areas, most) ==
    [version |-> version, preparation |-> preparation, hash |-> hash,
     number |-> number, areas |-> areas, argument |-> Hex(MCAID), failures |-> most]

MCDeployments ==
    {D(1, "normal", "md5", 1, Pair, 1), D(1, "goldbach", "sha1", 1, Long, 1),
     D(2, "normal", "sha256", 1, Split, 2), D(2, "goldbach", "blake2", 1, Pair, 0),
     D(3, "normal", "ripemd160", 1, Tiny, 1), D(3, "goldbach", "md5", 1, Split, 0),
     D(4, "normal", "blake2", 257, Split, 0), D(4, "goldbach", "sha1", 256, Long, 1),
     D(1, "normal", "md5", 1, Tiny, 0), D(4, "normal", "md5", 1, Two, 0),
     D(1, "normal", "md5", 1, Twice, 0), D(2, "normal", "md5", 1, Nothing, 1),
     D(1, "normal", "md5", 3, Pair, 0),
     [D(1, "normal", "md5", 1, Pair, 0) EXCEPT !.argument = Hex(<<171, 13>>)],
     [D(1, "normal", "md5", 1, Pair, 0) EXCEPT !.argument = <<1>>]}

MCWalk == {D(2, "normal", "md5", 1, Long, 0), D(2, "normal", "md5", 1, Split, 0)}

MCNonces == {<<0, 0, 0>>, <<3, 1, 1>>}
MCSizes == 5..24

(* Both are in one pair of Long, where the changes compensate each other. *)
MCTampered == [address : {1, 4}, change : {128}]

MCExecutable == [header |-> <<250, 251>>, text |-> [i \in 1..12 |-> 10 + i]]

MCDirectory ==
    [application |-> {[id |-> 1, AID |-> <<9, 9>>], [id |-> 2, AID |-> MCAID]},
     attestator  |-> {[id |-> 1, application_id |-> 2, attestator_no |-> 1,
                       sleep_avg |-> 5, sleep_var |-> 2],
                      [id |-> 2, application_id |-> 2, attestator_no |-> 257,
                       sleep_avg |-> 5, sleep_var |-> 2],
                      [id |-> 4, application_id |-> 2, attestator_no |-> 256,
                       sleep_avg |-> 5, sleep_var |-> 2],
                      [id |-> 3, application_id |-> 1, attestator_no |-> 1,
                       sleep_avg |-> 5, sleep_var |-> 2]},
     startup     |-> {[attestator_id |-> 1, memory_area |-> 7],
                      [attestator_id |-> 1, memory_area |-> 8],
                      [attestator_id |-> 3, memory_area |-> 7]}]

MCNeighbour == [attestator_id |-> 3, nonce |-> <<0, 0, 0>>, data |-> <<1, 2>>,
                memory_area |-> 7, faults |-> {}]

MCInstalled == [n \in {1} |-> "sha256"]
=============================================================================
