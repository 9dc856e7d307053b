--------------------------- MODULE DataPath_proofs ---------------------------
(***************************************************************************)
(* Proofs about DataPath: the accounts of the extractor, the rows that it   *)
(* inserts, the table and the answers of the client, the verdicts and the   *)
(* reaction, and the walks, for any deployments, binary, nonces and         *)
(* directory and any number of requests and failures.  The invariants are   *)
(* built on one another:                                                    *)
(*                                                                          *)
(*   ExtractionInv  the extractor holds the table of the ADS, its rows the  *)
(*                  label that their nonce selects                          *)
(*   ServingInv     so does the client; requests and messages name rows     *)
(*   BlameInv       the reaction agrees with the verdicts                   *)
(*   HeldInv        rows hold the bytes of .text along the walk             *)
(*   ClientInv      what the client holds, is null or broken                *)
(*   TypesInv       the types                                               *)
(*   JudgedInv      a verdict compares the bytes of the row with those of   *)
(*                  the memory that the client saw                          *)
(***************************************************************************)
EXTENDS DataPath, DataTable_proofs, FiniteSetTheorems

USE ExtractorAssumption

-----------------------------------------------------------------------------
(* The inductive invariant *)

ExtractorFields ==
    {"pc", "code", "fault", "table", "memory", "current_nonce", "attestator_id",
     "error_counter", "total_data_exctracted", "skipped"}

(* The rows that the extractor has inserted. *)
Rows == {d \in DOMAIN ra_prepared_data :
            ra_prepared_data[d].attestator_id = extractor.attestator_id}

(* The places before the attestator is known, and those of one pass. *)
Before == {"arguments", "load_ads", "load_exe", "start", "check"}
Pass   == {"loop", "set_nonce", "prepare", "insert"}

(* The counters of an extractor x that has inserted n rows.  In a pass the *)
(* data extracted are the rows and the data skipped; behind it, and after  *)
(* the last error, the increment of the for statement is still to come.    *)
Balance(x, n) ==
    /\ n \in Nat
    /\ x.error_counter \in Nat
    /\ x.total_data_exctracted \in Int
    /\ x.skipped \in Int
    /\ x.pc \in Pass =>
          /\ x.error_counter < EXTRACTOR_MAX_ERROR_ALLOWED
          /\ x.total_data_exctracted <= total_data_to_exctract
          /\ n = x.total_data_exctracted - x.skipped
    /\ x.pc \in Pass \ {"loop"} => x.total_data_exctracted < total_data_to_exctract
    /\ x.pc = "next" =>
          /\ x.error_counter < EXTRACTOR_MAX_ERROR_ALLOWED
          /\ x.total_data_exctracted < total_data_to_exctract
          /\ n = x.total_data_exctracted + 1 - x.skipped
    /\ x.pc = "report" =>
          /\ x.error_counter = EXTRACTOR_MAX_ERROR_ALLOWED
          /\ n = x.total_data_exctracted + 1 - x.skipped
    /\ x.pc = "ended" /\ x.code = 0 =>
          /\ x.error_counter < EXTRACTOR_MAX_ERROR_ALLOWED
          /\ x.total_data_exctracted = total_data_to_exctract
          /\ n = x.total_data_exctracted - x.skipped
    /\ x.pc = "ended" /\ x.code = 1 =>
          /\ x.error_counter = EXTRACTOR_MAX_ERROR_ALLOWED
          /\ n = x.total_data_exctracted + 1 - x.skipped

AccountsInv ==
    /\ deployed \in Deployments
    /\ extractor = [f \in ExtractorFields |-> extractor[f]]
    /\ extractor.pc \in ExtractorPlaces
    /\ \E S : ra_prepared_data \in Seq(S)
    /\ extractor.pc \in Before =>
          /\ extractor.attestator_id = Unset
          /\ extractor.error_counter = 0
          /\ extractor.total_data_exctracted = 0
          /\ extractor.skipped = 0
          /\ ra_prepared_data = <<Neighbour>>
    /\ extractor.attestator_id # Unset =>
          IsFiniteSet(Rows) /\ Balance(extractor, Cardinality(Rows))

(* Steps that change neither rows nor attestator. *)
LEMMA SameRows ==
    ASSUME AccountsInv, ra_prepared_data' = ra_prepared_data, deployed' = deployed,
           extractor' = [f \in ExtractorFields |-> extractor'[f]],
           extractor'.pc \in ExtractorPlaces \ Before,
           extractor'.attestator_id = extractor.attestator_id,
           \A n : extractor.attestator_id # Unset /\ Balance(extractor, n)
                  => Balance(extractor', n)
    PROVE  AccountsInv'
<1>1. Rows' = Rows
  BY DEF Rows
<1>2. QED
  BY <1>1 DEF AccountsInv

(* An error in a pass. *)
LEMMA ErrorBalance ==
    ASSUME AccountsInv, extractor.pc \in Pass, NEW table, NEW again \in BOOLEAN,
           CountError(table, again),
           extractor.pc = "loop" => extractor.total_data_exctracted < total_data_to_exctract
    PROVE  /\ extractor' = [f \in ExtractorFields |-> extractor'[f]]
           /\ extractor'.pc \in ExtractorPlaces \ Before
           /\ extractor'.attestator_id = extractor.attestator_id
           /\ \A n : extractor.attestator_id # Unset /\ Balance(extractor, n)
                     => Balance(extractor', n)
<1> DEFINE x == extractor
           y == extractor'
           errors == x.error_counter + 1
<1>1. /\ y = [f \in ExtractorFields |-> y[f]]
      /\ y.pc = IF errors >= EXTRACTOR_MAX_ERROR_ALLOWED THEN "report" ELSE "next"
      /\ y.attestator_id = x.attestator_id
      /\ y.error_counter = errors
      /\ y.skipped = x.skipped + (IF again THEN 0 ELSE 1)
      /\ y.total_data_exctracted = x.total_data_exctracted - (IF again THEN 1 ELSE 0)
  BY DEF CountError, AccountsInv, ExtractorFields
<1>2. ASSUME NEW n, Balance(x, n)
      PROVE  Balance(y, n)
  <2>1. /\ n \in Nat /\ x.error_counter \in Nat
        /\ x.total_data_exctracted \in Int /\ x.skipped \in Int
        /\ x.error_counter < EXTRACTOR_MAX_ERROR_ALLOWED
        /\ x.total_data_exctracted < total_data_to_exctract
        /\ n = x.total_data_exctracted - x.skipped
    BY <1>2 DEF Balance, Pass
  <2>2. CASE again
    BY <1>1, <2>1, <2>2 DEF Balance, Pass
  <2>3. CASE ~again
    BY <1>1, <2>1, <2>3 DEF Balance, Pass
  <2>4. QED
    BY <2>2, <2>3
<1>3. y.pc \in ExtractorPlaces \ Before
  BY <1>1 DEF ExtractorPlaces, Before
<1>4. QED
  BY <1>1, <1>2, <1>3

(* The same with the rest of the invariant. *)
LEMMA ErrorKeeps ==
    ASSUME AccountsInv, extractor.pc \in Pass, NEW table, NEW again \in BOOLEAN,
           CountError(table, again),
           extractor.pc = "loop" => extractor.total_data_exctracted < total_data_to_exctract,
           ra_prepared_data' = ra_prepared_data, deployed' = deployed
    PROVE  AccountsInv'
  BY ErrorBalance, SameRows

(* A process that ends without a verdict on its accounts. *)
LEMMA EndsKeeps ==
    ASSUME AccountsInv, NEW code, NEW fault, Ends(code, fault),
           code = Undefined \/ extractor.pc \in Before,
           ra_prepared_data' = ra_prepared_data, deployed' = deployed
    PROVE  AccountsInv'
<1> DEFINE x == extractor
           y == extractor'
<1>1. /\ y = [f \in ExtractorFields |-> y[f]]
      /\ y.pc = "ended" /\ y.code = code
      /\ y.attestator_id = x.attestator_id
      /\ y.error_counter = x.error_counter
      /\ y.skipped = x.skipped
      /\ y.total_data_exctracted = x.total_data_exctracted
  BY DEF Ends, AccountsInv, ExtractorFields
<1>2. y.pc \in ExtractorPlaces \ Before
  BY <1>1 DEF ExtractorPlaces, Before
<1>3. ASSUME NEW n, x.attestator_id # Unset, Balance(x, n)
      PROVE  Balance(y, n)
  <2>1. code = Undefined
    BY <1>3 DEF AccountsInv
  <2>2. QED
    BY <1>1, <1>3, <2>1 DEF Balance, Pass
<1>4. QED
  BY <1>1, <1>2, <1>3, SameRows

(* A step to another place that leaves the counters alone. *)
LEMMA MoveKeeps ==
    ASSUME AccountsInv, NEW y, extractor' = y,
           y = [f \in ExtractorFields |-> y[f]],
           y.attestator_id = extractor.attestator_id,
           y.error_counter = extractor.error_counter,
           y.total_data_exctracted = extractor.total_data_exctracted,
           y.skipped = extractor.skipped,
           \/ extractor.pc \in Before /\ y.pc \in Before
           \/ /\ extractor.pc \in Pass /\ y.pc \in Pass \ {"loop"}
              /\ extractor.total_data_exctracted < total_data_to_exctract
                    \/ extractor.pc # "loop",
           ra_prepared_data' = ra_prepared_data, deployed' = deployed
    PROVE  AccountsInv'
<1>1. CASE extractor.pc \in Before /\ y.pc \in Before
  <2>1. y.pc \in ExtractorPlaces
    BY <1>1 DEF Before, ExtractorPlaces
  <2>2. QED
    BY <1>1, <2>1 DEF AccountsInv
<1>2. CASE /\ extractor.pc \in Pass /\ y.pc \in Pass \ {"loop"}
           /\ \/ extractor.total_data_exctracted < total_data_to_exctract
              \/ extractor.pc # "loop"
  <2>1. y.pc \in ExtractorPlaces \ Before
    BY <1>2 DEF Before, Pass, ExtractorPlaces
  <2>2. ASSUME NEW n, Balance(extractor, n)
        PROVE  Balance(y, n)
    BY <1>2, <2>2 DEF Balance, Pass
  <2>3. QED
    BY <2>1, <2>2, SameRows
<1>3. QED
  BY <1>1, <1>2

-----------------------------------------------------------------------------
(* The steps of the extractor *)

(* Until the application is checked there is no attestator. *)
LEMMA BeforeKeeps ==
    ASSUME AccountsInv,
           \/ ParseArguments
           \/ \E fault \in {"none", "file"} : LoadADS(fault)
           \/ \E fault \in {"none", "file", "bfd", "format"} : LoadEXE(fault)
           \/ \E fault \in {"none", "memory", "mysql"} : StartExtraction(fault)
    PROVE  AccountsInv'
<1>1. extractor.pc \in Before /\ ra_prepared_data' = ra_prepared_data /\ deployed' = deployed
  BY DEF ParseArguments, LoadADS, LoadEXE, StartExtraction, LeavesServer, At, Before
<1>2. (\E code, fault : Ends(code, fault))
        \/ \/ Goto("load_ads") \/ Goto("check")
           \/ \E table : extractor' = [extractor EXCEPT !.pc = "load_exe", !.table = table]
           \/ \E memory : extractor' = [extractor EXCEPT !.pc = "start", !.memory = memory]
  <2>1. CASE ParseArguments
    BY <2>1 DEF ParseArguments
  <2>2. CASE \E fault \in {"none", "file"} : LoadADS(fault)
    BY <2>2 DEF LoadADS
  <2>3. CASE \E fault \in {"none", "file", "bfd", "format"} : LoadEXE(fault)
    BY <2>3 DEF LoadEXE
  <2>4. CASE \E fault \in {"none", "memory", "mysql"} : StartExtraction(fault)
    BY <2>4 DEF StartExtraction
  <2>5. QED
    BY <2>1, <2>2, <2>3, <2>4
<1>3. CASE \E code, fault : Ends(code, fault)
  BY <1>1, <1>3, EndsKeeps
<1>4. CASE \/ Goto("load_ads") \/ Goto("check")
           \/ \E table : extractor' = [extractor EXCEPT !.pc = "load_exe", !.table = table]
           \/ \E memory : extractor' = [extractor EXCEPT !.pc = "start", !.memory = memory]
  <2> DEFINE y == extractor'
  <2>1. /\ y = [f \in ExtractorFields |-> y[f]]
        /\ y.attestator_id = extractor.attestator_id
        /\ y.error_counter = extractor.error_counter
        /\ y.total_data_exctracted = extractor.total_data_exctracted
        /\ y.skipped = extractor.skipped
        /\ y.pc \in Before
    BY <1>4 DEF AccountsInv, ExtractorFields, Goto, Before
  <2>2. QED
    BY <1>1, <2>1, MoveKeeps
<1>5. QED
  BY <1>2, <1>3, <1>4

(* The attestator that is found has no row yet. *)
LEMMA CheckKeeps ==
    ASSUME AccountsInv, NEW fault \in {"none", "mysql"}, CheckApplication(fault)
    PROVE  AccountsInv'
<1> DEFINE ids == DBMS_QUERY_EXTRACT_ATTESTATOR_ID(Directory, AID, deployed.number)
           y == extractor'
<1>1. /\ extractor.pc \in Before
      /\ ra_prepared_data' = ra_prepared_data /\ deployed' = deployed
  BY DEF CheckApplication, LeavesServer, At, Before
<1>2. CASE Ends(1, fault)
  BY <1>1, <1>2, EndsKeeps
<1>3. CASE \E id \in ids : extractor' = [extractor EXCEPT !.pc = "loop", !.attestator_id = id]
  <2>1. PICK id \in ids :
            extractor' = [extractor EXCEPT !.pc = "loop", !.attestator_id = id]
    BY <1>3
  <2>2. Neighbour.attestator_id # id
    BY <2>1, NeighbourAssumption DEF AccountsInv
  <2>3. /\ y = [f \in ExtractorFields |-> y[f]]
        /\ y.pc = "loop" /\ y.attestator_id = id
        /\ y.error_counter = 0 /\ y.total_data_exctracted = 0 /\ y.skipped = 0
    BY <1>1, <2>1 DEF AccountsInv, ExtractorFields
  <2>4. Rows' = {}
    <3>1. ra_prepared_data' = <<Neighbour>>
      BY <1>1 DEF AccountsInv
    <3>2. QED
      BY <2>2, <2>3, <3>1 DEF Rows
  <2>5. IsFiniteSet(Rows') /\ Cardinality(Rows') = 0
    BY <2>4, FS_EmptySet
  <2>6. Balance(y, 0)
    BY <2>3 DEF Balance, Pass
  <2>7. y.pc \in ExtractorPlaces \ Before
    BY <2>3 DEF ExtractorPlaces, Before
  <2>8. QED
    BY <1>1, <2>3, <2>5, <2>6, <2>7 DEF AccountsInv
<1>4. Ends(1, fault)
        \/ \E id \in ids : extractor' = [extractor EXCEPT !.pc = "loop", !.attestator_id = id]
  BY DEF CheckApplication, ra_db_get_attestator_id, Lookup
<1>5. QED
  BY <1>2, <1>3, <1>4

(* A pass begins with a nonce, or with an error. *)
LEMMA GenerateKeeps ==
    ASSUME AccountsInv, GenerateNonce \/ GenerateNonceFails
    PROVE  AccountsInv'
<1>1. /\ extractor.pc = "loop" /\ extractor.pc \in Pass
      /\ extractor.total_data_exctracted < total_data_to_exctract
      /\ ra_prepared_data' = ra_prepared_data /\ deployed' = deployed
  BY DEF GenerateNonce, GenerateNonceFails, InLoop, At, LeavesServer, Pass
<1>2. CASE GenerateNonce
  <2> DEFINE y == extractor'
  <2>1. /\ y = [f \in ExtractorFields |-> y[f]]
        /\ y.attestator_id = extractor.attestator_id
        /\ y.error_counter = extractor.error_counter
        /\ y.total_data_exctracted = extractor.total_data_exctracted
        /\ y.skipped = extractor.skipped
        /\ y.pc \in Pass \ {"loop"}
    BY <1>2 DEF GenerateNonce, AccountsInv, ExtractorFields, Pass
  <2>2. QED
    BY <1>1, <2>1, MoveKeeps
<1>3. CASE GenerateNonceFails
  BY <1>1, <1>3, ErrorKeeps DEF GenerateNonceFails
<1>4. QED
  BY <1>2, <1>3

(* The increment of the for statement settles the account of the pass. *)
LEMMA NextPassKeeps ==
    ASSUME AccountsInv, NextPass
    PROVE  AccountsInv'
<1> DEFINE y == extractor'
<1>1. /\ extractor.pc = "next"
      /\ ra_prepared_data' = ra_prepared_data /\ deployed' = deployed
      /\ y = [f \in ExtractorFields |-> y[f]]
      /\ y.attestator_id = extractor.attestator_id
      /\ y.error_counter = extractor.error_counter
      /\ y.total_data_exctracted = extractor.total_data_exctracted + 1
      /\ y.skipped = extractor.skipped
      /\ y.pc = "loop"
  BY DEF NextPass, At, LeavesServer, AccountsInv, ExtractorFields
<1>2. y.pc \in ExtractorPlaces \ Before
  BY <1>1 DEF ExtractorPlaces, Before
<1>3. ASSUME NEW n, Balance(extractor, n)
      PROVE  Balance(y, n)
  BY <1>1, <1>3 DEF Balance, Pass
<1>4. QED
  BY <1>1, <1>2, <1>3, SameRows

(* A nonce that cannot be set is skipped. *)
LEMMA SetNonceKeeps ==
    ASSUME AccountsInv, NEW fault \in {"none", "nonce"}, SetNonce(fault)
    PROVE  AccountsInv'
<1>1. /\ extractor.pc = "set_nonce" /\ extractor.pc \in Pass
      /\ ra_prepared_data' = ra_prepared_data /\ deployed' = deployed
  BY DEF SetNonce, At, LeavesServer, Pass
<1>2. \/ \E table : CountError(table, FALSE)
      \/ \E table : extractor' = [extractor EXCEPT !.pc = "prepare", !.table = table]
  BY DEF SetNonce
<1>3. CASE \E table : CountError(table, FALSE)
  BY <1>1, <1>3, ErrorKeeps
<1>4. CASE \E table : extractor' = [extractor EXCEPT !.pc = "prepare", !.table = table]
  <2> DEFINE y == extractor'
  <2>1. /\ y = [f \in ExtractorFields |-> y[f]]
        /\ y.attestator_id = extractor.attestator_id
        /\ y.error_counter = extractor.error_counter
        /\ y.total_data_exctracted = extractor.total_data_exctracted
        /\ y.skipped = extractor.skipped
        /\ y.pc \in Pass \ {"loop"}
    BY <1>4 DEF AccountsInv, ExtractorFields, Pass
  <2>2. QED
    BY <1>1, <2>1, MoveKeeps
<1>5. QED
  BY <1>2, <1>3, <1>4

(* The preparation, which may be undefined, or an error. *)
LEMMA PrepareKeeps ==
    ASSUME AccountsInv, NEW fault, Prepare(fault)
    PROVE  AccountsInv'
<1>1. /\ extractor.pc = "prepare" /\ extractor.pc \in Pass
      /\ ra_prepared_data' = ra_prepared_data /\ deployed' = deployed
  BY DEF Prepare, At, LeavesServer, Pass
<1>2. \/ Ends(Undefined, fault)
      \/ \E table : CountError(table, TRUE)
      \/ \E table : extractor' = [extractor EXCEPT !.pc = "insert", !.table = table,
                                                   !.fault = fault]
  BY DEF Prepare
<1>3. CASE Ends(Undefined, fault)
  BY <1>1, <1>3, EndsKeeps
<1>4. CASE \E table : CountError(table, TRUE)
  BY <1>1, <1>4, ErrorKeeps
<1>5. CASE \E table : extractor' = [extractor EXCEPT !.pc = "insert", !.table = table,
                                                     !.fault = fault]
  <2> DEFINE y == extractor'
  <2>1. /\ y = [f \in ExtractorFields |-> y[f]]
        /\ y.attestator_id = extractor.attestator_id
        /\ y.error_counter = extractor.error_counter
        /\ y.total_data_exctracted = extractor.total_data_exctracted
        /\ y.skipped = extractor.skipped
        /\ y.pc \in Pass \ {"loop"}
    BY <1>5 DEF AccountsInv, ExtractorFields, Pass
  <2>2. QED
    BY <1>1, <2>1, MoveKeeps
<1>6. QED
  BY <1>2, <1>3, <1>4, <1>5

(* A row of the attestator is added at the end. *)
LEMMA RowAdded ==
    ASSUME AccountsInv, extractor.attestator_id # Unset,
           extractor'.attestator_id = extractor.attestator_id,
           NEW row, row.attestator_id = extractor.attestator_id,
           ra_prepared_data' = Append(ra_prepared_data, row)
    PROVE  IsFiniteSet(Rows') /\ Cardinality(Rows') = Cardinality(Rows) + 1
<1> DEFINE k == Len(ra_prepared_data) + 1
<1>1. PICK S : ra_prepared_data \in Seq(S)
  BY DEF AccountsInv
<1>2. ra_prepared_data \in Seq(S \cup {row})
  BY <1>1
<1>3. /\ DOMAIN ra_prepared_data' = (DOMAIN ra_prepared_data) \cup {k}
      /\ \A d \in DOMAIN ra_prepared_data : ra_prepared_data'[d] = ra_prepared_data[d]
      /\ ra_prepared_data'[k] = row
      /\ k \notin DOMAIN ra_prepared_data
  BY <1>2
<1>4. Rows' = Rows \cup {k} /\ k \notin Rows
  BY <1>3 DEF Rows
<1>5. IsFiniteSet(Rows)
  BY DEF AccountsInv
<1>6. QED
  BY <1>4, <1>5, FS_AddElement

(* A row, an error, or undefined behaviour. *)
LEMMA InsertKeeps ==
    ASSUME AccountsInv, NEW fault, Insert(fault)
    PROVE  AccountsInv'
<1>1. extractor.pc = "insert" /\ extractor.pc \in Pass /\ deployed' = deployed
  BY DEF Insert, At, Pass
<1>2. \/ (\E why : Ends(Undefined, why)) /\ ra_prepared_data' = ra_prepared_data
      \/ CountError(extractor.table, TRUE) /\ ra_prepared_data' = ra_prepared_data
      \/ /\ Goto("next")
         /\ \E nonce, data, memory_area, faults :
               ra_prepared_data' = Append(ra_prepared_data,
                  [attestator_id |-> extractor.attestator_id, nonce |-> nonce, data |-> data,
                   memory_area |-> memory_area, faults |-> faults])
  BY DEF Insert
<1>3. CASE (\E why : Ends(Undefined, why)) /\ ra_prepared_data' = ra_prepared_data
  BY <1>1, <1>3, EndsKeeps
<1>4. CASE CountError(extractor.table, TRUE) /\ ra_prepared_data' = ra_prepared_data
  BY <1>1, <1>4, ErrorKeeps
<1>5. CASE /\ Goto("next")
           /\ \E nonce, data, memory_area, faults :
                 ra_prepared_data' = Append(ra_prepared_data,
                    [attestator_id |-> extractor.attestator_id, nonce |-> nonce,
                     data |-> data, memory_area |-> memory_area, faults |-> faults])
  <2> DEFINE y == extractor'
  <2>1. /\ y = [f \in ExtractorFields |-> y[f]]
        /\ y.attestator_id = extractor.attestator_id
        /\ y.error_counter = extractor.error_counter
        /\ y.total_data_exctracted = extractor.total_data_exctracted
        /\ y.skipped = extractor.skipped
        /\ y.pc = "next"
    BY <1>5 DEF Goto, AccountsInv, ExtractorFields
  <2>2. y.pc \in ExtractorPlaces \ Before
    BY <2>1 DEF ExtractorPlaces, Before
  <2>3. PICK row : /\ row.attestator_id = extractor.attestator_id
                   /\ ra_prepared_data' = Append(ra_prepared_data, row)
    BY <1>5
  <2>4. \E S : ra_prepared_data' \in Seq(S)
    <3>1. PICK S : ra_prepared_data \in Seq(S)
      BY DEF AccountsInv
    <3>2. ra_prepared_data \in Seq(S \cup {row})
      BY <3>1
    <3>3. ra_prepared_data' \in Seq(S \cup {row})
      BY <2>3, <3>2
    <3>4. QED
      BY <3>3
  <2>5. ASSUME extractor.attestator_id # Unset
        PROVE  IsFiniteSet(Rows') /\ Balance(y, Cardinality(Rows'))
    <3>1. IsFiniteSet(Rows') /\ Cardinality(Rows') = Cardinality(Rows) + 1
      BY <2>1, <2>3, <2>5, RowAdded
    <3>2. Balance(extractor, Cardinality(Rows))
      BY <2>5 DEF AccountsInv
    <3>3. ASSUME NEW n, Balance(extractor, n)
          PROVE  Balance(y, n + 1)
      BY <1>1, <2>1, <3>3 DEF Balance, Pass
    <3>4. QED
      BY <3>1, <3>2, <3>3
  <2>6. QED
    BY <1>1, <2>1, <2>2, <2>4, <2>5 DEF AccountsInv
<1>6. QED
  BY <1>2, <1>3, <1>4, <1>5

(* The loop was left with or without the last error: the code says which. *)
LEMMA ReportKeeps ==
    ASSUME AccountsInv, Report
    PROVE  AccountsInv'
<1> DEFINE x == extractor
           y == extractor'
<1>1. /\ ra_prepared_data' = ra_prepared_data /\ deployed' = deployed
      /\ \/ x.pc = "loop" /\ x.total_data_exctracted >= total_data_to_exctract
         \/ x.pc = "report"
      /\ y = [f \in ExtractorFields |-> y[f]]
      /\ y.pc = "ended"
      /\ y.code = IF x.error_counter = EXTRACTOR_MAX_ERROR_ALLOWED THEN 1 ELSE 0
      /\ y.attestator_id = x.attestator_id
      /\ y.error_counter = x.error_counter
      /\ y.skipped = x.skipped
      /\ y.total_data_exctracted = x.total_data_exctracted
  BY DEF Report, Ends, At, LeavesServer, AccountsInv, ExtractorFields
<1>2. y.pc \in ExtractorPlaces \ Before
  BY <1>1 DEF ExtractorPlaces, Before
<1>3. ASSUME NEW n, Balance(x, n)
      PROVE  Balance(y, n)
  BY <1>1, <1>3 DEF Balance, Pass
<1>4. QED
  BY <1>1, <1>2, <1>3, SameRows

(* Attestations only read what the extractor did. *)
LEMMA AttestationsKeep ==
    ASSUME AccountsInv, Attestations
    PROVE  AccountsInv'
<1>1. UNCHANGED <<deployed, extractor, ra_prepared_data>>
  <2>1. CASE ServeClient
    BY <2>1 DEF ServeClient, Issue
  <2>2. CASE \E row \in Directory.startup : AttestAtStartup(row.memory_area)
    BY <2>2 DEF AttestAtStartup, Issue
  <2>3. CASE \E t \in Tampered : Tamper(t)
    BY <2>3 DEF Tamper
  <2>4. CASE \E fault : Attest(fault)
    BY <2>4 DEF Attest
  <2>5. CASE \E fault : ForwardResponse(fault)
    BY <2>5 DEF ForwardResponse
  <2>6. CASE \E fault : Verify(fault)
    BY <2>6 DEF Verify
  <2>7. QED
    BY <2>1, <2>2, <2>3, <2>4, <2>5, <2>6 DEF Attestations
<1>2. QED
  BY <1>1 DEF AccountsInv, Rows

(* Initially. *)
LEMMA AccountsInit == ASSUME Init PROVE AccountsInv
<1>1. extractor = [f \in ExtractorFields |-> extractor[f]]
  BY DEF Init, ExtractorFields
<1>2. ra_prepared_data \in Seq({Neighbour})
  BY DEF Init
<1>3. QED
  BY <1>1, <1>2 DEF Init, AccountsInv, ExtractorPlaces

(* Every step keeps the invariant. *)
LEMMA AccountsStep == ASSUME AccountsInv, [Next]_vars PROVE AccountsInv'
<1>1. CASE Extractor
  BY <1>1, BeforeKeeps, CheckKeeps, GenerateKeeps, NextPassKeeps, SetNonceKeeps,
     PrepareKeeps, InsertKeeps, ReportKeeps DEF Extractor
<1>2. CASE Attestations
  BY <1>2, AttestationsKeep
<1>3. CASE UNCHANGED vars
  BY <1>3 DEF vars, AccountsInv, Rows
<1>4. QED
  BY <1>1, <1>2, <1>3 DEF Next

(* The extractor's code, counters and rows agree when it has ended, after   *)
(* any failures, for any number of data and any limit on the errors         *)
(* (extractor.c:228-331): 0 for a complete extraction, less the nonces that *)
(* could not be set; 1 at the limit of errors, with a number that is one    *)
(* too small.                                                               *)
THEOREM ReportAccountsHolds == Spec => []ReportAccounts
<1>1. Init => AccountsInv
  BY AccountsInit
<1>2. AccountsInv /\ [Next]_vars => AccountsInv'
  BY AccountsStep
<1>3. AccountsInv => ReportAccounts
  BY DEF AccountsInv, Balance, Rows, ReportAccounts, At
<1>4. QED
  BY <1>1, <1>2, <1>3, PTL DEF Spec

-----------------------------------------------------------------------------
(* The tables of the extractor and of the client *)

TableFields ==
    {"areas", "head", "tail", "memory_areas_count", "app_AID", "is_AID_set",
     "app_attestator_number", "is_attestator_number_set", "current_nonce",
     "current_nonce_size", "current_key", "current_key_size", "prepared_data",
     "prepared_data_size"}

(* A table that holds what the ADS of a deployment says. *)
Kept(t, d) ==
    /\ t = [f \in TableFields |-> t[f]]
    /\ NoLabelTwice(d.areas)
    /\ t.areas = FilledAreas(d.areas)
    /\ t.head = IF d.areas = <<>> THEN "null" ELSE "live"
    /\ t.memory_areas_count = Len(d.areas)
    /\ t.app_AID = AID /\ t.is_AID_set = TRUE
    /\ t.app_attestator_number = d.number /\ t.is_attestator_number_set = TRUE

(* The label that a nonce selects. *)
LabelOf(nonce, d) ==
    IF d.areas = <<>> THEN Undefined
    ELSE d.areas[(nonce[AtArea] % Len(d.areas)) + 1].label

(* What can be built, and the nonces that can be set. *)
Buildable(d) == d.version \in 1 .. 4 /\ d.number \in Nat /\ d.areas \in Seq(Plan)

AnyNonce == random_generate_nonce(Nat)

(* Deployments and Nonces are such. *)
LEMMA ConstantFacts ==
    /\ \A d \in Deployments : Buildable(d)
    /\ Nonces \subseteq AnyNonce
  BY DeploymentAssumption, NonceAssumption DEF Buildable, Plan, AnyBlock, AnyNonce

(* The AID is one that ParsedBlob is about. *)
LEMMA AIDFacts ==
    AID \in Seq(0 .. 255) /\ Len(AID) = AID_SIZE /\ AID \in Seq(Nat)
  BY DeploymentAssumption, SeqMonotonic, 0 .. 255 \subseteq Nat

(* A table of the type of ra_data_table.h is a record of its fields. *)
LEMMA TableIsRecord ==
    ASSUME NEW t \in AnyTable
    PROVE  t = [f \in TableFields |-> t[f]]
  BY DEF AnyTable, ra_table_t, TableFields

(* What is parsed from areas with distinct labels. *)
LEMMA ParsedAreas ==
    ASSUME NEW d, Buildable(d), NoLabelTwice(d.areas),
           NEW table, table = ra_parse_binary_ads(Blob(AID, d.number, d.areas))
    PROVE  /\ Kept(table, d)
           /\ table \in AnyTable
           /\ table.current_nonce = Null
           /\ table.prepared_data = Null
           /\ table.prepared_data_size = 0
<1> DEFINE plans == d.areas
           id    == Identified(AID, d.number)
           t     == TableWith(id, FilledAreas(plans))
<1>1. /\ AID \in Seq(0 .. 255) /\ Len(AID) = AID_SIZE /\ AID \in Seq(Nat)
      /\ d.number \in Nat /\ plans \in Seq(Plan)
  BY AIDFacts DEF Buildable
<1>2. table = IF NoLabelTwice(plans) THEN t ELSE Null
  BY <1>1, ParsedBlob
<1>3. table = t /\ NoLabelTwice(plans)
  BY <1>2
<1>4. FilledAreas(plans) \in Seq(AnyArea) /\ Len(FilledAreas(plans)) = Len(plans)
  BY <1>1, FilledAreasType
<1>5. FilledAreas(plans) = <<>> <=> plans = <<>>
  BY <1>1, <1>4
<1>6. id \in AnyTable /\ id.app_AID = AID /\ id.is_AID_set = TRUE
      /\ id.app_attestator_number = d.number /\ id.is_attestator_number_set = TRUE
      /\ id.current_nonce = Null /\ id.prepared_data = Null /\ id.prepared_data_size = 0
  <2>1. PICK a \in Seq(Nat), n \in Nat : a = AID /\ n = d.number
    BY <1>1
  <2>2. /\ Identified(a, n) \in AnyTable /\ Identified(a, n).app_AID = a
        /\ Identified(a, n).app_attestator_number = n
        /\ Identified(a, n).is_AID_set = TRUE
        /\ Identified(a, n).is_attestator_number_set = TRUE
    BY IdentifiedFields
  <2>3. Identified(a, n).current_nonce = Null
    BY IdentifiedFields
  <2>4. Identified(a, n).prepared_data = Null
    BY IdentifiedFields
  <2>5. Identified(a, n).prepared_data_size = 0
    BY IdentifiedFields
  <2>6. QED
    BY <2>1, <2>2, <2>3, <2>4, <2>5
<1> HIDE DEF id
<1>7. /\ t \in AnyTable /\ t.areas = FilledAreas(plans)
      /\ t.head = IF FilledAreas(plans) = <<>> THEN "null" ELSE "live"
      /\ t.memory_areas_count = Len(FilledAreas(plans))
      /\ t.app_AID = AID /\ t.is_AID_set = TRUE
      /\ t.app_attestator_number = d.number /\ t.is_attestator_number_set = TRUE
      /\ t.current_nonce = Null /\ t.prepared_data = Null /\ t.prepared_data_size = 0
  BY <1>4, <1>6, TableWithFields
<1> HIDE DEF t
<1>8. t = [f \in TableFields |-> t[f]]
  BY <1>7, TableIsRecord
<1>9. Kept(t, d)
  BY <1>3, <1>4, <1>5, <1>7, <1>8 DEF Kept
<1>10. QED
  BY <1>3, <1>7, <1>9

(* What the extractor and the client parse. *)
LEMMA ParsedTable ==
    ASSUME deployed \in Deployments, ra_parse_binary_ads(ads) # Null
    PROVE  /\ Kept(ra_parse_binary_ads(ads), deployed)
           /\ ra_parse_binary_ads(ads) \in AnyTable
           /\ ra_parse_binary_ads(ads).current_nonce = Null
           /\ ra_parse_binary_ads(ads).prepared_data = Null
           /\ ra_parse_binary_ads(ads).prepared_data_size = 0
<1>1. Buildable(deployed)
  BY ConstantFacts
<1>2. PICK n \in Nat, plans \in Seq(Plan) : n = deployed.number /\ plans = deployed.areas
  BY <1>1 DEF Buildable
<1>3. NoLabelTwice(plans)
  <2>1. AID \in Seq(0 .. 255) /\ Len(AID) = AID_SIZE
    BY AIDFacts
  <2>2. ra_parse_binary_ads(Blob(AID, n, plans))
          = IF NoLabelTwice(plans)
            THEN TableWith(Identified(AID, n), FilledAreas(plans))
            ELSE Null
    BY <2>1, ParsedBlob
  <2>3. QED
    BY <1>2, <2>2 DEF ads
<1>4. PICK table : table = ra_parse_binary_ads(ads)
  OBVIOUS
<1>5. table = ra_parse_binary_ads(Blob(AID, deployed.number, deployed.areas))
  BY <1>4 DEF ads
<1>6. /\ Kept(table, deployed) /\ table \in AnyTable /\ table.current_nonce = Null
      /\ table.prepared_data = Null /\ table.prepared_data_size = 0
  BY <1>1, <1>2, <1>3, <1>5, ParsedAreas
<1>7. QED
  BY <1>4, <1>6

(* Setting the nonce leaves the rest of a table alone. *)
LEMMA NonceSet ==
    ASSUME NEW d, NEW t, Kept(t, d), NEW nonce, NEW size, NEW allocated \in BOOLEAN,
           NEW u, u = ra_set_current_nonce(t, nonce, size, allocated).table
    PROVE  /\ Kept(u, d)
           /\ u.prepared_data = t.prepared_data
           /\ u.prepared_data_size = t.prepared_data_size
           /\ allocated => u.current_nonce = nonce /\ u.current_nonce_size = size
           /\ ~allocated => u.current_nonce = Null
<1>1. CASE allocated
  <2>1. u = [t EXCEPT !.current_nonce = nonce, !.current_nonce_size = size]
    BY <1>1 DEF ra_set_current_nonce, Answer
  <2>2. QED
    BY <1>1, <2>1 DEF Kept, TableFields
<1>2. CASE ~allocated
  <2>1. PICK n : u = [t EXCEPT !.current_nonce = Null, !.current_nonce_size = n]
    BY <1>2 DEF ra_set_current_nonce, Answer
  <2>2. QED
    BY <1>2, <2>1 DEF Kept, TableFields
<1>3. QED
  BY <1>1, <1>2

(* Two tables that differ in the prepared data only. *)
OtherData(u, t) ==
    \E data, size : u = [t EXCEPT !.prepared_data = data, !.prepared_data_size = size]

(* So does storing data, or resetting them. *)
LEMMA OtherDataKept ==
    ASSUME NEW d, NEW t, Kept(t, d), NEW u, OtherData(u, t)
    PROVE  /\ Kept(u, d)
           /\ u.current_nonce = t.current_nonce
           /\ u.current_nonce_size = t.current_nonce_size
  BY DEF Kept, TableFields, OtherData

(* Resetting is such a change. *)
LEMMA ResetIsOther ==
    ASSUME NEW d, NEW t, Kept(t, d)
    PROVE  OtherData(ra_reset_prepared_data(t), t) /\ OtherData(t, t)
<1>1. OtherData(ra_reset_prepared_data(t), t)
  BY DEF OtherData, ra_reset_prepared_data
<1>2. t = [t EXCEPT !.prepared_data = t.prepared_data,
                    !.prepared_data_size = t.prepared_data_size]
  BY DEF Kept, TableFields
<1>3. OtherData(t, t)
  BY <1>2 DEF OtherData
<1>4. QED
  BY <1>1, <1>3

(* Storing too. *)
LEMMA StoredIsOther ==
    ASSUME NEW d, NEW t, Kept(t, d), NEW buffer, NEW size, NEW allocated
    PROVE  OtherData(ra_set_prepared_data(t, buffer, size, allocated).table, t)
<1>1. CASE buffer = Null /\ size = 0
  BY <1>1, ResetIsOther DEF ra_set_prepared_data, Answer
<1>2. CASE ~(buffer = Null /\ size = 0) /\ ~allocated
  <2>1. ra_set_prepared_data(t, buffer, size, allocated).table
          = [t EXCEPT !.prepared_data = Null]
    BY <1>2 DEF ra_set_prepared_data, Answer
  <2>2. [t EXCEPT !.prepared_data = Null]
          = [t EXCEPT !.prepared_data = Null, !.prepared_data_size = t.prepared_data_size]
    BY DEF Kept, TableFields
  <2>3. QED
    BY <2>1, <2>2 DEF OtherData
<1>3. CASE ~(buffer = Null /\ size = 0) /\ allocated
  <2>1. ra_set_prepared_data(t, buffer, size, allocated).table
          = [t EXCEPT !.prepared_data = buffer, !.prepared_data_size = size]
    BY <1>3 DEF ra_set_prepared_data, Answer
  <2>2. QED
    BY <2>1 DEF OtherData
<1>4. QED
  BY <1>1, <1>2, <1>3

(* A preparation changes the prepared data only, or is undefined. *)
LEMMA PreparedIsOther ==
    ASSUME NEW d, NEW t, Kept(t, d), NEW memory, NEW fault
    PROVE  \/ PrepareData(t, memory, fault).table = Undefined
           \/ OtherData(PrepareData(t, memory, fault).table, t)
<1> DEFINE Fine(p) == p.table = Undefined \/ OtherData(p.table, t)
<1>1. \A result : Fine(Answer(result, Undefined)) /\ Fine(Answer(result, t))
                     /\ Fine(Reset(result, t))
  BY ResetIsOther DEF Answer, Reset
<1>2. \A result, buffer, size, allocated :
          Fine(Answer(result, ra_set_prepared_data(t, buffer, size, allocated).table))
  BY StoredIsOther DEF Answer
<1> HIDE DEF Fine
<1>3. \A bytes, allocated : Fine(Prepared(t, bytes, allocated))
  BY <1>1, <1>2 DEF Prepared
<1>4. \A info, allocated : Fine(PrepareDecoded(info, t, memory, allocated))
  BY <1>1, <1>3 DEF PrepareDecoded
<1>5. \A walk, area, allocated : Fine(PrepareWalk(walk, area, t, memory, allocated))
  BY <1>1, <1>3 DEF PrepareWalk
<1>6. \A info, allocated : Fine(PrepareDecoded_goldbach(info, t, memory, allocated))
  BY <1>1, <1>5 DEF PrepareDecoded_goldbach
<1>7. Fine(PrepareData(t, memory, fault))
  BY <1>1, <1>4, <1>6 DEF PrepareData, ra_prepare_data, ra_prepare_data_goldbach
<1>8. QED
  BY <1>7 DEF Fine

-----------------------------------------------------------------------------
(* Labels *)

(* Nonces are sequences of numbers. *)
LEMMA NonceFacts ==
    ASSUME NEW nonce \in AnyNonce
    PROVE  /\ nonce \in Seq(Nat) /\ Len(nonce) = NonceSize
           /\ nonce[AtGenerator] \in Nat /\ nonce[AtOffset] \in Nat /\ nonce[AtArea] \in Nat
           /\ nonce # Null
<1>1. nonce \in [1 .. 3 -> Nat]
  BY DEF AnyNonce, random_generate_nonce, NonceSize
<1>2. nonce \in Seq(Nat)
  <2>1. PICK n \in Nat : n = 3
    OBVIOUS
  <2>2. nonce \in [1 .. n -> Nat]
    BY <1>1, <2>1
  <2>3. QED
    BY <2>2, SeqDef
<1>3. nonce # Null
  BY <1>2, NoValue
<1>4. QED
  BY <1>1, <1>2, <1>3 DEF NonceSize, AtGenerator, AtOffset, AtArea

(* The place of the area that a nonce selects. *)
IndexOf(nonce, d) == (nonce[AtArea] % Len(d.areas)) + 1

(* It is a place of the list, for any nonce. *)
LEMMA IndexInRange ==
    ASSUME NEW d, Buildable(d), d.areas # <<>>, NEW nonce \in AnyNonce
    PROVE  /\ IndexOf(nonce, d) \in 1 .. Len(d.areas)
           /\ d.areas[IndexOf(nonce, d)] \in Plan
<1>1. PICK n \in Nat : n = nonce[AtArea]
  BY NonceFacts
<1>2. d.areas \in Seq(Plan)
  BY DEF Buildable
<1>3. PICK m \in Nat : m = Len(d.areas) /\ m > 0
  BY <1>2
<1>4. n % m \in Nat /\ n % m < m
  <2>1. m \in Nat \ {0} /\ n \in Int
    BY <1>3
  <2>2. QED
    BY ONLY <2>1, DivMod
<1>5. IndexOf(nonce, d) \in 1 .. Len(d.areas)
  BY <1>1, <1>3, <1>4 DEF IndexOf
<1>6. d.areas[IndexOf(nonce, d)] \in Plan
  BY <1>2, <1>5, ElementOfSeq
<1>7. QED
  BY <1>5, <1>6

(* A table that was kept selects the label of the deployment. *)
LEMMA Selects ==
    ASSUME NEW d, Buildable(d), NEW t, Kept(t, d), NEW nonce \in AnyNonce,
           t.current_nonce = nonce
    PROVE  SelectedLabel(t) = LabelOf(nonce, d)
<1>1. PICK plans \in Seq(Plan) : plans = d.areas
  BY DEF Buildable
<1>2. t.memory_areas_count = Len(plans) /\ t.areas = FilledAreas(plans)
      /\ t.head = IF plans = <<>> THEN "null" ELSE "live"
  BY <1>1 DEF Kept
<1>3. CASE plans = <<>>
  BY <1>1, <1>2, <1>3 DEF SelectedLabel, LabelOf
<1>4. CASE plans # <<>>
  <2>1. Len(plans) \in Nat /\ Len(plans) # 0
    BY <1>4
  <2>2. FilledAreas(plans) \in Seq(AnyArea) /\ Len(FilledAreas(plans)) = Len(plans)
    BY FilledAreasType
  <2>3. \A k \in 1 .. Len(plans) : FilledAreas(plans)[k] = Filled(plans[k].label, plans[k].blocks)
    BY FilledAreasType
  <2>4. \A k \in 1 .. Len(plans) : ra_mA_get_label(t.areas[k]) = plans[k].label
    <3>1. \A label, blocks : Filled(label, blocks).label = label
      BY DEF Filled
    <3>2. QED
      BY <1>2, <2>3, <3>1 DEF ra_mA_get_label
  <2>5. \A k \in 1 .. Len(plans) : plans[k] \in Plan
    BY ElementOfSeq
  <2>6. \A k \in 1 .. Len(plans) : plans[k].label \in Nat
    BY <2>5 DEF Plan
  <2>7. Walkable(t)
    BY <1>2, <1>4, <2>2 DEF Walkable
  <2>8. PICK labels : labels = ra_get_labels_list(t)
    OBVIOUS
  <2>9. labels = [k \in 1 .. Len(plans) |-> ra_mA_get_label(t.areas[k])]
    BY <1>2, <2>7, <2>8 DEF ra_get_labels_list
  <2>10. labels \in [1 .. Len(plans) -> Nat]
    BY <2>4, <2>6, <2>9
  <2>11. labels # Undefined
    <3>1. labels \in Seq(Nat)
      BY <2>1, <2>10
    <3>2. QED
      BY <3>1, NoValue
  <2>12. IndexOf(nonce, d) \in 1 .. Len(plans)
    BY <1>1, <1>4, IndexInRange
  <2>13. SelectedLabel(t) = labels[IndexOf(nonce, d)]
    BY <1>1, <1>2, <2>1, <2>8, <2>11 DEF SelectedLabel, IndexOf
  <2>14. labels[IndexOf(nonce, d)] = plans[IndexOf(nonce, d)].label
    BY <2>4, <2>9, <2>12
  <2>15. QED
    BY <1>1, <1>4, <2>13, <2>14 DEF LabelOf, IndexOf
<1>5. QED
  BY <1>3, <1>4

(* Every interpretation yields the selected label. *)
LEMMA DecodedLabel ==
    ASSUME NEW d, Buildable(d), NEW t, NEW info, info = decode_nonce(d.version, t),
           info # Undefined
    PROVE  info.area_label = SelectedLabel(t)
<1>1. \A result, label, size, actual, generator, offset :
          decoded_info(result, label, size, actual, generator, offset).area_label = label
  BY DEF decoded_info
<1>2. decode_nonce_1(t) # Undefined => decode_nonce_1(t).area_label = SelectedLabel(t)
  BY <1>1 DEF decode_nonce_1
<1>3. decode_nonce_2(t) # Undefined => decode_nonce_2(t).area_label = SelectedLabel(t)
  BY <1>1 DEF decode_nonce_2
<1>4. decode_nonce_3(t) # Undefined => decode_nonce_3(t).area_label = SelectedLabel(t)
  BY <1>1 DEF decode_nonce_3
<1>5. decode_nonce_4(t) # Undefined => decode_nonce_4(t).area_label = SelectedLabel(t)
  BY <1>1 DEF decode_nonce_4
<1>6. d.version \in 1 .. 4
  BY DEF Buildable
<1>7. QED
  BY <1>2, <1>3, <1>4, <1>5, <1>6 DEF decode_nonce

-----------------------------------------------------------------------------
(* What the extractor holds, and the rows it inserts *)

(* The places at which the extractor has a table, and a nonce. *)
HasTable == {"load_exe", "start", "check", "next", "report"} \cup Pass
HasNonce == {"set_nonce", "prepare", "insert"}

Holds(x, d) ==
    /\ x.pc \in HasTable => Kept(x.table, d)
    /\ x.pc \in HasNonce => x.current_nonce \in Nonces
    /\ x.pc \in {"prepare", "insert"} =>
          x.table.current_nonce = x.current_nonce /\ x.table.current_nonce_size = NonceSize

(* A row of the extractor: its area is the one that its nonce selects. *)
GoodRow(row, d) ==
    /\ row.nonce \in Nonces
    /\ row.memory_area = LabelOf(row.nonce, d) \/ "labels" \in row.faults

GoodRows(rows, d) ==
    /\ \E S : rows \in Seq(S)
    /\ Len(rows) >= 1 /\ rows[1] = Neighbour
    /\ \A k \in 2 .. Len(rows) : GoodRow(rows[k], d)

ExtractionInv ==
    /\ deployed \in Deployments
    /\ extractor = [f \in ExtractorFields |-> extractor[f]]
    /\ Holds(extractor, deployed)
    /\ GoodRows(ra_prepared_data, deployed)

(* The row that a step adds. *)
LEMMA GoodRowAdded ==
    ASSUME NEW d, NEW rows, GoodRows(rows, d), NEW row, GoodRow(row, d)
    PROVE  /\ GoodRows(Append(rows, row), d)
           /\ Len(Append(rows, row)) = Len(rows) + 1
           /\ \A k \in 1 .. Len(rows) : Append(rows, row)[k] = rows[k]
<1>1. PICK S : rows \in Seq(S)
  BY DEF GoodRows
<1>2. rows \in Seq(S \cup {row})
  BY <1>1, SeqMonotonic, S \subseteq S \cup {row}
<1>3. PICK more : more = Append(rows, row)
  OBVIOUS
<1>4. PICK n \in Nat : n = Len(rows)
  BY <1>1
<1>5. /\ more \in Seq(S \cup {row}) /\ Len(more) = n + 1
      /\ \A k \in 1 .. n : more[k] = rows[k]
      /\ more[n + 1] = row
  BY <1>2, <1>3, <1>4, AppendProperties
<1>6. n >= 1 /\ rows[1] = Neighbour /\ \A k \in 2 .. n : GoodRow(rows[k], d)
  BY <1>4 DEF GoodRows
<1>7. more[1] = Neighbour
  BY <1>5, <1>6
<1>8. ASSUME NEW k \in 2 .. n + 1 PROVE GoodRow(more[k], d)
  <2>1. CASE k = n + 1
    BY <1>5, <2>1
  <2>2. CASE k # n + 1
    <3>1. k \in 2 .. n /\ k \in 1 .. n
      BY <2>2
    <3>2. QED
      BY <1>5, <1>6, <3>1
  <2>3. QED
    BY <2>1, <2>2
<1>9. QED
  BY <1>3, <1>4, <1>5, <1>6, <1>7, <1>8 DEF GoodRows

(* The steps that end the process, and those of an error. *)
LEMMA EndsHolds ==
    ASSUME ExtractionInv, NEW code, NEW fault, Ends(code, fault)
    PROVE  extractor' = [f \in ExtractorFields |-> extractor'[f]] /\ Holds(extractor', deployed)
<1>1. extractor' = [f \in ExtractorFields |-> extractor'[f]] /\ extractor'.pc = "ended"
  BY DEF ExtractionInv, Ends, ExtractorFields
<1>2. QED
  BY <1>1 DEF Holds, HasTable, HasNonce, Pass

(* A failure in the loop (CountError) keeps the table it is given. *)
LEMMA ErrorHolds ==
    ASSUME ExtractionInv, NEW table, NEW again, CountError(table, again),
           Kept(table, deployed)
    PROVE  extractor' = [f \in ExtractorFields |-> extractor'[f]] /\ Holds(extractor', deployed)
<1>1. /\ extractor' = [f \in ExtractorFields |-> extractor'[f]]
      /\ extractor'.pc \in {"report", "next"} /\ extractor'.table = table
  BY DEF ExtractionInv, CountError, ExtractorFields
<1>2. QED
  BY <1>1 DEF Holds, HasNonce

(* Until the loop. *)
LEMMA BeforeHolds ==
    ASSUME ExtractionInv,
           \/ ParseArguments
           \/ \E fault \in {"none", "file"} : LoadADS(fault)
           \/ \E fault \in {"none", "file", "bfd", "format"} : LoadEXE(fault)
           \/ \E fault \in {"none", "memory", "mysql"} : StartExtraction(fault)
           \/ \E fault \in {"none", "mysql"} : CheckApplication(fault)
    PROVE  ExtractionInv'
<1> DEFINE y == extractor'
           Fine == y = [f \in ExtractorFields |-> y[f]] /\ Holds(y, deployed)
<1>1. ra_prepared_data' = ra_prepared_data /\ deployed' = deployed
  BY DEF ParseArguments, LoadADS, LoadEXE, StartExtraction, CheckApplication, LeavesServer
<1>2. ASSUME \E code, fault : Ends(code, fault) PROVE Fine
  BY <1>2, EndsHolds
<1>3. ASSUME Goto("load_ads") PROVE Fine
  <2>1. y = [f \in ExtractorFields |-> y[f]] /\ y.pc = "load_ads"
    BY <1>3 DEF Goto, ExtractionInv, ExtractorFields
  <2>2. QED
    BY <2>1 DEF Holds, HasTable, HasNonce, Pass
<1>4. ASSUME NEW label \in {"start", "check", "loop"}, NEW memory, NEW id,
             extractor.pc \in HasTable,
             y = [extractor EXCEPT !.pc = label, !.memory = memory, !.attestator_id = id]
      PROVE  Fine
  <2>1. y = [f \in ExtractorFields |-> y[f]] /\ y.pc = label /\ y.table = extractor.table
    BY <1>4 DEF ExtractionInv, ExtractorFields
  <2>2. Kept(y.table, deployed)
    BY <1>4, <2>1 DEF ExtractionInv, Holds
  <2>3. QED
    BY <2>1, <2>2 DEF Holds, HasNonce
<1> HIDE DEF Fine
<1>5. ASSUME ParseArguments PROVE Fine
  BY <1>2, <1>3, <1>5 DEF ParseArguments
<1>6. ASSUME \E fault \in {"none", "file"} : LoadADS(fault) PROVE Fine
  <2>1. PICK fault : LoadADS(fault)
    BY <1>6
  <2>2. PICK table : table = ra_parse_binary_ads(ads)
    OBVIOUS
  <2>3. \/ \E code : Ends(code, fault)
        \/ table # Null /\ y = [extractor EXCEPT !.pc = "load_exe", !.table = table]
    BY <2>1, <2>2 DEF LoadADS
  <2>4. CASE table # Null /\ y = [extractor EXCEPT !.pc = "load_exe", !.table = table]
    <3>1. Kept(table, deployed)
      BY <2>2, <2>4, ParsedTable DEF ExtractionInv
    <3>2. y = [f \in ExtractorFields |-> y[f]] /\ y.pc = "load_exe" /\ y.table = table
      BY <2>4 DEF ExtractionInv, ExtractorFields
    <3>3. QED
      BY <3>1, <3>2 DEF Fine, Holds, HasNonce
  <2>5. QED
    BY <1>2, <2>3, <2>4
<1>7. ASSUME \E fault \in {"none", "file", "bfd", "format"} : LoadEXE(fault) PROVE Fine
  <2>1. extractor.pc \in HasTable
    BY <1>7 DEF LoadEXE, At, HasTable
  <2>2. \/ \E code, fault : Ends(code, fault)
        \/ \E memory : y = [extractor EXCEPT !.pc = "start", !.memory = memory]
    BY <1>7 DEF LoadEXE
  <2>3. CASE \E memory : y = [extractor EXCEPT !.pc = "start", !.memory = memory]
    <3>1. PICK memory : y = [extractor EXCEPT !.pc = "start", !.memory = memory]
      BY <2>3
    <3>2. y = [extractor EXCEPT !.pc = "start", !.memory = memory,
                                !.attestator_id = extractor.attestator_id]
      BY <3>1 DEF ExtractionInv, ExtractorFields
    <3>3. QED
      BY <1>4, <2>1, <3>2
  <2>4. QED
    BY <1>2, <2>2, <2>3
<1>8. ASSUME \E fault \in {"none", "memory", "mysql"} : StartExtraction(fault) PROVE Fine
  <2>1. extractor.pc \in HasTable
    BY <1>8 DEF StartExtraction, At, HasTable
  <2>2. \/ \E code, fault : Ends(code, fault)
        \/ Goto("check")
    BY <1>8 DEF StartExtraction
  <2>3. CASE Goto("check")
    <3>1. y = [extractor EXCEPT !.pc = "check", !.memory = extractor.memory,
                                !.attestator_id = extractor.attestator_id]
      BY <2>3 DEF Goto, ExtractionInv, ExtractorFields
    <3>2. QED
      BY <1>4, <2>1, <3>1
  <2>4. QED
    BY <1>2, <2>2, <2>3
<1>9. ASSUME \E fault \in {"none", "mysql"} : CheckApplication(fault) PROVE Fine
  <2>1. extractor.pc \in HasTable
    BY <1>9 DEF CheckApplication, At, HasTable
  <2>2. \/ \E code, fault : Ends(code, fault)
        \/ \E id : y = [extractor EXCEPT !.pc = "loop", !.attestator_id = id]
    BY <1>9 DEF CheckApplication
  <2>3. CASE \E id : y = [extractor EXCEPT !.pc = "loop", !.attestator_id = id]
    <3>1. PICK id : y = [extractor EXCEPT !.pc = "loop", !.attestator_id = id]
      BY <2>3
    <3>2. y = [extractor EXCEPT !.pc = "loop", !.memory = extractor.memory,
                                !.attestator_id = id]
      BY <3>1 DEF ExtractionInv, ExtractorFields
    <3>3. QED
      BY <1>4, <2>1, <3>2
  <2>4. QED
    BY <1>2, <2>2, <2>3
<1>10. Fine
  BY <1>5, <1>6, <1>7, <1>8, <1>9
<1>11. QED
  BY <1>1, <1>10 DEF Fine, ExtractionInv

(* A pass up to the preparation, and the end. *)
LEMMA PassHolds ==
    ASSUME ExtractionInv,
           \/ GenerateNonce \/ GenerateNonceFails \/ NextPass \/ Report
           \/ \E fault \in {"none", "nonce"} : SetNonce(fault)
           \/ \E fault \in {"none", "labels", "buffer", "data", "store"} : Prepare(fault)
    PROVE  ExtractionInv'
<1> DEFINE x == extractor
           y == extractor'
           Fine == y = [f \in ExtractorFields |-> y[f]] /\ Holds(y, deployed)
<1>1. ra_prepared_data' = ra_prepared_data /\ deployed' = deployed
  BY DEF GenerateNonce, GenerateNonceFails, NextPass, Report, SetNonce, Prepare, LeavesServer
<1>2. /\ deployed \in Deployments
      /\ x = [f \in ExtractorFields |-> x[f]]
      /\ x.pc \in HasTable => Kept(x.table, deployed)
      /\ x.pc \in HasNonce => x.current_nonce \in Nonces
      /\ x.pc \in {"prepare", "insert"} =>
            x.table.current_nonce = x.current_nonce /\ x.table.current_nonce_size = NonceSize
  BY DEF ExtractionInv, Holds
<1>3. ASSUME GenerateNonce PROVE Fine
  <2>1. Kept(x.table, deployed)
    BY <1>2, <1>3 DEF GenerateNonce, InLoop, At, HasTable, Pass
  <2>2. PICK nonce \in Nonces : y = [x EXCEPT !.pc = "set_nonce", !.current_nonce = nonce]
    BY <1>3 DEF GenerateNonce
  <2>3. /\ y = [f \in ExtractorFields |-> y[f]] /\ y.pc = "set_nonce"
        /\ y.current_nonce = nonce /\ y.table = x.table
    BY <1>2, <2>2 DEF ExtractorFields
  <2>4. QED
    BY <2>1, <2>3 DEF Holds
<1>4. ASSUME GenerateNonceFails PROVE Fine
  <2>1. Kept(x.table, deployed) /\ CountError(x.table, TRUE)
    BY <1>2, <1>4 DEF GenerateNonceFails, InLoop, At, HasTable, Pass
  <2>2. QED
    BY <2>1, ErrorHolds
<1>5. ASSUME NextPass PROVE Fine
  <2>1. Kept(x.table, deployed)
    BY <1>2, <1>5 DEF NextPass, At, HasTable
  <2>2. y = [f \in ExtractorFields |-> y[f]] /\ y.pc = "loop" /\ y.table = x.table
    BY <1>2, <1>5 DEF NextPass, ExtractorFields
  <2>3. QED
    BY <2>1, <2>2 DEF Holds, HasNonce
<1>6. ASSUME Report PROVE Fine
  BY <1>6, EndsHolds DEF Report
<1>7. ASSUME \E fault \in {"none", "nonce"} : SetNonce(fault) PROVE Fine
  <2>1. PICK fault \in {"none", "nonce"} : SetNonce(fault)
    BY <1>7
  <2>2. Kept(x.table, deployed) /\ x.current_nonce \in Nonces
    BY <1>2, <2>1 DEF SetNonce, At, HasTable, Pass, HasNonce
  <2>3. PICK allocated \in BOOLEAN : allocated = (fault # "nonce")
    OBVIOUS
  <2>4. PICK u : u = ra_set_current_nonce(x.table, x.current_nonce, NonceSize, allocated).table
    OBVIOUS
  <2>5. /\ Kept(u, deployed)
        /\ allocated => u.current_nonce = x.current_nonce /\ u.current_nonce_size = NonceSize
    BY <2>2, <2>4, NonceSet
  <2>6. ~allocated =>
          ra_set_current_nonce(x.table, x.current_nonce, NonceSize, allocated).result
             # "RA_SUCCESS"
    BY DEF ra_set_current_nonce, Answer
  <2>7. \/ CountError(u, FALSE)
        \/ allocated /\ y = [x EXCEPT !.pc = "prepare", !.table = u]
    BY <2>1, <2>3, <2>4, <2>6 DEF SetNonce
  <2>8. CASE CountError(u, FALSE)
    BY <2>5, <2>8, ErrorHolds
  <2>9. CASE allocated /\ y = [x EXCEPT !.pc = "prepare", !.table = u]
    <3>1. /\ y = [f \in ExtractorFields |-> y[f]] /\ y.pc = "prepare"
          /\ y.current_nonce = x.current_nonce /\ y.table = u
      BY <1>2, <2>9 DEF ExtractorFields
    <3>2. QED
      BY <2>2, <2>5, <2>9, <3>1 DEF Holds
  <2>10. QED
    BY <2>7, <2>8, <2>9
<1>8. ASSUME \E fault \in {"none", "labels", "buffer", "data", "store"} : Prepare(fault)
      PROVE  Fine
  <2>1. PICK fault : Prepare(fault)
    BY <1>8
  <2>2. /\ Kept(x.table, deployed) /\ x.current_nonce \in Nonces
        /\ x.table.current_nonce = x.current_nonce /\ x.table.current_nonce_size = NonceSize
    BY <1>2, <2>1 DEF Prepare, At, HasTable, Pass, HasNonce
  <2>3. PICK u : u = PrepareData(x.table, x.memory, fault).table
    OBVIOUS
  <2>4. \/ Ends(Undefined, fault)
        \/ u # Undefined /\ CountError(u, TRUE)
        \/ u # Undefined /\ y = [x EXCEPT !.pc = "insert", !.table = u, !.fault = fault]
    BY <2>1, <2>3 DEF Prepare
  <2>5. ASSUME u # Undefined
        PROVE  /\ Kept(u, deployed) /\ u.current_nonce = x.current_nonce
               /\ u.current_nonce_size = NonceSize
    <3>1. OtherData(u, x.table)
      BY <2>2, <2>3, <2>5, PreparedIsOther
    <3>2. QED
      BY <2>2, <3>1, OtherDataKept
  <2>6. CASE Ends(Undefined, fault)
    BY <2>6, EndsHolds
  <2>7. CASE u # Undefined /\ CountError(u, TRUE)
    BY <2>5, <2>7, ErrorHolds
  <2>8. CASE u # Undefined /\ y = [x EXCEPT !.pc = "insert", !.table = u, !.fault = fault]
    <3>1. /\ y = [f \in ExtractorFields |-> y[f]] /\ y.pc = "insert"
          /\ y.current_nonce = x.current_nonce /\ y.table = u
      BY <1>2, <2>8 DEF ExtractorFields
    <3>2. QED
      BY <2>2, <2>5, <2>8, <3>1 DEF Holds
  <2>9. QED
    BY <2>4, <2>6, <2>7, <2>8
<1> HIDE DEF Fine
<1>9. Fine
  BY <1>3, <1>4, <1>5, <1>6, <1>7, <1>8
<1>10. QED
  BY <1>1, <1>9 DEF Fine, ExtractionInv

(* What an insertion does. *)
LEMMA InsertDoes ==
    ASSUME NEW fault, Insert(fault)
    PROVE  /\ extractor.pc = "insert" /\ deployed' = deployed /\ client' = client
           /\ ra_request' = ra_request /\ message' = message /\ ra_reaction' = ra_reaction
           /\ \/ /\ \E why : /\ Ends(Undefined, why)
                              /\ \/ why = "query"
                                 \/ /\ why = extractor.fault
                                    /\ \/ DataOf(extractor.table) = Undefined
                                       \/ decode_nonce(deployed.version, extractor.table)
                                            = Undefined
                 /\ ra_prepared_data' = ra_prepared_data
              \/ /\ CountError(extractor.table, TRUE) /\ ra_prepared_data' = ra_prepared_data
                 /\ DataOf(extractor.table) # Undefined
              \/ \E memory_area :
                    /\ Goto("next")
                    /\ DataOf(extractor.table) # Undefined
                    /\ decode_nonce(deployed.version, extractor.table) # Undefined
                    /\ fault = "labels"
                         \/ memory_area = decode_nonce(deployed.version, extractor.table).area_label
                    /\ ra_prepared_data' = Append(ra_prepared_data,
                         [attestator_id |-> extractor.attestator_id,
                          nonce |-> extractor.current_nonce, data |-> DataOf(extractor.table),
                          memory_area |-> memory_area, faults |-> {extractor.fault, fault}])
  BY DEF Insert, At, serverVars, Labelled

(* An insertion. *)
LEMMA InsertHolds ==
    ASSUME ExtractionInv, NEW fault, Insert(fault)
    PROVE  ExtractionInv'
<1> DEFINE x == extractor
           y == extractor'
<1>1. /\ deployed \in Deployments
      /\ x = [f \in ExtractorFields |-> x[f]]
      /\ Kept(x.table, deployed) /\ x.current_nonce \in Nonces
      /\ x.table.current_nonce = x.current_nonce
  BY InsertDoes DEF ExtractionInv, Holds, HasTable, Pass, HasNonce
<1>2. deployed' = deployed
  BY InsertDoes
<1>3. CASE (\E why : Ends(Undefined, why)) /\ ra_prepared_data' = ra_prepared_data
  BY <1>2, <1>3, EndsHolds DEF ExtractionInv
<1>4. CASE CountError(x.table, TRUE) /\ ra_prepared_data' = ra_prepared_data
  BY <1>1, <1>2, <1>4, ErrorHolds DEF ExtractionInv
<1>5. ASSUME NEW memory_area, Goto("next"),
             decode_nonce(deployed.version, extractor.table) # Undefined,
             fault = "labels"
                \/ memory_area = decode_nonce(deployed.version, extractor.table).area_label,
             ra_prepared_data' = Append(ra_prepared_data,
                 [attestator_id |-> extractor.attestator_id,
                  nonce |-> extractor.current_nonce, data |-> DataOf(extractor.table),
                  memory_area |-> memory_area, faults |-> {extractor.fault, fault}])
      PROVE  ExtractionInv'
  <2>1. PICK row : row = [attestator_id |-> x.attestator_id,
                  nonce |-> x.current_nonce, data |-> DataOf(x.table),
                  memory_area |-> memory_area, faults |-> {x.fault, fault}]
    OBVIOUS
  <2>2. PICK info : info = decode_nonce(deployed.version, x.table)
    OBVIOUS
  <2>3. info.area_label = LabelOf(x.current_nonce, deployed)
    <3>1. info.area_label = SelectedLabel(x.table)
      BY <1>1, <1>5, <2>2, DecodedLabel, ConstantFacts
    <3>2. x.current_nonce \in AnyNonce /\ Buildable(deployed)
      BY <1>1, ConstantFacts
    <3>3. QED
      BY <1>1, <3>1, <3>2, Selects
  <2>4. GoodRow(row, deployed)
    <3>1. row.nonce = x.current_nonce /\ row.memory_area = memory_area
          /\ row.faults = {x.fault, fault}
      BY <2>1
    <3>2. QED
      BY <1>1, <1>5, <2>2, <2>3, <3>1 DEF GoodRow
  <2>5. GoodRows(Append(ra_prepared_data, row), deployed)
    BY <2>4, GoodRowAdded DEF ExtractionInv
  <2>6. GoodRows(ra_prepared_data', deployed)
    BY <1>5, <2>1, <2>5
  <2>7. y = [f \in ExtractorFields |-> y[f]] /\ y.pc = "next" /\ y.table = x.table
    BY <1>1, <1>5 DEF Goto, ExtractorFields
  <2>8. Holds(y, deployed)
    BY <1>1, <2>7 DEF Holds, HasNonce
  <2>9. QED
    BY <1>1, <1>2, <2>6, <2>7, <2>8 DEF ExtractionInv
<1>6. QED
  BY <1>3, <1>4, <1>5, InsertDoes

(* Attestations read only. *)
LEMMA AttestationsRead ==
    ASSUME Attestations
    PROVE  UNCHANGED <<deployed, extractor, ra_prepared_data>>
<1>1. CASE ServeClient
  BY <1>1 DEF ServeClient, Issue
<1>2. CASE \E row \in Directory.startup : AttestAtStartup(row.memory_area)
  BY <1>2 DEF AttestAtStartup, Issue
<1>3. CASE \E t \in Tampered : Tamper(t)
  BY <1>3 DEF Tamper
<1>4. CASE \E fault : Attest(fault)
  BY <1>4 DEF Attest
<1>5. CASE \E fault : ForwardResponse(fault)
  BY <1>5 DEF ForwardResponse
<1>6. CASE \E fault : Verify(fault)
  BY <1>6 DEF Verify
<1>7. QED
  BY <1>1, <1>2, <1>3, <1>4, <1>5, <1>6 DEF Attestations

(* The steps of the extractor leave the server and the client alone. *)
LEMMA ExtractorLeaves ==
    ASSUME ExtractionInv, Extractor
    PROVE  /\ UNCHANGED <<deployed, client, serverVars>>
           /\ \/ ra_prepared_data' = ra_prepared_data
              \/ \E row : ra_prepared_data' = Append(ra_prepared_data, row)
           /\ extractor.pc # "ended"
<1>1. CASE \E fault : Insert(fault)
  <2>1. PICK fault : Insert(fault)
    BY <1>1
  <2>2. QED
    BY <2>1, InsertDoes DEF serverVars
<1>2. CASE ParseArguments \/ (\E fault : LoadADS(fault)) \/ (\E fault : LoadEXE(fault))
             \/ (\E fault : StartExtraction(fault)) \/ (\E fault : CheckApplication(fault))
             \/ GenerateNonce \/ GenerateNonceFails \/ NextPass
             \/ (\E fault : SetNonce(fault)) \/ (\E fault : Prepare(fault)) \/ Report
  BY <1>2 DEF ParseArguments, LoadADS, LoadEXE, StartExtraction, CheckApplication,
     GenerateNonce, GenerateNonceFails, InLoop, NextPass, SetNonce, Prepare, Report, LeavesServer, At
<1>3. QED
  BY <1>1, <1>2 DEF Extractor

(* It holds before the extractor starts. *)
LEMMA ExtractionInit == ASSUME Init PROVE ExtractionInv
<1>1. extractor = [f \in ExtractorFields |-> extractor[f]] /\ extractor.pc = "arguments"
  BY DEF Init, ExtractorFields
<1>2. Holds(extractor, deployed)
  BY <1>1 DEF Holds, HasTable, HasNonce, Pass
<1>3. ra_prepared_data \in Seq({Neighbour}) /\ Len(ra_prepared_data) = 1
      /\ ra_prepared_data[1] = Neighbour
  BY DEF Init
<1>4. GoodRows(ra_prepared_data, deployed)
  BY <1>3 DEF GoodRows
<1>5. QED
  BY <1>1, <1>2, <1>4 DEF Init, ExtractionInv

(* The tables of the extractor and its rows, at every step. *)
LEMMA ExtractionStep == ASSUME ExtractionInv, [Next]_vars PROVE ExtractionInv'
<1>1. CASE Extractor
  BY <1>1, BeforeHolds, PassHolds, InsertHolds DEF Extractor
<1>2. CASE Attestations
  BY <1>2, AttestationsRead DEF ExtractionInv
<1>3. CASE UNCHANGED vars
  BY <1>3 DEF vars, ExtractionInv
<1>4. QED
  BY <1>1, <1>2, <1>3 DEF Next

-----------------------------------------------------------------------------
(* Primes *)

(* The largest prime up to a number. *)
LastPrime(p, n) == IsPrime(p) /\ \A q \in (p + 1) .. n : ~IsPrime(q)

(* closest_prime yields it, from 2 on. *)
LEMMA ClosestPrime ==
    ASSUME NEW n \in Nat, n >= 2
    PROVE  /\ closest_prime(n) \in 2 .. n
           /\ LastPrime(closest_prime(n), n)
           /\ LargestPrime(n) = closest_prime(n)
           /\ closest_prime(n) # Failed
<1> DEFINE D == {m \in Nat : m <= n - 2 /\ IsPrime(n - m)}
<1>1. IsPrime(2)
  BY DEF IsPrime
<1>2. n - 2 \in D
  <2>1. n - 2 \in Nat /\ n - (n - 2) = 2
    OBVIOUS
  <2>2. QED
    BY <1>1, <2>1
<1>3. PICK m \in D : \A k \in D : m <= k
  BY <1>2, LeastNumber, D \in SUBSET Nat
<1>4. n - m \in 2 .. n /\ IsPrime(n - m)
  BY <1>3
<1>5. ASSUME NEW q \in ((n - m) + 1) .. n PROVE ~IsPrime(q)
  <2>1. n - q \in Nat /\ ~(m <= n - q) /\ n - q <= n - 2 /\ n - (n - q) = q
    BY <1>4
  <2>2. n - q \notin D
    BY <1>3, <2>1
  <2>3. QED
    BY <2>1, <2>2
<1>6. \E p \in 2 .. n : LastPrime(p, n)
  BY <1>4, <1>5 DEF LastPrime
<1>7. closest_prime(n) = CHOOSE p \in 2 .. n : LastPrime(p, n)
  BY DEF closest_prime, LastPrime
<1>8. closest_prime(n) \in 2 .. n /\ LastPrime(closest_prime(n), n)
  BY <1>6, <1>7
<1>9. LargestPrime(n) = CHOOSE p \in 2 .. n : LastPrime(p, n)
  BY <1>4 DEF LargestPrime, LastPrime
<1>10. closest_prime(n) # Failed
  BY <1>8, PointerAssumption
<1>11. QED
  BY <1>7, <1>8, <1>9, <1>10

-----------------------------------------------------------------------------
(* Interpretations *)

PlanOf(nonce, d) == d.areas[IndexOf(nonce, d)]
SizeOf(nonce, d) == BytesOf(PlanOf(nonce, d).blocks)

(* The sizes of areas are numbers. *)
LEMMA BytesOfType ==
    ASSUME NEW blocks \in Seq(AnyBlock)
    PROVE  BytesOf(blocks) \in Nat
<1>1. \A b \in AnyBlock : b.size \in Nat
  BY DEF AnyBlock, memory_block_t
<1>2. PICK b \in AnyBlock : TRUE
  <2>1. [offset |-> 0, size |-> 0] \in AnyBlock
    BY DEF AnyBlock, memory_block_t
  <2>2. QED
    BY <2>1
<1>3. QED
  BY <1>1, <1>2, BytesOfAppend

(* The area that a nonce selects. *)
LEMMA PlanFacts ==
    ASSUME NEW d, Buildable(d), d.areas # <<>>, NEW nonce \in AnyNonce
    PROVE  /\ PlanOf(nonce, d).label = LabelOf(nonce, d)
           /\ PlanOf(nonce, d).label \in Nat
           /\ PlanOf(nonce, d).blocks \in Seq(AnyBlock)
           /\ SizeOf(nonce, d) \in Nat
<1>1. PlanOf(nonce, d) \in Plan
  BY IndexInRange DEF PlanOf
<1>2. PlanOf(nonce, d).label \in Nat /\ PlanOf(nonce, d).blocks \in Seq(AnyBlock)
  BY <1>1 DEF Plan
<1>3. PlanOf(nonce, d).label = LabelOf(nonce, d)
  BY DEF PlanOf, LabelOf, IndexOf
<1>4. SizeOf(nonce, d) \in Nat
  BY <1>2, BytesOfType DEF SizeOf
<1>5. QED
  BY <1>2, <1>3, <1>4

(* The search by its label finds it. *)
LEMMA AreaFound ==
    ASSUME NEW d, Buildable(d), d.areas # <<>>, NEW nonce \in AnyNonce, NEW t, Kept(t, d)
    PROVE  ra_get_memory_area(t, LabelOf(nonce, d))
             = Filled(PlanOf(nonce, d).label, PlanOf(nonce, d).blocks)
<1>1. PICK plans \in Seq(Plan) : plans = d.areas
  BY DEF Buildable
<1>2. PICK areas : areas = FilledAreas(plans)
  OBVIOUS
<1>3. areas \in Seq(AnyArea) /\ Len(areas) = Len(plans)
  BY <1>2, FilledAreasType
<1>4. \A k \in 1 .. Len(plans) : areas[k] = Filled(plans[k].label, plans[k].blocks)
  BY <1>2, FilledAreasType
<1>5. \A label, blocks : Filled(label, blocks).label = label
  BY DEF Filled
<1>6. \A k \in 1 .. Len(plans) : areas[k].label = plans[k].label
  BY <1>4, <1>5
<1>7. PICK i \in 1 .. Len(plans) : i = IndexOf(nonce, d)
  BY <1>1, IndexInRange
<1>8. PICK label : label = LabelOf(nonce, d)
  OBVIOUS
<1>9. plans[i].label = label
  BY <1>1, <1>7, <1>8 DEF LabelOf, IndexOf
<1>10. PICK p : p = LabelPlace(areas, label)
  OBVIOUS
<1>11. /\ p \in 0 .. Len(areas)
       /\ p # 0 => areas[p].label = label
       /\ p = 0 => \A k \in 1 .. Len(areas) : areas[k].label # label
  BY <1>3, <1>10, LabelPlaceFacts
<1>12. p \in 1 .. Len(plans)
  BY <1>3, <1>6, <1>7, <1>9, <1>11
<1>13. plans[p].label = label
  BY <1>6, <1>11, <1>12
<1>14. p = i
  <2>1. NoLabelTwice(plans)
    BY <1>1 DEF Kept
  <2>2. QED
    BY <1>7, <1>9, <1>12, <1>13, <2>1 DEF NoLabelTwice, DistinctLabels
<1>15. ra_get_memory_area(t, label) = areas[p]
  <2>1. t.head # "freed" /\ t.areas = areas
    BY <1>1, <1>2 DEF Kept
  <2>2. p # 0
    BY <1>12
  <2>3. QED
    BY <1>10, <2>1, <2>2 DEF ra_get_memory_area, LabelPlace
<1>16. QED
  BY <1>1, <1>4, <1>7, <1>8, <1>14, <1>15 DEF PlanOf

(* Can the nonce be decoded?  What it then yields. *)
Decodable(nonce, d) ==
    /\ d.areas # <<>> /\ SizeOf(nonce, d) >= 2
    /\ d.version = 4 => closest_prime(SizeOf(nonce, d)) >= 3

WindowOf(nonce, d) ==
    IF d.version \in {1, 4} THEN closest_prime(SizeOf(nonce, d)) ELSE SizeOf(nonce, d)

StepOf(nonce, d) ==
    LET prime == closest_prime(SizeOf(nonce, d)) IN
    IF d.version = 1 THEN AtLeastTwo(nonce[AtGenerator] % prime)
    ELSE IF d.version = 4 THEN AtLeastTwo(closest_prime(prime - 1))
    ELSE AtLeastTwo(prime)

OffsetOf(nonce, d) ==
    IF d.version # 1 \/ SizeOf(nonce, d) = WindowOf(nonce, d) THEN 0
    ELSE nonce[AtOffset] % (SizeOf(nonce, d) - WindowOf(nonce, d))

InfoOf(nonce, d) ==
    decoded_info("RA_SUCCESS", LabelOf(nonce, d), SizeOf(nonce, d), WindowOf(nonce, d),
                 StepOf(nonce, d), OffsetOf(nonce, d))

Hopeless(nonce, d) == d.areas = <<>> \/ (d.version = 1 /\ SizeOf(nonce, d) < 2)

DecodesTo(info, nonce, d) ==
    /\ Decodable(nonce, d) => info = InfoOf(nonce, d) /\ info # Undefined
    /\ ~Decodable(nonce, d) =>
          \/ info = Undefined /\ Hopeless(nonce, d)
          \/ info # Undefined /\ info.result = "RA_ERROR_GENERIC"

(* The numbers in what is decoded. *)
LEMMA InfoNumbers ==
    ASSUME NEW d, Buildable(d), NEW nonce \in AnyNonce, Decodable(nonce, d)
    PROVE  /\ SizeOf(nonce, d) \in Nat /\ WindowOf(nonce, d) \in 2 .. SizeOf(nonce, d)
           /\ StepOf(nonce, d) \in Nat /\ StepOf(nonce, d) >= 2
           /\ OffsetOf(nonce, d) \in Nat
           /\ OffsetOf(nonce, d) + WindowOf(nonce, d) <= SizeOf(nonce, d)
<1>1. PICK n \in Nat : n = SizeOf(nonce, d) /\ n >= 2
  BY PlanFacts DEF Decodable
<1>2. PICK p \in 2 .. n : p = closest_prime(n)
  BY <1>1, ClosestPrime
<1>3. PICK a \in Nat, b \in Nat : a = nonce[AtGenerator] /\ b = nonce[AtOffset]
  BY NonceFacts
<1>4. \A g \in Nat : AtLeastTwo(g) \in Nat /\ AtLeastTwo(g) >= 2
  BY DEF AtLeastTwo
<1>5. WindowOf(nonce, d) \in 2 .. n
  BY <1>1, <1>2 DEF WindowOf
<1>6. StepOf(nonce, d) \in Nat /\ StepOf(nonce, d) >= 2
  <2>1. CASE d.version = 1
    <3>1. a % p \in Nat
      <4>1. p \in Nat \ {0} /\ a \in Int
        BY <1>2
      <4>2. QED
        BY ONLY <4>1, DivMod
    <3>2. QED
      BY <1>1, <1>2, <1>3, <1>4, <2>1, <3>1 DEF StepOf
  <2>2. CASE d.version = 4
    <3>1. p - 1 \in Nat /\ p - 1 >= 2
      BY <1>1, <1>2, <2>2 DEF Decodable
    <3>2. closest_prime(p - 1) \in Nat
      <4>1. PICK m \in Nat : m = p - 1 /\ m >= 2
        BY <3>1
      <4>2. closest_prime(m) \in 2 .. m
        BY <4>1, ClosestPrime
      <4>3. QED
        BY <4>1, <4>2
    <3>3. QED
      BY <1>1, <1>2, <1>4, <2>2, <3>2 DEF StepOf
  <2>3. CASE d.version # 1 /\ d.version # 4
    BY <1>1, <1>2, <1>4, <2>3 DEF StepOf
  <2>4. QED
    BY <2>1, <2>2, <2>3
<1>7. OffsetOf(nonce, d) \in Nat /\ OffsetOf(nonce, d) + WindowOf(nonce, d) <= n
  <2>1. CASE d.version # 1 \/ n = WindowOf(nonce, d)
    BY <1>1, <1>5, <2>1 DEF OffsetOf
  <2>2. CASE ~(d.version # 1 \/ n = WindowOf(nonce, d))
    <3>1. PICK m \in Nat \ {0} : m = n - WindowOf(nonce, d)
      BY <1>5, <2>2
    <3>2. b % m \in Nat /\ b % m < m
      <4>1. b \in Int
        OBVIOUS
      <4>2. QED
        BY ONLY <4>1, DivMod
    <3>3. OffsetOf(nonce, d) = b % m
      BY <1>1, <1>3, <2>2, <3>1 DEF OffsetOf
    <3>4. QED
      BY <1>5, <3>1, <3>2, <3>3
  <2>3. QED
    BY <2>1, <2>2
<1>8. QED
  BY <1>1, <1>5, <1>6, <1>7

(* So does every interpretation. *)
LEMMA DecodeIs ==
    ASSUME NEW d, Buildable(d), NEW nonce \in AnyNonce, NEW t, Kept(t, d),
           t.current_nonce = nonce
    PROVE  DecodesTo(decode_nonce(d.version, t), nonce, d)
<1>1. SelectedLabel(t) = LabelOf(nonce, d)
  BY Selects
<1>2. d.version \in 1 .. 4
  BY DEF Buildable
<1>3. CASE d.areas = <<>>
  <2>1. Broken(t)
    BY <1>1, <1>3 DEF Broken, LabelOf
  <2>2. decode_nonce(d.version, t) = Undefined
    BY <1>2, <2>1 DEF decode_nonce, decode_nonce_1, decode_nonce_2, decode_nonce_3,
       decode_nonce_4
  <2>3. ~Decodable(nonce, d)
    BY <1>3 DEF Decodable
  <2>4. Hopeless(nonce, d)
    BY <1>3 DEF Hopeless
  <2>5. QED
    BY <2>2, <2>3, <2>4 DEF DecodesTo
<1>4. CASE d.areas # <<>>
  <2>1. PICK label \in Nat : label = LabelOf(nonce, d)
    BY <1>4, PlanFacts
  <2>2. ~Broken(t)
    BY <1>1, <2>1, PointerAssumption DEF Broken
  <2>3. PICK n \in Nat : n = SizeOf(nonce, d)
    BY <1>4, PlanFacts
  <2>4. SelectedSize(t) = n
    <3>1. ra_get_memory_area(t, LabelOf(nonce, d))
             = Filled(PlanOf(nonce, d).label, PlanOf(nonce, d).blocks)
      BY <1>4, AreaFound
    <3>2. \A l, b : Filled(l, b).total_size = BytesOf(b)
      BY DEF Filled
    <3>3. QED
      BY <1>1, <2>3, <3>1, <3>2 DEF SelectedSize, ra_mA_get_total_size, SizeOf
  <2>5. \A result \in {"RA_SUCCESS", "RA_ERROR_GENERIC"}, actual \in Nat \cup {Undefined},
           generator \in Nat \cup {Undefined}, offset \in Nat \cup {Undefined} :
             /\ decoded_info(result, label, n, actual, generator, offset) # Undefined
             /\ decoded_info(result, label, n, actual, generator, offset).result = result
    BY DecodingAssumption DEF decoded_info
  <2>6. CASE n < 2
    <3>1. closest_prime(n) = Failed
      BY <2>6 DEF closest_prime
    <3>2. ~Decodable(nonce, d)
      BY <2>3, <2>6 DEF Decodable
    <3>3. CASE d.version = 1
      <4>1. decode_nonce(d.version, t) = Undefined
        BY <2>4, <3>1, <3>3 DEF decode_nonce, decode_nonce_1
      <4>2. QED
        BY <2>3, <2>6, <3>2, <3>3, <4>1 DEF DecodesTo, Hopeless
    <3>4. CASE d.version \in {2, 3}
      <4>1. decode_nonce(d.version, t)
              = decoded_info("RA_ERROR_GENERIC", label, n, n, Undefined, 0)
        BY <1>1, <2>1, <2>2, <2>4, <3>1, <3>4 DEF decode_nonce, decode_nonce_2, decode_nonce_3
      <4>2. LET info == decoded_info("RA_ERROR_GENERIC", label, n, n, Undefined, 0)
            IN  info # Undefined /\ info.result = "RA_ERROR_GENERIC"
        BY <2>5
      <4>3. QED
        BY <3>2, <4>1, <4>2 DEF DecodesTo
    <3>5. CASE d.version = 4
      <4>1. decode_nonce(d.version, t)
              = decoded_info("RA_ERROR_GENERIC", label, n, Undefined, Undefined, Undefined)
        BY <1>1, <2>1, <2>2, <2>4, <3>1, <3>5 DEF decode_nonce, decode_nonce_4
      <4>2. LET info == decoded_info("RA_ERROR_GENERIC", label, n, Undefined, Undefined, Undefined)
            IN  info # Undefined /\ info.result = "RA_ERROR_GENERIC"
        BY <2>5
      <4>3. QED
        BY <3>2, <4>1, <4>2 DEF DecodesTo
    <3>6. QED
      BY <1>2, <3>3, <3>4, <3>5
  <2>7. CASE n >= 2
    <3>1. PICK p \in 2 .. n : p = closest_prime(n) /\ p # Failed
      BY <2>7, ClosestPrime
    <3>2. PICK w : w = WindowOf(nonce, d)
      OBVIOUS
    <3>3. PICK g : g = StepOf(nonce, d)
      OBVIOUS
    <3>4. PICK o : o = OffsetOf(nonce, d)
      OBVIOUS
    <3>5. InfoOf(nonce, d) = decoded_info("RA_SUCCESS", label, n, w, g, o)
      BY <2>1, <2>3, <3>2, <3>3, <3>4 DEF InfoOf
    <3>6. Decodable(nonce, d) => w \in Nat /\ g \in Nat /\ o \in Nat
      BY <3>2, <3>3, <3>4, InfoNumbers
    <3>7. Decodable(nonce, d) => InfoOf(nonce, d) # Undefined
      BY <2>5, <3>5, <3>6
    <3>8. CASE d.version = 1
      <4>1. Decodable(nonce, d)
        BY <1>4, <2>3, <2>7, <3>8 DEF Decodable
      <4>2. w = p /\ g = AtLeastTwo(nonce[AtGenerator] % p)
            /\ o = IF n = p THEN 0 ELSE nonce[AtOffset] % (n - p)
        BY <2>3, <3>1, <3>2, <3>3, <3>4, <3>8 DEF WindowOf, StepOf, OffsetOf
      <4>3. decode_nonce(d.version, t) = InfoOf(nonce, d)
        BY <1>1, <2>1, <2>2, <2>4, <3>1, <3>5, <3>8, <4>2 DEF decode_nonce, decode_nonce_1
      <4>4. QED
        BY <3>7, <4>1, <4>3 DEF DecodesTo
    <3>9. CASE d.version \in {2, 3}
      <4>1. Decodable(nonce, d)
        BY <1>4, <2>3, <2>7, <3>9 DEF Decodable
      <4>2. w = n /\ g = AtLeastTwo(p) /\ o = 0
        BY <2>3, <3>1, <3>2, <3>3, <3>4, <3>9 DEF WindowOf, StepOf, OffsetOf
      <4>3. decode_nonce(d.version, t) = InfoOf(nonce, d)
        BY <1>1, <2>1, <2>2, <2>4, <3>1, <3>5, <3>9, <4>2
           DEF decode_nonce, decode_nonce_2, decode_nonce_3
      <4>4. QED
        BY <3>7, <4>1, <4>3 DEF DecodesTo
    <3>10. CASE d.version = 4
      <4>1. w = p /\ g = AtLeastTwo(closest_prime(p - 1)) /\ o = 0
        BY <2>3, <3>1, <3>2, <3>3, <3>4, <3>10 DEF WindowOf, StepOf, OffsetOf
      <4>2. CASE p >= 3
        <5>1. Decodable(nonce, d)
          BY <1>4, <2>3, <2>7, <3>1, <4>2 DEF Decodable
        <5>2. closest_prime(p - 1) # Failed
          <6>1. PICK m \in Nat : m = p - 1 /\ m >= 2
            BY <4>2
          <6>2. closest_prime(m) # Failed
            BY <6>1, ClosestPrime
          <6>3. QED
            BY <6>1, <6>2
        <5>3. decode_nonce(d.version, t) = InfoOf(nonce, d)
          BY <1>1, <2>1, <2>2, <2>4, <3>1, <3>5, <3>10, <4>1, <5>2
             DEF decode_nonce, decode_nonce_4
        <5>4. QED
          BY <3>7, <5>1, <5>3 DEF DecodesTo
      <4>3. CASE ~(p >= 3)
        <5>1. ~Decodable(nonce, d)
          BY <2>3, <3>1, <3>10, <4>3 DEF Decodable
        <5>2. closest_prime(p - 1) = Failed
          <6>1. p - 1 < 2
            BY <4>3
          <6>2. QED
            BY <6>1 DEF closest_prime
        <5>3. decode_nonce(d.version, t)
                = decoded_info("RA_ERROR_GENERIC", label, n, p, Undefined, 0)
          BY <1>1, <2>1, <2>2, <2>4, <3>1, <3>10, <5>2 DEF decode_nonce, decode_nonce_4
        <5>4. LET info == decoded_info("RA_ERROR_GENERIC", label, n, p, Undefined, 0)
              IN  info # Undefined /\ info.result = "RA_ERROR_GENERIC"
          BY <2>5, p \in Nat
        <5>5. QED
          BY <5>1, <5>3, <5>4 DEF DecodesTo
      <4>4. QED
        BY <4>2, <4>3
    <3>11. QED
      BY <1>2, <3>8, <3>9, <3>10
  <2>8. QED
    BY <2>6, <2>7
<1>5. QED
  BY <1>3, <1>4

-----------------------------------------------------------------------------
(* Requests and what is charged for them *)

ClientFields  == {"table", "memory", "fault"}
RequestFields == {"prepared_data_id", "status", "label", "seen", "blamed"}

(* A request is for a row of the deployed attestator and of the area that   *)
(* was asked for, and the client walked over the area that the nonce of the *)
(* row selects.                                                             *)
GoodRequest(q, rows, d) ==
    /\ q = [f \in RequestFields |-> q[f]]
    /\ q.prepared_data_id \in 2 .. Len(rows)
    /\ q.status \in 0 .. 4
    /\ q.label # Null => rows[q.prepared_data_id].memory_area = q.label
    /\ q.seen # Null => q.seen.area = LabelOf(rows[q.prepared_data_id].nonce, d)

GoodRequests(requests, rows, d) ==
    /\ \E S : requests \in Seq(S)
    /\ \A r \in 1 .. Len(requests) : GoodRequest(requests[r], rows, d)

(* A response names the attestator and the last request. *)
GoodResponse(response, r, d) ==
    /\ response.request_id = r
    /\ response.AID = AID
    /\ response.attestator_number = d.number

Variants == {"md5", "sha1", "sha256", "ripemd160", "blake2"}

(* A message belongs to the last request, which has no verdict yet. *)
GoodMessage(m, requests, rows, d) ==
    LET r == Len(requests) IN
    m # Null =>
        /\ r >= 1 /\ requests[r].blamed = Null
        /\ m.to \in {"client", "forwarder", "verifier"}
        /\ m.to = "client" =>
              /\ m.request_id = r
              /\ m.nonce = rows[requests[r].prepared_data_id].nonce
        /\ m.to = "forwarder" => GoodResponse(m, r, d)
        /\ m.to = "verifier" =>
              /\ GoodResponse(m.response, r, d)
              /\ m.response_time \in BOOLEAN
              /\ m.verifier \in Variants

Registered == \E a \in Directory.application : a.AID = AID

GoodClient(c, d) ==
    /\ c = [f \in ClientFields |-> c[f]]
    /\ c.table = Undefined \/ c.table = Null \/ Kept(c.table, d)

ServingInv ==
    /\ ExtractionInv
    /\ GoodClient(client, deployed)
    /\ GoodRequests(ra_request, ra_prepared_data, deployed)
    /\ GoodMessage(message, ra_request, ra_prepared_data, deployed)
    /\ Len(ra_request) >= 1 => Registered
    /\ extractor.pc # "ended" => ra_request = <<>> /\ message = Null

(* Rows are only added. *)
LEMMA MoreRows ==
    ASSUME NEW d, NEW rows, NEW more, Len(rows) \in Nat, Len(more) \in Nat,
           Len(rows) <= Len(more), \A k \in 1 .. Len(rows) : more[k] = rows[k],
           NEW q, GoodRequest(q, rows, d)
    PROVE  GoodRequest(q, more, d)
<1>1. PICK k \in 2 .. Len(rows) : k = q.prepared_data_id
  BY DEF GoodRequest
<1>2. more[k] = rows[k]
  OBVIOUS
<1>3. QED
  BY <1>1, <1>2 DEF GoodRequest

(* The attestator that the manager finds for the client. *)
LEMMA ParametersFound ==
    ASSUME Parameters.result = "RA_SUCCESS"
    PROVE  /\ Registered
           /\ Parameters.output.attestator_id
                 \in DBMS_QUERY_EXTRACT_ATTESTATOR_ID(Directory, AID, deployed.number)
<1>1. PICK rows : rows = DBMS_QUERY_EXTRACT_PRODUCT_PARAMETERS(Directory, AID, deployed.number)
  OBVIOUS
<1>2. rows # {} /\ Parameters.output = CHOOSE r \in rows : TRUE
  BY <1>1 DEF Parameters, ra_db_get_attestation_parameters, Lookup
<1>3. PICK o \in rows : o = Parameters.output
  BY <1>2
<1>4. o.attestator_id \in DBMS_QUERY_EXTRACT_ATTESTATOR_ID(Directory, AID, deployed.number)
  BY <1>1, <1>3 DEF DBMS_QUERY_EXTRACT_PRODUCT_PARAMETERS
<1>5. Registered
  BY <1>4 DEF DBMS_QUERY_EXTRACT_ATTESTATOR_ID, Registered
<1>6. QED
  BY <1>3, <1>4, <1>5

(* A step that adds a request. *)
LEMMA IssueServes ==
    ASSUME ServingInv, MayRequest, Parameters.result = "RA_SUCCESS",
           NEW d \in DBMS_QUERY_EXTRACT_NONCE(Parameters.output.attestator_id),
           NEW label, label # Null => ra_prepared_data[d].memory_area = label,
           Issue(d, label)
    PROVE  ServingInv'
<1> DEFINE q == [prepared_data_id |-> d, status |-> 0, label |-> label, seen |-> Null,
                 blamed |-> Null]
           n == Len(ra_request)
<1>1. /\ UNCHANGED <<deployed, extractor, ra_prepared_data, client>>
      /\ ra_request' = Append(ra_request, q)
      /\ message' = RequestMessage(n + 1, ra_prepared_data[d].nonce)
  BY DEF Issue, atomic_asclWebSocketSend
<1>2. PICK S : ra_request \in Seq(S)
  BY DEF ServingInv, GoodRequests
<1>3. ra_request \in Seq(S \cup {q})
  BY <1>2, SeqMonotonic, S \subseteq S \cup {q}
<1>4. PICK T : ra_prepared_data \in Seq(T)
  BY DEF ServingInv, ExtractionInv, GoodRows
<1>5. d \in 2 .. Len(ra_prepared_data)
  <2>1. d \in 1 .. Len(ra_prepared_data)
        /\ ra_prepared_data[d].attestator_id = Parameters.output.attestator_id
    BY <1>4 DEF DBMS_QUERY_EXTRACT_NONCE
  <2>2. Neighbour.attestator_id # Parameters.output.attestator_id
    BY NeighbourAssumption, ParametersFound DEF ServingInv, ExtractionInv
  <2>3. ra_prepared_data[1] = Neighbour
    BY DEF ServingInv, ExtractionInv, GoodRows
  <2>4. d # 1
    BY <2>1, <2>2, <2>3
  <2>5. QED
    BY <1>4, <2>1, <2>4
<1>6. /\ q = [f \in RequestFields |-> q[f]] /\ q.prepared_data_id = d /\ q.status = 0
      /\ q.label = label /\ q.seen = Null /\ q.blamed = Null
  BY DEF RequestFields
<1> HIDE DEF q
<1>7. GoodRequest(q, ra_prepared_data, deployed)
  BY <1>5, <1>6 DEF GoodRequest
<1>8. n \in Nat
  BY <1>2
<1>9. PICK more : more = Append(ra_request, q)
  OBVIOUS
<1>10. /\ more \in Seq(S \cup {q}) /\ Len(more) = n + 1
       /\ \A r \in 1 .. n : more[r] = ra_request[r]
       /\ more[n + 1] = q
  BY <1>3, <1>9, AppendProperties
<1>11. GoodRequests(more, ra_prepared_data, deployed)
  <2>1. ASSUME NEW r \in 1 .. n + 1 PROVE GoodRequest(more[r], ra_prepared_data, deployed)
    <3>1. CASE r = n + 1
      BY <1>7, <1>10, <3>1
    <3>2. CASE r # n + 1
      <4>1. r \in 1 .. n
        BY <1>8, <3>2
      <4>2. QED
        BY <1>10, <4>1 DEF ServingInv, GoodRequests
    <3>3. QED
      BY <3>1, <3>2
  <2>2. QED
    BY <1>10, <2>1 DEF GoodRequests
<1>12. GoodMessage(message', more, ra_prepared_data, deployed)
  <2>1. PICK m : m = message'
    OBVIOUS
  <2>2. m.to = "client" /\ m.request_id = n + 1 /\ m.nonce = ra_prepared_data[d].nonce
    BY <1>1, <2>1 DEF RequestMessage
  <2>3. GoodMessage(m, more, ra_prepared_data, deployed)
    BY <1>6, <1>8, <1>10, <2>2 DEF GoodMessage
  <2>4. QED
    BY <2>1, <2>3
<1>13. Registered /\ extractor.pc = "ended"
  BY ParametersFound DEF MayRequest, At
<1>14. QED
  BY <1>1, <1>9, <1>11, <1>12, <1>13 DEF ServingInv, ExtractionInv

(* What an attestation of the client does. *)
LEMMA AttestDoes ==
    ASSUME deployed \in Deployments, GoodClient(client, deployed),
           NEW nonce \in Nonces, message.nonce = nonce,
           NEW fault, Attest(fault)
    PROVE  /\ UNCHANGED <<deployed, extractor, ra_prepared_data, ra_reaction>>
           /\ GoodClient(client', deployed)
           /\ message # Null /\ message.to = "client"
           /\ \/ message' = Null /\ ra_request' = ra_request
              \/ \E hash :
                    /\ message' = ResponseMessage(AID, deployed.number, message.request_id, hash)
                    /\ ra_request' = [ra_request EXCEPT ![message.request_id].seen =
                          [memory |-> client.memory, area |-> LabelOf(nonce, deployed),
                           fault |-> fault]]
<1> DEFINE c == client
           d == deployed
<1>1. Kept(c.table, d) /\ c = [f \in ClientFields |-> c[f]]
  BY DEF Attest, GoodClient
<1>2. PICK allocated \in BOOLEAN : allocated = (fault # "nonce")
  OBVIOUS
<1>3. PICK t : t = ra_set_current_nonce(c.table, nonce, NonceSize, allocated).table
  OBVIOUS
<1>4. /\ Kept(t, d)
      /\ allocated => t.current_nonce = nonce /\ t.current_nonce_size = NonceSize
      /\ ~allocated => t.current_nonce = Null
  BY <1>1, <1>3, NonceSet
<1>5. PICK p : p = PrepareData(t, c.memory, fault)
  OBVIOUS
<1>6. p.table # Undefined => Kept(p.table, d)
  BY <1>4, <1>5, PreparedIsOther, OtherDataKept
<1>7. ~allocated => p.result # "RA_SUCCESS"
  BY <1>4, <1>5 DEF PrepareData, ra_prepare_data, ra_prepare_data_goldbach, Reset, Answer
<1>8. p.table # Undefined => Kept(ra_reset_prepared_data(p.table), d)
  BY <1>6, ResetIsOther, OtherDataKept
<1>9. ra_get_AID_reference(c.table) = AID /\ ra_get_attestator_number(c.table) = d.number
  BY <1>1 DEF Kept, ra_get_AID_reference, ra_get_attestator_number
<1>10. PICK after : after = ra_reset_prepared_data(p.table)
  OBVIOUS
<1>11. \/ GivesUp(Undefined, fault)
       \/ p.table # Undefined /\ GivesUp(p.table, fault)
       \/ p.table # Undefined /\ GivesUp(after, fault)
       \/ /\ p.table # Undefined /\ p.result = "RA_SUCCESS"
          /\ client' = [client EXCEPT !.table = after]
          /\ \E hash : message' = ResponseMessage(AID, d.number, message.request_id, hash)
          /\ ra_request' = [ra_request EXCEPT ![message.request_id].seen = Seen(t, fault)]
  BY <1>2, <1>3, <1>5, <1>9, <1>10 DEF Attest
<1>12. ASSUME NEW table, GivesUp(table, fault), table = Undefined \/ Kept(table, d)
       PROVE  GoodClient(client', d) /\ message' = Null /\ ra_request' = ra_request
  <2>1. client' = [f \in ClientFields |-> client'[f]] /\ client'.table = table
    BY <1>1, <1>12 DEF GivesUp, ClientFields
  <2>2. QED
    BY <1>12, <2>1 DEF GivesUp, GoodClient
<1>13. UNCHANGED <<deployed, extractor, ra_prepared_data, ra_reaction>>
       /\ message # Null /\ message.to = "client"
  BY DEF Attest
<1>14. CASE GivesUp(Undefined, fault)
  BY <1>12, <1>13, <1>14
<1>15. CASE p.table # Undefined /\ GivesUp(p.table, fault)
  BY <1>6, <1>12, <1>13, <1>15
<1>16. CASE p.table # Undefined /\ GivesUp(after, fault)
  BY <1>8, <1>10, <1>12, <1>13, <1>16
<1>17. CASE /\ p.table # Undefined /\ p.result = "RA_SUCCESS"
            /\ client' = [client EXCEPT !.table = after]
            /\ \E hash : message' = ResponseMessage(AID, d.number, message.request_id, hash)
            /\ ra_request' = [ra_request EXCEPT ![message.request_id].seen = Seen(t, fault)]
  <2>1. SelectedLabel(t) = LabelOf(nonce, d)
    <3>1. nonce \in AnyNonce /\ Buildable(d)
      BY ConstantFacts
    <3>2. QED
      BY <1>4, <1>7, <1>17, <3>1, Selects
  <2>2. Seen(t, fault) = [memory |-> c.memory, area |-> LabelOf(nonce, d), fault |-> fault]
    BY <2>1 DEF Seen
  <2>3. client' = [f \in ClientFields |-> client'[f]] /\ client'.table = after
    BY <1>1, <1>17 DEF ClientFields
  <2>4. GoodClient(client', d)
    BY <1>8, <1>10, <1>17, <2>3 DEF GoodClient
  <2>5. QED
    BY <1>13, <1>17, <2>2, <2>4
<1>18. QED
  BY <1>11, <1>14, <1>15, <1>16, <1>17

Replaced(s, r, q) == [s EXCEPT ![r] = q]

(* A step that changes the last request. *)
LEMMA RequestChanged ==
    ASSUME NEW d, NEW rows, NEW requests, GoodRequests(requests, rows, d),
           NEW r \in 1 .. Len(requests), NEW q, GoodRequest(q, rows, d),
           NEW others, others = Replaced(requests, r, q)
    PROVE  /\ GoodRequests(others, rows, d)
           /\ Len(others) = Len(requests) /\ others[r] = q
           /\ \A k \in 1 .. Len(requests) : k # r => others[k] = requests[k]
<1>1. PICK S : requests \in Seq(S)
  BY DEF GoodRequests
<1>2. requests \in Seq(S \cup {q})
  BY <1>1, SeqMonotonic, S \subseteq S \cup {q}
<1>3. /\ others \in Seq(S \cup {q}) /\ Len(others) = Len(requests)
      /\ \A k \in 1 .. Len(requests) : others[k] = IF k = r THEN q ELSE requests[k]
  BY <1>2, ExceptSeq DEF Replaced
<1>4. \A k \in 1 .. Len(requests) : GoodRequest(others[k], rows, d)
  BY <1>3 DEF GoodRequests
<1>5. QED
  BY <1>3, <1>4 DEF GoodRequests

(* An attestation. *)
LEMMA AttestServes ==
    ASSUME ServingInv, NEW fault, Attest(fault)
    PROVE  ServingInv'
<1> DEFINE r == Len(ra_request)
           q == ra_request[r]
           rows == ra_prepared_data
<1>1. message # Null /\ message.to = "client"
  BY DEF Attest
<1>2. /\ r >= 1 /\ q.blamed = Null /\ message.request_id = r
      /\ message.nonce = rows[q.prepared_data_id].nonce
  BY <1>1 DEF ServingInv, GoodMessage
<1>3. r \in Nat
  BY DEF ServingInv, GoodRequests
<1>4. GoodRequest(q, rows, deployed)
  BY <1>2, <1>3 DEF ServingInv, GoodRequests
<1>5. PICK nonce \in Nonces : nonce = message.nonce
  <2>1. GoodRow(rows[q.prepared_data_id], deployed)
    BY <1>4 DEF GoodRequest, ServingInv, ExtractionInv, GoodRows
  <2>2. QED
    BY <1>2, <2>1 DEF GoodRow
<1>6. /\ UNCHANGED <<deployed, extractor, ra_prepared_data, ra_reaction>>
      /\ GoodClient(client', deployed)
  BY <1>5, AttestDoes DEF ServingInv, ExtractionInv
<1>7. extractor.pc = "ended"
  BY <1>1 DEF ServingInv
<1>8. CASE message' = Null /\ ra_request' = ra_request
  <2>1. GoodMessage(message', ra_request, rows, deployed)
    BY <1>8 DEF GoodMessage
  <2>2. QED
    BY <1>6, <1>7, <1>8, <2>1 DEF ServingInv, ExtractionInv
<1>9. ASSUME NEW hash,
             message' = ResponseMessage(AID, deployed.number, message.request_id, hash),
             ra_request' = [ra_request EXCEPT ![message.request_id].seen =
                          [memory |-> client.memory, area |-> LabelOf(nonce, deployed),
                           fault |-> fault]]
      PROVE  ServingInv'
  <2>1. PICK seen : seen = [memory |-> client.memory, area |-> LabelOf(nonce, deployed),
                            fault |-> fault]
    OBVIOUS
  <2>2. PICK p : p = [q EXCEPT !.seen = seen]
    OBVIOUS
  <2>3. q = [f \in RequestFields |-> q[f]]
    BY <1>4 DEF GoodRequest
  <2>4. /\ p = [f \in RequestFields |-> p[f]] /\ p.prepared_data_id = q.prepared_data_id
        /\ p.status = q.status /\ p.label = q.label /\ p.seen = seen /\ p.blamed = q.blamed
    BY <2>2, <2>3 DEF RequestFields
  <2>5. seen.area = LabelOf(rows[q.prepared_data_id].nonce, deployed)
    BY <1>2, <1>5, <2>1
  <2>6. GoodRequest(p, rows, deployed)
    BY <1>4, <2>4, <2>5 DEF GoodRequest
  <2>7. PICK others : others = Replaced(ra_request, r, p)
    OBVIOUS
  <2>8. ra_request' = others
    BY <1>2, <1>9, <2>1, <2>2, <2>7 DEF Replaced
  <2>9. r \in 1 .. Len(ra_request)
    BY <1>2, <1>3
  <2>10. GoodRequests(others, rows, deployed) /\ Len(others) = r /\ others[r] = p
    <3>1. GoodRequests(ra_request, rows, deployed)
      BY DEF ServingInv
    <3>2. PICK n \in 1 .. Len(ra_request) : n = r
      BY <2>9
    <3>3. PICK R : R = rows
      OBVIOUS
    <3>4. GoodRequests(others, R, deployed) /\ Len(others) = Len(ra_request) /\ others[n] = p
      BY <2>6, <2>7, <3>1, <3>2, <3>3, RequestChanged
    <3>5. QED
      BY <3>2, <3>3, <3>4
  <2>11. PICK m : m = message'
    OBVIOUS
  <2>12. m.to = "forwarder" /\ GoodResponse(m, r, deployed)
    BY <1>2, <1>9, <2>11 DEF ResponseMessage, GoodResponse
  <2>13. GoodMessage(m, others, rows, deployed)
    BY <1>2, <2>4, <2>10, <2>12 DEF GoodMessage
  <2>14. QED
    BY <1>2, <1>6, <1>7, <2>8, <2>10, <2>11, <2>13 DEF ServingInv, ExtractionInv
<1>10. QED
  BY <1>5, <1>8, <1>9, AttestDoes DEF ServingInv, ExtractionInv

(* The forwarder. *)
LEMMA ForwardServes ==
    ASSUME ServingInv, NEW fault, ForwardResponse(fault)
    PROVE  ServingInv'
<1> DEFINE r == Len(ra_request)
           rows == ra_prepared_data
<1>1. /\ message # Null /\ message.to = "forwarder"
      /\ UNCHANGED <<deployed, extractor, ra_prepared_data, client, ra_request, ra_reaction>>
  BY DEF ForwardResponse
<1>2. extractor.pc = "ended"
  BY <1>1 DEF ServingInv
<1>3. /\ r >= 1 /\ ra_request[r].blamed = Null /\ GoodResponse(message, r, deployed)
  BY <1>1 DEF ServingInv, GoodMessage
<1>4. PICK m : m = message'
  OBVIOUS
<1>5. m = Null \/ \E hash \in Variants : m = VerifierMessage(fault = "late", hash, message)
  <2>1. PICK hash : hash = VerifierHash(ForwardedNumber(message.attestator_number))
    OBVIOUS
  <2>2. hash = Null \/ hash \in Variants
    BY <2>1, HashAssumption DEF VerifierHash, Variants, ServingInv, ExtractionInv
  <2>3. QED
    BY <1>4, <2>1, <2>2 DEF ForwardResponse
<1>6. GoodMessage(m, ra_request, rows, deployed)
  <2>1. CASE m = Null
    BY <2>1 DEF GoodMessage
  <2>2. CASE \E hash \in Variants : m = VerifierMessage(fault = "late", hash, message)
    <3>1. m.to = "verifier" /\ m.response = message /\ m.response_time \in BOOLEAN
          /\ m.verifier \in Variants
      BY <2>2 DEF VerifierMessage
    <3>2. QED
      BY <1>3, <3>1 DEF GoodMessage
  <2>3. QED
    BY <1>5, <2>1, <2>2
<1>7. QED
  BY <1>1, <1>2, <1>4, <1>6 DEF ServingInv, ExtractionInv

(* What the verifier does: nothing, or a verdict about the last request. *)
VerdictFaults == {"none", "application", "reaction", "finalize"}
AllVerifyFaults == VerdictFaults \cup {"read", "data", "nonce", "hash"}

Charged(found, right) == IF right THEN {Null} ELSE Blamed(found)

(* The digest of some data, and that of a row. *)
Hashed(variant, nonce, data, d) == ra_do_hash(variant, nonce, data, AID, d.number, TRUE)

RowHashed(variant, row, d) == Hashed(variant, row.nonce, row.data, d)

(* A verdict sets status and charge of the request of the message, and the *)
(* reaction of the application that is charged for a wrong response. *)
LEMMA VerifyDoes ==
    ASSUME ServingInv, NEW fault \in AllVerifyFaults, Verify(fault)
    PROVE  /\ UNCHANGED <<deployed, extractor, ra_prepared_data, client>>
           /\ message' = Null /\ message # Null /\ message.to = "verifier"
           /\ \/ ra_request' = ra_request /\ ra_reaction' = ra_reaction
              \/ \E right \in BOOLEAN :
                 \E blamed \in Charged(
                       ra_db_get_application_id(Directory, AID, fault # "application"), right) :
                   /\ fault \in VerdictFaults
                   /\ right = (RowHashed(message.verifier,
                                  ra_prepared_data[ra_request[Len(ra_request)].prepared_data_id],
                                  deployed) = message.response.hash)
                   /\ ra_reaction' = IF right THEN ra_reaction
                                     ELSE ra_db_set_reaction_status(blamed, fault)
                   /\ ra_request' = Replaced(ra_request, Len(ra_request),
                         Verdict(ra_request[Len(ra_request)], right, message.response_time,
                                 blamed, fault))
<1>1. /\ UNCHANGED <<deployed, extractor, ra_prepared_data, client>>
      /\ message' = Null /\ message # Null /\ message.to = "verifier"
  BY DEF Verify
<1>2. /\ message.response.request_id = Len(ra_request) /\ message.response.AID = AID
      /\ message.response.attestator_number = deployed.number
  BY <1>1 DEF ServingInv, GoodMessage, GoodResponse
<1> DEFINE response == message.response
           row      == DBMS_QUERY_EXTRACT_PREPARED_DATA_BY_REQUEST(response.request_id)
           computed == ra_do_hash(message.verifier, row.nonce, row.data, response.AID,
                                  response.attestator_number, fault # "hash")
<1>3. PICK right \in BOOLEAN : right = (computed = response.hash)
  OBVIOUS
<1>4. ~(ra_request' = ra_request /\ ra_reaction' = ra_reaction) =>
        /\ fault \notin {"read", "data", "nonce"}
        /\ computed # NoDigest
        /\ \E blamed \in Charged(
                       ra_db_get_application_id(Directory, AID, fault # "application"), right) :
              /\ ra_reaction' = IF right THEN ra_reaction
                                ELSE ra_db_set_reaction_status(blamed, fault)
              /\ ra_request' = Replaced(ra_request, Len(ra_request),
                         Verdict(ra_request[Len(ra_request)], right, message.response_time,
                                 blamed, fault))
  BY <1>2, <1>3 DEF Verify, NoVerdict, Charged, Replaced
<1>5. fault = "hash" => computed = NoDigest
  <2>1. message.verifier \in Variants
    BY <1>1 DEF ServingInv, GoodMessage
  <2>2. QED
    BY <2>1 DEF Variants, ra_do_hash, ra_do_hash_md5, ra_do_hash_sha1, ra_do_hash_sha256,
     ra_do_hash_ripemd160, ra_do_hash_blake2
<1>6. fault # "hash" => computed = RowHashed(message.verifier,
              ra_prepared_data[ra_request[Len(ra_request)].prepared_data_id], deployed)
  <2>1. SUFFICES ASSUME fault # "hash"
                 PROVE  computed = RowHashed(message.verifier,
              ra_prepared_data[ra_request[Len(ra_request)].prepared_data_id], deployed)
    OBVIOUS
  <2>2. (fault # "hash") = TRUE
    BY <2>1
  <2>3. PICK r : r = ra_prepared_data[ra_request[Len(ra_request)].prepared_data_id]
    OBVIOUS
  <2>4. row.nonce = r.nonce /\ row.data = r.data
    BY <1>2, <2>3 DEF DBMS_QUERY_EXTRACT_PREPARED_DATA_BY_REQUEST
  <2>5. computed = ra_do_hash(message.verifier, r.nonce, r.data, AID, deployed.number, TRUE)
    BY <1>2, <2>2, <2>4
  <2>6. QED
    BY <2>3, <2>5 DEF RowHashed, Hashed
<1> HIDE DEF computed
<1>7. QED
  BY <1>1, <1>3, <1>4, <1>5, <1>6 DEF AllVerifyFaults, VerdictFaults

(* The verdict changes status and charge of the request. *)
LEMMA VerdictFields ==
    ASSUME NEW d, NEW rows, NEW q, GoodRequest(q, rows, d),
           NEW right \in BOOLEAN, NEW late \in BOOLEAN, NEW blamed, NEW fault,
           NEW p, p = Verdict(q, right, late, blamed, fault)
    PROVE  /\ GoodRequest(p, rows, d)
           /\ p.prepared_data_id = q.prepared_data_id /\ p.seen = q.seen
           /\ p.status = IF fault = "finalize" THEN q.status ELSE StatusOf(right, late)
           /\ p.blamed = IF right THEN q.blamed ELSE [application |-> blamed, fault |-> fault]
<1>1. StatusOf(right, late) \in 0 .. 4
  BY DEF StatusOf
<1>2. q = [f \in RequestFields |-> q[f]]
  BY DEF GoodRequest
<1>3. /\ p = [f \in RequestFields |-> p[f]] /\ p.prepared_data_id = q.prepared_data_id
      /\ p.label = q.label /\ p.seen = q.seen
      /\ p.status = IF fault = "finalize" THEN q.status ELSE StatusOf(right, late)
      /\ p.blamed = IF right THEN q.blamed ELSE [application |-> blamed, fault |-> fault]
  BY <1>2 DEF Verdict, RequestFields
<1>4. GoodRequest(p, rows, d)
  BY <1>1, <1>3 DEF GoodRequest
<1>5. QED
  BY <1>3, <1>4

(* The last request, while there is a message. *)
LEMMA LastRequest ==
    ASSUME ServingInv, message # Null
    PROVE  /\ Len(ra_request) \in 1 .. Len(ra_request)
           /\ GoodRequest(ra_request[Len(ra_request)], ra_prepared_data, deployed)
           /\ ra_request[Len(ra_request)].blamed = Null
           /\ extractor.pc = "ended"
           /\ Registered
<1>1. Len(ra_request) \in Nat
  BY DEF ServingInv, GoodRequests
<1>2. Len(ra_request) >= 1 /\ ra_request[Len(ra_request)].blamed = Null
  BY DEF ServingInv, GoodMessage
<1>3. QED
  BY <1>1, <1>2 DEF ServingInv, GoodRequests

(* The verifier. *)
LEMMA VerifyServes ==
    ASSUME ServingInv, NEW fault \in AllVerifyFaults, Verify(fault)
    PROVE  ServingInv'
<1> DEFINE n == Len(ra_request)
<1>1. /\ UNCHANGED <<deployed, extractor, ra_prepared_data, client>>
      /\ message' = Null /\ message # Null /\ message.to = "verifier"
  BY VerifyDoes
<1>2. /\ n \in 1 .. n /\ GoodRequest(ra_request[n], ra_prepared_data, deployed)
      /\ extractor.pc = "ended" /\ Registered
  BY <1>1, LastRequest
<1>3. \A requests : GoodMessage(message', requests, ra_prepared_data, deployed)
  BY <1>1 DEF GoodMessage
<1>4. GoodRequests(ra_request', ra_prepared_data, deployed)
  <2>1. CASE ra_request' = ra_request
    BY <2>1 DEF ServingInv
  <2>2. ASSUME NEW right \in BOOLEAN, NEW blamed,
               ra_request' = Replaced(ra_request, n,
                         Verdict(ra_request[n], right, message.response_time, blamed, fault))
        PROVE  GoodRequests(ra_request', ra_prepared_data, deployed)
    <3>1. PICK q : q = ra_request[n]
      OBVIOUS
    <3>2. PICK late \in BOOLEAN : late = message.response_time
      BY <1>1 DEF ServingInv, GoodMessage
    <3>3. PICK p : p = Verdict(q, right, late, blamed, fault)
      OBVIOUS
    <3>4. GoodRequest(q, ra_prepared_data, deployed)
      BY <1>2, <3>1
    <3>7. GoodRequest(p, ra_prepared_data, deployed)
      BY <3>3, <3>4, VerdictFields
    <3>8. PICK others : others = Replaced(ra_request, n, p)
      OBVIOUS
    <3>9. PICK k \in 1 .. Len(ra_request) : k = n
      BY <1>2
    <3>10. GoodRequests(ra_request, ra_prepared_data, deployed)
      BY DEF ServingInv
    <3>11. GoodRequests(others, ra_prepared_data, deployed)
      BY <3>7, <3>8, <3>9, <3>10, RequestChanged
    <3>12. QED
      BY <2>2, <3>1, <3>2, <3>3, <3>8, <3>11
  <2>3. QED
    BY <2>1, <2>2, VerifyDoes
<1>5. QED
  BY <1>1, <1>2, <1>3, <1>4 DEF ServingInv, ExtractionInv

(* Something changes a byte of the client's memory. *)
LEMMA TamperServes ==
    ASSUME ServingInv, NEW t, Tamper(t)
    PROVE  ServingInv'
<1>1. UNCHANGED <<deployed, extractor, ra_prepared_data, ra_request, message, ra_reaction>>
  BY DEF Tamper, serverVars
<1>2. client' = [f \in ClientFields |-> client'[f]] /\ client'.table = client.table
  BY DEF Tamper, ServingInv, GoodClient, ClientFields
<1>3. QED
  BY <1>1, <1>2 DEF ServingInv, ExtractionInv, GoodClient

(* The extractor. *)
LEMMA ExtractorServes ==
    ASSUME ServingInv, Extractor
    PROVE  ServingInv'
<1>1. ExtractionInv'
  BY ExtractionStep DEF ServingInv, Next
<1>2. UNCHANGED <<deployed, client, ra_request, message, ra_reaction>> /\ extractor.pc # "ended"
  BY ExtractorLeaves DEF ServingInv, serverVars
<1>3. ra_request = <<>> /\ message = Null
  BY <1>2 DEF ServingInv
<1>4. ra_request' = <<>> /\ message' = Null
  BY <1>2, <1>3
<1>5. GoodRequests(ra_request', ra_prepared_data', deployed')
  BY <1>4 DEF GoodRequests
<1>6. GoodMessage(message', ra_request', ra_prepared_data', deployed')
  BY <1>4 DEF GoodMessage
<1>7. QED
  BY <1>1, <1>2, <1>4, <1>5, <1>6 DEF ServingInv

(* At the start there are no requests. *)
LEMMA ServingInit == ASSUME Init PROVE ServingInv
<1>1. ExtractionInv
  BY ExtractionInit
<1>2. client = [f \in ClientFields |-> client[f]] /\ client.table = ra_parse_binary_ads(ads)
  BY DEF Init, ClientFields
<1>3. GoodClient(client, deployed)
  BY <1>1, <1>2, ParsedTable DEF GoodClient, ExtractionInv
<1>4. ra_request = <<>> /\ message = Null
  BY DEF Init
<1>5. QED
  BY <1>1, <1>3, <1>4 DEF ServingInv, GoodRequests, GoodMessage

(* Every step keeps the invariant. *)
LEMMA ServingStep == ASSUME ServingInv, [Next]_vars PROVE ServingInv'
<1>1. CASE Extractor
  BY <1>1, ExtractorServes
<1>2. CASE ServeClient
  <2>1. PICK d \in DBMS_QUERY_EXTRACT_NONCE(Parameters.output.attestator_id) : Issue(d, Null)
    BY <1>2 DEF ServeClient
  <2>2. QED
    BY <1>2, <2>1, IssueServes DEF ServeClient
<1>3. CASE \E row \in Directory.startup : AttestAtStartup(row.memory_area)
  <2>1. PICK label : AttestAtStartup(label)
    BY <1>3
  <2>2. PICK d \in DBMS_QUERY_EXTRACT_NONCE(Parameters.output.attestator_id) :
             ra_prepared_data[d].memory_area = label /\ Issue(d, label)
    BY <2>1 DEF AttestAtStartup, DBMS_QUERY_EXTRACT_NONCE_BY_MEMORY_LABEL
  <2>3. QED
    BY <2>1, <2>2, IssueServes DEF AttestAtStartup
<1>4. CASE \E t \in Tampered : Tamper(t)
  BY <1>4, TamperServes
<1>5. CASE \E fault \in {"none", "nonce", "labels", "buffer", "data", "hash", "response",
                         "send"} : Attest(fault)
  BY <1>5, AttestServes
<1>6. CASE \E fault \in {"none", "fork", "late"} : ForwardResponse(fault)
  BY <1>6, ForwardServes
<1>7. CASE \E fault \in AllVerifyFaults : Verify(fault)
  BY <1>7, VerifyServes
<1>8. CASE UNCHANGED vars
  BY <1>8 DEF vars, ServingInv, ExtractionInv
<1>9. QED
  BY <1>1, <1>2, <1>3, <1>4, <1>5, <1>6, <1>7, <1>8
     DEF Next, Attestations, AllVerifyFaults, VerdictFaults

(* A startup request for an area is answered by a walk over that area       *)
(* (manager.c:410, extractor.c:283): the label that the extractor stored    *)
(* with the data is the one that the client decodes from the nonce, for any *)
(* deployment and any nonces.                                               *)
THEOREM AskedAreaWalkedHolds == Spec => []AskedAreaWalked
<1>1. Init => ServingInv
  BY ServingInit
<1>2. ServingInv /\ [Next]_vars => ServingInv'
  BY ServingStep
<1>3. ServingInv => AskedAreaWalked
  <2>1. SUFFICES ASSUME ServingInv, NEW r \in DOMAIN ra_request,
                        ra_request[r].label # Null, ra_request[r].seen # Null
                 PROVE  \/ ra_request[r].seen.area = ra_request[r].label
                        \/ "labels" \in RowOf(r).faults
    BY DEF AskedAreaWalked
  <2>2. r \in 1 .. Len(ra_request)
    BY <2>1 DEF ServingInv, GoodRequests
  <2>3. GoodRequest(ra_request[r], ra_prepared_data, deployed)
    BY <2>1, <2>2 DEF ServingInv, GoodRequests
  <2>4. GoodRow(RowOf(r), deployed)
    BY <2>1, <2>3 DEF GoodRequest, RowOf, ServingInv, ExtractionInv, GoodRows
  <2>5. QED
    BY <2>1, <2>3, <2>4 DEF GoodRequest, GoodRow, RowOf
<1>4. QED
  BY <1>1, <1>2, <1>3, PTL DEF Spec

-----------------------------------------------------------------------------
(* Blame *)

Own == CHOOSE a \in Directory.application : a.AID = AID

Applications == {a.id : a \in Directory.application}

Blames(requests) == {r \in 1 .. Len(requests) : requests[r].blamed # Null}
LostBlames(requests) == {r \in Blames(requests) : requests[r].blamed.fault = "application"}
OwnBlames(requests) == {r \in Blames(requests) \ LostBlames(requests) :
                          requests[r].blamed.fault # "reaction"}

(* What is compromised, by what was charged. *)
BlameRight(requests, reaction) ==
    /\ \A a \in Applications : reaction[a] = "COMPROMISED" =>
          LostBlames(requests) # {} \/ (a = Own.id /\ Blames(requests) # {})
    /\ OwnBlames(requests) # {} => reaction[Own.id] = "COMPROMISED"

BlameInv ==
    /\ ServingInv
    /\ DOMAIN ra_reaction = Applications
    /\ BlameRight(ra_request, ra_reaction)

(* The charges are the same. *)
SameCharges(others, requests) ==
    /\ Len(requests) \in Nat /\ Len(others) \in Nat /\ Len(requests) <= Len(others)
    /\ \A r \in 1 .. Len(requests) : others[r].blamed = requests[r].blamed
    /\ \A r \in 1 .. Len(others) : r > Len(requests) => others[r].blamed = Null

(* Then the blame is as right as it was. *)
LEMMA SameBlame ==
    ASSUME NEW requests, NEW others, SameCharges(others, requests),
           NEW reaction, BlameRight(requests, reaction)
    PROVE  BlameRight(others, reaction)
<1>1. Blames(others) = Blames(requests)
  BY DEF Blames, SameCharges
<1>2. \A r \in Blames(requests) : others[r].blamed = requests[r].blamed
  BY DEF Blames, SameCharges
<1>3. LostBlames(others) = LostBlames(requests)
  BY <1>1, <1>2 DEF LostBlames
<1>4. OwnBlames(others) = OwnBlames(requests)
  BY <1>1, <1>2, <1>3 DEF OwnBlames
<1>5. QED
  BY <1>1, <1>3, <1>4 DEF BlameRight

(* A new request is not charged for. *)
LEMMA IssueBlames ==
    ASSUME ServingInv, NEW d, NEW label, Issue(d, label)
    PROVE  SameCharges(ra_request', ra_request) /\ ra_reaction' = ra_reaction
<1>1. PICK q : q = [prepared_data_id |-> d, status |-> 0, label |-> label, seen |-> Null,
                    blamed |-> Null]
  OBVIOUS
<1>2. ra_request' = Append(ra_request, q) /\ ra_reaction' = ra_reaction
  BY <1>1 DEF Issue
<1>3. q.blamed = Null
  BY <1>1
<1>4. PICK S : ra_request \in Seq(S)
  BY DEF ServingInv, GoodRequests
<1>5. PICK n \in Nat : n = Len(ra_request)
  BY <1>4
<1>6. ra_request \in Seq(S \cup {q})
  BY <1>4, SeqMonotonic, S \subseteq S \cup {q}
<1>7. PICK more : more = Append(ra_request, q)
  OBVIOUS
<1>8. /\ Len(more) = n + 1
      /\ \A r \in 1 .. n : more[r] = ra_request[r]
      /\ more[n + 1] = q
  BY <1>5, <1>6, <1>7, AppendProperties
<1>9. SameCharges(more, ra_request)
  BY <1>3, <1>5, <1>8 DEF SameCharges
<1>10. QED
  BY <1>2, <1>7, <1>9

(* Nor does an attestation charge anything. *)
LEMMA AttestBlames ==
    ASSUME ServingInv, NEW fault, Attest(fault)
    PROVE  SameCharges(ra_request', ra_request) /\ ra_reaction' = ra_reaction
<1> DEFINE n == Len(ra_request)
<1>1. message # Null /\ message.to = "client" /\ ra_reaction' = ra_reaction
  BY DEF Attest
<1>2. /\ n \in 1 .. n /\ GoodRequest(ra_request[n], ra_prepared_data, deployed)
  BY <1>1, LastRequest
<1>3. message.request_id = n
  BY <1>1 DEF ServingInv, GoodMessage
<1>4. PICK q : q = ra_request[n]
  OBVIOUS
<1>5. \/ ra_request' = ra_request
      \/ \E seen : ra_request' = [ra_request EXCEPT ![n].seen = seen]
  BY <1>3 DEF Attest, GivesUp
<1>6. CASE ra_request' = ra_request
  <2>1. n \in Nat
    BY <1>2
  <2>2. QED
    BY <1>1, <1>6, <2>1 DEF SameCharges
<1>7. ASSUME NEW seen, ra_request' = [ra_request EXCEPT ![n].seen = seen]
      PROVE  SameCharges(ra_request', ra_request)
  <2>1. PICK p : p = [q EXCEPT !.seen = seen]
    OBVIOUS
  <2>2. p.blamed = q.blamed
    BY <1>2, <1>4, <2>1 DEF GoodRequest, RequestFields
  <2>3. PICK S : ra_request \in Seq(S)
    BY DEF ServingInv, GoodRequests
  <2>4. ra_request \in Seq(S \cup {p})
    BY <2>3, SeqMonotonic, S \subseteq S \cup {p}
  <2>5. PICK others : others = [ra_request EXCEPT ![n] = p]
    OBVIOUS
  <2>6. ra_request' = others
    BY <1>4, <1>7, <2>1, <2>5
  <2>7. /\ Len(others) = n
        /\ \A k \in 1 .. n : others[k] = IF k = n THEN p ELSE ra_request[k]
    BY <1>2, <2>4, <2>5, ExceptSeq
  <2>8. n \in Nat
    BY <1>2
  <2>9. SameCharges(others, ra_request)
    BY <1>4, <2>2, <2>7, <2>8 DEF SameCharges
  <2>10. QED
    BY <2>6, <2>9
<1>8. QED
  BY <1>1, <1>5, <1>6, <1>7

(* The application that the verifier finds. *)
LEMMA OwnFound ==
    ASSUME Registered
    PROVE  /\ Own \in Directory.application /\ Own.AID = AID
           /\ ra_db_get_application_id(Directory, AID, TRUE).result = "RA_SUCCESS"
           /\ ra_db_get_application_id(Directory, AID, TRUE).output = Own.id
<1>1. Own \in Directory.application /\ Own.AID = AID
  BY DEF Registered, Own
<1>2. PICK rows : rows = DBMS_QUERY_GET_APPLICATION_ID(Directory, AID)
  OBVIOUS
<1>3. \A a \in Directory.application : a.AID = AID => a = Own
  BY <1>1, DirectoryAssumption
<1>4. rows = {Own.id}
  BY <1>1, <1>2, <1>3 DEF DBMS_QUERY_GET_APPLICATION_ID
<1>5. (CHOOSE r \in rows : TRUE) = Own.id
  BY <1>4
<1>6. QED
  BY <1>1, <1>2, <1>4, <1>5 DEF ra_db_get_application_id, Lookup

(* The verdicts charge the right one. *)
LEMMA VerifyBlames ==
    ASSUME BlameInv, NEW fault \in AllVerifyFaults, Verify(fault)
    PROVE  DOMAIN ra_reaction' = Applications /\ BlameRight(ra_request', ra_reaction')
<1> DEFINE n == Len(ra_request)
<1>1. ServingInv /\ message # Null /\ message.to = "verifier"
  BY VerifyDoes DEF BlameInv
<1>2. /\ n \in 1 .. n /\ GoodRequest(ra_request[n], ra_prepared_data, deployed)
      /\ ra_request[n].blamed = Null /\ Registered
  BY <1>1, LastRequest
<1>3. CASE ra_request' = ra_request /\ ra_reaction' = ra_reaction
  BY <1>3 DEF BlameInv
<1>4. ASSUME NEW right \in BOOLEAN, NEW blamed \in Charged(
                ra_db_get_application_id(Directory, AID, fault # "application"), right),
             fault \in VerdictFaults,
             ra_reaction' = IF right THEN ra_reaction
                            ELSE ra_db_set_reaction_status(blamed, fault),
             ra_request' = Replaced(ra_request, n,
                   Verdict(ra_request[n], right, message.response_time, blamed, fault))
      PROVE  DOMAIN ra_reaction' = Applications /\ BlameRight(ra_request', ra_reaction')
  <2>1. PICK q : q = ra_request[n]
    OBVIOUS
  <2>2. PICK late \in BOOLEAN : late = message.response_time
    BY <1>1 DEF ServingInv, GoodMessage
  <2>3. PICK p : p = Verdict(q, right, late, blamed, fault)
    OBVIOUS
  <2>4. GoodRequest(q, ra_prepared_data, deployed) /\ q.blamed = Null
    BY <1>2, <2>1
  <2>5. /\ GoodRequest(p, ra_prepared_data, deployed)
        /\ p.blamed = IF right THEN Null ELSE [application |-> blamed, fault |-> fault]
    BY <2>3, <2>4, VerdictFields
  <2>6. PICK others : others = Replaced(ra_request, n, p)
    OBVIOUS
  <2>7. PICK m \in 1 .. Len(ra_request) : m = n
    BY <1>2
  <2>8. GoodRequests(ra_request, ra_prepared_data, deployed)
    BY <1>1 DEF ServingInv
  <2>9. /\ Len(others) = Len(ra_request) /\ others[m] = p
        /\ \A k \in 1 .. Len(ra_request) : k # m => others[k] = ra_request[k]
    <3>1. others = Replaced(ra_request, m, p)
      BY <2>6, <2>7
    <3>2. QED
      BY <2>5, <2>8, <3>1, RequestChanged
  <2>10. ra_request' = others
    BY <1>4, <2>1, <2>2, <2>3, <2>6
  <2>11. CASE right
    <3>1. SameCharges(others, ra_request)
      BY <1>2, <2>1, <2>4, <2>5, <2>7, <2>9, <2>11 DEF SameCharges
    <3>2. ra_reaction' = ra_reaction
      BY <1>4, <2>11
    <3>3. QED
      BY <2>10, <3>1, <3>2, SameBlame DEF BlameInv
  <2>12. CASE ~right
    <3>1. PICK charge : charge = [application |-> blamed, fault |-> fault]
      OBVIOUS
    <3>2. blamed \in Blamed(ra_db_get_application_id(Directory, AID, fault # "application"))
      BY <1>4, <2>12 DEF Charged
    <3>3. Own \in Directory.application /\ Own.id \in Applications
      BY <1>2, OwnFound DEF Applications
    <3>4. fault # "application" => blamed = Own.id
      BY <1>2, <3>2, OwnFound DEF Blamed
    <3>5. blamed \in {0} \cup Applications
      BY <3>2, <3>3, <3>4 DEF Blamed, ra_db_get_application_id, Lookup, BlameInv
    <3>6. charge # Null /\ charge.fault = fault
      <4>1. charge \in [application : {0} \cup {a.id : a \in Directory.application},
                        fault : {"none", "application", "reaction", "finalize"}]
        BY <1>4, <3>1, <3>5 DEF Applications, VerdictFaults
      <4>2. QED
        BY <3>1, <4>1, DirectoryAssumption
    <3>7. p.blamed = charge
      BY <2>5, <2>12, <3>1
    <3>8. Blames(others) = Blames(ra_request) \cup {m} /\ m \notin Blames(ra_request)
      BY <1>2, <2>7, <2>9, <3>6, <3>7 DEF Blames
    <3>9. \A r \in Blames(ra_request) : others[r].blamed = ra_request[r].blamed
      BY <2>9, <3>8 DEF Blames
    <3>10. PICK reaction : reaction = ra_reaction'
      OBVIOUS
    <3>11. reaction = ra_db_set_reaction_status(blamed, fault)
      BY <1>4, <2>12, <3>10
    <3>12. DOMAIN reaction = Applications
      BY <3>11 DEF ra_db_set_reaction_status, DBMS_QUERY_SET_REACTION_STATUS, BlameInv
    <3>13. \A a \in Applications :
              reaction[a] = IF a = blamed /\ fault # "reaction" THEN "COMPROMISED"
                            ELSE ra_reaction[a]
      BY <3>11 DEF ra_db_set_reaction_status, DBMS_QUERY_SET_REACTION_STATUS, BlameInv
    <3>14. BlameRight(ra_request, ra_reaction)
      BY DEF BlameInv
    <3>15. CASE fault = "application"
      <4>1. LostBlames(others) = LostBlames(ra_request) \cup {m}
        BY <2>9, <3>6, <3>7, <3>8, <3>9, <3>15 DEF LostBlames
      <4>2. OwnBlames(others) = OwnBlames(ra_request)
        BY <3>8, <3>9, <4>1 DEF OwnBlames, LostBlames
      <4>3. BlameRight(others, reaction)
        BY <3>3, <3>13, <3>14, <4>1, <4>2 DEF BlameRight
      <4>4. QED
        BY <2>10, <3>10, <3>12, <4>3
    <3>16. CASE fault # "application"
      <4>1. LostBlames(others) = LostBlames(ra_request)
        BY <2>9, <3>6, <3>7, <3>8, <3>9, <3>16 DEF LostBlames
      <4>2. m \notin LostBlames(ra_request)
        BY <3>8 DEF LostBlames
      <4>3. OwnBlames(others) \subseteq OwnBlames(ra_request) \cup {m}
        BY <3>8, <3>9, <4>1 DEF OwnBlames
      <4>4. fault = "reaction" => OwnBlames(others) \subseteq OwnBlames(ra_request)
        BY <2>9, <3>6, <3>7, <4>3 DEF OwnBlames
      <4>5. BlameRight(others, reaction)
        BY <3>3, <3>4, <3>8, <3>13, <3>14, <3>16, <4>1, <4>3, <4>4 DEF BlameRight
      <4>6. QED
        BY <2>10, <3>10, <3>12, <4>5
    <3>17. QED
      BY <3>15, <3>16
  <2>13. QED
    BY <2>11, <2>12
<1>5. QED
  BY <1>3, <1>4, VerifyDoes DEF BlameInv

(* Every step keeps the invariant. *)
LEMMA BlameStep == ASSUME BlameInv, [Next]_vars PROVE BlameInv'
<1>1. ServingInv' /\ ServingInv
  BY ServingStep DEF BlameInv
<1>2. ASSUME SameCharges(ra_request', ra_request), ra_reaction' = ra_reaction
      PROVE  BlameInv'
  BY <1>1, <1>2, SameBlame DEF BlameInv
<1>3. ASSUME ra_request' = ra_request, ra_reaction' = ra_reaction
      PROVE  BlameInv'
  BY <1>1, <1>3 DEF BlameInv
<1>4. CASE Extractor
  BY <1>1, <1>3, <1>4, ExtractorLeaves DEF ServingInv, serverVars
<1>5. CASE ServeClient
  BY <1>1, <1>2, <1>5, IssueBlames DEF ServeClient
<1>6. CASE \E row \in Directory.startup : AttestAtStartup(row.memory_area)
  BY <1>1, <1>2, <1>6, IssueBlames DEF AttestAtStartup
<1>7. CASE \E t \in Tampered : Tamper(t)
  BY <1>3, <1>7 DEF Tamper, serverVars
<1>8. CASE \E fault \in {"none", "nonce", "labels", "buffer", "data", "hash", "response",
                         "send"} : Attest(fault)
  BY <1>1, <1>2, <1>8, AttestBlames
<1>9. CASE \E fault \in {"none", "fork", "late"} : ForwardResponse(fault)
  BY <1>3, <1>9 DEF ForwardResponse
<1>10. CASE \E fault \in AllVerifyFaults : Verify(fault)
  BY <1>1, <1>10, VerifyBlames DEF BlameInv
<1>11. CASE UNCHANGED vars
  BY <1>3, <1>11 DEF vars
<1>12. QED
  BY <1>4, <1>5, <1>6, <1>7, <1>8, <1>9, <1>10, <1>11
     DEF Next, Attestations, AllVerifyFaults, VerdictFaults

(* The client's application is marked as compromised when, and only when, a *)
(* response of it was found wrong; another one only after the id was not    *)
(* found (verifier.c:71-77), for any deployment, any directory and any      *)
(* sequence of failures.                                                    *)
THEOREM BlameIsRightHolds == Spec => []BlameIsRight
<1>1. Init => BlameInv
  <2>1. SUFFICES ASSUME Init PROVE BlameInv
    OBVIOUS
  <2>2. ServingInv
    BY <2>1, ServingInit
  <2>3. ra_request = <<>> /\ ra_reaction = [a \in Applications |-> "UNKNOWN"]
    BY <2>1 DEF Init, Applications
  <2>4. Blames(ra_request) = {} /\ LostBlames(ra_request) = {} /\ OwnBlames(ra_request) = {}
    BY <2>3 DEF Blames, LostBlames, OwnBlames
  <2>5. BlameRight(ra_request, ra_reaction)
    BY <2>3, <2>4 DEF BlameRight
  <2>6. QED
    BY <2>2, <2>3, <2>5 DEF BlameInv
<1>2. BlameInv /\ [Next]_vars => BlameInv'
  BY BlameStep
<1>3. BlameInv => BlameIsRight
  <2>1. SUFFICES ASSUME BlameInv PROVE BlameIsRight
    OBVIOUS
  <2>2. DOMAIN ra_request = 1 .. Len(ra_request)
    BY <2>1 DEF BlameInv, ServingInv, GoodRequests
  <2>3. BlameRight(ra_request, ra_reaction) /\ DOMAIN ra_reaction = Applications
    BY <2>1 DEF BlameInv
  <2>4. PICK blame : blame = Blames(ra_request)
    OBVIOUS
  <2>5. PICK lost : lost = LostBlames(ra_request)
    OBVIOUS
  <2>6. /\ blame = {r \in DOMAIN ra_request : ra_request[r].blamed # Null}
        /\ lost = {r \in blame : ra_request[r].blamed.fault = "application"}
    BY <2>2, <2>4, <2>5 DEF Blames, LostBlames
  <2>7. /\ \A a \in DOMAIN ra_reaction : ra_reaction[a] = "COMPROMISED" =>
              \/ lost # {}
              \/ a = Own.id /\ blame # {}
        /\ (\E r \in blame \ lost : ra_request[r].blamed.fault # "reaction") =>
              ra_reaction[Own.id] = "COMPROMISED"
    BY <2>3, <2>4, <2>5 DEF BlameRight, OwnBlames
  <2>8. QED
    BY <2>6, <2>7 DEF BlameIsRight, Own
<1>4. QED
  BY <1>1, <1>2, <1>3, PTL DEF Spec

-----------------------------------------------------------------------------
(* Bytes *)

(* The memories with the addresses of .text. *)
Memories == [DOMAIN Text -> 0 .. 255]

(* The blocks of a plan lie in .text. *)
InText(plan) ==
    \A j \in 1 .. Len(plan.blocks) :
        plan.blocks[j].offset + plan.blocks[j].size <= Len(Executable.text)

(* The search for the byte at some place finds the one at its address. *)
FoundAt(plan, memory, x) ==
    LET address == Addresses(plan)[x + 1] IN
    /\ address \in DOMAIN Text
    /\ \A label : ra_mA_get_byte(memory, Filled(label, plan.blocks), x) = memory[address]

(* An area has as many addresses as bytes. *)
LEMMA AddressFacts ==
    ASSUME NEW plan \in Plan
    PROVE  /\ Addresses(plan) \in Seq(Nat)
           /\ Len(Addresses(plan)) = BytesOf(plan.blocks)
           /\ \A memory \in Memories : InText(plan) =>
                 \A x \in Nat : x < BytesOf(plan.blocks) => FoundAt(plan, memory, x)
<1>1. PICK blocks \in Seq(AnyBlock) : blocks = plan.blocks
  BY DEF Plan
<1>2. PICK n \in Nat : n = Len(blocks)
  OBVIOUS
<1>3. \A k \in 1 .. n : blocks[k] \in AnyBlock
  BY <1>2, ElementOfSeq
<1>4. \A k \in 1 .. n : blocks[k].offset \in Nat /\ blocks[k].size \in Nat
  BY <1>3 DEF AnyBlock, memory_block_t
<1> DEFINE piece(k) == [i \in 1 .. blocks[k].size |-> blocks[k].offset + i - 1]
           c == [k \in 1 .. n |-> piece(k)]
<1>5. ASSUME NEW k \in 1 .. n
      PROVE  piece(k) \in Seq(Nat) /\ Len(piece(k)) = blocks[k].size
  <2>1. PICK o \in Nat, z \in Nat : o = blocks[k].offset /\ z = blocks[k].size
    BY <1>4
  <2>2. piece(k) = [i \in 1 .. z |-> o + i - 1]
    BY <2>1
  <2>3. \A i \in 1 .. z : o + i - 1 \in Nat
    OBVIOUS
  <2>4. [i \in 1 .. z |-> o + i - 1] \in Seq(Nat) /\ Len([i \in 1 .. z |-> o + i - 1]) = z
    BY <2>3
  <2>5. QED
    BY <2>1, <2>2, <2>4
<1>6. c \in [1 .. n -> Seq(Nat)] /\ \A k \in 1 .. n : Len(c[k]) = blocks[k].size
  <2> HIDE DEF piece
  <2>1. QED
    BY <1>5
<1>7. \A k \in 1 .. n : \A i \in 1 .. blocks[k].size : c[k][i] = blocks[k].offset + i - 1
  OBVIOUS
<1>8. Addresses(plan) = FlattenSeq(c)
  <2>1. [j \in DOMAIN plan.blocks |->
            [k \in 1 .. plan.blocks[j].size |-> plan.blocks[j].offset + k - 1]] = c
    <3>1. DOMAIN blocks = 1 .. n
      BY <1>2
    <3>2. QED
      BY <1>1, <3>1
  <2>2. QED
    BY <2>1 DEF Addresses
<1> HIDE DEF c, piece
<1>9. PICK h : Joins(h, c, n) /\ FlattenSeq(c) = h[n]
  BY <1>6, FlattenIsJoin
<1>10. h[n] \in Seq(Nat)
  <2>1. n \in 0 .. n
    OBVIOUS
  <2>2. QED
    BY <1>6, <1>9, <2>1, JoinType
<1>11. \A k \in 0 .. n : Len(h[k]) = LowerBound(blocks, k + 1)
  <2>1. Pieces(c, blocks, n, Nat)
    BY <1>6 DEF Pieces
  <2>2. QED
    BY <1>9, <2>1, BufferLengths
<1>12. Len(h[n]) = BytesOf(blocks)
  BY <1>2, <1>11 DEF BytesOf
<1>13. ASSUME NEW memory \in Memories, InText(plan), NEW x \in Nat, x < BytesOf(blocks)
       PROVE  FoundAt(plan, memory, x)
  <2>1. PICK k \in 1 .. n :
              /\ BlockOfByte(blocks, x) = k
              /\ LowerBound(blocks, k) \in Nat
              /\ LowerBound(blocks, k) <= x
              /\ x < LowerBound(blocks, k) + blocks[k].size
    BY <1>2, <1>13, BlockFound
  <2>2. PICK o \in Nat, z \in Nat, l \in Nat :
            o = blocks[k].offset /\ z = blocks[k].size /\ l = LowerBound(blocks, k)
    BY <1>4, <2>1
  <2>3. PICK i \in 1 .. z : i = x - l + 1
    BY <2>1, <2>2
  <2>4. Len(h[k - 1]) = l
    <3>1. k - 1 \in 0 .. n /\ (k - 1) + 1 = k
      OBVIOUS
    <3>2. QED
      BY <1>11, <2>2, <3>1
  <2>5. h[n][l + i] = c[k][i]
    <3>1. Placed(h, c, n, k)
      BY <1>6, <1>9, JoinPlaces
    <3>2. Len(c[k]) = z
      BY <1>6, <2>2
    <3>3. QED
      BY <2>4, <3>1, <3>2 DEF Placed
  <2>6. l + i = x + 1 /\ c[k][i] = o + (x - l)
    BY <1>7, <2>2, <2>3
  <2>7. PICK a : a = Addresses(plan)[x + 1]
    OBVIOUS
  <2>8. a = o + (x - l)
    BY <1>8, <1>9, <2>5, <2>6, <2>7
  <2>9. DOMAIN Text = 0 .. (Len(Executable.text) - 1)
    BY DEF Text
  <2>10. PICK t \in Nat : t = Len(Executable.text)
    BY DeploymentAssumption
  <2>11. o + z <= t
    BY <1>1, <1>2, <1>13, <2>2, <2>10 DEF InText
  <2>12. a \in DOMAIN Text
    <3>1. l <= x /\ x < l + z
      BY <2>1, <2>2
    <3>2. o + (x - l) \in 0 .. (t - 1)
      BY <2>11, <3>1
    <3>3. QED
      BY <2>8, <2>9, <2>10, <3>2
  <2>13. a \in DOMAIN memory
    BY <2>12 DEF Memories
  <2>14. ASSUME NEW label
         PROVE  ra_mA_get_byte(memory, Filled(label, blocks), x) = memory[a]
    <3>1. PICK area : area = Filled(label, blocks)
      OBVIOUS
    <3>2. area.blocks = blocks /\ area.total_blocks = n
          /\ area.head = IF blocks = <<>> THEN "null" ELSE "live"
      BY <1>2, <3>1 DEF Filled
    <3>3. n # 0 /\ blocks # <<>>
      BY <1>2
    <3>4. ra_mA_get_byte(memory, area, x) = ra_mB_get_byte(memory, blocks[k], x - l)
      BY <2>1, <2>2, <3>2, <3>3 DEF ra_mA_get_byte, NeverFilled
    <3>5. blocks[k].offset + (x - l) \in DOMAIN memory
      BY <2>2, <2>8, <2>13
    <3>6. QED
      BY <2>2, <2>8, <3>1, <3>4, <3>5 DEF ra_mB_get_byte
  <2>15. QED
    BY <1>1, <2>7, <2>12, <2>14 DEF FoundAt
<1>14. QED
  BY <1>1, <1>8, <1>9, <1>10, <1>12, <1>13

(* The bytes at the addresses of some places. *)
Pick(memory, plan, places) == [i \in DOMAIN places |-> memory[Addresses(plan)[places[i] + 1]]]

(* BytesAt yields them, whatever the label. *)
ReadsBytes(memory, plan, places) ==
    \A label : BytesAt(memory, Filled(label, plan.blocks), places) = Pick(memory, plan, places)

(* It does for places inside of the area. *)
LEMMA BytesAtIs ==
    ASSUME NEW plan \in Plan, InText(plan), NEW memory \in Memories,
           NEW m \in Nat, NEW places \in [1 .. m -> Nat],
           \A i \in 1 .. m : places[i] < BytesOf(plan.blocks)
    PROVE  /\ ReadsBytes(memory, plan, places)
           /\ Pick(memory, plan, places) \in [1 .. m -> 0 .. 255]
<1>1. \A i \in 1 .. m : FoundAt(plan, memory, places[i])
  BY AddressFacts
<1> SUFFICES ASSUME NEW label
             PROVE  /\ BytesAt(memory, Filled(label, plan.blocks), places)
                         = Pick(memory, plan, places)
                    /\ Pick(memory, plan, places) \in [1 .. m -> 0 .. 255]
  BY DEF ReadsBytes
<1>2. PICK area : area = Filled(label, plan.blocks)
  OBVIOUS
<1>3. PICK bytes : bytes = [i \in DOMAIN places |-> ra_mA_get_byte(memory, area, places[i])]
  OBVIOUS
<1>4. \A i \in 1 .. m : /\ ra_mA_get_byte(memory, area, places[i])
                             = memory[Addresses(plan)[places[i] + 1]]
                        /\ memory[Addresses(plan)[places[i] + 1]] \in 0 .. 255
  BY <1>1, <1>2 DEF FoundAt, Memories
<1>5. bytes = Pick(memory, plan, places)
  BY <1>3, <1>4 DEF Pick
<1>6. bytes \in [1 .. m -> 0 .. 255]
  BY <1>3, <1>4
<1>7. bytes \in Seq(0 .. 255) /\ Len(bytes) = m
  BY <1>6
<1>8. \A i \in 1 .. m : ~(bytes[i] = Failed \/ bytes[i] = Undefined)
  <2>1. ASSUME NEW i \in 1 .. m PROVE bytes[i] \in Nat
    <3>1. bytes[i] \in 0 .. 255
      BY <1>6
    <3>2. QED
      BY <3>1, 0 .. 255 \subseteq Nat
  <2>2. QED
    BY <2>1, PointerAssumption
<1>9. SelectInSeq(bytes, LAMBDA b : b = Failed \/ b = Undefined) = 0
  <2>1. {i \in 1 .. Len(bytes) : bytes[i] = Failed \/ bytes[i] = Undefined} = {}
    BY <1>7, <1>8
  <2>2. QED
    BY <2>1 DEF SelectInSeq
<1>10. BytesAt(memory, area, places) = bytes
  BY <1>3, <1>9 DEF BytesAt
<1>11. QED
  BY <1>2, <1>5, <1>6, <1>10

-----------------------------------------------------------------------------
(* Walks *)

(* What NumberTheory says of a number. *)
Sums2(half) == \E p \in 2 .. half : IsPrime(p) /\ IsPrime(2 * half - p)

NumberFacts(n) ==
    /\ n >= 2 => \E p \in 2 .. n : IsPrime(p) /\ 2 * p > n
    /\ \A half \in 2 .. (n \div 2) : 2 * half <= LastPartition => Sums2(half)

(* The two parts of a window. *)
HalfOf(nonce, d) == WindowOf(nonce, d) \div 2

Fits(nonce, d) ==
    /\ Decodable(nonce, d)
    /\ d.preparation = "goldbach" =>
          2 <= HalfOf(nonce, d) /\ 2 * HalfOf(nonce, d) <= LastPartition

LeftOf(nonce, d)  == goldbach_left(2 * HalfOf(nonce, d))
RightOf(nonce, d) == goldbach_right(2 * HalfOf(nonce, d))

(* The table of partitions. *)
LEMMA GoldbachParts ==
    ASSUME NEW half \in Nat, 2 <= half, 2 * half <= LastPartition, Sums2(half)
    PROVE  /\ goldbach_left(2 * half) \in 2 .. half
           /\ goldbach_right(2 * half) = 2 * half - goldbach_left(2 * half)
           /\ IsPrime(goldbach_left(2 * half)) /\ IsPrime(goldbach_right(2 * half))
<1> DEFINE P(p) == IsPrime(p) /\ IsPrime(2 * half - p)
           D == {m \in Nat : m <= half - 2 /\ P(half - m)}
<1>1. PICK p \in 2 .. half : P(p)
  BY DEF Sums2
<1>2. half - p \in D
  <2>1. half - p \in Nat /\ half - (half - p) = p /\ half - p <= half - 2
    OBVIOUS
  <2>2. QED
    BY <1>1, <2>1
<1>3. PICK m \in D : \A k \in D : m <= k
  BY <1>2, LeastNumber, D \in SUBSET Nat
<1>4. half - m \in 2 .. half /\ P(half - m)
  BY <1>3
<1>5. ASSUME NEW q \in ((half - m) + 1) .. half PROVE ~P(q)
  <2>1. half - q \in Nat /\ ~(m <= half - q) /\ half - q <= half - 2 /\ half - (half - q) = q
    BY <1>4
  <2>2. half - q \notin D
    BY <1>3, <2>1
  <2>3. QED
    BY <2>1, <2>2
<1> DEFINE C(l) == /\ IsPrime(l) /\ IsPrime(2 * half - l)
                   /\ \A q \in (l + 1) .. half : ~(IsPrime(q) /\ IsPrime(2 * half - q))
           left == CHOOSE l \in 2 .. half : C(l)
<1>6. C(half - m)
  BY <1>4, <1>5
<1>7. left \in 2 .. half /\ C(left)
  <2> HIDE DEF C
  <2>1. QED
    BY <1>4, <1>6
<1>8. (2 * half) \div 2 = half /\ ~(2 * half > LastPartition)
  BY DEF LastPartition
<1>9. goldbach_partitions(2 * half) = <<left, 2 * half - left>>
  BY <1>8 DEF goldbach_partitions
<1> HIDE DEF left
<1>10. goldbach_left(2 * half) = left /\ goldbach_right(2 * half) = 2 * half - left
  BY <1>9 DEF goldbach_left, goldbach_right
<1>11. QED
  BY <1>7, <1>10

(* The fields of what is decoded. *)
LEMMA InfoFields ==
    ASSUME NEW nonce, NEW d
    PROVE  /\ InfoOf(nonce, d).result = "RA_SUCCESS"
           /\ InfoOf(nonce, d).area_label = LabelOf(nonce, d)
           /\ InfoOf(nonce, d).actual_buffer_size = WindowOf(nonce, d)
           /\ InfoOf(nonce, d).generator = StepOf(nonce, d)
           /\ InfoOf(nonce, d).initial_offset = OffsetOf(nonce, d)
  BY DEF InfoOf, decoded_info

(* A place of a walk over n places. *)
LEMMA IndexInside ==
    ASSUME NEW g \in Nat, NEW k \in Nat, NEW n \in Nat, n > 0
    PROVE  calculate_index(g, k, n) \in Nat /\ calculate_index(g, k, n) < n
<1>1. PICK x \in Nat : x = g * k
  OBVIOUS
<1>2. n \in Nat \ {0} /\ x \in Int
  OBVIOUS
<1>3. x % n \in Nat /\ x % n < n
  BY ONLY <1>2, DivMod
<1>4. QED
  BY <1>1, <1>3 DEF calculate_index

(* The walk stays inside of the area. *)
LEMMA WalkInside ==
    ASSUME NEW d, Buildable(d), NEW nonce \in AnyNonce, Decodable(nonce, d)
    PROVE  /\ Walk(InfoOf(nonce, d)) \in [1 .. WindowOf(nonce, d) -> Nat]
           /\ \A i \in 1 .. WindowOf(nonce, d) :
                /\ Walk(InfoOf(nonce, d))[i] < SizeOf(nonce, d)
                /\ Walk(InfoOf(nonce, d))[i]
                     = calculate_index(StepOf(nonce, d), i - 1, WindowOf(nonce, d))
                         + OffsetOf(nonce, d)
<1>1. PICK n \in Nat : n = SizeOf(nonce, d)
  BY InfoNumbers
<1>2. PICK w \in Nat : w = WindowOf(nonce, d) /\ w >= 2
  BY InfoNumbers
<1>3. PICK g \in Nat : g = StepOf(nonce, d)
  BY InfoNumbers
<1>4. PICK o \in Nat : o = OffsetOf(nonce, d) /\ o + w <= n
  BY <1>1, <1>2, InfoNumbers
<1>5. PICK walk : walk = Walk(InfoOf(nonce, d))
  OBVIOUS
<1>6. walk = [i \in 1 .. w |-> calculate_index(g, i - 1, w) + o]
  BY <1>2, <1>3, <1>4, <1>5, InfoFields DEF Walk
<1>7. ASSUME NEW i \in 1 .. w
      PROVE  calculate_index(g, i - 1, w) + o \in Nat /\ calculate_index(g, i - 1, w) + o < n
  <2>1. PICK k \in Nat : k = i - 1
    OBVIOUS
  <2> w > 0
    BY <1>2
  <2>a. calculate_index(g, k, w) \in Nat /\ calculate_index(g, k, w) < w
    BY IndexInside
  <2>2. PICK x \in Nat : x = calculate_index(g, k, w) /\ x < w
    BY <2>a
  <2>3. x + o \in Nat /\ x + o < n
    BY <1>4, <2>2
  <2>4. QED
    BY <2>1, <2>2, <2>3
<1>8. walk \in [1 .. w -> Nat] /\ \A i \in 1 .. w : walk[i] < n
                                     /\ walk[i] = calculate_index(g, i - 1, w) + o
  BY <1>6, <1>7
<1>9. QED
  BY <1>1, <1>2, <1>3, <1>4, <1>5, <1>8

-----------------------------------------------------------------------------
(* The two walks of the Goldbach preparation, and the prepared bytes *)

LeftWalk(nonce, d) ==
    LET walk == GoldbachWalk(InfoOf(nonce, d)) IN [i \in DOMAIN walk |-> walk[i][1]]
RightWalk(nonce, d) ==
    LET walk == GoldbachWalk(InfoOf(nonce, d)) IN [i \in DOMAIN walk |-> walk[i][2]]

(* What they are, for parts of l and r places. *)
TwoWalks(nonce, d, l, r) ==
    /\ LeftWalk(nonce, d) \in [1 .. r -> Nat] /\ RightWalk(nonce, d) \in [1 .. r -> Nat]
    /\ \A i \in 1 .. r :
          /\ LeftWalk(nonce, d)[i] < SizeOf(nonce, d)
          /\ RightWalk(nonce, d)[i] < SizeOf(nonce, d)
          /\ LeftWalk(nonce, d)[i]
               = calculate_index(StepOf(nonce, d) % r, i - 1, l) + OffsetOf(nonce, d)
          /\ RightWalk(nonce, d)[i]
               = calculate_index(StepOf(nonce, d) % l, i - 1, r) + l + OffsetOf(nonce, d)

(* They stay inside of the area. *)
LEMMA GoldbachInside ==
    ASSUME NEW d, Buildable(d), NEW nonce \in AnyNonce, Fits(nonce, d),
           d.preparation = "goldbach", Sums2(HalfOf(nonce, d))
    PROVE  /\ GoldbachWalk(InfoOf(nonce, d)) # Undefined
           /\ LeftOf(nonce, d) \in Nat /\ RightOf(nonce, d) \in Nat
           /\ TwoWalks(nonce, d, LeftOf(nonce, d), RightOf(nonce, d))
<1>0. Decodable(nonce, d)
  BY DEF Fits
<1>1. PICK n \in Nat : n = SizeOf(nonce, d)
  BY <1>0, InfoNumbers
<1>2. PICK w \in Nat : w = WindowOf(nonce, d) /\ w >= 2
  BY <1>0, InfoNumbers
<1>3. PICK g \in Nat : g = StepOf(nonce, d)
  BY <1>0, InfoNumbers
<1>4. PICK o \in Nat : o = OffsetOf(nonce, d) /\ o + w <= n
  BY <1>0, <1>1, <1>2, InfoNumbers
<1>5. PICK half \in Nat : half = HalfOf(nonce, d) /\ 2 * half <= w /\ half = w \div 2
  BY <1>2 DEF HalfOf
<1>6. 2 <= half /\ 2 * half <= LastPartition /\ Sums2(half)
  BY <1>5 DEF Fits
<1>7. PICK l \in Nat : l = goldbach_left(2 * half) /\ l >= 2 /\ l <= half
  BY <1>6, GoldbachParts
<1>8. PICK r \in Nat : r = goldbach_right(2 * half) /\ r = 2 * half - l
  BY <1>6, <1>7, GoldbachParts
<1>9. l > 0 /\ r > 0 /\ l + r <= w /\ ~(l > r)
  BY <1>5, <1>6, <1>7, <1>8
<1>10. l # Undefined /\ l # 0
  BY <1>9, PointerAssumption
<1>11. PICK walk : walk = GoldbachWalk(InfoOf(nonce, d))
  OBVIOUS
<1>12. walk = [i \in 1 .. r |-> <<calculate_index(g % r, i - 1, l) + o,
                                  calculate_index(g % l, i - 1, r) + l + o>>]
  <2>1. PICK info : info = InfoOf(nonce, d)
    OBVIOUS
  <2>2. info.actual_buffer_size = w /\ info.generator = g /\ info.initial_offset = o
    BY <1>2, <1>3, <1>4, <2>1, InfoFields
  <2>3. GoldbachWalk(info)
          = [i \in 1 .. r |-> <<calculate_index(g % r, i - 1, l) + o,
                                  calculate_index(g % l, i - 1, r) + l + o>>]
    BY <1>5, <1>7, <1>8, <1>9, <1>10, <2>2 DEF GoldbachWalk, calculate_index_goldbach
  <2>4. QED
    BY <1>11, <2>1, <2>3
<1>13. g % r \in Nat /\ g % l \in Nat
  <2>1. r \in Nat \ {0} /\ l \in Nat \ {0} /\ g \in Int
    BY <1>9
  <2>2. QED
    BY ONLY <2>1, DivMod
<1>14. PICK a \in Nat, b \in Nat : a = g % r /\ b = g % l
  BY <1>13
<1>15. ASSUME NEW i \in 1 .. r
       PROVE  /\ calculate_index(a, i - 1, l) + o \in Nat
              /\ calculate_index(b, i - 1, r) + l + o \in Nat
              /\ calculate_index(a, i - 1, l) + o < n
              /\ calculate_index(b, i - 1, r) + l + o < n
  <2>1. PICK k \in Nat : k = i - 1
    OBVIOUS
  <2>2. calculate_index(a, k, l) \in Nat /\ calculate_index(a, k, l) < l
    BY <1>9, IndexInside
  <2>3. calculate_index(b, k, r) \in Nat /\ calculate_index(b, k, r) < r
    BY <1>9, IndexInside
  <2>4. PICK x \in Nat, y \in Nat :
           x = calculate_index(a, k, l) /\ y = calculate_index(b, k, r) /\ x < l /\ y < r
    BY <2>2, <2>3
  <2>5. x + o \in Nat /\ y + l + o \in Nat /\ x + o < n /\ y + l + o < n
    BY <1>4, <1>9, <2>4
  <2>6. QED
    BY <2>1, <2>4, <2>5
<1>16. walk \in [1 .. r -> Seq(Nat)]
  <2>1. \A x \in Nat, y \in Nat : <<x, y>> \in Seq(Nat)
    OBVIOUS
  <2>2. QED
    BY <1>12, <1>14, <1>15, <2>1
<1>17. walk # Undefined
  <2>1. walk \in Seq(Seq(Nat))
    BY <1>16, SeqDef
  <2>2. QED
    BY <2>1, DecodingAssumption
<1>18. PICK lw, rw : lw = LeftWalk(nonce, d) /\ rw = RightWalk(nonce, d)
  OBVIOUS
<1>19. /\ lw = [i \in 1 .. r |-> calculate_index(a, i - 1, l) + o]
       /\ rw = [i \in 1 .. r |-> calculate_index(b, i - 1, r) + l + o]
  <2>1. DOMAIN walk = 1 .. r
    BY <1>16
  <2>2. \A i \in 1 .. r : walk[i] = <<calculate_index(a, i - 1, l) + o,
                                     calculate_index(b, i - 1, r) + l + o>>
    BY <1>12, <1>14
  <2>3. \A i \in 1 .. r : /\ walk[i][1] = calculate_index(a, i - 1, l) + o
                          /\ walk[i][2] = calculate_index(b, i - 1, r) + l + o
    BY <2>2
  <2>4. lw = [i \in DOMAIN walk |-> walk[i][1]] /\ rw = [i \in DOMAIN walk |-> walk[i][2]]
    BY <1>11, <1>18 DEF LeftWalk, RightWalk
  <2>5. lw = [i \in 1 .. r |-> walk[i][1]]
    BY <2>1, <2>4
  <2>6. rw = [i \in 1 .. r |-> walk[i][2]]
    BY <2>1, <2>4
  <2>7. QED
    BY <2>3, <2>5, <2>6
<1>20. lw \in [1 .. r -> Nat] /\ rw \in [1 .. r -> Nat]
  BY <1>15, <1>19
<1>21. \A i \in 1 .. r : /\ lw[i] < n /\ rw[i] < n
                         /\ lw[i] = calculate_index(a, i - 1, l) + o
                         /\ rw[i] = calculate_index(b, i - 1, r) + l + o
  BY <1>15, <1>19
<1>22. LeftOf(nonce, d) = l /\ RightOf(nonce, d) = r
  BY <1>5, <1>7, <1>8 DEF LeftOf, RightOf
<1>23. TwoWalks(nonce, d, l, r)
  BY <1>1, <1>3, <1>4, <1>14, <1>18, <1>20, <1>21 DEF TwoWalks
<1>24. QED
  BY <1>11, <1>17, <1>22, <1>23

(* The bytes that a preparation stores, from the memory given. *)
Attested(nonce, memory, d) ==
    IF d.preparation = "goldbach"
    THEN Sums(Pick(memory, PlanOf(nonce, d), LeftWalk(nonce, d)),
              Pick(memory, PlanOf(nonce, d), RightWalk(nonce, d)))
    ELSE Pick(memory, PlanOf(nonce, d), Walk(InfoOf(nonce, d)))

(* The areas of a deployment, for which NumberTheory holds. *)
LEMMA AreaFacts ==
    ASSUME NEW d \in Deployments, d.areas # <<>>, NEW nonce \in AnyNonce
    PROVE  /\ Buildable(d) /\ PlanOf(nonce, d) \in Plan
           /\ InText(PlanOf(nonce, d))
           /\ Len(Addresses(PlanOf(nonce, d))) = SizeOf(nonce, d)
           /\ NumberFacts(SizeOf(nonce, d))
<1>1. Buildable(d)
  BY ConstantFacts
<1>2. PICK k \in 1 .. Len(d.areas) : k = IndexOf(nonce, d) /\ d.areas[k] \in Plan
  BY <1>1, IndexInRange
<1>3. PlanOf(nonce, d) = d.areas[k]
  BY <1>2 DEF PlanOf
<1>4. d.areas \in Seq(Plan) /\ k \in DOMAIN d.areas
  BY <1>1 DEF Buildable
<1>5. PICK plan \in Plan : plan = d.areas[k]
  BY <1>2
<1>6. InText(plan)
  <2>1. plan.blocks \in Seq(AnyBlock)
    BY DEF Plan
  <2>2. DOMAIN plan.blocks = 1 .. Len(plan.blocks)
    BY <2>1
  <2>3. QED
    BY <1>4, <1>5, <2>2, DeploymentAssumption DEF InText
<1>7. Len(Addresses(plan)) = BytesOf(plan.blocks)
  BY AddressFacts
<1>8. plan \in UNION {ToSet(deployment.areas) : deployment \in Deployments}
  BY <1>4, <1>5 DEF ToSet
<1>9. PICK n : n = Len(Addresses(plan))
  OBVIOUS
<1>10. n \in {Len(Addresses(area)) : area \in UNION {ToSet(deployment.areas) :
                                                  deployment \in Deployments}}
  BY <1>8, <1>9
<1>11. NumberFacts(n)
  BY <1>10, NumberTheory DEF NumberFacts, Sums2
<1>12. QED
  BY <1>1, <1>2, <1>3, <1>5, <1>6, <1>7, <1>9, <1>11 DEF SizeOf

(* A window that fits has a partition. *)
LEMMA HasPartition ==
    ASSUME NEW d, Buildable(d), NEW nonce \in AnyNonce, Fits(nonce, d),
           d.preparation = "goldbach", NumberFacts(SizeOf(nonce, d))
    PROVE  Sums2(HalfOf(nonce, d))
<1>1. PICK n \in Nat, w \in Nat : n = SizeOf(nonce, d) /\ w = WindowOf(nonce, d) /\ w <= n
  BY InfoNumbers DEF Fits
<1>2. PICK half \in Nat : half = HalfOf(nonce, d) /\ half = w \div 2
  BY <1>1 DEF HalfOf
<1>3. half <= n \div 2 /\ n \div 2 \in Int
  BY <1>1, <1>2
<1>4. half \in 2 .. (n \div 2) /\ 2 * half <= LastPartition
  BY <1>2, <1>3 DEF Fits
<1>5. QED
  BY <1>1, <1>2, <1>4 DEF NumberFacts

(* The sums of two sequences of bytes are bytes. *)
LEMMA SumsAreBytes ==
    ASSUME NEW m \in Nat, NEW left \in [1 .. m -> 0 .. 255], NEW right \in [1 .. m -> 0 .. 255]
    PROVE  /\ Sums(left, right) = [i \in 1 .. m |-> (left[i] + right[i]) % 256]
           /\ Sums(left, right) \in [1 .. m -> 0 .. 255]
<1>1. left \in Seq(Nat) /\ right \in Seq(Nat)
  <2>1. left \in [1 .. m -> Nat] /\ right \in [1 .. m -> Nat]
    BY 0 .. 255 \subseteq Nat
  <2>2. QED
    BY <2>1, SeqDef
<1>2. left \notin {Undefined, Failed} /\ right \notin {Undefined, Failed}
  BY <1>1, PointerAssumption
<1>3. Sums(left, right) = [i \in 1 .. m |-> (left[i] + right[i]) % 256]
  BY <1>2 DEF Sums
<1>4. ASSUME NEW i \in 1 .. m PROVE (left[i] + right[i]) % 256 \in 0 .. 255
  <2>1. left[i] \in 0 .. 255 /\ right[i] \in 0 .. 255
    OBVIOUS
  <2>a. PICK a \in Nat, b \in Nat : a = left[i] /\ b = right[i]
    BY <2>1, 0 .. 255 \subseteq Nat
  <2>2. PICK x \in Nat : x = left[i] + right[i]
    BY <2>a
  <2>3. x % 256 \in 0 .. 255
    OBVIOUS
  <2>4. QED
    BY <2>2, <2>3
<1>5. QED
  BY <1>3, <1>4

(* A preparation that fits stores bytes of the selected area. *)
LEMMA AttestedBytes ==
    ASSUME NEW d \in Deployments, NEW nonce \in AnyNonce, Fits(nonce, d),
           NEW memory \in Memories
    PROVE  /\ Attested(nonce, memory, d) \in Seq(0 .. 255)
           /\ Attested(nonce, memory, d) \in Seq(Nat)
           /\ d.preparation # "goldbach" =>
                 \A label : BytesAt(memory, Filled(label, PlanOf(nonce, d).blocks),
                                    Walk(InfoOf(nonce, d))) = Attested(nonce, memory, d)
           /\ d.preparation = "goldbach" =>
                 \A label :
                    Sums(BytesAt(memory, Filled(label, PlanOf(nonce, d).blocks),
                                 LeftWalk(nonce, d)),
                         BytesAt(memory, Filled(label, PlanOf(nonce, d).blocks),
                                 RightWalk(nonce, d))) = Attested(nonce, memory, d)
<1>1. d.areas # <<>> /\ Decodable(nonce, d)
  BY DEF Fits, Decodable
<1>2. PICK plan \in Plan : plan = PlanOf(nonce, d) /\ InText(plan)
  BY <1>1, AreaFacts
<1>3. Buildable(d) /\ NumberFacts(SizeOf(nonce, d))
  BY <1>1, AreaFacts
<1>4. SizeOf(nonce, d) = BytesOf(plan.blocks)
  BY <1>2 DEF SizeOf
<1>5. CASE d.preparation # "goldbach"
  <2>1. PICK m \in Nat : m = WindowOf(nonce, d)
    BY <1>1, <1>3, InfoNumbers
  <2>2. PICK places \in [1 .. m -> Nat] : places = Walk(InfoOf(nonce, d))
    BY <1>1, <1>3, <2>1, WalkInside
  <2>3. \A i \in 1 .. m : places[i] < BytesOf(plan.blocks)
    BY <1>1, <1>3, <1>4, <2>1, <2>2, WalkInside
  <2>4. Pick(memory, plan, places) \in [1 .. m -> 0 .. 255]
    BY <1>2, <2>3, BytesAtIs
  <2>5. ASSUME NEW label
        PROVE  BytesAt(memory, Filled(label, plan.blocks), places) = Pick(memory, plan, places)
    <3>1. ReadsBytes(memory, plan, places)
      BY <1>2, <2>3, BytesAtIs
    <3>2. QED
      BY <3>1 DEF ReadsBytes
  <2>6. Attested(nonce, memory, d) = Pick(memory, plan, places)
    BY <1>2, <1>5, <2>2 DEF Attested
  <2>7. Pick(memory, plan, places) \in Seq(0 .. 255)
    BY <2>4, SeqDef
  <2>8. Pick(memory, plan, places) \in Seq(Nat)
    BY <2>7, SeqMonotonic, 0 .. 255 \subseteq Nat
  <2>9. QED
    BY <1>2, <1>5, <2>2, <2>5, <2>6, <2>7, <2>8
<1>6. CASE d.preparation = "goldbach"
  <2>1. Sums2(HalfOf(nonce, d))
    BY <1>3, <1>6, HasPartition
  <2>2. PICK m \in Nat : m = RightOf(nonce, d)
    BY <1>3, <1>6, <2>1, GoldbachInside
  <2>3. TwoWalks(nonce, d, LeftOf(nonce, d), m)
    BY <1>3, <1>6, <2>1, <2>2, GoldbachInside
  <2>4. PICK lp \in [1 .. m -> Nat] : lp = LeftWalk(nonce, d)
    BY <2>3 DEF TwoWalks
  <2>5. PICK rp \in [1 .. m -> Nat] : rp = RightWalk(nonce, d)
    BY <2>3 DEF TwoWalks
  <2>6. \A i \in 1 .. m : lp[i] < BytesOf(plan.blocks)
    BY <1>4, <2>3, <2>4 DEF TwoWalks
  <2>7. \A i \in 1 .. m : rp[i] < BytesOf(plan.blocks)
    BY <1>4, <2>3, <2>5 DEF TwoWalks
  <2>8. PICK lb \in [1 .. m -> 0 .. 255] : lb = Pick(memory, plan, lp)
    BY <1>2, <2>6, BytesAtIs
  <2>9. PICK rb \in [1 .. m -> 0 .. 255] : rb = Pick(memory, plan, rp)
    BY <1>2, <2>7, BytesAtIs
  <2>10. ASSUME NEW label PROVE BytesAt(memory, Filled(label, plan.blocks), lp) = lb
    <3>1. ReadsBytes(memory, plan, lp)
      BY <1>2, <2>6, BytesAtIs
    <3>2. QED
      BY <2>8, <3>1 DEF ReadsBytes
  <2>11. ASSUME NEW label PROVE BytesAt(memory, Filled(label, plan.blocks), rp) = rb
    <3>1. ReadsBytes(memory, plan, rp)
      BY <1>2, <2>7, BytesAtIs
    <3>2. QED
      BY <2>9, <3>1 DEF ReadsBytes
  <2>12. Attested(nonce, memory, d) = Sums(lb, rb)
    BY <1>2, <1>6, <2>4, <2>5, <2>8, <2>9 DEF Attested
  <2>13. Sums(lb, rb) \in [1 .. m -> 0 .. 255]
    BY SumsAreBytes
  <2>14. Sums(lb, rb) \in Seq(0 .. 255)
    BY <2>13, SeqDef
  <2>15. Sums(lb, rb) \in Seq(Nat)
    BY <2>14, SeqMonotonic, 0 .. 255 \subseteq Nat
  <2>16. QED
    BY <1>2, <1>6, <2>4, <2>5, <2>10, <2>11, <2>12, <2>14, <2>15
<1>7. QED
  BY <1>5, <1>6

(* The areas that a nonce may select and no preparation is defined for. *)
Unusable(nonce, d) ==
    \/ Hopeless(nonce, d)
    \/ Decodable(nonce, d) /\ ~Fits(nonce, d)

(* What a preparation yields. *)
Breaks(p, nonce, d, fault) == p.table = Undefined /\ fault # "labels" /\ Unusable(nonce, d)

Stops(p, t, nonce, d, fault) ==
    p.table = t /\ p.result # "RA_SUCCESS" /\ (fault = "labels" \/ ~Fits(nonce, d))

Empties(p, t, fault) ==
    p.table = ra_reset_prepared_data(t) /\ p.result # "RA_SUCCESS" /\ fault = "buffer"

Stores(p, t, nonce, memory, d, fault) ==
    /\ p.result = "RA_SUCCESS" /\ Fits(nonce, d) /\ fault \notin {"labels", "buffer"}
    /\ p.table = ra_set_prepared_data(t, Attested(nonce, memory, d),
                                      Len(Attested(nonce, memory, d)), fault # "data").table

Outcome(p, t, nonce, memory, d, fault) ==
    \/ Breaks(p, nonce, d, fault)
    \/ Stops(p, t, nonce, d, fault)
    \/ Empties(p, t, fault)
    \/ Stores(p, t, nonce, memory, d, fault)

(* A preparation of a nonce that is set has one of these outcomes. *)
LEMMA PrepareOutcome ==
    ASSUME deployed \in Deployments, NEW t, Kept(t, deployed), NEW nonce \in AnyNonce,
           t.current_nonce = nonce, t.current_nonce_size = NonceSize,
           NEW memory \in Memories, NEW fault
    PROVE  Outcome(PrepareData(t, memory, fault), t, nonce, memory, deployed, fault)
<1>1. PICK d \in Deployments : d = deployed
  OBVIOUS
<1>2. Buildable(d)
  BY ConstantFacts
<1>3. PICK info : info = decode_nonce(d.version, t)
  OBVIOUS
<1>4. DecodesTo(info, nonce, d)
  BY <1>1, <1>2, <1>3, DecodeIs
<1>5. PICK al : al = Allocations(fault)
  OBVIOUS
<1>6. al.labels = (fault # "labels") /\ al.buffer = (fault # "buffer") /\ al.data = (fault # "data")
  BY <1>5 DEF Allocations
<1>7. ~(t.current_nonce = Null \/ t.current_nonce_size = 0)
  BY NonceFacts DEF NonceSize
<1>8. PICK p : p = PrepareData(t, memory, fault)
  OBVIOUS
<1>9. p = IF d.preparation = "goldbach" THEN PrepareDecoded_goldbach(info, t, memory, al)
          ELSE PrepareDecoded(info, t, memory, al)
  BY <1>1, <1>3, <1>5, <1>7, <1>8 DEF PrepareData, ra_prepare_data, ra_prepare_data_goldbach
<1>10. CASE fault = "labels"
  <2>1. p = Answer("RA_ERROR_GENERIC", t)
    BY <1>6, <1>9, <1>10 DEF PrepareDecoded, PrepareDecoded_goldbach
  <2>2. Stops(p, t, nonce, d, fault)
    BY <1>10, <2>1 DEF Stops, Answer
  <2>3. QED
    BY <1>1, <1>8, <2>2 DEF Outcome
<1>11. CASE fault # "labels" /\ ~Decodable(nonce, d)
  <2>1. CASE info = Undefined /\ Hopeless(nonce, d)
    <3>1. p = Answer("RA_SUCCESS", Undefined)
      BY <1>6, <1>9, <1>11, <2>1 DEF PrepareDecoded, PrepareDecoded_goldbach
    <3>2. Breaks(p, nonce, d, fault)
      BY <1>11, <2>1, <3>1 DEF Breaks, Answer, Unusable
    <3>3. QED
      BY <1>1, <1>8, <3>2 DEF Outcome
  <2>2. CASE info # Undefined /\ info.result = "RA_ERROR_GENERIC"
    <3>1. p = Answer("RA_ERROR_GENERIC", t)
      BY <1>6, <1>9, <1>11, <2>2 DEF PrepareDecoded, PrepareDecoded_goldbach
    <3>2. Stops(p, t, nonce, d, fault)
      BY <1>11, <3>1 DEF Stops, Answer, Fits
    <3>3. QED
      BY <1>1, <1>8, <3>2 DEF Outcome
  <2>3. QED
    BY <1>4, <1>11, <2>1, <2>2 DEF DecodesTo
<1>12. CASE fault # "labels" /\ Decodable(nonce, d)
  <2>1. info = InfoOf(nonce, d) /\ info # Undefined
    BY <1>4, <1>12 DEF DecodesTo
  <2>2. info.result = "RA_SUCCESS" /\ info.area_label = LabelOf(nonce, d)
    BY <2>1, InfoFields
  <2>3. d.areas # <<>>
    BY <1>12 DEF Decodable
  <2>4. PICK plan \in Plan : plan = PlanOf(nonce, d)
    BY <2>3, AreaFacts
  <2>5. PICK area : area = Filled(plan.label, plan.blocks)
    OBVIOUS
  <2>6. ra_get_memory_area(t, info.area_label) = area
    BY <1>1, <1>2, <2>2, <2>3, <2>4, <2>5, AreaFound
  <2>7. area # Null
    <3>1. plan.label \in Nat /\ plan.blocks \in Seq(AnyBlock)
      BY DEF Plan
    <3>a. \A b \in AnyBlock : b.size \in Nat
      BY DEF AnyBlock, memory_block_t
    <3>b. Filled(plan.label, plan.blocks) \in memory_area_t(Nat, AnyBlock)
      BY <3>1, <3>a, FilledType
    <3>2. area \in AnyArea
      BY <2>5, <3>b DEF AnyArea
    <3>3. QED
      BY <3>2, PointerAssumption DEF AnyArea, AnyBlock
  <2>8. CASE ~Fits(nonce, d)
    <3>1. PICK half \in Nat : half = HalfOf(nonce, d)
      BY <1>2, <1>12, InfoNumbers DEF HalfOf
    <3>2. d.preparation = "goldbach" /\ ~(2 <= half /\ 2 * half <= LastPartition)
      BY <1>12, <2>8, <3>1 DEF Fits
    <3>3. PICK even \in Nat : even = 2 * half
      OBVIOUS
    <3>4. even = 2 * (info.actual_buffer_size \div 2)
      BY <2>1, <3>1, <3>3, InfoFields DEF HalfOf
    <3>5. goldbach_left(even) = Undefined \/ goldbach_left(even) = 0
      <4>1. even < 4 \/ (~(even < 4) /\ even > LastPartition)
        BY <3>2, <3>3 DEF LastPartition
      <4>2. QED
        BY <4>1 DEF goldbach_left, goldbach_partitions
    <3>6. GoldbachWalk(info) = Undefined
      BY <3>4, <3>5 DEF GoldbachWalk
    <3>7. p = Answer("RA_SUCCESS", Undefined)
      BY <1>6, <1>9, <1>12, <2>1, <2>2, <3>2, <3>6 DEF PrepareDecoded_goldbach, PrepareWalk
    <3>8. Breaks(p, nonce, d, fault)
      BY <1>12, <2>8, <3>7 DEF Breaks, Answer, Unusable
    <3>9. QED
      BY <1>1, <1>8, <3>8 DEF Outcome
  <2>9. CASE Fits(nonce, d)
    <3>1. PICK data : data = Attested(nonce, memory, d) /\ data \in Seq(Nat)
      BY <2>9, AttestedBytes
    <3>2. data # Undefined /\ data # Failed
      BY <3>1, PointerAssumption
    <3>3. CASE fault = "buffer"
      <4>1. p = Reset("RA_ERROR_MEMORY", t)
        <5>1. CASE d.preparation # "goldbach"
          BY <1>6, <1>9, <1>12, <2>1, <2>2, <2>6, <2>7, <3>3, <5>1 DEF PrepareDecoded
        <5>2. CASE d.preparation = "goldbach"
          <6>1. GoldbachWalk(info) # Undefined
            <7>1. Sums2(HalfOf(nonce, d))
              BY <1>2, <2>3, <2>9, <5>2, AreaFacts, HasPartition
            <7>2. QED
              BY <1>2, <2>1, <2>9, <5>2, <7>1, GoldbachInside
          <6>2. QED
            BY <1>6, <1>9, <1>12, <2>1, <2>2, <2>6, <2>7, <3>3, <5>2, <6>1
               DEF PrepareDecoded_goldbach, PrepareWalk
        <5>3. QED
          BY <5>1, <5>2
      <4>2. Empties(p, t, fault)
        BY <3>3, <4>1 DEF Empties, Reset, Answer
      <4>3. QED
        BY <1>1, <1>8, <4>2 DEF Outcome
    <3>4. CASE fault # "buffer"
      <4>1. p = Prepared(t, data, al)
        <5>1. CASE d.preparation # "goldbach"
          <6>1. BytesAt(memory, area, Walk(info)) = data
            BY <2>1, <2>4, <2>5, <2>9, <3>1, <5>1, AttestedBytes
          <6>2. QED
            BY <1>6, <1>9, <1>12, <2>1, <2>2, <2>6, <2>7, <3>4, <5>1, <6>1 DEF PrepareDecoded
        <5>2. CASE d.preparation = "goldbach"
          <6>1. GoldbachWalk(info) # Undefined
            <7>1. Sums2(HalfOf(nonce, d))
              BY <1>2, <2>3, <2>9, <5>2, AreaFacts, HasPartition
            <7>2. QED
              BY <1>2, <2>1, <2>9, <5>2, <7>1, GoldbachInside
          <6>2. Sums(BytesAt(memory, area, LeftWalk(nonce, d)),
                     BytesAt(memory, area, RightWalk(nonce, d))) = data
            BY <2>4, <2>5, <2>9, <3>1, <5>2, AttestedBytes
          <6>3. PICK walk : walk = GoldbachWalk(info)
            OBVIOUS
          <6>4. /\ LeftWalk(nonce, d) = [i \in DOMAIN walk |-> walk[i][1]]
                /\ RightWalk(nonce, d) = [i \in DOMAIN walk |-> walk[i][2]]
            BY <2>1, <6>3 DEF LeftWalk, RightWalk
          <6>5. PrepareWalk(walk, area, t, memory, al) = Prepared(t, data, al)
            BY <1>6, <2>7, <3>4, <6>1, <6>2, <6>3, <6>4 DEF PrepareWalk
          <6>6. QED
            BY <1>6, <1>9, <1>12, <2>1, <2>2, <2>6, <5>2, <6>3, <6>5
               DEF PrepareDecoded_goldbach
        <5>3. QED
          BY <5>1, <5>2
      <4>2. Stores(p, t, nonce, memory, d, fault)
        BY <1>6, <1>12, <2>9, <3>1, <3>2, <3>4, <4>1 DEF Stores, Prepared, Answer
      <4>3. QED
        BY <1>1, <1>8, <4>2 DEF Outcome
    <3>5. QED
      BY <3>3, <3>4
  <2>10. QED
    BY <2>8, <2>9
<1>13. QED
  BY <1>10, <1>11, <1>12

-----------------------------------------------------------------------------
(* Tables and the data in them *)

Typed(t) == t \in AnyTable /\ t.prepared_data \in Seq(0 .. 255) \cup {Null}

(* A null pointer to prepared data has no size. *)
Cleared(t) == t.prepared_data = Null => t.prepared_data_size = 0

(* A table is a value. *)
LEMMA TypedIsTable ==
    ASSUME NEW t, Typed(t)
    PROVE  t # Null /\ t # Undefined
  BY NoValue DEF Typed

(* Setting a nonce. *)
LEMMA NonceTyped ==
    ASSUME NEW t, Typed(t), NEW nonce \in AnyNonce, NEW allocated \in BOOLEAN,
           NEW u, u = ra_set_current_nonce(t, nonce, NonceSize, allocated).table
    PROVE  Typed(u)
<1>1. nonce \in Seq(Nat)
  BY NonceFacts
<1>2. PICK n \in Nat : n = NonceSize
  BY DEF NonceSize
<1>3. CASE allocated
  <2>1. u = [t EXCEPT !.current_nonce = nonce, !.current_nonce_size = n]
    BY <1>2, <1>3 DEF ra_set_current_nonce, Answer
  <2>2. QED
    BY <1>1, <2>1 DEF Typed, AnyTable, ra_table_t
<1>4. CASE ~allocated
  <2>1. PICK m \in Nat : u = [t EXCEPT !.current_nonce = Null, !.current_nonce_size = m]
    <3>1. t.current_nonce_size \in Nat
      BY DEF Typed, AnyTable, ra_table_t
    <3>2. QED
      BY <1>4, <3>1 DEF ra_set_current_nonce, Answer
  <2>2. QED
    BY <2>1 DEF Typed, AnyTable, ra_table_t
<1>5. QED
  BY <1>3, <1>4

(* Resetting the prepared data. *)
LEMMA ResetTyped ==
    ASSUME NEW t, Typed(t)
    PROVE  /\ Typed(ra_reset_prepared_data(t)) /\ Cleared(ra_reset_prepared_data(t))
           /\ ra_reset_prepared_data(t).prepared_data = Null
  BY DEF Typed, Cleared, ra_reset_prepared_data, AnyTable, ra_table_t

(* Storing them.  Without memory the pointer is null and the size stays.    *)
LEMMA StoreTyped ==
    ASSUME NEW t, Typed(t), NEW data \in Seq(0 .. 255), NEW allocated \in BOOLEAN,
           NEW u, u = ra_set_prepared_data(t, data, Len(data), allocated).table
    PROVE  /\ Typed(u)
           /\ allocated => u.prepared_data = data /\ Cleared(u)
           /\ ~allocated => u.prepared_data = Null
<1>1. data \in Seq(Nat)
  BY SeqMonotonic, 0 .. 255 \subseteq Nat
<1>2. data # Null
  BY <1>1, NoValue
<1>3. PICK n \in Nat : n = Len(data)
  OBVIOUS
<1>4. CASE allocated
  <2>1. u = [t EXCEPT !.prepared_data = data, !.prepared_data_size = n]
    BY <1>2, <1>3, <1>4 DEF ra_set_prepared_data, Answer
  <2>2. t \in AnyTable
    BY DEF Typed
  <2>3. u \in AnyTable
    BY <1>1, <2>1, <2>2 DEF AnyTable, ra_table_t
  <2>4. u.prepared_data = data
    BY <2>1, <2>2 DEF AnyTable, ra_table_t
  <2>5. Typed(u)
    BY <2>3, <2>4 DEF Typed
  <2>6. Cleared(u)
    BY <1>2, <2>4 DEF Cleared
  <2>7. QED
    BY <1>4, <2>4, <2>5, <2>6
<1>5. CASE ~allocated
  <2>1. u = [t EXCEPT !.prepared_data = Null]
    BY <1>2, <1>5 DEF ra_set_prepared_data, Answer
  <2>2. QED
    BY <1>5, <2>1 DEF Typed, AnyTable, ra_table_t
<1>6. QED
  BY <1>4, <1>5

(* What a pointer to prepared data and a size yield. *)
LEMMA DataIs ==
    ASSUME NEW t, Typed(t)
    PROVE  /\ t.prepared_data # Null => DataOf(t) = t.prepared_data
           /\ DataOf(t) # Undefined => DataOf(t) \in Seq(0 .. 255)
           /\ DataOf(t) = Undefined <=> ~Cleared(t)
<1>1. t.prepared_data # Null => t.prepared_data \in Seq(0 .. 255)
  BY DEF Typed
<1>2. \A s \in Seq(0 .. 255) : s # Undefined
  <2>1. \A s \in Seq(0 .. 255) : s \in Seq(Nat)
    BY SeqMonotonic, 0 .. 255 \subseteq Nat
  <2>2. QED
    BY <2>1, NoValue
<1>3. <<>> \in Seq(0 .. 255)
  OBVIOUS
<1>4. <<>> # Undefined
  BY <1>2, <1>3
<1>5. QED
  BY <1>1, <1>2, <1>3, <1>4 DEF DataOf, Cleared

(* What was parsed is a table that can be printed, without data. *)
LEMMA ParsedTyped ==
    ASSUME deployed \in Deployments, ra_parse_binary_ads(ads) # Null
    PROVE  /\ Typed(ra_parse_binary_ads(ads)) /\ Cleared(ra_parse_binary_ads(ads))
           /\ ra_print_table_info(ra_parse_binary_ads(ads))
<1>1. PICK t : t = ra_parse_binary_ads(ads)
  OBVIOUS
<1>2. Kept(t, deployed) /\ t \in AnyTable /\ t.prepared_data = Null /\ t.prepared_data_size = 0
  BY <1>1, ParsedTable
<1>3. Typed(t) /\ Cleared(t)
  BY <1>2 DEF Typed, Cleared
<1>4. PICK plans \in Seq(Plan) : plans = deployed.areas
  BY ConstantFacts DEF Buildable
<1>5. /\ FilledAreas(plans) \in Seq(AnyArea)
      /\ Len(FilledAreas(plans)) = Len(plans)
  BY FilledAreasType
<1>6. \A k \in 1 .. Len(plans) :
           FilledAreas(plans)[k] = Filled(plans[k].label, plans[k].blocks)
  BY FilledAreasType
<1>7. \A k \in 1 .. Len(plans) : plans[k].blocks \in Seq(AnyBlock)
  <2>1. \A k \in 1 .. Len(plans) : plans[k] \in Plan
    BY ElementOfSeq
  <2>2. QED
    BY <2>1 DEF Plan
<1>8. ASSUME NEW label, NEW blocks \in Seq(AnyBlock)
      PROVE  ra_mA_print_info(Filled(label, blocks))
  <2>1. PICK area : area = Filled(label, blocks)
    OBVIOUS
  <2>2. area.total_blocks = Len(blocks) /\ area.head = IF blocks = <<>> THEN "null" ELSE "live"
    BY <2>1 DEF Filled
  <2>3. blocks = <<>> => Len(blocks) = 0
    OBVIOUS
  <2>4. QED
    BY <2>1, <2>2, <2>3 DEF ra_mA_print_info, ra_mB_print_info
<1>9. \A k \in 1 .. Len(plans) : ra_mA_print_info(FilledAreas(plans)[k])
  BY <1>6, <1>7, <1>8
<1>10. ra_print_table_info(t)
  <2>1. t.head # "freed" /\ t.areas = FilledAreas(plans)
    BY <1>2, <1>4 DEF Kept
  <2>2. DOMAIN t.areas = 1 .. Len(plans)
    BY <1>5, <2>1
  <2>3. \A k \in DOMAIN t.areas : ra_mA_print_info(t.areas[k])
    BY <1>9, <2>1, <2>2
  <2>4. QED
    BY <2>1, <2>3 DEF ra_print_table_info
<1>11. QED
  BY <1>1, <1>3, <1>10

(* An area without a preparation is unsuitable. *)
LEMMA UnusableIsUnsuitable ==
    ASSUME deployed \in Deployments, NEW nonce \in AnyNonce, Unusable(nonce, deployed)
    PROVE  Unsuitable
<1>1. PICK d \in Deployments : d = deployed
  OBVIOUS
<1>2. CASE d.areas = <<>>
  BY <1>1, <1>2 DEF Unsuitable
<1>3. CASE d.areas # <<>>
  <2>1. Buildable(d)
    BY ConstantFacts
  <2>2. PICK k \in 1 .. Len(d.areas) : k = IndexOf(nonce, d)
    BY <1>3, <2>1, IndexInRange
  <2>3. k \in DOMAIN d.areas
    BY <2>1, <2>2 DEF Buildable
  <2>4. PICK n \in Nat : n = SizeOf(nonce, d)
    BY <1>3, <2>1, PlanFacts
  <2>5. Len(Addresses(d.areas[k])) = n
    BY <1>3, <2>2, <2>4, AreaFacts DEF PlanOf
  <2>6. CASE d.version = 1 /\ n < 2
    BY <1>1, <2>3, <2>5, <2>6 DEF Unsuitable
  <2>7. CASE ~(d.version = 1 /\ n < 2)
    <3>1. Decodable(nonce, d) /\ ~Fits(nonce, d)
      BY <1>1, <1>3, <2>4, <2>7 DEF Unusable, Hopeless
    <3>2. n >= 2
      BY <2>4, <3>1 DEF Decodable
    <3>3. PICK w \in Nat : w = WindowOf(nonce, d)
      BY <2>1, <3>1, InfoNumbers
    <3>4. PICK half \in Nat : half = HalfOf(nonce, d) /\ half = w \div 2 /\ 2 * half <= w
      BY <3>3 DEF HalfOf
    <3>5. d.preparation = "goldbach" /\ ~(2 <= half /\ 2 * half <= LastPartition)
      BY <3>1, <3>4 DEF Fits
    <3>6. w < 4 \/ w > LastPartition + 1
      <4>1. ~(2 <= half) => w < 4
        BY <3>4
      <4>2. ~(2 * half <= LastPartition) => w > LastPartition + 1
        BY <3>4 DEF LastPartition
      <4>3. QED
        BY <3>5, <4>1, <4>2
    <3>7. w = IF d.version \in {1, 4} THEN LargestPrime(n) ELSE n
      BY <2>4, <3>2, <3>3, ClosestPrime DEF WindowOf
    <3>8. QED
      BY <1>1, <2>3, <2>5, <3>5, <3>6, <3>7 DEF Unsuitable
  <2>8. QED
    BY <2>6, <2>7
<1>4. QED
  BY <1>2, <1>3

-----------------------------------------------------------------------------
(* The data that the extractor holds and inserts *)

PreparationFaults == {"labels", "buffer", "data"}

(* The extractor's table keeps no stale size behind a null pointer, except  *)
(* between a preparation without memory and the insertion (bad: an area is  *)
(* unsuitable).  After a preparation that succeeded it holds the bytes of   *)
(* the area that the nonce selects.                                         *)
Held(x, d, bad) ==
    /\ x.pc \in HasTable => Typed(x.table)
    /\ x.pc \in HasTable \ {"insert"} => Cleared(x.table)
    /\ x.pc \in HasTable \ {"load_exe"} => x.memory = Text
    /\ x.pc = "insert" =>
          /\ Cleared(x.table) \/ x.fault = "data"
          /\ x.fault \notin PreparationFaults /\ Fits(x.current_nonce, d) =>
                x.table.prepared_data = Attested(x.current_nonce, Text, d)
    /\ x.pc # "ended" => x.code = Null
    /\ x.code \in {Null, 0, 1, Undefined}
    /\ x.code = Undefined => bad \/ x.fault \in {"bfd", "data", "query"}

HeldRow(row, d) ==
    /\ row.data \in Seq(0 .. 255)
    /\ row.faults \cap PreparationFaults = {} /\ Fits(row.nonce, d) =>
          row.data = Attested(row.nonce, Text, d)

HeldRows(rows, d) == \A k \in 2 .. Len(rows) : HeldRow(rows[k], d)

HeldInv ==
    /\ ExtractionInv
    /\ Held(extractor, deployed, Unsuitable)
    /\ HeldRows(ra_prepared_data, deployed)

(* The memory that the extractor reads is .text. *)
LEMMA LoadedText ==
    ASSUME NEW section, section = [offset |-> Len(Executable.header), size |-> Len(Executable.text)]
    PROVE  Loaded(section) = Text /\ section # Undefined /\ section # Failed
<1>1. PICK h \in Seq(0 .. 255), t \in Seq(0 .. 255) : h = Executable.header /\ t = Executable.text
  BY DeploymentAssumption
<1>2. PICK m \in Nat, n \in Nat : m = Len(h) /\ n = Len(t)
  OBVIOUS
<1>3. section.offset = m /\ section.size = n /\ section \in memory_block_t(Nat, Nat)
  BY <1>1, <1>2 DEF memory_block_t
<1>4. section # Undefined /\ section # Failed
  BY <1>3, PointerAssumption
<1>5. \A i \in 1 .. n : (h \o t)[m + i] = t[i]
  BY <1>2, ConcatProperties
<1>6. ASSUME NEW a \in 0 .. (n - 1) PROVE (h \o t)[m + a + 1] = t[a + 1]
  <2>1. PICK i \in 1 .. n : i = a + 1 /\ m + i = m + a + 1
    OBVIOUS
  <2>2. QED
    BY <1>5, <2>1
<1>7. [a \in 0 .. (n - 1) |-> (h \o t)[m + a + 1]] = [a \in 0 .. (n - 1) |-> t[a + 1]]
  BY <1>6
<1>8. QED
  BY <1>1, <1>2, <1>3, <1>4, <1>7 DEF Loaded, Text

(* .text is a memory. *)
LEMMA TextIsMemory == Text \in Memories
<1>1. PICK t \in Seq(0 .. 255) : t = Executable.text
  BY DeploymentAssumption
<1>2. PICK n \in Nat : n = Len(t)
  OBVIOUS
<1>3. \A a \in 0 .. (n - 1) : t[a + 1] \in 0 .. 255
  <2>1. \A i \in 1 .. n : t[i] \in 0 .. 255
    BY <1>2, ElementOfSeq
  <2>2. QED
    BY <2>1
<1>4. QED
  BY <1>1, <1>2, <1>3 DEF Text, Memories

(* Ends and errors. *)
LEMMA EndsHeld ==
    ASSUME HeldInv, NEW code, NEW fault, Ends(code, fault),
           \/ code \in {0, 1}
           \/ code = Undefined /\ (Unsuitable \/ fault \in {"bfd", "data", "query"})
    PROVE  Held(extractor', deployed, Unsuitable)
<1>1. extractor'.pc = "ended" /\ extractor'.code = code /\ extractor'.fault = fault
  BY DEF HeldInv, ExtractionInv, Ends, ExtractorFields
<1>2. "ended" \notin HasTable
  BY DEF HasTable, Pass
<1>3. QED
  BY <1>1, <1>2 DEF Held

(* After an error the extractor has the table it is given. *)
LEMMA ErrorHeld ==
    ASSUME HeldInv, NEW table, NEW again, CountError(table, again), Typed(table), Cleared(table),
           extractor.pc \in HasTable \ {"load_exe"}
    PROVE  Held(extractor', deployed, Unsuitable)
<1>1. /\ extractor'.pc \in {"report", "next"} /\ extractor'.table = table
      /\ extractor'.memory = extractor.memory /\ extractor'.code = extractor.code
  BY DEF HeldInv, ExtractionInv, CountError, ExtractorFields
<1>2. extractor.memory = Text /\ extractor.code = Null
  BY DEF HeldInv, Held, HasTable, Pass
<1>3. QED
  BY <1>1, <1>2, NoValue DEF Held, HasTable

(* A step that keeps table and memory and leaves the loop alone. *)
LEMMA GoHeld ==
    ASSUME HeldInv, NEW y, y.pc \in HasTable \ {"insert", "load_exe"}, y.code = Null,
           Typed(y.table), Cleared(y.table), y.memory = Text
    PROVE  Held(y, deployed, Unsuitable)
  BY NoValue DEF Held, HasTable, Pass

(* Until the loop. *)
LEMMA BeforeHeld ==
    ASSUME HeldInv,
           \/ ParseArguments
           \/ \E fault \in {"none", "file"} : LoadADS(fault)
           \/ \E fault \in {"none", "file", "bfd", "format"} : LoadEXE(fault)
           \/ \E fault \in {"none", "memory", "mysql"} : StartExtraction(fault)
           \/ \E fault \in {"none", "mysql"} : CheckApplication(fault)
    PROVE  Held(extractor', deployed, Unsuitable)
<1> DEFINE x == extractor
           y == extractor'
           Fine == Held(y, deployed, Unsuitable)
<1>1. /\ deployed \in Deployments /\ x = [f \in ExtractorFields |-> x[f]]
      /\ Held(x, deployed, Unsuitable)
  BY DEF HeldInv, ExtractionInv
<1>2. ASSUME \E fault : Ends(1, fault) PROVE Fine
  BY <1>2, EndsHeld
<1> HIDE DEF Fine
<1>3. ASSUME ParseArguments PROVE Fine
  <2>1. CASE Goto("load_ads")
    <3>1. y.pc = "load_ads" /\ y.code = x.code /\ x.code = Null
      BY <1>1, <1>3, <2>1 DEF Goto, ParseArguments, At, Held, ExtractorFields
    <3>2. QED
      BY <3>1, NoValue DEF Fine, Held, HasTable, Pass
  <2>2. QED
    BY <1>2, <1>3, <2>1 DEF ParseArguments
<1>4. ASSUME \E fault \in {"none", "file"} : LoadADS(fault) PROVE Fine
  <2>1. PICK fault : LoadADS(fault)
    BY <1>4
  <2>2. PICK table : table = ra_parse_binary_ads(ads)
    OBVIOUS
  <2>3. table # Null => Typed(table) /\ Cleared(table) /\ ra_print_table_info(table)
    BY <1>1, <2>2, ParsedTyped
  <2>4. table # Null => table # Undefined
    BY <2>3, TypedIsTable
  <2>5. \/ Ends(1, fault)
        \/ table # Null /\ y = [x EXCEPT !.pc = "load_exe", !.table = table]
    BY <2>1, <2>2, <2>3, <2>4 DEF LoadADS
  <2>6. CASE table # Null /\ y = [x EXCEPT !.pc = "load_exe", !.table = table]
    <3>1. x.code = Null
      BY <1>1, <2>1 DEF LoadADS, At, Held
    <3>2. y.pc = "load_exe" /\ y.table = table /\ y.code = Null
      BY <1>1, <2>6, <3>1 DEF ExtractorFields
    <3>3. QED
      BY <2>3, <2>6, <3>2, NoValue DEF Fine, Held
  <2>7. QED
    BY <1>2, <2>5, <2>6
<1>5. ASSUME \E fault \in {"none", "file", "bfd", "format"} : LoadEXE(fault) PROVE Fine
  <2>1. PICK fault : LoadEXE(fault)
    BY <1>5
  <2>2. PICK section : section = [offset |-> Len(Executable.header),
                                  size |-> Len(Executable.text)]
    OBVIOUS
  <2>3. Loaded(section) = Text /\ section # Undefined /\ section # Failed
    BY <2>2, LoadedText
  <2>4. x.pc = "load_exe" /\ Typed(x.table) /\ Cleared(x.table) /\ x.code = Null
    BY <1>1, <2>1 DEF LoadEXE, At, Held, HasTable
  <2>5. \/ Ends(1, fault)
        \/ fault = "bfd" /\ Ends(Undefined, fault)
        \/ y = [x EXCEPT !.pc = "start", !.memory = Text]
    <3>1. CASE fault = "file"
      BY <2>1, <3>1 DEF LoadEXE
    <3>2. CASE fault = "bfd"
      BY <2>1, <3>2 DEF LoadEXE, getTextSectionOffsetAndSize
    <3>3. CASE fault = "format"
      BY <2>1, <2>3, <3>3, PointerAssumption DEF LoadEXE, getTextSectionOffsetAndSize
    <3>4. CASE fault \notin {"file", "bfd", "format"}
      <4>1. getTextSectionOffsetAndSize(fault) = section
        BY <2>2, <3>4 DEF getTextSectionOffsetAndSize
      <4>2. QED
        BY <2>1, <2>3, <3>4, <4>1 DEF LoadEXE
    <3>5. QED
      BY <3>1, <3>2, <3>3, <3>4
  <2>6. CASE fault = "bfd" /\ Ends(Undefined, fault)
    BY <2>6, EndsHeld DEF Fine
  <2>7. CASE y = [x EXCEPT !.pc = "start", !.memory = Text]
    <3>1. y.pc = "start" /\ y.table = x.table /\ y.code = x.code /\ y.memory = Text
      BY <1>1, <2>7 DEF ExtractorFields
    <3>2. QED
      BY <2>4, <3>1, GoHeld DEF Fine, HasTable
  <2>8. QED
    BY <1>2, <2>5, <2>6, <2>7
<1>6. ASSUME NEW pc \in {"start", "check"}, x.pc = pc
      PROVE  Typed(x.table) /\ Cleared(x.table) /\ x.code = Null /\ x.memory = Text
  BY <1>1, <1>6 DEF Held, HasTable
<1>7. ASSUME \E fault \in {"none", "memory", "mysql"} : StartExtraction(fault) PROVE Fine
  <2>1. x.pc = "start" /\ ((\E fault : Ends(1, fault)) \/ Goto("check"))
    BY <1>7 DEF StartExtraction, At
  <2>2. CASE Goto("check")
    <3>1. y.pc = "check" /\ y.table = x.table /\ y.code = x.code /\ y.memory = x.memory
      BY <1>1, <2>2 DEF Goto, ExtractorFields
    <3>2. QED
      BY <1>6, <2>1, <3>1, GoHeld DEF Fine, HasTable
  <2>3. QED
    BY <1>2, <2>1, <2>2
<1>8. ASSUME \E fault \in {"none", "mysql"} : CheckApplication(fault) PROVE Fine
  <2>1. x.pc = "check" /\ ((\E fault : Ends(1, fault))
                           \/ \E id : y = [x EXCEPT !.pc = "loop", !.attestator_id = id])
    BY <1>8 DEF CheckApplication, At
  <2>2. CASE \E id : y = [x EXCEPT !.pc = "loop", !.attestator_id = id]
    <3>1. y.pc = "loop" /\ y.table = x.table /\ y.code = x.code /\ y.memory = x.memory
      BY <1>1, <2>2 DEF ExtractorFields
    <3>2. QED
      BY <1>6, <2>1, <3>1, GoHeld DEF Fine, HasTable, Pass
  <2>3. QED
    BY <1>2, <2>1, <2>2
<1>9. QED
  BY <1>3, <1>4, <1>5, <1>7, <1>8 DEF Fine

(* The tables after a preparation. *)
LEMMA OutcomeTyped ==
    ASSUME deployed \in Deployments, NEW t, Typed(t), NEW nonce \in AnyNonce,
           NEW memory \in Memories, NEW fault, NEW p,
           Outcome(p, t, nonce, memory, deployed, fault)
    PROVE  /\ p.table = Undefined => Unsuitable
           /\ p.table # Undefined => Typed(p.table)
           /\ p.table # Undefined /\ fault # "data" /\ Cleared(t) => Cleared(p.table)
           /\ p.table # Undefined /\ fault \notin PreparationFaults /\ Fits(nonce, deployed) =>
                 p.table.prepared_data = Attested(nonce, memory, deployed)
           /\ p.result = "RA_SUCCESS" /\ p.table # Undefined =>
                 /\ Fits(nonce, deployed)
                 /\ fault # "data" => /\ p.table.prepared_data = Attested(nonce, memory, deployed)
                                      /\ Cleared(p.table)
                 /\ fault = "data" => p.table.prepared_data = Null
<1>1. t # Undefined
  BY TypedIsTable
<1>2. CASE Breaks(p, nonce, deployed, fault)
  <2>1. p.table = Undefined /\ Unsuitable
    BY <1>2, UnusableIsUnsuitable DEF Breaks
  <2>2. QED
    BY <2>1
<1>3. CASE Stops(p, t, nonce, deployed, fault)
  BY <1>1, <1>3 DEF Stops, PreparationFaults
<1>4. CASE Empties(p, t, fault)
  <2>1. p.table = ra_reset_prepared_data(t) /\ p.result # "RA_SUCCESS" /\ fault = "buffer"
    BY <1>4 DEF Empties
  <2>2. Typed(p.table) /\ Cleared(p.table)
    BY <2>1, ResetTyped
  <2>3. p.table # Undefined
    BY <2>2, TypedIsTable
  <2>4. QED
    BY <2>1, <2>2, <2>3 DEF PreparationFaults
<1>5. CASE Stores(p, t, nonce, memory, deployed, fault)
  <2>1. Fits(nonce, deployed) /\ fault \notin {"labels", "buffer"}
    BY <1>5 DEF Stores
  <2>2. PICK data \in Seq(0 .. 255) : data = Attested(nonce, memory, deployed)
    BY <2>1, AttestedBytes
  <2>3. PICK allocated \in BOOLEAN : allocated = (fault # "data")
    OBVIOUS
  <2>4. p.table = ra_set_prepared_data(t, data, Len(data), allocated).table
    BY <1>5, <2>2, <2>3 DEF Stores
  <2>5. PICK u : u = p.table
    OBVIOUS
  <2>6. /\ Typed(u)
        /\ allocated => u.prepared_data = data /\ Cleared(u)
        /\ ~allocated => u.prepared_data = Null
    BY <2>4, <2>5, StoreTyped
  <2>7. u # Undefined
    BY <2>6, TypedIsTable
  <2>8. QED
    BY <2>1, <2>2, <2>3, <2>5, <2>6, <2>7 DEF PreparationFaults
<1>6. QED
  BY <1>2, <1>3, <1>4, <1>5 DEF Outcome

(* In the loop. *)
LEMMA PassHeld ==
    ASSUME HeldInv,
           \/ GenerateNonce \/ GenerateNonceFails \/ NextPass \/ Report
           \/ \E fault \in {"none", "nonce"} : SetNonce(fault)
           \/ \E fault \in {"none", "labels", "buffer", "data", "store"} : Prepare(fault)
    PROVE  Held(extractor', deployed, Unsuitable)
<1> DEFINE x == extractor
           y == extractor'
           Fine == Held(y, deployed, Unsuitable)
<1>1. /\ deployed \in Deployments /\ x = [f \in ExtractorFields |-> x[f]]
      /\ Held(x, deployed, Unsuitable) /\ Holds(x, deployed)
  BY DEF HeldInv, ExtractionInv
<1> HIDE DEF Fine
<1>2. ASSUME NEW pc \in {"loop", "next", "set_nonce", "prepare"}, x.pc = pc
      PROVE  Typed(x.table) /\ Cleared(x.table) /\ x.code = Null /\ x.memory = Text
             /\ x.pc \in HasTable \ {"load_exe"}
  BY <1>1, <1>2 DEF Held, HasTable, Pass
<1>3. ASSUME GenerateNonce PROVE Fine
  <2>1. x.pc = "loop" /\ \E nonce : y = [x EXCEPT !.pc = "set_nonce", !.current_nonce = nonce]
    BY <1>3 DEF GenerateNonce, InLoop, At
  <2>2. y.pc = "set_nonce" /\ y.table = x.table /\ y.memory = x.memory /\ y.code = x.code
    BY <1>1, <2>1 DEF ExtractorFields
  <2>3. QED
    BY <1>2, <2>1, <2>2, GoHeld DEF Fine, HasTable, Pass
<1>4. ASSUME GenerateNonceFails PROVE Fine
  <2>1. x.pc = "loop" /\ CountError(x.table, TRUE)
    BY <1>4 DEF GenerateNonceFails, InLoop, At
  <2>2. QED
    BY <1>2, <2>1, ErrorHeld DEF Fine
<1>5. ASSUME NextPass PROVE Fine
  <2>1. x.pc = "next"
    BY <1>5 DEF NextPass, At
  <2>2. y.pc = "loop" /\ y.table = x.table /\ y.memory = x.memory /\ y.code = x.code
    BY <1>1, <1>5 DEF NextPass, ExtractorFields
  <2>3. QED
    BY <1>2, <2>1, <2>2, GoHeld DEF Fine, HasTable, Pass
<1>6. ASSUME Report PROVE Fine
  BY <1>6, EndsHeld DEF Report, Fine
<1>7. ASSUME \E fault \in {"none", "nonce"} : SetNonce(fault) PROVE Fine
  <2>1. PICK fault \in {"none", "nonce"} : SetNonce(fault)
    BY <1>7
  <2>2. x.pc = "set_nonce"
    BY <2>1 DEF SetNonce, At
  <2>3. PICK nonce \in AnyNonce : nonce = x.current_nonce
    BY <1>1, <2>2, ConstantFacts DEF Holds, HasNonce
  <2>4. PICK allocated \in BOOLEAN : allocated = (fault # "nonce")
    OBVIOUS
  <2>5. PICK u : u = ra_set_current_nonce(x.table, nonce, NonceSize, allocated).table
    OBVIOUS
  <2>6. Typed(u)
    BY <1>2, <2>2, <2>5, NonceTyped
  <2>7. Cleared(u)
    <3>1. Kept(x.table, deployed)
      BY <1>1, <2>2 DEF Holds, HasTable, Pass
    <3>2. u.prepared_data = x.table.prepared_data
          /\ u.prepared_data_size = x.table.prepared_data_size
      BY <2>5, <3>1, NonceSet
    <3>3. QED
      BY <1>2, <2>2, <3>2 DEF Cleared
  <2>8. CountError(u, FALSE) \/ y = [x EXCEPT !.pc = "prepare", !.table = u]
    BY <2>1, <2>3, <2>4, <2>5 DEF SetNonce
  <2>9. CASE CountError(u, FALSE)
    BY <1>2, <2>2, <2>6, <2>7, <2>9, ErrorHeld DEF Fine
  <2>10. CASE y = [x EXCEPT !.pc = "prepare", !.table = u]
    <3>1. y.pc = "prepare" /\ y.table = u /\ y.memory = x.memory /\ y.code = x.code
      BY <1>1, <2>10 DEF ExtractorFields
    <3>2. QED
      BY <1>2, <2>2, <2>6, <2>7, <3>1, GoHeld DEF Fine, HasTable, Pass
  <2>11. QED
    BY <2>8, <2>9, <2>10
<1>8. ASSUME \E fault \in {"none", "labels", "buffer", "data", "store"} : Prepare(fault)
      PROVE  Fine
  <2>1. PICK fault : Prepare(fault)
    BY <1>8
  <2>2. x.pc = "prepare"
    BY <2>1 DEF Prepare, At
  <2>3. PICK nonce \in AnyNonce : nonce = x.current_nonce
    BY <1>1, <2>2, ConstantFacts DEF Holds, HasNonce
  <2>4. PICK t : t = x.table
    OBVIOUS
  <2>5. /\ Kept(t, deployed) /\ t.current_nonce = nonce /\ t.current_nonce_size = NonceSize
        /\ Typed(t) /\ Cleared(t) /\ x.memory = Text
    BY <1>1, <1>2, <2>2, <2>3, <2>4 DEF Holds, HasTable, Pass
  <2>6. PICK p : p = PrepareData(t, Text, fault)
    OBVIOUS
  <2>7. Outcome(p, t, nonce, Text, deployed, fault)
    BY <1>1, <2>5, <2>6, TextIsMemory, PrepareOutcome
  <2>8. /\ p.table = Undefined => Unsuitable
        /\ p.table # Undefined => Typed(p.table)
        /\ p.table # Undefined /\ fault # "data" /\ Cleared(t) => Cleared(p.table)
        /\ p.table # Undefined /\ fault \notin PreparationFaults /\ Fits(nonce, deployed) =>
                 p.table.prepared_data = Attested(nonce, Text, deployed)
    BY <1>1, <2>5, <2>7, TextIsMemory, OutcomeTyped
  <2>9. \/ p.table = Undefined /\ Ends(Undefined, fault)
        \/ p.table # Undefined /\ fault = "store" /\ CountError(p.table, TRUE)
        \/ /\ p.table # Undefined
           /\ y = [x EXCEPT !.pc = "insert", !.table = p.table, !.fault = fault]
    BY <2>1, <2>4, <2>5, <2>6 DEF Prepare
  <2>10. CASE p.table = Undefined /\ Ends(Undefined, fault)
    BY <2>8, <2>10, EndsHeld DEF Fine
  <2>11. CASE p.table # Undefined /\ fault = "store" /\ CountError(p.table, TRUE)
    BY <1>2, <2>2, <2>5, <2>8, <2>11, ErrorHeld DEF Fine
  <2>12. CASE /\ p.table # Undefined
              /\ y = [x EXCEPT !.pc = "insert", !.table = p.table, !.fault = fault]
    <3>1. /\ y.pc = "insert" /\ y.table = p.table /\ y.memory = x.memory /\ y.code = x.code
          /\ y.fault = fault /\ y.current_nonce = nonce
      BY <1>1, <2>3, <2>12 DEF ExtractorFields
    <3>2. x.code = Null
      BY <1>2, <2>2
    <3>3. QED
      BY <2>5, <2>8, <2>12, <3>1, <3>2, NoValue DEF Fine, Held
  <2>13. QED
    BY <2>9, <2>10, <2>11, <2>12
<1>9. QED
  BY <1>3, <1>4, <1>5, <1>6, <1>7, <1>8 DEF Fine

(* An insertion. *)
LEMMA InsertHeld ==
    ASSUME HeldInv, NEW fault, Insert(fault)
    PROVE  Held(extractor', deployed, Unsuitable) /\ HeldRows(ra_prepared_data', deployed)
<1> DEFINE x == extractor
           y == extractor'
           Fine == Held(y, deployed, Unsuitable)
<1>1. /\ deployed \in Deployments /\ x = [f \in ExtractorFields |-> x[f]]
      /\ Held(x, deployed, Unsuitable) /\ Holds(x, deployed) /\ x.pc = "insert"
      /\ HeldRows(ra_prepared_data, deployed)
  BY InsertDoes DEF HeldInv, ExtractionInv
<1>2. PICK t : t = x.table
  OBVIOUS
<1>3. PICK nonce \in AnyNonce : nonce = x.current_nonce
  BY <1>1, ConstantFacts DEF Holds, HasNonce
<1>4. Cleared(t) \/ x.fault = "data"
  BY <1>1, <1>2 DEF Held, HasTable, Pass
<1>5. /\ Typed(t) /\ x.memory = Text /\ x.code = Null
      /\ Kept(t, deployed) /\ t.current_nonce = nonce
      /\ x.fault \notin PreparationFaults /\ Fits(nonce, deployed) =>
            t.prepared_data = Attested(nonce, Text, deployed)
  BY <1>1, <1>2, <1>3 DEF Held, Holds, HasTable, Pass
<1>6. DataOf(t) = Undefined <=> ~Cleared(t)
  BY <1>5, DataIs
<1>7. x.pc \in HasTable \ {"load_exe"}
  BY <1>1 DEF HasTable, Pass
<1> HIDE DEF Fine
<1>8. ASSUME NEW why, Ends(Undefined, why),
             \/ why = "query"
             \/ /\ why = x.fault
                /\ DataOf(t) = Undefined \/ decode_nonce(deployed.version, t) = Undefined
      PROVE  Fine
  <2>1. decode_nonce(deployed.version, t) = Undefined => Unsuitable
    <3>1. SUFFICES ASSUME decode_nonce(deployed.version, t) = Undefined PROVE Unsuitable
      OBVIOUS
    <3>2. Buildable(deployed)
      BY <1>1, ConstantFacts
    <3>3. DecodesTo(decode_nonce(deployed.version, t), nonce, deployed)
      BY <1>5, <3>2, DecodeIs
    <3>4. Hopeless(nonce, deployed)
      BY <3>1, <3>3 DEF DecodesTo
    <3>5. QED
      BY <1>1, <3>4, UnusableIsUnsuitable DEF Unusable
  <2>2. QED
    BY <1>4, <1>6, <1>8, <2>1, EndsHeld DEF Fine
<1>9. ASSUME CountError(t, TRUE), DataOf(t) # Undefined PROVE Fine
  BY <1>5, <1>6, <1>7, <1>9, ErrorHeld DEF Fine
<1>10. ASSUME Goto("next"), DataOf(t) # Undefined PROVE Fine
  <2>1. y.pc = "next" /\ y.table = t /\ y.memory = x.memory /\ y.code = x.code
    BY <1>1, <1>2, <1>10 DEF Goto, ExtractorFields
  <2>2. QED
    BY <1>5, <1>6, <1>10, <2>1, GoHeld DEF Fine, HasTable
<1>11. Fine
  BY <1>2, <1>8, <1>9, <1>10, InsertDoes
<1>12. ASSUME NEW memory_area, NEW row, DataOf(t) # Undefined,
              row = [attestator_id |-> x.attestator_id,
                     nonce |-> x.current_nonce, data |-> DataOf(t),
                     memory_area |-> memory_area, faults |-> {x.fault, fault}],
              ra_prepared_data' = Append(ra_prepared_data, row)
       PROVE  HeldRows(ra_prepared_data', deployed)
  <2>1. row.nonce = nonce /\ row.data = DataOf(t) /\ row.faults = {x.fault, fault}
    BY <1>3, <1>12
  <2>2. row.data \in Seq(0 .. 255)
    BY <1>5, <1>12, <2>1, DataIs
  <2>3. ASSUME row.faults \cap PreparationFaults = {}, Fits(nonce, deployed)
        PROVE  row.data = Attested(nonce, Text, deployed)
    <3>1. t.prepared_data = Attested(nonce, Text, deployed)
      BY <1>5, <2>1, <2>3
    <3>2. t.prepared_data # Null
      <4>1. Attested(nonce, Text, deployed) \in Seq(Nat)
        BY <1>1, <2>3, TextIsMemory, AttestedBytes
      <4>2. QED
        BY <3>1, <4>1, NoValue
    <3>3. QED
      BY <1>5, <2>1, <3>1, <3>2, DataIs
  <2>4. HeldRow(row, deployed)
    BY <2>1, <2>2, <2>3 DEF HeldRow
  <2>5. PICK rows : rows = ra_prepared_data
    OBVIOUS
  <2>6. PICK S : rows \in Seq(S)
    BY <2>5 DEF HeldInv, ExtractionInv, GoodRows
  <2>7. PICK n \in Nat : n = Len(rows)
    BY <2>6
  <2>8. rows \in Seq(S \cup {row})
    BY <2>6, SeqMonotonic, S \subseteq S \cup {row}
  <2>9. PICK more : more = Append(rows, row)
    OBVIOUS
  <2>10. /\ Len(more) = n + 1 /\ \A k \in 1 .. n : more[k] = rows[k]
         /\ more[n + 1] = row
    BY <2>7, <2>8, <2>9, AppendProperties
  <2>11. \A k \in 2 .. n : HeldRow(rows[k], deployed)
    BY <1>1, <2>5, <2>7 DEF HeldRows
  <2>12. ASSUME NEW k \in 2 .. n + 1 PROVE HeldRow(more[k], deployed)
    <3>1. CASE k = n + 1
      BY <2>4, <2>10, <3>1
    <3>2. CASE k # n + 1
      <4>1. k \in 2 .. n /\ k \in 1 .. n
        BY <3>2
      <4>2. QED
        BY <2>10, <2>11, <4>1
    <3>3. QED
      BY <3>1, <3>2
  <2>13. HeldRows(more, deployed)
    BY <2>10, <2>12 DEF HeldRows
  <2>14. QED
    BY <1>12, <2>5, <2>9, <2>13
<1>13. HeldRows(ra_prepared_data', deployed)
  <2>1. CASE ra_prepared_data' = ra_prepared_data
    BY <1>1, <2>1
  <2>2. ASSUME NEW memory_area, DataOf(t) # Undefined,
               ra_prepared_data' = Append(ra_prepared_data,
                  [attestator_id |-> x.attestator_id,
                     nonce |-> x.current_nonce, data |-> DataOf(t),
                     memory_area |-> memory_area, faults |-> {x.fault, fault}])
        PROVE  HeldRows(ra_prepared_data', deployed)
    <3>1. PICK row : row = [attestator_id |-> x.attestator_id,
                     nonce |-> x.current_nonce, data |-> DataOf(t),
                     memory_area |-> memory_area, faults |-> {x.fault, fault}]
      OBVIOUS
    <3>2. QED
      BY <1>12, <2>2, <3>1
  <2>3. QED
    BY <1>2, <2>1, <2>2, InsertDoes
<1>14. QED
  BY <1>11, <1>13 DEF Fine

(* At the start nothing is held. *)
LEMMA HeldInit == ASSUME Init PROVE HeldInv
<1>1. ExtractionInv
  BY ExtractionInit
<1>2. extractor.pc = "arguments" /\ extractor.code = Null
  BY DEF Init
<1>3. Held(extractor, deployed, Unsuitable)
  BY <1>2, NoValue DEF Held, HasTable, Pass
<1>4. Len(ra_prepared_data) = 1
  BY DEF Init
<1>5. QED
  BY <1>1, <1>3, <1>4 DEF HeldInv, HeldRows

(* Every step keeps it. *)
LEMMA HeldStep == ASSUME HeldInv, [Next]_vars PROVE HeldInv'
<1>1. ExtractionInv'
  BY ExtractionStep DEF HeldInv
<1>2. deployed' = deployed => Unsuitable' = Unsuitable
  BY DEF Unsuitable, LargestPrime, IsPrime, Addresses
<1>3. CASE \E fault \in {"none", "labels", "query", "mysql"} : Insert(fault)
  <2>1. PICK fault : Insert(fault)
    BY <1>3
  <2>2. QED
    BY <1>1, <1>2, <2>1, InsertHeld, InsertDoes DEF HeldInv
<1>4. CASE Attestations
  <2>1. UNCHANGED <<deployed, extractor, ra_prepared_data>>
    BY <1>4, AttestationsRead
  <2>2. QED
    BY <1>1, <1>2, <2>1 DEF HeldInv
<1>5. CASE UNCHANGED vars
  BY <1>1, <1>2, <1>5 DEF vars, HeldInv
<1>6. ASSUME Held(extractor', deployed, Unsuitable), ra_prepared_data' = ra_prepared_data,
             deployed' = deployed
      PROVE  HeldInv'
  BY <1>1, <1>2, <1>6 DEF HeldInv
<1>7. CASE \/ ParseArguments
           \/ \E fault \in {"none", "file"} : LoadADS(fault)
           \/ \E fault \in {"none", "file", "bfd", "format"} : LoadEXE(fault)
           \/ \E fault \in {"none", "memory", "mysql"} : StartExtraction(fault)
           \/ \E fault \in {"none", "mysql"} : CheckApplication(fault)
  <2>1. ra_prepared_data' = ra_prepared_data /\ deployed' = deployed
    BY <1>7 DEF ParseArguments, LoadADS, LoadEXE, StartExtraction, CheckApplication, LeavesServer
  <2>2. QED
    BY <1>6, <1>7, <2>1, BeforeHeld
<1>8. CASE \/ GenerateNonce \/ GenerateNonceFails \/ NextPass \/ Report
           \/ \E fault \in {"none", "nonce"} : SetNonce(fault)
           \/ \E fault \in {"none", "labels", "buffer", "data", "store"} : Prepare(fault)
  <2>1. ra_prepared_data' = ra_prepared_data /\ deployed' = deployed
    BY <1>8 DEF GenerateNonce, GenerateNonceFails, NextPass, Report, SetNonce, Prepare,
       LeavesServer
  <2>2. QED
    BY <1>6, <1>8, <2>1, PassHeld
<1>9. QED
  BY <1>3, <1>4, <1>5, <1>7, <1>8 DEF Next, Extractor

-----------------------------------------------------------------------------
(* The client, its answers and the verdicts about them *)

ClientHolds(c, bad) ==
    /\ c.memory \in Memories
    /\ c.table = Null \/ c.table = Undefined \/ Typed(c.table)
    /\ c.table = Undefined => bad \/ c.fault = "data"

(* The data that the client hashes: none without memory for them. *)
DataSeen(memory, fault, nonce, d) ==
    IF fault = "data" THEN <<>> ELSE Attested(nonce, memory, d)

(* What an attestation of the client yields. *)
LEMMA AttestYields ==
    ASSUME deployed \in Deployments, GoodClient(client, deployed),
           ClientHolds(client, Unsuitable), NEW nonce \in Nonces, message.nonce = nonce,
           NEW fault, Attest(fault)
    PROVE  /\ ClientHolds(client', Unsuitable)
           /\ client'.memory = client.memory
           /\ \/ message' = Null /\ ra_request' = ra_request
              \/ /\ Fits(nonce, deployed)
                 /\ message' = ResponseMessage(AID, deployed.number, message.request_id,
                       Hashed(deployed.hash, nonce,
                              DataSeen(client.memory, fault, nonce, deployed), deployed))
                 /\ ra_request' = [ra_request EXCEPT ![message.request_id].seen =
                       [memory |-> client.memory, area |-> LabelOf(nonce, deployed),
                        fault |-> fault]]
<1> DEFINE c == client
           d == deployed
<1>1. Kept(c.table, d) /\ c = [f \in ClientFields |-> c[f]] /\ Typed(c.table)
  BY DEF Attest, GoodClient, ClientHolds
<1>2. PICK allocated \in BOOLEAN : allocated = (fault # "nonce")
  OBVIOUS
<1>3. nonce \in AnyNonce /\ Buildable(d)
  BY ConstantFacts
<1>4. PICK t : t = ra_set_current_nonce(c.table, nonce, NonceSize, allocated).table
  OBVIOUS
<1>5. /\ Kept(t, d)
      /\ allocated => t.current_nonce = nonce /\ t.current_nonce_size = NonceSize
      /\ ~allocated => t.current_nonce = Null
  BY <1>1, <1>4, NonceSet
<1>6. Typed(t)
  BY <1>1, <1>3, <1>4, NonceTyped
<1>7. PICK memory \in Memories : memory = c.memory
  BY DEF ClientHolds
<1>8. PICK p : p = PrepareData(t, memory, fault)
  OBVIOUS
<1>9. ASSUME ~allocated
      PROVE  /\ p.table = ra_reset_prepared_data(t) /\ p.result # "RA_SUCCESS"
  BY <1>5, <1>8, <1>9 DEF PrepareData, ra_prepare_data, ra_prepare_data_goldbach, Reset, Answer
<1>10. ASSUME allocated PROVE Outcome(p, t, nonce, memory, d, fault)
  BY <1>3, <1>5, <1>8, <1>10, PrepareOutcome
<1>11. /\ p.table = Undefined => Unsuitable
       /\ p.table # Undefined => Typed(p.table)
       /\ p.result = "RA_SUCCESS" /\ p.table # Undefined =>
             /\ Fits(nonce, d)
             /\ fault # "data" => /\ p.table.prepared_data = Attested(nonce, memory, d)
                                  /\ Cleared(p.table)
             /\ fault = "data" => p.table.prepared_data = Null
  <2>1. CASE ~allocated
    <3>1. Typed(p.table)
      BY <1>6, <1>9, <2>1, ResetTyped
    <3>2. p.table # Undefined
      BY <3>1, TypedIsTable
    <3>3. QED
      BY <1>9, <2>1, <3>1, <3>2
  <2>2. CASE allocated
    BY <1>3, <1>6, <1>10, <2>2, OutcomeTyped
  <2>3. QED
    BY <2>1, <2>2
<1>12. ~print_encoded_info(d.version, t) => Unsuitable
  <2>1. SUFFICES ASSUME ~print_encoded_info(d.version, t) PROVE Unsuitable
    OBVIOUS
  <2>2. d.version \in 1 .. 4
    BY <1>3 DEF Buildable
  <2>3. ~Printable(t, decode_nonce(d.version, t))
    <3>1. CASE d.version = 1
      BY <2>1, <3>1 DEF print_encoded_info, print_encoded_info_1, decode_nonce
    <3>2. CASE d.version = 2
      BY <2>1, <3>2 DEF print_encoded_info, print_encoded_info_2, decode_nonce
    <3>3. CASE d.version = 3
      BY <2>1, <3>3 DEF print_encoded_info, print_encoded_info_3, decode_nonce
    <3>4. CASE d.version = 4
      BY <2>1, <3>4 DEF print_encoded_info, print_encoded_info_4, decode_nonce
    <3>5. QED
      BY <2>2, <3>1, <3>2, <3>3, <3>4
  <2>4. t.current_nonce # Null /\ decode_nonce(d.version, t) = Undefined
    BY <2>3 DEF Printable
  <2>5. DecodesTo(decode_nonce(d.version, t), nonce, d)
    BY <1>3, <1>5, <2>4, DecodeIs
  <2>6. Hopeless(nonce, d)
    BY <2>4, <2>5 DEF DecodesTo
  <2>7. QED
    BY <1>3, <2>6, UnusableIsUnsuitable DEF Unusable
<1>13. ra_get_AID_reference(c.table) = AID /\ ra_get_attestator_number(c.table) = d.number
  BY <1>1 DEF Kept, ra_get_AID_reference, ra_get_attestator_number
<1>14. PICK after : after = ra_reset_prepared_data(p.table)
  OBVIOUS
<1>15. PICK data : data = DataOf(p.table)
  OBVIOUS
<1>16. PICK packed : packed = ra_do_hash(d.hash, p.table.current_nonce, data, AID, d.number,
                                         fault # "hash")
  OBVIOUS
<1>17. p.result = "RA_SUCCESS" /\ p.table # Undefined /\ data = Undefined => fault = "data"
  BY <1>11, <1>15, DataIs
<1>18. \/ GivesUp(Undefined, fault) /\ (Unsuitable \/ fault = "data")
       \/ p.table # Undefined /\ GivesUp(p.table, fault)
       \/ p.table # Undefined /\ GivesUp(after, fault)
       \/ /\ p.table # Undefined /\ p.result = "RA_SUCCESS"
          /\ data # Undefined /\ packed # NoDigest
          /\ client' = [client EXCEPT !.table = after]
          /\ message' = ResponseMessage(AID, d.number, message.request_id, packed)
          /\ ra_request' = [ra_request EXCEPT ![message.request_id].seen = Seen(t, fault)]
  <2>1. \/ ~print_encoded_info(d.version, t) /\ GivesUp(Undefined, fault)
        \/ p.table = Undefined /\ GivesUp(Undefined, fault)
        \/ p.table # Undefined /\ GivesUp(p.table, fault)
        \/ /\ p.table # Undefined /\ p.result = "RA_SUCCESS" /\ data = Undefined
           /\ GivesUp(Undefined, fault)
        \/ p.table # Undefined /\ GivesUp(after, fault)
        \/ /\ p.table # Undefined /\ p.result = "RA_SUCCESS"
           /\ data # Undefined /\ packed # NoDigest
           /\ client' = [client EXCEPT !.table = after]
           /\ message' = ResponseMessage(AID, d.number, message.request_id, packed)
           /\ ra_request' = [ra_request EXCEPT ![message.request_id].seen = Seen(t, fault)]
    BY <1>2, <1>4, <1>7, <1>8, <1>13, <1>14, <1>15, <1>16 DEF Attest
  <2>2. QED
    BY <1>11, <1>12, <1>17, <2>1
<1>19. ASSUME NEW table, GivesUp(table, fault),
              Typed(table) \/ (table = Undefined /\ (Unsuitable \/ fault = "data"))
       PROVE  /\ ClientHolds(client', Unsuitable) /\ client'.memory = client.memory
              /\ message' = Null /\ ra_request' = ra_request
  <2>1. /\ client'.table = table /\ client'.memory = c.memory
        /\ table = Undefined => client'.fault = fault
    BY <1>1, <1>19 DEF GivesUp, ClientFields
  <2>2. Typed(table) => table # Undefined
    BY TypedIsTable
  <2>3. QED
    BY <1>19, <2>1, <2>2 DEF GivesUp, ClientHolds
<1>20. p.table # Undefined => Typed(after)
  BY <1>11, <1>14, ResetTyped
<1>21. CASE GivesUp(Undefined, fault) /\ (Unsuitable \/ fault = "data")
  BY <1>19, <1>21
<1>22. CASE p.table # Undefined /\ GivesUp(p.table, fault)
  BY <1>11, <1>19, <1>22
<1>23. CASE p.table # Undefined /\ GivesUp(after, fault)
  BY <1>19, <1>20, <1>23
<1>24. CASE /\ p.table # Undefined /\ p.result = "RA_SUCCESS"
            /\ data # Undefined /\ packed # NoDigest
            /\ client' = [client EXCEPT !.table = after]
            /\ message' = ResponseMessage(AID, d.number, message.request_id, packed)
            /\ ra_request' = [ra_request EXCEPT ![message.request_id].seen = Seen(t, fault)]
  <2>1. client'.table = after /\ client'.memory = c.memory
    BY <1>1, <1>24 DEF ClientFields
  <2>2. after # Undefined
    BY <1>20, <1>24, TypedIsTable
  <2>3. ClientHolds(client', Unsuitable)
    BY <1>20, <1>24, <2>1, <2>2 DEF ClientHolds
  <2>4. fault # "hash"
    <3>1. d.hash \in Variants
      BY HashAssumption DEF Variants
    <3>2. fault = "hash" => packed = NoDigest
      BY <1>16, <3>1 DEF Variants, ra_do_hash, ra_do_hash_md5, ra_do_hash_sha1,
         ra_do_hash_sha256, ra_do_hash_ripemd160, ra_do_hash_blake2
    <3>3. QED
      BY <1>24, <3>2
  <2>5. (fault # "hash") = TRUE
    BY <2>4
  <2>6. p.table.current_nonce = nonce
    <3>1. allocated
      BY <1>9, <1>24
    <3>2. OtherData(p.table, t)
      BY <1>5, <1>8, <1>24, PreparedIsOther
    <3>3. QED
      BY <1>5, <3>1, <3>2, OtherDataKept
  <2>7. data = DataSeen(memory, fault, nonce, d)
    <3>1. CASE fault = "data"
      BY <1>11, <1>15, <1>24, <3>1 DEF DataSeen, DataOf
    <3>2. CASE fault # "data"
      <4>1. p.table.prepared_data = Attested(nonce, memory, d) /\ Fits(nonce, d)
        BY <1>11, <1>24, <3>2
      <4>2. Attested(nonce, memory, d) # Null
        <5>1. Attested(nonce, memory, d) \in Seq(Nat)
          BY <1>3, <4>1, AttestedBytes
        <5>2. QED
          BY <5>1, NoValue
      <4>3. QED
        BY <1>15, <3>2, <4>1, <4>2 DEF DataSeen, DataOf
    <3>3. QED
      BY <3>1, <3>2
  <2>8. packed = Hashed(d.hash, nonce, DataSeen(memory, fault, nonce, d), d)
    BY <1>16, <2>5, <2>6, <2>7 DEF Hashed
  <2>9. Seen(t, fault) = [memory |-> client.memory, area |-> LabelOf(nonce, d), fault |-> fault]
    <3>1. allocated
      BY <1>9, <1>24
    <3>2. SelectedLabel(t) = LabelOf(nonce, d)
      BY <1>3, <1>5, <3>1, Selects
    <3>3. QED
      BY <3>2 DEF Seen
  <2>10. QED
    BY <1>7, <1>11, <1>24, <2>1, <2>3, <2>8, <2>9
<1>25. QED
  BY <1>18, <1>21, <1>22, <1>23, <1>24

(* The invariant of the client: with those of the server and the extractor. *)
ClientInv == ServingInv /\ HeldInv /\ ClientHolds(client, Unsuitable)

(* What is unsuitable is so from the start. *)
LEMMA SameUnsuitable == ASSUME deployed' = deployed PROVE Unsuitable' = Unsuitable
  BY DEF Unsuitable, LargestPrime, IsPrime, Addresses

(* A change of a byte. *)
LEMMA TamperHolds ==
    ASSUME ClientInv, NEW t \in Tampered, Tamper(t)
    PROVE  ClientHolds(client', Unsuitable)
<1>1. PICK memory \in Memories : memory = client.memory
  BY DEF ClientInv, ClientHolds
<1>2. PICK address \in Nat, change \in Nat : address = t.address /\ change = t.change
  BY TamperedAssumption
<1>3. PICK m : m = client'.memory
  OBVIOUS
<1>4. /\ m = [memory EXCEPT ![address] = (memory[address] + change) % 256]
      /\ client'.table = client.table /\ client'.fault = client.fault
  BY <1>1, <1>2, <1>3 DEF Tamper, ClientInv, ServingInv, GoodClient, ClientFields
<1>5. m \in Memories
  <2>1. CASE address \in DOMAIN Text
    <3>1. PICK v \in Nat : v = memory[address]
      BY <2>1, 0 .. 255 \subseteq Nat DEF Memories
    <3>2. (v + change) % 256 \in 0 .. 255
      OBVIOUS
    <3>3. QED
      BY <1>4, <3>1, <3>2 DEF Memories
  <2>2. CASE address \notin DOMAIN Text
    BY <1>4, <2>2 DEF Memories
  <2>3. QED
    BY <2>1, <2>2
<1>6. QED
  BY <1>3, <1>4, <1>5 DEF ClientInv, ClientHolds

(* The nonce of the request on its way to the client. *)
LEMMA MessageNonce ==
    ASSUME ServingInv, message # Null, message.to = "client"
    PROVE  message.nonce \in Nonces
<1> DEFINE r == Len(ra_request)
           q == ra_request[r]
<1>1. r >= 1 /\ message.nonce = ra_prepared_data[q.prepared_data_id].nonce
  BY DEF ServingInv, GoodMessage
<1>2. r \in Nat
  BY DEF ServingInv, GoodRequests
<1>3. GoodRequest(q, ra_prepared_data, deployed)
  BY <1>1, <1>2 DEF ServingInv, GoodRequests
<1>4. GoodRow(ra_prepared_data[q.prepared_data_id], deployed)
  BY <1>3 DEF GoodRequest, ServingInv, ExtractionInv, GoodRows
<1>5. QED
  BY <1>1, <1>4 DEF GoodRow

(* The initial client. *)
LEMMA ClientInit == ASSUME Init PROVE ClientInv
<1>1. ServingInv /\ HeldInv
  BY ServingInit, HeldInit
<1>2. /\ deployed \in Deployments /\ client.table = ra_parse_binary_ads(ads)
      /\ client.memory = Text
  BY DEF Init
<1>3. Text \in Memories
  BY TextIsMemory
<1>4. CASE ra_parse_binary_ads(ads) = Null
  <2>1. client.table # Undefined
    BY <1>2, <1>4, NoValue
  <2>2. QED
    BY <1>1, <1>2, <1>3, <1>4, <2>1 DEF ClientInv, ClientHolds
<1>5. CASE ra_parse_binary_ads(ads) # Null
  <2>1. Typed(client.table)
    BY <1>2, <1>5, ParsedTable DEF Typed
  <2>2. client.table # Undefined
    BY <2>1, TypedIsTable
  <2>3. QED
    BY <1>1, <1>2, <1>3, <2>1, <2>2 DEF ClientInv, ClientHolds
<1>6. QED
  BY <1>4, <1>5

(* And every later one. *)
LEMMA ClientStep == ASSUME ClientInv, [Next]_vars PROVE ClientInv'
<1>1. ServingInv' /\ HeldInv'
  BY ServingStep, HeldStep DEF ClientInv
<1>2. deployed \in Deployments
  BY DEF ClientInv, ServingInv, ExtractionInv
<1>3. ASSUME deployed' = deployed, client' = client
      PROVE  ClientInv'
  BY <1>1, <1>3, SameUnsuitable DEF ClientInv
<1>4. ASSUME deployed' = deployed, ClientHolds(client', Unsuitable)
      PROVE  ClientInv'
  BY <1>1, <1>4, SameUnsuitable DEF ClientInv
<1>5. ASSUME NEW t \in Tampered, Tamper(t) PROVE ClientInv'
  BY <1>4, <1>5, TamperHolds DEF Tamper
<1>6. ASSUME NEW fault, Attest(fault) PROVE ClientInv'
  <2>1. message.nonce \in Nonces
    BY <1>6, MessageNonce DEF Attest, ClientInv
  <2>2. PICK nonce \in Nonces : message.nonce = nonce
    BY <2>1
  <2>3. ClientHolds(client', Unsuitable)
    BY <1>2, <1>6, <2>2, AttestYields DEF ClientInv, ServingInv
  <2>4. deployed' = deployed
    BY <1>6 DEF Attest
  <2>5. QED
    BY <1>4, <2>3, <2>4
<1>7. CASE Extractor
  <2>1. UNCHANGED <<deployed, client>>
    BY <1>7, ExtractorLeaves DEF ClientInv, ServingInv
  <2>2. QED
    BY <1>3, <2>1
<1>8. CASE \/ ServeClient
           \/ \E row \in Directory.startup : AttestAtStartup(row.memory_area)
           \/ \E fault : ForwardResponse(fault)
           \/ \E fault : Verify(fault)
  BY <1>3, <1>8 DEF ServeClient, AttestAtStartup, Issue, ForwardResponse, Verify
<1>9. CASE UNCHANGED vars
  BY <1>3, <1>9 DEF vars
<1>10. QED
  BY <1>5, <1>6, <1>7, <1>8, <1>9 DEF Next, Attestations

(* DefinedBehaviour, for every deployment, nonce and failure: the extractor *)
(* and the client follow no null pointer, read no byte outside of an area   *)
(* and divide by no zero, with the exceptions that the property names.      *)
THEOREM DefinedBehaviourHolds == Spec => []DefinedBehaviour
<1>1. Init => ClientInv
  BY ClientInit
<1>2. ClientInv /\ [Next]_vars => ClientInv'
  BY ClientStep
<1>3. ClientInv => DefinedBehaviour
  BY DEF ClientInv, HeldInv, Held, ClientHolds, DefinedBehaviour
<1>4. QED
  BY <1>1, <1>2, <1>3, PTL DEF Spec

-----------------------------------------------------------------------------
(* Types *)

(* The counters of an extractor x, at each of its places. *)
Counts(x) ==
    LET most == EXTRACTOR_MAX_ERROR_ALLOWED
        all  == total_data_to_exctract
    IN  /\ x.pc \in ExtractorPlaces
        /\ x.error_counter \in 0 .. most
        /\ x.total_data_exctracted \in -1 .. all
        /\ x.pc \in Before \cup Pass => x.total_data_exctracted >= 0
        /\ x.pc \in (Before \cup Pass \cup {"next"}) => x.error_counter < most
        /\ x.pc \in (Pass \ {"loop"}) \cup {"next"} => x.total_data_exctracted < all

(* A step to another place that keeps the counters. *)
LEMMA SameCounts ==
    ASSUME NEW x, NEW y, Counts(x), y.error_counter = x.error_counter,
           y.total_data_exctracted = x.total_data_exctracted,
           \/ y.pc \in {"report", "ended"}
           \/ x.pc \in Before /\ y.pc \in Before \cup {"loop"}
           \/ x.pc \in Pass /\ y.pc \in Pass \cup {"next"} /\
              x.total_data_exctracted < total_data_to_exctract
    PROVE  Counts(y)
  BY DEF Counts, ExtractorPlaces, Before, Pass

(* A process that ends. *)
LEMMA EndsCounts ==
    ASSUME ExtractionInv, Counts(extractor), NEW code, NEW fault, Ends(code, fault)
    PROVE  Counts(extractor')
<1>1. /\ extractor'.pc = "ended" /\ extractor'.error_counter = extractor.error_counter
      /\ extractor'.total_data_exctracted = extractor.total_data_exctracted
  BY DEF Ends, ExtractionInv, ExtractorFields
<1>2. QED
  BY <1>1, SameCounts

(* An error in a pass. *)
LEMMA ErrorCounts ==
    ASSUME ExtractionInv, Counts(extractor), NEW table, NEW again \in BOOLEAN,
           CountError(table, again), extractor.pc \in Pass,
           extractor.pc = "loop" => extractor.total_data_exctracted < total_data_to_exctract
    PROVE  Counts(extractor')
<1> DEFINE x == extractor
           y == extractor'
           errors == x.error_counter + 1
<1>1. /\ y.pc = IF errors >= EXTRACTOR_MAX_ERROR_ALLOWED THEN "report" ELSE "next"
      /\ y.error_counter = errors
      /\ y.total_data_exctracted = x.total_data_exctracted - (IF again THEN 1 ELSE 0)
  BY DEF CountError, ExtractionInv, ExtractorFields
<1>2. PICK e \in Nat, n \in Nat : e = x.error_counter /\ n = x.total_data_exctracted
  BY DEF Counts
<1>3. e < EXTRACTOR_MAX_ERROR_ALLOWED /\ n < total_data_to_exctract
  BY <1>2 DEF Counts, Pass
<1>4. CASE again
  BY <1>1, <1>2, <1>3, <1>4 DEF Counts, ExtractorPlaces, Before, Pass
<1>5. CASE ~again
  BY <1>1, <1>2, <1>3, <1>5 DEF Counts, ExtractorPlaces, Before, Pass
<1>6. QED
  BY <1>4, <1>5

(* The steps of the extractor. *)
LEMMA ExtractorCounts ==
    ASSUME ExtractionInv, Counts(extractor), Extractor
    PROVE  Counts(extractor')
<1> DEFINE x == extractor
           y == extractor'
           Same == y.error_counter = x.error_counter
                   /\ y.total_data_exctracted = x.total_data_exctracted
<1> USE DEF At
<1>1. CASE ParseArguments
  <2>1. CASE Ends(1, "none")
    BY <2>1, EndsCounts
  <2>2. CASE Goto("load_ads")
    <3>1. y.pc = "load_ads" /\ Same /\ x.pc = "arguments"
      BY <1>1, <2>2 DEF Goto, ParseArguments, ExtractionInv, ExtractorFields
    <3>2. QED
      BY <3>1, SameCounts DEF Before
  <2>3. QED
    BY <1>1, <2>1, <2>2 DEF ParseArguments
<1>2. CASE \E fault \in {"none", "file"} : LoadADS(fault)
  <2>1. PICK fault : LoadADS(fault)
    BY <1>2
  <2>2. \/ \E code : Ends(code, fault)
        \/ x.pc = "load_ads" /\ y.pc = "load_exe" /\ Same
    BY <2>1 DEF LoadADS, ExtractionInv, ExtractorFields
  <2>3. QED
    BY <2>2, EndsCounts, SameCounts DEF Before
<1>3. CASE \E fault \in {"none", "file", "bfd", "format"} : LoadEXE(fault)
  <2>1. PICK fault : LoadEXE(fault)
    BY <1>3
  <2>2. \/ \E code : Ends(code, fault)
        \/ x.pc = "load_exe" /\ y.pc = "start" /\ Same
    BY <2>1 DEF LoadEXE, ExtractionInv, ExtractorFields
  <2>3. QED
    BY <2>2, EndsCounts, SameCounts DEF Before
<1>4. CASE \E fault \in {"none", "memory", "mysql"} : StartExtraction(fault)
  <2>1. PICK fault : StartExtraction(fault)
    BY <1>4
  <2>2. \/ \E code : Ends(code, fault)
        \/ x.pc = "start" /\ y.pc = "check" /\ Same
    BY <2>1 DEF StartExtraction, Goto, ExtractionInv, ExtractorFields
  <2>3. QED
    BY <2>2, EndsCounts, SameCounts DEF Before
<1>5. CASE \E fault \in {"none", "mysql"} : CheckApplication(fault)
  <2>1. PICK fault : CheckApplication(fault)
    BY <1>5
  <2>2. \/ \E code : Ends(code, fault)
        \/ x.pc = "check" /\ y.pc = "loop" /\ Same
    BY <2>1 DEF CheckApplication, ExtractionInv, ExtractorFields
  <2>3. QED
    BY <2>2, EndsCounts, SameCounts DEF Before
<1>6. CASE GenerateNonce
  <2>1. /\ x.pc = "loop" /\ y.pc = "set_nonce" /\ Same
        /\ x.total_data_exctracted < total_data_to_exctract
    BY <1>6 DEF GenerateNonce, InLoop, ExtractionInv, ExtractorFields
  <2>2. QED
    BY <2>1, SameCounts DEF Pass
<1>7. CASE GenerateNonceFails
  BY <1>7, ErrorCounts DEF GenerateNonceFails, InLoop, Pass
<1>8. CASE NextPass
  <2>1. /\ x.pc = "next" /\ y.pc = "loop" /\ y.error_counter = x.error_counter
        /\ y.total_data_exctracted = x.total_data_exctracted + 1
    BY <1>8 DEF NextPass, ExtractionInv, ExtractorFields
  <2>2. QED
    BY <2>1 DEF Counts, ExtractorPlaces, Before, Pass
<1>9. CASE \E fault \in {"none", "nonce"} : SetNonce(fault)
  <2>1. PICK fault : SetNonce(fault)
    BY <1>9
  <2>2. x.pc = "set_nonce" /\ x.total_data_exctracted < total_data_to_exctract
    BY <2>1 DEF SetNonce, Counts, Pass
  <2>3. \/ \E table : CountError(table, FALSE)
        \/ y.pc = "prepare" /\ Same
    BY <2>1 DEF SetNonce, ExtractionInv, ExtractorFields
  <2>4. QED
    BY <2>2, <2>3, ErrorCounts, SameCounts DEF Pass
<1>10. CASE \E fault \in {"none", "labels", "buffer", "data", "store"} : Prepare(fault)
  <2>1. PICK fault : Prepare(fault)
    BY <1>10
  <2>2. x.pc = "prepare" /\ x.total_data_exctracted < total_data_to_exctract
    BY <2>1 DEF Prepare, Counts, Pass
  <2>3. \/ \E code : Ends(code, fault)
        \/ \E table : CountError(table, TRUE)
        \/ y.pc = "insert" /\ Same
    BY <2>1 DEF Prepare, ExtractionInv, ExtractorFields
  <2>4. QED
    BY <2>2, <2>3, EndsCounts, ErrorCounts, SameCounts DEF Pass
<1>11. CASE \E fault \in {"none", "labels", "query", "mysql"} : Insert(fault)
  <2>1. PICK fault : Insert(fault)
    BY <1>11
  <2>2. x.pc = "insert" /\ x.total_data_exctracted < total_data_to_exctract
    BY <2>1 DEF Insert, Counts, Pass
  <2>3. \/ \E code, f : Ends(code, f)
        \/ \E table : CountError(table, TRUE)
        \/ Goto("next")
    BY <2>1 DEF Insert
  <2>4. Goto("next") => y.pc = "next" /\ Same
    BY DEF Goto, ExtractionInv, ExtractorFields
  <2>5. QED
    BY <2>2, <2>3, <2>4, EndsCounts, ErrorCounts, SameCounts DEF Pass
<1>12. CASE Report
  BY <1>12, EndsCounts DEF Report
<1>13. QED
  BY <1>1, <1>2, <1>3, <1>4, <1>5, <1>6, <1>7, <1>8, <1>9, <1>10, <1>11, <1>12 DEF Extractor

(* The invariant behind TypeOK. *)
TypesInv == ClientInv /\ Counts(extractor)

(* It gives the types. *)
LEMMA TypesGiven == ASSUME TypesInv PROVE TypeOK
<1>1. PICK n \in Nat : n = Len(ra_prepared_data)
  BY DEF TypesInv, ClientInv, ServingInv, ExtractionInv, GoodRows
<1>2. DOMAIN ra_prepared_data = 1 .. n /\ n >= 1 /\ ra_prepared_data[1] = Neighbour
  BY <1>1 DEF TypesInv, ClientInv, ServingInv, ExtractionInv, GoodRows
<1>3. ASSUME NEW k \in 1 .. n
      PROVE  ra_prepared_data[k].data \in Seq(0 .. 255) /\ ra_prepared_data[k].nonce \in Nonces
  <2>1. CASE k = 1
    BY <1>2, <2>1, NeighbourRow
  <2>2. CASE k # 1
    <3>1. k \in 2 .. Len(ra_prepared_data)
      BY <1>1, <2>2
    <3>2. HeldRow(ra_prepared_data[k], deployed) /\ GoodRow(ra_prepared_data[k], deployed)
      BY <3>1 DEF TypesInv, ClientInv, HeldInv, HeldRows, ExtractionInv, GoodRows
    <3>3. QED
      BY <3>2 DEF HeldRow, GoodRow
  <2>3. QED
    BY <2>1, <2>2
<1>4. ASSUME NEW r \in DOMAIN ra_request
      PROVE  /\ ra_request[r].prepared_data_id \in 1 .. n /\ ra_request[r].status \in 0 .. 4
  <2>1. r \in 1 .. Len(ra_request)
    BY <1>4 DEF TypesInv, ClientInv, ServingInv, GoodRequests
  <2>2. GoodRequest(ra_request[r], ra_prepared_data, deployed)
    BY <2>1 DEF TypesInv, ClientInv, ServingInv, GoodRequests
  <2>3. QED
    BY <1>1, <2>2 DEF GoodRequest
<1>5. DOMAIN client.memory = DOMAIN Text
  BY DEF TypesInv, ClientInv, ClientHolds, Memories
<1>6. message = Null \/ message.to \in {"client", "forwarder", "verifier"}
  BY DEF TypesInv, ClientInv, ServingInv, GoodMessage
<1>7. /\ deployed \in Deployments /\ extractor.pc \in ExtractorPlaces
      /\ extractor.code \in {Null, 0, 1, Undefined}
      /\ extractor.error_counter \in 0 .. EXTRACTOR_MAX_ERROR_ALLOWED
      /\ extractor.total_data_exctracted \in -1 .. total_data_to_exctract
  BY DEF TypesInv, ClientInv, HeldInv, Held, ExtractionInv, Counts
<1>8. QED
  BY <1>2, <1>3, <1>4, <1>5, <1>6, <1>7 DEF TypeOK

(* TypeOK, for every deployment: the rows hold bytes prepared for nonces,   *)
(* the counters of the extractor stay within the bounds of its loop.        *)
THEOREM TypeOKHolds == Spec => []TypeOK
<1>1. Init => TypesInv
  <2>1. ASSUME Init PROVE Counts(extractor)
    BY <2>1 DEF Init, Counts, ExtractorPlaces, Before, Pass
  <2>2. QED
    BY <2>1, ClientInit DEF TypesInv
<1>2. TypesInv /\ [Next]_vars => TypesInv'
  <2> SUFFICES ASSUME TypesInv, [Next]_vars PROVE TypesInv'
    OBVIOUS
  <2>1. ClientInv'
    BY ClientStep DEF TypesInv
  <2>2. ExtractionInv
    BY DEF TypesInv, ClientInv, ServingInv
  <2>3. CASE Extractor
    BY <2>1, <2>2, <2>3, ExtractorCounts DEF TypesInv
  <2>4. CASE Attestations
    BY <2>1, <2>4, AttestationsRead DEF TypesInv
  <2>5. CASE UNCHANGED vars
    BY <2>1, <2>5 DEF TypesInv, vars
  <2>6. QED
    BY <2>3, <2>4, <2>5 DEF Next
<1>3. TypesInv => TypeOK
  BY TypesGiven
<1>4. QED
  BY <1>1, <1>2, <1>3, PTL DEF Spec

-----------------------------------------------------------------------------
(* Verdicts *)

(* What a hash in a response is about. *)
Looked(seen, hash, nonce, d) ==
    /\ seen.memory \in Memories
    /\ Fits(nonce, d)
    /\ hash = Hashed(d.hash, nonce, DataSeen(seen.memory, seen.fault, nonce, d), d)

(* Numbers up to 255 are forwarded to the attestator's own verifier. *)
Chosen(variant, d) == variant \in Variants /\ (d.number <= 255 => variant = d.hash)

(* A verdict compares the digest of the row's data with that of the data    *)
(* that the client saw.                                                     *)
Compared(seen, row, d, right) ==
    /\ seen.memory \in Memories
    /\ Fits(row.nonce, d)
    /\ \E variant : /\ Chosen(variant, d)
                    /\ right = (RowHashed(variant, row, d)
                                  = Hashed(d.hash, row.nonce,
                                           DataSeen(seen.memory, seen.fault, row.nonce, d), d))

Judged(q, rows, d) ==
    /\ q.status \in {1, 3} => Compared(q.seen, rows[q.prepared_data_id], d, TRUE)
    /\ q.status \in {2, 4} => Compared(q.seen, rows[q.prepared_data_id], d, FALSE)

AllJudged(requests, rows, d) == \A r \in 1 .. Len(requests) : Judged(requests[r], rows, d)

(* The last request, while there is a message about it. *)
Awaits(q, m, nonce, d) ==
    /\ q.status = 0
    /\ m.to = "forwarder" => Looked(q.seen, m.hash, nonce, d)
    /\ m.to = "verifier" => Looked(q.seen, m.response.hash, nonce, d) /\ Chosen(m.verifier, d)

Awaited(m, requests, rows, d) ==
    m # Null => Awaits(requests[Len(requests)], m,
                       rows[requests[Len(requests)].prepared_data_id].nonce, d)

JudgedInv ==
    /\ ClientInv
    /\ AllJudged(ra_request, ra_prepared_data, deployed)
    /\ Awaited(message, ra_request, ra_prepared_data, deployed)

(* A request without a verdict is judged in any way. *)
LEMMA NotJudged ==
    ASSUME NEW q, q.status = 0, NEW rows, NEW d
    PROVE  Judged(q, rows, d)
  BY DEF Judged

(* A new request. *)
LEMMA IssueJudges ==
    ASSUME JudgedInv, NEW d, NEW label, Issue(d, label)
    PROVE  /\ AllJudged(ra_request', ra_prepared_data', deployed')
           /\ Awaited(message', ra_request', ra_prepared_data', deployed')
<1>1. PICK q : q = [prepared_data_id |-> d, status |-> 0, label |-> label, seen |-> Null,
                    blamed |-> Null]
  OBVIOUS
<1>2. /\ UNCHANGED <<deployed, ra_prepared_data>>
      /\ ra_request' = Append(ra_request, q)
      /\ message'.to = "client"
  BY <1>1 DEF Issue, atomic_asclWebSocketSend, RequestMessage
<1>3. PICK S : ra_request \in Seq(S)
  BY DEF JudgedInv, ClientInv, ServingInv, GoodRequests
<1>4. ra_request \in Seq(S \cup {q})
  BY <1>3, SeqMonotonic, S \subseteq S \cup {q}
<1>5. PICK n \in Nat : n = Len(ra_request)
  BY <1>3
<1>6. /\ Len(ra_request') = n + 1 /\ ra_request'[n + 1] = q
      /\ \A k \in 1 .. n : ra_request'[k] = ra_request[k]
  BY <1>2, <1>4, <1>5, AppendProperties
<1>7. q.status = 0
  BY <1>1
<1>8. ASSUME NEW k \in 1 .. Len(ra_request')
      PROVE  Judged(ra_request'[k], ra_prepared_data, deployed)
  <2>1. CASE k = n + 1
    BY <1>6, <1>7, <2>1, NotJudged
  <2>2. CASE k # n + 1
    <3>1. k \in 1 .. n
      BY <1>6, <2>2
    <3>2. QED
      BY <1>5, <1>6, <3>1 DEF JudgedInv, AllJudged
  <2>3. QED
    BY <2>1, <2>2
<1>9. QED
  BY <1>2, <1>6, <1>7, <1>8 DEF AllJudged, Awaited, Awaits

(* A request that is replaced by one that is judged. *)
LEMMA ReplacedJudged ==
    ASSUME NEW d, NEW rows, NEW requests, GoodRequests(requests, rows, d),
           AllJudged(requests, rows, d), NEW r \in 1 .. Len(requests),
           NEW q, GoodRequest(q, rows, d), Judged(q, rows, d),
           NEW others, others = Replaced(requests, r, q)
    PROVE  AllJudged(others, rows, d) /\ Len(others) = Len(requests) /\ others[r] = q
<1>1. /\ Len(others) = Len(requests) /\ others[r] = q
      /\ \A k \in 1 .. Len(requests) : k # r => others[k] = requests[k]
  BY RequestChanged
<1>2. QED
  BY <1>1 DEF AllJudged

(* An attestation. *)
LEMMA AttestJudges ==
    ASSUME JudgedInv, NEW fault, Attest(fault)
    PROVE  /\ AllJudged(ra_request', ra_prepared_data', deployed')
           /\ Awaited(message', ra_request', ra_prepared_data', deployed')
<1> DEFINE r == Len(ra_request)
           q == ra_request[r]
<1>1. message # Null /\ message.to = "client" /\ UNCHANGED <<deployed, ra_prepared_data>>
  BY DEF Attest
<1>2. ServingInv /\ ClientHolds(client, Unsuitable)
  BY DEF JudgedInv, ClientInv
<1>3. /\ r \in 1 .. Len(ra_request) /\ GoodRequest(q, ra_prepared_data, deployed)
  BY <1>1, <1>2, LastRequest
<1>4. PICK nonce \in Nonces : nonce = message.nonce
  BY <1>1, <1>2, MessageNonce
<1>5. /\ message.request_id = r
      /\ nonce = ra_prepared_data[q.prepared_data_id].nonce
  BY <1>1, <1>2, <1>4 DEF ServingInv, GoodMessage
<1>6. q.status = 0
  BY <1>1 DEF JudgedInv, Awaited, Awaits
<1>7. deployed \in Deployments /\ GoodClient(client, deployed)
  BY <1>2 DEF ServingInv, ExtractionInv
<1>8. CASE message' = Null /\ ra_request' = ra_request
  BY <1>1, <1>8 DEF JudgedInv, Awaited
<1>9. PICK seen : seen = [memory |-> client.memory, area |-> LabelOf(nonce, deployed),
                          fault |-> fault]
  OBVIOUS
<1>10. PICK hash : hash = Hashed(deployed.hash, nonce,
                                 DataSeen(client.memory, fault, nonce, deployed), deployed)
  OBVIOUS
<1>11. CASE /\ Fits(nonce, deployed)
            /\ message' = ResponseMessage(AID, deployed.number, message.request_id, hash)
            /\ ra_request' = [ra_request EXCEPT ![message.request_id].seen = seen]
  <2>1. PICK p : p = [q EXCEPT !.seen = seen]
    OBVIOUS
  <2>2. q = [f \in RequestFields |-> q[f]]
    BY <1>3 DEF GoodRequest
  <2>3. /\ p = [f \in RequestFields |-> p[f]] /\ p.prepared_data_id = q.prepared_data_id
        /\ p.status = q.status /\ p.label = q.label /\ p.seen = seen /\ p.blamed = q.blamed
    BY <2>1, <2>2 DEF RequestFields
  <2>4. GoodRequest(p, ra_prepared_data, deployed)
    BY <1>3, <1>5, <1>9, <2>3 DEF GoodRequest
  <2>5. Judged(p, ra_prepared_data, deployed)
    BY <1>6, <2>3, NotJudged
  <2>6. PICK others : others = Replaced(ra_request, r, p)
    OBVIOUS
  <2>7. ra_request' = others
    BY <1>5, <1>11, <2>1, <2>6 DEF Replaced
  <2>8. PICK n \in 1 .. Len(ra_request) : n = r
    BY <1>3
  <2>9. AllJudged(others, ra_prepared_data, deployed) /\ Len(others) = r /\ others[r] = p
    BY <1>2, <2>4, <2>5, <2>6, <2>8, ReplacedJudged DEF JudgedInv, ServingInv
  <2>10. PICK m : m = message'
    OBVIOUS
  <2>11. m.to = "forwarder" /\ m.hash = hash
    BY <1>11, <2>10 DEF ResponseMessage
  <2>12. Looked(p.seen, hash, nonce, deployed)
    BY <1>2, <1>9, <1>10, <1>11, <2>3 DEF Looked, ClientHolds
  <2>13. Awaits(p, m, nonce, deployed)
    BY <1>6, <2>3, <2>11, <2>12 DEF Awaits
  <2>14. Awaited(m, others, ra_prepared_data, deployed)
    BY <1>5, <2>3, <2>9, <2>13 DEF Awaited
  <2>15. QED
    BY <1>1, <2>7, <2>9, <2>10, <2>14
<1>12. QED
  BY <1>2, <1>4, <1>7, <1>8, <1>9, <1>10, <1>11, AttestYields

(* The forwarder chooses a verifier. *)
LEMMA ForwardJudges ==
    ASSUME JudgedInv, NEW fault, ForwardResponse(fault)
    PROVE  /\ AllJudged(ra_request', ra_prepared_data', deployed')
           /\ Awaited(message', ra_request', ra_prepared_data', deployed')
<1> DEFINE r == Len(ra_request)
           q == ra_request[r]
<1>1. /\ message # Null /\ message.to = "forwarder"
      /\ UNCHANGED <<deployed, ra_prepared_data, ra_request>>
  BY DEF ForwardResponse
<1>2. Awaits(q, message, ra_prepared_data[q.prepared_data_id].nonce, deployed)
  BY <1>1 DEF JudgedInv, Awaited
<1>3. PICK m : m = message'
  OBVIOUS
<1>4. PICK hash : hash = VerifierHash(ForwardedNumber(message.attestator_number))
  OBVIOUS
<1>5. m = Null \/ (hash # Null /\ m = VerifierMessage(fault = "late", hash, message))
  BY <1>3, <1>4 DEF ForwardResponse
<1>6. hash # Null => Chosen(hash, deployed)
  <2>1. deployed \in Deployments /\ message.attestator_number = deployed.number
    BY <1>1 DEF JudgedInv, ClientInv, ServingInv, ExtractionInv, GoodMessage, GoodResponse
  <2>2. hash # Null => hash \in Variants
    BY <1>4, <2>1, HashAssumption DEF VerifierHash, Variants
  <2>3. deployed.number \in Nat
    BY <2>1, DeploymentAssumption
  <2>4. PICK n \in Nat : n = deployed.number
    BY <2>3
  <2>5. n <= 255 => n % 256 = n
    BY <2>4
  <2>6. deployed.number <= 255 => hash = deployed.hash
    BY <1>4, <2>1, <2>4, <2>5 DEF VerifierHash, ForwardedNumber
  <2>7. QED
    BY <2>2, <2>6 DEF Chosen
<1>7. CASE m = Null
  BY <1>1, <1>3, <1>7 DEF JudgedInv, Awaited
<1>8. CASE hash # Null /\ m = VerifierMessage(fault = "late", hash, message)
  <2>1. m.to = "verifier" /\ m.response = message /\ m.verifier = hash
    BY <1>8 DEF VerifierMessage
  <2>2. Awaits(q, m, ra_prepared_data[q.prepared_data_id].nonce, deployed)
    BY <1>1, <1>2, <1>6, <1>8, <2>1 DEF Awaits
  <2>3. QED
    BY <1>1, <1>3, <2>2 DEF JudgedInv, Awaited
<1>9. QED
  BY <1>5, <1>7, <1>8

(* The verifier. *)
LEMMA VerifyJudges ==
    ASSUME JudgedInv, NEW fault \in AllVerifyFaults, Verify(fault)
    PROVE  /\ AllJudged(ra_request', ra_prepared_data', deployed')
           /\ Awaited(message', ra_request', ra_prepared_data', deployed')
<1> DEFINE r == Len(ra_request)
           q == ra_request[r]
           row == ra_prepared_data[q.prepared_data_id]
<1>1. ServingInv
  BY DEF JudgedInv, ClientInv
<1>2. /\ UNCHANGED <<deployed, ra_prepared_data>> /\ message' = Null
      /\ message # Null /\ message.to = "verifier"
  BY <1>1, VerifyDoes
<1>3. Awaited(message', ra_request', ra_prepared_data', deployed')
  BY <1>2 DEF Awaited
<1>4. r \in 1 .. Len(ra_request) /\ GoodRequest(q, ra_prepared_data, deployed)
  BY <1>1, <1>2, LastRequest
<1>5. /\ Looked(q.seen, message.response.hash, row.nonce, deployed)
      /\ Chosen(message.verifier, deployed) /\ q.status = 0
  BY <1>2 DEF JudgedInv, Awaited, Awaits
<1>6. CASE ra_request' = ra_request
  BY <1>2, <1>3, <1>6 DEF JudgedInv
<1>7. ASSUME NEW right \in BOOLEAN, NEW blamed,
             right = (RowHashed(message.verifier, row, deployed) = message.response.hash),
             ra_request' = Replaced(ra_request, r,
                         Verdict(q, right, message.response_time, blamed, fault))
      PROVE  AllJudged(ra_request', ra_prepared_data, deployed)
  <2>1. PICK late \in BOOLEAN : late = message.response_time
    BY <1>1, <1>2 DEF ServingInv, GoodMessage
  <2>2. PICK p : p = Verdict(q, right, late, blamed, fault)
    OBVIOUS
  <2>3. /\ GoodRequest(p, ra_prepared_data, deployed)
        /\ p.prepared_data_id = q.prepared_data_id /\ p.seen = q.seen
        /\ p.status = IF fault = "finalize" THEN q.status ELSE StatusOf(right, late)
    <3>1. PICK asked : asked = q
      OBVIOUS
    <3>2. GoodRequest(asked, ra_prepared_data, deployed)
          /\ p = Verdict(asked, right, late, blamed, fault)
      BY <1>4, <2>2, <3>1
    <3>3. GoodRequest(p, ra_prepared_data, deployed)
      BY <3>2, VerdictFields
    <3>4. asked = [f \in RequestFields |-> asked[f]]
      BY <3>2 DEF GoodRequest
    <3>5. /\ p.prepared_data_id = asked.prepared_data_id /\ p.seen = asked.seen
          /\ p.status = IF fault = "finalize" THEN asked.status ELSE StatusOf(right, late)
      BY <3>2, <3>4 DEF Verdict, RequestFields
    <3>6. QED
      BY <3>1, <3>3, <3>4, <3>5
  <2>4. p.status = 0 \/ (right /\ p.status \in {1, 3}) \/ (~right /\ p.status \in {2, 4})
    BY <1>5, <2>3 DEF StatusOf
  <2>5. Compared(q.seen, row, deployed, right)
    BY <1>5, <1>7 DEF Compared, Looked
  <2>6. Judged(p, ra_prepared_data, deployed)
    <3>1. CASE p.status = 0
      BY <3>1, NotJudged
    <3>2. CASE right /\ p.status \in {1, 3}
      <4>1. right = TRUE
        BY <3>2
      <4>2. Compared(p.seen, ra_prepared_data[p.prepared_data_id], deployed, TRUE)
        BY <2>3, <2>5, <4>1
      <4>3. p.status \notin {2, 4}
        BY <3>2
      <4>4. QED
        BY <4>2, <4>3 DEF Judged
    <3>3. CASE ~right /\ p.status \in {2, 4}
      <4>1. right = FALSE
        BY <3>3
      <4>2. Compared(p.seen, ra_prepared_data[p.prepared_data_id], deployed, FALSE)
        BY <2>3, <2>5, <4>1
      <4>3. p.status \notin {1, 3}
        BY <3>3
      <4>4. QED
        BY <4>2, <4>3 DEF Judged
    <3>4. QED
      BY <2>4, <3>1, <3>2, <3>3
  <2>7. PICK n \in 1 .. Len(ra_request) : n = r
    BY <1>4
  <2>8. PICK others : others = Replaced(ra_request, n, p)
    OBVIOUS
  <2>9. AllJudged(others, ra_prepared_data, deployed)
    BY <1>1, <2>3, <2>6, <2>7, <2>8, ReplacedJudged DEF JudgedInv, ServingInv
  <2>10. QED
    BY <1>7, <2>1, <2>2, <2>7, <2>8, <2>9
<1>8. QED
  BY <1>1, <1>2, <1>3, <1>6, <1>7, VerifyDoes

(* The first state has no requests. *)
LEMMA JudgedInit == ASSUME Init PROVE JudgedInv
  BY ClientInit DEF Init, JudgedInv, AllJudged, Awaited

(* Every step keeps the invariant. *)
LEMMA JudgedStep == ASSUME JudgedInv, [Next]_vars PROVE JudgedInv'
<1>1. ClientInv'
  BY ClientStep DEF JudgedInv
<1>2. CASE Extractor
  <2>1. UNCHANGED <<ra_request, message>> /\ extractor.pc # "ended"
    BY <1>2, ExtractorLeaves DEF JudgedInv, ClientInv, ServingInv, serverVars
  <2>2. ra_request' = <<>> /\ message' = Null
    BY <2>1 DEF JudgedInv, ClientInv, ServingInv
  <2>3. QED
    BY <1>1, <2>2 DEF JudgedInv, AllJudged, Awaited
<1>3. ASSUME NEW d, NEW label, Issue(d, label) PROVE JudgedInv'
  BY <1>1, <1>3, IssueJudges DEF JudgedInv
<1>4. CASE ServeClient \/ \E row \in Directory.startup : AttestAtStartup(row.memory_area)
  BY <1>3, <1>4 DEF ServeClient, AttestAtStartup
<1>5. CASE \E t \in Tampered : Tamper(t)
  BY <1>1, <1>5 DEF Tamper, serverVars, JudgedInv
<1>6. CASE \E fault \in {"none", "nonce", "labels", "buffer", "data", "hash", "response",
                         "send"} : Attest(fault)
  BY <1>1, <1>6, AttestJudges DEF JudgedInv
<1>7. CASE \E fault \in {"none", "fork", "late"} : ForwardResponse(fault)
  BY <1>1, <1>7, ForwardJudges DEF JudgedInv
<1>8. CASE \E fault \in AllVerifyFaults : Verify(fault)
  BY <1>1, <1>8, VerifyJudges DEF JudgedInv
<1>9. CASE UNCHANGED vars
  BY <1>1, <1>9 DEF vars, JudgedInv
<1>10. QED
  BY <1>2, <1>4, <1>5, <1>6, <1>7, <1>8, <1>9
     DEF Next, Attestations, AllVerifyFaults, VerdictFaults

-----------------------------------------------------------------------------
(* The places that a walk comes to *)

(* A prime has no divisor but 1 and itself, also above its root. *)
LEMMA PrimeDivisor ==
    ASSUME NEW p \in Nat, IsPrime(p), NEW d \in Nat \ {0}, p % d = 0
    PROVE  d = 1 \/ d = p
<1>1. p >= 2
  BY DEF IsPrime
<1>2. PICK e \in Int : p = d * e + 0
  BY DivMod
<1>3. e >= 1
  <2>1. SUFFICES ASSUME e <= 0 PROVE FALSE
    OBVIOUS
  <2>2. d * e <= 0
    BY <2>1
  <2>3. QED
    BY <1>1, <1>2, <2>2
<1>4. e \in Nat \ {0}
  BY <1>3
<1>5. SUFFICES ASSUME d # 1, d # p PROVE FALSE
  OBVIOUS
<1>6. e # 1
  BY <1>2, <1>5
<1>7. d >= 2 /\ e >= 2
  BY <1>4, <1>5, <1>6
<1>8. d < p /\ e < p
  <2>1. d * e >= d * 2 /\ d * e >= 2 * e
    BY <1>4, <1>7
  <2>2. QED
    BY <1>2, <1>4, <1>7, <2>1
<1>9. CASE d <= e
  <2>1. d * d <= d * e
    BY <1>4, <1>9
  <2>2. d \in 2 .. (p - 1) /\ d * d <= p
    BY <1>2, <1>7, <1>8, <2>1
  <2>3. QED
    BY <2>2 DEF IsPrime
<1>10. CASE e <= d
  <2>1. e * e <= d * e
    BY <1>4, <1>10
  <2>2. e \in 2 .. (p - 1) /\ e * e <= p
    BY <1>2, <1>4, <1>7, <1>8, <2>1
  <2>3. p = e * d + 0 /\ p \in Int /\ d \in Int /\ 0 \in Nat /\ 0 < e
    BY <1>2, <1>4
  <2>4. p % e = 0
    BY <1>4, <2>3, UniqueRemainder
  <2>5. QED
    BY <2>2, <2>4 DEF IsPrime
<1>11. QED
  BY <1>4, <1>9, <1>10

(* A step that is no multiple of a prime has no divisor with it. *)
LEMMA PrimeCoprime ==
    ASSUME NEW p \in Nat, IsPrime(p), NEW g \in Nat, g % p # 0
    PROVE  Coprime(g, p)
<1>1. SUFFICES ASSUME NEW d \in 1 .. p, g % d = 0, p % d = 0 PROVE d = 1
  BY DEF Coprime
<1>2. d = 1 \/ d = p
  <2>1. d \in Nat \ {0}
    BY <1>1
  <2>2. QED
    BY <1>1, <2>1, PrimeDivisor
<1>3. QED
  BY <1>1, <1>2

(* A prime between the half of a number and the number is no divisor of it. *)
LEMMA LargePrimeCoprime ==
    ASSUME NEW p \in Nat, IsPrime(p), NEW n \in Nat, p < n, n < 2 * p
    PROVE  Coprime(p, n)
<1>1. SUFFICES ASSUME NEW d \in 1 .. n, p % d = 0, n % d = 0 PROVE d = 1
  BY DEF Coprime
<1>2. d = 1 \/ d = p
  <2>1. d \in Nat \ {0}
    BY <1>1
  <2>2. QED
    BY <1>1, <2>1, PrimeDivisor
<1>3. n % p # 0
  <2>1. p \in Nat \ {0} /\ n = p * 1 + (n - p) /\ n - p \in Nat /\ n - p < p
    OBVIOUS
  <2>2. n % p = n - p
    <3>1. PICK r \in Nat : r = n - p
      BY <2>1
    <3>2. n = p * 1 + r /\ r < p
      BY <2>1, <3>1
    <3>3. n % p = r
      BY <2>1, <3>2, UniqueRemainder
    <3>4. QED
      BY <3>1, <3>3
  <2>3. QED
    BY <2>1, <2>2
<1>4. QED
  BY <1>1, <1>2, <1>3

(* The indices of a walk of m steps. *)
Indices(g, n, m) == {calculate_index(g, i - 1, n) : i \in 1 .. m}

(* They are the ones that Visits names. *)
LEMMA VisitsIs ==
    ASSUME NEW g \in Nat, NEW n \in Nat \ {0}, NEW m \in Nat, n <= m,
           g % n # 0 => Coprime(g, n)
    PROVE  Indices(g, n, m) = Visits(g, n)
<1>1. CASE g % n = 0
  <2>1. ASSUME NEW i \in 1 .. m PROVE calculate_index(g, i - 1, n) = 0
    <3>1. PICK k \in Int : k = i - 1
      OBVIOUS
    <3>2. g \in Int
      OBVIOUS
    <3>3. (g * k) % n = 0
      BY <1>1, <3>2, MultipleTimes
    <3>4. QED
      BY <3>1, <3>3 DEF calculate_index
  <2>2. 1 \in 1 .. m
    OBVIOUS
  <2>3. QED
    BY <1>1, <2>1, <2>2 DEF Indices, Visits
<1>2. CASE g % n # 0
  <2>1. ASSUME NEW i \in 1 .. m PROVE calculate_index(g, i - 1, n) \in 0 .. (n - 1)
    <3>1. PICK k \in Nat : k = i - 1
      OBVIOUS
    <3>2. n \in Nat /\ n > 0
      OBVIOUS
    <3>3. calculate_index(g, k, n) \in Nat /\ calculate_index(g, k, n) < n
      BY <3>2, IndexInside
    <3>4. QED
      BY <3>1, <3>3
  <2>2. ASSUME NEW v \in 0 .. (n - 1) PROVE v \in Indices(g, n, m)
    <3>1. PICK w \in Nat : w = v /\ w < n
      OBVIOUS
    <3>2. PICK i \in 0 .. (n - 1) : (g * i) % n = w
      BY <1>2, <3>1, MultiplesCover
    <3>3. i + 1 \in 1 .. m /\ (i + 1) - 1 = i
      OBVIOUS
    <3>4. calculate_index(g, (i + 1) - 1, n) = v
      BY <3>1, <3>2, <3>3 DEF calculate_index
    <3>5. QED
      BY <3>3, <3>4 DEF Indices
  <2>3. QED
    BY <1>2, <2>1, <2>2 DEF Indices, Visits
<1>3. QED
  BY <1>1, <1>2

-----------------------------------------------------------------------------
(* The places of a deployed walk *)

(* The step of a walk has no divisor with its window, or is a multiple. *)
LEMMA StepCoprime ==
    ASSUME NEW d, Buildable(d), NEW nonce \in AnyNonce, Decodable(nonce, d),
           NumberFacts(SizeOf(nonce, d)), StepOf(nonce, d) % WindowOf(nonce, d) # 0
    PROVE  Coprime(StepOf(nonce, d), WindowOf(nonce, d))
<1>1. PICK n \in Nat : n = SizeOf(nonce, d) /\ n >= 2
  BY InfoNumbers DEF Decodable
<1>2. PICK p \in 2 .. n : p = closest_prime(n)
  BY <1>1, ClosestPrime
<1>3. LastPrime(p, n) /\ IsPrime(p)
  BY <1>1, <1>2, ClosestPrime DEF LastPrime
<1>4. StepOf(nonce, d) \in Nat
  BY InfoNumbers
<1>5. CASE d.version \in {1, 4}
  <2>1. WindowOf(nonce, d) = p
    BY <1>1, <1>2, <1>5 DEF WindowOf
  <2>2. PICK g \in Nat : g = StepOf(nonce, d)
    BY <1>4
  <2>3. Coprime(g, p)
    BY <1>3, <2>1, <2>2, PrimeCoprime
  <2>4. QED
    BY <2>1, <2>2, <2>3
<1>6. CASE d.version \in {2, 3}
  <2>1. WindowOf(nonce, d) = n
    BY <1>1, <1>6 DEF WindowOf
  <2>2. StepOf(nonce, d) = p
    BY <1>1, <1>2, <1>6 DEF StepOf, AtLeastTwo
  <2>3. p # n
    <3>1. n % n = 0
      BY <1>1
    <3>2. QED
      BY <2>1, <2>2, <3>1
  <2>4. PICK q \in 2 .. n : IsPrime(q) /\ 2 * q > n
    BY <1>1 DEF NumberFacts
  <2>5. q <= p
    BY <1>3, <2>4 DEF LastPrime
  <2>6. p < n /\ n < 2 * p
    BY <2>3, <2>4, <2>5
  <2>7. Coprime(p, n)
    BY <1>3, <2>6, LargePrimeCoprime
  <2>8. QED
    BY <2>1, <2>2, <2>7
<1>7. QED
  BY <1>5, <1>6 DEF Buildable

(* The places that a walk of m steps comes to. *)
Reached(walk, m) == {walk[i] : i \in 1 .. m}

(* Those of a deployed walk. *)
WalkPlaces(nonce, d) ==
    IF d.preparation = "goldbach"
    THEN Reached(LeftWalk(nonce, d), RightOf(nonce, d))
           \cup Reached(RightWalk(nonce, d), RightOf(nonce, d))
    ELSE Reached(Walk(InfoOf(nonce, d)), WindowOf(nonce, d))

(* A walk of the second preparation over one of its parts. *)
LEMMA PartVisits ==
    ASSUME NEW n \in Nat, IsPrime(n), NEW o \in Nat, o >= 2, NEW s \in Nat,
           NEW m \in Nat, n <= m
    PROVE  Indices(s % o, n, m) = Visits(s % o, n)
<1>1. n \in Nat \ {0} /\ o \in Nat \ {0}
  BY DEF IsPrime
<1>2. PICK g \in Nat : g = s % o
  BY <1>1, DivMod
<1>3. g % n # 0 => Coprime(g, n)
  BY PrimeCoprime
<1>4. Indices(g, n, m) = Visits(g, n)
  BY <1>1, <1>3, VisitsIs
<1>5. QED
  BY <1>2, <1>4

(* What the window, the step and the offset in CoveredPlaces are. *)
LEMMA CoveredIs ==
    ASSUME NEW d, Buildable(d), NEW nonce \in AnyNonce, Decodable(nonce, d),
           d.version = deployed.version
    PROVE  /\ WindowIn(SizeOf(nonce, d)) = WindowOf(nonce, d)
           /\ StepIn(nonce, SizeOf(nonce, d)) = StepOf(nonce, d)
           /\ OffsetIn(nonce, SizeOf(nonce, d)) = OffsetOf(nonce, d)
           /\ CoveredPlaces(nonce, SizeOf(nonce, d))
                = Shifted(VisitsWindow(StepOf(nonce, d), WindowOf(nonce, d)), OffsetOf(nonce, d))
<1>1. PICK n \in Nat : n = SizeOf(nonce, d) /\ n >= 2
  BY InfoNumbers DEF Decodable
<1>2. PICK p \in 2 .. n : p = closest_prime(n)
  BY <1>1, ClosestPrime
<1>3. LargestPrime(n) = p
  BY <1>1, <1>2, ClosestPrime
<1> DEFINE window == IF deployed.version \in {1, 4} THEN p ELSE n
           step   == CASE deployed.version = 1 -> AtLeastTwo(nonce[AtGenerator] % p)
                       [] deployed.version \in {2, 3} -> p
                       [] deployed.version = 4 -> LargestPrime(p - 1)
           offset == IF deployed.version = 1 /\ n > p
                     THEN nonce[AtOffset] % (n - p) ELSE 0
<1>4. d.version \in 1 .. 4
  BY DEF Buildable
<1>5. window = WindowOf(nonce, d)
  BY <1>1, <1>2 DEF WindowOf
<1>6. offset = OffsetOf(nonce, d)
  BY <1>1, <1>2, <1>5 DEF OffsetOf
<1>7. step = StepOf(nonce, d)
  <2>1. CASE d.version = 1
    BY <1>1, <1>2, <2>1 DEF StepOf
  <2>2. CASE d.version \in {2, 3}
    BY <1>1, <1>2, <2>2 DEF StepOf, AtLeastTwo
  <2>3. CASE d.version = 4
    <3>1. PICK m \in Nat : m = p - 1 /\ m >= 2
      BY <1>1, <1>2, <2>3 DEF Decodable
    <3>2. LargestPrime(m) = closest_prime(m) /\ closest_prime(m) >= 2
      BY <3>1, ClosestPrime
    <3>3. closest_prime(m) \notin {0, 1}
      BY <3>1, <3>2, ClosestPrime
    <3>4. step = closest_prime(m)
      BY <2>3, <3>1, <3>2
    <3>5. StepOf(nonce, d) = AtLeastTwo(closest_prime(m))
      BY <1>1, <1>2, <2>3, <3>1 DEF StepOf
    <3>6. QED
      BY <3>3, <3>4, <3>5 DEF AtLeastTwo
  <2>4. QED
    BY <1>4, <2>1, <2>2, <2>3
<1>8. WindowIn(n) = window /\ StepIn(nonce, n) = step /\ OffsetIn(nonce, n) = offset
  BY <1>3 DEF WindowIn, StepIn, OffsetIn
<1> HIDE DEF window, step, offset
<1>9. CoveredPlaces(nonce, n) = Shifted(VisitsWindow(step, window), offset)
  BY <1>8 DEF CoveredPlaces
<1>10. QED
  BY <1>1, <1>5, <1>6, <1>7, <1>8, <1>9

(* A walk over a window, shifted. *)
Steps(walk, g, n, m, o) ==
    \A i \in 1 .. m : /\ walk[i] = calculate_index(g, i - 1, n) + o
                      /\ calculate_index(g, i - 1, n) \in Nat

(* The places that it comes to. *)
LEMMA ShiftedIndices ==
    ASSUME NEW g, NEW n, NEW m \in Nat, NEW o \in Nat, NEW walk, Steps(walk, g, n, m, o)
    PROVE  Reached(walk, m) = Shifted(Indices(g, n, m), o)
<1>1. ASSUME NEW i \in 1 .. m PROVE walk[i] \in Shifted(Indices(g, n, m), o)
  <2>1. PICK v \in Nat : v = calculate_index(g, i - 1, n) /\ walk[i] = v + o
    BY DEF Steps
  <2>2. v \in Indices(g, n, m)
    BY <2>1 DEF Indices
  <2>3. walk[i] = o + v
    BY <2>1
  <2>4. QED
    BY <2>2, <2>3 DEF Shifted
<1>2. ASSUME NEW x \in Shifted(Indices(g, n, m), o) PROVE \E i \in 1 .. m : x = walk[i]
  <2>1. PICK v \in Indices(g, n, m) : x = o + v
    BY <1>2 DEF Shifted
  <2>2. PICK i \in 1 .. m : v = calculate_index(g, i - 1, n)
    BY <2>1 DEF Indices
  <2>3. x = walk[i]
    BY <2>1, <2>2 DEF Steps
  <2>4. QED
    BY <2>3
<1>3. QED
  BY <1>1, <1>2 DEF Reached

(* A set that is shifted twice, and a union that is shifted. *)
LEMMA ShiftedTwice ==
    ASSUME NEW A \in SUBSET Nat, NEW B \in SUBSET Nat, NEW l \in Nat, NEW o \in Nat
    PROVE  Shifted(A \cup Shifted(B, l), o) = Shifted(A, o) \cup Shifted(B, l + o)
  BY DEF Shifted

(* Indices are numbers. *)
LEMMA IndicesType ==
    ASSUME NEW g \in Nat, NEW n \in Nat, n > 0, NEW m \in Nat
    PROVE  /\ Indices(g, n, m) \in SUBSET Nat
           /\ \A i \in 1 .. m : calculate_index(g, i - 1, n) \in Nat
<1>1. ASSUME NEW i \in 1 .. m PROVE calculate_index(g, i - 1, n) \in Nat
  <2>1. PICK k \in Nat : k = i - 1
    OBVIOUS
  <2>2. QED
    BY <2>1, IndexInside
<1>2. QED
  BY <1>1 DEF Indices

(* The places that a walk comes to are the ones said to be covered. *)
LEMMA PlacesCovered ==
    ASSUME NEW d, Buildable(d), NEW nonce \in AnyNonce, Fits(nonce, d),
           d.version = deployed.version, d.preparation = deployed.preparation,
           NumberFacts(SizeOf(nonce, d))
    PROVE  CoveredPlaces(nonce, SizeOf(nonce, d)) = WalkPlaces(nonce, d)
<1>1. Decodable(nonce, d)
  BY DEF Fits
<1>2. PICK s \in Nat, w \in Nat, o \in Nat :
        /\ s = StepOf(nonce, d) /\ w = WindowOf(nonce, d) /\ o = OffsetOf(nonce, d)
        /\ w >= 2
  BY <1>1, InfoNumbers
<1>3. CoveredPlaces(nonce, SizeOf(nonce, d)) = Shifted(VisitsWindow(s, w), o)
  BY <1>1, <1>2, CoveredIs
<1>4. CASE d.preparation # "goldbach"
  <2>1. s % w # 0 => Coprime(s, w)
    BY <1>1, <1>2, StepCoprime
  <2>2. Indices(s, w, w) = Visits(s, w)
    <3>1. w \in Nat \ {0} /\ w <= w
      BY <1>2
    <3>2. QED
      BY <2>1, <3>1, VisitsIs
  <2>3. PICK walk : walk = Walk(InfoOf(nonce, d))
    OBVIOUS
  <2>4. \A i \in 1 .. w : walk[i] = calculate_index(s, i - 1, w) + o
    BY <1>1, <1>2, <2>3, WalkInside
  <2>5. \A i \in 1 .. w : calculate_index(s, i - 1, w) \in Nat
    <3>1. w > 0
      BY <1>2
    <3>2. QED
      BY <3>1, IndicesType
  <2>6. Reached(walk, w) = Shifted(Indices(s, w, w), o)
    BY <2>4, <2>5, ShiftedIndices DEF Steps
  <2>7. WalkPlaces(nonce, d) = Reached(walk, w)
    BY <1>2, <1>4, <2>3 DEF WalkPlaces
  <2>8. VisitsWindow(s, w) = Visits(s, w)
    BY <1>4 DEF VisitsWindow
  <2>9. QED
    BY <1>3, <2>2, <2>6, <2>7, <2>8
<1>5. CASE d.preparation = "goldbach"
  <2>1. PICK half \in Nat : half = HalfOf(nonce, d) /\ half = w \div 2
    BY <1>2, <1>5 DEF HalfOf
  <2>2. Sums2(half) /\ 2 <= half /\ 2 * half <= LastPartition
    BY <1>5, <2>1, HasPartition DEF Fits
  <2>3. PICK l \in Nat, r \in Nat : l = goldbach_left(2 * half) /\ r = goldbach_right(2 * half)
    BY <2>2, GoldbachParts
  <2>4. IsPrime(l) /\ IsPrime(r) /\ l <= r /\ l >= 2 /\ r >= 2
    BY <2>2, <2>3, GoldbachParts
  <2>5. l = LeftOf(nonce, d) /\ r = RightOf(nonce, d)
    BY <2>1, <2>3 DEF LeftOf, RightOf
  <2>6. PICK a \in Nat, b \in Nat : a = s % r /\ b = s % l
    <3>1. l \in Nat \ {0} /\ r \in Nat \ {0} /\ s \in Int
      BY <2>4
    <3>2. QED
      BY <3>1, DivMod
  <2>7. Indices(a, l, r) = Visits(a, l)
    BY <2>4, <2>6, PartVisits
  <2>8. Indices(b, r, r) = Visits(b, r)
    <3>1. r <= r
      OBVIOUS
    <3>2. QED
      BY <2>4, <2>6, <3>1, PartVisits
  <2>9. PICK left, right : left = LeftWalk(nonce, d) /\ right = RightWalk(nonce, d)
    OBVIOUS
  <2>10. TwoWalks(nonce, d, l, r)
    <3>1. TwoWalks(nonce, d, LeftOf(nonce, d), RightOf(nonce, d))
      BY <1>5, <2>1, <2>2, GoldbachInside
    <3>2. QED
      BY <2>5, <3>1
  <2>11. \A i \in 1 .. r : left[i] = calculate_index(a, i - 1, l) + o
    BY <1>2, <2>6, <2>9, <2>10 DEF TwoWalks
  <2>12. \A i \in 1 .. r : right[i] = calculate_index(b, i - 1, r) + (l + o)
    <3>1. \A i \in 1 .. r : right[i] = calculate_index(b, i - 1, r) + l + o
      BY <1>2, <2>6, <2>9, <2>10 DEF TwoWalks
    <3>2. \A i \in 1 .. r : calculate_index(b, i - 1, r) \in Nat
      <4>1. r > 0
        BY <2>4
      <4>2. QED
        BY <4>1, IndicesType
    <3>3. QED
      BY <3>1, <3>2
  <2>13. /\ Indices(a, l, r) \in SUBSET Nat
         /\ \A i \in 1 .. r : calculate_index(a, i - 1, l) \in Nat
    <3>1. l > 0
      BY <2>4
    <3>2. QED
      BY <3>1, IndicesType
  <2>14. /\ Indices(b, r, r) \in SUBSET Nat
         /\ \A i \in 1 .. r : calculate_index(b, i - 1, r) \in Nat
    <3>1. r > 0
      BY <2>4
    <3>2. QED
      BY <3>1, IndicesType
  <2>15. Reached(left, r) = Shifted(Indices(a, l, r), o)
    BY <2>11, <2>13, ShiftedIndices DEF Steps
  <2>16. Reached(right, r) = Shifted(Indices(b, r, r), l + o)
    <3>1. PICK m \in Nat : m = l + o
      OBVIOUS
    <3>2. \A i \in 1 .. r : right[i] = calculate_index(b, i - 1, r) + m
      BY <2>12, <3>1
    <3>3. Reached(right, r) = Shifted(Indices(b, r, r), m)
      BY <2>14, <3>2, ShiftedIndices DEF Steps
    <3>4. QED
      BY <3>1, <3>3
  <2>17. WalkPlaces(nonce, d) = Reached(left, r) \cup Reached(right, r)
    BY <1>5, <2>5, <2>9 DEF WalkPlaces
  <2>18. VisitsWindow(s, w) = VisitsParts(s, l, r)
    BY <1>5, <2>1, <2>3 DEF VisitsWindow
  <2>19. VisitsParts(s, l, r) = Visits(a, l) \cup Shifted(Visits(b, r), l)
    BY <2>6 DEF VisitsParts
  <2>20. Shifted(Visits(a, l) \cup Shifted(Visits(b, r), l), o)
           = Shifted(Visits(a, l), o) \cup Shifted(Visits(b, r), l + o)
    <3>1. Visits(a, l) \in SUBSET Nat /\ Visits(b, r) \in SUBSET Nat
      BY <2>7, <2>8, <2>13, <2>14
    <3>2. QED
      BY <3>1, ShiftedTwice
  <2>21. QED
    BY <1>3, <2>7, <2>8, <2>15, <2>16, <2>17, <2>18, <2>19, <2>20
<1>6. QED
  BY <1>4, <1>5

-----------------------------------------------------------------------------
(* The bytes that are attested *)

(* The byte at some place of the area that a nonce selects. *)
AddressAt(nonce, d, x) == Addresses(PlanOf(nonce, d))[x + 1]
ByteAt(memory, nonce, d, x) == memory[AddressAt(nonce, d, x)]

(* Two memories agree on some places. *)
Agree(memory, other, nonce, d, places) ==
    \A x \in places : ByteAt(memory, nonce, d, x) = ByteAt(other, nonce, d, x)

(* The bytes of a walk, one by one. *)
ReadsAlong(bytes, memory, nonce, d, walk, m) ==
    /\ bytes \in [1 .. m -> 0 .. 255]
    /\ \A i \in 1 .. m : /\ walk[i] \in Nat /\ walk[i] < SizeOf(nonce, d)
                         /\ bytes[i] = ByteAt(memory, nonce, d, walk[i])
                         /\ AddressAt(nonce, d, walk[i]) \in DOMAIN Text

(* Pick reads along a walk that stays inside. *)
LEMMA PickReads ==
    ASSUME NEW d \in Deployments, NEW nonce \in AnyNonce, d.areas # <<>>,
           NEW memory \in Memories, NEW m \in Nat, NEW walk \in [1 .. m -> Nat],
           \A i \in 1 .. m : walk[i] < SizeOf(nonce, d)
    PROVE  ReadsAlong(Pick(memory, PlanOf(nonce, d), walk), memory, nonce, d, walk, m)
<1>1. PICK plan \in Plan : plan = PlanOf(nonce, d) /\ InText(plan)
  BY AreaFacts
<1>2. SizeOf(nonce, d) = BytesOf(plan.blocks)
  BY <1>1 DEF SizeOf
<1>3. Pick(memory, plan, walk) \in [1 .. m -> 0 .. 255]
  <2>1. \A i \in 1 .. m : walk[i] < BytesOf(plan.blocks)
    BY <1>2
  <2>2. QED
    BY <1>1, <2>1, BytesAtIs
<1>4. \A i \in 1 .. m : FoundAt(plan, memory, walk[i])
  BY <1>1, <1>2, AddressFacts
<1>5. \A i \in 1 .. m : Addresses(plan)[walk[i] + 1] \in DOMAIN Text
  BY <1>4 DEF FoundAt
<1>6. \A i \in 1 .. m : Pick(memory, plan, walk)[i] = memory[Addresses(plan)[walk[i] + 1]]
  BY DEF Pick
<1>7. QED
  BY <1>1, <1>3, <1>5, <1>6 DEF ReadsAlong, ByteAt, AddressAt

(* What is attested without parts. *)
LEMMA AttestedWalk ==
    ASSUME NEW d \in Deployments, NEW nonce \in AnyNonce, Fits(nonce, d),
           NEW memory \in Memories, d.preparation # "goldbach"
    PROVE  /\ WindowOf(nonce, d) \in Nat /\ WindowOf(nonce, d) >= 2
           /\ ReadsAlong(Attested(nonce, memory, d), memory, nonce, d,
                         Walk(InfoOf(nonce, d)), WindowOf(nonce, d))
<1>1. d.areas # <<>> /\ Decodable(nonce, d)
  BY DEF Fits, Decodable
<1>2. Buildable(d)
  BY <1>1, AreaFacts
<1>3. PICK m \in Nat : m = WindowOf(nonce, d) /\ m >= 2
  BY <1>1, <1>2, InfoNumbers
<1>4. PICK walk \in [1 .. m -> Nat] : walk = Walk(InfoOf(nonce, d))
  BY <1>1, <1>2, <1>3, WalkInside
<1>5. \A i \in 1 .. m : walk[i] < SizeOf(nonce, d)
  BY <1>1, <1>2, <1>3, <1>4, WalkInside
<1>6. ReadsAlong(Pick(memory, PlanOf(nonce, d), walk), memory, nonce, d, walk, m)
  BY <1>1, <1>5, PickReads
<1>7. Attested(nonce, memory, d) = Pick(memory, PlanOf(nonce, d), walk)
  BY <1>4 DEF Attested
<1>8. QED
  BY <1>3, <1>4, <1>6, <1>7

(* What is attested with two parts. *)
LEMMA AttestedParts ==
    ASSUME NEW d \in Deployments, NEW nonce \in AnyNonce, Fits(nonce, d),
           NEW memory \in Memories, d.preparation = "goldbach"
    PROVE  /\ RightOf(nonce, d) \in Nat /\ RightOf(nonce, d) >= 2
           /\ \E left, right :
                /\ ReadsAlong(left, memory, nonce, d, LeftWalk(nonce, d), RightOf(nonce, d))
                /\ ReadsAlong(right, memory, nonce, d, RightWalk(nonce, d), RightOf(nonce, d))
                /\ Attested(nonce, memory, d) = Sums(left, right)
<1>1. d.areas # <<>> /\ Decodable(nonce, d)
  BY DEF Fits, Decodable
<1>2. Buildable(d) /\ NumberFacts(SizeOf(nonce, d))
  BY <1>1, AreaFacts
<1>3. Sums2(HalfOf(nonce, d))
  BY <1>2, HasPartition
<1>4. PICK half \in Nat : half = HalfOf(nonce, d) /\ 2 <= half /\ 2 * half <= LastPartition
  <2>1. WindowOf(nonce, d) \in Nat
    BY <1>1, <1>2, InfoNumbers
  <2>2. HalfOf(nonce, d) \in Nat
    BY <2>1 DEF HalfOf
  <2>3. QED
    BY <2>2 DEF Fits
<1>5. PICK l \in Nat, m \in Nat : l = LeftOf(nonce, d) /\ m = RightOf(nonce, d)
  BY <1>2, <1>3, GoldbachInside
<1>6. l >= 2 /\ m >= 2
  BY <1>3, <1>4, <1>5, GoldbachParts DEF LeftOf, RightOf
<1>7. TwoWalks(nonce, d, l, m)
  BY <1>2, <1>3, <1>5, GoldbachInside
<1>8. PICK left \in [1 .. m -> Nat] : left = LeftWalk(nonce, d)
  BY <1>7 DEF TwoWalks
<1>9. PICK right \in [1 .. m -> Nat] : right = RightWalk(nonce, d)
  BY <1>7 DEF TwoWalks
<1>10. \A i \in 1 .. m : left[i] < SizeOf(nonce, d)
  BY <1>7, <1>8 DEF TwoWalks
<1>11. \A i \in 1 .. m : right[i] < SizeOf(nonce, d)
  BY <1>7, <1>9 DEF TwoWalks
<1>12. PICK lb : lb = Pick(memory, PlanOf(nonce, d), left)
  OBVIOUS
<1>13. PICK rb : rb = Pick(memory, PlanOf(nonce, d), right)
  OBVIOUS
<1>14. ReadsAlong(lb, memory, nonce, d, left, m)
  BY <1>1, <1>10, <1>12, PickReads
<1>15. ReadsAlong(rb, memory, nonce, d, right, m)
  BY <1>1, <1>11, <1>13, PickReads
<1>16. Attested(nonce, memory, d) = Sums(lb, rb)
  BY <1>8, <1>9, <1>12, <1>13 DEF Attested
<1>17. QED
  BY <1>5, <1>6, <1>8, <1>9, <1>14, <1>15, <1>16

(* Walks read the same bytes from memories that agree on their places. *)
LEMMA ReadsSame ==
    ASSUME NEW m \in Nat, NEW nonce, NEW d, NEW walk, NEW memory, NEW other,
           NEW bytes, ReadsAlong(bytes, memory, nonce, d, walk, m),
           NEW others, ReadsAlong(others, other, nonce, d, walk, m)
    PROVE  /\ Agree(memory, other, nonce, d, Reached(walk, m)) => bytes = others
           /\ bytes = others => Agree(memory, other, nonce, d, Reached(walk, m))
<1>1. ASSUME Agree(memory, other, nonce, d, Reached(walk, m)) PROVE bytes = others
  <2>1. \A i \in 1 .. m : bytes[i] = others[i]
    BY <1>1 DEF Agree, Reached, ReadsAlong
  <2>2. QED
    BY <2>1 DEF ReadsAlong
<1>2. ASSUME bytes = others PROVE Agree(memory, other, nonce, d, Reached(walk, m))
  BY <1>2 DEF Agree, Reached, ReadsAlong
<1>3. QED
  BY <1>1, <1>2

(* The same memory where the nonce looks is the same data. *)
LEMMA SameData ==
    ASSUME NEW d \in Deployments, NEW nonce \in AnyNonce, Fits(nonce, d),
           NEW memory \in Memories, NEW other \in Memories,
           Agree(memory, other, nonce, d, WalkPlaces(nonce, d))
    PROVE  Attested(nonce, memory, d) = Attested(nonce, other, d)
<1>1. CASE d.preparation # "goldbach"
  <2>1. PICK m \in Nat : m = WindowOf(nonce, d)
    BY <1>1, AttestedWalk
  <2>2. PICK walk, bytes, others : /\ walk = Walk(InfoOf(nonce, d))
                                   /\ bytes = Attested(nonce, memory, d)
                                   /\ others = Attested(nonce, other, d)
    OBVIOUS
  <2>3. ReadsAlong(bytes, memory, nonce, d, walk, m)
    BY <1>1, <2>1, <2>2, AttestedWalk
  <2>4. ReadsAlong(others, other, nonce, d, walk, m)
    BY <1>1, <2>1, <2>2, AttestedWalk
  <2>5. Agree(memory, other, nonce, d, Reached(walk, m))
    BY <1>1, <2>1, <2>2 DEF WalkPlaces
  <2>6. bytes = others
    BY <2>3, <2>4, <2>5, ReadsSame
  <2>7. QED
    BY <2>2, <2>6
<1>2. CASE d.preparation = "goldbach"
  <2>1. PICK m \in Nat : m = RightOf(nonce, d)
    BY <1>2, AttestedParts
  <2>2. PICK left, right : left = LeftWalk(nonce, d) /\ right = RightWalk(nonce, d)
    OBVIOUS
  <2>3. PICK lb, rb : /\ ReadsAlong(lb, memory, nonce, d, left, m)
                      /\ ReadsAlong(rb, memory, nonce, d, right, m)
                      /\ Attested(nonce, memory, d) = Sums(lb, rb)
    BY <1>2, <2>1, <2>2, AttestedParts
  <2>4. PICK lo, ro : /\ ReadsAlong(lo, other, nonce, d, left, m)
                      /\ ReadsAlong(ro, other, nonce, d, right, m)
                      /\ Attested(nonce, other, d) = Sums(lo, ro)
    BY <1>2, <2>1, <2>2, AttestedParts
  <2>5. /\ Agree(memory, other, nonce, d, Reached(left, m))
        /\ Agree(memory, other, nonce, d, Reached(right, m))
    BY <1>2, <2>1, <2>2 DEF WalkPlaces, Agree
  <2>6. lb = lo /\ rb = ro
    BY <2>3, <2>4, <2>5, ReadsSame
  <2>7. QED
    BY <2>3, <2>4, <2>6
<1>3. QED
  BY <1>1, <1>2

(* The sums, one by one. *)
AddsUp(sums, left, right, m) == \A i \in 1 .. m : sums[i] = (left[i] + right[i]) % 256

(* So are the ones that are attested. *)
LEMMA SumsAddUp ==
    ASSUME NEW m \in Nat, NEW left \in [1 .. m -> 0 .. 255], NEW right \in [1 .. m -> 0 .. 255]
    PROVE  AddsUp(Sums(left, right), left, right, m)
<1>1. Sums(left, right) = [i \in 1 .. m |-> (left[i] + right[i]) % 256]
  BY SumsAreBytes
<1>2. QED
  BY <1>1 DEF AddsUp

(* The same data are the same memory where the nonce looks. *)
LEMMA DataTell ==
    ASSUME NEW d \in Deployments, NEW nonce \in AnyNonce, Fits(nonce, d),
           NEW memory \in Memories, NEW other \in Memories, d.preparation # "goldbach",
           Attested(nonce, memory, d) = Attested(nonce, other, d)
    PROVE  Agree(memory, other, nonce, d, WalkPlaces(nonce, d))
<1>1. PICK m \in Nat : m = WindowOf(nonce, d)
  BY AttestedWalk
<1>2. PICK walk, bytes, others : /\ walk = Walk(InfoOf(nonce, d))
                                 /\ bytes = Attested(nonce, memory, d)
                                 /\ others = Attested(nonce, other, d)
  OBVIOUS
<1>3. ReadsAlong(bytes, memory, nonce, d, walk, m)
  BY <1>1, <1>2, AttestedWalk
<1>4. ReadsAlong(others, other, nonce, d, walk, m)
  BY <1>1, <1>2, AttestedWalk
<1>5. Agree(memory, other, nonce, d, Reached(walk, m))
  BY <1>2, <1>3, <1>4, ReadsSame
<1>6. QED
  BY <1>1, <1>2, <1>5 DEF WalkPlaces

(* The sum of the bytes at two places of an area. *)
SumOf(memory, nonce, d, x, y) ==
    (ByteAt(memory, nonce, d, x) + ByteAt(memory, nonce, d, y)) % 256

(* Two memories have the same sums along the walks over the parts. *)
SameSums(memory, other, nonce, d, left, right, m) ==
    \A i \in 1 .. m :
        SumOf(memory, nonce, d, left[i], right[i]) = SumOf(other, nonce, d, left[i], right[i])

(* With the Goldbach preparation the same data are the same sums. *)
LEMMA SumsTell ==
    ASSUME NEW d \in Deployments, NEW nonce \in AnyNonce, Fits(nonce, d),
           NEW memory \in Memories, NEW other \in Memories, d.preparation = "goldbach",
           NEW m, m = RightOf(nonce, d),
           NEW left, left = LeftWalk(nonce, d), NEW right, right = RightWalk(nonce, d)
    PROVE  Attested(nonce, memory, d) = Attested(nonce, other, d)
             <=> SameSums(memory, other, nonce, d, left, right, m)
<1>1. m \in Nat
  BY AttestedParts
<1>2. PICK lb, rb : /\ ReadsAlong(lb, memory, nonce, d, left, m)
                    /\ ReadsAlong(rb, memory, nonce, d, right, m)
                    /\ Attested(nonce, memory, d) = Sums(lb, rb)
  BY AttestedParts
<1>3. PICK lo, ro : /\ ReadsAlong(lo, other, nonce, d, left, m)
                    /\ ReadsAlong(ro, other, nonce, d, right, m)
                    /\ Attested(nonce, other, d) = Sums(lo, ro)
  BY AttestedParts
<1>4. /\ lb \in [1 .. m -> 0 .. 255] /\ rb \in [1 .. m -> 0 .. 255]
      /\ lo \in [1 .. m -> 0 .. 255] /\ ro \in [1 .. m -> 0 .. 255]
  BY <1>2, <1>3 DEF ReadsAlong
<1>5. PICK sums \in [1 .. m -> 0 .. 255] : sums = Sums(lb, rb)
  BY <1>1, <1>4, SumsAreBytes
<1>6. PICK others \in [1 .. m -> 0 .. 255] : others = Sums(lo, ro)
  BY <1>1, <1>4, SumsAreBytes
<1>7. AddsUp(sums, lb, rb, m) /\ AddsUp(others, lo, ro, m)
  BY <1>1, <1>4, <1>5, <1>6, SumsAddUp
<1>8. \A i \in 1 .. m : sums[i] = SumOf(memory, nonce, d, left[i], right[i])
  BY <1>2, <1>7 DEF AddsUp, ReadsAlong, SumOf
<1>9. \A i \in 1 .. m : others[i] = SumOf(other, nonce, d, left[i], right[i])
  BY <1>3, <1>7 DEF AddsUp, ReadsAlong, SumOf
<1>10. sums = others <=> SameSums(memory, other, nonce, d, left, right, m)
  <2>1. ASSUME SameSums(memory, other, nonce, d, left, right, m) PROVE sums = others
    <3>1. \A i \in 1 .. m : sums[i] = others[i]
      BY <1>8, <1>9, <2>1 DEF SameSums
    <3>2. sums = [i \in 1 .. m |-> sums[i]] /\ others = [i \in 1 .. m |-> others[i]]
      BY <1>5, <1>6
    <3>3. QED
      BY <3>1, <3>2, Zenon
  <2>2. ASSUME sums = others PROVE SameSums(memory, other, nonce, d, left, right, m)
    <3>1. ASSUME NEW i \in 1 .. m
          PROVE  SumOf(memory, nonce, d, left[i], right[i])
                   = SumOf(other, nonce, d, left[i], right[i])
      BY <1>8, <1>9, <2>2
    <3>2. QED
      BY <3>1 DEF SameSums
  <2>3. QED
    BY <2>1, <2>2
<1>11. QED
  BY <1>2, <1>3, <1>5, <1>6, <1>10

(* There are data to be hashed. *)
LEMMA SomeData ==
    ASSUME NEW d \in Deployments, NEW nonce \in AnyNonce, Fits(nonce, d),
           NEW memory \in Memories
    PROVE  Attested(nonce, memory, d) # <<>>
<1>1. CASE d.preparation # "goldbach"
  <2>1. PICK m \in Nat : m = WindowOf(nonce, d) /\ m >= 2
    BY <1>1, AttestedWalk
  <2>2. DOMAIN Attested(nonce, memory, d) = 1 .. m
    BY <1>1, <2>1, AttestedWalk DEF ReadsAlong
  <2>3. QED
    BY <2>1, <2>2
<1>2. CASE d.preparation = "goldbach"
  <2>1. PICK m \in Nat : m = RightOf(nonce, d) /\ m >= 2
    BY <1>2, AttestedParts
  <2>2. PICK lb, rb : /\ ReadsAlong(lb, memory, nonce, d, LeftWalk(nonce, d), m)
                      /\ ReadsAlong(rb, memory, nonce, d, RightWalk(nonce, d), m)
                      /\ Attested(nonce, memory, d) = Sums(lb, rb)
    BY <1>2, <2>1, AttestedParts
  <2>3. Sums(lb, rb) \in [1 .. m -> 0 .. 255]
    BY <2>2, SumsAreBytes DEF ReadsAlong
  <2>4. DOMAIN Attested(nonce, memory, d) = 1 .. m
    BY <2>2, <2>3
  <2>5. QED
    BY <2>1, <2>4
<1>3. QED
  BY <1>1, <1>2

-----------------------------------------------------------------------------
(* The verdicts and the memory *)

(* A sequence between others. *)
Packed(a, s, e, u) == a \o s \o e \o u

(* Two sequences between the same others. *)
LEMMA SameMiddle ==
    ASSUME NEW a \in Seq(Nat), NEW s \in Seq(Nat), NEW t \in Seq(Nat), NEW e \in Seq(Nat),
           NEW u \in Seq(Nat), Packed(a, s, e, u) = Packed(a, t, e, u)
    PROVE  s = t
<1>1. PICK x \in Seq(Nat) : x = a \o s
  BY ConcatProperties
<1>2. PICK y \in Seq(Nat) : y = a \o t
  BY ConcatProperties
<1>3. PICK v \in Seq(Nat) : v = x \o e
  BY ConcatProperties
<1>4. PICK w \in Seq(Nat) : w = y \o e
  BY ConcatProperties
<1>5. v \o u = w \o u
  BY <1>1, <1>2, <1>3, <1>4 DEF Packed
<1>6. v = w
  BY <1>5, ConcatSimplifications
<1>7. x = y
  BY <1>3, <1>4, <1>6, ConcatSimplifications
<1>8. QED
  BY <1>1, <1>2, <1>7, ConcatSimplifications

(* What is hashed, in every variant. *)
LEMMA HashOf ==
    ASSUME NEW variant \in Variants, NEW nonce, NEW data, NEW d
    PROVE  Hashed(variant, nonce, data, d).of = nonce \o data \o AID \o <<d.number>>
  BY DEF Variants, Hashed, Digest, ra_do_hash, ra_do_hash_md5, ra_do_hash_sha1,
     ra_do_hash_sha256, ra_do_hash_ripemd160, ra_do_hash_blake2

(* A digest tells the data, the variants being injective. *)
LEMMA HashTells ==
    ASSUME NEW d \in Deployments, NEW nonce \in AnyNonce,
           NEW data \in Seq(Nat), NEW other \in Seq(Nat),
           NEW variant \in Variants, NEW own \in Variants,
           Hashed(variant, nonce, data, d) = Hashed(own, nonce, other, d)
    PROVE  data = other
<1>1. nonce \in Seq(Nat)
  BY NonceFacts
<1>2. AID \in Seq(Nat) /\ d.number \in Nat
  <2>1. AID \in Seq(0 .. 255)
    BY DeploymentAssumption
  <2>2. QED
    BY <2>1, SeqMonotonic, 0 .. 255 \subseteq Nat, DeploymentAssumption
<1>3. PICK u \in Seq(Nat) : u = <<d.number>>
  <2>1. PICK n \in Nat : n = d.number
    BY <1>2
  <2>2. <<n>> \in Seq(Nat)
    OBVIOUS
  <2>3. QED
    BY <2>1, <2>2
<1>4. Hashed(variant, nonce, data, d).of = nonce \o data \o AID \o <<d.number>>
  BY HashOf
<1>5. Hashed(own, nonce, other, d).of = nonce \o other \o AID \o <<d.number>>
  BY HashOf
<1>6. PICK a \in Seq(Nat), e \in Seq(Nat) : a = nonce /\ e = AID
  BY <1>1, <1>2
<1>7. Packed(a, data, e, u) = Packed(a, other, e, u)
  BY <1>3, <1>4, <1>5, <1>6 DEF Packed
<1>8. QED
  BY <1>7, SameMiddle

(* The places that a request covers are those of its walk. *)
LEMMA CoveredIsWalked ==
    ASSUME deployed \in Deployments, NEW nonce \in AnyNonce, Fits(nonce, deployed), NEW memory
    PROVE  (\E a \in CoveredAddresses(nonce) : memory[a] # Text[a])
             <=> ~Agree(memory, Text, nonce, deployed, WalkPlaces(nonce, deployed))
<1>1. deployed.areas # <<>>
  BY DEF Fits, Decodable
<1>2. /\ Buildable(deployed) /\ NumberFacts(SizeOf(nonce, deployed))
      /\ Len(Addresses(PlanOf(nonce, deployed))) = SizeOf(nonce, deployed)
  BY <1>1, AreaFacts
<1>3. CoveredPlaces(nonce, SizeOf(nonce, deployed)) = WalkPlaces(nonce, deployed)
  BY <1>2, PlacesCovered
<1>4. AreaOf(nonce) = PlanOf(nonce, deployed)
  BY DEF AreaOf, PlanOf, IndexOf
<1>5. CoveredAddresses(nonce)
        = {AddressAt(nonce, deployed, x) : x \in WalkPlaces(nonce, deployed)}
  <2>1. PICK addresses : addresses = Addresses(PlanOf(nonce, deployed))
    OBVIOUS
  <2>2. PICK places : places = WalkPlaces(nonce, deployed)
    OBVIOUS
  <2>3. CoveredAddresses(nonce) = {addresses[x + 1] : x \in places}
    BY <1>2, <1>3, <1>4, <2>1, <2>2 DEF CoveredAddresses
  <2>4. QED
    BY <2>1, <2>2, <2>3 DEF AddressAt
<1>6. QED
  BY <1>5 DEF Agree, ByteAt

(* The pair of places at which the walks over parts of l and r places are   *)
(* after k steps.                                                           *)
PairAt(step, l, r, offset, k) ==
    <<(((step % r) * k) % l) + offset, (((step % l) * k) % r) + l + offset>>

(* They are the pairs that the walks come to. *)
LEMMA PairsWalked ==
    ASSUME deployed \in Deployments, NEW nonce \in AnyNonce, Fits(nonce, deployed),
           deployed.preparation = "goldbach",
           NEW m, m = RightOf(nonce, deployed),
           NEW left, left = LeftWalk(nonce, deployed),
           NEW right, right = RightWalk(nonce, deployed)
    PROVE  /\ \A i \in 1 .. m :
                 <<left[i], right[i]>> \in PairedPlaces(nonce, SizeOf(nonce, deployed))
           /\ \A pair \in PairedPlaces(nonce, SizeOf(nonce, deployed)) :
                 \E i \in 1 .. m : pair = <<left[i], right[i]>>
<1>1. deployed.areas # <<>> /\ Decodable(nonce, deployed)
  BY DEF Fits, Decodable
<1>2. Buildable(deployed) /\ NumberFacts(SizeOf(nonce, deployed))
  BY <1>1, AreaFacts
<1>3. Sums2(HalfOf(nonce, deployed))
  BY <1>2, HasPartition
<1>4. PICK l \in Nat : l = LeftOf(nonce, deployed) /\ m \in Nat
  BY <1>2, <1>3, GoldbachInside
<1>5. TwoWalks(nonce, deployed, l, m)
  BY <1>2, <1>3, <1>4, GoldbachInside
<1>6. PICK s \in Nat, o \in Nat : s = StepOf(nonce, deployed) /\ o = OffsetOf(nonce, deployed)
  BY <1>1, <1>2, InfoNumbers
<1>7. PICK size : size = SizeOf(nonce, deployed)
  OBVIOUS
<1>8. /\ WindowIn(size) \div 2 = HalfOf(nonce, deployed)
      /\ StepIn(nonce, size) = s /\ OffsetIn(nonce, size) = o
  BY <1>1, <1>2, <1>6, <1>7, CoveredIs DEF HalfOf
<1>9. /\ goldbach_left(2 * (WindowIn(size) \div 2)) = l
      /\ goldbach_right(2 * (WindowIn(size) \div 2)) = m
  BY <1>4, <1>8 DEF LeftOf, RightOf
<1>10. PairedPlaces(nonce, size) = {PairAt(s, l, m, o, k) : k \in 0 .. (m - 1)}
  BY <1>8, <1>9 DEF PairedPlaces, PairAt
<1>11. \A i \in 1 .. m : PairAt(s, l, m, o, i - 1) = <<left[i], right[i]>>
  BY <1>5, <1>6 DEF TwoWalks, PairAt, calculate_index
<1>12. ASSUME NEW i \in 1 .. m PROVE <<left[i], right[i]>> \in PairedPlaces(nonce, size)
  <2>1. PICK k \in 0 .. (m - 1) : k = i - 1
    BY <1>4
  <2>2. QED
    BY <1>10, <1>11, <2>1
<1>13. ASSUME NEW pair \in PairedPlaces(nonce, size)
       PROVE  \E i \in 1 .. m : pair = <<left[i], right[i]>>
  <2>1. PICK k \in 0 .. (m - 1) : pair = PairAt(s, l, m, o, k)
    BY <1>10
  <2>2. PICK i \in 1 .. m : i - 1 = k
    <3>1. k + 1 \in 1 .. m /\ (k + 1) - 1 = k
      BY <1>4
    <3>2. QED
      BY <3>1
  <2>3. QED
    BY <1>11, <2>1, <2>2
<1>14. QED
  BY <1>7, <1>12, <1>13

(* The sums of the pairs are those along the walks. *)
LEMMA SumsPaired ==
    ASSUME deployed \in Deployments, NEW nonce \in AnyNonce, Fits(nonce, deployed),
           deployed.preparation = "goldbach", NEW memory,
           NEW m, m = RightOf(nonce, deployed),
           NEW left, left = LeftWalk(nonce, deployed),
           NEW right, right = RightWalk(nonce, deployed)
    PROVE  ~SumChanged(nonce, memory)
             <=> SameSums(memory, Text, nonce, deployed, left, right, m)
<1>1. deployed.areas # <<>>
  BY DEF Fits, Decodable
<1>2. PICK addresses : addresses = Addresses(PlanOf(nonce, deployed))
  OBVIOUS
<1>3. Len(addresses) = SizeOf(nonce, deployed)
  BY <1>1, <1>2, AreaFacts
<1>4. AreaOf(nonce) = PlanOf(nonce, deployed)
  BY DEF AreaOf, PlanOf, IndexOf
<1>5. PICK pairs : pairs = PairedPlaces(nonce, SizeOf(nonce, deployed))
  OBVIOUS
<1>6. ~SumChanged(nonce, memory) <=>
        \A pair \in pairs : SumAt(memory, addresses, pair) = SumAt(Text, addresses, pair)
  BY <1>2, <1>3, <1>4, <1>5 DEF SumChanged
<1>7. ASSUME NEW x, NEW y, NEW any
      PROVE  SumAt(any, addresses, <<x, y>>) = SumOf(any, nonce, deployed, x, y)
  BY <1>2 DEF SumAt, SumOf, ByteAt, AddressAt
<1>8. ASSUME NEW i \in 1 .. m
      PROVE  <<left[i], right[i]>> \in pairs
  BY <1>5, PairsWalked
<1>9. \A pair \in pairs : \E i \in 1 .. m : pair = <<left[i], right[i]>>
  BY <1>5, PairsWalked
<1>10. ASSUME ~SumChanged(nonce, memory)
       PROVE  SameSums(memory, Text, nonce, deployed, left, right, m)
  <2>1. ASSUME NEW i \in 1 .. m
        PROVE  SumOf(memory, nonce, deployed, left[i], right[i])
                 = SumOf(Text, nonce, deployed, left[i], right[i])
    <3>1. PICK x, y : x = left[i] /\ y = right[i]
      OBVIOUS
    <3>2. SumAt(memory, addresses, <<x, y>>) = SumAt(Text, addresses, <<x, y>>)
      BY <1>6, <1>8, <1>10, <3>1
    <3>3. SumOf(memory, nonce, deployed, x, y) = SumOf(Text, nonce, deployed, x, y)
      BY <1>7, <3>2
    <3>4. QED
      BY <3>1, <3>3
  <2>2. QED
    BY <2>1 DEF SameSums
<1>11. ASSUME SameSums(memory, Text, nonce, deployed, left, right, m)
       PROVE  ~SumChanged(nonce, memory)
  <2>1. ASSUME NEW pair \in pairs
        PROVE  SumAt(memory, addresses, pair) = SumAt(Text, addresses, pair)
    <3>1. PICK i \in 1 .. m : pair = <<left[i], right[i]>>
      BY <1>9
    <3>2. SumOf(memory, nonce, deployed, left[i], right[i])
            = SumOf(Text, nonce, deployed, left[i], right[i])
      BY <1>11 DEF SameSums
    <3>3. QED
      BY <1>7, <3>1, <3>2
  <2>2. QED
    BY <1>6, <2>1
<1>12. QED
  BY <1>10, <1>11

(* Is there a difference where the nonce looks? *)
Differs(nonce, memory) ==
    IF deployed.preparation = "goldbach" THEN SumChanged(nonce, memory)
    ELSE \E a \in CoveredAddresses(nonce) : memory[a] # Text[a]

(* The attested data tell, and nothing else does. *)
LEMMA DifferenceTold ==
    ASSUME deployed \in Deployments, NEW nonce \in AnyNonce, Fits(nonce, deployed),
           NEW memory \in Memories
    PROVE  ~Differs(nonce, memory)
             <=> Attested(nonce, memory, deployed) = Attested(nonce, Text, deployed)
<1>1. CASE deployed.preparation = "goldbach"
  <2>1. PICK m, left, right : /\ m = RightOf(nonce, deployed)
                              /\ left = LeftWalk(nonce, deployed)
                              /\ right = RightWalk(nonce, deployed)
    OBVIOUS
  <2>2. ~SumChanged(nonce, memory)
          <=> SameSums(memory, Text, nonce, deployed, left, right, m)
    BY <1>1, <2>1, SumsPaired
  <2>3. Attested(nonce, memory, deployed) = Attested(nonce, Text, deployed)
          <=> SameSums(memory, Text, nonce, deployed, left, right, m)
    BY <1>1, <2>1, SumsTell, TextIsMemory
  <2>4. QED
    BY <1>1, <2>2, <2>3 DEF Differs
<1>2. CASE deployed.preparation # "goldbach"
  <2>1. ~Differs(nonce, memory)
          <=> Agree(memory, Text, nonce, deployed, WalkPlaces(nonce, deployed))
    BY <1>2, CoveredIsWalked DEF Differs
  <2>2. ASSUME Agree(memory, Text, nonce, deployed, WalkPlaces(nonce, deployed))
        PROVE  Attested(nonce, memory, deployed) = Attested(nonce, Text, deployed)
    BY <2>2, SameData, TextIsMemory
  <2>3. ASSUME Attested(nonce, memory, deployed) = Attested(nonce, Text, deployed)
        PROVE  Agree(memory, Text, nonce, deployed, WalkPlaces(nonce, deployed))
    BY <1>2, <2>3, DataTell, TextIsMemory
  <2>4. QED
    BY <2>1, <2>2, <2>3
<1>3. QED
  BY <1>1, <1>2

(* What a request with a verdict compares. *)
LEMMA VerdictFacts ==
    ASSUME JudgedInv, NEW r \in DOMAIN ra_request, NEW right \in BOOLEAN,
           right => Right(r), ~right => Wrong(r)
    PROVE  /\ deployed \in Deployments /\ RowOf(r).nonce \in AnyNonce
           /\ Compared(ra_request[r].seen, RowOf(r), deployed, right)
           /\ HeldRow(RowOf(r), deployed)
<1>1. r \in 1 .. Len(ra_request)
  BY DEF JudgedInv, ClientInv, ServingInv, GoodRequests
<1>2. GoodRequest(ra_request[r], ra_prepared_data, deployed)
  BY <1>1 DEF JudgedInv, ClientInv, ServingInv, GoodRequests
<1>3. GoodRow(RowOf(r), deployed) /\ HeldRow(RowOf(r), deployed)
  BY <1>2 DEF GoodRequest, RowOf, JudgedInv, ClientInv, HeldInv, HeldRows, ExtractionInv,
     GoodRows
<1>4. Judged(ra_request[r], ra_prepared_data, deployed)
  BY <1>1 DEF JudgedInv, AllJudged
<1>5. Compared(ra_request[r].seen, RowOf(r), deployed, right)
  <2>1. CASE right
    <3>1. right = TRUE
      BY <2>1
    <3>2. QED
      BY <1>4, <2>1, <3>1 DEF Judged, Right, RowOf
  <2>2. CASE ~right
    <3>1. right = FALSE
      BY <2>2
    <3>2. QED
      BY <1>4, <2>2, <3>1 DEF Judged, Wrong, RowOf
  <2>3. QED
    BY <2>1, <2>2
<1>6. QED
  BY <1>3, <1>5, ConstantFacts DEF GoodRow, JudgedInv, ClientInv, ServingInv, ExtractionInv

(* A response is found wrong only when there is a difference where its      *)
(* nonce looks, with the exceptions that the property names: for any areas, *)
(* nonces, interpretations and preparations, the extractor and the client   *)
(* compute the same bytes from the same memory.                             *)
THEOREM HonestAcceptedHolds == Spec => []HonestAccepted
<1>1. Init => JudgedInv
  BY JudgedInit
<1>2. JudgedInv /\ [Next]_vars => JudgedInv'
  BY JudgedStep
<1>3. JudgedInv => HonestAccepted
  <2>1. SUFFICES ASSUME JudgedInv, NEW r \in DOMAIN ra_request, Wrong(r), WellPrepared(r),
                        ra_request[r].seen.fault # "data", ~(deployed.number > 255),
                        ~DifferenceCovered(r)
                 PROVE  FALSE
    BY DEF HonestAccepted
  <2>2. PICK seen, row, nonce : seen = ra_request[r].seen /\ row = RowOf(r) /\ nonce = row.nonce
    OBVIOUS
  <2>3. /\ deployed \in Deployments /\ nonce \in AnyNonce
        /\ Compared(seen, row, deployed, FALSE) /\ HeldRow(row, deployed)
    BY <2>1, <2>2, VerdictFacts
  <2>4. PICK variant : /\ Chosen(variant, deployed)
                       /\ FALSE = (RowHashed(variant, row, deployed)
                                  = Hashed(deployed.hash, nonce,
                                       DataSeen(seen.memory, seen.fault, nonce, deployed), deployed))
    BY <2>2, <2>3 DEF Compared
  <2>5. seen.memory \in Memories /\ Fits(nonce, deployed)
    BY <2>2, <2>3 DEF Compared
  <2>6. variant = deployed.hash
    <3>1. deployed.number \in Nat
      BY <2>3, DeploymentAssumption
    <3>2. deployed.number <= 255
      BY <2>1, <3>1
    <3>3. QED
      BY <2>4, <3>2 DEF Chosen
  <2>7. row.data = Attested(nonce, Text, deployed)
    BY <2>1, <2>2, <2>3, <2>5 DEF WellPrepared, HeldRow, PreparationFaults
  <2>8. DataSeen(seen.memory, seen.fault, nonce, deployed) = Attested(nonce, seen.memory, deployed)
    BY <2>1, <2>2 DEF DataSeen
  <2>9. PICK memory \in Memories : memory = seen.memory
    BY <2>5
  <2>10. ~Differs(nonce, memory)
    BY <2>1, <2>2, <2>9 DEF DifferenceCovered, ChangeCovered, Differs
  <2>11. Attested(nonce, memory, deployed) = Attested(nonce, Text, deployed)
    BY <2>3, <2>5, <2>10, DifferenceTold
  <2>12. RowHashed(variant, row, deployed)
           = Hashed(deployed.hash, nonce, Attested(nonce, memory, deployed), deployed)
    BY <2>2, <2>6, <2>7, <2>11 DEF RowHashed
  <2>13. QED
    BY <2>4, <2>8, <2>9, <2>12
<1>4. QED
  BY <1>1, <1>2, <1>3, PTL DEF Spec

(* A response is found right only when there is no difference where its     *)
(* nonce looks, for any deployment, nonces, failures and number of changed  *)
(* bytes, provided the row was prepared and the hashes are injective: no    *)
(* byte that the nonce covers has changed or, with the Goldbach             *)
(* preparation, no sum of a pair of them.                                   *)
THEOREM TamperNoticedHolds == Spec => []TamperNoticed
<1>1. Init => JudgedInv
  BY JudgedInit
<1>2. JudgedInv /\ [Next]_vars => JudgedInv'
  BY JudgedStep
<1>3. JudgedInv => TamperNoticed
  <2>1. SUFFICES ASSUME JudgedInv, NEW r \in DOMAIN ra_request, Right(r), WellPrepared(r)
                 PROVE  ~DifferenceCovered(r)
    BY DEF TamperNoticed
  <2>2. PICK seen, row, nonce : seen = ra_request[r].seen /\ row = RowOf(r) /\ nonce = row.nonce
    OBVIOUS
  <2>3. /\ deployed \in Deployments /\ nonce \in AnyNonce
        /\ Compared(seen, row, deployed, TRUE) /\ HeldRow(row, deployed)
    BY <2>1, <2>2, VerdictFacts
  <2>4. PICK variant : /\ Chosen(variant, deployed)
                       /\ TRUE = (RowHashed(variant, row, deployed)
                                  = Hashed(deployed.hash, nonce,
                                       DataSeen(seen.memory, seen.fault, nonce, deployed), deployed))
    BY <2>2, <2>3 DEF Compared
  <2>5. seen.memory \in Memories /\ Fits(nonce, deployed)
    BY <2>2, <2>3 DEF Compared
  <2>6. row.data = Attested(nonce, Text, deployed)
    BY <2>1, <2>2, <2>3, <2>5 DEF WellPrepared, HeldRow, PreparationFaults
  <2>7. PICK memory \in Memories : memory = seen.memory
    BY <2>5
  <2>8. PICK data \in Seq(Nat) : data = Attested(nonce, Text, deployed)
    BY <2>3, <2>5, AttestedBytes, TextIsMemory
  <2>9. Attested(nonce, memory, deployed) \in Seq(Nat)
    BY <2>3, <2>5, AttestedBytes
  <2>10. PICK other \in Seq(Nat) : other = DataSeen(memory, seen.fault, nonce, deployed)
    <3>1. <<>> \in Seq(Nat)
      OBVIOUS
    <3>2. QED
      BY <2>9, <3>1 DEF DataSeen
  <2>11. PICK own \in Variants : own = deployed.hash
    BY <2>3, HashAssumption DEF Variants
  <2>12. Hashed(variant, nonce, data, deployed) = Hashed(own, nonce, other, deployed)
    BY <2>2, <2>4, <2>6, <2>7, <2>8, <2>10, <2>11 DEF RowHashed
  <2>13. variant \in Variants
    BY <2>4 DEF Chosen
  <2>14. data = other
    BY <2>3, <2>12, <2>13, HashTells
  <2>15. data # <<>>
    BY <2>3, <2>5, <2>8, SomeData, TextIsMemory
  <2>16. Attested(nonce, memory, deployed) = Attested(nonce, Text, deployed)
    BY <2>8, <2>10, <2>14, <2>15 DEF DataSeen
  <2>17. ~Differs(nonce, memory)
    BY <2>3, <2>5, <2>16, DifferenceTold
  <2>18. QED
    BY <2>2, <2>7, <2>17 DEF DifferenceCovered, ChangeCovered, Differs
<1>4. QED
  BY <1>1, <1>2, <1>3, PTL DEF Spec

-----------------------------------------------------------------------------
(* The walks over areas of every size *)

(* The area of Sample, and a deployment of it alone. *)
OneArea(size) ==
    [label |-> 7, blocks |-> <<ra_mB_create(0, size \div 2),
                               ra_mB_create(size, size - size \div 2)>>]

Alone(size) ==
    [version |-> deployed.version, preparation |-> deployed.preparation, number |-> 1,
     areas |-> <<OneArea(size)>>]

(* It has size bytes. *)
LEMMA OneAreaSize ==
    ASSUME NEW size \in Nat
    PROVE  OneArea(size) \in Plan /\ BytesOf(OneArea(size).blocks) = size
<1>1. PICK m \in Nat, n \in Nat : m = size \div 2 /\ n = size - size \div 2 /\ m + n = size
  OBVIOUS
<1>2. PICK b \in AnyBlock, c \in AnyBlock :
        /\ b = ra_mB_create(0, m) /\ c = ra_mB_create(size, n)
        /\ b.size = m /\ c.size = n
  <2>1. \A x, y : ra_mB_create(x, y).size = y
    BY DEF ra_mB_create
  <2>2. \A x \in Nat, y \in Nat : ra_mB_create(x, y) \in AnyBlock
    BY DEF AnyBlock, memory_block_t, ra_mB_create
  <2>3. QED
    BY <2>1, <2>2, 0 \in Nat
<1>3. PICK empty \in Seq(AnyBlock) : empty = <<>>
  <2>1. <<>> \in Seq(AnyBlock)
    OBVIOUS
  <2>2. QED
    BY <2>1
<1>4. PICK one \in Seq(AnyBlock) : one = Append(empty, b)
  BY AppendProperties
<1>5. PICK two \in Seq(AnyBlock) : two = Append(one, c)
  BY AppendProperties
<1>6. two = <<b, c>>
  <2>1. Len(one) = 1 /\ one[1] = b
    BY <1>3, <1>4
  <2>2. Len(two) = 2 /\ two[1] = b /\ two[2] = c
    <3>1. Len(two) = Len(one) + 1 /\ two[Len(one) + 1] = c
      BY <1>5, AppendProperties
    <3>2. \A i \in 1 .. Len(one) : two[i] = one[i]
      BY <1>5, AppendProperties
    <3>3. 1 \in 1 .. 1 /\ 1 + 1 = 2
      OBVIOUS
    <3>4. QED
      BY <2>1, <3>1, <3>2, <3>3
  <2>3. <<b, c>> \in Seq(AnyBlock)
    OBVIOUS
  <2>4. PICK pair \in Seq(AnyBlock) :
          pair = <<b, c>> /\ Len(pair) = 2 /\ pair[1] = b /\ pair[2] = c
    BY <2>3
  <2>5. \A i \in 1 .. Len(two) : two[i] = pair[i]
    BY <2>2, <2>4
  <2>6. QED
    BY <2>2, <2>4, <2>5, SeqEqual
<1>7. \A e \in AnyBlock : e.size \in Nat
  BY DEF AnyBlock, memory_block_t
<1>8. BytesOf(empty) = 0 /\ BytesOf(one) = BytesOf(empty) + b.size
  BY <1>3, <1>4, <1>7, BytesOfAppend
<1>9. BytesOf(two) = BytesOf(one) + c.size
  BY <1>5, <1>7, BytesOfAppend
<1>10. BytesOf(two) = size
  BY <1>1, <1>2, <1>8, <1>9
<1>11. OneArea(size).blocks = two /\ OneArea(size).label = 7
  BY <1>1, <1>2, <1>6 DEF OneArea
<1>12. OneArea(size) \in Plan
  <2>1. OneArea(size) = [label |-> 7, blocks |-> two]
    BY <1>1, <1>2, <1>6 DEF OneArea
  <2>2. QED
    BY <2>1 DEF Plan
<1>13. QED
  BY <1>10, <1>11, <1>12

(* It can be deployed, and every nonce selects its area. *)
LEMMA AloneFacts ==
    ASSUME deployed \in Deployments, NEW size \in Nat, NEW nonce \in AnyNonce
    PROVE  /\ Buildable(Alone(size)) /\ NoLabelTwice(Alone(size).areas)
           /\ Alone(size).areas # <<>>
           /\ SizeOf(nonce, Alone(size)) = size
<1>1. PICK plan \in Plan : plan = OneArea(size)
  BY OneAreaSize
<1>2. PICK plans \in Seq(Plan) : plans = <<plan>>
  <2>1. <<plan>> \in Seq(Plan)
    OBVIOUS
  <2>2. QED
    BY <2>1
<1>3. Len(plans) = 1 /\ plans[1] = plan /\ plans # <<>>
  BY <1>2
<1>4. PICK d : d = Alone(size)
  OBVIOUS
<1>5. d.areas = plans /\ d.number = 1 /\ d.version = deployed.version
  BY <1>1, <1>2, <1>4 DEF Alone
<1>6. deployed.version \in 1 .. 4
  BY DeploymentAssumption
<1>7. Buildable(d)
  BY <1>5, <1>6 DEF Buildable
<1>8. NoLabelTwice(plans)
  BY <1>3 DEF NoLabelTwice, DistinctLabels
<1>9. IndexOf(nonce, d) = 1
  <2>1. IndexOf(nonce, d) \in 1 .. Len(d.areas)
    BY <1>3, <1>5, <1>7, IndexInRange
  <2>2. PICK i : i = IndexOf(nonce, d)
    OBVIOUS
  <2>3. i \in 1 .. 1
    BY <1>3, <1>5, <2>1, <2>2
  <2>4. QED
    BY <2>2, <2>3
<1>10. SizeOf(nonce, d) = size
  BY <1>1, <1>3, <1>5, <1>9, OneAreaSize DEF SizeOf, PlanOf
<1>11. QED
  BY <1>3, <1>4, <1>5, <1>7, <1>8, <1>10

(* From five bytes to the last partition, every walk has the numbers that   *)
(* it needs.                                                                *)
LEMMA AloneFits ==
    ASSUME deployed \in Deployments, NEW size \in Sizes, NEW nonce \in AnyNonce
    PROVE  size \in Nat /\ Fits(nonce, Alone(size)) /\ NumberFacts(size)
<1>1. size \in Nat /\ size >= 5 /\ size <= 20481
  <2>1. size \in 5 .. (20480 + 1)
    BY SizesAssumption DEF LastPartition
  <2>2. QED
    BY <2>1
<1>2. PICK d : d = Alone(size)
  OBVIOUS
<1>3. SizeOf(nonce, d) = size /\ d.areas # <<>>
  BY <1>1, <1>2, AloneFacts
<1>4. PICK p \in Nat : p = closest_prime(size) /\ p <= size /\ LastPrime(p, size)
  BY <1>1, ClosestPrime
<1>5. IsPrime(5)
  <2>1. ASSUME NEW k \in 2 .. 4, k * k <= 5 PROVE 5 % k # 0
    <3>1. k = 2
      <4>1. k = 2 \/ k = 3 \/ k = 4
        OBVIOUS
      <4>2. QED
        BY <2>1, <4>1
    <3>2. QED
      BY <3>1
  <2>2. QED
    BY <2>1 DEF IsPrime
<1>6. p >= 5
  BY <1>1, <1>4, <1>5 DEF LastPrime
<1>7. Decodable(nonce, d)
  BY <1>1, <1>3, <1>4, <1>6 DEF Decodable
<1>8. PICK w \in Nat : w = WindowOf(nonce, d) /\ w >= 5 /\ w <= 20481
  BY <1>1, <1>3, <1>4, <1>6 DEF WindowOf
<1>9. 2 <= w \div 2 /\ 2 * (w \div 2) <= 20480
  BY <1>8
<1>10. Fits(nonce, d)
  BY <1>7, <1>8, <1>9 DEF Fits, HalfOf, LastPartition
<1>11. NumberFacts(size)
  BY NumberTheory DEF NumberFacts, Sums2
<1>12. QED
  BY <1>1, <1>2, <1>10, <1>11

(* What the interpretation decodes from the sample. *)
LEMMA SampleDecoded ==
    ASSUME deployed \in Deployments, NEW size \in Sizes, NEW nonce \in AnyNonce
    PROVE  decode_nonce(deployed.version, Sample(size, nonce)) = InfoOf(nonce, Alone(size))
<1>1. PICK d : d = Alone(size)
  OBVIOUS
<1>2. Fits(nonce, d) /\ Buildable(d) /\ NoLabelTwice(d.areas)
  BY <1>1, AloneFits, AloneFacts
<1>3. d.number = 1 /\ d.areas = <<OneArea(size)>> /\ d.version = deployed.version
  BY <1>1 DEF Alone
<1>4. PICK t : t = ra_parse_binary_ads(Blob(AID, d.number, d.areas))
  OBVIOUS
<1>5. Kept(t, d)
  BY <1>2, <1>4, ParsedAreas
<1>6. PICK u : u = ra_set_current_nonce(t, nonce, NonceSize, TRUE).table
  OBVIOUS
<1>7. Kept(u, d) /\ u.current_nonce = nonce
  <2>1. PICK allocated \in BOOLEAN : allocated = TRUE
    OBVIOUS
  <2>2. u = ra_set_current_nonce(t, nonce, NonceSize, allocated).table
    BY <1>6, <2>1
  <2>3. /\ Kept(u, d)
        /\ allocated => u.current_nonce = nonce /\ u.current_nonce_size = NonceSize
    BY <1>5, <2>2, NonceSet
  <2>4. QED
    BY <2>1, <2>3
<1>8. Sample(size, nonce) = u
  BY <1>3, <1>4, <1>6 DEF Sample, OneArea
<1>9. DecodesTo(decode_nonce(d.version, u), nonce, d)
  BY <1>2, <1>7, DecodeIs
<1>10. QED
  BY <1>1, <1>2, <1>3, <1>8, <1>9 DEF DecodesTo, Fits

(* The steps of the second preparation come to two places each. *)
LEMMA PairWalk ==
    ASSUME NEW walk, NEW info, walk = GoldbachWalk(info), walk # Undefined, NEW i \in DOMAIN walk
    PROVE  DOMAIN walk[i] = {1, 2}
<1>1. \A x, y : DOMAIN <<x, y>> = {1, 2}
  OBVIOUS
<1>2. \E x, y : walk[i] = <<x, y>>
  BY DEF GoldbachWalk
<1>3. QED
  BY <1>1, <1>2

(* The places of a walk, as Visited has them. *)
LEMMA VisitedIs ==
    ASSUME NEW d, Buildable(d), NEW nonce \in AnyNonce, Fits(nonce, d),
           d.preparation = deployed.preparation, NumberFacts(SizeOf(nonce, d))
    PROVE  /\ Visited(InfoOf(nonce, d)) = WalkPlaces(nonce, d)
           /\ WalkPlaces(nonce, d) \subseteq 0 .. (SizeOf(nonce, d) - 1)
<1>1. PICK n \in Nat : n = SizeOf(nonce, d)
  BY InfoNumbers DEF Fits
<1>2. CASE d.preparation # "goldbach"
  <2>1. PICK w \in Nat : w = WindowOf(nonce, d)
    BY InfoNumbers DEF Fits
  <2>2. PICK walk : walk = Walk(InfoOf(nonce, d))
    OBVIOUS
  <2>3. walk \in [1 .. w -> Nat] /\ \A i \in 1 .. w : walk[i] < n
    BY <1>1, <2>1, <2>2, WalkInside DEF Fits
  <2>4. WalkPlaces(nonce, d) = Reached(walk, w)
    BY <1>2, <2>1, <2>2 DEF WalkPlaces
  <2>5. Visited(InfoOf(nonce, d)) = {walk[i] : i \in DOMAIN walk}
    BY <1>2, <2>2 DEF Visited, ToSet
  <2>6. Visited(InfoOf(nonce, d)) = Reached(walk, w)
    BY <2>3, <2>5 DEF Reached
  <2>7. Reached(walk, w) \subseteq 0 .. (n - 1)
    BY <2>3 DEF Reached
  <2>8. QED
    BY <1>1, <2>4, <2>6, <2>7
<1>3. CASE d.preparation = "goldbach"
  <2>1. Sums2(HalfOf(nonce, d))
    BY <1>3, HasPartition
  <2>2. PICK r \in Nat : r = RightOf(nonce, d)
    BY <1>3, <2>1, GoldbachInside
  <2>3. PICK left, right : left = LeftWalk(nonce, d) /\ right = RightWalk(nonce, d)
    OBVIOUS
  <2>4. TwoWalks(nonce, d, LeftOf(nonce, d), r)
    BY <1>3, <2>1, <2>2, GoldbachInside
  <2>5. /\ left \in [1 .. r -> Nat] /\ right \in [1 .. r -> Nat]
        /\ \A i \in 1 .. r : left[i] < n /\ right[i] < n
    BY <1>1, <2>3, <2>4 DEF TwoWalks
  <2>6. PICK walk : walk = GoldbachWalk(InfoOf(nonce, d))
    OBVIOUS
  <2>7. left = [i \in DOMAIN walk |-> walk[i][1]] /\ right = [i \in DOMAIN walk |-> walk[i][2]]
    BY <2>3, <2>6 DEF LeftWalk, RightWalk
  <2>8. DOMAIN walk = 1 .. r
    BY <2>5, <2>7
  <2>9. \A i \in 1 .. r : left[i] = walk[i][1] /\ right[i] = walk[i][2]
    BY <2>7, <2>8
  <2>10. \A i \in 1 .. r : ToSet(walk[i]) = {left[i], right[i]}
    <3>1. SUFFICES ASSUME NEW i \in 1 .. r PROVE ToSet(walk[i]) = {left[i], right[i]}
      OBVIOUS
    <3>2. DOMAIN walk[i] = {1, 2}
      <4>1. walk # Undefined
        BY <1>3, <2>1, <2>6, GoldbachInside
      <4>2. QED
        BY <2>6, <2>8, <4>1, PairWalk
    <3>3. ToSet(walk[i]) = {walk[i][j] : j \in {1, 2}}
      BY <3>2 DEF ToSet
    <3>4. QED
      BY <2>9, <3>3
  <2>11. Visited(InfoOf(nonce, d)) = UNION {ToSet(place) : place \in ToSet(walk)}
    BY <1>3, <2>6 DEF Visited
  <2>12. ToSet(walk) = {walk[i] : i \in 1 .. r}
    BY <2>8 DEF ToSet
  <2>13. Visited(InfoOf(nonce, d)) = Reached(left, r) \cup Reached(right, r)
    BY <2>10, <2>11, <2>12 DEF Reached
  <2>14. WalkPlaces(nonce, d) = Reached(left, r) \cup Reached(right, r)
    BY <1>3, <2>2, <2>3 DEF WalkPlaces
  <2>15. Reached(left, r) \cup Reached(right, r) \subseteq 0 .. (n - 1)
    BY <2>5 DEF Reached
  <2>16. QED
    BY <1>1, <2>13, <2>14, <2>15
<1>4. QED
  BY <1>2, <1>3

(* The walks of the deployed interpretation and preparation visit exactly   *)
(* the places said to be covered, and stay inside of the area, for areas    *)
(* of every size from 5 to the last partition and every nonce.              *)
THEOREM WalkCoversHolds == Spec => []WalkCovers
<1>1. Init => ExtractionInv
  BY ExtractionInit
<1>2. ExtractionInv /\ [Next]_vars => ExtractionInv'
  BY ExtractionStep
<1>3. ExtractionInv => WalkCovers
  <2>1. SUFFICES ASSUME ExtractionInv, NEW size \in Sizes,
                        NEW nonce \in random_generate_nonce(Numbers)
                 PROVE  CoversAll(decode_nonce(deployed.version, Sample(size, nonce)), nonce, size)
    BY DEF WalkCovers
  <2>2. deployed \in Deployments
    BY <2>1 DEF ExtractionInv
  <2>3. nonce \in AnyNonce
    BY SizesAssumption DEF AnyNonce, random_generate_nonce
  <2>4. PICK d : d = Alone(size)
    OBVIOUS
  <2>5. size \in Nat /\ Fits(nonce, d) /\ NumberFacts(size)
    BY <2>2, <2>3, <2>4, AloneFits
  <2>6. Buildable(d) /\ SizeOf(nonce, d) = size
    BY <2>2, <2>3, <2>4, <2>5, AloneFacts
  <2>7. d.version = deployed.version /\ d.preparation = deployed.preparation
    BY <2>4 DEF Alone
  <2>8. decode_nonce(deployed.version, Sample(size, nonce)) = InfoOf(nonce, d)
    BY <2>2, <2>3, <2>4, SampleDecoded
  <2>9. CoveredPlaces(nonce, size) = WalkPlaces(nonce, d)
    <3>1. CoveredPlaces(nonce, SizeOf(nonce, d)) = WalkPlaces(nonce, d)
      BY <2>3, <2>5, <2>6, <2>7, PlacesCovered
    <3>2. QED
      BY <2>6, <3>1
  <2>10. /\ Visited(InfoOf(nonce, d)) = WalkPlaces(nonce, d)
         /\ WalkPlaces(nonce, d) \subseteq 0 .. (size - 1)
    BY <2>3, <2>5, <2>6, <2>7, VisitedIs
  <2>11. QED
    BY <2>8, <2>9, <2>10 DEF CoversAll
<1>4. QED
  BY <1>1, <1>2, <1>3, PTL DEF Spec
=============================================================================
