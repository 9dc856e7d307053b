---------------------------- MODULE GenericList ----------------------------
(***************************************************************************)
(* generic_list.c: the list that the manager threads keep their clients in. *)
(* A list is the sequence of its items, first the head, and the counter.    *)
(* The comparator that a list is created with is the operator Same.  A      *)
(* pointer that is null or freed and followed makes the result Undefined.   *)
(***************************************************************************)
EXTENDS Integers, Sequences, SequencesExt

CONSTANTS Undefined, Failed, Same(_, _)

gl_results_e == {"GL_SUCCESS", "GL_ERROR_MEMORY", "GL_ERROR_ITEM_ALREADY_PRESENT",
                 "GL_ERROR_ITEM_NOT_FOUND"}

GLAnswer(result, list) == [result |-> result, list |-> list]

(* A list of items from the given set. *)
generic_list(data) == [items : Seq(data), items_count : Nat]

(* NULL without a comparator and a destructor. *)
gl_create(functions) ==
    IF functions THEN [items |-> <<>>, items_count |-> 0] ELSE Failed

gl_count(list) == list.items_count

gl_is_containing(list, data) == \E k \in DOMAIN list.items : Same(list.items[k], data)

gl_get_reference(list, data) ==
    LET k == SelectInSeq(list.items, LAMBDA d : Same(d, data))
    IN  IF k = 0 THEN Failed ELSE list.items[k]

(* Seeded fault: an item that is in the list already is inserted again. *)
gl_insert_Again(list, data, allocated) ==
    IF ~allocated THEN GLAnswer("GL_ERROR_MEMORY", list)
    ELSE GLAnswer("GL_SUCCESS", [items |-> <<data>> \o list.items,
                                 items_count |-> list.items_count + 1])

gl_insert(list, data, allocated) ==
    IF gl_is_containing(list, data) THEN GLAnswer("GL_ERROR_ITEM_ALREADY_PRESENT", list)
    ELSE IF ~allocated THEN GLAnswer("GL_ERROR_MEMORY", list)
    ELSE GLAnswer("GL_SUCCESS", [items |-> <<data>> \o list.items,
                                 items_count |-> list.items_count + 1])

(* The first item that matches, from the place given on. *)
MatchFrom(list, data, first) ==
    SelectInSubSeq(list.items, first, Len(list.items), LAMBDA d : Same(d, data))

(* The counter is left alone.  The head is compared without a test for an   *)
(* empty list, and the loop starts behind the second item: it does not look *)
(* at that item, and a list of one item makes it follow a null pointer.     *)
gl_delete(list, data) ==
    IF list.items = <<>> THEN GLAnswer("GL_SUCCESS", Undefined)
    ELSE IF Same(Head(list.items), data)
    THEN GLAnswer("GL_SUCCESS", [list EXCEPT !.items = Tail(@)])
    ELSE IF Len(list.items) = 1 THEN GLAnswer("GL_SUCCESS", Undefined)
    ELSE LET k == MatchFrom(list, data, 3)
         IN  IF k = 0 THEN GLAnswer("GL_ERROR_ITEM_NOT_FOUND", list)
             ELSE GLAnswer("GL_SUCCESS", [list EXCEPT !.items = RemoveAt(@, k)])

(* The item that is unlinked, or NULL, and the list. *)
gl_remove(list, data) ==
    IF list.items = <<>> THEN GLAnswer(Failed, Undefined)
    ELSE LET k == MatchFrom(list, data, 1)
         IN  IF k = 0 THEN GLAnswer(Failed, list)
             ELSE GLAnswer(list.items[k], [items |-> RemoveAt(list.items, k),
                                           items_count |-> list.items_count - 1])

(* Is freeing the list defined?  The loop reads the next pointer of an item *)
(* that it has freed.                                                       *)
gl_destroy(list) == list.items = <<>>

(* The items that are printed, none when the list has no printer. *)
gl_print_info(list, printer) == IF printer THEN list.items ELSE <<>>
=============================================================================
