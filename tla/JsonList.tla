------------------------------- MODULE JsonList -------------------------------
(***************************************************************************)
(* The items of cJSON as memory cells, and the functions that link them:   *)
(* the children of an item are a list from its child pointer along next,   *)
(* with prev pointing back and NULL at the head.  A function of the code   *)
(* is an operator from a memory to a memory.                               *)
(***************************************************************************)
EXTENDS Integers, FiniteSets

CONSTANTS
  Cell,   (* the memory cells malloc may return for an item *)
  NULL,
  Name    (* the keys of objects                            *)

ASSUME CellAssumption == IsFiniteSet(Cell)
ASSUME NullAssumption == NULL \notin Cell /\ NULL \notin Name

Pointer == Cell \cup {NULL}
Kind == {"free", "array", "object", "text", "plain"}

(* type without its two flags, and next, prev, child, string, valuestring; *)
(* ref is cJSON_IsReference, const cJSON_StringIsConst.  A valuestring is  *)
(* known by the cell it was allocated for.                                 *)
Item == [kind : Kind, next : Pointer, prev : Pointer, child : Pointer,
         name : Name \cup {NULL}, text : Pointer, ref : BOOLEAN, const : BOOLEAN]

(* strings counts the keys and values that were allocated and not freed. *)
Memory == [item : [Cell -> Item], strings : Nat]

FreeItem == [kind |-> "free", next |-> NULL, prev |-> NULL, child |-> NULL,
             name |-> NULL, text |-> NULL, ref |-> FALSE, const |-> FALSE]

NoItems == [item |-> [c \in Cell |-> FreeItem], strings |-> 0]

Live(m) == {c \in Cell : m.item[c].kind # "free"}
Owner(m, c) == m.item[c].kind # "free" /\ ~m.item[c].ref

(* A key is the item's own unless it is constant, a value unless the item  *)
(* is a reference.  Mutant: a value always.                                *)
OwnsName(m, c) == m.item[c].name # NULL /\ ~m.item[c].const
OwnsAnyText(m, c) == m.item[c].text # NULL
OwnsText(m, c) == m.item[c].text # NULL /\ ~m.item[c].ref

cJSON_New_Item(m, c, kind) == [m EXCEPT !.item[c] = [FreeItem EXCEPT !.kind = kind]]

-----------------------------------------------------------------------------
(* What an item's cJSON_Delete goes on to: the next one, and the children  *)
(* unless the item is a reference.  Mutant: of a reference too.            *)
FollowsAll(m, c) == {m.item[c].next, m.item[c].child} \ {NULL}

Follows(m, c) ==
  ({m.item[c].next} \cup IF m.item[c].ref THEN {} ELSE {m.item[c].child}) \ {NULL}

(* The least set with c in it that is closed under Follows. *)
Doomed(m, c) ==
  {x \in Cell : \A S \in SUBSET Cell :
     c \in S /\ (\A y \in S : Follows(m, y) \subseteq S) => x \in S}

Freed(m, D) ==
  [item |-> [c \in Cell |-> IF c \in D THEN FreeItem ELSE m.item[c]],
   strings |-> m.strings - Cardinality({c \in D : OwnsName(m, c)})
                         - Cardinality({c \in D : OwnsText(m, c)})]

cJSON_Delete(m, c) == IF c = NULL THEN m ELSE Freed(m, Doomed(m, c))

-----------------------------------------------------------------------------
(* The members of a's list, and the one add_item_to_array walks to. *)
Chain(m, a) ==
  {x \in Cell : \A S \in SUBSET Cell :
     /\ m.item[a].child # NULL => m.item[a].child \in S
     /\ \A y \in S : m.item[y].next # NULL => m.item[y].next \in S
     => x \in S}

LastItem(m, a) == CHOOSE x \in Chain(m, a) : m.item[x].next = NULL

suffix_object(m, prev, item) ==
  [m EXCEPT !.item[prev].next = item, !.item[item].prev = prev]

add_item_to_array(m, a, i) ==
  IF m.item[a].child = NULL THEN [m EXCEPT !.item[a].child = i]
  ELSE suffix_object(m, LastItem(m, a), i)

(* The copy of an item that shares its children and its value. *)
create_reference(m, r, i) ==
  [m EXCEPT !.item[r] = [m.item[i] EXCEPT !.name = NULL, !.ref = TRUE,
                                          !.next = NULL, !.prev = NULL]]

(* The old key is freed unless it is constant; a new one was allocated     *)
(* unless it is constant.  Mutant: the old key is not freed.               *)
RenameKeeping(m, i, n, const) ==
  [m EXCEPT !.item[i].name = n, !.item[i].const = const,
            !.strings = @ + IF const \/ n = NULL THEN 0 ELSE 1]

Rename(m, i, n, const) ==
  [m EXCEPT !.item[i].name = n, !.item[i].const = const,
            !.strings = @ - (IF OwnsName(m, i) THEN 1 ELSE 0)
                          + (IF const \/ n = NULL THEN 0 ELSE 1)]

cJSON_DetachItemViaPointer(m, parent, i) ==
  LET prev == m.item[i].prev
      next == m.item[i].next
  IN [m EXCEPT !.item = [c \in Cell |->
        IF c = i THEN [m.item[c] EXCEPT !.prev = NULL, !.next = NULL]
        ELSE [m.item[c] EXCEPT
               !.next = IF c = prev THEN next ELSE @,
               !.prev = IF c = next THEN prev ELSE @,
               !.child = IF c = parent /\ @ = i THEN next ELSE @]]]

(* i goes in front of after, a member of a's list. *)
InsertBefore(m, a, after, i) ==
  LET prev == m.item[after].prev
  IN [m EXCEPT !.item = [c \in Cell |->
        IF c = i THEN [m.item[c] EXCEPT !.prev = prev, !.next = after]
        ELSE [m.item[c] EXCEPT
               !.prev = IF c = after THEN i ELSE @,
               !.next = IF c = prev /\ after # m.item[a].child THEN i ELSE @,
               !.child = IF c = a /\ @ = after THEN i ELSE @]]]

(* r takes the place of i, which is deleted. *)
Replaced(m, parent, i, r) ==
  LET prev == m.item[i].prev
      next == m.item[i].next
  IN [m EXCEPT !.item = [c \in Cell |->
        IF c = r THEN [m.item[c] EXCEPT !.prev = prev, !.next = next]
        ELSE IF c = i THEN [m.item[c] EXCEPT !.prev = NULL, !.next = NULL]
        ELSE [m.item[c] EXCEPT
               !.next = IF c = prev THEN r ELSE @,
               !.prev = IF c = next THEN r ELSE @,
               !.child = IF c = parent /\ @ = i THEN r ELSE @]]]

(* Mutant: it is not deleted. *)
ReplaceWithoutDelete(m, parent, i, r) == IF i = NULL THEN m ELSE Replaced(m, parent, i, r)

cJSON_ReplaceItemViaPointer(m, parent, i, r) ==
  IF i = NULL THEN m ELSE cJSON_Delete(Replaced(m, parent, i, r), i)

-----------------------------------------------------------------------------
(* next and prev agree; the head of a list has one owner, and no prev.  An *)
(* item outside every list has neither.                                    *)
Linked(m) ==
  \A x \in Live(m) :
    /\ m.item[x].next # NULL =>
         m.item[x].next \in Live(m) /\ m.item[m.item[x].next].prev = x
    /\ m.item[x].prev # NULL =>
         m.item[x].prev \in Live(m) /\ m.item[m.item[x].prev].next = x
    /\ Owner(m, x) /\ m.item[x].child # NULL =>
         /\ m.item[x].child \in Live(m) /\ m.item[m.item[x].child].prev = NULL
         /\ \A y \in Live(m) : Owner(m, y) /\ m.item[y].child = m.item[x].child => y = x
=============================================================================
