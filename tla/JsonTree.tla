------------------------------- MODULE JsonTree -------------------------------
(***************************************************************************)
(* A client of cJSON's tree functions (cJSON.c without its parser and its  *)
(* printer) and the memory they leave behind.  The client keeps the rules  *)
(* of the library's README: what it adds to a container is its own and is  *)
(* not in a tree yet, it changes containers and never references to them,  *)
(* and no container comes to refer to itself.  Any allocation may fail.    *)
(***************************************************************************)
EXTENDS JsonList, Sequences

CONSTANTS
  Lower,     (* per name, what tolower makes of it                          *)
  Kinds,     (* bound: the kinds of the items a client creates              *)
  MaxRefs,   (* bound: the references there are at a time                   *)
  MaxSilent, (* bound: the calls that failed without saying so              *)
  MaxArray   (* bound: the count a client passes to cJSON_CreateIntArray    *)

ASSUME TreeAssumption ==
  /\ DOMAIN Lower = Name /\ Kinds \subseteq Kind \ {"free"}
  /\ MaxRefs \in Nat /\ MaxSilent \in Nat /\ MaxArray \in Nat

VARIABLES
  mem,      (* the memory                                                   *)
  roots,    (* the items the client owns                                    *)
  lost,     (* history: items given to a call that failed without saying so *)
  unnamed,  (* history: a replacement's new key could not be allocated      *)
  crashed   (* strcmp was called with NULL                                  *)

vars == <<mem, roots, lost, unnamed, crashed>>

Init == mem = NoItems /\ roots = {} /\ lost = {} /\ unnamed = FALSE /\ crashed = FALSE

-----------------------------------------------------------------------------
(* Reading *)

(* The list get_array_item and cJSON_ArrayForEach walk. *)
Children(m, a) ==
  LET at[k \in Nat] ==
        IF k = 0 THEN m.item[a].child
        ELSE LET before == at[k - 1] IN IF before = NULL THEN NULL ELSE m.item[before].next
      n == Cardinality({k \in 0 .. (Cardinality(Cell) - 1) : at[k] # NULL})
  IN [k \in 1 .. n |-> at[k - 1]]

get_array_item(m, a, which) ==
  LET list == Children(m, a) IN IF which < Len(list) THEN list[which + 1] ELSE NULL

Matches(m, c, name, sensitive) ==
  m.item[c].name # NULL /\ IF sensitive THEN m.item[c].name = name
                           ELSE Lower[m.item[c].name] = Lower[name]

(* The first member that matches. *)
get_object_item(m, o, name, sensitive) ==
  LET list == Children(m, o)
      found == {k \in DOMAIN list : Matches(m, list[k], name, sensitive)}
  IN IF found = {} THEN NULL ELSE list[CHOOSE k \in found : \A j \in found : k <= j]

(* strcmp meets a member without a name before it meets a match. *)
Crashes(m, o, name, sensitive) ==
  LET list == Children(m, o)
  IN sensitive /\ \E k \in DOMAIN list :
       /\ m.item[list[k]].name = NULL
       /\ \A j \in 1 .. (k - 1) : ~Matches(m, list[j], name, TRUE)

-----------------------------------------------------------------------------
(* Functions that allocate as they go: supply is the cells malloc returns  *)
(* before it fails, ink how many strings it returns.                       *)
Outcome(m, c, supply, ink) == [mem |-> m, item |-> c, supply |-> supply, ink |-> ink]

Strings(m, n) == [m EXCEPT !.strings = @ + n]

(* cJSON_CreateNull and its like; a string or raw item is deleted when its *)
(* value cannot be allocated.                                              *)
CreateItem(m, kind, supply, ink) ==
  IF supply = <<>> THEN Outcome(m, NULL, supply, ink)
  ELSE LET c == Head(supply)
           made == cJSON_New_Item(m, c, kind)
       IN IF kind # "text" THEN Outcome(made, c, Tail(supply), ink)
          ELSE IF ink = 0 THEN Outcome(cJSON_Delete(made, c), NULL, Tail(supply), 0)
          ELSE Outcome(Strings([made EXCEPT !.item[c].text = c], 1), c, Tail(supply), ink - 1)

(* A new item goes behind last, or is the first of its parent. *)
Linking(m, parent, last, i) ==
  IF last = NULL THEN [m EXCEPT !.item[parent].child = i] ELSE suffix_object(m, last, i)

(* A turn of the loop of cJSON_CreateIntArray and its three like. *)
FillNext(f, kind) ==
  LET array == f.out.item
      made == CreateItem(f.out.mem, kind, f.out.supply, f.out.ink)
  IN IF array = NULL THEN f
     ELSE IF made.item = NULL
     THEN [f EXCEPT !.out = [made EXCEPT !.mem = cJSON_Delete(@, array)]]
     ELSE [out |-> [made EXCEPT !.mem = Linking(@, array, f.last, made.item), !.item = array],
           last |-> made.item]

CreateArrayOf(m, count, kind, supply, ink) ==
  LET turn[k \in Nat] ==
        IF k = 0 THEN [out |-> CreateItem(m, "array", supply, ink), last |-> NULL]
        ELSE FillNext(turn[k - 1], kind)
  IN turn[count].out

(* What is copied of an item as it is.  Mutant: its reference flag too. *)
CopyOfFlags(i) == [FreeItem EXCEPT !.kind = i.kind, !.const = i.const, !.ref = i.ref]
CopyOf(i) == [FreeItem EXCEPT !.kind = i.kind, !.const = i.const]

(* cJSON_Duplicate until it looks at recurse: the copy of an item owns its *)
(* value and its name, also when the item is a reference; a constant name  *)
(* is shared.                                                              *)
CopyItem(m, c, supply, ink) ==
  IF supply = <<>> THEN Outcome(m, NULL, supply, ink)
  ELSE LET n == Head(supply)
           src == m.item[c]
           made == [m EXCEPT !.item[n] = CopyOf(src)]
           text == IF src.text = NULL THEN 0 ELSE 1
           name == IF src.name = NULL \/ src.const THEN 0 ELSE 1
           valued == Strings([made EXCEPT !.item[n].text = IF text = 1 THEN n ELSE NULL], text)
           named == Strings([valued EXCEPT !.item[n].name = src.name], name)
       IN CASE ink < text ->
                 Outcome(cJSON_Delete(made, n), NULL, Tail(supply), 0)
            [] ink >= text /\ ink < text + name ->
                 Outcome(cJSON_Delete(valued, n), NULL, Tail(supply), 0)
            [] ink >= text + name -> Outcome(named, n, Tail(supply), ink - text - name)

(* Its recursion, with a frame on the stack for each copy whose children   *)
(* are being copied: the child that is next, and the copy of the last one. *)
(* A copy is linked when it is complete, and deleted when a child's fails. *)
Copying(copy, child) == [copy |-> copy, child |-> child, last |-> NULL]

CopyNext(d) ==
  LET top == d.frames[Len(d.frames)]
      below == SubSeq(d.frames, 1, Len(d.frames) - 1)
      parent == below[Len(below)]
      made == CopyItem(d.out.mem, top.child, d.out.supply, d.out.ink)
      src == d.out.mem.item[top.child]
  IN IF d.frames = <<>> THEN d
     ELSE IF d.out.item = NULL
     THEN [out |-> [d.out EXCEPT !.mem = cJSON_Delete(@, top.copy)], frames |-> below]
     ELSE IF top.child = NULL /\ below = <<>> THEN [d EXCEPT !.frames = <<>>]
     ELSE IF top.child = NULL
     THEN [out |-> [d.out EXCEPT !.mem = Linking(@, parent.copy, parent.last, top.copy)],
           frames |-> [below EXCEPT ![Len(below)] = [@ EXCEPT !.last = top.copy]]]
     ELSE IF made.item = NULL THEN [d EXCEPT !.out = made]
     ELSE [out |-> [made EXCEPT !.item = d.out.item],
           frames |-> Append(Append(below, [top EXCEPT !.child = src.next]),
                             Copying(made.item, src.child))]

(* Each turn takes a cell from the supply, fails, or takes a frame from    *)
(* the stack, so that this many are enough.                                *)
cJSON_Duplicate(m, c, recurse, supply, ink) ==
  LET first == CopyItem(m, c, supply, ink)
      turn[k \in Nat] ==
        IF k = 0 THEN [out |-> first, frames |-> <<Copying(first.item, m.item[c].child)>>]
        ELSE CopyNext(turn[k - 1])
  IN IF first.item = NULL \/ ~recurse THEN first ELSE turn[2 * Len(supply)].out

-----------------------------------------------------------------------------
(* The client *)

Supplies ==
  LET free == Cell \ Live(mem)
  IN {s \in UNION {[1 .. n -> free] : n \in 0 .. Cardinality(free)} :
        \A i, j \in DOMAIN s : i # j => s[i] # s[j]}
OneItem == {<<>>} \cup {<<c>> : c \in Cell \ Live(mem)}
Fails == Cardinality(lost) + (IF unnamed THEN 1 ELSE 0) < MaxSilent
FewRefs == Cardinality({c \in Live(mem) : mem.item[c].ref}) < MaxRefs

Tree(c) == Doomed(mem, c)
Held == UNION {Tree(r) : r \in roots}
Arrays == {c \in Held : Owner(mem, c) /\ mem.item[c].kind = "array"}
Objects == {c \in Held : Owner(mem, c) /\ mem.item[c].kind = "object"}
Addable(a) == {i \in roots : a \notin Tree(i)}

Holding(m, r, l) ==
  mem' = m /\ roots' = r /\ lost' = l /\ UNCHANGED <<unnamed, crashed>>

(* The client calls with what malloc still gives, all of which is used. *)
Keep(r) ==
  /\ r.supply = <<>> /\ r.ink = 0
  /\ Holding(r.mem, IF r.item = NULL THEN roots ELSE roots \cup {r.item}, lost)

Create ==
  \E kind \in Kinds, s \in OneItem, ink \in 0 .. 1 :
    Keep(CreateItem(mem, kind, s, ink))

CreateArray ==
  \E kind \in Kinds \cap {"plain", "text"}, n \in 1 .. MaxArray, s \in Supplies, ink \in 0 .. MaxArray :
    Keep(CreateArrayOf(mem, n, kind, s, ink))

(* cJSON_CreateArrayReference and cJSON_CreateObjectReference of the first *)
(* child of such a container, cJSON_CreateStringReference of a value.      *)
CreateReference ==
  \E c \in Held, s \in OneItem :
    LET src == mem.item[c]
    IN /\ FewRefs /\ s # <<>> /\ Owner(mem, c) /\ (src.child # NULL \/ src.text # NULL)
       /\ Holding([cJSON_New_Item(mem, s[1], src.kind) EXCEPT !.item[s[1]].child = src.child,
                                                              !.item[s[1]].text = src.text,
                                                              !.item[s[1]].ref = TRUE],
                  roots \cup {s[1]}, lost)

AddItemToArray ==
  \E a \in Arrays : \E i \in Addable(a) :
    Holding(add_item_to_array(mem, a, i), roots \ {i}, lost)

(* Mutant: the item is added although its key could not be allocated. *)
AddItemToObjectAnyway ==
  \E o \in Objects, n \in Name, given, const \in BOOLEAN : \E i \in Addable(o) :
    Holding(add_item_to_array(Rename(mem, i, IF given \/ const THEN n ELSE NULL, const), o, i),
            roots \ {i}, lost)

(* cJSON_AddItemToObject returns nothing: when the key cannot be allocated *)
(* the item is in no list, and the client has given it away.               *)
AddItemToObject ==
  \E o \in Objects, n \in Name, given, const \in BOOLEAN : \E i \in Addable(o) :
    IF given \/ const
    THEN Holding(add_item_to_array(Rename(mem, i, n, const), o, i), roots \ {i}, lost)
    ELSE Fails /\ Holding(mem, roots \ {i}, lost \cup {i})

AddItemReferenceToArray ==
  FewRefs /\ \E a \in Arrays, c \in Held, s \in OneItem :
    /\ s # <<>> /\ a \notin Tree(c)
    /\ Holding(add_item_to_array(create_reference(mem, s[1], c), a, s[1]), roots, lost)

AddItemReferenceToObject ==
  FewRefs /\ \E o \in Objects, c \in Held, n \in Name, s \in OneItem, given \in BOOLEAN :
    /\ s # <<>> /\ o \notin Tree(c)
    /\ LET made == create_reference(mem, s[1], c)
       IN IF given
          THEN Holding(add_item_to_array(Rename(made, s[1], n, FALSE), o, s[1]), roots, lost)
          ELSE Fails /\ Holding(made, roots, lost \cup {s[1]})

(* cJSON_AddNullToObject and its like delete the item they cannot add. *)
AddNewToObject ==
  \E o \in Objects, n \in Name, kind \in Kinds, s \in OneItem, ink \in 0 .. 2 :
    LET r == CreateItem(mem, kind, s, ink)
    IN IF r.item # NULL /\ r.ink > 0
       THEN /\ r.ink = 1
            /\ Holding(add_item_to_array(Rename(r.mem, r.item, n, FALSE), o, r.item), roots, lost)
       ELSE r.ink = 0 /\ Holding(cJSON_Delete(r.mem, r.item), roots, lost)

DetachItemFromArray ==
  \E a \in Arrays \cup Objects : \E which \in 0 .. (Len(Children(mem, a)) - 1) :
    LET i == get_array_item(mem, a, which)
        m == cJSON_DetachItemViaPointer(mem, a, i)
    IN \/ Holding(m, roots \cup {i}, lost)
       \/ Holding(cJSON_Delete(m, i), roots, lost)

Crash == crashed' = TRUE /\ UNCHANGED <<mem, roots, lost, unnamed>>

DetachItemFromObject ==
  \E o \in Objects, n \in Name, sensitive \in BOOLEAN :
    IF Crashes(mem, o, n, sensitive) THEN Crash
    ELSE LET i == get_object_item(mem, o, n, sensitive)
             m == cJSON_DetachItemViaPointer(mem, o, i)
         IN /\ i # NULL
            /\ \/ Holding(m, roots \cup {i}, lost)
               \/ Holding(cJSON_Delete(m, i), roots, lost)

InsertItemInArray ==
  \E a \in Arrays : \E i \in Addable(a), which \in 0 .. Len(Children(mem, a)) :
    LET after == get_array_item(mem, a, which)
    IN Holding(IF after = NULL THEN add_item_to_array(mem, a, i) ELSE InsertBefore(mem, a, after, i),
               roots \ {i}, lost)

(* What replaces nothing is in no list, and the client has given it away. *)
ReplaceItemInArray ==
  \E a \in Arrays : \E i \in Addable(a), which \in 0 .. Len(Children(mem, a)) :
    LET old == get_array_item(mem, a, which)
    IN /\ old = NULL => Fails
       /\ Holding(cJSON_ReplaceItemViaPointer(mem, a, old, i), roots \ {i},
                  IF old = NULL THEN lost \cup {i} ELSE lost)

(* replace_item_in_object renames the replacement, to NULL when the key    *)
(* cannot be allocated, before it looks for what to replace.               *)
ReplaceItemInObject ==
  \E o \in Objects, n \in Name, given, sensitive \in BOOLEAN : \E i \in Addable(o) :
    LET renamed == Rename(mem, i, IF given THEN n ELSE NULL, FALSE)
        old == get_object_item(renamed, o, n, sensitive)
    IN IF Crashes(renamed, o, n, sensitive) THEN Crash
       ELSE /\ old = NULL \/ ~given => Fails
            /\ mem' = cJSON_ReplaceItemViaPointer(renamed, o, old, i)
            /\ roots' = roots \ {i}
            /\ lost' = IF old = NULL THEN lost \cup {i} ELSE lost
            /\ unnamed' = (unnamed \/ ~given)
            /\ UNCHANGED crashed

(* A reference shows a list as long as its first item stays the first, and *)
(* a value as long as there is one; nothing is reached through itself.     *)
In(s) == {s[k] : k \in DOMAIN s}
Reads(c) ==
  {x \in Cell : \A S \in SUBSET Cell :
     c \in S /\ (\A y \in S : In(Children(mem, y)) \subseteq S) => x \in S}

Readable(c) ==
  \A x \in Reads(c) :
    LET i == mem.item[x]
    IN /\ x \in Live(mem) /\ \A y \in In(Children(mem, x)) : x \notin Reads(y)
       /\ i.text # NULL => mem.item[i.text].text = i.text
       /\ i.ref /\ i.child # NULL =>
            \E o \in Live(mem) : /\ Owner(mem, o) /\ mem.item[o].kind = i.kind
                                 /\ mem.item[o].child = i.child

Duplicate(c, recurse) ==
  /\ c \in Held /\ Readable(c)
  /\ \E s \in Supplies, ink \in 0 .. (2 * Cardinality(Reads(c))) :
       Len(s) <= Cardinality(Reads(c)) /\ Keep(cJSON_Duplicate(mem, c, recurse, s, ink))

Delete == \E r \in roots : Holding(cJSON_Delete(mem, r), roots \ {r}, lost)

Next ==
  /\ ~crashed
  /\ \/ Create \/ CreateArray \/ CreateReference
     \/ AddItemToArray \/ AddItemToObject
     \/ AddItemReferenceToArray \/ AddItemReferenceToObject \/ AddNewToObject
     \/ DetachItemFromArray \/ DetachItemFromObject \/ InsertItemInArray
     \/ ReplaceItemInArray \/ ReplaceItemInObject
     \/ \E c \in Cell, recurse \in BOOLEAN : Duplicate(c, recurse)
     \/ Delete

Spec == Init /\ [][Next]_vars

-----------------------------------------------------------------------------
(* Properties *)

TypeOK ==
  /\ mem \in Memory /\ roots \subseteq Cell /\ lost \subseteq Cell
  /\ unnamed \in BOOLEAN /\ crashed \in BOOLEAN

(* Every item is freed once: it is in exactly one place, a list or the     *)
(* client's hand, every list ends and reads the same backwards, and what   *)
(* is in no place was given to a call that failed without saying so.       *)
TreesSound ==
  LET places(c) == {at \in Live(mem) \X (1 .. Cardinality(Cell)) :
                      /\ Owner(mem, at[1]) /\ at[2] <= Len(Children(mem, at[1]))
                      /\ Children(mem, at[1])[at[2]] = c}
      held(c) == IF c \in roots \cup lost THEN 1 ELSE 0
  IN /\ Linked(mem)
     /\ roots \cap lost = {}
     /\ \A c \in Live(mem) : Cardinality(places(c)) + held(c) = 1
     /\ Live(mem) = UNION {Tree(r) : r \in roots \cup lost}

(* Keys and values are freed once: those that are allocated are the keys   *)
(* that are not constant and the values that are not referred to.          *)
StringsOwned ==
  mem.strings = Cardinality({c \in Live(mem) : OwnsName(mem, c)})
                + Cardinality({c \in Live(mem) : OwnsText(mem, c)})

(* A lookup that minds the case does not crash, and every member has a     *)
(* name to be found by, unless a replacement's key could not be allocated. *)
NamesKept ==
  ~unnamed => /\ ~crashed
              /\ \A o \in Live(mem) : Owner(mem, o) /\ mem.item[o].kind = "object" =>
                   \A c \in In(Children(mem, o)) : mem.item[c].name # NULL

(* What can be read of an item, down to the depth there can be. *)
Image(m, c) ==
  LET seen[d \in Nat, x \in DOMAIN m.item] ==
        <<m.item[x].kind, m.item[x].name, m.item[x].text # NULL,
          IF d = 0 THEN <<>>
          ELSE [k \in DOMAIN Children(m, x) |-> seen[d - 1, Children(m, x)[k]]]>>
  IN seen[Cardinality(DOMAIN m.item), c]

(* cJSON.h:238-240: Duplicate creates an identical item with its children,  *)
(* in new memory, in no list.  What is copied is left as it was, and the    *)
(* copy shares nothing with it but constant keys, which nobody frees,       *)
(* whatever the original refers to: deleting the one never frees what the   *)
(* other uses.                                                              *)
CopyIsIdentical ==
  \A c \in Held : Readable(c) =>
    LET fresh == 1 .. (2 * Cardinality(Cell))
        roomy == [mem EXCEPT !.item =
                    [x \in Cell \cup fresh |-> IF x \in Cell THEN mem.item[x] ELSE FreeItem]]
        r == cJSON_Duplicate(roomy, c, TRUE, [k \in fresh |-> k], 4 * Cardinality(Cell))
        copies == {x \in fresh : r.mem.item[x].kind # "free"}
        own(flag(_)) == Cardinality({x \in copies : flag(x)})
    IN /\ Image(r.mem, r.item) = Image(mem, c)
       /\ r.mem.item[r.item].next = NULL /\ r.mem.item[r.item].prev = NULL
       /\ \A x \in Cell : r.mem.item[x] = mem.item[x]
       /\ \A x \in copies :
            LET i == r.mem.item[x]
            IN ~i.ref /\ {i.child, i.next} \subseteq copies \cup {NULL} /\ i.text \in {NULL, x}
       /\ r.mem.strings - mem.strings = own(LAMBDA x : OwnsName(r.mem, x))
                                        + own(LAMBDA x : OwnsText(r.mem, x))

Forest == INSTANCE JsonForest WITH
  forest <- [kids |-> [c \in Live(mem) |-> IF mem.item[c].ref THEN <<>> ELSE Children(mem, c)],
             key |-> [c \in Live(mem) |-> mem.item[c].name],
             roots |-> roots, lost |-> lost]

(* What a call does to the sequences of items is what it says, to the one  *)
(* it is given and to no other.                                            *)
ImplementsForest == Forest!Spec
=============================================================================
