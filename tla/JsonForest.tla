------------------------------ MODULE JsonForest ------------------------------
(***************************************************************************)
(* What a client of cJSON may rely on, without pointers: items hold        *)
(* sequences of items, each item is in one place only, and the places are  *)
(* the sequences and the items the client holds itself.  A call changes    *)
(* the one sequence it is given, and what it removes for good takes its    *)
(* whole subtree with it.                                                  *)
(***************************************************************************)
EXTENDS Integers, Sequences, FiniteSets

VARIABLE forest
(* kids   for each item there is, the items it holds             *)
(* key    for each item there is, its name                       *)
(* roots  what the client holds                                  *)
(* lost   what nobody holds: it was given to a call that failed  *)

Items(f) == DOMAIN f.kids
In(s) == {s[k] : k \in DOMAIN s}

(* All that hangs from i, i included. *)
Subtree(f, i) ==
  {x \in Items(f) : \A S \in SUBSET Items(f) :
     i \in S /\ (\A y \in S : In(f.kids[y]) \subseteq S) => x \in S}

InsertAt(s, k, i) == SubSeq(s, 1, k - 1) \o <<i>> \o SubSeq(s, k, Len(s))
RemoveAt(s, k) == SubSeq(s, 1, k - 1) \o SubSeq(s, k + 1, Len(s))

Init ==
  forest = [kids |-> [c \in {} |-> <<>>], key |-> [c \in {} |-> <<>>], roots |-> {}, lost |-> {}]

(* The items of D are gone. *)
Without(f, D) ==
  [f EXCEPT !.kids = [c \in Items(f) \ D |-> @[c]], !.key = [c \in Items(f) \ D |-> @[c]]]

(* A new item, with a name and without children. *)
WithNew(f, i, n) ==
  [f EXCEPT !.kids = [c \in Items(f) \cup {i} |-> IF c = i THEN <<>> ELSE @[c]],
            !.key = [c \in Items(f) \cup {i} |-> IF c = i THEN n ELSE @[c]]]

(* New items make one tree, the client's or nobody's, and the rest stays. *)
Grows(f, g, new) ==
  \E r \in new :
    /\ Subtree(g, r) = new
    /\ \A c \in new : /\ In(g.kids[c]) \subseteq new \ {r}
                      /\ Cardinality(In(g.kids[c])) = Len(g.kids[c])
                      /\ \A d \in new : In(g.kids[c]) \cap In(g.kids[d]) # {} => c = d
    /\ Without(g, new) \in {[f EXCEPT !.roots = @ \cup {r}], [f EXCEPT !.lost = @ \cup {r}]}

(* A new item is put at the end of a's sequence. *)
PutsNew(f, g, a, i) == g = [WithNew(f, i, g.key[i]) EXCEPT !.kids[a] = Append(@, i)]

(* A root moves into a's sequence, and may be renamed. *)
Puts(f, g, a, i) ==
  /\ a \notin Subtree(f, i)
  /\ \E k \in 1 .. (Len(f.kids[a]) + 1) :
       g = [f EXCEPT !.kids[a] = InsertAt(@, k, i), !.key[i] = g.key[i], !.roots = @ \ {i}]

(* An item leaves a's sequence for the client's hand, or for good, or for  *)
(* a root in its place.                                                    *)
Takes(f, g, a, k) ==
  g = [f EXCEPT !.kids[a] = RemoveAt(@, k), !.roots = @ \cup {f.kids[a][k]}]

Removes(f, g, a, k) ==
  g = [Without(f, Subtree(f, f.kids[a][k])) EXCEPT !.kids[a] = RemoveAt(@, k)]

Replaces(f, g, a, k, i) ==
  /\ a \notin Subtree(f, i)
  /\ g = [Without(f, Subtree(f, f.kids[a][k])) EXCEPT
            !.kids[a] = [@ EXCEPT ![k] = i], !.key[i] = g.key[i], !.roots = @ \ {i}]

Deletes(f, g, i) == g = [Without(f, Subtree(f, i)) EXCEPT !.roots = @ \ {i}]

(* A root is given away and put nowhere; it may have been renamed first. *)
Loses(f, g, i) ==
  g = [f EXCEPT !.key[i] = g.key[i], !.roots = @ \ {i}, !.lost = @ \cup {i}]

Step(f, g) ==
  LET new == Items(g) \ Items(f)
      left == f.roots \ g.roots
      changed == {a \in Items(f) \cap Items(g) : f.kids[a] # g.kids[a]}
  IN \/ Grows(f, g, new)
     \/ \E a \in changed :
          \/ \E i \in new : PutsNew(f, g, a, i)
          \/ \E i \in left : Puts(f, g, a, i)
          \/ \E k \in DOMAIN f.kids[a] :
               Takes(f, g, a, k) \/ Removes(f, g, a, k) \/ \E i \in left : Replaces(f, g, a, k, i)
     \/ \E i \in left : Deletes(f, g, i) \/ (i \in Items(g) /\ Loses(f, g, i))

Next == \E f \in {forest}, g \in {forest'} : Step(f, g)

Spec == Init /\ [][Next]_forest
=============================================================================
