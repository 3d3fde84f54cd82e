------------------------------- MODULE RbTree -------------------------------
(***************************************************************************)
(* The red-black tree of kern/libs/rb_tree.c, which holds the memory areas *)
(* of an address space.  nil stands for every leaf and is written to like  *)
(* any node; the tree hangs on root.left.                                  *)
(***************************************************************************)
EXTENDS Integers, Sequences, FiniteSets

CONSTANTS
    Nodes,   \* nodes that can be inserted, positive integers
    Key      \* Key[n], compared by the tree

VARIABLES tree, inTree

rbVars == <<tree, inTree>>

nil == 0
root == -1
All == Nodes \cup {nil, root}

(* rb_tree_create.                                                         *)
RbInit ==
    /\ tree = [left |-> [n \in All |-> nil], right |-> [n \in All |-> nil],
               parent |-> [n \in All |-> nil], red |-> [n \in All |-> FALSE], ok |-> TRUE]
    /\ inTree = {}

Opposite(d) == IF d = "left" THEN "right" ELSE "left"
Red(t, n, c) == [t EXCEPT !.red[n] = c]
Up2(t, x) == t.parent[t.parent[x]]

(* The child pointer of x's parent that leads to x now leads to y.         *)
Relink(t, x, y) ==
    LET p == t.parent[x] IN
    IF x = t.left[p] THEN [t EXCEPT !.left[p] = y] ELSE [t EXCEPT !.right[p] = y]

(* FUNC_ROTATE: rb_left_rotate for d = "left", rb_right_rotate else.       *)
Replace(t, x, y, p, d) ==
    LET side == IF x = t[d][p] THEN d ELSE Opposite(d)
    IN  [t EXCEPT ![side][p] = y, !.parent[y] = p]
Adopt(t, x, c, o) == [t EXCEPT ![o][x] = c, !.parent[c] = IF c # nil THEN x ELSE @]
Rotate(t, x, d) ==
    LET y == t[Opposite(d)][x]
    IN  [Replace(Adopt(t, x, t[d][y], Opposite(d)), x, y, t.parent[x], d) EXCEPT
            ![d][y] = x, !.parent[x] = y,
            !.ok = @ /\ x # root /\ x # nil /\ y # nil /\ ~ t.red[nil]]

----------------------------------------------------------------------------
(* The node below which rb_insert_binary hangs a new node.                 *)
RECURSIVE Descend(_, _, _, _)
Descend(t, y, x, n) ==
    IF x = nil THEN y ELSE Descend(t, x, IF Key[x] > Key[n] THEN t.left[x] ELSE t.right[x], n)

rb_insert_binary(t, n) ==
    LET y == Descend(t, root, t.left[root], n)
        t1 == [t EXCEPT !.left[n] = nil, !.right[n] = nil, !.parent[n] = y]
    IN  IF y = root \/ Key[y] > Key[n] THEN [t1 EXCEPT !.left[y] = n] ELSE [t1 EXCEPT !.right[y] = n]

(* The uncle of x is black: x, on the outer side, moves up.                *)
RotateUp(t, x, o) ==
    Rotate(Red(Red(t, t.parent[x], FALSE), Up2(t, x), TRUE), Up2(t, x), o)

RECURSIVE InsertFixup(_, _)
InsertFixup(t, x) ==
    LET p == t.parent[x]
        d == IF p = t.left[t.parent[p]] THEN "left" ELSE "right"
        o == Opposite(d)
        y == t[o][t.parent[p]]
    IN  IF ~ t.red[p] THEN Red(t, t.left[root], FALSE)
        ELSE IF t.red[y]
        THEN InsertFixup(Red(Red(Red(t, p, FALSE), y, FALSE), t.parent[p], TRUE), t.parent[p])
        ELSE IF x = t[o][p] THEN InsertFixup(RotateUp(Rotate(t, p, d), p, o), p)
        ELSE InsertFixup(RotateUp(t, x, o), x)

\* Mutant of rb_insert: the new node keeps the color it had.
MutRbInsert(n) ==
    /\ n \notin inTree
    /\ inTree' = inTree \cup {n}
    /\ tree' = InsertFixup(rb_insert_binary(tree, n), n)

rb_insert(n) ==
    /\ n \notin inTree
    /\ inTree' = inTree \cup {n}
    /\ tree' = InsertFixup(Red(rb_insert_binary(tree, n), n, TRUE), n)

----------------------------------------------------------------------------
RECURSIVE Far(_, _, _)
Far(t, y, d) == IF t[d][y] = nil THEN y ELSE Far(t, t[d][y], d)

RECURSIVE Climb(_, _)
Climb(t, x) == LET y == t.parent[x] IN IF x = t.right[y] THEN Climb(t, y) ELSE y

rb_tree_successor(t, x) ==
    IF t.right[x] # nil THEN Far(t, t.right[x], "left")
    ELSE LET y == Climb(t, x) IN IF y = root THEN nil ELSE y

RECURSIVE ClimbLeft(_, _)
ClimbLeft(t, x) ==
    LET y == t.parent[x] IN
    IF x # t.left[y] THEN y ELSE IF y = root THEN nil ELSE ClimbLeft(t, y)

rb_tree_predecessor(t, x) ==
    IF t.left[x] # nil THEN Far(t, t.left[x], "right") ELSE ClimbLeft(t, x)

RECURSIVE Search(_, _, _)
Search(t, x, k) ==
    IF x = nil \/ Key[x] = k THEN x ELSE Search(t, IF Key[x] > k THEN t.left[x] ELSE t.right[x], k)
rb_search(t, k) == Search(t, t.left[root], k)

(* A red sibling of x is rotated away.                                     *)
BlackSibling(t, x, d) ==
    LET p == t.parent[x]
        w == t[Opposite(d)][p]
    IN  IF t.red[w] THEN Rotate(Red(Red(t, w, FALSE), p, TRUE), p, d) ELSE t

(* The sibling w has a red child: it is brought to the outer side, and the *)
(* rotation at p restores the height.                                      *)
OuterRed(t, w, d) ==
    LET o == Opposite(d)
    IN  IF t.red[t[o][w]] THEN t ELSE Rotate(Red(Red(t, t[d][w], FALSE), w, TRUE), w, o)
RotateDown(t, p, w, d) ==
    Rotate(Red(Red(Red(t, w, t.red[p]), p, FALSE), t[Opposite(d)][w], FALSE), p, d)

DeleteStep(t, x, w, d, stop) ==
    IF ~ t.red[t.left[w]] /\ ~ t.red[t.right[w]] THEN [t |-> Red(t, w, TRUE), x |-> t.parent[x]]
    ELSE [x |-> stop, t |-> LET t2 == OuterRed(t, w, d)
                            IN  RotateDown(t2, t.parent[x], t2[Opposite(d)][t.parent[x]], d)]

(* stop is the root when the fixup starts: the loop ends there.            *)
RECURSIVE DeleteFixup(_, _)
DeleteFixup(r, stop) ==
    LET d == IF r.x = r.t.left[r.t.parent[r.x]] THEN "left" ELSE "right"
        Step(t) == DeleteStep(t, r.x, t[Opposite(d)][t.parent[r.x]], d, stop)
    IN  IF r.x = stop \/ r.t.red[r.x] THEN Red(r.t, r.x, FALSE)
        ELSE DeleteFixup(Step(BlackSibling(r.t, r.x, d)), stop)

(* y is unlinked; if it is not z it takes over z's place and color.  z's   *)
(* own fields are garbage from then on, and set to nil here.               *)
TakeOver(t, y, z) ==
    [t EXCEPT !.parent[t.right[z]] = y, !.parent[t.left[z]] = y, !.left[y] = t.left[z],
              !.right[y] = t.right[z], !.parent[y] = t.parent[z], !.red[y] = t.red[z]]
Rebalance(t, x, wasRed) ==
    IF wasRed THEN t ELSE DeleteFixup([t |-> t, x |-> x], t.left[root])
Unlink(t, x, y, z) ==
    LET t1 == Relink([t EXCEPT !.parent[x] = t.parent[y], !.ok = @ /\ y # root /\ y # nil], y, x)
    IN  Rebalance(IF y = z THEN t1 ELSE TakeOver(Relink(t1, z, y), y, z), x, t.red[y])

rb_delete(z) ==
    LET y == IF tree.left[z] = nil \/ tree.right[z] = nil THEN z ELSE rb_tree_successor(tree, z)
        x == IF tree.left[y] # nil THEN tree.left[y] ELSE tree.right[y]
    IN  /\ z \in inTree
        /\ inTree' = inTree \ {z}
        /\ tree' = [Unlink(tree, x, y, z) EXCEPT
                        !.left[z] = nil, !.right[z] = nil, !.parent[z] = nil, !.red[z] = FALSE]

RbNext == \E n \in Nodes : rb_insert(n) \/ rb_delete(n)
RbSpec == RbInit /\ [][RbNext]_rbVars

----------------------------------------------------------------------------
(* In-order traversal and black height, -1 when it is not uniform.         *)
RECURSIVE Inorder(_, _)
Inorder(t, n) == IF n = nil THEN <<>> ELSE Inorder(t, t.left[n]) \o <<n>> \o Inorder(t, t.right[n])

RECURSIVE check_tree(_, _)
check_tree(t, n) ==
    LET l == check_tree(t, t.left[n])
        r == check_tree(t, t.right[n])
        linked == \A c \in {t.left[n], t.right[n]} \ {nil} : t.parent[c] = n /\ ~ (t.red[n] /\ t.red[c])
    IN  IF n = nil THEN IF t.red[nil] THEN -1 ELSE 1
        ELSE IF l = -1 \/ l # r \/ ~ linked THEN -1
        ELSE IF t.red[n] THEN l ELSE l + 1

(* After any sequence of rb_insert and rb_delete, with equal keys too, the *)
(* tree holds exactly the nodes inserted and not deleted, in key order, it *)
(* is balanced (check_tree's assertions), no assertion of the rotations    *)
(* failed, and rb_search, rb_node_prev and rb_node_next find every node    *)
(* and its neighbours.                                                     *)
RbTreeOk ==
    LET seq == Inorder(tree, tree.left[root])
        At(i) == IF i \in DOMAIN seq THEN seq[i] ELSE nil
    IN  /\ tree.ok /\ ~ tree.red[root]
        /\ check_tree(tree, tree.left[root]) # -1
        /\ {seq[i] : i \in DOMAIN seq} = inTree /\ Len(seq) = Cardinality(inTree)
        /\ \A i \in DOMAIN seq :
            /\ i > 1 => Key[seq[i - 1]] <= Key[seq[i]]
            /\ rb_tree_predecessor(tree, seq[i]) = At(i - 1)
            /\ rb_tree_successor(tree, seq[i]) = At(i + 1)
            /\ LET n == rb_search(tree, Key[seq[i]]) IN n # nil /\ Key[n] = Key[seq[i]]
=============================================================================
