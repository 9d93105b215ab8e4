---------------------------- MODULE PatternTrees ----------------------------
(***************************************************************************)
(* The two trees of name patterns of ubus-x: paths_tree (which objects of  *)
(* a remote device get a stub, option -P) and uxacl_objects (which local   *)
(* objects are exported, option -X).  Both are AVL trees whose comparator  *)
(* calls two patterns equal when one of them covers the other, so it is    *)
(* not an order on patterns, and what an insertion or a search meets       *)
(* depends on what is in the tree and on its shape.                        *)
(* A tree is the sequence of its keys from left to right; a search may go  *)
(* through any shape that a binary tree of these keys can have.            *)
(***************************************************************************)
EXTENDS Integers, Sequences, SequencesExt, FiniteSets

CONSTANTS
    Letter,   \* the alphabet, a set of numbers
    MaxLen,   \* bound: letters of a name or pattern
    MaxAdds   \* bound: patterns configured

ASSUME TreesAssumption == Letter \subseteq Nat /\ MaxLen \in Nat /\ MaxAdds \in Nat

VARIABLES
    paths,   \* connect_infos.paths_tree
    uxacl,   \* uxacl_objects
    added,   \* the patterns given to wsubus_client_path_pattern_add
    listed   \* the patterns given to ubusx_acl__add_object, in their order

treeVars == <<paths, uxacl, added, listed>>

Word == BoundedSeq(Letter, MaxLen)
\* A pattern is a word, or a word followed by '*'.
Pattern == [w : Word, star : BOOLEAN]
Name == {[w |-> v, star |-> FALSE] : v \in Word \ {<<>>}}

-----------------------------------------------------------------------------
(* Comparing patterns *)

strlen(p) == Len(p.w) + (IF p.star THEN 1 ELSE 0)

\* strncmp of the words: the first n letters, in the order of a dictionary.
strncmp(u, v, n) ==
    LET a == SubSeq(u, 1, Min({n, Len(u)}))
        b == SubSeq(v, 1, Min({n, Len(v)}))
    IN  CASE a = b -> 0
          [] \/ IsStrictPrefix(a, b)
             \/ \E i \in DOMAIN a \cap DOMAIN b :
                    SubSeq(a, 1, i - 1) = SubSeq(b, 1, i - 1) /\ a[i] < b[i] -> -1
          [] OTHER -> 1

\* client_path_comp and ubus_object_path_compare, which are the same function.
path_comp(p, q) ==
    IF strlen(p) = 0 \/ strlen(q) = 0 THEN strlen(p) - strlen(q)
    ELSE strncmp(p.w, q.w, CASE ~p.star /\ ~q.star -> MaxLen
                             [] p.star # q.star -> Len(IF p.star THEN p.w ELSE q.w)
                             [] p.star /\ q.star -> Min({Len(p.w), Len(q.w)}))

\* Mutant: the longer one is taken for the broader one.
BroaderLonger(p, q) ==
    IF strlen(p) = 0 THEN BOOLEAN
    ELSE {CASE ~p.star /\ ~q.star -> TRUE
            [] p.star # q.star -> p.star
            [] p.star /\ q.star -> Len(p.w) >= Len(q.w)}

\* The possible results for two patterns that compare equal.  Of two empty ones it reads
\* the byte in front of the string.
broader_pattern(p, q) ==
    IF strlen(p) = 0 THEN BOOLEAN
    ELSE {CASE ~p.star /\ ~q.star -> TRUE
            [] p.star # q.star -> p.star
            [] p.star /\ q.star -> Len(p.w) <= Len(q.w)}

-----------------------------------------------------------------------------
(* The trees (libubox, external) *)

\* Where a search for the key may end, over all shapes of the tree: at an element that
\* compares equal, which may be the root, or at a place between two neighbours that sent
\* it there, one of which may be the root and the other below it.
Hits(tree, key) == {m \in DOMAIN tree : path_comp(key, tree[m]) = 0}
Misses(tree, key) ==
    {at \in 1..Len(tree) + 1 : /\ at # 1 => path_comp(key, tree[at - 1]) > 0
                               /\ at # Len(tree) + 1 => path_comp(key, tree[at]) < 0}

\* The possible answers to whether the tree has the key.
avl_find(tree, key) == {TRUE : m \in Hits(tree, key)} \cup {FALSE : at \in Misses(tree, key)}

\* The trees that an insertion may leave; an equal element makes it fail.
avl_insert(tree, key) ==
    {tree : m \in Hits(tree, key)} \cup {InsertAt(tree, at, key) : at \in Misses(tree, key)}

-----------------------------------------------------------------------------
(* Operations *)

\* A round of the loop removes a pattern that the new one mutes.
Round(trees, p) ==
    UNION {{RemoveAt(t, m) : m \in {m \in Hits(t, p) : FALSE \in broader_pattern(t[m], p)}} :
           t \in trees}

\* The trees after each number of rounds.
Muted(tree, p) ==
    LET Rounds[n \in 0..Len(tree)] == IF n = 0 THEN {tree} ELSE Round(Rounds[n - 1], p)
    IN  Rounds

\* The loop ends at a broader pattern, which mutes the new one, or when nothing compares
\* equal any more.
MutedTrees(tree, p) ==
    UNION {{t : m \in {m \in Hits(t, p) : TRUE \in broader_pattern(t[m], p)}} \cup
           {InsertAt(t, at, p) : at \in Misses(t, p)} :
           t \in UNION {Muted(tree, p)[n] : n \in 0..Len(tree)}}

MoreToAdd == Cardinality(added) + Len(listed) < MaxAdds

wsubus_client_path_pattern_add(p) ==
    /\ MoreToAdd
    /\ paths' \in MutedTrees(paths, p)
    /\ added' = added \cup {p}
    /\ UNCHANGED <<uxacl, listed>>

\* The methods behind "->" are cut off and not used.
ubusx_acl__add_object(p) ==
    /\ MoreToAdd
    /\ uxacl' \in avl_insert(uxacl, p)
    /\ listed' = Append(listed, p)
    /\ UNCHANGED <<paths, added>>

\* The possible answers about a name: an empty tree accepts every name.
wsubus_client_match_pattern(n) == IF paths = <<>> THEN {TRUE} ELSE avl_find(paths, n)

\* Mutant: only the names themselves are found.
AllowEqual(n) == IF uxacl = <<>> THEN {TRUE} ELSE {n \in ToSet(uxacl)}

ubusx_acl__allow_object(n) == IF uxacl = <<>> THEN {TRUE} ELSE avl_find(uxacl, n)

TreesInit == paths = <<>> /\ uxacl = <<>> /\ added = {} /\ listed = <<>>

AddPattern == \E p \in Pattern : wsubus_client_path_pattern_add(p) \/ ubusx_acl__add_object(p)

-----------------------------------------------------------------------------
(* Properties *)

\* The names a pattern stands for.
Covers(p, n) == IF p.star THEN IsPrefix(p.w, n.w) ELSE p.w = n.w

\* A remote object gets a stub exactly if one of the configured patterns stands for its
\* name, in whatever order the patterns came and whichever of them were muted, and for
\* every shape of the tree.  (wsubus_client_path_pattern_add)
PathsExact ==
    \A n \in Name : wsubus_client_match_pattern(n) =
        {added = {} \/ \E p \in added : Covers(p, n)}

\* Whatever the shape of the tree, a search for an object finds the pattern of the ACL
\* that stands for it, although the comparator is no order.  What is in the ACL was
\* listed, and no list leaves it empty, which would let every object through.
AclSearchExact ==
    /\ ToSet(uxacl) \subseteq ToSet(listed)
    /\ uxacl = <<>> => listed = <<>>
    /\ \A n \in Name : ubusx_acl__allow_object(n) =
            {uxacl = <<>> \/ \E p \in ToSet(uxacl) : Covers(p, n)}

(* What the usage text says of this code, and the code does not do. *)

\* main.c:106 calls -X the "ACL list controlling wich local ubus objects are allowed to
\* be exported": an object that is listed is let through, also when the pattern that
\* stands for it is broader than one that was listed earlier.
AclComplete ==
    \A n \in Name : (\E p \in ToSet(listed) : Covers(p, n)) => ubusx_acl__allow_object(n) = {TRUE}
=============================================================================
