------------------------- MODULE DifferentialCases -------------------------
(***************************************************************************)
(* The programs of the compiler's differential tests and how a failing one *)
(* is made smaller: tools/compiler_differential_cases.py.                  *)
(*                                                                         *)
(* A tree is [op, arg, kids].  The source's lists hold names and operators *)
(* next to their subtrees; arg keeps the number or name that a rule reads: *)
(* the value of a const, the index of a bound, the variable of a var, the  *)
(* size of a slice, the safe operators of a binary, the clauses of an if.  *)
(***************************************************************************)
EXTENDS Integers, Sequences, FiniteSets, SequencesExt

Node(op, arg, kids) == [op |-> op, arg |-> arg, kids |-> kids]
Const(n) == Node("const", n, << >>)
Var(n) == Node("var", n, << >>)
Bound(n) == Node("bound", n, << >>)
Values == Node("values", 0, << >>)
Safe == 0        \* an operator without div and rem, an if with its last clause
Fallible == 1

Booleans == {"compare", "andalso", "not"}     \* orelse is like andalso
Arrays == {"values", "set", "sublist", "slice"}

RECURSIVE ArraySize(_)
ArraySize(t) ==
    CASE t.op = "values" -> 3
      [] t.op = "slice" -> t.arg
      [] t.op = "set" -> ArraySize(t.kids[2])
      [] OTHER -> ArraySize(t.kids[1])

(* node_type(): <<kind, size>>, the size of arrays. *)
NodeType(t) ==
    CASE t.op \in Booleans -> <<"boolean", 0>>
      [] t.op \in Arrays -> <<"array", ArraySize(t)>>
      [] OTHER -> <<"word", 0>>

(* Names a node binds for its n-th subtree. *)
Increment(op, n) ==
    CASE op = "let" /\ n = 2 -> 1 [] op = "join" /\ n = 4 -> 1 [] op = "pair" /\ n = 3 -> 2 [] OTHER -> 0

RECURSIVE Valid(_, _, _)
Valid(t, bound, calls) ==
    IF t.op = "bound" THEN t.arg < bound
    ELSE /\ t.op = "call" => calls /\ ArraySize(t.kids[3]) = 3
         /\ \A n \in DOMAIN t.kids : Valid(t.kids[n], bound + Increment(t.op, n), calls)

-----------------------------------------------------------------------------
(* Generator: every tree it can choose at a depth, of which at most one    *)
(* subtree is deeper than a leaf.                                          *)
CONSTANTS Consts,      \* leaf constants
          SliceSizes

Leaf(bound) == {Var(1)} \cup {Const(n) : n \in Consts} \cup {Bound(n) : n \in 0 .. bound - 1}

(* Sequences that take each element from its own set. *)
Rows(sets) ==
    FoldLeft(LAMBDA rows, S : {Append(row, x) : row \in rows, x \in S}, {<< >>}, sets)

(* Mutant: indices up to the size of the vector the program is given. *)
IndicesOfInput(array, total, words) == IF total THEN {Const(n) : n \in 1 .. 3} ELSE words

(* A total program only takes elements that are there. *)
Indices(array, total, words) ==
    IF total THEN {Const(n) : n \in 1 .. ArraySize(array)} ELSE words

RECURSIVE Words(_, _, _, _), BooleansOf(_, _, _, _), ArraysOf(_, _, _, _, _)
BooleansOf(d, bound, calls, total) ==
    LET flat == {Node("compare", 0, k) : k \in Rows(<<Leaf(bound), Leaf(bound)>>)} IN
    IF d <= 0 THEN flat
    ELSE flat \cup {Node("not", 0, <<b>>) : b \in BooleansOf(d - 1, bound, calls, total)}
              \cup {Node("compare", 0, k) : k \in Rows(<<Words(d - 1, bound, calls, total), Leaf(bound)>>)}
              \cup {Node("andalso", 0, k) : k \in Rows(<<BooleansOf(d - 1, bound, calls, total),
                                                         BooleansOf(0, bound, calls, total)>>)}

ArraysOf(d, bound, calls, total, slicing) ==
    IF d <= 0 THEN {Values}
    ELSE LET inner == ArraysOf(d - 1, bound, calls, total, slicing)
             words == Words(d - 1, bound, calls, total)
             starts == IF total THEN {Const(1)} ELSE words
             counts(a) == IF total THEN {Const(n) : n \in 0 .. ArraySize(a)} ELSE Leaf(bound)
         IN {Values}
            \cup UNION {{Node("set", 0, <<i, a, w>>) : i \in Indices(a, total, words), w \in Leaf(bound)} : a \in inner}
            \cup {Node("set", 0, <<Const(1), Values, w>>) : w \in words}
            \cup UNION {{Node("sublist", 0, <<a, s, c>>) : s \in starts, c \in counts(a)} : a \in inner}
            \cup IF ~slicing THEN {}
                 ELSE UNION {{Node("slice", n, <<a, s>>) : s \in starts,
                                n \in {m \in SliceSizes : total => m <= ArraySize(a)}} : a \in inner}

Words(d, bound, calls, total) ==
    IF d <= 0 THEN Leaf(bound)
    ELSE LET deep(b) == Words(d - 1, b, calls, total)
             flat(b) == Leaf(b)
             test == BooleansOf(d - 1, bound, calls, total)
             quick == BooleansOf(0, bound, calls, total)
             arrays(slicing) == ArraysOf(d - 1, bound, calls, total, slicing)
             One(op, args) == {Node(op, a, k) : a \in args, k \in
                 Rows(<<deep(bound), flat(bound)>>) \cup Rows(<<flat(bound), deep(bound)>>)}
         IN flat(bound)
            \cup One("binary", IF total THEN {Safe} ELSE {Safe, Fallible})
            \cup One("shift", {0})
            \cup One("if", IF total THEN {Safe} ELSE {Safe, Fallible})
            \cup One("record", {0})
            \cup {Node("bnot", 0, <<w>>) : w \in deep(bound)}
            \cup {Node("select", 0, k) : k \in Rows(<<test, flat(bound), flat(bound)>>)
                                           \cup Rows(<<quick, deep(bound), flat(bound)>>)}
            \cup {Node("join", 0, k) : k \in Rows(<<test, {Var(1)}, {Var(1)}, flat(bound + 1)>>)
                                         \cup Rows(<<quick, {Var(1)}, {Var(1)}, deep(bound + 1)>>)}
            \cup {Node("let", 0, k) : k \in Rows(<<deep(bound), flat(bound + 1)>>)
                                        \cup Rows(<<flat(bound), deep(bound + 1)>>)}
            \cup {Node("pair", 0, k) : k \in Rows(<<deep(bound), {Var(1)}, flat(bound + 2)>>)
                                         \cup Rows(<<{Var(1)}, {Var(1)}, deep(bound + 2)>>)}
            \cup UNION {{Node("nth", 0, <<i, a>>) : i \in Indices(a, total, deep(bound))} : a \in arrays(TRUE)}
            \cup IF total THEN {} ELSE One("partial", {0}) \cup One("match", {0})
            \cup IF ~calls THEN {}
                 ELSE {Node("call", 0, k) : k \in Rows(<<deep(bound), {Var(1)}, {Values}>>)
                                              \cup Rows(<<{Var(1)}, {Var(1)}, arrays(FALSE)>>)}

-----------------------------------------------------------------------------
(* tree_cost(), and the order of the texts of two leaves, by length first. *)
RECURSIVE TreeCost(_)
TreeCost(t) == FoldLeft(LAMBDA n, kid : n + TreeCost(kid), 1, t.kids)

RECURSIVE LeavesOf(_)
LeavesOf(t) == IF t.kids = << >> THEN <<t>>
               ELSE FoldLeft(LAMBDA s, kid : s \o LeavesOf(kid), << >>, t.kids)

LeafRank(t) ==
    CASE t.op = "bound" -> t.arg
      [] t.op = "const" /\ t.arg >= 0 -> 10 + t.arg
      [] t.op = "var" -> 20 + t.arg
      [] OTHER -> 30

(* program_cost() of two trees that differ by one reduction.               *)
Cheaper(small, t) ==
    LET new == TreeCost(small)
        old == TreeCost(t)
    IN \/ new < old
       \/ new = old /\ LET a == LeavesOf(small)
                           b == LeavesOf(t)
                       IN \E n \in DOMAIN b :
                            LeafRank(a[n]) < LeafRank(b[n]) /\ SubSeq(a, 1, n - 1) = SubSeq(b, 1, n - 1)

(* Mutant: a subtree of any type may take its parent's place. *)
SubtreesOfAnyType(t) == t.kids

(* Subtrees that may take their parent's place. *)
Subtrees(t) == SelectSeq(t.kids, LAMBDA kid : NodeType(kid) = NodeType(t))

(* reductions(): in the order in which they are tried. *)
RECURSIVE Reductions(_)
Reductions(t) ==
    LET leaves == CASE NodeType(t)[1] = "word" -> <<Const(0), Const(1), Var(1), Var(2)>>
                    [] NodeType(t) = <<"array", 3>> -> <<Values>>
                    [] OTHER -> << >>
        numbers == IF t.op = "const" THEN <<Const(0), Const(1), Const(-1), Const(t.arg \div 2)>> ELSE << >>
        inside(n) == LET small == Reductions(t.kids[n]) IN
                     [m \in DOMAIN small |-> [t EXCEPT !.kids[n] = small[m]]]
    IN leaves \o Subtrees(t) \o numbers
         \o FoldLeft(LAMBDA s, n : s \o inside(n), << >>, [n \in DOMAIN t.kids |-> n])

(* program_reductions(), of a tree that may call the helper or not. *)
TreeReductions(t, calls) ==
    SelectSeq(Reductions(t), LAMBDA small : Valid(small, 0, calls) /\ Cheaper(small, t))

-----------------------------------------------------------------------------
(* Emitter.emit(): the names in scope at every use of a bound name.  A     *)
(* name is <<node, n>>, the n-th name of the node at a position of the     *)
(* tree; the newest ones come first.                                       *)
RECURSIVE Uses(_, _, _)
Uses(t, at, bindings) ==
    LET new(n) == CASE t.op = "let" /\ n = 2 -> <<<<at, 1>>>>
                    [] t.op = "join" /\ n = 4 -> <<<<at, 1>>>>
                    [] t.op = "pair" /\ n = 3 -> <<<<at, 1>>, <<at, 2>>>>
                    [] OTHER -> << >>
    IN IF t.op = "bound" THEN {<<t.arg, bindings>>}
       ELSE UNION {Uses(t.kids[n], Append(at, n), new(n) \o bindings) : n \in DOMAIN t.kids}

Emittable(t) == \A use \in Uses(t, << >>, << >>) : use[1] + 1 \in DOMAIN use[2]

(* Every operation gets operands of the types it is written for. *)
Operands(t) ==
    CASE t.op = "select" -> <<"boolean", "word", "word">>
      [] t.op = "join" -> <<"boolean", "word", "word", "word">>
      [] t.op = "andalso" -> <<"boolean", "boolean">>
      [] t.op = "not" -> <<"boolean">>
      [] t.op = "nth" -> <<"word", "array">>
      [] t.op = "set" -> <<"word", "array", "word">>
      [] t.op = "sublist" -> <<"array", "word", "word">>
      [] t.op = "slice" -> <<"array", "word">>
      [] t.op = "call" -> <<"word", "word", "array">>
      [] OTHER -> [n \in DOMAIN t.kids |-> "word"]

RECURSIVE WellTyped(_)
WellTyped(t) ==
    \A n \in DOMAIN t.kids : NodeType(t.kids[n])[1] = Operands(t)[n] /\ WellTyped(t.kids[n])

(* Evaluation of a total program cannot fail: what hls_lists and the       *)
(* clauses of the source would refuse does not occur.                      *)
RECURSIVE CannotFail(_)
CannotFail(t) ==
    LET index(i, a) == i.op = "const" /\ i.arg \in 1 .. ArraySize(a)
        slice(a, s, n) == s.op = "const" /\ s.arg >= 1 /\ n >= 0 /\ s.arg + n <= ArraySize(a) + 1
    IN /\ \A n \in DOMAIN t.kids : CannotFail(t.kids[n])
       /\ t.op \notin {"partial", "match"} /\ (t.op \in {"binary", "if"} => t.arg = Safe)
       /\ t.op \in {"nth", "set"} => index(t.kids[1], t.kids[2])
       /\ t.op = "sublist" => t.kids[3].op = "const" /\ slice(t.kids[1], t.kids[2], t.kids[3].arg)
       /\ t.op = "slice" => slice(t.kids[1], t.kids[2], t.arg)

(* A generated tree is legal source and, if total, never fails; so is      *)
(* every reduction of it, which also keeps its type.                       *)
CasesSound(t, calls, total) ==
    /\ Valid(t, 0, calls) /\ WellTyped(t) /\ Emittable(t)
    /\ total => CannotFail(t)
    /\ LET smaller == TreeReductions(t, calls) IN \A n \in DOMAIN smaller : LET small == smaller[n] IN
         /\ WellTyped(small) /\ Emittable(small)
         /\ NodeType(small) = NodeType(t)
=============================================================================
