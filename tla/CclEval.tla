------------------------------- MODULE CclEval -------------------------------
(***************************************************************************)
(* The evaluator of ccl (src/util/ccl/exec.rs, eval.rs): modules of lazily *)
(* evaluated bindings, dictionaries that are scopes of their own,          *)
(* expansions that override what a dictionary binds, and imports.          *)
(*                                                                         *)
(* A name is a string and a path a sequence of names; <<"">> is the value  *)
(* of a module.  Syntax is a record with a field is: lit, name, ops,       *)
(* array, dict, expand.  Bindings are a function from paths to             *)
(* expressions: of several for one path the last counts.  A scope is       *)
(* mutable and shared, so all scopes stand on a heap that every operator   *)
(* takes and returns (heap, with the result).  What the code passes to     *)
(* itself as a depth of calls is counted, and MaxDepth is its stack.       *)
(***************************************************************************)
EXTENDS Integers, Sequences, SequencesExt, FiniteSets

CONSTANTS
    Names,      \* all names, in their order
    Modules,    \* the modules cclc is asked to evaluate
    Imports,    \* from what stands after "from" to the module it resolves to
    Specifiers, \* the paths it is asked for
    MaxDepth,   \* bound: nested evaluations until the stack overflows
    None

ASSUME CclAssumption == MaxDepth \in Nat

-----------------------------------------------------------------------------
(* Values, scopes and results. *)

Lit(value) == [is |-> "lit", value |-> value]
Number(n) == [is |-> "number", v |-> n]
Text(s) == [is |-> "string", v |-> s]
Bool(b) == [is |-> "bool", v |-> b]
Null == [is |-> "null", v |-> None]
Array(items) == [is |-> "array", v |-> items]
Dictionary(kv) == [is |-> "dictionary", v |-> kv]
ScopeAt(id) == [is |-> "scope", v |-> id]

\* CannotResolveSymbol is the one error the evaluator takes for an answer.
Error(why) == [is |-> "error", v |-> why]
Unresolved == Error("cannot resolve symbol")
WrongType == Error("operator with invalid type")
NoImport == Error("import resolution")
Overflow == Error("stack overflow")

IsError(r) == r.is = "error"
IsThe(error, r) == IsError(r) /\ r.v = error.v
Gives(heap, r) == [heap |-> heap, r |-> r]

With(f, k, v) == [x \in DOMAIN f \cup {k} |-> IF x = k THEN v ELSE f[x]]
Nothing == [x \in {} |-> None]

EmptyScope ==
    [progress |-> {}, resolved |-> Nothing, own |-> Nothing, imports |-> Nothing,
     parent |-> None, overrides |-> <<>>, deep |-> Nothing]

\* add_deep_overrides
AddDeep(scope, name, new) ==
    LET old == IF name \in DOMAIN scope.deep THEN scope.deep[name] ELSE Nothing
    IN  [scope EXCEPT !.deep = With(@, name,
            [k \in DOMAIN old \cup DOMAIN new |->
                IF k \in DOMAIN new THEN new[k] ELSE old[k]])]

\* A binding of a path of several names overrides deep in the first of them.
Deep(bindings, id) ==
    LET paths == {p \in DOMAIN bindings : Len(p) > 1}
    IN  [name \in {Head(p) : p \in paths} |->
            [rest \in {Tail(p) : p \in {q \in paths : Head(q) = name}} |->
                [scope |-> id, expr |-> bindings[<<name>> \o rest]]]]
Own(bindings) ==
    LET names == {Head(p) : p \in {q \in DOMAIN bindings : Len(q) = 1}}
    IN  [name \in names |-> bindings[<<name>>]]

\* from_dictionary, from_module
FromDictionary(bindings, parent, id) ==
    [EmptyScope EXCEPT !.own = Own(bindings), !.deep = Deep(bindings, id),
                       !.parent = parent]
FromModule(module, id) ==
    [FromDictionary(module.bindings, None, id) EXCEPT !.imports = module.imports]

-----------------------------------------------------------------------------
(* Operators. *)

Precedence(op) ==
    CASE op \in {"*", "/"} -> 5 [] op \in {"+", "-"} -> 4 [] op = "&&" -> 3 [] op = "||" -> 2

\* Mutant: of two operators of one precedence the last one first.
LastToResolve(ops, done) ==
    CHOOSE i \in DOMAIN ops \ done : \A j \in DOMAIN ops \ done :
        Precedence(ops[j]) < Precedence(ops[i])
            \/ (Precedence(ops[j]) = Precedence(ops[i]) /\ j <= i)
OperatorToResolve(ops, done) ==
    CHOOSE i \in DOMAIN ops \ done : \A j \in DOMAIN ops \ done :
        Precedence(ops[j]) < Precedence(ops[i])
            \/ (Precedence(ops[j]) = Precedence(ops[i]) /\ j >= i)

\* One more node of the tree: in[v] is the node that takes in the value v.
TermAt(at, v) ==
    IF at.in[v] = None THEN [is |-> "value", at |-> v] ELSE [is |-> "tree", at |-> at.in[v]]
AddNode(ops, at) ==
    LET i == OperatorToResolve(ops, at.done)
        node == Len(at.tree) + 1
        taken == {at.in[i], at.in[i + 1]} \ {None}
    IN  [done |-> at.done \cup {i},
         in |-> [v \in DOMAIN at.in |->
                    IF v \in {i, i + 1} \/ at.in[v] \in taken THEN node ELSE at.in[v]],
         tree |-> Append(at.tree, [left |-> TermAt(at, i), op |-> ops[i],
                                   right |-> TermAt(at, i + 1)])]
TreeOf(ops) ==
    FoldLeft(LAMBDA at, op : AddNode(ops, at),
             [done |-> {}, in |-> [v \in 1 .. Len(ops) + 1 |-> None], tree |-> <<>>], ops).tree

AsBool(r) ==
    CASE r.is = "bool" -> r.v [] r.is = "null" -> FALSE
      [] r.is = "string" -> r.v # "" [] r.is = "number" -> r.v # 0 [] OTHER -> None

\* Division is exact for the numbers that are divided here.
Arithmetic(op, l, r) ==
    CASE op = "+" -> Number(l + r) [] op = "-" -> Number(l - r) [] op = "*" -> Number(l * r)
      [] op = "/" -> IF r = 0 THEN WrongType ELSE Number(l \div r)

Apply(op, l, r) ==
    IF op = "||"
    THEN IF AsBool(l) = None \/ AsBool(r) = None THEN WrongType
         ELSE IF AsBool(l) THEN l ELSE r
    ELSE IF op = "&&"
    THEN IF l.is = "bool" /\ r.is = "bool" THEN Bool(l.v /\ r.v) ELSE WrongType
    ELSE IF l.is = "number" /\ r.is = "number" THEN Arithmetic(op, l.v, r.v)
    ELSE IF op = "+" /\ l.is = "string" /\ r.is = "string" THEN Text(l.v \o r.v)
    ELSE WrongType

-----------------------------------------------------------------------------
(* get_dependencies, in order *)

RECURSIVE Dependencies(_)
Dependencies(e) ==
    CASE e.is = "name" -> <<e.path>>
      [] e.is = "expand" -> <<e.path>>
      [] e.is \in {"array", "ops"} ->
            FlattenSeq([i \in DOMAIN e.items |-> Dependencies(e.items[i])])
      [] OTHER -> <<>>

InOrder(names) == SelectSeq(Names, LAMBDA n : n \in names)

\* keys: what a dictionary binds, and what its expansions bind
RECURSIVE Keys(_, _)
Keys(heap, s) ==
    DOMAIN heap[s].own
        \cup UNION {Keys(heap, heap[s].overrides[i]) : i \in DOMAIN heap[s].overrides}

Begin(heap, s, name) == [heap EXCEPT ![s].progress = @ \cup {name}]
Finish(heap, s, name) == [heap EXCEPT ![s].progress = @ \ {name}]
Remember(heap, s, path, r) ==
    IF Len(path) = 1 THEN [heap EXCEPT ![s].resolved = With(@, path[1], r)] ELSE heap

RECURSIVE PartiallyResolve(_, _, _, _), Overridden(_, _, _, _, _), Resolve(_, _, _, _),
          ScopeValue(_, _, _, _, _), EvaluateExpression(_, _, _, _, _),
          ResolveEach(_, _, _, _, _), Evaluate(_, _, _, _, _), EvaluateEach(_, _, _, _, _, _),
          EvaluateTree(_, _, _, _, _, _, _), ResolveKeys(_, _, _, _, _)

\* resolve: the value, with dictionaries evaluated to the last
Resolve(heap, s, path, depth) ==
    LET out == PartiallyResolve(heap, s, path, depth)
    IN  IF out.r.is = "scope" THEN ScopeValue(out.heap, s, path, out.r.v, depth) ELSE out

\* The value of a dictionary: the values of its keys.
ResolveKeys(heap, s, keys, kv, depth) ==
    IF keys = <<>> THEN Gives(heap, Dictionary(kv))
    ELSE LET out == Resolve(heap, s, <<Head(keys)>>, depth)
         IN  IF IsError(out.r) THEN out
             ELSE ResolveKeys(out.heap, s, Tail(keys), With(kv, Head(keys), out.r), depth)

\* resolve_scope_value: what the asking scope overrides deep in a name goes
\* down by one name, into a copy.
Lowered(scope, overrides) ==
    FoldLeft(LAMBDA sc, rest : AddDeep(sc, Head(rest), [t \in {Tail(rest)} |-> overrides[rest]]),
             scope, SetToSeq(DOMAIN overrides \ {<<>>}))
ScopeValue(heap, s, path, t, depth) ==
    IF Len(path) = 1 /\ path[1] \in DOMAIN heap[s].deep
    THEN LET copied == Append(heap, Lowered(heap[t], heap[s].deep[path[1]]))
             id == Len(copied)
         IN  ResolveKeys(copied, id, InOrder(Keys(copied, id)), Nothing, depth - 1)
    ELSE ResolveKeys(heap, t, InOrder(Keys(heap, t)), Nothing, depth - 1)

\* The first override that can be resolved counts; it is evaluated twice, the
\* second time to the last, and skipped if anything in it cannot be resolved.
Overridden(heap, s, name, over, depth) ==
    IF over = <<>> THEN Gives(heap, None)
    ELSE LET out == PartiallyResolve(heap, Head(over), <<name>>, depth)
             whole == Resolve(out.heap, Head(over), <<name>>, depth)
         IN  IF IsThe(Overflow, out.r) THEN out
             ELSE IF IsThe(Overflow, whole.r) THEN whole
             ELSE IF IsThe(Unresolved, whole.r)
             THEN Overridden(whole.heap, s, name, Tail(over), depth)
             ELSE Gives(whole.heap, out.r)

\* What stands in the module that an import names; its scopes are new.
Imported(heap, import, name, depth) ==
    IF import.from \notin DOMAIN Imports THEN Gives(heap, NoImport)
    ELSE LET id == Len(heap) + 1
             new == Append(heap, FromModule(Imports[import.from], id))
         IN  PartiallyResolve(new, id, IF import.aliased THEN <<"">> ELSE <<name>>, depth)

\* Mutant: what a dictionary binds itself counts before what overrides it.
OwnFirst(heap, s, name, depth) ==
    IF name \in DOMAIN heap[s].own THEN Gives(heap, None)
    ELSE Overridden(heap, s, name, heap[s].overrides, depth)
\* Mutant: what is remembered counts before what overrides it.
RememberedFirst(heap, s, name, depth) ==
    IF name \in DOMAIN heap[s].resolved THEN Gives(heap, heap[s].resolved[name])
    ELSE Overridden(heap, s, name, heap[s].overrides, depth)
FromOverrides(heap, s, name, depth) ==
    Overridden(heap, s, name, heap[s].overrides, depth)

\* A name in its own scope, then in the scope around it, then in the imports.
Lookup(heap, s, name, depth) ==
    LET scope == heap[s]
    IN  IF name \in DOMAIN scope.resolved THEN Gives(heap, scope.resolved[name])
        ELSE IF name \in DOMAIN scope.own
        THEN EvaluateExpression(heap, s, name, scope.own[name], depth)
        ELSE IF scope.parent # None THEN PartiallyResolve(heap, scope.parent, <<name>>, depth)
        ELSE IF name = "" THEN ResolveKeys(heap, s, InOrder(Keys(heap, s)), Nothing, depth)
        ELSE IF name \in DOMAIN scope.imports
        THEN Imported(heap, scope.imports[name], name, depth - 1)
        ELSE Gives(heap, Unresolved)

PartiallyResolve(heap, s, path, depth) ==
    IF depth <= 0 THEN Gives(heap, Overflow)
    ELSE IF Len(path) > 1
    THEN LET out == PartiallyResolve(heap, s, <<Head(path)>>, depth)
         IN  IF IsError(out.r) THEN out
             ELSE IF out.r.is # "scope" THEN Gives(out.heap, Unresolved)
             ELSE PartiallyResolve(out.heap, out.r.v, Tail(path), depth)
    ELSE LET name == path[1]
             begun == Begin(heap, s, name)
         IN  IF name \in heap[s].progress THEN Gives(heap, Unresolved)
             ELSE IF name \in DOMAIN heap[s].deep /\ <<>> \in DOMAIN heap[s].deep[name]
             THEN LET over == heap[s].deep[name][<<>>]
                      out == EvaluateExpression(begun, over.scope, name, over.expr, depth)
                  IN  Gives(Finish(out.heap, s, name), out.r)
             ELSE LET out == FromOverrides(begun, s, name, depth)
                      finished == Finish(out.heap, s, name)
                  IN  IF out.r # None THEN Gives(finished, out.r)
                      ELSE Lookup(finished, s, name, depth)

\* The dependencies of an expression, remembered in the scope.  An error
\* leaves the name in progress.
ResolveEach(heap, s, paths, known, depth) ==
    IF paths = <<>> THEN Gives(heap, [is |-> "known", v |-> known])
    ELSE LET out == PartiallyResolve(heap, s, Head(paths), depth)
         IN  IF IsError(out.r) THEN out
             ELSE ResolveEach(Remember(out.heap, s, Head(paths), out.r), s, Tail(paths),
                              With(known, Head(paths), out.r), depth)

\* Mutant: the name is not marked while its dependencies are resolved.
Unmarked(heap, s, name) == heap
Marked(heap, s, name) == Begin(heap, s, name)

EvaluateExpression(heap, s, name, e, depth) ==
    LET deps == ResolveEach(Marked(heap, s, name), s, Dependencies(e), Nothing, depth - 1)
    IN  IF IsError(deps.r) THEN deps
        ELSE Evaluate(Finish(deps.heap, s, name), s, e, deps.r.v, depth - 1)

\* The elements of an array: dictionaries in it are evaluated to the last.
EvaluateEach(heap, s, items, known, values, depth) ==
    IF items = <<>> THEN Gives(heap, Array(values))
    ELSE LET out == Evaluate(heap, s, Head(items), known, depth)
             whole == IF out.r.is = "scope" THEN ScopeValue(out.heap, s, <<"">>, out.r.v, depth)
                      ELSE out
         IN  IF IsError(whole.r) THEN whole
             ELSE EvaluateEach(whole.heap, s, Tail(items), known, Append(values, whole.r), depth)

EvaluateTree(heap, s, tree, term, items, known, depth) ==
    IF term.is = "value" THEN Evaluate(heap, s, items[term.at], known, depth)
    ELSE LET node == tree[term.at]
             l == EvaluateTree(heap, s, tree, node.left, items, known, depth)
             r == EvaluateTree(l.heap, s, tree, node.right, items, known, depth)
         IN  IF IsError(l.r) THEN l
             ELSE IF IsError(r.r) THEN r
             ELSE Gives(r.heap, Apply(node.op, l.r, r.r))

\* evaluate_expansion: a copy of the dictionary, with one override more
Expand(heap, s, bindings, original) ==
    LET over == Len(heap) + 1
        scope == FromDictionary(bindings, s, over)
        names == SetToSeq(DOMAIN scope.deep)
        copy == FoldLeft(LAMBDA sc, n : AddDeep(sc, n, scope.deep[n]), heap[original], names)
    IN  Gives(Append(Append(heap, scope), [copy EXCEPT !.overrides = Append(@, over)]),
              ScopeAt(over + 1))

Evaluate(heap, s, e, known, depth) ==
    CASE e.is = "lit" -> Gives(heap, e.value)
      [] e.is = "name" -> Gives(heap, known[e.path])
      [] e.is = "dict" ->
            LET id == Len(heap) + 1
            IN  Gives(Append(heap, FromDictionary(e.bindings, s, id)), ScopeAt(id))
      [] e.is = "array" -> EvaluateEach(heap, s, e.items, known, <<>>, depth)
      [] e.is = "ops" ->
            LET tree == TreeOf(e.ops)
            IN  EvaluateTree(heap, s, tree, [is |-> "tree", at |-> Len(tree)], e.items, known, depth)
      [] e.is = "expand" ->
            IF known[e.path].is = "scope" THEN Expand(heap, s, e.bindings, known[e.path].v)
            ELSE Gives(heap, WrongType)

\* exec: a new root for every call
Exec(module, path) == Resolve(<<FromModule(module, 1)>>, 1, path, MaxDepth).r

-----------------------------------------------------------------------------

VARIABLES module, asked, answer

vars == <<module, asked, answer>>

Init == module \in Modules /\ asked = None /\ answer = None

Ask(path) ==
    /\ asked' = path
    /\ answer' = Exec(module, path)
    /\ UNCHANGED module

Next == \E path \in Specifiers : Ask(path)
Spec == Init /\ [][Next]_vars

-----------------------------------------------------------------------------
(* Properties *)

\* All expressions that stand in an expression, itself among them.
RECURSIVE Within(_)
Within(e) ==
    {e} \cup CASE e.is \in {"array", "ops"} -> UNION {Within(e.items[i]) : i \in DOMAIN e.items}
               [] e.is \in {"dict", "expand"} -> UNION {Within(e.bindings[p]) : p \in DOMAIN e.bindings}
               [] OTHER -> {}
Expressions(bindings) == UNION {Within(bindings[p]) : p \in DOMAIN bindings}
Everything ==
    Expressions(module.bindings)
        \cup UNION {Expressions(Imports[from].bindings) : from \in DOMAIN Imports}
Reads(e) == ToSet(FlattenSeq(Dependencies(e)))

\* The names that the expansions of a module bind.
OverriddenNames ==
    UNION {UNION {ToSet(p) : p \in DOMAIN e.bindings} : e \in {x \in Everything : x.is = "expand"}}

\* A dictionary remembers what the names it reads were worth, and a copy of it
\* what it remembers (exec.rs:494).  Overrides of a name count before that, but
\* not those of what the name in turn reads: that is two reads in a chain.
ReadsInChains ==
    \E d \in Everything : /\ d.is = "dict"
                          /\ \E p \in DOMAIN d.bindings :
                                /\ \E e \in Expressions(d.bindings) : p[1] \in Reads(e)
                                /\ Reads(d.bindings[p]) \cap OverriddenNames # {}

\* The names of the module that lead to no expansion.
RECURSIVE LeadsTo(_, _)
LeadsTo(names, bindings) ==
    LET more == names \cup UNION {Reads(e) :
                    e \in Expressions([p \in {q \in DOMAIN bindings : q[1] \in names} |-> bindings[p]])}
    IN  IF more = names THEN names ELSE LeadsTo(more, bindings)
Expands(name) ==
    \E n \in LeadsTo({name}, module.bindings) :
        \/ n \in DOMAIN module.imports
        \/ <<n>> \in DOMAIN module.bindings
            /\ \E e \in Within(module.bindings[<<n>>]) : e.is = "expand"

\* Lazy evaluation: the value of a name does not depend on what else of the
\* module was evaluated, or remembered in its scopes, before it.  Where reads
\* in chains go through a name that is overridden, an expansion shows what its
\* dictionary remembered by then; what leads to no expansion never does.
Whole == Exec(module, <<"">>)
ValuesStandAlone ==
    (/\ asked # None
     /\ Len(asked) = 1
     /\ ~ReadsInChains \/ ~Expands(asked[1])
     /\ Whole.is = "dictionary"
     /\ asked[1] \in DOMAIN Whole.v) => answer = Whole.v[asked[1]]

\* What an expansion stands for: the dictionary written out, with the
\* expansion's bindings in the place of its own.
RECURSIVE Written(_, _)
Written(e, bindings) ==
    IF e.is = "dict" THEN e
    ELSE LET base == Written(bindings[e.path], bindings).bindings
             tops == {p \in DOMAIN base \cup DOMAIN e.bindings : Len(p) = 1}
             within(p) == {q \in DOMAIN e.bindings : Len(q) > 1 /\ <<Head(q)>> = p}
             value(p) == IF p \in DOMAIN e.bindings THEN e.bindings[p] ELSE base[p]
         IN  [is |-> "dict", bindings |-> [p \in tops |->
                 IF within(p) = {} THEN value(p)
                 ELSE Written([is |-> "expand", path |-> p,
                               bindings |-> [q \in {Tail(r) : r \in within(p)} |->
                                                e.bindings[p \o q]]],
                              base)]]

\* An expansion, of a dictionary or of another expansion and down to the
\* dictionaries inside, has the value of the dictionary it stands for:
\* everything in it that reads an overridden name reads the new one.
ExpansionsOverride ==
    asked # None /\ asked \in DOMAIN module.bindings =>
        LET e == module.bindings[asked]
        IN  (e.is = "expand" /\ e.path \in DOMAIN module.bindings) =>
                answer = Exec([module EXCEPT !.bindings[asked] = Written(e, module.bindings)], asked)

\* A cycle of references is reported (exec.rs, "circular dependency when
\* resolving"), never followed until the stack overflows.
CyclesAreReported == answer = None \/ ~IsThe(Overflow, answer)

\* Where the tree of an expression has its root: the last of the operators
\* that bind least; and so on below it.
RECURSIVE Usual(_, _, _)
Usual(ops, first, last) ==
    IF first = last THEN [is |-> "value", at |-> first]
    ELSE LET i == CHOOSE j \in first .. last - 1 : \A k \in first .. last - 1 :
                    Precedence(ops[k]) > Precedence(ops[j])
                        \/ (Precedence(ops[k]) = Precedence(ops[j]) /\ k <= j)
         IN  [left |-> Usual(ops, first, i), op |-> ops[i], right |-> Usual(ops, i + 1, last)]
RECURSIVE Unfolded(_, _)
Unfolded(tree, term) ==
    IF term.is = "value" THEN term
    ELSE LET node == tree[term.at]
         IN  [left |-> Unfolded(tree, node.left), op |-> node.op, right |-> Unfolded(tree, node.right)]

\* The values of an expression are combined by precedence and from the left.
OperatorsBindAsUsual ==
    \A path \in DOMAIN module.bindings :
        LET e == module.bindings[path]
        IN  e.is = "ops" =>
                Unfolded(TreeOf(e.ops), [is |-> "tree", at |-> Len(e.ops)])
                    = Usual(e.ops, 1, Len(e.ops) + 1)

=============================================================================
