------------------------------ MODULE MCCclEval ------------------------------
(***************************************************************************)
(* Small ccl modules for CclEval.                                          *)
(***************************************************************************)
EXTENDS CclEval, TLC

OrderedNames == <<"", "a", "aa", "b", "c", "d", "e", "k", "lib", "m", "z">>

One == Lit(Number(1))
Two == Lit(Number(2))
Six == Lit(Number(6))
Name(n) == [is |-> "name", path |-> <<n>>]
Of(n, k) == [is |-> "name", path |-> <<n, k>>]
Ops(items, ops) == [is |-> "ops", items |-> items, ops |-> ops]
Elements(items) == [is |-> "array", items |-> items]
Dict(bindings) == [is |-> "dict", bindings |-> bindings]
Expansion(n, bindings) == [is |-> "expand", path |-> <<n>>, bindings |-> bindings]
Bindings(f) == [p \in {<<n>> : n \in DOMAIN f} |-> f[p[1]]]
Module(bindings) == [bindings |-> bindings, imports |-> Nothing]

\* Three names that refer to each other, around in circles too.
Flat ==
    LET exprs == {One, Name("a"), Name("b"), Name("c"), Name("lib"),
                  Elements(<<Name("b"), Two>>), Ops(<<Name("c"), One>>, <<"+">>),
                  Ops(<<Name("b"), Name("c")>>, <<"||">>)}
    IN  {Module(Bindings(f)) : f \in [{"a", "b", "c"} -> exprs]}

Numbers == <<Lit(Number(16)), Lit(Number(4)), Two, Two>>
\* Operators of every precedence in every order, around numbers and Booleans.
Operators ==
    {Module(Bindings("a" :> Ops(SubSeq(Numbers, 1, Len(ops) + 1), ops)
                     @@ "b" :> Two)) :
        ops \in UNION {[1 .. n -> {"*", "/", "+", "-", "||"}] : n \in 1 .. 3}}
    \cup
    {Module(Bindings("a" :> Ops([i \in 1 .. Len(ops) + 1 |-> Lit(Bool(bs[i]))], ops)
                     @@ "b" :> Ops(<<Lit(Text("x")), Lit(Text("y"))>>, <<"+">>))) :
        ops \in [1 .. 2 -> {"&&", "||"}], bs \in [1 .. 3 -> BOOLEAN]}

\* What is expanded twice is overridden at different names: of two overrides
\* of one name the evaluator takes the older.
OverriddenOnce(base, o1, o2) ==
    base = "a" => {p \in DOMAIN o1 \cap DOMAIN o2 : Len(p) = 1} = {}

\* A dictionary with values that read each other, what it reads around it, an
\* expansion of it, an expansion of that or of it, and reads of them.
Expansions ==
    LET inner == {One, Name("c"), Dict(Bindings("m" :> Name("c")))}
        reader == {Name("k"), Elements(<<Name("k"), Name("c")>>),
                   Ops(<<Name("k"), Name("c")>>, <<"||">>), Name("nowhere")}
        over == {Bindings("k" :> Two), Bindings("k" :> Name("c")), Bindings("m" :> Two),
                 Bindings("k" :> Six @@ "z" :> One)}
        expanded == {x \in {"a", "b"} \X over \X over : OverriddenOnce(x[1], x[2], x[3])}
    IN  {Module(Bindings("a" :> Expansion("b", x[2]) @@ "aa" :> Expansion(x[1], x[3])
                         @@ "b" :> Dict(Bindings("k" :> k @@ "m" :> m)) @@ "c" :> Six
                         @@ "d" :> Of("a", "m") @@ "e" :> Of("b", "m"))) :
            x \in expanded, k \in inner, m \in reader}

\* Expansions that override deep in a dictionary.
DeepExpansions ==
    LET over == {<<"k", "m">> :> Two, <<"k", "m">> :> Name("c"),
                 (<<"k", "d">> :> Two) @@ (<<"m">> :> One)}
        expanded == {x \in {"a", "b"} \X over \X over : OverriddenOnce(x[1], x[2], x[3])}
    IN  {Module(Bindings("a" :> Expansion("b", x[2]) @@ "aa" :> Expansion(x[1], x[3])
                         @@ "b" :> Dict(Bindings("k" :> Dict(Bindings("m" :> One @@ "d" :> d))
                                                 @@ "m" :> Name("c")))
                         @@ "c" :> Six)) :
            x \in expanded, d \in {Name("m"), Name("c")}}

\* A dictionary whose names read each other in chains of one or two reads, with
\* expansions of it that come before and after the dictionary is evaluated.
Chains ==
    LET over == {Bindings("k" :> Two), Bindings("m" :> Two), Bindings("lib" :> One),
                 Bindings("k" :> Name("c"))}
        reader == {Name("k"), Elements(<<Name("k"), Name("c")>>)}
    IN  {Module(Bindings("a" :> Expansion("b", o) @@ "b" :> Dict(Bindings("k" :> k @@ "m" :> m @@ "lib" :> lib))
                         @@ "c" :> Six @@ "d" :> Of("b", "lib") @@ "e" :> Of("a", "lib")
                         @@ "z" :> Expansion("b", p))) :
            o \in over, p \in over, k \in {One, Name("c")}, m \in reader,
            lib \in {Name("m"), Name("k"), Six}}

\* What a module imports: by name, as a whole, from nowhere.
Library ==
    Module(Bindings("b" :> Dict(Bindings("k" :> Name("c") @@ "m" :> Name("k"))) @@ "c" :> Two))
OneValue == Module(Bindings("" :> Name("c") @@ "c" :> Two))
Importing ==
    {[bindings |-> Bindings("a" :> Expansion("b", Bindings("k" :> k)) @@ "c" :> One @@ "d" :> d),
      imports |-> [n \in {"b", "lib"} |->
                      IF n = "b" THEN [from |-> direct, aliased |-> FALSE]
                      ELSE [from |-> whole, aliased |-> TRUE]]] :
        k \in {Six, Name("c")}, d \in {Name("lib"), Of("lib", "c"), Of("b", "m")},
        direct \in {"library", "nowhere"}, whole \in {"library", "value", "nowhere"}}

MCImports == [library |-> Library, value |-> OneValue]
MCModules == Flat \cup Operators \cup Expansions \cup DeepExpansions \cup Chains \cup Importing
MCSpecifiers == {<<"">>, <<"a">>, <<"aa">>, <<"b">>, <<"d">>, <<"z">>, <<"a", "m">>}
=============================================================================
