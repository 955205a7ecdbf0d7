------------------------------ MODULE MCCbsBuilds ------------------------------
(***************************************************************************)
(* A library of two sources and a program that uses it, of whose own       *)
(* sources none is edited.  A text may move from one source of the library *)
(* to the other, and its rule may become one of another kind, or get a     *)
(* feature.                                                                *)
(***************************************************************************)
EXTENDS CbsBuilds

CONSTANTS lib, main, f, g
MCSources == [t \in {lib, main} |-> IF t = lib THEN <<f, g>> ELSE <<>>]
MCDependencies == [t \in {lib, main} |-> IF t = lib THEN <<>> ELSE <<lib>>]
MCTexts == {<<>>, <<"a">>}
MCExtras == {<<>>, <<"x">>}
Library == [kind |-> "rust_library", extras |-> <<>>]
Rule(rule) == [t \in {lib, main} |-> IF t = lib THEN rule ELSE [Library EXCEPT !.kind = "rust_binary"]]
MCInitialRules == Rule(Library)
MCWorkspaces ==
  {Rule(Library), Rule([Library EXCEPT !.kind = "rust_binary"]), Rule([Library EXCEPT !.extras = <<"x">>])}
MCInitial == [file \in {f, g} |-> IF file = f THEN <<"a">> ELSE <<>>]
=============================================================================
