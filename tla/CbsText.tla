------------------------------- MODULE CbsText -------------------------------
(***************************************************************************)
(* Operators on the texts cbs takes apart: labels, target names, package   *)
(* names and the entries of string lists.  Each stands for a method of     *)
(* Rust's str or Path.                                                     *)
(***************************************************************************)
EXTENDS Integers, Sequences, SequencesExt, FiniteSetsExt, FiniteSets

CONSTANT None   \* the code's Option::None

At(text, i) == SubSeq(text, i, i)
Positions(text, char) == {i \in 1 .. Len(text) : At(text, i) = char}
StartsWith(text, prefix) ==
  Len(text) >= Len(prefix) /\ SubSeq(text, 1, Len(prefix)) = prefix
EndsWith(text, suffix) ==
  Len(text) >= Len(suffix) /\ SubSeq(text, Len(text) - Len(suffix) + 1, Len(text)) = suffix
After(text, i) == SubSeq(text, i + 1, Len(text))
Before(text, i) == SubSeq(text, 1, i - 1)
Joined(texts) == FoldLeft(LAMBDA all, text : all \o text, "", texts)
Replace(text, chars, by) ==
  Joined([i \in 1 .. Len(text) |-> IF At(text, i) \in chars THEN by ELSE At(text, i)])

\* str::split: the parts between the separators, one more than there are.
Pieces(text, ends) ==
  [i \in DOMAIN ends |-> SubSeq(text, IF i = 1 THEN 1 ELSE ends[i - 1] + 1, ends[i] - 1)]
Split(text, char) ==
  Pieces(text, Append(SelectSeq([i \in 1 .. Len(text) |-> i], LAMBDA i : At(text, i) = char),
                      Len(text) + 1))

\* str::split_once and rsplit_once; None without the separator.
SplitAt(text, i) == <<Before(text, i), After(text, i)>>
SplitOnce(text, char) ==
  LET at == Positions(text, char) IN IF at = {} THEN None ELSE SplitAt(text, Min(at))
RSplitOnce(text, char) ==
  LET at == Positions(text, char) IN IF at = {} THEN None ELSE SplitAt(text, Max(at))

\* str::trim_matches.
Trim(text, char) ==
  LET kept == (1 .. Len(text)) \ Positions(text, char)
  IN  IF kept = {} THEN "" ELSE SubSeq(text, Min(kept), Max(kept))

\* What a map answers, None where it has no such key.
Lookup(map, key) == IF key \in DOMAIN map THEN map[key] ELSE None
Or(value, otherwise) == IF value = None THEN otherwise ELSE value

\* The order of texts, by their characters.
Characters == "-./0123456789:@_abcdefghijklmnopqrstuvwxyz"
Ranks == [char \in {At(Characters, i) : i \in 1 .. Len(Characters)} |-> Min(Positions(Characters, char))]
RankIn(ranks, char) == IF char \in DOMAIN ranks THEN ranks[char] ELSE 0
Rank(char) == RankIn(Ranks, char)
LessAt(a, b, differ) ==
  IF differ = {} THEN Len(a) < Len(b) ELSE Rank(At(a, Min(differ))) < Rank(At(b, Min(differ)))
TextLess(a, b) == LessAt(a, b, {i \in 1 .. Min({Len(a), Len(b)}) : At(a, i) # At(b, i)})

\* A set in some order, and in the order of the texts.
Listed(set) == FoldSet(LAMBDA x, list : Append(list, x), <<>>, set)
Sorted(texts) == SortSeq(Listed(texts), TextLess)

\* The members of a sequence, each where it is first.
Pick(seq, places) == [k \in DOMAIN places |-> seq[places[k]]]
Distinct(seq) ==
  Pick(seq, SelectSeq([i \in DOMAIN seq |-> i], LAMBDA i : \A k \in 1 .. (i - 1) : seq[k] # seq[i]))
=============================================================================
