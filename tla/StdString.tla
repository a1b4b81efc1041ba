----------------------------- MODULE StdString -----------------------------
(***************************************************************************)
(* What the parsers use of std::string.  A text is a sequence of symbols;  *)
(* offsets are the code's: they count from 0, and npos is -1, which under  *)
(* the additions of the parsers behaves like the size_t it stands for.     *)
(***************************************************************************)
EXTENDS Integers, Sequences

npos == -1

\* s.find_first_of(cs, i), for i no larger than the size of s.
FindFirstOf(s, cs, i) ==
  LET found == {j \in i .. Len(s) - 1 : s[j + 1] \in cs}
  IN  IF found = {} THEN npos ELSE CHOOSE j \in found : \A k \in found : j <= k

\* s.substr(i, j - i), where j may be npos.
Substr(s, i, j) == SubSeq(s, i + 1, IF j = npos THEN Len(s) ELSE j)

=============================================================================
