------------------------------- MODULE MCUri -------------------------------
(***************************************************************************)
(* Texts for Uri and ChromoUri: all of a few characters, with one letter.  *)
(***************************************************************************)
EXTENDS ChromoUri

CONSTANT MaxLen   \* bound: characters of a text

AllTexts == BoundedSeq(Char, MaxLen)

\* A few uris to be joined to others: relative, absolute, with a trailing
\* separator, with both relations, an error and an empty one.
SomeOthers ==
  {<<".", "/", "a">>, <<"/", "a", ":", "a">>, <<".", ":", "a", ":">>,
   <<".", ".">>, << >>}

NoTexts == {}

=============================================================================
