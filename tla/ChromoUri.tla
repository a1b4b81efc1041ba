----------------------------- MODULE ChromoUri ------------------------------
(***************************************************************************)
(* How a chromo takes the uri of its file apart (src/src/chromo.cpp):      *)
(* Chromo::GetPath and GetFrag, which ChromoMdlX::Set calls with the text  *)
(* that a Uri could parse too.                                             *)
(***************************************************************************)
EXTENDS Uri

\* Slip: the path goes on into the fragment.
GetPath_ToEnd(u) == Substr(u, FindFirstOf(u, {":"}, 0) + 1, npos)

\* Chromo::GetPath.  When the first ':' is behind the '#' the number of
\* characters wraps, and they are taken up to the end.  A text that starts
\* with an authority leaves the path as it was, which is empty.
GetPath(u) ==
  LET hier_beg == FindFirstOf(u, {":"}, 0) + 1
      frag_beg == FindFirstOf(u, {"#"}, 0)
      theHier  == Substr(u, hier_beg, IF frag_beg < hier_beg THEN npos ELSE frag_beg)
  IN  IF IsPrefix(<<"/", "/">>, theHier) THEN << >> ELSE theHier

\* Chromo::GetFrag.
GetFrag(u) ==
  LET frag_beg == FindFirstOf(u, {"#"}, 0)
  IN  IF frag_beg = npos THEN << >> ELSE Substr(u, frag_beg + 1, npos)

-----------------------------------------------------------------------------

\* Scheme, path and fragment are the whole text, and no part of it is taken
\* twice, exactly if there is no authority and the first ':' is not in the
\* fragment; in that case the file that is read is named by the fragment.
PathAndFrag ==
  LET colon  == FindFirstOf(iUri, {":"}, 0)
      hash   == FindFirstOf(iUri, {"#"}, 0)
      scheme == SubSeq(iUri, 1, colon + 1)
      frag   == IF hash = npos THEN << >> ELSE <<"#">> \o GetFrag(iUri)
      late   == hash # npos /\ colon > hash
  IN  /\ iUri = scheme \o GetPath(iUri) \o frag
           <=> ~late /\ ~IsPrefix(<<"/", "/">>, Substr(iUri, colon + 1, npos))
      /\ late => IsSuffix(GetPath(iUri), GetFrag(iUri))

=============================================================================
