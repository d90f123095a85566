---------------------------- MODULE MCShadowIndex ----------------------------
(***************************************************************************)
(* Small values for the runs of ShadowIndex.  The application indexes        *)
(* "papers" only: with one field, then with two; or as in the README, with a  *)
(* text field that is not a scalar field.                                   *)
(***************************************************************************)
EXTENDS ShadowIndex, TLC

Def(fields, text) == [fields |-> fields, text |-> text]
OnPapers(defs) == [c \in Colls |-> IF c = "papers" THEN defs ELSE {}]

Evolving == OnPapers({Def({"title"}, {"title"}), Def({"year", "title"}, {"title"})})
ReadmeDef == OnPapers({Def({"year"}, {"title"})})
AllOrNone == {{}, Fields}
AnyId == Permutations(Ids)
=============================================================================
