--------------------------- MODULE MCPresentation ---------------------------
(***************************************************************************)
(* Two themes and one font, one icon and one service edit; the drafts are  *)
(* plain, with the uploaded font, and with the icon as a brand image.      *)
(***************************************************************************)
EXTENDS Presentation, TLC

CONSTANTS t1, t2, f1, i1, s1, c1, c2, p1, text1

Draft(font, icon, logo) ==
  [definition |-> [text |-> text1, title |-> Nil, body |-> font],
   brand |-> [role \in BrandRoles |-> IF role = "icon" THEN icon ELSE logo]]

MCDrafts == {Draft(Nil, Keep, Keep), Draft(f1, Keep, i1)}

MCSymmetry == Permutations(Themes) \cup Permutations(CommandIds)

=============================================================================
