---------------------------- MODULE MCAlgorithms ----------------------------
(* Inputs of Algorithms: a small grid with frames smaller than it, as large
   and larger, and days around the epoch, two century years and the campaign. *)
EXTENDS Algorithms

MCWidths == {1, 3, 4, 5, 9}
MCHeights == {1, 2, 3, 7}
\* White, black, a blue below the contrast of a change from black.
MCColours == {<<255, 255, 255>>, <<0, 0, 0>>, <<0, 0, 200>>}

MCAnchors == {<<-1, <<1969, 12, 31>>>>, <<10926, <<1999, 12, 1>>>>,
              <<19723, <<2024, 1, 1>>>>, <<20666, <<2026, 8, 1>>>>,
              <<47451, <<2099, 12, 1>>>>}
=============================================================================
