------------------------- MODULE MCMeshPermutations -------------------------
(* A mesh of two shapes with its other weight variant, of one shape.  The  *)
(* lists of uses are sorted as getModelUses sorts them: records without    *)
(* alternate textures first, weighted ones before the others.              *)
EXTENDS MeshPermutations

use(key, weighted, ignored, alt) ==
  [key |-> key, weighted |-> weighted, ignored |-> ignored, alt |-> alt]

MCNIFs         == {"x_0", "x_1"}
MCOtherVariant == [n \in MCNIFs |-> IF n = "x_0" THEN "x_1" ELSE "x_0"]
MCShapes       == [n \in MCNIFs |-> IF n = "x_0" THEN 2 ELSE 1]
MCUseLists ==
  [n \in MCNIFs |->
     IF n = "x_0"
     THEN {<<use("a", TRUE, FALSE, {}), use("b", FALSE, FALSE, {1}), use("c", FALSE, TRUE, {1})>>,
           <<use("a", TRUE, FALSE, {}), use("a", TRUE, FALSE, {}), use("b", TRUE, FALSE, {1, 2})>>}
     ELSE {<<use("a", TRUE, FALSE, {})>>,
           <<use("a", TRUE, FALSE, {}), use("b", TRUE, FALSE, {1})>>}]

\* For the disagreements: one mesh of two shapes, every record of which has
\* alternate textures for both.
OneNIF      == {"m"}
OneVariant  == [n \in OneNIF |-> n]
OneShapes   == [n \in OneNIF |-> 2]
OneUseLists == [n \in OneNIF |-> {<<use("a", FALSE, FALSE, {1, 2}), use("b", FALSE, FALSE, {1, 2})>>}]
=============================================================================
