-------------------------- MODULE MCShapePatching --------------------------
(* Two meshes, one of two shapes that share a texture set or not, one of a *)
(* single shape.  A surface "n" has height maps of two mods, complex       *)
(* materials, one of them stretched, and a JSON; "d2" has a height map and *)
(* a complex material that belong to no mod; "gone" is missing.            *)
EXTENDS ShapePatching

MCFiles == {"d", "n", "p", "q", "m", "wide", "d2", "p2", "m2", "cube", "r", "x_d", "x_n", "x_r",
            "h_n", "h_f", "tga"}
of(pairs, default) ==
  [t \in MCFiles \cup {"gone"} |-> IF \E p \in pairs : p[1] = t
                                   THEN (CHOOSE p \in pairs : p[1] = t)[2] ELSE default]

MCHeightMaps == of({<<"n", {"p", "q"}>>, <<"d", {"p"}>>, <<"d2", {"p2"}>>}, {})
MCCMs        == of({<<"n", {"m", "wide"}>>, <<"d2", {"m2"}>>}, {})
MCFlowMaps   == of({<<"h_n", {"h_f"}>>}, {})
MCAspect     == [t \in MCFiles |-> IF t = "wide" THEN 2 ELSE 1]
MCCMOutput   == [t \in {"p", "q", "p2"} |->
                   CASE t = "p" -> "p_m" [] t = "q" -> "q_m" [] t = "p2" -> "p2_m"]
MCSSSOutput  == [t \in MCFiles \cup {"gone", "dyn", "p_m", "q_m", "p2_m", "d_s", "t_s"} |->
                   IF t = "d" THEN "d_s" ELSE "t_s"]
MCDDS        == DOMAIN MCSSSOutput \ {"tga"}
MCModOf ==
  [t \in MCFiles \cup {"j", "k", "p_m", "q_m", "p2_m", "d_s", "t_s"} |->
     IF t \in {"p", "m", "wide", "k"} THEN "A" ELSE IF t \in {"q", "j"} THEN "B" ELSE "none"]
MCRank ==
  LET order == <<"cube", "d", "d2", "d_s", "h_f", "h_n", "j", "k", "p", "p_m", "m", "m2", "n",
                 "p2", "p2_m", "q", "q_m", "r", "t_s", "tga", "wide", "x_d", "x_n", "x_r">>
  IN  [t \in ToSet(order) |-> CHOOSE i \in DOMAIN order : order[i] = t]

entry(json, slot, texture, does, sets) ==
  [json |-> json, slot |-> slot, texture |-> texture, does |-> does, slots |-> sets]
xSet == [s \in {"diffuse", "normal", "cubemap", "envmask", "multilayer", "backlight"} |->
           CASE s = "diffuse" -> "x_d" [] s = "normal" -> "x_n" [] s = "envmask" -> "x_r"
             [] OTHER -> "none"]
MCEntries ==
  <<entry("j", "normal", "n", {"pbr"}, xSet),
    entry("j", "diffuse", "d", {"pbr", "fuzz"}, xSet),
    entry("k", "diffuse", "d2", {"pbr"}, [xSet EXCEPT !["envmask"] = "gone"]),
    entry("k", "glow", "d", {"env_mapping"}, [s \in {} |-> ""]),
    entry("k", "glow", "d2", {"delete"}, [s \in {} |-> ""])>>

all == {"parallax", "complexMaterial", "truePBR", "parallaxToCM", "restore", "fixSSS", "hairFlowMap"}
MCOptionSets == {all, (all \ {"truePBR", "hairFlowMap"}) \cup {"disableDynCubemap"},
                 (all \ {"truePBR"}) \cup {"forceAlwaysCM"}}

set(pairs) == [s \in Slots |-> IF \E p \in pairs : p[1] = s
                               THEN (CHOOSE p \in pairs : p[1] = s)[2] ELSE "none"]
Plain   == set({<<"diffuse", "d">>, <<"normal", "n">>})
Glowing == set({<<"diffuse", "d">>, <<"normal", "gone">>, <<"glow", "d">>})
Heights == set({<<"diffuse", "d2">>, <<"normal", "gone">>, <<"parallax", "gone">>})
Masked  == set({<<"diffuse", "d">>, <<"normal", "n">>, <<"cubemap", "gone">>})
Shiny   == set({<<"diffuse", "x_d">>, <<"cubemap", "cube">>, <<"envmask", "gone">>})
Waiting == set({<<"diffuse", "x_d">>, <<"cubemap", "cube">>, <<"envmask", "p_m">>})
Doomed  == set({<<"diffuse", "d">>, <<"glow", "d2">>})
Rough   == set({<<"diffuse", "x_d">>, <<"envmask", "r">>})
Lost    == set({<<"diffuse", "gone">>, <<"glow", "gone">>})
Targa   == set({<<"diffuse", "tga">>, <<"glow", "tga">>})
Hair    == set({<<"diffuse", "x_d">>, <<"normal", "h_n">>})

shape(type, flags, rigid, block) ==
  [type |-> type, flags |-> flags, rigid |-> rigid, ignored |-> FALSE, deleted |-> FALSE,
   block |-> block]
rock    == shape("DEFAULT", {}, TRUE, 1)
skinned == shape("DEFAULT", {"SOFT_LIGHTING"}, FALSE, 1)
bumpy   == shape("PARALLAX", {"PARALLAX"}, TRUE, 1)
mirror  == shape("ENVMAP", {"ENVIRONMENT_MAPPING"}, TRUE, 1)
hair    == shape("HAIRTINT", {}, FALSE, 1)
at(s, b) == [s EXCEPT !.block = b]

use(grass, single) == [grass |-> grass, singlepassMATO |-> single]
none == [i \in {} |-> Plain]
mesh(shs, bls, alt, u) == [shapes |-> shs, blocks |-> bls, alternate |-> alt, use |-> u]

\* The mesh of two shapes, then that of one.
pairsOfShapes == {<<rock, rock>>, <<rock, skinned>>, <<skinned, mirror>>, <<mirror, bumpy>>,
                  <<[rock EXCEPT !.ignored = TRUE], bumpy>>}
Firsts ==
  {mesh(shs, <<b>>, none, use(FALSE, FALSE)) : shs \in pairsOfShapes,
     b \in {Plain, Glowing, Heights, Masked, Doomed}}
  \cup {mesh(<<rock, mirror, rock>>, <<Plain>>, (2 :> Masked), use(FALSE, FALSE)),
        mesh(<<at(mirror, 2), rock, rock>>, <<Plain, Waiting>>, none, use(FALSE, FALSE)),
        mesh(<<skinned, mirror>>, <<Lost>>, none, use(FALSE, FALSE)),
        mesh(<<skinned, mirror>>, <<Targa>>, none, use(FALSE, FALSE)),
        mesh(<<hair, at(bumpy, 2)>>, <<Hair, Rough>>, none, use(FALSE, FALSE)),
        mesh(<<rock, mirror>>, <<Masked>>, none, use(FALSE, TRUE)),
        mesh(<<skinned, bumpy>>, <<Plain>>, none, use(TRUE, FALSE))}
Seconds ==
  {mesh(<<rock>>, <<Plain>>, none, use(FALSE, FALSE)),
   mesh(<<mirror>>, <<Shiny>>, none, use(FALSE, FALSE)),
   mesh(<<mirror>>, <<Waiting>>, none, use(FALSE, FALSE)),
   mesh(<<skinned>>, <<Plain>>, none, use(FALSE, FALSE))}
MCSetups == {[n \in {"a", "b"} |-> IF n = "a" THEN f ELSE s] : f \in Firsts, s \in Seconds}
=============================================================================
