--------------------------- MODULE MCPluginOutput ---------------------------
(* A static with a mesh of two alternate textures, an armor addon with a   *)
(* weighted mesh and a plain one, and a record that cannot be copied.  The *)
(* records of the two mods do not fit one plugin.  Four FormIDs, from 2,   *)
(* run out.                                                                *)
EXTENDS PluginOutput

pick(pairs, default, dom) ==
  [x \in dom |-> IF \E p \in pairs : p[1] = x THEN (CHOOSE p \in pairs : p[1] = x)[2]
                 ELSE default]

MCLoadOrder     == <<"game", "modA", "modB">>
MCPluginMasters == pick({<<"modA", {"game"}>>, <<"modB", {"game", "modA"}>>}, {},
                        {"game", "modA", "modB"})
all == {"game", "modA", "modB"}
MCInstalls == {[there |-> all, readable |-> all],
               [there |-> {"game", "modB"}, readable |-> all],
               [there |-> all, readable |-> {"game", "modB"}]}
MCPluginOf  == [r \in {"stat", "arma", "bad"} |-> IF r = "stat" THEN "modA" ELSE "game"]
\* For the limit on masters: each record of another plugin, and all are copied.
MCThreeOwners == [r \in {"stat", "arma", "bad"} |->
                    CASE r = "stat" -> "modA" [] r = "bad" -> "modB" [] OTHER -> "game"]
MCMastersOf == [r \in {"stat", "arma", "bad"} |-> {"game"}]
MCRecordOf  == [m \in {"st", "w", "p", "b"} |->
                  CASE m = "st" -> "stat" [] m = "b" -> "bad" [] OTHER -> "arma"]
MCMeshOf    == [m \in {"st", "w", "p", "b"} |->
                  CASE m = "w" -> "arm_0" [] m = "p" -> "plain" [] OTHER -> "rock"]
MCVariant   == [x \in {"arm_0", "arm_1", "plain", "rock"} |->
                  CASE x = "arm_0" -> "arm_1" [] x = "arm_1" -> "arm_0" [] OTHER -> x]
MCModelOf   == [a \in {"s0", "s1", "w0", "w1", "p0"} |->
                  CASE a \in {"s0", "s1"} -> "st" [] a = "p0" -> "p" [] OTHER -> "w"]
MCSlotOf    == [a \in {"s0", "s1", "w0", "w1", "p0"} |-> IF a \in {"s1", "w1"} THEN 1 ELSE 0]
MCSetOf     == [a \in {"s0", "s1", "w0", "w1", "p0"} |-> IF a = "p0" THEN "none" ELSE "old"]
MCMasterOf  == [a \in {"s0", "s1", "w0", "w1", "p0"} |-> IF a = "s1" THEN "modA" ELSE "game"]

ask(m, f, to, set) == [model |-> m, file |-> f, slots |-> {0, 1},
                       new |-> [s \in {0, 1} |-> to[s + 1]], set |-> [s \in {0, 1} |-> set[s + 1]]]
MCAsks ==
  pick({<<"st", {ask("st", 0, <<0, 1>>, <<"old", "old">>), ask("st", 0, <<1, 0>>, <<"old", "old">>),
                 ask("st", 1, <<-1, 0>>, <<"old", "none">>)}>>,
        <<"w", {ask("w", 1, <<1, 0>>, <<"new", "old">>), ask("w", 0, <<0, 1>>, <<"none", "pbr">>)}>>,
        <<"p", {[ask("p", 2, <<0, 1>>, <<"pbr", "old">>) EXCEPT !.slots = {0}],
                [ask("p", 1, <<0, 1>>, <<"new", "new">>) EXCEPT !.slots = {}]}>>},
       {ask("b", 1, <<0, 1>>, <<"old", "old">>)}, {"st", "w", "p", "b"})
=============================================================================
