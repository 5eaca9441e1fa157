----------------------------- MODULE MCFileMap -----------------------------
(* A load order for FileMap: three archives that share paths, a loose file *)
(* that hides an archived one, a path nothing holds, and an archive that   *)
(* only the INI names and the data directory does not have.                *)
EXTENDS FileMap

MCBSAs    == {"a", "b", "c", "d"}
MCDir     == <<"b", "a", "c">>
MCPlugins == <<"esm", "esp">>
MCBroken  == {"d"}
MCPaths   == {"shared", "hidden", "new"}
MCHeld    == [x \in MCBSAs |-> IF x = "c" THEN {"shared", "hidden"} ELSE {"shared"}]
MCLoose   == {"hidden"}
MCFields  == <<"sResourceArchiveList", "sResourceArchiveList2">>
MCINIs    == <<"Skyrim", "SkyrimCustom">>
MCLists   == {<<>>, <<"a">>, <<"d", "c">>}
=============================================================================
