----------------------------- MODULE MCLauncher -----------------------------
(* Two games, the program in the folder of the second; an instance of Mod  *)
(* Organizer that names the first and one that names only its game; a list *)
(* with an entry twice, and one that becomes so when it is read again,     *)
(* because two entries differ only in their slashes.                       *)
EXTENDS Launcher

CONSTANTS noDir, gameSE, gameVR, instFull, instBare, slashed, se, vr, unknown,
          noEntries, rules, bsas, twice, mixed, opts, otherOpts

MCDirs == {noDir, gameSE, gameVR, instFull, instBare, slashed}
MCValidGames == {<<gameSE, se>>, <<gameVR, vr>>}
MCSteamDir == [g \in {se, vr} |-> IF g = se THEN gameSE ELSE noDir]
MCInstances == {instFull, instBare}
MCInstanceDir == [d \in MCDirs |-> IF d = instFull THEN gameSE ELSE noDir]
MCInstanceGame ==
  [d \in MCDirs |-> CASE d = instFull -> se [] d = instBare -> vr [] OTHER -> unknown]
MCBackslashed == [d \in MCDirs |-> IF d = slashed THEN instFull ELSE d]
MCLists == {noEntries, rules, bsas, twice, mixed}
MCReread == [l \in MCLists |-> IF l = mixed THEN twice ELSE l]

(* No file; one without any field; and three that were saved or edited: for *)
(* one game, with a list nobody can see and an output; for an instance, by  *)
(* a path with other slashes; and with boxes that contradict each other.    *)
Edited(has, val) == [parses |-> TRUE, has |-> has, val |-> val]
Saved == [NewParams EXCEPT !.dir = gameSE, !.out = instBare, !.rules = rules]
MCFirstFiles ==
  {[Edited({}, NewParams) EXCEPT !.parses = FALSE],
   Edited({}, NewParams),
   Edited(Fields, [Saved EXCEPT !.bsas = twice]),
   Edited(Fields, [Saved EXCEPT !.bsas = bsas, !.mm = "mo2", !.inst = slashed]),
   Edited(Fields \ {"rules"}, [Saved EXCEPT !.p2cm = TRUE, !.cm = FALSE, !.trace = TRUE])}
=============================================================================
