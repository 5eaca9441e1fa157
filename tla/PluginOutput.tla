---------------------------- MODULE PluginOutput ----------------------------
(***************************************************************************)
(* PGMutagen behind PGPlugin and PGMutagenWrapper: the plugins the patcher *)
(* writes.  PGPatcher.esp holds new texture sets; PG_1.esp, PG_2.esp, ...  *)
(* override the records whose mesh or alternate textures changed, as many  *)
(* plugins as the limit on masters takes.  A library call runs under the   *)
(* wrapper's mutex, so calls never interleave; the loops inside one are    *)
(* steps here.                                                             *)
(*                                                                         *)
(* A texture set is known by its textures, a mesh by the index of the      *)
(* duplicate it is: 0 is the mesh the record names.  A record of a weight  *)
(* variant names its own variant of whichever duplicate is asked for.      *)
(***************************************************************************)
EXTENDS Integers, FiniteSets, Sequences

CONSTANTS
  Plugins, LoadOrder,        \* the active plugins, and their order
  PluginMasters,             \* the masters each of them names
  Installs,                  \* which may be there, and which can be read
  Records, PluginOf,         \* the records with models, and whose they are
  MastersOf,                 \* the plugins a record refers to, its own included
  Models, RecordOf, MeshOf,  \* the models of records, and their meshes
  Weighted, OtherVariant,    \* those with a weight slider; _0.nif for _1.nif
  Alts, ModelOf, SlotOf,     \* the alternate textures of models, and their index
  SetOf, MasterOf,           \* the textures each refers to, and whose set it is
  Asks,                      \* what saveMeshes may ask for each model
  Uncopied,                  \* the records DeepCopy fails for
  TextureSets, NoTextures,   \* texture sets; all eight textures are empty
  Slots,                     \* indices of alternate textures
  MaxFormID,                 \* 0xFFFFFF
  MaxMasters,                \* 254: a plugin has fewer masters
  MaxRuns                    \* bound: runs, in one process or several

FormIDs == 1..MaxFormID
Absent  == "absent"
OutMod  == "PGPatcher.esp"
Removed == -1

ASSUME PluginAssumption ==
  /\ LoadOrder \in Seq(Plugins)
  /\ \A i, j \in 1..Len(LoadOrder) : LoadOrder[i] = LoadOrder[j] => i = j
  /\ PluginMasters \in [Plugins -> SUBSET Plugins] /\ OutMod \notin Plugins
  /\ PluginOf \in [Records -> Plugins] /\ MastersOf \in [Records -> SUBSET Plugins]
  /\ RecordOf \in [Models -> Records] /\ ModelOf \in [Alts -> Models]
  /\ SlotOf \in [Alts -> Slots] /\ Slots \subseteq Nat
  /\ SetOf \in [Alts -> TextureSets] /\ MasterOf \in [Alts -> Plugins]
  /\ NoTextures \in TextureSets /\ Absent \notin TextureSets
  /\ MaxFormID \in Nat \ {0}
  /\ \A m \in Models : \A k \in Asks[m] :
       /\ k.model = m /\ k.file \in Nat /\ k.slots \subseteq Slots
       /\ k.new \in [Slots -> Slots \cup {Removed}] /\ k.set \in [Slots -> TextureSets]

VARIABLES
  phase, runs,
  install, loaded,   \* the plugins there and readable; how many were looked at
  kept, bad,         \* finalLoadOrderList, modsWithMissingMasters
  sets,              \* OutMod.TextureSets
  idOf, used,        \* NewTextureSets: the set with given textures; those in use
  allocated, lastUsed,
  base, baseLast,    \* the baseline taken by PopulateObjs
  modified,          \* the keys of ModifiedRecords
  file, index, id,   \* the copies in it: id is 0 for the set found there
  gone,              \* the alternate textures removed from them
  toSet,             \* the meshes whose setModelUses is still queued
  todo, cur, left, changed,  \* SetModelUses: uses, this use, its textures
  masters, placed,   \* OutputMasterTracker; the split plugin of each record
  toAdd,
  threw,             \* LastExceptionMessage is set: nothing ever clears it
  main,              \* PGPatcher.esp in the output directory, if it has sets
  split,             \* PG_1.esp, PG_2.esp, ... there
  asked              \* history: the uses this run has set

loadVars  == <<install, loaded, kept, bad>>
txstVars  == <<sets, idOf, used, allocated, lastUsed>>
baseVars  == <<base, baseLast>>
copyVars  == <<modified, file, index, id, gone>>
callVars  == <<todo, cur, left, changed>>
splitVars == <<masters, placed, toAdd>>
diskVars  == <<main, split>>
vars == <<phase, runs, loadVars, txstVars, baseVars, copyVars, toSet, callVars,
          splitVars, threw, diskVars, asked>>

NoSets == [i \in FormIDs |-> Absent]
NoIDs  == [t \in TextureSets |-> 0]

Init ==
  /\ phase = "loading" /\ runs = 0 /\ install \in Installs
  /\ main = NoSets /\ split = <<>>
  /\ loaded = 0 /\ kept = {} /\ bad = {}
  /\ sets = NoSets /\ idOf = NoIDs /\ used = {} /\ allocated = {} /\ lastUsed = 1
  /\ base = NoSets /\ baseLast = 1
  /\ modified = {} /\ file = [m \in Models |-> 0]
  /\ index = SlotOf /\ id = [a \in Alts |-> 0] /\ gone = {}
  /\ toSet = {} /\ todo = {} /\ cur = {} /\ left = {} /\ changed = FALSE
  /\ masters = <<>> /\ placed = [r \in Records |-> 0] /\ toAdd = {}
  /\ threw = FALSE /\ asked = {}

-----------------------------------------------------------------------------
(* Initialize and PopulateObjs.                                            *)

\* The next plugin of the load order is looked at.
LoadPlugin ==
  /\ phase = "loading" /\ loaded < Len(LoadOrder)
  /\ loaded' = loaded + 1
  /\ LET p == LoadOrder[loaded + 1]
         missing == {q \in PluginMasters[p] : q \notin install.there \/ q \in bad}
     IN  \/ p \notin install.there /\ UNCHANGED <<kept, bad>>
         \/ /\ p \in install.there \ install.readable
            /\ bad' = bad \cup {p} /\ UNCHANGED kept
         \/ /\ p \in install.there \cap install.readable /\ missing # {}
            /\ bad' = bad \cup missing \cup {p} /\ UNCHANGED kept
         \/ /\ p \in install.there \cap install.readable /\ missing = {}
            /\ kept' = kept \cup {p} /\ UNCHANGED bad
  /\ UNCHANGED <<phase, runs, install, txstVars, baseVars, copyVars, toSet, callVars,
                 splitVars, threw, diskVars, asked>>

\* The records looked at, and the models of one.
EnumerateModelRecords == {r \in Records : PluginOf[r] \in kept}
GetModelElems(r) == {m \in Models : RecordOf[m] = r}

\* The uses of a mesh: a weighted one is a use of both variants, or of none
\* if its name does not end in a variant.
GetModelUses(x) ==
  {m \in UNION {GetModelElems(r) : r \in EnumerateModelRecords} :
     IF m \in Weighted THEN OtherVariant[MeshOf[m]] # MeshOf[m]
                            /\ x \in {MeshOf[m], OtherVariant[MeshOf[m]]}
     ELSE x = MeshOf[m]}

IDs(s) == {i \in FormIDs : s[i] # Absent}

\* The dictionary of the texture sets of a plugin.
Cache(s) == [t \in TextureSets |-> IF \E i \in FormIDs : s[i] = t
                                   THEN CHOOSE i \in FormIDs : s[i] = t ELSE 0]

SavePatchingBaseline == base' = main /\ baseLast' = lastUsed'

\* The texture sets of the last output are kept for reuse, under their IDs;
\* which of them comes last in the file is not known.
PopulateObjs ==
  /\ phase = "loading" /\ loaded = Len(LoadOrder)
  /\ phase' = "ready"
  /\ sets' = main /\ idOf' = Cache(main) /\ used' = {} /\ allocated' = IDs(main)
  /\ lastUsed' \in IF IDs(main) = {} THEN {1} ELSE IDs(main)
  /\ SavePatchingBaseline
  /\ UNCHANGED <<runs, loadVars, copyVars, toSet, callVars, splitVars, threw, diskVars, asked>>

\* A run begins: the state is reset and the old output deleted.  The meshes
\* that will be patched are those with uses.
ResetPatchingState ==
  /\ phase \in {"ready", "saved"} /\ runs < MaxRuns
  /\ runs' = runs + 1 /\ phase' = "patching"
  /\ modified' = {} /\ masters' = <<>>
  /\ file' = [m \in Models |-> 0] /\ index' = SlotOf
  /\ id' = [a \in Alts |-> 0] /\ gone' = {}
  /\ allocated' = IDs(base) /\ lastUsed' = baseLast
  /\ sets' = base /\ idOf' = Cache(base) /\ used' = {}
  /\ placed' = [r \in Records |-> 0]
  /\ toSet' = {x \in DOMAIN OtherVariant : GetModelUses(x) # {}} /\ asked' = {}
  /\ main' = NoSets /\ split' = <<>>
  /\ UNCHANGED <<loadVars, baseVars, callVars, toAdd, threw>>

-----------------------------------------------------------------------------
(* SetModelUses.                                                           *)

Idle == todo = {} /\ cur = {}

\* The results of a mesh: any of its uses may have been left out.
SetModelUses(x) ==
  /\ phase = "patching" /\ Idle /\ x \in toSet
  /\ toSet' = toSet \ {x}
  /\ todo' \in {T \in SUBSET UNION {Asks[m] : m \in GetModelUses(x)} :
                  \A k, l \in T : k.model = l.model => k = l}
  /\ UNCHANGED <<phase, runs, loadVars, txstVars, baseVars, copyVars, cur, left, changed,
                 splitVars, threw, diskVars, asked>>

\* The copy of the record in hand, and its mesh.
StartUse(k) ==
  /\ cur = {} /\ k \in todo /\ todo' = todo \ {k}
  /\ RecordOf[k.model] \notin Uncopied
  /\ cur' = {k} /\ left' = {a \in Alts \ gone : ModelOf[a] = k.model}
  /\ changed' = (k.file # 0)
  /\ file' = [file EXCEPT ![k.model] = IF k.file # 0 THEN k.file ELSE @]
  /\ UNCHANGED <<phase, runs, loadVars, txstVars, baseVars, modified, index, id, gone,
                 toSet, splitVars, threw, diskVars, asked>>

\* A record that cannot be copied is entered as null.
SkipUse(k) ==
  /\ cur = {} /\ k \in todo /\ todo' = todo \ {k}
  /\ RecordOf[k.model] \in Uncopied
  /\ modified' = modified \cup {RecordOf[k.model]}
  /\ UNCHANGED <<phase, runs, loadVars, txstVars, baseVars, file, index, id, gone, toSet,
                 cur, left, changed, splitVars, threw, diskVars, asked>>

\* The textures the link cache gives for an alternate texture.  Of the output
\* plugin it sees the first object only, the one PopulateObjs filled.
Existing(a) ==
  IF id[a] = 0 THEN SetOf[a]
  ELSE IF base[id[a]] = Absent THEN NoTextures ELSE base[id[a]]

\* What is asked for the alternate texture, found by its present index.
InAsk(k, a)  == a \in left /\ index[a] \in k.slots
NewIndex(k, a) == k.new[index[a]]
Wanted(k, a)   == k.set[index[a]]
Stays(k, a)    == InAsk(k, a) /\ NewIndex(k, a) # Removed
Differs(k, a)  == Stays(k, a) /\ Wanted(k, a) # Existing(a)

Available == {i \in FormIDs : i > lastUsed /\ i \notin allocated}

TakeAlt(a) == left' = left \ {a} /\ UNCHANGED <<todo, cur>>
MoveUnnoticed(k, a) ==
  index' = [index EXCEPT ![a] = NewIndex(k, a)] /\ UNCHANGED changed
MoveAlt(k, a) ==
  /\ index' = [index EXCEPT ![a] = NewIndex(k, a)]
  /\ changed' = (changed \/ index[a] # NewIndex(k, a))

OmitAlt(k, a) ==
  /\ k \in cur /\ a \in left /\ ~InAsk(k, a) /\ TakeAlt(a)
  /\ UNCHANGED <<phase, runs, loadVars, txstVars, baseVars, copyVars, toSet, changed,
                 splitVars, threw, diskVars, asked>>

RemoveAlt(k, a) ==
  /\ k \in cur /\ InAsk(k, a) /\ ~Stays(k, a) /\ TakeAlt(a)
  /\ gone' = gone \cup {a} /\ changed' = TRUE
  /\ UNCHANGED <<phase, runs, loadVars, txstVars, baseVars, modified, file, index, id,
                 toSet, splitVars, threw, diskVars, asked>>

KeepTextures(k, a) ==
  /\ k \in cur /\ Stays(k, a) /\ ~Differs(k, a) /\ TakeAlt(a)
  /\ MoveAlt(k, a)
  /\ UNCHANGED <<phase, runs, loadVars, txstVars, baseVars, modified, file, id, gone,
                 toSet, splitVars, threw, diskVars, asked>>

ReuseUnmarked(k, a) ==
  /\ k \in cur /\ Differs(k, a) /\ idOf[Wanted(k, a)] # 0 /\ TakeAlt(a)
  /\ index' = [index EXCEPT ![a] = NewIndex(k, a)] /\ changed' = TRUE
  /\ id' = [id EXCEPT ![a] = idOf[Wanted(k, a)]]
  /\ UNCHANGED <<phase, runs, loadVars, txstVars, baseVars, modified, file, gone, toSet,
                 splitVars, threw, diskVars, asked>>
ReuseSet(k, a) ==
  /\ k \in cur /\ Differs(k, a) /\ idOf[Wanted(k, a)] # 0 /\ TakeAlt(a)
  /\ index' = [index EXCEPT ![a] = NewIndex(k, a)] /\ changed' = TRUE
  /\ id' = [id EXCEPT ![a] = idOf[Wanted(k, a)]]
  /\ used' = used \cup {Wanted(k, a)}
  /\ UNCHANGED <<phase, runs, loadVars, sets, idOf, allocated, lastUsed, baseVars, modified,
                 file, gone, toSet, splitVars, threw, diskVars, asked>>

\* GetLowestAvailableFormID: looked for above the last one given.
NewSet(k, a, i) ==
  /\ k \in cur /\ Differs(k, a) /\ idOf[Wanted(k, a)] = 0 /\ TakeAlt(a)
  /\ i \in Available /\ \A j \in Available : i <= j
  /\ index' = [index EXCEPT ![a] = NewIndex(k, a)] /\ changed' = TRUE
  /\ id' = [id EXCEPT ![a] = i]
  /\ sets' = [sets EXCEPT ![i] = Wanted(k, a)]
  /\ idOf' = [idOf EXCEPT ![Wanted(k, a)] = i] /\ used' = used \cup {Wanted(k, a)}
  /\ allocated' = allocated \cup {i} /\ lastUsed' = i
  /\ UNCHANGED <<phase, runs, loadVars, baseVars, modified, file, gone, toSet, splitVars,
                 threw, diskVars, asked>>

\* No FormID is left: the rest of the call is dropped.  A copy that was in
\* ModifiedRecords before keeps what was changed in it.
NoFormID(k, a) ==
  /\ k \in cur /\ Differs(k, a) /\ idOf[Wanted(k, a)] = 0 /\ Available = {}
  /\ todo' = {} /\ cur' = {} /\ left' = {} /\ changed' = FALSE /\ threw' = TRUE
  /\ IF RecordOf[k.model] \in modified
     THEN index' = [index EXCEPT ![a] = NewIndex(k, a)] /\ UNCHANGED <<file, id, gone>>
     ELSE LET of == {b \in Alts : ModelOf[b] = k.model}
          IN  /\ file' = [file EXCEPT ![k.model] = 0]
              /\ index' = [b \in Alts |-> IF b \in of THEN SlotOf[b] ELSE index[b]]
              /\ id' = [b \in Alts |-> IF b \in of THEN 0 ELSE id[b]]
              /\ gone' = gone \ of
  /\ UNCHANGED <<phase, runs, loadVars, txstVars, baseVars, modified, toSet, splitVars,
                 diskVars, asked>>

\* The copy is kept if something in it was changed.
EndUse(k) ==
  /\ k \in cur /\ left = {}
  /\ cur' = {} /\ changed' = FALSE
  /\ modified' = IF changed THEN modified \cup {RecordOf[k.model]} ELSE modified
  /\ asked' = asked \cup {k}
  /\ UNCHANGED <<phase, runs, loadVars, txstVars, baseVars, file, index, id, gone, toSet,
                 todo, left, splitVars, threw, diskVars>>

ChangeUse ==
  \/ \E k \in todo : StartUse(k) \/ SkipUse(k)
  \/ \E k \in cur : \/ EndUse(k)
                    \/ \E a \in left : \/ OmitAlt(k, a) \/ RemoveAlt(k, a) \/ KeepTextures(k, a)
                                       \/ ReuseSet(k, a) \/ NoFormID(k, a)
                                       \/ \E i \in FormIDs : NewSet(k, a, i)

-----------------------------------------------------------------------------
(* Finalize.                                                               *)

\* The texture sets left when the unused are removed.
InUse == [i \in FormIDs |-> IF \E t \in TextureSets \ used : idOf[t] = i
                            THEN Absent ELSE sets[i]]

\* What a run comes to when its last call returns.
Outcome(p) == IF threw THEN "failed" ELSE p

\* Nothing to write (nor does savePlugin then get called: no output at all).
FinalizeNothing ==
  /\ phase = "patching" /\ toSet = {} /\ Idle
  /\ IDs(InUse) = {} /\ modified = {}
  /\ phase' = Outcome("saved") /\ sets' = InUse
  /\ UNCHANGED <<runs, loadVars, idOf, used, allocated, lastUsed, baseVars, copyVars, toSet,
                 callVars, splitVars, threw, diskVars, asked>>

\* PGPatcher.esp is written first, if it has texture sets.
FinalizeMain ==
  /\ phase = "patching" /\ toSet = {} /\ Idle
  /\ ~(IDs(InUse) = {} /\ modified = {})
  /\ phase' = "adding" /\ sets' = InUse
  /\ main' = InUse
  /\ toAdd' = modified \ Uncopied
  /\ UNCHANGED <<runs, loadVars, idOf, used, allocated, lastUsed, baseVars, copyVars, toSet,
                 callVars, masters, placed, threw, split, asked>>

\* The alternate textures left in the copy of a record.
AltTextures(r) == {[alt |-> a, index |-> index[a], id |-> id[a]] :
                     a \in {b \in Alts \ gone : ModelOf[b] \in GetModelElems(r)}}

\* The plugins a record refers to and its own.
Needs(r, alts) ==
  MastersOf[r] \cup {PluginOf[r]}
    \cup {IF x.id = 0 THEN MasterOf[x.alt] ELSE OutMod :
            x \in {y \in alts : RecordOf[ModelOf[y.alt]] = r}}
curMasterList(r) == Needs(r, AltTextures(r))

\* A split plugin takes a record if it has its masters or room for them.
HasMasters(i, r) == curMasterList(r) \subseteq masters[i]
TakesRecord(i, r) ==
  HasMasters(i, r) \/ Cardinality(masters[i] \cup curMasterList(r)) < MaxMasters

\* GetModToAdd: the first plugin that takes the record, or a new one.
AddRecord(r) ==
  /\ phase = "adding" /\ r \in toAdd /\ toAdd' = toAdd \ {r}
  /\ \E i \in 1..(Len(masters) + 1) :
       /\ \A j \in 1..Len(masters) : j < i => ~TakesRecord(j, r)
       /\ placed' = [placed EXCEPT ![r] = i]
       /\ IF i \in 1..Len(masters)
          THEN /\ TakesRecord(i, r)
               /\ masters' = [masters EXCEPT ![i] = @ \cup curMasterList(r)]
          ELSE masters' = Append(masters, curMasterList(r))
  /\ UNCHANGED <<phase, runs, loadVars, txstVars, baseVars, copyVars, toSet, callVars, threw,
                 diskVars, asked>>

RecordsIn(i) == {r \in Records : placed[r] = i}

\* Beside what its records refer to, a split plugin names PGPatcher.esp as a
\* master whenever that has texture sets.
ExtraMasters == IF IDs(main) # {} THEN {OutMod} ELSE {}

SplitOf(i) ==
  [masters |-> masters[i] \cup ExtraMasters, records |-> RecordsIn(i),
   files   |-> [m \in UNION {GetModelElems(r) : r \in RecordsIn(i)} |-> file[m]],
   alts    |-> UNION {AltTextures(r) : r \in RecordsIn(i)}]

\* The split plugins are written one after the other.
WriteSplit ==
  /\ phase = "adding" /\ toAdd = {} /\ Len(split) < Len(masters)
  /\ split' = Append(split, SplitOf(Len(split) + 1))
  /\ UNCHANGED <<phase, runs, loadVars, txstVars, baseVars, copyVars, toSet, callVars,
                 splitVars, threw, main, asked>>

FinalizeEnds ==
  /\ phase = "adding" /\ toAdd = {} /\ Len(split) = Len(masters)
  /\ phase' = Outcome("saved")
  /\ UNCHANGED <<runs, loadVars, txstVars, baseVars, copyVars, toSet, callVars, splitVars,
                 threw, diskVars, asked>>

\* The process ends, in whatever it was doing, and the next one starts.
Restart ==
  /\ runs < MaxRuns /\ phase # "loading"
  /\ phase' = "loading" /\ install' \in Installs
  /\ loaded' = 0 /\ kept' = {} /\ bad' = {}
  /\ sets' = NoSets /\ idOf' = NoIDs /\ used' = {} /\ allocated' = {} /\ lastUsed' = 1
  /\ base' = NoSets /\ baseLast' = 1
  /\ modified' = {} /\ file' = [m \in Models |-> 0]
  /\ index' = SlotOf /\ id' = [a \in Alts |-> 0] /\ gone' = {}
  /\ toSet' = {} /\ todo' = {} /\ cur' = {} /\ left' = {} /\ changed' = FALSE
  /\ masters' = <<>> /\ placed' = [r \in Records |-> 0] /\ toAdd' = {}
  /\ threw' = FALSE /\ asked' = {}
  /\ UNCHANGED <<runs, diskVars>>

Next ==
  \/ LoadPlugin \/ PopulateObjs \/ ResetPatchingState
  \/ \E x \in toSet : SetModelUses(x)
  \/ ChangeUse
  \/ FinalizeNothing \/ FinalizeMain
  \/ \E r \in toAdd : AddRecord(r)
  \/ WriteSplit \/ FinalizeEnds
  \/ Restart

Spec == Init /\ [][Next]_vars

-----------------------------------------------------------------------------
(* Properties                                                              *)

TypeOK ==
  /\ phase \in {"loading", "ready", "patching", "adding", "saved", "failed"}
  /\ kept \subseteq install.there \cap install.readable /\ bad \subseteq Plugins
  /\ {sets, base, main} \subseteq [FormIDs -> TextureSets \cup {Absent}]
  /\ idOf \in [TextureSets -> 0..MaxFormID] /\ used \subseteq TextureSets
  /\ allocated \subseteq FormIDs /\ {lastUsed, baseLast} \subseteq 1..MaxFormID
  /\ modified \subseteq Records /\ gone \subseteq Alts
  /\ file \in [Models -> Nat] /\ index \in [Alts -> Slots] /\ id \in [Alts -> 0..MaxFormID]
  /\ \A k \in todo \cup cur \cup asked : k.model \in Models /\ k \in Asks[k.model]
  /\ \A k, l \in cur : k = l
  /\ left \subseteq Alts /\ changed \in BOOLEAN /\ threw \in BOOLEAN
  /\ placed \in [Records -> 0..Len(masters)] /\ toAdd \subseteq modified \ Uncopied

\* No two texture sets of a plugin have the same textures.
NoTwins(s) == \A i, j \in IDs(s) : s[i] = s[j] => i = j

\* A save game or another plugin may refer to a texture set of the last
\* output: its FormID is not given to other textures in the next.
OldIDsKept == \A i \in IDs(base) \cap IDs(main) : main[i] = base[i]

\* The output is consistent in itself at any moment: what a plugin refers to
\* in PGPatcher.esp is there, and it names every master it needs.
OutputResolves ==
  \A i \in DOMAIN split : \A x \in split[i].alts :
    x.id # 0 => main[x.id] # Absent /\ OutMod \in split[i].masters

\* The plugins the records of a split plugin refer to.
Referred(s) == UNION {Needs(r, s.alts) : r \in s.records}

\* No record is overridden twice; a plugin names the masters its records need
\* and, if there is one, PGPatcher.esp, and no other; its records need as many
\* as the limit or more only if one of them alone does.
SplitsFit ==
  /\ \A i, j \in DOMAIN split : split[i].records \cap split[j].records # {} => i = j
  /\ \A i \in DOMAIN split :
       /\ split[i].records # {}
       /\ split[i].masters = Referred(split[i]) \cup ExtraMasters
       /\ \/ Cardinality(Referred(split[i])) < MaxMasters
          \/ \E r \in split[i].records : Referred(split[i]) = Needs(r, split[i].alts)

\* GetModToAdd's comment: a record is added to a plugin only while that has
\* fewer masters than the limit.  The file has one more than were counted if
\* none of its records refers to PGPatcher.esp, which is named all the same.
MastersBelowLimit ==
  \A i \in DOMAIN split :
    \/ Cardinality(split[i].masters) < MaxMasters
    \/ \E r \in split[i].records :
         split[i].masters = Needs(r, split[i].alts) \cup ExtraMasters

\* A plugin is used only with the masters before it, which are used too.
MastersLoaded ==
  \A i, j \in 1..loaded :
    j < i /\ LoadOrder[i] \in kept /\ LoadOrder[j] \in PluginMasters[LoadOrder[i]] =>
      LoadOrder[j] \in kept

(* Whatever the program was doing when it ended, and however often it ran  *)
(* before, the plugins in the output directory are consistent, keep the    *)
(* FormIDs of the last output and name the masters they need, within the   *)
(* limit the program counts to (SplitsFit says which masters it counts).   *)
PluginSafe ==
  TypeOK /\ NoTwins(sets) /\ NoTwins(main) /\ OldIDsKept /\ OutputResolves /\ SplitsFit
         /\ MastersLoaded

\* What was asked for an alternate texture: it stays as it is if nothing was.
AskedIndex(k, a) == IF SlotOf[a] \in k.slots THEN k.new[SlotOf[a]] ELSE SlotOf[a]
AskedSet(k, a)   == IF SlotOf[a] \in k.slots THEN k.set[SlotOf[a]] ELSE SetOf[a]
AltsOf(m) == {a \in Alts : ModelOf[a] = m}

\* The game shows for a use what was asked for it.
ShownAsAsked(k) ==
  LET m == k.model
  IN  /\ (\A i \in DOMAIN split : RecordOf[m] \notin split[i].records) =>
           /\ k.file = 0
           /\ \A a \in AltsOf(m) : AskedIndex(k, a) = SlotOf[a] /\ AskedSet(k, a) = SetOf[a]
      /\ \A i \in DOMAIN split : RecordOf[m] \in split[i].records =>
           /\ split[i].files[m] = k.file
           /\ \A a \in AltsOf(m) :
                AskedIndex(k, a) # Removed => \E x \in split[i].alts : x.alt = a
           /\ \A x \in split[i].alts : x.alt \in AltsOf(m) =>
                /\ x.index = AskedIndex(k, x.alt)
                /\ AskedSet(k, x.alt) = IF x.id = 0 THEN SetOf[x.alt] ELSE main[x.id]

(* When a run has saved its plugins, every record it set has the mesh and, *)
(* in the places they moved to, the textures that were asked for it, and   *)
(* has kept the rest; a record left alone is one nothing was asked for.    *)
(* Left out are records of weight variants, which are set twice and may    *)
(* end up with either request, runs that failed, and records that could    *)
(* not be copied, which the program does not count as set.                 *)
WrittenAsAsked ==
  phase = "saved" => \A k \in asked : k.model \notin Weighted => ShownAsAsked(k)
=============================================================================
