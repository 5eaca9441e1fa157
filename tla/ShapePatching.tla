--------------------------- MODULE ShapePatching ---------------------------
(***************************************************************************)
(* processNIF: what happens to one shape of a mesh.  The shader patchers   *)
(* propose matches, textures or TruePBR JSONs that suit the shape; the     *)
(* best match of an enabled mod wins, is transformed if its own shader     *)
(* cannot be used, and is applied; the post patchers repair what is left;  *)
(* the textures are put back into the mesh, where shapes may share a       *)
(* texture set.  The jobs of different meshes share the file map, to which *)
(* textures still to be generated are added, and the texture hooks.        *)
(*                                                                         *)
(* A texture is its path; what its name and its pixels say of it are       *)
(* constants.  Of a shader we keep its type and those of its flags that    *)
(* patchers test or that mark one of the shaders; numbers, colours and     *)
(* vertices are left out, and so are shapes without a lighting shader.     *)
(***************************************************************************)
EXTENDS Integers, SequencesExt

CONSTANTS
  NIFs, Mods,
  NoMod,          \* nullptr: no mod is known for the path
  None,           \* the empty path
  Files,          \* the textures the game has
  HeightMaps,     \* the height maps found for the base of a texture
  CMs,            \* the complex materials found for it
  FlowMaps,       \* the hair flow maps found for it
  DDS,            \* paths that end in .dds
  RMAOS,          \* the textures of the PBR type RMAOS
  Aspect,         \* the aspect ratio of each of Files
  CMOutput,       \* PatcherTextureHookConvertToCM::getOutputFilename
  SSSOutput,      \* PatcherTextureHookFixSSS::getOutputFilename
  DynCubemap,     \* s_DYNCUBEMAPPATH
  StaticCubemap,  \* complex materials with "dynamic_cubemap": false
  Entries,        \* TruePBRConfigs, in order
  ModOf,          \* getModByFileSmart for textures and JSONs
  Rank,           \* the alphabetical order of textures and JSONs
  OptionSets,     \* the patchers and options that may be chosen
  Setups          \* what the meshes may be and what uses them

Slots == {"diffuse", "normal", "glow", "parallax", "cubemap", "envmask",
          "multilayer", "backlight"}
\* The types and flags that patchers test or set; the flag "PBR" is
\* SLSF2_UNUSED01, the others have their names.
Types == {"DEFAULT", "ENVMAP", "PARALLAX", "MULTILAYERPARALLAX", "HAIRTINT", "OTHER"}
Flags == {"SOFT_LIGHTING", "RIM_LIGHTING", "BACK_LIGHTING", "ANISOTROPIC_LIGHTING",
          "DECAL", "DYNAMIC_DECAL", "FACEGEN_RGB_TINT", "GLOW_MAP", "PARALLAX",
          "ENVIRONMENT_MAPPING", "MULTI_LAYER_PARALLAX", "PBR"}
Lighting == {"SOFT_LIGHTING", "RIM_LIGHTING", "BACK_LIGHTING"}

Shaders == {"default", "parallax", "complexMaterial", "truePBR"}
Textures == DOMAIN SSSOutput \cup {None}
TextureSets == [Slots -> Textures]
FoundShapes ==
  [type : Types, flags : SUBSET Flags, rigid : BOOLEAN, ignored : BOOLEAN,
   deleted : {FALSE}, block : Nat]
Outputs == Range(CMOutput) \cup Range(SSSOutput)
\* What a match names: a texture or a JSON.
Paths == Files \cup Outputs \cup RMAOS \cup {Entries[i].json : i \in DOMAIN Entries}

ASSUME ShapePatchingAssumption ==
  \* getOutputFilename makes a path of any path, and none of them is empty.
  /\ None \notin Files \cup Outputs \cup Shaders /\ NoMod \notin Mods /\ IsFiniteSet(Mods)
  /\ Files \cup Outputs \cup {DynCubemap} \subseteq DOMAIN SSSOutput
  /\ \A t \in Files :
       /\ HeightMaps[t] \subseteq Files \cap DOMAIN CMOutput
       /\ CMs[t] \subseteq Files /\ FlowMaps[t] \subseteq Files
  \* Paths have an alphabetical order, and a path is of one mod or of none.
  /\ \A p \in Paths : Rank[p] \in Nat /\ ModOf[p] \in Mods \cup {NoMod}
  /\ \A p, q \in Paths : Rank[p] = Rank[q] => p = q
  /\ Entries \in Seq(ToSet(Entries))
  /\ \A e \in ToSet(Entries) : e.slot \in Slots /\ e.slots \in [DOMAIN e.slots -> Textures]
                               /\ DOMAIN e.slots \subseteq Slots
  /\ \A st \in Setups : \A n \in NIFs :
       /\ st[n].shapes \in Seq(FoundShapes) /\ st[n].shapes # <<>>
       /\ st[n].blocks \in Seq(TextureSets)
       /\ \A i \in DOMAIN st[n].shapes : st[n].shapes[i].block \in DOMAIN st[n].blocks
       /\ \A i \in DOMAIN st[n].alternate : st[n].alternate[i] \in TextureSets
  /\ \A h, c \in Files : h \in HeightMaps[c] => \A t \in Files : h \notin CMs[t]
  \* An entry locks every slot it does not write, and the cubemap it cannot.
  /\ \A e \in ToSet(Entries) : "pbr" \in e.does => "cubemap" \in DOMAIN e.slots
  \* No entry of a JSON comes after one that deletes the shape: the code
  \* would go on with a shape that is gone.
  /\ \A i, j \in DOMAIN Entries :
       i < j /\ Entries[i].json = Entries[j].json => "delete" \notin Entries[i].does
  \* PGConfig::validateParams: the transform needs both of its shaders.
  /\ \A o \in OptionSets : "parallaxToCM" \in o => {"parallax", "complexMaterial"} \subseteq o

VARIABLES
  options, enabled, priority,  \* chosen before the run
  setup,      \* the meshes as found, and the record that uses each
  step,       \* each job's place in processNIFShape
  cur,        \* each job's shape
  slots,      \* the slots processNIFShape works on
  matches,    \* the result of getMatches
  winner,     \* the match that was applied, or none
  shapes, blocks, altTextures,  \* the mesh: shapes, texture sets; alternateTextures
  cache,      \* s_patchedTextureSets
  generated,  \* generated files in the file map
  hooks,      \* s_texToProcess of ConvertToCM and of FixSSS
  conflicts,  \* Mod::conflicts
  done        \* history: what was made of each shape

chosen   == <<options, enabled, priority, setup>>
meshVars == <<shapes, blocks, altTextures, cache>>
vars == <<chosen, step, cur, slots, matches, winner, meshVars, generated, hooks,
          conflicts, done>>

NoMatch == [shader |-> None, to |-> None, mod |-> NoMod, path |-> None, entries |-> {}]
NoCache == [b \in {} |-> {}]

Init ==
  /\ options \in OptionSets /\ enabled \in SUBSET Mods
  /\ priority \in {p \in [Mods -> 1..Cardinality(Mods)] : IsInjective(p)}
  /\ setup \in Setups
  /\ step = [n \in NIFs |-> "match"] /\ cur = [n \in NIFs |-> 1]
  /\ slots = [n \in NIFs |-> [s \in Slots |-> None]]
  /\ matches = [n \in NIFs |-> {}] /\ winner = [n \in NIFs |-> NoMatch]
  /\ shapes = [n \in NIFs |-> setup[n].shapes]
  /\ blocks = [n \in NIFs |-> setup[n].blocks]
  /\ altTextures = [n \in NIFs |-> setup[n].alternate]
  /\ cache = [n \in NIFs |-> NoCache]
  /\ generated = {} /\ hooks = [cm |-> {}, sss |-> {}]
  /\ conflicts = {} /\ done = {}

isFile(t) == t \in Files \cup generated
Shape(n) == shapes[n][cur[n]]

-----------------------------------------------------------------------------
(* canApply of the shader patchers.                                        *)

OldTypes == {"DEFAULT", "ENVMAP", "PARALLAX"}

canApplyCM(shape, use) ==
  LET lit == Lighting \cap shape.flags
  IN  /\ shape.type \in OldTypes
      /\ "ANISOTROPIC_LIGHTING" \in shape.flags => lit = {}
      /\ lit # Lighting
      /\ use.singlepassMATO => lit = {}

\* rigid: no skin, no alpha property, no havok attached to the mesh.
canApplyParallax(shape, use) ==
  /\ ~use.singlepassMATO /\ shape.rigid
  /\ shape.type \in OldTypes
  /\ shape.flags \cap (Lighting \cup {"DECAL", "DYNAMIC_DECAL", "ANISOTROPIC_LIGHTING"}) = {}

canApply(shader, shape, use) ==
  \/ shader = "default"
  \/ /\ ~use.grass
     /\ \/ shader = "parallax" /\ canApplyParallax(shape, use)
        \/ shader = "complexMaterial" /\ canApplyCM(shape, use)
        \/ shader = "truePBR" /\ "FACEGEN_RGB_TINT" \notin shape.flags

-----------------------------------------------------------------------------
(* shouldApply of the shader patchers: the matches for a texture set.      *)

match(shader, path) ==
  [shader |-> shader, to |-> None, mod |-> ModOf[path], path |-> path, entries |-> {}]

\* The normal map's matches, or else those of the diffuse map.  Textures
\* still to be generated are in no texture map and cannot be read.
found(sl, map) ==
  LET bases == {s \in {"normal", "diffuse"} : sl[s] \in Files /\ map[sl[s]] # {}}
      base  == sl[IF "normal" \in bases THEN "normal" ELSE "diffuse"]
  IN  IF bases = {} THEN {} ELSE {t \in map[base] : Aspect[t] = Aspect[base]}

applyOnePatchSlots(sl, e) ==
  IF "pbr" \in e.does
  THEN [s \in Slots |-> IF s \in DOMAIN e.slots THEN e.slots[s] ELSE sl[s]] ELSE sl

\* The entries of a match are places in Entries, and are applied in their order.
applyPBRSlots(sl, places) ==
  LET upTo[k \in 0..Len(Entries)] ==
        IF k = 0 THEN sl
        ELSE IF k \in places THEN applyOnePatchSlots(upTo[k - 1], Entries[k]) ELSE upTo[k - 1]
  IN  upTo[Len(Entries)]
deletes(places) == \E i \in places : "delete" \in Entries[i].does

\* Mutant: only the diffuse and the normal map are looked for.
mainPathsExist(sl, places) ==
  \/ deletes(places)
  \/ \A s \in {"diffuse", "normal"} :
       LET t == applyPBRSlots(sl, places)[s] IN t = None \/ isFile(t)

\* The textures are always looked for: PGPatcher calls loadOptions(true, ...).
pathsExist(sl, places) ==
  \/ deletes(places)
  \/ \A s \in Slots : LET t == applyPBRSlots(sl, places)[s] IN t = None \/ isFile(t)

\* The entries that match the texture set, by JSON; each JSON is a match if
\* it deletes the shape or all its textures exist.
truePBRMatches(sl) ==
  LET hits == {i \in DOMAIN Entries : sl[Entries[i].slot] = Entries[i].texture}
      entriesOf(j) == {i \in hits : Entries[i].json = j}
  IN  {[match("truePBR", j) EXCEPT !.entries = entriesOf(j)] :
         j \in {k \in {Entries[i].json : i \in hits} : pathsExist(sl, entriesOf(k))}}
      \cup {match("truePBR", t) : t \in {sl["envmask"]} \cap (IF hits = {} THEN RMAOS ELSE {})}

shouldApply(sl) ==
  {match("default", t) : t \in {u \in {sl["diffuse"], sl["normal"]} : isFile(u)}}
  \cup (IF "parallax" \in options
        THEN {match("parallax", t) : t \in found(sl, HeightMaps)} ELSE {})
  \cup (IF "complexMaterial" \in options
        THEN {match("complexMaterial", t) : t \in found(sl, CMs)} ELSE {})
  \cup (IF "truePBR" \in options THEN truePBRMatches(sl) ELSE {})

-----------------------------------------------------------------------------
(* getMatches, sortMatches, applyTransformIfNeeded.                        *)

Quality == [s \in Shaders |->
              CASE s = "default" -> 1 [] s = "parallax" -> 2
                [] s = "complexMaterial" -> 3 [] s = "truePBR" -> 4]
effective(m) == IF m.to # None THEN m.to ELSE m.shader

\* Mutant: the transform is taken without asking its shader.
transformUnchecked(m, shape, use) ==
  IF /\ m.shader = "parallax" /\ "parallaxToCM" \in options
     /\ ~canApply("parallax", shape, use) \/ "forceAlwaysCM" \in options
  THEN "complexMaterial" ELSE None

\* shaderTransformTo
transformTo(m, shape, use) ==
  IF /\ m.shader = "parallax" /\ "parallaxToCM" \in options
     /\ ~canApply("parallax", shape, use) \/ "forceAlwaysCM" \in options
     /\ canApply("complexMaterial", shape, use)
  THEN "complexMaterial" ELSE None

getMatches(sl, shape, use) ==
  {m \in {[p EXCEPT !.to = transformTo(p, shape, use)] : p \in shouldApply(sl)} :
     canApply(m.shader, shape, use) \/ m.to # None}

\* Mutant: the shaders are compared as they were matched.
beforeByShader(a, b) ==
  \/ a.mod # NoMod /\ b.mod = NoMod
  \/ /\ a.mod # NoMod /\ b.mod # NoMod /\ priority[a.mod] > priority[b.mod]
  \/ /\ a.mod = b.mod
     /\ \/ Quality[a.shader] > Quality[b.shader]
        \/ a.shader = b.shader /\ Rank[a.path] < Rank[b.path]

\* sortMatches: the order in which the patcher takes matches.
before(a, b) ==
  \/ a.mod # NoMod /\ b.mod = NoMod
  \/ /\ a.mod # NoMod /\ b.mod # NoMod /\ priority[a.mod] > priority[b.mod]
  \/ /\ a.mod = b.mod
     /\ \/ Quality[effective(a)] > Quality[effective(b)]
        \/ effective(a) = effective(b) /\ Rank[a.path] < Rank[b.path]

firstOf(ms, less(_, _)) == CHOOSE m \in ms : \A o \in ms : ~less(o, m)

-----------------------------------------------------------------------------
(* applyPatch of the shader patchers: the shape and its slots.             *)

remade(shape, type, flags) ==
  [type |-> type, flags |-> flags, rigid |-> shape.rigid, ignored |-> shape.ignored,
   deleted |-> shape.deleted, block |-> shape.block]

applyCM(it, m) ==
  [shape |-> remade(it.shape, "ENVMAP",
               (it.shape.flags \ {"PARALLAX", "PBR", "MULTI_LAYER_PARALLAX"})
                 \cup {"ENVIRONMENT_MAPPING"}),
   slots |-> [it.slots EXCEPT !["parallax"] = None, !["envmask"] = m.path,
                !["cubemap"] = IF "disableDynCubemap" \in options \/ m.path \in StaticCubemap
                               THEN @ ELSE DynCubemap]]

applyParallax(it, m) ==
  [shape |-> remade(it.shape, "PARALLAX",
               (it.shape.flags \ {"ENVIRONMENT_MAPPING", "PBR", "MULTI_LAYER_PARALLAX"})
                 \cup {"PARALLAX"}),
   slots |-> [it.slots EXCEPT !["parallax"] = m.path]]

\* enableTruePBROnShape.
enableTruePBR(shape, does) ==
  LET layered == "multilayer" \in does
      coated  == {"multilayer", "glint", "fuzz"} \cap does # {}
      fuzz    == ~layered /\ "glint" \notin does /\ "fuzz" \in does
      cleared == {"ENVIRONMENT_MAPPING", "PARALLAX", "GLOW_MAP"}
                   \cup (IF layered THEN {}
                         ELSE {"MULTI_LAYER_PARALLAX"}
                              \cup (IF "hair" \in does THEN {} ELSE {"BACK_LIGHTING"})
                              \cup (IF "fuzz" \in does THEN {} ELSE {"SOFT_LIGHTING"}))
      set     == {"PBR"} \cup (IF layered THEN {"MULTI_LAYER_PARALLAX"} ELSE {})
                   \cup (IF "hair" \in does THEN {"BACK_LIGHTING"} ELSE {})
                   \cup (IF fuzz THEN {"SOFT_LIGHTING"} ELSE {})
  IN  remade(shape, IF coated THEN "MULTILAYERPARALLAX" ELSE "DEFAULT",
             (shape.flags \ cleared) \cup set)

applyOnePatch(it, e) ==
  IF "delete" \in e.does
  THEN [shape |-> [it.shape EXCEPT !.deleted = TRUE], slots |-> it.slots]
  ELSE IF "pbr" \in e.does
  THEN [shape |-> enableTruePBR(it.shape, e.does), slots |-> applyOnePatchSlots(it.slots, e)]
  ELSE IF "env_mapping" \in e.does
  THEN [shape |-> remade(it.shape, "ENVMAP",
                    it.shape.flags \cup {"ENVIRONMENT_MAPPING", "BACK_LIGHTING"}),
        slots |-> it.slots]
  ELSE it

applyEntries(it, places) ==
  LET upTo[k \in 0..Len(Entries)] ==
        IF k = 0 THEN it
        ELSE IF k \in places THEN applyOnePatch(upTo[k - 1], Entries[k]) ELSE upTo[k - 1]
  IN  upTo[Len(Entries)]

\* A match of the default shader, and an RMAOS without JSON, change nothing.
applyPatch(it, m) ==
  CASE m.shader = "complexMaterial" -> applyCM(it, m)
    [] m.shader = "parallax"        -> applyParallax(it, m)
    [] m.shader = "truePBR"         -> applyEntries(it, m.entries)
    [] OTHER                        -> it

-----------------------------------------------------------------------------
(* The post patchers, in their order.                                      *)

restoreFromParallax(it) ==
  IF it.shape.type = "PARALLAX" /\ ~isFile(it.slots["parallax"])
  THEN [shape |-> remade(it.shape, "DEFAULT", it.shape.flags \ {"PARALLAX"}),
        slots |-> [it.slots EXCEPT !["parallax"] = None]]
  ELSE it

cubemapValid(sl) == sl["cubemap"] \in {None, DynCubemap} \/ isFile(sl["cubemap"])
envMaskValid(sl) == sl["envmask"] = None \/ isFile(sl["envmask"])

restoreFromComplexMaterial(it) ==
  IF it.shape.type = "ENVMAP" /\ ~(cubemapValid(it.slots) /\ envMaskValid(it.slots))
  THEN [shape |-> remade(it.shape, "DEFAULT", it.shape.flags \ {"ENVIRONMENT_MAPPING"}),
        slots |-> [it.slots EXCEPT !["cubemap"] = None, !["envmask"] = None]]
  ELSE it

RestoreDefaultShaders(it) ==
  IF "restore" \in options THEN restoreFromComplexMaterial(restoreFromParallax(it)) ELSE it

needsFixSSS(it) ==
  /\ "fixSSS" \in options
  /\ it.shape.type = "DEFAULT" /\ "SOFT_LIGHTING" \in it.shape.flags
  /\ it.slots["glow"] = it.slots["diffuse"]
  /\ it.slots["diffuse"] # None /\ it.slots["diffuse"] \in DDS
FixSSS(it) ==
  IF needsFixSSS(it)
  THEN [shape |-> it.shape,
        slots |-> [it.slots EXCEPT !["glow"] = SSSOutput[it.slots["diffuse"]]]]
  ELSE it

HairFlowMap(it) ==
  LET n == it.slots["normal"]
  IN  IF /\ "hairFlowMap" \in options /\ it.shape.type = "HAIRTINT"
         /\ "BACK_LIGHTING" \notin it.shape.flags
         /\ n \in Files /\ FlowMaps[n] # {}
      THEN [shape |-> remade(it.shape, it.shape.type, it.shape.flags \cup {"BACK_LIGHTING"}),
            slots |-> [it.slots EXCEPT !["backlight"] = CHOOSE t \in FlowMaps[n] : TRUE]]
      ELSE it

-----------------------------------------------------------------------------
(* Texture sets: getTextureSet and setTextureSet.                          *)

getTextureSet(n) ==
  LET b == Shape(n).block
  IN  IF b \in DOMAIN cache[n] THEN cache[n][b].original ELSE blocks[n][b]

With(f, x, value) == [y \in {x} \cup DOMAIN f |-> IF y = x THEN value ELSE f[y]]
cached(original, results) == [original |-> original, results |-> results]
Only(b, textures) == [r \in {b} |-> textures]

\* Mutant: a texture set that was patched before is written again.
overwriteTextureSet(n, shape, textures) ==
  LET b == shape.block
  IN  /\ cache' = [cache EXCEPT ![n] = With(@, b, cached(getTextureSet(n), Only(b, textures)))]
      /\ blocks' = [blocks EXCEPT ![n][b] = textures]
      /\ shapes' = [shapes EXCEPT ![n][cur[n]] = shape]

\* The first result for a texture set takes its place; another result gets a
\* new texture set, or that of the shape with the same result.
setTextureSet(n, shape, textures) ==
  LET b        == shape.block
      results  == cache[n][b].results
      same     == {r \in DOMAIN results : results[r] = textures}
      newBlock == IF same = {} THEN Len(blocks[n]) + 1 ELSE CHOOSE r \in same : TRUE
  IN  \/ /\ b \notin DOMAIN cache[n]
         /\ cache' = [cache EXCEPT ![n] = With(@, b, cached(blocks[n][b], Only(b, textures)))]
         /\ blocks' = [blocks EXCEPT ![n] = [@ EXCEPT ![b] = textures]]
         /\ shapes' = [shapes EXCEPT ![n] = [@ EXCEPT ![cur[n]] = shape]]
      \/ /\ b \in DOMAIN cache[n]
         /\ blocks' = [blocks EXCEPT ![n] = IF same = {} THEN Append(@, textures) ELSE @]
         /\ shapes' = [shapes EXCEPT ![n] =
              [@ EXCEPT ![cur[n]] = [shape EXCEPT !.block = newBlock]]]
         /\ cache' = [cache EXCEPT ![n] =
              With(@, b, cached(@[b].original, With(results, newBlock, textures)))]

-----------------------------------------------------------------------------
(* processNIFShape, in three steps between which other jobs run.           *)

\* The history of a shape the patchers are done with.
made(n, shape, textures) ==
  [nif |-> n, place |-> cur[n], matches |-> matches[n], winner |-> winner[n],
   shape |-> shape, textures |-> textures]

NextShape(n) ==
  /\ cur' = [cur EXCEPT ![n] = @ + 1]
  /\ step' = [step EXCEPT ![n] = IF cur[n] = Len(shapes[n]) THEN "finish" ELSE "match"]

Match(n) ==
  /\ step[n] = "match"
  /\ LET sl == IF cur[n] \in DOMAIN altTextures[n] THEN altTextures[n][cur[n]]
               ELSE getTextureSet(n)
         proposed == IF Shape(n).ignored THEN {} ELSE shouldApply(sl)
         mods == {m.mod : m \in proposed} \ {NoMod}
     IN  /\ slots' = [slots EXCEPT ![n] = sl]
         /\ conflicts' = conflicts \cup {c \in mods \X mods : c[1] # c[2]}
         /\ matches' = [matches EXCEPT ![n] =
              IF Shape(n).ignored THEN {} ELSE getMatches(sl, Shape(n), setup[n].use)]
  /\ winner' = [winner EXCEPT ![n] = NoMatch]
  /\ step' = [step EXCEPT ![n] = "apply"]
  /\ UNCHANGED <<chosen, cur, meshVars, generated, hooks, done>>
enabledMatches(n) == {m \in matches[n] : m.mod = NoMod \/ m.mod \in enabled}

\* Mutant: a height map another shape had converted is used as it is.
transformOnce(m) ==
  IF m.to = None \/ m.path \in hooks.cm THEN [m EXCEPT !.to = None]
  ELSE [m EXCEPT !.shader = m.to, !.to = None, !.path = CMOutput[m.path]]

transform(m) ==
  IF m.to = None THEN m
  ELSE [shader |-> m.to, to |-> None, mod |-> m.mod, path |-> CMOutput[m.path],
        entries |-> m.entries]

\* Mutant: the texture to be generated is not entered in the file map.
addToProcessListOnly(m) ==
  IF m.to = None THEN UNCHANGED <<hooks, generated>>
  ELSE /\ hooks' = [cm |-> hooks.cm \cup {m.path}, sss |-> hooks.sss]
       /\ UNCHANGED generated

\* The transform of a match adds its height map to ConvertToCM's textures.
addToProcessList(m) ==
  IF m.to = None THEN UNCHANGED <<hooks, generated>>
  ELSE /\ hooks' = [cm |-> hooks.cm \cup {m.path}, sss |-> hooks.sss]
       /\ generated' = generated \cup {CMOutput[m.path]}

NoWinner(n) ==
  /\ step[n] = "apply" /\ enabledMatches(n) = {}
  /\ step' = [step EXCEPT ![n] = "post"]
  /\ UNCHANGED <<chosen, cur, slots, matches, winner, meshVars, generated, hooks,
                 conflicts, done>>

ApplyWinner(n) ==
  /\ step[n] = "apply" /\ enabledMatches(n) # {}
  /\ LET w  == firstOf(enabledMatches(n), before)
         it == applyPatch([shape |-> Shape(n), slots |-> slots[n]], transform(w))
     IN  /\ winner' = [winner EXCEPT ![n] = w]
         /\ addToProcessList(w)
         /\ shapes' = [shapes EXCEPT ![n] = [@ EXCEPT ![cur[n]] = it.shape]]
         /\ slots' = [slots EXCEPT ![n] = it.slots]
         /\ IF it.shape.deleted THEN NextShape(n)
            ELSE step' = [step EXCEPT ![n] = "post"] /\ UNCHANGED cur
  /\ UNCHANGED <<chosen, matches, blocks, altTextures, cache, conflicts, done>>

Post(n) ==
  /\ step[n] = "post"
  /\ LET restored == RestoreDefaultShaders([shape |-> Shape(n), slots |-> slots[n]])
         diffuse  == restored.slots["diffuse"]
         it       == HairFlowMap(FixSSS(restored))
     IN  /\ IF needsFixSSS(restored)
            THEN /\ hooks' = [cm |-> hooks.cm, sss |-> hooks.sss \cup {diffuse}]
                 /\ generated' = generated \cup {SSSOutput[diffuse]}
            ELSE UNCHANGED <<hooks, generated>>
         /\ slots' = [slots EXCEPT ![n] = it.slots]
         /\ IF cur[n] \in DOMAIN altTextures[n]
            THEN /\ altTextures' = [altTextures EXCEPT ![n] = [@ EXCEPT ![cur[n]] = it.slots]]
                 /\ shapes' = [shapes EXCEPT ![n] = [@ EXCEPT ![cur[n]] = it.shape]]
                 /\ UNCHANGED <<blocks, cache>>
            ELSE setTextureSet(n, it.shape, it.slots) /\ UNCHANGED altTextures
         /\ done' = done \cup {made(n, it.shape, it.slots)}
  /\ NextShape(n)
  /\ UNCHANGED <<chosen, matches, winner, conflicts>>

clearTextureSets(n) ==
  /\ step[n] = "finish"
  /\ step' = [step EXCEPT ![n] = "done"]
  /\ cache' = [cache EXCEPT ![n] = NoCache]
  /\ UNCHANGED <<chosen, cur, slots, matches, winner, shapes, blocks, altTextures,
                 generated, hooks, conflicts, done>>

processNIF(n) == Match(n) \/ NoWinner(n) \/ ApplyWinner(n) \/ Post(n) \/ clearTextureSets(n)

Next == \E n \in NIFs : processNIF(n)

Spec == Init /\ [][Next]_vars

-----------------------------------------------------------------------------
(* Properties                                                              *)

Found(r)     == setup[r.nif].shapes[r.place]
FoundSet(r)  == IF r.place \in DOMAIN setup[r.nif].alternate
                THEN setup[r.nif].alternate[r.place]
                ELSE setup[r.nif].blocks[Found(r).block]
Patched(r)   == r.winner.shader # None

TypeOK ==
  /\ \A n \in NIFs :
       /\ step[n] \in {"match", "apply", "post", "finish", "done"}
       /\ cur[n] \in 1..(Len(shapes[n]) + 1)
       /\ Len(shapes[n]) = Len(setup[n].shapes)
       /\ \A i \in DOMAIN shapes[n] : shapes[n][i].block \in DOMAIN blocks[n]
       /\ DOMAIN cache[n] \subseteq DOMAIN setup[n].blocks
       /\ DOMAIN slots[n] = Slots /\ \A m \in matches[n] : m.mod \in Mods \cup {NoMod}
  /\ generated \subseteq Outputs
  /\ hooks.cm \cup hooks.sss \subseteq Files \cup Outputs \cup DOMAIN SSSOutput
  /\ conflicts \subseteq Mods \X Mods

(* A shape gets a shader only if the patcher of that shader can apply to   *)
(* it as it was found, for the record that uses it: vanilla parallax on a  *)
(* mesh with havok attached crashes the game.  This includes the shader a  *)
(* match was transformed to.                                               *)
AppliedCanApply ==
  \A r \in done : Patched(r) =>
    canApply(effective(r.winner), Found(r), setup[r.nif].use)

Marks == {"PARALLAX", "ENVIRONMENT_MAPPING", "PBR"}

ShaderKept(r) ==
  LET marks == Marks \cap r.shape.flags
  IN  CASE effective(r.winner) = "parallax" ->
             r.shape.type = "PARALLAX" /\ marks = {"PARALLAX"}
        [] effective(r.winner) = "complexMaterial" ->
             \/ r.shape.type = "ENVMAP" /\ marks = {"ENVIRONMENT_MAPPING"}
             \/ /\ FoundSet(r)["cubemap"] \notin Files \cup {None, DynCubemap}
                /\ r.shape.type = "DEFAULT" /\ marks = {}
        [] effective(r.winner) = "truePBR" /\ r.winner.entries # {} ->
             (\A i \in r.winner.entries : "pbr" \in Entries[i].does) =>
               r.shape.type \in {"DEFAULT", "MULTILAYERPARALLAX"} /\ marks = {"PBR"}
        [] OTHER -> TRUE

(* The shader that won is the one the shape ends with, in its type and in  *)
(* its flags, through the post patchers and though its texture may be yet  *)
(* to be generated; a complex material whose cubemap is missing, left      *)
(* there because dynamic cubemaps are off, goes back to the default one.   *)
PatchedShaderKept == \A r \in done : Patched(r) => ShaderKept(r)

\* The textures there will be once the hooks have run on the textures.
InTheEnd == Files \cup {None, DynCubemap} \cup {CMOutput[t] : t \in hooks.cm \cap Files}
              \cup {SSSOutput[t] : t \in hooks.sss \cap Files}

(* No patcher makes a shape refer to a texture that is missing, in the     *)
(* game or from the hooks, unless it did so before; FixSSS renames the     *)
(* texture it takes for both diffuse and glow even if that one is missing. *)
NoNewMissingTextures ==
  \A r \in done : \A s \in Slots :
    \/ r.textures[s] \in InTheEnd
    \/ r.textures[s] = FoundSet(r)[s]
    \/ s = "glow" /\ FoundSet(r)["glow"] \notin Files

(* Shapes that share a texture set are patched each on its own: at the end *)
(* each refers to a texture set with what was made for it, whatever was    *)
(* made of the others, and those with alternate textures have it there.    *)
OwnTextures ==
  \A r \in done :
    r.textures = IF r.place \in DOMAIN altTextures[r.nif] THEN altTextures[r.nif][r.place]
                 ELSE blocks[r.nif][shapes[r.nif][r.place].block]

\* What a shape or the JSONs name is not what a hook may generate.
OfTheGame(r) == (Range(FoundSet(r)) \cup UNION {Range(e.slots) : e \in ToSet(Entries)}) \cap Outputs = {}

(* The state is well formed, and no shape has the textures of another.     *)
PatchSafe == TypeOK /\ OwnTextures

(* What is made of a shape depends on the shape, its textures and its use: *)
(* not on the jobs that ran before or between its steps, nor on the other  *)
(* shapes of its mesh, unless it names a texture the hooks generate.       *)
SameShapeSameResult ==
  \A r, t \in done :
    /\ OfTheGame(r) /\ FoundSet(r) = FoundSet(t)
    /\ [Found(r) EXCEPT !.block = 0] = [Found(t) EXCEPT !.block = 0]
    /\ setup[r.nif].use = setup[t.nif].use
    => /\ r.textures = t.textures
       /\ r.shape.type = t.shape.type /\ r.shape.flags = t.shape.flags

\* sortMatches for the conflict view: mods by their place in the list
\* getModsByPriority returns, paths without a mod after the last.
rankOf(m) == IF m.mod = NoMod THEN Cardinality(Mods)
             ELSE Cardinality({o \in Mods : priority[o] > priority[m.mod]})
viewBefore(a, b) ==
  \/ rankOf(a) < rankOf(b)
  \/ /\ rankOf(a) = rankOf(b)
     /\ \/ Quality[effective(a)] > Quality[effective(b)]
        \/ effective(a) = effective(b) /\ Rank[a.path] < Rank[b.path]
isMatchVisible(m) == m.mod \in enabled
visible(r) == {m \in r.matches : isMatchVisible(m)}

(* The conflict view highlights, of the matches stored for a shape, the    *)
(* one the patcher applied, though it sorts them itself; it shows none     *)
(* exactly if the winner belongs to no mod.                                *)
ViewShowsWinner ==
  \A r \in done : Patched(r) =>
    IF r.winner.mod = NoMod THEN visible(r) = {}
    ELSE r.winner = firstOf(visible(r), viewBefore)
=============================================================================
