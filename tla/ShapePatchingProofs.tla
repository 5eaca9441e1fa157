------------------------ MODULE ShapePatchingProofs ------------------------
(***************************************************************************)
(* The properties of ShapePatching for any meshes, textures, mods and      *)
(* TruePBR JSONs, and any interleaving of the meshes' jobs.                *)
(***************************************************************************)
EXTENDS ShapePatching, FiniteSetTheorems, WellFoundedInduction, TLAPS

-----------------------------------------------------------------------------
(* Matches: what getMatches returns, and the order they are taken in. *)

WellFormed(m) ==
  /\ m = [shader |-> m.shader, to |-> m.to, mod |-> ModOf[m.path], path |-> m.path,
          entries |-> m.entries]
  /\ m.path \in Paths /\ m.entries \subseteq DOMAIN Entries
  /\ \/ m.shader \in Shaders /\ m.to = None
     \/ m.shader = "parallax" /\ m.to = "complexMaterial"
  /\ m.shader \in {"parallax", "complexMaterial"} => m.path \in Files
  /\ m.shader = "parallax" => m.path \in DOMAIN CMOutput

\* A match is told from the others by its shader and what it names.
Distinct(ms) == \A a, b \in ms : effective(a) = effective(b) /\ a.path = b.path => a = b

GoodMatches(ms, shape, use) ==
  /\ \A m \in ms : WellFormed(m) /\ canApply(effective(m), shape, use)
  /\ Distinct(ms)

Hits(sl) == {i \in DOMAIN Entries : sl[Entries[i].slot] = Entries[i].texture}

LEMMA FoundTextures ==
  ASSUME NEW sl, NEW map, NEW t \in found(sl, map)
  PROVE  \E c \in Files : t \in map[c]
BY DEF found

\* What the shader patchers propose.
LEMMA Proposed ==
  ASSUME NEW sl, generated \subseteq Outputs, NEW p \in shouldApply(sl)
  PROVE  /\ p = [shader |-> p.shader, to |-> None, mod |-> ModOf[p.path], path |-> p.path,
                 entries |-> {i \in Hits(sl) : Entries[i].json = p.path
                                               /\ p.shader = "truePBR"}]
         /\ p.path \in Paths /\ p.shader \in Shaders
         /\ p.shader = "parallax" =>
              p.path \in Files /\ p.path \in DOMAIN CMOutput
              /\ \E c \in Files : p.path \in HeightMaps[c]
         /\ p.shader = "complexMaterial" => p.path \in Files /\ \E c \in Files : p.path \in CMs[c]
<1> DEFINE D == {match("default", t) : t \in {u \in {sl["diffuse"], sl["normal"]} : isFile(u)}}
           A == {match("parallax", t) : t \in found(sl, HeightMaps)}
           C == {match("complexMaterial", t) : t \in found(sl, CMs)}
<1>1. p \in D \cup A \cup C \cup truePBRMatches(sl) BY DEF shouldApply
<1>2. \A s, t : match(s, t) = [shader |-> s, to |-> None, mod |-> ModOf[t], path |-> t,
                               entries |-> {}]
  BY DEF match
<1>3. CASE p \in D
  <2>1. PICK t \in Files \cup Outputs : p = match("default", t) BY <1>3 DEF isFile
  <2>2. {i \in Hits(sl) : Entries[i].json = p.path /\ p.shader = "truePBR"} = {}
    BY <1>2, <2>1
  <2> QED BY <1>2, <2>1, <2>2 DEF Paths, Shaders
<1>4. CASE p \in A
  <2>1. PICK t \in found(sl, HeightMaps) : p = match("parallax", t) BY <1>4
  <2>2. PICK c \in Files : t \in HeightMaps[c] BY FoundTextures
  <2> QED BY <1>2, <2>1, <2>2, ShapePatchingAssumption DEF Paths, Shaders
<1>5. CASE p \in C
  <2>1. PICK t \in found(sl, CMs) : p = match("complexMaterial", t) BY <1>5
  <2>2. PICK c \in Files : t \in CMs[c] BY FoundTextures
  <2> QED BY <1>2, <2>1, <2>2, ShapePatchingAssumption DEF Paths, Shaders
<1>6. CASE p \in truePBRMatches(sl)
  <2> DEFINE of(j) == {i \in Hits(sl) : Entries[i].json = j}
  <2>1. CASE \E j \in {Entries[i].json : i \in Hits(sl)} :
               p = [match("truePBR", j) EXCEPT !.entries = of(j)]
    <3>1. PICK h \in Hits(sl) :
            p = [match("truePBR", Entries[h].json) EXCEPT !.entries = of(Entries[h].json)]
      BY <2>1
    <3>2. Entries[h].json \in Paths BY DEF Paths, Hits
    <3> QED BY <1>2, <3>1, <3>2 DEF Shaders
  <2>2. CASE Hits(sl) = {} /\ \E t \in RMAOS : p = match("truePBR", t)
    <3>1. PICK t \in RMAOS : p = match("truePBR", t) BY <2>2
    <3>2. {i \in Hits(sl) : Entries[i].json = p.path /\ p.shader = "truePBR"} = {}
      BY <2>2
    <3> QED BY <1>2, <3>1, <3>2 DEF Shaders, Paths
  <2> QED BY <1>6, <2>1, <2>2 DEF truePBRMatches, Hits
<1> QED BY <1>1, <1>3, <1>4, <1>5, <1>6

LEMMA ToReplaced ==
  ASSUME NEW s, NEW t, NEW m, NEW p, NEW e, NEW new
  PROVE  [[shader |-> s, to |-> t, mod |-> m, path |-> p, entries |-> e] EXCEPT !.to = new]
           = [shader |-> s, to |-> new, mod |-> m, path |-> p, entries |-> e]
OBVIOUS

LEMMA MatchesGood ==
  ASSUME NEW sl, NEW shape, NEW use, generated \subseteq Outputs
  PROVE  GoodMatches(getMatches(sl, shape, use), shape, use)
<1> DEFINE ms == getMatches(sl, shape, use)
           T(p) == [p EXCEPT !.to = transformTo(p, shape, use)]
<1>1. ASSUME NEW m \in ms
      PROVE  \E p \in shouldApply(sl) :
               /\ m = T(p) /\ (canApply(p.shader, shape, use) \/ m.to # None)
  <2>1. PICK p \in shouldApply(sl) : m = T(p) BY DEF getMatches
  <2>2. m.shader = p.shader BY <2>1, Proposed
  <2> QED BY <2>1, <2>2 DEF getMatches
<1>2. ASSUME NEW m \in ms
      PROVE  /\ m = [shader |-> m.shader, to |-> m.to, mod |-> ModOf[m.path], path |-> m.path,
                     entries |-> {i \in Hits(sl) : Entries[i].json = m.path
                                                   /\ m.shader = "truePBR"}]
             /\ m.to = transformTo(m, shape, use)
             /\ m.path \in Paths /\ m.shader \in Shaders
             /\ m.shader = "parallax" =>
                  m.path \in Files /\ m.path \in DOMAIN CMOutput
                  /\ \E c \in Files : m.path \in HeightMaps[c]
             /\ m.shader = "complexMaterial" =>
                  m.path \in Files /\ \E c \in Files : m.path \in CMs[c]
             /\ canApply(m.shader, shape, use) \/ m.to # None
  <2>1. PICK p \in shouldApply(sl) :
          m = T(p) /\ (canApply(p.shader, shape, use) \/ m.to # None)
    BY <1>1
  <2>2. transformTo(m, shape, use) = transformTo(p, shape, use)
    <3>1. m.shader = p.shader BY <2>1, Proposed
    <3> QED BY <3>1 DEF transformTo
  <2>3. m = [shader |-> p.shader, to |-> transformTo(p, shape, use), mod |-> ModOf[p.path],
             path |-> p.path, entries |-> {i \in Hits(sl) : Entries[i].json = p.path
                                                           /\ p.shader = "truePBR"}]
    BY <2>1, Proposed, ToReplaced
  <2> HIDE DEF ms
  <2> QED BY <2>1, <2>2, <2>3, Proposed
<1>3. ASSUME NEW m \in ms
      PROVE  /\ m.to \in {None, "complexMaterial"}
             /\ m.to # None => m.shader = "parallax" /\ canApply("complexMaterial", shape, use)
  BY <1>2 DEF transformTo
<1> HIDE DEF ms
<1>4. ASSUME NEW m \in ms PROVE WellFormed(m) /\ canApply(effective(m), shape, use)
  BY <1>2, <1>3 DEF WellFormed, effective, Hits
<1>5. ASSUME NEW a \in ms, NEW b \in ms, effective(a) = effective(b), a.path = b.path
      PROVE  a = b
  <2>1. a.shader = b.shader
    BY <1>2, <1>3, <1>5, ShapePatchingAssumption DEF effective, Shaders
  <2>2. a.to = b.to BY <1>3, <1>5, <2>1, ShapePatchingAssumption DEF effective, Shaders
  <2>3. {i \in Hits(sl) : Entries[i].json = a.path /\ a.shader = "truePBR"}
          = {i \in Hits(sl) : Entries[i].json = b.path /\ b.shader = "truePBR"}
    BY <1>5, <2>1
  <2> QED BY <1>2, <1>5, <2>1, <2>2, <2>3
<1> QED BY <1>4, <1>5 DEF GoodMatches, Distinct, ms

-----------------------------------------------------------------------------
(* The order of matches: by mod, shader and path, each a natural number. *)

Chosen ==
  /\ options \in OptionSets /\ enabled \subseteq Mods
  /\ priority \in [Mods -> 1..Cardinality(Mods)]
  /\ \A a, b \in Mods : priority[a] = priority[b] => a = b
  /\ setup \in Setups

ModKey(m) == IF m.mod = NoMod THEN Cardinality(Mods) ELSE Cardinality(Mods) - priority[m.mod]
ShaderKey(m) == 4 - Quality[effective(m)]

LEMMA Least ==
  ASSUME NEW S, S \subseteq Nat, S # {}
  PROVE  \E x \in S : \A y \in S : x <= y
<1>1. PICK x \in S : \A y \in S : ~ (<<y, x>> \in OpToRel(<, Nat))
  BY WFMin, NatLessThanWellFounded
<1>2. \A y \in S : ~ (y < x) BY <1>1 DEF OpToRel
<1> QED BY <1>2

LEMMA KeysTyped ==
  ASSUME Chosen, NEW m, WellFormed(m)
  PROVE  /\ ModKey(m) \in Nat /\ ShaderKey(m) \in Nat /\ Rank[m.path] \in Nat
         /\ m.mod \in Mods \cup {NoMod}
         /\ effective(m) \in Shaders
         /\ m.mod \in Mods => m.mod # NoMod /\ priority[m.mod] \in 1..Cardinality(Mods)
<1>1. Cardinality(Mods) \in Nat BY ShapePatchingAssumption, FS_CardinalityType
<1>2. m.mod = ModOf[m.path] /\ m.path \in Paths BY DEF WellFormed
<1>3. m.mod \in Mods \cup {NoMod} /\ Rank[m.path] \in Nat
  BY <1>2, ShapePatchingAssumption
<1>4. effective(m) \in Shaders BY DEF WellFormed, effective, Shaders
<1>5. ShaderKey(m) \in Nat BY <1>4 DEF ShaderKey, Quality, Shaders
<1>6. m.mod \in Mods => m.mod # NoMod /\ priority[m.mod] \in 1..Cardinality(Mods)
  BY ShapePatchingAssumption DEF Chosen
<1> QED BY <1>1, <1>3, <1>4, <1>5, <1>6 DEF ModKey

LEMMA BeforeIsLexical ==
  ASSUME Chosen, NEW a, NEW b, WellFormed(a), WellFormed(b)
  PROVE  before(a, b) <=>
           \/ ModKey(a) < ModKey(b)
           \/ /\ ModKey(a) = ModKey(b)
              /\ \/ ShaderKey(a) < ShaderKey(b)
                 \/ ShaderKey(a) = ShaderKey(b) /\ Rank[a.path] < Rank[b.path]
<1>1. Cardinality(Mods) \in Nat BY ShapePatchingAssumption, FS_CardinalityType
<1>2. /\ effective(a) \in Shaders /\ effective(b) \in Shaders
      /\ a.mod \in Mods \cup {NoMod} /\ b.mod \in Mods \cup {NoMod}
      /\ a.mod \in Mods => a.mod # NoMod /\ priority[a.mod] \in 1..Cardinality(Mods)
      /\ b.mod \in Mods => b.mod # NoMod /\ priority[b.mod] \in 1..Cardinality(Mods)
  BY KeysTyped
<1>3. /\ Quality[effective(a)] > Quality[effective(b)] <=> ShaderKey(a) < ShaderKey(b)
      /\ effective(a) = effective(b) <=> ShaderKey(a) = ShaderKey(b)
  BY <1>2 DEF ShaderKey, Quality, Shaders
<1>4. a.mod = b.mod <=> ModKey(a) = ModKey(b)
  BY <1>1, <1>2 DEF ModKey, Chosen
<1>5. \/ a.mod # NoMod /\ b.mod = NoMod
      \/ /\ a.mod # NoMod /\ b.mod # NoMod /\ priority[a.mod] > priority[b.mod]
      <=> ModKey(a) < ModKey(b)
  BY <1>1, <1>2 DEF ModKey
<1> QED BY <1>3, <1>4, <1>5 DEF before

\* Some match comes before all others.
LEMMA FirstExists ==
  ASSUME Chosen, NEW ms, ms # {}, \A m \in ms : WellFormed(m)
  PROVE  \E w \in ms : \A o \in ms : ~ before(o, w)
<1> DEFINE S == {ModKey(m) : m \in ms}
<1>0. \A m \in ms : ModKey(m) \in Nat /\ ShaderKey(m) \in Nat /\ Rank[m.path] \in Nat
  BY KeysTyped
<1>1. PICK k \in S : \A y \in S : k <= y
  <2>1. S \subseteq Nat /\ S # {} BY <1>0
  <2> QED BY <2>1, Least
<1> DEFINE T == {ShaderKey(m) : m \in {n \in ms : ModKey(n) = k}}
<1>2. PICK q \in T : \A y \in T : q <= y
  <2>1. T \subseteq Nat /\ T # {} BY <1>0, <1>1
  <2> QED BY <2>1, Least
<1> DEFINE U == {Rank[m.path] : m \in {n \in ms : ModKey(n) = k /\ ShaderKey(n) = q}}
<1>3. PICK r \in U : \A y \in U : r <= y
  <2>1. U \subseteq Nat /\ U # {} BY <1>0, <1>2
  <2> QED BY <2>1, Least
<1>4. PICK w \in ms : ModKey(w) = k /\ ShaderKey(w) = q /\ Rank[w.path] = r BY <1>3
<1>5. ASSUME NEW o \in ms PROVE ~ before(o, w)
  <2>1. k <= ModKey(o) BY <1>1
  <2>2. ModKey(o) = k => q <= ShaderKey(o) BY <1>2
  <2>3. ModKey(o) = k /\ ShaderKey(o) = q => r <= Rank[o.path] BY <1>3
  <2> QED BY <1>0, <1>4, <2>1, <2>2, <2>3, BeforeIsLexical
<1> QED BY <1>4, <1>5

EnabledOf(ms) == {m \in ms : m.mod = NoMod \/ m.mod \in enabled}
FirstIn(ms, w) == w \in EnabledOf(ms) /\ \A o \in EnabledOf(ms) : ~ before(o, w)

LEMMA FirstOfIsFirst ==
  ASSUME Chosen, NEW ms, EnabledOf(ms) # {}, \A m \in ms : WellFormed(m)
  PROVE  FirstIn(ms, firstOf(EnabledOf(ms), before))
<1> DEFINE e == EnabledOf(ms)
<1>1. \E w \in e : \A o \in e : ~ before(o, w)
  BY FirstExists DEF EnabledOf
<1> HIDE DEF e
<1>2. firstOf(e, before) = CHOOSE w \in e : \A o \in e : ~ before(o, w)
  BY DEF firstOf
<1> QED BY <1>1, <1>2 DEF FirstIn, e

\* The view sorts the matches of mods as the run does.
LEMMA ViewOrder ==
  ASSUME Chosen, NEW a, NEW b, WellFormed(a), WellFormed(b), a.mod \in Mods, b.mod \in Mods
  PROVE  viewBefore(a, b) <=> before(a, b)
<1> DEFINE Above(m) == {o \in Mods : priority[o] > priority[m]}
<1>0. \A m \in Mods : priority[m] \in Int
  <2>1. Cardinality(Mods) \in Nat BY ShapePatchingAssumption, FS_CardinalityType
  <2> QED BY <2>1 DEF Chosen
<1>1. \A m \in Mods : /\ IsFiniteSet(Above(m)) /\ Cardinality(Above(m)) \in Nat
                      /\ priority[m] \in Nat
  <2>1. \A m \in Mods : Above(m) \subseteq Mods OBVIOUS
  <2> QED BY <2>1, ShapePatchingAssumption, FS_Subset, FS_CardinalityType DEF Chosen
<1>2. ASSUME NEW m \in Mods, NEW n \in Mods, priority[m] > priority[n]
      PROVE  Cardinality(Above(m)) < Cardinality(Above(n))
  <2>1. Above(m) \subseteq Above(n) BY <1>0, <1>2
  <2>2. m \in Above(n) /\ m \notin Above(m) BY <1>0, <1>2
  <2>3. Cardinality(Above(m)) <= Cardinality(Above(n))
        /\ (Cardinality(Above(m)) = Cardinality(Above(n)) => Above(m) = Above(n))
    <3> HIDE DEF Above
    <3> QED BY <1>1, <2>1, FS_Subset
  <2> HIDE DEF Above
  <2> QED BY <1>1, <2>2, <2>3
<1>3. /\ rankOf(a) = Cardinality(Above(a.mod)) /\ rankOf(b) = Cardinality(Above(b.mod))
      /\ a.mod # NoMod /\ b.mod # NoMod
  BY ShapePatchingAssumption DEF rankOf
<1> HIDE DEF Above
<1>4. /\ rankOf(a) < rankOf(b) <=> priority[a.mod] > priority[b.mod]
      /\ rankOf(a) = rankOf(b) <=> a.mod = b.mod
  <2>1. priority[a.mod] = priority[b.mod] => a.mod = b.mod BY DEF Chosen
  <2>2. priority[a.mod] > priority[b.mod] => rankOf(a) < rankOf(b) BY <1>2, <1>3
  <2>3. priority[b.mod] > priority[a.mod] => rankOf(b) < rankOf(a) BY <1>2, <1>3
  <2>4. rankOf(a) \in Nat /\ rankOf(b) \in Nat BY <1>1, <1>3
  <2>5. priority[a.mod] \in Nat /\ priority[b.mod] \in Nat BY <1>1
  <2>6. a.mod = b.mod => rankOf(a) = rankOf(b) BY <1>3
  <2> QED BY <2>1, <2>2, <2>3, <2>4, <2>5, <2>6
<1> QED BY <1>3, <1>4 DEF viewBefore, before

LEMMA FirstIsShown ==
  ASSUME Chosen, NEW ms, \A m \in ms : WellFormed(m), Distinct(ms), NEW w, FirstIn(ms, w)
  PROVE  LET shown == {m \in ms : isMatchVisible(m)}
         IN  IF w.mod = NoMod THEN shown = {} ELSE w = firstOf(shown, viewBefore)
<1> DEFINE shown == {m \in ms : isMatchVisible(m)}
<1>1. \A m \in shown : m.mod \in Mods /\ m.mod # NoMod /\ m \in EnabledOf(ms) /\ WellFormed(m)
  BY ShapePatchingAssumption DEF isMatchVisible, Chosen, EnabledOf
<1>2. CASE w.mod = NoMod
  BY <1>1, <1>2 DEF FirstIn, before
<1>3. CASE w.mod # NoMod
  <2>1. w \in shown BY <1>3 DEF FirstIn, EnabledOf, isMatchVisible
  <2>2. \A o \in shown : ~ viewBefore(o, w) BY <1>1, <2>1, ViewOrder DEF FirstIn
  <2>3. ASSUME NEW v \in shown, \A o \in shown : ~ viewBefore(o, v) PROVE v = w
    <3>1. ~ before(w, v) /\ ~ before(v, w) BY <1>1, <2>1, <2>2, <2>3, ViewOrder
    <3>2. /\ ModKey(v) \in Nat /\ ShaderKey(v) \in Nat /\ Rank[v.path] \in Nat
          /\ ModKey(w) \in Nat /\ ShaderKey(w) \in Nat /\ Rank[w.path] \in Nat
          /\ effective(v) \in Shaders /\ effective(w) \in Shaders
          /\ v.path \in Paths /\ w.path \in Paths
      <4>1. WellFormed(v) /\ WellFormed(w) BY <1>1, <2>1
      <4> QED BY <4>1, KeysTyped DEF WellFormed
    <3>3. ShaderKey(v) = ShaderKey(w) /\ Rank[v.path] = Rank[w.path]
      BY <1>1, <2>1, <3>1, <3>2, BeforeIsLexical
    <3>4. effective(v) = effective(w) BY <3>2, <3>3 DEF ShaderKey, Quality, Shaders
    <3>5. v.path = w.path BY <3>2, <3>3, ShapePatchingAssumption
    <3> QED BY <2>1, <3>4, <3>5 DEF Distinct
  <2> HIDE DEF shown
  <2>4. firstOf(shown, viewBefore) = CHOOSE v \in shown : \A o \in shown : ~ viewBefore(o, v)
    BY DEF firstOf
  <2> QED BY <1>3, <2>1, <2>2, <2>3, <2>4 DEF shown
<1> QED BY <1>2, <1>3

-----------------------------------------------------------------------------
(* The entries of a TruePBR match, applied one after the other. *)

ShapeRecords ==
  [type : Types, flags : SUBSET Flags, rigid : BOOLEAN, ignored : BOOLEAN,
   deleted : BOOLEAN, block : Nat]
Items == [shape : ShapeRecords, slots : TextureSets]
EntryCount == Len(Entries)

LEMMA EntriesTyped ==
  /\ EntryCount \in Nat /\ DOMAIN Entries = 1..EntryCount
  /\ \A k \in 1..EntryCount : /\ Entries[k].slot \in Slots
                        /\ DOMAIN Entries[k].slots \subseteq Slots
                        /\ \A s \in DOMAIN Entries[k].slots : Entries[k].slots[s] \in Textures
<1>1. Entries \in Seq(ToSet(Entries)) BY ShapePatchingAssumption
<1>2. EntryCount \in Nat /\ DOMAIN Entries = 1..EntryCount BY <1>1 DEF EntryCount
<1>3. \A k \in 1..EntryCount : Entries[k] \in ToSet(Entries) BY <1>2 DEF ToSet
<1> QED BY <1>2, <1>3, ShapePatchingAssumption

\* A function on 0..n is determined by its first value and its steps.
StepFunctions(n, X) == [1..n -> [X -> X]]
StepsOf(f, n, X, x, G) ==
  f \in [0..n -> X] /\ f[0] = x /\ \A k \in 1..n : f[k] = G[k][f[k - 1]]

LEMMA StepsExist ==
  ASSUME NEW X, NEW n \in Nat, NEW x \in X, NEW G \in StepFunctions(n, X)
  PROVE  \E f : StepsOf(f, n, X, x, G)
<1> USE DEF StepFunctions, StepsOf
<1> DEFINE Up(f, m) == f \in [0..m -> X] /\ f[0] = x /\ \A k \in 1..m : f[k] = G[k][f[k - 1]]
           Missing == {m \in 0..n : \A f : ~ Up(f, m)}
<1>1. CASE Missing = {}
  <2>1. n \in 0..n /\ n \notin Missing
    <3> HIDE DEF Missing
    <3> QED BY <1>1
  <2>2. \E f : Up(f, n)
    <3> HIDE DEF Up
    <3> QED BY <2>1
  <2> QED BY <2>2
<1>2. CASE Missing # {}
  <2>1. PICK m \in Missing : \A y \in Missing : m <= y
    <3>1. Missing \subseteq Nat OBVIOUS
    <3> QED BY <1>2, <3>1, Least
  <2>2. m # 0
    <3>1. Up([k \in 0..0 |-> x], 0) OBVIOUS
    <3> QED BY <2>1, <3>1
  <2>3. m - 1 \in 0..n /\ m - 1 \notin Missing /\ m \in 1..n
    <3> HIDE DEF Up
    <3>1. m \in 0..n BY <2>1
    <3>2. m - 1 \in 0..n /\ ~ (m <= m - 1) /\ m \in 1..n BY <2>2, <3>1
    <3> QED BY <2>1, <3>2
  <2>4. PICK g : Up(g, m - 1)
    <3> HIDE DEF Up
    <3> QED BY <2>3
  <2> DEFINE h == [k \in 0..m |-> IF k = m THEN G[m][g[m - 1]] ELSE g[k]]
  <2>5. Up(h, m)
    <3>1. g[m - 1] \in X /\ G[m][g[m - 1]] \in X BY <2>3, <2>4
    <3>2. h \in [0..m -> X] BY <2>3, <2>4, <3>1
    <3>3. h[0] = x BY <2>3, <2>4
    <3>4. ASSUME NEW k \in 1..m PROVE h[k] = G[k][h[k - 1]]
      <4>1. CASE k = m BY <2>3, <4>1
      <4>2. CASE k # m BY <2>3, <2>4, <4>2
      <4> QED BY <4>1, <4>2
    <3> HIDE DEF h
    <3> QED BY <3>2, <3>3, <3>4
  <2> QED BY <2>1, <2>5
<1> QED BY <1>1, <1>2

LEMMA StepsUnique ==
  ASSUME NEW n \in Nat, NEW f, NEW g, DOMAIN f = 0..n, DOMAIN g = 0..n,
         f = [k \in 0..n |-> f[k]], g = [k \in 0..n |-> g[k]], f[0] = g[0],
         \A k \in 1..n : f[k - 1] = g[k - 1] => f[k] = g[k]
  PROVE  f = g
<1> DEFINE D == {k \in 0..n : f[k] # g[k]}
<1> SUFFICES ASSUME D # {} PROVE FALSE
  <2>1. D = {} => \A k \in 0..n : f[k] = g[k] OBVIOUS
  <2> QED BY <2>1
<1>1. PICK k \in D : \A y \in D : k <= y
  <2>1. D \subseteq Nat OBVIOUS
  <2> QED BY <2>1, Least
<1>2. k # 0 /\ k \in 1..n /\ k - 1 \in 0..n /\ k - 1 \notin D BY <1>1
<1> QED BY <1>1, <1>2

LEMMA OneSlots ==
  ASSUME NEW sl \in TextureSets, NEW k \in 1..EntryCount
  PROVE  applyOnePatchSlots(sl, Entries[k]) \in TextureSets
<1> DEFINE e == Entries[k]
<1>1. DOMAIN e.slots \subseteq Slots /\ \A s \in DOMAIN e.slots : e.slots[s] \in Textures
  BY EntriesTyped
<1> QED BY <1>1 DEF applyOnePatchSlots, TextureSets

LEMMA Remade ==
  ASSUME NEW shape \in ShapeRecords, NEW type \in Types, NEW flags \in SUBSET Flags
  PROVE  LET new == remade(shape, type, flags)
         IN  /\ new \in ShapeRecords /\ new.type = type /\ new.flags = flags
             /\ new.block = shape.block /\ new.deleted = shape.deleted
BY DEF remade, ShapeRecords

LEMMA TruePBRTyped ==
  ASSUME NEW shape \in ShapeRecords, NEW does
  PROVE  LET new == enableTruePBR(shape, does)
         IN  /\ new \in ShapeRecords
             /\ new.type \in {"DEFAULT", "MULTILAYERPARALLAX"}
             /\ Marks \cap new.flags = {"PBR"}
             /\ new.block = shape.block /\ new.deleted = shape.deleted
<1> DEFINE layered == "multilayer" \in does
           coated  == {"multilayer", "glint", "fuzz"} \cap does # {}
           fuzz    == ~layered /\ "glint" \notin does /\ "fuzz" \in does
           type    == IF coated THEN "MULTILAYERPARALLAX" ELSE "DEFAULT"
           cleared == {"ENVIRONMENT_MAPPING", "PARALLAX", "GLOW_MAP"}
                        \cup (IF layered THEN {}
                              ELSE {"MULTI_LAYER_PARALLAX"}
                                   \cup (IF "hair" \in does THEN {} ELSE {"BACK_LIGHTING"})
                                   \cup (IF "fuzz" \in does THEN {} ELSE {"SOFT_LIGHTING"}))
           set     == {"PBR"} \cup (IF layered THEN {"MULTI_LAYER_PARALLAX"} ELSE {})
                        \cup (IF "hair" \in does THEN {"BACK_LIGHTING"} ELSE {})
                        \cup (IF fuzz THEN {"SOFT_LIGHTING"} ELSE {})
<1>1. /\ enableTruePBR(shape, does) = remade(shape, type, (shape.flags \ cleared) \cup set)
      /\ type \in {"DEFAULT", "MULTILAYERPARALLAX"}
      /\ {"ENVIRONMENT_MAPPING", "PARALLAX"} \subseteq cleared
      /\ set \in SUBSET Flags /\ Marks \cap set = {"PBR"}
  <2>1. enableTruePBR(shape, does) = remade(shape, type, (shape.flags \ cleared) \cup set)
    BY DEF enableTruePBR
  <2>2. type \in {"DEFAULT", "MULTILAYERPARALLAX"} OBVIOUS
  <2>3. {"ENVIRONMENT_MAPPING", "PARALLAX"} \subseteq cleared OBVIOUS
  <2>4. /\ {"PBR"} \subseteq set
        /\ set \subseteq {"PBR", "MULTI_LAYER_PARALLAX", "BACK_LIGHTING", "SOFT_LIGHTING"}
    OBVIOUS
  <2>5. set \in SUBSET Flags /\ Marks \cap set = {"PBR"}
    <3> HIDE DEF set
    <3> QED BY <2>4 DEF Flags, Marks
  <2> QED BY <2>1, <2>2, <2>3, <2>5
<1> HIDE DEF type, cleared, set
<1>2. PICK flags : flags = (shape.flags \ cleared) \cup set OBVIOUS
<1>3. flags \in SUBSET Flags /\ Marks \cap flags = {"PBR"} /\ type \in Types
  BY <1>1, <1>2 DEF ShapeRecords, Marks, Types
<1> QED BY <1>1, <1>2, <1>3, Remade

\* Updates of one field of a shape.
LEMMA ShapeFields ==
  ASSUME NEW shape \in ShapeRecords
  PROVE  /\ LET gone == [shape EXCEPT !.deleted = TRUE]
            IN  /\ gone \in ShapeRecords /\ gone.deleted /\ gone.block = shape.block
         /\ \A b \in Nat :
              LET moved == [shape EXCEPT !.block = b]
              IN  /\ moved \in ShapeRecords /\ moved.block = b
                  /\ moved.type = shape.type /\ moved.flags = shape.flags
<1> DEFINE R(d, b) == [type |-> shape.type, flags |-> shape.flags, rigid |-> shape.rigid,
                       ignored |-> shape.ignored, deleted |-> d, block |-> b]
<1>1. shape = R(shape.deleted, shape.block) BY DEF ShapeRecords
<1>2. \A x : [R(shape.deleted, shape.block) EXCEPT !.deleted = x] = R(x, shape.block) OBVIOUS
<1>3. \A b : [R(shape.deleted, shape.block) EXCEPT !.block = b] = R(shape.deleted, b) OBVIOUS
<1>4. [shape EXCEPT !.deleted = TRUE] = R(TRUE, shape.block)
  <2> HIDE DEF R
  <2> QED BY <1>1, <1>2, Zenon
<1>5. \A b : [shape EXCEPT !.block = b] = R(shape.deleted, b)
  <2> HIDE DEF R
  <2> QED BY <1>1, <1>3, Zenon
<1> QED BY <1>4, <1>5 DEF ShapeRecords

LEMMA OneEntry ==
  ASSUME NEW it \in Items, NEW k \in 1..EntryCount
  PROVE  LET new == applyOnePatch(it, Entries[k])
         IN  /\ new \in Items
             /\ new.shape.block = it.shape.block
             /\ it.shape.deleted \/ "delete" \in Entries[k].does => new.shape.deleted
             /\ "pbr" \in Entries[k].does /\ "delete" \notin Entries[k].does =>
                  /\ new.shape.type \in {"DEFAULT", "MULTILAYERPARALLAX"}
                  /\ Marks \cap new.shape.flags = {"PBR"}
<1> DEFINE e == Entries[k]
<1>1. CASE "delete" \in e.does
  <2>1. it.shape \in ShapeRecords /\ it.slots \in TextureSets BY DEF Items
  <2> QED BY <1>1, <2>1, ShapeFields DEF applyOnePatch, Items
<1>2. CASE "delete" \notin e.does /\ "pbr" \in e.does
  <2>1. it.shape \in ShapeRecords /\ it.slots \in TextureSets BY DEF Items
  <2> QED BY <1>2, <2>1, OneSlots, TruePBRTyped DEF applyOnePatch, Items
<1>3. CASE "delete" \notin e.does /\ "pbr" \notin e.does /\ "env_mapping" \in e.does
  <2>1. it.shape \in ShapeRecords /\ it.slots \in TextureSets BY DEF Items
  <2>2. it.shape.flags \cup {"ENVIRONMENT_MAPPING", "BACK_LIGHTING"} \in SUBSET Flags
        /\ "ENVMAP" \in Types
    BY <2>1 DEF ShapeRecords, Flags, Types
  <2> QED BY <1>3, <2>1, <2>2, Remade DEF applyOnePatch, Items
<1>4. CASE "delete" \notin e.does /\ "pbr" \notin e.does /\ "env_mapping" \notin e.does
  BY <1>4 DEF applyOnePatch
<1> QED BY <1>1, <1>2, <1>3, <1>4

LEMMA EntriesSteps ==
  ASSUME NEW it \in Items, NEW places
  PROVE  \E f \in [0..EntryCount -> Items] :
           /\ f[0] = it /\ applyEntries(it, places) = f[EntryCount]
           /\ \A k \in 1..EntryCount :
                f[k] = IF k \in places THEN applyOnePatch(f[k - 1], Entries[k]) ELSE f[k - 1]
<1> DEFINE Body(f) == [k \in 0..EntryCount |->
                         IF k = 0 THEN it
                         ELSE IF k \in places THEN applyOnePatch(f[k - 1], Entries[k])
                              ELSE f[k - 1]]
           G == [k \in 1..EntryCount |-> [x \in Items |->
                   IF k \in places THEN applyOnePatch(x, Entries[k]) ELSE x]]
           u == CHOOSE f : f = Body(f)
<1>0. EntryCount \in Nat BY EntriesTyped
<1>1. G \in [1..EntryCount -> [Items -> Items]] BY OneEntry
<1>2. PICK f \in [0..EntryCount -> Items] :
        f[0] = it /\ \A k \in 1..EntryCount : f[k] = G[k][f[k - 1]]
  <2> HIDE DEF G
  <2>1. G \in StepFunctions(EntryCount, Items) BY <1>1 DEF StepFunctions
  <2>2. PICK f : StepsOf(f, EntryCount, Items, it, G) BY <1>0, <2>1, StepsExist
  <2> QED BY <2>2 DEF StepsOf
<1>3. \A k \in 1..EntryCount :
        f[k] = IF k \in places THEN applyOnePatch(f[k - 1], Entries[k]) ELSE f[k - 1]
  <2> SUFFICES ASSUME NEW k \in 1..EntryCount
               PROVE  f[k] = IF k \in places THEN applyOnePatch(f[k - 1], Entries[k])
                             ELSE f[k - 1]
    OBVIOUS
  <2>1. f[k - 1] \in Items BY <1>0, <1>2
  <2> QED BY <1>2, <2>1
<1>4. f = Body(f)
  <2>1. \A k \in 0..EntryCount : k # 0 => k \in 1..EntryCount BY <1>0
  <2> QED BY <1>2, <1>3, <2>1
<1>5. u = Body(u) BY <1>4
<1>6. u = f
  <2> HIDE DEF u
  <2>1. DOMAIN u = 0..EntryCount /\ u = [k \in 0..EntryCount |-> u[k]] BY <1>5
  <2>2. u[0] = it BY <1>0, <1>5
  <2>3. \A k \in 1..EntryCount :
          u[k] = IF k \in places THEN applyOnePatch(u[k - 1], Entries[k]) ELSE u[k - 1]
    BY <1>0, <1>5
  <2>4. \A k \in 1..EntryCount : u[k - 1] = f[k - 1] => u[k] = f[k] BY <1>3, <2>3
  <2>5. DOMAIN f = 0..EntryCount /\ f = [k \in 0..EntryCount |-> f[k]] BY <1>2
  <2> QED BY <1>0, <1>2, <2>1, <2>2, <2>4, <2>5, StepsUnique
<1>7. applyEntries(it, places) = u[EntryCount] BY DEF applyEntries, EntryCount
<1> QED BY <1>2, <1>3, <1>6, <1>7

\* What the entries of a match make of a shape.
LEMMA EntriesApplied ==
  ASSUME NEW it \in Items, NEW places, places \subseteq 1..EntryCount
  PROVE  LET new == applyEntries(it, places)
         IN  /\ new \in Items
             /\ new.shape.block = it.shape.block
             /\ deletes(places) => new.shape.deleted
             /\ ~ new.shape.deleted /\ places # {}
                  /\ (\A i \in places : "pbr" \in Entries[i].does) =>
                  /\ new.shape.type \in {"DEFAULT", "MULTILAYERPARALLAX"}
                  /\ Marks \cap new.shape.flags = {"PBR"}
<1>0. EntryCount \in Nat BY EntriesTyped
<1>1. PICK f \in [0..EntryCount -> Items] :
           /\ f[0] = it /\ applyEntries(it, places) = f[EntryCount]
           /\ \A k \in 1..EntryCount :
                f[k] = IF k \in places THEN applyOnePatch(f[k - 1], Entries[k]) ELSE f[k - 1]
  BY EntriesSteps
<1> DEFINE Right(k) ==
      /\ f[k].shape.block = it.shape.block
      /\ (\E i \in places : i <= k /\ "delete" \in Entries[i].does) => f[k].shape.deleted
      /\ (\E i \in places : i <= k) /\ ~ f[k].shape.deleted
           /\ (\A i \in places : "pbr" \in Entries[i].does) =>
           /\ f[k].shape.type \in {"DEFAULT", "MULTILAYERPARALLAX"}
           /\ Marks \cap f[k].shape.flags = {"PBR"}
    Wrong == {k \in 0..EntryCount : ~ Right(k)}
<1>2. \A k \in 0..EntryCount : f[k] \in Items BY <1>1
<1>3. Right(0)
  <2>1. \A i \in places : ~ (i <= 0) BY <1>0
  <2> QED BY <1>1, <2>1
<1>4. ASSUME NEW k \in 1..EntryCount, Right(k - 1) PROVE Right(k)
  <2>1. f[k - 1] \in Items BY <1>0, <1>2
  <2>2. \A i \in places : i <= k <=> i <= k - 1 \/ i = k BY <1>0
  <2>3. CASE k \in places
    <3>1. f[k] = applyOnePatch(f[k - 1], Entries[k]) BY <1>1, <2>3
    <3> HIDE DEF Right
    <3> DEFINE g == f[k - 1]
               h == f[k]
    <3>a. g \in Items /\ h = applyOnePatch(g, Entries[k]) BY <2>1, <3>1
    <3> HIDE DEF g, h
    <3>b. /\ h.shape.block = g.shape.block
          /\ g.shape.deleted \/ "delete" \in Entries[k].does => h.shape.deleted
          /\ "pbr" \in Entries[k].does /\ "delete" \notin Entries[k].does =>
                  /\ h.shape.type \in {"DEFAULT", "MULTILAYERPARALLAX"}
                  /\ Marks \cap h.shape.flags = {"PBR"}
      BY <3>a, OneEntry, Zenon
    <3>2. /\ f[k].shape.block = f[k - 1].shape.block
          /\ f[k - 1].shape.deleted \/ "delete" \in Entries[k].does => f[k].shape.deleted
          /\ "pbr" \in Entries[k].does /\ "delete" \notin Entries[k].does =>
                  /\ f[k].shape.type \in {"DEFAULT", "MULTILAYERPARALLAX"}
                  /\ Marks \cap f[k].shape.flags = {"PBR"}
      BY <3>b DEF g, h
    <3> QED BY <1>4, <2>2, <2>3, <3>2 DEF Right
  <2>4. CASE k \notin places
    <3>1. f[k] = f[k - 1] BY <1>1, <2>4
    <3>2. \A i \in places : i <= k <=> i <= k - 1 BY <2>2, <2>4
    <3> QED BY <1>4, <3>1, <3>2
  <2> QED BY <2>3, <2>4
<1> HIDE DEF Right
<1>5. Right(EntryCount)
  <2> SUFFICES ASSUME Wrong # {} PROVE FALSE BY <1>0
  <2>1. PICK k \in Wrong : \A y \in Wrong : k <= y
    <3>1. Wrong \subseteq Nat OBVIOUS
    <3> QED BY <3>1, Least
  <2>2. k # 0 BY <1>3, <2>1
  <2>3. k \in 1..EntryCount /\ k - 1 \in 0..EntryCount /\ ~ (k <= k - 1) BY <1>0, <2>1, <2>2
  <2> QED BY <1>4, <2>1, <2>3
<1>6. \A i \in places : i <= EntryCount BY <1>0
<1>7. f[EntryCount] \in Items BY <1>0, <1>2
<1> QED BY <1>1, <1>5, <1>6, <1>7 DEF Right, deletes

-----------------------------------------------------------------------------
(* What the shader patchers and the post patchers make of a shape. *)

LEMMA TexturesOf ==
  /\ Files \subseteq Textures /\ Outputs \subseteq Textures
  /\ DynCubemap \in Textures /\ None \in Textures
  /\ \A t \in DOMAIN SSSOutput : SSSOutput[t] \in Outputs /\ t \in Textures
  /\ \A t \in DOMAIN CMOutput : CMOutput[t] \in Outputs
  /\ \A t \in Textures : t # None => t \in DOMAIN SSSOutput
BY ShapePatchingAssumption DEF Textures, Outputs, Range

LEMMA Transformed ==
  ASSUME NEW w, WellFormed(w)
  PROVE  LET m == transform(w)
         IN  /\ m.shader = effective(w) /\ m.shader \in Shaders
             /\ m.entries = w.entries /\ m.entries \subseteq 1..EntryCount
             /\ m.shader \in {"parallax", "complexMaterial"} =>
                  /\ m.path \in Textures
                  /\ \/ m.path \in Files
                     \/ w.to # None /\ m.path = CMOutput[w.path] /\ m.path \in Outputs
             /\ m.shader = "parallax" => m.path \in Files
<1>1. CASE w.to = None
  BY <1>1, TexturesOf, EntriesTyped, ShapePatchingAssumption
     DEF WellFormed, transform, effective, Shaders
<1>2. CASE w.to # None
  BY <1>2, TexturesOf, EntriesTyped, ShapePatchingAssumption
     DEF WellFormed, transform, effective, Shaders
<1> QED BY <1>1, <1>2

LEMMA ShaderApplied ==
  ASSUME NEW it \in Items, NEW m, m.shader \in Shaders, m.entries \subseteq 1..EntryCount,
         m.shader \in {"parallax", "complexMaterial"} => m.path \in Textures
  PROVE  LET new == applyPatch(it, m)
         IN  /\ new \in Items /\ new.shape.block = it.shape.block
             /\ m.shader = "parallax" =>
                  /\ new.shape.type = "PARALLAX" /\ Marks \cap new.shape.flags = {"PARALLAX"}
                  /\ new.slots["parallax"] = m.path
             /\ m.shader = "complexMaterial" =>
                  /\ new.shape.type = "ENVMAP"
                  /\ Marks \cap new.shape.flags = {"ENVIRONMENT_MAPPING"}
                  /\ new.slots["envmask"] = m.path
                  /\ new.slots["cubemap"] \in {DynCubemap, it.slots["cubemap"]}
             /\ m.shader = "truePBR" =>
                  (~ new.shape.deleted /\ m.entries # {}
                     /\ (\A i \in m.entries : "pbr" \in Entries[i].does) =>
                     /\ new.shape.type \in {"DEFAULT", "MULTILAYERPARALLAX"}
                     /\ Marks \cap new.shape.flags = {"PBR"})
<1>0. it.shape \in ShapeRecords /\ it.slots \in TextureSets /\ it.shape.flags \in SUBSET Flags
  BY DEF Items, ShapeRecords
<1>1. CASE m.shader = "parallax"
  <2> DEFINE flags == (it.shape.flags \ {"ENVIRONMENT_MAPPING", "PBR", "MULTI_LAYER_PARALLAX"})
                        \cup {"PARALLAX"}
             new == applyPatch(it, m)
  <2>1. new = applyParallax(it, m) BY <1>1 DEF applyPatch
  <2>2. new.shape = remade(it.shape, "PARALLAX", flags)
        /\ new.slots = [it.slots EXCEPT !["parallax"] = m.path]
        /\ new = [shape |-> new.shape, slots |-> new.slots]
    BY <2>1 DEF applyParallax
  <2>3. flags \in SUBSET Flags /\ Marks \cap flags = {"PARALLAX"} /\ "PARALLAX" \in Types
    BY <1>0 DEF Flags, Marks, Types
  <2>4. new.slots \in TextureSets /\ new.slots["parallax"] = m.path
    BY <1>0, <1>1, <2>2 DEF TextureSets, Slots
  <2> HIDE DEF flags, new
  <2>5. /\ new.shape \in ShapeRecords /\ new.shape.block = it.shape.block
        /\ new.shape.type = "PARALLAX" /\ Marks \cap new.shape.flags = {"PARALLAX"}
    BY <1>0, <2>2, <2>3, Remade
  <2> QED BY <1>1, <2>2, <2>4, <2>5 DEF Items, new
<1>2. CASE m.shader = "complexMaterial"
  <2> DEFINE flags == (it.shape.flags \ {"PARALLAX", "PBR", "MULTI_LAYER_PARALLAX"})
                        \cup {"ENVIRONMENT_MAPPING"}
             new == applyPatch(it, m)
  <2>1. new = applyCM(it, m) BY <1>2 DEF applyPatch
  <2>2. /\ new.shape = remade(it.shape, "ENVMAP", flags)
        /\ new.slots = [it.slots EXCEPT !["parallax"] = None, !["envmask"] = m.path,
                !["cubemap"] = IF "disableDynCubemap" \in options \/ m.path \in StaticCubemap
                               THEN @ ELSE DynCubemap]
        /\ new = [shape |-> new.shape, slots |-> new.slots]
    BY <2>1 DEF applyCM
  <2>3. flags \in SUBSET Flags /\ Marks \cap flags = {"ENVIRONMENT_MAPPING"} /\ "ENVMAP" \in Types
    BY <1>0 DEF Flags, Marks, Types
  <2>4. /\ new.slots \in TextureSets /\ new.slots["envmask"] = m.path
        /\ new.slots["cubemap"] \in {DynCubemap, it.slots["cubemap"]}
    BY <1>0, <1>2, <2>2, TexturesOf DEF TextureSets, Slots
  <2> HIDE DEF flags, new
  <2>5. /\ new.shape \in ShapeRecords /\ new.shape.block = it.shape.block
        /\ new.shape.type = "ENVMAP" /\ Marks \cap new.shape.flags = {"ENVIRONMENT_MAPPING"}
    BY <1>0, <2>2, <2>3, Remade
  <2> QED BY <1>2, <2>2, <2>4, <2>5 DEF Items, new
<1>3. CASE m.shader = "truePBR"
  <2>1. applyPatch(it, m) = applyEntries(it, m.entries) BY <1>3 DEF applyPatch
  <2> QED BY <1>3, <2>1, EntriesApplied
<1>4. CASE m.shader = "default"
  BY <1>4 DEF applyPatch
<1> QED BY <1>1, <1>2, <1>3, <1>4 DEF Shaders

\* One post patcher: the marks that are not of the shader it restores stay.
LEMMA Restored ==
  ASSUME NEW it \in Items
  PROVE  LET new == RestoreDefaultShaders(it)
         IN  /\ new \in Items /\ new.shape.block = it.shape.block
             /\ it.shape.type \notin {"PARALLAX", "ENVMAP"} => new = it
             /\ it.shape.type = "PARALLAX" /\ isFile(it.slots["parallax"]) => new = it
             /\ it.shape.type = "ENVMAP" /\ envMaskValid(it.slots) =>
                  \/ new = it
                  \/ /\ new.shape.type = "DEFAULT" /\ ~ cubemapValid(it.slots)
                     /\ new.shape.flags = it.shape.flags \ {"ENVIRONMENT_MAPPING"}
<1>0. it.shape \in ShapeRecords /\ it.slots \in TextureSets /\ it.shape.flags \in SUBSET Flags
  BY DEF Items, ShapeRecords
<1> DEFINE p == restoreFromParallax(it)
<1>1. /\ p \in Items /\ p.shape.block = it.shape.block
      /\ it.shape.type # "PARALLAX" \/ isFile(it.slots["parallax"]) => p = it
      /\ it.shape.type = "PARALLAX" /\ ~ isFile(it.slots["parallax"]) => p.shape.type = "DEFAULT"
  <2>1. CASE it.shape.type # "PARALLAX" \/ isFile(it.slots["parallax"])
    BY <2>1 DEF restoreFromParallax
  <2>2. CASE it.shape.type = "PARALLAX" /\ ~ isFile(it.slots["parallax"])
    <3> DEFINE flags == it.shape.flags \ {"PARALLAX"}
    <3>1. p = [shape |-> remade(it.shape, "DEFAULT", flags),
               slots |-> [it.slots EXCEPT !["parallax"] = None]]
      BY <2>2 DEF restoreFromParallax
    <3>2. flags \in SUBSET Flags /\ "DEFAULT" \in Types BY <1>0 DEF Types
    <3>3. [it.slots EXCEPT !["parallax"] = None] \in TextureSets
      BY <1>0, TexturesOf DEF TextureSets
    <3> HIDE DEF p, flags
    <3> QED BY <1>0, <2>2, <3>1, <3>2, <3>3, Remade DEF Items
  <2> QED BY <2>1, <2>2
<1> DEFINE c == restoreFromComplexMaterial(p)
<1> HIDE DEF p
<1>2. /\ c \in Items /\ c.shape.block = p.shape.block
      /\ p.shape.type # "ENVMAP" => c = p
      /\ p.shape.type = "ENVMAP" /\ envMaskValid(p.slots) =>
           \/ c = p
           \/ /\ c.shape.type = "DEFAULT" /\ ~ cubemapValid(p.slots)
              /\ c.shape.flags = p.shape.flags \ {"ENVIRONMENT_MAPPING"}
  <2>1. CASE p.shape.type # "ENVMAP" \/ (cubemapValid(p.slots) /\ envMaskValid(p.slots))
    BY <1>1, <2>1 DEF restoreFromComplexMaterial
  <2>2. CASE p.shape.type = "ENVMAP" /\ ~ (cubemapValid(p.slots) /\ envMaskValid(p.slots))
    <3> DEFINE flags == p.shape.flags \ {"ENVIRONMENT_MAPPING"}
    <3>0. p.shape \in ShapeRecords /\ p.slots \in TextureSets /\ p.shape.flags \in SUBSET Flags
      BY <1>1 DEF Items, ShapeRecords
    <3>1. c = [shape |-> remade(p.shape, "DEFAULT", flags),
               slots |-> [p.slots EXCEPT !["cubemap"] = None, !["envmask"] = None]]
      BY <2>2 DEF restoreFromComplexMaterial
    <3>2. flags \in SUBSET Flags /\ "DEFAULT" \in Types BY <3>0 DEF Types
    <3>3. [p.slots EXCEPT !["cubemap"] = None, !["envmask"] = None] \in TextureSets
      BY <3>0, TexturesOf DEF TextureSets
    <3>4. /\ remade(p.shape, "DEFAULT", flags) \in ShapeRecords
          /\ remade(p.shape, "DEFAULT", flags).type = "DEFAULT"
          /\ remade(p.shape, "DEFAULT", flags).flags = flags
          /\ remade(p.shape, "DEFAULT", flags).block = p.shape.block
      <4> HIDE DEF flags
      <4> QED BY <3>0, <3>2, Remade
    <3> HIDE DEF c
    <3> QED BY <2>2, <3>1, <3>3, <3>4 DEF Items
  <2> QED BY <2>1, <2>2
<1> HIDE DEF c
<1>3. RestoreDefaultShaders(it) = IF "restore" \in options THEN c ELSE it
  BY DEF RestoreDefaultShaders, c, p
<1>4. it.shape.type = "ENVMAP" => p = it BY <1>1
<1> QED BY <1>1, <1>2, <1>3, <1>4

LEMMA PostApplied ==
  ASSUME NEW it \in Items
  PROVE  LET new == HairFlowMap(FixSSS(it))
         IN  /\ new \in Items /\ new.shape.block = it.shape.block
             /\ new.shape.type = it.shape.type
             /\ Marks \cap new.shape.flags = Marks \cap it.shape.flags
<1> DEFINE f == FixSSS(it)
<1>0. it.shape \in ShapeRecords /\ it.slots \in TextureSets /\ it.shape.flags \in SUBSET Flags
  BY DEF Items, ShapeRecords
<1>1. f \in Items /\ f.shape = it.shape
  <2>1. CASE needsFixSSS(it)
    <3>1. it.slots["diffuse"] \in Textures /\ it.slots["diffuse"] # None
      BY <1>0, <2>1 DEF needsFixSSS, TextureSets, Slots
    <3>2. SSSOutput[it.slots["diffuse"]] \in Textures BY <3>1, TexturesOf
    <3>3. [it.slots EXCEPT !["glow"] = SSSOutput[it.slots["diffuse"]]] \in TextureSets
      BY <1>0, <3>2 DEF TextureSets
    <3> QED BY <1>0, <2>1, <3>3 DEF FixSSS, Items
  <2>2. CASE ~ needsFixSSS(it)
    BY <2>2 DEF FixSSS
  <2> QED BY <2>1, <2>2
<1> DEFINE h == HairFlowMap(f)
<1> HIDE DEF f
<1>2. f.slots \in TextureSets BY <1>1 DEF Items
<1>3. /\ h \in Items /\ h.shape.block = f.shape.block /\ h.shape.type = f.shape.type
      /\ Marks \cap h.shape.flags = Marks \cap f.shape.flags
  <2>1. CASE h = f BY <1>1, <2>1
  <2>2. CASE h # f
    <3> DEFINE n == f.slots["normal"]
               t == CHOOSE u \in FlowMaps[n] : TRUE
               flags == f.shape.flags \cup {"BACK_LIGHTING"}
    <3>1. /\ n \in Files /\ FlowMaps[n] # {}
          /\ h = [shape |-> remade(f.shape, f.shape.type, flags),
                  slots |-> [f.slots EXCEPT !["backlight"] = t]]
      BY <2>2 DEF HairFlowMap
    <3>2. t \in Textures BY <3>1, TexturesOf, ShapePatchingAssumption
    <3>3. [f.slots EXCEPT !["backlight"] = t] \in TextureSets
      <4> HIDE DEF t
      <4> QED BY <1>2, <3>2 DEF TextureSets
    <3>4. flags \in SUBSET Flags /\ Marks \cap flags = Marks \cap f.shape.flags
          /\ f.shape.type \in Types
      BY <1>0, <1>1 DEF Flags, Marks, ShapeRecords
    <3> HIDE DEF t, flags, h
    <3> QED BY <1>0, <1>1, <3>1, <3>3, <3>4, Remade DEF Items
  <2> QED BY <2>1, <2>2
<1> QED BY <1>1, <1>3 DEF f, h

-----------------------------------------------------------------------------
(* The inductive invariant.                                                *)

Steps == {"match", "apply", "post", "finish", "done"}

Typing ==
  /\ Chosen
  /\ step \in [NIFs -> Steps] /\ cur \in [NIFs -> Nat] /\ slots \in [NIFs -> TextureSets]
  /\ shapes \in [NIFs -> Seq(ShapeRecords)] /\ blocks \in [NIFs -> Seq(TextureSets)]
  /\ DOMAIN matches = NIFs /\ DOMAIN winner = NIFs
  /\ DOMAIN altTextures = NIFs /\ DOMAIN cache = NIFs
  /\ generated \subseteq Outputs
  /\ hooks = [cm |-> hooks.cm, sss |-> hooks.sss]
  /\ hooks.cm \subseteq Files /\ hooks.sss \subseteq DOMAIN SSSOutput
  /\ conflicts \subseteq Mods \X Mods

\* The mesh keeps its shapes, and every shape has a texture set.
MeshInv(n) ==
  /\ Len(shapes[n]) = Len(setup[n].shapes) /\ Len(setup[n].blocks) <= Len(blocks[n])
  /\ \A i \in DOMAIN shapes[n] : shapes[n][i].block \in DOMAIN blocks[n]
  /\ DOMAIN altTextures[n] = DOMAIN setup[n].alternate
  /\ \A i \in DOMAIN altTextures[n] : altTextures[n][i] \in TextureSets
  /\ cur[n] \in 1..(Len(shapes[n]) + 1)
  /\ step[n] \in {"match", "apply", "post"} => cur[n] <= Len(shapes[n])

\* The shapes still to come are as they were found.
FoundInv(n) ==
  \A i \in DOMAIN shapes[n] :
    /\ cur[n] <= i => shapes[n][i].block = setup[n].shapes[i].block
    /\ cur[n] < i \/ (cur[n] = i /\ step[n] \in {"match", "apply"}) =>
         shapes[n][i] = setup[n].shapes[i]
    /\ cur[n] <= i /\ i \in DOMAIN altTextures[n] =>
         altTextures[n][i] = setup[n].alternate[i]

\* Texture sets that were patched are cached as they were found, with what
\* was made of them; those results are never written again.
Fixed(n, b) == step[n] = "done" \/ b \in DOMAIN cache[n] \/ Len(setup[n].blocks) < b
CacheInv(n) ==
  /\ DOMAIN cache[n] \subseteq DOMAIN setup[n].blocks
  /\ \A b \in DOMAIN cache[n] :
       /\ cache[n][b] = cached(setup[n].blocks[b], cache[n][b].results)
       /\ \A r \in DOMAIN cache[n][b].results :
            r \in DOMAIN blocks[n] /\ blocks[n][r] = cache[n][b].results[r] /\ Fixed(n, r)
  /\ step[n] # "done" =>
       \A b \in DOMAIN setup[n].blocks :
         b \notin DOMAIN cache[n] => blocks[n][b] = setup[n].blocks[b]

FoundSetAt(n, i) ==
  IF i \in DOMAIN setup[n].alternate THEN setup[n].alternate[i]
  ELSE setup[n].blocks[setup[n].shapes[i].block]

\* Between the steps of a shape: its matches, and after the winner's patch
\* what a shape with its shader has.
MatchInv(n) ==
  /\ \A m \in matches[n] : WellFormed(m)
  /\ step[n] \in {"apply", "post"} =>
       GoodMatches(matches[n], setup[n].shapes[cur[n]], setup[n].use)
  /\ step[n] = "apply" => slots[n] = FoundSetAt(n, cur[n]) /\ winner[n] = NoMatch

HasShader(w, shape, sl, cubemap) ==
  /\ effective(w) = "parallax" =>
       /\ shape.type = "PARALLAX" /\ Marks \cap shape.flags = {"PARALLAX"}
       /\ isFile(sl["parallax"])
  /\ effective(w) = "complexMaterial" =>
       /\ shape.type = "ENVMAP" /\ Marks \cap shape.flags = {"ENVIRONMENT_MAPPING"}
       /\ isFile(sl["envmask"]) /\ sl["cubemap"] \in {DynCubemap, cubemap}
  /\ effective(w) = "truePBR" /\ w.entries # {}
       /\ (\A i \in w.entries : "pbr" \in Entries[i].does) =>
       shape.type \in {"DEFAULT", "MULTILAYERPARALLAX"} /\ Marks \cap shape.flags = {"PBR"}

AppliedInv(n) ==
  step[n] = "post" =>
    \/ winner[n] = NoMatch
    \/ /\ FirstIn(matches[n], winner[n])
       /\ HasShader(winner[n], Shape(n), slots[n], FoundSetAt(n, cur[n])["cubemap"])

JobInv(n) == MeshInv(n) /\ FoundInv(n) /\ CacheInv(n) /\ MatchInv(n) /\ AppliedInv(n)

\* What is known of a shape the patchers are done with, for good ...
RightRecord(r) ==
  /\ GoodMatches(r.matches, Found(r), setup[r.nif].use)
  /\ Patched(r) => FirstIn(r.matches, r.winner) /\ ShaderKept(r)

\* ... and of where its textures are.
OwnRecord(r) ==
  /\ r.nif \in NIFs /\ r.place \in 1..(cur[r.nif] - 1)
  /\ IF r.place \in DOMAIN altTextures[r.nif]
     THEN r.textures = altTextures[r.nif][r.place]
     ELSE LET b == shapes[r.nif][r.place].block
          IN  r.textures = blocks[r.nif][b] /\ Fixed(r.nif, b)

DoneInv == \A r \in done : RightRecord(r) /\ OwnRecord(r)

IInv == Typing /\ (\A n \in NIFs : JobInv(n)) /\ DoneInv

LEMMA SetupTyped ==
  ASSUME Chosen, NEW n \in NIFs
  PROVE  /\ setup[n].shapes \in Seq(ShapeRecords) /\ setup[n].shapes # <<>>
         /\ setup[n].blocks \in Seq(TextureSets)
         /\ \A i \in DOMAIN setup[n].shapes : setup[n].shapes[i].block \in DOMAIN setup[n].blocks
         /\ \A i \in DOMAIN setup[n].alternate : setup[n].alternate[i] \in TextureSets
         /\ \A i \in DOMAIN setup[n].shapes : FoundSetAt(n, i) \in TextureSets
<1>1. /\ setup[n].shapes \in Seq(FoundShapes) /\ setup[n].shapes # <<>>
      /\ setup[n].blocks \in Seq(TextureSets)
      /\ \A i \in DOMAIN setup[n].shapes : setup[n].shapes[i].block \in DOMAIN setup[n].blocks
      /\ \A i \in DOMAIN setup[n].alternate : setup[n].alternate[i] \in TextureSets
  BY ShapePatchingAssumption DEF Chosen
<1>2. FoundShapes \subseteq ShapeRecords BY DEF FoundShapes, ShapeRecords
<1>3. setup[n].shapes \in Seq(ShapeRecords) BY <1>1, <1>2
<1>4. \A i \in DOMAIN setup[n].shapes : FoundSetAt(n, i) \in TextureSets
  BY <1>1 DEF FoundSetAt
<1> QED BY <1>1, <1>3, <1>4

LEMMA IInvInit == Init => IInv
<1> SUFFICES ASSUME Init PROVE IInv OBVIOUS
<1>1. Chosen BY DEF Init, Chosen, IsInjective
<1>2. [s \in Slots |-> None] \in TextureSets BY TexturesOf DEF TextureSets
<1>3. Typing
  BY <1>1, <1>2, SetupTyped DEF Init, Typing, Steps
<1>4. ASSUME NEW n \in NIFs PROVE JobInv(n)
  <2>1. /\ shapes[n] = setup[n].shapes /\ blocks[n] = setup[n].blocks
        /\ altTextures[n] = setup[n].alternate /\ cache[n] = NoCache
        /\ cur[n] = 1 /\ step[n] = "match" /\ matches[n] = {}
    BY DEF Init
  <2>2. MeshInv(n) BY <1>1, <2>1, SetupTyped DEF MeshInv
  <2>3. FoundInv(n) BY <2>1 DEF FoundInv
  <2>4. CacheInv(n) BY <2>1 DEF CacheInv, NoCache
  <2>5. MatchInv(n) /\ AppliedInv(n) BY <2>1 DEF MatchInv, AppliedInv
  <2> QED BY <2>2, <2>3, <2>4, <2>5 DEF JobInv
<1>5. DoneInv BY DEF Init, DoneInv
<1> QED BY <1>3, <1>4, <1>5 DEF IInv

\* The job of a mesh is not disturbed by those of the others.
LEMMA OtherJobs ==
  ASSUME NEW o \in NIFs, JobInv(o), UNCHANGED chosen, generated \subseteq generated',
         step'[o] = step[o], cur'[o] = cur[o], slots'[o] = slots[o],
         matches'[o] = matches[o], winner'[o] = winner[o], shapes'[o] = shapes[o],
         blocks'[o] = blocks[o], altTextures'[o] = altTextures[o], cache'[o] = cache[o]
  PROVE  JobInv(o)'
<1>0. options' = options /\ enabled' = enabled /\ priority' = priority /\ setup' = setup
  BY DEF chosen
<1>1. MeshInv(o)' BY <1>0 DEF JobInv, MeshInv
<1>2. FoundInv(o)' BY <1>0 DEF JobInv, FoundInv
<1>3. CacheInv(o)' BY <1>0 DEF JobInv, CacheInv, Fixed
<1>4. MatchInv(o)' BY <1>0 DEF JobInv, MatchInv, FoundSetAt
<1>5. AppliedInv(o)'
  BY <1>0 DEF JobInv, AppliedInv, FoundSetAt, HasShader, Shape, isFile, FirstIn, EnabledOf, before
<1> QED BY <1>1, <1>2, <1>3, <1>4, <1>5 DEF JobInv

\* Nor are their finished shapes.
LEMMA OtherRecords ==
  ASSUME NEW r, RightRecord(r), UNCHANGED chosen
  PROVE  /\ RightRecord(r)'
         /\ OwnRecord(r) /\ step'[r.nif] = step[r.nif] /\ cur'[r.nif] = cur[r.nif]
              /\ shapes'[r.nif] = shapes[r.nif] /\ blocks'[r.nif] = blocks[r.nif]
              /\ altTextures'[r.nif] = altTextures[r.nif] /\ cache'[r.nif] = cache[r.nif]
              => OwnRecord(r)'
<1>0. options' = options /\ enabled' = enabled /\ priority' = priority /\ setup' = setup
  BY DEF chosen
<1>1. RightRecord(r)'
  BY <1>0 DEF RightRecord, Found, FoundSet, Patched, ShaderKept, FirstIn, EnabledOf, before
<1>2. OwnRecord(r) /\ step'[r.nif] = step[r.nif] /\ cur'[r.nif] = cur[r.nif]
        /\ shapes'[r.nif] = shapes[r.nif] /\ blocks'[r.nif] = blocks[r.nif]
        /\ altTextures'[r.nif] = altTextures[r.nif] /\ cache'[r.nif] = cache[r.nif]
      => OwnRecord(r)'
  BY <1>0 DEF OwnRecord, Fixed
<1> QED BY <1>1, <1>2

Others(n) ==
  \A o \in NIFs \ {n} :
    /\ step'[o] = step[o] /\ cur'[o] = cur[o] /\ slots'[o] = slots[o]
    /\ matches'[o] = matches[o] /\ winner'[o] = winner[o] /\ shapes'[o] = shapes[o]
    /\ blocks'[o] = blocks[o] /\ altTextures'[o] = altTextures[o] /\ cache'[o] = cache[o]

LEMMA OneJob ==
  ASSUME IInv, NEW n \in NIFs, UNCHANGED chosen, generated \subseteq generated', Others(n),
         Typing', JobInv(n)',
         \A r \in done' : r \in done \/ (RightRecord(r)' /\ OwnRecord(r)'),
         \A r \in done : r.nif = n /\ OwnRecord(r) => OwnRecord(r)'
  PROVE  IInv'
<1>1. ASSUME NEW o \in NIFs PROVE JobInv(o)'
  <2>1. CASE o = n BY <2>1
  <2>2. CASE o # n
    <3>1. JobInv(o) BY DEF IInv
    <3> QED BY <2>2, <3>1, OtherJobs DEF Others
  <2> QED BY <2>1, <2>2
<1>2. ASSUME NEW r \in done' PROVE RightRecord(r)' /\ OwnRecord(r)'
  <2>1. CASE r \in done
    <3>1. RightRecord(r) /\ OwnRecord(r) BY <2>1 DEF IInv, DoneInv
    <3>2. RightRecord(r)' BY <3>1, OtherRecords
    <3>3. CASE r.nif = n BY <2>1, <3>1, <3>2, <3>3
    <3>4. CASE r.nif # n
      <4>1. r.nif \in NIFs \ {n} BY <3>1, <3>4 DEF OwnRecord
      <4> QED BY <3>1, <3>2, <4>1, OtherRecords DEF Others
    <3> QED BY <3>3, <3>4
  <2>2. CASE r \notin done BY <2>2
  <2> QED BY <2>1, <2>2
<1>3. DoneInv' BY <1>2 DEF DoneInv
<1> QED BY <1>1, <1>3 DEF IInv

\* The texture set of a shape that is matched is the one it was found with.
LEMMA ShapeFound ==
  ASSUME IInv, NEW n \in NIFs, step[n] \in {"match", "apply", "post"}
  PROVE  /\ cur[n] \in DOMAIN shapes[n] /\ cur[n] \in DOMAIN setup[n].shapes
         /\ cur[n] \in 1..Len(shapes[n])
         /\ Shape(n) \in ShapeRecords
         /\ Shape(n).block = setup[n].shapes[cur[n]].block
         /\ Shape(n).block \in DOMAIN setup[n].blocks
         /\ step[n] # "post" => Shape(n) = setup[n].shapes[cur[n]]
         /\ getTextureSet(n) = setup[n].blocks[Shape(n).block]
         /\ (IF cur[n] \in DOMAIN altTextures[n] THEN altTextures[n][cur[n]]
             ELSE getTextureSet(n)) = FoundSetAt(n, cur[n])
         /\ FoundSetAt(n, cur[n]) \in TextureSets
<1>1. Typing /\ JobInv(n) BY DEF IInv
<1>2. shapes[n] \in Seq(ShapeRecords) /\ setup[n].shapes \in Seq(ShapeRecords)
  BY <1>1, SetupTyped DEF Typing
<1>3. cur[n] \in 1..Len(shapes[n]) /\ Len(shapes[n]) = Len(setup[n].shapes)
  BY <1>1, <1>2 DEF JobInv, MeshInv
<1>4. cur[n] \in DOMAIN shapes[n] /\ cur[n] \in DOMAIN setup[n].shapes BY <1>2, <1>3
<1>5. Shape(n) \in ShapeRecords BY <1>2, <1>4 DEF Shape
<1>6. /\ Shape(n).block = setup[n].shapes[cur[n]].block
      /\ step[n] # "post" => Shape(n) = setup[n].shapes[cur[n]]
  BY <1>1, <1>3, <1>4 DEF JobInv, FoundInv, Shape
<1>7. Shape(n).block \in DOMAIN setup[n].blocks BY <1>1, <1>4, <1>6, SetupTyped DEF Typing
<1>8. getTextureSet(n) = setup[n].blocks[Shape(n).block]
  <2> DEFINE b == Shape(n).block
  <2>1. b \in DOMAIN setup[n].blocks BY <1>7
  <2>2. getTextureSet(n) = IF b \in DOMAIN cache[n] THEN cache[n][b].original ELSE blocks[n][b]
    BY DEF getTextureSet
  <2> HIDE DEF b
  <2>3. b \in DOMAIN cache[n] => cache[n][b] = cached(setup[n].blocks[b], cache[n][b].results)
    BY <1>1 DEF JobInv, CacheInv
  <2>4. \A x, y : cached(x, y).original = x BY DEF cached
  <2>5. b \in DOMAIN cache[n] => cache[n][b].original = setup[n].blocks[b] BY <2>3, <2>4
  <2>6. b \notin DOMAIN cache[n] => blocks[n][b] = setup[n].blocks[b]
    BY <1>1, <2>1 DEF JobInv, CacheInv
  <2> QED BY <2>2, <2>5, <2>6 DEF b
<1>9. (IF cur[n] \in DOMAIN altTextures[n] THEN altTextures[n][cur[n]]
       ELSE getTextureSet(n)) = FoundSetAt(n, cur[n])
  BY <1>1, <1>3, <1>4, <1>6, <1>8 DEF JobInv, MeshInv, FoundInv, FoundSetAt
<1>10. FoundSetAt(n, cur[n]) \in TextureSets BY <1>1, <1>4, SetupTyped DEF Typing
<1> QED BY <1>3, <1>4, <1>5, <1>6, <1>7, <1>8, <1>9, <1>10

LEMMA StepMatch ==
  ASSUME IInv, NEW n \in NIFs, Match(n)
  PROVE  IInv'
<1> DEFINE sl == FoundSetAt(n, cur[n])
           proposed == IF Shape(n).ignored THEN {} ELSE shouldApply(sl)
           mods == {m.mod : m \in proposed} \ {NoMod}
<1>0. Typing /\ JobInv(n) BY DEF IInv
<1>1. step[n] = "match" BY DEF Match
<1>2. /\ slots' = [slots EXCEPT ![n] = sl]
      /\ conflicts' = conflicts \cup {c \in mods \X mods : c[1] # c[2]}
      /\ matches' = [matches EXCEPT ![n] =
           IF Shape(n).ignored THEN {} ELSE getMatches(sl, Shape(n), setup[n].use)]
  BY <1>1, ShapeFound DEF Match
<1>3. /\ winner' = [winner EXCEPT ![n] = NoMatch] /\ step' = [step EXCEPT ![n] = "apply"]
      /\ cur' = cur /\ shapes' = shapes /\ blocks' = blocks /\ altTextures' = altTextures
      /\ cache' = cache /\ generated' = generated /\ hooks' = hooks /\ done' = done
      /\ UNCHANGED chosen
  BY DEF Match, meshVars
<1>4. /\ slots'[n] = sl /\ winner'[n] = NoMatch /\ step'[n] = "apply"
      /\ matches'[n] = IF Shape(n).ignored THEN {} ELSE getMatches(sl, Shape(n), setup[n].use)
  BY <1>0, <1>2, <1>3 DEF Typing
<1>5. Others(n) BY <1>0, <1>2, <1>3 DEF Typing, Others
<1>6. mods \subseteq Mods
  <2>1. \A m \in proposed : m.mod \in Mods \cup {NoMod}
    <3>1. ASSUME NEW m \in shouldApply(sl) PROVE m.mod = ModOf[m.path] /\ m.path \in Paths
      <4> DEFINE es == {i \in Hits(sl) : Entries[i].json = m.path /\ m.shader = "truePBR"}
      <4>0. generated \subseteq Outputs BY <1>0 DEF Typing
      <4>1. /\ m = [shader |-> m.shader, to |-> None, mod |-> ModOf[m.path], path |-> m.path,
                    entries |-> es]
            /\ m.path \in Paths
        <5> HIDE DEF sl
        <5> QED BY <3>1, <4>0, Proposed
      <4> HIDE DEF es
      <4> QED BY <4>1
    <3> QED BY <3>1, ShapePatchingAssumption
  <2> HIDE DEF proposed
  <2> QED BY <2>1
<1>7. Typing'
  <2>1. conflicts' \subseteq Mods \X Mods
    <3> HIDE DEF mods
    <3> QED BY <1>0, <1>2, <1>6 DEF Typing
  <2>2. sl \in TextureSets BY <1>1, ShapeFound
  <2> HIDE DEF sl
  <2> QED BY <1>0, <1>2, <1>3, <2>1, <2>2 DEF Typing, Steps, Chosen, chosen
<1>8. GoodMatches(matches'[n], setup[n].shapes[cur[n]], setup[n].use)
  <2>1. Shape(n) = setup[n].shapes[cur[n]] BY <1>1, ShapeFound
  <2>2. GoodMatches({}, setup[n].shapes[cur[n]], setup[n].use) BY DEF GoodMatches, Distinct
  <2>3. GoodMatches(getMatches(sl, Shape(n), setup[n].use), Shape(n), setup[n].use)
    BY <1>0, MatchesGood DEF Typing
  <2> QED BY <1>4, <2>1, <2>2, <2>3
<1> HIDE DEF sl
<1>a. setup' = setup BY <1>3 DEF chosen
<1>9. MeshInv(n)' BY <1>0, <1>1, <1>3, <1>4, <1>a DEF JobInv, MeshInv
<1>10. FoundInv(n)' BY <1>0, <1>1, <1>3, <1>4, <1>a DEF JobInv, FoundInv
<1>11. CacheInv(n)' BY <1>0, <1>1, <1>3, <1>4, <1>a DEF JobInv, CacheInv, Fixed
<1>12. MatchInv(n)'
  BY <1>3, <1>4, <1>8, <1>a DEF MatchInv, GoodMatches, sl, FoundSetAt
<1>13. AppliedInv(n)' BY <1>4 DEF AppliedInv
<1>14. \A r \in done : r.nif = n /\ OwnRecord(r) => OwnRecord(r)'
  BY <1>1, <1>3, <1>4, <1>a DEF OwnRecord, Fixed
<1> QED BY <1>3, <1>5, <1>7, <1>9, <1>10, <1>11, <1>12, <1>13, <1>14, OneJob DEF JobInv

LEMMA StepNoWinner ==
  ASSUME IInv, NEW n \in NIFs, NoWinner(n)
  PROVE  IInv'
<1>0. Typing /\ JobInv(n) BY DEF IInv
<1>1. step[n] = "apply" /\ step' = [step EXCEPT ![n] = "post"] BY DEF NoWinner
<1>2. /\ winner' = winner /\ slots' = slots /\ matches' = matches /\ conflicts' = conflicts
      /\ cur' = cur /\ shapes' = shapes /\ blocks' = blocks /\ altTextures' = altTextures
      /\ cache' = cache /\ generated' = generated /\ hooks' = hooks /\ done' = done
      /\ UNCHANGED chosen /\ setup' = setup
  BY DEF NoWinner, meshVars, chosen
<1>3. step'[n] = "post" BY <1>0, <1>1 DEF Typing
<1>4. Others(n) BY <1>0, <1>1, <1>2 DEF Typing, Others
<1>5. Typing' BY <1>0, <1>1, <1>2 DEF Typing, Steps, Chosen, chosen
<1>6. MeshInv(n)' BY <1>0, <1>1, <1>2, <1>3 DEF JobInv, MeshInv
<1>7. FoundInv(n)' BY <1>0, <1>1, <1>2, <1>3 DEF JobInv, FoundInv
<1>8. CacheInv(n)' BY <1>0, <1>1, <1>2, <1>3 DEF JobInv, CacheInv, Fixed
<1>9. MatchInv(n)' BY <1>0, <1>1, <1>2, <1>3 DEF JobInv, MatchInv
<1>10. AppliedInv(n)' BY <1>0, <1>1, <1>2, <1>3 DEF JobInv, AppliedInv, MatchInv
<1>11. \A r \in done : r.nif = n /\ OwnRecord(r) => OwnRecord(r)'
  BY <1>1, <1>2, <1>3 DEF OwnRecord, Fixed
<1> QED BY <1>2, <1>4, <1>5, <1>6, <1>7, <1>8, <1>9, <1>10, <1>11, OneJob DEF JobInv

LEMMA StepClear ==
  ASSUME IInv, NEW n \in NIFs, clearTextureSets(n)
  PROVE  IInv'
<1>0. Typing /\ JobInv(n) BY DEF IInv
<1>1. /\ step[n] = "finish" /\ step' = [step EXCEPT ![n] = "done"]
      /\ cache' = [cache EXCEPT ![n] = NoCache]
  BY DEF clearTextureSets
<1>2. /\ winner' = winner /\ slots' = slots /\ matches' = matches /\ conflicts' = conflicts
      /\ cur' = cur /\ shapes' = shapes /\ blocks' = blocks /\ altTextures' = altTextures
      /\ generated' = generated /\ hooks' = hooks /\ done' = done
      /\ UNCHANGED chosen /\ setup' = setup
  BY DEF clearTextureSets, chosen
<1>3. step'[n] = "done" /\ cache'[n] = NoCache BY <1>0, <1>1 DEF Typing
<1>4. Others(n) BY <1>0, <1>1, <1>2 DEF Typing, Others
<1>5. Typing' BY <1>0, <1>1, <1>2 DEF Typing, Steps, Chosen, chosen
<1>6. MeshInv(n)' BY <1>0, <1>1, <1>2, <1>3 DEF JobInv, MeshInv
<1>7. FoundInv(n)' BY <1>0, <1>1, <1>2, <1>3 DEF JobInv, FoundInv
<1>8. CacheInv(n)' BY <1>3 DEF CacheInv, NoCache
<1>9. MatchInv(n)' BY <1>0, <1>1, <1>2, <1>3 DEF JobInv, MatchInv
<1>10. AppliedInv(n)' BY <1>3 DEF AppliedInv
<1>11. \A r \in done : r.nif = n /\ OwnRecord(r) => OwnRecord(r)'
  BY <1>1, <1>2, <1>3 DEF OwnRecord, Fixed
<1> QED BY <1>2, <1>4, <1>5, <1>6, <1>7, <1>8, <1>9, <1>10, <1>11, OneJob DEF JobInv

LEMMA SeqPut ==
  ASSUME NEW S, NEW s \in Seq(S), NEW i \in DOMAIN s, NEW v \in S
  PROVE  LET t == [s EXCEPT ![i] = v]
         IN  /\ t \in Seq(S) /\ Len(t) = Len(s) /\ DOMAIN t = DOMAIN s
             /\ t[i] = v /\ \A j \in DOMAIN s : j # i => t[j] = s[j]
OBVIOUS

\* What the next shape of a mesh is, or that there is none.
LEMMA NextPlace ==
  ASSUME IInv, NEW n \in NIFs, cur[n] \in 1..Len(shapes[n]), NextShape(n)
  PROVE  /\ cur' = [cur EXCEPT ![n] = cur[n] + 1] /\ cur'[n] = cur[n] + 1
         /\ step' = [step EXCEPT ![n] = step'[n]] /\ step'[n] \in {"match", "finish"}
         /\ cur[n] \in Nat
         /\ step'[n] = "match" => cur'[n] <= Len(shapes[n])
<1>1. step \in [NIFs -> Steps] /\ cur \in [NIFs -> Nat] BY DEF IInv, Typing
<1>2. shapes[n] \in Seq(ShapeRecords) BY DEF IInv, Typing
<1>3. Len(shapes[n]) \in Nat BY <1>2
<1> QED BY <1>1, <1>3 DEF NextShape

LEMMA WinnerApplied ==
  ASSUME NEW w, WellFormed(w), NEW old \in Items, NEW it, it = applyPatch(old, transform(w))
  PROVE  /\ it \in Items /\ it.shape.block = old.shape.block
         /\ effective(w) = "parallax" =>
              /\ it.shape.type = "PARALLAX" /\ Marks \cap it.shape.flags = {"PARALLAX"}
              /\ it.slots["parallax"] \in Files
         /\ effective(w) = "complexMaterial" =>
              /\ it.shape.type = "ENVMAP"
              /\ Marks \cap it.shape.flags = {"ENVIRONMENT_MAPPING"}
              /\ it.slots["envmask"] \in Files
                 \/ (w.to # None /\ it.slots["envmask"] = CMOutput[w.path])
              /\ it.slots["cubemap"] \in {DynCubemap, old.slots["cubemap"]}
         /\ effective(w) = "truePBR" =>
              (~ it.shape.deleted /\ w.entries # {}
                 /\ (\A i \in w.entries : "pbr" \in Entries[i].does) =>
                 /\ it.shape.type \in {"DEFAULT", "MULTILAYERPARALLAX"}
                 /\ Marks \cap it.shape.flags = {"PBR"})
<1> DEFINE m == transform(w)
<1>1. /\ m.shader = effective(w) /\ m.shader \in Shaders
      /\ m.entries = w.entries /\ m.entries \subseteq 1..EntryCount
      /\ m.shader \in {"parallax", "complexMaterial"} =>
           m.path \in Textures
           /\ (m.path \in Files \/ (w.to # None /\ m.path = CMOutput[w.path]))
      /\ m.shader = "parallax" => m.path \in Files
  BY Transformed
<1>2. it = applyPatch(old, m) OBVIOUS
<1> HIDE DEF m
<1>3. /\ it \in Items /\ it.shape.block = old.shape.block
      /\ m.shader = "parallax" =>
           /\ it.shape.type = "PARALLAX" /\ Marks \cap it.shape.flags = {"PARALLAX"}
           /\ it.slots["parallax"] = m.path
      /\ m.shader = "complexMaterial" =>
           /\ it.shape.type = "ENVMAP"
           /\ Marks \cap it.shape.flags = {"ENVIRONMENT_MAPPING"}
           /\ it.slots["envmask"] = m.path
           /\ it.slots["cubemap"] \in {DynCubemap, old.slots["cubemap"]}
      /\ m.shader = "truePBR" =>
           (~ it.shape.deleted /\ m.entries # {}
              /\ (\A i \in m.entries : "pbr" \in Entries[i].does) =>
              /\ it.shape.type \in {"DEFAULT", "MULTILAYERPARALLAX"}
              /\ Marks \cap it.shape.flags = {"PBR"})
  <2> DEFINE new == applyPatch(old, m)
  <2>1. /\ new \in Items /\ new.shape.block = old.shape.block
        /\ m.shader = "parallax" =>
             /\ new.shape.type = "PARALLAX" /\ Marks \cap new.shape.flags = {"PARALLAX"}
             /\ new.slots["parallax"] = m.path
        /\ m.shader = "complexMaterial" =>
             /\ new.shape.type = "ENVMAP"
             /\ Marks \cap new.shape.flags = {"ENVIRONMENT_MAPPING"}
             /\ new.slots["envmask"] = m.path
             /\ new.slots["cubemap"] \in {DynCubemap, old.slots["cubemap"]}
        /\ m.shader = "truePBR" =>
             (~ new.shape.deleted /\ m.entries # {}
                /\ (\A i \in m.entries : "pbr" \in Entries[i].does) =>
                /\ new.shape.type \in {"DEFAULT", "MULTILAYERPARALLAX"}
                /\ Marks \cap new.shape.flags = {"PBR"})
    BY <1>1, ShaderApplied
  <2> HIDE DEF new
  <2>2. it = new BY <1>2 DEF new
  <2> QED BY <2>1, <2>2, Zenon
<1> QED BY <1>1, <1>3

LEMMA StepApply ==
  ASSUME IInv, NEW n \in NIFs, ApplyWinner(n)
  PROVE  IInv'
<1>w. PICK w : w = firstOf(enabledMatches(n), before) OBVIOUS
<1> DEFINE old == [shape |-> Shape(n), slots |-> slots[n]]
           it == applyPatch(old, transform(w))
           c  == cur[n]
<1>0. Typing /\ JobInv(n) /\ Chosen BY DEF IInv, Typing
<1>1. step[n] = "apply" /\ enabledMatches(n) # {} BY DEF ApplyWinner
<1>2. /\ winner' = [winner EXCEPT ![n] = w] /\ addToProcessList(w)
      /\ shapes' = [shapes EXCEPT ![n] = [shapes[n] EXCEPT ![c] = it.shape]]
      /\ slots' = [slots EXCEPT ![n] = it.slots]
      /\ IF it.shape.deleted THEN NextShape(n)
         ELSE step' = [step EXCEPT ![n] = "post"] /\ cur' = cur
  BY <1>w DEF ApplyWinner
<1>3. /\ matches' = matches /\ blocks' = blocks /\ altTextures' = altTextures
      /\ cache' = cache /\ conflicts' = conflicts /\ done' = done /\ UNCHANGED chosen
      /\ setup' = setup
  BY DEF ApplyWinner, chosen
<1>4. \A o \in matches[n] : WellFormed(o) BY <1>0 DEF JobInv, MatchInv
<1>5. FirstIn(matches[n], w)
  <2>1. enabledMatches(n) = EnabledOf(matches[n]) BY DEF enabledMatches, EnabledOf
  <2> QED BY <1>0, <1>1, <1>4, <2>1, <1>w, FirstOfIsFirst
<1>6. WellFormed(w) /\ w \in matches[n] BY <1>4, <1>5 DEF FirstIn, EnabledOf
<1>7. /\ c \in DOMAIN shapes[n] /\ c \in 1..Len(shapes[n]) /\ Shape(n) \in ShapeRecords
      /\ Shape(n).block = setup[n].shapes[c].block /\ c \in Nat
  BY <1>1, ShapeFound
<1>8. /\ generated \subseteq generated' /\ generated' \subseteq Outputs
      /\ hooks' = [cm |-> hooks'.cm, sss |-> hooks'.sss]
      /\ hooks'.cm \subseteq Files /\ hooks'.sss \subseteq DOMAIN SSSOutput
      /\ w.to # None => CMOutput[w.path] \in generated'
  <2>1. CASE w.to = None BY <1>0, <1>2, <2>1 DEF addToProcessList, Typing
  <2>2. CASE w.to # None
    <3>1. w.path \in Files /\ CMOutput[w.path] \in Outputs
      BY <1>6, <2>2, TexturesOf DEF WellFormed
    <3>2. /\ hooks' = [cm |-> hooks.cm \cup {w.path}, sss |-> hooks.sss]
          /\ generated' = generated \cup {CMOutput[w.path]}
      BY <1>2, <2>2 DEF addToProcessList
    <3> QED BY <1>0, <3>1, <3>2 DEF Typing
  <2> QED BY <2>1, <2>2
<1>9. /\ old \in Items /\ old.shape = Shape(n) /\ old.slots = slots[n]
      /\ slots[n] = FoundSetAt(n, c)
  BY <1>0, <1>1, <1>7 DEF Items, Typing, JobInv, MatchInv
<1>10. PICK new : new = it OBVIOUS
<1>c. PICK cubemap : cubemap = old.slots["cubemap"] OBVIOUS
<1> HIDE DEF old
<1>11. /\ new \in Items /\ new.shape.block = old.shape.block
       /\ effective(w) = "parallax" =>
            /\ new.shape.type = "PARALLAX" /\ Marks \cap new.shape.flags = {"PARALLAX"}
            /\ new.slots["parallax"] \in Files
       /\ effective(w) = "complexMaterial" =>
            /\ new.shape.type = "ENVMAP"
            /\ Marks \cap new.shape.flags = {"ENVIRONMENT_MAPPING"}
            /\ new.slots["envmask"] \in Files
               \/ (w.to # None /\ new.slots["envmask"] = CMOutput[w.path])
            /\ new.slots["cubemap"] \in {DynCubemap, cubemap}
       /\ effective(w) = "truePBR" =>
            (~ new.shape.deleted /\ w.entries # {}
               /\ (\A i \in w.entries : "pbr" \in Entries[i].does) =>
               /\ new.shape.type \in {"DEFAULT", "MULTILAYERPARALLAX"}
               /\ Marks \cap new.shape.flags = {"PBR"})
  BY <1>6, <1>9, <1>10, <1>c, WinnerApplied
<1>12. /\ shapes' = [shapes EXCEPT ![n] = [shapes[n] EXCEPT ![c] = new.shape]]
       /\ slots' = [slots EXCEPT ![n] = new.slots]
       /\ IF new.shape.deleted THEN NextShape(n)
          ELSE step' = [step EXCEPT ![n] = "post"] /\ cur' = cur
  BY <1>2, <1>10
<1> HIDE DEF it
<1>13. /\ new.shape \in ShapeRecords /\ new.slots \in TextureSets
       /\ new.shape.block = Shape(n).block
  BY <1>9, <1>11 DEF Items
<1>14. /\ shapes[n] \in Seq(ShapeRecords)
       /\ shapes'[n] \in Seq(ShapeRecords) /\ Len(shapes'[n]) = Len(shapes[n])
       /\ DOMAIN shapes'[n] = DOMAIN shapes[n] /\ shapes'[n][c] = new.shape
       /\ \A j \in DOMAIN shapes[n] : j # c => shapes'[n][j] = shapes[n][j]
       /\ \A j \in DOMAIN shapes[n] : shapes'[n][j].block = shapes[n][j].block
  <2>1. shapes[n] \in Seq(ShapeRecords) BY <1>0 DEF Typing
  <2>2. shapes'[n] = [shapes[n] EXCEPT ![c] = new.shape] BY <1>0, <1>12 DEF Typing
  <2>3. /\ shapes'[n] \in Seq(ShapeRecords) /\ Len(shapes'[n]) = Len(shapes[n])
        /\ DOMAIN shapes'[n] = DOMAIN shapes[n] /\ shapes'[n][c] = new.shape
        /\ \A j \in DOMAIN shapes[n] : j # c => shapes'[n][j] = shapes[n][j]
    BY <1>7, <1>13, <2>1, <2>2, SeqPut
  <2> QED BY <1>13, <2>1, <2>3 DEF Shape
<1>15. \/ /\ new.shape.deleted /\ cur' = [cur EXCEPT ![n] = c + 1] /\ cur'[n] = c + 1
          /\ step' = [step EXCEPT ![n] = step'[n]] /\ step'[n] \in {"match", "finish"}
          /\ step'[n] = "match" => cur'[n] <= Len(shapes[n])
       \/ /\ ~ new.shape.deleted /\ cur' = cur
          /\ step' = [step EXCEPT ![n] = "post"] /\ step'[n] = "post"
  BY <1>0, <1>7, <1>12, NextPlace DEF Typing
<1>16. /\ winner'[n] = w /\ slots'[n] = new.slots /\ c \in Nat /\ cur'[n] \in {c, c + 1}
       /\ step'[n] \in Steps \ {"done", "apply"}
  BY <1>0, <1>2, <1>7, <1>12, <1>15 DEF Typing, Steps
<1>17. Others(n)
  <2>1. \A o \in NIFs \ {n} : step'[o] = step[o] /\ cur'[o] = cur[o]
    BY <1>0, <1>15 DEF Typing
  <2> QED BY <1>0, <1>2, <1>3, <1>12, <2>1 DEF Typing, Others
<1>18. Typing'
  <2>1. step' \in [NIFs -> Steps] /\ cur' \in [NIFs -> Nat]
    <3>1. CASE new.shape.deleted
      <4>1. c + 1 \in Nat /\ step'[n] \in Steps BY <1>16
      <4> QED BY <1>0, <1>15, <3>1, <4>1 DEF Typing
    <3>2. CASE ~ new.shape.deleted BY <1>0, <1>15, <3>2 DEF Typing, Steps
    <3> QED BY <3>1, <3>2
  <2>2. shapes' \in [NIFs -> Seq(ShapeRecords)] /\ slots' \in [NIFs -> TextureSets]
    <3>1. shapes'[n] \in Seq(ShapeRecords) BY <1>14
    <3>2. shapes' = [shapes EXCEPT ![n] = shapes'[n]] BY <1>0, <1>12 DEF Typing
    <3> QED BY <1>0, <1>12, <1>13, <3>1, <3>2 DEF Typing
  <2> QED BY <1>0, <1>2, <1>3, <1>8, <2>1, <2>2 DEF Typing, Chosen, chosen
<1>19. MeshInv(n)'
  BY <1>0, <1>1, <1>3, <1>7, <1>14, <1>15, <1>16 DEF JobInv, MeshInv
<1>20. FoundInv(n)'
  BY <1>0, <1>1, <1>3, <1>7, <1>14, <1>15, <1>16 DEF JobInv, FoundInv
<1>21. CacheInv(n)' BY <1>0, <1>1, <1>3, <1>16 DEF JobInv, CacheInv, Fixed
<1>22. MatchInv(n)' BY <1>0, <1>1, <1>3, <1>15, <1>16 DEF JobInv, MatchInv
<1>23. AppliedInv(n)'
  <2> SUFFICES ASSUME step'[n] = "post" PROVE AppliedInv(n)' BY DEF AppliedInv
  <2>1. ~ new.shape.deleted /\ cur'[n] = c BY <1>15
  <2>2. FirstIn(matches[n], w)'
    BY <1>3, <1>5 DEF FirstIn, EnabledOf, before, chosen
  <2>3. HasShader(w, new.shape, new.slots, cubemap)'
    BY <1>6, <1>8, <1>11, <2>1 DEF HasShader, isFile
  <2>4. Shape(n)' = new.shape BY <1>14, <2>1 DEF Shape
  <2> QED BY <1>3, <1>9, <1>16, <1>c, <2>1, <2>2, <2>3, <2>4 DEF AppliedInv, FoundSetAt
<1>24. \A r \in done : r.nif = n /\ OwnRecord(r) => OwnRecord(r)'
  <2> SUFFICES ASSUME NEW r \in done, r.nif = n, OwnRecord(r) PROVE OwnRecord(r)' OBVIOUS
  <2>1. r.place \in 1..(c - 1) /\ r.place \in DOMAIN shapes[n] /\ r.place # c
    BY <1>7, <1>14 DEF OwnRecord
  <2>2. shapes'[n][r.place] = shapes[n][r.place] BY <1>14, <2>1
  <2>3. r.place \in 1..(cur'[n] - 1) BY <1>16, <2>1
  <2> QED BY <1>1, <1>3, <1>16, <2>2, <2>3 DEF OwnRecord, Fixed
<1> QED
  BY <1>3, <1>8, <1>17, <1>18, <1>19, <1>20, <1>21, <1>22, <1>23, <1>24, OneJob DEF JobInv

\* What is left of the winner's shader after the post patchers.
LEMMA KeptAfterPost ==
  ASSUME NEW w, NEW old \in Items, NEW cubemap,
         HasShader(w, old.shape, old.slots, cubemap),
         NEW it, it = HairFlowMap(FixSSS(RestoreDefaultShaders(old)))
  PROVE  /\ effective(w) = "parallax" =>
              it.shape.type = "PARALLAX" /\ Marks \cap it.shape.flags = {"PARALLAX"}
         /\ effective(w) = "complexMaterial" =>
              \/ it.shape.type = "ENVMAP" /\ Marks \cap it.shape.flags = {"ENVIRONMENT_MAPPING"}
              \/ /\ cubemap \notin Files \cup {None, DynCubemap}
                 /\ it.shape.type = "DEFAULT" /\ Marks \cap it.shape.flags = {}
         /\ effective(w) = "truePBR" /\ w.entries # {}
              /\ (\A i \in w.entries : "pbr" \in Entries[i].does) =>
              /\ it.shape.type \in {"DEFAULT", "MULTILAYERPARALLAX"}
              /\ Marks \cap it.shape.flags = {"PBR"}
<1>1. PICK mid : mid = RestoreDefaultShaders(old) OBVIOUS
<1>2. /\ mid \in Items
      /\ old.shape.type \notin {"PARALLAX", "ENVMAP"} => mid = old
      /\ old.shape.type = "PARALLAX" /\ isFile(old.slots["parallax"]) => mid = old
      /\ old.shape.type = "ENVMAP" /\ envMaskValid(old.slots) =>
           \/ mid = old
           \/ /\ mid.shape.type = "DEFAULT" /\ ~ cubemapValid(old.slots)
              /\ mid.shape.flags = old.shape.flags \ {"ENVIRONMENT_MAPPING"}
  BY <1>1, Restored
<1>3. it = HairFlowMap(FixSSS(mid)) BY <1>1
<1>4. it.shape.type = mid.shape.type /\ Marks \cap it.shape.flags = Marks \cap mid.shape.flags
  BY <1>2, <1>3, PostApplied
<1>5. CASE effective(w) = "parallax" BY <1>2, <1>4, <1>5 DEF HasShader
<1>6. CASE effective(w) = "complexMaterial"
  <2>1. /\ old.shape.type = "ENVMAP" /\ Marks \cap old.shape.flags = {"ENVIRONMENT_MAPPING"}
        /\ envMaskValid(old.slots) /\ old.slots["cubemap"] \in {DynCubemap, cubemap}
    BY <1>6 DEF HasShader, envMaskValid
  <2>2. CASE mid = old BY <1>4, <1>6, <2>1, <2>2
  <2>3. CASE mid # old
    <3>1. /\ mid.shape.type = "DEFAULT" /\ ~ cubemapValid(old.slots)
          /\ mid.shape.flags = old.shape.flags \ {"ENVIRONMENT_MAPPING"}
      BY <1>2, <2>1, <2>3
    <3>2. cubemap \notin Files \cup {None, DynCubemap}
      BY <2>1, <3>1 DEF cubemapValid, isFile
    <3>3. Marks \cap mid.shape.flags = {} BY <2>1, <3>1
    <3> QED BY <1>4, <1>6, <3>1, <3>2, <3>3
  <2> QED BY <2>2, <2>3
<1>7. CASE effective(w) = "truePBR" BY <1>2, <1>4, <1>7 DEF HasShader
<1>8. CASE effective(w) \notin {"parallax", "complexMaterial", "truePBR"} BY <1>8
<1> QED BY <1>5, <1>6, <1>7, <1>8

\* The textures made for the shape of job n are put where the shape finds
\* them, and no result that was cached is written over.
Stored(n, textures) ==
  /\ shapes' \in [NIFs -> Seq(ShapeRecords)] /\ blocks' \in [NIFs -> Seq(TextureSets)]
  /\ DOMAIN cache' = NIFs /\ DOMAIN altTextures' = NIFs
  /\ \A o \in NIFs \ {n} : /\ shapes'[o] = shapes[o] /\ blocks'[o] = blocks[o]
                           /\ cache'[o] = cache[o] /\ altTextures'[o] = altTextures[o]
  /\ shapes'[n] \in Seq(ShapeRecords) /\ Len(shapes'[n]) = Len(shapes[n])
  /\ \A j \in DOMAIN shapes[n] : j # cur[n] => shapes'[n][j] = shapes[n][j]
  /\ shapes'[n][cur[n]].block \in DOMAIN blocks'[n]
  /\ blocks'[n] \in Seq(TextureSets) /\ Len(blocks[n]) <= Len(blocks'[n])
  /\ DOMAIN altTextures'[n] = DOMAIN altTextures[n]
  /\ \A j \in DOMAIN altTextures[n] : /\ altTextures'[n][j] \in TextureSets
                                      /\ j # cur[n] => altTextures'[n][j] = altTextures[n][j]
  /\ CacheInv(n)'
  /\ \A b \in DOMAIN blocks[n] :
       b \in DOMAIN cache[n] \/ Len(setup[n].blocks) < b =>
         blocks'[n][b] = blocks[n][b] /\ (b \in DOMAIN cache'[n] \/ Len(setup[n].blocks) < b)
  /\ IF cur[n] \in DOMAIN altTextures[n] THEN textures = altTextures'[n][cur[n]]
     ELSE LET b == shapes'[n][cur[n]].block
          IN  /\ textures = blocks'[n][b]
              /\ b \in DOMAIN cache'[n] \/ Len(setup[n].blocks) < b

LEMMA StoredAlternate ==
  ASSUME IInv, NEW n \in NIFs, step[n] = "post", step'[n] # "done", setup' = setup,
         NEW shape \in ShapeRecords, shape.block = Shape(n).block,
         NEW textures \in TextureSets,
         cur[n] \in DOMAIN altTextures[n],
         altTextures' = [altTextures EXCEPT ![n] = [@ EXCEPT ![cur[n]] = textures]],
         shapes' = [shapes EXCEPT ![n] = [@ EXCEPT ![cur[n]] = shape]],
         blocks' = blocks, cache' = cache
  PROVE  Stored(n, textures)
<1>0. Typing /\ JobInv(n) BY DEF IInv
<1>1. cur[n] \in DOMAIN shapes[n] BY ShapeFound
<1>2. shapes[n] \in Seq(ShapeRecords) /\ blocks[n] \in Seq(TextureSets) BY <1>0 DEF Typing
<1>3. /\ shapes'[n] = [shapes[n] EXCEPT ![cur[n]] = shape]
      /\ altTextures'[n] = [altTextures[n] EXCEPT ![cur[n]] = textures]
  BY <1>0 DEF Typing
<1>4. /\ shapes'[n] \in Seq(ShapeRecords) /\ Len(shapes'[n]) = Len(shapes[n])
      /\ shapes'[n][cur[n]] = shape
      /\ \A j \in DOMAIN shapes[n] : j # cur[n] => shapes'[n][j] = shapes[n][j]
  BY <1>1, <1>2, <1>3, SeqPut
<1>5. shapes'[n][cur[n]].block \in DOMAIN blocks'[n]
  BY <1>0, <1>1, <1>4 DEF JobInv, MeshInv, Shape
<1>6. /\ DOMAIN altTextures'[n] = DOMAIN altTextures[n]
      /\ altTextures'[n][cur[n]] = textures
      /\ \A j \in DOMAIN altTextures[n] :
           /\ altTextures'[n][j] \in TextureSets
           /\ j # cur[n] => altTextures'[n][j] = altTextures[n][j]
  BY <1>0, <1>3 DEF JobInv, MeshInv
<1>7. CacheInv(n)' BY <1>0 DEF JobInv, CacheInv, Fixed
<1>8. /\ shapes' \in [NIFs -> Seq(ShapeRecords)] /\ blocks' \in [NIFs -> Seq(TextureSets)]
      /\ DOMAIN cache' = NIFs /\ DOMAIN altTextures' = NIFs
      /\ \A o \in NIFs \ {n} : /\ shapes'[o] = shapes[o] /\ blocks'[o] = blocks[o]
                                /\ cache'[o] = cache[o] /\ altTextures'[o] = altTextures[o]
  BY <1>0, <1>3, <1>4 DEF Typing
<1>9. Len(blocks[n]) <= Len(blocks'[n]) BY <1>2
<1> QED BY <1>2, <1>4, <1>5, <1>6, <1>7, <1>8, <1>9 DEF Stored

LEMMA StoredFirst ==
  ASSUME IInv, NEW n \in NIFs, step[n] = "post", step'[n] # "done", setup' = setup,
         NEW shape \in ShapeRecords, shape.block = Shape(n).block,
         NEW textures \in TextureSets,
         cur[n] \notin DOMAIN altTextures[n], altTextures' = altTextures,
         shape.block \notin DOMAIN cache[n], setTextureSet(n, shape, textures)
  PROVE  Stored(n, textures)
<1> DEFINE b == shape.block
<1>0. Typing /\ JobInv(n) BY DEF IInv
<1>1. cur[n] \in DOMAIN shapes[n] /\ b \in DOMAIN setup[n].blocks BY ShapeFound
<1>2. shapes[n] \in Seq(ShapeRecords) /\ blocks[n] \in Seq(TextureSets)
      /\ setup[n].blocks \in Seq(TextureSets)
  BY <1>0, SetupTyped DEF Typing
<1>3. /\ cache' = [cache EXCEPT ![n] = With(@, b, cached(blocks[n][b], Only(b, textures)))]
      /\ blocks' = [blocks EXCEPT ![n] = [@ EXCEPT ![b] = textures]]
      /\ shapes' = [shapes EXCEPT ![n] = [@ EXCEPT ![cur[n]] = shape]]
  BY DEF setTextureSet
<1>4. /\ cache'[n] = With(cache[n], b, cached(blocks[n][b], Only(b, textures)))
      /\ blocks'[n] = [blocks[n] EXCEPT ![b] = textures]
      /\ shapes'[n] = [shapes[n] EXCEPT ![cur[n]] = shape]
  BY <1>0, <1>3 DEF Typing
<1>5. Len(setup[n].blocks) <= Len(blocks[n]) /\ b \in DOMAIN blocks[n]
      /\ DOMAIN setup[n].blocks \subseteq DOMAIN blocks[n]
      /\ \A x \in DOMAIN setup[n].blocks : ~ (Len(setup[n].blocks) < x)
  BY <1>0, <1>1, <1>2 DEF JobInv, MeshInv
<1>6. /\ shapes'[n] \in Seq(ShapeRecords) /\ Len(shapes'[n]) = Len(shapes[n])
      /\ shapes'[n][cur[n]] = shape
      /\ \A j \in DOMAIN shapes[n] : j # cur[n] => shapes'[n][j] = shapes[n][j]
  BY <1>1, <1>2, <1>4, SeqPut
<1>7. /\ blocks'[n] \in Seq(TextureSets) /\ Len(blocks'[n]) = Len(blocks[n])
      /\ DOMAIN blocks'[n] = DOMAIN blocks[n] /\ blocks'[n][b] = textures
      /\ \A x \in DOMAIN blocks[n] : x # b => blocks'[n][x] = blocks[n][x]
  BY <1>2, <1>4, <1>5, SeqPut
<1>8. /\ DOMAIN cache'[n] = {b} \cup DOMAIN cache[n]
      /\ cache'[n][b] = cached(blocks[n][b], Only(b, textures))
      /\ \A x \in DOMAIN cache[n] : x # b => cache'[n][x] = cache[n][x]
  BY <1>4 DEF With
<1> HIDE DEF b
<1>9. /\ \A x, y : cached(x, y).results = y
      /\ DOMAIN Only(b, textures) = {b} /\ Only(b, textures)[b] = textures
  BY DEF cached, Only
<1>10. blocks[n][b] = setup[n].blocks[b]
  BY <1>0, <1>1 DEF JobInv, CacheInv, b
<1>11. CacheInv(n)'
  <2>1. DOMAIN cache'[n] \subseteq DOMAIN setup[n].blocks
    BY <1>0, <1>1, <1>8 DEF JobInv, CacheInv
  <2>2. ASSUME NEW x \in DOMAIN cache'[n]
        PROVE  /\ cache'[n][x] = cached(setup[n].blocks[x], cache'[n][x].results)
               /\ \A r \in DOMAIN cache'[n][x].results :
                    /\ r \in DOMAIN blocks'[n] /\ blocks'[n][r] = cache'[n][x].results[r]
                    /\ r \in DOMAIN cache'[n] \/ Len(setup[n].blocks) < r
    <3>1. CASE x = b
      BY <1>5, <1>7, <1>8, <1>9, <1>10, <3>1
    <3>2. CASE x # b
      <4>1. x \in DOMAIN cache[n] /\ cache'[n][x] = cache[n][x] BY <1>8, <2>2, <3>2
      <4>2. /\ cache[n][x] = cached(setup[n].blocks[x], cache[n][x].results)
            /\ \A r \in DOMAIN cache[n][x].results :
                 /\ r \in DOMAIN blocks[n] /\ blocks[n][r] = cache[n][x].results[r]
                 /\ r \in DOMAIN cache[n] \/ Len(setup[n].blocks) < r
        BY <1>0, <4>1 DEF JobInv, CacheInv, Fixed
      <4>3. \A r \in DOMAIN cache[n][x].results : r # b BY <1>1, <1>5, <4>2 DEF b
      <4> QED BY <1>7, <1>8, <4>1, <4>2, <4>3
    <3> QED BY <3>1, <3>2
  <2>3. \A x \in DOMAIN setup[n].blocks :
          x \notin DOMAIN cache'[n] => blocks'[n][x] = setup[n].blocks[x]
    BY <1>0, <1>5, <1>7, <1>8 DEF JobInv, CacheInv
  <2> QED BY <2>1, <2>2, <2>3 DEF CacheInv, Fixed
<1>12. \A x \in DOMAIN blocks[n] :
         x \in DOMAIN cache[n] \/ Len(setup[n].blocks) < x =>
           blocks'[n][x] = blocks[n][x] /\ (x \in DOMAIN cache'[n] \/ Len(setup[n].blocks) < x)
  BY <1>1, <1>5, <1>7, <1>8 DEF b
<1>13. /\ shapes' \in [NIFs -> Seq(ShapeRecords)] /\ blocks' \in [NIFs -> Seq(TextureSets)]
       /\ DOMAIN cache' = NIFs /\ DOMAIN altTextures' = NIFs
       /\ \A o \in NIFs \ {n} : /\ shapes'[o] = shapes[o] /\ blocks'[o] = blocks[o]
                                 /\ cache'[o] = cache[o] /\ altTextures'[o] = altTextures[o]
  BY <1>0, <1>3, <1>6, <1>7 DEF Typing
<1>14. b \in DOMAIN cache'[n] BY <1>8
<1>15. Len(blocks[n]) <= Len(blocks'[n]) BY <1>2, <1>7
<1>16. shapes'[n][cur[n]].block = b BY <1>6 DEF b
<1>17. \A j \in DOMAIN altTextures[n] : altTextures[n][j] \in TextureSets
  BY <1>0 DEF JobInv, MeshInv
<1> QED
  BY <1>5, <1>6, <1>7, <1>11, <1>12, <1>13, <1>14, <1>15, <1>16, <1>17 DEF Stored

LEMMA SeqEnd ==
  ASSUME NEW S, NEW s \in Seq(S), NEW v \in S
  PROVE  LET t == Append(s, v)
         IN  /\ t \in Seq(S) /\ Len(t) = Len(s) + 1 /\ Len(s) \in Nat
             /\ DOMAIN s = 1..Len(s) /\ DOMAIN t = 1..(Len(s) + 1)
             /\ t[Len(s) + 1] = v /\ \A j \in DOMAIN s : t[j] = s[j]
OBVIOUS

LEMMA StoredAgain ==
  ASSUME IInv, NEW n \in NIFs, step[n] = "post", step'[n] # "done", setup' = setup,
         NEW shape \in ShapeRecords, shape.block = Shape(n).block,
         NEW textures \in TextureSets,
         cur[n] \notin DOMAIN altTextures[n], altTextures' = altTextures,
         shape.block \in DOMAIN cache[n], setTextureSet(n, shape, textures)
  PROVE  Stored(n, textures)
<1>b. PICK b : b = shape.block OBVIOUS
<1>r. PICK results : results = cache[n][b].results OBVIOUS
<1> DEFINE same == {x \in DOMAIN results : results[x] = textures}
<1>p. PICK place : place = IF same = {} THEN Len(blocks[n]) + 1 ELSE CHOOSE x \in same : TRUE
  OBVIOUS
<1>0. Typing /\ JobInv(n) BY DEF IInv
<1>1. cur[n] \in DOMAIN shapes[n] /\ b \in DOMAIN setup[n].blocks /\ b \in DOMAIN cache[n]
  BY <1>b, ShapeFound
<1>2. shapes[n] \in Seq(ShapeRecords) /\ blocks[n] \in Seq(TextureSets)
      /\ setup[n].blocks \in Seq(TextureSets)
  BY <1>0, SetupTyped DEF Typing
<1>3. /\ blocks' = [blocks EXCEPT ![n] = IF same = {} THEN Append(@, textures) ELSE @]
      /\ shapes' = [shapes EXCEPT ![n] = [@ EXCEPT ![cur[n]] = [shape EXCEPT !.block = place]]]
      /\ cache' = [cache EXCEPT ![n] =
           With(@, b, cached(@[b].original, With(results, place, textures)))]
  BY <1>b, <1>r, <1>p DEF setTextureSet
<1>4. /\ cache'[n] = With(cache[n], b, cached(cache[n][b].original,
                                              With(results, place, textures)))
      /\ blocks'[n] = IF same = {} THEN Append(blocks[n], textures) ELSE blocks[n]
      /\ shapes'[n] = [shapes[n] EXCEPT ![cur[n]] = [shape EXCEPT !.block = place]]
  BY <1>0, <1>3 DEF Typing
<1>5. /\ Len(setup[n].blocks) <= Len(blocks[n]) /\ Len(setup[n].blocks) \in Nat
      /\ DOMAIN setup[n].blocks \subseteq DOMAIN blocks[n]
  BY <1>0, <1>2 DEF JobInv, MeshInv
<1>6. \A x \in DOMAIN cache[n] :
        /\ cache[n][x] = cached(setup[n].blocks[x], cache[n][x].results)
        /\ \A r \in DOMAIN cache[n][x].results :
             /\ r \in DOMAIN blocks[n] /\ blocks[n][r] = cache[n][x].results[r]
             /\ r \in DOMAIN cache[n] \/ Len(setup[n].blocks) < r
  BY <1>0 DEF JobInv, CacheInv, Fixed
<1>7. /\ blocks'[n] \in Seq(TextureSets) /\ Len(blocks[n]) <= Len(blocks'[n])
      /\ \A x \in DOMAIN blocks[n] : x \in DOMAIN blocks'[n] /\ blocks'[n][x] = blocks[n][x]
      /\ place \in DOMAIN blocks'[n] /\ blocks'[n][place] = textures /\ place \in Nat
      /\ place \in DOMAIN cache[n] \/ Len(setup[n].blocks) < place
  <2>1. CASE same = {}
    <3>1. blocks'[n] = Append(blocks[n], textures) /\ place = Len(blocks[n]) + 1
      BY <1>4, <1>p, <2>1
    <3>2. /\ blocks'[n] \in Seq(TextureSets) /\ Len(blocks'[n]) = Len(blocks[n]) + 1
          /\ Len(blocks[n]) \in Nat
          /\ DOMAIN blocks[n] = 1..Len(blocks[n]) /\ DOMAIN blocks'[n] = 1..(Len(blocks[n]) + 1)
          /\ blocks'[n][Len(blocks[n]) + 1] = textures
          /\ \A j \in DOMAIN blocks[n] : blocks'[n][j] = blocks[n][j]
      BY <1>2, <3>1, SeqEnd
    <3> QED BY <1>5, <3>1, <3>2
  <2>2. CASE same # {}
    <3>1. place \in same
      <4> HIDE DEF same
      <4> QED BY <1>p, <2>2
    <3>2. blocks'[n] = blocks[n] BY <1>4, <2>2
    <3>3. place \in DOMAIN results /\ results[place] = textures BY <3>1
    <3>4. /\ place \in DOMAIN blocks[n] /\ blocks[n][place] = textures
          /\ place \in DOMAIN cache[n] \/ Len(setup[n].blocks) < place
      BY <1>1, <1>6, <1>r, <3>3
    <3> QED BY <1>2, <3>2, <3>4
  <2> QED BY <2>1, <2>2
<1> HIDE DEF same
<1>8. /\ [shape EXCEPT !.block = place] \in ShapeRecords
      /\ [shape EXCEPT !.block = place].block = place
  BY <1>7, ShapeFields
<1>9. /\ shapes'[n] \in Seq(ShapeRecords) /\ Len(shapes'[n]) = Len(shapes[n])
      /\ shapes'[n][cur[n]].block = place
      /\ \A j \in DOMAIN shapes[n] : j # cur[n] => shapes'[n][j] = shapes[n][j]
  <2>1. PICK moved \in ShapeRecords : moved = [shape EXCEPT !.block = place] BY <1>8
  <2>2. shapes'[n] = [shapes[n] EXCEPT ![cur[n]] = moved] BY <1>4, <2>1
  <2>3. /\ shapes'[n] \in Seq(ShapeRecords) /\ Len(shapes'[n]) = Len(shapes[n])
        /\ shapes'[n][cur[n]] = moved
        /\ \A j \in DOMAIN shapes[n] : j # cur[n] => shapes'[n][j] = shapes[n][j]
    BY <1>1, <1>2, <2>2, SeqPut
  <2>4. moved.block = place BY <1>8, <2>1
  <2> QED BY <2>3, <2>4
<1>10. /\ DOMAIN cache'[n] = DOMAIN cache[n]
       /\ cache'[n][b] = cached(setup[n].blocks[b], With(results, place, textures))
       /\ \A x \in DOMAIN cache[n] : x # b => cache'[n][x] = cache[n][x]
  <2>1. \A x, y : cached(x, y).original = x BY DEF cached
  <2>2. cache[n][b].original = setup[n].blocks[b] BY <1>1, <1>6, <2>1
  <2> QED BY <1>1, <1>4, <2>2 DEF With
<1>11. /\ \A x, y : cached(x, y).results = y
       /\ DOMAIN With(results, place, textures) = {place} \cup DOMAIN results
       /\ With(results, place, textures)[place] = textures
       /\ \A x \in DOMAIN results : x # place => With(results, place, textures)[x] = results[x]
  BY DEF cached, With
<1>12. CacheInv(n)'
  <2>1. DOMAIN cache'[n] \subseteq DOMAIN setup[n].blocks
    BY <1>0, <1>10 DEF JobInv, CacheInv
  <2>2. ASSUME NEW x \in DOMAIN cache'[n]
        PROVE  /\ cache'[n][x] = cached(setup[n].blocks[x], cache'[n][x].results)
               /\ \A r \in DOMAIN cache'[n][x].results :
                    /\ r \in DOMAIN blocks'[n] /\ blocks'[n][r] = cache'[n][x].results[r]
                    /\ r \in DOMAIN cache'[n] \/ Len(setup[n].blocks) < r
    <3>1. CASE x = b
      <4>1. cache'[n][x].results = With(results, place, textures) BY <1>10, <1>11, <3>1
      <4>2. ASSUME NEW r \in {place} \cup DOMAIN results
            PROVE  /\ r \in DOMAIN blocks'[n]
                   /\ blocks'[n][r] = With(results, place, textures)[r]
                   /\ r \in DOMAIN cache'[n] \/ Len(setup[n].blocks) < r
        <5>1. CASE r = place BY <1>7, <1>10, <1>11, <5>1
        <5>2. CASE r # place
          <6>1. /\ r \in DOMAIN blocks[n] /\ blocks[n][r] = results[r]
                /\ r \in DOMAIN cache[n] \/ Len(setup[n].blocks) < r
            BY <1>1, <1>6, <1>r, <4>2, <5>2
          <6> QED BY <1>7, <1>10, <1>11, <4>2, <5>2, <6>1
        <5> QED BY <5>1, <5>2
      <4> QED BY <1>10, <1>11, <3>1, <4>1, <4>2
    <3>2. CASE x # b
      <4>1. x \in DOMAIN cache[n] /\ cache'[n][x] = cache[n][x] BY <1>10, <2>2, <3>2
      <4> QED BY <1>6, <1>7, <1>10, <4>1
    <3> QED BY <3>1, <3>2
  <2>3. \A x \in DOMAIN setup[n].blocks :
          x \notin DOMAIN cache'[n] => blocks'[n][x] = setup[n].blocks[x]
    BY <1>0, <1>5, <1>7, <1>10 DEF JobInv, CacheInv
  <2> QED BY <2>1, <2>2, <2>3 DEF CacheInv, Fixed
<1>13. /\ shapes' \in [NIFs -> Seq(ShapeRecords)] /\ blocks' \in [NIFs -> Seq(TextureSets)]
       /\ DOMAIN cache' = NIFs /\ DOMAIN altTextures' = NIFs
       /\ \A o \in NIFs \ {n} : /\ shapes'[o] = shapes[o] /\ blocks'[o] = blocks[o]
                                /\ cache'[o] = cache[o] /\ altTextures'[o] = altTextures[o]
  <2>1. \A o \in NIFs \ {n} : /\ shapes'[o] = shapes[o] /\ blocks'[o] = blocks[o]
                              /\ cache'[o] = cache[o] /\ altTextures'[o] = altTextures[o]
    BY <1>0, <1>3 DEF Typing
  <2>2. /\ shapes' = [o \in NIFs |-> shapes'[o]] /\ blocks' = [o \in NIFs |-> blocks'[o]]
        /\ DOMAIN cache' = NIFs /\ DOMAIN altTextures' = NIFs
    BY <1>0, <1>3 DEF Typing
  <2> QED BY <1>0, <1>7, <1>9, <2>1, <2>2 DEF Typing
<1>14. \A j \in DOMAIN altTextures[n] : altTextures[n][j] \in TextureSets
  BY <1>0 DEF JobInv, MeshInv
<1> QED BY <1>7, <1>9, <1>10, <1>12, <1>13, <1>14 DEF Stored

LEMMA StepPost ==
  ASSUME IInv, NEW n \in NIFs, Post(n)
  PROVE  IInv'
<1> DEFINE old      == [shape |-> Shape(n), slots |-> slots[n]]
           restored == RestoreDefaultShaders(old)
           diffuse  == restored.slots["diffuse"]
           c        == cur[n]
<1>i. PICK it : it = HairFlowMap(FixSSS(restored)) OBVIOUS
<1>0. Typing /\ JobInv(n) /\ Chosen BY DEF IInv, Typing
<1>1. step[n] = "post" BY DEF Post
<1>2. /\ IF needsFixSSS(restored)
         THEN /\ hooks' = [cm |-> hooks.cm, sss |-> hooks.sss \cup {diffuse}]
              /\ generated' = generated \cup {SSSOutput[diffuse]}
         ELSE UNCHANGED <<hooks, generated>>
      /\ slots' = [slots EXCEPT ![n] = it.slots]
      /\ IF c \in DOMAIN altTextures[n]
         THEN /\ altTextures' = [altTextures EXCEPT ![n] = [@ EXCEPT ![c] = it.slots]]
              /\ shapes' = [shapes EXCEPT ![n] = [@ EXCEPT ![c] = it.shape]]
              /\ UNCHANGED <<blocks, cache>>
         ELSE setTextureSet(n, it.shape, it.slots) /\ UNCHANGED altTextures
      /\ done' = done \cup {made(n, it.shape, it.slots)}
      /\ NextShape(n)
  BY <1>i DEF Post
<1>3. matches' = matches /\ winner' = winner /\ conflicts' = conflicts /\ UNCHANGED chosen
      /\ setup' = setup
  BY DEF Post, chosen
<1>4. /\ c \in DOMAIN shapes[n] /\ c \in 1..Len(shapes[n]) /\ Shape(n) \in ShapeRecords
      /\ c \in Nat /\ c \in DOMAIN setup[n].shapes
  BY <1>1, ShapeFound
<1>5. old \in Items /\ old.shape = Shape(n) /\ old.slots = slots[n]
  BY <1>0, <1>4 DEF Items, Typing
<1>6. restored \in Items /\ restored.shape.block = Shape(n).block
  <2> HIDE DEF old
  <2> QED BY <1>5, Restored
<1>7. /\ generated \subseteq generated' /\ generated' \subseteq Outputs
      /\ hooks' = [cm |-> hooks'.cm, sss |-> hooks'.sss]
      /\ hooks'.cm \subseteq Files /\ hooks'.sss \subseteq DOMAIN SSSOutput
  <2> HIDE DEF restored
  <2>1. CASE ~ needsFixSSS(restored) BY <1>0, <1>2, <2>1 DEF Typing
  <2>2. CASE needsFixSSS(restored)
    <3>1. diffuse \in Textures /\ diffuse # None
      BY <1>6, <2>2 DEF needsFixSSS, Items, TextureSets, Slots
    <3>2. diffuse \in DOMAIN SSSOutput /\ SSSOutput[diffuse] \in Outputs
      BY <3>1, TexturesOf
    <3> HIDE DEF diffuse
    <3> QED BY <1>0, <1>2, <2>2, <3>2 DEF Typing
  <2> QED BY <2>1, <2>2
<1>8. it \in Items /\ it.shape.block = Shape(n).block
  <2> HIDE DEF restored
  <2> QED BY <1>6, <1>i, PostApplied
<1>9. it.shape \in ShapeRecords /\ it.slots \in TextureSets BY <1>8 DEF Items
<1>10. /\ cur' = [cur EXCEPT ![n] = c + 1] /\ cur'[n] = c + 1
       /\ step' = [step EXCEPT ![n] = step'[n]] /\ step'[n] \in {"match", "finish"}
       /\ step'[n] = "match" => c + 1 <= Len(shapes[n])
  BY <1>2, <1>4, NextPlace
<1>11. Stored(n, it.slots)
  <2> HIDE DEF restored
  <2>1. CASE c \in DOMAIN altTextures[n]
    BY <1>1, <1>2, <1>3, <1>8, <1>9, <1>10, <2>1, StoredAlternate
  <2>2. CASE c \notin DOMAIN altTextures[n] /\ it.shape.block \notin DOMAIN cache[n]
    BY <1>1, <1>2, <1>3, <1>8, <1>9, <1>10, <2>2, StoredFirst
  <2>3. CASE c \notin DOMAIN altTextures[n] /\ it.shape.block \in DOMAIN cache[n]
    BY <1>1, <1>2, <1>3, <1>8, <1>9, <1>10, <2>3, StoredAgain
  <2> QED BY <2>1, <2>2, <2>3
<1> DEFINE rec == [nif |-> n, place |-> c, matches |-> matches[n], winner |-> winner[n],
                   shape |-> it.shape, textures |-> it.slots]
<1>r. PICK r0 : r0 = rec OBVIOUS
<1>12. /\ done' = done \cup {r0} /\ r0.nif = n /\ r0.place = c /\ r0.matches = matches[n]
       /\ r0.winner = winner[n] /\ r0.shape = it.shape /\ r0.textures = it.slots
  BY <1>2, <1>r DEF made
<1> HIDE DEF rec
<1>13. RightRecord(r0)
  <2>1. GoodMatches(r0.matches, Found(r0), setup[r0.nif].use)
    BY <1>0, <1>1, <1>12 DEF JobInv, MatchInv, Found
  <2>2. CASE winner[n] = NoMatch
    BY <1>12, <2>1, <2>2 DEF RightRecord, Patched, NoMatch
  <2>3. CASE winner[n] # NoMatch
    <3>c. PICK cubemap : cubemap = FoundSetAt(n, c)["cubemap"] OBVIOUS
    <3>1. /\ FirstIn(matches[n], winner[n])
          /\ HasShader(winner[n], Shape(n), slots[n], cubemap)
      BY <1>0, <1>1, <2>3, <3>c DEF JobInv, AppliedInv
    <3>2. FoundSet(r0) = FoundSetAt(n, c) BY <1>12 DEF FoundSet, FoundSetAt, Found
    <3>3. HasShader(winner[n], old.shape, old.slots, cubemap) BY <1>5, <3>1
    <3>4. /\ effective(winner[n]) = "parallax" =>
               it.shape.type = "PARALLAX" /\ Marks \cap it.shape.flags = {"PARALLAX"}
          /\ effective(winner[n]) = "complexMaterial" =>
               \/ it.shape.type = "ENVMAP"
                  /\ Marks \cap it.shape.flags = {"ENVIRONMENT_MAPPING"}
               \/ /\ cubemap \notin Files \cup {None, DynCubemap}
                  /\ it.shape.type = "DEFAULT" /\ Marks \cap it.shape.flags = {}
          /\ effective(winner[n]) = "truePBR" /\ winner[n].entries # {}
               /\ (\A i \in winner[n].entries : "pbr" \in Entries[i].does) =>
               /\ it.shape.type \in {"DEFAULT", "MULTILAYERPARALLAX"}
               /\ Marks \cap it.shape.flags = {"PBR"}
      <4> HIDE DEF old
      <4>1. it = HairFlowMap(FixSSS(RestoreDefaultShaders(old))) BY <1>i DEF restored
      <4> HIDE DEF restored
      <4>2. old \in Items BY <1>5
      <4> QED BY <3>3, <4>1, <4>2, KeptAfterPost, Zenon
    <3>5. ShaderKept(r0) BY <1>12, <3>2, <3>4, <3>c DEF ShaderKept
    <3> QED BY <1>12, <2>1, <3>1, <3>5 DEF RightRecord
  <2> QED BY <2>2, <2>3
<1>14. RightRecord(r0)' BY <1>3, <1>13, OtherRecords
<1> HIDE DEF old, restored
<1>15. Others(n)
  <2>1. \A o \in NIFs \ {n} : step'[o] = step[o] /\ cur'[o] = cur[o] /\ slots'[o] = slots[o]
    BY <1>0, <1>2, <1>10 DEF Typing
  <2> QED BY <1>3, <1>11, <2>1 DEF Stored, Others
<1>16. Typing'
  <2>1. cur' \in [NIFs -> Nat] BY <1>0, <1>4, <1>10 DEF Typing
  <2>2. step' \in [NIFs -> Steps] BY <1>0, <1>10 DEF Typing, Steps
  <2>3. slots' \in [NIFs -> TextureSets] BY <1>0, <1>2, <1>9 DEF Typing
  <2> QED BY <1>0, <1>3, <1>7, <1>11, <2>1, <2>2, <2>3 DEF Typing, Chosen, chosen, Stored
<1>17. shapes[n] \in Seq(ShapeRecords) /\ blocks[n] \in Seq(TextureSets)
       /\ shapes'[n] \in Seq(ShapeRecords) /\ blocks'[n] \in Seq(TextureSets)
       /\ Len(shapes'[n]) = Len(shapes[n]) /\ DOMAIN shapes'[n] = DOMAIN shapes[n]
       /\ DOMAIN blocks[n] \subseteq DOMAIN blocks'[n]
  BY <1>0, <1>11 DEF Typing, Stored
<1>18. MeshInv(n)'
  <2>1. \A i \in DOMAIN shapes'[n] : shapes'[n][i].block \in DOMAIN blocks'[n]
    BY <1>0, <1>11, <1>17 DEF JobInv, MeshInv, Stored
  <2>2. Len(setup[n].blocks) <= Len(blocks'[n])
    <3>1. setup[n].blocks \in Seq(TextureSets) BY <1>0, SetupTyped
    <3> QED BY <1>0, <1>11, <1>17, <3>1 DEF JobInv, MeshInv, Stored
  <2>3. cur'[n] \in 1..(Len(shapes'[n]) + 1) BY <1>4, <1>10, <1>17
  <2> QED BY <1>0, <1>3, <1>10, <1>11, <1>17, <2>1, <2>2, <2>3 DEF JobInv, MeshInv, Stored
<1>19. FoundInv(n)'
  <2>1. \A i \in DOMAIN shapes'[n] : c + 1 <= i => i # c /\ c < i /\ c <= i
    BY <1>4, <1>17
  <2>2. \A i \in DOMAIN shapes'[n] : c + 1 < i \/ c + 1 = i => c + 1 <= i
    BY <1>4, <1>17
  <2> QED BY <1>0, <1>3, <1>10, <1>11, <1>17, <2>1, <2>2 DEF JobInv, FoundInv, MeshInv, Stored
<1>20. CacheInv(n)' BY <1>11 DEF Stored
<1>21. MatchInv(n)' BY <1>0, <1>3, <1>10 DEF JobInv, MatchInv
<1>22. AppliedInv(n)' BY <1>10 DEF AppliedInv
<1>23. OwnRecord(r0)'
  <2>1. r0.place \in 1..(cur'[n] - 1) BY <1>4, <1>10, <1>12
  <2> QED BY <1>3, <1>11, <1>12, <2>1 DEF OwnRecord, Stored, Fixed
<1>24. \A r \in done : r.nif = n /\ OwnRecord(r) => OwnRecord(r)'
  <2> SUFFICES ASSUME NEW r \in done, r.nif = n, OwnRecord(r) PROVE OwnRecord(r)' OBVIOUS
  <2>1. r.place \in 1..(c - 1) /\ r.place \in DOMAIN shapes[n] /\ r.place # c
        /\ r.place \in 1..(cur'[n] - 1)
    BY <1>4, <1>10, <1>17 DEF OwnRecord
  <2>2. shapes'[n][r.place] = shapes[n][r.place] BY <1>11, <2>1 DEF Stored
  <2>3. shapes[n][r.place].block \in DOMAIN blocks[n] BY <1>0, <2>1 DEF JobInv, MeshInv
  <2>4. CASE r.place \in DOMAIN altTextures[n]
    BY <1>11, <2>1, <2>4 DEF OwnRecord, Stored
  <2>5. CASE r.place \notin DOMAIN altTextures[n]
    BY <1>1, <1>3, <1>11, <2>1, <2>2, <2>3, <2>5 DEF OwnRecord, Stored, Fixed
  <2> QED BY <2>4, <2>5
<1> QED
  BY <1>3, <1>7, <1>12, <1>14, <1>15, <1>16, <1>18, <1>19, <1>20, <1>21, <1>22, <1>23, <1>24,
     OneJob DEF JobInv

LEMMA IInvStep == IInv /\ [Next]_vars => IInv'
<1> SUFFICES ASSUME IInv, [Next]_vars PROVE IInv' OBVIOUS
<1>1. CASE Next
  <2>1. PICK n \in NIFs : processNIF(n) BY <1>1 DEF Next
  <2> QED BY <2>1, StepMatch, StepNoWinner, StepApply, StepPost, StepClear DEF processNIF
<1>2. CASE UNCHANGED vars
  <2>0. /\ UNCHANGED chosen /\ step' = step /\ cur' = cur /\ slots' = slots
        /\ matches' = matches /\ winner' = winner /\ shapes' = shapes /\ blocks' = blocks
        /\ altTextures' = altTextures /\ cache' = cache /\ generated' = generated
        /\ hooks' = hooks /\ conflicts' = conflicts /\ done' = done
    BY <1>2 DEF vars, meshVars
  <2>1. Typing' BY <2>0 DEF IInv, Typing, Chosen, chosen
  <2>2. ASSUME NEW o \in NIFs PROVE JobInv(o)'
    <3>1. JobInv(o) BY DEF IInv
    <3> QED BY <2>0, <3>1, OtherJobs
  <2>3. ASSUME NEW r \in done PROVE RightRecord(r)' /\ OwnRecord(r)'
    <3>1. RightRecord(r) /\ OwnRecord(r) BY <2>3 DEF IInv, DoneInv
    <3> QED BY <2>0, <3>1, OtherRecords
  <2>4. DoneInv' BY <2>0, <2>3 DEF DoneInv
  <2> QED BY <2>1, <2>2, <2>4 DEF IInv
<1> QED BY <1>1, <1>2

LEMMA Invariance == Spec => []IInv
<1> QED BY IInvInit, IInvStep, PTL DEF Spec

LEMMA SafeState == IInv => PatchSafe
<1> SUFFICES ASSUME IInv PROVE PatchSafe OBVIOUS
<1>0. Typing BY DEF IInv
<1>1. ASSUME NEW n \in NIFs
      PROVE  /\ step[n] \in {"match", "apply", "post", "finish", "done"}
             /\ cur[n] \in 1..(Len(shapes[n]) + 1)
             /\ Len(shapes[n]) = Len(setup[n].shapes)
             /\ \A i \in DOMAIN shapes[n] : shapes[n][i].block \in DOMAIN blocks[n]
             /\ DOMAIN cache[n] \subseteq DOMAIN setup[n].blocks
             /\ DOMAIN slots[n] = Slots
             /\ \A m \in matches[n] : m.mod \in Mods \cup {NoMod}
  <2>1. MeshInv(n) /\ CacheInv(n) /\ MatchInv(n) BY DEF IInv, JobInv
  <2>2. step[n] \in Steps /\ slots[n] \in TextureSets BY <1>0 DEF Typing
  <2>3. \A m \in matches[n] : m.mod \in Mods \cup {NoMod}
    <3>1. Chosen /\ \A m \in matches[n] : WellFormed(m) BY <1>0, <2>1 DEF Typing, MatchInv
    <3> QED BY <3>1, KeysTyped
  <2> QED BY <2>1, <2>2, <2>3 DEF MeshInv, CacheInv, Steps, TextureSets
<1>2. TypeOK BY <1>0, <1>1 DEF TypeOK, Typing
<1>3. OwnTextures BY DEF IInv, DoneInv, OwnRecord, OwnTextures
<1> QED BY <1>2, <1>3 DEF PatchSafe

-----------------------------------------------------------------------------
(* The slots a TruePBR match gives, and those a patched shape has. *)

EntryTextures == UNION {Range(e.slots) : e \in ToSet(Entries)}

LEMMA EntryTexture ==
  ASSUME NEW k \in 1..EntryCount, NEW s \in DOMAIN Entries[k].slots
  PROVE  Entries[k].slots[s] \in EntryTextures
<1>1. Entries[k] \in ToSet(Entries) BY EntriesTyped DEF ToSet
<1>2. Entries[k].slots[s] \in Range(Entries[k].slots) BY DEF Range
<1> QED BY <1>1, <1>2 DEF EntryTextures

\* What holds first and is kept by every step holds at the end.
LEMMA Reached ==
  ASSUME NEW n \in Nat, NEW P, 0 \in P, \A k \in 1..n : k - 1 \in P => k \in P
  PROVE  n \in P
<1> DEFINE Missing == {k \in 0..n : k \notin P}
<1> SUFFICES ASSUME Missing # {} PROVE FALSE
  <2>1. n \in 0..n OBVIOUS
  <2> QED BY <2>1
<1>1. PICK k \in Missing : \A y \in Missing : k <= y
  <2>1. Missing \subseteq Nat OBVIOUS
  <2> QED BY <2>1, Least
<1>2. k # 0 /\ k \in 1..n /\ k - 1 \in 0..n /\ k - 1 \notin Missing BY <1>1
<1> QED BY <1>1, <1>2

LEMMA SlotSteps ==
  ASSUME NEW sl \in TextureSets, NEW places
  PROVE  \E f \in [0..EntryCount -> TextureSets] :
           /\ f[0] = sl /\ applyPBRSlots(sl, places) = f[EntryCount]
           /\ \A k \in 1..EntryCount :
                f[k] = IF k \in places THEN applyOnePatchSlots(f[k - 1], Entries[k])
                       ELSE f[k - 1]
<1> DEFINE Body(f) == [k \in 0..EntryCount |->
                         IF k = 0 THEN sl
                         ELSE IF k \in places THEN applyOnePatchSlots(f[k - 1], Entries[k])
                              ELSE f[k - 1]]
           G == [k \in 1..EntryCount |-> [x \in TextureSets |->
                   IF k \in places THEN applyOnePatchSlots(x, Entries[k]) ELSE x]]
           u == CHOOSE f : f = Body(f)
<1>0. EntryCount \in Nat BY EntriesTyped
<1>1. G \in [1..EntryCount -> [TextureSets -> TextureSets]] BY OneSlots
<1>2. PICK f \in [0..EntryCount -> TextureSets] :
        f[0] = sl /\ \A k \in 1..EntryCount : f[k] = G[k][f[k - 1]]
  <2> HIDE DEF G
  <2>1. G \in StepFunctions(EntryCount, TextureSets) BY <1>1 DEF StepFunctions
  <2>2. PICK f : StepsOf(f, EntryCount, TextureSets, sl, G) BY <1>0, <2>1, StepsExist
  <2> QED BY <2>2 DEF StepsOf
<1>3. \A k \in 1..EntryCount :
        f[k] = IF k \in places THEN applyOnePatchSlots(f[k - 1], Entries[k]) ELSE f[k - 1]
  <2> SUFFICES ASSUME NEW k \in 1..EntryCount
               PROVE  f[k] = IF k \in places THEN applyOnePatchSlots(f[k - 1], Entries[k])
                             ELSE f[k - 1]
    OBVIOUS
  <2>1. f[k - 1] \in TextureSets BY <1>0, <1>2
  <2> QED BY <1>2, <2>1
<1>4. f = Body(f)
  <2>1. \A k \in 0..EntryCount : k # 0 => k \in 1..EntryCount BY <1>0
  <2> QED BY <1>2, <1>3, <2>1
<1>5. u = Body(u) BY <1>4
<1>6. u = f
  <2> HIDE DEF u
  <2>1. DOMAIN u = 0..EntryCount /\ u = [k \in 0..EntryCount |-> u[k]] BY <1>5
  <2>2. u[0] = sl BY <1>0, <1>5
  <2>3. \A k \in 1..EntryCount :
          u[k] = IF k \in places THEN applyOnePatchSlots(u[k - 1], Entries[k]) ELSE u[k - 1]
    BY <1>0, <1>5
  <2>4. \A k \in 1..EntryCount : u[k - 1] = f[k - 1] => u[k] = f[k] BY <1>3, <2>3
  <2>5. DOMAIN f = 0..EntryCount /\ f = [k \in 0..EntryCount |-> f[k]] BY <1>2
  <2> QED BY <1>0, <1>2, <2>1, <2>2, <2>4, <2>5, StepsUnique
<1>7. applyPBRSlots(sl, places) = u[EntryCount] BY DEF applyPBRSlots, EntryCount
<1> QED BY <1>2, <1>3, <1>6, <1>7

\* The entries put in textures of their own, and no others.
LEMMA SlotsApplied ==
  ASSUME NEW sl \in TextureSets, NEW places
  PROVE  /\ applyPBRSlots(sl, places) \in TextureSets
         /\ \A s \in Slots :
              LET t == applyPBRSlots(sl, places)[s]
              IN  t = sl[s] \/ (places # {} /\ t \in EntryTextures)
<1>0. EntryCount \in Nat BY EntriesTyped
<1>1. PICK f \in [0..EntryCount -> TextureSets] :
        /\ f[0] = sl /\ applyPBRSlots(sl, places) = f[EntryCount]
        /\ \A k \in 1..EntryCount :
             f[k] = IF k \in places THEN applyOnePatchSlots(f[k - 1], Entries[k]) ELSE f[k - 1]
  BY SlotSteps
<1> DEFINE P == {k \in 0..EntryCount :
                   \A s \in Slots : f[k][s] = sl[s] \/ (places # {} /\ f[k][s] \in EntryTextures)}
<1>2. 0 \in P BY <1>0, <1>1
<1>3. ASSUME NEW k \in 1..EntryCount, k - 1 \in P PROVE k \in P
  <2>0. k \in 0..EntryCount BY <1>0
  <2>1. ASSUME NEW s \in Slots
        PROVE  f[k][s] = sl[s] \/ (places # {} /\ f[k][s] \in EntryTextures)
    <3>1. f[k - 1][s] = sl[s] \/ (places # {} /\ f[k - 1][s] \in EntryTextures) BY <1>3
    <3>2. CASE k \notin places BY <1>1, <3>1, <3>2
    <3>3. CASE k \in places
      <4>1. f[k] = applyOnePatchSlots(f[k - 1], Entries[k]) BY <1>1, <3>3
      <4>2. \/ f[k][s] = f[k - 1][s]
            \/ s \in DOMAIN Entries[k].slots /\ f[k][s] = Entries[k].slots[s]
        BY <4>1 DEF applyOnePatchSlots
      <4> QED BY <3>1, <3>3, <4>2, EntryTexture
    <3> QED BY <3>2, <3>3
  <2> QED BY <2>0, <2>1
<1> HIDE DEF P
<1>4. EntryCount \in P BY <1>0, <1>2, <1>3, Reached
<1> QED BY <1>0, <1>1, <1>4 DEF P

\* If no entry deletes the shape, pathsExist asked for the very slots the
\* shape gets.
LEMMA EntriesSlots ==
  ASSUME NEW it \in Items, NEW places, ~ deletes(places)
  PROVE  applyEntries(it, places).slots = applyPBRSlots(it.slots, places)
<1>0. EntryCount \in Nat /\ it.slots \in TextureSets BY EntriesTyped DEF Items
<1>1. PICK f \in [0..EntryCount -> Items] :
        /\ f[0] = it /\ applyEntries(it, places) = f[EntryCount]
        /\ \A k \in 1..EntryCount :
             f[k] = IF k \in places THEN applyOnePatch(f[k - 1], Entries[k]) ELSE f[k - 1]
  BY EntriesSteps
<1>s. PICK sl \in TextureSets : sl = it.slots BY <1>0
<1>2. PICK g \in [0..EntryCount -> TextureSets] :
        /\ g[0] = sl /\ applyPBRSlots(sl, places) = g[EntryCount]
        /\ \A k \in 1..EntryCount :
             g[k] = IF k \in places THEN applyOnePatchSlots(g[k - 1], Entries[k]) ELSE g[k - 1]
  BY SlotSteps
<1> DEFINE P == {k \in 0..EntryCount : f[k].slots = g[k]}
<1>3. 0 \in P BY <1>0, <1>1, <1>2, <1>s
<1>4. ASSUME NEW k \in 1..EntryCount, k - 1 \in P PROVE k \in P
  <2>0. k \in 0..EntryCount /\ f[k - 1].slots = g[k - 1] BY <1>0, <1>4
  <2>1. CASE k \notin places BY <1>1, <1>2, <2>0, <2>1
  <2>2. CASE k \in places
    <3>1. f[k] = applyOnePatch(f[k - 1], Entries[k])
          /\ g[k] = applyOnePatchSlots(g[k - 1], Entries[k])
      BY <1>1, <1>2, <2>2
    <3>2. "delete" \notin Entries[k].does BY <2>2 DEF deletes
    <3>3. f[k].slots = applyOnePatchSlots(f[k - 1].slots, Entries[k])
      BY <3>1, <3>2 DEF applyOnePatch, applyOnePatchSlots
    <3> QED BY <2>0, <3>1, <3>3
  <2> QED BY <2>1, <2>2
<1> HIDE DEF P
<1>5. EntryCount \in P BY <1>0, <1>3, <1>4, Reached
<1> QED BY <1>1, <1>2, <1>5, <1>s DEF P

LEMMA AppliedSlots ==
  ASSUME NEW it \in Items, NEW m, m.shader \in Shaders, m.entries \subseteq 1..EntryCount,
         NEW new, new = applyPatch(it, m), ~ new.shape.deleted
  PROVE  \A s \in Slots :
           \/ new.slots[s] \in {it.slots[s], None}
           \/ /\ m.shader = "parallax" \/ (m.shader = "complexMaterial" /\ s = "envmask")
              /\ new.slots[s] = m.path
           \/ s = "cubemap" /\ new.slots[s] = DynCubemap
           \/ /\ m.shader = "truePBR" /\ ~ deletes(m.entries)
              /\ new.slots[s] = applyPBRSlots(it.slots, m.entries)[s]
<1>0. it.slots \in TextureSets BY DEF Items
<1>1. CASE m.shader = "parallax"
  <2>1. new.slots = [it.slots EXCEPT !["parallax"] = m.path]
    BY <1>1 DEF applyPatch, applyParallax
  <2> QED BY <1>0, <1>1, <2>1 DEF TextureSets
<1>2. CASE m.shader = "complexMaterial"
  <2>1. new.slots = [it.slots EXCEPT !["parallax"] = None, !["envmask"] = m.path,
                !["cubemap"] = IF "disableDynCubemap" \in options \/ m.path \in StaticCubemap
                               THEN @ ELSE DynCubemap]
    BY <1>2 DEF applyPatch, applyCM
  <2> QED BY <1>0, <1>2, <2>1 DEF TextureSets
<1>3. CASE m.shader = "truePBR"
  <2>1. new = applyEntries(it, m.entries) BY <1>3 DEF applyPatch
  <2>2. deletes(m.entries) => new.shape.deleted BY <2>1, EntriesApplied
  <2>3. new.slots = applyPBRSlots(it.slots, m.entries) BY <2>1, <2>2, EntriesSlots
  <2> QED BY <1>3, <2>2, <2>3
<1>4. CASE m.shader = "default" BY <1>4 DEF applyPatch
<1> QED BY <1>1, <1>2, <1>3, <1>4 DEF Shaders

-----------------------------------------------------------------------------
(* What another job may change of what the patchers do: which files there  *)
(* are.  It adds textures that the hooks will generate.                    *)

\* Neither the texture set nor the JSONs name what a hook may generate.
OfGame(sl) == (Range(sl) \cup EntryTextures) \cap Outputs = {}

\* Whether there is such a texture does not change any more.
Settled(t) == t \in Files \cup generated \/ t \notin Outputs

LEMMA OfGameTextures ==
  ASSUME NEW sl \in TextureSets, OfGame(sl)
  PROVE  /\ \A s \in Slots : sl[s] \notin Outputs
         /\ \A places : \A s \in Slots : applyPBRSlots(sl, places)[s] \notin Outputs
<1>1. \A s \in Slots : sl[s] \notin Outputs BY DEF OfGame, TextureSets, Range
<1>2. \A t \in EntryTextures : t \notin Outputs BY DEF OfGame
<1> QED BY <1>1, <1>2, SlotsApplied

LEMMA FileStays ==
  ASSUME NEW t, Settled(t), generated \subseteq generated', generated' \subseteq Outputs
  PROVE  isFile(t)' <=> isFile(t)
BY DEF Settled, isFile

\* The matches for a texture set of the game stay the same.
LEMMA ProposedStay ==
  ASSUME NEW sl \in TextureSets, OfGame(sl), options' = options,
         generated \subseteq generated', generated' \subseteq Outputs
  PROVE  shouldApply(sl)' = shouldApply(sl)
<1>0. \A t : t \notin Outputs => (isFile(t)' <=> isFile(t)) BY FileStays DEF Settled
<1>1. \A s \in Slots : isFile(sl[s])' <=> isFile(sl[s]) BY <1>0, OfGameTextures
<1>2. \A places : pathsExist(sl, places)' <=> pathsExist(sl, places)
  <2> SUFFICES ASSUME NEW places PROVE pathsExist(sl, places)' <=> pathsExist(sl, places)
    OBVIOUS
  <2>1. \A s \in Slots : isFile(applyPBRSlots(sl, places)[s])'
                           <=> isFile(applyPBRSlots(sl, places)[s])
    BY <1>0, OfGameTextures
  <2> QED BY <2>1 DEF pathsExist
<1>3. truePBRMatches(sl)' = truePBRMatches(sl) BY <1>2 DEF truePBRMatches
<1>4. {u \in {sl["diffuse"], sl["normal"]} : isFile(u)}'
        = {u \in {sl["diffuse"], sl["normal"]} : isFile(u)}
  BY <1>1 DEF Slots
<1> QED BY <1>3, <1>4 DEF shouldApply

MatchesOf(sl, shape, use) == IF shape.ignored THEN {} ELSE getMatches(sl, shape, use)

LEMMA MatchesStay ==
  ASSUME NEW sl \in TextureSets, OfGame(sl), NEW shape, NEW use, options' = options,
         generated \subseteq generated', generated' \subseteq Outputs
  PROVE  MatchesOf(sl, shape, use)' = MatchesOf(sl, shape, use)
<1>1. shouldApply(sl)' = shouldApply(sl) BY ProposedStay
<1>2. \A m : transformTo(m, shape, use)' = transformTo(m, shape, use) BY DEF transformTo
<1> QED BY <1>1, <1>2 DEF MatchesOf, getMatches

\* All that a TruePBR match puts in a slot is there.
PathsFound(sl, places) ==
  \/ deletes(places)
  \/ \A s \in Slots : LET t == applyPBRSlots(sl, places)[s]
                      IN  t \in {None, sl[s]} \/ isFile(t)

LEMMA MatchedPathsFound ==
  ASSUME NEW sl \in TextureSets, NEW shape, NEW use, generated \subseteq Outputs,
         NEW m \in MatchesOf(sl, shape, use), m.shader = "truePBR"
  PROVE  PathsFound(sl, m.entries)
<1>1. PICK p \in shouldApply(sl) : m = [p EXCEPT !.to = transformTo(p, shape, use)]
  BY DEF MatchesOf, getMatches
<1>2. p.shader = "truePBR" /\ p.entries = m.entries
  <2> DEFINE es == {i \in Hits(sl) : Entries[i].json = p.path /\ p.shader = "truePBR"}
  <2>1. p = [shader |-> p.shader, to |-> None, mod |-> ModOf[p.path], path |-> p.path,
             entries |-> es]
    BY Proposed
  <2> HIDE DEF es
  <2>2. m = [shader |-> p.shader, to |-> transformTo(p, shape, use), mod |-> ModOf[p.path],
             path |-> p.path, entries |-> es]
    BY <1>1, <2>1, ToReplaced
  <2>3. p.entries = es BY <2>1
  <2> QED BY <2>2, <2>3
<1>3. \A s, t : match(s, t) = [shader |-> s, to |-> None, mod |-> ModOf[t], path |-> t,
                               entries |-> {}]
  BY DEF match
<1>a. \A s, t : match(s, t).shader = s /\ match(s, t).entries = {} BY DEF match
<1>4. p \in truePBRMatches(sl)
  <2> DEFINE D == {match("default", t) : t \in {u \in {sl["diffuse"], sl["normal"]} : isFile(u)}}
             A == {match("parallax", t) : t \in found(sl, HeightMaps)}
             C == {match("complexMaterial", t) : t \in found(sl, CMs)}
  <2>1. p \in D \cup A \cup C \cup truePBRMatches(sl) BY DEF shouldApply
  <2>2. ASSUME p \in D PROVE FALSE
    <3>1. PICK t : p = match("default", t) BY <2>2
    <3>2. p.shader = "default" BY <1>a, <3>1
    <3> QED BY <1>2, <3>2
  <2>3. ASSUME p \in A PROVE FALSE
    <3>1. PICK t : p = match("parallax", t) BY <2>3
    <3>2. p.shader = "parallax" BY <1>a, <3>1
    <3> QED BY <1>2, <3>2
  <2>4. ASSUME p \in C PROVE FALSE
    <3>1. PICK t : p = match("complexMaterial", t) BY <2>4
    <3>2. p.shader = "complexMaterial" BY <1>a, <3>1
    <3> QED BY <1>2, <3>2
  <2> QED BY <2>1, <2>2, <2>3, <2>4
<1> DEFINE of(j) == {i \in Hits(sl) : Entries[i].json = j}
<1>5. CASE \E j : p = [match("truePBR", j) EXCEPT !.entries = of(j)] /\ pathsExist(sl, of(j))
  <2>1. PICK j : p = [match("truePBR", j) EXCEPT !.entries = of(j)] /\ pathsExist(sl, of(j))
    BY <1>5
  <2>2. p.entries = of(j) BY <1>3, <2>1
  <2>3. pathsExist(sl, m.entries) BY <1>2, <2>1, <2>2
  <2> QED BY <2>3 DEF pathsExist, PathsFound
<1>6. CASE \E t : p = match("truePBR", t)
  <2>1. m.entries = {} BY <1>2, <1>a, <1>6
  <2> QED BY <2>1, SlotsApplied DEF PathsFound
<1> QED BY <1>4, <1>5, <1>6 DEF truePBRMatches, Hits

\* The winner's patch, on a shape as it was found.
Item(shape, sl) == [shape |-> shape, slots |-> sl]
AppliedTo(sl, shape, w) ==
  IF w = NoMatch THEN Item(shape, sl) ELSE applyPatch(Item(shape, sl), transform(w))
AfterPost(it) == HairFlowMap(FixSSS(RestoreDefaultShaders(it)))

\* A winner that was transformed has its texture in the file map.
Ready(w) == w # NoMatch /\ w.to # None => w.path \in hooks.cm /\ CMOutput[w.path] \in generated

LEMMA AppliedTextures ==
  ASSUME NEW sl \in TextureSets, NEW shape \in ShapeRecords, NEW w,
         w = NoMatch \/ WellFormed(w), Ready(w),
         NEW it, it = AppliedTo(sl, shape, w), ~ it.shape.deleted
  PROVE  /\ it \in Items
         /\ \A s \in Slots :
              \/ it.slots[s] \in Files \cup {None, sl[s]}
              \/ s = "cubemap" /\ it.slots[s] = DynCubemap
              \/ /\ s = "envmask" /\ w.path \in hooks.cm
                 /\ it.slots[s] = CMOutput[w.path] /\ CMOutput[w.path] \in generated
              \/ /\ w.shader = "truePBR" /\ ~ deletes(w.entries)
                 /\ it.slots[s] = applyPBRSlots(sl, w.entries)[s]
<1>1. CASE w = NoMatch BY <1>1 DEF AppliedTo, Item, Items
<1>2. CASE w # NoMatch
  <2>0. PICK old : old = Item(shape, sl) OBVIOUS
  <2>1. old \in Items /\ old.slots = sl BY <2>0 DEF Item, Items
  <2>2. PICK m : m = transform(w) OBVIOUS
  <2>3. /\ m.shader = effective(w) /\ m.shader \in Shaders
        /\ m.entries = w.entries /\ m.entries \subseteq 1..EntryCount
        /\ m.shader \in {"parallax", "complexMaterial"} =>
             /\ m.path \in Textures
             /\ \/ m.path \in Files
                \/ w.to # None /\ m.path = CMOutput[w.path] /\ m.path \in Outputs
        /\ m.shader = "parallax" => m.path \in Files
    BY <1>2, <2>2, Transformed
  <2>4. it = applyPatch(old, m) BY <1>2, <2>0, <2>2 DEF AppliedTo
  <2>5. it \in Items BY <2>1, <2>3, <2>4, ShaderApplied
  <2>6. \A s \in Slots :
           \/ it.slots[s] \in {sl[s], None}
           \/ /\ m.shader = "parallax" \/ (m.shader = "complexMaterial" /\ s = "envmask")
              /\ it.slots[s] = m.path
           \/ s = "cubemap" /\ it.slots[s] = DynCubemap
           \/ /\ m.shader = "truePBR" /\ ~ deletes(m.entries)
              /\ it.slots[s] = applyPBRSlots(sl, m.entries)[s]
    BY <2>1, <2>3, <2>4, AppliedSlots
  <2>7. m.shader = "truePBR" => w.shader = "truePBR"
    BY <1>2, <2>3 DEF WellFormed, effective
  <2>8. m.shader = "complexMaterial" =>
          m.path \in Files \/ (w.path \in hooks.cm /\ m.path = CMOutput[w.path]
                               /\ CMOutput[w.path] \in generated)
    BY <1>2, <2>3 DEF Ready
  <2> QED BY <2>3, <2>5, <2>6, <2>7, <2>8
<1> QED BY <1>1, <1>2

\* What RestoreDefaultShaders asks the file map of.
Certain(it) ==
  /\ it \in Items
  /\ Settled(it.slots["parallax"]) /\ Settled(it.slots["envmask"])
  /\ it.slots["cubemap"] = DynCubemap \/ Settled(it.slots["cubemap"])

LEMMA AppliedCertain ==
  ASSUME NEW sl \in TextureSets, OfGame(sl), NEW shape \in ShapeRecords, NEW w,
         w = NoMatch \/ WellFormed(w), Ready(w),
         NEW it, it = AppliedTo(sl, shape, w), ~ it.shape.deleted
  PROVE  Certain(it)
<1>1. /\ it \in Items
      /\ \A s \in Slots :
           \/ it.slots[s] \in Files \cup {None, sl[s]}
           \/ s = "cubemap" /\ it.slots[s] = DynCubemap
           \/ /\ s = "envmask" /\ w.path \in hooks.cm
              /\ it.slots[s] = CMOutput[w.path] /\ CMOutput[w.path] \in generated
           \/ /\ w.shader = "truePBR" /\ ~ deletes(w.entries)
              /\ it.slots[s] = applyPBRSlots(sl, w.entries)[s]
  BY AppliedTextures
<1>2. Settled(None) /\ \A t \in Files : Settled(t) BY ShapePatchingAssumption DEF Settled
<1>3. \A s \in Slots : Settled(sl[s]) /\ Settled(applyPBRSlots(sl, w.entries)[s])
  BY OfGameTextures DEF Settled
<1>4. CMOutput[w.path] \in generated => Settled(CMOutput[w.path]) BY DEF Settled
<1>5. \A s \in Slots : Settled(it.slots[s]) \/ (s = "cubemap" /\ it.slots[s] = DynCubemap)
  BY <1>1, <1>2, <1>3, <1>4
<1> QED BY <1>1, <1>5 DEF Certain, Slots

LEMMA PostStays ==
  ASSUME NEW it, Certain(it), options' = options,
         generated \subseteq generated', generated' \subseteq Outputs
  PROVE  Certain(it)' /\ AfterPost(it)' = AfterPost(it)
<1>1. Certain(it)' BY DEF Certain, Settled
<1>2. /\ isFile(it.slots["parallax"])' <=> isFile(it.slots["parallax"])
      /\ isFile(it.slots["envmask"])' <=> isFile(it.slots["envmask"])
      /\ cubemapValid(it.slots)' <=> cubemapValid(it.slots)
  BY FileStays DEF Certain, cubemapValid
<1>3. restoreFromParallax(it)' = restoreFromParallax(it) BY <1>2 DEF restoreFromParallax
<1>4. PICK p : p = restoreFromParallax(it) OBVIOUS
<1>5. p.slots["cubemap"] = it.slots["cubemap"] /\ p.slots["envmask"] = it.slots["envmask"]
  BY <1>4 DEF restoreFromParallax, Certain, Items, TextureSets
<1>6. /\ cubemapValid(p.slots)' <=> cubemapValid(p.slots)
      /\ envMaskValid(p.slots)' <=> envMaskValid(p.slots)
  BY <1>2, <1>5 DEF cubemapValid, envMaskValid
<1>7. restoreFromComplexMaterial(p)' = restoreFromComplexMaterial(p)
  BY <1>6 DEF restoreFromComplexMaterial
<1>8. RestoreDefaultShaders(it)' = RestoreDefaultShaders(it)
  BY <1>3, <1>4, <1>7 DEF RestoreDefaultShaders
<1>9. PICK r : r = RestoreDefaultShaders(it) OBVIOUS
<1>10. HairFlowMap(FixSSS(r))' = HairFlowMap(FixSSS(r)) BY DEF HairFlowMap, FixSSS, needsFixSSS
<1> QED BY <1>1, <1>8, <1>9, <1>10 DEF AfterPost

-----------------------------------------------------------------------------
(* Shapes that differ in nothing but the place of their texture set. *)

Like(a, b) ==
  /\ a.type = b.type /\ a.flags = b.flags /\ a.rigid = b.rigid
  /\ a.ignored = b.ignored /\ a.deleted = b.deleted
LikeItems(x, y) == x \in Items /\ y \in Items /\ Like(x.shape, y.shape) /\ x.slots = y.slots

LEMMA LikeMatches ==
  ASSUME NEW a, NEW b, Like(a, b), NEW sl, NEW use
  PROVE  MatchesOf(sl, a, use) = MatchesOf(sl, b, use)
<1>1. \A s : canApply(s, a, use) <=> canApply(s, b, use)
  BY DEF Like, canApply, canApplyCM, canApplyParallax
<1>2. \A m : transformTo(m, a, use) = transformTo(m, b, use) BY <1>1 DEF transformTo
<1> QED BY <1>1, <1>2 DEF MatchesOf, getMatches, Like

LEMMA LikeRemade ==
  ASSUME NEW a, NEW b, Like(a, b), NEW type, NEW flags
  PROVE  Like(remade(a, type, flags), remade(b, type, flags))
BY DEF Like, remade

LEMMA LikeEntry ==
  ASSUME NEW x, NEW y, LikeItems(x, y), NEW k \in 1..EntryCount
  PROVE  LikeItems(applyOnePatch(x, Entries[k]), applyOnePatch(y, Entries[k]))
<1> DEFINE e == Entries[k]
           p == applyOnePatch(x, e)
           q == applyOnePatch(y, e)
<1>0. /\ x.shape.type = y.shape.type /\ x.shape.flags = y.shape.flags
      /\ Like(x.shape, y.shape) /\ x.slots = y.slots
      /\ x.shape \in ShapeRecords /\ y.shape \in ShapeRecords
  BY DEF LikeItems, Like, Items
<1>1. p \in Items /\ q \in Items BY OneEntry DEF LikeItems
<1>2. CASE "delete" \in e.does
  <2>1. /\ p.shape = [x.shape EXCEPT !.deleted = TRUE] /\ q.shape = [y.shape EXCEPT !.deleted = TRUE]
        /\ p.slots = q.slots
    BY <1>0, <1>2 DEF applyOnePatch
  <2>2. Like(p.shape, q.shape)
    <3> HIDE DEF p, q
    <3> QED BY <1>0, <2>1 DEF Like, ShapeRecords
  <2> QED BY <1>1, <2>1, <2>2 DEF LikeItems
<1>3. CASE "delete" \notin e.does /\ "pbr" \in e.does
  <2>1. /\ p.shape = enableTruePBR(x.shape, e.does) /\ q.shape = enableTruePBR(y.shape, e.does)
        /\ p.slots = q.slots
    BY <1>0, <1>3 DEF applyOnePatch
  <2>2. Like(enableTruePBR(x.shape, e.does), enableTruePBR(y.shape, e.does))
    BY <1>0 DEF enableTruePBR, Like, remade
  <2> QED BY <1>1, <2>1, <2>2 DEF LikeItems
<1>4. CASE "delete" \notin e.does /\ "pbr" \notin e.does /\ "env_mapping" \in e.does
  <2>1. /\ p.shape = remade(x.shape, "ENVMAP",
                       x.shape.flags \cup {"ENVIRONMENT_MAPPING", "BACK_LIGHTING"})
        /\ q.shape = remade(y.shape, "ENVMAP",
                       y.shape.flags \cup {"ENVIRONMENT_MAPPING", "BACK_LIGHTING"})
        /\ p.slots = q.slots
    BY <1>0, <1>4 DEF applyOnePatch
  <2>2. Like(p.shape, q.shape)
    <3> HIDE DEF p, q
    <3> QED BY <1>0, <2>1, LikeRemade
  <2> QED BY <1>1, <2>1, <2>2 DEF LikeItems
<1>5. CASE "delete" \notin e.does /\ "pbr" \notin e.does /\ "env_mapping" \notin e.does
  BY <1>5 DEF applyOnePatch
<1> QED BY <1>2, <1>3, <1>4, <1>5

LEMMA LikeEntries ==
  ASSUME NEW x, NEW y, LikeItems(x, y), NEW places
  PROVE  LikeItems(applyEntries(x, places), applyEntries(y, places))
<1>0. EntryCount \in Nat BY EntriesTyped
<1>x. x \in Items BY DEF LikeItems
<1>y. y \in Items BY DEF LikeItems
<1>1. PICK f \in [0..EntryCount -> Items] :
        /\ f[0] = x /\ applyEntries(x, places) = f[EntryCount]
        /\ \A k \in 1..EntryCount :
             f[k] = IF k \in places THEN applyOnePatch(f[k - 1], Entries[k]) ELSE f[k - 1]
  BY <1>x, EntriesSteps
<1>2. PICK g \in [0..EntryCount -> Items] :
        /\ g[0] = y /\ applyEntries(y, places) = g[EntryCount]
        /\ \A k \in 1..EntryCount :
             g[k] = IF k \in places THEN applyOnePatch(g[k - 1], Entries[k]) ELSE g[k - 1]
  BY <1>y, EntriesSteps
<1> DEFINE P == {k \in 0..EntryCount : LikeItems(f[k], g[k])}
<1>3. 0 \in P BY <1>0, <1>1, <1>2
<1>4. ASSUME NEW k \in 1..EntryCount, k - 1 \in P PROVE k \in P
  <2>0. k \in 0..EntryCount /\ LikeItems(f[k - 1], g[k - 1]) BY <1>0, <1>4
  <2>1. CASE k \notin places BY <1>1, <1>2, <2>0, <2>1
  <2>2. CASE k \in places
    <3>1. f[k] = applyOnePatch(f[k - 1], Entries[k]) /\ g[k] = applyOnePatch(g[k - 1], Entries[k])
      BY <1>1, <1>2, <2>2
    <3> QED BY <2>0, <3>1, LikeEntry
  <2> QED BY <2>1, <2>2
<1> HIDE DEF P
<1>5. EntryCount \in P BY <1>0, <1>3, <1>4, Reached
<1> QED BY <1>1, <1>2, <1>5 DEF P

LEMMA LikePatched ==
  ASSUME NEW x, NEW y, LikeItems(x, y), NEW m, m.shader \in Shaders,
         m.entries \subseteq 1..EntryCount,
         m.shader \in {"parallax", "complexMaterial"} => m.path \in Textures
  PROVE  LikeItems(applyPatch(x, m), applyPatch(y, m))
<1>0. /\ x.shape.type = y.shape.type /\ x.shape.flags = y.shape.flags
      /\ Like(x.shape, y.shape) /\ x.slots = y.slots /\ x \in Items /\ y \in Items
  BY DEF LikeItems, Like
<1>1. applyPatch(x, m) \in Items /\ applyPatch(y, m) \in Items BY <1>0, ShaderApplied
<1>2. CASE m.shader = "parallax"
  <2>1. applyPatch(x, m) = applyParallax(x, m) /\ applyPatch(y, m) = applyParallax(y, m)
    BY <1>2 DEF applyPatch
  <2>2. /\ Like(applyParallax(x, m).shape, applyParallax(y, m).shape)
        /\ applyParallax(x, m).slots = applyParallax(y, m).slots
    BY <1>0, LikeRemade DEF applyParallax
  <2> QED BY <1>1, <2>1, <2>2 DEF LikeItems
<1>3. CASE m.shader = "complexMaterial"
  <2>1. applyPatch(x, m) = applyCM(x, m) /\ applyPatch(y, m) = applyCM(y, m)
    BY <1>3 DEF applyPatch
  <2>2. /\ Like(applyCM(x, m).shape, applyCM(y, m).shape)
        /\ applyCM(x, m).slots = applyCM(y, m).slots
    BY <1>0, LikeRemade DEF applyCM
  <2> QED BY <1>1, <2>1, <2>2 DEF LikeItems
<1>4. CASE m.shader = "truePBR" BY <1>4, LikeEntries DEF applyPatch
<1>5. CASE m.shader = "default" BY <1>5 DEF applyPatch
<1> QED BY <1>2, <1>3, <1>4, <1>5 DEF Shaders

LEMMA LikePost ==
  ASSUME NEW x, NEW y, LikeItems(x, y)
  PROVE  LikeItems(AfterPost(x), AfterPost(y))
<1>a. PICK p : p = restoreFromParallax(x) OBVIOUS
<1>b. PICK q : q = restoreFromParallax(y) OBVIOUS
<1>1. Like(p.shape, q.shape) /\ p.slots = q.slots
  BY <1>a, <1>b DEF restoreFromParallax, LikeItems, Like, remade
<1>2. /\ Like(restoreFromComplexMaterial(p).shape, restoreFromComplexMaterial(q).shape)
      /\ restoreFromComplexMaterial(p).slots = restoreFromComplexMaterial(q).slots
  BY <1>1 DEF restoreFromComplexMaterial, Like, remade
<1>c. PICK r : r = RestoreDefaultShaders(x) OBVIOUS
<1>d. PICK s : s = RestoreDefaultShaders(y) OBVIOUS
<1>3. r \in Items /\ s \in Items /\ Like(r.shape, s.shape) /\ r.slots = s.slots
  <2>1. r \in Items /\ s \in Items BY <1>c, <1>d, Restored DEF LikeItems
  <2> QED BY <1>2, <1>a, <1>b, <1>c, <1>d, <2>1 DEF RestoreDefaultShaders, LikeItems
<1>e. PICK f : f = FixSSS(r) OBVIOUS
<1>f. PICK g : g = FixSSS(s) OBVIOUS
<1>4. Like(f.shape, g.shape) /\ f.slots = g.slots
  BY <1>3, <1>e, <1>f DEF FixSSS, needsFixSSS, Like
<1>5. /\ Like(HairFlowMap(f).shape, HairFlowMap(g).shape)
      /\ HairFlowMap(f).slots = HairFlowMap(g).slots
  BY <1>4 DEF HairFlowMap, Like, remade
<1>6. HairFlowMap(f) \in Items /\ HairFlowMap(g) \in Items
  BY <1>3, <1>e, <1>f, PostApplied
<1> QED BY <1>5, <1>6, <1>c, <1>d, <1>e, <1>f DEF AfterPost, LikeItems

\* No two matches come first.
LEMMA OneFirst ==
  ASSUME Chosen, NEW ms, \A m \in ms : WellFormed(m), Distinct(ms),
         NEW v, FirstIn(ms, v), NEW w, FirstIn(ms, w)
  PROVE  v = w
<1>1. v \in ms /\ w \in ms /\ ~ before(w, v) /\ ~ before(v, w) BY DEF FirstIn, EnabledOf
<1>2. WellFormed(v) /\ WellFormed(w) BY <1>1
<1>3. /\ ModKey(v) \in Nat /\ ShaderKey(v) \in Nat /\ Rank[v.path] \in Nat
      /\ ModKey(w) \in Nat /\ ShaderKey(w) \in Nat /\ Rank[w.path] \in Nat
      /\ effective(v) \in Shaders /\ effective(w) \in Shaders
      /\ v.path \in Paths /\ w.path \in Paths
  BY <1>2, KeysTyped DEF WellFormed
<1>4. ShaderKey(v) = ShaderKey(w) /\ Rank[v.path] = Rank[w.path]
  BY <1>1, <1>2, <1>3, BeforeIsLexical
<1>5. effective(v) = effective(w) BY <1>3, <1>4 DEF ShaderKey, Quality, Shaders
<1>6. v.path = w.path BY <1>3, <1>4, ShapePatchingAssumption
<1> QED BY <1>1, <1>5, <1>6 DEF Distinct

-----------------------------------------------------------------------------
(* The second invariant: between its steps a job works on the shape as it  *)
(* was found, and what it records is what the patchers make of that.       *)

\* No JSON names a texture that a hook may generate and the game lacks.
PlainEntries == EntryTextures \cap Outputs \subseteq Files

WorksOnFound(n) ==
  step[n] \in {"apply", "post"} =>
    LET sl    == FoundSetAt(n, cur[n])
        shape == setup[n].shapes[cur[n]]
    IN  /\ OfGame(sl) => matches[n] = MatchesOf(sl, shape, setup[n].use)
        /\ \A m \in matches[n] : m.shader = "truePBR" => PathsFound(sl, m.entries)
        /\ step[n] = "post" =>
             /\ winner[n] = NoMatch => EnabledOf(matches[n]) = {}
             /\ Item(Shape(n), slots[n]) = AppliedTo(sl, shape, winner[n])
             /\ ~ Shape(n).deleted /\ Ready(winner[n])

\* Of the record of a shape: what it was found with and what won.
FromFound(ms, w, it, sl, shape, use) ==
  /\ Ready(w) /\ ~ AppliedTo(sl, shape, w).shape.deleted
  /\ w = NoMatch => EnabledOf(ms) = {}
  /\ OfGame(sl) => ms = MatchesOf(sl, shape, use) /\ it = AfterPost(AppliedTo(sl, shape, w))

NothingMissing(textures, sl) ==
  \A s \in Slots :
    \/ textures[s] \in InTheEnd
    \/ textures[s] = sl[s]
    \/ s = "glow" /\ sl["glow"] \notin Files

RecordFromFound(r) ==
  /\ r.winner = NoMatch \/ WellFormed(r.winner)
  /\ FromFound(r.matches, r.winner, Item(r.shape, r.textures), FoundSet(r), Found(r),
               setup[r.nif].use)
  /\ PlainEntries => NothingMissing(r.textures, FoundSet(r))

FoundInv2 == (\A n \in NIFs : WorksOnFound(n)) /\ \A r \in done : RecordFromFound(r)

\* What a step of one job leaves of this for the others.
Grows ==
  /\ options' = options /\ enabled' = enabled /\ setup' = setup
  /\ generated \subseteq generated' /\ generated' \subseteq Outputs
  /\ hooks.cm \subseteq hooks'.cm /\ hooks.sss \subseteq hooks'.sss

LEMMA ReadyStays ==
  ASSUME Grows, NEW w, Ready(w)
  PROVE  Ready(w)'
BY DEF Grows, Ready

LEMMA AppliedStays ==
  ASSUME Grows, NEW sl, NEW shape, NEW w
  PROVE  AppliedTo(sl, shape, w)' = AppliedTo(sl, shape, w)
<1>1. \A it, m : applyPatch(it, m)' = applyPatch(it, m) BY DEF Grows, applyPatch, applyCM
<1> QED BY <1>1 DEF AppliedTo

LEMMA FromFoundStays ==
  ASSUME Grows, NEW sl \in TextureSets, NEW shape \in ShapeRecords, NEW w, NEW ms, NEW use, NEW it,
         w = NoMatch \/ WellFormed(w), FromFound(ms, w, it, sl, shape, use)
  PROVE  FromFound(ms, w, it, sl, shape, use)'
<1>1. Ready(w)' BY ReadyStays DEF FromFound
<1>2. PICK old : old = AppliedTo(sl, shape, w) OBVIOUS
<1>3. AppliedTo(sl, shape, w)' = old BY <1>2, AppliedStays
<1>4. EnabledOf(ms)' = EnabledOf(ms) BY DEF Grows, EnabledOf
<1>5. ASSUME OfGame(sl)
      PROVE  /\ MatchesOf(sl, shape, use)' = MatchesOf(sl, shape, use)
             /\ AfterPost(old)' = AfterPost(old)
  <2>1. Certain(old) BY <1>2, <1>5, AppliedCertain DEF FromFound
  <2> QED BY <1>5, <2>1, MatchesStay, PostStays DEF Grows
<1> QED BY <1>1, <1>2, <1>3, <1>4, <1>5 DEF FromFound

LEMMA NothingMissingStays ==
  ASSUME Grows, NEW sl, NEW textures, NothingMissing(textures, sl)
  PROVE  NothingMissing(textures, sl)'
BY DEF Grows, NothingMissing, InTheEnd

LEMMA RecordStays ==
  ASSUME Grows, IInv, NEW r \in done, RecordFromFound(r)
  PROVE  RecordFromFound(r)'
<1>1. PICK sl : sl = FoundSet(r) OBVIOUS
<1>2. PICK shape : shape = Found(r) OBVIOUS
<1>3. PICK use : use = setup[r.nif].use OBVIOUS
<1>4. FoundSet(r)' = sl /\ Found(r)' = shape /\ (setup[r.nif].use)' = use
  BY <1>1, <1>2, <1>3 DEF Grows, FoundSet, Found
<1>5. sl \in TextureSets /\ shape \in ShapeRecords
  <2>1. r.nif \in NIFs /\ r.place \in 1..(cur[r.nif] - 1) /\ Chosen
    BY DEF IInv, DoneInv, OwnRecord, Typing
  <2>2. MeshInv(r.nif) /\ setup[r.nif].shapes \in Seq(ShapeRecords)
    BY <2>1, SetupTyped DEF IInv, JobInv
  <2>3. r.place \in DOMAIN setup[r.nif].shapes
    <3>1. Len(setup[r.nif].shapes) \in Nat
          /\ DOMAIN setup[r.nif].shapes = 1..Len(setup[r.nif].shapes)
      BY <2>2
    <3>2. cur[r.nif] \in 1..(Len(setup[r.nif].shapes) + 1) BY <2>2 DEF MeshInv
    <3>3. PICK k \in Nat : k = Len(setup[r.nif].shapes) BY <3>1
    <3>4. PICK c \in Nat : c = cur[r.nif] /\ c <= k + 1 BY <3>2, <3>3
    <3>5. PICK i \in Nat : i = r.place /\ 1 <= i /\ i <= c - 1 BY <2>1, <3>4
    <3>6. i \in 1..k BY <3>4, <3>5
    <3> QED BY <3>1, <3>3, <3>5, <3>6
  <2>4. FoundSet(r) = FoundSetAt(r.nif, r.place) BY DEF FoundSet, FoundSetAt, Found
  <2> QED BY <1>1, <1>2, <2>1, <2>2, <2>3, <2>4, SetupTyped DEF Found
<1>6. PICK it : it = Item(r.shape, r.textures) OBVIOUS
<1>7. FromFound(r.matches, r.winner, it, sl, shape, use)
      /\ (r.winner = NoMatch \/ WellFormed(r.winner))
  BY <1>1, <1>2, <1>3, <1>6 DEF RecordFromFound
<1>8. FromFound(r.matches, r.winner, it, sl, shape, use)' BY <1>5, <1>7, FromFoundStays
<1>9. PlainEntries => NothingMissing(r.textures, sl)'
  BY <1>1, NothingMissingStays DEF RecordFromFound
<1> QED BY <1>4, <1>6, <1>7, <1>8, <1>9 DEF RecordFromFound

LEMMA OthersWorkOnFound ==
  ASSUME Grows, IInv, NEW o \in NIFs, WorksOnFound(o),
         step'[o] = step[o], cur'[o] = cur[o], slots'[o] = slots[o],
         matches'[o] = matches[o], winner'[o] = winner[o], shapes'[o] = shapes[o]
  PROVE  WorksOnFound(o)'
<1> SUFFICES ASSUME step[o] \in {"apply", "post"} PROVE WorksOnFound(o)' BY DEF WorksOnFound
<1>1. PICK sl \in TextureSets : sl = FoundSetAt(o, cur[o]) BY ShapeFound
<1>2. PICK shape : shape = setup[o].shapes[cur[o]] OBVIOUS
<1>3. PICK use : use = setup[o].use OBVIOUS
<1>4. FoundSetAt(o, cur[o])' = sl /\ (setup[o].shapes[cur[o]])' = shape /\ (setup[o].use)' = use
      /\ Shape(o)' = Shape(o)
  BY <1>1, <1>2, <1>3 DEF Grows, FoundSetAt, Shape
<1>5. PICK w : w = winner[o] OBVIOUS
<1>6. PICK ms : ms = matches[o] OBVIOUS
<1>7. OfGame(sl) => MatchesOf(sl, shape, use)' = MatchesOf(sl, shape, use)
  BY MatchesStay DEF Grows
<1>8. ASSUME NEW m \in ms, m.shader = "truePBR" PROVE PathsFound(sl, m.entries)'
  <2>1. PathsFound(sl, m.entries) BY <1>1, <1>6, <1>8 DEF WorksOnFound
  <2> QED BY <2>1 DEF PathsFound, isFile, Grows
<1>9. AppliedTo(sl, shape, w)' = AppliedTo(sl, shape, w) /\ EnabledOf(ms)' = EnabledOf(ms)
      /\ (Ready(w) => Ready(w)')
  BY AppliedStays, ReadyStays DEF Grows, EnabledOf
<1> QED BY <1>1, <1>2, <1>3, <1>4, <1>5, <1>6, <1>7, <1>8, <1>9 DEF WorksOnFound, Item

LEMMA OneJobFromFound ==
  ASSUME IInv, FoundInv2, Grows, NEW n \in NIFs, Others(n), WorksOnFound(n)',
         \A r \in done' : r \in done \/ RecordFromFound(r)'
  PROVE  FoundInv2'
<1>1. ASSUME NEW o \in NIFs PROVE WorksOnFound(o)'
  <2>1. CASE o = n BY <2>1
  <2>2. CASE o # n BY <2>2, OthersWorkOnFound DEF Others, FoundInv2
  <2> QED BY <2>1, <2>2
<1>2. ASSUME NEW r \in done' PROVE RecordFromFound(r)' BY RecordStays DEF FoundInv2
<1> QED BY <1>1, <1>2 DEF FoundInv2

LEMMA MatchFromFound ==
  ASSUME IInv, IInv', FoundInv2, NEW n \in NIFs, Match(n)
  PROVE  FoundInv2'
<1>0. Typing /\ Typing' BY DEF IInv
<1>1. step[n] = "match" /\ step' = [step EXCEPT ![n] = "apply"] BY DEF Match
<1>2. /\ cur' = cur /\ shapes' = shapes /\ blocks' = blocks /\ altTextures' = altTextures
      /\ cache' = cache /\ generated' = generated /\ hooks' = hooks /\ done' = done
      /\ options' = options /\ enabled' = enabled /\ setup' = setup
      /\ winner' = [winner EXCEPT ![n] = NoMatch]
  BY DEF Match, meshVars, chosen
<1>3. PICK sl \in TextureSets : sl = FoundSetAt(n, cur[n]) BY <1>1, ShapeFound
<1>4. PICK shape : shape = setup[n].shapes[cur[n]] OBVIOUS
<1>5. PICK use : use = setup[n].use OBVIOUS
<1>6. slots' = [slots EXCEPT ![n] = sl] /\ matches' = [matches EXCEPT ![n] = MatchesOf(sl, shape, use)]
  <2>1. Shape(n) = shape /\ (IF cur[n] \in DOMAIN altTextures[n] THEN altTextures[n][cur[n]]
                             ELSE getTextureSet(n)) = sl
    BY <1>1, <1>3, <1>4, ShapeFound
  <2> QED BY <1>5, <2>1 DEF Match, MatchesOf
<1>7. PICK ms : ms = MatchesOf(sl, shape, use) OBVIOUS
<1>8. step'[n] = "apply" /\ matches'[n] = ms BY <1>0, <1>1, <1>6, <1>7 DEF Typing
<1>9. Grows BY <1>0, <1>2 DEF Grows, Typing
<1>10. Others(n) BY <1>0, <1>1, <1>2, <1>6 DEF Typing, Others
<1>11. FoundSetAt(n, cur[n])' = sl /\ (setup[n].shapes[cur[n]])' = shape /\ (setup[n].use)' = use
  BY <1>2, <1>3, <1>4, <1>5 DEF FoundSetAt
<1>12. OfGame(sl) => MatchesOf(sl, shape, use)' = ms BY <1>7, <1>9, MatchesStay DEF Grows
<1>13. ASSUME NEW m \in ms, m.shader = "truePBR" PROVE PathsFound(sl, m.entries)'
  <2>1. PathsFound(sl, m.entries) BY <1>0, <1>7, <1>13, MatchedPathsFound DEF Typing
  <2> QED BY <1>2, <2>1 DEF PathsFound, isFile
<1>14. WorksOnFound(n)' BY <1>8, <1>11, <1>12, <1>13 DEF WorksOnFound
<1> QED BY <1>2, <1>9, <1>10, <1>14, OneJobFromFound

LEMMA NoWinnerFromFound ==
  ASSUME IInv, IInv', FoundInv2, NEW n \in NIFs, NoWinner(n)
  PROVE  FoundInv2'
<1>0. Typing /\ Typing' /\ JobInv(n) BY DEF IInv
<1>1. step[n] = "apply" /\ step' = [step EXCEPT ![n] = "post"] /\ enabledMatches(n) = {}
  BY DEF NoWinner
<1>2. /\ cur' = cur /\ slots' = slots /\ matches' = matches /\ winner' = winner
      /\ shapes' = shapes /\ blocks' = blocks /\ altTextures' = altTextures
      /\ cache' = cache /\ generated' = generated /\ hooks' = hooks /\ done' = done
      /\ options' = options /\ enabled' = enabled /\ setup' = setup
  BY DEF NoWinner, meshVars, chosen
<1>3. step'[n] = "post" BY <1>0, <1>1 DEF Typing
<1>4. Grows BY <1>0, <1>2 DEF Grows, Typing
<1>5. Others(n) BY <1>0, <1>1, <1>2 DEF Typing, Others
<1>6. PICK sl \in TextureSets : sl = FoundSetAt(n, cur[n]) BY <1>1, ShapeFound
<1>7. PICK shape : shape = setup[n].shapes[cur[n]] OBVIOUS
<1>8. PICK use : use = setup[n].use OBVIOUS
<1>9. /\ FoundSetAt(n, cur[n])' = sl /\ (setup[n].shapes[cur[n]])' = shape
      /\ (setup[n].use)' = use /\ Shape(n)' = shape /\ ~ shape.deleted
      /\ slots'[n] = sl /\ winner'[n] = NoMatch
  <2>1. Shape(n) = shape /\ cur[n] \in DOMAIN setup[n].shapes BY <1>1, <1>7, ShapeFound
  <2>2. setup[n].shapes \in Seq(FoundShapes)
    BY <1>0, ShapePatchingAssumption DEF Typing, Chosen
  <2>3. shape \in FoundShapes BY <1>7, <2>1, <2>2
  <2>4. ~ shape.deleted BY <2>3 DEF FoundShapes
  <2>5. slots[n] = sl /\ winner[n] = NoMatch BY <1>0, <1>1, <1>6 DEF JobInv, MatchInv
  <2> QED BY <1>2, <1>6, <1>7, <1>8, <2>1, <2>4, <2>5 DEF FoundSetAt, Shape
<1>10. PICK ms : ms = matches[n] OBVIOUS
<1>11. /\ OfGame(sl) => MatchesOf(sl, shape, use)' = ms
       /\ \A m \in ms : m.shader = "truePBR" => PathsFound(sl, m.entries)'
       /\ matches'[n] = ms /\ EnabledOf(ms)' = {}
  <2>1. WorksOnFound(n) BY DEF FoundInv2
  <2>2. /\ OfGame(sl) => ms = MatchesOf(sl, shape, use)
        /\ \A m \in ms : m.shader = "truePBR" => PathsFound(sl, m.entries)
    BY <1>1, <1>6, <1>7, <1>8, <1>10, <2>1 DEF WorksOnFound
  <2>3. OfGame(sl) => MatchesOf(sl, shape, use)' = MatchesOf(sl, shape, use)
    BY <1>4, MatchesStay DEF Grows
  <2>4. EnabledOf(ms) = {} BY <1>1, <1>10 DEF enabledMatches, EnabledOf
  <2> QED BY <1>2, <1>10, <2>2, <2>3, <2>4 DEF PathsFound, isFile, EnabledOf
<1>12. WorksOnFound(n)'
  BY <1>3, <1>9, <1>11 DEF WorksOnFound, AppliedTo, Item, Ready
<1> QED BY <1>2, <1>4, <1>5, <1>12, OneJobFromFound

LEMMA ClearFromFound ==
  ASSUME IInv, IInv', FoundInv2, NEW n \in NIFs, clearTextureSets(n)
  PROVE  FoundInv2'
<1>0. Typing /\ Typing' BY DEF IInv
<1>1. step[n] = "finish" /\ step' = [step EXCEPT ![n] = "done"]
      /\ cache' = [cache EXCEPT ![n] = NoCache]
  BY DEF clearTextureSets
<1>2. /\ cur' = cur /\ slots' = slots /\ matches' = matches /\ winner' = winner
      /\ shapes' = shapes /\ blocks' = blocks /\ altTextures' = altTextures
      /\ generated' = generated /\ hooks' = hooks /\ done' = done
      /\ options' = options /\ enabled' = enabled /\ setup' = setup
  BY DEF clearTextureSets, chosen
<1>3. step'[n] = "done" BY <1>0, <1>1 DEF Typing
<1>4. Grows BY <1>0, <1>2 DEF Grows, Typing
<1>5. Others(n) BY <1>0, <1>1, <1>2 DEF Typing, Others
<1>6. WorksOnFound(n)' BY <1>3 DEF WorksOnFound
<1> QED BY <1>2, <1>4, <1>5, <1>6, OneJobFromFound

LEMMA ApplyFromFound ==
  ASSUME IInv, IInv', FoundInv2, NEW n \in NIFs, ApplyWinner(n)
  PROVE  FoundInv2'
<1>w. PICK w : w = firstOf(enabledMatches(n), before) OBVIOUS
<1>it. PICK it : it = applyPatch(Item(Shape(n), slots[n]), transform(w)) OBVIOUS
<1>0. Typing /\ Typing' /\ JobInv(n) /\ Chosen BY DEF IInv, Typing
<1>1. step[n] = "apply" /\ enabledMatches(n) # {} BY DEF ApplyWinner
<1>2. /\ winner' = [winner EXCEPT ![n] = w] /\ addToProcessList(w)
      /\ shapes' = [shapes EXCEPT ![n] = [shapes[n] EXCEPT ![cur[n]] = it.shape]]
      /\ slots' = [slots EXCEPT ![n] = it.slots]
      /\ IF it.shape.deleted THEN NextShape(n)
         ELSE step' = [step EXCEPT ![n] = "post"] /\ cur' = cur
  BY <1>w, <1>it DEF ApplyWinner, Item
<1>3. /\ matches' = matches /\ blocks' = blocks /\ altTextures' = altTextures
      /\ cache' = cache /\ done' = done
      /\ options' = options /\ enabled' = enabled /\ setup' = setup
  BY DEF ApplyWinner, chosen
<1>4. WellFormed(w)
  <2>1. \A o \in matches[n] : WellFormed(o) BY <1>0 DEF JobInv, MatchInv
  <2>2. enabledMatches(n) = EnabledOf(matches[n]) BY DEF enabledMatches, EnabledOf
  <2>3. FirstIn(matches[n], w) BY <1>0, <1>1, <1>w, <2>1, <2>2, FirstOfIsFirst
  <2> QED BY <2>1, <2>3 DEF FirstIn, EnabledOf
<1>5. w # NoMatch BY <1>4, ShapePatchingAssumption DEF WellFormed, NoMatch, Shaders
<1>6. Ready(w)' /\ hooks.cm \subseteq hooks'.cm /\ hooks.sss \subseteq hooks'.sss
      /\ generated \subseteq generated'
  <2>1. CASE w.to = None BY <1>2, <2>1 DEF addToProcessList, Ready
  <2>2. CASE w.to # None
    <3>1. /\ hooks' = [cm |-> hooks.cm \cup {w.path}, sss |-> hooks.sss]
          /\ generated' = generated \cup {CMOutput[w.path]}
      BY <1>2, <2>2 DEF addToProcessList
    <3> QED BY <3>1 DEF Ready
  <2> QED BY <2>1, <2>2
<1>7. Grows BY <1>0, <1>3, <1>6 DEF Grows, Typing
<1>8. cur[n] \in DOMAIN shapes[n] /\ cur[n] \in 1..Len(shapes[n]) /\ cur[n] \in Nat
  BY <1>1, ShapeFound
<1>9. \/ /\ it.shape.deleted /\ cur' = [cur EXCEPT ![n] = cur[n] + 1]
         /\ step' = [step EXCEPT ![n] = step'[n]] /\ step'[n] \in {"match", "finish"}
      \/ /\ ~ it.shape.deleted /\ cur' = cur
         /\ step' = [step EXCEPT ![n] = "post"] /\ step'[n] = "post"
  BY <1>0, <1>2, <1>8, NextPlace DEF Typing
<1>10. Others(n)
  <2>1. \A o \in NIFs \ {n} : step'[o] = step[o] /\ cur'[o] = cur[o] BY <1>0, <1>9 DEF Typing
  <2> QED BY <1>0, <1>2, <1>3, <2>1 DEF Typing, Others
<1>11. WorksOnFound(n)'
  <2> SUFFICES ASSUME step'[n] = "post" PROVE WorksOnFound(n)' BY <1>9 DEF WorksOnFound
  <2>1. ~ it.shape.deleted /\ cur' = cur BY <1>9
  <2>2. PICK sl \in TextureSets : sl = FoundSetAt(n, cur[n]) BY <1>1, ShapeFound
  <2>3. PICK shape : shape = setup[n].shapes[cur[n]] OBVIOUS
  <2>4. PICK use : use = setup[n].use OBVIOUS
  <2>5. PICK ms : ms = matches[n] OBVIOUS
  <2>6. /\ FoundSetAt(n, cur[n])' = sl /\ (setup[n].shapes[cur[n]])' = shape
        /\ (setup[n].use)' = use /\ matches'[n] = ms
    BY <1>3, <2>1, <2>2, <2>3, <2>4, <2>5 DEF FoundSetAt
  <2>7. winner'[n] = w /\ slots'[n] = it.slots /\ Shape(n)' = it.shape
    <3>1. winner'[n] = w /\ slots'[n] = it.slots BY <1>0, <1>2 DEF Typing
    <3>2. shapes'[n] = [shapes[n] EXCEPT ![cur[n]] = it.shape] BY <1>0, <1>2 DEF Typing
    <3> QED BY <1>8, <2>1, <3>1, <3>2 DEF Shape
  <2>8. it = AppliedTo(sl, shape, w)
    <3>1. Shape(n) = shape /\ slots[n] = sl
      BY <1>0, <1>1, <2>2, <2>3, ShapeFound DEF JobInv, MatchInv
    <3> QED BY <1>5, <1>it, <3>1 DEF AppliedTo
  <2>9. it = AppliedTo(sl, shape, w)' BY <1>7, <2>8, AppliedStays
  <2>10. it = Item(it.shape, it.slots)
    <3>1. applyPatch(Item(shape, sl), transform(w)) \in Items
      <4>1. PICK old : old = Item(shape, sl) OBVIOUS
      <4>2. old \in Items BY <1>1, <2>2, <2>3, <4>1, ShapeFound DEF Item, Items
      <4> QED BY <1>4, <4>1, <4>2, WinnerApplied
    <3> QED BY <1>5, <2>8, <3>1 DEF AppliedTo, Items, Item
  <2>11. /\ OfGame(sl) => MatchesOf(sl, shape, use)' = ms
         /\ \A m \in ms : m.shader = "truePBR" => PathsFound(sl, m.entries)'
    <3>1. WorksOnFound(n) BY DEF FoundInv2
    <3>2. /\ OfGame(sl) => ms = MatchesOf(sl, shape, use)
          /\ \A m \in ms : m.shader = "truePBR" => PathsFound(sl, m.entries)
      BY <1>1, <2>2, <2>3, <2>4, <2>5, <3>1 DEF WorksOnFound
    <3>3. OfGame(sl) => MatchesOf(sl, shape, use)' = MatchesOf(sl, shape, use)
      BY <1>7, MatchesStay DEF Grows
    <3> QED BY <1>6, <3>2, <3>3 DEF PathsFound, isFile
  <2> HIDE DEF Item
  <2> QED
    BY <1>5, <1>6, <2>1, <2>6, <2>7, <2>9, <2>10, <2>11 DEF WorksOnFound
<1> QED BY <1>3, <1>7, <1>10, <1>11, OneJobFromFound

\* RestoreDefaultShaders puts nothing in a slot.
LEMMA RestoredSlots ==
  ASSUME NEW it \in Items, NEW s \in Slots
  PROVE  RestoreDefaultShaders(it).slots[s] \in {None, it.slots[s]}
<1>1. PICK p : p = restoreFromParallax(it) OBVIOUS
<1>2. p.slots \in [Slots -> Textures \cup {None}] /\ p.slots[s] \in {None, it.slots[s]}
  BY <1>1 DEF restoreFromParallax, Items, TextureSets
<1>3. restoreFromComplexMaterial(p).slots[s] \in {None, p.slots[s]}
  BY <1>2 DEF restoreFromComplexMaterial
<1> QED BY <1>1, <1>2, <1>3 DEF RestoreDefaultShaders

\* What the post patchers put in the slots: FixSSS what will be generated
\* from the diffuse map, HairFlowMap a texture of the game.
LEMMA PostSlots ==
  ASSUME NEW it \in Items, NEW s \in Slots
  PROVE  LET textures == HairFlowMap(FixSSS(it)).slots
         IN  \/ textures[s] \in {it.slots[s]} \cup Files
             \/ /\ s = "glow" /\ needsFixSSS(it) /\ it.slots["glow"] = it.slots["diffuse"]
                /\ textures[s] = SSSOutput[it.slots["diffuse"]]
<1>0. it.slots \in TextureSets BY DEF Items
<1>1. PICK f : f = FixSSS(it) OBVIOUS
<1>2. /\ f.slots \in [Slots -> Textures \cup Range(SSSOutput)]
      /\ \/ f.slots[s] = it.slots[s]
         \/ /\ s = "glow" /\ needsFixSSS(it) /\ it.slots["glow"] = it.slots["diffuse"]
            /\ f.slots[s] = SSSOutput[it.slots["diffuse"]]
  <2>1. CASE ~ needsFixSSS(it) BY <1>0, <1>1, <2>1 DEF FixSSS, TextureSets
  <2>2. CASE needsFixSSS(it)
    <3>1. /\ f.slots = [it.slots EXCEPT !["glow"] = SSSOutput[it.slots["diffuse"]]]
          /\ it.slots["glow"] = it.slots["diffuse"] /\ it.slots["diffuse"] # None
      BY <1>1, <2>2 DEF FixSSS, needsFixSSS
    <3>2. it.slots["diffuse"] \in Textures BY <1>0 DEF TextureSets, Slots
    <3>3. SSSOutput[it.slots["diffuse"]] \in Range(SSSOutput)
      BY <3>1, <3>2, TexturesOf DEF Range
    <3> QED BY <1>0, <2>2, <3>1, <3>3 DEF TextureSets
  <2> QED BY <2>1, <2>2
<1>3. HairFlowMap(f).slots[s] \in {f.slots[s]} \cup Files
  <2>1. CASE HairFlowMap(f) = f BY <2>1
  <2>2. CASE HairFlowMap(f) # f
    <3>1. PICK t : t = CHOOSE u \in FlowMaps[f.slots["normal"]] : TRUE OBVIOUS
    <3>2. /\ f.slots["normal"] \in Files /\ FlowMaps[f.slots["normal"]] # {}
          /\ HairFlowMap(f).slots = [f.slots EXCEPT !["backlight"] = t]
      BY <2>2, <3>1 DEF HairFlowMap
    <3>3. t \in Files BY <3>1, <3>2, ShapePatchingAssumption
    <3> QED BY <1>2, <3>2, <3>3
  <2> QED BY <2>1, <2>2
<1> QED BY <1>1, <1>2, <1>3

\* After the winner's patch, no slot refers to a texture that is missing ...
LEMMA AppliedNotMissing ==
  ASSUME Typing, PlainEntries, NEW sl \in TextureSets, NEW shape \in ShapeRecords, NEW w,
         w = NoMatch \/ WellFormed(w), Ready(w),
         w.shader = "truePBR" => PathsFound(sl, w.entries),
         NEW it, it = AppliedTo(sl, shape, w), ~ it.shape.deleted, NEW s \in Slots
  PROVE  \/ it.slots[s] \in Files \cup {None, sl[s]}
         \/ s = "cubemap" /\ it.slots[s] = DynCubemap
         \/ /\ s = "envmask" /\ w.path \in hooks.cm \cap Files
            /\ it.slots[s] = CMOutput[w.path]
<1>1. \/ it.slots[s] \in Files \cup {None, sl[s]}
      \/ s = "cubemap" /\ it.slots[s] = DynCubemap
      \/ /\ s = "envmask" /\ w.path \in hooks.cm
         /\ it.slots[s] = CMOutput[w.path] /\ CMOutput[w.path] \in generated
      \/ /\ w.shader = "truePBR" /\ ~ deletes(w.entries)
         /\ it.slots[s] = applyPBRSlots(sl, w.entries)[s]
  BY AppliedTextures
<1>2. hooks.cm \subseteq Files /\ generated \subseteq Outputs BY DEF Typing
<1>3. ASSUME w.shader = "truePBR", ~ deletes(w.entries)
      PROVE  applyPBRSlots(sl, w.entries)[s] \in Files \cup {None, sl[s]}
  <2>1. PICK t : t = applyPBRSlots(sl, w.entries)[s] OBVIOUS
  <2>2. t \in {None, sl[s]} \/ isFile(t) BY <1>3, <2>1 DEF PathsFound
  <2>3. t = sl[s] \/ t \in EntryTextures BY <2>1, SlotsApplied
  <2> QED BY <1>2, <2>1, <2>2, <2>3 DEF isFile, PlainEntries
<1> QED BY <1>1, <1>2, <1>3

\* ... nor after the post patchers.
LEMMA PostNotMissing ==
  ASSUME Typing, PlainEntries, NEW sl \in TextureSets, NEW shape \in ShapeRecords, NEW w,
         w = NoMatch \/ WellFormed(w), Ready(w),
         w.shader = "truePBR" => PathsFound(sl, w.entries),
         NEW it, it = AppliedTo(sl, shape, w), ~ it.shape.deleted,
         NEW r, r = RestoreDefaultShaders(it),
         hooks.cm \subseteq hooks'.cm, hooks.sss \subseteq hooks'.sss,
         needsFixSSS(r) => r.slots["diffuse"] \in hooks'.sss,
         NEW textures, textures = HairFlowMap(FixSSS(r)).slots
  PROVE  NothingMissing(textures, sl)'
<1>1. it \in Items BY AppliedTextures
<1>2. r \in Items BY <1>1, Restored
<1>3. \A s \in Slots :
         \/ it.slots[s] \in Files \cup {None, sl[s]}
         \/ s = "cubemap" /\ it.slots[s] = DynCubemap
         \/ /\ s = "envmask" /\ w.path \in hooks.cm \cap Files
            /\ it.slots[s] = CMOutput[w.path]
  BY AppliedNotMissing
<1>4. \A s \in Slots :
         \/ r.slots[s] \in Files \cup {None, sl[s]}
         \/ s = "cubemap" /\ r.slots[s] = DynCubemap
         \/ /\ s = "envmask" /\ w.path \in hooks.cm \cap Files
            /\ r.slots[s] = CMOutput[w.path]
  BY <1>1, <1>3, RestoredSlots
<1>5. ASSUME NEW s \in Slots
      PROVE  \/ textures[s] \in InTheEnd'
             \/ textures[s] = sl[s]
             \/ s = "glow" /\ sl["glow"] \notin Files
  <2>1. \/ textures[s] \in {r.slots[s]} \cup Files
        \/ /\ s = "glow" /\ needsFixSSS(r) /\ r.slots["glow"] = r.slots["diffuse"]
           /\ textures[s] = SSSOutput[r.slots["diffuse"]]
    BY <1>2, PostSlots
  <2>2. CASE textures[s] \in {r.slots[s]} \cup Files BY <1>4, <2>2 DEF InTheEnd
  <2>3. CASE /\ s = "glow" /\ needsFixSSS(r) /\ r.slots["glow"] = r.slots["diffuse"]
             /\ textures[s] = SSSOutput[r.slots["diffuse"]]
    <3>1. PICK d : d = r.slots["diffuse"] OBVIOUS
    <3>2. d \in hooks'.sss /\ d # None /\ r.slots["glow"] = d
      BY <2>3, <3>1 DEF needsFixSSS
    <3>3. d \in Files \cup {None, sl["glow"]} BY <1>4, <2>3, <3>2
    <3>4. CASE d \in Files BY <2>3, <3>1, <3>2, <3>4 DEF InTheEnd
    <3>5. CASE d \notin Files BY <2>3, <3>2, <3>3, <3>5
    <3> QED BY <3>4, <3>5
  <2> QED BY <2>1, <2>2, <2>3
<1> QED BY <1>5 DEF NothingMissing

LEMMA OtherMeshesUnset ==
  ASSUME Typing, NEW n \in NIFs, NEW shape, NEW textures, setTextureSet(n, shape, textures),
         NEW o \in NIFs \ {n}
  PROVE  shapes'[o] = shapes[o] /\ blocks'[o] = blocks[o] /\ cache'[o] = cache[o]
<1>b. PICK b : b = shape.block OBVIOUS
<1>r. PICK results : results = cache[n][b].results OBVIOUS
<1> DEFINE same == {x \in DOMAIN results : results[x] = textures}
<1>p. PICK place : place = IF same = {} THEN Len(blocks[n]) + 1 ELSE CHOOSE x \in same : TRUE
  OBVIOUS
<1>1. CASE shape.block \notin DOMAIN cache[n]
  <2>1. /\ cache' = [cache EXCEPT ![n] = With(@, b, cached(blocks[n][b], Only(b, textures)))]
        /\ blocks' = [blocks EXCEPT ![n] = [@ EXCEPT ![b] = textures]]
        /\ shapes' = [shapes EXCEPT ![n] = [@ EXCEPT ![cur[n]] = shape]]
    BY <1>b, <1>1 DEF setTextureSet
  <2> QED BY <2>1 DEF Typing
<1>2. CASE shape.block \in DOMAIN cache[n]
  <2>1. blocks' = [blocks EXCEPT ![n] = IF same = {} THEN Append(@, textures) ELSE @]
    BY <1>b, <1>r, <1>2, Zenon DEF setTextureSet
  <2>2. shapes' = [shapes EXCEPT ![n] =
          [@ EXCEPT ![cur[n]] = [shape EXCEPT !.block = place]]]
    BY <1>b, <1>r, <1>p, <1>2, Zenon DEF setTextureSet
  <2>3. cache' = [cache EXCEPT ![n] =
          With(@, b, cached(@[b].original, With(results, place, textures)))]
    BY <1>b, <1>r, <1>p, <1>2, Zenon DEF setTextureSet
  <2> QED BY <2>1, <2>2, <2>3 DEF Typing
<1> QED BY <1>1, <1>2

LEMMA PostFromFound ==
  ASSUME IInv, IInv', FoundInv2, NEW n \in NIFs, Post(n)
  PROVE  FoundInv2'
<1>0. Typing /\ Typing' /\ JobInv(n) /\ Chosen BY DEF IInv, Typing
<1>1. step[n] = "post" BY DEF Post
<1>2. PICK old : old = Item(Shape(n), slots[n]) OBVIOUS
<1>3. PICK restored : restored = RestoreDefaultShaders(old) OBVIOUS
<1>4. PICK it : it = HairFlowMap(FixSSS(restored)) OBVIOUS
<1>5. /\ IF needsFixSSS(restored)
         THEN /\ hooks' = [cm |-> hooks.cm, sss |-> hooks.sss \cup {restored.slots["diffuse"]}]
              /\ generated' = generated \cup {SSSOutput[restored.slots["diffuse"]]}
         ELSE UNCHANGED <<hooks, generated>>
      /\ slots' = [slots EXCEPT ![n] = it.slots]
      /\ IF cur[n] \in DOMAIN altTextures[n]
         THEN /\ altTextures' = [altTextures EXCEPT ![n] = [@ EXCEPT ![cur[n]] = it.slots]]
              /\ shapes' = [shapes EXCEPT ![n] = [@ EXCEPT ![cur[n]] = it.shape]]
              /\ UNCHANGED <<blocks, cache>>
         ELSE setTextureSet(n, it.shape, it.slots) /\ UNCHANGED altTextures
      /\ done' = done \cup {made(n, it.shape, it.slots)}
      /\ NextShape(n)
  BY <1>2, <1>3, <1>4 DEF Post, Item
<1>6. /\ matches' = matches /\ winner' = winner
      /\ options' = options /\ enabled' = enabled /\ setup' = setup
  BY DEF Post, chosen
<1>7. /\ generated \subseteq generated'
      /\ hooks.cm \subseteq hooks'.cm /\ hooks.sss \subseteq hooks'.sss
      /\ needsFixSSS(restored) => restored.slots["diffuse"] \in hooks'.sss
  BY <1>5
<1>8. Grows BY <1>0, <1>6, <1>7 DEF Grows, Typing
<1>9. cur[n] \in 1..Len(shapes[n]) BY <1>1, ShapeFound
<1>10. /\ cur' = [cur EXCEPT ![n] = cur[n] + 1]
       /\ step' = [step EXCEPT ![n] = step'[n]] /\ step'[n] \in {"match", "finish"}
  BY <1>5, <1>9, NextPlace
<1>11. Others(n)
  <2>1. \A o \in NIFs \ {n} : /\ step'[o] = step[o] /\ cur'[o] = cur[o] /\ slots'[o] = slots[o]
                              /\ matches'[o] = matches[o] /\ winner'[o] = winner[o]
    BY <1>0, <1>5, <1>6, <1>10 DEF Typing
  <2>2. \A o \in NIFs \ {n} : /\ shapes'[o] = shapes[o] /\ blocks'[o] = blocks[o]
                              /\ cache'[o] = cache[o] /\ altTextures'[o] = altTextures[o]
    <3>1. CASE cur[n] \in DOMAIN altTextures[n] BY <1>0, <1>5, <3>1 DEF Typing
    <3>2. CASE cur[n] \notin DOMAIN altTextures[n]
      BY <1>0, <1>5, <3>2, OtherMeshesUnset
    <3> QED BY <3>1, <3>2
  <2> QED BY <2>1, <2>2 DEF Others
<1>12. WorksOnFound(n)' BY <1>10 DEF WorksOnFound
<1>13. PICK r : r = made(n, it.shape, it.slots) OBVIOUS
<1>14. PICK sl \in TextureSets : sl = FoundSetAt(n, cur[n]) BY <1>1, ShapeFound
<1>15. PICK shape : shape = setup[n].shapes[cur[n]] OBVIOUS
<1>16. PICK use : use = setup[n].use OBVIOUS
<1>17. /\ r.nif = n /\ r.place = cur[n] /\ r.matches = matches[n] /\ r.winner = winner[n]
       /\ r.shape = it.shape /\ r.textures = it.slots
       /\ FoundSet(r) = sl /\ Found(r) = shape /\ setup[r.nif].use = use
  <2>1. /\ r.nif = n /\ r.place = cur[n] /\ r.matches = matches[n] /\ r.winner = winner[n]
        /\ r.shape = it.shape /\ r.textures = it.slots
    BY <1>13 DEF made
  <2> QED BY <1>14, <1>15, <1>16, <2>1 DEF FoundSet, FoundSetAt, Found
<1>18. shape \in ShapeRecords
  <2>1. cur[n] \in DOMAIN setup[n].shapes BY <1>1, ShapeFound
  <2> QED BY <1>0, <1>15, <2>1, SetupTyped
<1>19. /\ OfGame(sl) => r.matches = MatchesOf(sl, shape, use)
       /\ \A m \in r.matches : m.shader = "truePBR" => PathsFound(sl, m.entries)
       /\ r.winner = NoMatch => EnabledOf(r.matches) = {}
       /\ old = AppliedTo(sl, shape, r.winner)
       /\ ~ old.shape.deleted /\ Ready(r.winner)
  <2>1. WorksOnFound(n) BY DEF FoundInv2
  <2>2. old.shape = Shape(n) BY <1>2 DEF Item
  <2> QED BY <1>1, <1>2, <1>14, <1>15, <1>16, <1>17, <2>1, <2>2 DEF WorksOnFound
<1>20. PICK w : w = r.winner OBVIOUS
<1>21. /\ w = NoMatch \/ WellFormed(w)
       /\ w.shader = "truePBR" => PathsFound(sl, w.entries)
  <2>1. winner[n] = NoMatch \/ FirstIn(matches[n], winner[n])
    BY <1>0, <1>1 DEF JobInv, AppliedInv
  <2>2. \A m \in matches[n] : WellFormed(m) BY <1>0 DEF JobInv, MatchInv
  <2>3. NoMatch.shader # "truePBR" BY ShapePatchingAssumption DEF NoMatch, Shaders
  <2> QED BY <1>17, <1>19, <1>20, <2>1, <2>2, <2>3 DEF FirstIn, EnabledOf
<1>22. it = Item(it.shape, it.slots)
  <2>1. old \in Items BY <1>18, <1>19, <1>20, <1>21, AppliedTextures
  <2>2. restored \in Items BY <1>3, <2>1, Restored
  <2>3. it \in Items BY <1>4, <2>2, PostApplied
  <2> QED BY <2>3 DEF Items, Item
<1>23. FromFound(r.matches, w, Item(r.shape, r.textures), sl, shape, use)
  <2>1. Item(r.shape, r.textures) = it BY <1>17, <1>22
  <2>2. it = AfterPost(old) BY <1>3, <1>4 DEF AfterPost
  <2> QED BY <1>19, <1>20, <2>1, <2>2 DEF FromFound
<1>24. PICK ms : ms = r.matches OBVIOUS
<1>25. PICK new : new = Item(r.shape, r.textures) OBVIOUS
<1>26. FromFound(ms, w, new, sl, shape, use)'
  BY <1>8, <1>18, <1>21, <1>23, <1>24, <1>25, FromFoundStays
<1>27. PICK textures : textures = it.slots OBVIOUS
<1>28. ASSUME PlainEntries PROVE NothingMissing(textures, sl)'
  BY <1>0, <1>3, <1>4, <1>7, <1>18, <1>19, <1>20, <1>21, <1>27, <1>28, PostNotMissing
<1>29. RecordFromFound(r)'
  <2>1. FoundSet(r)' = sl /\ Found(r)' = shape /\ (setup[r.nif].use)' = use
    BY <1>6, <1>17 DEF FoundSet, Found
  <2> QED
    BY <1>17, <1>20, <1>21, <1>24, <1>25, <1>26, <1>27, <1>28, <2>1 DEF RecordFromFound
<1>30. \A x \in done' : x \in done \/ RecordFromFound(x)' BY <1>5, <1>13, <1>29
<1> QED BY <1>8, <1>11, <1>12, <1>30, OneJobFromFound

LEMMA FoundInit == Init => FoundInv2
BY DEF Init, FoundInv2, WorksOnFound

LEMMA FoundStep == IInv /\ IInv' /\ FoundInv2 /\ [Next]_vars => FoundInv2'
<1> SUFFICES ASSUME IInv, IInv', FoundInv2, [Next]_vars PROVE FoundInv2' OBVIOUS
<1>1. CASE Next
  <2>1. PICK n \in NIFs : processNIF(n) BY <1>1 DEF Next
  <2> QED
    BY <2>1, MatchFromFound, NoWinnerFromFound, ApplyFromFound, PostFromFound, ClearFromFound
       DEF processNIF
<1>2. CASE UNCHANGED vars
  <2>1. /\ step' = step /\ cur' = cur /\ slots' = slots /\ options' = options
        /\ enabled' = enabled /\ setup' = setup
        /\ matches' = matches /\ winner' = winner /\ shapes' = shapes
        /\ generated' = generated /\ hooks' = hooks /\ done' = done
    BY <1>2 DEF vars, chosen, meshVars
  <2>2. Grows BY <2>1 DEF Grows, IInv, Typing
  <2>3. \A o \in NIFs : WorksOnFound(o)' BY <2>1, <2>2, OthersWorkOnFound DEF FoundInv2
  <2>4. \A r \in done : RecordFromFound(r)' BY <2>2, RecordStays DEF FoundInv2
  <2> QED BY <2>1, <2>3, <2>4 DEF FoundInv2
<1> QED BY <1>1, <1>2

LEMMA FoundInvariance == Spec => []FoundInv2
<1>1. Init /\ [][Next]_vars => []IInv BY IInvInit, IInvStep, PTL
<1>2. []IInv /\ Init /\ [][Next]_vars => []FoundInv2 BY FoundInit, FoundStep, PTL
<1> QED BY <1>1, <1>2, PTL DEF Spec

\* A record and what its shape was found with.
LEMMA RecordFound ==
  ASSUME IInv, FoundInv2, NEW r \in done
  PROVE  /\ FoundSet(r) \in TextureSets /\ Found(r) \in FoundShapes
         /\ FromFound(r.matches, r.winner, Item(r.shape, r.textures), FoundSet(r), Found(r),
                      setup[r.nif].use)
         /\ \A m \in r.matches : WellFormed(m)
         /\ Distinct(r.matches)
         /\ r.winner = NoMatch \/ FirstIn(r.matches, r.winner)
<1>1. r.nif \in NIFs /\ r.place \in 1..(cur[r.nif] - 1) /\ Chosen
  BY DEF IInv, DoneInv, OwnRecord, Typing
<1>2. MeshInv(r.nif) /\ setup[r.nif].shapes \in Seq(FoundShapes)
  BY <1>1, ShapePatchingAssumption DEF IInv, JobInv, Chosen
<1>3. r.place \in DOMAIN setup[r.nif].shapes
  <2>1. Len(setup[r.nif].shapes) \in Nat
        /\ DOMAIN setup[r.nif].shapes = 1..Len(setup[r.nif].shapes)
    BY <1>2
  <2>2. cur[r.nif] \in 1..(Len(setup[r.nif].shapes) + 1) BY <1>2 DEF MeshInv
  <2>3. PICK k \in Nat : k = Len(setup[r.nif].shapes) BY <2>1
  <2>4. PICK c \in Nat : c = cur[r.nif] /\ c <= k + 1 BY <2>2, <2>3
  <2>5. PICK i \in Nat : i = r.place /\ 1 <= i /\ i <= c - 1 BY <1>1, <2>4
  <2>6. i \in 1..k BY <2>4, <2>5
  <2> QED BY <2>1, <2>3, <2>5, <2>6
<1>4. FoundSet(r) \in TextureSets /\ Found(r) \in FoundShapes
  <2>1. FoundSet(r) = FoundSetAt(r.nif, r.place) BY DEF FoundSet, FoundSetAt, Found
  <2> QED BY <1>1, <1>2, <1>3, <2>1, SetupTyped DEF Found
<1>5. RecordFromFound(r) /\ RightRecord(r) BY DEF FoundInv2, IInv, DoneInv
<1>6. WellFormed(r.winner) => Patched(r)
  BY ShapePatchingAssumption DEF Patched, WellFormed, Shaders
<1> QED BY <1>4, <1>5, <1>6 DEF RecordFromFound, RightRecord, GoodMatches

\* Two shapes found alike have the same winner.
LEMMA SameWinner ==
  ASSUME Chosen, NEW ms, \A m \in ms : WellFormed(m), Distinct(ms),
         NEW v, v = NoMatch \/ FirstIn(ms, v), v = NoMatch => EnabledOf(ms) = {},
         NEW w, w = NoMatch \/ FirstIn(ms, w), w = NoMatch => EnabledOf(ms) = {}
  PROVE  v = w
<1>1. CASE EnabledOf(ms) = {} BY <1>1 DEF FirstIn
<1>2. CASE EnabledOf(ms) # {} BY <1>2, OneFirst
<1> QED BY <1>1, <1>2

LEMMA LikeApplied ==
  ASSUME NEW sl \in TextureSets, NEW a \in ShapeRecords, NEW b \in ShapeRecords, Like(a, b),
         NEW w, w = NoMatch \/ WellFormed(w)
  PROVE  LikeItems(AppliedTo(sl, a, w), AppliedTo(sl, b, w))
<1>x. PICK x : x = Item(a, sl) OBVIOUS
<1>y. PICK y : y = Item(b, sl) OBVIOUS
<1>1. LikeItems(x, y) BY <1>x, <1>y DEF LikeItems, Item, Items
<1>2. CASE w = NoMatch BY <1>x, <1>y, <1>1, <1>2 DEF AppliedTo
<1>3. CASE w # NoMatch
  <2>1. PICK m : m = transform(w) OBVIOUS
  <2>2. /\ m.shader \in Shaders /\ m.entries \subseteq 1..EntryCount
        /\ m.shader \in {"parallax", "complexMaterial"} => m.path \in Textures
    BY <1>3, <2>1, Transformed
  <2>3. LikeItems(applyPatch(x, m), applyPatch(y, m)) BY <1>1, <2>2, LikePatched
  <2> QED BY <1>x, <1>y, <1>3, <2>1, <2>3 DEF AppliedTo
<1> QED BY <1>2, <1>3

LEMMA SameResult == IInv /\ FoundInv2 => SameShapeSameResult
<1> SUFFICES ASSUME IInv, FoundInv2, NEW r \in done, NEW t \in done,
                    OfTheGame(r), FoundSet(r) = FoundSet(t),
                    [Found(r) EXCEPT !.block = 0] = [Found(t) EXCEPT !.block = 0],
                    setup[r.nif].use = setup[t.nif].use
             PROVE  /\ r.textures = t.textures
                    /\ r.shape.type = t.shape.type /\ r.shape.flags = t.shape.flags
  BY DEF SameShapeSameResult
<1>1. PICK sl : sl = FoundSet(r) OBVIOUS
<1>2. PICK a : a = Found(r) OBVIOUS
<1>3. PICK b : b = Found(t) OBVIOUS
<1>4. PICK use : use = setup[r.nif].use OBVIOUS
<1>5. PICK p : p = Item(r.shape, r.textures) OBVIOUS
<1>6. PICK q : q = Item(t.shape, t.textures) OBVIOUS
<1>7. OfGame(sl) BY <1>1 DEF OfTheGame, OfGame, EntryTextures
<1>8. /\ sl \in TextureSets /\ a \in FoundShapes
      /\ FromFound(r.matches, r.winner, p, sl, a, use)
      /\ \A m \in r.matches : WellFormed(m)
      /\ Distinct(r.matches)
      /\ r.winner = NoMatch \/ FirstIn(r.matches, r.winner)
  BY <1>1, <1>2, <1>4, <1>5, RecordFound
<1>9. /\ b \in FoundShapes
      /\ FromFound(t.matches, t.winner, q, sl, b, use)
      /\ t.winner = NoMatch \/ FirstIn(t.matches, t.winner)
  BY <1>1, <1>3, <1>4, <1>6, RecordFound
<1>10. a \in ShapeRecords /\ b \in ShapeRecords BY <1>8, <1>9 DEF FoundShapes, ShapeRecords
<1>11. Like(a, b)
  <2>1. [a EXCEPT !.block = 0] = [b EXCEPT !.block = 0] BY <1>2, <1>3
  <2>2. PICK x : x = [a EXCEPT !.block = 0] OBVIOUS
  <2>3. PICK y : y = [b EXCEPT !.block = 0] OBVIOUS
  <2>4. /\ x.type = a.type /\ x.flags = a.flags /\ x.rigid = a.rigid
        /\ x.ignored = a.ignored /\ x.deleted = a.deleted
    BY <1>10, <2>2 DEF ShapeRecords
  <2>5. /\ y.type = b.type /\ y.flags = b.flags /\ y.rigid = b.rigid
        /\ y.ignored = b.ignored /\ y.deleted = b.deleted
    BY <1>10, <2>3 DEF ShapeRecords
  <2> QED BY <2>1, <2>2, <2>3, <2>4, <2>5 DEF Like
<1>12. r.matches = t.matches BY <1>7, <1>8, <1>9, <1>11, LikeMatches DEF FromFound
<1>13. PICK w : w = r.winner OBVIOUS
<1>14. t.winner = w
  <2>1. Chosen BY DEF IInv, Typing
  <2> QED BY <1>8, <1>9, <1>12, <1>13, <2>1, SameWinner DEF FromFound
<1>15. w = NoMatch \/ WellFormed(w) BY <1>8, <1>13 DEF FirstIn, EnabledOf
<1>16. LikeItems(p, q)
  <2>1. p = AfterPost(AppliedTo(sl, a, w)) /\ q = AfterPost(AppliedTo(sl, b, w))
    BY <1>7, <1>8, <1>9, <1>13, <1>14 DEF FromFound
  <2>2. PICK x : x = AppliedTo(sl, a, w) OBVIOUS
  <2>3. PICK y : y = AppliedTo(sl, b, w) OBVIOUS
  <2>4. LikeItems(x, y) BY <1>8, <1>10, <1>11, <1>15, <2>2, <2>3, LikeApplied
  <2> QED BY <2>1, <2>2, <2>3, <2>4, LikePost
<1> QED BY <1>5, <1>6, <1>16 DEF LikeItems, Like, Item

-----------------------------------------------------------------------------
(* The theorems.                                                           *)

(* The bookkeeping of the mesh jobs stays well formed, and every shape a   *)
(* patcher is done with refers to the textures that were made for it, even *)
(* when it shared its texture set with other shapes (setTextureSet).       *)
THEOREM PatchCorrect == Spec => []PatchSafe
<1> QED BY Invariance, SafeState, PTL

(* No shape gets the shader of a patcher that cannot apply to it as it was *)
(* found, be it matched or transformed to (getMatches, canApply).          *)
THEOREM ApplicableShaders == Spec => []AppliedCanApply
<1>1. IInv => AppliedCanApply
  <2> SUFFICES ASSUME IInv, NEW r \in done, Patched(r)
               PROVE  canApply(effective(r.winner), Found(r), setup[r.nif].use)
    BY DEF AppliedCanApply
  <2>1. RightRecord(r) BY DEF IInv, DoneInv
  <2>2. r.winner \in r.matches BY <2>1 DEF RightRecord, FirstIn, EnabledOf
  <2> QED BY <2>1, <2>2 DEF RightRecord, GoodMatches
<1> QED BY <1>1, Invariance, PTL

(* The shader that won is the one the shape ends with, through the post    *)
(* patchers, although other jobs run between the steps.                    *)
THEOREM ShadersKept == Spec => []PatchedShaderKept
<1>1. IInv => PatchedShaderKept BY DEF IInv, DoneInv, RightRecord, PatchedShaderKept
<1> QED BY <1>1, Invariance, PTL

(* The conflict view, which sorts the matches on its own, highlights the   *)
(* match the patcher applied (sortMatches in both places).                 *)
THEOREM WinnerShown == Spec => []ViewShowsWinner
<1>1. IInv => ViewShowsWinner
  <2> SUFFICES ASSUME IInv, NEW r \in done, Patched(r)
               PROVE  IF r.winner.mod = NoMod THEN visible(r) = {}
                      ELSE r.winner = firstOf(visible(r), viewBefore)
    BY DEF ViewShowsWinner
  <2>1. RightRecord(r) /\ Chosen BY DEF IInv, DoneInv, Typing
  <2>2. /\ \A m \in r.matches : WellFormed(m)
        /\ Distinct(r.matches) /\ FirstIn(r.matches, r.winner)
    BY <2>1 DEF RightRecord, GoodMatches
  <2>3. visible(r) = {m \in r.matches : isMatchVisible(m)} BY DEF visible
  <2> QED BY <2>1, <2>2, <2>3, FirstIsShown
<1> QED BY <1>1, Invariance, PTL

(* What is made of a shape depends on the shape, its textures and its use  *)
(* alone, although the jobs share the file map and the hooks, and the      *)
(* shapes of a mesh its texture sets (processNIFShape): if what the shape  *)
(* and the JSONs name is not what the hooks generate.                      *)
THEOREM SameResults == Spec => []SameShapeSameResult
<1> QED BY Invariance, FoundInvariance, SameResult, PTL

(* No patcher makes a shape refer to a texture that neither the game has   *)
(* nor a hook generates, unless it did so before, if no JSON names a       *)
(* texture that a hook may generate and the game lacks.                    *)
THEOREM TexturesThere ==
  ASSUME PlainEntries
  PROVE  Spec => []NoNewMissingTextures
<1>1. FoundInv2 => NoNewMissingTextures
  <2>1. ASSUME NEW r \in done, RecordFromFound(r)
        PROVE  NothingMissing(r.textures, FoundSet(r))
    BY <2>1 DEF RecordFromFound
  <2> QED BY <2>1 DEF FoundInv2, NothingMissing, NoNewMissingTextures
<1> QED BY <1>1, FoundInvariance, PTL

=============================================================================
